-------------------------- MODULE MCSidecarServer --------------------------
(* Instances of SidecarServer for model checking. *)
EXTENDS SidecarServerInv

CONSTANTS j1, j2

Valid(cmd, job) == [cmd |-> cmd, job |-> job, good |-> TRUE]

\* Downloads of two jobs, and what may interfere with one: cancels of either
\* command, a backend on descriptor 1, and the ways the server ends.
SafetyRequests ==
  {Valid("download_model", j1), Valid("download_model", j2),
   Valid("cancel_download", j1), Valid("cancel", j2), Valid("backend", j1),
   Valid("shutdown", j1), Valid("undecodable", j1), Valid("garbage", j1),
   [cmd |-> "download_model", job |-> j1, good |-> FALSE]}

\* For liveness: every kind of step with few requests.
LiveRequests ==
  {Valid(cmd, j1) : cmd \in {"download_model", "cancel_download", "backend",
                             "install_model", "shutdown", "health"}}

\* A download and its cancel.
CancelRequests == {Valid(cmd, j1) : cmd \in {"download_model", "cancel_download"}}
=============================================================================
