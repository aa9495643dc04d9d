----------------------------- MODULE Rendering -----------------------------
(***************************************************************************)
(* What an action of the plugin is to the host that called it and to who   *)
(* looks at the image: the abstract specification OfxRender implements.    *)
(* There are no processes, pipes, signals or clocks here.  A call into the *)
(* sidecar begins and returns; all that is left of the sidecar is that it  *)
(* may complete the outputs of an inference, and only while the call for   *)
(* it lasts.                                                               *)
(***************************************************************************)
VARIABLES
  phase,    \* "before", "calling", "drawing", "failed", "drawn", "over"
  job,      \* the job directory: "none", "there", "removed"
  outputs,  \* the inference has put all of its outputs there
  picture   \* what the window shows: "host", "frame", "status", or a "mixture"

vars == <<phase, job, outputs, picture>>

Init == phase = "before" /\ job = "none" /\ ~outputs /\ picture = "host"

\* A render makes a job directory of its own.
Prepare ==
  /\ phase = "before" /\ job = "none"
  /\ job' = "there"
  /\ UNCHANGED <<phase, outputs, picture>>

\* Without a job directory the call is for a status or a warmup.
Call ==
  /\ phase = "before"
  /\ phase' = "calling"
  /\ UNCHANGED <<job, outputs, picture>>

Infer ==
  /\ phase = "calling" /\ job = "there"
  /\ outputs' = TRUE
  /\ UNCHANGED <<phase, job, picture>>

\* The call of a render has succeeded only if all of its outputs are there.
Return ==
  /\ phase = "calling"
  /\ \/ job = "none" /\ phase' = "over" /\ picture' \in {picture, "status"}
     \/ job = "there" /\ outputs /\ phase' = "drawing" /\ picture' = picture
     \/ job = "there" /\ phase' = "failed" /\ picture' = picture
  /\ UNCHANGED <<job, outputs>>

Draw ==
  /\ phase = "drawing" /\ picture # "frame"
  /\ picture' \in {"mixture", "frame"}
  /\ UNCHANGED <<phase, job, outputs>>

\* The frame is complete.
Complete ==
  /\ phase = "drawing" /\ picture = "frame"
  /\ phase' = "drawn"
  /\ UNCHANGED <<job, outputs, picture>>

\* An abort or an error, in the middle of the frame too.
Break ==
  /\ phase \in {"before", "drawing"}
  /\ phase' = "failed"
  /\ UNCHANGED <<job, outputs, picture>>

\* Whatever the window shows by then, it shows the status in the end.
ShowStatus ==
  /\ phase = "failed"
  /\ phase' = "drawn" /\ picture' = "status"
  /\ UNCHANGED <<job, outputs>>

\* A warmup that is not wanted any more.
Withdraw ==
  /\ phase = "before" /\ job = "none"
  /\ phase' = "over"
  /\ UNCHANGED <<job, outputs, picture>>

\* The job directory goes last, and nobody makes it again.
Remove ==
  /\ phase = "drawn"
  /\ phase' = "over" /\ job' = IF job = "there" THEN "removed" ELSE job
  /\ UNCHANGED <<outputs, picture>>

Next ==
  \/ Prepare \/ Call \/ Infer \/ Return \/ Draw \/ Complete
  \/ Break \/ ShowStatus \/ Withdraw \/ Remove

Spec == Init /\ [][Next]_vars
=============================================================================
