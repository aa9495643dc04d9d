--------------------------- MODULE OfxRenderInv ----------------------------
(***************************************************************************)
(* The inductive invariant behind the safety properties of OfxRender.  It  *)
(* relates where the plugin and the client are to what the sidecar, the    *)
(* pipes and the job directory can then hold.                              *)
(***************************************************************************)
EXTENDS OfxRender, Functions

Delivered == [id |-> "infer", ok |-> TRUE]

\* What the client has done to the sidecar by the time it gets somewhere.
ProcessInv ==
  /\ pc \in {"launch", "end", "returned"} =>
       ~stdin /\ ~stdout /\ (proc \in {"none", "reaped"} \/ signal = "kill")
  /\ pc = "wait_kill" => signal = "kill"
  /\ pc = "close_all" => proc = "reaped" \/ signal = "kill"

\* What the pipes can hold: an inference only if one was called for, its
\* success only once its blobs are written, the answer to a shutdown only
\* from a sidecar that takes no further request.
PipesInv ==
  /\ "infer" \in Range(toSidecar) => call = "infer"
  /\ Delivered \in Range(fromSidecar) => written = Blobs
  /\ \A r \in Range(fromSidecar) :
       r.id = "shutdown" => worker = "bye" \/ proc # "up"
  /\ ExitIsUnderWay

\* What the client knows of the result while it still has an answer to read,
\* and which command the answer is for.
ResultInv ==
  /\ pc \in {"check", "write", "await", "await_ack"} /\ cmd # "shutdown" =>
       cmd \in (IF call = "probe" THEN {"health", "status"} ELSE {call})
  /\ pc \in {"launch", "await_ack"} => result # "ok"
  /\ pc \in {"check", "write", "await"} /\ cmd # "shutdown" => result # "ok"
  /\ pc = "await_ack" => cancel = "sent" /\ cmd \in Cancellable
  /\ pc = "launch" /\ launches # 0 => launches = 1 /\ result = "stopped"
  /\ SuccessIsDelivered

\* Which calls may touch the job directory, and when.
JobDirInv ==
  /\ written # 0 => dir # "none"
  /\ step = "begin" => /\ call = "infer" /\ dir = "none" /\ proc = "none"
                       /\ worker = "idle" /\ toSidecar = <<>>
  /\ step # "calling" => pc = "returned"
  /\ call # "infer" => dir = "none" /\ worker # "infer"
  /\ \/ step = "inputs"
     \/ step \in {"calling", "readback", "writeback"} /\ call = "infer"
     => dir = "there"
  /\ RemovedDirStaysRemoved

\* The rows before the next one hold the frame.
RowsInv ==
  /\ step \in {"begin", "inputs", "calling", "readback"} => row = 1
  /\ step = "writeback" => \A r \in 1 .. row - 1 : output[r] = "frame"
  /\ OutputNeverMixed

\* The conjunction is inductive; each part needs the others.
RenderInv ==
  TypeOK /\ ProcessInv /\ PipesInv /\ ResultInv /\ JobDirInv /\ RowsInv

=============================================================================
