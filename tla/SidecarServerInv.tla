-------------------------- MODULE SidecarServerInv --------------------------
(***************************************************************************)
(* The inductive invariant of SidecarServer.  It says which thread holds   *)
(* which request at each program counter, what the locks and the busy gate *)
(* exclude, and how the cancel set relates to the running download.        *)
(***************************************************************************)
EXTENDS SidecarServer

\* The main thread, or the worker, owes a response to the request it read.
MainHolds   == pc["main"] \in {"handle", "enter_import", "import", "enter_run", "run",
                               "write", "flush"}
WorkerHolds == pc["worker"] \in {"started", "poll", "install", "finish", "write", "flush"}

\* write_lock is held exactly while a line waits to be flushed, and the text
\* buffer holds that line only.
LockInv ==
  /\ \A t \in Threads : lock = t <=> pc[t] = "flush"
  /\ outBuf = IF lock = "free" THEN <<>> ELSE <<resp[lock]>>

\* The gate: what the main thread does while a worker lives.
GateInv ==
  /\ pc["main"] \in {"enter_import", "import", "enter_run", "run"} => ~WorkerAlive
  /\ pc["main"] = "handle" /\ WorkerAlive => reqs[taken].cmd \in PollCommands
  /\ fd1 = "capture" => pc["main"] \in {"import", "run"}
  /\ stopping => pc["main"] \in {"write", "flush", "exited"} /\ ~WorkerAlive

\* Who answers what: a held request is not on the pipe, and the two threads
\* never hold the same one.
HoldInv ==
  /\ MainHolds => taken > 0 /\ ~Answered(taken)
  /\ WorkerHolds => ~Answered(wReq)
  /\ WorkerAlive => wReq > 0
  /\ MainHolds => wReq # taken
  /\ pc["main"] \in {"write", "flush"} =>
       resp["main"].req = taken /\ resp["main"].code \notin {"noise", "cancelled"}
  /\ pc["worker"] \in {"finish", "write", "flush"} =>
       resp["worker"].req = wReq /\ resp["worker"].code # "noise"
  /\ \A i \in 1 .. Len(pipe) : pipe[i].req <= taken
  /\ OneAnswerEach

\* Nothing read is forgotten: it is answered, or a thread holds it.
AccountInv ==
  /\ exitCode = 1 => ~Alive
  /\ ~Alive /\ exitCode = 0 /\ hostReads => ~WorkerAlive
  /\ hostReads /\ (Alive \/ exitCode = 0) =>
       \A r \in 1 .. taken : \/ Answered(r)
                             \/ MainHolds /\ r = taken
                             \/ WorkerHolds /\ r = wReq

\* The marks of the running download, and of no other, are in cancelAt.
CancelInv ==
  /\ \A m \in cancelAt : m[1] <= wReq
  /\ pc["worker"] = "started" => <<wReq, "poll">> \notin cancelAt
  /\ pc["worker"] = "poll" /\ <<wReq, "poll">> \in cancelAt => reqs[wReq].job \in cancelled
  /\ pc["worker"] = "poll" /\ reqs[wReq].job \in cancelled => <<wReq, "poll">> \in cancelAt
  /\ pc["worker"] = "install" => <<wReq, "poll">> \notin cancelAt
  /\ pc["worker"] \in {"finish", "write", "flush"} =>
       /\ <<wReq, "poll">> \in cancelAt => resp["worker"].code # "ok"
       /\ resp["worker"].code = "cancelled" => <<wReq, "poll">> \in cancelAt
  /\ CancelInTimeHonoured
  /\ CancelledOnlyIfAsked

\* The inductive invariant: the types, the exclusion of the two threads, the
\* gate, and the account of every request read.
IInv ==
  /\ TypeOK
  /\ LockInv
  /\ GateInv
  /\ HoldInv
  /\ NothingSwallowed
  /\ AccountInv
  /\ CancelInv

\* What the promise to the host rests on besides: the worker serves downloads,
\* which the main thread only refuses, on account of the worker's request,
\* which is itself never refused.
PromiseInv ==
  /\ WorkerAlive => reqs[wReq].cmd = "download_model"
  /\ MainHolds /\ pc["main"] \notin {"write", "flush"} => reqs[taken].cmd # "download_model"
  /\ pc["main"] \in {"write", "flush"} =>
       /\ reqs[taken].cmd = "download_model" => resp["main"].code = "busy"
       /\ resp["main"].code = "busy" => wReq > 0 /\ reqs[wReq].cmd = "download_model"
  /\ pc["worker"] \in {"finish", "write", "flush"} => resp["worker"].code # "busy"
  /\ \A i \in 1 .. Len(pipe) : wReq > 0 /\ pipe[i].req = wReq => pipe[i].code # "busy"

\* Native output reaches the pipe only where a redirection has failed.
CaptureInv ==
  /\ pc["main"] \in {"import", "run"} /\ fd1 = "pipe" => fellBack
  /\ PipeIsClean
=============================================================================
