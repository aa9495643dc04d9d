------------------------ MODULE SidecarServerProofs ------------------------
(***************************************************************************)
(* IInv of SidecarServerInv is an inductive invariant of SidecarServer, so *)
(* the safety properties it contains hold for any set of jobs and commands *)
(* and for any number of requests and chunks.                              *)
(*                                                                         *)
(* One lemma per action shows that the step keeps IInv.  Each is laid out  *)
(* the same way: <1>i splits IInv, <1>u names what the step leaves alone,  *)
(* <1>e says what it does to the rest in plain equations, and one step     *)
(* follows for each conjunct of IInv.                                      *)
(*                                                                         *)
(* Then the server keeps the promise of Answering: every behaviour of      *)
(* SidecarServer, seen as the requests that were asked and the lines that  *)
(* came back, is a behaviour of the abstract specification.  PromiseInv    *)
(* and CaptureInv hold beside IInv, action by action; and every step maps  *)
(* to a step of Answering or a stutter.                                    *)
(***************************************************************************)
EXTENDS SidecarServerInv, SequenceTheorems, TLAPS

-----------------------------------------------------------------------------
(* What the elements of the sequences are, and what appending does. *)

\* The elements of the sequences have their types.
LEMMA Elements ==
  ASSUME TypeOK
  PROVE  /\ Len(reqs) \in Nat /\ Len(pipe) \in Nat /\ Len(captured) \in Nat
         /\ \A r \in 1 .. Len(reqs) : reqs[r] \in Request
         /\ \A i \in 1 .. Len(pipe) : pipe[i] \in Line /\ pipe[i].req \in Nat
         /\ \A t \in Threads : resp[t] \in Line /\ resp[t].req \in Nat
<1>1. Len(reqs) \in Nat /\ Len(pipe) \in Nat /\ Len(captured) \in Nat
  BY DEF TypeOK
<1>2. \A r \in 1 .. Len(reqs) : reqs[r] \in Request
  BY DEF TypeOK
<1>3. \A l \in Line : l.req \in Nat
  BY DEF Line
<1>4. \A i \in 1 .. Len(pipe) : pipe[i] \in Line
  BY DEF TypeOK
<1>5. \A t \in Threads : resp[t] \in Line
  BY DEF TypeOK
<1> QED BY <1>1, <1>2, <1>3, <1>4, <1>5

\* Who holds write_lock, and what the text buffer then holds.
LEMMA LockHolder ==
  ASSUME TypeOK, LockInv
  PROVE  /\ lock \in {"main", "worker", "free"}
         /\ pc["main"] # "flush" => lock # "main"
         /\ pc["worker"] # "flush" => lock # "worker"
         /\ lock # "free" => outBuf = <<resp[lock]>> /\ pc[lock] = "flush"
         /\ lock = "free" => outBuf = <<>>
  BY DEF TypeOK, LockInv, Threads

\* What Append does to a sequence.
LEMMA Appended ==
  ASSUME NEW S, NEW s \in Seq(S), NEW e \in S
  PROVE  /\ Append(s, e) \in Seq(S)
         /\ Len(Append(s, e)) = Len(s) + 1
         /\ \A i \in 1 .. Len(s) : Append(s, e)[i] = s[i]
         /\ Append(s, e)[Len(s) + 1] = e
         /\ s \o <<e>> = Append(s, e)
         /\ s \o <<>> = s
  OBVIOUS

\* Noise is a line that answers no request.
LEMMA NoiseIsLine == Noise \in Line /\ Noise.req = 0
  BY DEF Noise, Line, Codes

\* A response is a line that names its request and its code.
LEMMA AnswerIsLine ==
  ASSUME NEW r \in Nat, NEW code \in Codes
  PROVE  Answer(r, code) \in Line /\ Answer(r, code).req = r /\ Answer(r, code).code = code
  BY DEF Answer, EchoedId, Line

\* One more line on the pipe: which requests are answered, and the properties
\* of every line, hold of the longer pipe when they hold of the new line.
LEMMA PipeGrows ==
  ASSUME TypeOK, NEW l \in Line, pipe' = Append(pipe, l)
  PROVE  /\ pipe' \in Seq(Line) /\ Len(pipe) \in Nat
         /\ \A i \in 1 .. Len(pipe') :
               (i \in 1 .. Len(pipe) /\ pipe'[i] = pipe[i]) \/ (i = Len(pipe) + 1 /\ pipe'[i] = l)
         /\ \A i \in 1 .. Len(pipe) : i \in 1 .. Len(pipe') /\ pipe'[i] = pipe[i]
         /\ \A r : (\E i \in 1 .. Len(pipe') : pipe'[i].req = r)
                     <=> (\E i \in 1 .. Len(pipe) : pipe[i].req = r) \/ l.req = r
<1>1. /\ pipe \in Seq(Line) /\ Len(pipe) \in Nat
      /\ pipe' \in Seq(Line) /\ Len(pipe') = Len(pipe) + 1
      /\ \A i \in 1 .. Len(pipe) : pipe'[i] = pipe[i]
      /\ pipe'[Len(pipe) + 1] = l
  BY Appended DEF TypeOK
<1>2. \A i \in 1 .. Len(pipe') : i \in 1 .. Len(pipe) \/ i = Len(pipe) + 1
  BY <1>1
<1>3. 1 .. Len(pipe) \subseteq 1 .. Len(pipe') /\ Len(pipe) + 1 \in 1 .. Len(pipe')
  BY <1>1
<1>4. ASSUME NEW i \in 1 .. Len(pipe')
      PROVE  \/ i \in 1 .. Len(pipe) /\ pipe'[i] = pipe[i]
             \/ i = Len(pipe) + 1 /\ pipe'[i] = l
  <2>1. CASE i \in 1 .. Len(pipe)
    BY <1>1, <2>1
  <2>2. CASE i = Len(pipe) + 1
    BY <1>1, <2>2
  <2> QED BY <1>2, <2>1, <2>2
<1>5. \A i \in 1 .. Len(pipe) : i \in 1 .. Len(pipe') /\ pipe'[i] = pipe[i]
  BY <1>1, <1>3
<1>6. ASSUME NEW r
      PROVE  (\E i \in 1 .. Len(pipe') : pipe'[i].req = r)
                <=> (\E i \in 1 .. Len(pipe) : pipe[i].req = r) \/ l.req = r
  <2>1. ASSUME NEW i \in 1 .. Len(pipe'), pipe'[i].req = r
        PROVE  (\E k \in 1 .. Len(pipe) : pipe[k].req = r) \/ l.req = r
    BY <1>4, <2>1
  <2>2. ASSUME NEW i \in 1 .. Len(pipe), pipe[i].req = r
        PROVE  \E k \in 1 .. Len(pipe') : pipe'[k].req = r
    BY <1>5, <2>2
  <2>3. ASSUME l.req = r
        PROVE  \E k \in 1 .. Len(pipe') : pipe'[k].req = r
    BY <1>1, <1>3, <2>3
  <2> QED BY <2>1, <2>2, <2>3
<1>7. \A i \in 1 .. Len(pipe') :
        (i \in 1 .. Len(pipe) /\ pipe'[i] = pipe[i]) \/ (i = Len(pipe) + 1 /\ pipe'[i] = l)
  BY <1>4
<1>8. \A r : (\E i \in 1 .. Len(pipe') : pipe'[i].req = r)
               <=> (\E i \in 1 .. Len(pipe) : pipe[i].req = r) \/ l.req = r
  BY <1>6
<1> QED BY <1>1, <1>5, <1>7, <1>8

-----------------------------------------------------------------------------
(* What an update of a thread's program counter or response leaves alone. *)

\* Setting the main thread's program counter.
LEMMA MainPcSet ==
  ASSUME TypeOK, NEW v \in MainPcs, pc' = [pc EXCEPT !["main"] = v]
  PROVE  /\ pc' \in [Threads -> MainPcs \cup WorkerPcs]
         /\ pc'["main"] = v /\ pc'["worker"] = pc["worker"]
  BY DEF TypeOK, Threads

\* Setting the worker's program counter.
LEMMA WorkerPcSet ==
  ASSUME TypeOK, NEW v \in WorkerPcs, pc' = [pc EXCEPT !["worker"] = v]
  PROVE  /\ pc' \in [Threads -> MainPcs \cup WorkerPcs]
         /\ pc'["worker"] = v /\ pc'["main"] = pc["main"]
  BY DEF TypeOK, Threads

\* Setting the response of one thread.
LEMMA RespSet ==
  ASSUME TypeOK, NEW t \in Threads, NEW r \in Nat, NEW code \in Codes,
         resp' = [resp EXCEPT ![t] = Answer(r, code)]
  PROVE  /\ resp' \in [Threads -> Line]
         /\ resp'[t].req = r /\ resp'[t].code = code
         /\ \A u \in Threads \ {t} : resp'[u] = resp[u]
  BY AnswerIsLine DEF TypeOK

\* The main thread owes a response.
LEMMA MainResponds ==
  ASSUME TypeOK, NEW r \in Nat, NEW code \in Codes, Respond("main", r, code)
  PROVE  /\ pc' \in [Threads -> MainPcs \cup WorkerPcs]
         /\ pc'["main"] = "write" /\ pc'["worker"] = pc["worker"]
         /\ resp' \in [Threads -> Line]
         /\ resp'["main"].req = r /\ resp'["main"].code = code
         /\ resp'["worker"] = resp["worker"]
<1>1. pc' = [pc EXCEPT !["main"] = "write"] /\ resp' = [resp EXCEPT !["main"] = Answer(r, code)]
  BY DEF Respond
<1>2. "write" \in MainPcs /\ "main" \in Threads /\ "worker" \in Threads \ {"main"}
  BY DEF MainPcs, Threads
<1> QED BY <1>1, <1>2, MainPcSet, RespSet

\* The worker's response and next program counter are set.
LEMMA WorkerResponds ==
  ASSUME TypeOK, NEW r \in Nat, NEW code \in Codes, NEW v \in WorkerPcs,
         pc' = [pc EXCEPT !["worker"] = v],
         resp' = [resp EXCEPT !["worker"] = Answer(r, code)]
  PROVE  /\ pc' \in [Threads -> MainPcs \cup WorkerPcs]
         /\ pc'["worker"] = v /\ pc'["main"] = pc["main"]
         /\ resp' \in [Threads -> Line]
         /\ resp'["worker"].req = r /\ resp'["worker"].code = code
         /\ resp'["main"] = resp["main"]
<1>1. "worker" \in Threads /\ "main" \in Threads \ {"worker"}
  BY DEF Threads
<1>2. /\ resp' \in [Threads -> Line]
      /\ resp'["worker"].req = r /\ resp'["worker"].code = code
      /\ resp'["main"] = resp["main"]
  BY <1>1, RespSet
<1> QED BY <1>2, WorkerPcSet

-----------------------------------------------------------------------------
(* The invariant is inductive: one lemma per action. *)

\* A request the host sends is not read yet: no thread holds it.
LEMMA HostSendStep ==
  ASSUME IInv, NEW rq \in Request, HostSend(rq)
  PROVE  IInv'
<1>i. TypeOK /\ LockInv /\ GateInv /\ HoldInv /\ NothingSwallowed /\ AccountInv /\ CancelInv
  BY DEF IInv
<1>u. UNCHANGED <<stdinOpen, hostReads, taken, pc, resp, stopping, exitCode, wReq,
                  polls, cancelled, lock, outBuf, fd1, pipe, captured, fellBack,
                  cancelAt>>
  BY DEF HostSend, pipeVars, workerVars, outVars
<1>e. /\ reqs' \in Seq(Request) /\ taken \in 0 .. Len(reqs) /\ taken \in 0 .. Len(reqs')
      /\ wReq \in Nat /\ wReq <= taken
      /\ \A r \in 1 .. Len(reqs) : reqs'[r] = reqs[r]
  <2>1. reqs \in Seq(Request) /\ Len(reqs) \in Nat /\ taken \in 0 .. Len(reqs) /\ wReq \in 0 .. taken
    BY <1>i, Elements DEF TypeOK
  <2>2. reqs' = Append(reqs, rq)
    BY DEF HostSend
  <2>3. /\ Append(reqs, rq) \in Seq(Request)
        /\ Len(Append(reqs, rq)) = Len(reqs) + 1
        /\ \A r \in 1 .. Len(reqs) : Append(reqs, rq)[r] = reqs[r]
    BY <2>1, Appended
  <2>5. taken \in 0 .. Len(reqs) + 1
    BY <2>1
  <2> QED BY <2>1, <2>2, <2>3, <2>5
<1>1. TypeOK'
  BY <1>i, <1>u, <1>e DEF TypeOK
<1>2. LockInv'
  BY <1>i, <1>u, <1>e DEF LockInv, Threads
<1>3. GateInv'
  BY <1>i, <1>u, <1>e DEF GateInv, WorkerAlive, HoldInv, MainHolds
<1>4. HoldInv'
  BY <1>i, <1>u, <1>e DEF HoldInv, MainHolds, WorkerHolds, WorkerAlive, Answered, OneAnswerEach
<1>5. NothingSwallowed'
  BY <1>i, <1>u, <1>e DEF NothingSwallowed
<1>6. AccountInv'
  BY <1>i, <1>u, <1>e DEF AccountInv, MainHolds, WorkerHolds, Answered, Alive, WorkerAlive
<1>7. CancelInv'
  <2>1. CancelInTimeHonoured' /\ CancelledOnlyIfAsked'
    BY <1>i, <1>u DEF CancelInv, CancelInTimeHonoured, CancelledOnlyIfAsked
  <2>2. pc["worker"] = "poll" => reqs'[wReq] = reqs[wReq]
    BY <1>i, <1>e DEF HoldInv, WorkerAlive
  <2> QED BY <1>i, <1>u, <2>1, <2>2 DEF CancelInv
<1> QED BY <1>1, <1>2, <1>3, <1>4, <1>5, <1>6, <1>7 DEF IInv

\* Closing stdin touches nothing the invariant speaks of.
LEMMA HostCloseStdinStep ==
  ASSUME IInv, HostCloseStdin
  PROVE  IInv'
<1>i. TypeOK /\ LockInv /\ GateInv /\ HoldInv /\ NothingSwallowed /\ AccountInv /\ CancelInv
  BY DEF IInv
<1>u. UNCHANGED <<reqs, hostReads, taken, pc, resp, stopping, exitCode, wReq, polls,
                  cancelled, lock, outBuf, fd1, pipe, captured, fellBack, cancelAt>>
  BY DEF HostCloseStdin, pipeVars, workerVars, outVars
<1>1. TypeOK'
  BY <1>i, <1>u DEF TypeOK, HostCloseStdin
<1>2. LockInv'
  BY <1>i, <1>u DEF LockInv, Threads
<1>3. GateInv'
  BY <1>i, <1>u DEF GateInv, WorkerAlive
<1>4. HoldInv'
  BY <1>i, <1>u DEF HoldInv, MainHolds, WorkerHolds, WorkerAlive, Answered, OneAnswerEach
<1>5. NothingSwallowed'
  BY <1>i, <1>u DEF NothingSwallowed
<1>6. AccountInv'
  BY <1>i, <1>u DEF AccountInv, MainHolds, WorkerHolds, Answered, Alive, WorkerAlive
<1>7. CancelInv'
  BY <1>i, <1>u DEF CancelInv, CancelInTimeHonoured, CancelledOnlyIfAsked
<1> QED BY <1>1, <1>2, <1>3, <1>4, <1>5, <1>6, <1>7 DEF IInv

\* With the host gone only the weaker part of AccountInv is left.
LEMMA HostGoneStep ==
  ASSUME IInv, HostGone
  PROVE  IInv'
<1>i. TypeOK /\ LockInv /\ GateInv /\ HoldInv /\ NothingSwallowed /\ AccountInv /\ CancelInv
  BY DEF IInv
<1>u. UNCHANGED <<reqs, taken, pc, resp, stopping, exitCode, wReq, polls, cancelled,
                  lock, outBuf, fd1, pipe, captured, fellBack, cancelAt>>
  BY DEF HostGone, pipeVars, workerVars, outVars
<1>1. TypeOK'
  BY <1>i, <1>u DEF TypeOK, HostGone
<1>2. LockInv'
  BY <1>i, <1>u DEF LockInv, Threads
<1>3. GateInv'
  BY <1>i, <1>u DEF GateInv, WorkerAlive
<1>4. HoldInv'
  BY <1>i, <1>u DEF HoldInv, MainHolds, WorkerHolds, WorkerAlive, Answered, OneAnswerEach
<1>5. NothingSwallowed'
  BY <1>i, <1>u DEF NothingSwallowed
<1>6. AccountInv'
  BY <1>i, <1>u DEF AccountInv, MainHolds, WorkerHolds, Answered, Alive, WorkerAlive, HostGone
<1>7. CancelInv'
  BY <1>i, <1>u DEF CancelInv, CancelInTimeHonoured, CancelledOnlyIfAsked
<1> QED BY <1>1, <1>2, <1>3, <1>4, <1>5, <1>6, <1>7 DEF IInv

\* The line read next was never answered, and has no mark in cancelAt.
LEMMA MainReadStep ==
  ASSUME IInv, MainRead
  PROVE  IInv'
<1>i. TypeOK /\ LockInv /\ GateInv /\ HoldInv /\ NothingSwallowed /\ AccountInv /\ CancelInv
  BY DEF IInv
<1>u. UNCHANGED <<reqs, stdinOpen, hostReads, stopping, exitCode, polls, cancelled,
                  lock, outBuf, fd1, pipe, captured, fellBack, cancelAt>>
  BY DEF MainRead, pipeVars, workerVars, outVars
<1>e. /\ pc["main"] = "read" /\ taken \in Nat /\ taken + 1 \in 1 .. Len(reqs)
      /\ taken' = taken + 1 /\ Len(reqs) \in Nat
      /\ wReq \in Nat /\ wReq <= taken /\ wReq' \in 0 .. taken + 1
      /\ ~Answered(taken + 1)
      /\ pc' \in [Threads -> MainPcs \cup WorkerPcs]
      /\ pc'["main"] \in MainPcs /\ pc'["worker"] \in WorkerPcs
      /\ resp' \in [Threads -> Line] /\ resp'["worker"] = resp["worker"]
      /\ \/ /\ pc'["main"] = "read" /\ pc["worker"] \in {"none", "dead"} /\ pc'["worker"] = "started"
            /\ wReq' = taken + 1 /\ resp' = resp
         \/ /\ pc'["main"] = "write" /\ pc'["worker"] = pc["worker"] /\ wReq' = wReq
            /\ resp'["main"].req = taken + 1 /\ resp'["main"].code = "busy"
         \/ /\ pc'["main"] = "handle" /\ wReq' = wReq /\ resp' = resp
            /\ \/ /\ pc["worker"] \notin {"none", "dead"} /\ pc'["worker"] = pc["worker"]
                  /\ reqs[taken + 1].cmd \in PollCommands
               \/ pc["worker"] \in {"none", "dead"} /\ pc'["worker"] = "none"
  <2>1. /\ taken \in Nat /\ taken + 1 \in 1 .. Len(reqs) /\ Len(reqs) \in Nat
        /\ wReq \in Nat /\ wReq <= taken /\ wReq \in 0 .. taken + 1 /\ taken + 1 \in 0 .. taken + 1
    BY <1>i, Elements DEF TypeOK, MainRead
  <2>2. ~Answered(taken + 1)
    <3>1. \A i \in 1 .. Len(pipe) : pipe[i].req <= taken /\ pipe[i].req \in Nat
      BY <1>i, Elements DEF HoldInv
    <3> QED BY <2>1, <3>1 DEF Answered
  <2>3. /\ pc["main"] = "read" /\ pc["worker"] \in WorkerPcs /\ taken' = taken + 1
        /\ resp \in [Threads -> Line]
    BY <1>i DEF TypeOK, MainRead
  <2>4. /\ {"read", "write", "handle"} \subseteq MainPcs /\ {"started", "none"} \subseteq WorkerPcs
        /\ "busy" \in Codes
    BY DEF MainPcs, WorkerPcs, Codes
  <2>5. CASE StartsWorker(reqs[taken + 1].cmd) /\ LaunchWorker(taken + 1)
    <3>1. /\ pc' \in [Threads -> MainPcs \cup WorkerPcs]
          /\ pc'["worker"] = "started" /\ pc'["main"] = pc["main"]
      BY <1>i, <2>4, <2>5, WorkerPcSet DEF LaunchWorker
    <3> QED BY <2>1, <2>2, <2>3, <2>4, <2>5, <3>1 DEF StartsWorker, LaunchWorker, WorkerAlive
  <2>6. CASE Respond("main", taken + 1, "busy") /\ UNCHANGED wReq
    <3>1. taken + 1 \in Nat
      BY <2>1
    <3>2. /\ pc' \in [Threads -> MainPcs \cup WorkerPcs]
          /\ pc'["main"] = "write" /\ pc'["worker"] = pc["worker"]
          /\ resp' \in [Threads -> Line]
          /\ resp'["main"].req = taken + 1 /\ resp'["main"].code = "busy"
          /\ resp'["worker"] = resp["worker"]
      BY <1>i, <2>4, <2>6, <3>1, MainResponds
    <3> QED BY <2>1, <2>2, <2>3, <2>4, <2>6, <3>2
  <2>7. CASE /\ ~StartsWorker(reqs[taken + 1].cmd) /\ ~Refused(reqs[taken + 1].cmd)
             /\ pc' = [pc EXCEPT !["main"] = "handle",
                                 !["worker"] = IF WorkerAlive THEN @ ELSE "none"]
             /\ UNCHANGED <<resp, wReq>>
    <3>1. /\ pc' \in [Threads -> MainPcs \cup WorkerPcs]
          /\ pc'["main"] = "handle"
          /\ pc'["worker"] = IF WorkerAlive THEN pc["worker"] ELSE "none"
      BY <1>i, <2>3, <2>4, <2>7 DEF TypeOK, Threads
    <3> QED BY <2>1, <2>2, <2>3, <2>4, <2>7, <3>1 DEF Refused, WorkerAlive
  <2> QED BY <2>1, <2>2, <2>3, <2>5, <2>6, <2>7 DEF MainRead
<1>1. TypeOK'
  BY <1>i, <1>u, <1>e DEF TypeOK
<1>2. LockInv'
  BY <1>i, <1>u, <1>e, LockHolder DEF LockInv, Threads
<1>3. GateInv'
  BY <1>i, <1>u, <1>e DEF GateInv, WorkerAlive
<1>4. HoldInv'
  <2>1. (MainHolds => taken > 0 /\ ~Answered(taken))'
    BY <1>u, <1>e DEF MainHolds, Answered
  <2>2. (WorkerHolds => ~Answered(wReq))'
    BY <1>i, <1>u, <1>e DEF HoldInv, WorkerHolds, Answered
  <2>3. (WorkerAlive => wReq > 0)' /\ (MainHolds => wReq # taken)'
    BY <1>i, <1>u, <1>e DEF HoldInv, WorkerAlive, MainHolds
  <2>4. (pc["main"] \in {"write", "flush"} =>
           resp["main"].req = taken /\ resp["main"].code \notin {"noise", "cancelled"})'
    BY <1>e
  <2>5. (pc["worker"] \in {"finish", "write", "flush"} =>
           resp["worker"].req = wReq /\ resp["worker"].code # "noise")'
    BY <1>i, <1>e DEF HoldInv
  <2>6. (\A i \in 1 .. Len(pipe) : pipe[i].req <= taken)'
    <3>1. \A i \in 1 .. Len(pipe) : pipe[i].req <= taken /\ pipe[i].req \in Nat
      BY <1>i, Elements DEF HoldInv
    <3> QED BY <3>1, <1>u, <1>e
  <2>7. OneAnswerEach'
    BY <1>i, <1>u DEF HoldInv, OneAnswerEach
  <2> QED BY <2>1, <2>2, <2>3, <2>4, <2>5, <2>6, <2>7 DEF HoldInv
<1>5. NothingSwallowed'
  BY <1>i, <1>u, <1>e DEF NothingSwallowed
<1>6. AccountInv'
  BY <1>i, <1>u, <1>e DEF AccountInv, MainHolds, WorkerHolds, Answered, Alive, WorkerAlive
<1>7. CancelInv'
  <2>1. CASE wReq' = wReq
    BY <1>i, <1>u, <1>e, <2>1 DEF CancelInv, CancelInTimeHonoured, CancelledOnlyIfAsked
  <2>2. CASE wReq' = taken + 1 /\ pc'["worker"] = "started"
    <3>1. <<taken + 1, "poll">> \notin cancelAt
      <4>1. "poll" \in WorkerPcs
        BY DEF WorkerPcs
      <4>2. <<taken + 1, "poll">> \in cancelAt => taken + 1 <= wReq
        BY <1>i, <1>e, <4>1 DEF CancelInv
      <4> QED BY <1>e, <4>2
    <3>2. (\A m \in cancelAt : m[1] <= wReq)'
      <4>1. \A m \in cancelAt : m[1] \in Nat /\ m[1] <= wReq
        BY <1>i DEF TypeOK, CancelInv
      <4> QED BY <1>u, <1>e, <2>2, <4>1
    <3>3. CancelInTimeHonoured' /\ CancelledOnlyIfAsked'
      BY <1>i, <1>u DEF CancelInv, CancelInTimeHonoured, CancelledOnlyIfAsked
    <3> QED BY <1>u, <2>2, <3>1, <3>2, <3>3 DEF CancelInv
  <2> QED BY <1>e, <2>1, <2>2
<1> QED BY <1>1, <1>2, <1>3, <1>4, <1>5, <1>6, <1>7 DEF IInv

\* An exit with code 1 promises nothing.
LEMMA MainReadFailsStep ==
  ASSUME IInv, MainReadFails
  PROVE  IInv'
<1>i. TypeOK /\ LockInv /\ GateInv /\ HoldInv /\ NothingSwallowed /\ AccountInv /\ CancelInv
  BY DEF IInv
<1>u. UNCHANGED <<reqs, stdinOpen, hostReads, taken, resp, stopping, wReq, polls,
                  cancelled, lock, outBuf, fd1, pipe, captured, fellBack, cancelAt>>
  BY DEF MainReadFails, pipeVars, workerVars, outVars
<1>e. /\ pc["main"] = "read"
      /\ pc' \in [Threads -> MainPcs \cup WorkerPcs]
      /\ pc'["main"] = "exited" /\ "exited" \in MainPcs /\ pc'["worker"] = pc["worker"]
      /\ exitCode' = 1
  BY <1>i, MainPcSet DEF MainReadFails, MainPcs
<1>1. TypeOK'
  BY <1>i, <1>u, <1>e DEF TypeOK
<1>2. LockInv'
  BY <1>i, <1>u, <1>e, LockHolder DEF LockInv, Threads
<1>3. GateInv'
  BY <1>i, <1>u, <1>e DEF GateInv, WorkerAlive
<1>4. HoldInv'
  BY <1>i, <1>u, <1>e DEF HoldInv, MainHolds, WorkerHolds, WorkerAlive, Answered, OneAnswerEach
<1>5. NothingSwallowed'
  BY <1>i, <1>u, <1>e DEF NothingSwallowed
<1>6. AccountInv'
  BY <1>i, <1>u, <1>e DEF AccountInv, MainHolds, WorkerHolds, Answered, Alive, WorkerAlive
<1>7. CancelInv'
  BY <1>i, <1>u, <1>e DEF CancelInv, CancelInTimeHonoured, CancelledOnlyIfAsked
<1> QED BY <1>1, <1>2, <1>3, <1>4, <1>5, <1>6, <1>7 DEF IInv

\* Leaving the loop, the main thread owes no response.
LEMMA MainEndOfInputStep ==
  ASSUME IInv, MainEndOfInput
  PROVE  IInv'
<1>i. TypeOK /\ LockInv /\ GateInv /\ HoldInv /\ NothingSwallowed /\ AccountInv /\ CancelInv
  BY DEF IInv
<1>u. UNCHANGED <<reqs, stdinOpen, hostReads, taken, resp, stopping, exitCode, wReq,
                  polls, cancelled, lock, outBuf, fd1, pipe, captured, fellBack,
                  cancelAt>>
  BY DEF MainEndOfInput, pipeVars, workerVars, outVars
<1>e. /\ pc["main"] = "read"
      /\ pc' \in [Threads -> MainPcs \cup WorkerPcs]
      /\ pc'["main"] = "join" /\ "join" \in MainPcs /\ pc'["worker"] = pc["worker"]
  BY <1>i, MainPcSet DEF MainEndOfInput, MainPcs
<1>1. TypeOK'
  BY <1>i, <1>u, <1>e DEF TypeOK
<1>2. LockInv'
  BY <1>i, <1>u, <1>e, LockHolder DEF LockInv, Threads
<1>3. GateInv'
  BY <1>i, <1>u, <1>e DEF GateInv, WorkerAlive
<1>4. HoldInv'
  BY <1>i, <1>u, <1>e DEF HoldInv, MainHolds, WorkerHolds, WorkerAlive, Answered, OneAnswerEach
<1>5. NothingSwallowed'
  BY <1>i, <1>u, <1>e DEF NothingSwallowed
<1>6. AccountInv'
  BY <1>i, <1>u, <1>e DEF AccountInv, MainHolds, WorkerHolds, Answered, Alive, WorkerAlive
<1>7. CancelInv'
  BY <1>i, <1>u, <1>e DEF CancelInv, CancelInTimeHonoured, CancelledOnlyIfAsked
<1> QED BY <1>1, <1>2, <1>3, <1>4, <1>5, <1>6, <1>7 DEF IInv

\* After the join nobody owes a response.
LEMMA MainJoinStep ==
  ASSUME IInv, MainJoin
  PROVE  IInv'
<1>i. TypeOK /\ LockInv /\ GateInv /\ HoldInv /\ NothingSwallowed /\ AccountInv /\ CancelInv
  BY DEF IInv
<1>u. UNCHANGED <<reqs, stdinOpen, hostReads, taken, resp, stopping, wReq, polls,
                  cancelled, lock, outBuf, fd1, pipe, captured, fellBack, cancelAt>>
  BY DEF MainJoin, pipeVars, workerVars, outVars
<1>e. /\ pc["main"] = "join"
      /\ pc' \in [Threads -> MainPcs \cup WorkerPcs]
      /\ pc'["main"] = "exited" /\ "exited" \in MainPcs /\ pc'["worker"] = pc["worker"]
      /\ exitCode' = 0 /\ ~WorkerAlive
  BY <1>i, MainPcSet DEF MainJoin, MainPcs
<1>1. TypeOK'
  BY <1>i, <1>u, <1>e DEF TypeOK
<1>2. LockInv'
  BY <1>i, <1>u, <1>e, LockHolder DEF LockInv, Threads
<1>3. GateInv'
  BY <1>i, <1>u, <1>e DEF GateInv, WorkerAlive
<1>4. HoldInv'
  BY <1>i, <1>u, <1>e DEF HoldInv, MainHolds, WorkerHolds, WorkerAlive, Answered, OneAnswerEach
<1>5. NothingSwallowed'
  BY <1>i, <1>u, <1>e DEF NothingSwallowed
<1>6. AccountInv'
  BY <1>i, <1>u, <1>e DEF AccountInv, MainHolds, WorkerHolds, Answered, Alive, WorkerAlive
<1>7. CancelInv'
  BY <1>i, <1>u, <1>e DEF CancelInv, CancelInTimeHonoured, CancelledOnlyIfAsked
<1> QED BY <1>1, <1>2, <1>3, <1>4, <1>5, <1>6, <1>7 DEF IInv

\* A handler that changes no shared state only owes its response.
LEMMA HandlePlainStep ==
  ASSUME IInv, HandlePlain
  PROVE  IInv'
<1>i. TypeOK /\ LockInv /\ GateInv /\ HoldInv /\ NothingSwallowed /\ AccountInv /\ CancelInv
  BY DEF IInv
<1>u. UNCHANGED <<reqs, stdinOpen, hostReads, taken, stopping, exitCode, wReq, polls,
                  cancelled, lock, outBuf, fd1, pipe, captured, fellBack, cancelAt>>
  BY DEF HandlePlain, pipeVars, workerVars, outVars
<1>e. /\ pc["main"] = "handle" /\ taken \in Nat
      /\ pc' \in [Threads -> MainPcs \cup WorkerPcs]
      /\ pc'["main"] = "write" /\ "write" \in MainPcs /\ pc'["worker"] = pc["worker"]
      /\ resp' \in [Threads -> Line]
      /\ resp'["main"].req = taken /\ resp'["main"].code \notin {"noise", "cancelled"}
      /\ resp'["worker"] = resp["worker"]
  <2>1. taken \in Nat /\ "write" \in MainPcs
    BY <1>i, Elements DEF TypeOK, MainPcs
  <2>2. PICK code \in {"ok", "error", "internal_error"} : Respond("main", taken, code)
    BY DEF HandlePlain, Outcomes
  <2>3. code \in Codes
    BY DEF Codes
  <2> QED BY <1>i, <2>1, <2>2, <2>3, MainResponds DEF HandlePlain
<1>1. TypeOK'
  BY <1>i, <1>u, <1>e DEF TypeOK
<1>2. LockInv'
  BY <1>i, <1>u, <1>e, LockHolder DEF LockInv, Threads
<1>3. GateInv'
  BY <1>i, <1>u, <1>e DEF GateInv, WorkerAlive
<1>4. HoldInv'
  BY <1>i, <1>u, <1>e DEF HoldInv, MainHolds, WorkerHolds, WorkerAlive, Answered, OneAnswerEach
<1>5. NothingSwallowed'
  BY <1>i, <1>u, <1>e DEF NothingSwallowed
<1>6. AccountInv'
  BY <1>i, <1>u, <1>e DEF AccountInv, MainHolds, WorkerHolds, Answered, Alive, WorkerAlive
<1>7. CancelInv'
  BY <1>i, <1>u, <1>e DEF CancelInv, CancelInTimeHonoured, CancelledOnlyIfAsked
<1> QED BY <1>1, <1>2, <1>3, <1>4, <1>5, <1>6, <1>7 DEF IInv

\* A cancel marks the download only while its worker lives.
LEMMA HandleCancelStep ==
  ASSUME IInv, HandleCancel
  PROVE  IInv'
<1>i. TypeOK /\ LockInv /\ GateInv /\ HoldInv /\ NothingSwallowed /\ AccountInv /\ CancelInv
  BY DEF IInv
<1>u. UNCHANGED <<reqs, stdinOpen, hostReads, taken, stopping, exitCode, wReq, polls,
                  lock, outBuf, fd1, pipe, captured, fellBack>>
  BY DEF HandleCancel, pipeVars, workerVars, outVars
<1>e. /\ pc["main"] = "handle" /\ taken \in Nat
      /\ pc' \in [Threads -> MainPcs \cup WorkerPcs]
      /\ pc'["main"] = "write" /\ "write" \in MainPcs /\ pc'["worker"] = pc["worker"]
      /\ resp' \in [Threads -> Line]
      /\ resp'["main"].req = taken /\ resp'["main"].code \notin {"noise", "cancelled"}
      /\ resp'["worker"] = resp["worker"]
      /\ reqs[taken].job \in Jobs /\ cancelled' = cancelled \cup {reqs[taken].job}
      /\ wReq \in Nat /\ pc["worker"] \in WorkerPcs
      /\ cancelAt' = IF WorkerAlive /\ reqs[wReq].job = reqs[taken].job
                     THEN cancelAt \cup {<<wReq, pc["worker"]>>} ELSE cancelAt
  <2>0. wReq \in Nat /\ pc["worker"] \in WorkerPcs /\ taken \in 1 .. Len(reqs)
    BY <1>i, Elements DEF TypeOK, HoldInv, MainHolds, HandleCancel
  <2>4. reqs[taken].job \in Jobs
    BY <1>i, <2>0, Elements DEF Request
  <2>1. taken \in Nat /\ "write" \in MainPcs
    BY <1>i, Elements DEF TypeOK, MainPcs
  <2>2. PICK code \in {"ok", "error", "internal_error"} : Respond("main", taken, code)
    BY DEF HandleCancel
  <2>3. code \in Codes
    BY DEF Codes
  <2> QED BY <2>0, <2>4, <1>i, <2>1, <2>2, <2>3, MainResponds DEF HandleCancel
<1>1. TypeOK'
  BY <1>i, <1>u, <1>e DEF TypeOK
<1>2. LockInv'
  BY <1>i, <1>u, <1>e, LockHolder DEF LockInv, Threads
<1>3. GateInv'
  BY <1>i, <1>u, <1>e DEF GateInv, WorkerAlive
<1>4. HoldInv'
  BY <1>i, <1>u, <1>e DEF HoldInv, MainHolds, WorkerHolds, WorkerAlive, Answered, OneAnswerEach
<1>5. NothingSwallowed'
  BY <1>i, <1>u, <1>e DEF NothingSwallowed
<1>6. AccountInv'
  BY <1>i, <1>u, <1>e DEF AccountInv, MainHolds, WorkerHolds, Answered, Alive, WorkerAlive
<1>7. CancelInv'
  <2>1. CASE WorkerAlive /\ reqs[wReq].job = reqs[taken].job
    <3>1. cancelAt' = cancelAt \cup {<<wReq, pc["worker"]>>} /\ pc["worker"] \in WorkerPcs
      BY <1>e, <2>1
    <3>2. (\A m \in cancelAt : m[1] <= wReq)'
      BY <1>i, <1>u, <1>e, <3>1 DEF CancelInv
    <3>3. \A p : p # pc["worker"] => (<<wReq, p>> \in cancelAt' <=> <<wReq, p>> \in cancelAt)
      BY <3>1
    <3>4. pc["worker"] = "poll" => <<wReq, "poll">> \in cancelAt' /\ reqs[wReq].job \in cancelled'
      BY <1>e, <2>1, <3>1
    <3>5. CancelInTimeHonoured'
      <4>1. CASE pc["worker"] = "poll"
        <5>1. \A i \in 1 .. Len(pipe) : pipe[i].req # wReq
          BY <1>i, <4>1 DEF HoldInv, WorkerHolds, Answered
        <5> QED BY <1>i, <1>u, <3>1, <5>1 DEF CancelInv, CancelInTimeHonoured
      <4>2. CASE pc["worker"] # "poll"
        BY <1>i, <1>u, <3>1, <4>2 DEF CancelInv, CancelInTimeHonoured
      <4> QED BY <4>1, <4>2
    <3>6. CancelledOnlyIfAsked'
      BY <1>i, <1>u, <3>1 DEF CancelInv, CancelledOnlyIfAsked
    <3> QED BY <1>i, <1>u, <1>e, <3>2, <3>3, <3>4, <3>5, <3>6 DEF CancelInv
  <2>2. CASE WorkerAlive /\ reqs[wReq].job # reqs[taken].job
    BY <1>i, <1>u, <1>e, <2>2 DEF CancelInv, CancelInTimeHonoured, CancelledOnlyIfAsked
  <2>3. CASE ~WorkerAlive
    BY <1>i, <1>u, <1>e, <2>3 DEF CancelInv, CancelInTimeHonoured, CancelledOnlyIfAsked, WorkerAlive
  <2> QED BY <2>1, <2>2, <2>3
<1> QED BY <1>1, <1>2, <1>3, <1>4, <1>5, <1>6, <1>7 DEF IInv

\* A shutdown is handled only when no worker lives.
LEMMA HandleShutdownStep ==
  ASSUME IInv, HandleShutdown
  PROVE  IInv'
<1>i. TypeOK /\ LockInv /\ GateInv /\ HoldInv /\ NothingSwallowed /\ AccountInv /\ CancelInv
  BY DEF IInv
<1>u. UNCHANGED <<reqs, stdinOpen, hostReads, taken, exitCode, wReq, polls, cancelled,
                  lock, outBuf, fd1, pipe, captured, fellBack, cancelAt>>
  BY DEF HandleShutdown, pipeVars, workerVars, outVars
<1>e. /\ pc["main"] = "handle" /\ taken \in Nat
      /\ pc' \in [Threads -> MainPcs \cup WorkerPcs]
      /\ pc'["main"] = "write" /\ "write" \in MainPcs /\ pc'["worker"] = pc["worker"]
      /\ resp' \in [Threads -> Line]
      /\ resp'["main"].req = taken /\ resp'["main"].code \notin {"noise", "cancelled"}
      /\ resp'["worker"] = resp["worker"]
      /\ stopping' = TRUE /\ ~WorkerAlive
  <2>0. ~WorkerAlive
    BY <1>i DEF GateInv, PollCommands, HandleShutdown
  <2>1. taken \in Nat /\ "write" \in MainPcs
    BY <1>i, Elements DEF TypeOK, MainPcs
  <2>2. PICK code \in {"ok", "error", "internal_error"} : Respond("main", taken, code)
    BY DEF HandleShutdown
  <2>3. code \in Codes
    BY DEF Codes
  <2> QED BY <2>0, <1>i, <2>1, <2>2, <2>3, MainResponds DEF HandleShutdown
<1>1. TypeOK'
  BY <1>i, <1>u, <1>e DEF TypeOK
<1>2. LockInv'
  BY <1>i, <1>u, <1>e, LockHolder DEF LockInv, Threads
<1>3. GateInv'
  BY <1>i, <1>u, <1>e DEF GateInv, WorkerAlive
<1>4. HoldInv'
  BY <1>i, <1>u, <1>e DEF HoldInv, MainHolds, WorkerHolds, WorkerAlive, Answered, OneAnswerEach
<1>5. NothingSwallowed'
  BY <1>i, <1>u, <1>e DEF NothingSwallowed
<1>6. AccountInv'
  BY <1>i, <1>u, <1>e DEF AccountInv, MainHolds, WorkerHolds, Answered, Alive, WorkerAlive
<1>7. CancelInv'
  BY <1>i, <1>u, <1>e DEF CancelInv, CancelInTimeHonoured, CancelledOnlyIfAsked
<1> QED BY <1>1, <1>2, <1>3, <1>4, <1>5, <1>6, <1>7 DEF IInv

\* A backend runs only when no worker lives.
LEMMA HandleBackendStep ==
  ASSUME IInv, HandleBackend
  PROVE  IInv'
<1>i. TypeOK /\ LockInv /\ GateInv /\ HoldInv /\ NothingSwallowed /\ AccountInv /\ CancelInv
  BY DEF IInv
<1>u. UNCHANGED <<reqs, stdinOpen, hostReads, taken, resp, stopping, exitCode, wReq,
                  polls, cancelled, lock, outBuf, fd1, pipe, captured, fellBack,
                  cancelAt>>
  BY DEF HandleBackend, pipeVars, workerVars, outVars
<1>e. /\ pc["main"] = "handle" /\ ~WorkerAlive
      /\ pc' \in [Threads -> MainPcs \cup WorkerPcs]
      /\ pc'["main"] = "enter_import" /\ "enter_import" \in MainPcs /\ pc'["worker"] = pc["worker"]
  BY <1>i, MainPcSet DEF HandleBackend, MainPcs, GateInv, PollCommands
<1>1. TypeOK'
  BY <1>i, <1>u, <1>e DEF TypeOK
<1>2. LockInv'
  BY <1>i, <1>u, <1>e, LockHolder DEF LockInv, Threads
<1>3. GateInv'
  BY <1>i, <1>u, <1>e DEF GateInv, WorkerAlive
<1>4. HoldInv'
  BY <1>i, <1>u, <1>e DEF HoldInv, MainHolds, WorkerHolds, WorkerAlive, Answered, OneAnswerEach
<1>5. NothingSwallowed'
  BY <1>i, <1>u, <1>e DEF NothingSwallowed
<1>6. AccountInv'
  BY <1>i, <1>u, <1>e DEF AccountInv, MainHolds, WorkerHolds, Answered, Alive, WorkerAlive
<1>7. CancelInv'
  BY <1>i, <1>u, <1>e DEF CancelInv, CancelInTimeHonoured, CancelledOnlyIfAsked
<1> QED BY <1>1, <1>2, <1>3, <1>4, <1>5, <1>6, <1>7 DEF IInv

\* Nothing is buffered when descriptor 1 is redirected.
LEMMA RedirectStep ==
  ASSUME IInv, Redirect
  PROVE  IInv'
<1>i. TypeOK /\ LockInv /\ GateInv /\ HoldInv /\ NothingSwallowed /\ AccountInv /\ CancelInv
  BY DEF IInv
<1>u. UNCHANGED <<reqs, stdinOpen, hostReads, taken, resp, stopping, exitCode, wReq,
                  polls, cancelled, lock, cancelAt>>
  BY DEF Redirect, pipeVars, workerVars, outVars
<1>e. /\ pc["main"] \in {"enter_import", "enter_run"} /\ ~WorkerAlive
      /\ pc' \in [Threads -> MainPcs \cup WorkerPcs] /\ pc'["worker"] = pc["worker"]
      /\ pc'["main"] \in {"import", "run"} /\ pc'["main"] \in MainPcs
      /\ outBuf' = outBuf /\ pipe' = pipe /\ captured' = captured
      /\ fd1' \in {"pipe", "capture"} /\ fellBack' \in BOOLEAN
  <2>1. ~WorkerAlive /\ outBuf = <<>>
    BY <1>i, LockHolder DEF Redirect, GateInv, WorkerAlive
  <2>2. pipe \in Seq(Line) /\ captured \in Seq(Line) /\ fd1 \in {"pipe", "capture"} /\ fellBack \in BOOLEAN
    BY <1>i DEF TypeOK
  <2>3. outBuf' = outBuf /\ pipe' = pipe /\ captured' = captured
    BY <2>1, <2>2, Appended DEF Redirect, FlushStdout
  <2>4. /\ pc' \in [Threads -> MainPcs \cup WorkerPcs] /\ pc'["worker"] = pc["worker"]
        /\ pc'["main"] \in {"import", "run"} /\ pc'["main"] \in MainPcs
    BY <1>i, MainPcSet DEF Redirect, MainPcs
  <2> QED BY <2>1, <2>2, <2>3, <2>4 DEF Redirect, PointFd1AtCapture
<1>1. TypeOK'
  BY <1>i, <1>u, <1>e DEF TypeOK
<1>2. LockInv'
  BY <1>i, <1>u, <1>e, LockHolder DEF LockInv, Threads
<1>3. GateInv'
  BY <1>i, <1>u, <1>e DEF GateInv, WorkerAlive
<1>4. HoldInv'
  BY <1>i, <1>u, <1>e DEF HoldInv, MainHolds, WorkerHolds, WorkerAlive, Answered, OneAnswerEach
<1>5. NothingSwallowed'
  BY <1>i, <1>u, <1>e DEF NothingSwallowed
<1>6. AccountInv'
  BY <1>i, <1>u, <1>e DEF AccountInv, MainHolds, WorkerHolds, Answered, Alive, WorkerAlive
<1>7. CancelInv'
  BY <1>i, <1>u, <1>e DEF CancelInv, CancelInTimeHonoured, CancelledOnlyIfAsked
<1> QED BY <1>1, <1>2, <1>3, <1>4, <1>5, <1>6, <1>7 DEF IInv

\* Noise answers no request.
LEMMA BackendPrintsStep ==
  ASSUME IInv, BackendPrints
  PROVE  IInv'
<1>i. TypeOK /\ LockInv /\ GateInv /\ HoldInv /\ NothingSwallowed /\ AccountInv /\ CancelInv
  BY DEF IInv
<1>u. UNCHANGED <<reqs, stdinOpen, hostReads, taken, pc, resp, stopping, exitCode,
                  wReq, polls, cancelled, lock, outBuf, fd1, fellBack, cancelAt>>
  BY DEF BackendPrints, pipeVars, workerVars, outVars
<1>e. /\ pc["main"] \in {"import", "run"} /\ ~WorkerAlive
      /\ pipe' \in Seq(Line) /\ captured' \in Seq(Line)
      /\ taken \in Nat /\ wReq \in Nat
      /\ \A i \in 1 .. Len(pipe) : i \in 1 .. Len(pipe') /\ pipe'[i] = pipe[i]
      /\ \A i \in 1 .. Len(pipe') :
            (i \in 1 .. Len(pipe) /\ pipe'[i] = pipe[i]) \/ (pipe'[i].req = 0 /\ pipe'[i].code = "noise")
      /\ \A r \in Nat \ {0} : (\E i \in 1 .. Len(pipe') : pipe'[i].req = r)
                            <=> (\E i \in 1 .. Len(pipe) : pipe[i].req = r)
      /\ \A i \in 1 .. Len(captured') : captured'[i] = Noise
  <2>1. /\ pipe \in Seq(Line) /\ captured \in Seq(Line) /\ Len(captured) \in Nat
        /\ taken \in Nat /\ wReq \in Nat
        /\ \A i \in 1 .. Len(captured) : captured[i] = Noise
    BY <1>i, Elements DEF TypeOK, NothingSwallowed
  <2>2. pc["main"] \in {"import", "run"} /\ ~WorkerAlive
    BY <1>i DEF BackendPrints, GateInv
  <2>3. Noise.req = 0 /\ Noise.code = "noise" /\ Noise \in Line
    BY NoiseIsLine DEF Noise
  <2>4. captured' \in Seq(Line) /\ \A i \in 1 .. Len(captured') : captured'[i] = Noise
    <3>1. CASE captured' = Append(captured, Noise)
      <4>1. /\ captured' \in Seq(Line) /\ Len(captured') = Len(captured) + 1
            /\ \A i \in 1 .. Len(captured) : captured'[i] = captured[i]
            /\ captured'[Len(captured) + 1] = Noise
        BY <2>1, <2>3, <3>1, Appended
      <4>2. ASSUME NEW i \in 1 .. Len(captured') PROVE captured'[i] = Noise
        <5>1. CASE i \in 1 .. Len(captured)
          BY <2>1, <4>1, <5>1
        <5>2. CASE i = Len(captured) + 1
          BY <4>1, <5>2
        <5> QED BY <2>1, <4>1, <5>1, <5>2
      <4> QED BY <4>1, <4>2
    <3>2. CASE captured' = captured
      BY <2>1, <3>2
    <3> QED BY <3>1, <3>2 DEF BackendPrints
  <2>5. /\ pipe' \in Seq(Line)
        /\ \A i \in 1 .. Len(pipe) : i \in 1 .. Len(pipe') /\ pipe'[i] = pipe[i]
        /\ \A i \in 1 .. Len(pipe') :
             (i \in 1 .. Len(pipe) /\ pipe'[i] = pipe[i]) \/ (pipe'[i].req = 0 /\ pipe'[i].code = "noise")
        /\ \A r \in Nat \ {0} : (\E i \in 1 .. Len(pipe') : pipe'[i].req = r)
                              <=> (\E i \in 1 .. Len(pipe) : pipe[i].req = r)
    <3>1. CASE pipe' = pipe
      <4>1. \A r : (\E i \in 1 .. Len(pipe') : pipe'[i].req = r)
                     <=> (\E i \in 1 .. Len(pipe) : pipe[i].req = r)
        BY <3>1, Zenon
      <4>2. \A i \in 1 .. Len(pipe) : i \in 1 .. Len(pipe') /\ pipe'[i] = pipe[i]
        BY <3>1, Zenon
      <4> QED BY <2>1, <3>1, <4>1, <4>2
    <3>2. CASE pipe' = Append(pipe, Noise)
      BY <1>i, <2>3, <3>2, PipeGrows
    <3> QED BY <3>1, <3>2 DEF BackendPrints
  <2> QED BY <2>1, <2>2, <2>4, <2>5
<1>1. TypeOK'
  BY <1>i, <1>u, <1>e DEF TypeOK
<1>2. LockInv'
  BY <1>i, <1>u, <1>e, LockHolder DEF LockInv, Threads
<1>3. GateInv'
  BY <1>i, <1>u, <1>e DEF GateInv, WorkerAlive
<1>4. HoldInv'
  <2>1. (MainHolds => taken > 0 /\ ~Answered(taken))'
    BY <1>i, <1>u, <1>e DEF HoldInv, MainHolds, Answered
  <2>2. WorkerAlive' = WorkerAlive /\ WorkerHolds' = WorkerHolds /\ MainHolds' = MainHolds /\ ~WorkerHolds
    BY <1>u, <1>e DEF WorkerAlive, WorkerHolds, MainHolds
  <2>3. \A i \in 1 .. Len(pipe') : pipe'[i].req <= taken'
    BY <1>i, <1>u, <1>e DEF HoldInv
  <2>4. OneAnswerEach'
    <3>1. ASSUME NEW i \in 1 .. Len(pipe'), NEW j \in 1 .. Len(pipe'),
                 pipe'[i].req = pipe'[j].req, pipe'[i].req # 0
          PROVE  i = j
      <4>1. /\ i \in 1 .. Len(pipe) /\ pipe'[i] = pipe[i]
            /\ j \in 1 .. Len(pipe) /\ pipe'[j] = pipe[j]
        BY <1>e, <3>1
      <4> QED BY <1>i, <3>1, <4>1 DEF HoldInv, OneAnswerEach
    <3> QED BY <3>1 DEF OneAnswerEach
  <2> QED BY <1>i, <1>u, <1>e, <2>1, <2>2, <2>3, <2>4 DEF HoldInv
<1>5. NothingSwallowed'
  BY <1>i, <1>u, <1>e DEF NothingSwallowed
<1>6. AccountInv'
  <2>1. \A r \in 1 .. taken : Answered(r) => Answered(r)'
    BY <1>e DEF Answered
  <2>2. (hostReads /\ (Alive \/ exitCode = 0) =>
           \A r \in 1 .. taken : Answered(r) \/ (MainHolds /\ r = taken) \/ (WorkerHolds /\ r = wReq))'
    BY <1>i, <1>u, <2>1 DEF AccountInv, MainHolds, WorkerHolds, Alive
  <2> QED BY <1>i, <1>u, <2>2 DEF AccountInv, Alive, WorkerAlive
<1>7. CancelInv'
  <2>1. CancelInTimeHonoured'
    <3>1. ASSUME NEW i \in 1 .. Len(pipe'), <<pipe'[i].req, "poll">> \in cancelAt
          PROVE  pipe'[i].code # "ok"
      <4>1. CASE i \in 1 .. Len(pipe) /\ pipe'[i] = pipe[i]
        BY <1>i, <3>1, <4>1 DEF CancelInv, CancelInTimeHonoured
      <4>2. CASE pipe'[i].code = "noise"
        BY <4>2
      <4> QED BY <1>e, <4>1, <4>2
    <3> QED BY <1>u, <3>1 DEF CancelInTimeHonoured
  <2>2. CancelledOnlyIfAsked'
    BY <1>i, <1>u, <1>e DEF CancelInv, CancelledOnlyIfAsked
  <2>3. pc["worker"] \in {"none", "dead"}
    BY <1>e DEF WorkerAlive
  <2> QED BY <1>i, <1>u, <2>1, <2>2, <2>3 DEF CancelInv
<1> QED BY <1>1, <1>2, <1>3, <1>4, <1>5, <1>6, <1>7 DEF IInv

\* Nothing is buffered when descriptor 1 is restored.
LEMMA RestoreStep ==
  ASSUME IInv, Restore
  PROVE  IInv'
<1>i. TypeOK /\ LockInv /\ GateInv /\ HoldInv /\ NothingSwallowed /\ AccountInv /\ CancelInv
  BY DEF IInv
<1>u. UNCHANGED <<reqs, stdinOpen, hostReads, taken, stopping, exitCode, wReq, polls,
                  cancelled, lock, fellBack, cancelAt>>
  BY DEF Restore, pipeVars, workerVars, outVars
<1>e. /\ pc["main"] \in {"import", "run"} /\ ~WorkerAlive
      /\ outBuf' = outBuf /\ pipe' = pipe /\ captured' = captured /\ fd1' = "pipe"
      /\ pc' \in [Threads -> MainPcs \cup WorkerPcs] /\ pc'["worker"] = pc["worker"]
      /\ pc'["main"] \in MainPcs
      /\ resp' \in [Threads -> Line] /\ resp'["worker"] = resp["worker"]
      /\ \/ pc'["main"] = "enter_run" /\ resp' = resp
         \/ /\ pc'["main"] = "write" /\ resp'["main"].req = taken
            /\ resp'["main"].code \notin {"noise", "cancelled"}
  <2>1. ~WorkerAlive /\ outBuf = <<>>
    BY <1>i, LockHolder DEF Restore, GateInv, WorkerAlive
  <2>2. /\ pipe \in Seq(Line) /\ captured \in Seq(Line) /\ taken \in Nat
        /\ resp \in [Threads -> Line]
    BY <1>i, Elements DEF TypeOK
  <2>3. outBuf' = outBuf /\ pipe' = pipe /\ captured' = captured
    BY <2>1, <2>2, Appended DEF Restore, FlushStdout
  <2>4. {"enter_run", "write"} \subseteq MainPcs /\ {"ok", "error", "internal_error"} \subseteq Codes
    BY DEF MainPcs, Codes
  <2>5. CASE pc' = [pc EXCEPT !["main"] = "enter_run"] /\ UNCHANGED resp
    BY <1>i, <2>1, <2>2, <2>3, <2>4, <2>5, MainPcSet DEF Restore
  <2>6. CASE \E code \in {"ok", "error", "internal_error"} : Respond("main", taken, code)
    <3>1. PICK code \in {"ok", "error", "internal_error"} : Respond("main", taken, code)
      BY <2>6
    <3>2. /\ pc' \in [Threads -> MainPcs \cup WorkerPcs]
          /\ pc'["main"] = "write" /\ pc'["worker"] = pc["worker"]
          /\ resp' \in [Threads -> Line]
          /\ resp'["main"].req = taken /\ resp'["main"].code = code
          /\ resp'["worker"] = resp["worker"]
      BY <1>i, <2>2, <2>4, <3>1, MainResponds
    <3> QED BY <2>1, <2>3, <2>4, <3>1, <3>2 DEF Restore
  <2> QED BY <2>5, <2>6 DEF Restore
<1>1. TypeOK'
  BY <1>i, <1>u, <1>e DEF TypeOK
<1>2. LockInv'
  BY <1>i, <1>u, <1>e, LockHolder DEF LockInv, Threads
<1>3. GateInv'
  BY <1>i, <1>u, <1>e DEF GateInv, WorkerAlive
<1>4. HoldInv'
  BY <1>i, <1>u, <1>e DEF HoldInv, MainHolds, WorkerHolds, WorkerAlive, Answered, OneAnswerEach
<1>5. NothingSwallowed'
  BY <1>i, <1>u, <1>e DEF NothingSwallowed
<1>6. AccountInv'
  BY <1>i, <1>u, <1>e DEF AccountInv, MainHolds, WorkerHolds, Answered, Alive, WorkerAlive
<1>7. CancelInv'
  BY <1>i, <1>u, <1>e DEF CancelInv, CancelInTimeHonoured, CancelledOnlyIfAsked
<1> QED BY <1>1, <1>2, <1>3, <1>4, <1>5, <1>6, <1>7 DEF IInv

\* The main thread takes write_lock.
LEMMA WriteLineByMainStep ==
  ASSUME IInv, WriteLine("main")
  PROVE  IInv'
<1>i. TypeOK /\ LockInv /\ GateInv /\ HoldInv /\ NothingSwallowed /\ AccountInv /\ CancelInv
  BY DEF IInv
<1>u. UNCHANGED <<reqs, stdinOpen, hostReads, taken, resp, stopping, exitCode, wReq,
                  polls, cancelled, fd1, pipe, captured, fellBack, cancelAt>>
  BY DEF WriteLine, pipeVars, workerVars, outVars
<1>e. /\ pc["main"] = "write" /\ lock = "free" /\ lock' = "main"
      /\ outBuf' = <<resp["main"]>> /\ resp["main"] \in Line
      /\ pc' \in [Threads -> MainPcs \cup WorkerPcs]
      /\ pc'["main"] = "flush" /\ "flush" \in MainPcs /\ pc'["worker"] = pc["worker"]
  BY <1>i, MainPcSet, LockHolder, Elements DEF WriteLine, MainPcs, Threads
<1>1. TypeOK'
  BY <1>i, <1>u, <1>e DEF TypeOK, Threads
<1>2. LockInv'
  BY <1>i, <1>u, <1>e, LockHolder DEF LockInv, Threads
<1>3. GateInv'
  BY <1>i, <1>u, <1>e DEF GateInv, WorkerAlive
<1>4. HoldInv'
  BY <1>i, <1>u, <1>e DEF HoldInv, MainHolds, WorkerHolds, WorkerAlive, Answered, OneAnswerEach
<1>5. NothingSwallowed'
  BY <1>i, <1>u, <1>e DEF NothingSwallowed
<1>6. AccountInv'
  BY <1>i, <1>u, <1>e DEF AccountInv, MainHolds, WorkerHolds, Answered, Alive, WorkerAlive
<1>7. CancelInv'
  BY <1>i, <1>u, <1>e DEF CancelInv, CancelInTimeHonoured, CancelledOnlyIfAsked
<1> QED BY <1>1, <1>2, <1>3, <1>4, <1>5, <1>6, <1>7 DEF IInv

\* The worker takes write_lock.
LEMMA WriteLineByWorkerStep ==
  ASSUME IInv, WriteLine("worker")
  PROVE  IInv'
<1>i. TypeOK /\ LockInv /\ GateInv /\ HoldInv /\ NothingSwallowed /\ AccountInv /\ CancelInv
  BY DEF IInv
<1>u. UNCHANGED <<reqs, stdinOpen, hostReads, taken, resp, stopping, exitCode, wReq,
                  polls, cancelled, fd1, pipe, captured, fellBack, cancelAt>>
  BY DEF WriteLine, pipeVars, workerVars, outVars
<1>e. /\ pc["worker"] = "write" /\ lock = "free" /\ lock' = "worker"
      /\ outBuf' = <<resp["worker"]>> /\ resp["worker"] \in Line
      /\ pc' \in [Threads -> MainPcs \cup WorkerPcs]
      /\ pc'["worker"] = "flush" /\ "flush" \in WorkerPcs /\ pc'["main"] = pc["main"]
  BY <1>i, WorkerPcSet, LockHolder, Elements DEF WriteLine, WorkerPcs, Threads
<1>1. TypeOK'
  BY <1>i, <1>u, <1>e DEF TypeOK, Threads
<1>2. LockInv'
  BY <1>i, <1>u, <1>e, LockHolder DEF LockInv, Threads
<1>3. GateInv'
  BY <1>i, <1>u, <1>e DEF GateInv, WorkerAlive
<1>4. HoldInv'
  BY <1>i, <1>u, <1>e DEF HoldInv, MainHolds, WorkerHolds, WorkerAlive, Answered, OneAnswerEach
<1>5. NothingSwallowed'
  BY <1>i, <1>u, <1>e DEF NothingSwallowed
<1>6. AccountInv'
  BY <1>i, <1>u, <1>e DEF AccountInv, MainHolds, WorkerHolds, Answered, Alive, WorkerAlive
<1>7. CancelInv'
  BY <1>i, <1>u, <1>e DEF CancelInv, CancelInTimeHonoured, CancelledOnlyIfAsked
<1> QED BY <1>1, <1>2, <1>3, <1>4, <1>5, <1>6, <1>7 DEF IInv

\* The response of the main thread reaches the pipe, or the server ends.
LEMMA FlushLineByMainStep ==
  ASSUME IInv, FlushLine("main")
  PROVE  IInv'
<1>i. TypeOK /\ LockInv /\ GateInv /\ HoldInv /\ NothingSwallowed /\ AccountInv /\ CancelInv
  BY DEF IInv
<1>u. UNCHANGED <<reqs, stdinOpen, hostReads, taken, resp, stopping, wReq, polls,
                  cancelled, fd1, fellBack, cancelAt>>
  BY DEF FlushLine, FlushStdout, pipeVars, workerVars, outVars
<1>e. /\ pc["main"] = "flush" /\ lock = "main" /\ lock' = "free" /\ outBuf' = <<>>
      /\ captured' = captured /\ pipe' \in Seq(Line)
      /\ wReq \in Nat /\ taken \in Nat /\ wReq <= taken
      /\ pc' \in [Threads -> MainPcs \cup WorkerPcs] /\ pc'["worker"] = pc["worker"]
      /\ pc'["main"] \in MainPcs
      /\ \/ pc'["main"] = "exited" /\ exitCode' = 1 /\ ~hostReads
         \/ pc'["main"] = "exited" /\ exitCode' = 0 /\ stopping /\ hostReads
         \/ pc'["main"] = "read" /\ exitCode' = 0 /\ ~stopping /\ hostReads
      /\ hostReads =>
            /\ \A i \in 1 .. Len(pipe') : (i \in 1 .. Len(pipe) /\ pipe'[i] = pipe[i])
                                        \/ (i = Len(pipe) + 1 /\ pipe'[i] = resp["main"])
            /\ \A i \in 1 .. Len(pipe) : i \in 1 .. Len(pipe') /\ pipe'[i] = pipe[i]
            /\ \A r : (\E i \in 1 .. Len(pipe') : pipe'[i].req = r)
                        <=> (\E i \in 1 .. Len(pipe) : pipe[i].req = r) \/ r = taken
      /\ ~hostReads => pipe' = pipe
  <2>1. /\ pipe \in Seq(Line) /\ captured \in Seq(Line) /\ hostReads \in BOOLEAN
        /\ fd1 \in {"pipe", "capture"} /\ wReq \in Nat /\ taken \in Nat /\ wReq <= taken
        /\ resp["main"] \in Line
    BY <1>i, Elements DEF TypeOK, Threads
  <2>2. pc["main"] = "flush" /\ lock = "main" /\ Alive
    BY DEF FlushLine
  <2>3. fd1 = "pipe" /\ resp["main"].req = taken /\ outBuf = <<resp["main"]>>
    BY <1>i, <2>1, <2>2, LockHolder DEF HoldInv, GateInv
  <2>4. pipe' = (IF hostReads THEN pipe \o outBuf ELSE pipe) /\ outBuf' = <<>> /\ captured' = captured
    BY <2>3 DEF FlushLine, FlushStdout
  <2>5. hostReads => pipe' = Append(pipe, resp["main"])
    BY <2>1, <2>3, <2>4, Appended
  <2>6. pipe' \in Seq(Line)
    <3>1. CASE hostReads
      BY <1>i, <2>1, <2>5, <3>1, PipeGrows
    <3>2. CASE ~hostReads
      BY <2>1, <2>4, <3>2
    <3> QED BY <2>1, <3>1, <3>2
  <2>7. /\ hostReads =>
              /\ \A i \in 1 .. Len(pipe') : (i \in 1 .. Len(pipe) /\ pipe'[i] = pipe[i])
                                          \/ (i = Len(pipe) + 1 /\ pipe'[i] = resp["main"])
              /\ \A i \in 1 .. Len(pipe) : i \in 1 .. Len(pipe') /\ pipe'[i] = pipe[i]
              /\ \A r : (\E i \in 1 .. Len(pipe') : pipe'[i].req = r)
                          <=> (\E i \in 1 .. Len(pipe) : pipe[i].req = r) \/ r = taken
        /\ ~hostReads => pipe' = pipe
    BY <1>i, <2>1, <2>3, <2>4, <2>5, PipeGrows
  <2>8. {"read", "exited"} \subseteq MainPcs
    BY DEF MainPcs
  <2>9. /\ pc' \in [Threads -> MainPcs \cup WorkerPcs] /\ pc'["worker"] = pc["worker"]
        /\ pc'["main"] = IF ~hostReads \/ stopping THEN "exited" ELSE "read"
        /\ exitCode' = IF ~hostReads THEN 1 ELSE 0
    BY <1>i, <2>3, <2>8, MainPcSet DEF FlushLine, FlushFails
  <2> QED BY <2>1, <2>2, <2>4, <2>6, <2>7, <2>8, <2>9 DEF FlushLine
<1>1. TypeOK'
  BY <1>i, <1>u, <1>e DEF TypeOK
<1>2. LockInv'
  BY <1>i, <1>u, <1>e, LockHolder DEF LockInv, Threads
<1>3. GateInv'
  BY <1>i, <1>u, <1>e DEF GateInv, WorkerAlive
<1>4. HoldInv'
  <2>1. ~MainHolds' /\ WorkerHolds' = WorkerHolds /\ WorkerAlive' = WorkerAlive
    BY <1>e DEF MainHolds, WorkerHolds, WorkerAlive
  <2>2. taken > 0 /\ wReq # taken /\ resp["main"].req = taken /\ ~Answered(taken)
    BY <1>i, <1>e DEF HoldInv, MainHolds
  <2>3. WorkerHolds => ~Answered(wReq)'
    BY <1>i, <1>u, <1>e, <2>2 DEF HoldInv, Answered
  <2>4. OneAnswerEach'
    <3>1. CASE ~hostReads
      BY <1>i, <1>e, <3>1 DEF HoldInv, OneAnswerEach
    <3>2. CASE hostReads
      <4>1. ASSUME NEW i \in 1 .. Len(pipe'), NEW j \in 1 .. Len(pipe'),
                   pipe'[i].req = pipe'[j].req, pipe'[i].req # 0
            PROVE  i = j
        BY <1>i, <1>e, <2>2, <3>2, <4>1 DEF HoldInv, OneAnswerEach, Answered
      <4> QED BY <4>1 DEF OneAnswerEach
    <3> QED BY <3>1, <3>2
  <2>5. \A i \in 1 .. Len(pipe') : pipe'[i].req <= taken
    BY <1>i, <1>e, <2>2 DEF HoldInv
  <2> QED BY <1>i, <1>u, <1>e, <2>1, <2>3, <2>4, <2>5 DEF HoldInv
<1>5. NothingSwallowed'
  BY <1>i, <1>u, <1>e DEF NothingSwallowed
<1>6. AccountInv'
  <2>1. CASE ~hostReads
    BY <1>i, <1>u, <1>e, <2>1 DEF AccountInv, Alive
  <2>2. CASE hostReads
    <3>1. \A r : (Answered(r) \/ r = taken) <=> Answered(r)'
      BY <1>e, <2>2 DEF Answered
    <3>2. Alive /\ WorkerHolds' = WorkerHolds /\ WorkerAlive' = WorkerAlive
      BY <1>e DEF Alive, WorkerHolds, WorkerAlive
    <3>3. \A r \in 1 .. taken : Answered(r) \/ r = taken \/ (WorkerHolds /\ r = wReq)
      BY <1>i, <2>2, <3>2 DEF AccountInv
    <3>4. (\A r \in 1 .. taken : Answered(r) \/ (MainHolds /\ r = taken) \/ (WorkerHolds /\ r = wReq))'
      BY <1>u, <3>1, <3>2, <3>3
    <3>5. exitCode' = 0 /\ (~Alive' => ~WorkerAlive)
      BY <1>i, <1>e, <2>2 DEF GateInv, Alive
    <3> QED BY <1>u, <3>2, <3>4, <3>5 DEF AccountInv
  <2> QED BY <1>i, <2>1, <2>2
<1>7. CancelInv'
  <2>1. CASE ~hostReads
    BY <1>i, <1>u, <1>e, <2>1 DEF CancelInv, CancelInTimeHonoured, CancelledOnlyIfAsked
  <2>2. CASE hostReads
    <3>1. /\ resp["main"].code # "cancelled" /\ resp["main"].req = taken
          /\ <<taken, "poll">> \notin cancelAt
      <4>1. "poll" \in WorkerPcs
        BY DEF WorkerPcs
      <4>2. <<taken, "poll">> \in cancelAt => taken <= wReq
        BY <1>i, <1>e, <4>1 DEF CancelInv
      <4> QED BY <1>i, <1>e, <4>2 DEF HoldInv, MainHolds
    <3>2. CancelInTimeHonoured'
      BY <1>i, <1>u, <1>e, <2>2, <3>1 DEF CancelInv, CancelInTimeHonoured
    <3>3. CancelledOnlyIfAsked'
      BY <1>i, <1>u, <1>e, <2>2, <3>1 DEF CancelInv, CancelledOnlyIfAsked
    <3> QED BY <1>i, <1>u, <1>e, <3>2, <3>3 DEF CancelInv
  <2> QED BY <1>i, <2>1, <2>2
<1> QED BY <1>1, <1>2, <1>3, <1>4, <1>5, <1>6, <1>7 DEF IInv

\* The response of the worker reaches the pipe: descriptor 1 is not redirected.
LEMMA FlushLineByWorkerStep ==
  ASSUME IInv, FlushLine("worker")
  PROVE  IInv'
<1>i. TypeOK /\ LockInv /\ GateInv /\ HoldInv /\ NothingSwallowed /\ AccountInv /\ CancelInv
  BY DEF IInv
<1>u. UNCHANGED <<reqs, stdinOpen, hostReads, taken, resp, stopping, exitCode, wReq,
                  polls, cancelled, fd1, fellBack, cancelAt>>
  BY DEF FlushLine, FlushStdout, pipeVars, workerVars, outVars
<1>e. /\ pc["worker"] = "flush" /\ Alive /\ lock = "worker" /\ lock' = "free" /\ outBuf' = <<>>
      /\ captured' = captured /\ pipe' \in Seq(Line)
      /\ wReq \in Nat /\ taken \in Nat /\ wReq <= taken
      /\ pc' \in [Threads -> MainPcs \cup WorkerPcs] /\ pc'["main"] = pc["main"]
      /\ pc'["worker"] = "log" /\ "log" \in WorkerPcs
      /\ hostReads =>
            /\ \A i \in 1 .. Len(pipe') : (i \in 1 .. Len(pipe) /\ pipe'[i] = pipe[i])
                                        \/ (i = Len(pipe) + 1 /\ pipe'[i] = resp["worker"])
            /\ \A i \in 1 .. Len(pipe) : i \in 1 .. Len(pipe') /\ pipe'[i] = pipe[i]
            /\ \A r : (\E i \in 1 .. Len(pipe') : pipe'[i].req = r)
                        <=> (\E i \in 1 .. Len(pipe) : pipe[i].req = r) \/ r = wReq
      /\ ~hostReads => pipe' = pipe
  <2>1. /\ pipe \in Seq(Line) /\ captured \in Seq(Line) /\ hostReads \in BOOLEAN
        /\ fd1 \in {"pipe", "capture"} /\ wReq \in Nat /\ taken \in Nat /\ wReq <= taken
        /\ resp["worker"] \in Line
    BY <1>i, Elements DEF TypeOK, Threads
  <2>2. pc["worker"] = "flush" /\ lock = "worker" /\ Alive
    BY DEF FlushLine
  <2>3. fd1 = "pipe" /\ resp["worker"].req = wReq /\ outBuf = <<resp["worker"]>>
    BY <1>i, <2>1, <2>2, LockHolder DEF HoldInv, GateInv, WorkerAlive
  <2>4. pipe' = (IF hostReads THEN pipe \o outBuf ELSE pipe) /\ outBuf' = <<>> /\ captured' = captured
    BY <2>3 DEF FlushLine, FlushStdout
  <2>5. hostReads => pipe' = Append(pipe, resp["worker"])
    BY <2>1, <2>3, <2>4, Appended
  <2>6. pipe' \in Seq(Line)
    <3>1. CASE hostReads
      BY <1>i, <2>1, <2>5, <3>1, PipeGrows
    <3>2. CASE ~hostReads
      BY <2>1, <2>4, <3>2
    <3> QED BY <2>1, <3>1, <3>2
  <2>7. /\ hostReads =>
              /\ \A i \in 1 .. Len(pipe') : (i \in 1 .. Len(pipe) /\ pipe'[i] = pipe[i])
                                          \/ (i = Len(pipe) + 1 /\ pipe'[i] = resp["worker"])
              /\ \A i \in 1 .. Len(pipe) : i \in 1 .. Len(pipe') /\ pipe'[i] = pipe[i]
              /\ \A r : (\E i \in 1 .. Len(pipe') : pipe'[i].req = r)
                          <=> (\E i \in 1 .. Len(pipe) : pipe[i].req = r) \/ r = wReq
        /\ ~hostReads => pipe' = pipe
    BY <1>i, <2>1, <2>3, <2>4, <2>5, PipeGrows
  <2>8. "log" \in WorkerPcs
    BY DEF WorkerPcs
  <2>9. /\ pc' \in [Threads -> MainPcs \cup WorkerPcs] /\ pc'["main"] = pc["main"]
        /\ pc'["worker"] = "log"
    BY <1>i, <2>8, WorkerPcSet DEF FlushLine
  <2> QED BY <2>1, <2>2, <2>4, <2>6, <2>7, <2>8, <2>9 DEF FlushLine
<1>1. TypeOK'
  BY <1>i, <1>u, <1>e DEF TypeOK
<1>2. LockInv'
  BY <1>i, <1>u, <1>e, LockHolder DEF LockInv, Threads
<1>3. GateInv'
  BY <1>i, <1>u, <1>e DEF GateInv, WorkerAlive
<1>4. HoldInv'
  <2>1. OneAnswerEach'
    BY <1>i, <1>u, <1>e DEF HoldInv, WorkerHolds, Answered, OneAnswerEach
  <2>2. MainHolds' => taken' > 0 /\ ~Answered(taken)'
    BY <1>i, <1>u, <1>e DEF HoldInv, MainHolds, Answered
  <2>3. \A k \in 1 .. Len(pipe') : pipe'[k].req <= taken'
    BY <1>i, <1>u, <1>e DEF HoldInv, WorkerHolds
  <2> QED BY <1>i, <1>u, <1>e, <2>1, <2>2, <2>3 DEF HoldInv, MainHolds, WorkerHolds, WorkerAlive
<1>5. NothingSwallowed'
  BY <1>i, <1>u, <1>e DEF NothingSwallowed
<1>6. AccountInv'
  BY <1>i, <1>u, <1>e DEF AccountInv, MainHolds, WorkerHolds, Answered, Alive, WorkerAlive
<1>7. CancelInv'
  <2>1. CASE ~hostReads
    BY <1>i, <1>u, <1>e, <2>1 DEF CancelInv, CancelInTimeHonoured, CancelledOnlyIfAsked
  <2>2. CASE hostReads
    <3>1. /\ resp["worker"].req = wReq
          /\ <<wReq, "poll">> \in cancelAt => resp["worker"].code # "ok"
          /\ resp["worker"].code = "cancelled" => <<wReq, "poll">> \in cancelAt
          /\ "poll" \in WorkerPcs
      BY <1>i, <1>e DEF HoldInv, CancelInv, WorkerPcs
    <3>2. CancelInTimeHonoured'
      BY <1>i, <1>u, <1>e, <2>2, <3>1 DEF CancelInv, CancelInTimeHonoured
    <3>3. CancelledOnlyIfAsked'
      BY <1>i, <1>u, <1>e, <2>2, <3>1 DEF CancelInv, CancelledOnlyIfAsked
    <3> QED BY <1>i, <1>u, <1>e, <3>2, <3>3 DEF CancelInv
  <2> QED BY <1>i, <2>1, <2>2
<1> QED BY <1>1, <1>2, <1>3, <1>4, <1>5, <1>6, <1>7 DEF IInv

\* The worker forgets an old cancel before its first poll.
LEMMA WorkerStartStep ==
  ASSUME IInv, WorkerStart
  PROVE  IInv'
<1>i. TypeOK /\ LockInv /\ GateInv /\ HoldInv /\ NothingSwallowed /\ AccountInv /\ CancelInv
  BY DEF IInv
<1>u. UNCHANGED <<reqs, stdinOpen, hostReads, taken, stopping, exitCode, wReq, lock,
                  outBuf, fd1, pipe, captured, fellBack, cancelAt>>
  BY DEF WorkerStart, pipeVars, workerVars, outVars
<1>e. /\ pc["worker"] = "started" /\ Alive
      /\ pc' \in [Threads -> MainPcs \cup WorkerPcs] /\ pc'["main"] = pc["main"]
      /\ pc'["worker"] \in WorkerPcs
      /\ resp' \in [Threads -> Line] /\ resp'["main"] = resp["main"]
      /\ polls' \in 0 .. MaxPolls
      /\ \/ /\ pc'["worker"] = "poll" /\ cancelled' = cancelled \ {reqs[wReq].job}
            /\ resp' = resp
         \/ /\ pc'["worker"] = "write" /\ cancelled' = cancelled
            /\ resp'["worker"].req = wReq /\ resp'["worker"].code = "error"
  <2>1. wReq \in Nat /\ resp \in [Threads -> Line] /\ polls \in 0 .. MaxPolls /\ 0 \in 0 .. MaxPolls
    BY <1>i, Elements, MaxPollsAssumption DEF TypeOK
  <2>2. {"poll", "write"} \subseteq WorkerPcs /\ "error" \in Codes
    BY DEF WorkerPcs, Codes
  <2>3. CASE reqs[wReq].good
    BY <1>i, <2>1, <2>2, <2>3, WorkerPcSet DEF WorkerStart, ClearCancelled
  <2>4. CASE ~reqs[wReq].good
    <3>1. Respond("worker", wReq, "error") /\ UNCHANGED <<cancelled, polls>>
      BY <2>4 DEF WorkerStart
    <3> QED BY <1>i, <2>1, <2>2, <3>1, WorkerResponds DEF WorkerStart, Respond
  <2> QED BY <2>3, <2>4
<1>1. TypeOK'
  BY <1>i, <1>u, <1>e DEF TypeOK
<1>2. LockInv'
  BY <1>i, <1>u, <1>e, LockHolder DEF LockInv, Threads
<1>3. GateInv'
  BY <1>i, <1>u, <1>e DEF GateInv, WorkerAlive
<1>4. HoldInv'
  BY <1>i, <1>u, <1>e DEF HoldInv, MainHolds, WorkerHolds, WorkerAlive, Answered, OneAnswerEach
<1>5. NothingSwallowed'
  BY <1>i, <1>u, <1>e DEF NothingSwallowed
<1>6. AccountInv'
  BY <1>i, <1>u, <1>e DEF AccountInv, MainHolds, WorkerHolds, Answered, Alive, WorkerAlive
<1>7. CancelInv'
  BY <1>i, <1>u, <1>e DEF CancelInv, CancelInTimeHonoured, CancelledOnlyIfAsked, Alive
<1> QED BY <1>1, <1>2, <1>3, <1>4, <1>5, <1>6, <1>7 DEF IInv

\* Up to the last poll the marks of this download are in the cancel set.
LEMMA WorkerPollStep ==
  ASSUME IInv, WorkerPoll
  PROVE  IInv'
<1>i. TypeOK /\ LockInv /\ GateInv /\ HoldInv /\ NothingSwallowed /\ AccountInv /\ CancelInv
  BY DEF IInv
<1>u. UNCHANGED <<reqs, stdinOpen, hostReads, taken, stopping, exitCode, wReq,
                  cancelled, lock, outBuf, fd1, pipe, captured, fellBack, cancelAt>>
  BY DEF WorkerPoll, pipeVars, workerVars, outVars
<1>e. /\ pc["worker"] = "poll" /\ Alive
      /\ pc' \in [Threads -> MainPcs \cup WorkerPcs] /\ pc'["main"] = pc["main"]
      /\ pc'["worker"] \in WorkerPcs
      /\ resp' \in [Threads -> Line] /\ resp'["main"] = resp["main"]
      /\ polls' \in 0 .. MaxPolls
      /\ \/ /\ reqs[wReq].job \in cancelled
            /\ pc'["worker"] = "finish"
            /\ resp'["worker"].req = wReq /\ resp'["worker"].code = "cancelled"
         \/ /\ reqs[wReq].job \notin cancelled
            /\ pc'["worker"] \in {"poll", "install"} /\ resp' = resp
         \/ /\ reqs[wReq].job \notin cancelled
            /\ pc'["worker"] = "finish"
            /\ resp'["worker"].req = wReq
            /\ resp'["worker"].code \in {"error", "internal_error"}
  <2>1. wReq \in Nat /\ resp \in [Threads -> Line] /\ polls \in 0 .. MaxPolls
    BY <1>i, Elements DEF TypeOK
  <2>2. {"poll", "finish", "install"} \subseteq WorkerPcs
    BY DEF WorkerPcs
  <2>3. \A code \in {"cancelled", "error", "internal_error"} : code \in Codes
    BY DEF Codes
  <2>4. ASSUME NEW code \in {"cancelled", "error", "internal_error"}, Finish(code)
        PROVE  /\ pc' \in [Threads -> MainPcs \cup WorkerPcs] /\ pc'["main"] = pc["main"]
               /\ pc'["worker"] = "finish"
               /\ resp' \in [Threads -> Line] /\ resp'["main"] = resp["main"]
               /\ resp'["worker"].req = wReq /\ resp'["worker"].code = code
    BY <1>i, <2>1, <2>2, <2>3, <2>4, WorkerResponds DEF Finish
  <2>5. pc["worker"] = "poll" /\ Alive
    BY DEF WorkerPoll
  <2>6. CASE reqs[wReq].job \in cancelled
    <3>1. Finish("cancelled") /\ polls' = polls
      BY <2>6 DEF WorkerPoll, CancelRequested
    <3> QED BY <2>1, <2>2, <2>4, <2>5, <2>6, <3>1
  <2>7. CASE reqs[wReq].job \notin cancelled /\ ReadsChunk
    BY <1>i, <2>1, <2>5, <2>7, MaxPollsAssumption DEF ReadsChunk, TypeOK
  <2>8. CASE reqs[wReq].job \notin cancelled /\ pc' = [pc EXCEPT !["worker"] = "install"] /\ UNCHANGED <<polls, resp>>
    BY <1>i, <2>1, <2>2, <2>5, <2>8, WorkerPcSet
  <2>9. CASE reqs[wReq].job \notin cancelled /\ (\E code \in {"error", "internal_error"} : Finish(code)) /\ UNCHANGED polls
    BY <2>1, <2>2, <2>4, <2>5, <2>9
  <2> QED BY <2>6, <2>7, <2>8, <2>9 DEF WorkerPoll, CancelRequested
<1>1. TypeOK'
  BY <1>i, <1>u, <1>e DEF TypeOK
<1>2. LockInv'
  BY <1>i, <1>u, <1>e, LockHolder DEF LockInv, Threads
<1>3. GateInv'
  BY <1>i, <1>u, <1>e DEF GateInv, WorkerAlive
<1>4. HoldInv'
  BY <1>i, <1>u, <1>e DEF HoldInv, MainHolds, WorkerHolds, WorkerAlive, Answered, OneAnswerEach
<1>5. NothingSwallowed'
  BY <1>i, <1>u, <1>e DEF NothingSwallowed
<1>6. AccountInv'
  BY <1>i, <1>u, <1>e DEF AccountInv, MainHolds, WorkerHolds, Answered, Alive, WorkerAlive
<1>7. CancelInv'
  BY <1>i, <1>u, <1>e DEF CancelInv, CancelInTimeHonoured, CancelledOnlyIfAsked
<1> QED BY <1>1, <1>2, <1>3, <1>4, <1>5, <1>6, <1>7 DEF IInv

\* A download that came this far was not cancelled at a poll.
LEMMA WorkerInstallStep ==
  ASSUME IInv, WorkerInstall
  PROVE  IInv'
<1>i. TypeOK /\ LockInv /\ GateInv /\ HoldInv /\ NothingSwallowed /\ AccountInv /\ CancelInv
  BY DEF IInv
<1>u. UNCHANGED <<reqs, stdinOpen, hostReads, taken, stopping, exitCode, wReq, polls,
                  cancelled, lock, outBuf, fd1, pipe, captured, fellBack, cancelAt>>
  BY DEF WorkerInstall, pipeVars, workerVars, outVars
<1>e. /\ pc["worker"] = "install" /\ Alive /\ pc["main"] # "exited"
      /\ pc' \in [Threads -> MainPcs \cup WorkerPcs]
      /\ pc'["worker"] = "finish" /\ "finish" \in WorkerPcs /\ pc'["main"] = pc["main"]
      /\ resp' \in [Threads -> Line]
      /\ resp'["worker"].req = wReq /\ resp'["worker"].code \notin {"noise", "cancelled"}
      /\ resp'["main"] = resp["main"]
  <2>1. wReq \in Nat /\ "finish" \in WorkerPcs
    BY <1>i, Elements DEF TypeOK, WorkerPcs
  <2>2. PICK code \in {"ok", "error", "internal_error"} : Finish(code)
    BY DEF WorkerInstall
  <2>3. code \in Codes
    BY DEF Codes
  <2> QED BY <1>i, <2>1, <2>2, <2>3, WorkerResponds DEF WorkerInstall, Finish, Alive
<1>1. TypeOK'
  BY <1>i, <1>u, <1>e DEF TypeOK
<1>2. LockInv'
  BY <1>i, <1>u, <1>e, LockHolder DEF LockInv, Threads
<1>3. GateInv'
  BY <1>i, <1>u, <1>e DEF GateInv, WorkerAlive
<1>4. HoldInv'
  BY <1>i, <1>u, <1>e DEF HoldInv, MainHolds, WorkerHolds, WorkerAlive, Answered, OneAnswerEach
<1>5. NothingSwallowed'
  BY <1>i, <1>u, <1>e DEF NothingSwallowed
<1>6. AccountInv'
  BY <1>i, <1>u, <1>e DEF AccountInv, MainHolds, WorkerHolds, Answered, Alive, WorkerAlive
<1>7. CancelInv'
  BY <1>i, <1>u, <1>e DEF CancelInv, CancelInTimeHonoured, CancelledOnlyIfAsked
<1> QED BY <1>1, <1>2, <1>3, <1>4, <1>5, <1>6, <1>7 DEF IInv

\* Forgetting the cancel of a finished download.
LEMMA WorkerFinishStep ==
  ASSUME IInv, WorkerFinish
  PROVE  IInv'
<1>i. TypeOK /\ LockInv /\ GateInv /\ HoldInv /\ NothingSwallowed /\ AccountInv /\ CancelInv
  BY DEF IInv
<1>u. UNCHANGED <<reqs, stdinOpen, hostReads, taken, resp, stopping, exitCode, wReq,
                  polls, lock, outBuf, fd1, pipe, captured, fellBack, cancelAt>>
  BY DEF WorkerFinish, pipeVars, workerVars, outVars
<1>e. /\ pc["worker"] = "finish" /\ Alive /\ pc["main"] # "exited"
      /\ pc' \in [Threads -> MainPcs \cup WorkerPcs]
      /\ pc'["worker"] = "write" /\ "write" \in WorkerPcs /\ pc'["main"] = pc["main"]
      /\ cancelled' = cancelled \ {reqs[wReq].job}
  BY <1>i, WorkerPcSet DEF WorkerFinish, WorkerPcs, ClearCancelled, Alive
<1>1. TypeOK'
  BY <1>i, <1>u, <1>e DEF TypeOK
<1>2. LockInv'
  BY <1>i, <1>u, <1>e, LockHolder DEF LockInv, Threads
<1>3. GateInv'
  BY <1>i, <1>u, <1>e DEF GateInv, WorkerAlive
<1>4. HoldInv'
  BY <1>i, <1>u, <1>e DEF HoldInv, MainHolds, WorkerHolds, WorkerAlive, Answered, OneAnswerEach
<1>5. NothingSwallowed'
  BY <1>i, <1>u, <1>e DEF NothingSwallowed
<1>6. AccountInv'
  BY <1>i, <1>u, <1>e DEF AccountInv, MainHolds, WorkerHolds, Answered, Alive, WorkerAlive
<1>7. CancelInv'
  BY <1>i, <1>u, <1>e DEF CancelInv, CancelInTimeHonoured, CancelledOnlyIfAsked
<1> QED BY <1>1, <1>2, <1>3, <1>4, <1>5, <1>6, <1>7 DEF IInv

\* The worker ends owing nothing.
LEMMA WorkerEndStep ==
  ASSUME IInv, WorkerEnd
  PROVE  IInv'
<1>i. TypeOK /\ LockInv /\ GateInv /\ HoldInv /\ NothingSwallowed /\ AccountInv /\ CancelInv
  BY DEF IInv
<1>u. UNCHANGED <<reqs, stdinOpen, hostReads, taken, resp, stopping, exitCode, wReq,
                  polls, cancelled, lock, outBuf, fd1, pipe, captured, fellBack,
                  cancelAt>>
  BY DEF WorkerEnd, pipeVars, workerVars, outVars
<1>e. /\ pc["worker"] = "log" /\ Alive /\ pc["main"] # "exited"
      /\ pc' \in [Threads -> MainPcs \cup WorkerPcs]
      /\ pc'["worker"] = "dead" /\ "dead" \in WorkerPcs /\ pc'["main"] = pc["main"]
  BY <1>i, WorkerPcSet DEF WorkerEnd, WorkerPcs, Alive
<1>1. TypeOK'
  BY <1>i, <1>u, <1>e DEF TypeOK
<1>2. LockInv'
  BY <1>i, <1>u, <1>e, LockHolder DEF LockInv, Threads
<1>3. GateInv'
  BY <1>i, <1>u, <1>e DEF GateInv, WorkerAlive
<1>4. HoldInv'
  BY <1>i, <1>u, <1>e DEF HoldInv, MainHolds, WorkerHolds, WorkerAlive, Answered, OneAnswerEach
<1>5. NothingSwallowed'
  BY <1>i, <1>u, <1>e DEF NothingSwallowed
<1>6. AccountInv'
  BY <1>i, <1>u, <1>e DEF AccountInv, MainHolds, WorkerHolds, Answered, Alive, WorkerAlive
<1>7. CancelInv'
  BY <1>i, <1>u, <1>e DEF CancelInv, CancelInTimeHonoured, CancelledOnlyIfAsked
<1> QED BY <1>1, <1>2, <1>3, <1>4, <1>5, <1>6, <1>7 DEF IInv

-----------------------------------------------------------------------------
(* The theorems *)

\* The server starts with nothing read and nothing owed.
LEMMA InitHolds == Init => IInv
<1> SUFFICES ASSUME Init PROVE IInv
  OBVIOUS
<1>1. /\ reqs = <<>> /\ pipe = <<>> /\ captured = <<>> /\ outBuf = <<>>
      /\ Len(reqs) = 0 /\ Len(pipe) = 0 /\ Len(captured) = 0
      /\ taken = 0 /\ wReq = 0 /\ polls = 0 /\ exitCode = 0
      /\ pc \in [Threads -> MainPcs \cup WorkerPcs]
      /\ pc["main"] = "read" /\ pc["main"] \in MainPcs
      /\ pc["worker"] = "none" /\ pc["worker"] \in WorkerPcs
      /\ cancelled = {} /\ cancelAt = {}
      /\ lock = "free" /\ fd1 = "pipe" /\ stopping = FALSE
  BY DEF Init, Threads, MainPcs, WorkerPcs
<1>2. resp \in [Threads -> Line]
  BY NoiseIsLine DEF Init
<1>3. TypeOK
  <2>1. reqs \in Seq(Request) /\ outBuf \in Seq(Line) /\ pipe \in Seq(Line) /\ captured \in Seq(Line)
    BY <1>1
  <2>2. taken \in 0 .. Len(reqs) /\ wReq \in 0 .. taken /\ polls \in 0 .. MaxPolls
    BY <1>1, MaxPollsAssumption
  <2>3. /\ stdinOpen \in BOOLEAN /\ hostReads \in BOOLEAN /\ stopping \in BOOLEAN
        /\ fellBack \in BOOLEAN /\ exitCode \in {0, 1}
    BY DEF Init
  <2>4. cancelled \subseteq Jobs /\ cancelAt \subseteq Nat \X WorkerPcs
    BY <1>1
  <2> QED BY <1>1, <1>2, <2>1, <2>2, <2>3, <2>4 DEF TypeOK
<1>4. LockInv
  BY <1>1 DEF LockInv, Threads
<1>5. GateInv
  BY <1>1 DEF GateInv
<1>6. HoldInv
  BY <1>1 DEF HoldInv, MainHolds, WorkerHolds, WorkerAlive, OneAnswerEach
<1>7. NothingSwallowed
  BY <1>1 DEF NothingSwallowed
<1>8. AccountInv
  BY <1>1 DEF AccountInv, Alive
<1>9. CancelInv
  BY <1>1 DEF CancelInv, CancelInTimeHonoured, CancelledOnlyIfAsked
<1> QED BY <1>3, <1>4, <1>5, <1>6, <1>7, <1>8, <1>9 DEF IInv

\* A stuttering step keeps the invariant.
LEMMA UnchangedKeeps ==
  ASSUME IInv, UNCHANGED vars
  PROVE  IInv'
<1>i. TypeOK /\ LockInv /\ GateInv /\ HoldInv /\ NothingSwallowed /\ AccountInv /\ CancelInv
  BY DEF IInv
<1>u. UNCHANGED <<reqs, stdinOpen, hostReads, taken, pc, resp, stopping, exitCode,
                  wReq, polls, cancelled, lock, outBuf, fd1, pipe, captured,
                  fellBack, cancelAt>>
  BY DEF vars
<1>1. TypeOK'
  BY <1>i, <1>u DEF TypeOK
<1>2. LockInv'
  BY <1>i, <1>u DEF LockInv
<1>3. GateInv'
  BY <1>i, <1>u DEF GateInv, WorkerAlive
<1>4. HoldInv'
  BY <1>i, <1>u DEF HoldInv, MainHolds, WorkerHolds, WorkerAlive, Answered, OneAnswerEach
<1>5. NothingSwallowed'
  BY <1>i, <1>u DEF NothingSwallowed
<1>6. AccountInv'
  BY <1>i, <1>u DEF AccountInv, MainHolds, WorkerHolds, Answered, Alive, WorkerAlive
<1>7. CancelInv'
  BY <1>i, <1>u DEF CancelInv, CancelInTimeHonoured, CancelledOnlyIfAsked
<1> QED BY <1>1, <1>2, <1>3, <1>4, <1>5, <1>6, <1>7 DEF IInv

\* Every step of the server, of its worker and of the host keeps the invariant.
LEMMA NextKeeps == IInv /\ [Next]_vars => IInv'
<1> SUFFICES ASSUME IInv, [Next]_vars PROVE IInv'
  OBVIOUS
<1>1. CASE MainStep
  BY <1>1, MainReadStep, MainReadFailsStep, MainEndOfInputStep, MainJoinStep,
     HandlePlainStep, HandleCancelStep, HandleShutdownStep, HandleBackendStep,
     RedirectStep, BackendPrintsStep, RestoreStep, WriteLineByMainStep,
     FlushLineByMainStep DEF MainStep
<1>2. CASE WorkerStep
  BY <1>2, WorkerStartStep, WorkerPollStep, WorkerInstallStep, WorkerFinishStep,
     WriteLineByWorkerStep, FlushLineByWorkerStep, WorkerEndStep DEF WorkerStep
<1>3. CASE HostStep
  BY <1>3, RequestsAssumption, HostSendStep, HostCloseStdinStep, HostGoneStep DEF HostStep
<1>4. CASE UNCHANGED vars
  BY <1>4, UnchangedKeeps
<1> QED BY <1>1, <1>2, <1>3, <1>4 DEF Next, Ended

\* The invariant holds in every reachable state.
THEOREM Invariance == Spec => []IInv
<1>1. Init => IInv
  BY InitHolds
<1>2. IInv /\ [Next]_vars => IInv'
  BY NextKeeps
<1> QED BY <1>1, <1>2, PTL DEF Spec

\* The variables keep their types, the chunk counter its bound.
THEOREM TypeCorrect == Spec => []TypeOK
<1>1. IInv => TypeOK
  BY DEF IInv
<1> QED BY <1>1, Invariance, PTL

\* At most one response line answers each request, for any number of
\* requests and any interleaving of the two threads that write responses.
THEOREM AnsweredOnce == Spec => []OneAnswerEach
<1>1. IInv => OneAnswerEach
  BY DEF IInv, HoldInv
<1> QED BY <1>1, Invariance, PTL

\* No response line is swallowed by the capture of a backend's output.
THEOREM ResponsesReachThePipe == Spec => []NothingSwallowed
<1>1. IInv => NothingSwallowed
  BY DEF IInv
<1> QED BY <1>1, Invariance, PTL

\* No backend call, no install and no shutdown runs while a worker lives.
THEOREM DownloadIsAlone == Spec => []DownloadRunsAlone
<1>1. IInv => DownloadRunsAlone
  BY DEF IInv, GateInv, DownloadRunsAlone, Occupied, PollCommands
<1> QED BY <1>1, Invariance, PTL

\* A cancel accepted while the download polls prevents its ok answer.
THEOREM CancelStopsDownload == Spec => []CancelInTimeHonoured
<1>1. IInv => CancelInTimeHonoured
  BY DEF IInv, CancelInv
<1> QED BY <1>1, Invariance, PTL

\* No download is cancelled by a cancel that was not accepted while it ran.
THEOREM NoForeignCancel == Spec => []CancelledOnlyIfAsked
<1>1. IInv => CancelledOnlyIfAsked
  BY DEF IInv, CancelInv
<1> QED BY <1>1, Invariance, PTL

\* A server that exits with code 0 has answered every request it has read and
\* leaves no download behind.
THEOREM ExitIsClean == Spec => []CleanExit
<1>1. IInv => CleanExit
  BY DEF IInv, AccountInv, CleanExit, Alive, WorkerAlive, MainHolds, WorkerHolds
<1> QED BY <1>1, Invariance, PTL

-----------------------------------------------------------------------------
(* The promise of Answering *)

\* The types the lemmas of this module use.
LEMMA Ranges ==
  ASSUME TypeOK
  PROVE  /\ taken \in 0 .. Len(reqs) /\ wReq \in 0 .. taken
         /\ taken \in Nat /\ wReq \in Nat /\ wReq <= taken
         /\ Len(reqs) \in Nat /\ Len(pipe) \in Nat
         /\ taken > 0 => taken \in 1 .. Len(reqs)
         /\ wReq > 0 => wReq \in 1 .. Len(reqs)
         /\ pc["main"] \in MainPcs /\ pc["worker"] \in WorkerPcs
         /\ fd1 \in {"pipe", "capture"} /\ fellBack \in BOOLEAN
<1>1. Len(reqs) \in Nat /\ Len(pipe) \in Nat
  BY Elements
<1> QED BY <1>1 DEF TypeOK

\* A step that leaves the requests, the responses and the pipe alone keeps
\* PromiseInv when neither thread comes to hold a request it did not hold.
LEMMA QuietKeepsPromise ==
  ASSUME PromiseInv,
         UNCHANGED <<reqs, taken, wReq, pipe, resp>>,
         WorkerAlive' => WorkerAlive,
         MainHolds' /\ pc'["main"] \notin {"write", "flush"} =>
           MainHolds /\ pc["main"] \notin {"write", "flush"},
         pc'["main"] \in {"write", "flush"} => pc["main"] \in {"write", "flush"},
         pc'["worker"] \in {"finish", "write", "flush"} =>
           pc["worker"] \in {"finish", "write", "flush"}
  PROVE  PromiseInv'
  BY DEF PromiseInv

\* The same of CaptureInv, when the backend does not start to run.
LEMMA QuietKeepsCapture ==
  ASSUME CaptureInv,
         UNCHANGED <<fd1, pipe, fellBack>>,
         pc'["main"] \in {"import", "run"} => pc["main"] \in {"import", "run"}
  PROVE  CaptureInv'
  BY DEF CaptureInv, PipeIsClean

\* While the backend is entered or left nothing waits in the text buffer.
LEMMA NothingBuffered ==
  ASSUME IInv, pc["main"] \in {"enter_import", "enter_run", "import", "run"}
  PROVE  outBuf = <<>>
<1>i. TypeOK /\ LockInv /\ GateInv
  BY DEF IInv
<1>1. ~WorkerAlive
  BY <1>i DEF GateInv
<1>2. pc["worker"] # "flush" /\ pc["main"] # "flush"
  BY <1>1 DEF WorkerAlive
<1> QED BY <1>i, <1>2, LockHolder

\* A handler's response on the main thread, which is never a refusal.
LEMMA HandlerRespondsKeeps ==
  ASSUME IInv, PromiseInv, CaptureInv,
         MainHolds, pc["main"] \notin {"write", "flush"},
         NEW code \in Codes \ {"busy"}, Respond("main", taken, code),
         UNCHANGED <<reqs, taken, wReq, pipe, fellBack>>
  PROVE  PromiseInv' /\ CaptureInv'
<1>i. TypeOK
  BY DEF IInv
<1>1. /\ pc'["main"] = "write" /\ pc'["worker"] = pc["worker"]
      /\ resp'["main"].code = code /\ resp'["worker"] = resp["worker"]
  BY <1>i, Ranges, MainResponds
<1>2. WorkerAlive' = WorkerAlive
  BY <1>1 DEF WorkerAlive
<1>3. PromiseInv'
  BY <1>1, <1>2 DEF PromiseInv, MainHolds
<1>4. CaptureInv'
  BY <1>1 DEF CaptureInv, PipeIsClean
<1> QED BY <1>3, <1>4

-----------------------------------------------------------------------------
(* One lemma per action that the two invariants notice. *)

\* The host's requests come after those that were read.
LEMMA HostSendKeeps ==
  ASSUME IInv, PromiseInv, CaptureInv, NEW rq \in Request, HostSend(rq)
  PROVE  PromiseInv' /\ CaptureInv'
<1>i. TypeOK /\ HoldInv
  BY DEF IInv
<1>1. /\ reqs' = Append(reqs, rq)
      /\ UNCHANGED <<taken, pc, resp, wReq, fd1, pipe, fellBack>>
  BY DEF HostSend, workerVars, outVars
<1>2. \A r \in 1 .. Len(reqs) : reqs'[r] = reqs[r]
  BY <1>i, <1>1 DEF TypeOK
<1>3. (WorkerAlive => wReq \in 1 .. Len(reqs)) /\ (MainHolds => taken \in 1 .. Len(reqs))
  BY <1>i, Ranges DEF HoldInv
<1>4. UNCHANGED <<WorkerAlive, MainHolds>>
  BY <1>1 DEF WorkerAlive, MainHolds
<1>5. pc["main"] \in {"write", "flush"} => MainHolds
  BY DEF MainHolds
<1>6. wReq > 0 => wReq \in 1 .. Len(reqs)
  BY <1>i, Ranges
<1>7. PromiseInv'
  BY <1>1, <1>2, <1>3, <1>4, <1>5, <1>6 DEF PromiseInv
<1>8. CaptureInv'
  BY <1>1, QuietKeepsCapture
<1> QED BY <1>7, <1>8

\* The main thread takes the next line: it starts a worker for a download,
\* refuses on account of the worker's download, or handles another request.
LEMMA MainReadKeeps ==
  ASSUME IInv, PromiseInv, CaptureInv, MainRead
  PROVE  PromiseInv' /\ CaptureInv'
<1>i. TypeOK /\ HoldInv
  BY DEF IInv
<1>r. /\ taken \in Nat /\ wReq \in Nat /\ taken + 1 \in Nat /\ wReq <= taken
      /\ \A i \in 1 .. Len(pipe) : pipe[i].req <= taken /\ pipe[i].req \in Nat
  BY <1>i, Ranges, Elements DEF HoldInv
<1>u. UNCHANGED <<reqs, fd1, pipe, fellBack>> /\ taken' = taken + 1 /\ pc["main"] = "read"
  BY DEF MainRead, pipeVars, outVars
<1>1. CASE StartsWorker(reqs[taken + 1].cmd) /\ LaunchWorker(taken + 1)
  <2>1. /\ pc'["worker"] = "started" /\ pc'["main"] = "read"
        /\ wReq' = taken + 1 /\ resp' = resp
    <3>1. "started" \in WorkerPcs
      BY DEF WorkerPcs
    <3> QED BY <1>i, <1>u, <1>1, <3>1, WorkerPcSet DEF LaunchWorker
  <2>2. reqs[taken + 1].cmd = "download_model"
    BY <1>1 DEF StartsWorker
  <2>3. \A i \in 1 .. Len(pipe) : pipe[i].req # taken + 1
    BY <1>r
  <2>4. ~MainHolds'
    BY <2>1 DEF MainHolds
  <2>5. PromiseInv'
    BY <1>u, <2>1, <2>2, <2>3, <2>4 DEF PromiseInv
  <2> QED BY <1>u, <2>1, <2>5, QuietKeepsCapture
<1>2. CASE Refused(reqs[taken + 1].cmd) /\ Respond("main", taken + 1, "busy") /\ UNCHANGED wReq
  <2>1. /\ pc'["main"] = "write" /\ pc'["worker"] = pc["worker"]
        /\ resp'["main"].code = "busy" /\ resp'["worker"] = resp["worker"]
    <3>1. "busy" \in Codes
      BY DEF Codes
    <3> QED BY <1>i, <1>r, <1>2, <3>1, MainResponds
  <2>2. WorkerAlive /\ wReq > 0 /\ reqs[wReq].cmd = "download_model"
    BY <1>i, <1>2 DEF Refused, HoldInv, PromiseInv
  <2>3. PromiseInv'
    BY <1>u, <1>2, <2>1, <2>2 DEF PromiseInv
  <2> QED BY <1>u, <2>1, <2>3, QuietKeepsCapture
<1>3. CASE /\ ~StartsWorker(reqs[taken + 1].cmd) /\ ~Refused(reqs[taken + 1].cmd)
           /\ pc' = [pc EXCEPT !["main"] = "handle",
                               !["worker"] = IF WorkerAlive THEN @ ELSE "none"]
           /\ UNCHANGED <<resp, wReq>>
  <2>1. pc'["main"] = "handle" /\ pc'["worker"] = IF WorkerAlive THEN pc["worker"] ELSE "none"
    BY <1>i, <1>3 DEF TypeOK, Threads
  <2>2. reqs[taken + 1].cmd # "download_model"
    BY <1>3 DEF StartsWorker, Refused, PollCommands
  <2>3. WorkerAlive' => WorkerAlive
    BY <2>1 DEF WorkerAlive
  <2>4. PromiseInv'
    BY <1>u, <1>3, <2>1, <2>2, <2>3 DEF PromiseInv
  <2> QED BY <1>u, <2>1, <2>4, QuietKeepsCapture
<1> QED BY <1>1, <1>2, <1>3 DEF MainRead

\* The handlers that answer at once.
LEMMA HandlersKeep ==
  ASSUME IInv, PromiseInv, CaptureInv, HandlePlain \/ HandleCancel \/ HandleShutdown
  PROVE  PromiseInv' /\ CaptureInv'
<1>u. /\ UNCHANGED <<reqs, taken, wReq, pipe, fellBack>>
      /\ pc["main"] = "handle" /\ MainHolds
  BY DEF HandlePlain, HandleCancel, HandleShutdown, pipeVars, workerVars, outVars, MainHolds
<1>1. PICK code \in Codes \ {"busy"} : Respond("main", taken, code)
  <2>1. {"ok", "error", "internal_error"} \subseteq Codes \ {"busy"}
    BY DEF Codes
  <2>2. CASE HandlePlain
    BY <2>1, <2>2 DEF HandlePlain, Outcomes
  <2>3. CASE HandleCancel \/ HandleShutdown
    BY <2>1, <2>3 DEF HandleCancel, HandleShutdown
  <2> QED BY <2>2, <2>3
<1> QED BY <1>u, <1>1, HandlerRespondsKeeps

\* The backend is entered: nothing is buffered that the flush could write.
LEMMA EnterBackendKeeps ==
  ASSUME IInv, PromiseInv, CaptureInv, HandleBackend \/ Redirect
  PROVE  PromiseInv' /\ CaptureInv'
<1>i. TypeOK
  BY DEF IInv
<1>1. CASE HandleBackend
  <2>1. /\ UNCHANGED <<reqs, taken, wReq, pipe, resp, fd1, fellBack>>
        /\ pc["main"] = "handle" /\ MainHolds
    BY <1>1 DEF HandleBackend, pipeVars, workerVars, outVars, MainHolds
  <2>2. pc'["main"] = "enter_import" /\ pc'["worker"] = pc["worker"]
    BY <1>i, <1>1, MainPcSet DEF HandleBackend, MainPcs
  <2>3. WorkerAlive' = WorkerAlive
    BY <2>2 DEF WorkerAlive
  <2> QED BY <2>1, <2>2, <2>3, QuietKeepsPromise, QuietKeepsCapture
<1>2. CASE Redirect
  <2>1. /\ UNCHANGED <<reqs, taken, wReq, resp>> /\ MainHolds
        /\ pc["main"] \in {"enter_import", "enter_run"}
    BY <1>2 DEF Redirect, pipeVars, workerVars, MainHolds
  <2>2. pipe' = pipe
    <3>1. outBuf = <<>> /\ pipe \in Seq(Line)
      BY <1>i, <2>1, NothingBuffered DEF TypeOK
    <3>2. pipe \o <<>> = pipe
      BY <3>1, Appended, NoiseIsLine
    <3> QED BY <1>2, <3>1, <3>2 DEF Redirect, FlushStdout
  <2>3. pc'["main"] \in {"import", "run"} /\ pc'["worker"] = pc["worker"]
    BY <1>i, <1>2 DEF Redirect, TypeOK, Threads
  <2>4. WorkerAlive' = WorkerAlive
    BY <2>3 DEF WorkerAlive
  <2>5. PromiseInv'
    BY <2>1, <2>2, <2>3, <2>4, QuietKeepsPromise
  <2>6. fd1' = "pipe" => fellBack'
    BY <1>i, <1>2, <2>1, Ranges DEF Redirect, PointFd1AtCapture, CaptureInv
  <2>7. fellBack => fellBack'
    BY <1>i, <1>2, Ranges DEF Redirect, PointFd1AtCapture
  <2> QED BY <2>2, <2>5, <2>6, <2>7 DEF CaptureInv, PipeIsClean
<1> QED BY <1>1, <1>2

\* What the backend prints answers nothing, and it reaches the pipe only
\* where the redirection has failed.
LEMMA BackendPrintsKeeps ==
  ASSUME IInv, PromiseInv, CaptureInv, BackendPrints
  PROVE  PromiseInv' /\ CaptureInv'
<1>i. TypeOK
  BY DEF IInv
<1>u. /\ UNCHANGED <<reqs, taken, wReq, resp, pc, fd1, fellBack>>
      /\ pc["main"] \in {"import", "run"}
  BY DEF BackendPrints, pipeVars, workerVars
<1>1. CASE pipe' = pipe
  BY <1>u, <1>1, QuietKeepsPromise, QuietKeepsCapture DEF WorkerAlive, MainHolds
<1>2. CASE pipe' = Append(pipe, Noise) /\ fd1 = "pipe"
  <2>1. /\ Noise.req = 0 /\ wReq \in Nat
        /\ \A i \in 1 .. Len(pipe') : \/ i \in 1 .. Len(pipe) /\ pipe'[i] = pipe[i]
                                      \/ pipe'[i] = Noise
    BY <1>i, <1>2, NoiseIsLine, PipeGrows, Ranges
  <2>2. \A i \in 1 .. Len(pipe') : wReq > 0 /\ pipe'[i].req = wReq => pipe'[i].code # "busy"
    BY <2>1 DEF PromiseInv
  <2>3. PromiseInv'
    BY <1>u, <2>2 DEF PromiseInv, WorkerAlive, MainHolds
  <2>4. fellBack
    BY <1>u, <1>2 DEF CaptureInv
  <2> QED BY <1>u, <2>3, <2>4 DEF CaptureInv, PipeIsClean
<1>3. pipe' = pipe \/ (pipe' = Append(pipe, Noise) /\ fd1 = "pipe")
  BY <1>i, Ranges DEF BackendPrints
<1> QED BY <1>1, <1>2, <1>3

\* The backend is left: after the import for the run, or with an answer.
LEMMA RestoreKeeps ==
  ASSUME IInv, PromiseInv, CaptureInv, Restore
  PROVE  PromiseInv' /\ CaptureInv'
<1>i. TypeOK
  BY DEF IInv
<1>u. /\ UNCHANGED <<reqs, taken, wReq, fellBack>> /\ MainHolds
      /\ pc["main"] \in {"import", "run"}
  BY DEF Restore, pipeVars, workerVars, MainHolds
<1>p. pipe' = pipe
  <2>1. outBuf = <<>> /\ pipe \in Seq(Line)
    BY <1>i, <1>u, NothingBuffered DEF TypeOK
  <2>2. pipe \o <<>> = pipe
    BY <2>1, Appended, NoiseIsLine
  <2> QED BY <2>1, <2>2 DEF Restore, FlushStdout
<1>1. CASE pc' = [pc EXCEPT !["main"] = "enter_run"] /\ UNCHANGED resp
  <2>1. pc'["main"] = "enter_run" /\ pc'["worker"] = pc["worker"]
    BY <1>i, <1>1, MainPcSet DEF MainPcs
  <2>2. WorkerAlive' = WorkerAlive
    BY <2>1 DEF WorkerAlive
  <2>3. PromiseInv'
    BY <1>u, <1>p, <1>1, <2>1, <2>2, QuietKeepsPromise
  <2> QED BY <1>u, <1>p, <2>1, <2>3 DEF CaptureInv, PipeIsClean
<1>2. CASE \E code \in {"ok", "error", "internal_error"} : Respond("main", taken, code)
  <2>1. PICK code \in {"ok", "error", "internal_error"} : Respond("main", taken, code)
    BY <1>2
  <2>2. code \in Codes \ {"busy"}
    BY DEF Codes
  <2> QED BY <1>u, <1>p, <2>1, <2>2, HandlerRespondsKeeps
<1> QED BY <1>1, <1>2 DEF Restore

\* What a flush puts on the pipe: the response of the thread that holds the
\* lock, to the request that thread holds, when the host still reads.
LEMMA FlushAppends ==
  ASSUME IInv, NEW t \in Threads, FlushLine(t)
  PROVE  /\ pc[t] = "flush" /\ resp[t] \in Line
         /\ resp[t].req = (IF t = "main" THEN taken ELSE wReq)
         /\ resp[t].req \in Nat \ {0} /\ ~Answered(resp[t].req)
         /\ resp[t].code # "noise"
         /\ hostReads => pipe' = Append(pipe, resp[t])
         /\ ~hostReads => pipe' = pipe
<1>i. TypeOK /\ LockInv /\ GateInv /\ HoldInv
  BY DEF IInv
<1>1. pc[t] = "flush" /\ lock = t /\ t \in {"main", "worker"}
  BY DEF FlushLine, Threads
<1>2. resp[t] \in Line /\ taken \in Nat /\ wReq \in Nat /\ pipe \in Seq(Line)
  BY <1>i, Elements, Ranges DEF TypeOK
<1>3. outBuf = <<resp[t]>>
  BY <1>i, <1>1, LockHolder
<1>4. fd1 = "pipe"
  <2>1. CASE t = "main"
    BY <1>i, <1>1, <2>1, Ranges DEF GateInv
  <2>2. CASE t = "worker"
    BY <1>i, <1>1, <2>2, Ranges DEF GateInv, WorkerAlive
  <2> QED BY <1>1, <2>1, <2>2
<1>5. pipe' = (IF hostReads THEN pipe \o outBuf ELSE pipe)
  BY <1>4 DEF FlushLine, FlushStdout
<1>6. pipe \o <<resp[t]>> = Append(pipe, resp[t])
  BY <1>2, Appended
<1>7. /\ resp[t].req = (IF t = "main" THEN taken ELSE wReq)
      /\ resp[t].req # 0 /\ ~Answered(resp[t].req) /\ resp[t].code # "noise"
  <2>1. CASE t = "main"
    BY <1>i, <1>1, <1>2, <2>1 DEF HoldInv, MainHolds
  <2>2. CASE t = "worker"
    BY <1>i, <1>1, <1>2, <2>2 DEF HoldInv, WorkerHolds, WorkerAlive
  <2> QED BY <1>1, <2>1, <2>2
<1> QED BY <1>1, <1>2, <1>3, <1>5, <1>6, <1>7

\* A response is written to the buffer, or flushed to the pipe: a refusal of
\* the worker's own request is not among them.
LEMMA ResponseKeeps ==
  ASSUME IInv, PromiseInv, CaptureInv, NEW t \in Threads, WriteLine(t) \/ FlushLine(t)
  PROVE  PromiseInv' /\ CaptureInv'
<1>i. TypeOK /\ HoldInv
  BY DEF IInv
<1>t. t \in {"main", "worker"}
  BY DEF Threads
<1>u. UNCHANGED <<reqs, taken, wReq, resp, fd1, fellBack>>
  BY DEF WriteLine, FlushLine, pipeVars, workerVars, outVars
<1>1. CASE WriteLine(t)
  <2>1. pipe' = pipe /\ pc[t] = "write"
    BY <1>1 DEF WriteLine
  <2>2. /\ t = "main" => pc'["main"] = "flush" /\ pc'["worker"] = pc["worker"]
        /\ t = "worker" => pc'["worker"] = "flush" /\ pc'["main"] = pc["main"]
    BY <1>i, <1>1, MainPcSet, WorkerPcSet DEF WriteLine, MainPcs, WorkerPcs
  <2>3. PromiseInv'
    BY <1>t, <1>u, <2>1, <2>2, QuietKeepsPromise DEF WorkerAlive, MainHolds
  <2> QED BY <1>t, <1>u, <2>1, <2>2, <2>3, QuietKeepsCapture
<1>2. CASE FlushLine(t)
  <2>1. /\ t = "main" => pc'["main"] \in {"exited", "read"} /\ pc'["worker"] = pc["worker"]
        /\ t = "worker" => pc'["worker"] = "log" /\ pc'["main"] = pc["main"]
    <3>1. {"exited", "read"} \subseteq MainPcs /\ "log" \in WorkerPcs
      BY DEF MainPcs, WorkerPcs
    <3> QED BY <1>i, <1>2, <3>1, MainPcSet, WorkerPcSet DEF FlushLine
  <2>2. WorkerAlive' => WorkerAlive
    BY <1>t, <1>2, <2>1, FlushAppends DEF WorkerAlive
  <2>3. /\ resp[t].code # "noise"
        /\ wReq > 0 /\ resp[t].req = wReq => resp[t].code # "busy"
    <3>1. CASE t = "main"
      BY <1>i, <1>2, <3>1, FlushAppends DEF HoldInv, MainHolds
    <3>2. CASE t = "worker"
      BY <1>2, <3>2, FlushAppends DEF PromiseInv
    <3> QED BY <1>t, <3>1, <3>2
  <2>4. \A i \in 1 .. Len(pipe') : \/ i \in 1 .. Len(pipe) /\ pipe'[i] = pipe[i]
                                   \/ pipe'[i] = resp[t]
    <3>1. CASE hostReads
      BY <1>i, <1>2, <3>1, FlushAppends, PipeGrows
    <3>2. CASE ~hostReads
      BY <1>2, <3>2, FlushAppends
    <3> QED BY <3>1, <3>2
  <2>5. PromiseInv'
    BY <1>t, <1>u, <2>1, <2>2, <2>3, <2>4 DEF PromiseInv, MainHolds
  <2>6. CaptureInv'
    <3>1. resp[t] # Noise
      BY <2>3 DEF Noise
    <3> QED BY <1>t, <1>u, <2>1, <2>4, <3>1 DEF CaptureInv, PipeIsClean
  <2> QED BY <2>5, <2>6
<1> QED BY <1>1, <1>2

\* The worker's own steps: it is not refused by itself.
LEMMA WorkerKeeps ==
  ASSUME IInv, PromiseInv, CaptureInv,
         WorkerStart \/ WorkerPoll \/ WorkerInstall \/ WorkerFinish \/ WorkerEnd
  PROVE  PromiseInv' /\ CaptureInv'
<1>i. TypeOK
  BY DEF IInv
<1>u. /\ UNCHANGED <<reqs, taken, wReq, pipe, fd1, fellBack>>
      /\ pc["worker"] \in {"started", "poll", "install", "finish", "log"}
  BY DEF WorkerStart, WorkerPoll, WorkerInstall, WorkerFinish, WorkerEnd,
         pipeVars, workerVars, outVars
<1>r. wReq \in Nat
  BY <1>i, Ranges
<1>c. /\ {"poll", "write", "install", "finish", "dead"} \subseteq WorkerPcs
      /\ {"ok", "error", "internal_error", "cancelled"} \subseteq Codes
  BY DEF WorkerPcs, Codes
<1>1. /\ pc'["main"] = pc["main"] /\ resp'["main"] = resp["main"]
      /\ \/ /\ resp' = resp
            /\ pc'["worker"] \in {"poll", "install", "dead"} \/ pc["worker"] = "finish"
         \/ resp'["worker"].code # "busy"
  <2>1. CASE pc' = pc /\ resp' = resp /\ pc["worker"] = "poll"
    BY <2>1
  <2>2. CASE /\ resp' = resp
             /\ \E v \in {"poll", "install", "dead"} : pc' = [pc EXCEPT !["worker"] = v]
    BY <1>i, <1>c, <2>2, WorkerPcSet
  <2>3. CASE resp' = resp /\ pc["worker"] = "finish" /\ pc' = [pc EXCEPT !["worker"] = "write"]
    BY <1>i, <1>c, <2>3, WorkerPcSet
  <2>4. CASE \E v \in {"write", "finish"}, code \in {"ok", "error", "internal_error", "cancelled"} :
               /\ pc' = [pc EXCEPT !["worker"] = v]
               /\ resp' = [resp EXCEPT !["worker"] = Answer(wReq, code)]
    <3>1. PICK v \in {"write", "finish"}, code \in {"ok", "error", "internal_error", "cancelled"} :
                 /\ pc' = [pc EXCEPT !["worker"] = v]
                 /\ resp' = [resp EXCEPT !["worker"] = Answer(wReq, code)]
      BY <2>4
    <3>2. v \in WorkerPcs /\ code \in Codes /\ code # "busy"
      BY <1>c
    <3>3. /\ pc'["main"] = pc["main"] /\ resp'["main"] = resp["main"]
          /\ resp'["worker"].code = code
      BY <1>i, <1>r, <3>1, <3>2, WorkerResponds
    <3> QED BY <3>2, <3>3
  <2>5. CASE WorkerStart
    BY <2>2, <2>4, <2>5 DEF WorkerStart, Respond
  <2>6. CASE WorkerPoll
    BY <2>1, <2>2, <2>4, <2>6 DEF WorkerPoll, Finish, ReadsChunk
  <2>7. CASE WorkerInstall
    BY <2>4, <2>7 DEF WorkerInstall, Finish
  <2>8. CASE WorkerFinish \/ WorkerEnd
    BY <2>2, <2>3, <2>8 DEF WorkerFinish, WorkerEnd
  <2> QED BY <2>5, <2>6, <2>7, <2>8
<1>2. WorkerAlive /\ MainHolds' = MainHolds
  BY <1>u, <1>1 DEF WorkerAlive, MainHolds
<1>3. PromiseInv'
  BY <1>u, <1>1, <1>2 DEF PromiseInv
<1> QED BY <1>u, <1>1, <1>3, QuietKeepsCapture

\* The steps that read or answer nothing.
LEMMA QuietStepsKeep ==
  ASSUME IInv, PromiseInv, CaptureInv,
         \/ HostCloseStdin \/ HostGone \/ MainReadFails \/ MainEndOfInput \/ MainJoin
         \/ UNCHANGED vars
  PROVE  PromiseInv' /\ CaptureInv'
<1>i. TypeOK
  BY DEF IInv
<1>1. /\ UNCHANGED <<reqs, taken, wReq, pipe, resp, fd1, fellBack>>
      /\ \/ pc' = pc
         \/ pc' = [pc EXCEPT !["main"] = "exited"]
         \/ pc' = [pc EXCEPT !["main"] = "join"]
  BY DEF HostCloseStdin, HostGone, MainReadFails, MainEndOfInput, MainJoin, vars,
         pipeVars, workerVars, outVars
<1>2. /\ pc'["worker"] = pc["worker"]
      /\ pc'["main"] = pc["main"] \/ pc'["main"] \in {"exited", "join"}
  BY <1>i, <1>1, MainPcSet DEF MainPcs
<1>3. WorkerAlive' = WorkerAlive /\ (MainHolds' => MainHolds /\ pc'["main"] = pc["main"])
  BY <1>2 DEF WorkerAlive, MainHolds
<1> QED BY <1>1, <1>2, <1>3, QuietKeepsPromise, QuietKeepsCapture

\* Every step keeps the two invariants.
LEMMA PromiseKept ==
  ASSUME IInv, PromiseInv, CaptureInv, [Next]_vars
  PROVE  PromiseInv' /\ CaptureInv'
<1>1. CASE MainStep
  <2>1. "main" \in Threads
    BY DEF Threads
  <2> QED BY <1>1, <2>1, MainReadKeeps, HandlersKeep, EnterBackendKeeps, BackendPrintsKeeps,
             RestoreKeeps, ResponseKeeps, QuietStepsKeep DEF MainStep
<1>2. CASE WorkerStep
  <2>1. "worker" \in Threads
    BY DEF Threads
  <2> QED BY <1>2, <2>1, WorkerKeeps, ResponseKeeps DEF WorkerStep
<1>3. CASE HostStep
  BY <1>3, RequestsAssumption, HostSendKeeps, QuietStepsKeep DEF HostStep
<1>4. CASE UNCHANGED vars
  BY <1>4, QuietStepsKeep
<1> QED BY <1>1, <1>2, <1>3, <1>4 DEF Next, Ended

\* They hold of the initial state.
LEMMA PromiseInit == Init => PromiseInv /\ CaptureInv
  BY DEF Init, PromiseInv, CaptureInv, PipeIsClean, WorkerAlive, MainHolds, Threads, Noise

\* The three invariants hold together.
THEOREM PromiseInvariance == Spec => [](IInv /\ PromiseInv /\ CaptureInv)
<1>1. Init => IInv /\ PromiseInv /\ CaptureInv
  BY InitHolds, PromiseInit
<1>2. IInv /\ PromiseInv /\ CaptureInv /\ [Next]_vars => (IInv /\ PromiseInv /\ CaptureInv)'
  BY NextKeeps, PromiseKept
<1> QED BY <1>1, <1>2, PTL DEF Spec

\* What the host reads is protocol lines only, unless descriptor 1 could not
\* be redirected around the backend.
THEOREM CleanPipe == Spec => []PipeIsClean
<1>1. CaptureInv => PipeIsClean
  BY DEF CaptureInv
<1> QED BY <1>1, PromiseInvariance, PTL

-----------------------------------------------------------------------------
(* The refinement: what a step is to the host. *)

\* The mapped variables, element by element.
LEMMA Mapped ==
  ASSUME TypeOK
  PROVE  /\ Len(Asked) = Len(reqs) /\ Len(Lines) = Len(pipe)
         /\ Asked \in Seq({"serial", "download"}) /\ Lines \in Seq([req : Nat, refused : BOOLEAN])
         /\ \A r \in 1 .. Len(reqs) :
              Asked[r] = IF reqs[r].cmd = "download_model" THEN "download" ELSE "serial"
         /\ \A i \in 1 .. Len(pipe) :
              Lines[i] = [req |-> pipe[i].req, refused |-> pipe[i].code = "busy"]
<1>1. /\ Len(reqs) \in Nat /\ Len(pipe) \in Nat
      /\ \A i \in 1 .. Len(pipe) : pipe[i].req \in Nat
  BY Elements
<1>2. Len(Asked) = Len(reqs) /\ Asked \in Seq({"serial", "download"})
  BY <1>1 DEF Asked
<1>3. \A i \in 1 .. Len(pipe) :
        [req |-> pipe[i].req, refused |-> pipe[i].code = "busy"] \in [req : Nat, refused : BOOLEAN]
  BY <1>1
<1>4. Len(Lines) = Len(pipe) /\ Lines \in Seq([req : Nat, refused : BOOLEAN])
  BY <1>1, <1>3 DEF Lines
<1> QED BY <1>2, <1>4 DEF Asked, Lines

\* The same, field by field.
LEMMA LineFields ==
  ASSUME TypeOK, NEW i \in 1 .. Len(pipe)
  PROVE  Lines[i].req = pipe[i].req /\ Lines[i].refused = (pipe[i].code = "busy")
<1> DEFINE l == [req |-> pipe[i].req, refused |-> pipe[i].code = "busy"]
<1>1. Lines[i] = l
  BY Mapped
<1>2. l.req = pipe[i].req /\ l.refused = (pipe[i].code = "busy")
  OBVIOUS
<1> QED BY <1>1, <1>2, Zenon

\* A request has an answer in the abstract when its line reached the pipe.
LEMMA AnswersMapped ==
  ASSUME TypeOK, NEW r
  PROVE  /\ Promise!Answers(r) = {i \in 1 .. Len(pipe) : pipe[i].req = r}
         /\ Promise!Answers(r) = {} <=> ~Answered(r)
<1>1. Promise!Answers(r) = {i \in 1 .. Len(Lines) : Lines[i].req = r}
  BY DEF Promise!Answers
<1>2. Len(Lines) = Len(pipe)
  BY Mapped
<1>3. \A i \in 1 .. Len(pipe) : Lines[i].req = pipe[i].req
  BY LineFields
<1> QED BY <1>1, <1>2, <1>3 DEF Answered

\* One more line on the pipe is one more line of the abstract.
LEMMA LinesGrow ==
  ASSUME TypeOK, NEW l \in Line, pipe' = Append(pipe, l)
  PROVE  Lines' = Append(Lines, [req |-> l.req, refused |-> l.code = "busy"])
<1> DEFINE e == [req |-> l.req, refused |-> l.code = "busy"]
<1>1. /\ Len(Lines) = Len(pipe) /\ Len(pipe) \in Nat
      /\ \A i \in 1 .. Len(pipe) : Lines[i] = [req |-> pipe[i].req, refused |-> pipe[i].code = "busy"]
  BY Mapped, Elements
<1>2. /\ Len(pipe') = Len(pipe) + 1 /\ pipe'[Len(pipe) + 1] = l
      /\ \A i \in 1 .. Len(pipe) : pipe'[i] = pipe[i]
  BY Appended DEF TypeOK
<1>3. Append(Lines, e) = [i \in 1 .. Len(pipe) + 1 |-> IF i = Len(pipe) + 1 THEN e ELSE Lines[i]]
  BY <1>1, Mapped
<1>4. Lines' = [i \in 1 .. Len(pipe) + 1 |->
                  [req |-> pipe'[i].req, refused |-> pipe'[i].code = "busy"]]
  BY <1>2 DEF Lines
<1>5. \A i \in 1 .. Len(pipe) + 1 :
        [req |-> pipe'[i].req, refused |-> pipe'[i].code = "busy"]
          = IF i = Len(pipe) + 1 THEN e ELSE Lines[i]
  BY <1>1, <1>2
<1> QED BY <1>3, <1>4, <1>5

\* One more request is one more question.
LEMMA AskedGrows ==
  ASSUME TypeOK, NEW rq \in Request, reqs' = Append(reqs, rq)
  PROVE  Asked' = Append(Asked, IF rq.cmd = "download_model" THEN "download" ELSE "serial")
<1> DEFINE k == IF rq.cmd = "download_model" THEN "download" ELSE "serial"
<1>1. /\ Len(Asked) = Len(reqs) /\ Len(reqs) \in Nat
      /\ \A r \in 1 .. Len(reqs) :
           Asked[r] = IF reqs[r].cmd = "download_model" THEN "download" ELSE "serial"
  BY Mapped, Elements
<1>2. /\ Len(reqs') = Len(reqs) + 1 /\ reqs'[Len(reqs) + 1] = rq
      /\ \A r \in 1 .. Len(reqs) : reqs'[r] = reqs[r]
  BY Appended DEF TypeOK
<1>3. Append(Asked, k) = [r \in 1 .. Len(reqs) + 1 |-> IF r = Len(reqs) + 1 THEN k ELSE Asked[r]]
  BY <1>1, Mapped
<1>4. Asked' = [r \in 1 .. Len(reqs) + 1 |->
                  IF reqs'[r].cmd = "download_model" THEN "download" ELSE "serial"]
  BY <1>2 DEF Asked
<1>5. \A r \in 1 .. Len(reqs) + 1 :
        (IF reqs'[r].cmd = "download_model" THEN "download" ELSE "serial")
          = IF r = Len(reqs) + 1 THEN k ELSE Asked[r]
  BY <1>1, <1>2
<1> QED BY <1>3, <1>4, <1>5

\* The flush of a response is the answer of the request it is for: it is due,
\* and a refusal names a download that was accepted.
LEMMA FlushIsAnswer ==
  ASSUME IInv, PromiseInv, NEW t \in Threads, FlushLine(t), hostReads
  PROVE  Promise!Next
<1>i. TypeOK /\ HoldInv /\ AccountInv
  BY DEF IInv
<1> DEFINE r == resp[t].req
<1>t. t \in {"main", "worker"}
  BY DEF Threads
<1>1. /\ r = (IF t = "main" THEN taken ELSE wReq) /\ ~Answered(r)
      /\ r \in Nat \ {0} /\ resp[t] \in Line
      /\ pipe' = Append(pipe, resp[t])
      /\ pc[t] = "flush"
  BY FlushAppends
<1>2. r \in 1 .. Len(Asked) /\ taken \in Nat /\ wReq \in Nat /\ wReq <= taken
  BY <1>i, <1>1, Ranges, Mapped
<1>3. Asked' = Asked /\ Lines' = Append(Lines, [req |-> r, refused |-> resp[t].code = "busy"])
  <2>1. reqs' = reqs
    BY DEF FlushLine, pipeVars
  <2> QED BY <1>i, <1>1, <2>1, LinesGrow DEF Asked
<1>4. WorkerHolds => reqs[wReq].cmd = "download_model" /\ wReq > 0
  BY <1>i DEF PromiseInv, HoldInv, WorkerHolds, WorkerAlive
<1>5. \A q \in 1 .. r - 1 : Answered(q) \/ (t = "main" /\ WorkerHolds /\ q = wReq)
  <2>1. Alive
    BY DEF FlushLine
  <2>2. \A q \in 1 .. taken : Answered(q) \/ q = taken \/ (WorkerHolds /\ q = wReq)
    BY <1>i, <2>1 DEF AccountInv
  <2> QED BY <1>t, <1>1, <1>2, <2>2
<1>6. \A q \in 1 .. r - 1 : Promise!Answers(q) # {} \/ (t = "main" /\ WorkerHolds /\ q = wReq)
  BY <1>i, <1>5, AnswersMapped
<1>7. \A q \in 1 .. Len(reqs) : Asked[q] = "download" <=> reqs[q].cmd = "download_model"
  BY <1>i, Mapped
<1>8. Promise!Due(r)
  <2>1. Promise!Answers(r) = {}
    BY <1>i, <1>1, AnswersMapped
  <2>2. \A q \in 1 .. r - 1 : Asked[q] = "serial" => Promise!Answers(q) # {}
    <3>1. WorkerHolds => Asked[wReq] = "download"
      <4>1. wReq > 0 => wReq \in 1 .. Len(reqs)
        BY <1>i, Ranges
      <4> QED BY <1>4, <1>7, <4>1
    <3> QED BY <1>6, <3>1
  <2> QED BY <2>1, <2>2 DEF Promise!Due
<1>9. CASE resp[t].code # "busy"
  <2>1. Asked[r] = "download" => \A q \in 1 .. r - 1 : Promise!Answers(q) # {}
    <3>1. CASE t = "worker"
      BY <1>6, <3>1
    <3>2. CASE t = "main"
      <4>1. reqs[r].cmd # "download_model"
        BY <1>1, <1>9, <3>2 DEF PromiseInv
      <4> QED BY <1>i, <1>2, <1>7, <4>1, Mapped
    <3> QED BY <1>t, <3>1, <3>2
  <2>2. Lines' = Append(Lines, [req |-> r, refused |-> FALSE])
    BY <1>3, <1>9
  <2>3. Promise!Serve(r)
    BY <1>3, <1>8, <2>1, <2>2 DEF Promise!Serve
  <2> QED BY <1>2, <2>3 DEF Promise!Next
<1>10. CASE resp[t].code = "busy"
  <2>1. t = "main" /\ wReq > 0 /\ reqs[wReq].cmd = "download_model"
    BY <1>t, <1>1, <1>10 DEF PromiseInv
  <2>2. wReq \in 1 .. r - 1 /\ wReq \in 1 .. Len(reqs)
    <3>1. wReq # taken
      BY <1>i, <1>1, <2>1 DEF HoldInv, MainHolds
    <3> QED BY <1>i, <1>1, <1>2, <2>1, <3>1, Ranges
  <2>3. Asked[wReq] = "download"
    BY <1>7, <2>1, <2>2
  <2>4. \A i \in Promise!Answers(wReq) : ~Lines[i].refused
    <3>1. \A i \in Promise!Answers(wReq) : i \in 1 .. Len(pipe) /\ pipe[i].req = wReq
      BY <1>i, AnswersMapped
    <3>2. \A i \in Promise!Answers(wReq) : i \in 1 .. Len(pipe) /\ pipe[i].code # "busy"
      BY <2>1, <3>1 DEF PromiseInv
    <3> QED BY <1>i, <3>2, LineFields
  <2>5. Lines' = Append(Lines, [req |-> r, refused |-> TRUE])
    BY <1>3, <1>10
  <2>6. Promise!Refuse(r)
    BY <1>3, <1>8, <2>2, <2>3, <2>4, <2>5 DEF Promise!Refuse
  <2> QED BY <1>2, <2>6 DEF Promise!Next
<1> QED BY <1>9, <1>10

\* A step that adds neither a request nor a line is a stutter.
LEMMA Stutters ==
  ASSUME UNCHANGED <<reqs, pipe>>
  PROVE  UNCHANGED Promise!vars
  BY DEF Promise!vars, Asked, Lines

\* Every step of the server and the host is a step of Answering or a stutter.
LEMMA StepsRefine ==
  ASSUME IInv, PromiseInv, [Next]_vars
  PROVE  [Promise!Next]_(Promise!vars)
<1>i. TypeOK
  BY DEF IInv
<1>1. ASSUME NEW t \in Threads, FlushLine(t)
      PROVE  [Promise!Next]_(Promise!vars)
  <2>1. CASE hostReads
    BY <1>1, <2>1, FlushIsAnswer
  <2>2. CASE ~hostReads
    <3>1. pipe' = pipe /\ reqs' = reqs
      BY <1>1, <2>2, FlushAppends DEF FlushLine, pipeVars
    <3> QED BY <3>1, Stutters
  <2> QED BY <2>1, <2>2
<1>2. ASSUME NEW rq \in Request, HostSend(rq)
      PROVE  [Promise!Next]_(Promise!vars)
  <2>1. reqs' = Append(reqs, rq) /\ pipe' = pipe
    BY <1>2 DEF HostSend, outVars
  <2>2. Asked' = Append(Asked, IF rq.cmd = "download_model" THEN "download" ELSE "serial")
    BY <1>i, <2>1, AskedGrows
  <2>3. Lines' = Lines
    BY <2>1 DEF Lines
  <2>4. Promise!Ask
    BY <2>2, <2>3 DEF Promise!Ask
  <2> QED BY <2>4 DEF Promise!Next
<1>3. CASE BackendPrints
  <2>1. reqs' = reqs /\ (pipe' = pipe \/ pipe' = Append(pipe, Noise))
    BY <1>i, <1>3, Ranges DEF BackendPrints, pipeVars
  <2>2. CASE pipe' = pipe
    BY <2>1, <2>2, Stutters
  <2>3. CASE pipe' = Append(pipe, Noise)
    <3>1. Lines' = Append(Lines, [req |-> Noise.req, refused |-> Noise.code = "busy"])
      BY <1>i, <2>3, NoiseIsLine, LinesGrow
    <3>2. Noise.req = 0 /\ Noise.code # "busy"
      BY DEF Noise
    <3>3. Lines' = Append(Lines, [req |-> 0, refused |-> FALSE]) /\ Asked' = Asked
      BY <2>1, <3>1, <3>2 DEF Asked
    <3> QED BY <3>3 DEF Promise!Next, Promise!Chatter
  <2> QED BY <2>1, <2>2, <2>3
<1>4. CASE Redirect \/ Restore
  <2>1. outBuf = <<>> /\ pipe \in Seq(Line) /\ reqs' = reqs
    BY <1>i, <1>4, NothingBuffered DEF Redirect, Restore, TypeOK, pipeVars
  <2>2. pipe' = pipe
    <3>1. pipe \o <<>> = pipe
      BY <2>1, Appended, NoiseIsLine
    <3> QED BY <1>4, <2>1, <3>1 DEF Redirect, Restore, FlushStdout
  <2> QED BY <2>1, <2>2, Stutters
<1>5. CASE \/ MainRead \/ MainReadFails \/ MainEndOfInput \/ MainJoin
           \/ HandlePlain \/ HandleCancel \/ HandleShutdown \/ HandleBackend
  <2>1. UNCHANGED <<reqs, pipe>>
    BY <1>5 DEF MainRead, MainReadFails, MainEndOfInput, MainJoin, HandlePlain, HandleCancel,
                HandleShutdown, HandleBackend, pipeVars, outVars
  <2> QED BY <2>1, Stutters
<1>6. CASE WorkerStart \/ WorkerPoll \/ WorkerInstall \/ WorkerFinish \/ WorkerEnd
  <2>1. UNCHANGED <<reqs, pipe>>
    BY <1>6 DEF WorkerStart, WorkerPoll, WorkerInstall, WorkerFinish, WorkerEnd,
                pipeVars, outVars
  <2> QED BY <2>1, Stutters
<1>7. CASE HostCloseStdin \/ HostGone \/ UNCHANGED vars \/ (\E t \in Threads : WriteLine(t))
  <2>1. UNCHANGED <<reqs, pipe>>
    BY <1>7 DEF HostCloseStdin, HostGone, WriteLine, vars, pipeVars, outVars
  <2> QED BY <2>1, Stutters
<1>8. "main" \in Threads /\ "worker" \in Threads
  BY DEF Threads
<1>9. CASE MainStep
  BY <1>1, <1>3, <1>4, <1>5, <1>7, <1>8, <1>9 DEF MainStep
<1>10. CASE WorkerStep
  BY <1>1, <1>6, <1>7, <1>8, <1>10 DEF WorkerStep
<1>11. CASE HostStep
  BY <1>2, <1>7, <1>11, RequestsAssumption DEF HostStep
<1> QED BY <1>7, <1>9, <1>10, <1>11 DEF Next, Ended

\* Nothing is asked or answered at the start.
LEMMA InitRefines == Init => Promise!Init
  BY DEF Init, Promise!Init, Asked, Lines

\* The server implements its promise: whatever the host asks, each request is
\* answered once, in turn unless it is a download, and is refused only on
\* account of a download that was accepted.
THEOREM Refinement == Spec => KeepsPromise
<1>1. Init => Promise!Init
  BY InitRefines
<1>2. IInv /\ PromiseInv /\ CaptureInv /\ [Next]_vars => [Promise!Next]_(Promise!vars)
  BY StepsRefine
<1> QED BY <1>1, <1>2, PromiseInvariance, PTL DEF Spec, KeepsPromise, Promise!Spec
=============================================================================
