-------------------------- MODULE OfxRenderProofs --------------------------
(***************************************************************************)
(* RenderInv is an inductive invariant of OfxRender, so its safety         *)
(* properties hold for any number of output blobs and of rows.             *)
(*                                                                         *)
(* One lemma per action shows that the step keeps RenderInv, with one step *)
(* for each of its parts.  The pipes occur in it only through the set of   *)
(* what they hold, and the first lemmas say how that set changes.          *)
(***************************************************************************)
EXTENDS OfxRenderInv, TLAPS

-----------------------------------------------------------------------------
(* What a pipe holds *)

\* One more element.
LEMMA RangeOfAppend ==
  ASSUME NEW S, NEW s \in Seq(S), NEW e \in S
  PROVE  Append(s, e) \in Seq(S) /\ Range(Append(s, e)) = Range(s) \cup {e}
<1>1. /\ Append(s, e) \in Seq(S) /\ Len(s) \in Nat
      /\ DOMAIN s = 1 .. Len(s) /\ DOMAIN Append(s, e) = 1 .. Len(s) + 1
      /\ \A i \in 1 .. Len(s) : Append(s, e)[i] = s[i]
      /\ Append(s, e)[Len(s) + 1] = e
  OBVIOUS
<1>2. ASSUME NEW x \in Range(Append(s, e))
      PROVE  x \in Range(s) \cup {e}
  <2>1. PICK i \in 1 .. Len(s) + 1 : Append(s, e)[i] = x
    BY <1>1, <1>2 DEF Range
  <2>2. i \in 1 .. Len(s) \/ i = Len(s) + 1
    BY <1>1
  <2> QED BY <1>1, <2>1, <2>2 DEF Range
<1>3. ASSUME NEW x \in Range(s)
      PROVE  x \in Range(Append(s, e))
  <2>1. PICK i \in 1 .. Len(s) : s[i] = x
    BY <1>1, <1>3 DEF Range
  <2>2. i \in 1 .. Len(s) + 1
    BY <1>1
  <2> QED BY <1>1, <2>1, <2>2 DEF Range
<1>4. e \in Range(Append(s, e))
  <2>1. Len(s) + 1 \in 1 .. Len(s) + 1
    BY <1>1
  <2> QED BY <1>1, <2>1 DEF Range
<1> QED BY <1>1, <1>2, <1>3, <1>4

\* The first element is taken out.
LEMMA RangeOfTail ==
  ASSUME NEW S, NEW s \in Seq(S), s # <<>>
  PROVE  /\ Head(s) \in S /\ Head(s) \in Range(s)
         /\ Tail(s) \in Seq(S) /\ Range(Tail(s)) \subseteq Range(s)
<1>1. /\ Len(s) \in Nat /\ Len(s) >= 1 /\ Head(s) = s[1] /\ Head(s) \in S
      /\ DOMAIN s = 1 .. Len(s) /\ Tail(s) \in Seq(S)
      /\ DOMAIN Tail(s) = 1 .. Len(s) - 1
      /\ \A i \in 1 .. Len(s) - 1 : Tail(s)[i] = s[i + 1]
  OBVIOUS
<1>2. Head(s) \in Range(s)
  BY <1>1 DEF Range
<1>3. ASSUME NEW x \in Range(Tail(s))
      PROVE  x \in Range(s)
  <2>1. PICK i \in 1 .. Len(s) - 1 : Tail(s)[i] = x
    BY <1>1, <1>3 DEF Range
  <2>2. i + 1 \in 1 .. Len(s)
    BY <1>1
  <2> QED BY <1>1, <2>1, <2>2 DEF Range
<1> QED BY <1>1, <1>2, <1>3

\* An empty pipe.
LEMMA RangeOfEmpty ==
  ASSUME NEW S
  PROVE  <<>> \in Seq(S) /\ Range(<<>>) = {}
  BY DEF Range

\* The answers are records with an id and a verdict.
LEMMA Responses ==
  /\ \A r \in Response : r.id \in Commands \cup {"null"} /\ r.ok \in BOOLEAN
  /\ \A i \in Commands \cup {"null"}, b \in BOOLEAN :
        /\ [id |-> i, ok |-> b] \in Response
        /\ [id |-> i, ok |-> b].id = i /\ [id |-> i, ok |-> b].ok = b
  /\ \A r \in Response : r.id = "infer" /\ r.ok => r = Delivered
  BY DEF Response, Delivered

-----------------------------------------------------------------------------
(* The initial state *)

\* No call has been made and no row written.
LEMMA InitHolds == Init => RenderInv
<1> SUFFICES ASSUME Init PROVE RenderInv
  OBVIOUS
<1>r. <<>> \in Seq(Commands) /\ <<>> \in Seq(Response) /\ Range(<<>>) = {}
  BY RangeOfEmpty
<1>1. TypeOK
  <2>1. ClientTypeOK
    <3>1. toSidecar \in Seq(Commands) /\ fromSidecar \in Seq(Response)
      BY <1>r DEF Init, ClientInit
    <3>2. written \in 0 .. Blobs /\ launches \in 0 .. 2
      BY BlobsAssumption DEF Init, ClientInit
    <3> QED BY <3>1, <3>2 DEF Init, ClientInit, ClientTypeOK, Pcs, Results, Calls, Commands
  <2>2. row \in 1 .. Rows + 1 /\ output \in [1 .. Rows -> {"host", "frame", "status"}]
    BY RowsAssumption DEF Init
  <2> QED BY <2>1, <2>2 DEF Init, TypeOK, Steps
<1>2. ProcessInv
  BY <1>r DEF Init, ClientInit, ProcessInv, Waits
<1>3. PipesInv
  BY <1>r DEF Init, ClientInit, PipesInv, ExitIsUnderWay
<1>4. ResultInv
  BY <1>r DEF Init, ClientInit, ResultInv, SuccessIsDelivered, Cancellable
<1>5. JobDirInv
  BY <1>r DEF Init, ClientInit, JobDirInv, RemovedDirStaysRemoved
<1>6. RowsInv
  BY <1>r DEF Init, ClientInit, RowsInv, OutputNeverMixed
<1> QED BY <1>1, <1>2, <1>3, <1>4, <1>5, <1>6 DEF RenderInv

-----------------------------------------------------------------------------
(* The client *)

\* A new sidecar: its pipes are empty.
LEMMA LaunchStep ==
  ASSUME RenderInv, Launch, UNCHANGED host
  PROVE  RenderInv'
<1>i. TypeOK /\ ProcessInv /\ PipesInv /\ ResultInv /\ JobDirInv /\ RowsInv
  BY DEF RenderInv
<1>r. <<>> \in Seq(Commands) /\ <<>> \in Seq(Response) /\ Range(<<>>) = {}
  BY RangeOfEmpty
<1>1. TypeOK'
  <2>1. launches' \in 0 .. 2
    BY <1>i DEF Launch, ResultInv, TypeOK, ClientTypeOK
  <2>2. cmd' \in Commands \ {"cancel"}
    BY <1>i DEF Launch, TypeOK, ClientTypeOK, Calls, Commands
  <2> QED BY <1>i, <1>r, <2>1, <2>2 DEF Launch, TypeOK, ClientTypeOK, Pcs, jobDir, host
<1>2. ProcessInv'
  BY <1>i, <1>r DEF ProcessInv, Launch, host, jobDir
<1>3. PipesInv'
  BY <1>i, <1>r DEF PipesInv, Launch, host, jobDir, ExitIsUnderWay
<1>4. ResultInv'
  BY <1>i, <1>r DEF ResultInv, Launch, host, jobDir, SuccessIsDelivered, Cancellable
<1>5. JobDirInv'
  BY <1>i, <1>r DEF JobDirInv, Launch, host, jobDir, RemovedDirStaysRemoved
<1>6. RowsInv'
  BY <1>i, <1>r DEF RowsInv, Launch, host, jobDir, OutputNeverMixed
<1> QED BY <1>1, <1>2, <1>3, <1>4, <1>5, <1>6 DEF RenderInv

\* No sidecar was started, so none is left.
LEMMA LaunchFailsStep ==
  ASSUME RenderInv, LaunchFails, UNCHANGED host
  PROVE  RenderInv'
<1>i. TypeOK /\ ProcessInv /\ PipesInv /\ ResultInv /\ JobDirInv /\ RowsInv
  BY DEF RenderInv
<1>1. TypeOK'
  <2>1. launches' \in 0 .. 2
    BY <1>i DEF LaunchFails, ResultInv, TypeOK, ClientTypeOK
  <2> QED BY <1>i, <2>1 DEF LaunchFails, TypeOK, ClientTypeOK, Pcs, Results, pipes, jobDir, host
<1>2. ProcessInv'
  BY <1>i DEF ProcessInv, LaunchFails, host, pipes, jobDir
<1>3. PipesInv'
  BY <1>i DEF PipesInv, LaunchFails, host, pipes, jobDir, ExitIsUnderWay
<1>4. ResultInv'
  BY <1>i DEF ResultInv, LaunchFails, host, pipes, jobDir, SuccessIsDelivered,
     Cancellable
<1>5. JobDirInv'
  BY <1>i DEF JobDirInv, LaunchFails, host, pipes, jobDir, RemovedDirStaysRemoved
<1>6. RowsInv'
  BY <1>i DEF RowsInv, LaunchFails, host, pipes, jobDir, OutputNeverMixed
<1> QED BY <1>1, <1>2, <1>3, <1>4, <1>5, <1>6 DEF RenderInv

\* The sidecar has exited and is waited for.
LEMMA FoundStoppedStep ==
  ASSUME RenderInv, FoundStopped, UNCHANGED host
  PROVE  RenderInv'
<1>i. TypeOK /\ ProcessInv /\ PipesInv /\ ResultInv /\ JobDirInv /\ RowsInv
  BY DEF RenderInv
<1>r. <<>> \in Seq(Commands) /\ <<>> \in Seq(Response) /\ Range(<<>>) = {}
  BY RangeOfEmpty
<1>e. \/ cmd = "shutdown" /\ pc' = "close_stdin" /\ UNCHANGED <<cmd, result>>
      \/ cmd # "shutdown" /\ pc' = "check" /\ cmd' = "shutdown" /\ result' = "stopped"
  BY DEF FoundStopped, Throw, Leave, Abandon
<1>1. TypeOK'
  <2>1. pc' \in Pcs /\ cmd' \in Commands \ {"cancel"} /\ result' \in Results
    BY <1>i, <1>e DEF TypeOK, ClientTypeOK, Pcs, Results, Commands
  <2> QED BY <1>i, <1>r, <2>1 DEF FoundStopped, TypeOK, ClientTypeOK, jobDir, host
<1>2. ProcessInv'
  BY <1>i, <1>r, <1>e DEF ProcessInv, FoundStopped, host, jobDir
<1>3. PipesInv'
  BY <1>i, <1>r, <1>e DEF PipesInv, FoundStopped, host, jobDir, ExitIsUnderWay
<1>4. ResultInv'
  BY <1>i, <1>r, <1>e DEF ResultInv, FoundStopped, host, jobDir, SuccessIsDelivered,
     Cancellable
<1>5. JobDirInv'
  BY <1>i, <1>r, <1>e DEF JobDirInv, FoundStopped, host, jobDir,
     RemovedDirStaysRemoved
<1>6. RowsInv'
  BY <1>i, <1>r, <1>e DEF RowsInv, FoundStopped, host, jobDir, OutputNeverMixed
<1> QED BY <1>1, <1>2, <1>3, <1>4, <1>5, <1>6 DEF RenderInv

\* Nothing was sent.
LEMMA AbortedEarlyStep ==
  ASSUME RenderInv, AbortedEarly, UNCHANGED host
  PROVE  RenderInv'
<1>i. TypeOK /\ ProcessInv /\ PipesInv /\ ResultInv /\ JobDirInv /\ RowsInv
  BY DEF RenderInv
<1>1. TypeOK'
  BY <1>i DEF TypeOK, AbortedEarly, host, Cancellable, Leave, pipes, jobDir,
     ClientTypeOK, Steps, Pcs, Results, Calls, Commands, Waits
<1>2. ProcessInv'
  BY <1>i DEF ProcessInv, AbortedEarly, host, Leave, pipes, jobDir
<1>3. PipesInv'
  BY <1>i DEF PipesInv, AbortedEarly, host, Leave, pipes, jobDir, ExitIsUnderWay
<1>4. ResultInv'
  BY <1>i DEF ResultInv, AbortedEarly, host, Cancellable, Leave, pipes, jobDir,
     SuccessIsDelivered
<1>5. JobDirInv'
  BY <1>i DEF JobDirInv, AbortedEarly, host, Leave, pipes, jobDir,
     RemovedDirStaysRemoved
<1>6. RowsInv'
  BY <1>i DEF RowsInv, AbortedEarly, host, Leave, pipes, jobDir, OutputNeverMixed
<1> QED BY <1>1, <1>2, <1>3, <1>4, <1>5, <1>6 DEF RenderInv

\* Only the program counter moves.
LEMMA FoundRunningStep ==
  ASSUME RenderInv, FoundRunning, UNCHANGED host
  PROVE  RenderInv'
<1>i. TypeOK /\ ProcessInv /\ PipesInv /\ ResultInv /\ JobDirInv /\ RowsInv
  BY DEF RenderInv
<1>1. TypeOK'
  BY <1>i DEF TypeOK, FoundRunning, host, Cancellable, pipes, jobDir, ClientTypeOK,
     Steps, Pcs, Results, Calls, Commands, Waits
<1>2. ProcessInv'
  BY <1>i DEF ProcessInv, FoundRunning, host, pipes, jobDir
<1>3. PipesInv'
  BY <1>i DEF PipesInv, FoundRunning, host, pipes, jobDir, ExitIsUnderWay
<1>4. ResultInv'
  BY <1>i DEF ResultInv, FoundRunning, host, Cancellable, pipes, jobDir,
     SuccessIsDelivered
<1>5. JobDirInv'
  BY <1>i DEF JobDirInv, FoundRunning, host, pipes, jobDir, RemovedDirStaysRemoved
<1>6. RowsInv'
  BY <1>i DEF RowsInv, FoundRunning, host, pipes, jobDir, OutputNeverMixed
<1> QED BY <1>1, <1>2, <1>3, <1>4, <1>5, <1>6 DEF RenderInv

\* What is written is what the call asked for.
LEMMA WriteStep ==
  ASSUME RenderInv, Write, UNCHANGED host
  PROVE  RenderInv'
<1>i. TypeOK /\ ProcessInv /\ PipesInv /\ ResultInv /\ JobDirInv /\ RowsInv
  BY DEF RenderInv
<1>e. /\ toSidecar' \in Seq(Commands)
      /\ Range(toSidecar') \subseteq Range(toSidecar) \cup {cmd}
      /\ cancel' \in {cancel, "sent"}
      /\ \/ pc' = "await" /\ UNCHANGED cancel /\ UNCHANGED <<cmd, result>>
         \/ UNCHANGED cancel /\ cmd = "shutdown" /\ pc' = "close_stdin" /\ UNCHANGED <<cmd, result>>
         \/ UNCHANGED cancel /\ cmd # "shutdown" /\ pc' = "check" /\ cmd' = "shutdown" /\ result' = "write_failed"
  <2>1. /\ Append(toSidecar, cmd) \in Seq(Commands)
        /\ Range(Append(toSidecar, cmd)) = Range(toSidecar) \cup {cmd}
        /\ toSidecar \in Seq(Commands)
    BY <1>i, RangeOfAppend DEF TypeOK, ClientTypeOK, Commands
  <2>2. CASE proc = "up"
    BY <2>1, <2>2 DEF Write
  <2>3. CASE proc # "up"
    BY <2>1, <2>3 DEF Write, Throw, Leave, Abandon
  <2> QED BY <2>2, <2>3
<1>u. /\ UNCHANGED <<call, held, launches, destroying, aborted, proc, signal, stdin, stdout,
                     fromSidecar, worker, dir, written, step, row, output>>
      /\ pc = "write"
  BY DEF Write, jobDir, host
<1>1. TypeOK'
  BY <1>i, <1>e, <1>u DEF TypeOK, ClientTypeOK, Pcs, Results, Commands
<1>2. ProcessInv'
  BY <1>i, <1>e, <1>u DEF ProcessInv
<1>3. PipesInv'
  BY <1>i, <1>e, <1>u DEF PipesInv, ExitIsUnderWay, ResultInv
<1>4. ResultInv'
  BY <1>i, <1>e, <1>u DEF ResultInv, SuccessIsDelivered, Cancellable
<1>5. JobDirInv'
  BY <1>i, <1>e, <1>u DEF JobDirInv, RemovedDirStaysRemoved
<1>6. RowsInv'
  BY <1>i, <1>e, <1>u DEF RowsInv, OutputNeverMixed
<1> QED BY <1>1, <1>2, <1>3, <1>4, <1>5, <1>6 DEF RenderInv

\* The cancel goes out after its job.
LEMMA SendCancelStep ==
  ASSUME RenderInv, SendCancel, UNCHANGED host
  PROVE  RenderInv'
<1>i. TypeOK /\ ProcessInv /\ PipesInv /\ ResultInv /\ JobDirInv /\ RowsInv
  BY DEF RenderInv
<1>e. /\ toSidecar' \in Seq(Commands)
      /\ Range(toSidecar') \subseteq Range(toSidecar) \cup {"cancel"}
      /\ cancel' \in {cancel, "sent"}
      /\ \/ pc' = pc /\ cmd \in Cancellable /\ UNCHANGED <<cmd, result>>
         \/ UNCHANGED cancel /\ cmd = "shutdown" /\ pc' = "close_stdin" /\ UNCHANGED <<cmd, result>>
         \/ UNCHANGED cancel /\ cmd # "shutdown" /\ pc' = "check" /\ cmd' = "shutdown" /\ result' = "write_failed"
  <2>1. /\ Append(toSidecar, "cancel") \in Seq(Commands)
        /\ Range(Append(toSidecar, "cancel")) = Range(toSidecar) \cup {"cancel"}
        /\ toSidecar \in Seq(Commands)
    BY <1>i, RangeOfAppend DEF TypeOK, ClientTypeOK, Commands
  <2>2. CASE proc = "up"
    BY <2>1, <2>2 DEF SendCancel
  <2>3. CASE proc # "up"
    BY <2>1, <2>3 DEF SendCancel, Throw, Leave, Abandon
  <2> QED BY <2>2, <2>3
<1>u. /\ UNCHANGED <<call, held, launches, destroying, aborted, proc, signal, stdin, stdout,
                     fromSidecar, worker, dir, written, step, row, output>>
      /\ pc = "await"
  BY DEF SendCancel, jobDir, host
<1>1. TypeOK'
  BY <1>i, <1>e, <1>u DEF TypeOK, ClientTypeOK, Pcs, Results, Commands
<1>2. ProcessInv'
  BY <1>i, <1>e, <1>u DEF ProcessInv
<1>3. PipesInv'
  BY <1>i, <1>e, <1>u DEF PipesInv, ExitIsUnderWay, ResultInv
<1>4. ResultInv'
  BY <1>i, <1>e, <1>u DEF ResultInv, SuccessIsDelivered, Cancellable
<1>5. JobDirInv'
  BY <1>i, <1>e, <1>u DEF JobDirInv, RemovedDirStaysRemoved
<1>6. RowsInv'
  BY <1>i, <1>e, <1>u DEF RowsInv, OutputNeverMixed
<1> QED BY <1>1, <1>2, <1>3, <1>4, <1>5, <1>6 DEF RenderInv

\* The answer that is read decides; a success of a job that was not
\* cancelled is its delivery.
LEMMA ReceiveStep ==
  ASSUME RenderInv, Receive, UNCHANGED host
  PROVE  RenderInv'
<1>i. TypeOK /\ ProcessInv /\ PipesInv /\ ResultInv /\ JobDirInv /\ RowsInv
  BY DEF RenderInv
<1>r. /\ Head(fromSidecar) \in Range(fromSidecar) /\ Head(fromSidecar) \in Response
      /\ Tail(fromSidecar) \in Seq(Response)
      /\ Range(Tail(fromSidecar)) \subseteq Range(fromSidecar)
  BY <1>i, RangeOfTail DEF TypeOK, ClientTypeOK, Receive
<1>u. /\ UNCHANGED <<call, launches, destroying, aborted, proc, signal, stdin, stdout, toSidecar,
                     worker, dir, written, step, row, output>>
      /\ pc = "await" /\ fromSidecar' = Tail(fromSidecar)
  BY DEF Receive, jobDir, host
<1>e. \/ /\ cmd = "health" /\ cmd' = "status" /\ pc' = "check"
         /\ UNCHANGED <<result, held, cancel>>
      \/ /\ cmd \in {"health", "status"} /\ cmd' = "shutdown" /\ pc' = "check"
         /\ result' \in {"ok", "protocol"} /\ UNCHANGED <<held, cancel>>
      \/ /\ cmd = "shutdown" /\ Head(fromSidecar).id = "shutdown" /\ pc' = "wait_exit"
         /\ UNCHANGED <<cmd, result, held, cancel>>
      \/ /\ cmd \in Cancellable /\ cmd' = "shutdown" /\ pc' = "check" /\ cancel = "no"
         /\ result' \in {"ok", "failed"} /\ UNCHANGED <<held, cancel>>
         /\ result' = "ok" => Head(fromSidecar).id = cmd /\ Head(fromSidecar).ok
      \/ /\ cmd \in Cancellable /\ cmd' = "shutdown" /\ pc' = "check"
         /\ result' \in {"failed", "cancelled"} /\ UNCHANGED <<held, cancel>>
      \/ /\ cmd \in Cancellable /\ cancel = "sent" /\ pc' = "await_ack"
         /\ held' \in {"ok", "failed"} /\ UNCHANGED <<cmd, result, cancel>>
      \/ /\ cmd \in Cancellable /\ cancel' = "acked" /\ UNCHANGED <<pc, cmd, result, held>>
      \/ /\ cmd = "shutdown" /\ pc' = "close_stdin" /\ UNCHANGED <<cmd, result, held, cancel>>
      \/ /\ cmd # "shutdown" /\ cmd' = "shutdown" /\ pc' = "check" /\ result' = "protocol"
         /\ UNCHANGED <<held, cancel>>
  <2>1. CASE Head(fromSidecar).id # cmd
    BY <2>1 DEF Receive, Throw, Leave, Abandon
  <2>2. CASE Head(fromSidecar).id = cmd
    <3>1. /\ Accept(Head(fromSidecar)) /\ UNCHANGED cancel
          /\ cmd \in {"health", "status", "shutdown", "infer", "warmup"}
          /\ cancel \in {"no", "sent", "acked"}
      BY <1>i, <2>2 DEF Receive, TypeOK, ClientTypeOK, Commands
    <3>2. CASE cmd = "health"
      BY <3>1, <3>2 DEF Accept, Leave, Cancellable
    <3>3. CASE cmd = "status"
      BY <3>1, <3>3 DEF Accept, Leave, Cancellable
    <3>4. CASE cmd = "shutdown"
      BY <2>2, <3>1, <3>4 DEF Accept, Cancellable
    <3>5. CASE cmd \in {"infer", "warmup"}
      <4>1. cmd \in Cancellable /\ cmd \notin {"health", "status", "shutdown"}
        BY <3>5 DEF Cancellable
      <4>2. CASE cancel = "no"
        <5>1. Leave(Ok(Head(fromSidecar).ok)) /\ UNCHANGED held
          BY <3>1, <4>1, <4>2 DEF Accept
        <5> QED BY <2>2, <3>1, <4>1, <4>2, <5>1 DEF Leave, Ok
      <4>3. CASE cancel = "acked"
        <5>1. Leave(CancelledAnswer(Ok(Head(fromSidecar).ok))) /\ UNCHANGED held
          BY <3>1, <4>1, <4>3 DEF Accept
        <5> QED BY <3>1, <4>1, <5>1 DEF Leave, Ok, CancelledAnswer
      <4>4. CASE cancel = "sent"
        <5>1. held' = Ok(Head(fromSidecar).ok) /\ pc' = "await_ack" /\ UNCHANGED <<cmd, result>>
          BY <3>1, <4>1, <4>4 DEF Accept
        <5> QED BY <3>1, <4>1, <4>4, <5>1 DEF Ok
      <4> QED BY <3>1, <4>2, <4>3, <4>4
    <3> QED BY <3>1, <3>2, <3>3, <3>4, <3>5
  <2> QED BY <2>1, <2>2
<1>1. TypeOK'
  BY <1>i, <1>r, <1>e, <1>u DEF TypeOK, ClientTypeOK, Pcs, Results, Commands
<1>2. ProcessInv'
  BY <1>i, <1>e, <1>u DEF ProcessInv
<1>3. PipesInv'
  <2>1. pc' = "wait_exit" => worker = "bye" \/ proc # "up"
    BY <1>i, <1>r, <1>e, <1>u DEF PipesInv
  <2> QED BY <1>i, <1>r, <1>u, <2>1 DEF PipesInv, ExitIsUnderWay
<1>4. ResultInv'
  <2>1. Head(fromSidecar).id = "infer" /\ Head(fromSidecar).ok => written = Blobs /\ dir # "none"
    BY <1>i, <1>r, Responses, BlobsAssumption DEF PipesInv, JobDirInv
  <2>2. SuccessIsDelivered'
    <3>1. call = "infer" /\ cmd # "shutdown" => cmd = "infer"
      BY <1>i, <1>u DEF ResultInv
    <3>2. call = "infer" /\ result = "ok" => cmd = "shutdown" /\ SuccessIsDelivered
      BY <1>i, <1>u DEF ResultInv
    <3> QED BY <1>e, <1>u, <2>1, <3>1, <3>2 DEF SuccessIsDelivered, Cancellable
  <2>3. (pc \in {"check", "write", "await", "await_ack"} /\ cmd # "shutdown" =>
           cmd \in (IF call = "probe" THEN {"health", "status"} ELSE {call}))'
    <3>1. cmd # "shutdown" => cmd \in (IF call = "probe" THEN {"health", "status"} ELSE {call})
      BY <1>i, <1>u DEF ResultInv
    <3>2. cmd' = cmd \/ cmd' = "shutdown" \/ (cmd = "health" /\ cmd' = "status")
      BY <1>e
    <3>3. call = "infer" \/ call = "probe" \/ call = "warmup"
      BY <1>i DEF TypeOK, ClientTypeOK, Calls
    <3> QED BY <1>u, <3>1, <3>2, <3>3
  <2>4. (pc \in {"launch", "await_ack"} => result # "ok")'
    BY <1>i, <1>e, <1>u DEF ResultInv, Cancellable
  <2>5. (pc \in {"check", "write", "await"} /\ cmd # "shutdown" => result # "ok")'
    BY <1>i, <1>e, <1>u DEF ResultInv
  <2>6. (pc = "await_ack" => cancel = "sent" /\ cmd \in Cancellable)'
    BY <1>e, <1>u
  <2>7. (pc = "launch" /\ launches # 0 => launches = 1 /\ result = "stopped")'
    BY <1>e, <1>u
  <2> QED BY <2>2, <2>3, <2>4, <2>5, <2>6, <2>7 DEF ResultInv
<1>5. JobDirInv'
  BY <1>i, <1>u DEF JobDirInv, RemovedDirStaysRemoved, ProcessInv
<1>6. RowsInv'
  BY <1>i, <1>u DEF RowsInv, OutputNeverMixed
<1> QED BY <1>1, <1>2, <1>3, <1>4, <1>5, <1>6 DEF RenderInv

\* The acknowledgement ends a cancelled job.
LEMMA ReceiveAckStep ==
  ASSUME RenderInv, ReceiveAck, UNCHANGED host
  PROVE  RenderInv'
<1>i. TypeOK /\ ProcessInv /\ PipesInv /\ ResultInv /\ JobDirInv /\ RowsInv
  BY DEF RenderInv
<1>r. /\ Head(fromSidecar) \in Range(fromSidecar) /\ Head(fromSidecar) \in Response
      /\ Tail(fromSidecar) \in Seq(Response)
      /\ Range(Tail(fromSidecar)) \subseteq Range(fromSidecar)
  BY <1>i, RangeOfTail DEF TypeOK, ClientTypeOK, ReceiveAck
<1>1. TypeOK'
  BY <1>i, <1>r, Responses DEF TypeOK, ReceiveAck, host, CancelledAnswer, Leave,
     jobDir, ClientTypeOK, Steps, Pcs, Results, Calls, Commands, Waits
<1>2. ProcessInv'
  BY <1>i, <1>r, Responses DEF ProcessInv, ReceiveAck, host, CancelledAnswer, Leave,
     jobDir
<1>3. PipesInv'
  BY <1>i, <1>r, Responses DEF PipesInv, ReceiveAck, host, CancelledAnswer, Leave,
     jobDir, ExitIsUnderWay
<1>4. ResultInv'
  BY <1>i, <1>r, Responses DEF ResultInv, ReceiveAck, host, CancelledAnswer, Leave,
     jobDir, SuccessIsDelivered, Cancellable
<1>5. JobDirInv'
  BY <1>i, <1>r, Responses DEF JobDirInv, ReceiveAck, host, CancelledAnswer, Leave,
     jobDir, RemovedDirStaysRemoved
<1>6. RowsInv'
  BY <1>i, <1>r, Responses DEF RowsInv, ReceiveAck, host, CancelledAnswer, Leave,
     jobDir, OutputNeverMixed
<1> QED BY <1>1, <1>2, <1>3, <1>4, <1>5, <1>6 DEF RenderInv

\* The sidecar has closed its stdout.
LEMMA StdoutClosedStep ==
  ASSUME RenderInv, StdoutClosed, UNCHANGED host
  PROVE  RenderInv'
<1>i. TypeOK /\ ProcessInv /\ PipesInv /\ ResultInv /\ JobDirInv /\ RowsInv
  BY DEF RenderInv
<1>1. TypeOK'
  BY <1>i DEF TypeOK, StdoutClosed, host, Throw, pipes, jobDir, Leave, Abandon,
     ClientTypeOK, Steps, Pcs, Results, Calls, Commands, Waits
<1>2. ProcessInv'
  BY <1>i DEF ProcessInv, StdoutClosed, host, Throw, pipes, jobDir, Leave, Abandon
<1>3. PipesInv'
  BY <1>i DEF PipesInv, StdoutClosed, host, Throw, pipes, jobDir, Leave, Abandon,
     ExitIsUnderWay
<1>4. ResultInv'
  BY <1>i DEF ResultInv, StdoutClosed, host, Throw, pipes, jobDir, Leave, Abandon,
     SuccessIsDelivered, Cancellable
<1>5. JobDirInv'
  BY <1>i DEF JobDirInv, StdoutClosed, host, Throw, pipes, jobDir, Leave, Abandon,
     RemovedDirStaysRemoved
<1>6. RowsInv'
  BY <1>i DEF RowsInv, StdoutClosed, host, Throw, pipes, jobDir, Leave, Abandon,
     OutputNeverMixed
<1> QED BY <1>1, <1>2, <1>3, <1>4, <1>5, <1>6 DEF RenderInv

\* An answer did not come in time.
LEMMA ReplyTimeoutStep ==
  ASSUME RenderInv, ReplyTimeout, UNCHANGED host
  PROVE  RenderInv'
<1>i. TypeOK /\ ProcessInv /\ PipesInv /\ ResultInv /\ JobDirInv /\ RowsInv
  BY DEF RenderInv
<1>1. TypeOK'
  BY <1>i DEF TypeOK, ReplyTimeout, host, Cancellable, Throw, pipes, jobDir, Leave,
     Abandon, ClientTypeOK, Steps, Pcs, Results, Calls, Commands, Waits
<1>2. ProcessInv'
  BY <1>i DEF ProcessInv, ReplyTimeout, host, Throw, pipes, jobDir, Leave, Abandon
<1>3. PipesInv'
  BY <1>i DEF PipesInv, ReplyTimeout, host, Throw, pipes, jobDir, Leave, Abandon,
     ExitIsUnderWay
<1>4. ResultInv'
  BY <1>i DEF ResultInv, ReplyTimeout, host, Cancellable, Throw, pipes, jobDir,
     Leave, Abandon, SuccessIsDelivered
<1>5. JobDirInv'
  BY <1>i DEF JobDirInv, ReplyTimeout, host, Throw, pipes, jobDir, Leave, Abandon,
     RemovedDirStaysRemoved
<1>6. RowsInv'
  BY <1>i DEF RowsInv, ReplyTimeout, host, Throw, pipes, jobDir, Leave, Abandon,
     OutputNeverMixed
<1> QED BY <1>1, <1>2, <1>3, <1>4, <1>5, <1>6 DEF RenderInv

\* A cancelled job is abandoned.
LEMMA GraceExpiresStep ==
  ASSUME RenderInv, GraceExpires, UNCHANGED host
  PROVE  RenderInv'
<1>i. TypeOK /\ ProcessInv /\ PipesInv /\ ResultInv /\ JobDirInv /\ RowsInv
  BY DEF RenderInv
<1>1. TypeOK'
  BY <1>i DEF TypeOK, GraceExpires, host, Cancellable, Abandon, CancelledAnswer,
     pipes, jobDir, ClientTypeOK, Steps, Pcs, Results, Calls, Commands, Waits
<1>2. ProcessInv'
  BY <1>i DEF ProcessInv, GraceExpires, host, Abandon, CancelledAnswer, pipes,
     jobDir
<1>3. PipesInv'
  BY <1>i DEF PipesInv, GraceExpires, host, Abandon, CancelledAnswer, pipes, jobDir,
     ExitIsUnderWay
<1>4. ResultInv'
  BY <1>i DEF ResultInv, GraceExpires, host, Cancellable, Abandon, CancelledAnswer,
     pipes, jobDir, SuccessIsDelivered
<1>5. JobDirInv'
  BY <1>i DEF JobDirInv, GraceExpires, host, Abandon, CancelledAnswer, pipes,
     jobDir, RemovedDirStaysRemoved
<1>6. RowsInv'
  BY <1>i DEF RowsInv, GraceExpires, host, Abandon, CancelledAnswer, pipes, jobDir,
     OutputNeverMixed
<1> QED BY <1>1, <1>2, <1>3, <1>4, <1>5, <1>6 DEF RenderInv

\* A job is abandoned at its deadline.
LEMMA JobTimeoutStep ==
  ASSUME RenderInv, JobTimeout, UNCHANGED host
  PROVE  RenderInv'
<1>i. TypeOK /\ ProcessInv /\ PipesInv /\ ResultInv /\ JobDirInv /\ RowsInv
  BY DEF RenderInv
<1>1. TypeOK'
  BY <1>i DEF TypeOK, JobTimeout, host, Cancellable, Abandon, pipes, jobDir,
     ClientTypeOK, Steps, Pcs, Results, Calls, Commands, Waits
<1>2. ProcessInv'
  BY <1>i DEF ProcessInv, JobTimeout, host, Abandon, pipes, jobDir
<1>3. PipesInv'
  BY <1>i DEF PipesInv, JobTimeout, host, Abandon, pipes, jobDir, ExitIsUnderWay
<1>4. ResultInv'
  BY <1>i DEF ResultInv, JobTimeout, host, Cancellable, Abandon, pipes, jobDir,
     SuccessIsDelivered
<1>5. JobDirInv'
  BY <1>i DEF JobDirInv, JobTimeout, host, Abandon, pipes, jobDir,
     RemovedDirStaysRemoved
<1>6. RowsInv'
  BY <1>i DEF RowsInv, JobTimeout, host, Abandon, pipes, jobDir, OutputNeverMixed
<1> QED BY <1>1, <1>2, <1>3, <1>4, <1>5, <1>6 DEF RenderInv

\* The sidecar has exited and is waited for.
LEMMA SawExitStep ==
  ASSUME RenderInv, SawExit, UNCHANGED host
  PROVE  RenderInv'
<1>i. TypeOK /\ ProcessInv /\ PipesInv /\ ResultInv /\ JobDirInv /\ RowsInv
  BY DEF RenderInv
<1>1. TypeOK'
  BY <1>i DEF TypeOK, SawExit, host, pipes, jobDir, ClientTypeOK, Steps, Pcs,
     Results, Calls, Commands, Waits
<1>2. ProcessInv'
  BY <1>i DEF ProcessInv, SawExit, host, pipes, jobDir
<1>3. PipesInv'
  BY <1>i DEF PipesInv, SawExit, host, pipes, jobDir, ExitIsUnderWay
<1>4. ResultInv'
  BY <1>i DEF ResultInv, SawExit, host, pipes, jobDir, SuccessIsDelivered,
     Cancellable
<1>5. JobDirInv'
  BY <1>i DEF JobDirInv, SawExit, host, pipes, jobDir, RemovedDirStaysRemoved
<1>6. RowsInv'
  BY <1>i DEF RowsInv, SawExit, host, pipes, jobDir, OutputNeverMixed
<1> QED BY <1>1, <1>2, <1>3, <1>4, <1>5, <1>6 DEF RenderInv

\* The sidecar did not exit in time.
LEMMA ExitTimeoutStep ==
  ASSUME RenderInv, ExitTimeout, UNCHANGED host
  PROVE  RenderInv'
<1>i. TypeOK /\ ProcessInv /\ PipesInv /\ ResultInv /\ JobDirInv /\ RowsInv
  BY DEF RenderInv
<1>1. TypeOK'
  BY <1>i DEF TypeOK, ExitTimeout, host, Abandon, pipes, jobDir, ClientTypeOK,
     Steps, Pcs, Results, Calls, Commands, Waits
<1>2. ProcessInv'
  BY <1>i DEF ProcessInv, ExitTimeout, host, Abandon, pipes, jobDir
<1>3. PipesInv'
  BY <1>i DEF PipesInv, ExitTimeout, host, Abandon, pipes, jobDir, ExitIsUnderWay
<1>4. ResultInv'
  BY <1>i DEF ResultInv, ExitTimeout, host, Abandon, pipes, jobDir,
     SuccessIsDelivered, Cancellable
<1>5. JobDirInv'
  BY <1>i DEF JobDirInv, ExitTimeout, host, Abandon, pipes, jobDir,
     RemovedDirStaysRemoved
<1>6. RowsInv'
  BY <1>i DEF RowsInv, ExitTimeout, host, Abandon, pipes, jobDir, OutputNeverMixed
<1> QED BY <1>1, <1>2, <1>3, <1>4, <1>5, <1>6 DEF RenderInv

\* The sidecar sees the end of its input.
LEMMA CloseStdinStep ==
  ASSUME RenderInv, CloseStdin, UNCHANGED host
  PROVE  RenderInv'
<1>i. TypeOK /\ ProcessInv /\ PipesInv /\ ResultInv /\ JobDirInv /\ RowsInv
  BY DEF RenderInv
<1>1. TypeOK'
  <2>1. pc' \in Pcs
    <3>1. pc' \in {"close_all", "wait_eof"}
      BY DEF CloseStdin
    <3> QED BY <3>1 DEF Pcs, Waits
  <2>2. /\ UNCHANGED <<call, cmd, cancel, held, result, launches, destroying, aborted, proc, signal,
                       stdout, toSidecar, fromSidecar, worker, dir, written, step, row, output>>
        /\ stdin' \in BOOLEAN
    BY DEF CloseStdin, jobDir, host
  <2> QED BY <1>i, <2>1, <2>2 DEF TypeOK, ClientTypeOK
<1>2. ProcessInv'
  BY <1>i DEF ProcessInv, CloseStdin, host, jobDir
<1>3. PipesInv'
  BY <1>i DEF PipesInv, CloseStdin, host, jobDir, ExitIsUnderWay
<1>4. ResultInv'
  BY <1>i DEF ResultInv, CloseStdin, host, jobDir, SuccessIsDelivered, Cancellable
<1>5. JobDirInv'
  BY <1>i DEF JobDirInv, CloseStdin, host, jobDir, RemovedDirStaysRemoved
<1>6. RowsInv'
  BY <1>i DEF RowsInv, CloseStdin, host, jobDir, OutputNeverMixed
<1> QED BY <1>1, <1>2, <1>3, <1>4, <1>5, <1>6 DEF RenderInv

\* The sidecar has exited and is waited for.
LEMMA WaitedStep ==
  ASSUME RenderInv, Waited, UNCHANGED host
  PROVE  RenderInv'
<1>i. TypeOK /\ ProcessInv /\ PipesInv /\ ResultInv /\ JobDirInv /\ RowsInv
  BY DEF RenderInv
<1>1. TypeOK'
  BY <1>i DEF TypeOK, Waited, host, Waits, pipes, jobDir, ClientTypeOK, Steps, Pcs,
     Results, Calls, Commands
<1>2. ProcessInv'
  BY <1>i DEF ProcessInv, Waited, host, Waits, pipes, jobDir
<1>3. PipesInv'
  BY <1>i DEF PipesInv, Waited, host, Waits, pipes, jobDir, ExitIsUnderWay
<1>4. ResultInv'
  BY <1>i DEF ResultInv, Waited, host, Waits, pipes, jobDir, SuccessIsDelivered,
     Cancellable
<1>5. JobDirInv'
  BY <1>i DEF JobDirInv, Waited, host, Waits, pipes, jobDir, RemovedDirStaysRemoved
<1>6. RowsInv'
  BY <1>i DEF RowsInv, Waited, host, Waits, pipes, jobDir, OutputNeverMixed
<1> QED BY <1>1, <1>2, <1>3, <1>4, <1>5, <1>6 DEF RenderInv

\* SIGTERM, then SIGKILL, then the sidecar is given up.
LEMMA WaitExpiresStep ==
  ASSUME RenderInv, WaitExpires, UNCHANGED host
  PROVE  RenderInv'
<1>i. TypeOK /\ ProcessInv /\ PipesInv /\ ResultInv /\ JobDirInv /\ RowsInv
  BY DEF RenderInv
<1>1. TypeOK'
  BY <1>i DEF TypeOK, WaitExpires, host, Escalate, pipes, jobDir, Stronger,
     ClientTypeOK, Steps, Pcs, Results, Calls, Commands, Waits
<1>2. ProcessInv'
  BY <1>i DEF ProcessInv, WaitExpires, host, Escalate, pipes, jobDir, Stronger
<1>3. PipesInv'
  BY <1>i DEF PipesInv, WaitExpires, host, Escalate, pipes, jobDir, Stronger,
     ExitIsUnderWay
<1>4. ResultInv'
  BY <1>i DEF ResultInv, WaitExpires, host, Escalate, pipes, jobDir, Stronger,
     SuccessIsDelivered, Cancellable
<1>5. JobDirInv'
  BY <1>i DEF JobDirInv, WaitExpires, host, Escalate, pipes, jobDir, Stronger,
     RemovedDirStaysRemoved
<1>6. RowsInv'
  BY <1>i DEF RowsInv, WaitExpires, host, Escalate, pipes, jobDir, Stronger,
     OutputNeverMixed
<1> QED BY <1>1, <1>2, <1>3, <1>4, <1>5, <1>6 DEF RenderInv

\* The pipes are closed over a sidecar that is gone or killed.
LEMMA CloseAllStep ==
  ASSUME RenderInv, CloseAll, UNCHANGED host
  PROVE  RenderInv'
<1>i. TypeOK /\ ProcessInv /\ PipesInv /\ ResultInv /\ JobDirInv /\ RowsInv
  BY DEF RenderInv
<1>r. <<>> \in Seq(Commands) /\ <<>> \in Seq(Response) /\ Range(<<>>) = {}
  BY RangeOfEmpty
<1>1. TypeOK'
  <2>1. pc' \in Pcs /\ destroying' \in BOOLEAN
    BY DEF CloseAll, Pcs, Waits
  <2> QED BY <1>i, <1>r, <2>1 DEF CloseAll, TypeOK, ClientTypeOK, jobDir, host
<1>2. ProcessInv'
  BY <1>i, <1>r DEF ProcessInv, CloseAll, host, jobDir
<1>3. PipesInv'
  BY <1>i, <1>r DEF PipesInv, CloseAll, host, jobDir, ExitIsUnderWay
<1>4. ResultInv'
  BY <1>i, <1>r DEF ResultInv, CloseAll, host, jobDir, SuccessIsDelivered,
     Cancellable
<1>5. JobDirInv'
  BY <1>i, <1>r DEF JobDirInv, CloseAll, host, jobDir, RemovedDirStaysRemoved
<1>6. RowsInv'
  BY <1>i, <1>r DEF RowsInv, CloseAll, host, jobDir, OutputNeverMixed
<1> QED BY <1>1, <1>2, <1>3, <1>4, <1>5, <1>6 DEF RenderInv

\* The call returns, or launches once more.
LEMMA EndStep ==
  ASSUME RenderInv, End, UNCHANGED host
  PROVE  RenderInv'
<1>i. TypeOK /\ ProcessInv /\ PipesInv /\ ResultInv /\ JobDirInv /\ RowsInv
  BY DEF RenderInv
<1>1. TypeOK'
  BY <1>i DEF TypeOK, End, host, Retries, pipes, jobDir, ClientTypeOK, Steps, Pcs,
     Results, Calls, Commands, Waits
<1>2. ProcessInv'
  BY <1>i DEF ProcessInv, End, host, Retries, pipes, jobDir
<1>3. PipesInv'
  BY <1>i DEF PipesInv, End, host, Retries, pipes, jobDir, ExitIsUnderWay
<1>4. ResultInv'
  BY <1>i DEF ResultInv, End, host, Retries, pipes, jobDir, SuccessIsDelivered,
     Cancellable
<1>5. JobDirInv'
  BY <1>i DEF JobDirInv, End, host, Retries, pipes, jobDir, RemovedDirStaysRemoved
<1>6. RowsInv'
  BY <1>i DEF RowsInv, End, host, Retries, pipes, jobDir, OutputNeverMixed
<1> QED BY <1>1, <1>2, <1>3, <1>4, <1>5, <1>6 DEF RenderInv

-----------------------------------------------------------------------------
(* The sidecar *)

\* An answer that is neither a delivery nor the one to a shutdown.
LEMMA AnswerStep ==
  ASSUME RenderInv, Answer, UNCHANGED host
  PROVE  RenderInv'
<1>i. TypeOK /\ ProcessInv /\ PipesInv /\ ResultInv /\ JobDirInv /\ RowsInv
  BY DEF RenderInv
<1>r. /\ Head(toSidecar) \in Range(toSidecar) /\ Head(toSidecar) \in Commands
      /\ Tail(toSidecar) \in Seq(Commands)
      /\ Range(Tail(toSidecar)) \subseteq Range(toSidecar)
  BY <1>i, RangeOfTail DEF TypeOK, ClientTypeOK, Answer
<1>s. PICK r \in Response :
        /\ r.id # "shutdown" /\ r # Delivered
        /\ fromSidecar' = Append(fromSidecar, r)
  BY <1>i, <1>r, Responses DEF Answer, Delivered, Commands
<1>t. fromSidecar' \in Seq(Response) /\ Range(fromSidecar') = Range(fromSidecar) \cup {r}
  BY <1>i, <1>s, RangeOfAppend DEF TypeOK, ClientTypeOK
<1>1. TypeOK'
  BY <1>i, <1>r, <1>s, <1>t, Responses DEF TypeOK, Answer, host, Executing, client,
     jobDir, ClientTypeOK, Steps, Pcs, Results, Calls, Commands, Waits
<1>2. ProcessInv'
  BY <1>i, <1>r, <1>s, <1>t, Responses DEF ProcessInv, Answer, host, Executing,
     client, jobDir
<1>3. PipesInv'
  BY <1>i, <1>r, <1>s, <1>t, Responses DEF PipesInv, Answer, host, Executing,
     client, jobDir, ExitIsUnderWay, Delivered
<1>4. ResultInv'
  BY <1>i, <1>r, <1>s, <1>t, Responses DEF ResultInv, Answer, host, Executing,
     client, jobDir, SuccessIsDelivered, Cancellable
<1>5. JobDirInv'
  BY <1>i, <1>r, <1>s, <1>t, Responses DEF JobDirInv, Answer, host, Executing,
     client, jobDir, RemovedDirStaysRemoved
<1>6. RowsInv'
  BY <1>i, <1>r, <1>s, <1>t, Responses DEF RowsInv, Answer, host, Executing, client,
     jobDir, OutputNeverMixed
<1> QED BY <1>1, <1>2, <1>3, <1>4, <1>5, <1>6 DEF RenderInv

\* An inference was asked for.
LEMMA StartInferStep ==
  ASSUME RenderInv, StartInfer, UNCHANGED host
  PROVE  RenderInv'
<1>i. TypeOK /\ ProcessInv /\ PipesInv /\ ResultInv /\ JobDirInv /\ RowsInv
  BY DEF RenderInv
<1>r. /\ Head(toSidecar) \in Range(toSidecar) /\ Head(toSidecar) \in Commands
      /\ Tail(toSidecar) \in Seq(Commands)
      /\ Range(Tail(toSidecar)) \subseteq Range(toSidecar)
  BY <1>i, RangeOfTail DEF TypeOK, ClientTypeOK, StartInfer
<1>1. TypeOK'
  BY <1>i, <1>r DEF TypeOK, StartInfer, host, Executing, client, jobDir,
     ClientTypeOK, Steps, Pcs, Results, Calls, Commands, Waits
<1>2. ProcessInv'
  BY <1>i, <1>r DEF ProcessInv, StartInfer, host, Executing, client, jobDir
<1>3. PipesInv'
  BY <1>i, <1>r DEF PipesInv, StartInfer, host, Executing, client, jobDir,
     ExitIsUnderWay
<1>4. ResultInv'
  BY <1>i, <1>r DEF ResultInv, StartInfer, host, Executing, client, jobDir,
     SuccessIsDelivered, Cancellable
<1>5. JobDirInv'
  BY <1>i, <1>r DEF StartInfer, Executing, PipesInv, JobDirInv, RemovedDirStaysRemoved, jobDir, client, host
<1>6. RowsInv'
  BY <1>i, <1>r DEF RowsInv, StartInfer, host, Executing, client, jobDir,
     OutputNeverMixed
<1> QED BY <1>1, <1>2, <1>3, <1>4, <1>5, <1>6 DEF RenderInv

\* Blobs are written during a call only, and before the success.
LEMMA WriteBlobStep ==
  ASSUME RenderInv, WriteBlob, UNCHANGED host
  PROVE  RenderInv'
<1>i. TypeOK /\ ProcessInv /\ PipesInv /\ ResultInv /\ JobDirInv /\ RowsInv
  BY DEF RenderInv
<1>1. TypeOK'
  BY <1>i, BlobsAssumption DEF TypeOK, WriteBlob, host, Executing, client, pipes,
     ClientTypeOK, Steps, Pcs, Results, Calls, Commands, Waits
<1>2. ProcessInv'
  BY <1>i, BlobsAssumption DEF ProcessInv, WriteBlob, host, Executing, client, pipes
<1>3. PipesInv'
  BY <1>i, BlobsAssumption DEF PipesInv, WriteBlob, host, Executing, client, pipes,
     ExitIsUnderWay
<1>4. ResultInv'
  BY <1>i, BlobsAssumption DEF ResultInv, WriteBlob, host, Executing, client, pipes,
     SuccessIsDelivered, Cancellable
<1>5. JobDirInv'
  <2>1. step = "calling" /\ call = "infer"
    BY <1>i DEF WriteBlob, Executing, ProcessInv, JobDirInv
  <2> QED BY <1>i, <2>1 DEF WriteBlob, JobDirInv, RemovedDirStaysRemoved, client, pipes, host
<1>6. RowsInv'
  BY <1>i, BlobsAssumption DEF RowsInv, WriteBlob, host, Executing, client, pipes,
     OutputNeverMixed
<1> QED BY <1>1, <1>2, <1>3, <1>4, <1>5, <1>6 DEF RenderInv

\* A success is answered when all blobs are written.
LEMMA EndInferStep ==
  ASSUME RenderInv, EndInfer, UNCHANGED host
  PROVE  RenderInv'
<1>i. TypeOK /\ ProcessInv /\ PipesInv /\ ResultInv /\ JobDirInv /\ RowsInv
  BY DEF RenderInv
<1>s. PICK r \in Response :
        /\ r.id = "infer" /\ (r.ok => written = Blobs)
        /\ fromSidecar' = Append(fromSidecar, r)
  BY <1>i, Responses DEF EndInfer, Commands
<1>t. fromSidecar' \in Seq(Response) /\ Range(fromSidecar') = Range(fromSidecar) \cup {r}
  BY <1>i, <1>s, RangeOfAppend DEF TypeOK, ClientTypeOK
<1>1. TypeOK'
  BY <1>i, <1>s, <1>t DEF TypeOK, EndInfer, host, Executing, client, jobDir,
     ClientTypeOK, Steps, Pcs, Results, Calls, Commands, Waits
<1>2. ProcessInv'
  BY <1>i, <1>s, <1>t DEF ProcessInv, EndInfer, host, Executing, client, jobDir
<1>3. PipesInv'
  BY <1>i, <1>s, <1>t DEF PipesInv, EndInfer, host, Executing, client, jobDir,
     ExitIsUnderWay, Delivered
<1>4. ResultInv'
  BY <1>i, <1>s, <1>t DEF ResultInv, EndInfer, host, Executing, client, jobDir,
     SuccessIsDelivered, Cancellable
<1>5. JobDirInv'
  BY <1>i, <1>s, <1>t DEF JobDirInv, EndInfer, host, Executing, client, jobDir,
     RemovedDirStaysRemoved
<1>6. RowsInv'
  BY <1>i, <1>s, <1>t DEF RowsInv, EndInfer, host, Executing, client, jobDir,
     OutputNeverMixed
<1> QED BY <1>1, <1>2, <1>3, <1>4, <1>5, <1>6 DEF RenderInv

\* The answer to a shutdown is the last.
LEMMA AnswerShutdownStep ==
  ASSUME RenderInv, AnswerShutdown, UNCHANGED host
  PROVE  RenderInv'
<1>i. TypeOK /\ ProcessInv /\ PipesInv /\ ResultInv /\ JobDirInv /\ RowsInv
  BY DEF RenderInv
<1>r. /\ Head(toSidecar) \in Range(toSidecar) /\ Head(toSidecar) \in Commands
      /\ Tail(toSidecar) \in Seq(Commands)
      /\ Range(Tail(toSidecar)) \subseteq Range(toSidecar)
  BY <1>i, RangeOfTail DEF TypeOK, ClientTypeOK, AnswerShutdown
<1>s. PICK r \in Response :
        /\ r.id = "shutdown"
        /\ fromSidecar' = Append(fromSidecar, r)
  BY <1>i, Responses DEF AnswerShutdown, Commands
<1>t. fromSidecar' \in Seq(Response) /\ Range(fromSidecar') = Range(fromSidecar) \cup {r}
  BY <1>i, <1>s, RangeOfAppend DEF TypeOK, ClientTypeOK
<1>1. TypeOK'
  BY <1>i, <1>r, <1>s, <1>t DEF TypeOK, AnswerShutdown, host, Executing, client,
     jobDir, ClientTypeOK, Steps, Pcs, Results, Calls, Commands, Waits
<1>2. ProcessInv'
  BY <1>i, <1>r, <1>s, <1>t DEF ProcessInv, AnswerShutdown, host, Executing, client,
     jobDir
<1>3. PipesInv'
  BY <1>i, <1>r, <1>s, <1>t DEF PipesInv, AnswerShutdown, host, Executing, client,
     jobDir, ExitIsUnderWay, Delivered
<1>4. ResultInv'
  BY <1>i, <1>r, <1>s, <1>t DEF ResultInv, AnswerShutdown, host, Executing, client,
     jobDir, SuccessIsDelivered, Cancellable
<1>5. JobDirInv'
  BY <1>i, <1>r, <1>s, <1>t DEF JobDirInv, AnswerShutdown, host, Executing, client,
     jobDir, RemovedDirStaysRemoved
<1>6. RowsInv'
  BY <1>i, <1>r, <1>s, <1>t DEF RowsInv, AnswerShutdown, host, Executing, client,
     jobDir, OutputNeverMixed
<1> QED BY <1>1, <1>2, <1>3, <1>4, <1>5, <1>6 DEF RenderInv

\* The sidecar exits.
LEMMA ExitMainStep ==
  ASSUME RenderInv, ExitMain, UNCHANGED host
  PROVE  RenderInv'
<1>i. TypeOK /\ ProcessInv /\ PipesInv /\ ResultInv /\ JobDirInv /\ RowsInv
  BY DEF RenderInv
<1>1. TypeOK'
  BY <1>i DEF TypeOK, ExitMain, host, Executing, client, pipes, jobDir,
     ClientTypeOK, Steps, Pcs, Results, Calls, Commands, Waits
<1>2. ProcessInv'
  BY <1>i DEF ProcessInv, ExitMain, host, Executing, client, pipes, jobDir
<1>3. PipesInv'
  BY <1>i DEF PipesInv, ExitMain, host, Executing, client, pipes, jobDir,
     ExitIsUnderWay
<1>4. ResultInv'
  BY <1>i DEF ResultInv, ExitMain, host, Executing, client, pipes, jobDir,
     SuccessIsDelivered, Cancellable
<1>5. JobDirInv'
  BY <1>i DEF JobDirInv, ExitMain, host, Executing, client, pipes, jobDir,
     RemovedDirStaysRemoved
<1>6. RowsInv'
  BY <1>i DEF RowsInv, ExitMain, host, Executing, client, pipes, jobDir,
     OutputNeverMixed
<1> QED BY <1>1, <1>2, <1>3, <1>4, <1>5, <1>6 DEF RenderInv

\* The sidecar dies.
LEMMA DieStep ==
  ASSUME RenderInv, Die, UNCHANGED host
  PROVE  RenderInv'
<1>i. TypeOK /\ ProcessInv /\ PipesInv /\ ResultInv /\ JobDirInv /\ RowsInv
  BY DEF RenderInv
<1>1. TypeOK'
  BY <1>i DEF TypeOK, Die, host, client, pipes, jobDir, ClientTypeOK, Steps, Pcs,
     Results, Calls, Commands, Waits
<1>2. ProcessInv'
  BY <1>i DEF ProcessInv, Die, host, client, pipes, jobDir
<1>3. PipesInv'
  BY <1>i DEF PipesInv, Die, host, client, pipes, jobDir, ExitIsUnderWay
<1>4. ResultInv'
  BY <1>i DEF ResultInv, Die, host, client, pipes, jobDir, SuccessIsDelivered,
     Cancellable
<1>5. JobDirInv'
  BY <1>i DEF JobDirInv, Die, host, client, pipes, jobDir, RemovedDirStaysRemoved
<1>6. RowsInv'
  BY <1>i DEF RowsInv, Die, host, client, pipes, jobDir, OutputNeverMixed
<1> QED BY <1>1, <1>2, <1>3, <1>4, <1>5, <1>6 DEF RenderInv

-----------------------------------------------------------------------------
(* The plugin *)

\* A call that is no inference finds no job directory.
LEMMA StartCallStep ==
  ASSUME RenderInv, StartCall
  PROVE  RenderInv'
<1>i. TypeOK /\ ProcessInv /\ PipesInv /\ ResultInv /\ JobDirInv /\ RowsInv
  BY DEF RenderInv
<1>r. Range(toSidecar) = {}
  BY <1>i, RangeOfEmpty DEF StartCall, JobDirInv
<1>1. TypeOK'
  BY <1>i DEF TypeOK, StartCall, Begin, jobDir, pipes, ClientTypeOK, Steps, host,
     Pcs, Results, Calls, Commands, Waits
<1>2. ProcessInv'
  BY <1>i DEF ProcessInv, StartCall, Begin, jobDir, pipes
<1>3. PipesInv'
  BY <1>i, <1>r DEF StartCall, Begin, PipesInv, ExitIsUnderWay, pipes, jobDir
<1>4. ResultInv'
  BY <1>i DEF ResultInv, StartCall, Begin, jobDir, pipes, SuccessIsDelivered,
     Cancellable
<1>5. JobDirInv'
  BY <1>i DEF JobDirInv, StartCall, Begin, jobDir, pipes, RemovedDirStaysRemoved
<1>6. RowsInv'
  BY <1>i DEF RowsInv, StartCall, Begin, jobDir, pipes, OutputNeverMixed
<1> QED BY <1>1, <1>2, <1>3, <1>4, <1>5, <1>6 DEF RenderInv

\* Nothing was done.
LEMMA WarmupAbortedStep ==
  ASSUME RenderInv, WarmupAborted
  PROVE  RenderInv'
<1>i. TypeOK /\ ProcessInv /\ PipesInv /\ ResultInv /\ JobDirInv /\ RowsInv
  BY DEF RenderInv
<1>1. TypeOK'
  BY <1>i DEF TypeOK, WarmupAborted, Goto, jobDir, client, pipes, ClientTypeOK,
     Steps, host, Pcs, Results, Calls, Commands, Waits
<1>2. ProcessInv'
  BY <1>i DEF ProcessInv, WarmupAborted, Goto, jobDir, client, pipes
<1>3. PipesInv'
  BY <1>i DEF PipesInv, WarmupAborted, Goto, jobDir, client, pipes, ExitIsUnderWay
<1>4. ResultInv'
  BY <1>i DEF ResultInv, WarmupAborted, Goto, jobDir, client, pipes,
     SuccessIsDelivered, Cancellable
<1>5. JobDirInv'
  BY <1>i DEF JobDirInv, WarmupAborted, Goto, jobDir, client, pipes,
     RemovedDirStaysRemoved
<1>6. RowsInv'
  BY <1>i DEF RowsInv, WarmupAborted, Goto, jobDir, client, pipes, OutputNeverMixed
<1> QED BY <1>1, <1>2, <1>3, <1>4, <1>5, <1>6 DEF RenderInv

\* The job directory is made for an inference only.
LEMMA StartRenderStep ==
  ASSUME RenderInv, StartRender
  PROVE  RenderInv'
<1>i. TypeOK /\ ProcessInv /\ PipesInv /\ ResultInv /\ JobDirInv /\ RowsInv
  BY DEF RenderInv
<1>1. TypeOK'
  BY <1>i DEF TypeOK, StartRender, Goto, client, pipes, ClientTypeOK, Steps, host,
     Pcs, Results, Calls, Commands, Waits
<1>2. ProcessInv'
  BY <1>i DEF ProcessInv, StartRender, Goto, client, pipes
<1>3. PipesInv'
  BY <1>i DEF PipesInv, StartRender, Goto, client, pipes, ExitIsUnderWay
<1>4. ResultInv'
  BY <1>i DEF ResultInv, StartRender, Goto, client, pipes, SuccessIsDelivered,
     Cancellable
<1>5. JobDirInv'
  BY <1>i DEF JobDirInv, StartRender, Goto, client, pipes, RemovedDirStaysRemoved
<1>6. RowsInv'
  BY <1>i DEF RowsInv, StartRender, Goto, client, pipes, OutputNeverMixed
<1> QED BY <1>1, <1>2, <1>3, <1>4, <1>5, <1>6 DEF RenderInv

\* No row was written.
LEMMA InputsFailStep ==
  ASSUME RenderInv, InputsFail
  PROVE  RenderInv'
<1>i. TypeOK /\ ProcessInv /\ PipesInv /\ ResultInv /\ JobDirInv /\ RowsInv
  BY DEF RenderInv
<1>1. TypeOK'
  BY <1>i DEF TypeOK, InputsFail, Goto, jobDir, client, pipes, ClientTypeOK, Steps,
     host, Pcs, Results, Calls, Commands, Waits
<1>2. ProcessInv'
  BY <1>i DEF ProcessInv, InputsFail, Goto, jobDir, client, pipes
<1>3. PipesInv'
  BY <1>i DEF PipesInv, InputsFail, Goto, jobDir, client, pipes, ExitIsUnderWay
<1>4. ResultInv'
  BY <1>i DEF ResultInv, InputsFail, Goto, jobDir, client, pipes,
     SuccessIsDelivered, Cancellable
<1>5. JobDirInv'
  BY <1>i DEF JobDirInv, InputsFail, Goto, jobDir, client, pipes,
     RemovedDirStaysRemoved
<1>6. RowsInv'
  BY <1>i DEF RowsInv, InputsFail, Goto, jobDir, client, pipes, OutputNeverMixed
<1> QED BY <1>1, <1>2, <1>3, <1>4, <1>5, <1>6 DEF RenderInv

\* The inputs are written.
LEMMA CallInferStep ==
  ASSUME RenderInv, CallInfer
  PROVE  RenderInv'
<1>i. TypeOK /\ ProcessInv /\ PipesInv /\ ResultInv /\ JobDirInv /\ RowsInv
  BY DEF RenderInv
<1>1. TypeOK'
  BY <1>i DEF TypeOK, CallInfer, Begin, jobDir, pipes, ClientTypeOK, Steps, host,
     Pcs, Results, Calls, Commands, Waits
<1>2. ProcessInv'
  BY <1>i DEF ProcessInv, CallInfer, Begin, jobDir, pipes
<1>3. PipesInv'
  BY <1>i DEF PipesInv, CallInfer, Begin, jobDir, pipes, ExitIsUnderWay
<1>4. ResultInv'
  BY <1>i DEF ResultInv, CallInfer, Begin, jobDir, pipes, SuccessIsDelivered,
     Cancellable
<1>5. JobDirInv'
  BY <1>i DEF JobDirInv, CallInfer, Begin, jobDir, pipes, RemovedDirStaysRemoved
<1>6. RowsInv'
  BY <1>i DEF RowsInv, CallInfer, Begin, jobDir, pipes, OutputNeverMixed
<1> QED BY <1>1, <1>2, <1>3, <1>4, <1>5, <1>6 DEF RenderInv

\* The result of the call decides.
LEMMA CallReturnsStep ==
  ASSUME RenderInv, CallReturns
  PROVE  RenderInv'
<1>i. TypeOK /\ ProcessInv /\ PipesInv /\ ResultInv /\ JobDirInv /\ RowsInv
  BY DEF RenderInv
<1>e. /\ UNCHANGED <<client, proc, signal, pipes, worker, dir, written, row>>
      /\ step = "calling" /\ pc = "returned"
      /\ \/ step' \in {"readback", "fail"} /\ call = "infer" /\ output' = output
         \/ step' = "done" /\ call # "infer" /\ output' \in {output, AllRows("status")}
  <2>1. CASE call = "infer"
    BY <2>1 DEF CallReturns, Goto, jobDir
  <2>2. CASE call = "probe"
    BY <2>2 DEF CallReturns, Goto, jobDir
  <2>3. CASE call = "warmup"
    BY <2>3 DEF CallReturns, Goto, jobDir
  <2> QED BY <1>i, <2>1, <2>2, <2>3 DEF TypeOK, ClientTypeOK, Calls
<1>1. TypeOK'
  BY <1>i, <1>e DEF TypeOK, ClientTypeOK, Steps, AllRows, client, pipes
<1>2. ProcessInv'
  BY <1>i, <1>e DEF ProcessInv, client, pipes
<1>3. PipesInv'
  BY <1>i, <1>e DEF PipesInv, ExitIsUnderWay, client, pipes
<1>4. ResultInv'
  BY <1>i, <1>e DEF ResultInv, SuccessIsDelivered, client, pipes
<1>5. JobDirInv'
  BY <1>i, <1>e DEF JobDirInv, RemovedDirStaysRemoved, client, pipes
<1>6. RowsInv'
  BY <1>i, <1>e DEF RowsInv, OutputNeverMixed, client, pipes
<1> QED BY <1>1, <1>2, <1>3, <1>4, <1>5, <1>6 DEF RenderInv

\* No row was written.
LEMMA ReadBackStep ==
  ASSUME RenderInv, ReadBack
  PROVE  RenderInv'
<1>i. TypeOK /\ ProcessInv /\ PipesInv /\ ResultInv /\ JobDirInv /\ RowsInv
  BY DEF RenderInv
<1>1. TypeOK'
  BY <1>i DEF TypeOK, ReadBack, Goto, jobDir, client, pipes, ClientTypeOK, Steps,
     host, Pcs, Results, Calls, Commands, Waits
<1>2. ProcessInv'
  BY <1>i DEF ProcessInv, ReadBack, Goto, jobDir, client, pipes
<1>3. PipesInv'
  BY <1>i DEF PipesInv, ReadBack, Goto, jobDir, client, pipes, ExitIsUnderWay
<1>4. ResultInv'
  BY <1>i DEF ResultInv, ReadBack, Goto, jobDir, client, pipes, SuccessIsDelivered,
     Cancellable
<1>5. JobDirInv'
  BY <1>i DEF JobDirInv, ReadBack, Goto, jobDir, client, pipes,
     RemovedDirStaysRemoved
<1>6. RowsInv'
  BY <1>i DEF RowsInv, ReadBack, Goto, jobDir, client, pipes, OutputNeverMixed
<1> QED BY <1>1, <1>2, <1>3, <1>4, <1>5, <1>6 DEF RenderInv

\* An abort leads to the status frame.
LEMMA AbortPolledStep ==
  ASSUME RenderInv, AbortPolled
  PROVE  RenderInv'
<1>i. TypeOK /\ ProcessInv /\ PipesInv /\ ResultInv /\ JobDirInv /\ RowsInv
  BY DEF RenderInv
<1>1. TypeOK'
  BY <1>i DEF TypeOK, AbortPolled, Goto, jobDir, client, pipes, ClientTypeOK, Steps,
     host, Pcs, Results, Calls, Commands, Waits
<1>2. ProcessInv'
  BY <1>i DEF ProcessInv, AbortPolled, Goto, jobDir, client, pipes
<1>3. PipesInv'
  BY <1>i DEF PipesInv, AbortPolled, Goto, jobDir, client, pipes, ExitIsUnderWay
<1>4. ResultInv'
  BY <1>i DEF ResultInv, AbortPolled, Goto, jobDir, client, pipes,
     SuccessIsDelivered, Cancellable
<1>5. JobDirInv'
  BY <1>i DEF JobDirInv, AbortPolled, Goto, jobDir, client, pipes,
     RemovedDirStaysRemoved
<1>6. RowsInv'
  BY <1>i DEF RowsInv, AbortPolled, Goto, jobDir, client, pipes, OutputNeverMixed
<1> QED BY <1>1, <1>2, <1>3, <1>4, <1>5, <1>6 DEF RenderInv

\* One more row holds the frame.
LEMMA WriteRowStep ==
  ASSUME RenderInv, WriteRow
  PROVE  RenderInv'
<1>i. TypeOK /\ ProcessInv /\ PipesInv /\ ResultInv /\ JobDirInv /\ RowsInv
  BY DEF RenderInv
<1>1. TypeOK'
  BY <1>i, RowsAssumption DEF TypeOK, WriteRow, Goto, jobDir, client, pipes,
     ClientTypeOK, Steps, host, Pcs, Results, Calls, Commands, Waits
<1>2. ProcessInv'
  BY <1>i, RowsAssumption DEF ProcessInv, WriteRow, Goto, jobDir, client, pipes
<1>3. PipesInv'
  BY <1>i, RowsAssumption DEF PipesInv, WriteRow, Goto, jobDir, client, pipes,
     ExitIsUnderWay
<1>4. ResultInv'
  BY <1>i, RowsAssumption DEF ResultInv, WriteRow, Goto, jobDir, client, pipes,
     SuccessIsDelivered, Cancellable
<1>5. JobDirInv'
  BY <1>i, RowsAssumption DEF JobDirInv, WriteRow, Goto, jobDir, client, pipes,
     RemovedDirStaysRemoved
<1>6. RowsInv'
  BY <1>i, RowsAssumption DEF WriteRow, Goto, RowsInv, OutputNeverMixed, TypeOK, AllRows
<1> QED BY <1>1, <1>2, <1>3, <1>4, <1>5, <1>6 DEF RenderInv

\* All rows hold the frame.
LEMMA WriteEndsStep ==
  ASSUME RenderInv, WriteEnds
  PROVE  RenderInv'
<1>i. TypeOK /\ ProcessInv /\ PipesInv /\ ResultInv /\ JobDirInv /\ RowsInv
  BY DEF RenderInv
<1>1. TypeOK'
  BY <1>i, RowsAssumption DEF TypeOK, WriteEnds, Goto, jobDir, client, pipes,
     ClientTypeOK, Steps, host, Pcs, Results, Calls, Commands, Waits
<1>2. ProcessInv'
  BY <1>i, RowsAssumption DEF ProcessInv, WriteEnds, Goto, jobDir, client, pipes
<1>3. PipesInv'
  BY <1>i, RowsAssumption DEF PipesInv, WriteEnds, Goto, jobDir, client, pipes,
     ExitIsUnderWay
<1>4. ResultInv'
  BY <1>i, RowsAssumption DEF ResultInv, WriteEnds, Goto, jobDir, client, pipes,
     SuccessIsDelivered, Cancellable
<1>5. JobDirInv'
  BY <1>i, RowsAssumption DEF JobDirInv, WriteEnds, Goto, jobDir, client, pipes,
     RemovedDirStaysRemoved
<1>6. RowsInv'
  BY <1>i, RowsAssumption DEF WriteEnds, Goto, RowsInv, OutputNeverMixed, TypeOK, AllRows
<1> QED BY <1>1, <1>2, <1>3, <1>4, <1>5, <1>6 DEF RenderInv

\* All rows hold the status frame.
LEMMA FailureFrameStep ==
  ASSUME RenderInv, FailureFrame
  PROVE  RenderInv'
<1>i. TypeOK /\ ProcessInv /\ PipesInv /\ ResultInv /\ JobDirInv /\ RowsInv
  BY DEF RenderInv
<1>1. TypeOK'
  BY <1>i, RowsAssumption DEF TypeOK, FailureFrame, Goto, AllRows, jobDir, client,
     pipes, ClientTypeOK, Steps, host, Pcs, Results, Calls, Commands, Waits
<1>2. ProcessInv'
  BY <1>i, RowsAssumption DEF ProcessInv, FailureFrame, Goto, AllRows, jobDir,
     client, pipes
<1>3. PipesInv'
  BY <1>i, RowsAssumption DEF PipesInv, FailureFrame, Goto, AllRows, jobDir, client,
     pipes, ExitIsUnderWay
<1>4. ResultInv'
  BY <1>i, RowsAssumption DEF ResultInv, FailureFrame, Goto, AllRows, jobDir,
     client, pipes, SuccessIsDelivered, Cancellable
<1>5. JobDirInv'
  BY <1>i, RowsAssumption DEF JobDirInv, FailureFrame, Goto, AllRows, jobDir,
     client, pipes, RemovedDirStaysRemoved
<1>6. RowsInv'
  BY <1>i, RowsAssumption DEF RowsInv, FailureFrame, Goto, AllRows, jobDir, client,
     pipes, OutputNeverMixed
<1> QED BY <1>1, <1>2, <1>3, <1>4, <1>5, <1>6 DEF RenderInv

\* No sidecar is left that could make the directory again.
LEMMA RemoveDirStep ==
  ASSUME RenderInv, RemoveDir
  PROVE  RenderInv'
<1>i. TypeOK /\ ProcessInv /\ PipesInv /\ ResultInv /\ JobDirInv /\ RowsInv
  BY DEF RenderInv
<1>1. TypeOK'
  BY <1>i DEF TypeOK, RemoveDir, Goto, client, pipes, ClientTypeOK, Steps, host,
     Pcs, Results, Calls, Commands, Waits
<1>2. ProcessInv'
  BY <1>i DEF ProcessInv, RemoveDir, Goto, client, pipes
<1>3. PipesInv'
  BY <1>i DEF PipesInv, RemoveDir, Goto, client, pipes, ExitIsUnderWay
<1>4. ResultInv'
  BY <1>i DEF ResultInv, RemoveDir, Goto, client, pipes, SuccessIsDelivered,
     Cancellable
<1>5. JobDirInv'
  BY <1>i DEF JobDirInv, RemoveDir, Goto, client, pipes, RemovedDirStaysRemoved
<1>6. RowsInv'
  BY <1>i DEF RowsInv, RemoveDir, Goto, client, pipes, OutputNeverMixed
<1> QED BY <1>1, <1>2, <1>3, <1>4, <1>5, <1>6 DEF RenderInv

\* Only the flag changes.
LEMMA HostAbortsStep ==
  ASSUME RenderInv, HostAborts
  PROVE  RenderInv'
<1>i. TypeOK /\ ProcessInv /\ PipesInv /\ ResultInv /\ JobDirInv /\ RowsInv
  BY DEF RenderInv
<1>1. TypeOK'
  BY <1>i DEF TypeOK, HostAborts, host, pipes, jobDir, ClientTypeOK, Steps, Pcs,
     Results, Calls, Commands, Waits
<1>2. ProcessInv'
  BY <1>i DEF ProcessInv, HostAborts, host, pipes, jobDir
<1>3. PipesInv'
  BY <1>i DEF PipesInv, HostAborts, host, pipes, jobDir, ExitIsUnderWay
<1>4. ResultInv'
  BY <1>i DEF ResultInv, HostAborts, host, pipes, jobDir, SuccessIsDelivered,
     Cancellable
<1>5. JobDirInv'
  BY <1>i DEF JobDirInv, HostAborts, host, pipes, jobDir, RemovedDirStaysRemoved
<1>6. RowsInv'
  BY <1>i DEF RowsInv, HostAborts, host, pipes, jobDir, OutputNeverMixed
<1> QED BY <1>1, <1>2, <1>3, <1>4, <1>5, <1>6 DEF RenderInv

-----------------------------------------------------------------------------
(* The theorems *)

\* A step that changes nothing.
LEMMA StutterKeeps ==
  ASSUME RenderInv, UNCHANGED vars
  PROVE  RenderInv'
  BY DEF RenderInv, TypeOK, ClientTypeOK, ProcessInv, PipesInv, ResultInv, JobDirInv, RowsInv,
         ExitIsUnderWay, SuccessIsDelivered, RemovedDirStaysRemoved, OutputNeverMixed,
         vars, sidecarVars, host, client, pipes, jobDir

\* Every step keeps the invariant.
LEMMA NextKeeps ==
  ASSUME RenderInv, [Next]_vars
  PROVE  RenderInv'
<1>1. CASE PluginStep
  BY <1>1, StartCallStep, WarmupAbortedStep, StartRenderStep, InputsFailStep,
     CallInferStep, CallReturnsStep, ReadBackStep, AbortPolledStep, WriteRowStep,
     WriteEndsStep, FailureFrameStep, RemoveDirStep DEF PluginStep
<1>2. CASE CallStep
  BY <1>2, LaunchStep, LaunchFailsStep, FoundStoppedStep, AbortedEarlyStep,
     FoundRunningStep, WriteStep, SendCancelStep, ReceiveStep, ReceiveAckStep,
     StdoutClosedStep, SawExitStep, CloseStdinStep, WaitedStep, CloseAllStep, EndStep
     DEF CallStep, ClientProgress
<1>3. CASE Timeout
  BY <1>3, ReplyTimeoutStep, GraceExpiresStep, ExitTimeoutStep, WaitExpiresStep DEF
     Timeout, ShortTimeout
<1>4. CASE Deadline
  BY <1>4, JobTimeoutStep DEF Deadline
<1>5. CASE Sidecar
  BY <1>5, AnswerStep, StartInferStep, WriteBlobStep, EndInferStep,
     AnswerShutdownStep, ExitMainStep, DieStep DEF Sidecar, SidecarStep
<1>6. CASE HostAborts
  BY <1>6, HostAbortsStep
<1>7. CASE UNCHANGED vars
  BY <1>7, StutterKeeps
<1> QED BY <1>1, <1>2, <1>3, <1>4, <1>5, <1>6, <1>7 DEF Next

\* The invariant holds in every reachable state.
THEOREM Invariance == Spec => []RenderInv
<1>1. RenderInv /\ [Next]_vars => RenderInv'
  BY NextKeeps
<1> QED BY InitHolds, <1>1, PTL DEF Spec

\* The variables keep their types; no call launches a third sidecar.
THEOREM TypeCorrect == Spec => []TypeOK
<1>1. RenderInv => TypeOK
  BY DEF RenderInv
<1> QED BY <1>1, Invariance, PTL

\* Wherever the host aborts, the output image ends as a whole frame, for any
\* number of rows.
THEOREM NeverMixed == Spec => []OutputNeverMixed
<1>1. RenderInv => OutputNeverMixed
  BY DEF RenderInv, RowsInv
<1> QED BY <1>1, Invariance, PTL

\* No sidecar makes the removed job directory again.
THEOREM StaysRemoved == Spec => []RemovedDirStaysRemoved
<1>1. RenderInv => RemovedDirStaysRemoved
  BY DEF RenderInv, JobDirInv
<1> QED BY <1>1, Invariance, PTL

\* A call that has returned has left neither a pipe nor a living sidecar.
THEOREM LeavesNothing == Spec => []NothingLeftBehind
<1>1. RenderInv => NothingLeftBehind
  BY DEF RenderInv, ProcessInv, NothingLeftBehind
<1> QED BY <1>1, Invariance, PTL

\* An inference that succeeds has delivered all blobs and was not cancelled.
THEOREM SuccessDelivers == Spec => []SuccessIsDelivered
<1>1. RenderInv => SuccessIsDelivered
  BY DEF RenderInv, ResultInv
<1> QED BY <1>1, Invariance, PTL

\* The client waits only for a sidecar that is on its way out.
THEOREM ShutdownTaken == Spec => []ExitIsUnderWay
<1>1. RenderInv => ExitIsUnderWay
  BY DEF RenderInv, PipesInv
<1> QED BY <1>1, Invariance, PTL

\* Only a launch adds a launch.
LEMMA OnlyLaunchLaunches ==
  ASSUME RenderInv, [Next]_vars, launches' > launches
  PROVE  pc = "launch"
<1>i. launches \in Nat
  BY DEF RenderInv, TypeOK, ClientTypeOK
<1>c. call = "infer" \/ call = "probe" \/ call = "warmup"
  BY DEF RenderInv, TypeOK, ClientTypeOK, Calls
<1>1. CASE PluginStep
  <2>1. launches' \in {0, launches}
    <3>1. CASE StartCall \/ CallInfer
      BY <3>1 DEF StartCall, CallInfer, Begin
    <3>2. CASE CallReturns
      BY <1>c, <3>2 DEF CallReturns, Goto, client
    <3>3. CASE ~(StartCall \/ CallInfer \/ CallReturns)
      BY <1>1, <3>3 DEF PluginStep, WarmupAborted, StartRender, InputsFail, ReadBack,
         AbortPolled, WriteRow, WriteEnds, FailureFrame, RemoveDir, Goto, client
    <3> QED BY <3>1, <3>2, <3>3
  <2> QED BY <1>i, <2>1
<1>2. CASE CallStep
  <2>1. pc = "launch" \/ launches' = launches
    BY <1>2 DEF CallStep, ClientProgress, Launch, LaunchFails, FoundStopped,
       AbortedEarly, FoundRunning, Write, SendCancel, Receive, ReceiveAck,
       StdoutClosed, SawExit, CloseStdin, Waited, CloseAll, End, client
  <2> QED BY <1>i, <2>1
<1>3. CASE Timeout \/ Deadline
  <2>1. launches' = launches
    BY <1>3 DEF Timeout, ShortTimeout, ReplyTimeout, GraceExpires, ExitTimeout,
       WaitExpires, Deadline, JobTimeout
  <2> QED BY <1>i, <2>1
<1>4. CASE Sidecar \/ HostAborts \/ UNCHANGED vars
  <2>1. launches' = launches
    BY <1>4 DEF Sidecar, SidecarStep, Answer, StartInfer, WriteBlob, EndInfer,
       AnswerShutdown, ExitMain, Die, HostAborts, client, sidecarVars, vars
  <2> QED BY <1>i, <2>1
<1> QED BY <1>1, <1>2, <1>3, <1>4 DEF Next

\* A second sidecar is launched only for a probe whose first one had stopped.
THEOREM RetryOnceWhenStopped == Spec => RetriesOnlyStopped
<1>1. ASSUME RenderInv, [Next]_vars, launches' > launches, launches # 0
      PROVE  launches = 1 /\ result = "stopped" /\ (proc # "up" \/ signal = "kill")
  BY <1>1, OnlyLaunchLaunches DEF RenderInv, ProcessInv, ResultInv
<1>2. RenderInv /\ [Next]_vars =>
        [launches' > launches /\ launches # 0 =>
           launches = 1 /\ result = "stopped" /\ (proc # "up" \/ signal = "kill")]_vars
  BY <1>1
<1> QED BY <1>2, Invariance, PTL DEF Spec, RetriesOnlyStopped


-----------------------------------------------------------------------------
(* The action is one Rendering *)

\* What a window shows whose rows all hold the same.
LEMMA ShowsAll ==
  ASSUME NEW what \in {"host", "frame", "status"}
  PROVE  Shows(AllRows(what)) = what
<1>1. AllRows(what)[1] = what
  BY RowsAssumption DEF AllRows
<1> QED BY <1>1 DEF Shows

\* A row of the frame makes a window a mixture, or the whole frame.
LEMMA ShowsRow ==
  ASSUME NEW rows, NEW r \in 1 .. Rows, rows[r] = "frame"
  PROVE  Shows(rows) \in {"mixture", "frame"}
<1>1. CASE \E what \in {"host", "frame", "status"} : rows = AllRows(what)
  <2>1. PICK what \in {"host", "frame", "status"} : rows = AllRows(what)
    BY <1>1
  <2>2. what = "frame"
    BY <2>1 DEF AllRows
  <2> QED BY <2>1, <2>2, ShowsAll
<1>2. CASE ~\E what \in {"host", "frame", "status"} : rows = AllRows(what)
  BY <1>2 DEF Shows
<1> QED BY <1>1, <1>2

\* What shows the frame is the frame.
LEMMA ShowsFrame ==
  ASSUME NEW rows, Shows(rows) = "frame"
  PROVE  rows = AllRows("frame")
<1>1. PICK what \in {"host", "frame", "status"} : rows = AllRows(what)
  BY DEF Shows
<1>2. Shows(rows) = what
  BY <1>1, ShowsAll
<1> QED BY <1>1, <1>2

\* A step that the host does not see.
LEMMA Unseen ==
  ASSUME step' = step, dir' = dir, written' = written, output' = output
  PROVE  UNCHANGED Host!vars
  BY DEF Host!vars, Phase

\* The client touches neither the image nor the job directory.
LEMMA ClientIsUnseen ==
  ASSUME CallStep \/ Timeout \/ Deadline
  PROVE  UNCHANGED Host!vars
<1>1. host' = host
  BY DEF CallStep, Timeout, Deadline
<1>2. jobDir' = jobDir
  <2>1. CASE CallStep
    BY <2>1 DEF CallStep, ClientProgress, Launch, LaunchFails, FoundStopped,
       AbortedEarly, FoundRunning, Write, SendCancel, Receive, ReceiveAck,
       StdoutClosed, SawExit, CloseStdin, Waited, CloseAll, End
  <2>2. CASE Timeout
    BY <2>2 DEF Timeout, ShortTimeout, ReplyTimeout, GraceExpires, ExitTimeout, WaitExpires
  <2>3. CASE Deadline
    BY <2>3 DEF Deadline, JobTimeout
  <2> QED BY <2>1, <2>2, <2>3
<1> QED BY <1>1, <1>2, Unseen DEF host, jobDir

\* The sidecar is seen only where it completes the outputs of an inference,
\* which it does only while the call for it lasts.
LEMMA SidecarRefines ==
  ASSUME RenderInv, Sidecar
  PROVE  [Host!Next]_(Host!vars)
<1>1. step' = step /\ output' = output
  BY DEF Sidecar, host
<1>2. CASE WriteBlob
  <2>1. proc = "up" /\ signal # "kill" /\ worker = "infer"
    BY <1>2 DEF WriteBlob, Executing
  <2>2. pc # "returned"
    BY <2>1 DEF RenderInv, ProcessInv
  <2>3. step = "calling" /\ call = "infer"
    BY <2>1, <2>2 DEF RenderInv, JobDirInv
  <2>4. dir = "there" /\ dir' = "there"
    BY <1>2, <2>3 DEF RenderInv, JobDirInv, WriteBlob
  <2>5. written # Blobs
    BY <1>2, BlobsAssumption DEF WriteBlob, RenderInv, TypeOK, ClientTypeOK
  <2>6. Phase = "calling" /\ Phase' = Phase
    BY <1>1, <2>3 DEF Phase
  <2>7. CASE written' = Blobs
    BY <1>1, <2>4, <2>6, <2>7 DEF Host!Infer, Host!Next
  <2>8. CASE written' # Blobs
    BY <1>1, <2>4, <2>5, <2>6, <2>8 DEF Host!vars
  <2> QED BY <2>7, <2>8
<1>3. CASE ~WriteBlob
  <2>1. jobDir' = jobDir
    BY <1>3 DEF Sidecar, SidecarStep, Answer, StartInfer, EndInfer, AnswerShutdown,
       ExitMain, Die
  <2> QED BY <1>1, <2>1, Unseen DEF jobDir
<1> QED BY <1>2, <1>3

\* How an action begins.
LEMMA BeginRefines ==
  ASSUME RenderInv, StartCall \/ WarmupAborted \/ StartRender \/ InputsFail \/ CallInfer
  PROVE  [Host!Next]_(Host!vars)
<1>1. output' = output /\ written' = written
  BY DEF StartCall, WarmupAborted, StartRender, InputsFail, CallInfer, jobDir
<1>2. step = "begin" => dir = "none"
  BY DEF RenderInv, JobDirInv
<1>3. CASE StartCall \/ CallInfer
  <2>1. Phase = "before" /\ Phase' = "calling" /\ dir' = dir
    BY <1>3 DEF StartCall, CallInfer, Phase, jobDir
  <2> QED BY <1>1, <2>1 DEF Host!Call, Host!Next
<1>4. CASE WarmupAborted
  <2>1. Phase = "before" /\ Phase' = "over" /\ dir = "none" /\ dir' = dir
    BY <1>2, <1>4 DEF WarmupAborted, Goto, Phase, jobDir
  <2> QED BY <1>1, <2>1 DEF Host!Withdraw, Host!Next
<1>5. CASE StartRender /\ ~aborted
  <2>1. Phase = "before" /\ Phase' = "before" /\ dir = "none" /\ dir' = "there"
    BY <1>2, <1>5 DEF StartRender, Goto, Phase
  <2> QED BY <1>1, <2>1 DEF Host!Prepare, Host!Next
<1>6. CASE (StartRender /\ aborted) \/ InputsFail
  <2>1. Phase = "before" /\ Phase' = "failed" /\ dir' = dir
    BY <1>6 DEF StartRender, InputsFail, Goto, Phase, jobDir
  <2> QED BY <1>1, <2>1 DEF Host!Break, Host!Next
<1> QED BY <1>3, <1>4, <1>5, <1>6

\* A call that returns: only the call of an inference has a job directory, and
\* it has succeeded only with all of its outputs.
LEMMA ReturnRefines ==
  ASSUME RenderInv, CallReturns
  PROVE  Host!Next
<1>1. /\ step = "calling" /\ dir' = dir /\ written' = written
      /\ call \in {"infer", "probe", "warmup"}
      /\ call # "infer" => dir = "none"
      /\ call = "infer" => dir = "there"
  BY DEF CallReturns, jobDir, RenderInv, TypeOK, ClientTypeOK, Calls, JobDirInv
<1>2. CASE call = "infer" /\ result = "ok"
  <2>1. Phase = "calling" /\ Phase' = "drawing" /\ output' = output
    BY <1>1, <1>2 DEF CallReturns, Goto, Phase
  <2>2. written = Blobs
    BY <1>2 DEF RenderInv, ResultInv, SuccessIsDelivered
  <2> QED BY <1>1, <1>2, <2>1, <2>2 DEF Host!Return, Host!Next
<1>3. CASE call = "infer" /\ result # "ok"
  <2>1. Phase = "calling" /\ Phase' = "failed" /\ output' = output
    BY <1>1, <1>3 DEF CallReturns, Goto, Phase
  <2> QED BY <1>1, <1>3, <2>1 DEF Host!Return, Host!Next
<1>4. CASE call # "infer"
  <2>1. /\ Phase = "calling" /\ Phase' = "over"
        /\ output' = output \/ output' = AllRows("status")
    BY <1>1, <1>4 DEF CallReturns, Goto, Phase
  <2>2. Shows(output)' \in {Shows(output), "status"}
    BY <2>1, ShowsAll
  <2> QED BY <1>1, <1>4, <2>1, <2>2 DEF Host!Return, Host!Next
<1> QED BY <1>2, <1>3, <1>4

\* Drawing: a row makes the window a mixture until it is the last one.
LEMMA DrawRefines ==
  ASSUME RenderInv, WriteRow
  PROVE  [Host!Next]_(Host!vars)
<1>1. /\ Phase = "drawing" /\ Phase' = Phase /\ step' = step
      /\ dir' = dir /\ written' = written
      /\ output' = [output EXCEPT ![row] = "frame"]
  BY DEF WriteRow, Goto, Phase, jobDir
<1>2. /\ row \in 1 .. Rows
      /\ output \in [1 .. Rows -> {"host", "frame", "status"}]
  BY RowsAssumption DEF WriteRow, RenderInv, TypeOK
<1>3. CASE Shows(output) = "frame"
  <2>1. output' = output
    BY <1>1, <1>2, <1>3, ShowsFrame DEF AllRows
  <2> QED BY <1>1, <2>1, Unseen
<1>4. CASE Shows(output) # "frame"
  <2>1. output'[row] = "frame"
    BY <1>1, <1>2
  <2>2. Shows(output)' \in {"mixture", "frame"}
    BY <1>2, <2>1, ShowsRow
  <2> QED BY <1>1, <1>4, <2>2 DEF Host!Draw, Host!Next
<1> QED BY <1>3, <1>4

\* How an action ends.
LEMMA EndRefines ==
  ASSUME RenderInv, ReadBack \/ AbortPolled \/ WriteEnds \/ FailureFrame \/ RemoveDir
  PROVE  [Host!Next]_(Host!vars)
<1>1. CASE ReadBack /\ step' = "writeback"
  <2>1. Phase' = Phase /\ UNCHANGED <<dir, written, output>>
    BY <1>1 DEF ReadBack, Phase, jobDir
  <2> QED BY <2>1 DEF Host!vars
<1>2. CASE (ReadBack /\ step' # "writeback") \/ AbortPolled
  <2>1. Phase = "drawing" /\ Phase' = "failed" /\ UNCHANGED <<dir, written, output>>
    BY <1>2 DEF ReadBack, AbortPolled, Goto, Phase, jobDir
  <2> QED BY <2>1 DEF Host!Break, Host!Next
<1>3. CASE WriteEnds
  <2>1. Phase = "drawing" /\ Phase' = "drawn" /\ UNCHANGED <<dir, written, output>>
    BY <1>3 DEF WriteEnds, Goto, Phase, jobDir
  <2>2. output = AllRows("frame")
    BY <1>3, RowsAssumption DEF WriteEnds, RenderInv, TypeOK, RowsInv, AllRows
  <2>3. Shows(output) = "frame"
    BY <2>2, ShowsAll
  <2> QED BY <2>1, <2>3 DEF Host!Complete, Host!Next
<1>4. CASE FailureFrame
  <2>1. /\ Phase = "failed" /\ Phase' = "drawn" /\ UNCHANGED <<dir, written>>
        /\ output' = AllRows("status")
    BY <1>4 DEF FailureFrame, Goto, Phase, jobDir
  <2>2. Shows(output)' = "status"
    BY <2>1, ShowsAll
  <2> QED BY <2>1, <2>2 DEF Host!ShowStatus, Host!Next
<1>5. CASE RemoveDir
  <2>1. /\ Phase = "drawn" /\ Phase' = "over" /\ UNCHANGED <<written, output>>
        /\ dir' = IF dir = "there" THEN "removed" ELSE dir
    BY <1>5 DEF RemoveDir, Goto, Phase
  <2> QED BY <2>1 DEF Host!Remove, Host!Next
<1> QED BY <1>1, <1>2, <1>3, <1>4, <1>5

\* Every step is one of a Rendering, or one the host does not see.
LEMMA StepsRefine ==
  ASSUME RenderInv, [Next]_vars
  PROVE  [Host!Next]_(Host!vars)
<1>1. CASE PluginStep
  BY <1>1, BeginRefines, ReturnRefines, DrawRefines, EndRefines DEF PluginStep
<1>2. CASE CallStep \/ Timeout \/ Deadline
  BY <1>2, ClientIsUnseen
<1>3. CASE Sidecar
  BY <1>3, SidecarRefines
<1>4. CASE HostAborts
  BY <1>4, Unseen DEF HostAborts, host, jobDir
<1>5. CASE UNCHANGED vars
  BY <1>5, Unseen DEF vars, sidecarVars, host, jobDir
<1> QED BY <1>1, <1>2, <1>3, <1>4, <1>5 DEF Next

\* With client, process, pipes, signals and timeouts an action of the plugin is
\* still one Rendering: the frame is drawn only after a call that delivered it,
\* what breaks ends in a whole status frame, and nothing comes after the call.
THEOREM Refinement == Spec => RendersOneFrame
<1>1. Init => Host!Init
  <2> SUFFICES ASSUME Init PROVE Host!Init
    OBVIOUS
  <2>1. Phase = "before" /\ dir = "none" /\ written # Blobs /\ output = AllRows("host")
    BY BlobsAssumption DEF Init, ClientInit, Phase, AllRows
  <2>2. Shows(output) = "host"
    BY <2>1, ShowsAll
  <2> QED BY <2>1, <2>2 DEF Host!Init
<1>2. RenderInv /\ [Next]_vars => [Host!Next]_(Host!vars)
  BY StepsRefine
<1> QED BY <1>1, <1>2, Invariance, PTL DEF Spec, RendersOneFrame, Host!Spec
=============================================================================
