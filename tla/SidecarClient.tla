--------------------------- MODULE SidecarClient ---------------------------
(***************************************************************************)
(* One call of the plugin into the sidecar: the client                     *)
(* (src/sidecar_client/SidecarClient.cpp), the child process it owns       *)
(* (SidecarProcess.cpp) and that process, the sidecar of                   *)
(* sidecar/corridorkey_sidecar, as the client sees it.  Every call         *)
(* launches a sidecar of its own and must leave none behind.               *)
(*                                                                         *)
(* The calls are CorridorKeyRunStubInfer ("infer"), CorridorKeyRunWarmup   *)
(* ("warmup") and CorridorKeyProbeRuntimeStatus ("probe").  A client sends *)
(* each command at most once, so that a command stands for its request_id. *)
(* There is no clock: a wait with a timeout ends when what it waits for    *)
(* has come, or at any time.  The sidecar may be slow, hang or die at any  *)
(* point.                                                                  *)
(***************************************************************************)
EXTENDS Naturals, Sequences

CONSTANT Blobs   \* output frame blobs of an inference

ASSUME BlobsAssumption == Blobs \in Nat \ {0}

Calls       == {"infer", "warmup", "probe"}
Cancellable == {"infer", "warmup"}
Commands    == {"infer", "warmup", "health", "status", "cancel", "shutdown"}

VARIABLES
  (* the client *)
  call,        \* the call
  pc,          \* where it is
  cmd,         \* the command being sent or answered
  cancel,      \* "no", "sent", "acked"
  held,        \* answer of a cancelled job while its cancel is not acknowledged
  result,      \* what the call returns
  launches,    \* sidecars launched by this call
  destroying,  \* terminate() runs in ~SidecarProcess
  aborted,     \* the host wants the render to stop
  (* the child process *)
  proc,        \* "none", "up", "exited" (not waited for), "reaped"
  signal,      \* the strongest signal sent to it
  stdin,       \* the client's end of its stdin is open
  stdout,      \* the client's end of its stdout is open
  toSidecar,   \* commands in the stdin pipe
  fromSidecar, \* responses in the stdout pipe
  (* the sidecar *)
  worker,      \* "idle", "infer", "bye": what its main loop does
  (* the job directory *)
  dir,         \* "none", "there", "removed"
  written      \* output frame blobs in it

client  == <<call, pc, cmd, cancel, held, result, launches, destroying, aborted>>
pipes   == <<stdin, stdout, toSidecar, fromSidecar>>
jobDir  == <<dir, written>>
sidecarVars == <<client, proc, signal, pipes, worker, jobDir>>

Waits == {"wait_eof", "wait_term", "wait_kill"}
Pcs   == {"returned", "launch", "check", "write", "await", "await_ack",
          "wait_exit", "close_stdin", "close_all", "end"} \cup Waits
Results == {"none", "ok", "failed", "cancelled", "timeout", "stopped",
            "write_failed", "protocol", "launch_failed"}
Response == [id : Commands \cup {"null"}, ok : BOOLEAN]

ClientTypeOK ==
  /\ call \in Calls
  /\ pc \in Pcs
  /\ cmd \in Commands \ {"cancel"}
  /\ cancel \in {"no", "sent", "acked"}
  /\ held \in {"none", "ok", "failed"}
  /\ result \in Results
  /\ launches \in 0 .. 2
  /\ destroying \in BOOLEAN /\ aborted \in BOOLEAN
  /\ proc \in {"none", "up", "exited", "reaped"}
  /\ signal \in {"none", "term", "kill"}
  /\ stdin \in BOOLEAN /\ stdout \in BOOLEAN
  /\ toSidecar \in Seq(Commands) /\ fromSidecar \in Seq(Response)
  /\ worker \in {"idle", "infer", "bye"}
  /\ dir \in {"none", "there", "removed"}
  /\ written \in 0 .. Blobs

ClientInit ==
  /\ call = "infer" /\ pc = "returned" /\ cmd = "infer" /\ cancel = "no"
  /\ held = "none" /\ result = "none" /\ launches = 0
  /\ destroying = FALSE /\ aborted = FALSE
  /\ proc = "none" /\ signal = "none"
  /\ stdin = FALSE /\ stdout = FALSE /\ toSidecar = <<>> /\ fromSidecar = <<>>
  /\ worker = "idle"
  /\ dir = "none" /\ written = 0

-----------------------------------------------------------------------------
(* How a step of the client ends *)

\* The client object goes out of scope and asks the sidecar to shut down.
Leave(r) == result' = r /\ cmd' = "shutdown" /\ pc' = "check"

\* terminate(), after which the client does not ask for a shutdown.
Abandon(r) == result' = r /\ pc' = "close_stdin" /\ UNCHANGED cmd

\* An exception: the call fails with r; in shutdown() the sidecar is
\* terminated and the result stands.
Throw(r) == IF cmd = "shutdown" THEN Abandon(result) ELSE Leave(r)

Ok(b) == IF b THEN "ok" ELSE "failed"

\* Mutant of CancelledAnswer: an answer that is already there is delivered.
CancelledAnswer_Kept(a) == a

\* A job a cancel was sent for: a successful answer is dropped.
CancelledAnswer(a) == IF a = "ok" THEN "cancelled" ELSE a

-----------------------------------------------------------------------------
(* The client *)

Begin(c) ==
  /\ pc = "returned"
  /\ call' = c /\ pc' = "launch" /\ result' = "none" /\ launches' = 0
  /\ UNCHANGED <<cmd, cancel, held, destroying, proc, signal, pipes, worker>>

Launch ==
  /\ pc = "launch"
  /\ proc' = "up" /\ signal' = "none" /\ worker' = "idle"
  /\ stdin' = TRUE /\ stdout' = TRUE /\ toSidecar' = <<>> /\ fromSidecar' = <<>>
  /\ cancel' = "no" /\ held' = "none" /\ destroying' = FALSE
  /\ launches' = launches + 1
  /\ cmd' = IF call = "probe" THEN "health" ELSE call
  /\ pc' = "check"
  /\ UNCHANGED <<call, result, aborted, jobDir>>

LaunchFails ==
  /\ pc = "launch"
  /\ result' = "launch_failed" /\ launches' = launches + 1 /\ pc' = "end"
  /\ UNCHANGED <<call, cmd, cancel, held, destroying, aborted, proc, signal,
                 pipes, worker, jobDir>>

\* isRunning() finds that the sidecar has exited and closes the pipes,
\* whatever they still hold.
FoundStopped ==
  /\ pc = "check" /\ proc # "up"
  /\ proc' = "reaped"
  /\ stdin' = FALSE /\ stdout' = FALSE /\ fromSidecar' = <<>>
  /\ Throw("stopped")
  /\ UNCHANGED <<call, cancel, held, launches, destroying, aborted, signal,
                 toSidecar, worker, jobDir>>

\* shouldCancel() before anything is sent.
AbortedEarly ==
  /\ pc = "check" /\ proc = "up" /\ cmd \in Cancellable /\ aborted
  /\ Leave("cancelled")
  /\ UNCHANGED <<call, cancel, held, launches, destroying, aborted, proc,
                 signal, pipes, worker, jobDir>>

FoundRunning ==
  /\ pc = "check" /\ proc = "up" /\ ~(cmd \in Cancellable /\ aborted)
  /\ pc' = "write"
  /\ UNCHANGED <<call, cmd, cancel, held, result, launches, destroying,
                 aborted, proc, signal, pipes, worker, jobDir>>

\* writeLine(); a sidecar that exited since isRunning() breaks the pipe.
Write ==
  /\ pc = "write"
  /\ IF proc = "up"
       THEN /\ toSidecar' = Append(toSidecar, cmd)
            /\ pc' = "await"
            /\ UNCHANGED <<cmd, result>>
       ELSE Throw("write_failed") /\ UNCHANGED toSidecar
  /\ UNCHANGED <<call, cancel, held, launches, destroying, aborted, proc,
                 signal, stdin, stdout, fromSidecar, worker, jobDir>>

\* The host asked to stop since the job was sent: cancel it, once.
SendCancel ==
  /\ pc = "await" /\ cmd \in Cancellable /\ aborted /\ cancel = "no"
  /\ IF proc = "up"
       THEN /\ toSidecar' = Append(toSidecar, "cancel")
            /\ cancel' = "sent"
            /\ UNCHANGED <<pc, cmd, result>>
       ELSE Throw("write_failed") /\ UNCHANGED <<toSidecar, cancel>>
  /\ UNCHANGED <<call, held, launches, destroying, aborted, proc, signal,
                 stdin, stdout, fromSidecar, worker, jobDir>>

\* What the answer r of the command in hand leads to.
Accept(r) ==
  CASE cmd = "health" /\ r.ok ->
         cmd' = "status" /\ pc' = "check" /\ UNCHANGED <<result, held>>
    [] cmd = "health" /\ ~r.ok -> Leave("protocol") /\ UNCHANGED held
    [] cmd = "status" ->
         Leave(IF r.ok THEN "ok" ELSE "protocol") /\ UNCHANGED held
    [] cmd = "shutdown" ->
         pc' = "wait_exit" /\ UNCHANGED <<cmd, result, held>>
    [] cmd \in Cancellable /\ cancel = "no" -> Leave(Ok(r.ok)) /\ UNCHANGED held
    [] cmd \in Cancellable /\ cancel = "acked" ->
         Leave(CancelledAnswer(Ok(r.ok))) /\ UNCHANGED held
    [] cmd \in Cancellable /\ cancel = "sent" ->
         held' = Ok(r.ok) /\ pc' = "await_ack" /\ UNCHANGED <<cmd, result>>

\* Mutant of Receive: any line is taken for the answer.
Receive_AnyId ==
  /\ pc = "await" /\ fromSidecar # <<>>
  /\ Accept(Head(fromSidecar)) /\ UNCHANGED cancel
  /\ fromSidecar' = Tail(fromSidecar)
  /\ UNCHANGED <<call, launches, destroying, aborted, proc, signal, stdin,
                 stdout, toSidecar, worker, jobDir>>

Receive ==
  /\ pc = "await" /\ fromSidecar # <<>>
  /\ LET r == Head(fromSidecar) IN
     /\ IF r.id = cmd
          THEN Accept(r) /\ UNCHANGED cancel
          ELSE IF cancel = "sent" /\ r = [id |-> "cancel", ok |-> TRUE]
                    /\ cmd \in Cancellable
                 THEN cancel' = "acked" /\ UNCHANGED <<pc, cmd, result, held>>
                 ELSE Throw("protocol") /\ UNCHANGED <<cancel, held>>
     /\ fromSidecar' = Tail(fromSidecar)
  /\ UNCHANGED <<call, launches, destroying, aborted, proc, signal, stdin,
                 stdout, toSidecar, worker, jobDir>>

\* The acknowledgement is read too, or it would be taken for the answer of
\* the next command.
ReceiveAck ==
  /\ pc = "await_ack" /\ fromSidecar # <<>>
  /\ IF Head(fromSidecar) = [id |-> "cancel", ok |-> TRUE]
       THEN cancel' = "acked" /\ Leave(CancelledAnswer(held))
       ELSE UNCHANGED cancel /\ Leave("protocol")
  /\ fromSidecar' = Tail(fromSidecar)
  /\ UNCHANGED <<call, held, launches, destroying, aborted, proc, signal,
                 stdin, stdout, toSidecar, worker, jobDir>>

\* End of file on stdout.
StdoutClosed ==
  /\ pc \in {"await", "await_ack"} /\ fromSidecar = <<>> /\ proc # "up"
  /\ Throw("stopped")
  /\ UNCHANGED <<call, cancel, held, launches, destroying, aborted, proc,
                 signal, pipes, worker, jobDir>>

\* readLine() of a command that cannot be cancelled times out.
ReplyTimeout ==
  /\ pc = "await" /\ cmd \notin Cancellable
  /\ Throw("timeout")
  /\ UNCHANGED <<call, cancel, held, launches, destroying, aborted, proc,
                 signal, pipes, worker, jobDir>>

\* Mutant of GraceExpires: no grace period while the job runs.
GraceExpires_AfterAnswer ==
  /\ cancel = "sent" /\ pc = "await_ack" /\ Abandon(CancelledAnswer(held))
  /\ UNCHANGED <<call, cancel, held, launches, destroying, aborted, proc,
                 signal, pipes, worker, jobDir>>

\* kCancelGracePeriod has passed since the cancel, or since the answer.
GraceExpires ==
  /\ cancel = "sent"
  /\ \/ pc = "await" /\ cmd \in Cancellable /\ Abandon("cancelled")
     \/ pc = "await_ack" /\ Abandon(CancelledAnswer(held))
  /\ UNCHANGED <<call, cancel, held, launches, destroying, aborted, proc,
                 signal, pipes, worker, jobDir>>

\* The deadline of the job, which may be minutes away.
JobTimeout ==
  /\ pc = "await" /\ cmd \in Cancellable
  /\ Abandon("timeout")
  /\ UNCHANGED <<call, cancel, held, launches, destroying, aborted, proc,
                 signal, pipes, worker, jobDir>>

\* waitForExit() in shutdown() sees the sidecar exit; any exit code ends in
\* ~SidecarProcess.
SawExit ==
  /\ pc = "wait_exit" /\ proc = "exited"
  /\ proc' = "reaped" /\ destroying' = TRUE /\ pc' = "close_stdin"
  /\ UNCHANGED <<call, cmd, cancel, held, result, launches, aborted, signal,
                 pipes, worker, jobDir>>

ExitTimeout ==
  /\ pc = "wait_exit"
  /\ Abandon(result)
  /\ UNCHANGED <<call, cancel, held, launches, destroying, aborted, proc,
                 signal, pipes, worker, jobDir>>

-----------------------------------------------------------------------------
(* terminate() *)

CloseStdin ==
  /\ pc = "close_stdin"
  /\ stdin' = FALSE
  /\ pc' = IF proc = "reaped" THEN "close_all" ELSE "wait_eof"
  /\ UNCHANGED <<call, cmd, cancel, held, result, launches, destroying,
                 aborted, proc, signal, stdout, toSidecar, fromSidecar,
                 worker, jobDir>>

Waited ==
  /\ pc \in Waits /\ proc = "exited"
  /\ proc' = "reaped" /\ pc' = "close_all"
  /\ UNCHANGED <<call, cmd, cancel, held, result, launches, destroying,
                 aborted, signal, pipes, worker, jobDir>>

\* A SIGTERM changes nothing for a process that has a SIGKILL pending.
Stronger(s) == IF signal = "kill" THEN "kill" ELSE s

\* Mutant of Escalate: no SIGKILL.
Escalate_NoKill ==
  \/ pc = "wait_eof"  /\ signal' = Stronger("term") /\ pc' = "wait_term"
  \/ pc = "wait_term" /\ UNCHANGED signal /\ pc' = "close_all"

\* 250 ms after stdin was closed SIGTERM, 750 ms later SIGKILL, 250 ms later
\* the process is given up.
Escalate ==
  \/ pc = "wait_eof"  /\ signal' = Stronger("term") /\ pc' = "wait_term"
  \/ pc = "wait_term" /\ signal' = "kill" /\ pc' = "wait_kill"
  \/ pc = "wait_kill" /\ UNCHANGED signal /\ pc' = "close_all"

WaitExpires ==
  /\ Escalate
  /\ UNCHANGED <<call, cmd, cancel, held, result, launches, destroying,
                 aborted, proc, pipes, worker, jobDir>>

\* Mutant of CloseAll: only the client's end of stdin is closed.
CloseAll_StdinOnly ==
  /\ pc = "close_all"
  /\ stdin' = FALSE /\ destroying' = ~destroying
  /\ pc' = IF destroying THEN "end" ELSE "close_stdin"
  /\ UNCHANGED <<call, cmd, cancel, held, result, launches, aborted, proc,
                 signal, stdout, fromSidecar, toSidecar, worker, jobDir>>

\* closeDescriptors(); ~SidecarProcess terminates once more.
CloseAll ==
  /\ pc = "close_all"
  /\ stdin' = FALSE /\ stdout' = FALSE /\ fromSidecar' = <<>>
  /\ destroying' = ~destroying
  /\ pc' = IF destroying THEN "end" ELSE "close_stdin"
  /\ UNCHANGED <<call, cmd, cancel, held, result, launches, aborted, proc,
                 signal, toSidecar, worker, jobDir>>

\* Mutant of Retries: after any failure.
Retries_AnyFailure == call = "probe" /\ launches = 1 /\ result # "ok"

\* probeStatusWithRecovery: one more try if the sidecar had stopped.
Retries == call = "probe" /\ launches = 1 /\ result = "stopped"

End ==
  /\ pc = "end"
  /\ pc' = IF Retries THEN "launch" ELSE "returned"
  /\ UNCHANGED <<call, cmd, cancel, held, result, launches, destroying,
                 aborted, proc, signal, pipes, worker, jobDir>>

-----------------------------------------------------------------------------
(* The sidecar: its main loop takes one request at a time from stdin *)

\* A process with a pending SIGKILL executes nothing more.
Executing == proc = "up" /\ signal # "kill"

\* Anything but an inference or a shutdown, or an inference that is refused;
\* the answer has no request_id if handling the request raised an exception.
Answer ==
  /\ Executing /\ worker = "idle" /\ toSidecar # <<>>
  /\ Head(toSidecar) # "shutdown"
  /\ \E r \in Response :
       /\ \/ r.id = Head(toSidecar) /\ (r.ok => r.id # "infer")
          \/ r = [id |-> "null", ok |-> FALSE]
       /\ r.id = "cancel" => r.ok
       /\ fromSidecar' = Append(fromSidecar, r)
  /\ toSidecar' = Tail(toSidecar)
  /\ UNCHANGED <<client, proc, signal, stdin, stdout, worker, jobDir>>

StartInfer ==
  /\ Executing /\ worker = "idle" /\ toSidecar # <<>> /\ Head(toSidecar) = "infer"
  /\ worker' = "infer" /\ toSidecar' = Tail(toSidecar)
  /\ UNCHANGED <<client, proc, signal, stdin, stdout, fromSidecar, jobDir>>

\* _write_frame_blob makes the job directory if it does not exist.
WriteBlob ==
  /\ Executing /\ worker = "infer" /\ written < Blobs
  /\ dir' = "there" /\ written' = written + 1
  /\ UNCHANGED <<client, proc, signal, pipes, worker>>

EndInfer ==
  /\ Executing /\ worker = "infer"
  /\ \E ok \in BOOLEAN :
       /\ ok => written = Blobs
       /\ fromSidecar' = Append(fromSidecar, [id |-> "infer", ok |-> ok])
  /\ worker' = "idle"
  /\ UNCHANGED <<client, proc, signal, stdin, stdout, toSidecar, jobDir>>

AnswerShutdown ==
  /\ Executing /\ worker = "idle" /\ toSidecar # <<>> /\ Head(toSidecar) = "shutdown"
  /\ worker' = "bye"
  /\ toSidecar' = Tail(toSidecar)
  /\ fromSidecar' = Append(fromSidecar, [id |-> "shutdown", ok |-> TRUE])
  /\ UNCHANGED <<client, proc, signal, stdin, stdout, jobDir>>

\* After a shutdown, or at the end of stdin.
ExitMain ==
  /\ Executing
  /\ worker = "bye" \/ (worker = "idle" /\ toSidecar = <<>> /\ ~stdin)
  /\ proc' = "exited"
  /\ UNCHANGED <<client, signal, pipes, worker, jobDir>>

\* A crash, or the effect of a signal.
Die ==
  /\ proc = "up" /\ proc' = "exited"
  /\ UNCHANGED <<client, signal, pipes, worker, jobDir>>

-----------------------------------------------------------------------------

\* What the calling thread does by itself.
ClientProgress ==
  \/ Launch \/ LaunchFails
  \/ FoundStopped \/ AbortedEarly \/ FoundRunning \/ Write
  \/ SendCancel \/ Receive \/ ReceiveAck \/ StdoutClosed
  \/ SawExit \/ CloseStdin \/ Waited \/ CloseAll \/ End

\* The timeouts of at most a few seconds.
ShortTimeout == ReplyTimeout \/ GraceExpires \/ ExitTimeout \/ WaitExpires

SidecarStep ==
  \/ Answer \/ StartInfer \/ WriteBlob \/ EndInfer \/ AnswerShutdown
  \/ ExitMain \/ Die

=============================================================================
