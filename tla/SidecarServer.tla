--------------------------- MODULE SidecarServer ---------------------------
(***************************************************************************)
(* The stdio server of the sidecar (sidecar/corridorkey_sidecar/server.py) *)
(* with the parts of protocol.py its two threads share.                    *)
(*                                                                         *)
(* The main thread reads one request line at a time from stdin, handles it *)
(* and writes one response line.  A download_model request is handed to a  *)
(* worker thread, of which there is at most one; until that thread has     *)
(* been reaped the main thread only serves the commands of PollCommands    *)
(* and refuses the rest as "busy".  The threads share the stdout text      *)
(* buffer (under write_lock), file descriptor 1, which the main thread     *)
(* redirects while it runs a backend, and the set of cancelled jobs.       *)
(*                                                                         *)
(* Requests are numbered in the order the host sends them; that number     *)
(* stands for the request_id, which the host makes unique.  The pipes are  *)
(* sequences that only grow, with a read index.                            *)
(***************************************************************************)
EXTENDS Naturals, Sequences

CONSTANTS
  Jobs,         \* the job ids requests name
  Requests,     \* the requests the host sends in this instance
  MaxRequests,  \* bound on the requests the host sends
  MaxPolls      \* bound on the chunks of a download, each preceded by a poll

AllCommands == {"health", "status", "model_status", "cancel", "cancel_download",
                "download_model", "install_model", "infer", "backend",
                "shutdown", "garbage", "undecodable"}

ASSUME MaxRequestsAssumption == MaxRequests \in Nat
ASSUME MaxPollsAssumption    == MaxPolls \in Nat \ {0}

(***************************************************************************)
(* "backend" is an infer or warmup request for a backend other than stub;  *)
(* "infer" any other infer or warmup request, or an unknown command.  A    *)
(* "garbage" line is not a JSON object, so it has no request_id; an        *)
(* "undecodable" line is not even text, and readline raises on it.         *)
(***************************************************************************)
PollCommands   == {"cancel", "cancel_download", "health", "model_status", "status"}
CancelCommands == {"cancel", "cancel_download"}

\* good: the request passes decode_request, including the payload validator.
Request == [cmd : AllCommands, job : Jobs, good : BOOLEAN]

ASSUME RequestsAssumption == Requests \subseteq Request

Codes == {"ok", "cancelled", "busy", "error", "internal_error", "noise"}

\* req: the request a line answers (0: none); id: the request_id the line
\* carries (0: null).
Line  == [req : Nat, id : Nat, code : Codes]
Noise == [req |-> 0, id |-> 0, code |-> "noise"]

Threads == {"main", "worker"}

MainPcs == {"read", "handle", "enter_import", "import", "enter_run", "run",
            "write", "flush", "join", "exited"}
WorkerPcs == {"none", "started", "poll", "install", "finish",
              "write", "flush", "log", "dead"}

VARIABLES
  (* the pipes, seen from the host *)
  reqs,       \* every request line written to the sidecar's stdin
  stdinOpen,  \* the host has not closed its end of stdin
  hostReads,  \* the host has not closed its end of stdout
  (* the server process *)
  taken,      \* how many lines of reqs the main thread has read
  pc,         \* program counter of each thread
  resp,       \* the response each thread is about to write
  stopping,   \* should_shutdown of the request being handled
  exitCode,   \* what main returned
  wReq,       \* the request the worker serves
  polls,      \* chunks the worker has read
  cancelled,  \* _DOWNLOAD_CANCELLED_JOBS
  lock,       \* holder of write_lock, or "free"
  outBuf,     \* text written to sys.stdout and not flushed
  fd1,        \* where file descriptor 1 points: "pipe" or "capture"
  pipe,       \* every line that reached the host's end of stdout
  captured,   \* every line that went to the backend capture file
  (* observations the properties need, never read by the server *)
  fellBack,   \* a redirection of descriptor 1 has failed
  cancelAt    \* <<r, p>>: a cancel was accepted for download r with its worker at p

pipeVars   == <<reqs, stdinOpen, hostReads>>
workerVars == <<wReq, polls>>
outVars    == <<lock, outBuf, fd1, pipe, captured, fellBack>>
vars == <<reqs, stdinOpen, hostReads, taken, pc, resp, stopping, exitCode,
          wReq, polls, cancelled, lock, outBuf, fd1, pipe, captured,
          fellBack, cancelAt>>

TypeOK ==
  /\ reqs \in Seq(Request)
  /\ stdinOpen \in BOOLEAN
  /\ hostReads \in BOOLEAN
  /\ taken \in 0 .. Len(reqs)
  /\ pc \in [Threads -> MainPcs \cup WorkerPcs]
  /\ pc["main"] \in MainPcs
  /\ pc["worker"] \in WorkerPcs
  /\ resp \in [Threads -> Line]
  /\ stopping \in BOOLEAN
  /\ exitCode \in {0, 1}
  /\ wReq \in 0 .. taken
  /\ polls \in 0 .. MaxPolls
  /\ cancelled \subseteq Jobs
  /\ lock \in Threads \cup {"free"}
  /\ outBuf \in Seq(Line)
  /\ fd1 \in {"pipe", "capture"}
  /\ pipe \in Seq(Line)
  /\ captured \in Seq(Line)
  /\ fellBack \in BOOLEAN
  /\ cancelAt \subseteq Nat \X WorkerPcs

-----------------------------------------------------------------------------
(* Helpers *)

\* The request_id a response to request r carries: null for a line that is
\* not a JSON object, or when an exception escaped the handler.
EchoedId(r, code) ==
  IF reqs[r].cmd = "garbage" \/ code = "internal_error" THEN 0 ELSE r

Answer(r, code) == [req |-> r, id |-> EchoedId(r, code), code |-> code]

\* Thread t has a response to write and goes on at "write".
Respond(t, r, code) ==
  /\ resp' = [resp EXCEPT ![t] = Answer(r, code)]
  /\ pc' = [pc EXCEPT ![t] = "write"]

Alive == pc["main"] # "exited"

\* Thread.is_alive(): started, and its function has not returned.
WorkerAlive == pc["worker"] \notin {"none", "dead"}

Answered(r) == \E i \in 1 .. Len(pipe) : pipe[i].req = r

\* sys.stdout.flush(): the buffered text goes where descriptor 1 points.
\* A closed pipe raises and the text is lost.
FlushStdout ==
  /\ outBuf' = <<>>
  /\ pipe' = IF fd1 = "pipe" /\ hostReads THEN pipe \o outBuf ELSE pipe
  /\ captured' = IF fd1 = "capture" THEN captured \o outBuf ELSE captured

FlushFails == fd1 = "pipe" /\ ~hostReads

Init ==
  /\ reqs = <<>> /\ stdinOpen = TRUE /\ hostReads = TRUE
  /\ taken = 0
  /\ pc = [t \in Threads |-> IF t = "main" THEN "read" ELSE "none"]
  /\ resp = [t \in Threads |-> Noise]
  /\ stopping = FALSE /\ exitCode = 0
  /\ wReq = 0 /\ polls = 0 /\ cancelled = {}
  /\ lock = "free" /\ outBuf = <<>> /\ fd1 = "pipe"
  /\ pipe = <<>> /\ captured = <<>>
  /\ fellBack = FALSE /\ cancelAt = {}

-----------------------------------------------------------------------------
(* The host's end of the two pipes *)

HostSend(rq) ==
  /\ stdinOpen /\ Len(reqs) < MaxRequests
  /\ reqs' = Append(reqs, rq)
  /\ UNCHANGED <<stdinOpen, hostReads, taken, pc, resp, stopping, exitCode,
                 workerVars, cancelled, outVars, cancelAt>>

HostCloseStdin ==
  /\ stdinOpen
  /\ stdinOpen' = FALSE
  /\ UNCHANGED <<reqs, hostReads, taken, pc, resp, stopping, exitCode,
                 workerVars, cancelled, outVars, cancelAt>>

\* The host dies, or stops reading and closes stdout (and with it stdin).
HostGone ==
  /\ hostReads
  /\ hostReads' = FALSE /\ stdinOpen' = FALSE
  /\ UNCHANGED <<reqs, taken, pc, resp, stopping, exitCode,
                 workerVars, cancelled, outVars, cancelAt>>

-----------------------------------------------------------------------------
(* The main thread *)

StartsWorker_EvenIfOneRuns(cmd) == cmd = "download_model"

\* A worker is started only when there is none, whatever the line holds
\* besides its command.
StartsWorker(cmd) == cmd = "download_model" /\ ~WorkerAlive

Refused_SecondDownloadOnly(cmd) == WorkerAlive /\ cmd = "download_model"
Refused_ServesBackend(cmd) == WorkerAlive /\ cmd \notin PollCommands \cup {"backend"}

\* While async_download is set, only the commands of PollCommands are served.
Refused(cmd) == WorkerAlive /\ cmd \notin PollCommands

LaunchWorker_NoContinue(r) ==
  /\ pc' = [pc EXCEPT !["worker"] = "started", !["main"] = "handle"]
  /\ wReq' = r
  /\ UNCHANGED resp

\* The worker thread gets the line and the loop continues with the next one.
LaunchWorker(r) ==
  /\ pc' = [pc EXCEPT !["worker"] = "started"]
  /\ wReq' = r
  /\ UNCHANGED resp

\* One turn of the loop in main up to the dispatch: read a line, reap a
\* finished worker, then start a worker, refuse as busy, or handle.
MainRead ==
  LET r   == taken + 1
      cmd == reqs[r].cmd
  IN /\ pc["main"] = "read" /\ taken < Len(reqs)
     /\ cmd # "undecodable"
     /\ taken' = r
     /\ \/ StartsWorker(cmd) /\ LaunchWorker(r)
        \/ Refused(cmd) /\ Respond("main", r, "busy") /\ UNCHANGED wReq
        \/ /\ ~StartsWorker(cmd) /\ ~Refused(cmd)
           /\ pc' = [pc EXCEPT !["main"] = "handle",
                               !["worker"] = IF WorkerAlive THEN @ ELSE "none"]
           /\ UNCHANGED <<resp, wReq>>
     /\ UNCHANGED <<pipeVars, stopping, exitCode, polls, cancelled, outVars, cancelAt>>

\* readline raises (text not yet read is not UTF-8): main returns 1.
MainReadFails ==
  /\ pc["main"] = "read"
  /\ \E r \in taken + 1 .. Len(reqs) : reqs[r].cmd = "undecodable"
  /\ pc' = [pc EXCEPT !["main"] = "exited"]
  /\ exitCode' = 1
  /\ UNCHANGED <<pipeVars, taken, resp, stopping, workerVars, cancelled, outVars, cancelAt>>

\* readline returns "": leave the loop and join a worker that still runs.
MainEndOfInput ==
  /\ pc["main"] = "read" /\ taken = Len(reqs) /\ ~stdinOpen
  /\ pc' = [pc EXCEPT !["main"] = "join"]
  /\ UNCHANGED <<pipeVars, taken, resp, stopping, exitCode, workerVars, cancelled,
                 outVars, cancelAt>>

MainJoin_NoWait ==
  /\ pc["main"] = "join"
  /\ pc' = [pc EXCEPT !["main"] = "exited"]
  /\ exitCode' = 0
  /\ UNCHANGED <<pipeVars, taken, resp, stopping, workerVars, cancelled, outVars, cancelAt>>

MainJoin ==
  /\ pc["main"] = "join" /\ ~WorkerAlive
  /\ pc' = [pc EXCEPT !["main"] = "exited"]
  /\ exitCode' = 0
  /\ UNCHANGED <<pipeVars, taken, resp, stopping, workerVars, cancelled, outVars, cancelAt>>

-----------------------------------------------------------------------------
(* Handling a request on the main thread *)

\* The final codes a handler that changes no shared state may answer with.
Outcomes(cmd) ==
  CASE cmd = "health"                          -> {"ok"}
    [] cmd \in {"status", "model_status"}      -> {"ok", "internal_error"}
    [] cmd \in {"infer", "install_model"}      -> {"ok", "error", "internal_error"}
    [] OTHER                                   -> {"error"}

\* handle_line_with_cache for a request that does not decode or needs neither
\* a backend nor the cancel set.
HandlePlain ==
  LET rq == reqs[taken]
  IN /\ pc["main"] = "handle"
     /\ ~rq.good \/ rq.cmd \notin CancelCommands \cup {"backend", "shutdown"}
     /\ \E code \in (IF rq.good THEN Outcomes(rq.cmd) ELSE {"error"}) :
          Respond("main", taken, code)
     /\ UNCHANGED <<pipeVars, taken, stopping, exitCode, workerVars, cancelled,
                    outVars, cancelAt>>

HandleCancel ==
  LET rq == reqs[taken]
  IN /\ pc["main"] = "handle"
     /\ rq.good /\ rq.cmd \in CancelCommands
     /\ cancelled' = cancelled \cup {rq.job}
     /\ cancelAt' = IF WorkerAlive /\ reqs[wReq].job = rq.job
                    THEN cancelAt \cup {<<wReq, pc["worker"]>>}
                    ELSE cancelAt
     /\ Respond("main", taken, "ok")
     /\ UNCHANGED <<pipeVars, taken, stopping, exitCode, workerVars, outVars>>

HandleShutdown ==
  LET rq == reqs[taken]
  IN /\ pc["main"] = "handle"
     /\ rq.good /\ rq.cmd = "shutdown"
     /\ stopping' = TRUE
     /\ Respond("main", taken, "ok")
     /\ UNCHANGED <<pipeVars, taken, exitCode, workerVars, cancelled, outVars, cancelAt>>

HandleBackend ==
  LET rq == reqs[taken]
  IN /\ pc["main"] = "handle"
     /\ rq.good /\ rq.cmd = "backend"
     /\ pc' = [pc EXCEPT !["main"] = "enter_import"]
     /\ UNCHANGED <<pipeVars, taken, resp, stopping, exitCode, workerVars, cancelled,
                    outVars, cancelAt>>

PointFd1AtCapture_PythonOnly == UNCHANGED <<fd1, fellBack>>

\* dup2 of a temporary file over descriptor 1; when a call fails, only
\* Python-level output is redirected.
PointFd1AtCapture ==
  \E ok \in BOOLEAN :
    /\ fd1' = IF ok THEN "capture" ELSE fd1
    /\ fellBack' = (fellBack \/ ~ok)

\* _capture_backend_stdout, entry: flush, then redirect.
Redirect ==
  /\ pc["main"] \in {"enter_import", "enter_run"}
  /\ FlushStdout
  /\ PointFd1AtCapture
  /\ pc' = [pc EXCEPT !["main"] = IF @ = "enter_import" THEN "import" ELSE "run"]
  /\ UNCHANGED <<pipeVars, taken, resp, stopping, exitCode, workerVars, cancelled,
                 lock, cancelAt>>

\* Native code of the backend prints a line straight to descriptor 1.
BackendPrints ==
  /\ pc["main"] \in {"import", "run"}
  /\ Noise \notin {pipe[i] : i \in 1 .. Len(pipe)} \cup {captured[i] : i \in 1 .. Len(captured)}
  /\ IF fd1 = "capture"
     THEN captured' = Append(captured, Noise) /\ UNCHANGED pipe
     ELSE pipe' = (IF hostReads THEN Append(pipe, Noise) ELSE pipe) /\ UNCHANGED captured
  /\ UNCHANGED <<pipeVars, taken, pc, resp, stopping, exitCode, workerVars, cancelled,
                 lock, outBuf, fd1, fellBack, cancelAt>>

\* Exit of the capture around the import of the adapter, which may fail, and
\* around the backend call: flush while still redirected, then restore.
Restore ==
  /\ pc["main"] \in {"import", "run"}
  /\ FlushStdout
  /\ fd1' = "pipe"
  /\ \/ /\ pc["main"] = "import"
        /\ pc' = [pc EXCEPT !["main"] = "enter_run"]
        /\ UNCHANGED resp
     \/ /\ pc["main"] = "import"
        /\ Respond("main", taken, "error")
     \/ /\ pc["main"] = "run"
        /\ \E code \in {"ok", "error", "internal_error"} : Respond("main", taken, code)
  /\ UNCHANGED <<pipeVars, taken, stopping, exitCode, workerVars, cancelled, lock,
                 fellBack, cancelAt>>

-----------------------------------------------------------------------------
(* _write_response, on either thread *)

\* with write_lock: outstream.write puts the line in the text buffer.
WriteLine(t) ==
  /\ Alive /\ pc[t] = "write" /\ lock = "free"
  /\ lock' = t
  /\ outBuf' = Append(outBuf, resp[t])
  /\ pc' = [pc EXCEPT ![t] = "flush"]
  /\ UNCHANGED <<pipeVars, taken, resp, stopping, exitCode, workerVars, cancelled,
                 fd1, pipe, captured, fellBack, cancelAt>>

\* outstream.flush, then the lock is released.  The main thread returns 1
\* when the write failed and 0 after a shutdown; the worker goes on to log.
FlushLine(t) ==
  /\ Alive /\ pc[t] = "flush" /\ lock = t
  /\ FlushStdout
  /\ lock' = "free"
  /\ IF t = "main"
     THEN /\ pc' = [pc EXCEPT !["main"] = IF FlushFails \/ stopping THEN "exited" ELSE "read"]
          /\ exitCode' = IF FlushFails THEN 1 ELSE 0
     ELSE pc' = [pc EXCEPT !["worker"] = "log"] /\ UNCHANGED exitCode
  /\ UNCHANGED <<pipeVars, taken, resp, stopping, workerVars, cancelled, fd1, fellBack,
                 cancelAt>>

-----------------------------------------------------------------------------
(* The download worker *)

ClearCancelled_Never(j) == UNCHANGED cancelled

\* _clear_download_cancelled and _download_cancel_requested, under their lock.
ClearCancelled(j) == cancelled' = cancelled \ {j}

CancelRequested_FirstChunkOnly(j) == j \in cancelled /\ polls = 0

CancelRequested(j) == j \in cancelled

\* handle_line_with_cache decodes the line; a valid request clears an old
\* cancel of its job before the download begins.
WorkerStart ==
  LET rq == reqs[wReq]
  IN /\ Alive /\ pc["worker"] = "started"
     /\ IF rq.good
        THEN /\ pc' = [pc EXCEPT !["worker"] = "poll"]
             /\ ClearCancelled(rq.job)
             /\ polls' = 0
             /\ UNCHANGED resp
        ELSE Respond("worker", wReq, "error") /\ UNCHANGED <<cancelled, polls>>
     /\ UNCHANGED <<pipeVars, taken, stopping, exitCode, wReq, outVars, cancelAt>>

\* The download is over with this code, held in resp until it is written.
Finish(code) ==
  /\ resp' = [resp EXCEPT !["worker"] = Answer(wReq, code)]
  /\ pc' = [pc EXCEPT !["worker"] = "finish"]

ReadsChunk_RetriesForever ==
  polls' = (IF polls < MaxPolls THEN polls + 1 ELSE 0) /\ UNCHANGED <<pc, resp>>

\* A chunk is appended to the part file and the loop polls again.
ReadsChunk == polls < MaxPolls /\ polls' = polls + 1 /\ UNCHANGED <<pc, resp>>

\* cancel_requested() is evaluated before each chunk is read.  A chunk that
\* is read leads to the next poll, to the install step when it was the last,
\* or to a failure.
WorkerPoll ==
  LET rq == reqs[wReq]
  IN /\ Alive /\ pc["worker"] = "poll"
     /\ IF CancelRequested(rq.job)
        THEN Finish("cancelled") /\ UNCHANGED polls
        ELSE \/ ReadsChunk
             \/ pc' = [pc EXCEPT !["worker"] = "install"] /\ UNCHANGED <<polls, resp>>
             \/ (\E code \in {"error", "internal_error"} : Finish(code)) /\ UNCHANGED polls
     /\ UNCHANGED <<pipeVars, taken, stopping, exitCode, wReq, cancelled, outVars, cancelAt>>

\* Validation and install_offline: no poll any more.
WorkerInstall ==
  /\ Alive /\ pc["worker"] = "install"
  /\ \E code \in {"ok", "error", "internal_error"} : Finish(code)
  /\ UNCHANGED <<pipeVars, taken, stopping, exitCode, workerVars, cancelled, outVars,
                 cancelAt>>

\* The finally clause of the handler.
WorkerFinish ==
  /\ Alive /\ pc["worker"] = "finish"
  /\ ClearCancelled(reqs[wReq].job)
  /\ pc' = [pc EXCEPT !["worker"] = "write"]
  /\ UNCHANGED <<pipeVars, taken, resp, stopping, exitCode, workerVars, outVars, cancelAt>>

\* _log_response after the write, then the thread function returns.
WorkerEnd ==
  /\ Alive /\ pc["worker"] = "log"
  /\ pc' = [pc EXCEPT !["worker"] = "dead"]
  /\ UNCHANGED <<pipeVars, taken, resp, stopping, exitCode, workerVars, cancelled,
                 outVars, cancelAt>>

-----------------------------------------------------------------------------
(* The specification *)

MainStep ==
  \/ MainRead \/ MainReadFails \/ MainEndOfInput \/ MainJoin
  \/ HandlePlain \/ HandleCancel \/ HandleShutdown \/ HandleBackend
  \/ Redirect \/ BackendPrints \/ Restore
  \/ WriteLine("main") \/ FlushLine("main")

WorkerStep ==
  \/ WorkerStart \/ WorkerPoll \/ WorkerInstall \/ WorkerFinish
  \/ WriteLine("worker") \/ FlushLine("worker") \/ WorkerEnd

HostStep ==
  \/ \E rq \in Requests : HostSend(rq)
  \/ HostCloseStdin \/ HostGone

\* The process has ended: the only way the system may stop.
Ended == ~Alive /\ UNCHANGED vars

Next == MainStep \/ WorkerStep \/ HostStep \/ Ended

Spec == Init /\ [][Next]_vars

\* The interpreter schedules both threads, the readers of the sidecar's pipes
\* keep draining them, and a backend call or a network read returns (each has
\* a time limit).  The host owes nothing: it may stop at any point.
FairSpec == Spec /\ WF_vars(MainStep) /\ WF_vars(WorkerStep)

-----------------------------------------------------------------------------
(* Safety *)

\* What the host asked and what came back, as Answering counts them.
Asked == [r \in 1 .. Len(reqs) |->
            IF reqs[r].cmd = "download_model" THEN "download" ELSE "serial"]
Lines == [i \in 1 .. Len(pipe) |->
            [req |-> pipe[i].req, refused |-> pipe[i].code = "busy"]]

Promise == INSTANCE Answering WITH asked <- Asked, lines <- Lines

\* The server keeps the promise of Answering: every request is answered once,
\* by whichever thread, in turn unless it is a download, and is refused only on
\* account of a download that was accepted.
KeepsPromise == Promise!Spec

\* No request is answered twice, whichever thread answers it: a download is
\* answered by the worker alone although the main thread read its line.
OneAnswerEach ==
  \A i, j \in 1 .. Len(pipe) : pipe[i].req = pipe[j].req /\ pipe[i].req # 0 => i = j

\* A response of the worker never ends up in the file that captures a
\* backend's output: the main thread redirects descriptor 1 only while no
\* worker can be writing.
NothingSwallowed == \A i \in 1 .. Len(captured) : captured[i] = Noise

\* What the host reads on stdout is protocol lines only, unless descriptor 1
\* could not be redirected around the backend.
PipeIsClean == (\E i \in 1 .. Len(pipe) : pipe[i] = Noise) => fellBack

\* While a download runs the main thread neither runs a backend nor
\* installs a model: both write what the worker writes.
Occupied == \/ pc["main"] \in {"enter_import", "import", "enter_run", "run"}
            \/ pc["main"] = "handle" /\ reqs[taken].cmd \in {"install_model", "infer", "shutdown"}

DownloadRunsAlone == Occupied => ~WorkerAlive

\* A cancel accepted while the download still polls takes effect: the
\* download does not go on to install the model and answer ok.
CancelInTimeHonoured ==
  \A i \in 1 .. Len(pipe) : <<pipe[i].req, "poll">> \in cancelAt => pipe[i].code # "ok"

\* A cancel is scoped to the download it was sent for: a download answers
\* cancelled only if a cancel of its job was accepted while it ran, so a
\* cancel that came before, or that belongs to an earlier download with the
\* same job id, does not poison it.
CancelledOnlyIfAsked ==
  \A i \in 1 .. Len(pipe) :
    pipe[i].code = "cancelled" => \E p \in WorkerPcs : <<pipe[i].req, p>> \in cancelAt

\* When the server exits with code 0, every request it read has been answered
\* on the pipe, and no download was abandoned half way.
CleanExit ==
  ~Alive /\ exitCode = 0 /\ hostReads =>
    /\ ~WorkerAlive
    /\ \A r \in 1 .. taken : Answered(r)

-----------------------------------------------------------------------------
(* Liveness *)

\* Every request the host has sent is answered, unless the host stops reading
\* or the server exits first.
EveryRequestAnswered ==
  \A r \in 1 .. MaxRequests :
    (r <= Len(reqs)) ~> (Answered(r) \/ ~hostReads \/ ~Alive)

\* Closing stdin ends the server, a running download included.
EndOfInputEndsServer == ~stdinOpen ~> ~Alive

-----------------------------------------------------------------------------
(* A statement of the repository the code does not keep *)

\* cancel_download answers download_status "cancelled": a cancel accepted
\* before the download has read its last chunk stops the download, which then
\* does not install the model and answer ok.
AcceptedCancelCancels ==
  \A i \in 1 .. Len(pipe) :
    (\E p \in {"started", "poll"} : <<pipe[i].req, p>> \in cancelAt) => pipe[i].code # "ok"

=============================================================================
