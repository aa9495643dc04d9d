----------------------------- MODULE OfxRender -----------------------------
(***************************************************************************)
(* An action of the OFX plugin (src/ofx/OfxRender.cpp) together with the   *)
(* call into the sidecar it makes: a render of a keyed frame               *)
(* (renderInferOutputMode), a render of the runtime status (output mode    *)
(* 5), or the warmup button (runWarmup).                                   *)
(*                                                                         *)
(* The output image is a sequence of rows, each of which holds what the    *)
(* host put there, the keyed frame or the status frame.  The host allows   *)
(* one render at a time (kOfxImageEffectRenderUnsafe) and may ask to abort *)
(* it at any time.                                                         *)
(***************************************************************************)
EXTENDS SidecarClient

CONSTANT Rows   \* rows of the render window

ASSUME RowsAssumption == Rows \in Nat \ {0}

VARIABLES
  step,    \* where the plugin is
  row,     \* the next row to be written
  output   \* what the rows of the output image hold

host == <<step, row, output>>
vars == <<sidecarVars, host>>

Steps == {"begin", "inputs", "calling", "readback", "writeback",
          "fail", "leave", "done"}

TypeOK ==
  /\ ClientTypeOK
  /\ step \in Steps
  /\ row \in 1 .. Rows + 1
  /\ output \in [1 .. Rows -> {"host", "frame", "status"}]

Init ==
  /\ ClientInit
  /\ step = "begin" /\ row = 1 /\ output = [r \in 1 .. Rows |-> "host"]

AllRows(what) == [r \in 1 .. Rows |-> what]

\* The plugin goes on, outside of a call.
Goto(s) ==
  /\ step' = s
  /\ UNCHANGED <<client, proc, signal, pipes, worker>>

-----------------------------------------------------------------------------

\* The status render and the warmup call the sidecar at once; runWarmup
\* returns if the host has aborted already.
StartCall ==
  /\ step = "begin"
  /\ \/ Begin("probe")
     \/ ~aborted /\ Begin("warmup")
  /\ step' = "calling"
  /\ UNCHANGED <<aborted, jobDir, row, output>>

WarmupAborted ==
  /\ step = "begin" /\ aborted
  /\ Goto("done")
  /\ UNCHANGED <<jobDir, row, output>>

\* "frame blob write" of the abort poller, then the job directory.
StartRender ==
  /\ step = "begin"
  /\ IF aborted THEN Goto("fail") /\ UNCHANGED dir
                ELSE Goto("inputs") /\ dir' = "there"
  /\ UNCHANGED <<written, row, output>>

\* The two input frame blobs; aborted or failed at any point of them.
InputsFail ==
  /\ step = "inputs"
  /\ Goto("fail")
  /\ UNCHANGED <<jobDir, row, output>>

CallInfer ==
  /\ step = "inputs" /\ ~aborted
  /\ Begin("infer")
  /\ step' = "calling"
  /\ UNCHANGED <<aborted, jobDir, row, output>>

\* What the call returned decides which frame is shown.
CallReturns ==
  /\ step = "calling" /\ pc = "returned"
  /\ CASE call = "infer"  -> /\ Goto(IF result = "ok" THEN "readback" ELSE "fail")
                             /\ UNCHANGED output
       [] call = "probe"  -> Goto("done") /\ output' = AllRows("status")
       [] call = "warmup" -> Goto("done") /\ UNCHANGED output
  /\ UNCHANGED <<jobDir, row>>

\* The output blobs are read and validated before a row is written; reading
\* them may fail.
ReadBack ==
  /\ step = "readback" /\ ~aborted
  /\ \/ dir = "there" /\ written = Blobs /\ Goto("writeback")
     \/ Goto("fail")
  /\ UNCHANGED <<jobDir, row, output>>

\* The abort poller throws RenderCancelled: between the values of the blobs
\* and between the rows.
AbortPolled ==
  /\ step \in {"readback", "writeback"} /\ aborted
  /\ step = "writeback" => row <= Rows
  /\ Goto("fail")
  /\ UNCHANGED <<jobDir, row, output>>

WriteRow ==
  /\ step = "writeback" /\ row <= Rows
  /\ output' = [output EXCEPT ![row] = "frame"]
  /\ row' = row + 1
  /\ Goto("writeback")
  /\ UNCHANGED jobDir

WriteEnds ==
  /\ step = "writeback" /\ row > Rows
  /\ Goto("leave")
  /\ UNCHANGED <<jobDir, row, output>>

\* Mutant of FailureFrame: an aborted render leaves the output as it is.
FailureFrame_NotWhenAborted ==
  /\ step = "fail"
  /\ output' = IF aborted THEN output ELSE AllRows("status")
  /\ Goto("leave")
  /\ UNCHANGED <<jobDir, row>>

\* The status frame is drawn over the whole window, without polling.
FailureFrame ==
  /\ step = "fail"
  /\ output' = AllRows("status")
  /\ Goto("leave")
  /\ UNCHANGED <<jobDir, row>>

\* ~TempDir
RemoveDir ==
  /\ step = "leave"
  /\ dir' = IF dir = "there" THEN "removed" ELSE dir
  /\ Goto("done")
  /\ UNCHANGED <<written, row, output>>

\* The host's abort() is true from now on.
HostAborts ==
  /\ ~aborted /\ aborted' = TRUE
  /\ UNCHANGED <<call, pc, cmd, cancel, held, result, launches, destroying,
                 proc, signal, pipes, worker, jobDir, host>>

-----------------------------------------------------------------------------

PluginStep ==
  \/ StartCall \/ WarmupAborted \/ StartRender \/ InputsFail \/ CallInfer
  \/ CallReturns \/ ReadBack \/ AbortPolled \/ WriteRow \/ WriteEnds
  \/ FailureFrame \/ RemoveDir

CallStep == step = "calling" /\ ClientProgress /\ UNCHANGED host
Timeout  == step = "calling" /\ ShortTimeout /\ UNCHANGED host
Deadline == step = "calling" /\ JobTimeout /\ UNCHANGED host
Sidecar  == SidecarStep /\ UNCHANGED host

Next == PluginStep \/ CallStep \/ Timeout \/ Deadline \/ Sidecar \/ HostAborts

Spec == Init /\ [][Next]_vars

\* The rendering thread runs, clocks advance; the sidecar owes nothing.
\* The deadline of a job is minutes away and not waited for.
FairSpec ==
  /\ Spec
  /\ WF_vars(PluginStep) /\ WF_vars(CallStep) /\ WF_vars(Timeout)

-----------------------------------------------------------------------------
(* Safety *)

\* The render window never shows a mixture: when the render ends, every row is
\* of the keyed frame or every row is of the status frame, wherever an abort
\* came.
OutputNeverMixed ==
  step = "leave" => output \in {AllRows("frame"), AllRows("status")}

\* The removed job directory is not made again by a sidecar that is still
\* writing its outputs (_write_frame_blob makes the directory it writes to).
RemovedDirStaysRemoved == step = "done" => dir # "there"

\* A call that has returned has left nothing behind: its pipes are closed,
\* and its sidecar has been waited for or has been sent a SIGKILL.
NothingLeftBehind ==
  pc \in {"end", "returned"} =>
    /\ ~stdin /\ ~stdout
    /\ proc \in {"none", "reaped"} \/ signal = "kill"

\* An inference is reported successful only when all of its output frame
\* blobs are in the job directory, and never after a cancel was sent for it.
SuccessIsDelivered ==
  call = "infer" /\ result = "ok" =>
    dir # "none" /\ written = Blobs /\ cancel = "no"

\* The client waits for the sidecar to exit only when the sidecar has taken
\* the shutdown: the late answer of a command that timed out is not mistaken
\* for the shutdown's.
ExitIsUnderWay ==
  pc = "wait_exit" => worker = "bye" \/ proc # "up"

\* A probe launches a second sidecar only when the first one had stopped, and
\* no third one.
RetriesOnlyStopped ==
  [][launches' > launches /\ launches # 0 =>
       launches = 1 /\ result = "stopped" /\ (proc # "up" \/ signal = "kill")]_vars

\* The action as its host sees it.
Phase ==
  CASE step \in {"begin", "inputs"}       -> "before"
    [] step = "calling"                   -> "calling"
    [] step \in {"readback", "writeback"} -> "drawing"
    [] step = "fail"                      -> "failed"
    [] step = "leave"                     -> "drawn"
    [] step = "done"                      -> "over"

Shows(rows) ==
  IF \E what \in {"host", "frame", "status"} : rows = AllRows(what) THEN rows[1] ELSE "mixture"

Host == INSTANCE Rendering
          WITH phase <- Phase, job <- dir, outputs <- written = Blobs, picture <- Shows(output)

\* However the sidecar behaves, dies or lingers, an action is one Rendering:
\* its frame is drawn only after a call that has delivered it, an abort or an
\* error in the middle of it ends in a whole status frame, and nothing is
\* delivered once the call is over, to a directory that is gone least of all.
RendersOneFrame == Host!Spec

-----------------------------------------------------------------------------
(* Liveness *)

\* The plugin returns to the host, even if the sidecar hangs: the only wait
\* that does not end within seconds is for the answer of a job that the host
\* has not asked to abort.
PluginReturns ==
  <>(step = "done") \/ <>[](pc = "await" /\ cmd \in Cancellable /\ ~aborted)

-----------------------------------------------------------------------------
(* A statement of the repository the code does not keep *)

\* "one sidecar crash during status should recover"
\* (tests/cpp/test_sidecar_failure.cpp:271): a probe does not return after
\* the crash of the only sidecar it launched.
OneCrashRecovers ==
  pc = "returned" /\ call = "probe" /\ launches = 1 =>
    result \notin {"stopped", "write_failed"}

=============================================================================
