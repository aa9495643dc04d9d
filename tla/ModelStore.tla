----------------------------- MODULE ModelStore -----------------------------
(***************************************************************************)
(* The model manager of the sidecar                                        *)
(* (sidecar/corridorkey_sidecar/model_manager.py): the download of a model *)
(* package into .downloads/<digest of the URL>, its installation into      *)
(* <model_id>/<version>, and what the status commands read from both.      *)
(*                                                                         *)
(* One process at a time downloads or installs (the server sees to that    *)
(* within a process); it may be killed between any two file operations and *)
(* started again, and finds on disk what it left.  The source is a         *)
(* manifest and its files, which its owner may replace, together or one at *)
(* a time, while they are being read.                                      *)
(*                                                                         *)
(* A file is the sequence of its chunks, a chunk the content version it is *)
(* from and its position; a file that does not exist is the empty one,     *)
(* which no validation accepts either.  Checksums are taken to be          *)
(* injective.  There is one source URL and one model_id and version.       *)
(*                                                                         *)
(* A test package has a marker file beside its files, which is copied with *)
(* them: it admits fixture manifests past the gate of tests, and limits    *)
(* the size of the files under any gate.                                   *)
(***************************************************************************)
EXTENDS Naturals, Sequences

CONSTANTS
  Versions,   \* content versions of the package
  Fixtures,   \* the versions that are test packages: their manifest says so, and
              \* they are published with a marker
  Large,      \* the versions with a file of more than MAX_FIXTURE_FILE_BYTES
  NFiles,     \* expected_files of every manifest
  Chunks,     \* chunks of every file
  MaxFaults   \* bound on faults: crashes, errors, cancels, publications

ASSUME VersionsAssumption == Versions \subseteq Nat \ {0} /\ Versions # {}
ASSUME FixturesAssumption == Fixtures \subseteq Versions /\ Large \subseteq Versions
ASSUME NFilesAssumption   == NFiles \in Nat \ {0}
ASSUME ChunksAssumption   == Chunks \in Nat \ {0}
ASSUME FaultsAssumption   == MaxFaults \in Nat

Files   == 1 .. NFiles
Chunk   == Versions \X Files \X (1 .. Chunks)
Schemes == {"file", "http_range", "http_plain"}
Gates   == {"local_development", "fixture_only"}
None    == 0

\* What the manifest of v says file f holds.
Good(v, f) == [i \in 1 .. Chunks |-> <<v, f, i>>]

VARIABLES
  (* the source *)
  scheme,      \* the URL is a file, or a server that does or does not do ranges
  manifestV,   \* version of the manifest served
  filesV,      \* version of the files served, the marker among them
  gate,        \* usage_mode of the model source gate, for good
  (* the process *)
  pc,          \* "off", "idle", or the next file operation
  mv,          \* the manifest in memory
  file,        \* the expected file being downloaded or copied
  retried,     \* retry_corrupt has been used up for that file
  origin,      \* what is installed: the "download" or an offline "package"
  cancel,      \* cancel_requested()
  answer,      \* result of the last download or install
  (* the disk *)
  dlManifest,  \* manifest in the download root
  marker,      \* there is a marker in the download root
  part,        \* .part files
  final,       \* downloaded files
  state,       \* download-state.json
  fresh,       \* it was written less than STALE_DOWNLOAD_SECONDS ago
  tManifest,   \* manifest in the install target
  tMarker,     \* there is a marker in the install target
  tFiles,      \* files in the install target
  (* observations *)
  faults,      \* faults so far
  disturbed,   \* the source was inconsistent, changed or dropped during this download
  hadModel,    \* an install has succeeded
  cutShort,    \* the last install was killed or failed half way
  abandoned    \* a download ended without recording how

source  == <<scheme, manifestV, filesV, gate>>
target  == <<tManifest, tMarker, tFiles>>
history == <<hadModel, cutShort>>
locals  == <<mv, file, retried, cancel>>
vars == <<source, pc, locals, origin, answer, dlManifest, marker, part,
          final, state, fresh, target, faults, disturbed, history, abandoned>>

DownloadPcs == {"manifest", "marker", "announce", "open", "read", "check", "validate"}
InstallPcs  == {"wipe", "copy_manifest", "copy_marker", "copy", "verify"}
Pcs == {"off", "idle", "clean"} \cup DownloadPcs \cup InstallPcs

Contents == [Files -> UNION {[1 .. n -> Chunk] : n \in 0 .. Chunks}]

TypeOK ==
  /\ scheme \in Schemes /\ manifestV \in Versions /\ filesV \in Versions
  /\ gate \in Gates
  /\ pc \in Pcs
  /\ mv \in Versions \cup {None}
  /\ file \in Files
  /\ retried \in BOOLEAN /\ cancel \in BOOLEAN
  /\ origin \in {"download", "package"}
  /\ answer \in {"none", "ready", "cancelled", "checksum_mismatch", "failed",
                 "blocked", "internal_error"}
  /\ dlManifest \in Versions \cup {None}
  /\ marker \in BOOLEAN /\ tMarker \in BOOLEAN
  /\ part \in Contents /\ final \in Contents /\ tFiles \in Contents
  /\ state \in {"none", "torn", "downloading", "cancelled", "retryable_failure", "blocked"}
  /\ fresh \in BOOLEAN
  /\ tManifest \in Versions \cup {None}
  /\ faults \in 0 .. MaxFaults
  /\ {disturbed, hadModel, cutShort, abandoned} \subseteq BOOLEAN

-----------------------------------------------------------------------------
(* Helpers *)

NoFiles == [f \in Files |-> <<>>]

\* What allows_manifest lets in, given its marker.
Allowed == IF gate = "local_development" THEN Versions ELSE Fixtures

\* allows_manifest
GateAllows(v, marked) == gate = "local_development" \/ (marked /\ v \in Fixtures)

\* _validate_fixture_constraints: a marked directory has no file over the limit.
FixtureLimit(v, marked) == ~ (marked /\ v \in Large)

\* _validate_files
Whole(contents, v) == v # None /\ \A f \in Files : contents[f] = Good(v, f)

\* An error the environment causes; each uses one of MaxFaults.
Fault   == faults < MaxFaults /\ faults' = faults + 1
NoFault == faults' = faults

\* _write_download_state: an error leaves the old file or an unreadable one,
\* and is ignored.
WriteState(s) ==
  \/ state' = s /\ fresh' = TRUE /\ abandoned' = FALSE
  \/ faults < MaxFaults /\ state' \in {state, "torn"} /\ abandoned' = TRUE /\ UNCHANGED fresh

\* The download_status that a failure is recorded as.
StateOf(code) == IF code \in {"cancelled", "blocked"} THEN code ELSE "retryable_failure"

\* The call is over, and what it kept in its locals; the next download is a
\* job of its own, whose cancel mark is not set.
Returns(code) ==
  /\ answer' = code /\ pc' = "idle"
  /\ mv' = None /\ file' = 1 /\ retried' = FALSE /\ cancel' = FALSE

Fail_NotPersisted(code) ==
  /\ Returns(code)
  /\ UNCHANGED <<state, fresh, abandoned>>

\* The download ends: the error becomes a result, which is persisted.
Fail(code) ==
  /\ WriteState(StateOf(code))
  /\ Returns(code)

\* Nothing is answered or recorded yet.
Goes(next) == pc' = next /\ UNCHANGED <<answer, state, fresh, abandoned>>

\* What _latest_download_state reports.
LatestDownload ==
  CASE state \in {"none", "torn"}        -> "not_started"
    [] state = "downloading" /\ ~fresh   -> "retryable_failure"
    [] OTHER                             -> state

StatusReady ==
  /\ GateAllows(tManifest, tMarker) /\ FixtureLimit(tManifest, tMarker)
  /\ Whole(tFiles, tManifest)

\* download_status of the status command.
ReportedDownload ==
  IF tManifest = None THEN LatestDownload
  ELSE IF ~StatusReady THEN "not_started"
  ELSE IF LatestDownload \in {"cancelled", "downloading", "retryable_failure"}
       THEN LatestDownload
       ELSE "ready"

Init ==
  /\ scheme \in Schemes
  /\ manifestV \in Versions /\ filesV = manifestV /\ gate \in Gates
  /\ pc = "idle" /\ mv = None /\ file = 1 /\ retried = FALSE
  /\ origin = "download" /\ cancel = FALSE /\ answer = "none"
  /\ dlManifest = None /\ marker = FALSE /\ part = NoFiles /\ final = NoFiles
  /\ state = "none" /\ fresh = TRUE
  /\ tManifest = None /\ tMarker = FALSE /\ tFiles = NoFiles
  /\ faults = 0 /\ disturbed = FALSE /\ hadModel = FALSE /\ cutShort = FALSE
  /\ abandoned = FALSE

-----------------------------------------------------------------------------
(* download_model *)

StartDownload_ClearsTarget ==
  /\ pc = "idle"
  /\ pc' = "manifest" /\ origin' = "download" /\ answer' = "none"
  /\ disturbed' = (manifestV # filesV)
  /\ tManifest' = None /\ tMarker' = FALSE /\ tFiles' = NoFiles
  /\ UNCHANGED <<source, locals, dlManifest, marker, part, final, state, fresh,
                 faults, history, abandoned>>

\* A download_model request of a new job, whose cancel mark is cleared.
StartDownload ==
  /\ pc = "idle"
  /\ pc' = "manifest" /\ origin' = "download" /\ answer' = "none"
  /\ disturbed' = (manifestV # filesV)
  /\ UNCHANGED <<source, locals, dlManifest, marker, part, final, state, fresh,
                 target, faults, history, abandoned>>

\* A poll that finds the download cancelled, or an OSError of the step.
StopsHere ==
  \/ cancel /\ NoFault /\ Fail("cancelled")
  \/ ~cancel /\ Fault /\ Fail("failed")

\* An exception that download_model does not handle (http.client.HTTPException)
\* ends the request, and nothing is recorded.
Escape ==
  /\ scheme # "file" /\ Fault
  /\ Returns("internal_error") /\ abandoned' = TRUE
  /\ UNCHANGED <<state, fresh>>

\* The first poll, the fetch of the manifest and its copy in the download root.
FetchManifest ==
  /\ pc = "manifest"
  /\ \/ (StopsHere \/ (~cancel /\ Escape)) /\ UNCHANGED dlManifest
     \/ /\ ~cancel /\ NoFault
        /\ mv' = manifestV /\ dlManifest' = manifestV
        /\ Goes("marker") /\ UNCHANGED <<file, retried, cancel>>
  /\ UNCHANGED <<source, origin, marker, part, final, target, disturbed, history>>

\* Who opens the marker for writing and is stopped leaves an empty one, which is none.
MarkerCutShort == marker' \in IF pc = "marker" THEN {marker, FALSE} ELSE {marker}

\* The marker of the source is copied into the download root; where there is none,
\* or it cannot be read, one that is there already stays.
FetchMarker ==
  /\ pc = "marker"
  /\ \/ Escape /\ UNCHANGED marker
     \/ /\ filesV \in Fixtures /\ NoFault
        /\ marker' = TRUE /\ Goes("announce") /\ UNCHANGED locals
     \/ /\ (filesV \notin Fixtures /\ NoFault) \/ Fault
        /\ Goes("announce") /\ UNCHANGED <<marker, locals>>
     \/ filesV \in Fixtures /\ Fault /\ MarkerCutShort /\ Fail("failed")
  /\ UNCHANGED <<source, origin, dlManifest, part, final, target, disturbed, history>>

\* The gate, and the first "downloading" state.
Announce ==
  /\ pc = "announce" /\ NoFault
  /\ \/ ~GateAllows(mv, marker) /\ Fail("blocked")
     \/ /\ GateAllows(mv, marker)
        /\ WriteState("downloading") /\ pc' = "open"
        /\ UNCHANGED <<answer, locals>>
  /\ UNCHANGED <<source, origin, dlManifest, marker, part, final, target,
                 disturbed, history>>

\* The checksum of the .part file is the one of the manifest.
PartIsGood == part[file] = Good(mv, file)

\* part.replace(final), the state of the file done, and on to the next.
FinishFile ==
  /\ PartIsGood /\ NoFault
  /\ final' = [final EXCEPT ![file] = part[file]]
  /\ part' = [part EXCEPT ![file] = <<>>]
  /\ WriteState("downloading")
  /\ retried' = FALSE
  /\ IF file < NFiles THEN file' = file + 1 /\ pc' = "open"
                      ELSE file' = file /\ pc' = "validate"
  /\ UNCHANGED <<answer, mv, cancel>>

\* What is left of the .part file when the transfer starts: a file source is
\* read on from its length, a server may resume there, refuse a range past
\* the end (416: the part is deleted), or send everything again.
Resumed ==
  CASE scheme = "file"       -> part[file]
    [] scheme = "http_range" -> IF Len(part[file]) < Chunks THEN part[file] ELSE <<>>
    [] OTHER                 -> <<>>

\* _download_expected_file and the start of _copy_url_to_part.
OpenFile ==
  /\ pc = "open"
  /\ \/ FinishFile
     \/ /\ ~PartIsGood
        /\ \/ (StopsHere \/ (~cancel /\ Escape)) /\ UNCHANGED part
           \/ /\ ~cancel /\ NoFault
              /\ part' = [part EXCEPT ![file] = Resumed]
              /\ Goes("read") /\ UNCHANGED locals
        /\ UNCHANGED final
  /\ UNCHANGED <<source, origin, dlManifest, marker, target, disturbed, history>>

\* One turn of the copy loop: poll, read, write.  A server that closes the
\* connection ends the file early.
ReadChunk ==
  /\ pc = "read"
  /\ \/ (StopsHere \/ (~cancel /\ Escape)) /\ UNCHANGED <<part, disturbed>>
     \/ /\ ~cancel /\ Len(part[file]) < Chunks /\ NoFault
        /\ part' = [part EXCEPT ![file] = Append(@, <<filesV, file, Len(@) + 1>>)]
        /\ Goes("read") /\ UNCHANGED <<disturbed, locals>>
     \/ /\ ~cancel
        /\ \/ Len(part[file]) >= Chunks /\ NoFault /\ UNCHANGED disturbed
           \/ scheme # "file" /\ Fault /\ disturbed' = TRUE
        /\ Goes("check") /\ UNCHANGED <<part, locals>>
  /\ UNCHANGED <<source, origin, dlManifest, marker, final, target, history>>

DropCorrupt_Kept == part

\* part_path.unlink()
DropCorrupt == [part EXCEPT ![file] = <<>>]

MayRetry_Never == FALSE

\* retry_corrupt
MayRetry == ~retried

\* The checksum of the part: finish the file, or discard it and try once more.
CheckFile ==
  /\ pc = "check"
  /\ \/ FinishFile
     \/ /\ ~PartIsGood /\ NoFault
        /\ part' = DropCorrupt
        /\ \/ /\ MayRetry /\ Goes("open")
              /\ retried' = TRUE /\ UNCHANGED <<mv, file, cancel>>
           \/ ~MayRetry /\ Fail("checksum_mismatch")
        /\ UNCHANGED final
     \/ Fault /\ Fail("failed") /\ UNCHANGED <<part, final>>
  /\ UNCHANGED <<source, origin, dlManifest, marker, target, disturbed, history>>

\* _validate_fixture_constraints and _validate_files on the download root, by
\* download_model and again, after the gate, by install_offline.
Validate ==
  /\ pc = "validate" /\ NoFault
  /\ IF ~FixtureLimit(mv, marker) THEN Fail("failed")
     ELSE IF ~Whole(final, mv) THEN Fail("checksum_mismatch")
     ELSE Goes("wipe") /\ UNCHANGED locals
  /\ UNCHANGED <<source, origin, dlManifest, marker, part, final, target,
                 disturbed, history>>

-----------------------------------------------------------------------------
(* install_offline *)

StartInstall_NoGate(v, whole) ==
  /\ pc = "idle"
  /\ origin' = "package"
  /\ \/ ~whole /\ answer' = "checksum_mismatch" /\ UNCHANGED <<pc, mv>>
     \/ whole /\ answer' = "none" /\ pc' = "wipe" /\ mv' = v
  /\ UNCHANGED <<source, file, retried, cancel, dlManifest, marker, part, final, state, fresh,
                 target, faults, disturbed, history, abandoned>>

\* An install_model request for a package directory, up to its validation; the
\* directory of a test package has the marker.
StartInstall(v, whole) ==
  /\ pc = "idle"
  /\ origin' = "package"
  /\ \/ /\ ~GateAllows(v, v \in Fixtures)
        /\ answer' = "blocked" /\ UNCHANGED <<pc, mv>>
     \/ /\ GateAllows(v, v \in Fixtures)
        /\ \/ /\ ~FixtureLimit(v, v \in Fixtures)
              /\ answer' = "failed" /\ UNCHANGED <<pc, mv>>
           \/ /\ FixtureLimit(v, v \in Fixtures) /\ ~whole
              /\ answer' = "checksum_mismatch" /\ UNCHANGED <<pc, mv>>
           \/ /\ FixtureLimit(v, v \in Fixtures) /\ whole
              /\ answer' = "none" /\ pc' = "wipe" /\ mv' = v
  /\ UNCHANGED <<source, file, retried, cancel, dlManifest, marker, part, final, state, fresh,
                 target, faults, disturbed, history, abandoned>>

\* install_offline returns a failure, which a download records.
InstallAnswers(code) ==
  IF origin = "download" THEN Fail(code)
  ELSE Returns(code) /\ UNCHANGED <<state, fresh, abandoned>>

\* An OSError half way.
InstallFails ==
  /\ pc \in InstallPcs \ {"verify"} /\ Fault
  /\ cutShort' = TRUE
  /\ InstallAnswers("failed")
  /\ UNCHANGED <<source, origin, dlManifest, marker, part, final,
                 target, disturbed, hadModel>>

\* rmtree of the target removes one entry after another.
WipeItem ==
  /\ pc = "wipe"
  /\ \/ tManifest # None /\ tManifest' = None /\ UNCHANGED <<tMarker, tFiles>>
     \/ tMarker /\ tMarker' = FALSE /\ UNCHANGED <<tManifest, tFiles>>
     \/ \E f \in Files : /\ tFiles[f] # <<>>
                         /\ tFiles' = [tFiles EXCEPT ![f] = <<>>]
                         /\ UNCHANGED <<tManifest, tMarker>>
  /\ UNCHANGED <<source, pc, locals, origin, answer, dlManifest, marker, part,
                 final, state, fresh, faults, disturbed, history, abandoned>>

Wiped_ManifestOnly == tManifest = None

\* rmtree has removed all of the target.
Wiped == tManifest = None /\ ~tMarker /\ tFiles = NoFiles

\* The target is there again, empty.
WipeDone ==
  /\ pc = "wipe" /\ Wiped
  /\ pc' = "copy_manifest"
  /\ UNCHANGED <<source, locals, origin, answer, dlManifest, marker, part,
                 final, state, fresh, target, faults, disturbed, history, abandoned>>

\* The manifest comes first.
CopyManifest ==
  /\ pc = "copy_manifest"
  /\ tManifest' = mv /\ pc' = "copy_marker"
  /\ UNCHANGED <<source, locals, origin, answer, dlManifest, marker, part, final,
                 state, fresh, tMarker, tFiles, faults, disturbed, history, abandoned>>

\* What is installed has a marker.
SourceMarker == IF origin = "download" THEN marker ELSE mv \in Fixtures

CopyMarker ==
  /\ pc = "copy_marker"
  /\ tMarker' = SourceMarker /\ file' = 1 /\ pc' = "copy"
  /\ UNCHANGED <<source, mv, retried, origin, cancel, answer, dlManifest, marker, part, final,
                 state, fresh, tManifest, tFiles, faults, disturbed, history, abandoned>>

\* What is copied: the downloaded file, or that of the package just validated.
SourceFile == IF origin = "download" THEN final[file] ELSE Good(mv, file)

\* What copy2 has written after its next write: opening the file truncates it.
Copied == (Len(tFiles[file]) % Chunks) + 1

\* copy2 of one expected file, chunk by chunk.
CopyChunk ==
  /\ pc = "copy"
  /\ tFiles' = [tFiles EXCEPT ![file] = SubSeq(SourceFile, 1, Copied)]
  /\ IF Copied < Chunks THEN UNCHANGED <<file, pc>>
     ELSE IF file < NFiles THEN file' = file + 1 /\ UNCHANGED pc
     ELSE pc' = "verify" /\ UNCHANGED file
  /\ UNCHANGED <<source, mv, retried, origin, cancel, answer, dlManifest, marker, part, final,
                 state, fresh, tManifest, tMarker, faults, disturbed, history, abandoned>>

\* status() of the installed model, whose result decides the answer.
Verify ==
  /\ pc = "verify" /\ NoFault
  /\ \/ /\ StatusReady
        /\ hadModel' = TRUE /\ cutShort' = FALSE
        /\ IF origin = "download" THEN Goes("clean") /\ UNCHANGED locals
                                  ELSE InstallAnswers("ready")
     \/ ~StatusReady /\ InstallAnswers("failed") /\ UNCHANGED history
  /\ UNCHANGED <<source, origin, dlManifest, marker, part, final,
                 target, disturbed>>

\* rmtree of the download root, its errors ignored.
Clean ==
  /\ pc = "clean"
  /\ Returns("ready")
  /\ \/ /\ dlManifest' = None /\ marker' = FALSE /\ part' = NoFiles /\ final' = NoFiles
        /\ state' = "none" /\ NoFault /\ abandoned' = FALSE
     \/ /\ Fault /\ abandoned' = TRUE
        /\ UNCHANGED <<dlManifest, marker, part, final, state>>
  /\ UNCHANGED <<source, origin, fresh, target, disturbed, history>>

-----------------------------------------------------------------------------
(* The environment *)

\* A cancel request for this download arrives at the server.
CancelDownload ==
  /\ pc \in DownloadPcs /\ ~cancel /\ Fault
  /\ cancel' = TRUE
  /\ UNCHANGED <<source, pc, mv, file, retried, origin, answer, dlManifest, marker, part, final,
                 state, fresh, target, disturbed, history, abandoned>>

\* The sidecar is killed: only the disk is left.
Crash ==
  /\ pc # "off" /\ Fault
  /\ pc' = "off"
  /\ cutShort' = (cutShort \/ pc \in InstallPcs)
  /\ abandoned' = (abandoned \/ pc # "idle")
  /\ MarkerCutShort
  /\ mv' = None /\ file' = 1 /\ retried' = FALSE /\ cancel' = FALSE
  /\ origin' = "download" /\ answer' = "none"
  /\ UNCHANGED <<source, dlManifest, part,
                 final, state, fresh, target, disturbed, hadModel>>

\* The next sidecar.
Restart ==
  /\ pc = "off"
  /\ pc' = "idle"
  /\ UNCHANGED <<source, locals, origin, answer, dlManifest, marker, part, final,
                 state, fresh, target, faults, disturbed, history, abandoned>>

\* The owner of the package replaces its manifest, its files, or both.
Publish(v) ==
  /\ Fault /\ disturbed' = TRUE
  /\ manifestV' \in {manifestV, v} /\ filesV' \in {filesV, v}
  /\ UNCHANGED <<scheme, gate>>
  /\ source' # source
  /\ UNCHANGED <<pc, locals, origin, answer, dlManifest, marker, part,
                 final, state, fresh, target, history, abandoned>>

\* STALE_DOWNLOAD_SECONDS pass without a new state.
Expire ==
  /\ state = "downloading" /\ fresh
  /\ fresh' = FALSE
  /\ UNCHANGED <<source, pc, locals, origin, answer, dlManifest, marker, part,
                 final, state, target, faults, disturbed, history, abandoned>>

-----------------------------------------------------------------------------
(* The specification *)

DownloadStep ==
  FetchManifest \/ FetchMarker \/ Announce \/ OpenFile \/ ReadChunk \/ CheckFile \/ Validate

InstallStep ==
  InstallFails \/ WipeItem \/ WipeDone \/ CopyManifest \/ CopyMarker \/ CopyChunk \/ Verify
  \/ Clean

Next ==
  \/ StartDownload \/ DownloadStep \/ InstallStep
  \/ \E v \in Versions, whole \in BOOLEAN : StartInstall(v, whole)
  \/ CancelDownload \/ Crash \/ Restart \/ Expire
  \/ \E v \in Versions : Publish(v)

Spec == Init /\ [][Next]_vars

\* A download that was begun goes on, a sidecar that died is started again,
\* and the user asks for the model until it is there.
Fairness ==
  /\ WF_vars(DownloadStep \/ InstallStep) /\ WF_vars(Restart)
  /\ SF_vars(StartDownload)

FairSpec == Spec /\ Fairness

-----------------------------------------------------------------------------
(* Safety *)

\* Whatever was published, resumed, cancelled or killed in between, the
\* manifest in the install target stands beside files that hold what it says,
\* or a beginning of that: never those of another version.
TargetNeverMixed ==
  tManifest # None =>
    \A f \in Files : tFiles[f] = SubSeq(Good(tManifest, f), 1, Len(tFiles[f]))

\* A download leaves a model that was installed alone until it has all of the
\* new one: once an install has succeeded the model is ready, unless one is
\* being installed or was cut short.
ModelSurvives ==
  hadModel => StatusReady \/ pc \in InstallPcs \/ cutShort

\* No .part file an earlier download left, whatever it holds, makes a download
\* fail its checksum: it does so only when the source was inconsistent,
\* changed or closed a connection during that very download.
HealthyDownloadSucceeds ==
  origin = "download" /\ answer = "checksum_mismatch" => disturbed

\* The state file says "downloading" when no download runs only if the last
\* one was killed or could not record its end.
NoPhantomDownload == pc = "idle" /\ state = "downloading" => abandoned

\* A version the gate blocks is never installed.
GateHolds == tManifest # None => tManifest \in Allowed

-----------------------------------------------------------------------------
(* The inductive invariant of the safety properties *)

\* Past the gate the manifest in memory is an allowed one, and what is installed
\* has been validated against it, its size against the marker.
LoadedInv ==
  /\ pc \in DownloadPcs \cup {"clean"} => origin = "download"
  /\ pc \in DownloadPcs \ {"manifest"} => mv \in Versions
  /\ pc \in {"open", "read", "check", "validate"} => GateAllows(mv, marker)
  /\ pc \in {"open", "read", "check", "validate", "clean"} \cup InstallPcs => mv \in Allowed
  /\ pc \in InstallPcs => GateAllows(mv, SourceMarker) /\ FixtureLimit(mv, SourceMarker)
  /\ pc \in InstallPcs /\ origin = "download" => Whole(final, mv)

\* How far the install target is; what stands there has no file over the limit.
CopyInv ==
  /\ tManifest # None => FixtureLimit(tManifest, tMarker)
  /\ pc = "copy_manifest" => tManifest = None /\ tFiles = NoFiles
  /\ pc \in {"copy_manifest", "copy_marker"} => ~tMarker
  /\ pc = "copy_marker" => tFiles = NoFiles
  /\ pc \in {"copy_marker", "copy", "verify"} => tManifest = mv
  /\ pc \in {"copy", "verify"} => tMarker = SourceMarker
  /\ pc = "copy" => \A f \in Files : f < file => tFiles[f] = Good(mv, f)
  /\ pc = "verify" => Whole(tFiles, mv)

\* A state "downloading" that no running download has written is one whose
\* download left no record of its end.
RecordInv ==
  pc \in {"idle", "off"} \/ (origin = "package" /\ pc \in InstallPcs) =>
    (state = "downloading" => abandoned)

\* How far a download is from an undisturbed source: the manifest in memory is
\* the one of the files served, the files before this one are what it says, and
\* a .part file begun after retry_corrupt is a beginning of what it says.
HealthyInv ==
  /\ pc \in {"off", "idle", "manifest", "marker", "announce"} => file = 1 /\ ~retried
  /\ pc \in DownloadPcs /\ ~disturbed =>
       /\ manifestV = filesV
       /\ pc # "manifest" => mv = manifestV
       /\ pc \in {"open", "read", "check"} =>
            \A f \in Files : f < file => final[f] = Good(mv, f)
       /\ pc \in {"open", "read", "check"} /\ retried =>
            part[file] = SubSeq(Good(mv, file), 1, Len(part[file]))
       /\ pc = "check" /\ retried => PartIsGood
       /\ pc = "validate" => Whole(final, mv)

\* What a call shows from outside: it has said nothing yet, the new model is not
\* whole before its last chunk, and stays whole until the call has answered.
CallInv ==
  /\ pc \notin {"idle"} => answer = "none"
  /\ pc = "copy" => /\ Len(tFiles[file]) < Chunks
                    /\ \A f \in Files : file < f => tFiles[f] = <<>>
  /\ pc = "clean" => StatusReady /\ tManifest = mv

StoreInv ==
  /\ TypeOK
  /\ LoadedInv
  /\ CopyInv
  /\ RecordInv
  /\ GateHolds
  /\ TargetNeverMixed
  /\ ModelSurvives
  /\ HealthyInv
  /\ HealthyDownloadSucceeds
  /\ CallInv

-----------------------------------------------------------------------------
(* The abstract specification *)

Model == IF StatusReady THEN tManifest ELSE None

Stage ==
  CASE pc \in {"idle", "off"}                     -> "idle"
    [] pc \in DownloadPcs                         -> "reading"
    [] pc \in InstallPcs \ {"verify"}              -> "replacing"
    [] pc \in {"verify", "clean"}                 -> "replaced"

Incoming == IF pc \in InstallPcs \cup {"clean"} THEN mv ELSE None

Place == INSTANCE Installed
           WITH allowed <- Allowed, model <- Model, stage <- Stage, incoming <- Incoming

\* However a package is downloaded, resumed, copied or killed on the way, who
\* asks for the status of the model sees it replaced, if at all, by a whole
\* allowed one: a call that was refused, cancelled or failed a checksum has left
\* the model alone, one that says "ready" has put the new one in its place, and
\* a model that is there goes only to make room for another.
ReplacesModels == Place!Spec

-----------------------------------------------------------------------------
(* Liveness *)

\* Asking again is enough, but for one leftover: once faults have ceased, a
\* consistent and allowed source is installed whatever .part files, finished
\* files, records and targets were left on disk; unless the download root has the
\* marker of a test package and the source a file over the limit of test packages.
\* The marker may be that of an earlier version at the same URL: nothing removes
\* it but a download that succeeds.
RetryInstalls ==
  \/ <>[](manifestV # filesV \/ manifestV \notin Allowed)
  \/ <>[](marker /\ manifestV \in Large)
  \/ []<>(StatusReady /\ tManifest = manifestV)

-----------------------------------------------------------------------------
(* A statement of the repository the code does not keep *)

\* "model status preserves active downloading state"
\* (sidecar/tests/test_model_download.py:598): while the files of a package
\* are being downloaded and that has been recorded, status reports the
\* download as downloading.
ActiveDownloadIsReported ==
  pc \in {"open", "read", "check"} => ReportedDownload = "downloading"

=============================================================================
