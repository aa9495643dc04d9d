-------------------------- MODULE ModelStoreProofs --------------------------
(***************************************************************************)
(* StoreInv is an inductive invariant of ModelStore: for any versions, any *)
(* gate, any number of files and chunks, and any number of faults, what is *)
(* installed is of one allowed version, a model survives every download    *)
(* that does not reach its installation, and no record is left of a        *)
(* download that goes on.  With it ModelStore implements Installed.        *)
(*                                                                         *)
(* The types come first, because they alone say that a file is a sequence; *)
(* each further part of the invariant then has a lemma of its own, by the  *)
(* actions that can disturb it.                                            *)
(***************************************************************************)
EXTENDS ModelStore, TLAPS

-----------------------------------------------------------------------------
(* Files as sequences *)

FileContents == UNION {[1 .. n -> Chunk] : n \in 0 .. Chunks}

\* A file is a sequence of at most Chunks chunks.
LEMMA AFileIsASequence ==
  ASSUME NEW s
  PROVE  s \in FileContents <=> s \in Seq(Chunk) /\ Len(s) \in 0 .. Chunks
<1>1. ASSUME s \in FileContents
      PROVE  s \in Seq(Chunk) /\ Len(s) \in 0 .. Chunks
  <2>1. PICK n \in 0 .. Chunks : s \in [1 .. n -> Chunk]
    BY <1>1 DEF FileContents
  <2>2. n \in Nat
    BY <2>1, ChunksAssumption
  <2> QED BY <2>1, <2>2
<1>2. ASSUME s \in Seq(Chunk), Len(s) \in 0 .. Chunks
      PROVE  s \in FileContents
  <2>1. s \in [1 .. Len(s) -> Chunk]
    BY <1>2
  <2> QED BY <1>2, <2>1 DEF FileContents
<1> QED BY <1>1, <1>2

\* The empty file is one.
LEMMA EmptyFile == <<>> \in FileContents /\ Len(<<>>) = 0
<1>1. <<>> \in Seq(Chunk) /\ Len(<<>>) = 0 /\ 0 \in 0 .. Chunks
  BY ChunksAssumption
<1> QED BY <1>1, AFileIsASequence

\* What the manifest says is a file of all its chunks.
LEMMA GoodFile ==
  ASSUME NEW v \in Versions, NEW f \in Files
  PROVE  /\ Good(v, f) \in Seq(Chunk) /\ Len(Good(v, f)) = Chunks
         /\ Good(v, f) \in FileContents
         /\ \A n \in 0 .. Chunks :
              /\ SubSeq(Good(v, f), 1, n) \in FileContents
              /\ Len(SubSeq(Good(v, f), 1, n)) = n
         /\ SubSeq(Good(v, f), 1, Chunks) = Good(v, f)
         /\ SubSeq(Good(v, f), 1, 0) = <<>>
<1>1. Chunks \in Nat \ {0}
  BY ChunksAssumption
<1>2. \A i \in 1 .. Chunks : <<v, f, i>> \in Chunk
  BY DEF Chunk
<1>3. Good(v, f) \in Seq(Chunk) /\ Len(Good(v, f)) = Chunks
  BY <1>1, <1>2 DEF Good
<1>4. ASSUME NEW n \in 0 .. Chunks
      PROVE  /\ SubSeq(Good(v, f), 1, n) \in Seq(Chunk)
             /\ Len(SubSeq(Good(v, f), 1, n)) = n
  BY <1>1, <1>3
<1>5. SubSeq(Good(v, f), 1, Chunks) = Good(v, f) /\ SubSeq(Good(v, f), 1, 0) = <<>>
  BY <1>1, <1>3
<1>6. Good(v, f) \in FileContents
  BY <1>1, <1>3, AFileIsASequence
<1>7. \A n \in 0 .. Chunks : SubSeq(Good(v, f), 1, n) \in FileContents
  BY <1>4, AFileIsASequence
<1> QED BY <1>3, <1>4, <1>5, <1>6, <1>7

\* One more chunk of the served file.
LEMMA OneMoreChunk ==
  ASSUME NEW s \in FileContents, Len(s) < Chunks, NEW v \in Versions, NEW f \in Files
  PROVE  Append(s, <<v, f, Len(s) + 1>>) \in FileContents
<1>1. s \in Seq(Chunk) /\ Len(s) \in Nat /\ Chunks \in Nat
  BY AFileIsASequence, ChunksAssumption
<1>2. <<v, f, Len(s) + 1>> \in Chunk
  BY <1>1 DEF Chunk
<1>3. Append(s, <<v, f, Len(s) + 1>>) \in Seq(Chunk)
      /\ Len(Append(s, <<v, f, Len(s) + 1>>)) = Len(s) + 1
  BY <1>1, <1>2
<1>4. Len(Append(s, <<v, f, Len(s) + 1>>)) \in 0 .. Chunks
  BY <1>1, <1>3
<1> QED BY <1>3, <1>4, AFileIsASequence

\* A remainder is less than what it is the remainder of.
LEMMA Remainder == \A m \in Nat, k \in Nat \ {0} : m % k \in 0 .. k - 1
  OBVIOUS

\* How much of a file copy2 has written after its next write.
LEMMA CopiedRange ==
  ASSUME TypeOK
  PROVE  Copied \in 1 .. Chunks
<1>1. tFiles[file] \in FileContents /\ Chunks \in Nat \ {0}
  BY ChunksAssumption DEF TypeOK, Contents, FileContents
<1>2. Len(tFiles[file]) \in Nat
  BY <1>1, AFileIsASequence
<1>3. Len(tFiles[file]) % Chunks \in 0 .. Chunks - 1
  BY <1>1, <1>2, Remainder
<1>4. \A m \in 0 .. Chunks - 1 : m + 1 \in 1 .. Chunks
  BY <1>1
<1> QED BY <1>3, <1>4 DEF Copied

-----------------------------------------------------------------------------
(* Types *)

Answers == {"none", "ready", "cancelled", "checksum_mismatch", "failed", "blocked",
            "internal_error"}
States  == {"none", "torn", "downloading", "cancelled", "retryable_failure", "blocked"}

\* What a recorded failure changes.
LEMMA FailChanges ==
  ASSUME TypeOK, NEW code \in Answers, Fail(code)
  PROVE  /\ state' \in States \ {"downloading"} \/ abandoned' = TRUE
         /\ state' \in States /\ fresh' \in BOOLEAN /\ abandoned' \in BOOLEAN
         /\ answer' = code /\ pc' = "idle"
         /\ mv' = None /\ file' = 1 /\ retried' = FALSE /\ cancel' = FALSE
<1>1. StateOf(code) \in States \ {"downloading"}
  BY DEF StateOf, States
<1>2. /\ state' \in States \ {"downloading"} \/ abandoned' = TRUE
      /\ state' \in States /\ fresh' \in BOOLEAN /\ abandoned' \in BOOLEAN
  BY <1>1 DEF Fail, WriteState, TypeOK, States
<1> QED BY <1>2 DEF Fail, Returns

\* The first file, and no file.
LEMMA FirstFile == 1 \in Files /\ None \notin Versions /\ NoFiles \in Contents
<1>1. 1 \in Files
  BY NFilesAssumption DEF Files
<1>2. NoFiles \in [Files -> FileContents]
  BY EmptyFile DEF NoFiles
<1>3. None \notin Versions
  BY VersionsAssumption DEF None
<1> QED BY <1>1, <1>2, <1>3 DEF Contents, FileContents

\* The gate lets versions in, and stays what it is.
LEMMA AllowedVersions == Allowed \subseteq Versions
  BY FixturesAssumption DEF Allowed

LEMMA GateIsFixed ==
  ASSUME [Next]_vars
  PROVE  gate' = gate /\ Allowed' = Allowed
<1>1. CASE DownloadStep
  BY <1>1 DEF DownloadStep, FetchManifest, FetchMarker, Announce, OpenFile, ReadChunk, CheckFile,
              Validate, source, Allowed
<1>2. CASE InstallStep
  BY <1>2 DEF InstallStep, InstallFails, WipeItem, WipeDone, CopyManifest, CopyMarker, CopyChunk,
              Verify, Clean, source, Allowed
<1>3. CASE StartDownload \/ \E v \in Versions, whole \in BOOLEAN : StartInstall(v, whole)
  BY <1>3 DEF StartDownload, StartInstall, source, Allowed
<1>4. CASE \/ CancelDownload \/ Crash \/ Restart \/ Expire
           \/ (\E v \in Versions : Publish(v)) \/ UNCHANGED vars
  BY <1>4 DEF CancelDownload, Crash, Restart, Expire, Publish, vars, source, Allowed
<1> QED BY <1>1, <1>2, <1>3, <1>4 DEF Next

\* The variables few steps write keep their types.
LEMMA HistoryTypes ==
  ASSUME TypeOK, [Next]_vars
  PROVE  /\ scheme' \in Schemes /\ manifestV' \in Versions /\ filesV' \in Versions
         /\ gate' \in Gates
         /\ origin' \in {"download", "package"}
         /\ faults' \in 0 .. MaxFaults
         /\ {disturbed', hadModel', cutShort'} \subseteq BOOLEAN
<1>1. MaxFaults \in Nat /\ faults \in 0 .. MaxFaults /\ (Fault => faults' \in 0 .. MaxFaults)
  BY FaultsAssumption DEF TypeOK, Fault
<1>2. CASE DownloadStep
  BY <1>1, <1>2 DEF TypeOK, DownloadStep, FetchManifest, FetchMarker, Announce, OpenFile,
         ReadChunk, CheckFile, Validate, StopsHere, FinishFile, Escape, NoFault, source, history
<1>3. CASE InstallStep
  BY <1>1, <1>3 DEF TypeOK, InstallStep, InstallFails, WipeItem, WipeDone, CopyManifest,
         CopyMarker, CopyChunk, Verify, Clean, NoFault, source, history
<1>4. CASE StartDownload \/ \E v \in Versions, whole \in BOOLEAN : StartInstall(v, whole)
  BY <1>4 DEF TypeOK, StartDownload, StartInstall, source, history
<1>5. CASE CancelDownload \/ Crash \/ Restart \/ Expire
  BY <1>1, <1>5 DEF TypeOK, CancelDownload, Crash, Restart, Expire, source, history
<1>6. CASE \E v \in Versions : Publish(v)
  BY <1>1, <1>6 DEF TypeOK, Publish, history
<1>7. CASE UNCHANGED vars
  BY <1>7 DEF TypeOK, vars, source, history
<1>8. gate' \in Gates
  BY GateIsFixed DEF TypeOK
<1> QED BY <1>2, <1>3, <1>4, <1>5, <1>6, <1>7, <1>8 DEF Next

\* Where the process is and what it keeps in its locals.
CallTypes ==
  /\ pc \in Pcs /\ mv \in Versions \cup {None} /\ file \in Files
  /\ retried \in BOOLEAN /\ cancel \in BOOLEAN
  /\ answer \in Answers /\ state \in States
  /\ fresh \in BOOLEAN /\ abandoned \in BOOLEAN

LEMMA CallTypesKept ==
  ASSUME TypeOK, [Next]_vars
  PROVE  CallTypes'
<1>t. CallTypes
  BY DEF TypeOK, CallTypes, Answers, States
<1>p. /\ DownloadPcs \cup InstallPcs \cup {"off", "idle", "clean"} \subseteq Pcs
      /\ {"cancelled", "failed", "blocked", "checksum_mismatch", "ready", "none",
          "internal_error"} \subseteq Answers
      /\ {"downloading", "torn", "none"} \subseteq States
  BY DEF Pcs, Answers, States
<1>f. 1 \in Files /\ NFiles \in Nat \ {0} /\ Files = 1 .. NFiles
  BY FirstFile, NFilesAssumption DEF Files
<1>1. ASSUME NEW code \in Answers, Fail(code) PROVE CallTypes'
  BY <1>1, <1>p, <1>f, FailChanges DEF CallTypes
<1>2. ASSUME StopsHere PROVE CallTypes'
  BY <1>1, <1>2, <1>p DEF StopsHere
<1>3. ASSUME NEW code \in Answers, InstallAnswers(code) PROVE CallTypes'
  BY <1>1, <1>3, <1>t, <1>p, <1>f DEF InstallAnswers, Returns, CallTypes
<1>4. ASSUME FinishFile PROVE CallTypes'
  <2>1. file' \in Files /\ pc' \in {"open", "validate"}
    BY <1>4, <1>t, <1>f DEF FinishFile, CallTypes
  <2>2. "open" \in Pcs /\ "validate" \in Pcs
    BY DEF Pcs, DownloadPcs
  <2>3. /\ retried' = FALSE /\ UNCHANGED <<answer, mv, cancel>>
        /\ state' \in States /\ fresh' \in BOOLEAN /\ abandoned' \in BOOLEAN
    BY <1>4, <1>t, <1>p DEF FinishFile, WriteState, CallTypes
  <2> QED BY <1>t, <2>1, <2>2, <2>3 DEF CallTypes
<1>5. ASSUME Escape PROVE CallTypes'
  BY <1>5, <1>t, <1>p, <1>f DEF Escape, Returns, CallTypes
<1>6. ASSUME NEW next \in DownloadPcs \cup InstallPcs \cup {"clean"}, Goes(next), UNCHANGED locals
      PROVE  CallTypes'
  BY <1>6, <1>t, <1>p DEF Goes, locals, CallTypes
<1>7. /\ {"marker", "announce", "open", "read", "check"} \subseteq DownloadPcs
      /\ {"wipe", "copy_manifest", "copy_marker", "copy", "verify"} \subseteq InstallPcs
      /\ "manifest" \in DownloadPcs
  BY DEF DownloadPcs, InstallPcs
<1>8. CASE DownloadStep
  <2>1. CASE FetchManifest
    <3>1. manifestV \in Versions
      BY DEF TypeOK
    <3> QED BY <1>2, <1>5, <1>7, <1>t, <1>p, <2>1, <3>1 DEF FetchManifest, Goes, CallTypes
  <2>7. CASE FetchMarker
    BY <1>1, <1>5, <1>6, <1>7, <1>p, <2>7 DEF FetchMarker
  <2>2. CASE Announce
    <3>1. CASE Fail("blocked")
      BY <1>1, <1>p, <3>1
    <3>2. CASE WriteState("downloading") /\ pc' = "open" /\ UNCHANGED <<answer, locals>>
      BY <1>7, <1>t, <1>p, <3>2 DEF WriteState, locals, CallTypes
    <3> QED BY <2>2, <3>1, <3>2 DEF Announce
  <2>3. CASE OpenFile
    BY <1>2, <1>4, <1>5, <1>6, <1>7, <2>3 DEF OpenFile
  <2>4. CASE ReadChunk
    BY <1>2, <1>5, <1>6, <1>7, <2>4 DEF ReadChunk
  <2>5. CASE CheckFile
    <3>1. CASE Goes("open") /\ retried' = TRUE /\ UNCHANGED <<mv, file, cancel>>
      BY <1>7, <1>t, <1>p, <3>1 DEF Goes, CallTypes
    <3> QED BY <1>1, <1>4, <1>p, <2>5, <3>1 DEF CheckFile
  <2>6. CASE Validate
    BY <1>1, <1>6, <1>7, <1>p, <2>6 DEF Validate
  <2> QED BY <1>8, <2>1, <2>2, <2>3, <2>4, <2>5, <2>6, <2>7 DEF DownloadStep
<1>9. CASE InstallStep
  <2>1. CASE InstallFails
    BY <1>3, <1>p, <2>1 DEF InstallFails
  <2>2. CASE WipeItem \/ WipeDone
    BY <1>7, <1>t, <1>p, <2>2 DEF WipeItem, WipeDone, locals, CallTypes
  <2>3. CASE CopyManifest \/ CopyMarker \/ CopyChunk
    BY <1>7, <1>t, <1>p, <1>f, <2>3 DEF CopyManifest, CopyMarker, CopyChunk, locals, CallTypes
  <2>4. CASE Verify
    BY <1>3, <1>6, <1>7, <1>p, <2>4 DEF Verify
  <2>5. CASE Clean
    BY <1>t, <1>p, <1>f, <2>5 DEF Clean, Returns, CallTypes
  <2> QED BY <1>9, <2>1, <2>2, <2>3, <2>4, <2>5 DEF InstallStep
<1>10. CASE StartDownload \/ \E v \in Versions, whole \in BOOLEAN : StartInstall(v, whole)
  BY <1>10, <1>7, <1>t, <1>p DEF StartDownload, StartInstall, locals, CallTypes
<1>11. CASE CancelDownload \/ Crash \/ Restart \/ Expire
  BY <1>11, <1>t, <1>p, <1>f DEF CancelDownload, Crash, Restart, Expire, locals, CallTypes
<1>12. CASE (\E v \in Versions : Publish(v)) \/ UNCHANGED vars
  BY <1>12, <1>t DEF Publish, vars, locals, CallTypes
<1> QED BY <1>8, <1>9, <1>10, <1>11, <1>12 DEF Next

\* What is on disk.
DiskTypes ==
  /\ dlManifest \in Versions \cup {None} /\ tManifest \in Versions \cup {None}
  /\ marker \in BOOLEAN /\ tMarker \in BOOLEAN
  /\ part \in Contents /\ final \in Contents /\ tFiles \in Contents

\* A file of a directory is replaced by another.
LEMMA FileReplaced ==
  ASSUME NEW c \in Contents, NEW f \in Files, NEW s \in FileContents
  PROVE  /\ [c EXCEPT ![f] = s] \in Contents
         /\ c[f] \in FileContents
         /\ \A g \in Files : [c EXCEPT ![f] = s][g] = IF g = f THEN s ELSE c[g]
  BY DEF Contents, FileContents

\* The file copied is the one the manifest describes.
LEMMA SourceIsGood ==
  ASSUME TypeOK, LoadedInv, pc \in InstallPcs
  PROVE  SourceFile = Good(mv, file) /\ mv \in Versions /\ file \in Files
<1>1. mv \in Versions /\ file \in Files
  BY AllowedVersions DEF TypeOK, LoadedInv
<1>2. CASE origin = "download"
  BY <1>1, <1>2 DEF LoadedInv, Whole, SourceFile
<1>3. CASE origin # "download"
  BY <1>1, <1>3 DEF SourceFile
<1> QED BY <1>1, <1>2, <1>3

LEMMA DiskTypesKept ==
  ASSUME TypeOK, LoadedInv, [Next]_vars
  PROVE  DiskTypes'
<1>t. /\ DiskTypes /\ file \in Files /\ mv \in Versions \cup {None}
      /\ manifestV \in Versions /\ filesV \in Versions
      /\ \A f \in Files : part[f] \in FileContents
  BY DEF TypeOK, DiskTypes, Contents, FileContents
<1>e. <<>> \in FileContents /\ NoFiles \in Contents
  BY EmptyFile, FirstFile
<1>1. ASSUME FinishFile PROVE part' \in Contents /\ final' \in Contents
  BY <1>1, <1>t, <1>e, FileReplaced DEF FinishFile, DiskTypes
<1>2. CASE DownloadStep
  <2>1. dlManifest' \in Versions \cup {None} /\ UNCHANGED target
    BY <1>2, <1>t DEF DownloadStep, FetchManifest, FetchMarker, Announce, OpenFile, ReadChunk,
                      CheckFile, Validate, DiskTypes
  <2>4. marker' \in BOOLEAN
    BY <1>2, <1>t DEF DownloadStep, FetchManifest, FetchMarker, Announce, OpenFile, ReadChunk,
                      CheckFile, Validate, MarkerCutShort, DiskTypes
  <2>2. final' \in Contents
    BY <1>1, <1>2, <1>t DEF DownloadStep, FetchManifest, FetchMarker, Announce, OpenFile,
                            ReadChunk, CheckFile, Validate, DiskTypes
  <2>3. part' \in Contents
    <3>1. CASE FetchManifest \/ FetchMarker \/ Announce \/ Validate
      BY <1>t, <3>1 DEF FetchManifest, FetchMarker, Announce, Validate, DiskTypes
    <3>2. CASE OpenFile
      <4>1. Resumed \in FileContents
        BY <1>t, <1>e DEF Resumed
      <4> QED BY <1>1, <1>t, <3>2, <4>1, FileReplaced DEF OpenFile, DiskTypes
    <3>3. CASE ReadChunk
      <4>1. CASE part' = part
        BY <1>t, <4>1 DEF DiskTypes
      <4>2. CASE /\ Len(part[file]) < Chunks
                 /\ part' = [part EXCEPT ![file] =
                               Append(part[file], <<filesV, file, Len(part[file]) + 1>>)]
        <5>1. Append(part[file], <<filesV, file, Len(part[file]) + 1>>) \in FileContents
          BY <1>t, <4>2, OneMoreChunk
        <5> QED BY <1>t, <4>2, <5>1, FileReplaced DEF DiskTypes
      <4> QED BY <3>3, <4>1, <4>2 DEF ReadChunk
    <3>4. CASE CheckFile
      BY <1>1, <1>t, <1>e, <3>4, FileReplaced DEF CheckFile, DropCorrupt, DiskTypes
    <3> QED BY <1>2, <3>1, <3>2, <3>3, <3>4 DEF DownloadStep
  <2> QED BY <1>t, <2>1, <2>2, <2>3, <2>4 DEF target, DiskTypes
<1>3. CASE InstallStep
  <2>1. CASE InstallFails \/ WipeDone \/ Verify
    BY <1>t, <2>1 DEF InstallFails, WipeDone, Verify, target, DiskTypes
  <2>2. CASE WipeItem
    <3>1. tFiles' \in Contents
      BY <1>t, <1>e, <2>2, FileReplaced DEF WipeItem, DiskTypes
    <3>2. UNCHANGED <<dlManifest, marker, part, final>>
      BY <2>2 DEF WipeItem
    <3>3. tManifest' \in {None, tManifest} /\ tMarker' \in {FALSE, tMarker}
      BY <2>2 DEF WipeItem
    <3> QED BY <1>t, <3>1, <3>2, <3>3 DEF DiskTypes
  <2>3. CASE CopyManifest
    BY <1>t, <2>3 DEF CopyManifest, DiskTypes
  <2>6. CASE CopyMarker
    <3>1. SourceMarker = marker \/ SourceMarker = (mv \in Fixtures)
      BY DEF SourceMarker
    <3>2. /\ tMarker' = SourceMarker
          /\ UNCHANGED <<dlManifest, tManifest, marker, part, final, tFiles>>
      BY <2>6 DEF CopyMarker
    <3>3. tMarker' \in BOOLEAN
      <4>1. (mv \in Fixtures) \in BOOLEAN
        OBVIOUS
      <4> QED BY <1>t, <3>1, <3>2, <4>1 DEF DiskTypes
    <3> QED BY <1>t, <3>2, <3>3 DEF DiskTypes
  <2>4. CASE CopyChunk
    <3>1. SubSeq(SourceFile, 1, Copied) \in FileContents
      <4>1. pc \in InstallPcs
        BY <2>4 DEF CopyChunk, InstallPcs
      <4>2. Copied \in 0 .. Chunks
        BY CopiedRange, ChunksAssumption
      <4> QED BY <4>1, <4>2, SourceIsGood, GoodFile
    <3>2. /\ tFiles' = [tFiles EXCEPT ![file] = SubSeq(SourceFile, 1, Copied)]
          /\ UNCHANGED <<dlManifest, marker, part, final, tManifest, tMarker>>
      BY <2>4 DEF CopyChunk
    <3> QED BY <1>t, <3>1, <3>2, FileReplaced DEF DiskTypes
  <2>5. CASE Clean
    BY <1>t, <1>e, <2>5 DEF Clean, target, DiskTypes
  <2> QED BY <1>3, <2>1, <2>2, <2>3, <2>4, <2>5, <2>6 DEF InstallStep
<1>4. CASE StartDownload \/ \E v \in Versions, whole \in BOOLEAN : StartInstall(v, whole)
  BY <1>4, <1>t DEF StartDownload, StartInstall, target, DiskTypes
<1>5. CASE \/ CancelDownload \/ Crash \/ Restart \/ Expire
           \/ (\E v \in Versions : Publish(v)) \/ UNCHANGED vars
  BY <1>5, <1>t DEF CancelDownload, Crash, Restart, Expire, Publish, vars, target, DiskTypes,
                    MarkerCutShort
<1> QED BY <1>2, <1>3, <1>4, <1>5 DEF Next

\* Every variable keeps its type.
LEMMA TypesKept ==
  ASSUME TypeOK, LoadedInv, [Next]_vars
  PROVE  TypeOK'
<1>1. CallTypes' /\ DiskTypes'
  BY CallTypesKept, DiskTypesKept
<1> QED BY <1>1, HistoryTypes DEF TypeOK, CallTypes, DiskTypes, Answers, States

-----------------------------------------------------------------------------
(* The parts of the invariant *)

\* The manifest in memory stays an allowed and validated one.
LEMMA LoadedKept ==
  ASSUME TypeOK, LoadedInv, [Next]_vars
  PROVE  LoadedInv'
<1> USE DEF DownloadPcs, InstallPcs
<1>c. \A code : Fail(code) \/ InstallAnswers(code) \/ Returns(code) => pc' = "idle"
  BY DEF Fail, InstallAnswers, Returns
<1>g. gate' = gate
  BY GateIsFixed
<1>1. CASE pc' \in {"idle", "off"}
  BY <1>1 DEF LoadedInv
<1>2. CASE pc' \notin {"idle", "off"}
  <2>s. ~StopsHere /\ ~Escape /\ \A code : ~Fail(code) /\ ~InstallAnswers(code) /\ ~Returns(code)
    BY <1>2, <1>c DEF StopsHere, Escape
  <2>u. ASSUME UNCHANGED <<mv, origin, marker, final>>, pc' = pc \/ {pc, pc'} \subseteq InstallPcs
        PROVE  LoadedInv'
    BY <1>g, <2>u DEF LoadedInv, GateAllows, FixtureLimit, SourceMarker, Allowed
  <2>1. CASE DownloadStep
    <3>1. CASE FetchManifest \/ FetchMarker
      BY <2>s, <3>1 DEF FetchManifest, FetchMarker, Goes, locals, LoadedInv, TypeOK
    <3>2. CASE Announce
      BY <1>g, <2>s, <3>2 DEF Announce, locals, LoadedInv, GateAllows, Allowed
    <3>3. CASE OpenFile
      BY <1>g, <2>s, <3>3 DEF OpenFile, FinishFile, Goes, locals, LoadedInv, GateAllows, Allowed
    <3>4. CASE ReadChunk
      BY <1>g, <2>s, <3>4 DEF ReadChunk, Goes, locals, LoadedInv, GateAllows, Allowed
    <3>5. CASE CheckFile
      BY <1>g, <2>s, <3>5 DEF CheckFile, FinishFile, Goes, LoadedInv, GateAllows, Allowed
    <3>6. CASE Validate
      BY <1>g, <2>s, <3>6 DEF Validate, Goes, locals, LoadedInv, GateAllows, FixtureLimit,
                              SourceMarker, Allowed
    <3> QED BY <2>1, <3>1, <3>2, <3>3, <3>4, <3>5, <3>6 DEF DownloadStep
  <2>2. CASE InstallStep
    <3>1. CASE WipeItem \/ WipeDone \/ CopyManifest \/ CopyMarker \/ CopyChunk
      BY <2>u, <3>1 DEF WipeItem, WipeDone, CopyManifest, CopyMarker, CopyChunk, locals
    <3>2. CASE Verify
      <4>1. pc' = "clean" /\ pc = "verify" /\ mv' = mv /\ origin' = origin /\ origin = "download"
        BY <2>s, <3>2 DEF Verify, Goes, locals, TypeOK
      <4> QED BY <1>g, <4>1 DEF LoadedInv, Allowed
    <3> QED BY <2>s, <2>2, <3>1, <3>2 DEF InstallStep, InstallFails, Clean
  <2>3. CASE StartDownload
    BY <2>3 DEF StartDownload, LoadedInv
  <2>4. CASE \E v \in Versions, whole \in BOOLEAN : StartInstall(v, whole)
    <3>1. PICK v \in Versions, whole \in BOOLEAN : StartInstall(v, whole)
      BY <2>4
    <3>2. /\ pc' = "wipe" /\ mv' = v /\ origin' = "package"
          /\ GateAllows(v, v \in Fixtures) /\ FixtureLimit(v, v \in Fixtures)
      BY <1>2, <3>1 DEF StartInstall
    <3>3. v \in Allowed
      BY <3>2 DEF GateAllows, Allowed
    <3> QED BY <1>g, <3>2, <3>3 DEF LoadedInv, GateAllows, FixtureLimit, SourceMarker, Allowed
  <2>5. CASE \/ CancelDownload \/ Crash \/ Restart \/ Expire
             \/ (\E v \in Versions : Publish(v)) \/ UNCHANGED vars
    BY <1>2, <2>5, <2>u DEF CancelDownload, Crash, Restart, Expire, Publish, vars, locals
  <2> QED BY <2>1, <2>2, <2>3, <2>4, <2>5 DEF Next
<1> QED BY <1>1, <1>2

\* Only an install writes the target.
LEMMA TargetWriters ==
  ASSUME [Next]_vars
  PROVE  UNCHANGED target \/ WipeItem \/ CopyManifest \/ CopyMarker \/ CopyChunk
<1>1. CASE DownloadStep
  BY <1>1 DEF DownloadStep, FetchManifest, FetchMarker, Announce, OpenFile, ReadChunk,
              CheckFile, Validate
<1>2. CASE InstallStep
  BY <1>2 DEF InstallStep, InstallFails, WipeDone, Verify, Clean
<1>3. CASE StartDownload \/ \E v \in Versions, whole \in BOOLEAN : StartInstall(v, whole)
  BY <1>3 DEF StartDownload, StartInstall
<1>4. CASE \/ CancelDownload \/ Crash \/ Restart \/ Expire
           \/ (\E v \in Versions : Publish(v)) \/ UNCHANGED vars
  BY <1>4 DEF CancelDownload, Crash, Restart, Expire, Publish, vars
<1> QED BY <1>1, <1>2, <1>3, <1>4 DEF Next

\* A marker comes to the target only with a package within its limit.
LEMMA TargetLimitKept ==
  ASSUME LoadedInv, CopyInv, [Next]_vars
  PROVE  (tManifest # None => FixtureLimit(tManifest, tMarker))'
<1>1. CASE UNCHANGED target
  BY <1>1 DEF target, CopyInv, FixtureLimit
<1>2. CASE WipeItem
  BY <1>2 DEF WipeItem, CopyInv, FixtureLimit
<1>3. CASE CopyManifest
  BY <1>3 DEF CopyManifest, CopyInv, FixtureLimit
<1>4. CASE CopyMarker
  BY <1>4 DEF CopyMarker, CopyInv, LoadedInv, InstallPcs, FixtureLimit
<1>5. CASE CopyChunk
  BY <1>5 DEF CopyChunk, CopyInv, FixtureLimit
<1> QED BY <1>1, <1>2, <1>3, <1>4, <1>5, TargetWriters

\* The copy of an install fills the target file by file.
LEMMA CopyKept ==
  ASSUME TypeOK, LoadedInv, CopyInv, [Next]_vars
  PROVE  CopyInv'
<1>l. (tManifest # None => FixtureLimit(tManifest, tMarker))'
  BY TargetLimitKept
<1>1. CASE pc' \notin InstallPcs
  BY <1>l, <1>1 DEF CopyInv, InstallPcs
<1>2. CASE pc' = "wipe"
  BY <1>l, <1>2 DEF CopyInv
<1>3. CASE WipeDone
  BY <1>l, <1>3 DEF WipeDone, Wiped, target, CopyInv
<1>4. CASE CopyManifest
  BY <1>l, <1>4 DEF CopyManifest, CopyInv, locals
<1>8. CASE CopyMarker
  <2>1. file' = 1 /\ \A f \in Files : ~(f < 1)
    BY <1>8, NFilesAssumption DEF CopyMarker, Files
  <2>2. /\ pc = "copy_marker" /\ pc' = "copy" /\ tManifest' = tManifest /\ mv' = mv
        /\ tMarker' = SourceMarker /\ SourceMarker' = SourceMarker
    BY <1>8 DEF CopyMarker, SourceMarker
  <2> QED BY <1>l, <2>1, <2>2 DEF CopyInv
<1>5. CASE CopyChunk
  <2>l. /\ (tManifest # None => FixtureLimit(tManifest, tMarker))'
        /\ tMarker' = SourceMarker'
    BY <1>l, <1>5 DEF CopyChunk, CopyInv, SourceMarker
  <2>t. /\ tManifest = mv /\ UNCHANGED <<mv, tManifest>> /\ pc = "copy"
        /\ tFiles \in Contents /\ mv \in Versions /\ mv # None
    BY <1>5, SourceIsGood, FirstFile DEF CopyChunk, CopyInv, InstallPcs, TypeOK
  <2>1. Copied \in 1 .. Chunks /\ file \in Files /\ SourceFile = Good(mv, file)
    BY <1>5, CopiedRange, SourceIsGood DEF CopyChunk, InstallPcs
  <2>2. \A g \in Files : tFiles'[g] = IF g = file THEN SubSeq(Good(mv, file), 1, Copied)
                                                   ELSE tFiles[g]
    <3>1. SubSeq(Good(mv, file), 1, Copied) \in FileContents
      BY <2>t, <2>1, GoodFile, ChunksAssumption
    <3> QED BY <1>5, <2>t, <2>1, <3>1, FileReplaced DEF CopyChunk
  <2>3. \A f \in Files : f < file => tFiles'[f] = Good(mv, f)
    BY <2>t, <2>1, <2>2 DEF CopyInv, Files
  <2>4. CASE Copied < Chunks
    BY <1>5, <2>l, <2>t, <2>3, <2>4 DEF CopyChunk, CopyInv
  <2>5. CASE ~(Copied < Chunks)
    <3>1. Copied = Chunks
      BY <2>1, <2>5, ChunksAssumption
    <3>2. tFiles'[file] = Good(mv, file)
      BY <2>t, <2>1, <2>2, <3>1, GoodFile
    <3>3. \A f \in Files : f < file + 1 => tFiles'[f] = Good(mv, f)
      BY <2>1, <2>3, <3>2 DEF Files
    <3>4. CASE file < NFiles
      BY <1>5, <2>l, <2>t, <2>5, <3>3, <3>4 DEF CopyChunk, CopyInv
    <3>5. CASE ~(file < NFiles)
      <4>1. \A f \in Files : tFiles'[f] = Good(mv, f)
        BY <2>1, <3>3, <3>5, NFilesAssumption DEF Files
      <4> QED BY <1>5, <2>l, <2>t, <2>5, <3>5, <4>1 DEF CopyChunk, CopyInv, Whole
    <3> QED BY <3>4, <3>5
  <2> QED BY <2>4, <2>5
<1>6. CASE UNCHANGED <<pc, target, mv, file, origin, marker>>
  BY <1>6 DEF CopyInv, target, Whole, FixtureLimit, SourceMarker
<1>7. \/ pc' \notin InstallPcs \/ pc' = "wipe" \/ WipeDone \/ CopyManifest \/ CopyMarker
      \/ CopyChunk \/ UNCHANGED <<pc, target, mv, file, origin, marker>>
  <2>1. CASE DownloadStep
    BY <2>1 DEF DownloadStep, FetchManifest, FetchMarker, Announce, OpenFile, ReadChunk,
                CheckFile, Validate, StopsHere, FinishFile, Escape, Fail, Goes, Returns, InstallPcs
  <2>2. CASE InstallStep
    BY <2>2 DEF InstallStep, InstallFails, WipeItem, Verify, Clean, InstallAnswers, Fail, Goes,
                Returns, InstallPcs
  <2>3. CASE StartDownload \/ \E v \in Versions, whole \in BOOLEAN : StartInstall(v, whole)
    BY <2>3 DEF StartDownload, StartInstall, InstallPcs
  <2>4. CASE \/ CancelDownload \/ Crash \/ Restart \/ Expire
             \/ (\E v \in Versions : Publish(v)) \/ UNCHANGED vars
    BY <2>4 DEF CancelDownload, Crash, Restart, Expire, Publish, vars, locals, InstallPcs
  <2> QED BY <2>1, <2>2, <2>3, <2>4 DEF Next
<1> QED BY <1>1, <1>2, <1>3, <1>4, <1>5, <1>6, <1>7, <1>8

\* Every end of a download is recorded, or known not to be.
LEMMA RecordKept ==
  ASSUME TypeOK, LoadedInv, RecordInv, [Next]_vars
  PROVE  RecordInv'
<1>c. {"cancelled", "failed", "blocked", "checksum_mismatch"} \subseteq Answers
  BY DEF Answers
<1>1. ASSUME NEW code \in Answers, Fail(code) PROVE RecordInv'
  BY <1>1, FailChanges DEF RecordInv
<1>2. ASSUME StopsHere \/ Escape PROVE RecordInv'
  BY <1>1, <1>2, <1>c DEF StopsHere, Escape, RecordInv
<1>3. ASSUME NEW code \in Answers, InstallAnswers(code), pc \in InstallPcs PROVE RecordInv'
  <2>1. CASE origin = "download"
    BY <1>1, <1>3, <2>1 DEF InstallAnswers
  <2>2. CASE origin = "package"
    BY <1>3, <2>2 DEF InstallAnswers, RecordInv
  <2> QED BY <2>1, <2>2 DEF TypeOK
<1>4. CASE DownloadStep
  <2>1. origin' = "download"
    BY <1>4 DEF DownloadStep, FetchManifest, FetchMarker, Announce, OpenFile, ReadChunk,
                CheckFile, Validate, LoadedInv, DownloadPcs
  <2>2. CASE pc' \in {"idle", "off"}
    <3>1. \/ StopsHere \/ Escape \/ Fail("blocked") \/ Fail("checksum_mismatch") \/ Fail("failed")
      BY <1>4, <2>2 DEF DownloadStep, FetchManifest, FetchMarker, Announce, OpenFile, ReadChunk,
                        CheckFile, Validate, FinishFile, Goes
    <3> QED BY <1>1, <1>2, <1>c, <3>1
  <2>3. CASE pc' \notin {"idle", "off"}
    BY <2>1, <2>3 DEF RecordInv
  <2> QED BY <2>2, <2>3
<1>5. CASE InstallStep
  <2>1. CASE WipeItem \/ WipeDone \/ CopyManifest \/ CopyMarker \/ CopyChunk
    BY <2>1 DEF WipeItem, WipeDone, CopyManifest, CopyMarker, CopyChunk, RecordInv, InstallPcs
  <2>2. CASE InstallFails
    BY <1>3, <1>c, <2>2 DEF InstallFails
  <2>3. CASE Verify
    <3>1. {"ready", "failed"} \subseteq Answers /\ pc \in InstallPcs
      BY <2>3 DEF Answers, Verify, InstallPcs
    <3>2. CASE Goes("clean")
      BY <2>3, <3>2 DEF Goes, RecordInv, InstallPcs
    <3> QED BY <1>3, <2>3, <3>1, <3>2 DEF Verify
  <2>4. CASE Clean
    BY <2>4 DEF Clean, RecordInv
  <2> QED BY <1>5, <2>1, <2>2, <2>3, <2>4 DEF InstallStep
<1>6. CASE StartDownload \/ \E v \in Versions, whole \in BOOLEAN : StartInstall(v, whole)
  BY <1>6 DEF StartDownload, StartInstall, RecordInv, InstallPcs
<1>7. CASE CancelDownload \/ Restart \/ Expire \/ (\E v \in Versions : Publish(v)) \/ UNCHANGED vars
  BY <1>7 DEF CancelDownload, Restart, Expire, Publish, vars, locals, RecordInv, DownloadPcs,
              InstallPcs
<1>8. CASE Crash
  BY <1>8 DEF Crash, RecordInv
<1> QED BY <1>4, <1>5, <1>6, <1>7, <1>8 DEF Next

\* What is written there is of one allowed manifest.
LEMMA TargetKept ==
  ASSUME TypeOK, LoadedInv, CopyInv, GateHolds, TargetNeverMixed, [Next]_vars
  PROVE  GateHolds' /\ TargetNeverMixed'
<1>g. Allowed' = Allowed
  BY GateIsFixed
<1>1. CASE UNCHANGED target
  BY <1>g, <1>1 DEF target, GateHolds, TargetNeverMixed
<1>2. CASE WipeItem
  <2>1. CASE tManifest' = None
    BY <2>1 DEF GateHolds, TargetNeverMixed
  <2>2. CASE tManifest' # None
    <3>1. /\ tManifest' = tManifest /\ tManifest \in Versions
          /\ \A f \in Files : tFiles'[f] = tFiles[f] \/ tFiles'[f] = <<>>
      BY <1>2, <2>2, FileReplaced, EmptyFile DEF WipeItem, TypeOK
    <3>2. \A f \in Files : SubSeq(Good(tManifest, f), 1, 0) = <<>> /\ Len(<<>>) = 0
      BY <3>1, GoodFile, EmptyFile
    <3>3. TargetNeverMixed'
      BY <2>2, <3>1, <3>2 DEF TargetNeverMixed
    <3> QED BY <1>g, <2>2, <3>1, <3>3 DEF GateHolds
  <2> QED BY <2>1, <2>2
<1>3. CASE CopyManifest
  <2>1. mv \in Allowed /\ mv \in Versions /\ tManifest' = mv /\ tFiles' = NoFiles
    BY <1>3, AllowedVersions DEF CopyManifest, LoadedInv, CopyInv, InstallPcs
  <2>2. \A f \in Files : /\ NoFiles[f] = <<>> /\ Len(<<>>) = 0
                         /\ SubSeq(Good(mv, f), 1, 0) = <<>>
    BY <2>1, GoodFile, EmptyFile DEF NoFiles
  <2> QED BY <1>g, <2>1, <2>2 DEF GateHolds, TargetNeverMixed
<1>5. CASE CopyMarker
  BY <1>g, <1>5 DEF CopyMarker, GateHolds, TargetNeverMixed
<1>4. CASE CopyChunk
  <2>1. /\ tManifest = mv /\ tManifest' = tManifest /\ mv \in Versions
        /\ file \in Files /\ SourceFile = Good(mv, file) /\ tFiles \in Contents
    BY <1>4, SourceIsGood DEF CopyChunk, CopyInv, InstallPcs, TypeOK
  <2>2. Copied \in 0 .. Chunks
    BY CopiedRange, ChunksAssumption
  <2>3. /\ SubSeq(Good(mv, file), 1, Copied) \in FileContents
        /\ Len(SubSeq(Good(mv, file), 1, Copied)) = Copied
    BY <2>1, <2>2, GoodFile
  <2>4. \A g \in Files : tFiles'[g] = IF g = file THEN SubSeq(Good(mv, file), 1, Copied)
                                                   ELSE tFiles[g]
    BY <1>4, <2>1, <2>3, FileReplaced DEF CopyChunk
  <2>5. TargetNeverMixed'
    BY <2>1, <2>3, <2>4 DEF TargetNeverMixed
  <2> QED BY <1>g, <2>1, <2>5 DEF GateHolds
<1> QED BY <1>1, <1>2, <1>3, <1>4, <1>5, TargetWriters

\* What has been copied is ready: it is allowed as its source was.
LEMMA VerifiedIsReady ==
  ASSUME LoadedInv, CopyInv, pc = "verify"
  PROVE  StatusReady /\ tManifest = mv
<1>1. /\ tManifest = mv /\ tMarker = SourceMarker /\ Whole(tFiles, mv)
      /\ GateAllows(mv, SourceMarker) /\ FixtureLimit(mv, SourceMarker)
  BY DEF LoadedInv, CopyInv, InstallPcs
<1> QED BY <1>1 DEF StatusReady

\* A model that was installed is there until the next install begins.
LEMMA SurvivalKept ==
  ASSUME TypeOK, LoadedInv, CopyInv, ModelSurvives, [Next]_vars
  PROVE  ModelSurvives'
<1>g. gate' = gate
  BY GateIsFixed
<1>1. CASE pc' \in InstallPcs \/ cutShort' = TRUE
  BY <1>1 DEF ModelSurvives
<1>2. CASE pc' \notin InstallPcs /\ cutShort' # TRUE
  <2>1. CASE Verify
    <3>1. StatusReady
      BY <2>1, VerifiedIsReady DEF Verify
    <3> QED BY <1>g, <2>1, <3>1 DEF Verify, target, ModelSurvives, StatusReady, GateAllows,
                                    FixtureLimit, Whole
  <2>2. CASE ~Verify
    <3>1. UNCHANGED target
      BY <1>2, TargetWriters, NFilesAssumption DEF WipeItem, CopyManifest, CopyMarker, CopyChunk,
                                                     InstallPcs
    <3>2. hadModel' = hadModel /\ pc \notin InstallPcs /\ cutShort' = cutShort
      <4>1. CASE DownloadStep
        BY <4>1 DEF DownloadStep, FetchManifest, FetchMarker, Announce, OpenFile, ReadChunk,
                    CheckFile, Validate, InstallPcs, history
      <4>2. CASE InstallStep
        BY <1>2, <2>2, <4>2 DEF InstallStep, InstallFails, WipeItem, WipeDone, CopyManifest,
                                CopyMarker, CopyChunk, Clean, InstallPcs, history
      <4>3. CASE StartDownload \/ \E v \in Versions, whole \in BOOLEAN : StartInstall(v, whole)
        BY <4>3 DEF StartDownload, StartInstall, InstallPcs, history
      <4>4. CASE Crash
        BY <1>2, <4>4 DEF Crash, TypeOK
      <4>5. CASE \/ CancelDownload \/ Restart \/ Expire
                 \/ (\E v \in Versions : Publish(v)) \/ UNCHANGED vars
        BY <1>2, <4>5 DEF CancelDownload, Restart, Expire, Publish, vars, history, InstallPcs,
                          DownloadPcs
      <4> QED BY <4>1, <4>2, <4>3, <4>4, <4>5 DEF Next
    <3> QED BY <1>g, <3>1, <3>2 DEF ModelSurvives, target, StatusReady, GateAllows, FixtureLimit,
                                    Whole
  <2> QED BY <2>1, <2>2
<1> QED BY <1>1, <1>2

\* The end of a call leaves the first file and the retry to the next one.
LEMMA NextCallIsFresh ==
  ASSUME HealthyInv, [Next]_vars, pc' \in {"idle", "off"}
  PROVE  file' = 1 /\ ~retried'
<1>c. \A code : Fail(code) \/ InstallAnswers(code) \/ Returns(code) => file' = 1 /\ ~retried'
  BY DEF Fail, InstallAnswers, Returns
<1>s. StopsHere \/ Escape => file' = 1 /\ ~retried'
  BY <1>c DEF StopsHere, Escape
<1>1. CASE DownloadStep
  BY <1>1, <1>c, <1>s DEF DownloadStep, FetchManifest, FetchMarker, Announce, OpenFile,
                          ReadChunk, CheckFile, Validate, FinishFile, Goes
<1>2. CASE InstallStep
  BY <1>2, <1>c DEF InstallStep, InstallFails, WipeItem, WipeDone, CopyManifest, CopyMarker,
                    CopyChunk, Verify, Clean, Goes
<1>3. CASE StartDownload \/ \E v \in Versions, whole \in BOOLEAN : StartInstall(v, whole)
  BY <1>3 DEF StartDownload, StartInstall, HealthyInv
<1>4. CASE Crash
  BY <1>4 DEF Crash
<1>5. CASE \/ CancelDownload \/ Restart \/ Expire
           \/ (\E v \in Versions : Publish(v)) \/ UNCHANGED vars
  BY <1>5 DEF CancelDownload, Restart, Expire, Publish, vars, locals, HealthyInv, DownloadPcs
<1> QED BY <1>1, <1>2, <1>3, <1>4, <1>5 DEF Next

\* The next chunk of the file served goes on with what the manifest says of it.
LEMMA NextGoodChunk ==
  ASSUME NEW v \in Versions, NEW f \in Files, NEW s \in FileContents, Len(s) < Chunks,
         s = SubSeq(Good(v, f), 1, Len(s))
  PROVE  LET t == Append(s, <<v, f, Len(s) + 1>>)
         IN  t = SubSeq(Good(v, f), 1, Len(t))
<1> DEFINE n == Len(s)
           t == Append(s, <<v, f, n + 1>>)
<1>1. n \in 0 .. Chunks - 1 /\ Chunks \in Nat \ {0} /\ s \in Seq(Chunk)
  BY AFileIsASequence, ChunksAssumption
<1>2. \A i \in 1 .. Chunks : <<v, f, i>> \in Chunk
  BY DEF Chunk
<1>3. Good(v, f) \in Seq(Chunk) /\ Len(Good(v, f)) = Chunks
      /\ \A i \in 1 .. Chunks : Good(v, f)[i] = <<v, f, i>>
  BY GoodFile DEF Good
<1>4. t \in Seq(Chunk) /\ Len(t) = n + 1
      /\ \A i \in 1 .. n + 1 : t[i] = IF i <= n THEN s[i] ELSE <<v, f, n + 1>>
  BY <1>1, <1>2
<1>5. \A i \in 1 .. n : s[i] = <<v, f, i>>
  <2>1. SubSeq(Good(v, f), 1, n) \in Seq(Chunk)
        /\ \A i \in 1 .. n : SubSeq(Good(v, f), 1, n)[i] = Good(v, f)[i]
    BY <1>1, <1>3
  <2> QED BY <1>1, <1>3, <2>1
<1>6. /\ SubSeq(Good(v, f), 1, n + 1) \in Seq(Chunk)
      /\ Len(SubSeq(Good(v, f), 1, n + 1)) = n + 1
      /\ \A i \in 1 .. n + 1 : SubSeq(Good(v, f), 1, n + 1)[i] = <<v, f, i>>
  BY <1>1, <1>3
<1> DEFINE u == SubSeq(Good(v, f), 1, n + 1)
<1>7. n + 1 \in Nat /\ u \in Seq(Chunk) /\ Len(u) = n + 1
  BY <1>1, <1>6
<1>8. \A i \in 1 .. n + 1 : t[i] = u[i]
  <2>1. ASSUME NEW i \in 1 .. n + 1 PROVE t[i] = u[i]
    <3>1. u[i] = <<v, f, i>>
      BY <1>6
    <3>2. i <= n => i \in 1 .. n
      BY <1>1
    <3>3. ~(i <= n) => i = n + 1
      BY <1>1
    <3> QED BY <1>4, <1>5, <3>1, <3>2, <3>3
  <2> QED BY <2>1
<1> HIDE DEF t, u
<1>9. t = u
  <2>1. t \in [1 .. n + 1 -> Chunk] /\ u \in [1 .. n + 1 -> Chunk]
    BY <1>4, <1>7
  <2> QED BY <1>8, <2>1
<1> QED BY <1>4, <1>9 DEF t, u

\* A finished file is the one the manifest says, and the next one begins its
\* own .part file.
LEMMA FinishedIsGood ==
  ASSUME TypeOK, LoadedInv, HealthyInv, FinishFile, pc \in {"open", "check"},
         UNCHANGED <<source, disturbed>>
  PROVE  HealthyInv'
<1>1. /\ final \in Contents /\ file \in Files /\ part[file] = Good(mv, file)
      /\ mv \in Versions /\ mv' = mv
  BY AllowedVersions DEF TypeOK, FinishFile, PartIsGood, LoadedInv
<1>2. Good(mv, file) \in FileContents
  BY <1>1, GoodFile
<1>3. \A g \in Files : final'[g] = IF g = file THEN Good(mv, file) ELSE final[g]
  BY <1>1, <1>2, FileReplaced DEF FinishFile
<1>4. pc' \in {"open", "validate"} /\ retried' = FALSE
  BY DEF FinishFile
<1>5. SUFFICES ASSUME ~disturbed
               PROVE  /\ manifestV = filesV /\ mv = manifestV
                      /\ pc' = "open" => \A f \in Files : f < file' => final'[f] = Good(mv, f)
                      /\ pc' = "validate" => Whole(final, mv)'
  BY <1>1, <1>4 DEF HealthyInv, source
<1>6. /\ manifestV = filesV /\ mv = manifestV
      /\ \A f \in Files : f < file => final[f] = Good(mv, f)
  BY <1>5 DEF HealthyInv, DownloadPcs
<1>7. CASE file < NFiles
  <2>1. \A f \in Files : f < file + 1 => final'[f] = Good(mv, f)
    BY <1>1, <1>3, <1>6 DEF Files
  <2> QED BY <1>6, <1>7, <2>1 DEF FinishFile
<1>8. CASE ~(file < NFiles)
  <2>1. \A f \in Files : final'[f] = Good(mv, f)
    BY <1>1, <1>3, <1>6, <1>8, NFilesAssumption DEF Files
  <2>2. mv # None
    BY <1>1, FirstFile
  <2> QED BY <1>1, <1>6, <1>8, <2>1, <2>2 DEF FinishFile, Whole
<1> QED BY <1>7, <1>8

\* An undisturbed download stays one that will pass its checks.
LEMMA HealthyKept ==
  ASSUME TypeOK, LoadedInv, HealthyInv, [Next]_vars
  PROVE  HealthyInv'
<1>d. "off" \notin DownloadPcs /\ "idle" \notin DownloadPcs
  BY DEF DownloadPcs
<1>1. CASE pc' \in {"idle", "off"}
  BY <1>1, <1>d, NextCallIsFresh DEF HealthyInv
<1>2. CASE pc' \notin DownloadPcs \cup {"idle", "off"}
  BY <1>2 DEF HealthyInv, DownloadPcs
<1>3. CASE pc' \in DownloadPcs
  <2>c. \A code : ~Fail(code) /\ ~Returns(code) /\ ~InstallAnswers(code)
    BY <1>3, <1>d DEF Fail, Returns, InstallAnswers
  <2>s. ~StopsHere /\ ~Escape
    BY <2>c DEF StopsHere, Escape
  <2>1. CASE StartDownload
    BY <2>1 DEF StartDownload, locals, source, HealthyInv
  <2>2. CASE FetchManifest
    BY <2>2, <2>s DEF FetchManifest, Goes, source, HealthyInv, DownloadPcs
  <2>10. CASE FetchMarker
    BY <2>10, <2>c, <2>s DEF FetchMarker, Goes, locals, source, HealthyInv, DownloadPcs
  <2>3. CASE Announce
    <3>1. /\ pc = "announce" /\ pc' = "open" /\ UNCHANGED <<locals, source, disturbed, final>>
          /\ file = 1 /\ ~retried
      BY <2>3, <2>c DEF Announce, HealthyInv
    <3>2. \A f \in Files : ~(f < 1)
      BY NFilesAssumption DEF Files
    <3> QED BY <3>1, <3>2 DEF locals, source, HealthyInv, DownloadPcs
  <2>4. CASE OpenFile
    <3>1. pc = "open" /\ UNCHANGED <<source, disturbed>>
      BY <2>4 DEF OpenFile
    <3>2. CASE FinishFile
      BY <3>1, <3>2, FinishedIsGood
    <3>3. CASE ~FinishFile
      <4>1. /\ pc' = "read" /\ UNCHANGED <<locals, final>>
            /\ part' = [part EXCEPT ![file] = Resumed]
        BY <2>4, <3>3, <2>s DEF OpenFile, Goes
      <4>2. /\ part \in Contents /\ file \in Files /\ mv \in Versions
            /\ Resumed \in {part[file], <<>>}
        BY <3>1, AllowedVersions DEF TypeOK, LoadedInv, Resumed
      <4>3. part'[file] \in {part[file], <<>>}
        BY <4>1, <4>2 DEF Contents
      <4>4. SubSeq(Good(mv, file), 1, Len(<<>>)) = <<>>
        BY <4>2, GoodFile, EmptyFile
      <4> QED BY <3>1, <4>1, <4>3, <4>4 DEF locals, source, HealthyInv, DownloadPcs
    <3> QED BY <3>2, <3>3
  <2>5. CASE ReadChunk
    <3>t. /\ pc = "read" /\ UNCHANGED <<source, final, locals>> /\ pc' \in {"read", "check"}
          /\ part \in Contents /\ file \in Files /\ mv \in Versions
          /\ part[file] \in FileContents
      BY <2>5, <2>s, AllowedVersions DEF ReadChunk, Goes, TypeOK, LoadedInv, Contents,
                                           FileContents
    <3>1. CASE disturbed' = TRUE
      BY <3>t, <3>1 DEF locals, HealthyInv
    <3>2. CASE pc' = "read" /\ disturbed' = disturbed
      <4>1. /\ Len(part[file]) < Chunks
            /\ part' = [part EXCEPT ![file] = Append(@, <<filesV, file, Len(@) + 1>>)]
        BY <2>5, <2>s, <3>2 DEF ReadChunk, Goes
      <4>2. part'[file] = Append(part[file], <<filesV, file, Len(part[file]) + 1>>)
        BY <3>t, <4>1 DEF Contents
      <4>3. ~disturbed /\ retried => part'[file] = SubSeq(Good(mv, file), 1, Len(part'[file]))
        <5>1. ASSUME ~disturbed, retried
              PROVE  filesV = mv /\ part[file] = SubSeq(Good(mv, file), 1, Len(part[file]))
          BY <3>t, <5>1 DEF HealthyInv, DownloadPcs
        <5> QED BY <3>t, <4>1, <4>2, <5>1, NextGoodChunk
      <4> QED BY <3>t, <3>2, <4>3 DEF locals, source, HealthyInv, DownloadPcs
    <3>3. CASE pc' = "check" /\ disturbed' = disturbed /\ disturbed' # TRUE
      <4>1. Len(part[file]) >= Chunks /\ part' = part
        BY <2>5, <2>s, <3>3 DEF ReadChunk, Goes
      <4>2. Len(part[file]) = Chunks
        BY <3>t, <4>1, AFileIsASequence, ChunksAssumption
      <4>3. SubSeq(Good(mv, file), 1, Chunks) = Good(mv, file)
        BY <3>t, GoodFile
      <4> QED BY <3>t, <3>3, <4>1, <4>2, <4>3 DEF locals, source, HealthyInv, DownloadPcs,
                                                  PartIsGood
    <3> QED BY <2>5, <2>s, <3>t, <3>1, <3>2, <3>3 DEF ReadChunk, TypeOK
  <2>6. CASE CheckFile
    <3>1. pc = "check" /\ UNCHANGED <<source, disturbed>>
      BY <2>6 DEF CheckFile
    <3>2. CASE FinishFile
      BY <3>1, <3>2, FinishedIsGood
    <3>3. CASE ~FinishFile
      <4>1. /\ pc' = "open" /\ UNCHANGED <<mv, file, final>> /\ part' = DropCorrupt
            /\ part \in Contents /\ file \in Files /\ mv \in Versions
        BY <2>6, <3>3, <2>c, AllowedVersions DEF CheckFile, Goes, TypeOK, LoadedInv
      <4>2. part'[file] = <<>>
        BY <4>1 DEF DropCorrupt, Contents
      <4>3. SubSeq(Good(mv, file), 1, Len(<<>>)) = <<>>
        BY <4>1, GoodFile, EmptyFile
      <4> QED BY <3>1, <4>1, <4>2, <4>3 DEF source, HealthyInv, DownloadPcs
    <3> QED BY <3>2, <3>3
  <2>7. CASE CancelDownload \/ Expire \/ UNCHANGED vars
    BY <2>7 DEF CancelDownload, Expire, vars, locals, source, HealthyInv, PartIsGood, Whole
  <2>8. CASE \E v \in Versions : Publish(v)
    BY <2>8 DEF Publish, locals, HealthyInv
  <2>9. CASE Validate \/ InstallStep \/ Crash \/ Restart
             \/ \E v \in Versions, whole \in BOOLEAN : StartInstall(v, whole)
    BY <1>3, <2>9, <2>c DEF Validate, Goes, InstallStep, InstallFails, WipeItem, WipeDone,
       CopyManifest, CopyMarker, CopyChunk, Verify, Clean, Crash, Restart, StartInstall, DownloadPcs
  <2> QED BY <2>1, <2>2, <2>3, <2>4, <2>5, <2>6, <2>7, <2>8, <2>9, <2>10
      DEF Next, DownloadStep
<1> QED BY <1>1, <1>2, <1>3

\* A checksum fails a download only where its source was disturbed.
LEMMA HealthyAnswerKept ==
  ASSUME TypeOK, LoadedInv, HealthyInv, HealthyDownloadSucceeds, [Next]_vars
  PROVE  HealthyDownloadSucceeds'
<1> SUFFICES ASSUME origin' = "download", answer' = "checksum_mismatch"
             PROVE  disturbed'
  BY DEF HealthyDownloadSucceeds
<1>c. \A code : Fail(code) \/ Returns(code) \/ InstallAnswers(code) => answer' = code
  BY DEF Fail, Returns, InstallAnswers
<1>s. ~StopsHere /\ ~Escape /\ ~Fail("blocked") /\ ~Fail("failed")
  BY <1>c DEF StopsHere, Escape
<1>1. CASE DownloadStep
  <2>1. CASE UNCHANGED answer
    <3>1. UNCHANGED origin /\ (disturbed => disturbed')
      BY <1>1 DEF DownloadStep, FetchManifest, FetchMarker, Announce, OpenFile, ReadChunk,
                  CheckFile, Validate
    <3> QED BY <2>1, <3>1 DEF HealthyDownloadSucceeds
  <2>2. CASE answer' # answer
    <3>1. \/ CheckFile /\ ~PartIsGood /\ ~MayRetry
          \/ Validate /\ ~Whole(final, mv)
      BY <1>1, <1>s, <2>2 DEF DownloadStep, FetchManifest, FetchMarker, Announce, OpenFile,
                              ReadChunk, CheckFile, Validate, FinishFile, Goes
    <3>2. CASE CheckFile /\ ~PartIsGood /\ ~MayRetry
      BY <3>2 DEF CheckFile, MayRetry, HealthyInv, DownloadPcs
    <3>3. CASE Validate /\ ~Whole(final, mv)
      BY <3>3 DEF Validate, HealthyInv, DownloadPcs
    <3> QED BY <3>1, <3>2, <3>3
  <2> QED BY <2>1, <2>2
<1>2. CASE InstallStep
  <2>1. ~InstallAnswers("ready") /\ ~InstallAnswers("failed") /\ ~Returns("ready")
    BY <1>c
  <2> QED BY <1>2, <2>1 DEF InstallStep, InstallFails, WipeItem, WipeDone, CopyManifest,
                            CopyMarker, CopyChunk, Verify, Clean, Goes, HealthyDownloadSucceeds
<1>3. CASE \/ StartDownload \/ Crash
           \/ \E v \in Versions, whole \in BOOLEAN : StartInstall(v, whole)
  BY <1>3 DEF StartDownload, Crash, StartInstall
<1>4. CASE CancelDownload \/ Restart \/ Expire \/ UNCHANGED vars
  BY <1>4 DEF CancelDownload, Restart, Expire, vars, HealthyDownloadSucceeds
<1>5. CASE \E v \in Versions : Publish(v)
  BY <1>5 DEF Publish
<1> QED BY <1>1, <1>2, <1>3, <1>4, <1>5 DEF Next

-----------------------------------------------------------------------------
(* What a call shows from outside *)

\* A file that lacks a chunk makes its directory one that no validation accepts.
LEMMA ShortIsNotWhole ==
  ASSUME NEW contents, NEW v \in Versions \cup {None}, NEW f \in Files, Len(contents[f]) < Chunks
  PROVE  ~Whole(contents, v)
<1>1. v # None => Len(Good(v, f)) = Chunks /\ Chunks \in Nat
  BY GoodFile, ChunksAssumption
<1> QED BY <1>1 DEF Whole

\* Until a call ends it has said nothing, and its copy is short of a file.
LEMMA CallKept ==
  ASSUME TypeOK, LoadedInv, CopyInv, CallInv, [Next]_vars
  PROVE  CallInv'
<1>g. gate' = gate
  BY GateIsFixed
<1>c. \A code : Fail(code) \/ Returns(code) \/ InstallAnswers(code) => pc' = "idle"
  BY DEF Fail, Returns, InstallAnswers
<1>s. StopsHere \/ Escape => pc' = "idle"
  BY <1>c DEF StopsHere, Escape
<1>1. CASE pc' = "idle"
  BY <1>1 DEF CallInv
<1>2. CASE DownloadStep /\ pc' # "idle"
  BY <1>2, <1>c, <1>s DEF DownloadStep, FetchManifest, FetchMarker, Announce, OpenFile,
     ReadChunk, CheckFile, Validate, FinishFile, Goes, CallInv
<1>3. CASE InstallStep /\ pc' # "idle"
  <2>1. CASE WipeItem \/ WipeDone
    BY <2>1 DEF WipeItem, WipeDone, CallInv
  <2>5. CASE CopyManifest
    BY <2>5 DEF CopyManifest, CallInv
  <2>2. CASE CopyMarker
    <3>1. tFiles' = NoFiles /\ file' = 1
      BY <2>2 DEF CopyMarker, CopyInv
    <3>2. \A f \in Files : NoFiles[f] = <<>>
      BY DEF NoFiles
    <3>3. Len(<<>>) < Chunks
      BY EmptyFile, ChunksAssumption
    <3>4. 1 \in Files
      BY FirstFile
    <3> QED BY <2>2, <3>1, <3>2, <3>3, <3>4 DEF CopyMarker, CallInv
  <2>3. CASE CopyChunk
    <3>1. /\ file \in Files /\ tFiles \in Contents /\ mv \in Versions
          /\ SourceFile = Good(mv, file) /\ pc = "copy"
      BY <2>3, SourceIsGood DEF CopyChunk, InstallPcs, TypeOK
    <3>2. Copied \in 1 .. Chunks /\ Chunks \in Nat \ {0} /\ NFiles \in Nat \ {0}
      BY CopiedRange, ChunksAssumption, NFilesAssumption
    <3>3. /\ SubSeq(Good(mv, file), 1, Copied) \in FileContents
          /\ Len(SubSeq(Good(mv, file), 1, Copied)) = Copied
      BY <3>1, <3>2, GoodFile
    <3>4. \A g \in Files : tFiles'[g] = IF g = file THEN SubSeq(Good(mv, file), 1, Copied)
                                                     ELSE tFiles[g]
      BY <2>3, <3>1, <3>3, FileReplaced DEF CopyChunk
    <3>5. \A f \in Files : file < f => tFiles'[f] = <<>>
      BY <3>1, <3>4 DEF CallInv, Files
    <3>6. CASE Copied < Chunks
      BY <2>3, <3>1, <3>3, <3>4, <3>5, <3>6 DEF CopyChunk, CallInv
    <3>7. CASE ~(Copied < Chunks) /\ file < NFiles
      <4>1. file' = file + 1 /\ file' \in Files /\ file < file' /\ pc' = "copy"
        BY <2>3, <3>1, <3>2, <3>7 DEF CopyChunk, Files
      <4>2. Len(tFiles'[file']) < Chunks
        BY <3>2, <3>5, <4>1, EmptyFile
      <4>3. \A f \in Files : file' < f => tFiles'[f] = <<>>
        BY <3>1, <3>5, <4>1 DEF Files
      <4> QED BY <2>3, <4>1, <4>2, <4>3 DEF CopyChunk, CallInv
    <3>8. CASE ~(Copied < Chunks) /\ ~(file < NFiles)
      BY <2>3, <3>8 DEF CopyChunk, CallInv
    <3> QED BY <3>6, <3>7, <3>8
  <2>4. CASE Verify
    <3>1. pc' = "clean" /\ UNCHANGED <<target, locals, answer>> /\ pc = "verify"
      BY <1>3, <1>c, <2>4 DEF Verify, Goes
    <3>2. StatusReady /\ tManifest = mv
      BY <3>1, VerifiedIsReady
    <3> QED BY <1>g, <3>1, <3>2 DEF CallInv, target, locals, StatusReady, GateAllows,
                                    FixtureLimit, Whole
  <2> QED BY <1>3, <1>c, <2>1, <2>2, <2>3, <2>4, <2>5 DEF InstallStep, InstallFails, Clean
<1>4. CASE StartDownload
  BY <1>4 DEF StartDownload, CallInv
<1>5. CASE (\E v \in Versions, whole \in BOOLEAN : StartInstall(v, whole)) /\ pc' # "idle"
  BY <1>5 DEF StartInstall, CallInv
<1>6. CASE Crash \/ Restart
  BY <1>6 DEF Crash, Restart, CallInv
<1>7. CASE CancelDownload \/ Expire \/ (\E v \in Versions : Publish(v)) \/ UNCHANGED vars
  BY <1>g, <1>7 DEF CancelDownload, Expire, Publish, vars, target, locals, CallInv, StatusReady,
                    GateAllows, FixtureLimit, Whole, DownloadPcs
<1> QED BY <1>1, <1>2, <1>3, <1>4, <1>5, <1>6, <1>7 DEF Next

-----------------------------------------------------------------------------
(* The invariant *)

LEMMA InitHolds == Init => StoreInv
<1> SUFFICES ASSUME Init PROVE StoreInv
  OBVIOUS
<1>1. TypeOK
  <2>1. /\ 0 \in 0 .. MaxFaults /\ "idle" \in Pcs
        /\ 1 \in Files /\ NoFiles \in Contents
    BY FirstFile, FaultsAssumption DEF Pcs
  <2>2. /\ scheme \in Schemes /\ manifestV \in Versions /\ filesV \in Versions
        /\ pc = "idle" /\ mv = None /\ file = 1 /\ retried = FALSE /\ cancel = FALSE
        /\ origin = "download" /\ answer = "none" /\ dlManifest = None /\ tManifest = None
        /\ part = NoFiles /\ final = NoFiles /\ tFiles = NoFiles
        /\ gate \in Gates /\ marker = FALSE /\ tMarker = FALSE
        /\ state = "none" /\ fresh = TRUE /\ faults = 0
        /\ disturbed = FALSE /\ hadModel = FALSE /\ cutShort = FALSE /\ abandoned = FALSE
    BY DEF Init
  <2> QED BY <2>1, <2>2 DEF TypeOK
<1>2. LoadedInv /\ CopyInv
  BY DEF Init, LoadedInv, CopyInv, DownloadPcs, InstallPcs
<1>3. RecordInv /\ GateHolds /\ TargetNeverMixed /\ ModelSurvives
  BY DEF Init, RecordInv, GateHolds, TargetNeverMixed, ModelSurvives
<1>4. HealthyInv /\ HealthyDownloadSucceeds
  BY DEF Init, HealthyInv, HealthyDownloadSucceeds, DownloadPcs
<1>5. CallInv
  BY DEF Init, CallInv
<1> QED BY <1>1, <1>2, <1>3, <1>4, <1>5 DEF StoreInv

\* The invariant holds in every reachable state, whatever fails in between.
THEOREM Invariance == Spec => []StoreInv
<1>1. Init => StoreInv
  BY InitHolds
<1>2. StoreInv /\ [Next]_vars => StoreInv'
  BY TypesKept, LoadedKept, CopyKept, RecordKept, TargetKept, SurvivalKept,
     HealthyKept, HealthyAnswerKept, CallKept DEF StoreInv
<1> QED BY <1>1, <1>2, PTL DEF Spec

\* The install target never holds files of two versions.
THEOREM NeverMixed == Spec => []TargetNeverMixed
<1>1. StoreInv => TargetNeverMixed
  BY DEF StoreInv
<1> QED BY <1>1, Invariance, PTL

\* An installed model survives every download that does not reach the install.
THEOREM Survival == Spec => []ModelSurvives
<1>1. StoreInv => ModelSurvives
  BY DEF StoreInv
<1> QED BY <1>1, Invariance, PTL

\* A download whose source was consistent, unchanged and not cut off while it
\* ran passes its checksums, whatever .part files an earlier one left.
THEOREM HealthyDownload == Spec => []HealthyDownloadSucceeds
<1>1. StoreInv => HealthyDownloadSucceeds
  BY DEF StoreInv
<1> QED BY <1>1, Invariance, PTL

\* The state file never goes on saying "downloading" after a recorded end.
THEOREM NoPhantom == Spec => []NoPhantomDownload
<1>1. StoreInv => NoPhantomDownload
  BY DEF StoreInv, RecordInv, NoPhantomDownload
<1> QED BY <1>1, Invariance, PTL

\* Nothing the gate blocks is installed.
THEOREM GateIsKept == Spec => []GateHolds
<1>1. StoreInv => GateHolds
  BY DEF StoreInv
<1> QED BY <1>1, Invariance, PTL

-----------------------------------------------------------------------------
(* The abstract specification *)

\* Removing an entry of the target leaves no model there, unless it is the
\* marker and the gate lets the model in without.
LEMMA WipeRemoves ==
  ASSUME StoreInv, WipeItem
  PROVE  Model' \in {None, Model}
<1>g. gate' = gate
  BY DEF WipeItem, source
<1>1. CASE tManifest' = None
  BY <1>1, FirstFile DEF Model
<1>2. CASE tManifest' = tManifest /\ \E f \in Files : tFiles' = [tFiles EXCEPT ![f] = <<>>]
  <2>1. PICK f \in Files : tFiles' = [tFiles EXCEPT ![f] = <<>>]
    BY <1>2
  <2>2. Len(tFiles'[f]) < Chunks
    BY <2>1, EmptyFile, ChunksAssumption DEF StoreInv, TypeOK, Contents
  <2>3. ~Whole(tFiles', tManifest')
    BY <1>2, <2>2, ShortIsNotWhole DEF StoreInv, TypeOK
  <2> QED BY <2>3 DEF Model, StatusReady, Whole
<1>3. CASE tManifest' = tManifest /\ tFiles' = tFiles /\ tMarker' = FALSE
  <2>1. tManifest # None => FixtureLimit(tManifest, tMarker)
    BY DEF StoreInv, CopyInv
  <2>2. Model' # None => Model' = tManifest /\ StatusReady'
    BY <1>3 DEF Model
  <2>3. StatusReady' /\ tManifest # None => StatusReady
    BY <1>g, <1>3, <2>1 DEF StatusReady, GateAllows, Whole
  <2> QED BY <1>3, <2>2, <2>3 DEF Model
<1> QED BY <1>1, <1>2, <1>3 DEF WipeItem

\* While files are copied there is no model, after the last there is the new one.
LEMMA CopyPuts ==
  ASSUME StoreInv, StoreInv', CopyChunk
  PROVE  /\ Model = None
         /\ pc' \in {"copy", "verify"}
         /\ pc' = "copy" => Model' = None
         /\ pc' = "verify" => Model' = mv
<1>1. pc = "copy" /\ mv' = mv /\ pc' \in {"copy", "verify"}
  BY DEF CopyChunk
<1>2. Model = None
  <2>1. file \in Files /\ Len(tFiles[file]) < Chunks
    BY <1>1 DEF StoreInv, TypeOK, CallInv
  <2>2. ~Whole(tFiles, tManifest)
    BY <2>1, ShortIsNotWhole DEF StoreInv, TypeOK
  <2> QED BY <2>2 DEF Model, StatusReady
<1>3. ASSUME pc' = "copy" PROVE Model' = None
  <2>1. file' \in Files /\ Len(tFiles'[file']) < Chunks
    BY <1>3 DEF StoreInv, TypeOK, CallInv
  <2>2. ~Whole(tFiles', tManifest')
    BY <2>1, ShortIsNotWhole DEF StoreInv, TypeOK
  <2> QED BY <2>2 DEF Model, StatusReady, Whole
<1>4. ASSUME pc' = "verify" PROVE Model' = mv
  BY <1>1, <1>4 DEF StoreInv, CopyInv, LoadedInv, InstallPcs, Model, StatusReady, GateAllows,
                    FixtureLimit
<1> QED BY <1>1, <1>2, <1>3, <1>4

\* The steps of a download: the model stays as it was until all of the new one
\* has been validated.
LEMMA DownloadRefines ==
  ASSUME StoreInv, DownloadStep
  PROVE  \/ UNCHANGED <<Model, Stage, Incoming, answer>>
         \/ Place!Refuse
         \/ Place!Begin
<1>1. /\ pc \in DownloadPcs /\ UNCHANGED target
      /\ \/ pc' \in DownloadPcs /\ answer' = answer
         \/ pc' = "idle" /\ answer' \in Place!Refusals
         \/ pc' = "wipe" /\ answer' = answer /\ mv' = mv /\ mv \in Allowed
  <2>1. \A code \in Place!Refusals : Fail(code) \/ Returns(code) =>
          pc' = "idle" /\ answer' \in Place!Refusals
    BY DEF Fail, Returns
  <2>2. {"cancelled", "failed", "blocked", "checksum_mismatch", "internal_error"}
          \subseteq Place!Refusals
    BY DEF Place!Refusals
  <2>3. StopsHere \/ Escape => pc' = "idle" /\ answer' \in Place!Refusals
    BY <2>1, <2>2 DEF StopsHere, Escape
  <2>4. CASE FetchManifest \/ FetchMarker \/ Announce
    BY <2>1, <2>2, <2>3, <2>4 DEF FetchManifest, FetchMarker, Announce, Goes, DownloadPcs
  <2>5. CASE OpenFile \/ ReadChunk \/ CheckFile
    BY <2>1, <2>2, <2>3, <2>5 DEF OpenFile, ReadChunk, CheckFile, FinishFile, Goes, DownloadPcs
  <2>6. CASE Validate
    BY <2>1, <2>2, <2>6 DEF Validate, Goes, locals, DownloadPcs, StoreInv, LoadedInv
  <2> QED BY <2>4, <2>5, <2>6 DEF DownloadStep
<1>g. gate' = gate /\ Allowed' = Allowed
  BY GateIsFixed DEF Next
<1>2. UNCHANGED Model
  BY <1>g, <1>1 DEF target, Model, StatusReady, GateAllows, FixtureLimit, Whole
<1>3. Stage = "reading" /\ Incoming = None
  BY <1>1 DEF Stage, Incoming, DownloadPcs, InstallPcs
<1>4. CASE pc' \in DownloadPcs /\ answer' = answer
  <2>1. Stage' = "reading" /\ Incoming' = None
    BY <1>4 DEF Stage, Incoming, DownloadPcs, InstallPcs
  <2> QED BY <1>2, <1>3, <1>4, <2>1
<1>5. CASE pc' = "idle" /\ answer' \in Place!Refusals
  <2>1. Stage' = "idle" /\ Incoming' = None
    BY <1>5 DEF Stage, Incoming, DownloadPcs, InstallPcs
  <2> QED BY <1>g, <1>2, <1>3, <1>5, <2>1 DEF Place!Refuse
<1>6. CASE pc' = "wipe" /\ answer' = answer /\ mv' = mv /\ mv \in Allowed
  <2>1. Stage' = "replacing" /\ Incoming' = mv
    BY <1>6 DEF Stage, Incoming, DownloadPcs, InstallPcs
  <2>2. answer = "none"
    BY <1>1 DEF StoreInv, CallInv, DownloadPcs
  <2> QED BY <1>g, <1>2, <1>3, <1>6, <2>1, <2>2 DEF Place!Begin
<1> QED BY <1>1, <1>4, <1>5, <1>6

\* The steps of an install.
LEMMA InstallRefines ==
  ASSUME StoreInv, StoreInv', InstallStep
  PROVE  \/ UNCHANGED <<Model, Stage, Incoming, answer>>
         \/ Place!Remove \/ Place!Put \/ Place!Succeed \/ Place!Fail
<1>g. gate' = gate /\ Allowed' = Allowed
  BY GateIsFixed DEF Next
<1>t. UNCHANGED target => UNCHANGED Model
  BY <1>g DEF GateAllows, FixtureLimit, target, Model, StatusReady, Whole
<1>r. pc \in {"wipe", "copy_manifest", "copy_marker", "copy"} =>
        Stage = "replacing" /\ Incoming = mv
  BY DEF Stage, Incoming, DownloadPcs, InstallPcs
<1>d. pc \in {"verify", "clean"} => Stage = "replaced" /\ Incoming = mv
  BY DEF Stage, Incoming, DownloadPcs, InstallPcs
<1>i. pc' = "idle" => Stage' = "idle" /\ Incoming' = None
  BY DEF Stage, Incoming, DownloadPcs, InstallPcs
<1>n. pc' \in {"wipe", "copy_manifest", "copy_marker", "copy"} =>
        Stage' = "replacing" /\ Incoming' = mv'
  BY DEF Stage, Incoming, DownloadPcs, InstallPcs
<1>e. pc' \in {"verify", "clean"} => Stage' = "replaced" /\ Incoming' = mv'
  BY DEF Stage, Incoming, DownloadPcs, InstallPcs
<1>a. \A code : InstallAnswers(code) \/ Returns(code) => pc' = "idle" /\ answer' = code
  BY DEF InstallAnswers, Fail, Returns
<1>1. CASE InstallFails
  <2>1. pc \in {"wipe", "copy_manifest", "copy_marker", "copy"} /\ UNCHANGED target
    BY <1>1 DEF InstallFails, InstallPcs
  <2>2. pc' = "idle" /\ answer' = "failed"
    BY <1>1, <1>a DEF InstallFails
  <2> QED BY <1>g, <1>t, <1>r, <1>i, <2>1, <2>2 DEF Place!Fail
<1>2. CASE WipeItem
  <2>1. pc = "wipe" /\ pc' = pc /\ mv' = mv /\ answer' = answer
    BY <1>2 DEF WipeItem, locals
  <2>2. Model' \in {None, Model}
    BY <1>2, WipeRemoves
  <2> QED BY <1>g, <1>r, <1>n, <2>1, <2>2 DEF Place!Remove
<1>3. CASE WipeDone
  <2>1. pc = "wipe" /\ pc' = "copy_manifest" /\ mv' = mv /\ answer' = answer /\ UNCHANGED target
    BY <1>3 DEF WipeDone, locals
  <2> QED BY <1>t, <1>r, <1>n, <2>1
<1>f. ASSUME NEW v \in Versions \cup {None}
      PROVE  ~Whole(NoFiles, v)
  <2>1. 1 \in Files /\ Len(NoFiles[1]) < Chunks
    BY FirstFile, EmptyFile, ChunksAssumption DEF NoFiles
  <2> QED BY <2>1, ShortIsNotWhole
<1>4. CASE CopyManifest \/ CopyMarker
  <2>1. /\ pc \in {"copy_manifest", "copy_marker"} /\ pc' \in {"copy_marker", "copy"}
        /\ mv' = mv /\ answer' = answer /\ tFiles = NoFiles /\ tFiles' = NoFiles
    BY <1>4 DEF CopyManifest, CopyMarker, StoreInv, CopyInv
  <2>2. ~Whole(tFiles, tManifest) /\ ~Whole(tFiles', tManifest')
    BY <1>f, <2>1 DEF StoreInv, TypeOK
  <2>3. Model = None /\ Model' = None
    BY <2>2 DEF Model, StatusReady, Whole
  <2> QED BY <1>r, <1>n, <2>1, <2>3
<1>5. CASE CopyChunk
  <2>1. pc = "copy" /\ mv' = mv /\ answer' = answer
    BY <1>5 DEF CopyChunk
  <2>2. CASE pc' = "copy"
    BY <1>5, <1>r, <1>n, <2>1, <2>2, CopyPuts
  <2>3. CASE pc' = "verify"
    <3>1. Model = None /\ Model' = mv
      BY <1>5, <2>3, CopyPuts
    <3> QED BY <1>g, <1>r, <1>e, <2>1, <2>3, <3>1 DEF Place!Put
  <2> QED BY <1>5, <2>2, <2>3, CopyPuts
<1>6. CASE Verify
  <2>1. pc = "verify" /\ UNCHANGED target
    BY <1>6 DEF Verify
  <2>2. StatusReady
    BY <2>1, VerifiedIsReady DEF StoreInv
  <2>3. CASE Goes("clean") /\ UNCHANGED locals
    BY <1>t, <1>d, <1>e, <2>1, <2>3 DEF Goes, locals
  <2>4. CASE InstallAnswers("ready")
    BY <1>g, <1>t, <1>d, <1>i, <1>a, <2>1, <2>4 DEF Place!Succeed
  <2> QED BY <1>6, <2>2, <2>3, <2>4 DEF Verify
<1>7. CASE Clean
  BY <1>g, <1>t, <1>d, <1>i, <1>a, <1>7 DEF Clean, Place!Succeed
<1> QED BY <1>1, <1>2, <1>3, <1>4, <1>5, <1>6, <1>7 DEF InstallStep

\* The requests that begin a call, and what happens around it.
LEMMA RequestsRefine ==
  ASSUME StoreInv,
         \/ StartDownload \/ CancelDownload \/ Crash \/ Restart \/ Expire
         \/ \E v \in Versions, whole \in BOOLEAN : StartInstall(v, whole)
         \/ \E v \in Versions : Publish(v)
  PROVE  \/ UNCHANGED <<Model, Stage, Incoming, answer>>
         \/ Place!Ask \/ Place!Refuse \/ Place!Begin \/ Place!Die
<1>1. UNCHANGED target
  BY DEF StartDownload, CancelDownload, Crash, Restart, Expire, StartInstall, Publish
<1>g. gate' = gate /\ Allowed' = Allowed
  BY GateIsFixed DEF Next
<1>2. UNCHANGED Model
  BY <1>g, <1>1 DEF target, Model, StatusReady, GateAllows, FixtureLimit, Whole
<1>i. pc = "idle" => Stage = "idle" /\ Incoming = None
  BY DEF Stage, Incoming, DownloadPcs, InstallPcs
<1>3. CASE StartDownload
  <2>1. Stage' = "reading" /\ Incoming' = None
    BY <1>3 DEF StartDownload, Stage, Incoming, DownloadPcs, InstallPcs
  <2> QED BY <1>g, <1>3, <1>2, <1>i, <2>1 DEF StartDownload, Place!Ask
<1>4. CASE \E v \in Versions, whole \in BOOLEAN : StartInstall(v, whole)
  <2>1. CASE pc' = pc /\ mv' = mv /\ answer' \in {"blocked", "checksum_mismatch", "failed"}
    <3>1. Stage' = Stage /\ Incoming' = Incoming
      BY <2>1 DEF Stage, Incoming
    <3> QED BY <1>g, <1>4, <1>2, <1>i, <2>1, <3>1 DEF StartInstall, Place!Refuse, Place!Refusals
  <2>2. CASE pc' = "wipe" /\ mv' \in Allowed /\ answer' = "none"
    <3>1. Stage' = "replacing" /\ Incoming' = mv'
      BY <2>2 DEF Stage, Incoming, DownloadPcs, InstallPcs
    <3> QED BY <1>g, <1>4, <1>2, <1>i, <2>2, <3>1 DEF StartInstall, Place!Begin
  <2> QED BY <1>4, <2>1, <2>2 DEF StartInstall, GateAllows, Allowed
<1>5. CASE Crash
  <2>1. Stage' = "idle" /\ Incoming' = None
    BY <1>5 DEF Crash, Stage, Incoming, DownloadPcs, InstallPcs
  <2> QED BY <1>g, <1>5, <1>2, <2>1 DEF Crash, Place!Die
<1>6. CASE Restart
  BY <1>6, <1>2 DEF Restart, locals, Stage, Incoming, DownloadPcs, InstallPcs
<1>7. CASE CancelDownload \/ Expire \/ \E v \in Versions : Publish(v)
  BY <1>7, <1>2 DEF CancelDownload, Expire, Publish, locals, Stage, Incoming
<1> QED BY <1>3, <1>4, <1>5, <1>6, <1>7

\* Every step is one of Installed, or one that nobody sees who only asks for
\* the status of the model.
LEMMA StepsReplace ==
  ASSUME StoreInv, StoreInv', [Next]_vars
  PROVE  [Place!Next]_(Place!vars)
<1>g. gate' = gate /\ Allowed' = Allowed
  BY GateIsFixed
<1>1. CASE Next
  BY <1>g, <1>1, DownloadRefines, InstallRefines, RequestsRefine DEF Next, Place!Next, Place!vars
<1>2. CASE UNCHANGED vars
  BY <1>g, <1>2 DEF vars, target, locals, Model, StatusReady, GateAllows, FixtureLimit, Whole,
                    Stage, Incoming, Place!vars
<1> QED BY <1>1, <1>2

\* ModelStore implements Installed: with files, chunks, resumption, checksums and
\* kills hidden, a model is only ever replaced, and by a whole allowed one.
THEOREM Replacement == Spec => ReplacesModels
<1>1. Init => Place!Init
  BY FirstFile DEF Init, Place!Init, Model, Stage, Incoming, DownloadPcs, InstallPcs
<1>2. StoreInv /\ StoreInv' /\ [Next]_vars => [Place!Next]_(Place!vars)
  BY StepsReplace
<1> QED BY <1>1, <1>2, Invariance, PTL DEF Spec, ReplacesModels, Place!Spec
=============================================================================
