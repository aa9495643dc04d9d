----------------------------- MODULE ModelRoot -----------------------------
(***************************************************************************)
(* The model root on disk and the processes that install packages in it:   *)
(* install_offline of any sidecar (model_manager.py; a download ends with  *)
(* it too) and the bootstrap script (scripts/download_corridorkey_models.  *)
(* py).  Every call of the plugin launches a sidecar of its own, so two of *)
(* them, the script and a render may be in one root at the same time, and  *)
(* nothing locks it.                                                       *)
(*                                                                         *)
(* A package directory is its manifest and its files.  A content is the    *)
(* version it belongs to; "torn" is one that was truncated and not written *)
(* to its end, or two written over one another.  A writer may be killed    *)
(* before any of its steps, which leaves what an OSError there leaves.     *)
(***************************************************************************)
EXTENDS Naturals, FiniteSets

CONSTANTS
  NDirs,     \* package directories, in the order of their paths
  Staged,    \* those of them that are under .downloads
  Roots,     \* what the packages may hold at the start: a version or "none"
  NFiles,    \* files of a package at most
  Versions,  \* contents a package may have
  Expected,  \* expected_files of the manifest of a version
  Scripted,  \* the versions the bootstrap script installs
  Writers,    \* installing processes
  MaxInstalls \* bound on the installs they begin

Dirs     == 1 .. NDirs
Files    == 1 .. NFiles
Manifest == 0
Entries  == {Manifest} \cup Files
Contents == Versions \cup {"none", "torn"}

ASSUME DirsAssumption     == NDirs \in Nat /\ Staged \subseteq Dirs
ASSUME FilesAssumption    == NFiles \in Nat
ASSUME VersionsAssumption == Versions \subseteq STRING \ {"none", "torn"}
ASSUME RootsAssumption    == Roots \subseteq [Dirs -> Versions \cup {"none"}]
ASSUME ExpectedAssumption == Expected \in [Versions -> (SUBSET Files) \ {{}}]
ASSUME InstallsAssumption == MaxInstalls \in Nat
ASSUME ScriptedAssumption == \A v \in Scripted : v \in Versions /\ Expected[v] = {1}

VARIABLES
  made,   \* the directory exists
  holds,  \* what its entries hold
  wpc,    \* the next step of each writer
  job,    \* what it installs where, and for whom
  todo,   \* entries it has still to remove, copy or verify
  alone,  \* no other writer has been in its package since it began
  begun,  \* installs begun so far
  last    \* <<answer, version>> of the last install, if it ran alone

disk       == <<made, holds>>
writerVars == <<wpc, job, todo, alone, begun, last>>

SidecarPcs == {"exists", "wipe", "mkdir", "open", "write", "status", "verify"}
ScriptPcs  == {"model", "replace", "open", "write"}

NoJob == [by |-> "nobody", pkg |-> 0, ver |-> "none"]
None  == <<"none", "none">>

DiskTypeOK ==
  /\ made \in [Dirs -> BOOLEAN]
  /\ holds \in [Dirs -> [Entries -> Contents]]
  /\ wpc \in [Writers -> {"idle"} \cup SidecarPcs \cup ScriptPcs]
  /\ job \in [Writers -> {NoJob} \cup [by : {"sidecar", "script"}, pkg : Dirs, ver : Versions]]
  /\ todo \in [Writers -> SUBSET Entries]
  /\ alone \in [Writers -> BOOLEAN]
  /\ begun \in 0 .. MaxInstalls
  /\ last \in [Dirs -> {None} \cup {"ready", "failed"} \X Versions]

-----------------------------------------------------------------------------
(* Helpers *)

Empty == [e \in Entries |-> "none"]

Present(p) == {e \in Entries : holds[p][e] # "none"}

Whole_IfThere(p, v) == \A f \in Expected[v] : holds[p][f] # "none"

\* _validate_files of package p against the manifest of v
Whole(p, v) == \A f \in Expected[v] : holds[p][f] = v

\* Manifest first, then the files in the order of the manifest.
First(S) == CHOOSE e \in S : \A d \in S : e <= d

Active(w) == wpc[w] # "idle"

Goes(w, next, rest) ==
  wpc' = [wpc EXCEPT ![w] = next] /\ todo' = [todo EXCEPT ![w] = rest]

Leaves(w) ==
  /\ Goes(w, "idle", {})
  /\ job' = [job EXCEPT ![w] = NoJob] /\ alone' = [alone EXCEPT ![w] = FALSE]

\* The writer is done; what an install that ran alone answered is remembered.
Ends(w, answer) ==
  /\ Leaves(w)
  /\ last' = IF alone[w] THEN [last EXCEPT ![job[w].pkg] = <<answer, job[w].ver>>] ELSE last

\* Packages are installed or downloaded as a whole, nobody is at work.
InitDisk ==
  /\ \E v \in Roots :
       /\ made = [p \in Dirs |-> v[p] # "none"]
       /\ holds = [p \in Dirs |-> [e \in Entries |->
                    IF made[p] /\ e \in {Manifest} \cup Expected[v[p]] THEN v[p] ELSE "none"]]
  /\ wpc = [w \in Writers |-> "idle"] /\ job = [w \in Writers |-> NoJob]
  /\ begun = 0 /\ last = [p \in Dirs |-> None]
  /\ todo = [w \in Writers |-> {}] /\ alone = [w \in Writers |-> FALSE]

-----------------------------------------------------------------------------
(* Both kinds of writers *)

\* A package whose source is whole is installed: install_model, the end of
\* download_model, or the script.
Begin(w, by, p, v) ==
  LET others == {o \in Writers \ {w} : Active(o) /\ job[o].pkg = p}
  IN /\ ~Active(w) /\ begun < MaxInstalls /\ begun' = begun + 1
     /\ by = "script" => v \in Scripted
     /\ Goes(w, IF by = "script" THEN "model" ELSE "exists", {})
     /\ job' = [job EXCEPT ![w] = [by |-> by, pkg |-> p, ver |-> v]]
     /\ alone' = [o \in Writers |-> IF o = w THEN others = {} ELSE alone[o] /\ o \notin others]
     /\ last' = [last EXCEPT ![p] = None]
     /\ UNCHANGED disk

Killed(w) ==
  /\ Active(w)
  /\ Leaves(w)
  /\ UNCHANGED <<disk, last>>

\* An entry is opened for writing, which truncates it.  The sidecar makes the
\* directory of a file again if it is gone.
Open(w) ==
  LET p       == job[w].pkg
      e       == First(todo[w])
      remakes == job[w].by = "sidecar" /\ e # Manifest
  IN /\ wpc[w] = "open"
     /\ \/ ~made[p] /\ ~remakes /\ Ends(w, "failed") /\ UNCHANGED disk
        \/ /\ made[p] \/ remakes
           /\ made' = [made EXCEPT ![p] = TRUE]
           /\ holds' = [holds EXCEPT ![p][e] = "torn"]
           /\ Goes(w, "write", todo[w])
           /\ UNCHANGED <<job, alone, last>>

\* The manifest of the script is the last thing it writes.
AfterEntry(w, rest) ==
  \/ rest # {} /\ Goes(w, "open", rest) /\ UNCHANGED <<job, alone, last>>
  \/ rest = {} /\ job[w].by = "sidecar" /\ Goes(w, "status", {}) /\ UNCHANGED <<job, alone, last>>
  \/ rest = {} /\ job[w].by = "script" /\ Ends(w, "ready")

\* It is written to its end.  If another writer has written it since it was
\* opened, what is left may be a mixture; if it has been removed, copy2 fails
\* on its attributes and the script does not notice.
Write(w) ==
  LET p == job[w].pkg
      e == First(todo[w])
  IN /\ wpc[w] = "write"
     /\ \/ /\ holds[p][e] = "none" /\ UNCHANGED disk
           /\ IF job[w].by = "sidecar" THEN Ends(w, "failed") ELSE Ends(w, "ready")
        \/ /\ holds[p][e] # "none"
           /\ \E c \in {job[w].ver} \cup (IF holds[p][e] = "torn" THEN {} ELSE {"torn"}) :
                holds' = [holds EXCEPT ![p][e] = c]
           /\ AfterEntry(w, todo[w] \ {e})
           /\ UNCHANGED made

-----------------------------------------------------------------------------
(* install_offline, once its source has been validated *)

StartCopy(w) == Goes(w, "open", {Manifest} \cup Expected[job[w].ver])

\* target.exists(), and the listing rmtree works from
Exists(w) ==
  LET p == job[w].pkg
  IN /\ wpc[w] = "exists"
     /\ IF made[p] THEN Goes(w, "wipe", Present(p)) ELSE Goes(w, "mkdir", {})
     /\ UNCHANGED <<disk, job, alone, last>>

\* rmtree unlinks the entries it has listed, in any order; on one that is gone
\* it fails or goes on, as the version of Python has it.
WipeEntry(w) ==
  LET p == job[w].pkg
  IN /\ wpc[w] = "wipe"
     /\ \E e \in todo[w] :
          \/ /\ holds' = [holds EXCEPT ![p][e] = "none"]
             /\ Goes(w, "wipe", todo[w] \ {e}) /\ UNCHANGED <<made, job, alone, last>>
          \/ holds[p][e] = "none" /\ Ends(w, "failed") /\ UNCHANGED disk

\* rmdir, which needs the directory to be empty
WipeDir(w) ==
  LET p == job[w].pkg
  IN /\ wpc[w] = "wipe" /\ todo[w] = {}
     /\ \/ /\ made[p] /\ holds[p] = Empty
           /\ made' = [made EXCEPT ![p] = FALSE]
           /\ Goes(w, "mkdir", {}) /\ UNCHANGED <<holds, job, alone, last>>
        \/ (~made[p] \/ holds[p] # Empty) /\ Ends(w, "failed") /\ UNCHANGED disk

\* target.mkdir(parents=True), which refuses a directory that is there
Mkdir(w) ==
  LET p == job[w].pkg
  IN /\ wpc[w] = "mkdir"
     /\ \/ /\ ~made[p] /\ made' = [made EXCEPT ![p] = TRUE]
           /\ StartCopy(w) /\ UNCHANGED <<holds, job, alone, last>>
        \/ made[p] /\ Ends(w, "failed") /\ UNCHANGED disk

\* status(): the manifest that is there now, ...
ReadBack(w) ==
  LET p == job[w].pkg
      v == holds[p][Manifest]
  IN /\ wpc[w] = "status"
     /\ \/ v \notin Versions /\ Ends(w, "failed")
        \/ /\ v \in Versions
           /\ job' = [job EXCEPT ![w].ver = v]
           /\ Goes(w, "verify", Expected[v]) /\ UNCHANGED <<alone, last>>
     /\ UNCHANGED disk

\* ... and one file after another against it.
Verify(w) ==
  LET p == job[w].pkg
      f == First(todo[w])
  IN /\ wpc[w] = "verify"
     /\ \/ todo[w] = {} /\ Ends(w, "ready")
        \/ /\ todo[w] # {} /\ holds[p][f] = job[w].ver
           /\ Goes(w, "verify", todo[w] \ {f}) /\ UNCHANGED <<job, alone, last>>
        \/ todo[w] # {} /\ holds[p][f] # job[w].ver /\ Ends(w, "failed")
     /\ UNCHANGED disk

-----------------------------------------------------------------------------
(* install_model of the bootstrap script *)

KeepsModel_Any(p, v) == holds[p][1] # "none"

\* A model that has the approved checksum is kept.
KeepsModel(p, v) == holds[p][1] = v

\* The directory is made if it is not there.
FetchModel(w) ==
  LET p == job[w].pkg
  IN /\ wpc[w] = "model"
     /\ made' = [made EXCEPT ![p] = TRUE]
     /\ IF KeepsModel(p, job[w].ver) THEN Goes(w, "open", {Manifest}) ELSE Goes(w, "replace", {})
     /\ UNCHANGED <<holds, job, alone, last>>

\* What was downloaded takes the place of the model at once; if it has not the
\* approved checksum either, the script ends there.
ReplaceModel(w) ==
  LET p == job[w].pkg
  IN /\ wpc[w] = "replace"
     /\ \/ ~made[p] /\ Ends(w, "failed") /\ UNCHANGED disk
        \/ /\ made[p] /\ UNCHANGED <<made, last>>
           /\ \E u \in Versions :
                /\ holds' = [holds EXCEPT ![p][1] = u]
                /\ IF u = job[w].ver THEN Goes(w, "open", {Manifest}) /\ UNCHANGED <<job, alone>>
                                     ELSE Leaves(w)

-----------------------------------------------------------------------------

BeginStep(w) ==
  \E by \in {"sidecar", "script"}, p \in Dirs \ Staged, v \in Versions : Begin(w, by, p, v)

InstallStep(w) ==
  /\ \/ Killed(w) \/ Open(w) \/ Write(w)
     \/ Exists(w) \/ WipeEntry(w) \/ WipeDir(w) \/ Mkdir(w) \/ ReadBack(w) \/ Verify(w)
     \/ FetchModel(w) \/ ReplaceModel(w)
  /\ UNCHANGED begun

WriterStep(w) == BeginStep(w) \/ InstallStep(w)

\* An install that has its package to itself succeeds and leaves all of it,
\* whatever others had left there: half a copy, a mixture, the files of
\* another version, an empty directory.
AloneInstallSucceeds ==
  \A p \in Dirs :
    last[p] # None =>
      /\ last[p][1] = "ready"
      /\ holds[p][Manifest] = last[p][2] /\ Whole(p, last[p][2])

-----------------------------------------------------------------------------
(* The inductive invariant of AloneInstallSucceeds *)

\* How far an install is that has its package to itself: what it has done so
\* far is done.
AloneInv(w) ==
  LET p     == job[w].pkg
      v     == job[w].ver
      parts == {Manifest} \cup Expected[v]
  IN /\ wpc[w] \in {"model", "replace"} => v \in Scripted
     /\ wpc[w] = "wipe" => made[p] /\ todo[w] = Present(p)
     /\ wpc[w] = "mkdir" => ~made[p]
     /\ wpc[w] \in {"replace", "open", "write"} => made[p]
     /\ wpc[w] \in {"open", "write"} => todo[w] # {} /\ todo[w] \subseteq parts
     /\ wpc[w] \in {"open", "write"} => \A e \in parts \ todo[w] : holds[p][e] = v
     /\ wpc[w] = "write" => holds[p][First(todo[w])] = "torn"
     /\ wpc[w] \in {"status", "verify"} => \A e \in parts : holds[p][e] = v
     /\ wpc[w] = "verify" => todo[w] \subseteq Expected[v]

\* A directory that is not there is empty.  Nobody else is in the package of
\* an install that runs alone, nor in one whose last install did.
RootInv ==
  /\ DiskTypeOK
  /\ \A p \in Dirs : ~made[p] => holds[p] = Empty
  /\ \A w \in Writers : IF Active(w) THEN job[w] # NoJob ELSE ~alone[w]
  /\ \A w \in Writers : alone[w] => AloneInv(w)
  /\ \A w, o \in Writers : alone[w] /\ Active(o) /\ o # w => job[o].pkg # job[w].pkg
  /\ \A p \in Dirs : last[p] # None => \A w \in Writers : Active(w) => job[w].pkg # p
  /\ AloneInstallSucceeds
=============================================================================
