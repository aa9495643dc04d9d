------------------------- MODULE TorchBackendProofs -------------------------
(***************************************************************************)
(* Three invariants of TorchBackend and the model root it reads, for any   *)
(* number of packages, files, versions and processes that install.         *)
(*                                                                         *)
(* RootInv: what an install that has its package to itself has done stays  *)
(* done, and nobody else's steps reach it; so it succeeds.  ReadInv: what  *)
(* a request has read of a package is still so unless a writer was there;  *)
(* so no exception of the file system ends a request that no writer has    *)
(* crossed.  ChoiceInv: the packages found are those that can be chosen,   *)
(* and the validation goes through the files in their order; so the answer *)
(* tells how the best package stands, and what it computes with.           *)
(***************************************************************************)
EXTENDS TorchBackend, TLAPS, WellFoundedInduction

-----------------------------------------------------------------------------
(* Least elements *)

\* A set of naturals that is not empty has a least element.
LEMMA Least ==
  ASSUME NEW S, S \subseteq Nat, S # {}
  PROVE  \E m \in S : \A n \in S : m <= n
<1>1. PICK m \in S : \A n \in S : ~(<<n, m>> \in OpToRel(<, Nat))
  BY NatLessThanWellFounded, WFMin
<1>2. \A n \in S : ~(n < m)
  BY <1>1 DEF OpToRel
<1> QED BY <1>2

\* The next entry is the first of those that are left.
LEMMA FirstIsOne ==
  ASSUME NEW S, S \subseteq Entries, S # {}
  PROVE  First(S) \in S /\ \A d \in S : First(S) <= d
<1>1. S \subseteq Nat
  BY FilesAssumption DEF Entries, Files, Manifest
<1> QED BY <1>1, Least DEF First

-----------------------------------------------------------------------------
(* One writer moves *)

\* What an active writer installs where.
LEMMA JobOf ==
  ASSUME RootInv, NEW w \in Writers, Active(w)
  PROVE  /\ job[w] \in [by : {"sidecar", "script"}, pkg : Dirs, ver : Versions]
         /\ job[w].pkg \in Dirs /\ job[w].ver \in Versions /\ job[w].by \in {"sidecar", "script"}
         /\ job[w] # NoJob /\ last[job[w].pkg] = None
         /\ Expected[job[w].ver] \subseteq Files /\ Expected[job[w].ver] # {}
         /\ todo[w] \subseteq Entries
<1>1. job[w] \in [by : {"sidecar", "script"}, pkg : Dirs, ver : Versions] /\ job[w] # NoJob
  BY DEF RootInv, DiskTypeOK
<1>2. Expected[job[w].ver] \subseteq Files /\ Expected[job[w].ver] # {}
  <2>1. job[w].ver \in Versions
    BY <1>1
  <2>2. Expected[job[w].ver] \in (SUBSET Files) \ {{}}
    BY <2>1, ExpectedAssumption
  <2>3. \A S : S \in (SUBSET Files) \ {{}} => S \subseteq Files /\ S # {}
    OBVIOUS
  <2> QED BY <2>2, <2>3
<1>3. last[job[w].pkg] = None
  BY <1>1 DEF RootInv
<1>4. todo[w] \subseteq Entries
  BY DEF RootInv, DiskTypeOK
<1> QED BY <1>1, <1>2, <1>3, <1>4

\* Writer w changes nothing but its package p and its own variables.
Confined(w, p) ==
  /\ \A d \in Dirs \ {p} : made'[d] = made[d] /\ holds'[d] = holds[d] /\ last'[d] = last[d]
  /\ \A o \in Writers \ {w} : /\ wpc'[o] = wpc[o] /\ job'[o] = job[o]
                              /\ todo'[o] = todo[o] /\ alone'[o] = alone[o]

\* It goes on with its install, or stops; alone, only when the package is whole.
GoesOn(w, p) ==
  /\ wpc'[w] # "idle" /\ job'[w] # NoJob /\ job'[w].pkg = p
  /\ alone'[w] = alone[w] /\ last'[p] = last[p]
  /\ alone[w] => AloneInv(w)'

Stops(w, p) ==
  /\ wpc'[w] = "idle" /\ alone'[w] = FALSE
  /\ \/ last'[p] = last[p]
     \/ /\ last'[p] # None /\ alone[w]
        /\ last'[p][1] = "ready" /\ holds'[p][Manifest] = last'[p][2]
        /\ \A f \in Expected[last'[p][2]] : holds'[p][f] = last'[p][2]

LEMMA OneWriterMoves ==
  ASSUME RootInv, DiskTypeOK', NEW w \in Writers, Active(w), NEW p \in Dirs, p = job[w].pkg,
         Confined(w, p), ~made'[p] => holds'[p] = Empty,
         GoesOn(w, p) \/ Stops(w, p)
  PROVE  RootInv'
<1>r. last[p] = None
  BY JobOf
<1>1. (\A d \in Dirs : ~made[d] => holds[d] = Empty)'
  BY DEF RootInv, Confined
<1>2. (\A o \in Writers : IF Active(o) THEN job[o] # NoJob ELSE ~alone[o])'
  BY DEF RootInv, Confined, Active, GoesOn, Stops
<1>3. ASSUME NEW o \in Writers, alone'[o] PROVE AloneInv(o)'
  <2>1. CASE o = w
    BY <1>3, <2>1 DEF GoesOn, Stops
  <2>2. CASE o # w
    <3>1. alone[o] /\ AloneInv(o) /\ job[o].pkg # p
      BY <1>3, <2>2 DEF Confined, RootInv
    <3>2. Active(o)
      BY <3>1 DEF RootInv
    <3>3. LET d == job[o].pkg
          IN /\ d \in Dirs /\ made'[d] = made[d] /\ holds'[d] = holds[d]
             /\ wpc'[o] = wpc[o] /\ job'[o] = job[o] /\ todo'[o] = todo[o]
      BY <2>2, <3>1, <3>2, JobOf DEF Confined
    <3> QED BY <3>1, <3>3 DEF AloneInv, Present
  <2> QED BY <2>1, <2>2
<1>4. ASSUME NEW o \in Writers, NEW u \in Writers, alone'[o], Active(u)', u # o
      PROVE  (job[u].pkg # job[o].pkg)'
  <2>1. /\ alone[o] /\ Active(u)
        /\ job'[u].pkg = job[u].pkg /\ job'[o].pkg = job[o].pkg
    BY <1>4 DEF Confined, Active, GoesOn, Stops
  <2> QED BY <1>4, <2>1 DEF RootInv
<1>5. ASSUME NEW d \in Dirs, last'[d] # None, NEW o \in Writers, Active(o)'
      PROVE  (job[o].pkg # d)'
  <2>1. CASE d = p
    <3>1. last'[p] # last[p]
      BY <1>5, <1>r, <2>1
    <3>2. wpc'[w] = "idle" /\ alone[w]
      BY <3>1 DEF GoesOn, Stops
    <3>3. o # w /\ job'[o] = job[o] /\ Active(o)
      BY <1>5, <3>2 DEF Active, Confined
    <3> QED BY <2>1, <3>2, <3>3 DEF RootInv
  <2>2. CASE d # p
    <3>1. last[d] # None
      BY <1>5, <2>2 DEF Confined
    <3>2. CASE o = w
      BY <1>5, <2>2, <3>2 DEF GoesOn, Stops, Active
    <3>3. CASE o # w
      BY <1>5, <3>1, <3>3 DEF RootInv, Confined, Active
    <3> QED BY <3>2, <3>3
  <2> QED BY <2>1, <2>2
<1>6. AloneInstallSucceeds'
  <2> SUFFICES ASSUME NEW d \in Dirs, last'[d] # None
               PROVE  /\ last'[d][1] = "ready" /\ holds'[d][Manifest] = last'[d][2]
                      /\ \A f \in Expected[last'[d][2]] : holds'[d][f] = last'[d][2]
    BY DEF AloneInstallSucceeds, Whole
  <2>1. CASE d = p
    BY <1>r, <2>1 DEF GoesOn, Stops
  <2>2. CASE d # p
    BY <2>2 DEF Confined, RootInv, AloneInstallSucceeds, Whole
  <2> QED BY <2>1, <2>2
<1> QED BY <1>1, <1>2, <1>3, <1>4, <1>5, <1>6 DEF RootInv

-----------------------------------------------------------------------------
(* Types of the model root *)

\* The steps of a writer leave it going on or idle.
LEMMA WriterTypes ==
  ASSUME DiskTypeOK, NEW w \in Writers,
         NEW to \in {"idle"} \cup SidecarPcs \cup ScriptPcs, NEW rest \in SUBSET Entries,
         Goes(w, to, rest)
  PROVE  /\ wpc' \in [Writers -> {"idle"} \cup SidecarPcs \cup ScriptPcs]
         /\ todo' \in [Writers -> SUBSET Entries]
         /\ wpc'[w] = to /\ todo'[w] = rest
         /\ \A o \in Writers \ {w} : wpc'[o] = wpc[o] /\ todo'[o] = todo[o]
  BY DEF DiskTypeOK, Goes

LEMMA LeaveTypes ==
  ASSUME DiskTypeOK, NEW w \in Writers, Leaves(w)
  PROVE  /\ wpc' \in [Writers -> {"idle"} \cup SidecarPcs \cup ScriptPcs]
         /\ todo' \in [Writers -> SUBSET Entries]
         /\ job' \in [Writers -> {NoJob} \cup [by : {"sidecar", "script"}, pkg : Dirs, ver : Versions]]
         /\ alone' \in [Writers -> BOOLEAN]
         /\ wpc'[w] = "idle" /\ alone'[w] = FALSE
         /\ \A o \in Writers \ {w} : /\ wpc'[o] = wpc[o] /\ todo'[o] = todo[o]
                                     /\ job'[o] = job[o] /\ alone'[o] = alone[o]
<1>1. Goes(w, "idle", {}) /\ {} \in SUBSET Entries
  BY DEF Leaves
<1>2. /\ job' = [job EXCEPT ![w] = NoJob] /\ alone' = [alone EXCEPT ![w] = FALSE]
  BY DEF Leaves
<1> QED BY <1>1, <1>2, WriterTypes DEF DiskTypeOK

LEMMA EndTypes ==
  ASSUME RootInv, NEW w \in Writers, Active(w), NEW answer \in {"ready", "failed"}, Ends(w, answer)
  PROVE  /\ Leaves(w)
         /\ last' \in [Dirs -> {None} \cup {"ready", "failed"} \X Versions]
         /\ \A d \in Dirs \ {job[w].pkg} : last'[d] = last[d]
         /\ last'[job[w].pkg] = IF alone[w] THEN <<answer, job[w].ver>> ELSE last[job[w].pkg]
         /\ <<answer, job[w].ver>> # None
<1>1. job[w].pkg \in Dirs /\ job[w].ver \in Versions /\ job[w].ver # "none"
  BY JobOf, VersionsAssumption
<1>2. last \in [Dirs -> {None} \cup {"ready", "failed"} \X Versions]
  BY DEF RootInv, DiskTypeOK
<1> QED BY <1>1, <1>2 DEF Ends, None

\* An entry of a package is changed.
LEMMA EntryTypes ==
  ASSUME DiskTypeOK, NEW p \in Dirs, NEW e, NEW c \in Contents,
         holds' = [holds EXCEPT ![p][e] = c]
  PROVE  /\ holds' \in [Dirs -> [Entries -> Contents]]
         /\ \A d \in Dirs \ {p} : holds'[d] = holds[d]
         /\ \A g \in Entries : holds'[p][g] = IF g = e THEN c ELSE holds[p][g]
<1>1. holds \in [Dirs -> [Entries -> Contents]] /\ holds[p] \in [Entries -> Contents]
  BY DEF DiskTypeOK
<1>2. holds' = [holds EXCEPT ![p] = [holds[p] EXCEPT ![e] = c]]
  OBVIOUS
<1>3. [holds[p] EXCEPT ![e] = c] \in [Entries -> Contents]
  BY <1>1
<1> QED BY <1>1, <1>2, <1>3

\* A directory is made or removed.
LEMMA MadeTypes ==
  ASSUME DiskTypeOK, NEW p \in Dirs, NEW b \in BOOLEAN, made' = [made EXCEPT ![p] = b]
  PROVE  /\ made' \in [Dirs -> BOOLEAN] /\ made'[p] = b
         /\ \A d \in Dirs \ {p} : made'[d] = made[d]
  BY DEF DiskTypeOK

\* What a step may do to the disk: type and all other packages are kept.
DiskMoves(p) ==
  /\ made' \in [Dirs -> BOOLEAN] /\ holds' \in [Dirs -> [Entries -> Contents]]
  /\ \A d \in Dirs \ {p} : made'[d] = made[d] /\ holds'[d] = holds[d]
  /\ ~made'[p] => holds'[p] = Empty

LEMMA DiskKept ==
  ASSUME RootInv, NEW p \in Dirs, UNCHANGED disk
  PROVE  DiskMoves(p)
  BY DEF DiskMoves, RootInv, DiskTypeOK, disk

\* A writer goes on to its next step, ...
LEMMA GoStep ==
  ASSUME RootInv, NEW w \in Writers, Active(w), DiskMoves(job[w].pkg),
         NEW to \in SidecarPcs \cup ScriptPcs, NEW rest \in SUBSET Entries, Goes(w, to, rest),
         UNCHANGED <<job, alone, last, begun>>, alone[w] => AloneInv(w)'
  PROVE  RootInv'
<1> DEFINE p == job[w].pkg
<1>1. p \in Dirs /\ job[w] # NoJob
  BY JobOf
<1>2. /\ wpc' \in [Writers -> {"idle"} \cup SidecarPcs \cup ScriptPcs]
      /\ todo' \in [Writers -> SUBSET Entries] /\ wpc'[w] = to
      /\ \A o \in Writers \ {w} : wpc'[o] = wpc[o] /\ todo'[o] = todo[o]
  BY WriterTypes DEF RootInv
<1>3. DiskTypeOK'
  BY <1>2 DEF RootInv, DiskTypeOK, DiskMoves
<1>4. Confined(w, p)
  BY <1>2 DEF Confined, DiskMoves
<1>5. to # "idle"
  BY DEF SidecarPcs, ScriptPcs
<1>6. GoesOn(w, p)
  BY <1>1, <1>2, <1>5 DEF GoesOn
<1> QED BY <1>1, <1>3, <1>4, <1>6, OneWriterMoves DEF DiskMoves

\* ... or its install ends, if it ran alone with a whole package, ...
LEMMA EndStep ==
  ASSUME RootInv, NEW w \in Writers, Active(w), DiskMoves(job[w].pkg),
         NEW answer \in {"ready", "failed"}, Ends(w, answer), UNCHANGED begun,
         alone[w] => /\ answer = "ready"
                     /\ \A e \in {Manifest} \cup Expected[job[w].ver] :
                          holds'[job[w].pkg][e] = job[w].ver
  PROVE  RootInv'
<1> DEFINE p == job[w].pkg
<1>1. p \in Dirs
  BY JobOf
<1>2. /\ Leaves(w) /\ last' \in [Dirs -> {None} \cup {"ready", "failed"} \X Versions]
      /\ \A d \in Dirs \ {p} : last'[d] = last[d]
      /\ last'[p] = IF alone[w] THEN <<answer, job[w].ver>> ELSE last[p]
      /\ <<answer, job[w].ver>> # None
  BY EndTypes
<1>3. /\ wpc' \in [Writers -> {"idle"} \cup SidecarPcs \cup ScriptPcs]
      /\ todo' \in [Writers -> SUBSET Entries]
      /\ job' \in [Writers -> {NoJob} \cup [by : {"sidecar", "script"}, pkg : Dirs, ver : Versions]]
      /\ alone' \in [Writers -> BOOLEAN]
      /\ wpc'[w] = "idle" /\ alone'[w] = FALSE
      /\ \A o \in Writers \ {w} : /\ wpc'[o] = wpc[o] /\ todo'[o] = todo[o]
                                  /\ job'[o] = job[o] /\ alone'[o] = alone[o]
  BY <1>2, LeaveTypes DEF RootInv
<1>4. DiskTypeOK'
  BY <1>2, <1>3 DEF RootInv, DiskTypeOK, DiskMoves
<1>5. Confined(w, p)
  BY <1>2, <1>3 DEF Confined, DiskMoves
<1>6. Stops(w, p)
  <2>1. CASE alone[w]
    <3>1. last'[p][1] = "ready" /\ last'[p][2] = job[w].ver /\ last'[p] # None
      BY <1>2, <2>1
    <3> QED BY <1>3, <2>1, <3>1 DEF Stops
  <2>2. CASE ~alone[w]
    BY <1>2, <1>3, <2>2 DEF Stops
  <2> QED BY <2>1, <2>2
<1> QED BY <1>1, <1>4, <1>5, <1>6, OneWriterMoves DEF DiskMoves

\* ... or it is given up.
LEMMA LeaveStep ==
  ASSUME RootInv, NEW w \in Writers, Active(w), DiskMoves(job[w].pkg),
         Leaves(w), UNCHANGED <<last, begun>>
  PROVE  RootInv'
<1> DEFINE p == job[w].pkg
<1>1. p \in Dirs
  BY JobOf
<1>3. /\ wpc' \in [Writers -> {"idle"} \cup SidecarPcs \cup ScriptPcs]
      /\ todo' \in [Writers -> SUBSET Entries]
      /\ job' \in [Writers -> {NoJob} \cup [by : {"sidecar", "script"}, pkg : Dirs, ver : Versions]]
      /\ alone' \in [Writers -> BOOLEAN]
      /\ wpc'[w] = "idle" /\ alone'[w] = FALSE
      /\ \A o \in Writers \ {w} : /\ wpc'[o] = wpc[o] /\ todo'[o] = todo[o]
                                  /\ job'[o] = job[o] /\ alone'[o] = alone[o]
  BY LeaveTypes DEF RootInv
<1>4. DiskTypeOK'
  BY <1>3 DEF RootInv, DiskTypeOK, DiskMoves
<1>5. Confined(w, p)
  BY <1>3 DEF Confined, DiskMoves
<1>6. Stops(w, p)
  BY <1>3 DEF Stops
<1> QED BY <1>1, <1>4, <1>5, <1>6, OneWriterMoves DEF DiskMoves

-----------------------------------------------------------------------------
(* The steps of a writer *)

\* Entry e of package p becomes c, and no other entry changes.
EntryIs(p, e, c) ==
  \A g \in Entries : holds'[p][g] = IF g = e THEN c ELSE holds[p][g]

\* An entry is written.
LEMMA EntryMoves ==
  ASSUME RootInv, NEW p \in Dirs, NEW e, NEW c \in Contents, UNCHANGED made,
         made[p] \/ c = "none", holds' = [holds EXCEPT ![p][e] = c]
  PROVE  DiskMoves(p) /\ EntryIs(p, e, c)
<1>1. DiskTypeOK
  BY DEF RootInv
<1>2. /\ holds' \in [Dirs -> [Entries -> Contents]]
      /\ \A d \in Dirs \ {p} : holds'[d] = holds[d]
      /\ \A g \in Entries : holds'[p][g] = IF g = e THEN c ELSE holds[p][g]
  BY <1>1, EntryTypes
<1>3. made' \in [Dirs -> BOOLEAN] /\ made'[p] = made[p]
  BY <1>1 DEF DiskTypeOK
<1>4. ASSUME ~made'[p] PROVE holds'[p] = Empty
  <2>1. c = "none" /\ holds[p] = Empty
    BY <1>3, <1>4 DEF RootInv
  <2>2. holds'[p] \in [Entries -> Contents] /\ \A g \in Entries : holds'[p][g] = "none"
    BY <1>2, <2>1 DEF Empty
  <2> QED BY <2>2 DEF Empty
<1> QED BY <1>2, <1>3, <1>4 DEF DiskMoves, EntryIs

\* A writer that goes on has this as its next step and its rest.
LEMMA NextPc ==
  ASSUME RootInv, NEW w \in Writers, NEW to \in SidecarPcs \cup ScriptPcs,
         NEW rest \in SUBSET Entries, Goes(w, to, rest)
  PROVE  wpc'[w] = to /\ todo'[w] = rest
  BY DEF RootInv, DiskTypeOK, Goes

LEMMA BeginKeeps ==
  ASSUME RootInv, NEW w \in Writers, NEW by \in {"sidecar", "script"}, NEW p \in Dirs,
         NEW v \in Versions, Begin(w, by, p, v)
  PROVE  RootInv'
<1> DEFINE others == {o \in Writers \ {w} : Active(o) /\ job[o].pkg = p}
           to     == IF by = "script" THEN "model" ELSE "exists"
           j      == [by |-> by, pkg |-> p, ver |-> v]
<1>1. /\ ~Active(w) /\ begun < MaxInstalls /\ begun' = begun + 1
      /\ by = "script" => v \in Scripted
      /\ Goes(w, to, {}) /\ job' = [job EXCEPT ![w] = j]
      /\ alone' = [o \in Writers |-> IF o = w THEN others = {} ELSE alone[o] /\ o \notin others]
      /\ last' = [last EXCEPT ![p] = None] /\ made' = made /\ holds' = holds
  BY DEF Begin, disk
<1>2. /\ to \in SidecarPcs \cup ScriptPcs /\ to # "idle" /\ j # NoJob
      /\ j \in [by : {"sidecar", "script"}, pkg : Dirs, ver : Versions]
  <2>1. v # "none"
    BY VersionsAssumption
  <2> QED BY <2>1 DEF SidecarPcs, ScriptPcs, NoJob
<1>3. /\ wpc' \in [Writers -> {"idle"} \cup SidecarPcs \cup ScriptPcs]
      /\ todo' \in [Writers -> SUBSET Entries] /\ wpc'[w] = to /\ todo'[w] = {}
      /\ \A o \in Writers \ {w} : wpc'[o] = wpc[o] /\ todo'[o] = todo[o]
  BY <1>1, <1>2, WriterTypes DEF RootInv
<1>4. /\ job' \in [Writers -> {NoJob} \cup [by : {"sidecar", "script"}, pkg : Dirs, ver : Versions]]
      /\ job'[w] = j /\ \A o \in Writers \ {w} : job'[o] = job[o]
  BY <1>1, <1>2 DEF RootInv, DiskTypeOK
<1>5. /\ last' \in [Dirs -> {None} \cup {"ready", "failed"} \X Versions]
      /\ last'[p] = None /\ \A d \in Dirs \ {p} : last'[d] = last[d]
  BY <1>1 DEF RootInv, DiskTypeOK
<1>6. alone' \in [Writers -> BOOLEAN] /\ \A o \in Writers \ {w} : alone'[o] => alone[o] /\ o \notin others
  BY <1>1 DEF RootInv, DiskTypeOK
<1>7. begun' \in 0 .. MaxInstalls
  BY <1>1, InstallsAssumption DEF RootInv, DiskTypeOK
<1>8. DiskTypeOK'
  BY <1>1, <1>3, <1>4, <1>5, <1>6, <1>7 DEF RootInv, DiskTypeOK
<1>9. \A o \in Writers : IF Active(o)' THEN job'[o] # NoJob ELSE ~alone'[o]
  BY <1>2, <1>3, <1>4, <1>6 DEF RootInv, Active
<1>10. ASSUME NEW o \in Writers, alone'[o] PROVE AloneInv(o)'
  <2>1. CASE o = w
    <3>1. to = "exists" \/ (to = "model" /\ v \in Scripted)
      BY <1>1
    <3> QED BY <1>3, <1>4, <2>1, <3>1 DEF AloneInv
  <2>2. CASE o # w
    <3>1. AloneInv(o)
      BY <1>6, <1>10, <2>2 DEF RootInv
    <3> QED BY <1>1, <1>3, <1>4, <2>2, <3>1 DEF AloneInv, Present
  <2> QED BY <2>1, <2>2
<1>11. ASSUME NEW o \in Writers, NEW u \in Writers, alone'[o], Active(u)', u # o
       PROVE  job'[u].pkg # job'[o].pkg
  <2>1. CASE o = w
    <3>1. others = {}
      BY <1>1, <1>11, <2>1
    <3>2. Active(u) /\ job'[u] = job[u]
      BY <1>3, <1>4, <1>11, <2>1 DEF Active
    <3>3. job'[w].pkg = p
      BY <1>4
    <3> QED BY <1>11, <2>1, <3>1, <3>2, <3>3
  <2>2. CASE o # w
    <3>1. alone[o] /\ o \notin others /\ job'[o] = job[o]
      BY <1>4, <1>6, <1>11, <2>2
    <3>2. CASE u = w
      <4>1. Active(o)
        BY <3>1 DEF RootInv
      <4>2. job[o].pkg # p
        BY <2>2, <3>1, <4>1
      <4> QED BY <1>4, <3>1, <3>2, <4>2
    <3>3. CASE u # w
      BY <1>3, <1>4, <1>11, <3>1, <3>3 DEF RootInv, Active
    <3> QED BY <3>2, <3>3
  <2> QED BY <2>1, <2>2
<1>12. ASSUME NEW d \in Dirs, last'[d] # None, NEW o \in Writers, Active(o)'
       PROVE  job'[o].pkg # d
  <2>1. d # p /\ last[d] # None
    BY <1>5, <1>12
  <2> QED BY <1>3, <1>4, <1>12, <2>1 DEF RootInv, Active
<1>13. AloneInstallSucceeds'
  BY <1>1, <1>5 DEF RootInv, AloneInstallSucceeds, Whole
<1> QED BY <1>1, <1>8, <1>9, <1>10, <1>11, <1>12, <1>13 DEF RootInv

LEMMA KilledKeeps ==
  ASSUME RootInv, NEW w \in Writers, Killed(w), UNCHANGED begun
  PROVE  RootInv'
<1>1. Active(w) /\ Leaves(w) /\ UNCHANGED disk /\ UNCHANGED <<last, begun>>
  BY DEF Killed
<1>2. job[w].pkg \in Dirs
  BY <1>1, JobOf
<1>3. DiskMoves(job[w].pkg)
  BY <1>1, <1>2, DiskKept
<1> QED BY <1>1, <1>3, LeaveStep

LEMMA OpenKeeps ==
  ASSUME RootInv, NEW w \in Writers, Open(w), UNCHANGED begun
  PROVE  RootInv'
<1> DEFINE p == job[w].pkg
           e == First(todo[w])
<1>1. wpc[w] = "open" /\ Active(w)
  BY DEF Open, Active
<1>2. p \in Dirs /\ todo[w] \subseteq Entries
  BY <1>1, JobOf
<1>3. CASE ~made[p] /\ Ends(w, "failed") /\ UNCHANGED disk
  <2>1. ~alone[w]
    BY <1>1, <1>3 DEF RootInv, AloneInv
  <2>2. DiskMoves(p)
    BY <1>2, <1>3, DiskKept
  <2> QED BY <1>1, <1>3, <2>1, <2>2, EndStep
<1>4. CASE /\ made' = [made EXCEPT ![p] = TRUE] /\ holds' = [holds EXCEPT ![p][e] = "torn"]
           /\ Goes(w, "write", todo[w]) /\ UNCHANGED <<job, alone, last>>
  <2>1. "torn" \in Contents /\ "write" \in SidecarPcs \cup ScriptPcs
    BY DEF Contents, SidecarPcs
  <2>2. DiskMoves(p) /\ made'[p] /\ EntryIs(p, e, "torn")
    <3>1. DiskTypeOK
      BY DEF RootInv
    <3>2. made' \in [Dirs -> BOOLEAN] /\ made'[p] = TRUE /\ \A d \in Dirs \ {p} : made'[d] = made[d]
      BY <1>2, <1>4, <3>1, MadeTypes
    <3>3. /\ holds' \in [Dirs -> [Entries -> Contents]]
          /\ \A d \in Dirs \ {p} : holds'[d] = holds[d]
          /\ EntryIs(p, e, "torn")
      BY <1>2, <1>4, <2>1, <3>1, EntryTypes DEF EntryIs
    <3> QED BY <3>2, <3>3 DEF DiskMoves
  <2>3. wpc'[w] = "write" /\ todo'[w] = todo[w]
    BY <1>2, <1>4, <2>1, NextPc
  <2>4. ASSUME alone[w] PROVE AloneInv(w)'
    <3>1. AloneInv(w)
      BY <2>4 DEF RootInv
    <3>2. todo[w] # {} /\ e \in todo[w] /\ e \in Entries
      BY <1>1, <1>2, <3>1, FirstIsOne DEF AloneInv
    <3>3. {Manifest} \cup Expected[job[w].ver] \subseteq Entries
      BY <1>1, JobOf DEF Entries
    <3> QED BY <1>1, <1>4, <2>2, <2>3, <3>1, <3>2, <3>3 DEF AloneInv, EntryIs
  <2> QED BY <1>1, <1>2, <1>4, <2>1, <2>2, <2>4, GoStep
<1> QED BY <1>3, <1>4 DEF Open

LEMMA WriteKeeps ==
  ASSUME RootInv, NEW w \in Writers, Write(w), UNCHANGED begun
  PROVE  RootInv'
<1> DEFINE p == job[w].pkg
           v == job[w].ver
           e == First(todo[w])
           rest == todo[w] \ {e}
<1>1. wpc[w] = "write" /\ Active(w)
  BY DEF Write, Active
<1>2. p \in Dirs /\ v \in Versions /\ todo[w] \subseteq Entries /\ {Manifest} \cup Expected[v] \subseteq Entries
  BY <1>1, JobOf DEF Entries
<1>3. ASSUME alone[w]
      PROVE  /\ AloneInv(w) /\ made[p] /\ e \in todo[w] /\ e \in Entries /\ holds[p][e] = "torn"
  <2>1. AloneInv(w)
    BY <1>3 DEF RootInv
  <2>2. made[p] /\ todo[w] # {} /\ holds[p][e] = "torn"
    BY <1>1, <2>1 DEF AloneInv
  <2> QED BY <1>2, <2>1, <2>2, FirstIsOne
<1>4. CASE /\ holds[p][e] = "none" /\ UNCHANGED disk
           /\ IF job[w].by = "sidecar" THEN Ends(w, "failed") ELSE Ends(w, "ready")
  <2>1. ~alone[w]
    BY <1>3, <1>4
  <2>2. DiskMoves(p)
    BY <1>2, <1>4, DiskKept
  <2> QED BY <1>1, <1>4, <2>1, <2>2, EndStep
<1>5. CASE /\ holds[p][e] # "none"
           /\ \E c \in {v} \cup (IF holds[p][e] = "torn" THEN {} ELSE {"torn"}) :
                holds' = [holds EXCEPT ![p][e] = c]
           /\ AfterEntry(w, rest) /\ UNCHANGED made
  <2>1. PICK c \in {v} \cup (IF holds[p][e] = "torn" THEN {} ELSE {"torn"}) :
               holds' = [holds EXCEPT ![p][e] = c]
    BY <1>5
  <2>2. c \in Contents /\ (alone[w] => c = v)
    BY <1>2, <1>3 DEF Contents
  <2>3. DiskMoves(p) /\ EntryIs(p, e, c)
    <3>1. CASE made[p]
      BY <1>2, <1>5, <2>1, <2>2, <3>1, EntryMoves
    <3>2. CASE ~made[p]
      <4>1. holds[p] = Empty
        BY <1>2, <3>2 DEF RootInv
      <4>2. e \notin Entries
        BY <1>5, <4>1 DEF Empty
      <4>3. DiskTypeOK
        BY DEF RootInv
      <4>4. /\ holds' \in [Dirs -> [Entries -> Contents]]
            /\ \A d \in Dirs \ {p} : holds'[d] = holds[d]
            /\ EntryIs(p, e, c)
        BY <1>2, <2>1, <2>2, <4>3, EntryTypes DEF EntryIs
      <4>5. \A g \in Entries : holds'[p][g] = "none"
        BY <4>1, <4>2, <4>4 DEF Empty, EntryIs
      <4>6. holds'[p] = Empty
        BY <1>2, <4>4, <4>5 DEF Empty
      <4> QED BY <1>5, <4>3, <4>4, <4>6 DEF DiskMoves, DiskTypeOK
    <3> QED BY <3>1, <3>2
  <2>4. /\ alone[w] => \A g \in ({Manifest} \cup Expected[v]) \ rest : holds'[p][g] = v
        /\ rest \in SUBSET Entries
    <3>1. rest \in SUBSET Entries
      BY <1>2
    <3>2. ASSUME alone[w], NEW g \in ({Manifest} \cup Expected[v]) \ rest PROVE holds'[p][g] = v
      <4>1. g \in Entries /\ (g = e \/ g \notin todo[w])
        BY <1>2
      <4>2. g \notin todo[w] => holds[p][g] = v
        BY <1>1, <1>3, <3>2 DEF AloneInv
      <4> QED BY <2>2, <2>3, <3>2, <4>1, <4>2 DEF EntryIs
    <3> QED BY <3>1, <3>2
  <2>5. CASE rest # {} /\ Goes(w, "open", rest) /\ UNCHANGED <<job, alone, last>>
    <3>1. "open" \in SidecarPcs \cup ScriptPcs
      BY DEF SidecarPcs
    <3>2. wpc'[w] = "open" /\ todo'[w] = rest
      BY <2>4, <2>5, <3>1, NextPc
    <3>3. ASSUME alone[w] PROVE AloneInv(w)'
      <4>1. rest \subseteq {Manifest} \cup Expected[v]
        BY <1>1, <1>3, <3>3 DEF AloneInv
      <4> QED BY <1>3, <1>5, <2>4, <2>5, <3>2, <3>3, <4>1 DEF AloneInv
    <3> QED BY <1>1, <2>3, <2>4, <2>5, <3>1, <3>3, GoStep
  <2>6. CASE rest = {} /\ Goes(w, "status", {}) /\ UNCHANGED <<job, alone, last>>
    <3>1. "status" \in SidecarPcs \cup ScriptPcs
      BY DEF SidecarPcs
    <3>2. wpc'[w] = "status" /\ todo'[w] = {}
      BY <2>6, <3>1, NextPc
    <3>3. ASSUME alone[w] PROVE AloneInv(w)'
      <4>1. \A g \in {Manifest} \cup Expected[v] : holds'[p][g] = v
        BY <2>4, <2>6, <3>3
      <4> QED BY <2>6, <3>2, <4>1 DEF AloneInv
    <3> QED BY <1>1, <2>3, <2>6, <3>1, <3>3, GoStep
  <2>7. CASE rest = {} /\ Ends(w, "ready")
    <3>1. alone[w] => \A g \in {Manifest} \cup Expected[v] : holds'[p][g] = v
      BY <2>4, <2>7
    <3> QED BY <1>1, <2>3, <2>7, <3>1, EndStep
  <2> QED BY <1>5, <2>5, <2>6, <2>7 DEF AfterEntry
<1> QED BY <1>4, <1>5 DEF Write

LEMMA ExistsKeeps ==
  ASSUME RootInv, NEW w \in Writers, Exists(w), UNCHANGED begun
  PROVE  RootInv'
<1> DEFINE p == job[w].pkg
<1>1. wpc[w] = "exists" /\ Active(w) /\ UNCHANGED disk /\ UNCHANGED <<job, alone, last>>
  BY DEF Exists, Active
<1>2. p \in Dirs /\ DiskMoves(p)
  BY <1>1, JobOf, DiskKept
<1>3. {"wipe", "mkdir"} \subseteq SidecarPcs \cup ScriptPcs
  BY DEF SidecarPcs
<1>4. made' = made /\ holds' = holds
  BY <1>1 DEF disk
<1>5. CASE made[p] /\ Goes(w, "wipe", Present(p))
  <2>1. Present(p) \in SUBSET Entries /\ Present(p)' = Present(p)
    BY <1>1, <1>4 DEF Present
  <2>2. wpc'[w] = "wipe" /\ todo'[w] = Present(p)
    BY <1>3, <1>5, <2>1, NextPc
  <2>3. alone[w] => AloneInv(w)'
    BY <1>1, <1>4, <1>5, <2>1, <2>2 DEF AloneInv
  <2> QED BY <1>1, <1>2, <1>3, <1>5, <2>1, <2>3, GoStep
<1>6. CASE ~made[p] /\ Goes(w, "mkdir", {})
  <2>2. wpc'[w] = "mkdir" /\ todo'[w] = {}
    BY <1>3, <1>6, NextPc
  <2>3. alone[w] => AloneInv(w)'
    BY <1>1, <1>4, <1>6, <2>2 DEF AloneInv
  <2> QED BY <1>1, <1>2, <1>3, <1>6, <2>3, GoStep
<1> QED BY <1>5, <1>6 DEF Exists

LEMMA WipeEntryKeeps ==
  ASSUME RootInv, NEW w \in Writers, WipeEntry(w), UNCHANGED begun
  PROVE  RootInv'
<1> DEFINE p == job[w].pkg
<1>1. wpc[w] = "wipe" /\ Active(w)
  BY DEF WipeEntry, Active
<1>2. p \in Dirs /\ todo[w] \subseteq Entries
  BY <1>1, JobOf
<1>3. PICK e \in todo[w] :
        \/ /\ holds' = [holds EXCEPT ![p][e] = "none"]
           /\ Goes(w, "wipe", todo[w] \ {e}) /\ UNCHANGED <<made, job, alone, last>>
        \/ holds[p][e] = "none" /\ Ends(w, "failed") /\ UNCHANGED disk
  BY DEF WipeEntry
<1>4. alone[w] => AloneInv(w) /\ made[p] /\ todo[w] = Present(p)
  BY <1>1 DEF RootInv, AloneInv
<1>5. CASE /\ holds' = [holds EXCEPT ![p][e] = "none"]
           /\ Goes(w, "wipe", todo[w] \ {e}) /\ UNCHANGED <<made, job, alone, last>>
  <2>1. "none" \in Contents /\ "wipe" \in SidecarPcs \cup ScriptPcs /\ todo[w] \ {e} \in SUBSET Entries
    BY <1>2 DEF Contents, SidecarPcs
  <2>2. DiskMoves(p) /\ EntryIs(p, e, "none")
    BY <1>2, <1>5, <2>1, EntryMoves
  <2>3. wpc'[w] = "wipe" /\ todo'[w] = todo[w] \ {e}
    BY <1>5, <2>1, NextPc
  <2>4. ASSUME alone[w] PROVE AloneInv(w)'
    <3>1. todo'[w] = Present(p)'
      BY <1>4, <1>5, <2>2, <2>3, <2>4 DEF Present, EntryIs
    <3> QED BY <1>4, <1>5, <2>3, <2>4, <3>1 DEF AloneInv
  <2> QED BY <1>1, <1>5, <2>1, <2>2, <2>4, GoStep
<1>6. CASE holds[p][e] = "none" /\ Ends(w, "failed") /\ UNCHANGED disk
  <2>1. ~alone[w]
    BY <1>4, <1>6 DEF Present
  <2>2. DiskMoves(p)
    BY <1>2, <1>6, DiskKept
  <2> QED BY <1>1, <1>6, <2>1, <2>2, EndStep
<1> QED BY <1>3, <1>5, <1>6

LEMMA WipeDirKeeps ==
  ASSUME RootInv, NEW w \in Writers, WipeDir(w), UNCHANGED begun
  PROVE  RootInv'
<1> DEFINE p == job[w].pkg
<1>1. wpc[w] = "wipe" /\ todo[w] = {} /\ Active(w)
  BY DEF WipeDir, Active
<1>2. p \in Dirs
  BY <1>1, JobOf
<1>3. CASE /\ made[p] /\ holds[p] = Empty /\ made' = [made EXCEPT ![p] = FALSE]
           /\ Goes(w, "mkdir", {}) /\ UNCHANGED <<holds, job, alone, last>>
  <2>1. "mkdir" \in SidecarPcs \cup ScriptPcs
    BY DEF SidecarPcs
  <2>2. DiskTypeOK
    BY DEF RootInv
  <2>3. made' \in [Dirs -> BOOLEAN] /\ made'[p] = FALSE /\ \A d \in Dirs \ {p} : made'[d] = made[d]
    BY <1>2, <1>3, <2>2, MadeTypes
  <2>4. DiskMoves(p)
    BY <1>3, <2>2, <2>3 DEF DiskMoves, DiskTypeOK
  <2>5. wpc'[w] = "mkdir"
    BY <1>3, <2>1, NextPc
  <2>6. alone[w] => AloneInv(w)'
    BY <1>3, <2>3, <2>5 DEF AloneInv
  <2> QED BY <1>1, <1>3, <2>1, <2>4, <2>6, GoStep
<1>4. CASE (~made[p] \/ holds[p] # Empty) /\ Ends(w, "failed") /\ UNCHANGED disk
  <2>1. ~alone[w]
    <3>1. SUFFICES ASSUME alone[w] PROVE FALSE
      OBVIOUS
    <3>2. made[p] /\ Present(p) = {}
      BY <1>1, <3>1 DEF RootInv, AloneInv
    <3>3. holds[p] \in [Entries -> Contents] /\ \A g \in Entries : holds[p][g] = "none"
      BY <1>2, <3>2 DEF RootInv, DiskTypeOK, Present
    <3>4. holds[p] = Empty
      BY <3>3 DEF Empty
    <3> QED BY <1>4, <3>2, <3>4
  <2>2. DiskMoves(p)
    BY <1>2, <1>4, DiskKept
  <2> QED BY <1>1, <1>4, <2>1, <2>2, EndStep
<1> QED BY <1>3, <1>4 DEF WipeDir

LEMMA MkdirKeeps ==
  ASSUME RootInv, NEW w \in Writers, Mkdir(w), UNCHANGED begun
  PROVE  RootInv'
<1> DEFINE p == job[w].pkg
           parts == {Manifest} \cup Expected[job[w].ver]
<1>1. wpc[w] = "mkdir" /\ Active(w)
  BY DEF Mkdir, Active
<1>2. p \in Dirs /\ parts \in SUBSET Entries
  BY <1>1, JobOf DEF Entries
<1>3. CASE /\ ~made[p] /\ made' = [made EXCEPT ![p] = TRUE]
           /\ StartCopy(w) /\ UNCHANGED <<holds, job, alone, last>>
  <2>1. "open" \in SidecarPcs \cup ScriptPcs /\ Goes(w, "open", parts)
    BY <1>3 DEF SidecarPcs, StartCopy
  <2>2. DiskTypeOK
    BY DEF RootInv
  <2>3. made' \in [Dirs -> BOOLEAN] /\ made'[p] = TRUE /\ \A d \in Dirs \ {p} : made'[d] = made[d]
    BY <1>2, <1>3, <2>2, MadeTypes
  <2>4. DiskMoves(p)
    BY <1>3, <2>2, <2>3 DEF DiskMoves, DiskTypeOK
  <2>5. wpc'[w] = "open" /\ todo'[w] = parts
    BY <1>2, <2>1, NextPc
  <2>6. alone[w] => AloneInv(w)'
    BY <1>3, <2>3, <2>5 DEF AloneInv
  <2> QED BY <1>1, <1>2, <1>3, <2>1, <2>4, <2>6, GoStep
<1>4. CASE made[p] /\ Ends(w, "failed") /\ UNCHANGED disk
  <2>1. ~alone[w]
    BY <1>1, <1>4 DEF RootInv, AloneInv
  <2>2. DiskMoves(p)
    BY <1>2, <1>4, DiskKept
  <2> QED BY <1>1, <1>4, <2>1, <2>2, EndStep
<1> QED BY <1>3, <1>4 DEF Mkdir

\* The manifest read back is the one that was installed, if the install runs
\* alone.
LEMMA ReadBackKeeps ==
  ASSUME RootInv, NEW w \in Writers, ReadBack(w), UNCHANGED begun
  PROVE  RootInv'
<1> DEFINE p == job[w].pkg
           v == holds[p][Manifest]
<1>1. wpc[w] = "status" /\ Active(w) /\ UNCHANGED disk
  BY DEF ReadBack, Active
<1>2. p \in Dirs /\ DiskMoves(p)
  BY <1>1, JobOf, DiskKept
<1>3. alone[w] => AloneInv(w) /\ v = job[w].ver
  BY <1>1 DEF RootInv, AloneInv
<1>4. CASE v \notin Versions /\ Ends(w, "failed")
  <2>1. ~alone[w]
    BY <1>1, <1>3, <1>4, JobOf
  <2> QED BY <1>1, <1>2, <1>4, <2>1, EndStep
<1>5. CASE /\ v \in Versions /\ job' = [job EXCEPT ![w].ver = v]
           /\ Goes(w, "verify", Expected[v]) /\ UNCHANGED <<alone, last>>
  <2>1. /\ job[w] \in [by : {"sidecar", "script"}, pkg : Dirs, ver : Versions]
        /\ DiskTypeOK
    BY <1>1, JobOf DEF RootInv
  <2>2. "verify" \in SidecarPcs \cup ScriptPcs /\ Expected[v] \in SUBSET Entries
    BY <1>5, ExpectedAssumption DEF SidecarPcs, Entries
  <2>3. /\ wpc' \in [Writers -> {"idle"} \cup SidecarPcs \cup ScriptPcs]
        /\ todo' \in [Writers -> SUBSET Entries] /\ wpc'[w] = "verify" /\ todo'[w] = Expected[v]
        /\ \A o \in Writers \ {w} : wpc'[o] = wpc[o] /\ todo'[o] = todo[o]
    BY <1>5, <2>1, <2>2, WriterTypes
  <2>4. /\ job'[w] = [job[w] EXCEPT !.ver = v]
        /\ \A o \in Writers \ {w} : job'[o] = job[o]
        /\ DOMAIN job' = Writers /\ job' = [o \in Writers |-> job'[o]]
    BY <1>5, <2>1 DEF DiskTypeOK
  <2>5. job'[w] \in [by : {"sidecar", "script"}, pkg : Dirs, ver : Versions] /\ job'[w].pkg = p
    BY <1>5, <2>1, <2>4
  <2>6. job'[w] # NoJob
    BY <1>2, <2>5, VersionsAssumption DEF NoJob
  <2>7. job' \in [Writers -> {NoJob} \cup [by : {"sidecar", "script"}, pkg : Dirs, ver : Versions]]
    BY <2>1, <2>4, <2>5 DEF DiskTypeOK
  <2>8. DiskTypeOK'
    BY <1>2, <1>5, <2>1, <2>3, <2>7 DEF DiskTypeOK, DiskMoves
  <2>9. Confined(w, p)
    BY <1>2, <1>5, <2>3, <2>4 DEF Confined, DiskMoves
  <2>10. ASSUME alone[w] PROVE AloneInv(w)'
    <3>1. job'[w] = job[w] /\ v = job[w].ver
      BY <1>3, <2>1, <2>4, <2>10
    <3>2. \A e \in {Manifest} \cup Expected[v] : holds'[p][e] = v
      BY <1>1, <1>3, <2>10, <3>1 DEF AloneInv, disk
    <3> QED BY <2>3, <3>1, <3>2 DEF AloneInv
  <2>11. GoesOn(w, p)
    BY <1>5, <2>3, <2>5, <2>6, <2>10 DEF GoesOn
  <2> QED BY <1>1, <1>2, <2>8, <2>9, <2>11, OneWriterMoves DEF DiskMoves
<1> QED BY <1>4, <1>5 DEF ReadBack

LEMMA VerifyKeeps ==
  ASSUME RootInv, NEW w \in Writers, Verify(w), UNCHANGED begun
  PROVE  RootInv'
<1> DEFINE p == job[w].pkg
           f == First(todo[w])
<1>1. wpc[w] = "verify" /\ Active(w) /\ UNCHANGED disk
  BY DEF Verify, Active
<1>2. p \in Dirs /\ DiskMoves(p) /\ todo[w] \subseteq Entries
  BY <1>1, JobOf, DiskKept
<1>3. made' = made /\ holds' = holds
  BY <1>1 DEF disk
<1>4. alone[w] => /\ AloneInv(w) /\ todo[w] \subseteq Expected[job[w].ver]
                  /\ \A e \in {Manifest} \cup Expected[job[w].ver] : holds[p][e] = job[w].ver
  BY <1>1 DEF RootInv, AloneInv
<1>5. CASE todo[w] = {} /\ Ends(w, "ready")
  BY <1>1, <1>2, <1>3, <1>4, <1>5, EndStep
<1>6. CASE todo[w] # {} /\ Goes(w, "verify", todo[w] \ {f}) /\ UNCHANGED <<job, alone, last>>
  <2>1. "verify" \in SidecarPcs \cup ScriptPcs /\ todo[w] \ {f} \in SUBSET Entries
    BY <1>2 DEF SidecarPcs
  <2>2. wpc'[w] = "verify" /\ todo'[w] = todo[w] \ {f}
    BY <1>6, <2>1, NextPc
  <2>3. alone[w] => AloneInv(w)'
    BY <1>3, <1>4, <1>6, <2>2 DEF AloneInv
  <2> QED BY <1>1, <1>2, <1>6, <2>1, <2>3, GoStep
<1>7. CASE todo[w] # {} /\ holds[p][f] # job[w].ver /\ Ends(w, "failed")
  <2>1. f \in todo[w]
    BY <1>2, <1>7, FirstIsOne
  <2>2. ~alone[w]
    BY <1>4, <1>7, <2>1
  <2> QED BY <1>1, <1>2, <1>7, <2>2, EndStep
<1> QED BY <1>5, <1>6, <1>7 DEF Verify

\* The script installs packages of one file, the model.
LEMMA ScriptedParts ==
  ASSUME NEW v \in Scripted
  PROVE  Expected[v] = {1} /\ 1 \in Entries /\ Manifest # 1 /\ {Manifest} \in SUBSET Entries
  BY ScriptedAssumption, ExpectedAssumption DEF Entries, Manifest

LEMMA FetchModelKeeps ==
  ASSUME RootInv, NEW w \in Writers, FetchModel(w), UNCHANGED begun
  PROVE  RootInv'
<1> DEFINE p == job[w].pkg
           v == job[w].ver
<1>1. /\ wpc[w] = "model" /\ Active(w) /\ made' = [made EXCEPT ![p] = TRUE]
      /\ UNCHANGED <<holds, job, alone, last>>
  BY DEF FetchModel, Active
<1>2. p \in Dirs /\ DiskTypeOK
  BY <1>1, JobOf DEF RootInv
<1>3. made' \in [Dirs -> BOOLEAN] /\ made'[p] = TRUE /\ \A d \in Dirs \ {p} : made'[d] = made[d]
  BY <1>1, <1>2, MadeTypes
<1>4. DiskMoves(p)
  BY <1>1, <1>2, <1>3 DEF DiskMoves, DiskTypeOK
<1>5. alone[w] => v \in Scripted
  BY <1>1 DEF RootInv, AloneInv
<1>6. "open" \in ScriptPcs /\ "replace" \in ScriptPcs /\ {Manifest} \in SUBSET Entries
  BY DEF ScriptPcs, Entries
<1>7. CASE KeepsModel(p, v) /\ Goes(w, "open", {Manifest})
  <2>1. wpc'[w] = "open" /\ todo'[w] = {Manifest}
    BY <1>6, <1>7, NextPc
  <2>2. ASSUME alone[w] PROVE AloneInv(w)'
    <3>1. \A e \in ({Manifest} \cup Expected[v]) \ {Manifest} : holds'[p][e] = v
      BY <1>1, <1>5, <1>7, <2>2, ScriptedParts DEF KeepsModel
    <3> QED BY <1>1, <1>3, <2>1, <3>1 DEF AloneInv
  <2> QED BY <1>1, <1>4, <1>6, <1>7, <2>2, GoStep
<1>8. CASE Goes(w, "replace", {})
  <2>1. wpc'[w] = "replace" /\ todo'[w] = {}
    BY <1>6, <1>8, NextPc
  <2>2. alone[w] => AloneInv(w)'
    BY <1>1, <1>3, <1>5, <2>1 DEF AloneInv
  <2> QED BY <1>1, <1>4, <1>6, <1>8, <2>2, GoStep
<1> QED BY <1>7, <1>8 DEF FetchModel

LEMMA ReplaceModelKeeps ==
  ASSUME RootInv, NEW w \in Writers, ReplaceModel(w), UNCHANGED begun
  PROVE  RootInv'
<1> DEFINE p == job[w].pkg
           v == job[w].ver
<1>1. wpc[w] = "replace" /\ Active(w)
  BY DEF ReplaceModel, Active
<1>2. p \in Dirs
  BY <1>1, JobOf
<1>3. alone[w] => v \in Scripted /\ made[p]
  BY <1>1 DEF RootInv, AloneInv
<1>4. CASE ~made[p] /\ Ends(w, "failed") /\ UNCHANGED disk
  <2>1. DiskMoves(p)
    BY <1>2, <1>4, DiskKept
  <2> QED BY <1>1, <1>3, <1>4, <2>1, EndStep
<1>5. CASE /\ made[p] /\ UNCHANGED <<made, last>>
           /\ \E u \in Versions :
                /\ holds' = [holds EXCEPT ![p][1] = u]
                /\ IF u = v THEN Goes(w, "open", {Manifest}) /\ UNCHANGED <<job, alone>> ELSE Leaves(w)
  <2>1. PICK u \in Versions :
               /\ holds' = [holds EXCEPT ![p][1] = u]
               /\ IF u = v THEN Goes(w, "open", {Manifest}) /\ UNCHANGED <<job, alone>> ELSE Leaves(w)
    BY <1>5
  <2>2. u \in Contents
    BY DEF Contents
  <2>3. DiskMoves(p) /\ EntryIs(p, 1, u)
    BY <1>2, <1>5, <2>1, <2>2, EntryMoves
  <2>4. CASE u # v
    BY <1>1, <1>5, <2>1, <2>3, <2>4, LeaveStep
  <2>5. CASE u = v
    <3>1. "open" \in ScriptPcs /\ {Manifest} \in SUBSET Entries
      BY DEF ScriptPcs, Entries
    <3>2. wpc'[w] = "open" /\ todo'[w] = {Manifest}
      BY <2>1, <2>5, <3>1, NextPc
    <3>3. ASSUME alone[w] PROVE AloneInv(w)'
      <4>1. \A e \in ({Manifest} \cup Expected[v]) \ {Manifest} : holds'[p][e] = v
        BY <1>3, <2>3, <2>5, <3>3, ScriptedParts DEF EntryIs
      <4> QED BY <1>3, <1>5, <2>1, <2>5, <3>2, <3>3, <4>1 DEF AloneInv
    <3> QED BY <1>1, <1>5, <2>1, <2>3, <2>5, <3>1, <3>3, GoStep
  <2> QED BY <2>4, <2>5
<1> QED BY <1>4, <1>5 DEF ReplaceModel

LEMMA InstallStepKeeps ==
  ASSUME RootInv, NEW w \in Writers, InstallStep(w)
  PROVE  RootInv'
<1>1. UNCHANGED begun
  BY DEF InstallStep
<1>2. \/ Killed(w) \/ Open(w) \/ Write(w)
      \/ Exists(w) \/ WipeEntry(w) \/ WipeDir(w) \/ Mkdir(w) \/ ReadBack(w) \/ Verify(w)
      \/ FetchModel(w) \/ ReplaceModel(w)
  BY DEF InstallStep
<1> QED BY <1>1, <1>2, KilledKeeps, OpenKeeps, WriteKeeps, ExistsKeeps, WipeEntryKeeps, WipeDirKeeps,
           MkdirKeeps, ReadBackKeeps, VerifyKeeps, FetchModelKeeps, ReplaceModelKeeps

LEMMA WriterStepKeeps ==
  ASSUME RootInv, NEW w \in Writers, WriterStep(w)
  PROVE  RootInv'
<1>1. CASE BeginStep(w)
  BY <1>1, BeginKeeps DEF BeginStep
<1>2. CASE InstallStep(w)
  BY <1>2, InstallStepKeeps
<1> QED BY <1>1, <1>2 DEF WriterStep

LEMMA RootKept ==
  ASSUME RootInv, UNCHANGED <<disk, writerVars>>
  PROVE  RootInv'
<1>1. /\ made' = made /\ holds' = holds /\ wpc' = wpc /\ job' = job /\ todo' = todo
      /\ alone' = alone /\ begun' = begun /\ last' = last
  BY DEF disk, writerVars
<1>2. DiskTypeOK'
  BY <1>1 DEF RootInv, DiskTypeOK
<1>3. (\A w \in Writers : alone[w] => AloneInv(w))'
  BY <1>1 DEF RootInv, AloneInv, Present
<1> QED BY <1>1, <1>2, <1>3 DEF RootInv, AloneInstallSucceeds, Whole, Active

LEMMA RootInitial == InitDisk => RootInv
<1> SUFFICES ASSUME InitDisk PROVE RootInv
  OBVIOUS
<1>1. PICK v \in Roots :
        /\ made = [p \in Dirs |-> v[p] # "none"]
        /\ holds = [p \in Dirs |-> [e \in Entries |->
                     IF made[p] /\ e \in {Manifest} \cup Expected[v[p]] THEN v[p] ELSE "none"]]
  BY DEF InitDisk
<1>2. /\ wpc = [w \in Writers |-> "idle"] /\ job = [w \in Writers |-> NoJob]
      /\ begun = 0 /\ last = [p \in Dirs |-> None]
      /\ todo = [w \in Writers |-> {}] /\ alone = [w \in Writers |-> FALSE]
  BY DEF InitDisk
<1>3. v \in [Dirs -> Versions \cup {"none"}]
  BY RootsAssumption
<1>4. made \in [Dirs -> BOOLEAN] /\ holds \in [Dirs -> [Entries -> Contents]]
  BY <1>1, <1>3 DEF Contents
<1>5. DiskTypeOK
  BY <1>2, <1>4, InstallsAssumption DEF DiskTypeOK
<1>6. \A p \in Dirs : ~made[p] => holds[p] = Empty
  BY <1>1 DEF Empty
<1> QED BY <1>2, <1>5, <1>6 DEF RootInv, Active, AloneInstallSucceeds

\* No step of the request writes into the model root.
LEMMA ReaderWritesNothing ==
  (ReaderStep \/ Done \/ \E r \in Requests : Receive(r)) => UNCHANGED <<disk, writerVars>>
<1>1. Gate \/ Scan \/ Pick \/ Locate \/ Hash \/ Selected => UNCHANGED <<disk, writerVars>>
  BY DEF Gate, Scan, Pick, Locate, Hash, Selected
<1>2. Checkpoint \/ LoadAdapter \/ ReadBlobs \/ Run \/ Outputs => UNCHANGED <<disk, writerVars>>
  BY DEF Checkpoint, LoadAdapter, ReadBlobs, Run, Outputs
<1>3. Done \/ (\E r \in Requests : Receive(r)) => UNCHANGED <<disk, writerVars>>
  BY DEF Done, Receive
<1> QED BY <1>1, <1>2, <1>3 DEF ReaderStep

LEMMA RootStep == RootInv /\ [Next]_vars => RootInv'
<1> SUFFICES ASSUME RootInv, [Next]_vars PROVE RootInv'
  OBVIOUS
<1>1. CASE ReaderStep \/ Done \/ \E r \in Requests : Receive(r)
  BY <1>1, ReaderWritesNothing, RootKept
<1>2. CASE OthersStep
  <2>1. PICK w \in Writers : WriterStep(w)
    BY <1>2 DEF OthersStep
  <2> QED BY <2>1, WriterStepKeeps
<1>3. CASE UNCHANGED vars
  <2>1. UNCHANGED <<disk, writerVars>>
    BY <1>3 DEF vars
  <2> QED BY <2>1, RootKept
<1> QED BY <1>1, <1>2, <1>3 DEF Next

-----------------------------------------------------------------------------
(* The selection *)

\* Packages found once each have a first one in the order of the selection.
LEMMA PreferredIsOne ==
  ASSUME NEW S, S \subseteq Dirs \X Versions, S # {},
         \A c, d \in S : c[1] = d[1] => c = d
  PROVE  Preferred(S) \in S /\ \A d \in S \ {Preferred(S)} : Before(Preferred(S)[1], d[1])
<1> DEFINE green == {c \in S : rq.color = "auto" /\ Color[c[1]] = "green"}
           best  == IF green = {} THEN S ELSE green
           paths == {c[1] : c \in best}
<1>1. paths \subseteq Nat /\ paths # {} /\ best \subseteq S
  BY DirsAssumption DEF Dirs
<1>2. PICK m \in paths : \A n \in paths : m <= n
  BY <1>1, Least
<1>3. PICK c \in best : c[1] = m
  OBVIOUS
<1>4. c \in S
  BY <1>1, <1>3
<1>5. ASSUME NEW d \in S \ {c} PROVE Before(c[1], d[1])
  <2>1. c[1] \in Nat /\ d[1] \in Nat /\ c[1] # d[1]
    BY <1>4, <1>5, DirsAssumption DEF Dirs
  <2>2. CASE d \in best
    <3>1. c[1] < d[1]
      BY <1>2, <1>3, <2>1, <2>2
    <3>2. rq.color = "auto" => Color[c[1]] = Color[d[1]]
      <4>1. CASE green = {}
        <5>1. Color[c[1]] \in {"green", "blue"} /\ Color[d[1]] \in {"green", "blue"}
          BY <1>4, <1>5, CatalogAssumption
        <5> QED BY <1>4, <1>5, <4>1, <5>1
      <4>2. CASE green # {}
        BY <1>3, <2>2, <4>2
      <4> QED BY <4>1, <4>2
    <3> QED BY <3>1, <3>2 DEF Before
  <2>3. CASE d \notin best
    BY <1>3, <1>5, <2>3 DEF Before
  <2> QED BY <2>2, <2>3
<1> QED BY <1>4, <1>5 DEF Preferred

-----------------------------------------------------------------------------
(* Types of the request *)

\* What a request has found is one of the packages.
LEMMA PickTypes ==
  ASSUME TypeOK, ReadInv, cand # {}
  PROVE  /\ Preferred(cand) \in cand /\ Preferred(cand) \in Dirs \X Versions
         /\ \A d \in cand \ {Preferred(cand)} : Before(Preferred(cand)[1], d[1])
  BY PreferredIsOne DEF TypeOK, ReadInv

LEMMA AnswerTypes ==
  ASSUME NEW outcome \in {"ready", "blocked", "unsupported", "failed", "escaped"},
         NEW status \in {"missing", "checksum_mismatch", "ready"}, NEW judged \in BOOLEAN,
         NEW model \in {NoPick} \cup (Dirs \X Versions),
         Answers(outcome, status, judged, model)
  PROVE  reply' \in Reply /\ rpc' = "answered" /\ reply'.outcome = outcome
  BY DEF Answers, Reply

\* However a request ends, its answer is of this form.
LEMMA EndTypesOfRequest ==
  ASSUME TypeOK, \/ Fails \/ Escape
                 \/ \E o \in {"blocked", "unsupported"} : Blocked(o)
                 \/ \E st \in {"missing", "checksum_mismatch", "ready"},
                       m \in {NoPick, pick} : Judged(st, m)
  PROVE  reply' \in Reply /\ rpc' = "answered"
         /\ (reply'.outcome = "escaped" => Escape)
<1>1. NoPick \in {NoPick} \cup (Dirs \X Versions) /\ pick \in {NoPick} \cup (Dirs \X Versions)
  BY DEF TypeOK
<1>2. CASE Fails
  BY <1>1, <1>2, AnswerTypes DEF Fails
<1>3. ASSUME NEW o \in {"blocked", "unsupported"}, Blocked(o)
      PROVE  reply' \in Reply /\ rpc' = "answered" /\ reply'.outcome = o
  BY <1>1, <1>3, AnswerTypes DEF Blocked
<1>4. ASSUME NEW st \in {"missing", "checksum_mismatch", "ready"}, NEW m \in {NoPick, pick}, Judged(st, m)
      PROVE  reply' \in Reply /\ rpc' = "answered" /\ reply'.outcome # "escaped"
  <2>1. m \in {NoPick} \cup (Dirs \X Versions)
    BY <1>1
  <2>2. CASE gate \in {"mps", "no_mlx"}
    BY <1>4, <2>1, <2>2, AnswerTypes DEF Judged
  <2>3. CASE gate \notin {"mps", "no_mlx"}
    BY <1>4, <2>1, <2>3, AnswerTypes DEF Judged
  <2> QED BY <2>2, <2>3
<1>5. CASE Escape
  <2>1. CASE Unjudged
    BY <1>3, <1>5, <2>1 DEF Unjudged
  <2>2. CASE Fails
    BY <1>2, <1>5, <2>2
  <2>3. CASE Answers("escaped", "missing", FALSE, NoPick)
    BY <1>1, <1>5, <2>3, AnswerTypes
  <2> QED BY <1>5, <2>1, <2>2, <2>3 DEF Escape
<1> QED BY <1>2, <1>3, <1>4, <1>5

-----------------------------------------------------------------------------
(* The steps of the request *)

\* The request is answered; an exception only if a writer has been there.
LEMMA AnsweredKeeps ==
  ASSUME TypeOK, ReadInv, DiskTypeOK', UNCHANGED <<disk, env, rq, gate, next, cand, pick, touched>>,
         reply' \in Reply, rpc' = "answered", left' \subseteq Files, digest' = FALSE,
         ckpt' \in Files \cup {0}, weights' \in (Files \cup {0}) \X Contents,
         reply'.outcome = "escaped" => pick[1] \in touched
  PROVE  TypeOK' /\ ReadInv'
<1>1. TypeOK'
  BY DEF TypeOK
<1>2. ReadInv'
  BY DEF ReadInv, EscapesOnlyUnderWriters, disk
<1> QED BY <1>1, <1>2

\* It looks for a model.
LEMMA ScanKeeps ==
  ASSUME TypeOK, ReadInv, DiskTypeOK', NEW g \in Gates, StartScan(g), rpc # "answered",
         UNCHANGED <<disk, env, rq, left, touched, reply>>, digest' = FALSE,
         ckpt' \in Files \cup {0}, weights' \in (Files \cup {0}) \X Contents
  PROVE  TypeOK' /\ ReadInv'
<1>1. gate' = g /\ next' = 1 /\ cand' = {} /\ pick' = NoPick /\ rpc' = "scan"
  BY DEF StartScan
<1>2. next' \in 1 .. NDirs + 1
  BY <1>1, DirsAssumption
<1>3. TypeOK'
  BY <1>1, <1>2 DEF TypeOK
<1>4. reply'.outcome # "escaped"
  BY DEF ReadInv
<1>5. ReadInv'
  BY <1>1, <1>4 DEF ReadInv, EscapesOnlyUnderWriters
<1> QED BY <1>3, <1>5

\* It goes on with the package it has chosen.
LEMMA GoesOnKeeps ==
  ASSUME TypeOK, ReadInv, DiskTypeOK', rpc # "answered",
         UNCHANGED <<disk, env, rq, gate, next, cand, touched, reply>>,
         rpc' \in {"validate", "checkpoint", "adapter", "blobs", "run", "outputs"},
         pick' \in {NoPick} \cup (Dirs \X Versions), rpc' = "validate" => pick' \in cand,
         left' \subseteq Files, digest' \in BOOLEAN,
         digest' => /\ rpc' = "validate" /\ left' # {}
                    /\ pick'[1] \in touched \/ holds[pick'[1]][First(left')] # "none",
         ckpt' \in Files \cup {0}, weights' \in (Files \cup {0}) \X Contents
  PROVE  TypeOK' /\ ReadInv'
<1>1. TypeOK'
  BY DEF TypeOK
<1>2. reply'.outcome # "escaped"
  BY DEF ReadInv
<1>3. First(left)' = First(left')
  BY DEF First
<1>4. ReadInv'
  BY <1>2, <1>3 DEF ReadInv, EscapesOnlyUnderWriters, disk
<1> QED BY <1>1, <1>4

LEMMA GateKeeps ==
  ASSUME TypeOK, ReadInv, DiskTypeOK', Gate
  PROVE  TypeOK' /\ ReadInv'
<1>1. /\ rpc = "gate" /\ UNCHANGED <<disk, env, rq, left, digest, ckpt, weights, touched>>
  BY DEF Gate
<1>2. digest' = FALSE /\ rpc # "answered" /\ left' \subseteq Files /\ ckpt' \in Files \cup {0}
      /\ weights' \in (Files \cup {0}) \X Contents
  BY <1>1 DEF TypeOK, ReadInv
<1>3. \/ \E g \in Gates : StartScan(g) /\ UNCHANGED reply
      \/ Blocked("unsupported") /\ UNCHANGED <<gate, next, cand, pick>>
  <2>1. {"mps", "no_mlx", "open", "paths"} \subseteq Gates
    BY DEF Gates
  <2> QED BY <2>1 DEF Gate
<1>4. CASE \E g \in Gates : StartScan(g) /\ UNCHANGED reply
  BY <1>1, <1>2, <1>4, ScanKeeps
<1>5. CASE Blocked("unsupported") /\ UNCHANGED <<gate, next, cand, pick>>
  <2>1. reply' \in Reply /\ rpc' = "answered" /\ reply'.outcome = "unsupported"
    BY <1>5, AnswerTypes DEF Blocked
  <2> QED BY <1>1, <1>2, <1>5, <2>1, AnsweredKeeps
<1> QED BY <1>3, <1>4, <1>5

LEMMA ScanStepKeeps ==
  ASSUME TypeOK, ReadInv, DiskTypeOK', Scan
  PROVE  TypeOK' /\ ReadInv'
<1> DEFINE v == holds[next][Manifest]
<1>1. /\ rpc = "scan" /\ next <= NDirs /\ next' = next + 1
      /\ UNCHANGED <<disk, env, rpc, rq, gate, pick, left, digest, ckpt, weights, reply, touched>>
      /\ cand' = cand \/ (cand' = cand \cup {<<next, v>>} /\ v \in Versions)
  BY DEF Scan
<1>2. next \in Dirs /\ next' \in 1 .. NDirs + 1 /\ next < next' /\ \A p \in Dirs : p < next => p < next'
  BY <1>1, DirsAssumption DEF TypeOK, Dirs
<1>3. cand' \subseteq Dirs \X Versions
  BY <1>1, <1>2 DEF TypeOK
<1>4. TypeOK'
  BY <1>1, <1>2, <1>3 DEF TypeOK
<1>5. \A c \in cand' : c \in cand \/ c = <<next, v>>
  BY <1>1
<1>6. \A c \in cand : c[1] < next /\ c[1] \in Dirs
  BY <1>1 DEF ReadInv, TypeOK
<1>7. \A c \in cand' : c[1] < next'
  BY <1>2, <1>5, <1>6
<1>8. \A c, d \in cand' : c[1] = d[1] => c = d
  <2> SUFFICES ASSUME NEW c \in cand', NEW d \in cand', c[1] = d[1] PROVE c = d
    OBVIOUS
  <2>1. CASE c \in cand /\ d \in cand
    BY <2>1 DEF ReadInv
  <2>2. CASE c \in cand /\ d = <<next, v>>
    BY <1>2, <1>6, <2>2, DirsAssumption DEF Dirs
  <2>3. CASE c = <<next, v>> /\ d \in cand
    BY <1>2, <1>6, <2>3, DirsAssumption DEF Dirs
  <2> QED BY <1>5, <2>1, <2>2, <2>3
<1>9. \A c \in cand' : c[1] \in touched \/ holds[c[1]][Manifest] = c[2]
  BY <1>5 DEF ReadInv
<1> QED BY <1>1, <1>4, <1>7, <1>8, <1>9 DEF ReadInv, EscapesOnlyUnderWriters, disk

LEMMA PickKeeps ==
  ASSUME TypeOK, ReadInv, DiskTypeOK', Pick
  PROVE  TypeOK' /\ ReadInv'
<1>1. rpc = "scan" /\ UNCHANGED <<disk, env, rq, gate, next, cand, digest, weights, touched>>
  BY DEF Pick
<1>2. digest' = FALSE /\ left \subseteq Files /\ ckpt \in Files \cup {0}
      /\ weights' \in (Files \cup {0}) \X Contents
  BY <1>1 DEF TypeOK, ReadInv
<1>3. CASE cand = {} /\ Judged("missing", NoPick) /\ UNCHANGED <<pick, left, ckpt>>
  <2>1. reply' \in Reply /\ rpc' = "answered" /\ reply'.outcome # "escaped"
    <3>1. NoPick \in {NoPick} \cup (Dirs \X Versions)
      OBVIOUS
    <3> QED BY <1>3, <3>1, AnswerTypes DEF Judged
  <2> QED BY <1>1, <1>2, <1>3, <2>1, AnsweredKeeps
<1>4. CASE /\ cand # {} /\ pick' = Preferred(cand)
           /\ \/ rpc' = "adapter" /\ ckpt' = Weights[pick'[2]] /\ UNCHANGED left
              \/ rpc' = "validate" /\ left' = Expected[pick'[2]] /\ UNCHANGED ckpt
           /\ UNCHANGED reply
  <2>1. pick' \in cand /\ pick' \in Dirs \X Versions /\ pick'[2] \in Versions
    BY <1>4, PickTypes
  <2>2. Weights[pick'[2]] \in Files \cup {0} /\ Expected[pick'[2]] \subseteq Files
    <3>1. Expected[pick'[2]] \in (SUBSET Files) \ {{}}
      BY <2>1, ExpectedAssumption
    <3> QED BY <2>1, <3>1, CatalogAssumption
  <2>3. left' \subseteq Files /\ ckpt' \in Files \cup {0}
    BY <1>2, <1>4, <2>2
  <2> QED BY <1>1, <1>2, <1>4, <2>1, <2>3, GoesOnKeeps
<1> QED BY <1>3, <1>4 DEF Pick

\* A package whose directory is gone, or a file that is gone since it was
\* located, has been touched.
LEMMA LocateKeeps ==
  ASSUME TypeOK, RootInv, ReadInv, DiskTypeOK', Locate
  PROVE  TypeOK' /\ ReadInv'
<1> DEFINE p == pick[1]
           f == First(left)
<1>1. /\ rpc = "validate" /\ ~digest
      /\ UNCHANGED <<disk, env, rq, gate, next, cand, pick, left, ckpt, weights, touched>>
  BY DEF Locate
<1>2. /\ left' \subseteq Files /\ ckpt' \in Files \cup {0} /\ weights' \in (Files \cup {0}) \X Contents
      /\ pick \in cand /\ pick \in Dirs \X Versions /\ digest = FALSE
  BY <1>1 DEF TypeOK, ReadInv
<1>3. CASE ~made[p] /\ Escape /\ UNCHANGED digest
  <2>1. reply' \in Reply /\ rpc' = "answered"
    BY <1>3, EndTypesOfRequest
  <2>2. p \in touched
    <3>1. p \in Dirs /\ holds[p] = Empty
      BY <1>2, <1>3 DEF RootInv
    <3>2. holds[p][Manifest] = "none"
      BY <3>1 DEF Empty, Entries
    <3>3. pick[2] # "none"
      BY <1>2, VersionsAssumption
    <3> QED BY <1>2, <3>2, <3>3 DEF ReadInv
  <2> QED BY <1>1, <1>2, <1>3, <2>1, <2>2, AnsweredKeeps
<1>4. CASE FileMissing /\ UNCHANGED digest
  <2>1. \E st \in {"missing", "checksum_mismatch", "ready"}, m \in {NoPick, pick} : Judged(st, m)
    BY <1>4 DEF FileMissing
  <2>2. reply' \in Reply /\ rpc' = "answered"
    BY <2>1, EndTypesOfRequest
  <2>3. reply'.outcome # "escaped"
    BY <1>4 DEF FileMissing, Judged, Answers
  <2> QED BY <1>1, <1>2, <1>4, <2>2, <2>3, AnsweredKeeps
<1>5. CASE left # {} /\ holds[p][f] # "none" /\ digest' = TRUE /\ UNCHANGED <<rpc, reply>>
  <2>1. pick' = pick /\ left' = left
    BY <1>1
  <2> QED BY <1>1, <1>2, <1>5, <2>1, GoesOnKeeps
<1> QED BY <1>3, <1>4, <1>5 DEF Locate

LEMMA HashKeeps ==
  ASSUME TypeOK, ReadInv, DiskTypeOK', Hash
  PROVE  TypeOK' /\ ReadInv'
<1> DEFINE p == pick[1]
           f == First(left)
<1>1. /\ rpc = "validate" /\ digest /\ digest' = FALSE
      /\ UNCHANGED <<disk, env, rq, gate, next, cand, pick, ckpt, weights, touched>>
  BY DEF Hash
<1>2. /\ left \subseteq Files /\ ckpt' \in Files \cup {0} /\ weights' \in (Files \cup {0}) \X Contents
      /\ pick' \in cand /\ pick' \in Dirs \X Versions
      /\ p \in touched \/ holds[p][f] # "none"
  BY <1>1 DEF TypeOK, ReadInv
<1>3. CASE holds[p][f] = "none" /\ Escape /\ UNCHANGED left
  <2>1. reply' \in Reply /\ rpc' = "answered"
    BY <1>3, EndTypesOfRequest
  <2> QED BY <1>1, <1>2, <1>3, <2>1, AnsweredKeeps
<1>4. CASE left' = left \ {f} /\ UNCHANGED <<rpc, reply>>
  BY <1>1, <1>2, <1>4, GoesOnKeeps
<1>5. CASE Judged("checksum_mismatch", pick) /\ UNCHANGED left
  <2>1. reply' \in Reply /\ rpc' = "answered"
    BY <1>5, EndTypesOfRequest
  <2>2. reply'.outcome # "escaped"
    BY <1>5 DEF Judged, Answers
  <2> QED BY <1>1, <1>2, <1>5, <2>1, <2>2, AnsweredKeeps
<1> QED BY <1>3, <1>4, <1>5 DEF Hash

LEMMA SelectedKeeps ==
  ASSUME TypeOK, ReadInv, DiskTypeOK', Selected
  PROVE  TypeOK' /\ ReadInv'
<1>1. /\ rpc = "validate" /\ ~digest
      /\ UNCHANGED <<disk, env, rq, gate, next, cand, pick, left, digest, ckpt, weights, touched>>
  BY DEF Selected
<1>2. /\ left' \subseteq Files /\ ckpt' \in Files \cup {0} /\ weights' \in (Files \cup {0}) \X Contents
      /\ pick' \in {NoPick} \cup (Dirs \X Versions) /\ digest' = FALSE
  BY <1>1 DEF TypeOK, ReadInv
<1>3. CASE rpc' = "checkpoint" /\ UNCHANGED reply
  BY <1>1, <1>2, <1>3, GoesOnKeeps
<1>4. CASE Judged("ready", pick)
  <2>1. reply' \in Reply /\ rpc' = "answered"
    BY <1>4, EndTypesOfRequest
  <2>2. reply'.outcome # "escaped"
    BY <1>4 DEF Judged, Answers
  <2> QED BY <1>1, <1>2, <2>1, <2>2, AnsweredKeeps
<1> QED BY <1>3, <1>4 DEF Selected

LEMMA CheckpointKeeps ==
  ASSUME TypeOK, ReadInv, DiskTypeOK', Checkpoint
  PROVE  TypeOK' /\ ReadInv'
<1>1. /\ rpc = "checkpoint"
      /\ UNCHANGED <<disk, env, rq, gate, next, cand, pick, left, digest, weights, touched>>
      /\ ckpt' = 0 \/ ckpt' = CheckpointName(pick[1])
  BY DEF Checkpoint
<1>2. /\ left' \subseteq Files /\ weights' \in (Files \cup {0}) \X Contents
      /\ pick' \in {NoPick} \cup (Dirs \X Versions) /\ digest' = FALSE
      /\ pick \in {NoPick} \cup (Dirs \X Versions)
  BY <1>1 DEF TypeOK, ReadInv
<1>3. ckpt' \in Files \cup {0}
  BY <1>1, CatalogAssumption DEF CheckpointName
<1>4. CASE Answers("ready", "ready", TRUE, pick)
  BY <1>1, <1>2, <1>3, <1>4, AnswerTypes, AnsweredKeeps
<1>5. CASE rpc' = "adapter" /\ UNCHANGED reply
  BY <1>1, <1>2, <1>3, <1>5, GoesOnKeeps
<1> QED BY <1>4, <1>5 DEF Checkpoint

LEMMA LoadAdapterKeeps ==
  ASSUME TypeOK, ReadInv, DiskTypeOK', LoadAdapter
  PROVE  TypeOK' /\ ReadInv'
<1>1. /\ rpc = "adapter"
      /\ UNCHANGED <<disk, env, rq, gate, next, cand, pick, left, digest, ckpt, weights, touched>>
  BY DEF LoadAdapter
<1>2. /\ left' \subseteq Files /\ ckpt' \in Files \cup {0} /\ weights' \in (Files \cup {0}) \X Contents
      /\ pick' \in {NoPick} \cup (Dirs \X Versions) /\ digest' = FALSE
      /\ pick \in {NoPick} \cup (Dirs \X Versions)
  BY <1>1 DEF TypeOK, ReadInv
<1>3. \/ Answers("ready", "ready", TRUE, pick)
      \/ rpc' = "blobs" /\ UNCHANGED reply
      \/ Blocked("blocked")
      \/ Fails
  BY DEF LoadAdapter
<1>4. CASE Answers("ready", "ready", TRUE, pick)
  BY <1>1, <1>2, <1>4, AnswerTypes, AnsweredKeeps
<1>5. CASE rpc' = "blobs" /\ UNCHANGED reply
  BY <1>1, <1>2, <1>5, GoesOnKeeps
<1>6. CASE Blocked("blocked")
  BY <1>1, <1>2, <1>6, AnswerTypes, AnsweredKeeps DEF Blocked
<1>7. CASE Fails
  BY <1>1, <1>2, <1>7, AnswerTypes, AnsweredKeeps DEF Fails
<1> QED BY <1>3, <1>4, <1>5, <1>6, <1>7

LEMMA ReadBlobsKeeps ==
  ASSUME TypeOK, ReadInv, DiskTypeOK', ReadBlobs
  PROVE  TypeOK' /\ ReadInv'
<1>1. /\ rpc = "blobs"
      /\ UNCHANGED <<disk, env, rq, gate, next, cand, pick, left, digest, ckpt, weights, touched>>
  BY DEF ReadBlobs
<1>2. /\ left' \subseteq Files /\ ckpt' \in Files \cup {0} /\ weights' \in (Files \cup {0}) \X Contents
      /\ pick' \in {NoPick} \cup (Dirs \X Versions) /\ digest' = FALSE
  BY <1>1 DEF TypeOK, ReadInv
<1>3. CASE rpc' = "run" /\ UNCHANGED reply
  BY <1>1, <1>2, <1>3, GoesOnKeeps
<1>4. CASE Fails
  BY <1>1, <1>2, <1>4, AnswerTypes, AnsweredKeeps DEF Fails
<1> QED BY <1>3, <1>4 DEF ReadBlobs

LEMMA RunKeeps ==
  ASSUME TypeOK, ReadInv, DiskTypeOK', Run
  PROVE  TypeOK' /\ ReadInv'
<1> DEFINE found == IF ckpt = 0 THEN "none" ELSE holds[pick[1]][ckpt]
<1>1. rpc = "run" /\ UNCHANGED <<disk, env, rq, left, digest, ckpt, touched>>
  BY DEF Run
<1>2. /\ left' \subseteq Files /\ ckpt' \in Files \cup {0} /\ weights \in (Files \cup {0}) \X Contents
      /\ pick \in {NoPick} \cup (Dirs \X Versions) /\ digest' = FALSE
  BY <1>1 DEF TypeOK, ReadInv
<1>3. CASE /\ ckpt = 0 \/ found \in Versions
           /\ weights' = <<ckpt, found>> /\ rpc' = "outputs"
           /\ UNCHANGED <<gate, next, cand, pick, reply>>
  <2>1. found \in Contents
    BY <1>3 DEF Contents
  <2>2. weights' \in (Files \cup {0}) \X Contents
    BY <1>1, <1>2, <1>3, <2>1
  <2> QED BY <1>1, <1>2, <1>3, <2>2, GoesOnKeeps
<1>4. CASE Fails /\ UNCHANGED <<gate, next, cand, pick, weights>>
  BY <1>1, <1>2, <1>4, AnswerTypes, AnsweredKeeps DEF Fails
<1>5. CASE StartScan("mlx_failed") /\ UNCHANGED <<reply, weights>>
  <2>1. "mlx_failed" \in Gates
    BY DEF Gates
  <2> QED BY <1>1, <1>2, <1>5, <2>1, ScanKeeps
<1> QED BY <1>3, <1>4, <1>5 DEF Run, AdapterFails

LEMMA OutputsKeeps ==
  ASSUME TypeOK, ReadInv, DiskTypeOK', Outputs
  PROVE  TypeOK' /\ ReadInv'
<1>1. UNCHANGED <<disk, env, rq, gate, next, cand, pick, left, digest, ckpt, weights, touched>>
      /\ rpc = "outputs"
  BY DEF Outputs
<1>2. /\ left' \subseteq Files /\ ckpt' \in Files \cup {0} /\ weights' \in (Files \cup {0}) \X Contents
      /\ pick \in {NoPick} \cup (Dirs \X Versions) /\ digest' = FALSE
  BY <1>1 DEF TypeOK, ReadInv
<1>3. CASE Answers("ready", "ready", TRUE, pick)
  BY <1>1, <1>2, <1>3, AnswerTypes, AnsweredKeeps
<1>4. CASE Fails
  BY <1>1, <1>2, <1>4, AnswerTypes, AnsweredKeeps DEF Fails
<1> QED BY <1>3, <1>4 DEF Outputs

-----------------------------------------------------------------------------
(* The choice *)

\* What can be seen of the packages is the same.
LEMMA SameSight ==
  ASSUME UNCHANGED <<disk, env, rq, gate, touched>>
  PROVE  /\ \A p : Eligible(p)' <=> Eligible(p)
         /\ \A p : Fits(p)' <=> Fits(p)
         /\ \A p, q : Before(p, q)' <=> Before(p, q)
         /\ \A p, v : Whole(p, v)' <=> Whole(p, v)
         /\ \A p : Standing(p)' = Standing(p)
         /\ Undisturbed' = Undisturbed /\ Rivals' = Rivals
<1>1. \A p : Fits(p)' <=> Fits(p)
  BY DEF Fits, Effective
<1>2. \A p, q : Before(p, q)' <=> Before(p, q)
  BY DEF Before
<1>3. \A p, v : Whole(p, v)' <=> Whole(p, v)
  BY DEF Whole, disk
<1>4. \A p : Eligible(p)' <=> Eligible(p)
  BY <1>1, <1>3 DEF Eligible, Listed, ByFixture, disk
<1>5. Undisturbed' = Undisturbed
  BY <1>4 DEF Undisturbed
<1>6. Rivals' = Rivals
  BY <1>1, <1>2, <1>5 DEF Rivals
<1>7. \A p : Standing(p)' = Standing(p)
  BY <1>3 DEF Standing, First, disk
<1> QED BY <1>1, <1>2, <1>3, <1>4, <1>5, <1>6, <1>7

\* No package goes before one that goes before it.
LEMMA BeforeIsStrict ==
  ASSUME NEW p \in Dirs, NEW q \in Dirs, Before(p, q)
  PROVE  ~Before(q, p) /\ p # q
  BY DirsAssumption DEF Before, Dirs

\* Without rivals the selected package is the best one, and as it was read.
LEMMA Verdict ==
  ASSUME TypeOK, ReadInv, ChoiceInv, Picked, Rivals = {}
  PROVE  /\ pick[1] \in Undisturbed /\ pick = <<pick[1], holds[pick[1]][Manifest]>>
         /\ pick[2] = holds[pick[1]][Manifest]
         /\ \A q \in Undisturbed \ {pick[1]} : Before(pick[1], q)
<1>1. pick \in cand /\ \A d \in cand \ {pick} : Before(pick[1], d[1])
  BY DEF ChoiceInv
<1>2. pick[1] \in Dirs /\ pick = <<pick[1], pick[2]>> /\ cand \subseteq Dirs \X Versions
  BY <1>1 DEF TypeOK
<1>3. \A q \in Undisturbed \ {pick[1]} : Before(pick[1], q)
  <2> SUFFICES ASSUME NEW q \in Undisturbed \ {pick[1]} PROVE Before(pick[1], q)
    OBVIOUS
  <2>1. PICK c \in cand : c[1] = q
    BY DEF ChoiceInv
  <2> QED BY <1>1, <2>1
<1>4. pick[1] \notin touched
  <2> SUFFICES ASSUME pick[1] \in touched PROVE FALSE
    OBVIOUS
  <2>1. Fits(pick[1])
    BY <1>1 DEF ChoiceInv
  <2>2. PICK p \in Undisturbed : Before(p, pick[1])
    BY <2>1 DEF Rivals
  <2>3. p \in Dirs /\ p # pick[1]
    BY <2>2 DEF Undisturbed
  <2>4. Before(pick[1], p)
    BY <1>3, <2>3
  <2> QED BY <1>2, <2>2, <2>3, <2>4, BeforeIsStrict
<1>5. holds[pick[1]][Manifest] = pick[2]
  BY <1>1, <1>4 DEF ReadInv
<1>6. Eligible(pick[1])
  BY <1>1, <1>4 DEF ChoiceInv
<1> QED BY <1>2, <1>3, <1>4, <1>5, <1>6 DEF Undisturbed

\* The request is answered.
LEMMA ChoiceAnswered ==
  ASSUME ChoiceInv, UNCHANGED <<disk, env, rq, gate, touched, cand>>, rpc' = "answered",
         StatusIsTrue', WeightsAreAnnounced'
  PROVE  ChoiceInv'
  BY SameSight DEF ChoiceInv, Picked

\* An answer that says nothing of a model, ...
LEMMA ChoiceUnjudged ==
  ASSUME ChoiceInv, UNCHANGED <<disk, env, rq, gate, touched, cand>>,
         NEW outcome \in {"blocked", "unsupported", "failed", "escaped"},
         Answers(outcome, "missing", FALSE, NoPick)
  PROVE  ChoiceInv'
<1>1. rpc' = "answered" /\ reply'.outcome = outcome /\ reply'.judged = FALSE
  BY DEF Answers
<1> QED BY <1>1, ChoiceAnswered DEF StatusIsTrue, WeightsAreAnnounced

LEMMA ChoiceFails ==
  ASSUME ChoiceInv, UNCHANGED <<disk, env, rq, gate, touched, cand>>,
         Fails \/ Escape \/ Blocked("blocked") \/ Blocked("unsupported")
  PROVE  ChoiceInv'
<1>1. \E outcome \in {"blocked", "unsupported", "failed", "escaped"} :
        Answers(outcome, "missing", FALSE, NoPick)
  BY DEF Fails, Escape, Blocked, Unjudged
<1> QED BY <1>1, ChoiceUnjudged

\* ... and one that says how the selected one stands.
LEMMA ChoiceJudged ==
  ASSUME TypeOK, ReadInv, ChoiceInv, Picked, UNCHANGED <<disk, env, rq, gate, touched, cand>>,
         NEW outcome, NEW status, Answers(outcome, status, TRUE, pick),
         pick[1] \in Undisturbed /\ pick[2] = holds[pick[1]][Manifest] => status = Standing(pick[1]),
         outcome = "ready" /\ rq.cmd = "infer" /\ WeightsKnown => weights' = <<Weights[pick[2]], pick[2]>>
  PROVE  ChoiceInv'
<1>1. /\ rpc' = "answered" /\ reply'.outcome = outcome /\ reply'.status = status
      /\ reply'.model = pick
  BY DEF Answers
<1>2. StatusIsTrue'
  <2> SUFFICES ASSUME Rivals = {} PROVE StatusIsTrue'
    BY SameSight DEF StatusIsTrue
  <2>1. /\ pick[1] \in Undisturbed /\ pick = <<pick[1], holds[pick[1]][Manifest]>>
        /\ pick[2] = holds[pick[1]][Manifest]
        /\ \A q \in Undisturbed \ {pick[1]} : Before(pick[1], q)
    BY Verdict
  <2>2. holds' = holds
    BY DEF disk
  <2>4. PICK p : p = pick[1]
    OBVIOUS
  <2>3. /\ p \in Undisturbed' /\ \A q \in Undisturbed' \ {p} : Before(p, q)'
        /\ reply'.model = <<p, holds'[p][Manifest]>> /\ reply'.status = Standing(p)'
    BY <1>1, <2>1, <2>2, <2>4, SameSight
  <2> QED BY <2>3 DEF StatusIsTrue
<1>3. WeightsAreAnnounced'
  BY <1>1 DEF WeightsAreAnnounced, WeightsKnown
<1> QED BY <1>1, <1>2, <1>3, ChoiceAnswered

\* It looks for a model, ...
LEMMA ChoiceScan ==
  ASSUME NEW g, StartScan(g)
  PROVE  ChoiceInv'
<1>1. next' = 1 /\ cand' = {} /\ rpc' = "scan"
  BY DEF StartScan
<1>2. \A p \in Undisturbed' : ~(p < next')
  BY <1>1, DirsAssumption DEF Undisturbed, Dirs
<1> QED BY <1>1, <1>2 DEF ChoiceInv, Picked, StatusIsTrue, WeightsAreAnnounced

\* ... and goes on with the one it has chosen.
LEMMA ChoiceGoesOn ==
  ASSUME ChoiceInv, Picked, UNCHANGED <<disk, env, rq, gate, next, cand, pick, touched>>,
         rpc' \in {"validate", "checkpoint", "adapter", "blobs", "run", "outputs"},
         rpc' = "validate" =>
           /\ left' \subseteq Expected[pick[2]]
           /\ \A g \in Expected[pick[2]] \ left' :
                /\ pick[1] \in touched \/ holds[pick[1]][g] = pick[2]
                /\ \A f \in left' : g < f,
         rpc' # "validate" => pick[1] \in touched \/ Whole(pick[1], pick[2]),
         rpc' \in {"adapter", "blobs", "run", "outputs"} /\ WeightsKnown => ckpt' = Weights[pick[2]],
         rpc' = "outputs" /\ WeightsKnown => weights' = <<Weights[pick[2]], pick[2]>>
  PROVE  ChoiceInv'
<1>1. holds' = holds /\ (WeightsKnown' <=> WeightsKnown)
  BY DEF disk, WeightsKnown
<1>2. (rpc' # "validate" => pick'[1] \in touched' \/ Whole(pick[1], pick[2])')
  BY <1>1 DEF Whole
<1>3. /\ \A c \in cand' : Fits(c[1])' /\ (c[1] \in touched' \/ Eligible(c[1])')
      /\ \A p \in Undisturbed' : \E c \in cand' : c[1] = p
      /\ pick' \in cand' /\ \A d \in cand' \ {pick'} : Before(pick[1], d[1])'
  <2>1. \A c \in cand : Fits(c[1])' /\ (c[1] \in touched \/ Eligible(c[1])')
    BY SameSight DEF ChoiceInv
  <2>2. \A d \in cand \ {pick} : Before(pick[1], d[1])'
    BY DEF ChoiceInv, Before
  <2> QED BY <2>1, <2>2, SameSight DEF ChoiceInv
<1>4. rpc' \notin {"scan", "answered"}
  OBVIOUS
<1> QED BY <1>1, <1>2, <1>3, <1>4 DEF ChoiceInv, StatusIsTrue, WeightsAreAnnounced

LEMMA GateChooses ==
  ASSUME ChoiceInv, Gate
  PROVE  ChoiceInv'
<1>1. UNCHANGED <<disk, env, rq, touched>>
  BY DEF Gate
<1>2. \/ \E g \in Gates : StartScan(g)
      \/ Blocked("unsupported") /\ UNCHANGED <<gate, cand>>
  <2>1. {"mps", "no_mlx", "open", "paths"} \subseteq Gates
    BY DEF Gates
  <2> QED BY <2>1 DEF Gate
<1> QED BY <1>1, <1>2, ChoiceScan, ChoiceFails

LEMMA ScanChooses ==
  ASSUME TypeOK, ChoiceInv, Scan
  PROVE  ChoiceInv'
<1> DEFINE v == holds[next][Manifest]
           keeps == /\ Listed(next) /\ v \in Versions /\ Fits(next)
                    /\ ByFixture => Whole(next, v)
<1>1. /\ rpc = "scan" /\ rpc' = "scan" /\ next <= NDirs /\ next' = next + 1
      /\ UNCHANGED <<disk, env, rq, gate, touched>>
      /\ cand' = IF keeps THEN cand \cup {<<next, v>>} ELSE cand
  BY DEF Scan
<1>2. keeps <=> Eligible(next)
  BY DEF Eligible
<1>3. \A c \in cand' : Fits(c[1])' /\ (c[1] \in touched' \/ Eligible(c[1])')
  <2> SUFFICES ASSUME NEW c \in cand' PROVE Fits(c[1]) /\ (c[1] \in touched \/ Eligible(c[1]))
    BY <1>1, SameSight
  <2>1. CASE c \in cand
    BY <2>1 DEF ChoiceInv
  <2>2. CASE c \notin cand
    <3>1. keeps /\ c[1] = next
      BY <1>1, <2>2
    <3> QED BY <1>2, <3>1
  <2> QED BY <2>1, <2>2
<1>4. \A p \in Undisturbed' : p < next' => \E c \in cand' : c[1] = p
  <2> SUFFICES ASSUME NEW p \in Undisturbed, p < next + 1 PROVE \E c \in cand' : c[1] = p
    BY <1>1, SameSight
  <2>1. p \in Nat /\ next \in Nat /\ Eligible(p)
    BY DirsAssumption DEF Undisturbed, Dirs, TypeOK
  <2>2. CASE p < next
    <3>1. PICK c \in cand : c[1] = p
      BY <1>1, <2>2 DEF ChoiceInv
    <3> QED BY <1>1, <3>1
  <2>3. CASE p = next
    <3>1. cand' = cand \cup {<<next, v>>}
      BY <1>1, <1>2, <2>1, <2>3
    <3>2. <<next, v>> \in cand' /\ <<next, v>>[1] = p
      BY <2>3, <3>1
    <3> HIDE DEF v
    <3> QED BY <3>2
  <2> QED BY <2>1, <2>2, <2>3
<1> QED BY <1>1, <1>3, <1>4 DEF ChoiceInv, Picked, StatusIsTrue, WeightsAreAnnounced

LEMMA PickChooses ==
  ASSUME TypeOK, ReadInv, ChoiceInv, Pick
  PROVE  ChoiceInv'
<1>1. rpc = "scan" /\ next > NDirs
      /\ UNCHANGED <<disk, env, rq, gate, next, cand, touched>>
  BY DEF Pick
<1>2. \A p \in Undisturbed : \E c \in cand : c[1] = p
  <2> SUFFICES ASSUME NEW p \in Undisturbed PROVE \E c \in cand : c[1] = p
    OBVIOUS
  <2>1. p < next
    BY <1>1, DirsAssumption DEF Undisturbed, Dirs, TypeOK
  <2> QED BY <1>1, <2>1 DEF ChoiceInv
<1>3. CASE cand = {} /\ Judged("missing", NoPick)
  <2>1. /\ rpc' = "answered" /\ reply'.status = "missing" /\ reply'.model = NoPick
        /\ reply'.outcome # "ready"
    BY <1>3 DEF Judged, Answers
  <2>2. Undisturbed' = {}
    BY <1>1, <1>2, <1>3, SameSight
  <2> QED BY <1>1, <2>1, <2>2, ChoiceAnswered DEF StatusIsTrue, WeightsAreAnnounced
<1>4. CASE /\ cand # {} /\ pick' = Preferred(cand)
           /\ \/ ByFixture /\ rpc' = "adapter" /\ ckpt' = Weights[pick'[2]]
              \/ rpc' = "validate" /\ left' = Expected[pick'[2]]
  <2>1. PICK c : c = Preferred(cand)
    OBVIOUS
  <2>2. c \in cand /\ c \in Dirs \X Versions /\ \A d \in cand \ {c} : Before(c[1], d[1])
    BY <1>4, <2>1, PickTypes
  <2>3. /\ \A d \in cand' : Fits(d[1])' /\ (d[1] \in touched' \/ Eligible(d[1])')
        /\ \A p \in Undisturbed' : \E d \in cand' : d[1] = p
    BY <1>1, <1>2, SameSight DEF ChoiceInv
  <2>4. pick' \in cand' /\ \A d \in cand' \ {pick'} : Before(pick[1], d[1])'
    <3>1. \A d \in cand \ {c} : Before(c[1], d[1])'
      BY <1>1, <2>2 DEF Before
    <3> QED BY <1>1, <1>4, <2>1, <2>2, <3>1 DEF Before
  <2>5. CASE ByFixture /\ rpc' = "adapter" /\ ckpt' = Weights[pick'[2]]
    <3>1. c[1] \in touched \/ (Eligible(c[1]) /\ holds[c[1]][Manifest] = c[2])
      BY <2>2 DEF ChoiceInv, ReadInv
    <3>2. c[1] \in touched \/ Whole(c[1], c[2])
      BY <2>5, <3>1 DEF Eligible
    <3>3. pick'[1] \in touched' \/ Whole(pick[1], pick[2])'
      BY <1>1, <1>4, <2>1, <3>2 DEF Whole, disk
    <3> QED BY <2>3, <2>4, <2>5, <3>3 DEF ChoiceInv, StatusIsTrue, WeightsAreAnnounced
  <2>6. CASE rpc' = "validate" /\ left' = Expected[pick'[2]]
    BY <2>3, <2>4, <2>6 DEF ChoiceInv, StatusIsTrue, WeightsAreAnnounced
  <2> QED BY <1>4, <2>5, <2>6
<1> QED BY <1>3, <1>4 DEF Pick

\* The first file of a validation that is not good decides what it says.
LEMMA StandingOf ==
  ASSUME TypeOK, ReadInv, ChoiceInv, rpc = "validate", pick[1] \in Undisturbed,
         pick[2] = holds[pick[1]][Manifest]
  PROVE  /\ left = {} => Standing(pick[1]) = "ready"
         /\ left # {} /\ holds[pick[1]][First(left)] = "none" => Standing(pick[1]) = "missing"
         /\ left # {} /\ holds[pick[1]][First(left)] \notin {"none", pick[2]} =>
              Standing(pick[1]) = "checksum_mismatch"
<1> DEFINE p == pick[1]
           v == pick[2]
           gone  == {f \in Expected[v] : holds[p][f] = "none"}
           wrong == {f \in Expected[v] : holds[p][f] \notin {"none", v}}
<1>1. /\ v \in Versions /\ v # "none" /\ p \notin touched /\ Expected[v] \subseteq Entries
      /\ Expected[v] \subseteq Nat
  <2>1. pick \in Dirs \X Versions /\ p \notin touched
    BY DEF ReadInv, TypeOK, Undisturbed
  <2>2. Expected[v] \in (SUBSET Files) \ {{}}
    BY <2>1, ExpectedAssumption
  <2> QED BY <2>1, <2>2, VersionsAssumption, FilesAssumption DEF Files, Entries
<1>2. left \subseteq Expected[v] /\ \A g \in Expected[v] \ left : holds[p][g] = v /\ \A f \in left : g < f
  BY <1>1 DEF ChoiceInv
<1>3. Standing(p) = IF Whole(p, v) THEN "ready"
                    ELSE IF gone # {} /\ \A f \in wrong : First(gone) < f THEN "missing"
                    ELSE "checksum_mismatch"
  BY DEF Standing
<1>4. CASE left = {}
  BY <1>2, <1>3, <1>4 DEF Whole
<1>5. CASE left # {}
  <2> DEFINE f == First(left)
  <2>1. f \in left /\ f \in Expected[v] /\ \A g \in left : f <= g
    BY <1>1, <1>2, <1>5, FirstIsOne
  <2>2. gone \subseteq left /\ wrong \subseteq left /\ gone \subseteq Entries
    BY <1>1, <1>2
  <2>3. gone # {} => First(gone) \in gone /\ \A g \in gone : First(gone) <= g
    BY <2>2, FirstIsOne
  <2>4. ASSUME holds[p][f] = "none" PROVE Standing(p) = "missing"
    <3>1. f \in gone /\ ~Whole(p, v)
      BY <1>1, <2>1, <2>4 DEF Whole
    <3>2. First(gone) = f
      <4>1. First(gone) \in left /\ First(gone) \in Nat /\ f \in Nat
        BY <1>1, <1>2, <2>1, <2>2, <2>3, <3>1
      <4>2. First(gone) <= f /\ f <= First(gone)
        BY <2>1, <2>3, <3>1, <4>1
      <4> HIDE DEF f, gone
      <4> QED BY <4>1, <4>2
    <3>3. \A g \in wrong : f < g
      BY <1>1, <2>1, <2>2, <2>4
    <3> QED BY <1>3, <3>1, <3>2, <3>3
  <2>5. ASSUME holds[p][f] \notin {"none", v} PROVE Standing(p) = "checksum_mismatch"
    <3>1. f \in wrong /\ ~Whole(p, v)
      BY <2>1, <2>5 DEF Whole
    <3>2. ASSUME gone # {} PROVE ~(First(gone) < f)
      <4>1. First(gone) \in left /\ First(gone) \in Nat /\ f \in Nat
        BY <1>1, <1>2, <2>1, <2>2, <2>3, <3>2
      <4>2. f <= First(gone)
        BY <2>1, <4>1
      <4> HIDE DEF f, gone
      <4> QED BY <4>1, <4>2
    <3> QED BY <1>3, <3>1, <3>2
  <2> QED BY <1>5, <2>4, <2>5
<1> QED BY <1>4, <1>5

LEMMA LocateChooses ==
  ASSUME TypeOK, ReadInv, ChoiceInv, Locate
  PROVE  ChoiceInv'
<1> DEFINE p == pick[1]
           f == First(left)
<1>1. /\ rpc = "validate" /\ Picked /\ left # {}
      /\ UNCHANGED <<disk, env, rq, gate, next, cand, pick, left, ckpt, weights, touched>>
  BY DEF Locate, Picked
<1>2. CASE Escape
  BY <1>1, <1>2, ChoiceFails
<1>3. CASE holds[p][f] = "none" /\ FileMissing
  <2>1. PICK o \in {"unsupported", "blocked"} : Answers(o, "missing", TRUE, pick)
    BY <1>3 DEF FileMissing, Judged
  <2>2. pick[1] \in Undisturbed /\ pick[2] = holds[pick[1]][Manifest] => Standing(pick[1]) = "missing"
    BY <1>1, <1>3, StandingOf
  <2> QED BY <1>1, <2>1, <2>2, ChoiceJudged
<1>4. CASE UNCHANGED rpc
  <2>1. /\ left \subseteq Expected[pick[2]]
        /\ \A g \in Expected[pick[2]] \ left :
             /\ pick[1] \in touched \/ holds[pick[1]][g] = pick[2]
             /\ \A e \in left : g < e
    BY <1>1 DEF ChoiceInv
  <2> QED BY <1>1, <1>4, <2>1, ChoiceGoesOn
<1> QED BY <1>2, <1>3, <1>4 DEF Locate

LEMMA HashChooses ==
  ASSUME TypeOK, ReadInv, ChoiceInv, Hash
  PROVE  ChoiceInv'
<1> DEFINE p == pick[1]
           f == First(left)
<1>1. /\ rpc = "validate" /\ Picked
      /\ UNCHANGED <<disk, env, rq, gate, next, cand, pick, ckpt, weights, touched>>
  BY DEF Hash, Picked
<1>2. CASE Escape
  BY <1>1, <1>2, ChoiceFails
<1>3. CASE IsGood(p, f) /\ left' = left \ {f} /\ UNCHANGED rpc
  <2>3. left # {}
    BY DEF Hash, ReadInv
  <2>1. /\ left \subseteq Expected[pick[2]] /\ left \subseteq Entries /\ left \subseteq Nat
        /\ \A g \in Expected[pick[2]] \ left :
             /\ pick[1] \in touched \/ holds[pick[1]][g] = pick[2]
             /\ \A e \in left : g < e
    BY <1>1, FilesAssumption DEF ChoiceInv, TypeOK, Entries, Files
  <2>2. \A g \in Expected[pick[2]] \ left' :
          /\ pick[1] \in touched \/ holds[pick[1]][g] = pick[2]
          /\ \A e \in left' : g < e
    <3> SUFFICES ASSUME NEW g \in Expected[pick[2]] \ left'
                 PROVE  /\ pick[1] \in touched \/ holds[pick[1]][g] = pick[2]
                        /\ \A e \in left' : g < e
      OBVIOUS
    <3>1. CASE g \notin left
      BY <1>3, <2>1, <3>1
    <3>2. CASE g \in left
      <4>1. g = f /\ \A e \in left : f <= e
        BY <1>3, <2>1, <2>3, <3>2, FirstIsOne
      <4>2. \A e \in left' : e \in left /\ e # f
        BY <1>3
      <4>3. holds[pick[1]][g] = pick[2]
        BY <1>3, <4>1 DEF IsGood
      <4>4. g \in Nat /\ \A e \in left' : e \in Nat /\ g <= e /\ e # g
        BY <2>1, <3>2, <4>1, <4>2
      <4>5. \A e \in left' : g < e
        BY <4>4
      <4> QED BY <4>3, <4>5
    <3> QED BY <3>1, <3>2
  <2> QED BY <1>1, <1>3, <2>1, <2>2, ChoiceGoesOn
<1>4. CASE holds[p][f] # "none" /\ ~IsGood(p, f) /\ Judged("checksum_mismatch", pick)
  <2>1. PICK o \in {"unsupported", "blocked"} : Answers(o, "checksum_mismatch", TRUE, pick)
    BY <1>4 DEF Judged
  <2>2. left # {}
    BY DEF Hash, ReadInv
  <2>3. pick[1] \in Undisturbed /\ pick[2] = holds[pick[1]][Manifest]
          => Standing(pick[1]) = "checksum_mismatch"
    BY <1>1, <1>4, <2>2, StandingOf DEF IsGood
  <2> QED BY <1>1, <2>1, <2>3, ChoiceJudged
<1> QED BY <1>2, <1>3, <1>4 DEF Hash

LEMMA SelectedChooses ==
  ASSUME TypeOK, ReadInv, ChoiceInv, Selected
  PROVE  ChoiceInv'
<1>1. /\ rpc = "validate" /\ Picked /\ left = {}
      /\ UNCHANGED <<disk, env, rq, gate, next, cand, pick, left, ckpt, weights, touched>>
  BY DEF Selected, Picked
<1>2. CASE gate = "open" /\ rpc' = "checkpoint"
  <2>1. pick[1] \in touched \/ Whole(pick[1], pick[2])
    BY <1>1 DEF ChoiceInv, Whole
  <2> QED BY <1>1, <1>2, <2>1, ChoiceGoesOn
<1>3. CASE Judged("ready", pick)
  <2>1. PICK o \in {"unsupported", "blocked"} : Answers(o, "ready", TRUE, pick)
    BY <1>3 DEF Judged
  <2>2. pick[1] \in Undisturbed /\ pick[2] = holds[pick[1]][Manifest] => Standing(pick[1]) = "ready"
    BY <1>1, StandingOf
  <2> QED BY <1>1, <2>1, <2>2, ChoiceJudged
<1> QED BY <1>2, <1>3 DEF Selected

\* A whole package stands well.
LEMMA WholeIsReady ==
  ASSUME ChoiceInv, Picked, rpc # "validate",
         pick[1] \in Undisturbed, pick[2] = holds[pick[1]][Manifest]
  PROVE  Standing(pick[1]) = "ready"
  BY DEF ChoiceInv, Undisturbed, Standing

LEMMA CheckpointChooses ==
  ASSUME TypeOK, ReadInv, ChoiceInv, Checkpoint
  PROVE  ChoiceInv'
<1> DEFINE f == CheckpointName(pick[1])
<1>1. /\ rpc = "checkpoint" /\ Picked
      /\ UNCHANGED <<disk, env, rq, gate, next, cand, pick, left, weights, touched>>
      /\ ckpt' = IF f # 0 /\ holds[pick[1]][f] # "none" THEN f ELSE 0
  BY DEF Checkpoint, Picked
<1>2. CASE rq.cmd = "warmup" /\ Answers("ready", "ready", TRUE, pick)
  <2>1. pick[1] \in Undisturbed /\ pick[2] = holds[pick[1]][Manifest] => Standing(pick[1]) = "ready"
    BY <1>1, WholeIsReady
  <2> QED BY <1>1, <1>2, <2>1, ChoiceJudged
<1>3. CASE rpc' = "adapter"
  <2>1. pick[1] \in touched \/ Whole(pick[1], pick[2])
    BY <1>1 DEF ChoiceInv
  <2>2. ASSUME WeightsKnown PROVE ckpt' = Weights[pick[2]]
    <3>1. pick[1] \notin touched /\ env.root /\ Weights[pick[2]] \in Expected[pick[2]]
      BY <2>2 DEF WeightsKnown
    <3>2. pick \in cand /\ pick[2] \in Versions
      BY <1>1 DEF ChoiceInv, TypeOK
    <3>3. holds[pick[1]][Manifest] = pick[2] /\ holds[pick[1]][Weights[pick[2]]] = pick[2]
      BY <2>1, <3>1, <3>2 DEF ReadInv, Whole
    <3>4. pick[2] # "none"
      BY <3>2, VersionsAssumption
    <3>5. Weights[pick[2]] # 0
      <4>1. Expected[pick[2]] \in (SUBSET Files) \ {{}}
        BY <3>2, ExpectedAssumption
      <4> QED BY <3>1, <4>1, FilesAssumption DEF Files
    <3>6. f = Weights[pick[2]]
      BY <3>1, <3>2, <3>3 DEF CheckpointName
    <3> HIDE DEF f
    <3> QED BY <1>1, <3>3, <3>4, <3>5, <3>6
  <2> QED BY <1>1, <1>3, <2>1, <2>2, ChoiceGoesOn
<1> QED BY <1>2, <1>3 DEF Checkpoint

LEMMA LoadAdapterChooses ==
  ASSUME TypeOK, ReadInv, ChoiceInv, LoadAdapter
  PROVE  ChoiceInv'
<1>1. /\ rpc = "adapter" /\ Picked
      /\ UNCHANGED <<disk, env, rq, gate, next, cand, pick, left, ckpt, weights, touched>>
  BY DEF LoadAdapter, Picked
<1>2. CASE rq.cmd = "warmup" /\ Answers("ready", "ready", TRUE, pick)
  <2>1. pick[1] \in Undisturbed /\ pick[2] = holds[pick[1]][Manifest] => Standing(pick[1]) = "ready"
    BY <1>1, WholeIsReady
  <2> QED BY <1>1, <1>2, <2>1, ChoiceJudged
<1>3. CASE rpc' = "blobs"
  <2>1. /\ pick[1] \in touched \/ Whole(pick[1], pick[2])
        /\ WeightsKnown => ckpt' = Weights[pick[2]]
    BY <1>1 DEF ChoiceInv
  <2> QED BY <1>1, <1>3, <2>1, ChoiceGoesOn
<1>4. CASE Blocked("blocked") \/ Fails
  BY <1>1, <1>4, ChoiceFails
<1> QED BY <1>2, <1>3, <1>4 DEF LoadAdapter

LEMMA ReadBlobsChooses ==
  ASSUME TypeOK, ReadInv, ChoiceInv, ReadBlobs
  PROVE  ChoiceInv'
<1>1. /\ rpc = "blobs" /\ Picked
      /\ UNCHANGED <<disk, env, rq, gate, next, cand, pick, left, ckpt, weights, touched>>
  BY DEF ReadBlobs, Picked
<1>2. CASE rpc' = "run"
  <2>1. /\ pick[1] \in touched \/ Whole(pick[1], pick[2])
        /\ WeightsKnown => ckpt' = Weights[pick[2]]
    BY <1>1 DEF ChoiceInv
  <2> QED BY <1>1, <1>2, <2>1, ChoiceGoesOn
<1>3. CASE Fails
  BY <1>1, <1>3, ChoiceFails
<1> QED BY <1>2, <1>3 DEF ReadBlobs

LEMMA RunChooses ==
  ASSUME TypeOK, ReadInv, ChoiceInv, Run
  PROVE  ChoiceInv'
<1> DEFINE found == IF ckpt = 0 THEN "none" ELSE holds[pick[1]][ckpt]
<1>1. rpc = "run" /\ Picked /\ UNCHANGED <<disk, env, rq, left, ckpt, touched>>
  BY DEF Run, Picked
<1>2. CASE /\ weights' = <<ckpt, found>> /\ rpc' = "outputs"
           /\ UNCHANGED <<gate, next, cand, pick, reply>>
  <2>1. /\ pick[1] \in touched \/ Whole(pick[1], pick[2])
        /\ WeightsKnown => ckpt' = Weights[pick[2]]
    BY <1>1 DEF ChoiceInv
  <2>2. ASSUME WeightsKnown PROVE weights' = <<Weights[pick[2]], pick[2]>>
    <3>1. pick \in cand /\ pick[2] \in Versions
      BY <1>1 DEF ChoiceInv, TypeOK
    <3>2. ckpt = Weights[pick[2]] /\ ckpt # 0
      <4>1. Expected[pick[2]] \in (SUBSET Files) \ {{}}
        BY <3>1, ExpectedAssumption
      <4> QED BY <1>1, <2>1, <2>2, <4>1, FilesAssumption DEF Files, WeightsKnown
    <3>3. holds[pick[1]][ckpt] = pick[2]
      BY <2>1, <2>2, <3>2 DEF WeightsKnown, Whole
    <3> QED BY <1>2, <3>2, <3>3
  <2> QED BY <1>1, <1>2, <2>1, <2>2, ChoiceGoesOn
<1>3. CASE Fails /\ UNCHANGED <<gate, cand>>
  BY <1>1, <1>3, ChoiceFails
<1>4. CASE StartScan("mlx_failed")
  BY <1>4, ChoiceScan
<1> QED BY <1>2, <1>3, <1>4 DEF Run, AdapterFails

LEMMA OutputsChooses ==
  ASSUME TypeOK, ReadInv, ChoiceInv, Outputs
  PROVE  ChoiceInv'
<1>1. /\ rpc = "outputs" /\ Picked
      /\ UNCHANGED <<disk, env, rq, gate, next, cand, pick, left, ckpt, weights, touched>>
  BY DEF Outputs, Picked
<1>2. CASE Answers("ready", "ready", TRUE, pick)
  <2>1. pick[1] \in Undisturbed /\ pick[2] = holds[pick[1]][Manifest] => Standing(pick[1]) = "ready"
    BY <1>1, WholeIsReady
  <2>2. WeightsKnown => weights' = <<Weights[pick[2]], pick[2]>>
    BY <1>1 DEF ChoiceInv
  <2> QED BY <1>1, <1>2, <2>1, <2>2, ChoiceJudged
<1>3. CASE Fails
  BY <1>1, <1>3, ChoiceFails
<1> QED BY <1>2, <1>3 DEF Outputs

LEMMA FreshChooses ==
  ASSUME Fresh, rpc' \in {"idle", "gate"}
  PROVE  ChoiceInv'
<1>1. cand' = {}
  BY DEF Fresh
<1> QED BY <1>1 DEF ChoiceInv, Picked, StatusIsTrue, WeightsAreAnnounced

\* What others do is seen as touched.
LEMMA OthersChoose ==
  ASSUME TypeOK, ReadInv, ChoiceInv, OthersStep
  PROVE  ChoiceInv'
<1>1. /\ rpc # "answered" /\ rpc' # "answered"
      /\ env' = env /\ rpc' = rpc /\ rq' = rq /\ gate' = gate /\ next' = next /\ cand' = cand
      /\ pick' = pick /\ left' = left /\ ckpt' = ckpt /\ weights' = weights
      /\ touched' = IF rpc = "idle" THEN {}
                    ELSE touched \cup {p \in Dirs : made[p] # made'[p] \/ holds[p] # holds'[p]}
  BY DEF OthersStep, readerVars
<1>2. StatusIsTrue' /\ WeightsAreAnnounced'
  BY <1>1 DEF StatusIsTrue, WeightsAreAnnounced
<1>3. CASE rpc = "idle"
  <2>1. cand' = {} /\ rpc' = "idle"
    BY <1>1, <1>3 DEF ReadInv
  <2> QED BY <1>2, <2>1 DEF ChoiceInv, Picked
<1>4. CASE rpc # "idle"
  <2>1. \A p \in Dirs : p \in touched' \/ (p \notin touched /\ holds'[p] = holds[p])
    BY <1>1, <1>4
  <2>2. \A p \in Dirs : p \in touched' \/ (Eligible(p)' <=> Eligible(p))
    BY <1>1, <2>1 DEF Eligible, Listed, ByFixture, Fits, Effective, Whole
  <2>3. Undisturbed' \subseteq Undisturbed
    BY <2>1, <2>2 DEF Undisturbed
  <2>4. cand \subseteq Dirs \X Versions
    BY DEF TypeOK
  <2>5. \A c \in cand' : Fits(c[1])' /\ (c[1] \in touched' \/ Eligible(c[1])')
    <3> SUFFICES ASSUME NEW c \in cand PROVE Fits(c[1])' /\ (c[1] \in touched' \/ Eligible(c[1])')
      BY <1>1
    <3>1. c[1] \in Dirs /\ Fits(c[1]) /\ (c[1] \in touched \/ Eligible(c[1]))
      BY <2>4 DEF ChoiceInv
    <3> QED BY <1>1, <2>1, <2>2, <3>1 DEF Fits, Effective
  <2>6. rpc' = "scan" => \A p \in Undisturbed' : p < next' => \E c \in cand' : c[1] = p
    BY <1>1, <2>3 DEF ChoiceInv
  <2>7. ASSUME Picked
        PROVE  /\ \A p \in Undisturbed' : \E c \in cand' : c[1] = p
               /\ pick' \in cand' /\ \A d \in cand' \ {pick'} : Before(pick[1], d[1])'
               /\ pick[1] \in Dirs
               /\ pick[1] \in touched' \/ (pick[1] \notin touched /\ holds'[pick[1]] = holds[pick[1]])
    <3>1. pick \in cand /\ \A d \in cand \ {pick} : Before(pick[1], d[1])
      BY <2>7 DEF ChoiceInv
    <3>2. \A d \in cand \ {pick} : Before(pick[1], d[1])'
      BY <1>1, <3>1 DEF Before
    <3>3. \A p \in Undisturbed' : \E c \in cand' : c[1] = p
      BY <1>1, <2>3, <2>7 DEF ChoiceInv
    <3>4. pick[1] \in Dirs
      BY <2>4, <3>1
    <3> QED BY <1>1, <2>1, <3>1, <3>2, <3>3, <3>4
  <2>8. Picked' <=> Picked
    BY <1>1 DEF Picked
  <2>9. rpc' = "validate" =>
          /\ left' \subseteq Expected[pick'[2]]
          /\ \A g \in Expected[pick'[2]] \ left' :
               /\ pick'[1] \in touched' \/ holds'[pick'[1]][g] = pick'[2]
               /\ \A e \in left' : g < e
    <3> SUFFICES ASSUME rpc = "validate"
                 PROVE  /\ left \subseteq Expected[pick[2]]
                        /\ \A g \in Expected[pick[2]] \ left :
                             /\ pick[1] \in touched' \/ holds'[pick[1]][g] = pick[2]
                             /\ \A e \in left : g < e
      BY <1>1
    <3>1. Picked
      BY DEF Picked
    <3> QED BY <2>7, <3>1 DEF ChoiceInv
  <2>10. Picked /\ rpc # "validate" => pick[1] \in touched' \/ Whole(pick[1], pick[2])'
    <3> SUFFICES ASSUME Picked, rpc # "validate"
                 PROVE  pick[1] \in touched' \/ Whole(pick[1], pick[2])'
      OBVIOUS
    <3>1. pick[1] \in touched \/ Whole(pick[1], pick[2])
      BY DEF ChoiceInv
    <3> QED BY <1>1, <2>7, <3>1 DEF Whole
  <2>11. rpc \in {"adapter", "blobs", "run", "outputs"} /\ WeightsKnown' => WeightsKnown
    <3> SUFFICES ASSUME rpc \in {"adapter", "blobs", "run", "outputs"}, WeightsKnown' PROVE WeightsKnown
      OBVIOUS
    <3>1. Picked
      BY DEF Picked
    <3> QED BY <1>1, <2>7, <3>1 DEF WeightsKnown
  <2>12. /\ rpc' \in {"adapter", "blobs", "run", "outputs"} /\ WeightsKnown' => ckpt' = Weights[pick'[2]]
         /\ rpc' = "outputs" /\ WeightsKnown' => weights' = <<Weights[pick'[2]], pick'[2]>>
    BY <1>1, <2>11 DEF ChoiceInv
  <2> QED BY <1>1, <1>2, <2>5, <2>6, <2>7, <2>8, <2>9, <2>10, <2>12 DEF ChoiceInv
<1> QED BY <1>3, <1>4

LEMMA ChoiceStep ==
  ASSUME TypeOK, ReadInv, ChoiceInv, [Next]_vars
  PROVE  ChoiceInv'
<1>1. CASE Gate \/ Scan \/ Pick \/ Locate \/ Hash \/ Selected
  BY <1>1, GateChooses, ScanChooses, PickChooses, LocateChooses, HashChooses, SelectedChooses
<1>2. CASE Checkpoint \/ LoadAdapter \/ ReadBlobs \/ Run \/ Outputs
  BY <1>2, CheckpointChooses, LoadAdapterChooses, ReadBlobsChooses, RunChooses, OutputsChooses
<1>3. CASE Done \/ \E r \in Requests : Receive(r)
  <2>1. Fresh /\ rpc' \in {"idle", "gate"}
    BY <1>3 DEF Done, Receive
  <2> QED BY <2>1, FreshChooses
<1>4. CASE OthersStep
  BY <1>4, OthersChoose
<1>5. CASE UNCHANGED vars
  <2>1. UNCHANGED <<disk, env, rq, gate, touched>> /\ UNCHANGED <<cand, next, rpc, pick, left, ckpt, weights, reply>>
    BY <1>5 DEF vars, readerVars
  <2>2. holds' = holds /\ (Picked' <=> Picked) /\ (WeightsKnown' <=> WeightsKnown)
    BY <2>1 DEF disk, Picked, WeightsKnown
  <2>3. StatusIsTrue' /\ WeightsAreAnnounced'
    <3>1. WeightsAreAnnounced'
      BY <2>1 DEF ChoiceInv, WeightsAreAnnounced
    <3>2. StatusIsTrue'
      <4> SUFFICES ASSUME rpc = "answered", reply.judged, Rivals = {} PROVE StatusIsTrue'
        BY <2>1, SameSight DEF StatusIsTrue
      <4>1. CASE Undisturbed = {} /\ reply.status = "missing" /\ reply.model = NoPick
        BY <2>1, <4>1, SameSight DEF StatusIsTrue
      <4>2. ASSUME NEW p \in Undisturbed, \A q \in Undisturbed \ {p} : Before(p, q),
                   reply.model = <<p, holds[p][Manifest]>> /\ reply.status = Standing(p)
            PROVE  StatusIsTrue'
        <5>1. /\ p \in Undisturbed' /\ \A q \in Undisturbed' \ {p} : Before(p, q)'
              /\ reply'.model = <<p, holds'[p][Manifest]>> /\ reply'.status = Standing(p)'
          BY <2>1, <2>2, <4>2, SameSight
        <5> QED BY <5>1 DEF StatusIsTrue
      <4> QED BY <4>1, <4>2 DEF ChoiceInv, StatusIsTrue
    <3> QED BY <3>1, <3>2
  <2>4. \A c \in cand' : Fits(c[1])' /\ (c[1] \in touched' \/ Eligible(c[1])')
    BY <2>1, SameSight DEF ChoiceInv
  <2>5. /\ rpc' = "scan" => \A p \in Undisturbed' : p < next' => \E c \in cand' : c[1] = p
        /\ Picked' => \A p \in Undisturbed' : \E c \in cand' : c[1] = p
    BY <2>1, <2>2, SameSight DEF ChoiceInv
  <2>6. Picked' => pick' \in cand' /\ \A d \in cand' \ {pick'} : Before(pick[1], d[1])'
    BY <2>1, <2>2 DEF ChoiceInv, Before
  <2>7. Picked' /\ rpc' # "validate" => pick'[1] \in touched' \/ Whole(pick[1], pick[2])'
    BY <2>1, <2>2 DEF ChoiceInv, Whole
  <2>8. rpc' = "validate" =>
          /\ left' \subseteq Expected[pick'[2]]
          /\ \A g \in Expected[pick'[2]] \ left' :
               /\ pick'[1] \in touched' \/ holds'[pick'[1]][g] = pick'[2]
               /\ \A e \in left' : g < e
    BY <2>1, <2>2 DEF ChoiceInv
  <2>9. /\ rpc' \in {"adapter", "blobs", "run", "outputs"} /\ WeightsKnown' => ckpt' = Weights[pick'[2]]
        /\ rpc' = "outputs" /\ WeightsKnown' => weights' = <<Weights[pick'[2]], pick'[2]>>
    BY <2>1, <2>2 DEF ChoiceInv
  <2> QED BY <2>3, <2>4, <2>5, <2>6, <2>7, <2>8, <2>9 DEF ChoiceInv
<1> QED BY <1>1, <1>2, <1>3, <1>4, <1>5 DEF Next, ReaderStep

-----------------------------------------------------------------------------
(* The whole specification *)

LEMMA FreshKeeps ==
  ASSUME DiskTypeOK', env' \in Envs, rq' \in Requests \cup {NoRequest}, rpc' \in {"idle", "gate"}, Fresh
  PROVE  TypeOK' /\ ReadInv'
<1>1. /\ gate' = "open" /\ next' = 1 /\ cand' = {} /\ pick' = NoPick
      /\ left' = {} /\ digest' = FALSE /\ ckpt' = 0 /\ weights' = NoPick
      /\ reply' = NoReply /\ touched' = {}
  BY DEF Fresh
<1>2. next' \in 1 .. NDirs + 1 /\ "open" \in Gates /\ NoReply \in Reply /\ NoReply.outcome = "none"
      /\ NoPick \in (Files \cup {0}) \X Contents
  BY <1>1, DirsAssumption DEF Gates, NoReply, Reply, NoPick, Contents
<1>3. TypeOK'
  BY <1>1, <1>2 DEF TypeOK
<1>4. ReadInv'
  BY <1>1, <1>2 DEF ReadInv, EscapesOnlyUnderWriters
<1> QED BY <1>3, <1>4

\* What others do to a package of a request in progress is noted.
LEMMA OthersKeep ==
  ASSUME TypeOK, ReadInv, DiskTypeOK', OthersStep
  PROVE  TypeOK' /\ ReadInv'
<1>1. /\ rpc # "answered" /\ UNCHANGED <<env, rpc, rq, gate, next, cand, pick, left, digest, ckpt, weights, reply>>
      /\ touched' = IF rpc = "idle" THEN {}
                    ELSE touched \cup {p \in Dirs : made[p] # made'[p] \/ holds[p] # holds'[p]}
  BY DEF OthersStep, readerVars
<1>2. touched' \subseteq Dirs
  BY <1>1 DEF TypeOK
<1>3. TypeOK'
  BY <1>1, <1>2 DEF TypeOK
<1>4. CASE rpc = "idle"
  <2>1. cand' = {} /\ digest' = FALSE /\ rpc' = "idle" /\ reply'.outcome # "escaped"
    BY <1>1, <1>4 DEF ReadInv, TypeOK
  <2> QED BY <1>3, <2>1 DEF ReadInv, EscapesOnlyUnderWriters
<1>5. CASE rpc # "idle"
  <2>1. \A p \in Dirs : p \in touched' \/ (p \notin touched /\ holds'[p] = holds[p])
    BY <1>1, <1>5
  <2>2. \A c \in cand : c[1] \in touched' \/ holds'[c[1]][Manifest] = c[2]
    BY <2>1 DEF TypeOK, ReadInv
  <2>3. ASSUME digest PROVE pick[1] \in touched' \/ holds'[pick[1]][First(left)] # "none"
    <3>1. pick \in cand /\ pick[1] \in Dirs
      BY <2>3 DEF ReadInv, TypeOK
    <3> QED BY <2>1, <2>3, <3>1 DEF ReadInv
  <2>4. First(left)' = First(left)
    BY <1>1 DEF First
  <2>5. digest => rpc' = "validate" /\ left' # {} /\ (pick'[1] \in touched' \/ holds'[pick'[1]][First(left)'] # "none")
    BY <1>1, <2>3, <2>4 DEF ReadInv
  <2>6. digest' = digest /\ digest \in BOOLEAN
    BY <1>1 DEF TypeOK
  <2>7. /\ \A c, d \in cand' : c[1] = d[1] => c = d
        /\ rpc' = "scan" => \A c \in cand' : c[1] < next'
        /\ \A c \in cand' : c[1] \in touched' \/ holds'[c[1]][Manifest] = c[2]
        /\ rpc' = "idle" => cand' = {}
        /\ rpc' = "validate" => pick' \in cand'
        /\ reply'.outcome # "escaped"
    BY <1>1, <2>2 DEF ReadInv
  <2> QED BY <1>3, <2>5, <2>6, <2>7 DEF ReadInv, EscapesOnlyUnderWriters
<1> QED BY <1>3, <1>4, <1>5

\* All of it.
BackendInv == TypeOK /\ RootInv /\ ReadInv /\ ChoiceInv

LEMMA BackendInitial == Init => BackendInv
<1> SUFFICES ASSUME Init PROVE BackendInv
  OBVIOUS
<1>1. RootInv /\ DiskTypeOK
  BY RootInitial DEF Init, RootInv
<1>2. /\ env \in Envs /\ rq = NoRequest /\ touched = {} /\ reply = NoReply
      /\ rpc = "idle" /\ gate = "open" /\ next = 1 /\ cand = {} /\ pick = NoPick
      /\ left = {} /\ digest = FALSE /\ ckpt = 0 /\ weights = NoPick
  BY DEF Init
<1>3. next \in 1 .. NDirs + 1 /\ "open" \in Gates /\ NoReply \in Reply /\ NoReply.outcome = "none"
      /\ NoPick \in (Files \cup {0}) \X Contents
  BY <1>2, DirsAssumption DEF Gates, NoReply, Reply, NoPick, Contents
<1>4. TypeOK
  BY <1>1, <1>2, <1>3 DEF TypeOK
<1>5. ReadInv
  BY <1>2, <1>3 DEF ReadInv, EscapesOnlyUnderWriters
<1>6. ChoiceInv
  BY <1>2 DEF ChoiceInv, Picked, StatusIsTrue, WeightsAreAnnounced
<1> QED BY <1>1, <1>4, <1>5, <1>6 DEF BackendInv

LEMMA ReaderStepKeeps ==
  ASSUME TypeOK, RootInv, ReadInv, DiskTypeOK', ReaderStep
  PROVE  TypeOK' /\ ReadInv'
<1>1. CASE Gate \/ Scan \/ Pick \/ Locate \/ Hash \/ Selected
  BY <1>1, GateKeeps, ScanStepKeeps, PickKeeps, LocateKeeps, HashKeeps, SelectedKeeps
<1>2. CASE Checkpoint \/ LoadAdapter \/ ReadBlobs \/ Run \/ Outputs
  BY <1>2, CheckpointKeeps, LoadAdapterKeeps, ReadBlobsKeeps, RunKeeps, OutputsKeeps
<1> QED BY <1>1, <1>2 DEF ReaderStep

LEMMA BackendStep == BackendInv /\ [Next]_vars => BackendInv'
<1> SUFFICES ASSUME TypeOK, RootInv, ReadInv, ChoiceInv, [Next]_vars
             PROVE  TypeOK' /\ RootInv' /\ ReadInv'
  BY ChoiceStep DEF BackendInv
<1>1. RootInv' /\ DiskTypeOK'
  BY RootStep DEF RootInv
<1>2. CASE ReaderStep
  BY <1>1, <1>2, ReaderStepKeeps
<1>3. CASE Done
  <2>1. Fresh /\ rpc' = "idle" /\ rq' = NoRequest /\ env' \in Envs
    BY <1>3 DEF Done, TypeOK
  <2> QED BY <1>1, <2>1, FreshKeeps
<1>4. ASSUME NEW r \in Requests, Receive(r) PROVE TypeOK' /\ ReadInv'
  <2>1. Fresh /\ rpc' = "gate" /\ rq' = r /\ env' \in Envs
    BY <1>4 DEF Receive, TypeOK
  <2> QED BY <1>1, <2>1, FreshKeeps
<1>5. CASE OthersStep
  BY <1>1, <1>5, OthersKeep
<1>6. CASE UNCHANGED vars
  <2>1. UNCHANGED <<disk, readerVars, touched>>
    BY <1>6 DEF vars
  <2>2. TypeOK'
    BY <1>1, <2>1 DEF TypeOK, readerVars
  <2>3. ReadInv'
    BY <2>1 DEF ReadInv, EscapesOnlyUnderWriters, First, disk, readerVars
  <2> QED BY <1>1, <2>2, <2>3
<1> QED BY <1>1, <1>2, <1>3, <1>4, <1>5, <1>6 DEF Next

-----------------------------------------------------------------------------
(* Theorems *)

\* Whatever the processes that install and the request do, in any order, the
\* variables have their types and the two invariants hold.
THEOREM Invariance == Spec => []BackendInv
<1>1. Init => BackendInv
  BY BackendInitial
<1>2. BackendInv /\ [Next]_vars => BackendInv'
  BY BackendStep
<1> QED BY <1>1, <1>2, PTL DEF Spec

\* An install that has its package to itself ends with "ready" and all of the
\* package in place, whatever others have left there before (install_offline,
\* install_model of the bootstrap script).
THEOREM InstallsAlone == Spec => []AloneInstallSucceeds
<1>1. BackendInv => AloneInstallSucceeds
  BY DEF BackendInv, RootInv
<1> QED BY <1>1, Invariance, PTL

\* No exception of the file system ends a warmup unless a writer was in the
\* package it had chosen (handle_backend_request, select_backend_model).
THEOREM NoEscape == Spec => []EscapesOnlyUnderWriters
<1>1. BackendInv => EscapesOnlyUnderWriters
  BY DEF BackendInv, ReadInv
<1> QED BY <1>1, Invariance, PTL

\* What an answer says of a model is true of the best package, as long as no
\* other process was in one that could take its place (select_backend_model,
\* _select_fixture_model).
THEOREM StatusTrue == Spec => []StatusIsTrue
<1>1. BackendInv => StatusIsTrue
  BY DEF BackendInv, ChoiceInv
<1> QED BY <1>1, Invariance, PTL

\* The weights an inference computes with are those of the version its answer
\* announces (_checkpoint_path_from_status, _model_from_status).
THEOREM WeightsAnnounced == Spec => []WeightsAreAnnounced
<1>1. BackendInv => WeightsAreAnnounced
  BY DEF BackendInv, ChoiceInv
<1> QED BY <1>1, Invariance, PTL
=============================================================================
