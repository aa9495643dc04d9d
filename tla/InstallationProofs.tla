-------------------------- MODULE InstallationProofs --------------------------
(***************************************************************************)
(* Proofs about Distribution and Installation, for any inputs of the       *)
(* packager, any number of its calls and anything that may lie at the      *)
(* places of the uninstaller.                                              *)
(*                                                                         *)
(* BuildInv is inductive: it says of each step of a call what is left in   *)
(* the output directory, and so what is there when the distribution        *)
(* manifest is written.  UninstallInv is inductive too: it says of each    *)
(* phase of the uninstaller what it has removed so far.                    *)
(***************************************************************************)
EXTENDS Installation, SequenceTheorems, TLAPS

-----------------------------------------------------------------------------
(* The steps of the packager *)

\* One sequence after another.
LEMMA Joined ==
  ASSUME NEW S, NEW P \in Seq(S), NEW Q \in Seq(S), NEW m, NEW n, Len(P) = m, Len(Q) = n
  PROVE  /\ P \o Q \in Seq(S) /\ Len(P \o Q) = m + n
         /\ \A k \in 1 .. m : (P \o Q)[k] = P[k]
         /\ \A k \in m + 1 .. m + n : (P \o Q)[k] = Q[k - m]
<1>1. \A k \in 1 .. m : k \in 1 .. m + n /\ k <= m
  BY LenProperties
<1>2. \A k \in m + 1 .. m + n : k \in 1 .. m + n /\ ~(k <= m)
  BY LenProperties
<1>3. Len(P \o Q) = m + n
  BY ConcatProperties
<1>4. \A k \in 1 .. m + n : (P \o Q)[k] = IF k <= m THEN P[k] ELSE Q[k - m]
  BY ConcatProperties
<1>5. P \o Q \in Seq(S)
  BY ConcatProperties
<1> QED BY <1>1, <1>2, <1>3, <1>4, <1>5

\* The steps of a complete call, short of the manifest.
CopySteps == {"plugin", "sidecar", "docs", "example", "manifests", "archive", "options",
              "repo", "models", "python"}

StepSet == CopySteps \cup {"bundle", "model-manifests", "offline-models", "old dist", "dist"}

\* The owned paths, and what is done after they are removed.
LEMMA Parts ==
  /\ OwnedPaths \in Seq(StepSet) /\ BuildSteps \in Seq(StepSet)
  /\ Len(OwnedPaths) = 4 /\ Len(BuildSteps) = 11
  /\ OwnedPaths[1] = "bundle" /\ OwnedPaths[2] = "model-manifests"
  /\ OwnedPaths[3] = "offline-models" /\ OwnedPaths[4] = "docs"
<1>1. OwnedPaths \in Seq(StepSet) /\ Len(OwnedPaths) = 4
  BY DEF OwnedPaths, StepSet, CopySteps
<1>2. BuildSteps \in Seq(StepSet) /\ Len(BuildSteps) = 11
  BY DEF BuildSteps, StepSet, CopySteps
<1>3. /\ OwnedPaths[1] = "bundle" /\ OwnedPaths[2] = "model-manifests"
      /\ OwnedPaths[3] = "offline-models" /\ OwnedPaths[4] = "docs"
  BY DEF OwnedPaths
<1> QED BY <1>1, <1>2, <1>3

\* The order of the steps: the owned paths, the distribution manifest, the rest.
LEMMA StepOrder ==
  /\ Len(Steps) = 16 /\ FirstCopy = 6
  /\ \A k \in 1 .. 4 : Steps[k] = OwnedPaths[k]
  /\ Steps[5] = "old dist"
  /\ \A k \in 6 .. 16 : Steps[k] = BuildSteps[k - 5]
<1> DEFINE O == <<"old dist">>
           P == OwnedPaths \o O
<1>1. O \in Seq(StepSet) /\ Len(O) = 1 /\ O[1] = "old dist"
  BY DEF StepSet
<1> HIDE DEF O
<1>2. /\ P \in Seq(StepSet) /\ Len(P) = 4 + 1
      /\ \A k \in 1 .. 4 : P[k] = OwnedPaths[k]
      /\ \A k \in 4 + 1 .. 4 + 1 : P[k] = O[k - 4]
  <2>1. ASSUME NEW m, NEW n, Len(OwnedPaths) = m, Len(O) = n
        PROVE  /\ P \in Seq(StepSet) /\ Len(P) = m + n
               /\ \A k \in 1 .. m : P[k] = OwnedPaths[k]
               /\ \A k \in m + 1 .. m + n : P[k] = O[k - m]
    <3>1. OwnedPaths \in Seq(StepSet) /\ O \in Seq(StepSet)
      BY <1>1, Parts
    <3> QED BY <2>1, <3>1, Joined
  <2>2. Len(OwnedPaths) = 4 /\ Len(O) = 1
    BY <1>1, Parts
  <2> QED BY <2>1, <2>2
<1>3. Len(P) = 5 /\ P[5] = "old dist"
  <2>1. 4 + 1 = 5 /\ 5 \in 5 .. 5 /\ 5 - 4 = 1
    OBVIOUS
  <2> QED BY <1>1, <1>2, <2>1
<1> HIDE DEF P
<1> DEFINE R == P \o BuildSteps
<1>4. /\ Len(R) = 5 + 11
      /\ \A k \in 1 .. 5 : R[k] = P[k]
      /\ \A k \in 5 + 1 .. 5 + 11 : R[k] = BuildSteps[k - 5]
  <2>1. ASSUME NEW m, NEW n, Len(P) = m, Len(BuildSteps) = n
        PROVE  /\ Len(R) = m + n
               /\ \A k \in 1 .. m : R[k] = P[k]
               /\ \A k \in m + 1 .. m + n : R[k] = BuildSteps[k - m]
    <3>1. P \in Seq(StepSet) /\ BuildSteps \in Seq(StepSet)
      BY <1>2, Parts
    <3> QED BY <2>1, <3>1, Joined
  <2>2. Len(P) = 5 /\ Len(BuildSteps) = 11
    BY <1>3, Parts
  <2> QED BY <2>1, <2>2
<1>5. Steps = R /\ FirstCopy = 6
  BY Parts DEF Steps, R, P, O, FirstCopy
<1> HIDE DEF R
<1>6. Len(R) = 16 /\ \A k \in 6 .. 16 : R[k] = BuildSteps[k - 5]
  <2>1. 5 + 1 = 6 /\ 5 + 11 = 16
    OBVIOUS
  <2> QED BY <1>4, <2>1
<1>7. 5 \in 1 .. 5 /\ \A k \in 1 .. 4 : k \in 1 .. 5
  OBVIOUS
<1> QED BY <1>2, <1>3, <1>4, <1>5, <1>6, <1>7

\* The steps that copy, and the last one.
LEMMA StepNames ==
  /\ Steps[6] = "plugin" /\ Steps[7] = "sidecar" /\ Steps[8] = "docs" /\ Steps[9] = "example"
  /\ Steps[10] = "manifests" /\ Steps[11] = "archive" /\ Steps[12] = "options"
  /\ Steps[13] = "repo" /\ Steps[14] = "models" /\ Steps[15] = "python" /\ Steps[16] = "dist"
<1>1. /\ BuildSteps[1] = "plugin" /\ BuildSteps[2] = "sidecar" /\ BuildSteps[3] = "docs"
      /\ BuildSteps[4] = "example" /\ BuildSteps[5] = "manifests" /\ BuildSteps[6] = "archive"
      /\ BuildSteps[7] = "options" /\ BuildSteps[8] = "repo" /\ BuildSteps[9] = "models"
      /\ BuildSteps[10] = "python" /\ BuildSteps[11] = "dist"
  BY DEF BuildSteps
<1>2. \A k \in 6 .. 16 : Steps[k] = BuildSteps[k - 5]
  BY StepOrder
<1>3. /\ Steps[6] = BuildSteps[1] /\ Steps[7] = BuildSteps[2] /\ Steps[8] = BuildSteps[3]
      /\ Steps[9] = BuildSteps[4] /\ Steps[10] = BuildSteps[5] /\ Steps[11] = BuildSteps[6]
      /\ Steps[12] = BuildSteps[7] /\ Steps[13] = BuildSteps[8] /\ Steps[14] = BuildSteps[9]
      /\ Steps[15] = BuildSteps[10] /\ Steps[16] = BuildSteps[11]
  BY <1>2
<1> QED BY <1>1, <1>3

\* Which step a name is of.
LEMMA StepOfName ==
  ASSUME NEW k \in 1 .. 16
  PROVE  /\ Steps[k] = "old dist" => k = 5
         /\ Steps[k] = "dist" => k = 16
<1>1. CASE k \in 1 .. 4
  <2>1. k = 1 \/ k = 2 \/ k = 3 \/ k = 4
    BY <1>1
  <2> QED BY <1>1, <2>1, Parts, StepOrder
<1>2. CASE k \in 6 .. 16
  <2>1. \/ k = 6 \/ k = 7 \/ k = 8 \/ k = 9 \/ k = 10 \/ k = 11
        \/ k = 12 \/ k = 13 \/ k = 14 \/ k = 15 \/ k = 16
    BY <1>2
  <2> QED BY <2>1, StepNames
<1>3. CASE k = 5
  BY <1>3, StepOrder
<1>4. k \in 1 .. 4 \/ k \in 6 .. 16 \/ k = 5
  OBVIOUS
<1> QED BY <1>1, <1>2, <1>3, <1>4

\* What _remove_owned_outputs removes.
LEMMA Owned == Range(OwnedPaths) = {"bundle", "model-manifests", "offline-models", "docs"}
<1>1. DOMAIN OwnedPaths = 1 .. 4
  BY Parts
<1>2. 1 \in 1 .. 4 /\ 2 \in 1 .. 4 /\ 3 \in 1 .. 4 /\ 4 \in 1 .. 4
      /\ \A k \in 1 .. 4 : k = 1 \/ k = 2 \/ k = 3 \/ k = 4
  OBVIOUS
<1>3. Range(OwnedPaths) = {OwnedPaths[k] : k \in 1 .. 4}
  BY <1>1 DEF Range
<1> QED BY <1>2, <1>3, Parts

\* Those have all been taken when the manifest is written.
LEMMA AllCopied ==
  ASSUME step = Len(Steps)
  PROVE  Copied = CopySteps
<1>1. FirstCopy .. step - 1 = 6 .. 15
  <2>1. FirstCopy = 6 /\ step = 16
    BY StepOrder
  <2> QED BY <2>1
<1>2. Copied = {Steps[k] : k \in 6 .. 15}
  BY <1>1 DEF Copied
<1>3. ASSUME NEW s \in Copied PROVE s \in CopySteps
  <2>1. PICK k \in 6 .. 15 : s = Steps[k]
    BY <1>2, <1>3
  <2>2. \/ k = 6 \/ k = 7 \/ k = 8 \/ k = 9 \/ k = 10
        \/ k = 11 \/ k = 12 \/ k = 13 \/ k = 14 \/ k = 15
    OBVIOUS
  <2> QED BY <2>1, <2>2, StepNames DEF CopySteps
<1>4. \A k \in 6 .. 15 : Steps[k] \in Copied
  BY <1>2
<1>5. /\ Steps[6] \in Copied /\ Steps[7] \in Copied /\ Steps[8] \in Copied /\ Steps[9] \in Copied
      /\ Steps[10] \in Copied /\ Steps[11] \in Copied /\ Steps[12] \in Copied
      /\ Steps[13] \in Copied /\ Steps[14] \in Copied /\ Steps[15] \in Copied
  BY <1>4
<1> QED BY <1>3, <1>5, StepNames DEF CopySteps

\* What each step writes.
LEMMA WhatIsWritten ==
  /\ Writes("plugin") = File("bundle", "Info.plist") \cup File("bundle", "plugin")
  /\ Writes("sidecar") = File("bundle", "sidecar")
  /\ Writes("docs") = File("docs", "docs")
  /\ Writes("example") = File("bundle", "example") \cup File("model-manifests", "example")
  /\ Writes("manifests") = ManifestsIn("bundle") \cup ManifestsIn("model-manifests")
  /\ Writes("archive") = IF i.archive = "given" THEN File("offline-models", "archive") ELSE {}
  /\ Writes("options") = {}
  /\ Writes("repo") = IF HasRuntime THEN File("bundle", "repo") ELSE {}
  /\ Writes("models") = RuntimeModels
  /\ Writes("python") = IF HasRuntime THEN File("bundle", "python") ELSE {}
  BY DEF Writes

\* The inputs of the call that runs.
LEMMA ItsInputs ==
  ASSUME BuildInv, step > 0
  PROVE  /\ Len(given) \in Nat \ {0} /\ i \in Inputs
         /\ i.archive \in {"none", "lost", "given"}
         /\ i.runtime \in {"none", "assets", "packaged", "both"}
         /\ i.models \in Seq(Range(i.models)) /\ i.packed \in Seq(Range(i.packed))
<1>1. given \in Seq(Inputs) /\ given # <<>>
  BY DEF BuildInv
<1>2. Len(given) \in Nat \ {0} /\ i \in Inputs
  BY <1>1 DEF i
<1> QED BY <1>2, InputsAssumption

\* What a model file is.
LEMMA ModelFiles ==
  ASSUME NEW f \in RuntimeModels
  PROVE  f[1] = "bundle" /\ f[2] = "model"
  BY DEF RuntimeModels, Package

\* A step writes below the owned paths only.
LEMMA WritesOwned ==
  ASSUME NEW s, NEW f \in Writes(s)
  PROVE  f[1] \in Range(OwnedPaths)
<1>1. CASE s = "models"
  BY <1>1, WhatIsWritten, ModelFiles, Owned
<1>2. CASE s # "models"
  <2>1. PICK path \in Range(OwnedPaths) :
          \E kind : f \in File(path, kind) \/ f \in ManifestsIn(path)
    BY <1>2, Owned DEF Writes
  <2>2. PICK kind : f \in File(path, kind) \/ f \in ManifestsIn(path)
    BY <2>1
  <2>3. CASE f \in File(path, kind)
    <3>1. f = <<path, kind, "", 0>>
      BY <2>3 DEF File
    <3> QED BY <3>1
  <2>4. CASE f \in ManifestsIn(path)
    <3>1. PICK d \in Names(i.models) : f = <<path, "installed", d, 0>>
      BY <2>4 DEF ManifestsIn
    <3> QED BY <3>1
  <2> QED BY <2>2, <2>3, <2>4
<1> QED BY <1>1, <1>2

-----------------------------------------------------------------------------
(* What is there when the manifest is written *)

\* Files of different kinds are different files.
LEMMA Kinds ==
  ASSUME NEW path, NEW kind, NEW f \in File(path, kind)
  PROVE  f[1] = path /\ f[2] = kind
<1>1. f = <<path, kind, "", 0>>
  BY DEF File
<1> QED BY <1>1

LEMMA InstalledManifests ==
  ASSUME NEW path, NEW f \in ManifestsIn(path)
  PROVE  f[1] = path /\ f[2] = "installed" /\ f[3] \in Names(i.models)
<1>1. PICK d \in Names(i.models) : f = <<path, "installed", d, 0>>
  BY DEF ManifestsIn
<1> QED BY <1>1

\* The files of a complete call, by what they are.
LEMMA WhatIsThere ==
  ASSUME BuildInv, step = 16
  PROVE  /\ Has("offline-models", "archive") <=> i.archive = "given"
         /\ \A path \in {"bundle", "model-manifests"} :
              Names(i.models) = {f[3] : f \in {g \in Present : g[1] = path /\ g[2] = "installed"}}
         /\ HasRuntime => Has("bundle", "repo") /\ Has("bundle", "python")
         /\ {f \in Present : f[2] = "model"} = RuntimeModels
         /\ \A s \in CopySteps : ~Raises(s)
         /\ \A f \in Present : out[f] = Len(given)
<1>1. /\ \A s \in CopySteps : ~Raises(s)
      /\ Present = UNION {Writes(s) : s \in CopySteps}
      /\ \A f \in Present : out[f] = Len(given)
  <2>1. step = Len(Steps) /\ step >= FirstCopy
    <3>1. Len(Steps) = 16 /\ FirstCopy = 6
      BY StepOrder
    <3> QED BY <3>1
  <2> QED BY <2>1, AllCopied DEF BuildInv
<1>w. \A f : f \in Present <=>
        \/ f \in File("bundle", "Info.plist") \/ f \in File("bundle", "plugin")
        \/ f \in File("bundle", "sidecar") \/ f \in File("docs", "docs")
        \/ f \in File("bundle", "example") \/ f \in File("model-manifests", "example")
        \/ f \in ManifestsIn("bundle") \/ f \in ManifestsIn("model-manifests")
        \/ i.archive = "given" /\ f \in File("offline-models", "archive")
        \/ HasRuntime /\ f \in File("bundle", "repo")
        \/ HasRuntime /\ f \in File("bundle", "python")
        \/ f \in RuntimeModels
  <2>1. \A f : f \in Present <=> \E s \in CopySteps : f \in Writes(s)
    BY <1>1
  <2> QED BY <2>1, WhatIsWritten DEF CopySteps
<1>2. Has("offline-models", "archive") <=> i.archive = "given"
  <2>1. <<"offline-models", "archive", "", 0>> \in File("offline-models", "archive")
    BY DEF File
  <2>2. Has("offline-models", "archive") =>
          \E f \in Present : f[1] = "offline-models" /\ f[2] = "archive"
    BY <2>1, Kinds DEF Has
  <2>3. ASSUME NEW f \in Present, f[1] = "offline-models" PROVE i.archive = "given"
    BY <1>w, <2>3, Kinds, InstalledManifests, ModelFiles
  <2>4. i.archive = "given" => Has("offline-models", "archive")
    BY <1>w DEF Has
  <2> QED BY <2>2, <2>3, <2>4
<1>3. ASSUME NEW path \in {"bundle", "model-manifests"}
      PROVE  Names(i.models) = {f[3] : f \in {g \in Present : g[1] = path /\ g[2] = "installed"}}
  <2>1. ASSUME NEW d \in Names(i.models)
        PROVE  \E g \in Present : g[1] = path /\ g[2] = "installed" /\ g[3] = d
    <3> DEFINE g == <<path, "installed", d, 0>>
    <3>1. g \in ManifestsIn(path)
      BY DEF ManifestsIn
    <3>2. g \in Present
      BY <1>w, <3>1
    <3>3. g[1] = path /\ g[2] = "installed" /\ g[3] = d
      OBVIOUS
    <3> QED BY <3>2, <3>3
  <2>2. ASSUME NEW g \in Present, g[2] = "installed" PROVE g[3] \in Names(i.models)
    BY <1>w, <2>2, Kinds, InstalledManifests, ModelFiles
  <2> QED BY <2>1, <2>2
<1>4. HasRuntime => Has("bundle", "repo") /\ Has("bundle", "python")
  BY <1>w DEF Has
<1>5. {f \in Present : f[2] = "model"} = RuntimeModels
  <2>1. ASSUME NEW f \in Present, f[2] = "model" PROVE f \in RuntimeModels
    BY <1>w, <2>1, Kinds, InstalledManifests
  <2>2. ASSUME NEW f \in RuntimeModels PROVE f \in Present /\ f[2] = "model"
    BY <1>w, ModelFiles
  <2> QED BY <2>1, <2>2
<1> QED BY <1>1, <1>2, <1>3, <1>4, <1>5

\* The files of a package that is complete are there, whichever of its files
\* one asks for.
LEMMA ModelsAreWhole ==
  ASSUME BuildInv, step = 16, NEW f \in RuntimeModels
  PROVE  WholeModel(f)
<1>1. /\ f \in Present /\ out[f] = Len(given) /\ given[out[f]] = i
      /\ RuntimeModels \subseteq Present
      /\ \A s \in CopySteps : ~Raises(s)
  BY WhatIsThere DEF i
<1>2. CASE i.runtime = "assets"
  <2>1. RuntimeModels = UNION {Package(p.names, p.expects) : p \in Range(i.models)}
    BY <1>2 DEF RuntimeModels
  <2>2. PICK p \in Range(i.models) : f \in Package(p.names, p.expects)
    BY <2>1
  <2>3. \E c : f = <<"bundle", "model", p.names, c>>
    BY <2>2 DEF Package
  <2>4. f[3] = p.names
    BY <2>3
  <2>5. Expects(f) = UNION {q.expects : q \in {q \in Range(i.models) : f[3] = q.names}}
    BY <1>1, <1>2 DEF Expects, PackagesOf
  <2>6. ASSUME NEW g \in Package(f[3], Expects(f)) PROVE g \in RuntimeModels
    <3>1. PICK n \in {0} \cup Expects(f) : g = <<"bundle", "model", f[3], n>>
      BY DEF Package
    <3>2. CASE n = 0
      <4>1. g \in Package(p.names, p.expects)
        BY <2>4, <3>1, <3>2 DEF Package
      <4> QED BY <2>1, <4>1
    <3>3. CASE n \in Expects(f)
      <4>1. PICK q \in Range(i.models) : f[3] = q.names /\ n \in q.expects
        BY <2>5, <3>3
      <4>2. g \in Package(q.names, q.expects)
        BY <3>1, <4>1 DEF Package
      <4> QED BY <2>1, <4>2
    <3> QED BY <3>1, <3>2, <3>3
  <2> QED BY <1>1, <2>6 DEF WholeModel
<1>3. CASE i.runtime = "packaged"
  <2>1. RuntimeModels = UNION {Package(p.dir, p.has) : p \in Range(i.packed)}
    BY <1>3 DEF RuntimeModels
  <2>2. PICK p \in Range(i.packed) : f \in Package(p.dir, p.has)
    BY <2>1
  <2>3. \E c : f = <<"bundle", "model", p.dir, c>>
    BY <2>2 DEF Package
  <2>4. f[3] = p.dir
    BY <2>3
  <2>5. Expects(f) = UNION {q.expects : q \in {q \in Range(i.packed) : f[3] = q.dir}}
    BY <1>1, <1>3 DEF Expects, PackagesOf
  <2>6. \A q \in Range(i.packed) : q.expects \subseteq q.has
    BY <1>1, <1>3 DEF Raises, CopySteps, Reusable, Lacking
  <2>7. ASSUME NEW g \in Package(f[3], Expects(f)) PROVE g \in RuntimeModels
    <3>1. PICK n \in {0} \cup Expects(f) : g = <<"bundle", "model", f[3], n>>
      BY DEF Package
    <3>2. CASE n = 0
      <4>1. g \in Package(p.dir, p.has)
        BY <2>4, <3>1, <3>2 DEF Package
      <4> QED BY <2>1, <4>1
    <3>3. CASE n \in Expects(f)
      <4>1. PICK q \in Range(i.packed) : f[3] = q.dir /\ n \in q.expects
        BY <2>5, <3>3
      <4>2. g \in Package(q.dir, q.has)
        BY <2>6, <3>1, <4>1 DEF Package
      <4> QED BY <2>1, <4>2
    <3> QED BY <3>1, <3>2, <3>3
  <2> QED BY <1>1, <2>7 DEF WholeModel
<1> QED BY <1>2, <1>3 DEF RuntimeModels

\* A runtime that is called ready brings a model.
LEMMA ReadyHasModels ==
  ASSUME BuildInv, step = 16, RuntimeStatus = "ready"
  PROVE  HasRuntime /\ RuntimeModels # {}
<1>1. i.models \in Seq(Range(i.models)) /\ i.packed \in Seq(Range(i.packed))
  BY ItsInputs
<1>2. ASSUME NEW ps, ps \in Seq(Range(ps)), ps # <<>> PROVE \E p : p \in Range(ps)
  <2>1. 1 \in DOMAIN ps
    BY <1>2
  <2>2. ps[1] \in Range(ps)
    BY <2>1 DEF Range
  <2> QED BY <2>2
<1>3. \A d, files : <<"bundle", "model", d, 0>> \in Package(d, files)
  BY DEF Package
<1>4. CASE i.runtime = "assets"
  <2>1. PICK p : p \in Range(i.models)
    BY <1>1, <1>2, <1>4 DEF RuntimeStatus
  <2>2. <<"bundle", "model", p.names, 0>> \in Package(p.names, p.expects)
    BY <1>3
  <2>3. RuntimeModels = UNION {Package(q.names, q.expects) : q \in Range(i.models)}
    BY <1>4 DEF RuntimeModels
  <2>4. RuntimeModels # {}
    BY <2>1, <2>2, <2>3
  <2> QED BY <1>4, <2>4 DEF HasRuntime
<1>5. CASE i.runtime = "packaged"
  <2>1. ~Raises("repo")
    BY WhatIsThere DEF CopySteps
  <2>2. PICK p : p \in Range(i.packed)
    BY <1>1, <1>2, <1>5, <2>1 DEF Raises, Reusable
  <2>3. <<"bundle", "model", p.dir, 0>> \in Package(p.dir, p.has)
    BY <1>3
  <2>4. RuntimeModels = UNION {Package(q.dir, q.has) : q \in Range(i.packed)}
    BY <1>5 DEF RuntimeModels
  <2>5. RuntimeModels # {}
    BY <2>2, <2>3, <2>4
  <2> QED BY <1>5, <2>5 DEF HasRuntime
<1> QED BY <1>4, <1>5 DEF RuntimeStatus

\* Each package a call gives its runtime is listed, and only these; a package
\* assembled from assets is where its manifest says.
LEMMA PackagesAreListed ==
  ASSUME BuildInv, step = 16
  PROVE  /\ RuntimePackages = UNION {{p.names : p \in PackagesOf(f)} : f \in RuntimeFiles}
         /\ \A d \in RuntimePackages : FoundAt(d) \/ Misplaced(d)
<1>1. /\ RuntimeFiles = RuntimeModels /\ RuntimeModels \subseteq Present
      /\ \A f \in RuntimeModels : given[out[f]] = i
  BY WhatIsThere DEF RuntimeFiles, i
<1>p. \A d, files : <<"bundle", "model", d, 0>> \in Package(d, files)
  BY DEF Package
<1>n. \A d, files : \A f \in Package(d, files) : f[3] = d
  <2> SUFFICES ASSUME NEW d, NEW files, NEW f \in Package(d, files) PROVE f[3] = d
    OBVIOUS
  <2>1. \E c : f = <<"bundle", "model", d, c>>
    BY DEF Package
  <2> QED BY <2>1
<1>2. CASE i.runtime = "assets"
  <2>1. /\ RuntimePackages = Names(i.models)
        /\ RuntimeModels = UNION {Package(p.names, p.expects) : p \in Range(i.models)}
        /\ \A f \in RuntimeModels : PackagesOf(f) = {p \in Range(i.models) : f[3] = p.names}
    BY <1>1, <1>2 DEF RuntimePackages, RuntimeModels, PackagesOf
  <2>2. ASSUME NEW d \in Names(i.models)
        PROVE  /\ FoundAt(d)
               /\ \E f \in RuntimeFiles : \E p \in PackagesOf(f) : p.names = d
    <3>1. PICK p \in Range(i.models) : p.names = d
      BY DEF Names
    <3> DEFINE f == <<"bundle", "model", d, 0>>
    <3>2. f \in RuntimeModels
      BY <1>p, <2>1, <3>1
    <3>3. f[3] = d
      OBVIOUS
    <3> QED BY <1>1, <2>1, <3>1, <3>2, <3>3 DEF FoundAt
  <2>3. \A f \in RuntimeFiles : \A p \in PackagesOf(f) : p.names \in Names(i.models)
    BY <1>1, <2>1 DEF Names
  <2> QED BY <2>1, <2>2, <2>3
<1>3. CASE i.runtime = "packaged"
  <2>1. /\ RuntimePackages = Names(i.packed)
        /\ RuntimeModels = UNION {Package(p.dir, p.has) : p \in Range(i.packed)}
        /\ \A f \in RuntimeModels : PackagesOf(f) = {p \in Range(i.packed) : f[3] = p.dir}
    BY <1>1, <1>3 DEF RuntimePackages, RuntimeModels, PackagesOf
  <2>2. ASSUME NEW d \in Names(i.packed)
        PROVE  /\ FoundAt(d) \/ Misplaced(d)
               /\ \E f \in RuntimeFiles : \E p \in PackagesOf(f) : p.names = d
    <3>1. PICK p \in Range(i.packed) : p.names = d
      BY DEF Names
    <3> DEFINE f == <<"bundle", "model", p.dir, 0>>
    <3>2. f \in RuntimeModels
      BY <1>p, <2>1, <3>1
    <3>3. f[3] = p.dir
      OBVIOUS
    <3>4. p \in PackagesOf(f) /\ f \in RuntimeFiles /\ f \in Present
      BY <1>1, <2>1, <3>1, <3>2, <3>3
    <3>5. p.dir = d => FoundAt(d)
      BY <3>4 DEF FoundAt
    <3>6. p.dir # d => Misplaced(d)
      BY <3>1, <3>3, <3>4 DEF Misplaced
    <3> QED BY <3>1, <3>4, <3>5, <3>6
  <2>3. \A f \in RuntimeFiles : \A p \in PackagesOf(f) : p.names \in Names(i.packed)
    BY <1>1, <2>1 DEF Names
  <2> QED BY <2>1, <2>2, <2>3
<1>4. CASE i.runtime \notin {"assets", "packaged"}
  <2>1. RuntimePackages = {} /\ RuntimeModels = {}
    BY <1>4 DEF RuntimePackages, RuntimeModels
  <2> QED BY <1>1, <2>1
<1> QED BY <1>2, <1>3, <1>4

\* The manifest is true when it is written.
LEMMA TruthIsWritten ==
  ASSUME BuildInv, step = 16, WriteManifest
  PROVE  ManifestTellsTruth'
<1>1. UNCHANGED <<out, given, cut>> /\ step' = 0
  BY DEF WriteManifest, Stops
<1>2. CASE dist' = Torn
  BY <1>2 DEF Torn, ManifestTellsTruth
<1>3. CASE dist' = [status |-> "written", files |-> out, models |-> Names(i.models),
                    archive |-> ArchiveStatus, source |-> SourceStatus, runtime |-> RuntimeStatus,
                    packages |-> RuntimePackages]
  <2>1. /\ dist'.files = out' /\ dist'.models = Names(i.models)
        /\ dist'.archive = ArchiveStatus /\ dist'.source = SourceStatus
        /\ dist'.runtime = RuntimeStatus /\ dist'.packages = RuntimePackages
    BY <1>1, <1>3
  <2>2. dist'.archive = "ready" <=> Has("offline-models", "archive")
    BY <2>1, WhatIsThere DEF ArchiveStatus
  <2>3. \A path \in {"bundle", "model-manifests"} :
          dist'.models = {f[3] : f \in {g \in Present : g[1] = path /\ g[2] = "installed"}}
    BY <2>1, WhatIsThere
  <2>4. SourceStatus = "ready" => Names(i.models) # {} /\ Has("offline-models", "archive")
    <3>1. i.models \in Seq(Range(i.models))
      BY ItsInputs
    <3>2. i.models # <<>> => i.models[1] \in Range(i.models)
      <4>1. i.models # <<>> => 1 \in DOMAIN i.models
        BY <3>1
      <4> QED BY <4>1 DEF Range
    <3>3. i.models # <<>> => Names(i.models) # {}
      BY <3>2 DEF Names
    <3> QED BY <2>1, <2>2, <3>3 DEF SourceStatus, ArchiveStatus
  <2>5. dist'.runtime = "ready" =>
          /\ Has("bundle", "repo") /\ Has("bundle", "python")
          /\ RuntimeFiles # {} /\ \A f \in RuntimeFiles : WholeModel(f)
    BY <2>1, WhatIsThere, ReadyHasModels, ModelsAreWhole DEF RuntimeFiles
  <2>10. /\ dist'.packages = UNION {{p.names : p \in PackagesOf(f)} : f \in RuntimeFiles}
         /\ \A d \in dist'.packages : FoundAt(d) \/ Misplaced(d)
    BY <2>1, PackagesAreListed
  <2>6. /\ Present' = Present /\ \A path, kind : Has(path, kind)' = Has(path, kind)
        /\ \A f : WholeModel(f)' = WholeModel(f) /\ PackagesOf(f)' = PackagesOf(f)
        /\ \A d : FoundAt(d)' = FoundAt(d) /\ Misplaced(d)' = Misplaced(d)
        /\ RuntimeFiles' = RuntimeFiles
    BY <1>1 DEF Has, Present, WholeModel, Expects, PackagesOf, FoundAt, Misplaced, RuntimeFiles
  <2>7. dist'.archive = "ready" <=> Has("offline-models", "archive")'
    BY <2>2, <2>6
  <2>8. dist'.source = "ready" => dist'.models # {} /\ Has("offline-models", "archive")'
    BY <2>1, <2>4, <2>6
  <2>9. dist'.runtime = "ready" =>
          /\ Has("bundle", "repo")' /\ Has("bundle", "python")'
          /\ RuntimeFiles' # {} /\ \A f \in RuntimeFiles' : WholeModel(f)'
    BY <2>5, <2>6
  <2>11. /\ dist'.packages = UNION {{p.names : p \in PackagesOf(f)'} : f \in RuntimeFiles'}
         /\ \A d \in dist'.packages : FoundAt(d)' \/ Misplaced(d)'
    BY <2>6, <2>10
  <2> QED BY <2>1, <2>3, <2>6, <2>7, <2>8, <2>9, <2>11 DEF ManifestTellsTruth
<1> QED BY <1>2, <1>3 DEF WriteManifest

-----------------------------------------------------------------------------
(* The steps of a call *)

\* A call that begins changes no file, and what earlier calls were given stays.
LEMMA BuildKeeps ==
  ASSUME BuildInv, NEW input \in Inputs, Build(input)
  PROVE  BuildInv'
<1>1. /\ step = 0 /\ step' \in {0, 1} /\ UNCHANGED <<out, dist, cut>>
      /\ given \in Seq(Inputs) /\ given' = Append(given, input)
  BY DEF Build, BuildInv
<1>2. /\ given' \in Seq(Inputs) /\ Len(given') = Len(given) + 1 /\ given' # <<>>
      /\ Len(given) \in Nat
      /\ \A n \in 1 .. Len(given) : given'[n] = given[n]
  BY <1>1
<1>3. Len(Steps) = 16 /\ FirstCopy = 6
  BY StepOrder
<1>4. Len(Steps)' = 16 /\ FirstCopy' = 6
  BY <1>3 DEF FirstCopy, Steps, OwnedPaths, BuildSteps
<1>5. \A f \in Present : f[1] \in Range(OwnedPaths) /\ out[f] \in 1 .. Len(given)
  BY DEF BuildInv
<1>6. ManifestTellsTruth'
  <2>1. CASE step' = 1
    BY <2>1, Parts DEF ManifestTellsTruth
  <2>2. CASE step' = 0
    <3>4. Present' = Present /\ RuntimeFiles' = RuntimeFiles /\ RuntimeFiles \subseteq Present
      BY <1>1 DEF Present, RuntimeFiles
    <3>5. \A f \in Present : PackagesOf(f)' = PackagesOf(f)
      BY <1>1, <1>2, <1>5 DEF PackagesOf
    <3>1. /\ \A f \in Present : WholeModel(f)' = WholeModel(f)
          /\ \A d : FoundAt(d)' = FoundAt(d) /\ Misplaced(d)' = Misplaced(d)
      BY <3>4, <3>5 DEF WholeModel, Expects, FoundAt, Misplaced
    <3>2. ManifestTellsTruth
      BY DEF BuildInv
    <3>6. UNION {{p.names : p \in PackagesOf(f)'} : f \in RuntimeFiles'}
            = UNION {{p.names : p \in PackagesOf(f)} : f \in RuntimeFiles}
      BY <3>4, <3>5
    <3> QED BY <1>1, <2>2, <3>1, <3>2, <3>4, <3>6 DEF ManifestTellsTruth, Has
  <2> QED BY <1>1, <2>1, <2>2
<1>7. /\ step' \in 0 .. Len(Steps)' /\ cut' \in BOOLEAN /\ ~(step' >= FirstCopy')
      /\ \A k \in 1 .. Len(OwnedPaths) : ~(k < step')
  BY <1>1, <1>4 DEF BuildInv
<1>8. \A f \in Present : f[1] \in Range(OwnedPaths) /\ out[f] \in 1 .. Len(given) + 1
  BY <1>2, <1>5
<1> QED BY <1>1, <1>2, <1>6, <1>7, <1>8 DEF BuildInv, Present

\* A removal that ends early tells nobody to trust the manifest it leaves.
LEMMA LeftBehind ==
  ASSUME UNCHANGED dist, cut' = (dist # NoDist)
  PROVE  ManifestTellsTruth'
<1>1. dist'.status = "written" => dist # NoDist
  BY DEF NoDist
<1>2. dist # NoDist => cut'
  OBVIOUS
<1> QED BY <1>1, <1>2 DEF ManifestTellsTruth

\* BuildInv of a state, from its parts.
LEMMA FromParts ==
  ASSUME given' \in Seq(Inputs), step' \in 0 .. 16, cut' \in BOOLEAN,
         step' > 0 => given' # <<>>,
         \A f \in Present' : f[1] \in Range(OwnedPaths) /\ out'[f] \in 1 .. Len(given'),
         step' < 6 => \A k \in 1 .. 4 : k < step' => InPath(OwnedPaths[k])' = {},
         step' >= 6 => /\ dist' = NoDist /\ ~cut'
                       /\ \A s \in Copied' : ~Raises(s)'
                       /\ Present' = UNION {Writes(s)' : s \in Copied'}
                       /\ \A f \in Present' : out'[f] = Len(given'),
         ManifestTellsTruth'
  PROVE  BuildInv'
<1>1. Len(Steps)' = 16 /\ FirstCopy' = 6 /\ Len(OwnedPaths) = 4
  BY StepOrder, Parts DEF FirstCopy, Steps, OwnedPaths, BuildSteps
<1> QED BY <1>1 DEF BuildInv

\* Leaving the manifest of what was begun to be removed is noticed.
LEMMA RemovePathKeeps ==
  ASSUME BuildInv, RemovePath
  PROVE  BuildInv'
<1> DEFINE files == InPath(OwnedPaths[step])
<1>1. /\ step \in 1 .. 4 /\ UNCHANGED <<dist, given>>
      /\ Len(Steps) = 16 /\ FirstCopy = 6 /\ Len(OwnedPaths) = 4
  BY Parts, StepOrder DEF RemovePath
<1>2. /\ given \in Seq(Inputs) /\ given # <<>> /\ cut \in BOOLEAN
      /\ \A f \in Present : f[1] \in Range(OwnedPaths) /\ out[f] \in 1 .. Len(given)
      /\ \A k \in 1 .. 4 : k < step => InPath(OwnedPaths[k]) = {}
  BY <1>1 DEF BuildInv
<1>3. \A S : out' = Restrict(out, Present \ S) =>
        Present' = Present \ S /\ \A f \in Present' : out'[f] = out[f]
  BY DEF Restrict, Present
<1>4. CASE out' = Restrict(out, Present \ files) /\ step' = step + 1 /\ UNCHANGED cut
  <2>1. Present' = Present \ files /\ \A f \in Present' : out'[f] = out[f]
    BY <1>3, <1>4
  <2>2. \A k \in 1 .. 4 : k < step' => InPath(OwnedPaths[k])' = {}
    <3>1. ASSUME NEW k \in 1 .. 4, k < step' PROVE InPath(OwnedPaths[k])' = {}
      <4>1. k < step \/ k = step
        BY <1>1, <1>4, <3>1
      <4>2. InPath(OwnedPaths[k]) \subseteq files
        BY <1>2, <4>1
      <4> QED BY <2>1, <4>2 DEF InPath
    <3> QED BY <3>1
  <2>3. ManifestTellsTruth'
    BY <1>1, <1>4 DEF ManifestTellsTruth
  <2>4. step' \in 0 .. 16 /\ ~(step' >= 6)
    BY <1>1, <1>4
  <2> QED BY <1>1, <1>2, <1>4, <2>1, <2>2, <2>3, <2>4, FromParts
<1>5. CASE /\ \E S \in SUBSET files : out' = Restrict(out, Present \ S)
           /\ Stops /\ cut' = (dist # NoDist)
  <2>1. Present' \subseteq Present /\ \A f \in Present' : out'[f] = out[f]
    BY <1>3, <1>5
  <2>2. step' = 0
    BY <1>5 DEF Stops
  <2>3. ManifestTellsTruth'
    BY <1>1, <1>5, LeftBehind
  <2>4. /\ step' \in 0 .. 16 /\ ~(step' >= 6) /\ \A k \in 1 .. 4 : ~(k < step')
        /\ cut' \in BOOLEAN
    BY <1>5, <2>2
  <2> QED BY <1>1, <1>2, <2>1, <2>2, <2>3, <2>4, FromParts
<1> QED BY <1>4, <1>5 DEF RemovePath

\* Once the manifest is removed nothing of an earlier call is left.
LEMMA RemoveManifestKeeps ==
  ASSUME BuildInv, RemoveManifest
  PROVE  BuildInv'
<1>1. /\ step = 5 /\ UNCHANGED <<out, given>>
      /\ Len(Steps) = 16 /\ FirstCopy = 6 /\ Len(OwnedPaths) = 4
  <2>0. Len(Steps) = 16
    BY StepOrder
  <2>1. step \in 1 .. 16 /\ Steps[step] = "old dist"
    <3>1. step \in 0 .. 16
      BY <2>0 DEF BuildInv
    <3>2. step > 0
      BY DEF RemoveManifest
    <3>3. step \in 1 .. 16
      BY <3>1, <3>2
    <3> QED BY <3>3 DEF RemoveManifest
  <2>2. UNCHANGED <<out, given>>
    BY DEF RemoveManifest
  <2> QED BY <2>1, <2>2, StepOfName, StepOrder, Parts
<1>2. /\ given \in Seq(Inputs) /\ given # <<>>
      /\ \A f \in Present : f[1] \in Range(OwnedPaths) /\ out[f] \in 1 .. Len(given)
      /\ \A k \in 1 .. 4 : InPath(OwnedPaths[k]) = {}
  BY <1>1 DEF BuildInv
<1>3. Present = {}
  <2>1. Range(OwnedPaths) = {OwnedPaths[k] : k \in 1 .. 4}
    BY Parts DEF Range
  <2> QED BY <1>2, <2>1 DEF InPath
<1>4. CASE dist' = NoDist /\ cut' = FALSE /\ step' = step + 1
  <2>1. Copied' = {}
    BY <1>1, <1>4 DEF Copied
  <2>2. ManifestTellsTruth'
    BY <1>4 DEF ManifestTellsTruth, NoDist
  <2>3. step' \in 0 .. 16 /\ ~(step' < 6)
    BY <1>1, <1>4
  <2>4. Present' = {}
    BY <1>1, <1>3 DEF Present
  <2> QED BY <1>1, <1>2, <1>4, <2>1, <2>2, <2>3, <2>4 DEF BuildInv
<1>5. CASE Stops /\ cut' = (dist # NoDist) /\ UNCHANGED dist
  <2>1. step' = 0
    BY <1>5 DEF Stops
  <2>2. ManifestTellsTruth'
    BY <1>5, LeftBehind
  <2>3. step' \in 0 .. 16 /\ step' < 6 /\ \A k \in 1 .. 4 : ~(k < step')
    BY <2>1
  <2> QED BY <1>1, <1>2, <1>3, <1>5, <2>1, <2>2, <2>3 DEF BuildInv, Present
<1> QED BY <1>4, <1>5 DEF RemoveManifest

\* A step that succeeds adds what it writes, one that fails ends the call.
LEMMA CopyKeeps ==
  ASSUME BuildInv, Copy
  PROVE  BuildInv'
<1> DEFINE s == Steps[step]
<1>1. /\ step \in 6 .. 15 /\ UNCHANGED <<dist, given, cut>>
      /\ Len(Steps) = 16 /\ FirstCopy = 6
  <2>1. Len(Steps) = 16 /\ FirstCopy = 6 /\ Len(OwnedPaths) = 4 /\ Steps[16] = "dist"
    BY StepOrder, StepNames, Parts
  <2>2. step \in 0 .. 16 /\ step > 4 + 1 /\ s # "dist" /\ UNCHANGED <<dist, given, cut>>
    BY <2>1 DEF Copy, BuildInv
  <2> QED BY <2>1, <2>2
<1>2. /\ given \in Seq(Inputs) /\ given # <<>> /\ cut \in BOOLEAN
      /\ \A f \in Present : f[1] \in Range(OwnedPaths)
      /\ dist = NoDist /\ ~cut
      /\ \A t \in Copied : ~Raises(t)
      /\ Present = UNION {Writes(t) : t \in Copied}
      /\ \A f \in Present : out[f] = Len(given)
  BY <1>1 DEF BuildInv
<1>3. Len(given) \in Nat \ {0} /\ Len(given) \in 1 .. Len(given)
  BY <1>2
<1>4. ManifestTellsTruth'
  BY <1>1, <1>2 DEF ManifestTellsTruth, NoDist
<1>5. \A F : out' = With(F) =>
        Present' = Present \cup F /\ \A f \in Present' : out'[f] = Len(given)
  BY <1>2 DEF With, Present
<1>6. \A t : Raises(t)' = Raises(t) /\ Writes(t)' = Writes(t)
  BY <1>1 DEF Raises, Writes, i, Reusable, Lacking, Duplicate, Names, ManifestsIn, RuntimeModels,
              HasRuntime
<1>7. CASE ~Raises(s) /\ out' = With(Writes(s)) /\ step' = step + 1
  <2>1. Present' = Present \cup Writes(s) /\ \A f \in Present' : out'[f] = Len(given)
    BY <1>5, <1>7
  <2>2. Copied' = Copied \cup {s}
    <3>1. Copied' = {Steps[k] : k \in 6 .. step}
      <4>1. FirstCopy' = 6 /\ 6 .. step' - 1 = 6 .. step
        BY <1>1, <1>7 DEF FirstCopy, OwnedPaths
      <4> QED BY <4>1 DEF Copied, Steps, OwnedPaths, BuildSteps
    <3>2. Copied = {Steps[k] : k \in 6 .. step - 1}
      BY <1>1 DEF Copied
    <3>3. 6 .. step = (6 .. step - 1) \cup {step}
      BY <1>1
    <3> QED BY <3>1, <3>2, <3>3
  <2>3. /\ \A t \in Copied' : ~Raises(t)'
        /\ Present' = UNION {Writes(t)' : t \in Copied'}
    BY <1>2, <1>6, <1>7, <2>1, <2>2
  <2>4. \A f \in Present' : f[1] \in Range(OwnedPaths)
    BY <1>2, <2>1, WritesOwned
  <2>5. step' \in 0 .. 16 /\ ~(step' < 6)
    BY <1>1, <1>7
  <2> QED BY <1>1, <1>2, <1>3, <1>4, <2>1, <2>3, <2>4, <2>5, FromParts
<1>8. CASE (\E F \in SUBSET Writes(s) : out' = With(F)) /\ Stops
  <2>1. PICK F \in SUBSET Writes(s) : out' = With(F)
    BY <1>8
  <2>2. Present' = Present \cup F /\ \A f \in Present' : out'[f] = Len(given)
    BY <1>5, <2>1
  <2>3. \A f \in Present' : f[1] \in Range(OwnedPaths)
    BY <1>2, <2>1, <2>2, WritesOwned
  <2>4. step' \in 0 .. 16 /\ ~(step' >= 6) /\ \A k \in 1 .. 4 : ~(k < step')
    BY <1>8 DEF Stops
  <2> QED BY <1>1, <1>2, <1>3, <1>4, <2>2, <2>3, <2>4, FromParts
<1> QED BY <1>7, <1>8 DEF Copy

LEMMA WriteManifestKeeps ==
  ASSUME BuildInv, WriteManifest
  PROVE  BuildInv'
<1>1. step = 16
  <2>0. Len(Steps) = 16
    BY StepOrder
  <2>1. step \in 1 .. 16 /\ Steps[step] = "dist"
    <3>1. step \in 0 .. 16
      BY <2>0 DEF BuildInv
    <3>2. step > 0 /\ Steps[step] = "dist"
      BY DEF WriteManifest
    <3> QED BY <3>1, <3>2
  <2> QED BY <2>1, StepOfName
<1>2. UNCHANGED <<out, given, cut>> /\ step' = 0
  BY DEF WriteManifest, Stops
<1>3. /\ given \in Seq(Inputs) /\ cut \in BOOLEAN
      /\ \A f \in Present : f[1] \in Range(OwnedPaths) /\ out[f] \in 1 .. Len(given)
  BY DEF BuildInv
<1>4. ManifestTellsTruth'
  BY <1>1, TruthIsWritten
<1>5. step' \in 0 .. 16 /\ ~(step' >= 6) /\ \A k \in 1 .. 4 : ~(k < step')
  BY <1>2
<1>6. Present' = Present
  BY <1>2 DEF Present
<1> QED BY <1>2, <1>3, <1>4, <1>5, <1>6, FromParts

\* What happens to a distribution elsewhere does not change the packager.
LEMMA BuildUnchanged ==
  ASSUME BuildInv, UNCHANGED packager
  PROVE  BuildInv'
<1>1. UNCHANGED <<out, dist, given, step, cut>>
  BY DEF packager
<1>2. /\ Present' = Present /\ \A path, kind : Has(path, kind)' = Has(path, kind)
      /\ \A f : WholeModel(f)' = WholeModel(f) /\ PackagesOf(f)' = PackagesOf(f)
      /\ \A d : FoundAt(d)' = FoundAt(d) /\ Misplaced(d)' = Misplaced(d)
      /\ RuntimeFiles' = RuntimeFiles
      /\ \A path : InPath(path)' = InPath(path)
  BY <1>1 DEF Has, Present, WholeModel, Expects, PackagesOf, FoundAt, Misplaced, RuntimeFiles,
              InPath
<1>3. \A s : Raises(s)' = Raises(s) /\ Writes(s)' = Writes(s)
  BY <1>1 DEF Raises, Writes, i, Reusable, Lacking, Duplicate, Names, ManifestsIn, RuntimeModels,
              HasRuntime
<1>4. Copied' = Copied
  BY <1>1 DEF Copied, FirstCopy, Steps, OwnedPaths, BuildSteps
<1>5. ManifestTellsTruth'
  <2>1. ManifestTellsTruth
    BY DEF BuildInv
  <2> QED BY <1>1, <1>2, <2>1 DEF ManifestTellsTruth
<1>6. Len(Steps) = 16 /\ FirstCopy = 6 /\ Len(OwnedPaths) = 4
  BY StepOrder, Parts
<1>7. /\ given \in Seq(Inputs) /\ step \in 0 .. 16 /\ cut \in BOOLEAN
      /\ step > 0 => given # <<>>
      /\ \A f \in Present : f[1] \in Range(OwnedPaths) /\ out[f] \in 1 .. Len(given)
      /\ step < 6 => \A k \in 1 .. 4 : k < step => InPath(OwnedPaths[k]) = {}
      /\ step >= 6 => /\ dist = NoDist /\ ~cut
                      /\ \A s \in Copied : ~Raises(s)
                      /\ Present = UNION {Writes(s) : s \in Copied}
                      /\ \A f \in Present : out[f] = Len(given)
  BY <1>6 DEF BuildInv
<1> QED BY <1>1, <1>2, <1>3, <1>4, <1>5, <1>7, FromParts

\* BuildInv is an inductive invariant of Installation.
THEOREM BuildInvariance == Spec => []BuildInv
<1>1. Init => BuildInv
  <2> SUFFICES ASSUME Init PROVE BuildInv
    OBVIOUS
  <2>1. /\ out = <<>> /\ dist = NoDist /\ given = <<>> /\ step = 0 /\ cut = FALSE
    BY DEF Init, InitPackager
  <2>2. given \in Seq(Inputs) /\ Present = {}
    BY <2>1 DEF Present
  <2>3. ManifestTellsTruth
    BY <2>1 DEF ManifestTellsTruth, NoDist
  <2>4. Len(Steps) = 16 /\ FirstCopy = 6 /\ Len(OwnedPaths) = 4
    BY StepOrder, Parts
  <2>5. 0 \in 0 .. 16 /\ ~(0 >= 6) /\ ~(0 > 0) /\ \A k \in 1 .. 4 : ~(k < 0)
    OBVIOUS
  <2>6. /\ step \in 0 .. Len(Steps) /\ ~(step >= FirstCopy) /\ cut \in BOOLEAN
        /\ ~(step > 0) /\ \A k \in 1 .. Len(OwnedPaths) : ~(k < step)
    BY <2>1, <2>4, <2>5
  <2> QED BY <2>2, <2>3, <2>6 DEF BuildInv
<1>2. BuildInv /\ [Next]_vars => BuildInv'
  <2> SUFFICES ASSUME BuildInv, [Next]_vars PROVE BuildInv'
    OBVIOUS
  <2>1. CASE UNCHANGED packager
    BY <2>1, BuildUnchanged
  <2>2. CASE PackagerStep
    BY <2>2, BuildKeeps, RemovePathKeeps, RemoveManifestKeeps, CopyKeeps, WriteManifestKeeps
       DEF PackagerStep
  <2>3. PackagerStep \/ UNCHANGED packager
    BY DEF Next, Deliver, Install, Use, Uninstall, RemoveTree, Purge, PurgeRoot, Interrupted, vars
  <2> QED BY <2>1, <2>2, <2>3
<1> QED BY <1>1, <1>2, PTL DEF Spec

\* A distribution manifest that no interrupted removal has outlived lists what
\* is there, and is right about the manifests, the archive and the runtime,
\* whatever earlier calls with other inputs left behind.
THEOREM ManifestIsTrue == Spec => []ManifestTellsTruth
<1>1. BuildInv => ManifestTellsTruth
  BY DEF BuildInv
<1> QED BY <1>1, BuildInvariance, PTL

-----------------------------------------------------------------------------
(* The uninstaller *)

\* The directories of the user data root that may be purged, and those that
\* are gone when it is the turn of one of them.
LEMMA PurgedDirectories ==
  /\ Len(Purged) = 4
  /\ Purged[1] = "models" /\ Purged[2] = "logs"
  /\ Purged[3] = "cache" /\ Purged[4] = "support-bundles"
  /\ Range(Purged) = {Purged[k] : k \in 1 .. 4}
  /\ {Purged[k] : k \in 1 .. 0} = {}
  /\ \A n \in 1 .. 4 : {Purged[k] : k \in 1 .. n} = {Purged[k] : k \in 1 .. n - 1} \cup {Purged[n]}
  /\ Phases = {"idle", "bundle", "sidecar", "root", "models", "logs", "cache", "support-bundles"}
<1>1. /\ Len(Purged) = 4 /\ DOMAIN Purged = 1 .. 4
      /\ Purged[1] = "models" /\ Purged[2] = "logs"
      /\ Purged[3] = "cache" /\ Purged[4] = "support-bundles"
  BY DEF Purged
<1>2. Range(Purged) = {Purged[k] : k \in 1 .. 4}
  BY <1>1 DEF Range
<1>3. /\ 1 \in 1 .. 4 /\ 2 \in 1 .. 4 /\ 3 \in 1 .. 4 /\ 4 \in 1 .. 4
      /\ \A k \in 1 .. 4 : k = 1 \/ k = 2 \/ k = 3 \/ k = 4
  OBVIOUS
<1>4. Range(Purged) = {"models", "logs", "cache", "support-bundles"}
  BY <1>1, <1>2, <1>3
<1>5. \A n \in 1 .. 4 : 1 .. n = (1 .. n - 1) \cup {n}
  OBVIOUS
<1>6. \A n \in 1 .. 4 :
        {Purged[k] : k \in 1 .. n} = {Purged[k] : k \in 1 .. n - 1} \cup {Purged[n]}
  BY <1>5
<1>7. {Purged[k] : k \in 1 .. 0} = {}
  OBVIOUS
<1> QED BY <1>1, <1>2, <1>4, <1>6, <1>7 DEF Phases

\* A phase is one directory at most, and a directory is no other phase.
LEMMA PhaseOfDirectory ==
  ASSUME NEW n \in 1 .. 4
  PROVE  /\ Purged[n] \in Phases \ {"idle", "bundle", "sidecar", "root"}
         /\ Purged[n] # "dir" /\ Purged[n] # "ok"
         /\ \A m \in 1 .. 4 : Purged[m] = Purged[n] => m = n
<1>1. \A k \in 1 .. 4 : k = 1 \/ k = 2 \/ k = 3 \/ k = 4
  OBVIOUS
<1> QED BY <1>1, PurgedDirectories

\* The places keep their entries' mark of a directory.
LEMMA PlacesKept ==
  ASSUME TypeOK, [Next]_vars
  PROVE  TypeOK'
<1>t. /\ DOMAIN place = {"bundle", "sidecar", "user"} /\ DOMAIN before = DOMAIN place
      /\ \A p \in DOMAIN place : place[p] # {} => "dir" \in place[p]
  BY DEF TypeOK
<1>1. CASE PackagerStep /\ UNCHANGED installer
  BY <1>1 DEF installer, TypeOK
<1>2. CASE Deliver
  BY <1>2, PlacesAssumption DEF Deliver, TypeOK
<1>3. CASE Install \/ Use
  BY <1>3 DEF Install, Use, TypeOK
<1>4. CASE \E a \in Args : Uninstall(a)
  BY <1>4, PurgedDirectories DEF Uninstall, Ends, TypeOK
<1>5. ASSUME NEW p \in {"bundle", "sidecar"}, NEW next, next = "ok" \/ next \in Phases,
             RemoveTree(p, next)
      PROVE  TypeOK'
  <2>1. CASE UNCHANGED place
    BY <1>5, <2>1, PurgedDirectories DEF RemoveTree, Ends, TypeOK
  <2>2. CASE \E e \in place[p] : /\ e = "dir" => place[p] = {"dir"}
                                 /\ place' = [place EXCEPT ![p] = @ \ {e}]
    <3>1. PICK e \in place[p] : /\ e = "dir" => place[p] = {"dir"}
                                /\ place' = [place EXCEPT ![p] = @ \ {e}]
      BY <2>2
    <3>2. /\ DOMAIN place' = DOMAIN place /\ place'[p] = place[p] \ {e}
          /\ \A q \in DOMAIN place : q # p => place'[q] = place[q]
      BY <1>t, <3>1
    <3>3. \A q \in DOMAIN place' : place'[q] # {} => "dir" \in place'[q]
      BY <1>t, <3>1, <3>2
    <3>4. UNCHANGED <<there, args, before, torn, phase, said>>
      BY <1>5, <3>1, <3>2 DEF RemoveTree
    <3> QED BY <1>t, <3>2, <3>3, <3>4 DEF TypeOK
  <2> QED BY <1>5, <2>1, <2>2 DEF RemoveTree
<1>6. ASSUME NEW n \in 1 .. Len(Purged), Purge(n) PROVE TypeOK'
  <2>1. n \in 1 .. 4 /\ Len(Purged) = 4 /\ (n < 4 => n + 1 \in 1 .. 4)
    BY PurgedDirectories
  <2>2. phase' \in Phases
    BY <1>6, <2>1, PhaseOfDirectory, PurgedDirectories DEF Purge, Ends
  <2>3. /\ DOMAIN place' = DOMAIN place
        /\ \A q \in DOMAIN place' : place'[q] # {} => "dir" \in place'[q]
    BY <1>6, <1>t, <2>1, PhaseOfDirectory DEF Purge
  <2> QED BY <1>6, <1>t, <2>2, <2>3 DEF Purge, Ends, TypeOK
<1>7. CASE PurgeRoot
  BY <1>7, PurgedDirectories DEF PurgeRoot, Ends, TypeOK
<1>8. CASE Interrupted \/ UNCHANGED vars
  BY <1>8, PurgedDirectories DEF Interrupted, Ends, installer, vars, TypeOK
<1>9. AfterSidecar = "ok" \/ AfterSidecar \in Phases
  BY PurgedDirectories DEF AfterSidecar
<1> QED BY <1>1, <1>2, <1>3, <1>4, <1>5, <1>6, <1>7, <1>8, <1>9, PurgedDirectories DEF Next

\* What a call may remove from the user data root, and what it leaves there.
Asked == IF args.purge /\ ~args.dry THEN Range(Purged) ELSE {}
Left  == before["user"] \ Asked

\* A call that has not ended has only to leave alone what it was not asked to
\* remove.
LEMMA NotEnded ==
  ASSUME said' \notin {"refused", "ok"}, (Left \ {"dir"})' \subseteq place'["user"]
  PROVE  UninstallKeepsItsWord'
  BY DEF UninstallKeepsItsWord, Left, Asked

LEMMA LeavesTheRest ==
  ASSUME UninstallInv
  PROVE  Left \ {"dir"} \subseteq place["user"]
  BY DEF UninstallInv, UninstallKeepsItsWord, Left, Asked

\* Between two calls there is nothing more to say.
LEMMA IdleFromWord ==
  ASSUME TypeOK', phase' = "idle", there', UninstallKeepsItsWord'
  PROVE  UninstallInv'
<1>1. \A n \in 1 .. Len(Purged) : Purged[n] # "idle"
  BY PhaseOfDirectory, PurgedDirectories
<1> QED BY <1>1 DEF UninstallInv

\* The uninstaller is called on a machine the distribution has come to.
LEMMA OnlyThere ==
  ASSUME UninstallInv, phase # "idle"
  PROVE  there
  BY DEF UninstallInv

LEMMA CallKeepsWord ==
  ASSUME UninstallInv, TypeOK', NEW a \in Args, Uninstall(a)
  PROVE  UninstallInv'
<1>1. /\ there' /\ args' = a /\ before' = place /\ place' = place
  BY DEF Uninstall
<1>2. CASE ~Checked(a) /\ Ends("refused")
  <2>1. UninstallKeepsItsWord'
    BY <1>1, <1>2 DEF Ends, UninstallKeepsItsWord
  <2> QED BY <1>1, <1>2, <2>1, IdleFromWord DEF Ends
<1>3. CASE Checked(a) /\ a.dry /\ Ends("ok")
  <2>1. UninstallKeepsItsWord'
    BY <1>1, <1>3 DEF Ends, UninstallKeepsItsWord
  <2> QED BY <1>1, <1>3, <2>1, IdleFromWord DEF Ends
<1>4. CASE Checked(a) /\ ~a.dry /\ phase' = "bundle" /\ said' = "nothing"
  <2>1. \A n \in 1 .. Len(Purged) : Purged[n] # "bundle"
    BY PhaseOfDirectory, PurgedDirectories
  <2>2. args'.purge => args'.default \/ "sentinel" \in before'["user"]
    BY <1>1, <1>4 DEF Checked, IsUserRoot
  <2>3. UninstallKeepsItsWord'
    BY <1>1, <1>4 DEF UninstallKeepsItsWord
  <2> QED BY <1>1, <1>4, <2>1, <2>2, <2>3 DEF UninstallInv
<1> QED BY <1>2, <1>3, <1>4 DEF Uninstall

\* One of the two trees is removed, entry by entry.
LEMMA TreeKeepsWord ==
  ASSUME UninstallInv, TypeOK',
         RemoveTree("bundle", "sidecar") \/ RemoveTree("sidecar", AfterSidecar)
  PROVE  UninstallInv'
<1>1. /\ phase \in {"bundle", "sidecar"} /\ there /\ there' /\ said = "nothing" /\ ~args.dry
      /\ UNCHANGED <<args, before>> /\ place["user"] = before["user"]
      /\ args.purge => args.default \/ "sentinel" \in before["user"]
  BY OnlyThere DEF RemoveTree, UninstallInv
<1>2. \A n \in 1 .. Len(Purged) : Purged[n] \notin {"bundle", "sidecar", "idle", "root"}
  BY PhaseOfDirectory, PurgedDirectories
<1>t. DOMAIN place = {"bundle", "sidecar", "user"}
  BY DEF UninstallInv, TypeOK
<1>p. place'["user"] = place["user"]
  BY <1>t DEF RemoveTree
<1>w. (Left \ {"dir"})' \subseteq place'["user"]
  BY <1>1, <1>p DEF Left, Asked
<1>b. phase = "sidecar" => place["bundle"] = {} /\ place'["bundle"] = {}
  BY <1>t DEF RemoveTree, UninstallInv
<1>3. CASE UNCHANGED <<phase, said>>
  <2>1. UninstallKeepsItsWord'
    BY <1>1, <1>3, <1>w, NotEnded
  <2> QED BY <1>1, <1>2, <1>3, <1>b, <1>p, <2>1 DEF UninstallInv
<1>4. CASE phase = "bundle" /\ place["bundle"] = {} /\ phase' = "sidecar" /\ UNCHANGED <<place, said>>
  <2>1. UninstallKeepsItsWord'
    BY <1>1, <1>4, <1>w, NotEnded
  <2> QED BY <1>1, <1>2, <1>4, <2>1 DEF UninstallInv
<1>5. CASE /\ phase = "sidecar" /\ place["sidecar"] = {} /\ UNCHANGED <<place, said>>
           /\ args.purge /\ phase' = Purged[1]
  <2>1. UninstallKeepsItsWord'
    BY <1>1, <1>5, <1>w, NotEnded
  <2>2. /\ 1 \in 1 .. 4 /\ {Purged[k] : k \in 1 .. 1 - 1} = {}
        /\ \A n \in 1 .. 4 : Purged[n] = Purged[1] => n = 1
    BY PhaseOfDirectory, PurgedDirectories
  <2>3. \A n \in 1 .. Len(Purged) :
          phase' = Purged[n] => place'["user"] = before'["user"] \ {Purged[k] : k \in 1 .. n - 1}
    BY <1>1, <1>5, <2>2, PurgedDirectories
  <2>4. phase' \notin {"bundle", "sidecar", "idle", "root"}
    BY <1>5, <2>2, PhaseOfDirectory
  <2> QED BY <1>1, <1>5, <1>b, <2>1, <2>3, <2>4 DEF UninstallInv
<1>6. CASE /\ phase = "sidecar" /\ place["sidecar"] = {} /\ UNCHANGED place
           /\ ~args.purge /\ Ends("ok")
  <2>1. UninstallKeepsItsWord'
    BY <1>1, <1>6, <1>b DEF UninstallKeepsItsWord, Ends
  <2> QED BY <1>1, <1>6, <2>1, IdleFromWord DEF Ends
<1>7. Purged[1] # "ok"
  BY PurgedDirectories
<1> QED BY <1>3, <1>4, <1>5, <1>6, <1>7 DEF RemoveTree, AfterSidecar

\* One directory of the user data root is removed.
LEMMA PurgeKeepsWord ==
  ASSUME UninstallInv, TypeOK', NEW n \in 1 .. Len(Purged), Purge(n)
  PROVE  UninstallInv'
<1>1. /\ n \in 1 .. 4 /\ Len(Purged) = 4 /\ phase = Purged[n] /\ UNCHANGED <<there, args, before>>
  BY PurgedDirectories DEF Purge
<1>2. phase \notin {"bundle", "sidecar", "idle", "root"}
  BY <1>1, PhaseOfDirectory
<1>3. /\ there' /\ said = "nothing" /\ ~args.dry /\ args.purge
      /\ args.default \/ "sentinel" \in before["user"]
      /\ place["bundle"] = {} /\ place["sidecar"] = {}
      /\ place["user"] = before["user"] \ {Purged[k] : k \in 1 .. n - 1}
  BY <1>1, <1>2, OnlyThere DEF UninstallInv
<1>4. n = 1 => IsUserRoot(args)
  <2>1. n = 1 => place["user"] = before["user"]
    BY <1>3, PurgedDirectories
  <2> QED BY <1>3, <2>1 DEF IsUserRoot
<1>5. /\ place' = [place EXCEPT !["user"] = @ \ {Purged[n]}] /\ said' = "nothing"
      /\ phase' = IF n < Len(Purged) THEN Purged[n + 1] ELSE "root"
  BY <1>3, <1>4 DEF Purge
<1>6. /\ place'["user"] = place["user"] \ {Purged[n]}
      /\ place'["bundle"] = {} /\ place'["sidecar"] = {}
  BY <1>3, <1>5 DEF UninstallInv, TypeOK
<1>7. place'["user"] = before["user"] \ {Purged[k] : k \in 1 .. n}
  BY <1>1, <1>3, <1>6, PurgedDirectories
<1>8. UninstallKeepsItsWord'
  <2>1. {Purged[k] : k \in 1 .. n} \subseteq Range(Purged)
    <3>1. \A k \in 1 .. n : k \in 1 .. 4
      BY <1>1
    <3> QED BY <3>1, PurgedDirectories
  <2> QED BY <1>1, <1>3, <1>5, <1>7, <2>1, NotEnded DEF Left, Asked
<1>9. CASE n < 4
  <2>1. phase' = Purged[n + 1] /\ n + 1 \in 1 .. 4 /\ (n + 1) - 1 = n
    BY <1>1, <1>5, <1>9
  <2>2. phase' \notin {"bundle", "sidecar", "idle", "root"}
    BY <2>1, PhaseOfDirectory
  <2>3. \A m \in 1 .. Len(Purged) :
          phase' = Purged[m] => place'["user"] = before'["user"] \ {Purged[k] : k \in 1 .. m - 1}
    <3>1. \A m \in 1 .. 4 : Purged[m] = Purged[n + 1] => m = n + 1
      BY <2>1, PhaseOfDirectory
    <3> QED BY <1>1, <1>7, <2>1, <3>1
  <2> QED BY <1>1, <1>3, <1>5, <1>6, <1>8, <2>2, <2>3 DEF UninstallInv
<1>10. CASE n = 4
  <2>1. phase' = "root" /\ place'["user"] = before["user"] \ Range(Purged)
    BY <1>1, <1>5, <1>7, <1>10, PurgedDirectories
  <2>2. \A m \in 1 .. Len(Purged) : Purged[m] # "root"
    BY PhaseOfDirectory, PurgedDirectories
  <2> QED BY <1>1, <1>3, <1>5, <1>6, <1>8, <2>1, <2>2 DEF UninstallInv
<1> QED BY <1>1, <1>9, <1>10

LEMMA RootKeepsWord ==
  ASSUME UninstallInv, TypeOK', PurgeRoot
  PROVE  UninstallInv'
<1>1. /\ phase = "root" /\ phase' = "idle" /\ said' = "ok" /\ UNCHANGED <<there, args, before>>
      /\ place' = [place EXCEPT !["user"] = IF @ = {"dir"} THEN {} ELSE @]
  BY DEF PurgeRoot, Ends
<1>2. /\ there /\ ~args.dry /\ args.purge /\ place["bundle"] = {} /\ place["sidecar"] = {}
      /\ place["user"] = before["user"] \ Range(Purged)
      /\ DOMAIN place = {"bundle", "sidecar", "user"}
  BY <1>1, OnlyThere DEF UninstallInv, TypeOK
<1>3. /\ place'["bundle"] = {} /\ place'["sidecar"] = {}
      /\ place'["user"] = IF place["user"] = {"dir"} THEN {} ELSE place["user"]
  BY <1>1, <1>2
<1>4. UninstallKeepsItsWord'
  BY <1>1, <1>2, <1>3 DEF UninstallKeepsItsWord
<1> QED BY <1>1, <1>2, <1>4, IdleFromWord

\* The bundle is installed or used, or the uninstaller interrupted.
LEMMA OthersKeepWord ==
  ASSUME UninstallInv, TypeOK', Install \/ Use \/ Interrupted \/ Deliver
  PROVE  UninstallInv'
<1>t. DOMAIN place = {"bundle", "sidecar", "user"}
  BY DEF UninstallInv, TypeOK
<1>w. Left \ {"dir"} \subseteq place["user"]
  BY LeavesTheRest
<1>1. CASE Install
  <2>1. /\ there' /\ phase' = "idle" /\ said' = "nothing" /\ UNCHANGED <<args, before>>
        /\ place'["user"] = place["user"]
    BY <1>1, <1>t DEF Install
  <2>2. UninstallKeepsItsWord'
    BY <1>w, <2>1, NotEnded DEF Left, Asked
  <2> QED BY <2>1, <2>2, IdleFromWord
<1>2. CASE Use
  <2>1. /\ phase \in {"idle", "bundle"} /\ UNCHANGED <<there, args, phase, before>>
        /\ place["bundle"] # {} /\ place'["user"] = place["user"] /\ said' = "nothing"
    BY <1>2, <1>t DEF Use, UninstallInv
  <2>2. UninstallKeepsItsWord'
    BY <1>w, <2>1, NotEnded DEF Left, Asked
  <2>3. \A n \in 1 .. Len(Purged) : Purged[n] \notin {"bundle", "sidecar", "idle", "root"}
    BY PhaseOfDirectory, PurgedDirectories
  <2> QED BY <2>1, <2>2, <2>3 DEF UninstallInv
<1>3. CASE Interrupted
  <2>1. /\ there /\ phase' = "idle" /\ said' = "failed" /\ UNCHANGED <<there, args, before, place>>
    BY <1>3, OnlyThere DEF Interrupted, Ends
  <2>2. UninstallKeepsItsWord'
    BY <1>w, <2>1, NotEnded DEF Left, Asked
  <2> QED BY <2>1, <2>2, IdleFromWord
<1>4. CASE Deliver
  <2>1. /\ there' /\ phase = "idle" /\ said = "nothing" /\ before["user"] = {}
        /\ UNCHANGED <<args, phase, before, said>>
    BY <1>4 DEF Deliver, UninstallInv
  <2>2. UninstallKeepsItsWord'
    BY <2>1, NotEnded DEF Left, Asked
  <2> QED BY <2>1, <2>2, IdleFromWord
<1> QED BY <1>1, <1>2, <1>3, <1>4

\* UninstallInv is an inductive invariant of Installation.
THEOREM UninstallInvariance == Spec => []UninstallInv
<1>1. Init => UninstallInv
  <2> SUFFICES ASSUME Init PROVE UninstallInv
    OBVIOUS
  <2>1. /\ there = FALSE /\ place = [bundle |-> {}, sidecar |-> {}, user |-> {}]
        /\ args = [purge |-> FALSE, dry |-> TRUE, default |-> TRUE]
        /\ phase = "idle" /\ before = place /\ torn = FALSE /\ said = "nothing"
    BY DEF Init
  <2>2. TypeOK
    <3>1. /\ DOMAIN place = {"bundle", "sidecar", "user"} /\ DOMAIN before = DOMAIN place
          /\ \A p \in DOMAIN place : place[p] = {}
      BY <2>1
    <3>2. args \in Args /\ phase \in Phases
      BY <2>1, PurgedDirectories DEF Args
    <3> QED BY <2>1, <3>1, <3>2 DEF TypeOK
  <2>3. UninstallKeepsItsWord
    BY <2>1 DEF UninstallKeepsItsWord
  <2>4. \A n \in 1 .. Len(Purged) : Purged[n] # "idle"
    BY PhaseOfDirectory, PurgedDirectories
  <2> QED BY <2>1, <2>2, <2>3, <2>4 DEF UninstallInv
<1>2. UninstallInv /\ [Next]_vars => UninstallInv'
  <2> SUFFICES ASSUME UninstallInv, [Next]_vars PROVE UninstallInv'
    OBVIOUS
  <2>1. TypeOK'
    BY PlacesKept DEF UninstallInv
  <2>2. CASE UNCHANGED installer
    BY <2>2, PurgedDirectories DEF installer, UninstallInv, TypeOK, UninstallKeepsItsWord
  <2>3. CASE ~UNCHANGED installer
    BY <2>1, <2>3, CallKeepsWord, TreeKeepsWord, PurgeKeepsWord, RootKeepsWord, OthersKeepWord
       DEF Next, vars
  <2> QED BY <2>2, <2>3
<1> QED BY <1>1, <1>2, PTL DEF Spec

\* A call of the uninstaller removes all that it was asked to or, if it
\* refuses, nothing, and never another entry of the user data root, wherever
\* it is interrupted.
THEOREM UninstallIsTrue == Spec => []UninstallKeepsItsWord
<1>1. UninstallInv => UninstallKeepsItsWord
  BY DEF UninstallInv
<1> QED BY <1>1, UninstallInvariance, PTL
=============================================================================
