---------------------------- MODULE Distribution ----------------------------
(***************************************************************************)
(* The packager (packaging/build_bundle.py): one call after another builds *)
(* a distribution into one output directory, from inputs that may be       *)
(* incomplete or exclude one another, and may fail or be killed at any     *)
(* file.  What it makes is described by the distribution manifest, which   *)
(* it writes last.                                                         *)
(*                                                                         *)
(* A file is <<owned path, kind, package, number>>; what it holds is the   *)
(* number of the call that wrote it.                                       *)
(***************************************************************************)
EXTENDS Naturals, FiniteSets, Sequences, Functions

CONSTANTS
  Inputs,    \* what the packager may be called with
  MaxBuilds  \* bound on the calls

\* A package of a model root: its directory, the directory its manifest names
\* (the same if the manifest cannot be read), the files the manifest expects
\* and those that are there.
\* tools: plugin binary and sidecar source are there; code: so is every file
\* of the sidecar; repo: runtime source and adapter; own: the resources to be
\* taken over are those of the output directory itself.
Fields == {"tools", "code", "models", "archive", "runtime", "repo", "packed", "python", "own"}

ASSUME BuildsAssumption == MaxBuilds \in Nat
ASSUME InputsAssumption ==
  \A i \in Inputs : /\ DOMAIN i = Fields
                    /\ i.archive \in {"none", "lost", "given"}
                    /\ i.runtime \in {"none", "assets", "packaged", "both"}
                    /\ i.python \in {"none", "bad", "good"}
                    /\ \A ps \in {i.models, i.packed} : ps \in Seq(Range(ps))

VARIABLES
  out,    \* the owned files of the output directory and their contents
  dist,   \* the distribution manifest
  given,  \* the inputs of the calls so far
  step,   \* what the packager does next: an index of Steps, or 0
  cut     \* a removal ended early and left the manifest of what it removed

packager == <<out, dist, given, step, cut>>

NoDist == [status |-> "none"]
Torn   == [status |-> "torn"]

OwnedPaths_NoArchive == <<"bundle", "model-manifests", "docs">>

\* _remove_owned_outputs takes these first and the distribution manifest last.
OwnedPaths == <<"bundle", "model-manifests", "offline-models", "docs">>

BuildSteps == <<"plugin", "sidecar", "docs", "example", "manifests", "archive", "options",
                "repo", "models", "python", "dist">>

Steps == OwnedPaths \o <<"old dist">> \o BuildSteps

-----------------------------------------------------------------------------
(* Inputs *)

i == given[Len(given)]

Names(ps) == {p.names : p \in Range(ps)}

\* Two manifests would be packaged at one place.
Duplicate(ps) == Cardinality(Names(ps)) < Len(ps)

Lacking(ps) == \E p \in Range(ps) : ~(p.expects \subseteq p.has)

\* _copy_packaged_runtime_resources validates all before it copies.
Reusable == ~i.own /\ i.repo /\ i.packed # <<>> /\ ~Lacking(i.packed) /\ i.python = "good"

\* What a step raises, whether or not it has copied something before.
Raises(s) ==
  CASE s = "sidecar"   -> ~i.code
    [] s = "manifests" -> Duplicate(i.models)
    [] s = "archive"   -> i.archive = "lost"
    [] s = "options"   -> i.runtime = "both" \/ (i.runtime = "assets" /\ i.python = "none")
    [] s = "repo"      -> (i.runtime = "assets" /\ ~i.repo) \/ (i.runtime = "packaged" /\ ~Reusable)
    [] s = "models"    -> i.runtime = "assets" /\ Lacking(i.models)
    [] s = "python"    -> i.runtime = "assets" /\ i.python = "bad"
    [] OTHER           -> FALSE

File(path, kind) == {<<path, kind, "", 0>>}

ManifestsIn(path) == {<<path, "installed", d, 0>> : d \in Names(i.models)}

\* A package with its manifest, 0, and the files of the set.
Package(d, files) == {<<"bundle", "model", d, f>> : f \in {0} \cup files}

RuntimeModels ==
  CASE i.runtime = "assets"   -> UNION {Package(p.names, p.expects) : p \in Range(i.models)}
    [] i.runtime = "packaged" -> UNION {Package(p.dir, p.has) : p \in Range(i.packed)}
    [] OTHER -> {}

HasRuntime == i.runtime \in {"assets", "packaged"}

Writes(s) ==
  CASE s = "plugin"    -> File("bundle", "Info.plist") \cup File("bundle", "plugin")
    [] s = "sidecar"   -> File("bundle", "sidecar")
    [] s = "docs"      -> File("docs", "docs")
    [] s = "example"   -> File("bundle", "example") \cup File("model-manifests", "example")
    [] s = "manifests" -> ManifestsIn("bundle") \cup ManifestsIn("model-manifests")
    [] s = "archive"   -> IF i.archive = "given" THEN File("offline-models", "archive") ELSE {}
    [] s = "repo"      -> IF HasRuntime THEN File("bundle", "repo") ELSE {}
    [] s = "models"    -> RuntimeModels
    [] s = "python"    -> IF HasRuntime THEN File("bundle", "python") ELSE {}
    [] OTHER           -> {}

-----------------------------------------------------------------------------
(* A call *)

Present == DOMAIN out

With(files) == [f \in Present \cup files |-> IF f \in files THEN Len(given) ELSE out[f]]

Stops == step' = 0

InitPackager == out = <<>> /\ dist = NoDist /\ given = <<>> /\ step = 0 /\ cut = FALSE

\* build_bundle begins; what it checks first is found while nothing has been
\* touched.
Build(input) ==
  /\ step = 0 /\ Len(given) < MaxBuilds
  /\ given' = Append(given, input)
  /\ step' = IF input.tools THEN 1 ELSE 0
  /\ UNCHANGED <<out, dist, cut>>

InPath(path) == {f \in Present : f[1] = path}

\* One owned path is removed; a failure or a kill leaves some of its files.
RemovePath ==
  /\ step \in 1 .. Len(OwnedPaths)
  /\ LET files == InPath(OwnedPaths[step])
     IN \/ out' = Restrict(out, Present \ files) /\ step' = step + 1 /\ UNCHANGED cut
        \/ /\ \E S \in SUBSET files : out' = Restrict(out, Present \ S)
           /\ Stops /\ cut' = (dist # NoDist)
  /\ UNCHANGED <<dist, given>>

RemoveManifest ==
  /\ step > 0 /\ Steps[step] = "old dist"
  /\ \/ dist' = NoDist /\ cut' = FALSE /\ step' = step + 1
     \/ Stops /\ cut' = (dist # NoDist) /\ UNCHANGED dist
  /\ UNCHANGED <<out, given>>

\* One thing after another is copied into place.
Copy ==
  /\ step > Len(OwnedPaths) + 1 /\ Steps[step] # "dist"
  /\ LET s == Steps[step]
     IN \/ ~Raises(s) /\ out' = With(Writes(s)) /\ step' = step + 1
        \/ \E S \in SUBSET Writes(s) : out' = With(S) /\ Stops
  /\ UNCHANGED <<dist, given, cut>>

\* The status fields, from what the steps have returned.
ArchiveStatus == IF i.archive = "given" THEN "ready" ELSE "missing"

SourceStatus == IF i.models # <<>> /\ ArchiveStatus = "ready" THEN "ready" ELSE "blocked"

RuntimeStatus ==
  CASE i.runtime = "assets"   -> IF i.models # <<>> THEN "ready" ELSE "missing"
    [] i.runtime = "packaged" -> "ready"
    [] OTHER -> "missing"

\* runtime_package.models: each with the name its manifest has, and a
\* runtime_manifest path made of that name, wherever the package is.
RuntimePackages ==
  CASE i.runtime = "assets"   -> Names(i.models)
    [] i.runtime = "packaged" -> Names(i.packed)
    [] OTHER -> {}

\* _distribution_manifest lists what it finds and hashes it.
WriteManifest ==
  /\ step > 0 /\ Steps[step] = "dist"
  /\ dist' \in {Torn, [status |-> "written", files |-> out, models |-> Names(i.models),
                       archive |-> ArchiveStatus, source |-> SourceStatus,
                       runtime |-> RuntimeStatus, packages |-> RuntimePackages]}
  /\ Stops
  /\ UNCHANGED <<out, given, cut>>

PackagerStep ==
  \/ \E input \in Inputs : Build(input)
  \/ RemovePath \/ RemoveManifest \/ Copy \/ WriteManifest

-----------------------------------------------------------------------------
(* Safety *)

Has(path, kind) == File(path, kind) \subseteq Present

\* The packages given that a runtime file of the last build is of.
PackagesOf(f) ==
  LET from == given[out[f]]
  IN IF from.runtime = "assets" THEN {p \in Range(from.models) : f[3] = p.names}
                                ELSE {p \in Range(from.packed) : f[3] = p.dir}

Expects(f) == UNION {p.expects : p \in PackagesOf(f)}

WholeModel(f) == Package(f[3], Expects(f)) \subseteq Present

RuntimeFiles == {f \in Present : f[2] = "model"}

\* The manifest of the package d is where runtime_manifest says.
FoundAt(d) == <<"bundle", "model", d, 0>> \in Present

\* The package d is in a directory that is not the one its manifest names.
Misplaced(d) == \E f \in RuntimeFiles : f[3] # d /\ \E p \in PackagesOf(f) : p.names = d

\* A distribution manifest that can be read, and that no interrupted removal
\* has outlived, lists exactly the files of its package as they are, and is
\* right about the manifests, the archive and the runtime in it, whatever
\* earlier calls with other inputs left behind: the runtime packages listed are
\* those that are there, whole, and each is where its path says.  But for one
\* thing: of a package taken over from a runtime that has it in a directory its
\* manifest does not name, the path may name a file that is not there.
ManifestTellsTruth ==
  dist.status = "written" /\ ~cut /\ step \notin 1 .. Len(OwnedPaths) + 1 =>
    /\ dist.files = out
    /\ dist.archive = "ready" <=> Has("offline-models", "archive")
    /\ \A path \in {"bundle", "model-manifests"} :
         dist.models = {f[3] : f \in {g \in Present : g[1] = path /\ g[2] = "installed"}}
    /\ dist.source = "ready" => dist.models # {} /\ Has("offline-models", "archive")
    /\ dist.runtime = "ready" =>
         /\ Has("bundle", "repo") /\ Has("bundle", "python")
         /\ RuntimeFiles # {} /\ \A f \in RuntimeFiles : WholeModel(f)
    /\ dist.packages = UNION {{p.names : p \in PackagesOf(f)} : f \in RuntimeFiles}
    /\ \A d \in dist.packages : FoundAt(d) \/ Misplaced(d)

-----------------------------------------------------------------------------
(* The inductive invariant *)

FirstCopy == Len(OwnedPaths) + 2

\* The steps of this call that have copied something.
Copied == {Steps[k] : k \in FirstCopy .. step - 1}

\* While the owned paths are removed those before this one are empty; past them
\* all that is there is what the steps of this call have written, and none of
\* them has raised.
BuildInv ==
  /\ given \in Seq(Inputs) /\ step \in 0 .. Len(Steps) /\ cut \in BOOLEAN
  /\ step > 0 => given # <<>>
  /\ \A f \in Present : f[1] \in Range(OwnedPaths) /\ out[f] \in 1 .. Len(given)
  /\ step < FirstCopy =>
       \A k \in 1 .. Len(OwnedPaths) : k < step => InPath(OwnedPaths[k]) = {}
  /\ step >= FirstCopy =>
       /\ dist = NoDist /\ ~cut
       /\ \A s \in Copied : ~Raises(s)
       /\ Present = UNION {Writes(s) : s \in Copied}
       /\ \A f \in Present : out[f] = Len(given)
  /\ ManifestTellsTruth
=============================================================================
