---------------------------- MODULE TorchBackend ----------------------------
(***************************************************************************)
(* A warmup or infer request for a backend other than stub                 *)
(* (sidecar/corridorkey_sidecar/backends/torch_backend.py), served by one  *)
(* sidecar while others install packages into the model root it reads      *)
(* (ModelRoot): the checks before the runtime, the choice of a model       *)
(* (select_backend_model of model_manager.py, or that of the fixture       *)
(* runtime), the adapter, and the answer with the status it claims.        *)
(*                                                                         *)
(* What the adapter computes is left out, and so are the blobs, of which   *)
(* only remains whether they could be read.                                *)
(***************************************************************************)
EXTENDS ModelRoot

CONSTANTS
  Color,     \* [Dirs -> colour] of the manifest of a package
  Backends,  \* [Dirs -> set of backends] its backend_compatibility
  Weights,   \* [Versions -> Files, or 0]: what local_path names
  Envs,      \* the environments a sidecar may be started in
  Requests,  \* the requests the host sends
  MaxUnder   \* bound on the installs begun before or during a request

\* root: CORRIDORKEY_MODEL_DIR is what the model manager uses, too;
\* fixture: fixture_runtime_enabled(); cpu: CORRIDORKEY_DEVICE is cpu;
\* repo: the repository directory is there; modelDir: there is a model
\* directory, even an empty one.
Env == [root : BOOLEAN, fixture : BOOLEAN, cpu : BOOLEAN, repo : BOOLEAN,
        modelDir : BOOLEAN, mlx : BOOLEAN, adapter : {"ok", "unusable", "raises"}]

Request == [cmd : {"warmup", "infer"}, backend : STRING, color : {"auto", "green", "blue"}]

\* The payload of a warmup has no screen_color.
ASSUME EnvsAssumption     == Envs \subseteq Env
ASSUME UnderAssumption    == MaxUnder \in 0 .. MaxInstalls
ASSUME RequestsAssumption == /\ Requests \subseteq Request
                             /\ \A r \in Requests : r.cmd = "warmup" => r.color = "auto"
ASSUME CatalogAssumption  == /\ Color \in [Dirs -> {"green", "blue"}]
                             /\ Weights \in [Versions -> Files \cup {0}]
                             /\ DOMAIN Backends = Dirs

VARIABLES
  env,      \* the environment of the sidecar
  rpc,      \* its next step in the request
  rq,       \* the request
  gate,     \* why it will be blocked whatever model there is, or "open"
  next,     \* the package whose manifest is read next
  cand,     \* compatible packages found, each with the version of its manifest
  pick,     \* the one selected
  left,     \* its files still to be validated
  digest,   \* one of them has been located and is about to be hashed
  ckpt,     \* the file whose path the adapter gets, or 0
  weights,  \* the file it opened and its content
  reply,    \* the answer
  touched   \* packages writers have changed since the request came

readerVars == <<env, rpc, rq, gate, next, cand, pick, left, digest, ckpt, weights, reply>>
vars == <<disk, writerVars, readerVars, touched>>

Gates == {"open", "mps", "no_mlx", "paths", "mlx_failed"}
NoPick == <<0, "none">>
NoRequest == [cmd |-> "none", backend |-> "none", color |-> "auto"]
NoReply == [outcome |-> "none", status |-> "missing", judged |-> FALSE, model |-> NoPick]

\* judged: the answer carries what select_backend_model said of a package.
Reply == [outcome : {"none", "ready", "blocked", "unsupported", "failed", "escaped"},
          status : {"missing", "checksum_mismatch", "ready"},
          judged : BOOLEAN, model : {NoPick} \cup (Dirs \X Versions)]

TypeOK ==
  /\ DiskTypeOK
  /\ env \in Envs /\ rq \in Requests \cup {NoRequest} /\ gate \in Gates
  /\ rpc \in {"idle", "gate", "scan", "validate", "checkpoint", "adapter",
              "blobs", "run", "outputs", "answered"}
  /\ next \in 1 .. NDirs + 1
  /\ cand \subseteq Dirs \X Versions
  /\ pick \in {NoPick} \cup (Dirs \X Versions)
  /\ left \subseteq Files /\ digest \in BOOLEAN
  /\ ckpt \in Files \cup {0}
  /\ weights \in (Files \cup {0}) \X Contents
  /\ reply \in Reply
  /\ touched \subseteq Dirs

-----------------------------------------------------------------------------
(* Helpers *)

CPU_BACKENDS == {"auto", "torch_cpu"}
GPU_BACKENDS == {"torch_cuda", "torch_mps"}

Effective == IF rq.backend = "auto" THEN "torch_cpu" ELSE rq.backend

\* The model directory of the configuration is a directory.
ModelDirThere == env.modelDir \/ (env.root /\ \E p \in Dirs : made[p])

\* Screen colour and backend of a manifest fit the request.
Fits(p) == Effective \in Backends[p] /\ rq.color \in {"auto", Color[p]}

Preferred_FirstFound(S) == CHOOSE c \in S : \A d \in S : c[1] <= d[1]

\* With "auto" a green model goes before a blue one, then the path decides.
Before(p, q) ==
  \/ rq.color = "auto" /\ Color[p] = "green" /\ Color[q] # "green"
  \/ (rq.color = "auto" => Color[p] = Color[q]) /\ p < q

\* The first one in the order of the selection.
Preferred(S) == CHOOSE c \in S : \A d \in S \ {c} : Before(c[1], d[1])

Answers(outcome, status, judged, model) ==
  /\ reply' = [outcome |-> outcome, status |-> status, judged |-> judged, model |-> model]
  /\ rpc' = "answered"

\* blocked_response without the fields of a selection claims "missing".
Blocked(outcome) == Answers(outcome, "missing", FALSE, NoPick)

Fails == Answers("failed", "missing", FALSE, NoPick)

StartScan(g) == gate' = g /\ next' = 1 /\ cand' = {} /\ pick' = NoPick /\ rpc' = "scan"

Init ==
  /\ InitDisk
  /\ env \in Envs /\ rq = NoRequest
  /\ rpc = "idle" /\ gate = "open" /\ next = 1 /\ cand = {} /\ pick = NoPick
  /\ left = {} /\ digest = FALSE /\ ckpt = 0 /\ weights = NoPick
  /\ reply = NoReply
  /\ touched = {}

-----------------------------------------------------------------------------
(* The checks before the runtime *)

Fresh ==
  /\ gate' = "open" /\ next' = 1 /\ cand' = {} /\ pick' = NoPick
  /\ left' = {} /\ digest' = FALSE /\ ckpt' = 0 /\ weights' = NoPick
  /\ reply' = NoReply /\ touched' = {}

\* handle_backend_request
Receive(r) ==
  /\ rpc = "idle" /\ begun <= MaxUnder
  /\ rq' = r /\ rpc' = "gate"
  /\ Fresh
  /\ UNCHANGED <<disk, writerVars, env>>

\* The answer is out: the backend keeps nothing of the request.
Done ==
  /\ rpc = "answered"
  /\ rpc' = "idle" /\ Fresh
  /\ rq' = NoRequest
  /\ UNCHANGED <<disk, writerVars, env>>

\* _blocked_before_runtime in the order of its checks.  Some refusals look for
\* a model all the same, to say how it stands.
Gate ==
  /\ rpc = "gate"
  /\ LET b == rq.backend
     IN CASE b = "torch_mps" -> StartScan("mps") /\ UNCHANGED reply
          [] b = "mlx" /\ ~env.fixture /\ ~env.mlx -> StartScan("no_mlx") /\ UNCHANGED reply
          [] \/ b \in GPU_BACKENDS \ {"torch_mps"}
             \/ b \notin CPU_BACKENDS \cup GPU_BACKENDS \cup {"mlx"}
             \/ b \in CPU_BACKENDS /\ ~env.cpu ->
               Blocked("unsupported") /\ UNCHANGED <<gate, next, cand, pick>>
          [] OTHER ->
               /\ StartScan(IF env.repo /\ ModelDirThere THEN "open" ELSE "paths")
               /\ UNCHANGED reply
  /\ UNCHANGED <<disk, writerVars, env, rq, left, digest, ckpt, weights, touched>>

\* The fixture runtime chooses its model itself, once the gate is open.
ByFixture == env.fixture /\ gate = "open"

-----------------------------------------------------------------------------
(* The choice of a model *)

\* The package is in the directory that is searched: the root of the manager
\* without its downloads, or all of the configured model directory.
Listed(p) == IF ByFixture THEN env.root ELSE p \notin Staged

\* The manifest of one package: kept if it can be read and fits.  The fixture
\* runtime validates the files at once and passes over what is damaged.
Scan ==
  LET p == next
      v == holds[p][Manifest]
      keeps == /\ Listed(p) /\ v \in Versions /\ Fits(p)
               /\ ByFixture => Whole(p, v)
  IN /\ rpc = "scan" /\ p <= NDirs
     /\ cand' = IF keeps THEN cand \cup {<<p, v>>} ELSE cand
     /\ next' = p + 1
     /\ UNCHANGED <<disk, writerVars, env, rpc, rq, gate, pick, left, digest, ckpt, weights,
                    reply, touched>>

Unjudged == IF gate \in {"mps", "no_mlx"} THEN Blocked("unsupported") ELSE Blocked("blocked")

\* What select_backend_model said goes into the answer.
Judged(status, model) ==
  Answers(IF gate \in {"mps", "no_mlx"} THEN "unsupported" ELSE "blocked", status, TRUE, model)

\* The preferred one, and no other, even if it turns out to be damaged.
Pick ==
  /\ rpc = "scan" /\ next > NDirs
  /\ \/ cand = {} /\ Judged("missing", NoPick) /\ UNCHANGED <<pick, left, ckpt>>
     \/ /\ cand # {} /\ pick' = Preferred(cand)
        /\ \/ /\ ByFixture
              /\ rpc' = "adapter" /\ ckpt' = Weights[pick'[2]] /\ UNCHANGED left
           \/ /\ ~ByFixture
              /\ rpc' = "validate" /\ left' = Expected[pick'[2]] /\ UNCHANGED ckpt
        /\ UNCHANGED reply
  /\ UNCHANGED <<disk, writerVars, env, rq, gate, next, cand, digest, weights, touched>>

\* An OSError of the validation that select_backend_model lets out: swallowed
\* where only a status was asked for, a failed inference, and an exception of
\* the request in a warmup.
Escape ==
  IF gate # "open" THEN Unjudged
  ELSE IF rq.cmd = "infer" THEN Fails
  ELSE Answers("escaped", "missing", FALSE, NoPick)

FileMissing_Raises == Escape

\* A file that is not there is the manager's own error, not one of the disk.
FileMissing == Judged("missing", pick)

\* _validated_file_path of the next file
Locate ==
  LET p == pick[1]
      f == First(left)
  IN /\ rpc = "validate" /\ left # {} /\ ~digest
     /\ \/ ~made[p] /\ Escape /\ UNCHANGED digest
        \/ made[p] /\ holds[p][f] = "none" /\ FileMissing /\ UNCHANGED digest
        \/ made[p] /\ holds[p][f] # "none" /\ digest' = TRUE /\ UNCHANGED <<rpc, reply>>
     /\ UNCHANGED <<disk, writerVars, env, rq, gate, next, cand, pick, left, ckpt, weights,
                    touched>>

\* The checksum is that of the manifest.
IsGood(p, f) == holds[p][f] = pick[2]

\* _sha256 of it
Hash ==
  LET p == pick[1]
      f == First(left)
  IN /\ rpc = "validate" /\ digest
     /\ digest' = FALSE
     /\ \/ holds[p][f] = "none" /\ Escape /\ UNCHANGED left
        \/ IsGood(p, f) /\ left' = left \ {f} /\ UNCHANGED <<rpc, reply>>
        \/ holds[p][f] # "none" /\ ~IsGood(p, f) /\ Judged("checksum_mismatch", pick) /\ UNCHANGED left
     /\ UNCHANGED <<disk, writerVars, env, rq, gate, next, cand, pick, ckpt, weights, touched>>

\* All files are good: the status is "ready", which is all that a blocked
\* request wanted to know.
Selected ==
  /\ rpc = "validate" /\ left = {} /\ ~digest
  /\ IF gate = "open" THEN rpc' = "checkpoint" /\ UNCHANGED reply ELSE Judged("ready", pick)
  /\ UNCHANGED <<disk, writerVars, env, rq, gate, next, cand, pick, left, digest, ckpt,
                 weights, touched>>

\* The manifest is read once more, from the configured model directory.
CheckpointName(p) ==
  LET v == holds[p][Manifest]
  IN IF env.root /\ v \in Versions THEN Weights[v] ELSE 0

\* _checkpoint_path_from_status: a path, if there is a file.
Checkpoint ==
  LET p == pick[1]
      f == CheckpointName(p)
  IN /\ rpc = "checkpoint"
     /\ ckpt' = IF f # 0 /\ holds[p][f] # "none" THEN f ELSE 0
     /\ IF rq.cmd = "warmup" THEN Answers("ready", "ready", TRUE, pick)
                             ELSE rpc' = "adapter" /\ UNCHANGED reply
     /\ UNCHANGED <<disk, writerVars, env, rq, gate, next, cand, pick, left, digest, weights,
                    touched>>

-----------------------------------------------------------------------------
(* The inference *)

\* _load_adapter, which a warmup does not do.
LoadAdapter ==
  /\ rpc = "adapter"
  /\ \/ rq.cmd = "warmup" /\ Answers("ready", "ready", TRUE, pick)
     \/ rq.cmd = "infer" /\ env.adapter = "ok" /\ rpc' = "blobs" /\ UNCHANGED reply
     \/ rq.cmd = "infer" /\ env.adapter = "unusable" /\ Blocked("blocked")
     \/ rq.cmd = "infer" /\ env.adapter = "raises" /\ Fails
  /\ UNCHANGED <<disk, writerVars, env, rq, gate, next, cand, pick, left, digest, ckpt,
                 weights, touched>>

\* read_infer_frame_blobs
ReadBlobs ==
  /\ rpc = "blobs"
  /\ (rpc' = "run" /\ UNCHANGED reply) \/ Fails
  /\ UNCHANGED <<disk, writerVars, env, rq, gate, next, cand, pick, left, digest, ckpt,
                 weights, touched>>

\* The adapter cannot go on.  If the runtime of MLX is what it misses, the
\* answer says once more how the model stands.
AdapterFails ==
  \/ Fails /\ UNCHANGED <<gate, next, cand, pick>>
  \/ rq.backend = "mlx" /\ StartScan("mlx_failed") /\ UNCHANGED reply

\* The adapter is called and opens the weights, if it was given their path.
Run ==
  LET found == IF ckpt = 0 THEN "none" ELSE holds[pick[1]][ckpt]
  IN /\ rpc = "run"
     /\ \/ /\ ckpt = 0 \/ found \in Versions
           /\ weights' = <<ckpt, found>> /\ rpc' = "outputs"
           /\ UNCHANGED <<gate, next, cand, pick, reply>>
        \/ AdapterFails /\ UNCHANGED weights
     /\ UNCHANGED <<disk, writerVars, env, rq, left, digest, ckpt, touched>>

\* Its outputs are validated and written, and answered with the model.
Outputs ==
  /\ rpc = "outputs"
  /\ Answers("ready", "ready", TRUE, pick) \/ Fails
  /\ UNCHANGED <<disk, writerVars, env, rq, gate, next, cand, pick, left, digest, ckpt,
                 weights, touched>>

-----------------------------------------------------------------------------
(* The specification *)

ReaderStep ==
  \/ Gate \/ Scan \/ Pick \/ Locate \/ Hash \/ Selected \/ Checkpoint
  \/ LoadAdapter \/ ReadBlobs \/ Run \/ Outputs

\* A writer moves; what it changes under a request in progress is noted.  An
\* answer stands for the moment it is given.
OthersStep ==
  /\ rpc # "answered"
  /\ \E w \in Writers : WriterStep(w)
  /\ rpc = "idle" \/ begun' <= MaxUnder
  /\ touched' = IF rpc = "idle" THEN {}
                ELSE touched \cup {p \in Dirs : made[p] # made'[p] \/ holds[p] # holds'[p]}
  /\ UNCHANGED readerVars

Next == ReaderStep \/ Done \/ OthersStep \/ \E r \in Requests : Receive(r)

Spec == Init /\ [][Next]_vars

-----------------------------------------------------------------------------
(* Safety *)

Eligible(p) ==
  /\ Listed(p) /\ Fits(p) /\ holds[p][Manifest] \in Versions
  /\ ByFixture => Whole(p, holds[p][Manifest])

Undisturbed == {p \in Dirs \ touched : Eligible(p)}

\* Fitting packages others were in, unless one they were not in goes before.
Rivals == {q \in touched : Fits(q) /\ ~\E p \in Undisturbed : Before(p, q)}

\* What a validation of package p finds first.
Standing(p) ==
  LET v     == holds[p][Manifest]
      gone  == {f \in Expected[v] : holds[p][f] = "none"}
      wrong == {f \in Expected[v] : holds[p][f] \notin {"none", v}}
  IN IF Whole(p, v) THEN "ready"
     ELSE IF gone # {} /\ \A f \in wrong : First(gone) < f THEN "missing"
     ELSE "checksum_mismatch"

\* What an answer says of a model is true of the best package there is, even
\* while others install: writers in packages that do not fit, or that come
\* after one that does, change neither the choice nor the verdict.
StatusIsTrue ==
  rpc = "answered" /\ reply.judged /\ Rivals = {} =>
    \/ Undisturbed = {} /\ reply.status = "missing" /\ reply.model = NoPick
    \/ \E p \in Undisturbed :
         /\ \A q \in Undisturbed \ {p} : Before(p, q)
         /\ reply.model = <<p, holds[p][Manifest]>> /\ reply.status = Standing(p)

\* The adapter computes with the file that the announced version names and
\* vouches for, unless a writer was in that package or the backend has another
\* model directory than the manager.
WeightsAreAnnounced ==
  LET v == reply.model[2]
  IN /\ rpc = "answered" /\ reply.outcome = "ready" /\ rq.cmd = "infer"
     /\ env.root /\ reply.model[1] \notin touched /\ Weights[v] \in Expected[v]
     => weights = <<Weights[v], v>>

\* A request ends without an answer of its own only when a writer was in the
\* package it had chosen: nothing that writers have left behind does that.
EscapesOnlyUnderWriters == reply.outcome = "escaped" => pick[1] \in touched

-----------------------------------------------------------------------------
(* The inductive invariants of the request *)

\* A package found is as its manifest was read, or touched; no package is found
\* twice.  The one that is validated is among them, and its next file is there
\* once it has been located.
ReadInv ==
  /\ \A c, d \in cand : c[1] = d[1] => c = d
  /\ rpc = "scan" => \A c \in cand : c[1] < next
  /\ \A c \in cand : c[1] \in touched \/ holds[c[1]][Manifest] = c[2]
  /\ rpc = "idle" => cand = {}
  /\ rpc = "validate" => pick \in cand
  /\ digest => /\ rpc = "validate" /\ left # {}
               /\ pick[1] \in touched \/ holds[pick[1]][First(left)] # "none"
  /\ rpc # "answered" => reply.outcome # "escaped"
  /\ EscapesOnlyUnderWriters

Picked == rpc \in {"validate", "checkpoint", "adapter", "blobs", "run", "outputs"}

\* The weights of the selected package can be told, and nobody was in it.
WeightsKnown ==
  LET v == pick[2]
  IN env.root /\ pick[1] \notin touched /\ Weights[v] \in Expected[v]

\* The packages found are those that are eligible, the selected one goes before
\* the others; of its files those that have been validated come first.
ChoiceInv ==
  /\ \A c \in cand : Fits(c[1]) /\ (c[1] \in touched \/ Eligible(c[1]))
  /\ rpc = "scan" => \A p \in Undisturbed : p < next => \E c \in cand : c[1] = p
  /\ Picked => /\ \A p \in Undisturbed : \E c \in cand : c[1] = p
               /\ pick \in cand /\ \A d \in cand \ {pick} : Before(pick[1], d[1])
  /\ rpc = "validate" =>
       /\ left \subseteq Expected[pick[2]]
       /\ \A g \in Expected[pick[2]] \ left :
            /\ pick[1] \in touched \/ holds[pick[1]][g] = pick[2]
            /\ \A f \in left : g < f
  /\ Picked /\ rpc # "validate" => pick[1] \in touched \/ Whole(pick[1], pick[2])
  /\ rpc \in {"adapter", "blobs", "run", "outputs"} /\ WeightsKnown => ckpt = Weights[pick[2]]
  /\ rpc = "outputs" /\ WeightsKnown => weights = <<Weights[pick[2]], pick[2]>>
  /\ StatusIsTrue
  /\ WeightsAreAnnounced
=============================================================================
