--------------------------- MODULE StubInference ---------------------------
(***************************************************************************)
(* An inference of the stub backend (_fake_infer_with_downgrade in         *)
(* protocol.py) and the job directories it reads and writes: what the      *)
(* sidecar has with a cache in front of it (InferenceCache) and what a     *)
(* host may take it to have without one (FreshInference).                  *)
(***************************************************************************)
CONSTANTS
  Frames,        \* frame ids
  Inputs,        \* contents of a job's source and alpha hint
  Params,        \* the other parameters a key hashes, output mode included
  StraightOnly,  \* the parameters with output mode straight_fg
  Dirs,          \* job directories
  Requests,      \* the infer requests the host sends in this instance
  OomQualities,  \* qualities that may be set to run out of memory
  ModelStatus    \* what status() may find of the models on disk

Qualities == {"draft_512", "high_1024", "full_2048"}

Request == [frame : Frames, params : Params, quality : Qualities, dir : Dirs]

\* _QUALITY_DOWNGRADE: what an inference falls back to, once.
Downgrade == [full_2048 |-> "high_1024", high_1024 |-> "draft_512"]

\* A directory that does not exist yet, and one the host is removing.
Absent  == "absent"
Closing == "closing"

ASSUME InputsAssumption   == Absent \notin Inputs /\ Closing \notin Inputs
ASSUME RequestsAssumption == Requests \subseteq Request
ASSUME OomAssumption      == OomQualities \subseteq Qualities
ASSUME StraightAssumption == StraightOnly \subseteq Params
ASSUME StatusAssumption   == ModelStatus # {}

\* No request, and the answer to one that failed.
Nobody   == [dir |-> "none"]
NoAnswer == [ok |-> FALSE]

VARIABLES
  oom,   \* the qualities that run out of memory, fixed by the environment
  dirs,  \* per directory: Absent, the input in it, or Closing
  models \* what status() finds of the models

\* The source and alpha blobs of the directory can be read.
Readable(d) == dirs[d] \in Inputs

\* The kinds of blobs an inference writes.
Kinds(params) == IF params \in StraightOnly THEN {"straight", "alpha"}
                                            ELSE {"processed", "straight", "alpha"}

\* Outcomes of _fake_infer_with_downgrade: the quality computed, or "failed".
Effective(q) ==
  IF q \notin oom THEN q
  ELSE IF q \in DOMAIN Downgrade /\ Downgrade[q] \notin oom THEN Downgrade[q]
  ELSE "failed"

InitJobs ==
  /\ oom \in SUBSET OomQualities
  /\ dirs = [d \in Dirs |-> Absent]
  /\ models \in ModelStatus

\* create_directories and the frame blobs of a new job; the name is fresh.
MakesDir(d, input) == dirs[d] = Absent /\ dirs' = [dirs EXCEPT ![d] = input]

\* ~TempDir begins to remove the directory: its job is over.
RemovesDir(d) == Readable(d) /\ dirs' = [dirs EXCEPT ![d] = Closing]

\* A model is installed, removed or damaged, by a command between two
\* inferences or by another process.
ModelsChange == models' \in ModelStatus \ {models}

\* What a request asks for, whichever job it comes from: what a key hashes.
Subject == [frame : Frames, input : Inputs, params : Params, quality : Qualities]

\* cache_key_for_payload
KeyFor(r) ==
  [frame |-> r.frame, input |-> dirs[r.dir], params |-> r.params, quality |-> r.quality]
=============================================================================
