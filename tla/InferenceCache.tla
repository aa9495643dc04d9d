--------------------------- MODULE InferenceCache ---------------------------
(***************************************************************************)
(* The inference cache of the sidecar (sidecar/corridorkey_sidecar/        *)
(* cache.py) in front of the stub inference (handle_line_with_cache in     *)
(* server.py).                                                             *)
(*                                                                         *)
(* A cache entry does not hold the result of an inference: it holds the    *)
(* paths of the blob files in the directory of the job that computed it.   *)
(* The host creates that directory before it sends the request and removes *)
(* it, file by file, when it has read the response, while entries that     *)
(* name its files stay in the cache.  A hit copies those files into the    *)
(* directory of the requesting job, and is given up for a fresh inference  *)
(* when one of them cannot be copied.                                      *)
(*                                                                         *)
(* Hashes are taken to be injective, so a key is the record of what is     *)
(* hashed.  A request stands for its whole line, job id included.  A blob  *)
(* is identified by the request and the input its file name is hashed      *)
(* from; what the file holds beyond these is the quality at which the blob *)
(* was computed, which a downgrade makes lower than the one requested.     *)
(***************************************************************************)
EXTENDS StubInference, Naturals, FiniteSets

CONSTANTS
  MaxEntries,    \* max_entries of the cache
  MaxServed      \* bound on the requests sent

ASSUME MaxEntriesAssumption == MaxEntries \in Nat \ {0}

Key  == Subject
Out  == [rq : Request, input : Inputs]
Entry == [out : Out, claimed : Qualities, models : ModelStatus, tick : Nat]
Blob == [out : Out, kind : {"processed", "straight", "alpha"}, quality : Qualities]

VARIABLES
  blobs,    \* the blob files of every directory, with what they hold
  entries,  \* _entries: per cached key its outputs, their quality, what its payload
            \* says of the models, the tick of its last use
  latest,   \* _latest_by_frame
  pc,       \* where handle_line_with_cache is
  rq,       \* the request it handles
  key,      \* the key lookup returned
  answer,   \* the response to the last request, once it is handled
  served,   \* how many requests were sent
  clock,    \* how often an entry was used: the order of _entries is that of its ticks
  lastUse   \* per key the tick of its last use, 0 if none: an observation

vars == <<oom, dirs, models, blobs, entries, latest, pc, rq, key, answer, served, clock, lastUse>>

NoKey == [frame |-> "none"]

TypeOK ==
  /\ oom \subseteq OomQualities
  /\ dirs \in [Dirs -> Inputs \cup {Absent, Closing}]
  /\ models \in ModelStatus
  /\ blobs \subseteq Blob
  /\ DOMAIN entries \subseteq Key
  /\ entries \in [DOMAIN entries -> Entry]
  /\ DOMAIN latest \subseteq Frames
  /\ latest \in [DOMAIN latest -> Key]
  /\ pc \in {"idle", "copy", "compute", "recompute"}
  /\ pc # "idle" => rq \in Request
  /\ pc \in {"copy", "compute"} => key \in Key
  /\ served \in Nat
  /\ clock \in Nat
  /\ lastUse \in [Key -> Nat]

-----------------------------------------------------------------------------
(* Helpers *)

Cached(k) == k \in DOMAIN entries

\* An entry of k becomes, or stays, the youngest.
Use(k) ==
  /\ clock' = clock + 1
  /\ lastUse' = [lastUse EXCEPT ![k] = clock + 1]

Touched_Not(k) == entries

\* move_to_end
Touched(k) == [entries EXCEPT ![k].tick = clock + 1]

DropKey_IndexKept(l, k) == l

\* The index of a frame forgets a key that is evicted.
DropKey(l, k) == [f \in {g \in DOMAIN l : l[g] # k} |-> l[f]]

\* The entries, and the index, once k is stored with its payload, which says of
\* the models what status() has just found.
Inserted(k, out, eff) ==
  [j \in DOMAIN entries \cup {k} |->
     IF j = k THEN [out |-> out, claimed |-> eff, models |-> models, tick |-> clock + 1]
              ELSE entries[j]]
Indexed(k) == [f \in DOMAIN latest \cup {k.frame} |-> IF f = k.frame THEN k ELSE latest[f]]

\* _evict_oldest_entries: storing adds at most one entry, so at most one goes.
Evict(s, l) ==
  \E old \in DOMAIN s :
    /\ \A j \in DOMAIN s : s[old].tick <= s[j].tick
    /\ entries' = [j \in DOMAIN s \ {old} |-> s[j]]
    /\ latest' = DropKey(l, old)

\* store, for a payload that reports neither oom nor a downgrade.
Store(k, out, eff) ==
  LET s == Inserted(k, out, eff)
      l == Indexed(k)
  IN /\ IF Cardinality(DOMAIN s) <= MaxEntries
        THEN entries' = s /\ latest' = l
        ELSE Evict(s, l)
     /\ Use(k)

Fail == answer' = NoAnswer /\ pc' = "idle"

Init ==
  /\ InitJobs
  /\ blobs = {} /\ entries = [k \in {} |-> NoKey] /\ latest = [f \in {} |-> NoKey]
  /\ pc = "idle" /\ rq = Nobody /\ key = NoKey
  /\ answer = NoAnswer /\ served = 0
  /\ clock = 0 /\ lastUse = [k \in Key |-> 0]

-----------------------------------------------------------------------------
(* The host and its job directories *)

PrepareJob(d, input) ==
  /\ MakesDir(d, input)
  /\ UNCHANGED <<oom, models, blobs, entries, latest, pc, rq, key, answer, served, clock, lastUse>>

CloseJob(d) ==
  /\ RemovesDir(d)
  /\ UNCHANGED <<oom, models, blobs, entries, latest, pc, rq, key, answer, served, clock, lastUse>>

ModelsMove ==
  /\ ModelsChange
  /\ UNCHANGED <<oom, dirs, blobs, entries, latest, pc, rq, key, answer, served, clock, lastUse>>

\* One blob file is deleted, by ~TempDir or by a cleaner of temporary files.
LoseBlob(b) ==
  /\ b \in blobs
  /\ blobs' = blobs \ {b}
  /\ UNCHANGED <<oom, dirs, models, entries, latest, pc, rq, key, answer, served, clock, lastUse>>

-----------------------------------------------------------------------------
(* handle_line_with_cache for an infer request of the stub backend *)

\* The request arrives and lookup hashes its input: a hit becomes the
\* youngest entry before its files are copied.
Lookup(r) ==
  /\ pc = "idle" /\ served < MaxServed
  /\ dirs[r.dir] # Absent
  /\ rq' = r /\ served' = served + 1 /\ answer' = NoAnswer
  /\ IF ~Readable(r.dir)
     THEN /\ pc' = "recompute" /\ key' = NoKey
          /\ UNCHANGED <<entries, clock, lastUse>>
     ELSE /\ key' = KeyFor(r)
          /\ IF Cached(KeyFor(r))
             THEN /\ pc' = "copy"
                  /\ entries' = Touched(KeyFor(r))
                  /\ Use(KeyFor(r))
             ELSE pc' = "compute" /\ UNCHANGED <<entries, clock, lastUse>>
  /\ UNCHANGED <<oom, dirs, models, blobs, latest>>

\* _materialize_hit copies every blob of the entry into the job's directory; the
\* rest of the payload, what it says of the models included, is returned as it
\* was stored.
CopyHit ==
  LET out    == entries[key].out
      copied == {b \in blobs : b.out = out}
  IN /\ pc = "copy"
     /\ Readable(rq.dir)
     /\ {b.kind : b \in copied} = Kinds(out.rq.params)
     /\ answer' = [ok |-> TRUE, hit |-> TRUE, rq |-> rq, input |-> key.input,
                   claimed |-> entries[key].claimed, models |-> entries[key].models,
                   blobs |-> copied]
     /\ pc' = "idle"
     /\ UNCHANGED <<oom, dirs, models, blobs, entries, latest, rq, key, served, clock, lastUse>>

\* A copy raises OSError: the request is handled as if there were no cache,
\* and its result is not stored.
CopyFails ==
  LET out == entries[key].out
  IN /\ pc = "copy"
     /\ ~ (Readable(rq.dir) /\ {b.kind : b \in {c \in blobs : c.out = out}} = Kinds(out.rq.params))
     /\ pc' = "recompute"
     /\ UNCHANGED <<oom, dirs, models, blobs, entries, latest, rq, key, answer, served, clock, lastUse>>

StoresResult_EvenDowngraded(eff) == pc = "compute"

\* Only a result of lookup's miss, computed at the quality asked for, is stored.
StoresResult(eff) == pc = "compute" /\ eff = rq.quality

\* The inference runs and overwrites the blobs of its outputs; its failure
\* leaves cache and files alone.
Compute ==
  /\ pc \in {"compute", "recompute"}
  /\ LET eff == Effective(rq.quality)
         out == [rq |-> rq, input |-> dirs[rq.dir]]
         new == {[out |-> out, kind |-> k, quality |-> eff] : k \in Kinds(rq.params)}
     IN IF ~Readable(rq.dir) \/ eff = "failed"
        THEN Fail /\ UNCHANGED <<blobs, entries, latest, clock, lastUse>>
        ELSE /\ blobs' = {b \in blobs : b.out # out} \cup new
             /\ answer' = [ok |-> TRUE, hit |-> FALSE, rq |-> rq, input |-> out.input,
                           claimed |-> eff, models |-> models, blobs |-> new]
             /\ pc' = "idle"
             /\ IF StoresResult(eff)
                THEN Store(key, out, eff)
                ELSE UNCHANGED <<entries, latest, clock, lastUse>>
  /\ UNCHANGED <<oom, dirs, models, rq, key, served>>

-----------------------------------------------------------------------------
(* The specification *)

\* The bound MaxServed: what happens after the last answer is of no interest.
Unfinished == served < MaxServed \/ pc # "idle"

HostStep ==
  /\ Unfinished
  /\ \/ \E d \in Dirs, input \in Inputs : PrepareJob(d, input)
     \/ \E d \in Dirs : CloseJob(d)
     \/ ModelsMove
     \/ \E b \in blobs : LoseBlob(b)

Next ==
  \/ HostStep
  \/ \E r \in Requests : Lookup(r)
  \/ CopyHit
  \/ CopyFails
  \/ Compute

Spec == Init /\ [][Next]_vars

-----------------------------------------------------------------------------
(* Properties *)

\* The two indexes of the cache agree: the bound is kept, and the key
\* remembered for a frame is the key of a cached entry of that frame, so an
\* invalidation is never reported against a result the cache has forgotten.
IndexesAgree ==
  /\ Cardinality(DOMAIN entries) <= MaxEntries
  /\ \A f \in DOMAIN latest : latest[f].frame = f /\ Cached(latest[f])

\* Eviction is by last use: a key that was ever used is cached, or the cache
\* is full of keys that were used after it.
KeepsRecentlyUsed ==
  \A k \in Key : lastUse[k] > 0 =>
    \/ Cached(k)
    \/ /\ Cardinality(DOMAIN entries) = MaxEntries
       /\ \A j \in DOMAIN entries : lastUse[k] < lastUse[j]

\* Whatever the directories of other jobs have lost in the meantime, the
\* blobs of a response hold what an inference of the requested frame's input
\* with the requested parameters yields at the quality the response claims,
\* and a hit claims the quality requested: "downgraded OOM response is not
\* cached as requested quality" (sidecar/tests/test_cache.py:259).
AnswerIsExact ==
  answer.ok =>
    /\ \A b \in answer.blobs :
         /\ b.out.input = answer.input /\ b.out.rq.params = answer.rq.params
         /\ b.quality = answer.claimed
    /\ {b.kind : b \in answer.blobs} = Kinds(answer.rq.params)
    /\ answer.hit => answer.claimed = answer.rq.quality

\* The request being handled and the last answer, without what they owe to
\* the cache: a blob is what it holds, not the file it was found in.
Asked    == IF pc = "idle" THEN Nobody ELSE rq
Answered ==
  IF ~answer.ok THEN NoAnswer
  ELSE [ok |-> TRUE, hit |-> answer.hit, rq |-> answer.rq, quality |-> answer.claimed,
        models |-> answer.models,
        blobs |-> {[kind |-> b.kind, input |-> b.out.input, params |-> b.out.rq.params,
                    quality |-> b.quality] : b \in answer.blobs}]

\* What the entries remember of the models.
Told == {[of |-> k, models |-> entries[k].models] : k \in DOMAIN entries}

Fresh == INSTANCE FreshInference WITH asked <- Asked, answer <- Answered, told <- Told

\* Nobody can tell from the frame that there is a cache: every request is
\* answered with the blobs that an inference of the input in its directory gives
\* at that time, and fails only if that would, whatever other jobs have left or
\* lost; and what is called a hit has the quality that was asked for:
\* "downgraded OOM response is not cached as requested quality"
\* (sidecar/tests/test_cache.py:259).  What a hit says of the models may be out
\* of date: it is what was said when the same was asked for and its result
\* computed, never of another frame, input, parameter or quality.
CacheIsTransparent == Fresh!Spec

=============================================================================
