------------------------ MODULE InferenceCacheProofs ------------------------
(***************************************************************************)
(* The two indexes of InferenceCache agree, eviction is by last use and    *)
(* every answer is exact, for any requests, any number of entries and any  *)
(* loss of files.                                                          *)
(***************************************************************************)
EXTENDS InferenceCache, FiniteSetTheorems, TLAPS

\* Every entry carries the tick of its key's last use, and no tick was given
\* to two keys.
TicksInv ==
  /\ \A k \in DOMAIN entries : entries[k].tick = lastUse[k] /\ lastUse[k] > 0
  /\ \A k \in Key : lastUse[k] <= clock
  /\ \A j, k \in Key : lastUse[j] = lastUse[k] /\ lastUse[k] > 0 => j = k

\* A hit's key is cached until its blobs are copied.
CopyInv == pc = "copy" => Cached(key)

CacheInv ==
  /\ TypeOK
  /\ IsFiniteSet(DOMAIN entries)
  /\ IndexesAgree
  /\ TicksInv
  /\ KeepsRecentlyUsed
  /\ CopyInv

\* What a blob holds is settled by its name, and the files an entry names
\* hold what its key asks for.
FilesInv ==
  /\ \A b \in blobs : b.quality = Effective(b.out.rq.quality)
  /\ \A k \in DOMAIN entries :
       /\ entries[k].out.input = k.input /\ entries[k].out.rq.params = k.params
       /\ entries[k].claimed = k.quality
       /\ entries[k].claimed = Effective(entries[k].out.rq.quality)
  /\ pc \in {"copy", "compute"} =>
       key.frame = rq.frame /\ key.params = rq.params /\ key.quality = rq.quality
  /\ pc \in {"copy", "compute"} /\ Readable(rq.dir) => dirs[rq.dir] = key.input
  /\ pc # "idle" => dirs[rq.dir] # Absent

-----------------------------------------------------------------------------
(* Lemmas *)

\* What is not "failed" is a quality.
LEMMA EffectiveType ==
  ASSUME NEW q \in Qualities, Effective(q) # "failed"
  PROVE  Effective(q) \in Qualities
  BY DEF Effective, Downgrade, Qualities

\* Adding a key to a finite set of keys adds one to its size, or nothing.
LEMMA AddedKey ==
  ASSUME NEW S, IsFiniteSet(S), NEW k
  PROVE  /\ IsFiniteSet(S \cup {k})
         /\ Cardinality(S) \in Nat
         /\ k \in S => S \cup {k} = S
         /\ k \notin S => Cardinality(S \cup {k}) = Cardinality(S) + 1
  BY FS_AddElement, FS_CardinalityType

\* Using a key gives it the youngest tick and keeps ticks distinct.
LEMMA UsedKey ==
  ASSUME TypeOK, TicksInv, NEW k \in Key, Use(k)
  PROVE  /\ clock' \in Nat
         /\ lastUse' \in [Key -> Nat]
         /\ lastUse'[k] = clock + 1
         /\ \A j \in Key \ {k} : lastUse'[j] = lastUse[j] /\ lastUse'[j] <= clock
         /\ \A j \in Key : lastUse'[j] <= clock'
         /\ \A i, j \in Key : lastUse'[i] = lastUse'[j] /\ lastUse'[j] > 0 => i = j
  <1>1. clock \in Nat /\ lastUse \in [Key -> Nat]
    BY DEF TypeOK
  <1>2. /\ \A j \in Key : lastUse[j] <= clock
        /\ \A i, j \in Key : lastUse[i] = lastUse[j] /\ lastUse[j] > 0 => i = j
    BY DEF TicksInv
  <1>3. clock' = clock + 1 /\ lastUse' = [lastUse EXCEPT ![k] = clock + 1]
    BY DEF Use
  <1>4. /\ lastUse'[k] = clock + 1
        /\ \A j \in Key \ {k} : lastUse'[j] = lastUse[j]
    BY <1>1, <1>3
  <1>5. lastUse' \in [Key -> Nat]
    BY <1>1, <1>3
  <1> QED
    BY <1>1, <1>2, <1>3, <1>4, <1>5

\* Storing a result keeps the cache's part of the invariant: the evicted key,
\* if any, is the one whose last use is the oldest.
LEMMA StoreKeepsCache ==
  ASSUME TypeOK, IsFiniteSet(DOMAIN entries), IndexesAgree, TicksInv, KeepsRecentlyUsed,
         NEW k \in Key, NEW out \in Out, NEW eff \in Qualities, Store(k, out, eff)
  PROVE  /\ DOMAIN entries' \subseteq Key
         /\ entries' \in [DOMAIN entries' -> Entry]
         /\ DOMAIN latest' \subseteq Frames
         /\ latest' \in [DOMAIN latest' -> Key]
         /\ clock' \in Nat
         /\ lastUse' \in [Key -> Nat]
         /\ IsFiniteSet(DOMAIN entries')
         /\ IndexesAgree'
         /\ TicksInv'
         /\ KeepsRecentlyUsed'
  <1> DEFINE s == Inserted(k, out, eff)
             l == Indexed(k)
             old(o) == /\ o \in DOMAIN s
                       /\ \A j \in DOMAIN s : s[o].tick <= s[j].tick
                       /\ entries' = [j \in DOMAIN s \ {o} |-> s[j]]
                       /\ latest' = DropKey(l, o)
  <1>t. /\ clock \in Nat /\ lastUse \in [Key -> Nat] /\ DOMAIN entries \subseteq Key
        /\ entries \in [DOMAIN entries -> Entry]
        /\ DOMAIN latest \subseteq Frames /\ latest \in [DOMAIN latest -> Key]
        /\ MaxEntries \in Nat \ {0} /\ models \in ModelStatus
    BY MaxEntriesAssumption DEF TypeOK
  <1>u. /\ clock' \in Nat /\ lastUse' \in [Key -> Nat] /\ lastUse'[k] = clock + 1
        /\ \A j \in Key \ {k} : lastUse'[j] = lastUse[j] /\ lastUse'[j] <= clock
        /\ \A j \in Key : lastUse'[j] <= clock'
        /\ \A i, j \in Key : lastUse'[i] = lastUse'[j] /\ lastUse'[j] > 0 => i = j
    BY UsedKey DEF Store
  <1>1. /\ DOMAIN s = DOMAIN entries \cup {k} /\ DOMAIN s \subseteq Key
        /\ s \in [DOMAIN s -> Entry]
        /\ s[k].tick = clock + 1
        /\ \A j \in DOMAIN s \ {k} : s[j] = entries[j]
    BY <1>t DEF Inserted, Entry
  <1>2. \A j \in DOMAIN s : s[j].tick = lastUse'[j] /\ lastUse'[j] > 0
    BY <1>1, <1>t, <1>u DEF TicksInv
  <1>3. /\ DOMAIN l \subseteq Frames /\ l \in [DOMAIN l -> Key]
        /\ \A f \in DOMAIN l : l[f].frame = f /\ l[f] \in DOMAIN s
    <2>1. k.frame \in Frames
      BY DEF Key, Subject
    <2>2. \A f \in DOMAIN latest : latest[f].frame = f /\ latest[f] \in DOMAIN entries
      BY DEF IndexesAgree, Cached
    <2> QED
      BY <1>t, <1>1, <2>1, <2>2 DEF Indexed
  <1>4. /\ IsFiniteSet(DOMAIN s) /\ Cardinality(DOMAIN entries) \in Nat
        /\ k \in DOMAIN entries => DOMAIN s = DOMAIN entries
        /\ k \notin DOMAIN entries => Cardinality(DOMAIN s) = Cardinality(DOMAIN entries) + 1
        /\ Cardinality(DOMAIN entries) <= MaxEntries
    <2>1. DOMAIN s = DOMAIN entries \cup {k}
      BY <1>1
    <2>2. Cardinality(DOMAIN entries) <= MaxEntries
      BY DEF IndexesAgree
    <2> DEFINE S == DOMAIN entries
               T == DOMAIN s
    <2>3. IsFiniteSet(S) /\ T = S \cup {k}
      BY <2>1
    <2> HIDE DEF S, T
    <2>4. /\ IsFiniteSet(T) /\ Cardinality(S) \in Nat
          /\ k \in S => T = S
          /\ k \notin S => Cardinality(T) = Cardinality(S) + 1
      BY <2>3, AddedKey
    <2> QED
      BY <2>2, <2>4 DEF S, T
  \* A key that was used and is not among the keys of s was used before all of them.
  <1>5. ASSUME NEW x \in Key, lastUse'[x] > 0, x \notin DOMAIN s
        PROVE  /\ Cardinality(DOMAIN entries) = MaxEntries
               /\ \A j \in DOMAIN s : lastUse'[x] < lastUse'[j]
    <2>1. x # k /\ lastUse'[x] = lastUse[x] /\ lastUse[x] <= clock /\ x \notin DOMAIN entries
      BY <1>5, <1>1, <1>u
    <2>2. /\ Cardinality(DOMAIN entries) = MaxEntries
          /\ \A j \in DOMAIN entries : lastUse[x] < lastUse[j]
      BY <1>5, <2>1 DEF KeepsRecentlyUsed, Cached
    <2>3. ASSUME NEW j \in DOMAIN s
          PROVE  lastUse'[x] < lastUse'[j]
      <3>1. CASE j = k
        BY <3>1, <2>1, <1>u, <1>t
      <3>2. CASE j # k
        BY <3>2, <2>1, <2>2, <1>u, <1>1
      <3> QED
        BY <3>1, <3>2
    <2> QED
      BY <2>2, <2>3
  <1>6. \/ Cardinality(DOMAIN s) <= MaxEntries /\ entries' = s /\ latest' = l
        \/ ~(Cardinality(DOMAIN s) <= MaxEntries) /\ \E o \in DOMAIN s : old(o)
    BY DEF Store, Evict
  <1>7. CASE Cardinality(DOMAIN s) <= MaxEntries /\ entries' = s /\ latest' = l
    <2>1. IndexesAgree'
      BY <1>7, <1>3 DEF IndexesAgree, Cached
    <2>2. TicksInv'
      BY <1>7, <1>2, <1>u DEF TicksInv
    <2>3. KeepsRecentlyUsed'
      <3> SUFFICES ASSUME NEW x \in Key, lastUse'[x] > 0, x \notin DOMAIN s
                   PROVE  /\ Cardinality(DOMAIN s) = MaxEntries
                          /\ \A j \in DOMAIN s : lastUse'[x] < lastUse'[j]
        BY <1>7 DEF KeepsRecentlyUsed, Cached
      <3> HIDE DEF s
      <3> QED
        BY <1>7, <1>5, <1>4, <1>t
    <2> QED
      BY <1>7, <1>1, <1>3, <1>4, <1>u, <2>1, <2>2, <2>3
  <1>8. CASE ~(Cardinality(DOMAIN s) <= MaxEntries) /\ \E o \in DOMAIN s : old(o)
    <2>1. PICK o \in DOMAIN s : old(o)
      BY <1>8
    <2> DEFINE rest == DOMAIN s \ {o}
    <2>2. /\ DOMAIN entries' = rest
          /\ \A j \in rest : entries'[j] = s[j]
          /\ entries' \in [rest -> Entry]
      BY <2>1, <1>1
    <2>3. /\ DOMAIN latest' = {f \in DOMAIN l : l[f] # o}
          /\ \A f \in DOMAIN latest' : latest'[f] = l[f]
          /\ latest' \in [DOMAIN latest' -> Key]
      BY <2>1, <1>3 DEF DropKey
    <2> HIDE DEF s, l
    <2>4. IsFiniteSet(rest) /\ Cardinality(rest) = MaxEntries
      <3>1. IsFiniteSet(rest) /\ Cardinality(rest) = Cardinality(DOMAIN s) - 1
        BY <1>4, <2>1, FS_RemoveElement
      <3>2. Cardinality(DOMAIN s) = MaxEntries + 1
        BY <1>4, <1>8, <1>t
      <3> QED
        BY <3>1, <3>2, <1>t
    <2>5. IndexesAgree'
      <3>1. Cardinality(DOMAIN entries') <= MaxEntries
        BY <2>2, <2>4, <1>t
      <3>2. \A f \in DOMAIN latest' : latest'[f].frame = f /\ latest'[f] \in DOMAIN entries'
        BY <2>2, <2>3, <1>3
      <3> QED
        BY <3>1, <3>2 DEF IndexesAgree, Cached
    <2>6. TicksInv'
      BY <2>2, <1>2, <1>u DEF TicksInv
    <2>7. \A j \in rest : lastUse'[o] < lastUse'[j]
      <3> TAKE j \in rest
      <3>1. s[o].tick <= s[j].tick
        BY <2>1
      <3>2. lastUse'[o] # lastUse'[j]
        BY <2>1, <1>1, <1>2, <1>u
      <3>3. lastUse'[o] \in Nat /\ lastUse'[j] \in Nat
        BY <2>1, <1>1, <1>u
      <3> QED
        BY <3>1, <3>2, <3>3, <2>1, <1>2
    <2>8. KeepsRecentlyUsed'
      <3> SUFFICES ASSUME NEW x \in Key, lastUse'[x] > 0, x \notin rest
                   PROVE  /\ Cardinality(rest) = MaxEntries
                          /\ \A j \in rest : lastUse'[x] < lastUse'[j]
        BY <2>2 DEF KeepsRecentlyUsed, Cached
      <3>1. CASE x = o
        BY <3>1, <2>4, <2>7
      <3>2. CASE x # o
        BY <3>2, <2>4, <1>5
      <3> QED
        BY <3>1, <3>2
    <2> QED
      BY <2>2, <2>3, <2>4, <2>5, <2>6, <2>8, <1>1, <1>3, <1>u
  <1> QED
    BY <1>6, <1>7, <1>8

\* What no step but a hit and a store can disturb.
LEMMA SameCache ==
  ASSUME CacheInv, UNCHANGED <<entries, latest, clock, lastUse>>
  PROVE  /\ DOMAIN entries' \subseteq Key
         /\ entries' \in [DOMAIN entries' -> Entry]
         /\ DOMAIN latest' \subseteq Frames
         /\ latest' \in [DOMAIN latest' -> Key]
         /\ clock' \in Nat
         /\ lastUse' \in [Key -> Nat]
         /\ IsFiniteSet(DOMAIN entries')
         /\ IndexesAgree'
         /\ TicksInv'
         /\ KeepsRecentlyUsed'
  <1>1. IsFiniteSet(DOMAIN entries')
    BY DEF CacheInv
  <1>2. IndexesAgree' /\ TicksInv' /\ KeepsRecentlyUsed'
    BY DEF CacheInv, IndexesAgree, TicksInv, KeepsRecentlyUsed, Cached
  <1> QED
    BY <1>1, <1>2 DEF CacheInv, TypeOK

\* A hit gives its entry the youngest tick and changes no set of keys.
LEMMA HitKeepsCache ==
  ASSUME CacheInv, NEW k \in DOMAIN entries, entries' = Touched(k), Use(k), latest' = latest
  PROVE  /\ DOMAIN entries' = DOMAIN entries
         /\ entries' \in [DOMAIN entries' -> Entry]
         /\ clock' \in Nat
         /\ lastUse' \in [Key -> Nat]
         /\ IndexesAgree'
         /\ TicksInv'
         /\ KeepsRecentlyUsed'
  <1>t. /\ clock \in Nat /\ lastUse \in [Key -> Nat] /\ DOMAIN entries \subseteq Key
        /\ entries \in [DOMAIN entries -> Entry]
        /\ k \in Key
    BY DEF CacheInv, TypeOK
  <1>u. /\ clock' \in Nat /\ lastUse' \in [Key -> Nat] /\ lastUse'[k] = clock + 1
        /\ \A j \in Key \ {k} : lastUse'[j] = lastUse[j] /\ lastUse'[j] <= clock
        /\ \A j \in Key : lastUse'[j] <= clock'
        /\ \A i, j \in Key : lastUse'[i] = lastUse'[j] /\ lastUse'[j] > 0 => i = j
    BY <1>t, UsedKey DEF CacheInv
  <1>1. /\ DOMAIN entries' = DOMAIN entries
        /\ entries' \in [DOMAIN entries -> Entry]
        /\ entries'[k].tick = clock + 1
        /\ \A j \in DOMAIN entries \ {k} : entries'[j] = entries[j]
    BY <1>t DEF Touched, Entry
  <1>2. IndexesAgree'
    BY <1>1 DEF CacheInv, IndexesAgree, Cached
  <1>3. TicksInv'
    <2>1. \A j \in DOMAIN entries : entries[j].tick = lastUse[j] /\ lastUse[j] > 0
      BY DEF CacheInv, TicksInv
    <2>2. \A j \in DOMAIN entries' : entries'[j].tick = lastUse'[j] /\ lastUse'[j] > 0
      BY <2>1, <1>1, <1>t, <1>u
    <2> QED
      BY <2>2, <1>u DEF TicksInv
  <1>4. KeepsRecentlyUsed'
    <2> SUFFICES ASSUME NEW x \in Key, lastUse'[x] > 0, x \notin DOMAIN entries
                 PROVE  /\ Cardinality(DOMAIN entries) = MaxEntries
                        /\ \A j \in DOMAIN entries : lastUse'[x] < lastUse'[j]
      BY <1>1 DEF KeepsRecentlyUsed, Cached
    <2>1. x # k /\ lastUse'[x] = lastUse[x] /\ lastUse[x] <= clock
      BY <1>u
    <2>2. /\ Cardinality(DOMAIN entries) = MaxEntries
          /\ \A j \in DOMAIN entries : lastUse[x] < lastUse[j]
      BY <2>1 DEF CacheInv, KeepsRecentlyUsed, Cached
    <2>3. ASSUME NEW j \in DOMAIN entries
          PROVE  lastUse'[x] < lastUse'[j]
      BY <2>1, <2>2, <1>u, <1>t
    <2> QED
      BY <2>2, <2>3
  <1> QED
    BY <1>1, <1>2, <1>3, <1>4, <1>u

-----------------------------------------------------------------------------
(* The invariant *)

LEMMA InitInv == Init => CacheInv
  <1> SUFFICES ASSUME Init PROVE CacheInv
    OBVIOUS
  <1>1. DOMAIN entries = {} /\ DOMAIN latest = {}
    BY DEF Init
  <1>2. TypeOK
    BY <1>1 DEF Init, InitJobs, TypeOK
  <1>3. IsFiniteSet(DOMAIN entries) /\ IndexesAgree
    BY <1>1, FS_EmptySet, MaxEntriesAssumption DEF IndexesAgree
  <1>4. TicksInv /\ KeepsRecentlyUsed /\ CopyInv
    BY <1>1 DEF Init, TicksInv, KeepsRecentlyUsed, CopyInv
  <1> QED
    BY <1>2, <1>3, <1>4 DEF CacheInv

\* The host's steps change its files only.
LEMMA HostInv == CacheInv /\ HostStep => CacheInv'
  <1> SUFFICES ASSUME CacheInv, HostStep PROVE CacheInv'
    OBVIOUS
  <1>1. UNCHANGED <<oom, entries, latest, pc, rq, key, answer, served, clock, lastUse>>
    BY DEF HostStep, PrepareJob, CloseJob, LoseBlob, ModelsMove, ModelsChange, MakesDir, RemovesDir
  <1>2. dirs' \in [Dirs -> Inputs \cup {Absent, Closing}] /\ blobs' \subseteq Blob
        /\ models' \in ModelStatus
    BY DEF HostStep, PrepareJob, CloseJob, LoseBlob, ModelsMove, ModelsChange, MakesDir, RemovesDir, CacheInv, TypeOK
  <1>3. TypeOK'
    BY <1>1, <1>2, SameCache DEF CacheInv, TypeOK
  <1>4. CopyInv'
    BY <1>1 DEF CacheInv, CopyInv, Cached
  <1> QED
    BY <1>1, <1>3, <1>4, SameCache DEF CacheInv

LEMMA LookupInv == \A r \in Requests : CacheInv /\ Lookup(r) => CacheInv'
  <1> SUFFICES ASSUME CacheInv, NEW r \in Requests, Lookup(r) PROVE CacheInv'
    OBVIOUS
  <1>1. /\ r \in Request /\ rq' = r /\ served' \in Nat
        /\ oom' = oom /\ dirs' = dirs /\ models' = models /\ blobs' = blobs /\ latest' = latest
    BY RequestsAssumption DEF Lookup, CacheInv, TypeOK
  <1>2. CASE ~Readable(r.dir)
    <2>1. pc' = "recompute" /\ UNCHANGED <<entries, latest, clock, lastUse>>
      BY <1>2 DEF Lookup
    <2>2. TypeOK'
      BY <1>1, <2>1, SameCache DEF CacheInv, TypeOK
    <2> QED
      BY <2>1, <2>2, SameCache DEF CacheInv, CopyInv
  <1>3. CASE Readable(r.dir) /\ Cached(KeyFor(r))
    <2>1. /\ key' = KeyFor(r) /\ KeyFor(r) \in DOMAIN entries /\ pc' = "copy"
          /\ entries' = Touched(KeyFor(r)) /\ Use(KeyFor(r))
      BY <1>3 DEF Lookup, Cached
    <2>2. TypeOK'
      BY <1>1, <2>1, HitKeepsCache DEF CacheInv, TypeOK
    <2>3. CopyInv' /\ IsFiniteSet(DOMAIN entries')
      BY <1>1, <2>1, HitKeepsCache DEF CacheInv, CopyInv, Cached
    <2> QED
      BY <1>1, <2>1, <2>2, <2>3, HitKeepsCache DEF CacheInv
  <1>4. CASE Readable(r.dir) /\ ~Cached(KeyFor(r))
    <2>1. /\ key' = KeyFor(r) /\ pc' = "compute"
          /\ UNCHANGED <<entries, latest, clock, lastUse>>
      BY <1>4 DEF Lookup
    <2>2. KeyFor(r) \in Key
      BY <1>1, <1>4 DEF Request, KeyFor, Key, Subject, Readable
    <2>3. TypeOK'
      BY <1>1, <2>1, <2>2, SameCache DEF CacheInv, TypeOK
    <2> QED
      BY <2>1, <2>3, SameCache DEF CacheInv, CopyInv
  <1> QED
    BY <1>2, <1>3, <1>4

LEMMA CopyStepInv == CacheInv /\ (CopyHit \/ CopyFails) => CacheInv'
  <1> SUFFICES ASSUME CacheInv, CopyHit \/ CopyFails PROVE CacheInv'
    OBVIOUS
  <1>1. /\ UNCHANGED <<oom, dirs, models, blobs, entries, latest, rq, key, served, clock, lastUse>>
        /\ pc = "copy" /\ pc' \in {"idle", "recompute"}
    BY DEF CopyHit, CopyFails
  <1>2. TypeOK'
    BY <1>1, SameCache DEF CacheInv, TypeOK
  <1> QED
    BY <1>1, <1>2, SameCache DEF CacheInv, CopyInv

LEMMA ComputeInv == CacheInv /\ Compute => CacheInv'
  <1> SUFFICES ASSUME CacheInv, Compute PROVE CacheInv'
    OBVIOUS
  <1>1. /\ pc \in {"compute", "recompute"} /\ rq \in Request /\ pc' = "idle"
        /\ oom' = oom /\ dirs' = dirs /\ models' = models
        /\ rq' = rq /\ key' = key /\ served' = served
    BY DEF Compute, Fail, CacheInv, TypeOK
  <1>2. CASE UNCHANGED <<blobs, entries, latest, clock, lastUse>>
    <2>1. TypeOK'
      BY <1>1, <1>2, SameCache DEF CacheInv, TypeOK
    <2> QED
      BY <1>1, <1>2, <2>1, SameCache DEF CacheInv, CopyInv
  <1>3. ASSUME NEW eff, eff = Effective(rq.quality), eff # "failed",
               NEW out, out = [rq |-> rq, input |-> dirs[rq.dir]],
               Readable(rq.dir),
               blobs' = {b \in blobs : b.out # out}
                          \cup {[out |-> out, kind |-> k, quality |-> eff] : k \in Kinds(rq.params)},
               IF StoresResult(eff) THEN Store(key, out, eff)
                                    ELSE UNCHANGED <<entries, latest, clock, lastUse>>
        PROVE  CacheInv'
    <2>1. out \in Out
      BY <1>1, <1>3 DEF Out, Readable
    <2>2. eff \in Qualities
      BY <1>1, <1>3, EffectiveType DEF Request
    <2>3. blobs' \subseteq Blob
      <3>1. \A k \in Kinds(rq.params) : [out |-> out, kind |-> k, quality |-> eff] \in Blob
        BY <2>1, <2>2 DEF Kinds, Blob
      <3>2. blobs \subseteq Blob
        BY DEF CacheInv, TypeOK
      <3> QED
        BY <3>1, <3>2, <1>3
    <2>4. CASE UNCHANGED <<entries, latest, clock, lastUse>>
      <3>1. TypeOK'
        BY <1>1, <2>3, <2>4, SameCache DEF CacheInv, TypeOK
      <3> QED
        BY <1>1, <2>4, <3>1, SameCache DEF CacheInv, CopyInv
    <2>5. CASE StoresResult(eff) /\ Store(key, out, eff)
      <3>1. key \in Key
        BY <2>5 DEF StoresResult, CacheInv, TypeOK
      <3>2. /\ DOMAIN entries' \subseteq Key
            /\ entries' \in [DOMAIN entries' -> Entry]
            /\ DOMAIN latest' \subseteq Frames
            /\ latest' \in [DOMAIN latest' -> Key]
            /\ clock' \in Nat
            /\ lastUse' \in [Key -> Nat]
            /\ IsFiniteSet(DOMAIN entries')
            /\ IndexesAgree' /\ TicksInv' /\ KeepsRecentlyUsed'
        BY <2>1, <2>2, <2>5, <3>1, StoreKeepsCache DEF CacheInv
      <3>3. TypeOK'
        BY <1>1, <2>3, <3>2 DEF CacheInv, TypeOK
      <3> QED
        BY <1>1, <3>2, <3>3 DEF CacheInv, CopyInv
    <2> QED
      BY <1>3, <2>4, <2>5
  <1> QED
    BY <1>2, <1>3 DEF Compute, Fail

\* The invariant of the cache: entries carry the tick of their last use, so
\* the order eviction goes by is the order of use.
THEOREM Invariance == Spec => []CacheInv
  <1>1. CacheInv /\ [Next]_vars => CacheInv'
    <2> SUFFICES ASSUME CacheInv, [Next]_vars PROVE CacheInv'
      OBVIOUS
    <2>1. CASE HostStep
      BY <2>1, HostInv
    <2>2. CASE \E r \in Requests : Lookup(r)
      BY <2>2, LookupInv
    <2>3. CASE CopyHit \/ CopyFails
      BY <2>3, CopyStepInv
    <2>4. CASE Compute
      BY <2>4, ComputeInv
    <2>5. CASE UNCHANGED vars
      <3>1. TypeOK' /\ CopyInv'
        BY <2>5 DEF vars, CacheInv, TypeOK, CopyInv, Cached
      <3> QED
        BY <2>5, <3>1, SameCache DEF vars, CacheInv
    <2> QED
      BY <2>1, <2>2, <2>3, <2>4, <2>5 DEF Next
  <1> QED
    BY InitInv, <1>1, PTL DEF Spec

-----------------------------------------------------------------------------
(* Answers are exact *)

\* After a store an entry is the stored one or an entry there was before.
LEMMA StoredEntry ==
  ASSUME NEW k, NEW out, NEW eff, Store(k, out, eff), NEW j \in DOMAIN entries'
  PROVE  \/ /\ j = k /\ entries'[j].out = out /\ entries'[j].claimed = eff
            /\ entries'[j].models = models
         \/ j \in DOMAIN entries /\ entries'[j] = entries[j]
  <1> DEFINE s == Inserted(k, out, eff)
  <1>1. s[k].out = out /\ s[k].claimed = eff /\ s[k].models = models /\ k \in DOMAIN s
    BY DEF Inserted
  <1>2. \A i \in DOMAIN s \ {k} : i \in DOMAIN entries /\ s[i] = entries[i]
    BY DEF Inserted
  <1>3. entries' = s \/ \E old \in DOMAIN s : entries' = [i \in DOMAIN s \ {old} |-> s[i]]
    BY DEF Store, Evict
  <1>4. j \in DOMAIN s /\ entries'[j] = s[j]
    <2> HIDE DEF s
    <2> QED
      BY <1>3
  <1> QED
    BY <1>1, <1>2, <1>4

LEMMA FilesInit == Init => FilesInv /\ AnswerIsExact
  BY DEF Init, FilesInv, AnswerIsExact, NoAnswer

LEMMA FilesHost ==
  ASSUME CacheInv, FilesInv, AnswerIsExact, HostStep
  PROVE  FilesInv' /\ AnswerIsExact'
  <1>1. /\ UNCHANGED <<oom, entries, pc, rq, key, answer>>
        /\ blobs' \subseteq blobs
    BY DEF HostStep, PrepareJob, CloseJob, LoseBlob, ModelsMove, ModelsChange, MakesDir, RemovesDir
  <1>2. ASSUME pc \in {"copy", "compute"}, Readable(rq.dir)'
        PROVE  dirs'[rq.dir] = key.input
    <2>1. /\ rq.dir \in Dirs /\ key.input \in Inputs
          /\ dirs \in [Dirs -> Inputs \cup {Absent, Closing}]
      BY <1>2 DEF CacheInv, TypeOK, Request, Key, Subject
    <2>2. Readable(rq.dir) => dirs[rq.dir] = key.input
      BY <1>2 DEF FilesInv
    <2>3. CASE \E d \in Dirs, input \in Inputs : PrepareJob(d, input)
      <3> PICK d \in Dirs, input \in Inputs : PrepareJob(d, input)
        BY <2>3
      <3>1. CASE d = rq.dir
        \* The directory would have been absent while its request is handled.
        <4>1. dirs[rq.dir] = Absent
          BY <3>1 DEF PrepareJob, MakesDir
        <4>2. FALSE
          BY <4>1, <1>2 DEF FilesInv
        <4> QED
          BY <4>2
      <3>2. CASE d # rq.dir
        BY <3>2, <2>1, <2>2, <1>1, <1>2 DEF PrepareJob, MakesDir, Readable
      <3> QED
        BY <3>1, <3>2
    <2>4. CASE \E d \in Dirs : CloseJob(d)
      BY <2>4, <2>1, <2>2, <1>1, <1>2, InputsAssumption DEF CloseJob, RemovesDir, Readable
    <2>5. CASE \E b \in blobs : LoseBlob(b)
      BY <2>5, <2>2, <1>1, <1>2 DEF LoseBlob, Readable
    <2>6. CASE ModelsMove
      BY <2>6, <2>2, <1>1, <1>2 DEF ModelsMove, Readable
    <2> QED
      BY <2>3, <2>4, <2>5, <2>6 DEF HostStep
  <1>3. pc # "idle" => dirs'[rq.dir] # Absent
    <2>1. pc # "idle" => rq.dir \in Dirs /\ dirs[rq.dir] # Absent
      BY DEF FilesInv, CacheInv, TypeOK, Request
    <2>2. \A d \in Dirs : dirs[d] # Absent => dirs'[d] # Absent
      BY InputsAssumption DEF HostStep, PrepareJob, CloseJob, LoseBlob, ModelsMove, ModelsChange, MakesDir, RemovesDir,
                              CacheInv, TypeOK, Absent, Closing
    <2> QED
      BY <2>1, <2>2
  <1>4. FilesInv'
    BY <1>1, <1>2, <1>3 DEF FilesInv, Effective
  <1> QED
    BY <1>1, <1>4 DEF AnswerIsExact

LEMMA FilesLookup ==
  ASSUME CacheInv, FilesInv, AnswerIsExact, NEW r \in Requests, Lookup(r)
  PROVE  FilesInv' /\ AnswerIsExact'
  <1>1. /\ rq' = r /\ UNCHANGED <<oom, dirs, blobs, latest>> /\ answer' = NoAnswer
        /\ DOMAIN entries' = DOMAIN entries
        /\ \A k \in DOMAIN entries : /\ entries'[k].out = entries[k].out
                                     /\ entries'[k].claimed = entries[k].claimed
        /\ dirs[r.dir] # Absent
    BY DEF Lookup, Touched, CacheInv, TypeOK, Entry
  <1>2. CASE ~Readable(r.dir)
    <2>1. pc' = "recompute"
      BY <1>2 DEF Lookup
    <2> QED
      BY <1>1, <2>1 DEF FilesInv, Effective, AnswerIsExact, NoAnswer
  <1>3. CASE Readable(r.dir)
    <2>1. /\ key'.frame = r.frame /\ key'.params = r.params /\ key'.quality = r.quality
          /\ key'.input = dirs[r.dir]
      BY <1>3 DEF Lookup, KeyFor
    <2> QED
      BY <1>1, <2>1 DEF FilesInv, Effective, AnswerIsExact, NoAnswer
  <1> QED
    BY <1>2, <1>3

LEMMA FilesCopyHit ==
  ASSUME CacheInv, FilesInv, AnswerIsExact, CopyHit
  PROVE  FilesInv' /\ AnswerIsExact'
  <1> DEFINE copied == {b \in blobs : b.out = entries[key].out}
  <1>1. /\ pc = "copy" /\ pc' = "idle" /\ UNCHANGED <<oom, blobs, entries, rq, key, dirs>>
        /\ {b.kind : b \in copied} = Kinds(entries[key].out.rq.params)
        /\ answer' = [ok |-> TRUE, hit |-> TRUE, rq |-> rq, input |-> key.input,
                      claimed |-> entries[key].claimed, models |-> entries[key].models,
                      blobs |-> copied]
    BY DEF CopyHit
  <1>2. FilesInv'
    BY <1>1 DEF FilesInv, Effective
  <1>3. /\ entries[key].out.input = key.input
        /\ entries[key].out.rq.params = rq.params
        /\ entries[key].claimed = rq.quality
        /\ entries[key].claimed = Effective(entries[key].out.rq.quality)
    BY <1>1 DEF FilesInv, CacheInv, CopyInv, Cached
  <1>4. \A b \in copied : /\ b.out.input = key.input /\ b.out.rq.params = rq.params
                          /\ b.quality = entries[key].claimed
    BY <1>3 DEF FilesInv
  <1>5. AnswerIsExact'
    <2> HIDE DEF copied
    <2> QED
      BY <1>1, <1>3, <1>4 DEF AnswerIsExact
  <1> QED
    BY <1>2, <1>5

LEMMA FilesCopyFails ==
  ASSUME CacheInv, FilesInv, AnswerIsExact, CopyFails
  PROVE  FilesInv' /\ AnswerIsExact'
  <1>1. pc = "copy" /\ pc' = "recompute" /\ UNCHANGED <<oom, blobs, entries, rq, key, dirs, answer>>
    BY DEF CopyFails
  <1>2. FilesInv'
    BY <1>1 DEF FilesInv, Effective
  <1> QED
    BY <1>1, <1>2 DEF AnswerIsExact

LEMMA FilesCompute ==
  ASSUME CacheInv, FilesInv, AnswerIsExact, Compute
  PROVE  FilesInv' /\ AnswerIsExact'
  <1> DEFINE eff == Effective(rq.quality)
             out == [rq |-> rq, input |-> dirs[rq.dir]]
             new == {[out |-> out, kind |-> k, quality |-> eff] : k \in Kinds(rq.params)}
  <1>1. pc' = "idle" /\ UNCHANGED <<oom, dirs, rq, key>>
    BY DEF Compute, Fail
  <1>2. CASE answer' = NoAnswer /\ UNCHANGED <<blobs, entries>>
    <2>1. AnswerIsExact'
      BY <1>2 DEF AnswerIsExact, NoAnswer
    <2>2. \A b \in blobs' : b.quality = Effective(b.out.rq.quality)'
      BY <1>1, <1>2 DEF FilesInv, Effective
    <2>3. \A k \in DOMAIN entries' :
            /\ entries'[k].out.input = k.input /\ entries'[k].out.rq.params = k.params
            /\ entries'[k].claimed = k.quality
            /\ entries'[k].claimed = Effective(entries[k].out.rq.quality)'
      BY <1>1, <1>2 DEF FilesInv, Effective
    <2> QED
      BY <1>1, <2>1, <2>2, <2>3 DEF FilesInv
  <1>3. CASE /\ Readable(rq.dir)
             /\ blobs' = {b \in blobs : b.out # out} \cup new
             /\ answer' = [ok |-> TRUE, hit |-> FALSE, rq |-> rq, input |-> out.input,
                           claimed |-> eff, models |-> models, blobs |-> new]
             /\ \/ StoresResult(eff) /\ Store(key, out, eff)
                \/ entries' = entries
    <2>1. \A b \in new : /\ b.out = out /\ b.quality = eff
                         /\ b.out.rq = rq /\ b.out.input = out.input
      OBVIOUS
    <2>2. {b.kind : b \in new} = Kinds(rq.params)
      <3>1. \A k \in Kinds(rq.params) :
              \E b \in new : b.kind = k
        <4> TAKE k \in Kinds(rq.params)
        <4> WITNESS [out |-> out, kind |-> k, quality |-> eff] \in new
        <4> QED
          OBVIOUS
      <3>2. \A b \in new : b.kind \in Kinds(rq.params)
        OBVIOUS
      <3> HIDE DEF new
      <3> QED
        BY <3>1, <3>2
    <2>3. AnswerIsExact'
      <3> HIDE DEF new
      <3> QED
        BY <1>3, <2>1, <2>2 DEF AnswerIsExact
    <2>4. \A b \in blobs' : b.quality = Effective(b.out.rq.quality)
      <3> HIDE DEF new
      <3> QED
        BY <1>3, <2>1 DEF FilesInv
    <2>5. ASSUME NEW k \in DOMAIN entries'
          PROVE  /\ entries'[k].out.input = k.input /\ entries'[k].out.rq.params = k.params
                 /\ entries'[k].claimed = k.quality
                 /\ entries'[k].claimed = Effective(entries'[k].out.rq.quality)
      <3>1. CASE k \in DOMAIN entries /\ entries'[k] = entries[k]
        BY <3>1 DEF FilesInv
      <3>2. CASE /\ StoresResult(eff)
                 /\ k = key /\ entries'[k].out = out /\ entries'[k].claimed = eff
        <4>1. pc = "compute" /\ eff = rq.quality
          BY <3>2 DEF StoresResult
        <4>2. out.input = key.input /\ out.rq.params = key.params /\ eff = key.quality
          BY <4>1, <1>3 DEF FilesInv
        <4> QED
          BY <3>2, <4>2
      <3> QED
        BY <3>1, <3>2, <1>3, StoredEntry
    <2> QED
      BY <1>1, <2>3, <2>4, <2>5 DEF FilesInv, Effective
  <1> QED
    BY <1>2, <1>3 DEF Compute, Fail

\* What the files hold and what the answers say are invariants, given CacheInv.
LEMMA FilesInvariance == Spec => [](FilesInv /\ AnswerIsExact)
  <1>1. /\ CacheInv /\ FilesInv /\ AnswerIsExact
        /\ [Next]_vars
        => FilesInv' /\ AnswerIsExact'
    <2> SUFFICES ASSUME CacheInv, FilesInv, AnswerIsExact, [Next]_vars
                 PROVE  FilesInv' /\ AnswerIsExact'
      OBVIOUS
    <2>1. CASE HostStep
      BY <2>1, FilesHost
    <2>2. CASE \E r \in Requests : Lookup(r)
      BY <2>2, FilesLookup
    <2>3. CASE CopyHit
      BY <2>3, FilesCopyHit
    <2>4. CASE CopyFails
      BY <2>4, FilesCopyFails
    <2>5. CASE Compute
      BY <2>5, FilesCompute
    <2>6. CASE UNCHANGED vars
      BY <2>6 DEF vars, FilesInv, Effective, Readable, AnswerIsExact
    <2> QED
      BY <2>1, <2>2, <2>3, <2>4, <2>5, <2>6 DEF Next
  <1> QED
    BY FilesInit, Invariance, <1>1, PTL DEF Spec

\* The blobs of every response hold what the response says they hold.
THEOREM AnswersAreExact == Spec => []AnswerIsExact
  BY FilesInvariance, PTL

-----------------------------------------------------------------------------
(* The cache is transparent *)

\* A quality that an inference ends up with is one that it keeps.
LEMMA EffectiveIsKept ==
  ASSUME NEW q, NEW asked, q = Effective(asked), q # "failed"
  PROVE  Effective(q) = q
  BY DEF Effective

\* Every key of the cache stands for a quality that does not run out of memory.
LEMMA CachedIsComputed ==
  ASSUME CacheInv, FilesInv, NEW k \in DOMAIN entries
  PROVE  Effective(k.quality) = k.quality
<1>1. /\ entries[k].claimed = k.quality
      /\ k.quality = Effective(entries[k].out.rq.quality)
  BY DEF FilesInv
<1>2. k.quality \in Qualities
  BY DEF CacheInv, TypeOK, Key, Subject
<1>3. k.quality # "failed"
  BY <1>2 DEF Qualities
<1> QED BY <1>1, <1>3, EffectiveIsKept

\* What blobs hold when they are all of the kinds a request asks for and of its
\* parameters, its input and one quality.
LEMMA BlobsHold ==
  ASSUME NEW found, NEW r \in Request, NEW quality,
         {b.kind : b \in found} = Kinds(r.params),
         \A b \in found : /\ b.out.input = dirs[r.dir] /\ b.out.rq.params = r.params
                           /\ b.quality = quality
  PROVE  {[kind |-> b.kind, input |-> b.out.input, params |-> b.out.rq.params,
           quality |-> b.quality] : b \in found} = Fresh!Computed(r, quality)
<1> DEFINE held == {[kind |-> b.kind, input |-> b.out.input, params |-> b.out.rq.params,
                     quality |-> b.quality] : b \in found}
<1>1. Fresh!Computed(r, quality)
        = [kind : Kinds(r.params), input : {dirs[r.dir]}, params : {r.params}, quality : {quality}]
  BY DEF Fresh!Computed, Fresh!Kinds, Kinds
<1>2. held \subseteq Fresh!Computed(r, quality)
  BY <1>1
<1>3. ASSUME NEW c \in Fresh!Computed(r, quality) PROVE c \in held
  <2>1. c = [kind |-> c.kind, input |-> dirs[r.dir], params |-> r.params, quality |-> quality]
        /\ c.kind \in Kinds(r.params)
    BY <1>1
  <2>2. PICK b \in found : b.kind = c.kind
    BY <2>1
  <2> QED BY <2>1, <2>2
<1> QED BY <1>2, <1>3

\* A request that is being handled is somebody's.
LEMMA Somebody ==
  ASSUME CacheInv, pc # "idle"
  PROVE  rq \in Request /\ rq # Nobody /\ Asked = rq
<1>1. rq \in Request
  BY DEF CacheInv, TypeOK
<1>2. "frame" \in DOMAIN rq /\ "frame" \notin DOMAIN Nobody
  BY <1>1 DEF Request, Nobody
<1> QED BY <1>1, <1>2 DEF Asked

LEMMA HostRefines ==
  ASSUME HostStep
  PROVE  [Fresh!Next]_(Fresh!vars)
<1>1. oom' = oom /\ Asked' = Asked /\ Answered' = Answered /\ Told' = Told
  BY DEF HostStep, PrepareJob, CloseJob, LoseBlob, ModelsMove, Asked, Answered, Told
<1>2. CASE \E d \in Dirs, input \in Inputs : PrepareJob(d, input)
  BY <1>1, <1>2 DEF PrepareJob, MakesDir, Fresh!MakesDir, Fresh!Absent, Absent, Fresh!Host, Fresh!Next
<1>3. CASE \E d \in Dirs : CloseJob(d)
  BY <1>1, <1>3 DEF CloseJob, RemovesDir, Readable, Fresh!RemovesDir, Fresh!Readable,
                    Fresh!Closing, Closing, Fresh!Host, Fresh!Next
<1>4. CASE \E b \in blobs : LoseBlob(b)
  BY <1>1, <1>4 DEF LoseBlob, Fresh!vars
<1>5. CASE ModelsMove
  BY <1>1, <1>5 DEF ModelsMove, ModelsChange, Fresh!ModelsChange, Fresh!Host, Fresh!Next
<1> QED BY <1>2, <1>3, <1>4, <1>5 DEF HostStep

\* A hit makes its entry the youngest; what is remembered of the models stays.
LEMMA LookupForgetsNothing ==
  ASSUME CacheInv, NEW r \in Requests, Lookup(r)
  PROVE  Told' = Told
<1>1. /\ DOMAIN entries' = DOMAIN entries
      /\ \A k \in DOMAIN entries : entries'[k].models = entries[k].models
  BY DEF Lookup, Touched, CacheInv, TypeOK, Entry
<1> QED BY <1>1 DEF Told

LEMMA LookupRefines ==
  ASSUME CacheInv, NEW r \in Requests, Lookup(r)
  PROVE  Fresh!Ask
<1>1. Asked = Nobody /\ dirs[r.dir] # Absent
  BY DEF Lookup, Asked
<1>2. Asked' = r
  BY DEF Lookup, Asked
<1>3. oom' = oom /\ dirs' = dirs /\ models' = models /\ Answered' = NoAnswer /\ Told' = Told
  BY LookupForgetsNothing DEF Lookup, Answered, NoAnswer
<1> QED BY <1>1, <1>2, <1>3 DEF Fresh!Ask, Fresh!Nobody, Nobody, Fresh!Absent, Absent,
                                Fresh!NoAnswer, NoAnswer

\* What every answer is: of the request asked, in the words of both modules.
LEMMA InTheirWords ==
  ASSUME CacheInv, pc # "idle", pc' = "idle"
  PROVE  /\ Asked = rq /\ Asked # Nobody /\ Asked' = Nobody
         /\ Fresh!Effective(rq.quality) = Effective(rq.quality)
         /\ Fresh!Readable(rq.dir) = Readable(rq.dir)
         /\ Fresh!Nobody = Nobody /\ Fresh!NoAnswer = NoAnswer
         /\ Fresh!KeyFor(rq) = KeyFor(rq)
<1>1. Asked = rq /\ Asked # Nobody /\ Asked' = Nobody
  BY Somebody DEF Asked
<1> QED BY <1>1 DEF Fresh!Effective, Effective, Fresh!Downgrade, Downgrade, Fresh!Readable,
                    Readable, Fresh!Nobody, Nobody, Fresh!NoAnswer, NoAnswer, Fresh!KeyFor, KeyFor

\* The key lookup returned is that of what is asked for now.
LEMMA KeyOfRequest ==
  ASSUME CacheInv, FilesInv, pc \in {"copy", "compute"}, Readable(rq.dir)
  PROVE  key = KeyFor(rq)
<1>1. key \in Key
  BY DEF CacheInv, TypeOK
<1>2. key.frame = rq.frame /\ key.params = rq.params /\ key.quality = rq.quality /\ key.input = dirs[rq.dir]
  BY DEF FilesInv
<1> QED BY <1>1, <1>2 DEF Key, Subject, KeyFor

LEMMA CopyHitRefines ==
  ASSUME CacheInv, FilesInv, CopyHit
  PROVE  Fresh!Infer
<1> DEFINE found == {b \in blobs : b.out = entries[key].out}
<1>1. /\ pc = "copy" /\ pc' = "idle" /\ UNCHANGED <<oom, dirs, models, entries>>
      /\ Readable(rq.dir)
      /\ {b.kind : b \in found} = Kinds(entries[key].out.rq.params)
      /\ answer' = [ok |-> TRUE, hit |-> TRUE, rq |-> rq, input |-> key.input,
                    claimed |-> entries[key].claimed, models |-> entries[key].models,
                    blobs |-> found]
  BY DEF CopyHit
<1>2. /\ key \in DOMAIN entries
      /\ key.params = rq.params /\ key.quality = rq.quality /\ dirs[rq.dir] = key.input
      /\ entries[key].out.input = key.input /\ entries[key].out.rq.params = rq.params
      /\ entries[key].claimed = rq.quality
      /\ rq.quality = Effective(entries[key].out.rq.quality)
  BY <1>1 DEF FilesInv, CacheInv, CopyInv, Cached
<1>3. Effective(rq.quality) = rq.quality
  BY <1>2, CachedIsComputed
<1>4. rq \in Request
  BY <1>1, Somebody
<1>5. \A b \in found : /\ b.out.input = dirs[rq.dir] /\ b.out.rq.params = rq.params
                       /\ b.quality = rq.quality
  BY <1>2 DEF FilesInv
<1>6. {b.kind : b \in found} = Kinds(rq.params)
  BY <1>1, <1>2
<1> HIDE DEF found
<1>7. {[kind |-> b.kind, input |-> b.out.input, params |-> b.out.rq.params,
        quality |-> b.quality] : b \in found} = Fresh!Computed(rq, rq.quality)
  BY <1>4, <1>5, <1>6, BlobsHold
<1>8. Answered' = [ok |-> TRUE, hit |-> TRUE, rq |-> rq, quality |-> rq.quality,
                   models |-> entries[key].models, blobs |-> Fresh!Computed(rq, rq.quality)]
  BY <1>1, <1>2, <1>7 DEF Answered
<1>9. rq.quality # "failed"
  BY <1>4 DEF Request, Qualities
\* What is recalled of the models was said of what is asked for now.
<1>10. [of |-> KeyFor(rq), models |-> entries[key].models] \in Told
  <2>1. key = KeyFor(rq)
    BY <1>2, <1>1, KeyOfRequest
  <2> QED BY <1>2, <2>1 DEF Told
<1>11. Fresh!Recall(rq.quality)
  <2>1. Asked = rq /\ Fresh!KeyFor(rq) = KeyFor(rq) /\ Told' = Told
    BY <1>1, InTheirWords DEF Told
  <2> QED BY <1>8, <1>10, <2>1 DEF Fresh!Recall, Fresh!Answer
<1> QED BY <1>1, <1>3, <1>9, <1>11, InTheirWords DEF Fresh!Infer

LEMMA ComputeRefines ==
  ASSUME CacheInv, FilesInv, Compute
  PROVE  Fresh!Infer
<1> DEFINE eff == Effective(rq.quality)
           out == [rq |-> rq, input |-> dirs[rq.dir]]
           new == {[out |-> out, kind |-> k, quality |-> eff] : k \in Kinds(rq.params)}
<1>1. pc # "idle" /\ UNCHANGED <<oom, dirs, models>>
  BY DEF Compute
<1>2. CASE ~Readable(rq.dir) \/ eff = "failed"
  <2>1. pc' = "idle" /\ answer' = NoAnswer /\ entries' = entries
    BY <1>2 DEF Compute, Fail
  <2>2. Answered' = NoAnswer /\ Told' = Told
    BY <2>1 DEF Answered, NoAnswer, Told
  <2> QED BY <1>1, <1>2, <2>1, <2>2, InTheirWords DEF Fresh!Infer
<1>3. CASE Readable(rq.dir) /\ eff # "failed"
  <2>1. /\ pc' = "idle"
        /\ answer' = [ok |-> TRUE, hit |-> FALSE, rq |-> rq, input |-> out.input,
                      claimed |-> eff, models |-> models, blobs |-> new]
        /\ \/ StoresResult(eff) /\ Store(key, out, eff)
           \/ entries' = entries
    BY <1>3 DEF Compute
  <2>2. \A b \in new : /\ b.out.input = dirs[rq.dir] /\ b.out.rq.params = rq.params
                       /\ b.quality = eff
    OBVIOUS
  <2>3. {b.kind : b \in new} = Kinds(rq.params)
    <3>1. \A k \in Kinds(rq.params) : \E b \in new : b.kind = k
      <4> TAKE k \in Kinds(rq.params)
      <4> WITNESS [out |-> out, kind |-> k, quality |-> eff] \in new
      <4> QED OBVIOUS
    <3>2. \A b \in new : b.kind \in Kinds(rq.params)
      OBVIOUS
    <3> HIDE DEF new
    <3> QED BY <3>1, <3>2
  <2>4. rq \in Request
    BY <1>1, Somebody
  <2> HIDE DEF new, eff, out
  <2>5. {[kind |-> b.kind, input |-> b.out.input, params |-> b.out.rq.params,
          quality |-> b.quality] : b \in new} = Fresh!Computed(rq, eff)
    BY <2>2, <2>3, <2>4, BlobsHold
  <2>6. Answered' = [ok |-> TRUE, hit |-> FALSE, rq |-> rq, quality |-> eff,
                     models |-> models, blobs |-> Fresh!Computed(rq, eff)]
    BY <2>1, <2>5 DEF Answered
  \* Of the models nothing is remembered but what this answer says, if it is
  \* stored, and what was remembered before.
  <2>7. Told' \subseteq Told \cup {[of |-> KeyFor(rq), models |-> s] :
                                    s \in IF eff = rq.quality THEN {models} ELSE {}}
    <3> DEFINE said(k, s) == [of |-> k, models |-> s]
    <3>1. ASSUME NEW k \in DOMAIN entries'
          PROVE  \/ k \in DOMAIN entries /\ entries'[k].models = entries[k].models
                 \/ eff = rq.quality /\ k = KeyFor(rq) /\ entries'[k].models = models
      <4>1. CASE entries' = entries
        BY <4>1
      <4>2. CASE StoresResult(eff) /\ Store(key, out, eff)
        <5>1. eff = rq.quality /\ key = KeyFor(rq)
          BY <4>2, <1>3, KeyOfRequest DEF StoresResult
        <5>2. \/ k = key /\ entries'[k].models = models
              \/ k \in DOMAIN entries /\ entries'[k] = entries[k]
          BY <4>2, StoredEntry
        <5> QED BY <5>1, <5>2
      <4> QED BY <2>1, <4>1, <4>2
    <3> QED BY <3>1 DEF Told
  <2>8. Fresh!Compute(eff)
    <3>1. Asked = rq /\ Fresh!KeyFor(rq) = KeyFor(rq)
      BY <1>1, <2>1, InTheirWords
    <3> QED BY <2>6, <2>7, <3>1 DEF Fresh!Compute, Fresh!Answer, Fresh!Said
  <2> QED BY <1>1, <1>3, <2>1, <2>8, InTheirWords DEF Fresh!Infer, eff
<1> QED BY <1>2, <1>3

\* With the files of earlier jobs accounted for, every step is one a server
\* without a cache can take, or one it does not see.
LEMMA StepsRefine ==
  ASSUME CacheInv, FilesInv, [Next]_vars
  PROVE  [Fresh!Next]_(Fresh!vars)
<1>1. CASE HostStep
  BY <1>1, HostRefines
<1>2. CASE \E r \in Requests : Lookup(r)
  BY <1>2, LookupRefines DEF Fresh!Next
<1>3. CASE CopyHit
  BY <1>3, CopyHitRefines DEF Fresh!Next
<1>4. CASE CopyFails
  BY <1>4 DEF CopyFails, Asked, Answered, Told, Fresh!vars
<1>5. CASE Compute
  BY <1>5, ComputeRefines DEF Fresh!Next
<1>6. CASE UNCHANGED vars
  BY <1>6 DEF vars, Asked, Answered, Told, Fresh!vars
<1> QED BY <1>1, <1>2, <1>3, <1>4, <1>5, <1>6 DEF Next

\* The sidecar with its cache implements a sidecar that has none, but for what it
\* says of the models: whatever jobs came and went, were cut short or cleaned up,
\* the frame of every answer is that of an inference made now, and what a hit says
\* of the models is what was said when the same was asked for and computed.
THEOREM Transparency == Spec => CacheIsTransparent
<1>1. Init => Fresh!Init
  BY DEF Init, InitJobs, Absent, Asked, Answered, Told, NoAnswer, Fresh!Init, Fresh!InitJobs,
         Fresh!Absent, Fresh!Nobody, Nobody, Fresh!NoAnswer
<1>2. CacheInv /\ FilesInv /\ [Next]_vars => [Fresh!Next]_(Fresh!vars)
  BY StepsRefine
<1> QED BY <1>1, <1>2, Invariance, FilesInvariance, PTL DEF Spec, CacheIsTransparent, Fresh!Spec

-----------------------------------------------------------------------------
(* The other results *)

\* The variables of the cache, of the files and of the handler keep their types.
THEOREM TypeCorrect == Spec => []TypeOK
  BY Invariance, PTL DEF CacheInv

\* The key remembered for a frame is cached, and the cache never outgrows its
\* bound.
THEOREM IndexesAlwaysAgree == Spec => []IndexesAgree
  BY Invariance, PTL DEF CacheInv

\* A key that was used is cached, or the cache is full of keys used later.
THEOREM EvictsLeastRecentlyUsed == Spec => []KeepsRecentlyUsed
  BY Invariance, PTL DEF CacheInv
=============================================================================
