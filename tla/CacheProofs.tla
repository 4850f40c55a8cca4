------------------------------- MODULE CacheProofs ------------------------------
(***************************************************************************)
(* Theorems about the two caches the scheduler reads through: the byte     *)
(* cache with the references to its bytes, and the topologies of volumes.  *)
(***************************************************************************)
EXTENDS PrefetchedBytes, VolumeTopology, TLAPS, FiniteSetTheorems

Unread == {"new", "waiting", "taken", "reading"}

\* References and entries are to bytes of their path; only a read that is over
\* is referred to elsewhere or cached.
RefsRight ==
  /\ \A q \in Request : ref[q] # None => PathOf[ref[q]] = PathOf[q]
  /\ \A q \in Request : step[q] \in Unread => ref[q] = None
  /\ \A q \in Request : step[q] = "got" => ref[q] = q
  /\ \A p \in DOMAIN entries :
       PathOf[entries[p]] = p /\ step[entries[p]] \notin Unread \cup {"got"}

-----------------------------------------------------------------------------
(***************************************************************************)
(* The operations of the cache.                                            *)
(***************************************************************************)

\* Sets of paths are finite.
LEMMA PathsFinite ==
  ASSUME NEW S, S \subseteq Path
  PROVE  IsFiniteSet(S) /\ Cardinality(S) \in Nat
BY CacheConstants, FS_Subset, FS_CardinalityType

\* A partition of a finite set.
LEMMA SplitCount ==
  ASSUME NEW S, NEW T, S \subseteq Path, T \subseteq S
  PROVE  Cardinality(S) = Cardinality(S \ T) + Cardinality(T)
<1>1. IsFiniteSet(S) /\ IsFiniteSet(T) /\ IsFiniteSet(S \ T)
  BY PathsFinite
<1>2. (S \ T) \cup T = S /\ (S \ T) \cap T = {}
  OBVIOUS
<1>3. Cardinality((S \ T) \cup T)
        = Cardinality(S \ T) + Cardinality(T) - Cardinality((S \ T) \cap T)
  BY <1>1, FS_Union
<1>4. Cardinality((S \ T) \cap T) = 0
  BY <1>2, FS_EmptySet
<1>5. Cardinality(S \ T) \in Nat /\ Cardinality(T) \in Nat
  BY <1>1, FS_CardinalityType
<1>6. Cardinality(S) = Cardinality(S \ T) + Cardinality(T) - 0
  BY <1>2, <1>3, <1>4
<1> QED BY <1>5, <1>6

\* The per-volume counts are those of a set of paths.
CountsOf(counts, paths) ==
  counts = [v \in Volume |-> Cardinality(OnVolume(paths, v))]

\* Erasing entries leaves the counts of those that stay.
LEMMA UncountedCounts ==
  ASSUME DOMAIN entries \subseteq Path, CacheAccounted, NEW removed,
         removed \subseteq DOMAIN entries
  PROVE  CountsOf(Uncounted(removed), DOMAIN entries \ removed)
<1>1. ASSUME NEW v \in Volume
      PROVE  Uncounted(removed)[v] = Cardinality(OnVolume(DOMAIN entries \ removed, v))
  <2> DEFINE all  == OnVolume(DOMAIN entries, v)
             gone == OnVolume(removed, v)
  <2>1. gone \subseteq all /\ all \subseteq Path
        /\ all \ gone = OnVolume(DOMAIN entries \ removed, v)
    BY DEF OnVolume
  <2>2. Cardinality(all) = Cardinality(all \ gone) + Cardinality(gone)
    BY <2>1, SplitCount
  <2>3. /\ Cardinality(all) \in Nat /\ Cardinality(gone) \in Nat
        /\ Cardinality(all \ gone) \in Nat
    BY <2>1, PathsFinite
  <2>4. countByVolume[v] = Cardinality(all)
    BY DEF CacheAccounted
  <2> HIDE DEF all, gone
  <2>5. Uncounted(removed)[v] = IF Cardinality(all) > Cardinality(gone)
                                THEN Cardinality(all) - Cardinality(gone) ELSE 0
    BY <2>4 DEF Uncounted, gone
  <2>6. Uncounted(removed)[v] = Cardinality(all \ gone)
    BY <2>2, <2>3, <2>5
  <2> QED BY <2>1, <2>6
<1> QED BY <1>1 DEF CountsOf, Uncounted

\* A new entry is counted on its volume.
LEMMA CountedCounts ==
  ASSUME NEW counts, NEW paths, paths \subseteq Path, NEW path \in Path, path \notin paths,
         CountsOf(counts, paths)
  PROVE  CountsOf(Counted(counts, path), paths \cup {path})
<1>1. ASSUME NEW v \in Volume
      PROVE  Counted(counts, path)[v] = Cardinality(OnVolume(paths \cup {path}, v))
  <2>1. OnVolume(paths, v) \subseteq Path /\ path \notin OnVolume(paths, v)
        /\ IsFiniteSet(OnVolume(paths, v))
    BY PathsFinite DEF OnVolume
  <2>2. counts[v] = Cardinality(OnVolume(paths, v))
    BY DEF CountsOf
  <2>3. CASE VolumeOf[path] = v
    <3>1. OnVolume(paths \cup {path}, v) = OnVolume(paths, v) \cup {path}
      BY <2>3 DEF OnVolume
    <3>2. Cardinality(OnVolume(paths, v) \cup {path}) = Cardinality(OnVolume(paths, v)) + 1
      BY <2>1, FS_AddElement
    <3> QED BY <2>2, <2>3, <3>1, <3>2 DEF Counted
  <2>4. CASE VolumeOf[path] # v
    <3>1. OnVolume(paths \cup {path}, v) = OnVolume(paths, v)
      BY <2>4 DEF OnVolume
    <3> QED BY <2>2, <2>4, <3>1 DEF Counted
  <2> QED BY <2>3, <2>4
<1> QED BY <1>1 DEF CountsOf, Counted

\* What eviction keeps is among the entries, and within the limit.
LEMMA KeptWithin ==
  ASSUME NEW limit \in Nat, NEW kept \in KeptBy(limit), DOMAIN entries \subseteq Path
  PROVE  kept \subseteq DOMAIN entries /\ kept \subseteq Path /\ Cardinality(kept) <= limit
BY DEF KeptBy

\* The cache is in order.
CacheOK == CacheTypeOK /\ CacheAccounted

\* The entries of `kept` are those there were.
Keeps(kept) == \A p \in kept : p \in DOMAIN entries /\ entries'[p] = entries[p]

\* Counts of a set of paths are the counts CacheAccounted asks for.
LEMMA CountsAccounted ==
  ASSUME NEW n \in Nat \ {0}, NEW e, NEW counts, DOMAIN e \subseteq Path,
         \A p \in DOMAIN e : e[p] \in Request,
         CountsOf(counts, DOMAIN e), Cardinality(DOMAIN e) <= n,
         entries' = e, countByVolume' = counts, maxEntries' = n
  PROVE  CacheOK'
<1>1. \A v \in Volume : Cardinality(OnVolume(DOMAIN e, v)) \in Nat
  BY PathsFinite DEF OnVolume
<1>2. counts \in [Volume -> Nat]
  BY <1>1 DEF CountsOf
<1>3. \A v \in Volume : counts[v] = Cardinality(OnVolume(DOMAIN e, v))
  BY DEF CountsOf
<1>4. CacheAccounted'
  BY <1>3 DEF CacheAccounted, OnVolume
<1> QED BY <1>2, <1>4 DEF CacheOK, CacheTypeOK

\* Put keeps the cache in order; its entry is there, the others stay or go.
LEMMA PutOK ==
  ASSUME CacheOK, NEW path \in Path, NEW bytes \in Request, Put(path, bytes)
  PROVE  /\ CacheOK'
         /\ path \in DOMAIN entries' /\ entries'[path] = bytes
         /\ Keeps(DOMAIN entries' \ {path})
<1>1. PICK kept \in KeptBy(maxEntries - 1) :
        /\ entries' = [p \in kept \cup {path} |-> IF p = path THEN bytes ELSE entries[p]]
        /\ countByVolume' = Counted(Uncounted(Dropped(kept, path)), path)
        /\ maxEntries' = maxEntries
  BY DEF Put
<1>2. maxEntries - 1 \in Nat
  BY DEF CacheOK, CacheTypeOK
<1>3. kept \subseteq DOMAIN entries /\ kept \subseteq Path /\ Cardinality(kept) <= maxEntries - 1
  BY <1>1, <1>2, KeptWithin DEF CacheOK, CacheTypeOK
<1>4. /\ Dropped(kept, path) \subseteq DOMAIN entries
      /\ DOMAIN entries \ Dropped(kept, path) = kept \ {path}
  BY <1>3 DEF Dropped
<1>5. CountsOf(Uncounted(Dropped(kept, path)), kept \ {path})
  BY <1>4, UncountedCounts DEF CacheOK, CacheTypeOK
<1>6. CountsOf(Counted(Uncounted(Dropped(kept, path)), path), (kept \ {path}) \cup {path})
  BY <1>3, <1>5, CountedCounts
<1>7. (kept \ {path}) \cup {path} = kept \cup {path}
  OBVIOUS
<1>8. Cardinality(kept \cup {path}) <= maxEntries
  <2>1. IsFiniteSet(kept) /\ Cardinality(kept) \in Nat
    BY <1>3, PathsFinite
  <2>2. Cardinality(kept \cup {path})
          = IF path \in kept THEN Cardinality(kept) ELSE Cardinality(kept) + 1
    BY <2>1, FS_AddElement
  <2> QED BY <1>3, <2>1, <2>2 DEF CacheOK, CacheTypeOK
<1> DEFINE e      == [p \in kept \cup {path} |-> IF p = path THEN bytes ELSE entries[p]]
           counts == Counted(Uncounted(Dropped(kept, path)), path)
<1>9. /\ DOMAIN e = kept \cup {path} /\ DOMAIN e \subseteq Path
      /\ \A p \in DOMAIN e : e[p] \in Request
  BY <1>3 DEF CacheOK, CacheTypeOK
<1>10. CountsOf(counts, DOMAIN e) /\ Cardinality(DOMAIN e) <= maxEntries
  BY <1>6, <1>7, <1>8, <1>9
<1>11. entries' = e /\ countByVolume' = counts /\ maxEntries \in Nat \ {0}
  BY <1>1 DEF CacheOK, CacheTypeOK
<1>12. Keeps(DOMAIN entries' \ {path}) /\ path \in DOMAIN entries' /\ entries'[path] = bytes
  BY <1>3, <1>11 DEF Keeps
<1> HIDE DEF e, counts
<1>13. CacheOK'
  BY <1>1, <1>9, <1>10, <1>11, CountsAccounted
<1> QED BY <1>12, <1>13

\* EraseIfUnshared keeps the cache in order, and a shared entry.
LEMMA EraseOK ==
  ASSUME CacheOK, NEW path \in Path, NEW shared \in BOOLEAN, EraseIfUnshared(path, shared)
  PROVE  CacheOK' /\ Keeps(DOMAIN entries') /\ (path \in DOMAIN entries' => shared)
<1>1. CASE path \in DOMAIN entries /\ ~shared
  <2> DEFINE e == [p \in DOMAIN entries \ {path} |-> entries[p]]
  <2>1. /\ entries' = e /\ countByVolume' = Uncounted({path})
        /\ maxEntries' = maxEntries /\ maxEntries \in Nat \ {0}
    BY <1>1 DEF EraseIfUnshared, CacheOK, CacheTypeOK
  <2>2. CountsOf(Uncounted({path}), DOMAIN e)
    BY <1>1, UncountedCounts DEF CacheOK, CacheTypeOK
  <2>3. Cardinality(DOMAIN e) <= maxEntries
    <3>1. IsFiniteSet(DOMAIN entries) /\ Cardinality(DOMAIN entries) \in Nat
      BY PathsFinite DEF CacheOK, CacheTypeOK
    <3>2. Cardinality(DOMAIN entries \ {path}) = Cardinality(DOMAIN entries) - 1
      BY <1>1, <3>1, FS_RemoveElement
    <3> QED BY <3>1, <3>2 DEF CacheOK, CacheTypeOK, CacheAccounted
  <2>4. /\ DOMAIN e \subseteq Path /\ \A p \in DOMAIN e : e[p] \in Request
        /\ Keeps(DOMAIN entries') /\ path \notin DOMAIN entries'
    BY <2>1 DEF CacheOK, CacheTypeOK, Keeps
  <2> HIDE DEF e
  <2>5. CacheOK'
    BY <2>1, <2>2, <2>3, <2>4, CountsAccounted
  <2> QED BY <2>4, <2>5
<1>2. CASE ~(path \in DOMAIN entries /\ ~shared)
  <2>1. entries' = entries /\ countByVolume' = countByVolume /\ maxEntries' = maxEntries
    BY <1>2 DEF EraseIfUnshared
  <2>2. CacheOK'
    BY <2>1 DEF CacheOK, CacheTypeOK, CacheAccounted, OnVolume
  <2> QED BY <1>2, <2>1, <2>2 DEF Keeps
<1> QED BY <1>1, <1>2

\* SetMaxEntries keeps the cache in order, and evicts down to the limit.
LEMMA SetMaxOK ==
  ASSUME CacheOK, NEW n \in Nat \ {0}, SetMaxEntries(n)
  PROVE  CacheOK' /\ Keeps(DOMAIN entries')
<1>1. maxEntries' = n
  BY DEF SetMaxEntries
<1>2. PICK kept \in KeptBy(n) :
        /\ entries' = [p \in kept |-> entries[p]]
        /\ countByVolume' = Uncounted(DOMAIN entries \ kept)
  BY <1>1 DEF SetMaxEntries
<1>3. kept \subseteq DOMAIN entries /\ kept \subseteq Path /\ Cardinality(kept) <= n
  BY <1>2, KeptWithin DEF CacheOK, CacheTypeOK
<1> DEFINE e == [p \in kept |-> entries[p]]
<1>4. DOMAIN entries \ (DOMAIN entries \ kept) = DOMAIN e
  BY <1>3
<1>5. CountsOf(Uncounted(DOMAIN entries \ kept), DOMAIN e)
  BY <1>4, UncountedCounts DEF CacheOK, CacheTypeOK
<1>6. /\ entries' = e /\ DOMAIN e \subseteq Path /\ Cardinality(DOMAIN e) <= n
      /\ \A p \in DOMAIN e : e[p] \in Request
      /\ Keeps(DOMAIN entries')
  BY <1>2, <1>3 DEF CacheOK, CacheTypeOK, Keeps
<1> HIDE DEF e
<1>7. CacheOK'
  BY <1>1, <1>2, <1>5, <1>6, CountsAccounted
<1> QED BY <1>6, <1>7

\* A cache without entries is in order.
LEMMA ClearOK ==
  ASSUME NEW n \in Nat \ {0}, ClearAndSetMaxEntries(n)
  PROVE  CacheOK' /\ DOMAIN entries' = {}
<1>1. /\ DOMAIN entries' = {} /\ maxEntries' = n
      /\ countByVolume' = [v \in Volume |-> 0]
  BY DEF ClearAndSetMaxEntries
<1>2. \A v \in Volume : OnVolume({}, v) = {}
  BY DEF OnVolume
<1>3. CountsOf(countByVolume', DOMAIN entries') /\ Cardinality(DOMAIN entries') <= n
  BY <1>1, <1>2, FS_EmptySet DEF CountsOf
<1> QED BY <1>1, <1>3, CountsAccounted

-----------------------------------------------------------------------------
(***************************************************************************)
(* The inductive invariant.                                                *)
(***************************************************************************)

\* Request r keeps the entry of path p from being left behind.
Holder(r, p) ==
  /\ PathOf[r] = p
  /\ ref[r] = entries[p] \/ erasing[r] \/ step[r] \in {"flushed", "releasing"}

BytesInv == CacheOK /\ ThreadTypeOK /\ RefsRight /\ NoEntryStranded

\* The initial states satisfy the invariant.
LEMMA InitInv == Init => BytesInv
<1> SUFFICES ASSUME Init PROVE BytesInv
  OBVIOUS
<1>1. DOMAIN entries = {} /\ Cardinality(DOMAIN entries) = 0
  BY FS_EmptySet DEF Init
<1>2. \A v \in Volume : OnVolume(DOMAIN entries, v) = {}
  BY <1>1 DEF OnVolume
<1>3. CacheAccounted
  <2>1. 0 <= maxEntries
    BY BytesConstants DEF Init
  <2>2. \A v \in Volume : countByVolume[v] = 0
    BY DEF Init
  <2> QED BY <1>1, <1>2, <2>1, <2>2, FS_EmptySet DEF CacheAccounted
<1>4. CacheOK
  BY <1>1, <1>3, BytesConstants DEF Init, CacheOK, CacheTypeOK
<1>5. ThreadTypeOK
  BY BytesConstants DEF Init, ThreadTypeOK, Step
<1>6. RefsRight /\ NoEntryStranded
  BY <1>1 DEF Init, RefsRight, NoEntryStranded, Unread
<1> QED BY <1>4, <1>5, <1>6 DEF BytesInv

\* A step that leaves the cache alone leaves it in order.
LEMMA CacheSame ==
  ASSUME CacheOK, UNCHANGED cacheVars
  PROVE  CacheOK'
BY DEF CacheOK, CacheTypeOK, CacheAccounted, OnVolume, cacheVars

\* A canceled request that held bytes is about to erase their entry.
LEMMA CancelStep ==
  ASSUME BytesInv, NEW r \in Request, Cancel(r)
  PROVE  BytesInv'
<1>1. CacheOK'
  BY CacheSame DEF BytesInv, Cancel, cacheVars
<1>2. ThreadTypeOK'
  BY BytesConstants DEF BytesInv, Cancel, ThreadTypeOK, Step, Reading, Go, Refer, Cached, CacheOK, CacheTypeOK, cacheVars
<1>3. RefsRight'
  BY BytesConstants DEF BytesInv, Cancel, ThreadTypeOK, RefsRight, CacheOK, CacheTypeOK, Unread, Reading, Go, Refer, Cached, cacheVars
<1>4. ASSUME NEW p \in DOMAIN entries', NEW q \in Request, Holder(q, p)
      PROVE  Holder(q, p)'
  <2>1. entries' = entries /\ PathOf[q] = p
    BY <1>4 DEF Cancel, cacheVars, Holder
  <2>2. CASE ref[q] = entries[p]
    <3>1. entries[p] # None
      BY <2>1, BytesConstants DEF BytesInv, CacheOK, CacheTypeOK
    <3>2. ref'[q] = ref[q] \/ erasing'[q]
      BY <2>2, <3>1 DEF BytesInv, ThreadTypeOK, Cancel
    <3> QED BY <2>1, <2>2, <3>2 DEF Holder
  <2>3. CASE erasing[q]
    <3>1. erasing'[q]
      BY <2>3 DEF BytesInv, ThreadTypeOK, Cancel
    <3> QED BY <2>1, <3>1 DEF Holder
  <2>4. CASE step[q] \in {"flushed", "releasing"}
    <3>1. step'[q] = step[q]
      BY <2>4 DEF BytesInv, ThreadTypeOK, Cancel
    <3> QED BY <2>1, <2>4, <3>1 DEF Holder
  <2> QED BY <1>4, <2>2, <2>3, <2>4 DEF Holder
<1>5. NoEntryStranded'
  BY <1>4 DEF BytesInv, Cancel, NoEntryStranded, Holder, cacheVars
<1> QED BY <1>1, <1>2, <1>3, <1>5 DEF BytesInv

\* A reader takes a request.
LEMMA TakeStep ==
  ASSUME BytesInv, NEW t \in Readers, NEW r \in Request, Take(t, r)
  PROVE  BytesInv'
<1>1. CacheOK'
  BY CacheSame DEF BytesInv, Take, cacheVars
<1>2. ThreadTypeOK'
  BY BytesConstants DEF BytesInv, Take, ThreadTypeOK, Step, Reading, Go, Refer, Cached, CacheOK, CacheTypeOK, cacheVars
<1>3. RefsRight'
  BY BytesConstants DEF BytesInv, Take, ThreadTypeOK, RefsRight, CacheOK, CacheTypeOK, Unread, Reading, Go, Refer, Cached, cacheVars
<1>4. ASSUME NEW p \in DOMAIN entries', NEW q \in Request, Holder(q, p)
      PROVE  \E x \in Request : Holder(x, p)'
  BY <1>4, BytesConstants DEF BytesInv, Take, ThreadTypeOK, RefsRight, CacheOK, CacheTypeOK, Unread, Reading, Go, Refer, cacheVars, Holder
<1>5. NoEntryStranded'
  BY <1>4 DEF BytesInv, Take, NoEntryStranded, Holder, cacheVars
<1> QED BY <1>1, <1>2, <1>3, <1>5 DEF BytesInv

\* The reader that drops a discarded reference is about to erase the entry.
LEMMA FlushBytesStep ==
  ASSUME BytesInv, NEW t \in Readers, FlushBytes(t)
  PROVE  BytesInv'
<1>1. CacheOK'
  BY CacheSame DEF BytesInv, FlushBytes, cacheVars
<1>2. ThreadTypeOK'
  BY BytesConstants DEF BytesInv, FlushBytes, ThreadTypeOK, Step, Reading, Go, Refer, Cached, CacheOK, CacheTypeOK, cacheVars
<1>3. RefsRight'
  BY BytesConstants DEF BytesInv, FlushBytes, ThreadTypeOK, RefsRight, CacheOK, CacheTypeOK, Unread, Reading, Go, Refer, Cached, cacheVars
<1>4. ASSUME NEW p \in DOMAIN entries', NEW q \in Request, Holder(q, p)
      PROVE  \E x \in Request : Holder(x, p)'
  BY <1>4, BytesConstants DEF BytesInv, FlushBytes, ThreadTypeOK, RefsRight, CacheOK, CacheTypeOK, Unread, Reading, Go, Refer, cacheVars, Holder
<1>5. NoEntryStranded'
  BY <1>4 DEF BytesInv, FlushBytes, NoEntryStranded, Holder, cacheVars
<1> QED BY <1>1, <1>2, <1>3, <1>5 DEF BytesInv

\* A reader finds bytes of its path, or none.
LEMMA LookupStep ==
  ASSUME BytesInv, NEW t \in Readers, Lookup(t)
  PROVE  BytesInv'
<1>1. CacheOK'
  BY CacheSame DEF BytesInv, Lookup, cacheVars
<1>2. ThreadTypeOK'
  BY BytesConstants DEF BytesInv, Lookup, ThreadTypeOK, Step, Reading, Go, Refer, Cached, CacheOK, CacheTypeOK, cacheVars
<1>3. RefsRight'
  BY BytesConstants DEF BytesInv, Lookup, ThreadTypeOK, RefsRight, CacheOK, CacheTypeOK, Unread, Reading, Go, Refer, Cached, cacheVars
<1>4. ASSUME NEW p \in DOMAIN entries', NEW q \in Request, Holder(q, p)
      PROVE  \E x \in Request : Holder(x, p)'
  BY <1>4, BytesConstants DEF BytesInv, Lookup, ThreadTypeOK, RefsRight, CacheOK, CacheTypeOK, Unread, Reading, Go, Refer, cacheVars, Holder
<1>5. NoEntryStranded'
  BY <1>4 DEF BytesInv, Lookup, NoEntryStranded, Holder, cacheVars
<1> QED BY <1>1, <1>2, <1>3, <1>5 DEF BytesInv

\* Bytes that were just read are not cached yet.
LEMMA ReadBytesStep ==
  ASSUME BytesInv, NEW t \in Readers, ReadBytes(t)
  PROVE  BytesInv'
<1>1. CacheOK'
  BY CacheSame DEF BytesInv, ReadBytes, cacheVars
<1>2. ThreadTypeOK'
  BY BytesConstants DEF BytesInv, ReadBytes, ThreadTypeOK, Step, Reading, Go, Refer, Cached, CacheOK, CacheTypeOK, cacheVars
<1>3. RefsRight'
  BY BytesConstants DEF BytesInv, ReadBytes, ThreadTypeOK, RefsRight, CacheOK, CacheTypeOK, Unread, Reading, Go, Refer, Cached, cacheVars
<1>4. ASSUME NEW p \in DOMAIN entries', NEW q \in Request, Holder(q, p)
      PROVE  \E x \in Request : Holder(x, p)'
  BY <1>4, BytesConstants DEF BytesInv, ReadBytes, ThreadTypeOK, RefsRight, CacheOK, CacheTypeOK, Unread, Reading, Go, Refer, cacheVars, Holder
<1>5. NoEntryStranded'
  BY <1>4 DEF BytesInv, ReadBytes, NoEntryStranded, Holder, cacheVars
<1> QED BY <1>1, <1>2, <1>3, <1>5 DEF BytesInv

\* A read that yields no bytes.
LEMMA ReadNothingStep ==
  ASSUME BytesInv, NEW t \in Readers, ReadNothing(t)
  PROVE  BytesInv'
<1>1. CacheOK'
  BY CacheSame DEF BytesInv, ReadNothing, cacheVars
<1>2. ThreadTypeOK'
  BY BytesConstants DEF BytesInv, ReadNothing, ThreadTypeOK, Step, Reading, Go, Refer, Cached, CacheOK, CacheTypeOK, cacheVars
<1>3. RefsRight'
  BY BytesConstants DEF BytesInv, ReadNothing, ThreadTypeOK, RefsRight, CacheOK, CacheTypeOK, Unread, Reading, Go, Refer, Cached, cacheVars
<1>4. ASSUME NEW p \in DOMAIN entries', NEW q \in Request, Holder(q, p)
      PROVE  \E x \in Request : Holder(x, p)'
  BY <1>4, BytesConstants DEF BytesInv, ReadNothing, ThreadTypeOK, RefsRight, CacheOK, CacheTypeOK, Unread, Reading, Go, Refer, cacheVars, Holder
<1>5. NoEntryStranded'
  BY <1>4 DEF BytesInv, ReadNothing, NoEntryStranded, Holder, cacheVars
<1> QED BY <1>1, <1>2, <1>3, <1>5 DEF BytesInv

\* The reader queues or discards what it read.
LEMMA FinishStep ==
  ASSUME BytesInv, NEW t \in Readers, Finish(t)
  PROVE  BytesInv'
<1>1. CacheOK'
  BY CacheSame DEF BytesInv, Finish, cacheVars
<1>2. ThreadTypeOK'
  BY BytesConstants DEF BytesInv, Finish, ThreadTypeOK, Step, Reading, Go, Refer, Cached, CacheOK, CacheTypeOK, cacheVars
<1>3. RefsRight'
  BY BytesConstants DEF BytesInv, Finish, ThreadTypeOK, RefsRight, CacheOK, CacheTypeOK, Unread, Reading, Go, Refer, Cached, cacheVars
<1>4. ASSUME NEW p \in DOMAIN entries', NEW q \in Request, Holder(q, p)
      PROVE  \E x \in Request : Holder(x, p)'
  BY <1>4, BytesConstants DEF BytesInv, Finish, ThreadTypeOK, RefsRight, CacheOK, CacheTypeOK, Unread, Reading, Go, Refer, cacheVars, Holder
<1>5. NoEntryStranded'
  BY <1>4 DEF BytesInv, Finish, NoEntryStranded, Holder, cacheVars
<1> QED BY <1>1, <1>2, <1>3, <1>5 DEF BytesInv

\* A worker takes the bytes.
LEMMA WorkerTakeStep ==
  ASSUME BytesInv, NEW r \in Request, WorkerTake(r)
  PROVE  BytesInv'
<1>1. CacheOK'
  BY CacheSame DEF BytesInv, WorkerTake, cacheVars
<1>2. ThreadTypeOK'
  BY BytesConstants DEF BytesInv, WorkerTake, ThreadTypeOK, Step, Reading, Go, Refer, Cached, CacheOK, CacheTypeOK, cacheVars
<1>3. RefsRight'
  BY BytesConstants DEF BytesInv, WorkerTake, ThreadTypeOK, RefsRight, CacheOK, CacheTypeOK, Unread, Reading, Go, Refer, Cached, cacheVars
<1>4. ASSUME NEW p \in DOMAIN entries', NEW q \in Request, Holder(q, p)
      PROVE  \E x \in Request : Holder(x, p)'
  BY <1>4, BytesConstants DEF BytesInv, WorkerTake, ThreadTypeOK, RefsRight, CacheOK, CacheTypeOK, Unread, Reading, Go, Refer, cacheVars, Holder
<1>5. NoEntryStranded'
  BY <1>4 DEF BytesInv, WorkerTake, NoEntryStranded, Holder, cacheVars
<1> QED BY <1>1, <1>2, <1>3, <1>5 DEF BytesInv

\* The worker that drops its reference is about to erase the entry.
LEMMA WorkerReleaseStep ==
  ASSUME BytesInv, NEW r \in Request, WorkerRelease(r)
  PROVE  BytesInv'
<1>1. CacheOK'
  BY CacheSame DEF BytesInv, WorkerRelease, cacheVars
<1>2. ThreadTypeOK'
  BY BytesConstants DEF BytesInv, WorkerRelease, ThreadTypeOK, Step, Reading, Go, Refer, Cached, CacheOK, CacheTypeOK, cacheVars
<1>3. RefsRight'
  BY BytesConstants DEF BytesInv, WorkerRelease, ThreadTypeOK, RefsRight, CacheOK, CacheTypeOK, Unread, Reading, Go, Refer, Cached, cacheVars
<1>4. ASSUME NEW p \in DOMAIN entries', NEW q \in Request, Holder(q, p)
      PROVE  \E x \in Request : Holder(x, p)'
  BY <1>4, BytesConstants DEF BytesInv, WorkerRelease, ThreadTypeOK, RefsRight, CacheOK, CacheTypeOK, Unread, Reading, Go, Refer, cacheVars, Holder
<1>5. NoEntryStranded'
  BY <1>4 DEF BytesInv, WorkerRelease, NoEntryStranded, Holder, cacheVars
<1> QED BY <1>1, <1>2, <1>3, <1>5 DEF BytesInv

\* A stop cancels.
LEMMA StopStep ==
  ASSUME BytesInv, Stop
  PROVE  BytesInv'
<1>1. CacheOK'
  BY CacheSame DEF BytesInv, Stop, cacheVars
<1>2. ThreadTypeOK'
  BY BytesConstants DEF BytesInv, Stop, ThreadTypeOK, Step, Reading, Go, Refer, Cached, CacheOK, CacheTypeOK, cacheVars
<1>3. RefsRight'
  BY BytesConstants DEF BytesInv, Stop, ThreadTypeOK, RefsRight, CacheOK, CacheTypeOK, Unread, Reading, Go, Refer, Cached, cacheVars
<1>4. ASSUME NEW p \in DOMAIN entries', NEW q \in Request, Holder(q, p)
      PROVE  \E x \in Request : Holder(x, p)'
  BY <1>4, BytesConstants DEF BytesInv, Stop, ThreadTypeOK, RefsRight, CacheOK, CacheTypeOK, Unread, Reading, Go, Refer, cacheVars, Holder
<1>5. NoEntryStranded'
  BY <1>4 DEF BytesInv, Stop, NoEntryStranded, Holder, cacheVars
<1> QED BY <1>1, <1>2, <1>3, <1>5 DEF BytesInv

\* Nothing changes.
LEMMA StutterStep ==
  ASSUME BytesInv, UNCHANGED vars
  PROVE  BytesInv'
<1>1. CacheOK'
  BY CacheSame DEF BytesInv, vars, threadVars, cacheVars
<1>2. ThreadTypeOK'
  BY BytesConstants DEF BytesInv, vars, threadVars, ThreadTypeOK, Step, Reading, Go, Refer, Cached, CacheOK, CacheTypeOK, cacheVars
<1>3. RefsRight'
  BY BytesConstants DEF BytesInv, vars, threadVars, ThreadTypeOK, RefsRight, CacheOK, CacheTypeOK, Unread, Reading, Go, Refer, Cached, cacheVars
<1>4. ASSUME NEW p \in DOMAIN entries', NEW q \in Request, Holder(q, p)
      PROVE  \E x \in Request : Holder(x, p)'
  BY <1>4, BytesConstants DEF BytesInv, vars, threadVars, ThreadTypeOK, RefsRight, CacheOK, CacheTypeOK, Unread, Reading, Go, Refer, cacheVars, Holder
<1>5. NoEntryStranded'
  BY <1>4 DEF BytesInv, vars, threadVars, NoEntryStranded, Holder, cacheVars
<1> QED BY <1>1, <1>2, <1>3, <1>5 DEF BytesInv

\* An erase leaves the entry only to another holder of its bytes.
LEMMA EraseForOK ==
  ASSUME BytesInv, NEW r \in Request, EraseFor(r), \A q \in Request : ref'[q] \in {ref[q], None}
  PROVE  /\ CacheOK' /\ Keeps(DOMAIN entries')
         /\ PathOf[r] \in DOMAIN entries' => \E x \in Request : Holder(x, PathOf[r])'
<1> DEFINE path == PathOf[r]
<1>1. path \in Path
  BY BytesConstants
<1>2. CASE Shared(path)
  <2>1. EraseIfUnshared(path, TRUE)
    BY <1>2 DEF EraseFor, EraseIfUnshared
  <2>2. CacheOK' /\ Keeps(DOMAIN entries')
    BY <1>1, <2>1, EraseOK DEF BytesInv
  <2>3. ASSUME path \in DOMAIN entries'
        PROVE  \E x \in Request : Holder(x, path)'
    <3>1. path \in DOMAIN entries /\ entries'[path] = entries[path]
      BY <2>2, <2>3 DEF Keeps
    <3>2. PICK q \in Request : ref'[q] # None /\ ref'[q] = Cached(path)
      BY <1>2 DEF Shared
    <3>3. ref'[q] = entries[path] /\ ref[q] = entries[path] /\ ref[q] # None
      BY <3>1, <3>2 DEF Cached
    <3>4. PathOf[entries[path]] = path /\ PathOf[ref[q]] = PathOf[q]
      BY <3>1, <3>3 DEF BytesInv, RefsRight
    <3> QED BY <3>1, <3>3, <3>4 DEF Holder
  <2> QED BY <2>2, <2>3
<1>3. CASE ~Shared(path)
  <2>1. EraseIfUnshared(path, FALSE)
    BY <1>3 DEF EraseFor, EraseIfUnshared
  <2> QED BY <1>1, <2>1, EraseOK DEF BytesInv
<1> QED BY <1>2, <1>3

\* A Cancel erases the entry it released.
LEMMA CancelEraseStep ==
  ASSUME BytesInv, NEW r \in Request, CancelErase(r)
  PROVE  BytesInv'
<1>1. EraseFor(r)
  BY BytesConstants DEF BytesInv, ThreadTypeOK, CancelErase
<1>2. ThreadTypeOK' /\ \A q \in Request : ref'[q] \in {ref[q], None}
  BY <1>1, BytesConstants DEF BytesInv, CancelErase, ThreadTypeOK, Step, Reading, Go, Refer
<1>3. /\ CacheOK' /\ Keeps(DOMAIN entries')
      /\ PathOf[r] \in DOMAIN entries' => \E x \in Request : Holder(x, PathOf[r])'
  BY <1>1, <1>2, EraseForOK
<1>4. RefsRight'
  BY <1>1, <1>3, BytesConstants DEF BytesInv, CancelErase, ThreadTypeOK, RefsRight, CacheOK, CacheTypeOK, Unread, Go, Refer, Keeps
<1>5. ASSUME NEW p \in DOMAIN entries', NEW q \in Request, Holder(q, p), p # PathOf[r]
      PROVE  Holder(q, p)'
  <2>1. p \in DOMAIN entries /\ entries'[p] = entries[p] /\ q # r
    BY <1>3, <1>5 DEF Keeps, Holder
  <2>2. ref'[q] = ref[q] /\ (erasing[q] => erasing'[q]) /\ step'[q] = step[q]
    BY <1>1, <2>1 DEF BytesInv, CancelErase, ThreadTypeOK, Go, Refer
  <2> QED BY <1>5, <2>1, <2>2 DEF Holder
<1>6. ASSUME NEW p \in DOMAIN entries'
      PROVE  \E x \in Request : Holder(x, p)'
  <2>1. p \in DOMAIN entries
    BY <1>3 DEF Keeps
  <2>2. PICK q \in Request : Holder(q, p)
    BY <2>1 DEF BytesInv, NoEntryStranded, Holder
  <2> QED BY <1>3, <1>5, <2>2
<1>7. NoEntryStranded'
  BY <1>6 DEF NoEntryStranded, Holder
<1> QED BY <1>2, <1>3, <1>4, <1>7 DEF BytesInv

\* A reader erases the entry of what it discarded.
LEMMA FlushEntryStep ==
  ASSUME BytesInv, NEW t \in Readers, FlushEntry(t)
  PROVE  BytesInv'
<1> DEFINE Flushes(r) ==
      /\ step[r] = "flushed" /\ Go(r, "done")
      /\ pending' = [pending EXCEPT ![t] = None]
      /\ UNCHANGED <<cap, open, canceled, ref, erasing, current>>
      /\ EraseFor(r)
<1>1. PICK d \in Request : Flushes(d)
  BY BytesConstants DEF BytesInv, ThreadTypeOK, FlushEntry
<1>2. ThreadTypeOK' /\ \A q \in Request : ref'[q] \in {ref[q], None}
  BY <1>1, BytesConstants DEF BytesInv, ThreadTypeOK, Step, Reading, Go, Refer
<1>3. /\ CacheOK' /\ Keeps(DOMAIN entries')
      /\ PathOf[d] \in DOMAIN entries' => \E x \in Request : Holder(x, PathOf[d])'
  BY <1>1, <1>2, EraseForOK
<1>4. RefsRight'
  BY <1>1, <1>3, BytesConstants DEF BytesInv, ThreadTypeOK, RefsRight, CacheOK, CacheTypeOK, Unread, Go, Refer, Keeps
<1>5. ASSUME NEW p \in DOMAIN entries', NEW q \in Request, Holder(q, p), p # PathOf[d]
      PROVE  Holder(q, p)'
  <2>1. p \in DOMAIN entries /\ entries'[p] = entries[p] /\ q # d
    BY <1>3, <1>5 DEF Keeps, Holder
  <2>2. ref'[q] = ref[q] /\ (erasing[q] => erasing'[q]) /\ step'[q] = step[q]
    BY <1>1, <2>1 DEF BytesInv, ThreadTypeOK, Go, Refer
  <2> QED BY <1>5, <2>1, <2>2 DEF Holder
<1>6. ASSUME NEW p \in DOMAIN entries'
      PROVE  \E x \in Request : Holder(x, p)'
  <2>1. p \in DOMAIN entries
    BY <1>3 DEF Keeps
  <2>2. PICK q \in Request : Holder(q, p)
    BY <2>1 DEF BytesInv, NoEntryStranded, Holder
  <2> QED BY <1>3, <1>5, <2>2
<1>7. NoEntryStranded'
  BY <1>6 DEF NoEntryStranded, Holder
<1> QED BY <1>2, <1>3, <1>4, <1>7 DEF BytesInv

\* A worker discards a canceled task and erases the entry.
LEMMA WorkerDiscardStep ==
  ASSUME BytesInv, NEW r \in Request, WorkerDiscard(r)
  PROVE  BytesInv'
<1>1. EraseFor(r)
  BY BytesConstants DEF BytesInv, ThreadTypeOK, WorkerDiscard
<1>2. ThreadTypeOK' /\ \A q \in Request : ref'[q] \in {ref[q], None}
  BY <1>1, BytesConstants DEF BytesInv, WorkerDiscard, ThreadTypeOK, Step, Reading, Go, Refer
<1>3. /\ CacheOK' /\ Keeps(DOMAIN entries')
      /\ PathOf[r] \in DOMAIN entries' => \E x \in Request : Holder(x, PathOf[r])'
  BY <1>1, <1>2, EraseForOK
<1>4. RefsRight'
  BY <1>1, <1>3, BytesConstants DEF BytesInv, WorkerDiscard, ThreadTypeOK, RefsRight, CacheOK, CacheTypeOK, Unread, Go, Refer, Keeps
<1>5. ASSUME NEW p \in DOMAIN entries', NEW q \in Request, Holder(q, p), p # PathOf[r]
      PROVE  Holder(q, p)'
  <2>1. p \in DOMAIN entries /\ entries'[p] = entries[p] /\ q # r
    BY <1>3, <1>5 DEF Keeps, Holder
  <2>2. ref'[q] = ref[q] /\ (erasing[q] => erasing'[q]) /\ step'[q] = step[q]
    BY <1>1, <2>1 DEF BytesInv, WorkerDiscard, ThreadTypeOK, Go, Refer
  <2> QED BY <1>5, <2>1, <2>2 DEF Holder
<1>6. ASSUME NEW p \in DOMAIN entries'
      PROVE  \E x \in Request : Holder(x, p)'
  <2>1. p \in DOMAIN entries
    BY <1>3 DEF Keeps
  <2>2. PICK q \in Request : Holder(q, p)
    BY <2>1 DEF BytesInv, NoEntryStranded, Holder
  <2> QED BY <1>3, <1>5, <2>2
<1>7. NoEntryStranded'
  BY <1>6 DEF NoEntryStranded, Holder
<1> QED BY <1>2, <1>3, <1>4, <1>7 DEF BytesInv

\* A worker erases the entry it released.
LEMMA WorkerEraseStep ==
  ASSUME BytesInv, NEW r \in Request, WorkerErase(r)
  PROVE  BytesInv'
<1>1. EraseFor(r)
  BY BytesConstants DEF BytesInv, ThreadTypeOK, WorkerErase
<1>2. ThreadTypeOK' /\ \A q \in Request : ref'[q] \in {ref[q], None}
  BY <1>1, BytesConstants DEF BytesInv, WorkerErase, ThreadTypeOK, Step, Reading, Go, Refer
<1>3. /\ CacheOK' /\ Keeps(DOMAIN entries')
      /\ PathOf[r] \in DOMAIN entries' => \E x \in Request : Holder(x, PathOf[r])'
  BY <1>1, <1>2, EraseForOK
<1>4. RefsRight'
  BY <1>1, <1>3, BytesConstants DEF BytesInv, WorkerErase, ThreadTypeOK, RefsRight, CacheOK, CacheTypeOK, Unread, Go, Refer, Keeps
<1>5. ASSUME NEW p \in DOMAIN entries', NEW q \in Request, Holder(q, p), p # PathOf[r]
      PROVE  Holder(q, p)'
  <2>1. p \in DOMAIN entries /\ entries'[p] = entries[p] /\ q # r
    BY <1>3, <1>5 DEF Keeps, Holder
  <2>2. ref'[q] = ref[q] /\ (erasing[q] => erasing'[q]) /\ step'[q] = step[q]
    BY <1>1, <2>1 DEF BytesInv, WorkerErase, ThreadTypeOK, Go, Refer
  <2> QED BY <1>5, <2>1, <2>2 DEF Holder
<1>6. ASSUME NEW p \in DOMAIN entries'
      PROVE  \E x \in Request : Holder(x, p)'
  <2>1. p \in DOMAIN entries
    BY <1>3 DEF Keeps
  <2>2. PICK q \in Request : Holder(q, p)
    BY <2>1 DEF BytesInv, NoEntryStranded, Holder
  <2> QED BY <1>3, <1>5, <2>2
<1>7. NoEntryStranded'
  BY <1>6 DEF NoEntryStranded, Holder
<1> QED BY <1>2, <1>3, <1>4, <1>7 DEF BytesInv

\* An Enqueue may evict entries, no more.
LEMMA EnqueueStep ==
  ASSUME BytesInv, NEW r \in Request, NEW n \in Caps, Enqueue(r, n)
  PROVE  BytesInv'
<1>1. CacheOK' /\ Keeps(DOMAIN entries')
  BY SetMaxOK, BytesConstants DEF BytesInv, Enqueue
<1>2. ThreadTypeOK'
  BY BytesConstants DEF BytesInv, Enqueue, ThreadTypeOK, Step, Reading, Go
<1>3. RefsRight'
  BY <1>1, BytesConstants DEF BytesInv, Enqueue, ThreadTypeOK, RefsRight, CacheOK, CacheTypeOK, Unread, Go, Keeps
<1>4. ASSUME NEW p \in DOMAIN entries'
      PROVE  \E x \in Request : Holder(x, p)'
  <2>1. p \in DOMAIN entries /\ entries'[p] = entries[p]
    BY <1>1 DEF Keeps
  <2>2. PICK q \in Request : Holder(q, p)
    BY <2>1 DEF BytesInv, NoEntryStranded, Holder
  <2>3. ref' = ref /\ erasing' = erasing
        /\ (step[q] \in {"flushed", "releasing"} => step'[q] = step[q])
    BY DEF BytesInv, Enqueue, ThreadTypeOK, Go
  <2> QED BY <2>1, <2>2, <2>3 DEF Holder
<1>5. NoEntryStranded'
  BY <1>4 DEF NoEntryStranded, Holder
<1> QED BY <1>1, <1>2, <1>3, <1>5 DEF BytesInv

\* The reader that caches bytes refers to them; canceled ones were never cached.
LEMMA CacheStep ==
  ASSUME BytesInv, NEW t \in Readers, Cache(t)
  PROVE  BytesInv'
<1> DEFINE r == current[t]
<1>1. r \in Request /\ step[r] = "got" /\ PathOf[r] \in Path /\ ref[r] = r
  BY BytesConstants DEF BytesInv, ThreadTypeOK, RefsRight, Cache
<1>2. ThreadTypeOK'
  BY <1>1, BytesConstants DEF BytesInv, Cache, ThreadTypeOK, Step, Reading, Go, Refer
<1>3. /\ CacheOK'
      /\ Keeps(DOMAIN entries') \/ (PathOf[r] \in DOMAIN entries' /\ entries'[PathOf[r]] = r
                                  /\ ref'[r] = r /\ Keeps(DOMAIN entries' \ {PathOf[r]}))
  <2>1. CASE canceled[r]
    BY <2>1, CacheSame DEF BytesInv, Cache, cacheVars, Keeps
  <2>2. CASE ~canceled[r]
    <3>1. Put(PathOf[r], r) /\ ref'[r] = r
      BY <1>1, <2>2 DEF BytesInv, ThreadTypeOK, Cache, Refer
    <3> QED BY <1>1, <3>1, PutOK DEF BytesInv
  <2> QED BY <2>1, <2>2
<1>4. \A p \in DOMAIN entries' : entries'[p] = r \/ (p \in DOMAIN entries /\ entries'[p] = entries[p])
  BY <1>3 DEF Keeps
<1>5. RefsRight'
  <2>1. \A q \in Request : q # r => step'[q] = step[q] /\ ref'[q] = ref[q]
    BY <1>1 DEF BytesInv, Cache, ThreadTypeOK, Go, Refer
  <2>2. step'[r] = "read" /\ ref'[r] \in {r, None}
    BY <1>1 DEF BytesInv, Cache, ThreadTypeOK, Go, Refer
  <2>3. \A p \in DOMAIN entries' : PathOf[entries'[p]] = p
    BY <1>3, <1>4 DEF BytesInv, RefsRight, Keeps
  <2>4. \A p \in DOMAIN entries' : step'[entries'[p]] \notin Unread \cup {"got"}
    BY <1>4, <2>1, <2>2 DEF BytesInv, RefsRight, CacheOK, CacheTypeOK, Unread
  <2> QED BY <1>1, <2>1, <2>2, <2>3, <2>4 DEF BytesInv, RefsRight, Unread
<1>6. ASSUME NEW p \in DOMAIN entries'
      PROVE  \E x \in Request : Holder(x, p)'
  <2>1. CASE entries'[p] = r /\ PathOf[r] = p /\ ref'[r] = r
    BY <1>1, <2>1 DEF Holder
  <2>2. CASE p \in DOMAIN entries /\ entries'[p] = entries[p]
    <3>1. PICK q \in Request : Holder(q, p)
      BY <2>2 DEF BytesInv, NoEntryStranded, Holder
    <3>2. entries[p] # r
      BY <1>1, <2>2 DEF BytesInv, RefsRight
    <3>3. q # r \/ erasing[r]
      BY <1>1, <3>1, <3>2 DEF Holder
    <3>4. erasing' = erasing /\ (q # r => ref'[q] = ref[q] /\ step'[q] = step[q])
      BY <1>1 DEF BytesInv, Cache, ThreadTypeOK, Go, Refer
    <3> QED BY <2>2, <3>1, <3>3, <3>4 DEF Holder
  <2> QED BY <1>3, <2>1, <2>2 DEF Keeps
<1>7. NoEntryStranded'
  BY <1>6 DEF NoEntryStranded, Holder
<1> QED BY <1>2, <1>3, <1>5, <1>7 DEF BytesInv

\* A completed stop leaves no entry.
LEMMA RestartStep ==
  ASSUME BytesInv, Restart
  PROVE  BytesInv'
<1>1. CacheOK' /\ DOMAIN entries' = {}
  BY ClearOK, BytesConstants DEF Restart
<1>2. ThreadTypeOK'
  BY BytesConstants DEF BytesInv, Restart, ThreadTypeOK, Step, Reading
<1>3. RefsRight' /\ NoEntryStranded'
  BY <1>1 DEF Restart, RefsRight, NoEntryStranded, Unread
<1> QED BY <1>1, <1>2, <1>3 DEF BytesInv

\* Every step keeps the invariant.
LEMMA NextInv == BytesInv /\ [Next]_vars => BytesInv'
<1> SUFFICES ASSUME BytesInv, [Next]_vars PROVE BytesInv'
  OBVIOUS
<1>1. ASSUME NEW r \in Request, NEW n \in Caps, Enqueue(r, n) PROVE BytesInv'
  BY <1>1, EnqueueStep
<1>2. ASSUME NEW r \in Request, Cancel(r) \/ CancelErase(r) PROVE BytesInv'
  BY <1>2, CancelStep, CancelEraseStep
<1>3. ASSUME NEW t \in Readers, NEW r \in Request, Take(t, r) PROVE BytesInv'
  BY <1>3, TakeStep
<1>4. ASSUME NEW t \in Readers, FlushBytes(t) \/ FlushEntry(t) PROVE BytesInv'
  BY <1>4, FlushBytesStep, FlushEntryStep
<1>5. ASSUME NEW t \in Readers,
             Lookup(t) \/ ReadBytes(t) \/ ReadNothing(t) \/ Cache(t) \/ Finish(t)
      PROVE  BytesInv'
  BY <1>5, LookupStep, ReadBytesStep, ReadNothingStep, CacheStep, FinishStep
<1>6. ASSUME NEW r \in Request,
             WorkerTake(r) \/ WorkerDiscard(r) \/ WorkerRelease(r) \/ WorkerErase(r)
      PROVE  BytesInv'
  BY <1>6, WorkerTakeStep, WorkerDiscardStep, WorkerReleaseStep, WorkerEraseStep
<1>7. CASE Stop
  BY <1>7, StopStep
<1>8. CASE Restart
  BY <1>8, RestartStep
<1>9. CASE UNCHANGED vars
  BY <1>9, StutterStep
<1> QED BY <1>1, <1>2, <1>3, <1>4, <1>5, <1>6, <1>7, <1>8, <1>9 DEF Next

-----------------------------------------------------------------------------
(***************************************************************************)
(* The theorems.                                                           *)
(***************************************************************************)

\* The inductive invariant holds in every reachable state.
THEOREM BytesInvariant == Spec => []BytesInv
BY InitInv, NextInv, PTL DEF Spec

\* The state keeps its shape.
THEOREM BytesTyped == Spec => []BytesTypeOK
<1>1. BytesInv => BytesTypeOK
  BY DEF BytesInv, CacheOK, BytesTypeOK
<1> QED BY <1>1, BytesInvariant, PTL

\* The cache stays within its limit and counts its entries per volume, whatever
\* the threads that share it do (FileByteCache.cpp:23-193).
THEOREM CacheCounts == Spec => []CacheAccounted
<1>1. BytesInv => CacheAccounted
  BY DEF BytesInv, CacheOK, CacheTypeOK
<1> QED BY <1>1, BytesInvariant, PTL

\* No bytes are left behind in the cache when their last user is gone, however
\* the erases of several users interleave (FileByteCache.cpp:107-142 and its
\* callers).
THEOREM NothingStranded == Spec => []NoEntryStranded
<1>1. BytesInv => NoEntryStranded
  BY DEF BytesInv
<1> QED BY <1>1, BytesInvariant, PTL

-----------------------------------------------------------------------------
(***************************************************************************)
(* The topologies: how old one is.                                         *)
(***************************************************************************)
Topology == [device : Disk \cup {OwnDevice}, seekPenalty : BOOLEAN]

TopologyTypeOK ==
  /\ clock \in Nat
  /\ disk \in [Drive -> Disk]
  /\ placed \subseteq Drive \X Disk \X Nat
  /\ DOMAIN topologies \subseteq Drive
  /\ topologies \in [DOMAIN topologies -> [topology : Topology, queried : Nat]]
  /\ asking \in [Caller -> [drive : Drive, now : Nat] \cup {Nobody}]
  /\ answered \in [Caller -> Topology \cup {Nobody}]

\* `topology` is what a query that started at `since` or later could say of the drive.
SaidSince(v, topology, since) ==
  \E d \in Disk, time \in Nat :
    /\ since <= time
    /\ time > clock - Interval => <<v, d, time>> \in placed
    /\ topology \in Answers(d)

\* The history has the present, and an answer, stored or not, is not older than the
\* lookup it is stamped with.
AnswersDated ==
  /\ \A v \in Drive : <<v, disk[v], clock>> \in placed
  /\ \A c \in Caller : asking[c] # Nobody => asking[c].now <= clock
  /\ \A c \in Caller : answered[c] # Nobody =>
       /\ asking[c] # Nobody
       /\ SaidSince(asking[c].drive, answered[c], asking[c].now)
  /\ \A v \in DOMAIN topologies :
       SaidSince(v, topologies[v].topology, topologies[v].queried)

TopologyInv == TopologyTypeOK /\ AnswersDated

-----------------------------------------------------------------------------
\* What was said stays dated as time passes and the drive is remapped.
LEMMA SaidStays ==
  ASSUME TopologyTypeOK, NEW v \in Drive, NEW topology, NEW since \in Nat,
         SaidSince(v, topology, since),
         clock' \in Nat, clock' >= clock,
         \A p \in placed : p[3] > clock' - Interval => p \in placed'
  PROVE  SaidSince(v, topology, since)'
<1>1. PICK d \in Disk, time \in Nat :
        /\ since <= time
        /\ time > clock - Interval => <<v, d, time>> \in placed
        /\ topology \in Answers(d)
  BY DEF SaidSince
<1>2. time > clock' - Interval => <<v, d, time>> \in placed'
  BY <1>1, TopologyConstants DEF TopologyTypeOK
<1> QED
  BY <1>1, <1>2 DEF SaidSince

\* An answer has the type of a topology.
LEMMA AnswersTyped ==
  ASSUME NEW d \in Disk, NEW topology \in Answers(d)
  PROVE  topology \in Topology
<1>1. PICK device \in {d, OwnDevice}, penalty \in {d \notin NoSeek, TRUE} :
        topology = [device |-> device, seekPenalty |-> penalty]
  BY DEF Answers
<1>2. penalty \in BOOLEAN
  OBVIOUS
<1> QED
  BY <1>1, <1>2 DEF Topology

\* It names the disk or the volume, and denies a seek penalty of a disk without one.
LEMMA AnswerSays ==
  ASSUME NEW d \in Disk, NEW topology \in Answers(d)
  PROVE  /\ topology.device \in {d, OwnDevice}
         /\ ~topology.seekPenalty => d \in NoSeek
<1>1. PICK device \in {d, OwnDevice}, penalty \in {d \notin NoSeek, TRUE} :
        topology = [device |-> device, seekPenalty |-> penalty]
  BY DEF Answers
<1>2. topology.device = device /\ topology.seekPenalty = penalty
  BY <1>1
<1>3. CASE penalty = (d \notin NoSeek)
  BY <1>2, <1>3
<1>4. CASE penalty = TRUE
  BY <1>2, <1>4
<1> QED
  BY <1>2, <1>3, <1>4

USE DEF environmentVars, lookupVars

\* The cache starts empty.
LEMMA TopologyInitInv == TopologyInit => TopologyInv
<1> SUFFICES ASSUME TopologyInit PROVE TopologyInv
  OBVIOUS
<1>1. TopologyTypeOK
  BY DEF TopologyInit, TopologyTypeOK
<1>2. AnswersDated
  BY <1>1 DEF TopologyInit, AnswersDated, TopologyTypeOK
<1> QED
  BY <1>1, <1>2 DEF TopologyInv

\* The environment moves, and the answers stay dated.
LEMMA EnvironmentKeeps ==
  ASSUME TopologyInv, TopologyTypeOK', UNCHANGED <<topologies, asking, answered>>,
         clock' >= clock,
         \A p \in placed : p[3] > clock' - Interval => p \in placed',
         \A v \in Drive : <<v, disk'[v], clock'>> \in placed'
  PROVE  AnswersDated'
<1> USE DEF TopologyInv
<1>1. ASSUME NEW v \in Drive, NEW topology, NEW since \in Nat, SaidSince(v, topology, since)
      PROVE  SaidSince(v, topology, since)'
  <2>1. clock' \in Nat
    BY DEF TopologyTypeOK
  <2> QED
    BY <1>1, <2>1, SaidStays
<1>2. ASSUME NEW c \in Caller, asking[c] # Nobody
      PROVE  asking[c].now <= clock'
  BY <1>2 DEF AnswersDated, TopologyTypeOK
<1>3. ASSUME NEW c \in Caller, answered[c] # Nobody
      PROVE  asking[c] # Nobody /\ SaidSince(asking[c].drive, answered[c], asking[c].now)'
  <2>1. /\ asking[c] # Nobody
        /\ SaidSince(asking[c].drive, answered[c], asking[c].now)
    BY <1>3 DEF AnswersDated
  <2>2. asking[c].drive \in Drive /\ asking[c].now \in Nat
    BY <2>1 DEF TopologyTypeOK
  <2> QED
    BY <2>1, <2>2, <1>1
<1>4. ASSUME NEW v \in DOMAIN topologies
      PROVE  SaidSince(v, topologies[v].topology, topologies[v].queried)'
  <2>1. SaidSince(v, topologies[v].topology, topologies[v].queried)
    BY DEF AnswersDated
  <2>2. v \in Drive /\ topologies[v].queried \in Nat
    BY DEF TopologyTypeOK
  <2> QED
    BY <2>1, <2>2, <1>1
<1> QED
  BY <1>2, <1>3, <1>4 DEF AnswersDated

\* Time passes: what is forgotten is older than an interval.
LEMMA TickInv == ASSUME TopologyInv, Tick PROVE TopologyInv'
<1>1. TopologyTypeOK'
  BY DEF TopologyInv, Tick, TopologyTypeOK
<1>2. ASSUME NEW p \in placed, p[3] > clock' - Interval
      PROVE  p \in placed'
  <2>1. p[3] > clock + 1 - Interval
    BY <1>2, TopologyConstants DEF TopologyInv, TopologyTypeOK, Tick
  <2>2. p \in {q \in placed : q[3] > clock + 1 - Interval}
    BY <2>1
  <2> QED
    BY <2>2 DEF Tick
<1>3. clock' >= clock
  BY DEF TopologyInv, Tick, TopologyTypeOK
<1>4. \A v \in Drive : <<v, disk'[v], clock'>> \in placed'
  BY DEF Tick
<1>5. AnswersDated'
  BY <1>1, <1>2, <1>3, <1>4, EnvironmentKeeps DEF Tick
<1> QED
  BY <1>1, <1>5 DEF TopologyInv

\* A drive is remapped: where it was stays in the history.
LEMMA RemapInv ==
  ASSUME TopologyInv, NEW w \in Drive, NEW d \in Disk, Remap(w, d)
  PROVE  TopologyInv'
<1>1. TopologyTypeOK'
  BY DEF TopologyInv, Remap, TopologyTypeOK
<1>2. \A p \in placed : p[3] > clock' - Interval => p \in placed'
  BY DEF Remap
<1>3. clock' >= clock
  BY DEF TopologyInv, Remap, TopologyTypeOK
<1>4. \A v \in Drive : <<v, disk'[v], clock'>> \in placed'
  BY DEF TopologyInv, Remap, TopologyTypeOK, AnswersDated
<1>5. AnswersDated'
  BY <1>1, <1>2, <1>3, <1>4, EnvironmentKeeps DEF Remap
<1> QED
  BY <1>1, <1>5 DEF TopologyInv

-----------------------------------------------------------------------------
\* A lookup is stamped with the present.
LEMMA AskInv ==
  ASSUME TopologyInv, NEW c \in Caller, NEW v \in Drive, AskTopology(c, v)
  PROVE  TopologyInv'
<1> USE DEF TopologyInv, AskTopology
<1>1. TopologyTypeOK'
  BY DEF TopologyTypeOK
<1>2. answered[c] = Nobody
  BY DEF AnswersDated
<1>3. \A b \in Caller : asking'[b] = IF b = c THEN [drive |-> v, now |-> clock] ELSE asking[b]
  BY DEF TopologyTypeOK
<1>4. ASSUME NEW b \in Caller, asking'[b] # Nobody
      PROVE  asking'[b].now <= clock'
  BY <1>3, <1>4 DEF AnswersDated, TopologyTypeOK
<1>5. \A b \in Caller : answered[b] # Nobody => b # c
  BY <1>2
<1>6. AnswersDated'
  BY <1>3, <1>4, <1>5 DEF AnswersDated, SaidSince
<1> QED
  BY <1>1, <1>6

\* A query says what holds when it returns.
LEMMA QueryInv ==
  ASSUME TopologyInv, NEW c \in Caller, QueryReturns(c)
  PROVE  TopologyInv'
<1> USE DEF TopologyInv, QueryReturns
<1>1. PICK topology \in Answers(disk[asking[c].drive]) :
        answered' = [answered EXCEPT ![c] = topology]
  OBVIOUS
<1>2. asking[c].drive \in Drive /\ asking[c].now \in Nat /\ clock \in Nat
  BY DEF TopologyTypeOK
<1>3. disk[asking[c].drive] \in Disk
  BY <1>2 DEF TopologyTypeOK
<1>4. topology \in Topology
  BY <1>3, AnswersTyped
<1>5. TopologyTypeOK'
  BY <1>1, <1>4 DEF TopologyTypeOK
<1>6. SaidSince(asking[c].drive, topology, asking[c].now)
  <2>1. asking[c].now <= clock
    BY DEF AnswersDated
  <2>2. <<asking[c].drive, disk[asking[c].drive], clock>> \in placed
    BY <1>2 DEF AnswersDated
  <2> QED
    BY <1>2, <1>3, <2>1, <2>2 DEF SaidSince
<1>7. \A b \in Caller : answered'[b] = IF b = c THEN topology ELSE answered[b]
  BY <1>1 DEF TopologyTypeOK
<1>8. AnswersDated'
  BY <1>6, <1>7 DEF AnswersDated, SaidSince
<1> QED
  BY <1>5, <1>8

\* An answer is stored with the stamp of its lookup, whatever is stored already.
LEMMA StoreInv ==
  ASSUME TopologyInv, NEW c \in Caller, StoreTopology(c)
  PROVE  TopologyInv'
<1> DEFINE v == asking[c].drive
           entry == [topology |-> answered[c], queried |-> asking[c].now]
<1>1. /\ asking[c] # Nobody
      /\ SaidSince(v, answered[c], asking[c].now)
  BY DEF TopologyInv, StoreTopology, AnswersDated
<1>2. v \in Drive /\ asking[c].now \in Nat /\ answered[c] \in Topology
  BY <1>1 DEF TopologyInv, StoreTopology, TopologyTypeOK
<1>3. /\ topologies' = [w \in DOMAIN topologies \cup {v} |->
                          IF w = v THEN entry ELSE topologies[w]]
      /\ asking' = [asking EXCEPT ![c] = Nobody]
      /\ answered' = [answered EXCEPT ![c] = Nobody]
      /\ UNCHANGED <<clock, disk, placed>>
  BY DEF StoreTopology, QueriedAt
<1>4. TopologyTypeOK'
  <2>1. entry \in [topology : Topology, queried : Nat]
    BY <1>2
  <2> QED
    BY <1>2, <1>3, <2>1 DEF TopologyInv, TopologyTypeOK
<1>5. \A b \in Caller : /\ asking'[b] = IF b = c THEN Nobody ELSE asking[b]
                        /\ answered'[b] = IF b = c THEN Nobody ELSE answered[b]
  BY <1>3 DEF TopologyInv, TopologyTypeOK
<1>6. ASSUME NEW w \in DOMAIN topologies'
      PROVE  SaidSince(w, topologies'[w].topology, topologies'[w].queried)
  <2>1. CASE w = v
    BY <1>1, <1>3, <2>1
  <2>2. CASE w # v
    BY <1>3, <2>2 DEF TopologyInv, AnswersDated
  <2> QED
    BY <2>1, <2>2
<1>7. ASSUME NEW b \in Caller, asking'[b] # Nobody
      PROVE  asking'[b].now <= clock'
  BY <1>3, <1>5, <1>7 DEF TopologyInv, AnswersDated
<1>8. ASSUME NEW b \in Caller, answered'[b] # Nobody
      PROVE  /\ asking'[b] # Nobody
             /\ SaidSince(asking'[b].drive, answered'[b], asking'[b].now)
  BY <1>5, <1>8 DEF TopologyInv, AnswersDated
<1>9. \A w \in Drive : <<w, disk'[w], clock'>> \in placed'
  BY <1>3 DEF TopologyInv, AnswersDated
<1>10. AnswersDated'
  BY <1>3, <1>6, <1>7, <1>8, <1>9 DEF AnswersDated, SaidSince
<1> QED
  BY <1>4, <1>10 DEF TopologyInv

\* An empty cache says nothing; a query in progress goes on.
LEMMA ForgetInv == ASSUME TopologyInv, ForgetTopologies PROVE TopologyInv'
<1> USE DEF TopologyInv, ForgetTopologies
<1>1. TopologyTypeOK'
  BY DEF TopologyTypeOK
<1>2. AnswersDated'
  BY DEF AnswersDated, SaidSince
<1> QED
  BY <1>1, <1>2

\* A step of the cache or its environment preserves the invariant.
LEMMA TopologyNextInv ==
  ASSUME TopologyInv, [TopologyNext]_topologyVars
  PROVE  TopologyInv'
<1>1. CASE UNCHANGED topologyVars
  BY <1>1 DEF topologyVars, TopologyInv, TopologyTypeOK, AnswersDated, SaidSince
<1> QED
  BY <1>1, TickInv, RemapInv, AskInv, QueryInv, StoreInv, ForgetInv DEF TopologyNext

-----------------------------------------------------------------------------
(***************************************************************************)
(* The theorems.                                                           *)
(***************************************************************************)

\* The invariant of cached and pending answers.
THEOREM TopologyInvariant == TopologySpec => []TopologyInv
BY TopologyInitInv, TopologyNextInv, PTL DEF TopologySpec

\* What a fresh entry says was said less than an interval ago, of a disk the drive was
\* on then.
LEMMA FreshIsRecent == TopologyInv => TopologyIsRecent
<1> SUFFICES ASSUME TopologyInv, NEW v \in Drive, Fresh(v)
             PROVE  LET topology == topologies[v].topology
                    IN  /\ topology.device \in RecentDisks(v) \cup {OwnDevice}
                        /\ ~topology.seekPenalty => RecentDisks(v) \cap NoSeek # {}
  BY DEF TopologyIsRecent
<1> DEFINE topology == topologies[v].topology
           since    == topologies[v].queried
<1>1. since \in Nat /\ clock \in Nat /\ clock - since < Interval /\ Interval \in Nat
  BY TopologyConstants DEF TopologyInv, TopologyTypeOK, Fresh
<1>2. PICK d \in Disk, time \in Nat :
        /\ since <= time
        /\ time > clock - Interval => <<v, d, time>> \in placed
        /\ topology \in Answers(d)
  BY DEF TopologyInv, AnswersDated, SaidSince, Fresh
<1>3. <<v, d, time>> \in placed
  BY <1>1, <1>2
<1>4. d \in RecentDisks(v)
  BY <1>3 DEF RecentDisks
<1>5. /\ topology.device \in {d, OwnDevice}
      /\ ~topology.seekPenalty => d \in NoSeek
  BY <1>2, AnswerSays
<1>6. topology.device \in RecentDisks(v) \cup {OwnDevice}
  BY <1>4, <1>5
<1>7. ~topology.seekPenalty => RecentDisks(v) \cap NoSeek # {}
  BY <1>4, <1>5
<1> QED
  BY <1>6, <1>7, Zenon

\* TopologyForVolume never serves what a query older than the refresh interval said.
THEOREM AnswersAreRecent == TopologySpec => []TopologyIsRecent
BY TopologyInvariant, FreshIsRecent, PTL

================================================================================
