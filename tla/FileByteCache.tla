----------------------------- MODULE FileByteCache -----------------------------
(***************************************************************************)
(* class FileByteCache: a small cache of file bytes by path, bounded by a  *)
(* count, with a count of its entries per volume.  Every operation is one  *)
(* critical section of its mutex; the actions here are conjoined with the  *)
(* steps of the threads that call them (module PrefetchedBytes).           *)
(***************************************************************************)
EXTENDS Naturals, FiniteSets

CONSTANTS
  Path,      \* the paths in use
  Volume,    \* the drive letters
  VolumeOf,  \* VolumeOf[p]: the drive letter p starts with, or NoVolume
  NoVolume

ASSUME CacheConstants ==
  /\ IsFiniteSet(Path)
  /\ NoVolume \notin Volume
  /\ VolumeOf \in [Path -> Volume \cup {NoVolume}]

VARIABLES
  entries,        \* m_map: path -> bytes, for the paths cached
  countByVolume,  \* m_countByVolume (0: no entry)
  maxEntries      \* m_maxEntries

cacheVars == <<entries, countByVolume, maxEntries>>

OnVolume(paths, v) == {p \in paths : VolumeOf[p] = v}

\* The counts once the entries of `removed` are erased, one decrement each; a
\* count that is gone is not decremented.
Uncounted(removed) ==
  [v \in Volume |->
     LET n == Cardinality(OnVolume(removed, v))
     IN  IF countByVolume[v] > n THEN countByVolume[v] - n ELSE 0]

Counted(counts, path) ==
  [v \in Volume |-> IF VolumeOf[path] = v THEN counts[v] + 1 ELSE counts[v]]

\* What eviction in the arbitrary order of the map leaves of it: at most `limit`.
KeptBy(limit) ==
  IF Cardinality(DOMAIN entries) <= limit THEN {DOMAIN entries}
  ELSE {kept \in SUBSET DOMAIN entries : Cardinality(kept) = limit}

\* A faulty form of Dropped: an entry that is replaced stays counted.
Evicted(kept, path) == DOMAIN entries \ kept

\* The entries Put erases: those evicted, and the one it replaces.
Dropped(kept, path) == DOMAIN entries \ (kept \ {path})

Put(path, bytes) ==
  \E kept \in KeptBy(maxEntries - 1) :
    /\ entries' = [p \in kept \cup {path} |-> IF p = path THEN bytes ELSE entries[p]]
    /\ countByVolume' = Counted(Uncounted(Dropped(kept, path)), path)
    /\ UNCHANGED maxEntries

\* `shared`: the bytes cached for path have another owner.
EraseIfUnshared(path, shared) ==
  /\ IF path \in DOMAIN entries /\ ~shared
     THEN /\ entries' = [p \in DOMAIN entries \ {path} |-> entries[p]]
          /\ countByVolume' = Uncounted({path})
     ELSE UNCHANGED <<entries, countByVolume>>
  /\ UNCHANGED maxEntries

SetMaxEntries(n) ==
  /\ maxEntries' = IF n = 0 THEN 1 ELSE n
  /\ \E kept \in KeptBy(maxEntries') :
       /\ entries' = [p \in kept |-> entries[p]]
       /\ countByVolume' = Uncounted(DOMAIN entries \ kept)

\* Clear, then SetMaxEntries(n): what a completed stop does.
ClearAndSetMaxEntries(n) ==
  /\ entries' = [p \in {} |-> NoVolume]
  /\ countByVolume' = [v \in Volume |-> 0]
  /\ maxEntries' = IF n = 0 THEN 1 ELSE n

\* The cache stays within its limit, and the count of each volume is the number
\* of entries on it through evictions, replacements and erases.
CacheAccounted ==
  /\ Cardinality(DOMAIN entries) <= maxEntries
  /\ \A v \in Volume : countByVolume[v] = Cardinality(OnVolume(DOMAIN entries, v))
================================================================================
