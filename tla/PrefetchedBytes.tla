---------------------------- MODULE PrefetchedBytes ----------------------------
(***************************************************************************)
(* Who owns the bytes of thumbnail requests: module DecodeScheduler counts *)
(* the capacity they hold, this one follows the shared_ptr references to   *)
(* them, through the reader that reads or finds them, the task, the decode *)
(* worker and the shared FileByteCache, between whose critical sections    *)
(* and those of m_queueMutex other threads run.                            *)
(*                                                                         *)
(* Which lane a reader serves next, priorities and devices are module      *)
(* DecodeScheduler's: here a reader takes any request whose lane is not    *)
(* being read while the global cap leaves a slot.                          *)
(***************************************************************************)
EXTENDS FileByteCache

CONSTANTS
  Request,     \* thumbnail requests, each enqueued at most once
  PathOf,      \* PathOf[r]: what r loads
  Lane,        \* Lane[r]: the lane r is read in
  Readers,     \* the lane reader threads
  Caps,        \* the global caps that an Enqueue may compute
  InitialCap,  \* the cap of a fresh start
  None

ASSUME BytesConstants ==
  /\ IsFiniteSet(Request)
  /\ IsFiniteSet(Readers)
  /\ PathOf \in [Request -> Path]
  /\ Caps \subseteq Nat \ {0}
  /\ InitialCap \in Nat \ {0}
  /\ None \notin Request

VARIABLES
  cap,       \* m_globalPrefetchCap
  open,      \* ~m_shutdown
  step,      \* how far each request is
  canceled,  \* DecodeRequestState::canceled
  ref,       \* the bytes the request's task or thread refers to: the request
             \* they were read for, or None
  erasing,   \* a Cancel of r is on its way to EraseIfUnshared
  current,   \* the request a reader reads
  pending    \* the discarded request a reader has not flushed yet

threadVars == <<step, canceled, ref, erasing, current, pending>>

vars == <<cacheVars, cap, open, threadVars>>

Reading == {"taken", "reading", "got", "read"}
Step == Reading \cup {"new", "waiting", "discarded", "flushed", "queued", "decoding",
                      "releasing", "done"}

Init ==
  /\ entries = [p \in {} |-> None]
  /\ countByVolume = [v \in Volume |-> 0]
  /\ maxEntries = InitialCap
  /\ cap = InitialCap
  /\ open = TRUE
  /\ step = [r \in Request |-> "new"]
  /\ canceled = [r \in Request |-> FALSE]
  /\ ref = [r \in Request |-> None]
  /\ erasing = [r \in Request |-> FALSE]
  /\ current = [t \in Readers |-> None]
  /\ pending = [t \in Readers |-> None]

Go(r, to)      == step' = [step EXCEPT ![r] = to]
Refer(r, bytes) == ref' = [ref EXCEPT ![r] = bytes]

Cached(path) == IF path \in DOMAIN entries THEN entries[path] ELSE None

\* use_count() > 1: somebody besides the cache refers to the bytes of path.
Shared(path) == \E q \in Request : ref'[q] # None /\ ref'[q] = Cached(path)

EraseFor(r) == EraseIfUnshared(PathOf[r], Shared(PathOf[r]))

\* Requests whose bytes hold a prefetch slot, or whose read does.
SlotUsers ==
  {r \in Request : step[r] \in Reading \/ (step[r] \in {"queued", "decoding"} /\ ref[r] # None)}

-----------------------------------------------------------------------------
\* Enqueue, with the cap that the devices seen by then give.
Enqueue(r, n) ==
  /\ step[r] = "new" /\ open
  /\ Go(r, "waiting")
  /\ cap' = n
  /\ SetMaxEntries(n)
  /\ UNCHANGED <<open, canceled, ref, erasing, current, pending>>

\* A canceled request without bytes needs no second look at the cache.
Cancel(r) ==
  /\ step[r] \in Reading \cup {"waiting", "queued", "decoding"}
  /\ ~canceled[r]
  /\ canceled' = [canceled EXCEPT ![r] = TRUE]
  /\ step' = IF step[r] = "waiting" THEN [step EXCEPT ![r] = "done"] ELSE step
  /\ LET releases == step[r] = "queued" /\ ref[r] # None
     IN  /\ ref' = IF releases THEN [ref EXCEPT ![r] = None] ELSE ref
         /\ erasing' = [erasing EXCEPT ![r] = @ \/ releases]
  /\ UNCHANGED <<cacheVars, cap, open, current, pending>>

CancelErase(r) ==
  /\ erasing[r]
  /\ erasing' = [erasing EXCEPT ![r] = FALSE]
  /\ UNCHANGED <<cap, open, step, canceled, ref, current, pending>>
  /\ EraseFor(r)

-----------------------------------------------------------------------------
\* LaneReaderThread.
Take(t, r) ==
  /\ open
  /\ current[t] = None
  /\ step[r] = "waiting"
  /\ Cardinality(SlotUsers) < cap
  /\ \A q \in Request : Lane[q] = Lane[r] => step[q] \notin Reading
  /\ Go(r, "taken")
  /\ current' = [current EXCEPT ![t] = r]
  /\ UNCHANGED <<cacheVars, cap, open, canceled, ref, erasing, pending>>

\* flushDiscard: before the next read, or when there is none to make.  First the
\* reference goes, then the cache entry.
FlushBytes(t) ==
  LET r == pending[t]
  IN  /\ r # None
      /\ current[t] # None => step[current[t]] = "taken"
      /\ step[r] = "discarded"
      /\ Go(r, "flushed")
      /\ Refer(r, None)
      /\ UNCHANGED <<cacheVars, cap, open, canceled, erasing, current, pending>>

\* A faulty form of FlushEntry: the discarded path is forgotten.
FlushForgets(t) ==
  LET r == pending[t]
  IN  /\ r # None /\ step[r] = "flushed"
      /\ Go(r, "done")
      /\ pending' = [pending EXCEPT ![t] = None]
      /\ UNCHANGED <<cacheVars, cap, open, canceled, ref, erasing, current>>

FlushEntry(t) ==
  LET r == pending[t]
  IN  /\ r # None /\ step[r] = "flushed"
      /\ Go(r, "done")
      /\ pending' = [pending EXCEPT ![t] = None]
      /\ UNCHANGED <<cap, open, canceled, ref, erasing, current>>
      /\ EraseFor(r)

Lookup(t) ==
  LET r     == current[t]
      found == Cached(PathOf[r])
  IN  /\ r # None /\ pending[t] = None
      /\ step[r] = "taken"
      /\ Go(r, IF found = None THEN "reading" ELSE "read")
      /\ Refer(r, found)
      /\ UNCHANGED <<cacheVars, cap, open, canceled, erasing, current, pending>>

ReadBytes(t) ==
  LET r == current[t]
  IN  /\ r # None /\ step[r] = "reading"
      /\ ~canceled[r]
      /\ Go(r, "got")
      /\ Refer(r, r)
      /\ UNCHANGED <<cacheVars, cap, open, canceled, erasing, current, pending>>

ReadNothing(t) ==
  LET r == current[t]
  IN  /\ r # None /\ step[r] = "reading"
      /\ Go(r, "read")
      /\ UNCHANGED <<cacheVars, cap, open, canceled, ref, erasing, current, pending>>

\* Bytes are cached unless the request was canceled by then.
Cache(t) ==
  LET r == current[t]
  IN  /\ r # None /\ step[r] = "got"
      /\ Go(r, "read")
      /\ Refer(r, IF canceled[r] THEN None ELSE r)
      /\ IF canceled[r] THEN UNCHANGED cacheVars ELSE Put(PathOf[r], r)
      /\ UNCHANGED <<cap, open, canceled, erasing, current, pending>>

Finish(t) ==
  LET r == current[t]
  IN  /\ r # None /\ step[r] = "read"
      /\ Go(r, IF canceled[r] THEN "discarded" ELSE "queued")
      /\ current' = [current EXCEPT ![t] = None]
      /\ pending' = [pending EXCEPT ![t] = IF canceled[r] THEN r ELSE @]
      /\ UNCHANGED <<cacheVars, cap, open, canceled, ref, erasing>>

-----------------------------------------------------------------------------
\* WorkerThread.
WorkerTake(r) ==
  /\ open
  /\ step[r] = "queued" /\ ~canceled[r]
  /\ Go(r, "decoding")
  /\ UNCHANGED <<cacheVars, cap, open, canceled, ref, erasing, current, pending>>

\* In the critical section that popped it.
WorkerDiscard(r) ==
  /\ open
  /\ step[r] = "queued" /\ canceled[r]
  /\ Go(r, "done")
  /\ Refer(r, None)
  /\ UNCHANGED <<cap, open, canceled, erasing, current, pending>>
  /\ EraseFor(r)

\* The worker's reference and the task's go, and the slot with them.
WorkerRelease(r) ==
  /\ step[r] = "decoding"
  /\ Go(r, "releasing")
  /\ Refer(r, None)
  /\ UNCHANGED <<cacheVars, cap, open, canceled, erasing, current, pending>>

WorkerErase(r) ==
  /\ step[r] = "releasing"
  /\ Go(r, "done")
  /\ UNCHANGED <<cap, open, canceled, ref, erasing, current, pending>>
  /\ EraseFor(r)

-----------------------------------------------------------------------------
\* StopAndJoin: every live request is canceled.
Stop ==
  /\ open
  /\ open' = FALSE
  /\ canceled' = [r \in Request |-> canceled[r] \/ step[r] \notin {"new", "done"}]
  /\ UNCHANGED <<cacheVars, cap, step, ref, erasing, current, pending>>

\* All threads joined: what is queued is dropped, the cache cleared; then a
\* restart.  A Cancel may still be on its way to the cache.
Restart ==
  /\ ~open
  /\ \A t \in Readers : current[t] = None /\ pending[t] = None
  /\ \A r \in Request : step[r] \in {"new", "waiting", "queued", "done"}
  /\ open' = TRUE
  /\ step' = [r \in Request |-> IF step[r] = "new" THEN "new" ELSE "done"]
  /\ ref' = [r \in Request |-> None]
  /\ cap' = InitialCap
  /\ ClearAndSetMaxEntries(InitialCap)
  /\ UNCHANGED <<canceled, erasing, current, pending>>

-----------------------------------------------------------------------------
Next ==
  \/ \E r \in Request, n \in Caps : Enqueue(r, n)
  \/ \E r \in Request : Cancel(r) \/ CancelErase(r)
  \/ \E t \in Readers, r \in Request : Take(t, r)
  \/ \E t \in Readers :
       FlushBytes(t) \/ FlushEntry(t) \/ Lookup(t)
       \/ ReadBytes(t) \/ ReadNothing(t) \/ Cache(t) \/ Finish(t)
  \/ \E r \in Request :
       WorkerTake(r) \/ WorkerDiscard(r) \/ WorkerRelease(r) \/ WorkerErase(r)
  \/ Stop
  \/ Restart

Spec == Init /\ [][Next]_vars

-----------------------------------------------------------------------------
(***************************************************************************)
(* Properties.                                                             *)
(***************************************************************************)

CacheTypeOK ==
  /\ DOMAIN entries \subseteq Path /\ \A p \in DOMAIN entries : entries[p] \in Request
  /\ countByVolume \in [Volume -> Nat]
  /\ maxEntries \in Nat \ {0}

ThreadTypeOK ==
  /\ cap \in Nat \ {0}
  /\ open \in BOOLEAN
  /\ step \in [Request -> Step]
  /\ canceled \in [Request -> BOOLEAN]
  /\ ref \in [Request -> Request \cup {None}]
  /\ erasing \in [Request -> BOOLEAN]
  /\ current \in [Readers -> Request \cup {None}]
  /\ pending \in [Readers -> Request \cup {None}]

\* The state has the shape the code gives it.
BytesTypeOK == CacheTypeOK /\ ThreadTypeOK

\* No bytes are left behind in the cache: those of every entry are referred to
\* by a request, or a request of that path is past its last use of them and
\* about to erase the entry.  (EraseIfUnshared leaves a shared entry to the
\* other owner; two owners that drop theirs at once must not both rely on it.)
NoEntryStranded ==
  \A p \in DOMAIN entries : \E r \in Request :
    /\ PathOf[r] = p
    /\ ref[r] = entries[p] \/ erasing[r] \/ step[r] \in {"flushed", "releasing"}

\* The files in memory: those somebody refers to and those cached.
InMemory ==
  ({ref[r] : r \in Request} \cup {entries[p] : p \in DOMAIN entries}) \ {None}

\* The design note of DecodeScheduler.h on thumbnail memory: "the worst case is
\* (cap + main-image inputs) x 1 GiB".
WorstCaseIsCap == Cardinality(InMemory) <= cap
================================================================================
