---------------------------- MODULE DecodeScheduler ----------------------------
(***************************************************************************)
(* The queue-mutex state machine of class DecodeScheduler: requests pass   *)
(* an I/O lane, a reader thread, the decode queues and a decode worker,    *)
(* while clients enqueue, re-prioritise and cancel them and the lifecycle  *)
(* calls shut the scheduler down and restart it.                           *)
(*                                                                         *)
(* Every action is one critical section of m_queueMutex, or the unlocked   *)
(* code between two of them where it reads or writes shared state.  The    *)
(* threads of one pool run the same code, so a thread is represented by    *)
(* the request it works on: job[r] is the place in the thread's function   *)
(* that holds request r, and a pool has an idle thread while fewer         *)
(* requests than threads are in its hands.                                 *)
(*                                                                         *)
(* Each request is enqueued at most once, under a handle of its own (as    *)
(* ImageLoader does); a request outside Tracked has handle 0.              *)
(***************************************************************************)
EXTENDS Integers, Sequences, FiniteSets, IoLanes

CONSTANTS
  Request,           \* the requests clients may enqueue
  MainImage,         \* those whose purpose is FullResolution
  Tracked,           \* those with a nonzero handle
  Source,            \* Source[r]: the source of r's path (module IoLanes)
  Answers,           \* Answers[r]: the topologies the query may give r's volume
  Priorities,        \* the RequestPriority values in use
  ThreadCounts,      \* the arguments SetThreadCount is called with
  MainImageReaders,  \* kMainImageReaders
  MaxDecodeWorkers,  \* kMaxDecodeWorkers
  MaxPrefetchCap,    \* kMaxPrefetchCap
  InitialCap,        \* the global cap of a fresh start
  Cancelable,        \* bound: the requests clients may cancel
  MaxRequests,       \* bound: how many of the requests clients enqueue
  MaxChanges,        \* bound: calls of SetPriority that change something
  MaxStops           \* bound: lifecycle calls (Shutdown, SetThreadCount)

ASSUME SchedulerConstants ==
  /\ IsFiniteSet(Request)
  /\ MainImage \subseteq Request
  /\ Tracked \subseteq Request
  /\ \A r \in Request : Source[r].kind \in SourceKind /\ IsFiniteSet(Answers[r])
  /\ Priorities \subseteq Nat
  /\ ThreadCounts \subseteq Nat
  /\ MainImageReaders \in Nat \ {0}
  /\ MaxDecodeWorkers \in Nat \ {0}
  /\ MaxPrefetchCap \in Nat \ {0}
  /\ InitialCap \in 1..MaxPrefetchCap
  /\ Cancelable \subseteq Request
  /\ MaxRequests \in Nat
  /\ MaxChanges \in Nat
  /\ MaxStops \in Nat

Slow(r) == IoLaneFor(Source[r].kind) # "Local"

\* Local full-resolution requests are read by the decoder itself.
NeedsLane(r) == r \notin MainImage \/ Slow(r)

RouteOf(r, answer) == RouteFor(Source[r], r \in MainImage, answer)

RoutesOf(r) == {RouteOf(r, answer) : answer \in Answers[r]}

Routes  == UNION {RoutesOf(r) : r \in Request}
Keys    == {route.key : route \in Routes}
Devices == {route.device : route \in Routes} \cup {key.place : key \in Keys}

VARIABLES
  state,              \* [Request -> DecodeRequestState]
  live,               \* m_liveRequests: the tracked requests Cancel can find
  lanes,              \* m_lanes
  highQueue,          \* m_highQueue
  backgroundQueue,    \* m_backgroundQueue
  nextSequence,       \* m_nextSequence
  serviceClock,       \* m_serviceClock
  readsByDevice,      \* m_readsByDevice (0: no entry)
  readsInProgress,    \* m_readsInProgress
  volumeProfiles,     \* m_volumeProfiles (0: no entry)
  globalPrefetchCap,  \* m_globalPrefetchCap
  prefetchedTotal,    \* m_prefetchedTotal
  prefetchReads,      \* m_prefetchReads
  mainReads,          \* m_mainReads
  mainHeld,           \* m_mainHeld
  shutdown,           \* m_shutdown
  threadCount,        \* m_threadCount
  joinPending,        \* m_joinPending
  call,               \* the lifecycle call that holds m_lifecycleMutex
  stage,              \* how far that call is
  stops,              \* lifecycle calls made so far
  changes,            \* priority changes made so far
  job,                \* where the thread that holds r's task is
  worker,             \* the kind of worker that holds r's task
  bytesHold,          \* that worker's own reference to r's bytes
  outcome             \* history: what the client of r has seen

requestVars   == <<state, live, job, worker, bytesHold, outcome>>
laneVars      == <<lanes, serviceClock, readsByDevice, readsInProgress>>
queueVars     == <<highQueue, backgroundQueue, nextSequence>>
tuningVars    == <<volumeProfiles, globalPrefetchCap>>
prefetchVars  == <<prefetchedTotal, prefetchReads>>
mainVars      == <<mainReads, mainHeld>>
lifecycleVars == <<shutdown, threadCount, joinPending, call, stage, stops, changes>>

vars == <<requestVars, laneVars, queueVars, tuningVars, prefetchVars, mainVars,
          lifecycleVars>>

Stage      == {"None", "Io", "MainIo", "Decode"}
WorkerKind == {"HighPriority", "Background", "Shared"}
Reading    == {"reading", "mainReading"}
Job        == Reading \cup {"none", "taken", "skipped", "failing", "decoding",
                            "delivering", "releasing"}
\* "withdrawn": dropped from a queue by the client's own Cancel.
Outcome    == {"new", "rejected", "pending", "delivered", "dropped", "withdrawn"}
Settled    == {"delivered", "dropped", "withdrawn"}

RequestState ==
  [canceled : BOOLEAN, decoding : BOOLEAN, prefetched : BOOLEAN,
   holdsPrefetchSlot : BOOLEAN, holdsMainInput : BOOLEAN,
   slowReadFailed : BOOLEAN, laneKey : Keys \cup {None},
   priority : Nat, sequence : Nat, queuedIn : Stage]

\* As Enqueue makes it.  A request's state dies with its task: from then on it
\* is Fresh here.
Fresh ==
  [canceled |-> FALSE, decoding |-> FALSE, prefetched |-> FALSE,
   holdsPrefetchSlot |-> FALSE, holdsMainInput |-> FALSE,
   slowReadFailed |-> FALSE, laneKey |-> None,
   priority |-> 1, sequence |-> 0, queuedIn |-> "None"]

LaneState ==
  [depth : Nat, limit : Nat,
   queue : SUBSET [task : Request, priority : Nat, sequence : Nat],
   mainQueue : SUBSET [task : Request, priority : Nat, sequence : Nat],
   reading : BOOLEAN, mainReading : BOOLEAN, held : Nat, lastServed : Nat]

-----------------------------------------------------------------------------
\* The constructor has started the threads.
Init ==
  /\ state = [r \in Request |-> Fresh]
  /\ live = {}
  /\ lanes = [key \in {} |-> EmptyLane]
  /\ highQueue = <<>>
  /\ backgroundQueue = {}
  /\ nextSequence = 0
  /\ serviceClock = 0
  /\ readsByDevice = [d \in Devices |-> 0]
  /\ readsInProgress = [kind \in LaneKind |-> 0]
  /\ volumeProfiles = [d \in Devices |-> 0]
  /\ globalPrefetchCap = InitialCap
  /\ prefetchedTotal = 0
  /\ prefetchReads = 0
  /\ mainReads = 0
  /\ mainHeld = 0
  /\ shutdown = FALSE
  /\ threadCount \in ThreadCounts \cap 1..MaxDecodeWorkers
  /\ joinPending = FALSE
  /\ call = "none"
  /\ stage = "idle"
  /\ stops = 0
  /\ changes = 0
  /\ job = [r \in Request |-> "none"]
  /\ worker = [r \in Request |-> None]
  /\ bytesHold = [r \in Request |-> FALSE]
  /\ outcome = [r \in Request |-> "new"]

-----------------------------------------------------------------------------
(***************************************************************************)
(* Enqueue.                                                                *)
(***************************************************************************)

\* The prefetch slots of the devices seen: one per device and unit of depth.
SlotsOf(profiles) ==
  {slot \in Devices \X (1..SolidStateDepth) : slot[2] <= profiles[slot[1]]}

\* min(kMaxPrefetchCap, max(1, sum of the depths))
CapFor(profiles) ==
  LET sum == Cardinality(SlotsOf(profiles))
  IN  IF sum < 1 THEN 1 ELSE IF sum < MaxPrefetchCap THEN sum ELSE MaxPrefetchCap

\* The lane of `route`, created if need be; the latest topology applies.
LaneFor(route) ==
  [(IF route.key \in DOMAIN lanes THEN lanes[route.key] ELSE EmptyLane)
     EXCEPT !.depth = route.depth, !.limit = route.limit]

\* The bound on what clients enqueue.
MayAsk == Cardinality({r \in Request : outcome[r] # "new"}) < MaxRequests

WithLane(table, key, lane) ==
  [k \in DOMAIN table \cup {key} |-> IF k = key THEN lane ELSE table[k]]

Accept(r, priority, key, queuedIn) ==
  /\ outcome[r] = "new"
  /\ MayAsk
  /\ ~shutdown
  /\ nextSequence' = nextSequence + 1
  /\ state' = [state EXCEPT ![r] =
       [Fresh EXCEPT !.priority = priority, !.sequence = nextSequence',
                     !.laneKey = key, !.queuedIn = queuedIn]]
  /\ live' = live \cup ({r} \cap Tracked)
  /\ outcome' = [outcome EXCEPT ![r] = "pending"]
  /\ UNCHANGED <<job, worker, bytesHold, serviceClock, readsByDevice,
                 readsInProgress, backgroundQueue, prefetchVars, mainVars,
                 lifecycleVars>>

EnqueueLocalMain(r, priority) ==
  /\ ~NeedsLane(r)
  /\ Accept(r, priority, None, "None")
  /\ highQueue' = Append(highQueue, r)
  /\ UNCHANGED <<lanes, tuningVars>>

EnqueueSlowMain(r, priority, answer) ==
  LET route == RouteOf(r, answer)
      lane  == LaneFor(route)
  IN  /\ r \in MainImage /\ NeedsLane(r)
      /\ Accept(r, priority, route.key, "MainIo")
      /\ lanes' = WithLane(lanes, route.key,
           [lane EXCEPT !.mainQueue = Push(@, r, priority, nextSequence')])
      /\ UNCHANGED <<highQueue, tuningVars>>

EnqueueThumbnail(r, priority, answer) ==
  LET route == RouteOf(r, answer)
      lane  == LaneFor(route)
  IN  /\ r \notin MainImage
      /\ Accept(r, priority, route.key, "Io")
      /\ lanes' = WithLane(lanes, route.key,
           [lane EXCEPT !.queue = Push(@, r, priority, nextSequence')])
      /\ volumeProfiles' = [volumeProfiles EXCEPT ![route.device] = route.depth]
      /\ globalPrefetchCap' = CapFor(volumeProfiles')
      /\ UNCHANGED highQueue

EnqueueRejected(r) ==
  /\ outcome[r] = "new"
  /\ MayAsk
  /\ shutdown
  /\ outcome' = [outcome EXCEPT ![r] = "rejected"]
  /\ UNCHANGED <<state, live, job, worker, bytesHold, laneVars, queueVars,
                 tuningVars, prefetchVars, mainVars, lifecycleVars>>

-----------------------------------------------------------------------------
(***************************************************************************)
(* SetPriority and Cancel.                                                 *)
(***************************************************************************)

\* A faulty form of Rekeyed: the queue keeps the old key.
NotRekeyed(queue, r, priority) == queue

Rekeyed(queue, r, priority) ==
  IF Finds(queue, r, state[r].priority, state[r].sequence)
  THEN Reprioritize(queue, r, state[r].priority, state[r].sequence, priority)
  ELSE queue

\* A request in no queue is being read, or is a full-resolution request.
SetPriority(r, priority) ==
  LET s   == state[r]
      key == s.laneKey
  IN  /\ r \in live
      /\ ~s.decoding /\ ~s.canceled /\ s.priority # priority
      /\ changes < MaxChanges
      /\ changes' = changes + 1
      /\ state' = [state EXCEPT ![r].priority = priority]
      /\ lanes' =
           IF s.queuedIn = "Io" /\ key \in DOMAIN lanes
           THEN [lanes EXCEPT ![key].queue = Rekeyed(@, r, priority)]
           ELSE IF s.queuedIn = "MainIo" /\ key \in DOMAIN lanes
           THEN [lanes EXCEPT ![key].mainQueue = Rekeyed(@, r, priority)]
           ELSE lanes
      /\ backgroundQueue' = IF s.queuedIn = "Decode"
                            THEN Rekeyed(backgroundQueue, r, priority)
                            ELSE backgroundQueue
      /\ UNCHANGED <<live, job, worker, bytesHold, outcome, serviceClock,
                     readsByDevice, readsInProgress, highQueue, nextSequence,
                     tuningVars, prefetchVars, mainVars, shutdown, threadCount,
                     joinPending, call, stage, stops>>

\* A count that never goes below zero.
Dec(n) == IF n > 0 THEN n - 1 ELSE 0

\* ReleasePrefetch_NoLock: the request's state, the counts and the lane table
\* once the capacity held by a request in state s is given back.
Released(s) ==
  [s EXCEPT !.prefetched = FALSE, !.holdsMainInput = FALSE,
            !.holdsPrefetchSlot = @ /\ s.holdsMainInput]

\* A faulty form of ReleasesSlot: a main-image input gives back a prefetch slot too.
ReleasesEither(s) == s.holdsPrefetchSlot \/ s.holdsMainInput

ReleasesSlot(s) == s.holdsPrefetchSlot /\ ~s.holdsMainInput

ReleasedLanes(table, s) ==
  IF ReleasesSlot(s) /\ s.laneKey \in DOMAIN table
  THEN Reclaim([table EXCEPT ![s.laneKey].held = Dec(@)], s.laneKey)
  ELSE table

ReleaseCounts(s) ==
  /\ prefetchedTotal' = IF ReleasesSlot(s) THEN Dec(prefetchedTotal) ELSE prefetchedTotal
  /\ mainHeld' = IF s.holdsMainInput THEN Dec(mainHeld) ELSE mainHeld

\* A faulty form of Unqueued: the canceled task stays in its lane queue.
LeftQueued(r, s) == lanes

\* The lane table without r's queued task, its lane reclaimed if idle.
Unqueued(r, s) ==
  LET key == s.laneKey
  IN  IF s.queuedIn = "Io" /\ key \in DOMAIN lanes
      THEN Reclaim([lanes EXCEPT ![key].queue = Remove(@, r, s.priority, s.sequence)], key)
      ELSE IF s.queuedIn = "MainIo" /\ key \in DOMAIN lanes
      THEN Reclaim([lanes EXCEPT ![key].mainQueue = Remove(@, r, s.priority, s.sequence)], key)
      ELSE lanes

QueuedInLane(r, s) ==
  /\ s.laneKey \in DOMAIN lanes
  /\ \/ s.queuedIn = "Io" /\ Finds(lanes[s.laneKey].queue, r, s.priority, s.sequence)
     \/ s.queuedIn = "MainIo" /\ Finds(lanes[s.laneKey].mainQueue, r, s.priority, s.sequence)

\* Faulty forms of CancelReleases: the bytes a worker is decoding are given back
\* too; nothing is given back before a worker meets the task.
CancelReleasesAlways(s) == TRUE
CancelReleasesNothing(s) == FALSE

\* Cancel gives back the capacity of a request no worker has taken.
CancelReleases(s) == ~s.decoding

Cancel(r) ==
  LET s       == state[r]
      removed == QueuedInLane(r, s)
      marked  == [s EXCEPT !.canceled = TRUE]
      given   == CancelReleases(s) /\ (s.holdsPrefetchSlot \/ s.holdsMainInput)
  IN  /\ r \in live \cap Cancelable
      /\ state' = [state EXCEPT ![r] = IF removed THEN Fresh
                                      ELSE IF given THEN Released(marked) ELSE marked]
      /\ lanes' = IF given THEN ReleasedLanes(Unqueued(r, s), s) ELSE Unqueued(r, s)
      /\ IF given THEN ReleaseCounts(s) ELSE UNCHANGED <<prefetchedTotal, mainHeld>>
      /\ live' = live \ {r}
      /\ outcome' = [outcome EXCEPT ![r] = IF removed THEN "withdrawn" ELSE @]
      /\ UNCHANGED <<job, worker, bytesHold, serviceClock, readsByDevice,
                     readsInProgress, queueVars, tuningVars, prefetchReads,
                     mainReads, lifecycleVars>>

-----------------------------------------------------------------------------
(***************************************************************************)
(* LaneReaderThread: take the next thumbnail read of a lane kind; finish it*)
(* with the bytes, with nothing (a failed read), or stopped.               *)
(***************************************************************************)

ReadsOf(kind) == {r \in Request : job[r] = "reading" /\ state[r].laneKey.lane = kind}
MainReadsOn   == {r \in Request : job[r] = "mainReading"}

\* A faulty form of FreeSlots: reads in progress are not counted.
FreeSlotsByHeld ==
  IF prefetchedTotal < globalPrefetchCap THEN globalPrefetchCap - prefetchedTotal ELSE 0

\* The prefetch slots left under the global cap.
FreeSlots ==
  LET used == prefetchedTotal + prefetchReads
  IN  IF used < globalPrefetchCap THEN globalPrefetchCap - used ELSE 0

NextThumbnailLane(kind) ==
  SelectThumbnailLane(lanes, readsByDevice, readsInProgress, FreeSlots, kind)

DeviceAdmitted(kind) == kind # "Remote"

\* A faulty form of Finish: the entry stays in the live table.
FinishLater(r) == live' = live

\* Finish_NoLock
Finish(r) == live' = live \ {r}

\* A canceled task found in a lane queue is discarded: a task of a Shutdown.
DiscardQueued(r, table, key) ==
  /\ Finish(r)
  /\ state' = [state EXCEPT ![r] = Fresh]
  /\ lanes' = Reclaim(table, key)
  /\ outcome' = [outcome EXCEPT ![r] = "dropped"]
  /\ UNCHANGED <<job, serviceClock, readsByDevice, readsInProgress, prefetchReads, mainReads>>

StartRead(r, table, key) ==
  /\ state' = [state EXCEPT ![r].queuedIn = "None"]
  /\ job' = [job EXCEPT ![r] = "reading"]
  /\ serviceClock' = serviceClock + 1
  /\ lanes' = [table EXCEPT ![key].reading = TRUE, ![key].lastServed = serviceClock']
  /\ prefetchReads' = prefetchReads + 1
  /\ readsInProgress' = [readsInProgress EXCEPT ![key.lane] = @ + 1]
  /\ readsByDevice' = IF DeviceAdmitted(key.lane)
                      THEN [readsByDevice EXCEPT ![key.place] = @ + 1]
                      ELSE readsByDevice
  /\ UNCHANGED <<live, outcome, mainReads>>

LaneReaderTake(kind) ==
  /\ ~shutdown
  /\ Cardinality(ReadsOf(kind)) < ReadersPerLane
  /\ \E key \in NextThumbnailLane(kind) : \E e \in lanes[key].queue :
       LET r      == e.task
           popped == [lanes EXCEPT ![key].queue = @ \ {e}]
       IN  /\ IsTop(e, lanes[key].queue)
           /\ IF state[r].canceled THEN DiscardQueued(r, popped, key)
                                   ELSE StartRead(r, popped, key)
  /\ UNCHANGED <<worker, bytesHold, queueVars, tuningVars, prefetchedTotal,
                 mainHeld, lifecycleVars>>

ReadResult == {"bytes", "nothing", "stopped"}

\* LeasedRead reports a stop only to a canceled request or under shutdown.
MayStop(r, result) == result = "stopped" => shutdown \/ state[r].canceled

Discards(r, result) == result = "stopped" \/ state[r].canceled

\* A faulty form of AfterRead: a failed slow read is not remembered.
AfterAnyRead(s, result, slow, holds) ==
  [s EXCEPT !.prefetched = result = "bytes",
            !.holdsPrefetchSlot = result = "bytes" /\ holds = "slot",
            !.holdsMainInput = result = "bytes" /\ holds = "input"]

\* The request's state when its read ends with `result` and is still wanted;
\* `holds` is the capacity flag its bytes are counted under.
AfterRead(s, result, slow, holds) ==
  [s EXCEPT !.slowReadFailed = result = "nothing" /\ slow,
            !.prefetched = result = "bytes",
            !.holdsPrefetchSlot = result = "bytes" /\ holds = "slot",
            !.holdsMainInput = result = "bytes" /\ holds = "input"]

LaneReaderFinish(r, result) ==
  LET key     == state[r].laneKey
      discard == Discards(r, result)
      keeps   == result = "bytes" /\ ~discard
      s       == AfterRead(state[r], result, key.lane # "Local", "slot")
      done    == [lanes EXCEPT ![key].reading = FALSE,
                               ![key].held = IF keeps THEN @ + 1 ELSE @]
  IN  /\ job[r] = "reading"
      /\ MayStop(r, result)
      /\ job' = [job EXCEPT ![r] = "none"]
      /\ prefetchReads' = prefetchReads - 1
      /\ readsInProgress' = [readsInProgress EXCEPT ![key.lane] = @ - 1]
      /\ readsByDevice' = IF DeviceAdmitted(key.lane)
                          THEN [readsByDevice EXCEPT ![key.place] = Dec(@)]
                          ELSE readsByDevice
      /\ lanes' = Reclaim(done, key)
      /\ IF discard
         THEN /\ Finish(r)
              /\ outcome' = [outcome EXCEPT ![r] = "dropped"]
              /\ state' = [state EXCEPT ![r] = Fresh]
              /\ UNCHANGED backgroundQueue
         ELSE /\ state' = [state EXCEPT ![r] = [s EXCEPT !.queuedIn = "Decode"]]
              /\ backgroundQueue' = Push(backgroundQueue, r, s.priority, s.sequence)
              /\ UNCHANGED <<live, outcome>>
      /\ prefetchedTotal' = IF keeps THEN prefetchedTotal + 1 ELSE prefetchedTotal
      /\ UNCHANGED <<worker, bytesHold, serviceClock, highQueue, nextSequence,
                     tuningVars, mainVars, lifecycleVars>>

-----------------------------------------------------------------------------
(***************************************************************************)
(* MainReaderThread: the same for full-resolution Archive/Remote reads.    *)
(***************************************************************************)

StartMainRead(r, table, key) ==
  /\ state' = [state EXCEPT ![r].queuedIn = "None"]
  /\ job' = [job EXCEPT ![r] = "mainReading"]
  /\ lanes' = [table EXCEPT ![key].mainReading = TRUE]
  /\ mainReads' = mainReads + 1
  /\ UNCHANGED <<live, outcome, serviceClock, readsByDevice, readsInProgress, prefetchReads>>

MainReaderTake ==
  /\ ~shutdown
  /\ Cardinality(MainReadsOn) < MainImageReaders
  /\ \E key \in SelectMainLane(lanes, mainReads + mainHeld) : \E e \in lanes[key].mainQueue :
       LET r      == e.task
           popped == [lanes EXCEPT ![key].mainQueue = @ \ {e}]
       IN  /\ IsTop(e, lanes[key].mainQueue)
           /\ IF state[r].canceled
              THEN DiscardQueued(r, popped, key)
              ELSE StartMainRead(r, popped, key)
  /\ UNCHANGED <<worker, bytesHold, queueVars, tuningVars, prefetchedTotal,
                 mainHeld, lifecycleVars>>

MainReaderFinish(r, result) ==
  LET key     == state[r].laneKey
      discard == Discards(r, result)
      keeps   == result = "bytes" /\ ~discard
  IN  /\ job[r] = "mainReading"
      /\ MayStop(r, result)
      /\ job' = [job EXCEPT ![r] = "none"]
      /\ mainReads' = mainReads - 1
      /\ lanes' = Reclaim([lanes EXCEPT ![key].mainReading = FALSE], key)
      /\ IF discard
         THEN /\ Finish(r)
              /\ outcome' = [outcome EXCEPT ![r] = "dropped"]
              /\ state' = [state EXCEPT ![r] = Fresh]
              /\ UNCHANGED highQueue
         ELSE /\ state' = [state EXCEPT ![r] = AfterRead(@, result, TRUE, "input")]
              /\ highQueue' = Append(highQueue, r)
              /\ UNCHANGED <<live, outcome>>
      /\ mainHeld' = IF keeps THEN mainHeld + 1 ELSE mainHeld
      /\ UNCHANGED <<worker, bytesHold, serviceClock, readsByDevice,
                     readsInProgress, backgroundQueue, nextSequence, tuningVars,
                     prefetchVars, lifecycleVars>>

-----------------------------------------------------------------------------
(***************************************************************************)
(* WorkerThread.                                                           *)
(***************************************************************************)

\* A faulty form of WorkersOf: no shared worker, a single one serves the high
\* queue only.
WorkersDedicated(kind) ==
  CASE kind = "Shared"       -> 0
    [] kind = "HighPriority" -> 1
    [] kind = "Background"   -> threadCount - 1

\* The workers SetThreadCount starts: one shared one, or one for the high
\* queue and the rest for background work.
WorkersOf(kind) ==
  CASE kind = "Shared"       -> IF threadCount = 1 THEN 1 ELSE 0
    [] kind = "HighPriority" -> IF threadCount = 1 THEN 0 ELSE 1
    [] kind = "Background"   -> IF threadCount = 1 THEN 0 ELSE threadCount - 1

IdleWorker(kind) == Cardinality({r \in Request : worker[r] = kind}) < WorkersOf(kind)

\* The task r just popped: a canceled one is discarded in the same critical
\* section, any other one is the worker's, and its bytes with it.
Take(r, kind) ==
  LET s == [state[r] EXCEPT !.queuedIn = "None"]
  IN  IF s.canceled
      THEN /\ Finish(r)
           /\ state' = [state EXCEPT ![r] = Fresh]
           /\ lanes' = ReleasedLanes(lanes, s)
           /\ ReleaseCounts(s)
           /\ outcome' = [outcome EXCEPT ![r] = "dropped"]
           /\ UNCHANGED <<job, worker, bytesHold>>
      ELSE /\ state' = [state EXCEPT ![r] = [s EXCEPT !.decoding = TRUE]]
           /\ job' = [job EXCEPT ![r] = "taken"]
           /\ worker' = [worker EXCEPT ![r] = kind]
           /\ bytesHold' = [bytesHold EXCEPT ![r] = s.prefetched]
           /\ UNCHANGED <<live, outcome, lanes, prefetchedTotal, mainHeld>>

TakeHigh(kind) ==
  /\ highQueue # <<>>
  /\ highQueue' = Tail(highQueue)
  /\ backgroundQueue' = backgroundQueue
  /\ Take(Head(highQueue), kind)

TakeBackground(kind) ==
  /\ kind # "HighPriority"
  /\ highQueue = <<>>
  /\ highQueue' = highQueue
  /\ \E e \in backgroundQueue :
       /\ IsTop(e, backgroundQueue)
       /\ backgroundQueue' = backgroundQueue \ {e}
       /\ Take(e.task, kind)

\* Every worker serves the high queue first.
WorkerTake(kind) ==
  /\ ~shutdown
  /\ IdleWorker(kind)
  /\ TakeHigh(kind) \/ TakeBackground(kind)
  /\ UNCHANGED <<serviceClock, readsByDevice, readsInProgress, nextSequence,
                 tuningVars, prefetchReads, mainReads, lifecycleVars>>

\* The unlocked look at the flags before the decode.
BeginsAs(r) ==
  IF state[r].canceled \/ shutdown THEN "skipped"
  ELSE IF state[r].slowReadFailed THEN "failing" ELSE "decoding"

MoveWorker(r, from, to) == job[r] \in from /\ job' = [job EXCEPT ![r] = to]

WorkerBegin(r) ==
  /\ MoveWorker(r, {"taken"}, BeginsAs(r))
  /\ UNCHANGED <<state, live, worker, bytesHold, outcome, laneVars, queueVars,
                 tuningVars, prefetchVars, mainVars, lifecycleVars>>

\* A faulty form of Delivers: a cancel during the decode is not looked at.
DeliversDecoded(r) == job[r] # "skipped"

\* The delivery decision, as the request leaves the live table.
Delivers(r) == job[r] # "skipped" /\ ~state[r].canceled

WorkerFinish(r) ==
  /\ MoveWorker(r, {"skipped", "failing", "decoding"},
                IF Delivers(r) THEN "delivering" ELSE "releasing")
  /\ Finish(r)
  /\ outcome' = [outcome EXCEPT ![r] = IF Delivers(r) THEN @ ELSE "dropped"]
  /\ UNCHANGED <<state, worker, bytesHold, laneVars, queueVars, tuningVars,
                 prefetchVars, mainVars, lifecycleVars>>

\* The result callback runs and returns.
WorkerDeliver(r) ==
  /\ MoveWorker(r, {"delivering"}, "releasing")
  /\ outcome' = [outcome EXCEPT ![r] = "delivered"]
  /\ UNCHANGED <<state, live, worker, bytesHold, laneVars, queueVars, tuningVars,
                 prefetchVars, mainVars, lifecycleVars>>

WorkerRelease(r) ==
  /\ MoveWorker(r, {"releasing"}, "none")
  /\ worker' = [worker EXCEPT ![r] = None]
  /\ bytesHold' = [bytesHold EXCEPT ![r] = FALSE]
  /\ state' = [state EXCEPT ![r] = Fresh]
  /\ lanes' = ReleasedLanes(lanes, state[r])
  /\ ReleaseCounts(state[r])
  /\ UNCHANGED <<live, outcome, serviceClock, readsByDevice, readsInProgress,
                 queueVars, tuningVars, prefetchReads, mainReads, lifecycleVars>>

-----------------------------------------------------------------------------
(***************************************************************************)
(* Shutdown, Shutdown(bound) and SetThreadCount, one at a time under       *)
(* m_lifecycleMutex.  Each runs StopAndJoin; SetThreadCount then reopens.  *)
(***************************************************************************)

Calls == {"Shutdown", "BoundedShutdown", "SetThreadCount"}

Stopped == shutdown /\ ~joinPending

\* SetThreadCount is ignored while threads of a bounded Shutdown still run.
BeginCall(name) ==
  /\ call = "none"
  /\ stops < MaxStops
  /\ name = "SetThreadCount" => ~joinPending
  /\ stops' = stops + 1
  /\ call' = name

\* The stop itself: no request is accepted any more, every live one is canceled.
BeginStop(name) ==
  /\ BeginCall(name)
  /\ ~Stopped
  /\ stage' = "scan"
  /\ shutdown' = TRUE
  /\ state' = [r \in Request |->
                 IF r \in live THEN [state[r] EXCEPT !.canceled = TRUE] ELSE state[r]]
  /\ UNCHANGED <<live, job, worker, bytesHold, outcome, laneVars, queueVars,
                 tuningVars, prefetchVars, mainVars, threadCount, joinPending,
                 changes>>

\* Already stopped: SetThreadCount goes straight on to reopen.
SkipStop ==
  /\ BeginCall("SetThreadCount")
  /\ Stopped
  /\ stage' = "reopen"
  /\ UNCHANGED <<requestVars, laneVars, queueVars, tuningVars, prefetchVars,
                 mainVars, shutdown, threadCount, joinPending,
                 changes>>

\* The lease scan cancels every read registered on a thread's lease by then.
ScanLeases(registered) ==
  /\ stage = "scan"
  /\ stage' = "join"
  /\ registered \subseteq {r \in Request : job[r] \in Reading}
  /\ state' = [r \in Request |->
                 IF r \in registered THEN [state[r] EXCEPT !.canceled = TRUE] ELSE state[r]]
  /\ UNCHANGED <<live, job, worker, bytesHold, outcome, laneVars, queueVars,
                 tuningVars, prefetchVars, mainVars, shutdown, threadCount,
                 joinPending, call, stops, changes>>

\* A faulty form of BoundExpires: the threads left are forgotten.
BoundForgets ==
  /\ stage = "join" /\ call = "BoundedShutdown"
  /\ stage' = "idle" /\ call' = "none"
  /\ UNCHANGED <<requestVars, laneVars, queueVars, tuningVars, prefetchVars,
                 mainVars, shutdown, threadCount, joinPending, stops, changes>>

\* The bound passed with threads left: they stay owned and keep running.
BoundExpires ==
  /\ stage = "join" /\ call = "BoundedShutdown"
  /\ stage' = "idle"
  /\ call' = "none"
  /\ joinPending' = TRUE
  /\ UNCHANGED <<requestVars, laneVars, queueVars, tuningVars, prefetchVars,
                 mainVars, shutdown, threadCount, stops, changes>>

\* A faulty form of AllExited: the join waits for queued work to be met as well.
QueuesDrained == \A r \in Request : outcome[r] # "pending"

\* Every thread has left its loop, so none holds a task.
AllExited == \A r \in Request : job[r] = "none"

\* Queued work is dropped and the per-run state reset.
JoinAll ==
  /\ stage = "join"
  /\ AllExited
  /\ joinPending' = FALSE
  /\ stage' = IF call = "SetThreadCount" THEN "reopen" ELSE "idle"
  /\ call' = IF call = "SetThreadCount" THEN call ELSE "none"
  /\ state' = [r \in Request |-> Fresh]
  /\ outcome' = [r \in Request |-> IF outcome[r] = "pending" THEN "dropped" ELSE outcome[r]]
  /\ live' = {}
  /\ lanes' = [key \in {} |-> EmptyLane]
  /\ highQueue' = <<>>
  /\ backgroundQueue' = {}
  /\ serviceClock' = 0
  /\ readsByDevice' = [d \in Devices |-> 0]
  /\ readsInProgress' = [kind \in LaneKind |-> 0]
  /\ volumeProfiles' = [d \in Devices |-> 0]
  /\ globalPrefetchCap' = InitialCap
  /\ prefetchedTotal' = 0
  /\ prefetchReads' = 0
  /\ mainReads' = 0
  /\ mainHeld' = 0
  /\ UNCHANGED <<job, worker, bytesHold, nextSequence, shutdown, threadCount, stops, changes>>

\* A faulty form of Clamp: only the upper bound.
ClampAbove(count) == IF count > MaxDecodeWorkers THEN MaxDecodeWorkers ELSE count

Clamp(count) ==
  IF count < 1 THEN 1 ELSE IF count > MaxDecodeWorkers THEN MaxDecodeWorkers ELSE count

\* From here on requests are accepted and the threads start.
Reopen(count) ==
  /\ stage = "reopen"
  /\ stage' = "retune"
  /\ threadCount' = Clamp(count)
  /\ shutdown' = FALSE
  /\ UNCHANGED <<requestVars, laneVars, queueVars, tuningVars, prefetchVars,
                 mainVars, joinPending, call, stops, changes>>

\* The last statements of SetThreadCount, outside m_queueMutex.
Retune ==
  /\ stage = "retune"
  /\ stage' = "idle"
  /\ call' = "none"
  /\ globalPrefetchCap' = InitialCap
  /\ UNCHANGED <<requestVars, laneVars, queueVars, volumeProfiles, prefetchVars,
                 mainVars, shutdown, threadCount, joinPending, stops, changes>>

-----------------------------------------------------------------------------
Client(r) ==
  \/ \E priority \in Priorities : EnqueueLocalMain(r, priority)
  \/ \E priority \in Priorities, answer \in Answers[r] : EnqueueSlowMain(r, priority, answer)
  \/ \E priority \in Priorities, answer \in Answers[r] : EnqueueThumbnail(r, priority, answer)
  \/ EnqueueRejected(r)
  \/ \E priority \in Priorities : SetPriority(r, priority)
  \/ Cancel(r)

Reader ==
  \/ \E kind \in LaneKind : LaneReaderTake(kind)
  \/ MainReaderTake
  \/ \E r \in Request, result \in ReadResult : LaneReaderFinish(r, result)
  \/ \E r \in Request, result \in ReadResult : MainReaderFinish(r, result)

WorkerStep(r) ==
  \/ WorkerBegin(r)
  \/ WorkerFinish(r)
  \/ WorkerDeliver(r)
  \/ WorkerRelease(r)

Lifecycle ==
  \/ \E name \in Calls : BeginStop(name)
  \/ SkipStop
  \/ \E registered \in SUBSET Request : ScanLeases(registered)
  \/ BoundExpires
  \/ JoinAll
  \/ \E count \in ThreadCounts : Reopen(count)
  \/ Retune

Next ==
  \/ \E r \in Request : Client(r)
  \/ Reader
  \/ \E kind \in WorkerKind : WorkerTake(kind)
  \/ \E r \in Request : WorkerStep(r)
  \/ Lifecycle

Spec == Init /\ [][Next]_vars

(***************************************************************************)
(* Fairness.  Every thread that can take a step eventually does: the OS    *)
(* schedules it, no thread waits on m_queueCondition beside work it could  *)
(* take (module SchedulerWakeups), a decode and a callback return.  A read *)
(* ends only if its source answers: those of Responsive do.  A lifecycle   *)
(* call goes on, but the bound of Shutdown(bound) need not expire.         *)
(***************************************************************************)
ThreadFairness ==
  /\ \A kind \in LaneKind : WF_vars(LaneReaderTake(kind))
  /\ WF_vars(MainReaderTake)
  /\ \A kind \in WorkerKind : WF_vars(WorkerTake(kind))
  /\ \A r \in Request : WF_vars(WorkerStep(r))
  /\ WF_vars(\E registered \in SUBSET Request : ScanLeases(registered))
  /\ WF_vars(JoinAll)
  /\ WF_vars(\E count \in ThreadCounts : Reopen(count))
  /\ WF_vars(Retune)

ReadFairness(Responsive) ==
  \A r \in Responsive :
    WF_vars(\E result \in ReadResult : LaneReaderFinish(r, result) \/ MainReaderFinish(r, result))

\* Local sources answer; Archive and Remote sources may never do.
SlowSourcesMayHang == Spec /\ ThreadFairness /\ ReadFairness({r \in Request : ~Slow(r)})

EverySourceAnswers == ReadFairness({r \in Request : Slow(r)})
================================================================================
