------------------------------ MODULE WakeupProofs ------------------------------
(***************************************************************************)
(* The theorem about m_queueCondition: no thread sleeps beside work it     *)
(* could take.  Most of it is about one step, a reader that takes a        *)
(* thumbnail and tells nobody.                                             *)
(***************************************************************************)
EXTENDS SchedulerLanesProofs, SchedulerWakeups

-----------------------------------------------------------------------------
(***************************************************************************)
(* The threads that wait are the scheduler's.                              *)
(***************************************************************************)

\* Waiting and notifying change nothing of the scheduler; every other step is one of it.
LEMMA WakeupSteps == ASSUME [WakeupNext]_wakeupVars PROVE [Next]_vars
<1>1. CASE \E r \in Request : ClientWakes(r)
  BY <1>1 DEF ClientWakes, Enqueues, Next, Client
<1>2. CASE (\E kind \in LaneKind : LaneReaderWakes(kind)) \/ MainReaderWakes
  BY <1>2 DEF LaneReaderWakes, MainReaderWakes, Next, Reader
<1>3. CASE \E kind \in WorkerKind : WorkerWakes(kind)
  BY <1>3 DEF WorkerWakes, Next
<1>4. CASE \E r \in Request : ReadEnds(r) \/ WorkerGoesOn(r)
  BY <1>4 DEF ReadEnds, WorkerGoesOn, WorkerStep, Next, Reader
<1>5. CASE (\E pool \in Pool : Wait(pool)) \/ Notify
  BY <1>5 DEF Wait, Notify
<1>6. CASE ((\E name \in Calls : BeginStop(name)) /\ NotifySoon) \/ (LifecycleGoesOn /\ Silent) \/ JoinThreads
  BY <1>6 DEF LifecycleGoesOn, JoinThreads, Next, Lifecycle
<1>7. CASE UNCHANGED wakeupVars
  BY <1>7 DEF wakeupVars
<1> QED BY <1>1, <1>2, <1>3, <1>4, <1>5, <1>6, <1>7 DEF WakeupNext

\* With its waiting threads the scheduler is the scheduler: what is proved of DecodeScheduler
\* holds of SchedulerWakeups.
THEOREM WakeupIsScheduler == WakeupSpec => Spec
<1>1. WakeupInit => Init
  BY DEF WakeupInit
<1>2. [WakeupNext]_wakeupVars => [Next]_vars
  BY WakeupSteps
<1> QED BY <1>1, <1>2, PTL DEF WakeupSpec, Spec

-----------------------------------------------------------------------------
(***************************************************************************)
(* The lane of a request.                                                  *)
(***************************************************************************)

\* Queued or read in a lane.
UsesLane(r) == state[r].queuedIn \in {"Io", "MainIo"} \/ job[r] \in Reading

RoutedTo(r, key) == \E answer \in Answers[r] : key = RouteOf(r, answer).key

\* It is the lane of one of the request's own routes.
KeyedByRoute == \A r \in Request : UsesLane(r) => RoutedTo(r, state[r].laneKey)

\* A step that takes r to no other lane, if to any,
StaysInLane(r) ==
  \/ state'[r].queuedIn = "None" /\ job'[r] \notin Reading
  \/ state'[r].queuedIn = "Decode" /\ job'[r] \notin Reading
  \/ UsesLane(r) /\ state'[r].laneKey = state[r].laneKey
  \/ state'[r].queuedIn = state[r].queuedIn /\ state'[r].laneKey = state[r].laneKey
       /\ (job'[r] \in Reading => job[r] \in Reading)
  \/ RoutedTo(r, state'[r].laneKey)

\* A step after which every request in a lane is still in the lane it was keyed with keeps
\* the keys.
LEMMA KeyedFrame ==
  ASSUME KeyedByRoute, \A r \in Request : StaysInLane(r) PROVE KeyedByRoute'
<1> SUFFICES ASSUME NEW r \in Request, UsesLane(r)' PROVE RoutedTo(r, state[r].laneKey)'
  BY DEF KeyedByRoute
<1>1. StaysInLane(r) /\ (UsesLane(r) => RoutedTo(r, state[r].laneKey))
  BY DEF KeyedByRoute
<1>2. RoutedTo(r, state'[r].laneKey) => RoutedTo(r, state[r].laneKey)'
  BY DEF RoutedTo
<1> QED BY <1>1, <1>2 DEF StaysInLane, UsesLane

\* A step of one request takes no other one to a lane.
LEMMA OthersStayInLane ==
  ASSUME NEW r, OnlyTouches(r), StaysInLane(r)
  PROVE  \A q \in Request : StaysInLane(q)
BY DEF OnlyTouches, StaysInLane

\* Enqueue names the lane of the route it writes to; a client moves a request nowhere else.
LEMMA ClientKeyed ==
  ASSUME IndInv, NEW r \in Request, Client(r) PROVE \A q \in Request : StaysInLane(q)
<1>1. /\ state \in [Request -> RequestState]
      /\ outcome[r] = "new" => job[r] = "none"
  BY DEF IndInv, TypeOK, Holders, HoldsNothingYet
<1>2. \A q \in Request : state'[q] = state[q] /\ job'[q] = job[q] => StaysInLane(q)
  BY DEF StaysInLane
<1>3. ASSUME NEW priority, NEW key, NEW queuedIn, Accept(r, priority, key, queuedIn),
             queuedIn = "None" \/ RoutedTo(r, key)
      PROVE  \A q \in Request : StaysInLane(q)
  <2>1. /\ state'[r].laneKey = key /\ state'[r].queuedIn = queuedIn /\ job' = job /\ job[r] = "none"
        /\ \A q \in Request \ {r} : state'[q] = state[q]
    BY <1>1, <1>3 DEF Accept, Fresh
  <2>2. StaysInLane(r)
    BY <1>3, <2>1 DEF StaysInLane, Reading
  <2> QED BY <1>2, <2>1, <2>2
<1>4. CASE \E priority \in Priorities : EnqueueLocalMain(r, priority)
  BY <1>3, <1>4 DEF EnqueueLocalMain
<1>5. ASSUME NEW priority \in Priorities, NEW answer \in Answers[r],
             EnqueueSlowMain(r, priority, answer) \/ EnqueueThumbnail(r, priority, answer)
      PROVE  \A q \in Request : StaysInLane(q)
  <2>1. RoutedTo(r, RouteOf(r, answer).key)
    BY DEF RoutedTo
  <2>2. \E queuedIn : Accept(r, priority, RouteOf(r, answer).key, queuedIn)
    BY <1>5 DEF EnqueueSlowMain, EnqueueThumbnail
  <2> QED BY <1>3, <2>1, <2>2
<1>6. CASE EnqueueRejected(r)
  BY <1>2, <1>6 DEF EnqueueRejected
<1>7. CASE \E priority \in Priorities : SetPriority(r, priority)
  <2>1. PICK priority \in Priorities : SetPriority(r, priority)
    BY <1>7
  <2>2. state' = [state EXCEPT ![r].priority = priority] /\ job' = job
    BY <2>1 DEF SetPriority
  <2>3. \A q \in Request : /\ state'[q].queuedIn = state[q].queuedIn
                           /\ state'[q].laneKey = state[q].laneKey
    BY <1>1, <2>2 DEF RequestState
  <2> QED BY <2>2, <2>3 DEF StaysInLane
<1>8. CASE Cancel(r)
  <2> DEFINE s      == state[r]
             marked == [s EXCEPT !.canceled = TRUE]
  <2>1. /\ job' = job /\ \A q \in Request \ {r} : state'[q] = state[q]
        /\ \/ QueuedInLane(r, s) /\ state'[r] = Fresh
           \/ state'[r] = Released(marked)
           \/ state'[r] = marked
    BY <1>1, <1>8 DEF Cancel
  <2>2. s \in RequestState /\ marked \in RequestState
    BY <1>1 DEF RequestState
  <2>3. /\ marked.queuedIn = s.queuedIn /\ marked.laneKey = s.laneKey
        /\ Released(marked).queuedIn = s.queuedIn /\ Released(marked).laneKey = s.laneKey
    BY <2>2 DEF RequestState, Released
  <2>4. QueuedInLane(r, s) => job[r] = "none"
    BY DEF QueuedInLane, Finds, Entry, IndInv, Queues, LaneQueuesAgree, Waits
  <2> HIDE DEF s, marked
  <2>5. StaysInLane(r)
    BY <2>1, <2>3, <2>4 DEF StaysInLane, s, Fresh, Reading
  <2> QED BY <1>2, <2>1, <2>5
<1> QED BY <1>4, <1>5, <1>6, <1>7, <1>8 DEF Client

\* A reader reads in the lane it took the request from, and is done with it;
LEMMA ReaderKeyed ==
  ASSUME IndInv, StageInv, Reader PROVE \A q \in Request : StaysInLane(q)
<1>1. state \in [Request -> RequestState]
  BY DEF IndInv, TypeOK
<1>2. ASSUME NEW r \in Request, NEW queuedIn \in {"Io", "MainIo"}, NEW how, TakenToRead(r, queuedIn, how)
      PROVE  \A q \in Request : StaysInLane(q)
  <2>1. CASE state'[r] = Fresh /\ job'[r] = "none"
    <3>1. StaysInLane(r)
      BY <2>1 DEF StaysInLane, Fresh, Reading
    <3> QED BY <1>2, <3>1, OthersStayInLane DEF TakenToRead
  <2>2. CASE state'[r] = [state[r] EXCEPT !.queuedIn = "None"]
    <3>1. state'[r].laneKey = state[r].laneKey /\ UsesLane(r)
      BY <1>1, <1>2, <2>2 DEF RequestState, TakenToRead, UsesLane
    <3>2. StaysInLane(r)
      BY <3>1 DEF StaysInLane
    <3> QED BY <1>2, <3>2, OthersStayInLane DEF TakenToRead
  <2> QED BY <1>2, <2>1, <2>2 DEF TakenToRead
<1>3. ASSUME NEW r \in Request, ReadDone(r) PROVE \A q \in Request : StaysInLane(q)
  <2>1. StaysInLane(r)
    BY <1>3 DEF ReadDone, StaysInLane, Fresh, Reading
  <2> QED BY <1>3, <2>1, OthersStayInLane DEF ReadDone
<1>4. ASSUME NEW kind \in LaneKind, LaneReaderTake(kind) PROVE \A q \in Request : StaysInLane(q)
  BY <1>2, <1>4, LaneReaderTakes
<1>5. CASE MainReaderTake
  BY <1>2, <1>5, MainReaderTakes
<1>6. CASE \E r \in Request, result \in ReadResult : LaneReaderFinish(r, result)
  BY <1>3, <1>6, LaneReaderFinishes
<1>7. CASE \E r \in Request, result \in ReadResult : MainReaderFinish(r, result)
  BY <1>3, <1>7, MainReaderFinishes
<1> QED BY <1>4, <1>5, <1>6, <1>7 DEF Reader

\* no worker and no lifecycle call takes one to a lane.
LEMMA OthersKeyed ==
  ASSUME IndInv, StageInv,
         \/ \E kind \in WorkerKind : WorkerTake(kind)
         \/ \E r \in Request : WorkerStep(r)
         \/ Lifecycle
         \/ UNCHANGED vars
  PROVE  \A q \in Request : StaysInLane(q)
<1>1. state \in [Request -> RequestState] /\ job \in [Request -> Job]
  BY DEF IndInv, TypeOK
<1>2. ASSUME NEW kind \in WorkerKind, WorkerTake(kind) PROVE \A q \in Request : StaysInLane(q)
  <2>1. PICK r \in Request : /\ Take(r, kind) /\ job[r] = "none" /\ OnlyTouches(r)
    BY <1>2, WorkerTakes
  <2>2. state'[r].queuedIn = "None" /\ job'[r] \notin Reading
    <3> DEFINE s == [state[r] EXCEPT !.queuedIn = "None"]
    <3>1. s \in RequestState /\ s.queuedIn = "None"
      BY <1>1 DEF RequestState, Stage
    <3>2. \/ state'[r] = Fresh /\ job' = job
          \/ state'[r] = [s EXCEPT !.decoding = TRUE] /\ job' = [job EXCEPT ![r] = "taken"]
      BY <1>1, <2>1 DEF Take
    <3> HIDE DEF s
    <3> QED BY <1>1, <2>1, <3>1, <3>2 DEF Fresh, Reading, RequestState
  <2>3. StaysInLane(r)
    BY <2>2 DEF StaysInLane
  <2> QED BY <2>1, <2>3, OthersStayInLane
<1>3. ASSUME NEW r \in Request, WorkerStep(r) PROVE \A q \in Request : StaysInLane(q)
  <2>1. PICK to : /\ job' = [job EXCEPT ![r] = to] /\ to \notin Reading
                  /\ state' = state \/ state' = [state EXCEPT ![r] = Fresh]
    <3>1. \A to : MoveWorker(r, {"taken"}, to) => job' = [job EXCEPT ![r] = to]
      BY DEF MoveWorker
    <3>2. CASE WorkerBegin(r)
      BY <3>1, <3>2 DEF WorkerBegin, BeginsAs, Reading
    <3>3. CASE WorkerFinish(r) \/ WorkerDeliver(r) \/ WorkerRelease(r)
      BY <3>3 DEF WorkerFinish, WorkerDeliver, WorkerRelease, MoveWorker, Reading
    <3> QED BY <1>3, <3>2, <3>3 DEF WorkerStep
  <2>2. \A q \in Request \ {r} : state'[q] = state[q] /\ job'[q] = job[q]
    BY <1>1, <2>1
  <2>3. job'[r] \notin Reading /\ (state'[r] = state[r] \/ state'[r] = Fresh)
    BY <1>1, <2>1
  <2> QED BY <2>2, <2>3 DEF StaysInLane, Fresh
<1>4. CASE Lifecycle
  <2>1. ASSUME NEW q \in Request
        PROVE  /\ job'[q] = job[q]
               /\ \/ state'[q].queuedIn = state[q].queuedIn /\ state'[q].laneKey = state[q].laneKey
                  \/ state'[q] = Fresh /\ job[q] = "none"
    BY <1>1, <1>4 DEF Lifecycle, BeginStop, SkipStop, ScanLeases, BoundExpires, JoinAll, Reopen,
                      Retune, AllExited, requestVars, RequestState
  <2> QED BY <2>1 DEF StaysInLane, Fresh, Reading
<1>5. CASE UNCHANGED vars
  BY <1>5 DEF vars, requestVars, StaysInLane
<1> QED BY <1>2, <1>3, <1>4, <1>5

\* A request is queued and read in the lane of one of its own routes.
THEOREM LaneIsRouted == Spec => []KeyedByRoute
<1>1. Init => KeyedByRoute
  BY DEF Init, KeyedByRoute, UsesLane, Fresh, Reading
<1>2. IndInv /\ StageInv /\ KeyedByRoute /\ [Next]_vars => KeyedByRoute'
  BY ClientKeyed, ReaderKeyed, OthersKeyed, KeyedFrame DEF Next
<1> QED BY <1>1, <1>2, Invariant, StageInvariant, PTL DEF Spec

-----------------------------------------------------------------------------
(***************************************************************************)
(* What a pool finds.                                                      *)
(***************************************************************************)

\* Two lane tables with the same thumbnails, and with the same main images.
SameThumbnails(table, other) ==
  /\ DOMAIN table = DOMAIN other
  /\ \A key \in DOMAIN other :
       /\ table[key].queue = other[key].queue /\ table[key].reading = other[key].reading
       /\ table[key].held = other[key].held /\ table[key].lastServed = other[key].lastServed
       /\ table[key].depth = other[key].depth /\ table[key].limit = other[key].limit

SameMainImages(table, other) ==
  /\ DOMAIN table = DOMAIN other
  /\ \A key \in DOMAIN other : /\ table[key].mainQueue = other[key].mainQueue
                               /\ table[key].mainReading = other[key].mainReading

\* They offer the same to a reader of thumbnails, and to one of main images.
LEMMA SameThumbnailChoice ==
  ASSUME NEW table, NEW other, SameThumbnails(table, other), NEW reads, NEW started, NEW free, NEW kind
  PROVE  SelectThumbnailLane(table, reads, started, free, kind)
           = SelectThumbnailLane(other, reads, started, free, kind)
<1>1. \A key \in DOMAIN other : Admissible(table, reads, key) = Admissible(other, reads, key)
  BY DEF SameThumbnails, Admissible
<1>2. \A k : AdmissibleLanes(table, reads, k) = AdmissibleLanes(other, reads, k)
  BY <1>1 DEF SameThumbnails, AdmissibleLanes
<1>3. \A k, l \in DOMAIN other : Better(table[k], table[l]) = Better(other[k], other[l])
  BY DEF SameThumbnails, Better
<1>4. \A k, priority : AheadIn(table, reads, started, k, priority) = AheadIn(other, reads, started, k, priority)
  <2> TAKE k, priority
  <2>1. {key \in AdmissibleLanes(table, reads, k) : Outranks(TopPriority(table[key].queue), priority)}
          = {key \in AdmissibleLanes(other, reads, k) : Outranks(TopPriority(other[key].queue), priority)}
    BY <1>2 DEF SameThumbnails, AdmissibleLanes
  <2> QED BY <2>1 DEF AheadIn
<1>5. \A priority : Ahead(table, reads, started, kind, priority) = Ahead(other, reads, started, kind, priority)
  BY <1>4 DEF Ahead
<1>6. \A key \in DOMAIN other : table[key].queue = other[key].queue
  BY DEF SameThumbnails
<1>7. AdmissibleLanes(other, reads, kind) \subseteq DOMAIN other
  BY DEF AdmissibleLanes
<1> QED BY <1>2, <1>3, <1>5, <1>6, <1>7 DEF SelectThumbnailLane

\* The choice of a main lane depends on the main images only.
LEMMA SameMainChoice ==
  ASSUME NEW table, NEW other, SameMainImages(table, other), NEW used
  PROVE  SelectMainLane(table, used) = SelectMainLane(other, used)
<1> DEFINE open(lanes0) == {key \in DOMAIN lanes0 : lanes0[key].mainQueue # {} /\ ~lanes0[key].mainReading}
<1>1. open(table) = open(other)
  BY DEF SameMainImages
<1>2. \A key \in DOMAIN other : table[key].mainQueue = other[key].mainQueue
  BY DEF SameMainImages
<1>3. open(other) \subseteq DOMAIN other
  OBVIOUS
<1>4. /\ SelectMainLane(table, used) =
           {key \in open(table) : /\ used < MainImageInputCap
                                  /\ \A k \in open(table) \ {key} :
                                       Before(Top(table[key].mainQueue), Top(table[k].mainQueue))}
      /\ SelectMainLane(other, used) =
           {key \in open(other) : /\ used < MainImageInputCap
                                  /\ \A k \in open(other) \ {key} :
                                       Before(Top(other[key].mainQueue), Top(other[k].mainQueue))}
  BY DEF SelectMainLane
<1> HIDE DEF open
<1> QED BY <1>1, <1>2, <1>3, <1>4

\* Each pool looks at its own queues.
WorkOfPools ==
  /\ \A pool \in Pool : pool \in LaneKind \/ pool = "Main" \/ pool \in WorkerKind
  /\ \A kind \in LaneKind : HasWork(kind) = (NextThumbnailLane(kind) # {})
  /\ HasWork("Main") = (SelectMainLane(lanes, mainReads + mainHeld) # {})
  /\ HasWork("HighPriority") = (highQueue # <<>>)
  /\ \A kind \in {"Background", "Shared"} :
       HasWork(kind) = (highQueue # <<>> \/ backgroundQueue # {})

\* A pool has work when it has a lane to choose or a task queued, ...
LEMMA PoolsLook == WorkOfPools
<1>1. \A pool \in Pool : pool \in LaneKind \/ pool = "Main" \/ pool \in WorkerKind
  BY DEF Pool, IoLaneFor, LaneKind
<1>2. ASSUME NEW kind \in LaneKind PROVE HasWork(kind) = (NextThumbnailLane(kind) # {})
  BY <1>2 DEF HasWork, LaneKind
<1>3. HasWork("Main") = (SelectMainLane(lanes, mainReads + mainHeld) # {})
  BY DEF HasWork, LaneKind
<1>4. HasWork("HighPriority") = (highQueue # <<>>)
  BY DEF HasWork, LaneKind
<1>5. \A kind \in {"Background", "Shared"} : HasWork(kind) = (highQueue # <<>> \/ backgroundQueue # {})
  BY DEF HasWork, LaneKind
<1> QED BY <1>1, <1>2, <1>3, <1>4, <1>5 DEF WorkOfPools

\* ... in the next state too.
LEMMA PoolsLookNext == WorkOfPools'
BY PoolsLook, PTL

-----------------------------------------------------------------------------
(***************************************************************************)
(* The readers' takes.                                                     *)
(***************************************************************************)

\* A thumbnail's read begins in the lane `key`.
ReadStarts(key) ==
  /\ key \in NextThumbnailLane(key.lane) /\ HasIdleReader(key.lane)
  /\ DOMAIN lanes' = DOMAIN lanes
  /\ \A k \in DOMAIN lanes \ {key} : lanes'[k] = lanes[k]
  /\ lanes'[key].reading
  /\ SameMainImages(lanes', lanes)
  /\ readsInProgress' = [readsInProgress EXCEPT ![key.lane] = @ + 1]
  /\ readsByDevice' = IF DeviceAdmitted(key.lane)
                      THEN [readsByDevice EXCEPT ![key.place] = @ + 1]
                      ELSE readsByDevice
  /\ prefetchReads' = prefetchReads + 1
  /\ UNCHANGED <<prefetchedTotal, globalPrefetchCap, mainReads, mainHeld, highQueue, backgroundQueue>>

\* While the scheduler runs no queued task is a canceled one, so a reader that takes a
\* task reads it,
LEMMA LaneReaderStarts ==
  ASSUME IndInv, StageInv, NEW kind \in LaneKind, LaneReaderTake(kind)
  PROVE  \E key \in DOMAIN lanes : key.lane = kind /\ ReadStarts(key)
<1>0. PICK key \in NextThumbnailLane(kind) : \E e \in lanes[key].queue :
        IF state[e.task].canceled
        THEN DiscardQueued(e.task, [lanes EXCEPT ![key].queue = @ \ {e}], key)
        ELSE StartRead(e.task, [lanes EXCEPT ![key].queue = @ \ {e}], key)
  BY DEF LaneReaderTake
<1>1. PICK e \in lanes[key].queue :
        IF state[e.task].canceled
        THEN DiscardQueued(e.task, [lanes EXCEPT ![key].queue = @ \ {e}], key)
        ELSE StartRead(e.task, [lanes EXCEPT ![key].queue = @ \ {e}], key)
  BY <1>0
<1>2. key \in DOMAIN lanes /\ key.lane = kind /\ HasIdleReader(kind) /\ ~shutdown
  BY DEF NextThumbnailLane, SelectThumbnailLane, AdmissibleLanes, LaneReaderTake, HasIdleReader
<1>3. e.task \in Request /\ job[e.task] = "none" /\ state[e.task].queuedIn = "Io"
  BY <1>1, <1>2, SMTT(60) DEF IndInv, TypeOK, LaneState, Queues, LaneQueuesAgree, Waits
<1>4. ~state[e.task].canceled
  BY <1>2, <1>3 DEF StageInv, RequestOK, CanceledFree
<1> DEFINE less   == [lanes[key] EXCEPT !.queue = lanes[key].queue \ {e}]
           popped == [lanes EXCEPT ![key].queue = @ \ {e}]
           lane   == [less EXCEPT !.reading = TRUE, !.lastServed = serviceClock']
<1>5. StartRead(e.task, popped, key)
  BY <1>1, <1>4
<1>6. \A k \in DOMAIN lanes : lanes[k] \in LaneState
  BY DEF IndInv, TypeOK
<1>7. less \in LaneState /\ less.mainQueue = lanes[key].mainQueue /\ less.mainReading = lanes[key].mainReading
  BY <1>2, <1>6 DEF LaneState
<1>8. popped = [lanes EXCEPT ![key] = less]
  OBVIOUS
<1>9. lanes' = [popped EXCEPT ![key] = [popped[key] EXCEPT !.reading = TRUE, !.lastServed = serviceClock']]
  BY <1>5 DEF StartRead
<1> HIDE DEF less, popped
<1>10. DOMAIN popped = DOMAIN lanes /\ popped[key] = less /\ \A k \in DOMAIN lanes \ {key} : popped[k] = lanes[k]
  BY <1>2, <1>8
<1>11. lane.reading /\ lane.mainQueue = lanes[key].mainQueue /\ lane.mainReading = lanes[key].mainReading
  BY <1>7 DEF LaneState
<1> HIDE DEF lane
<1>12. /\ DOMAIN lanes' = DOMAIN lanes /\ lanes'[key] = lane
       /\ \A k \in DOMAIN lanes \ {key} : lanes'[k] = lanes[k]
  BY <1>2, <1>9, <1>10 DEF lane
<1>13. SameMainImages(lanes', lanes)
  BY <1>11, <1>12 DEF SameMainImages
<1>14. UNCHANGED <<prefetchedTotal, globalPrefetchCap, mainReads, mainHeld, highQueue, backgroundQueue>>
  BY <1>5 DEF LaneReaderTake, StartRead, queueVars, tuningVars
<1> QED BY <1>2, <1>5, <1>11, <1>12, <1>13, <1>14 DEF ReadStarts, StartRead

\* and so does a main reader, who leaves the thumbnails alone.
LEMMA MainReaderLeavesThumbnails ==
  ASSUME IndInv, StageInv, MainReaderTake
  PROVE  /\ SameThumbnails(lanes', lanes)
         /\ UNCHANGED <<readsByDevice, readsInProgress, prefetchReads, prefetchedTotal,
                        globalPrefetchCap, highQueue, backgroundQueue>>
<1>0. PICK key \in SelectMainLane(lanes, mainReads + mainHeld) : \E e \in lanes[key].mainQueue :
        IF state[e.task].canceled
        THEN DiscardQueued(e.task, [lanes EXCEPT ![key].mainQueue = @ \ {e}], key)
        ELSE StartMainRead(e.task, [lanes EXCEPT ![key].mainQueue = @ \ {e}], key)
  BY DEF MainReaderTake
<1>1. PICK e \in lanes[key].mainQueue :
        IF state[e.task].canceled
        THEN DiscardQueued(e.task, [lanes EXCEPT ![key].mainQueue = @ \ {e}], key)
        ELSE StartMainRead(e.task, [lanes EXCEPT ![key].mainQueue = @ \ {e}], key)
  BY <1>0
<1>2. key \in DOMAIN lanes /\ ~shutdown
  BY DEF SelectMainLane, MainReaderTake
<1>3. e.task \in Request /\ job[e.task] = "none" /\ state[e.task].queuedIn = "MainIo"
  BY <1>1, <1>2, SMTT(60) DEF IndInv, TypeOK, LaneState, Queues, LaneQueuesAgree, Waits
<1>4. ~state[e.task].canceled
  BY <1>2, <1>3 DEF StageInv, RequestOK, CanceledFree
<1> DEFINE less   == [lanes[key] EXCEPT !.mainQueue = lanes[key].mainQueue \ {e}]
           popped == [lanes EXCEPT ![key].mainQueue = @ \ {e}]
           lane   == [less EXCEPT !.mainReading = TRUE]
<1>5. StartMainRead(e.task, popped, key)
  BY <1>1, <1>4
<1>6. \A k \in DOMAIN lanes : lanes[k] \in LaneState
  BY DEF IndInv, TypeOK
<1>7. popped = [lanes EXCEPT ![key] = less]
  OBVIOUS
<1>8. lanes' = [popped EXCEPT ![key] = [popped[key] EXCEPT !.mainReading = TRUE]]
  BY <1>5 DEF StartMainRead
<1> HIDE DEF popped
<1>9. DOMAIN popped = DOMAIN lanes /\ popped[key] = less /\ \A k \in DOMAIN lanes \ {key} : popped[k] = lanes[k]
  BY <1>2, <1>7
<1>10. /\ lane.queue = lanes[key].queue /\ lane.reading = lanes[key].reading
       /\ lane.held = lanes[key].held /\ lane.lastServed = lanes[key].lastServed
       /\ lane.depth = lanes[key].depth /\ lane.limit = lanes[key].limit
  BY <1>2, <1>6 DEF LaneState
<1> HIDE DEF lane, less
<1>11. /\ DOMAIN lanes' = DOMAIN lanes /\ lanes'[key] = lane
       /\ \A k \in DOMAIN lanes \ {key} : lanes'[k] = lanes[k]
  BY <1>2, <1>8, <1>9 DEF lane
<1>12. SameThumbnails(lanes', lanes)
  BY <1>10, <1>11 DEF SameThumbnails
<1> QED BY <1>5, <1>12 DEF MainReaderTake, StartMainRead, queueVars, tuningVars

-----------------------------------------------------------------------------
(***************************************************************************)
(* A take and the other lanes of its device.                               *)
(***************************************************************************)

\* A lane of thumbnails on a device: the one Local lane of the device, or an Archive lane,
\* a lane of its own for one archive only if the device has no seek penalty.
ThumbnailKey(key) ==
  /\ key = Key(key.lane, key.place, key.archive)
  /\ key.lane \in {"Local", "Archive"}
  /\ key.lane = "Local" => key.archive = None
  /\ \E route \in Routes :
       /\ route.key = key
       /\ \/ route.limit = MaxReadsPerSolidStateDevice
          \/ route.limit = MaxReadsPerSeekDevice /\ key.archive = None

\* Such are the lanes thumbnails are queued and read in.
LEMMA RoutedThumbnail ==
  ASSUME KeyedByRoute, NEW r \in Request, r \notin MainImage, UsesLane(r),
         DeviceAdmitted(state[r].laneKey.lane)
  PROVE  ThumbnailKey(state[r].laneKey)
<1>1. PICK answer \in Answers[r] : state[r].laneKey = RouteOf(r, answer).key
  BY DEF KeyedByRoute, RoutedTo
<1> DEFINE route == RouteOf(r, answer)
           place == PlaceOf(Source[r], answer)
           lane  == IoLaneFor(Source[r].kind)
           own   == lane = "Archive" /\ (r \in MainImage \/ ~place.seek)
<1>2. lane # "Remote"
  BY <1>1 DEF RouteOf, RouteFor, RemoteRoute, Key, DeviceAdmitted
<1>3. lane \in {"Local", "Archive"}
  BY <1>2 DEF IoLaneFor
<1>4. /\ route.key = Key(lane, place.device, IF own THEN Source[r].host ELSE None)
      /\ route.limit = IF place.seek THEN MaxReadsPerSeekDevice ELSE MaxReadsPerSolidStateDevice
  BY <1>2 DEF RouteOf, RouteFor, DeviceRoute
<1>5. route \in Routes
  BY DEF Routes, RoutesOf
<1>6. /\ route.key.lane = lane /\ route.key.place = place.device
      /\ route.key.archive = IF own THEN Source[r].host ELSE None
  BY <1>4 DEF Key
<1>7. /\ lane = "Local" => route.key.archive = None
      /\ place.seek => route.key.archive = None
  BY <1>6
<1> HIDE DEF route, place, lane, own
<1>8. route.key = Key(route.key.lane, route.key.place, route.key.archive)
  BY <1>4, <1>6
<1>9. \/ route.limit = MaxReadsPerSolidStateDevice
      \/ route.limit = MaxReadsPerSeekDevice /\ route.key.archive = None
  BY <1>4, <1>7
<1>10. state[r].laneKey = route.key
  BY <1>1 DEF route
<1> QED BY <1>3, <1>5, <1>6, <1>7, <1>8, <1>9, <1>10 DEF ThumbnailKey

\* A lane with a thumbnail queued is a thumbnail lane, ...
LEMMA QueuedThumbnail ==
  ASSUME IndInv, KeyedByRoute, NEW key \in DOMAIN lanes, lanes[key].queue # {}, DeviceAdmitted(key.lane)
  PROVE  ThumbnailKey(key)
<1>1. PICK e \in lanes[key].queue : TRUE
  OBVIOUS
<1>2. e.task \in Request
  BY DEF IndInv, TypeOK, LaneState
<1>3. /\ e.task \notin MainImage /\ state[e.task].queuedIn = "Io" /\ state[e.task].laneKey = key
  BY DEF IndInv, Queues, LaneQueuesAgree, Waits
<1> QED BY <1>2, <1>3, RoutedThumbnail DEF UsesLane

\* ... and so is that of a read a device counts.
LEMMA ReadThumbnail ==
  ASSUME IndInv, KeyedByRoute, NEW d, NEW r \in DeviceReads(d)
  PROVE  ThumbnailKey(state[r].laneKey)
<1>1. r \in Request /\ job[r] = "reading" /\ DeviceAdmitted(state[r].laneKey.lane)
  BY DEF DeviceReads, ThumbnailReads
<1>2. r \notin MainImage
  BY <1>1 DEF IndInv, Holders, HoldsNothingYet
<1> QED BY <1>1, <1>2, RoutedThumbnail DEF UsesLane, Reading

\* The lanes alive on a device have one limit, that of a solid-state drive unless they
\* are lanes of the whole device.
LEMMA LimitOfDevice ==
  ASSUME IndInv, StableRoutes, StableInv, NEW key \in DOMAIN lanes, NEW k \in DOMAIN lanes,
         ThumbnailKey(key), ThumbnailKey(k), key.place = k.place
  PROVE  /\ lanes[key].limit = lanes[k].limit /\ lanes[key].limit \in Nat
         /\ lanes[key].limit # MaxReadsPerSolidStateDevice =>
              lanes[key].limit = MaxReadsPerSeekDevice /\ key.archive = None /\ k.archive = None
<1>1. PICK a \in Routes : /\ a.key = key
                          /\ \/ a.limit = MaxReadsPerSolidStateDevice
                             \/ a.limit = MaxReadsPerSeekDevice /\ key.archive = None
  BY DEF ThumbnailKey
<1>2. PICK b \in Routes : /\ b.key = k
                          /\ \/ b.limit = MaxReadsPerSolidStateDevice
                             \/ b.limit = MaxReadsPerSeekDevice /\ k.archive = None
  BY DEF ThumbnailKey
<1>3. DeviceAdmitted(key.lane) /\ DeviceAdmitted(k.lane)
  BY DEF ThumbnailKey, DeviceAdmitted
<1>4. a.limit = b.limit
  BY <1>1, <1>2, <1>3 DEF StableRoutes
<1>5. lanes[key].limit = a.limit /\ lanes[k].limit = b.limit
  BY <1>1, <1>2 DEF StableInv, AsRouted
<1>6. lanes[key].limit \in Nat
  BY DEF IndInv, TypeOK, LaneState
<1> QED BY <1>1, <1>2, <1>4, <1>5, <1>6

\* The reads of a device are those of archives, and of its Local lane one at most.
LEMMA ReadsOnDevice ==
  ASSUME IndInv, LaneInv, KeyedByRoute, NEW d \in Devices
  PROVE  LET local == Key("Local", d, None)
         IN  /\ readsByDevice[d] <= Cardinality(ReadsOf("Archive")) + 1
             /\ (local \in DOMAIN lanes => ~lanes[local].reading) =>
                  readsByDevice[d] <= Cardinality(ReadsOf("Archive"))
<1> DEFINE local    == Key("Local", d, None)
           reads    == DeviceReads(d)
           archives == ReadsOf("Archive")
           locals   == ReadingOn(state, job, "reading", local)
<1>1. IsFiniteSet(reads) /\ IsFiniteSet(archives) /\ IsFiniteSet(locals)
  BY FS_Subset, SchedulerConstants DEF DeviceReads, ThumbnailReads, ReadsOf, ReadingOn
<1>2. reads \subseteq archives \cup (reads \cap locals)
  <2> SUFFICES ASSUME NEW r \in reads, r \notin archives PROVE r \in locals
    OBVIOUS
  <2>1. r \in Request /\ job[r] = "reading" /\ state[r].laneKey.place = d
    BY DEF DeviceReads, ThumbnailReads
  <2>2. ThumbnailKey(state[r].laneKey)
    BY ReadThumbnail
  <2>3. state[r].laneKey.lane = "Local"
    BY <2>1, <2>2 DEF ReadsOf, ThumbnailKey
  <2>4. state[r].laneKey = local
    BY <2>1, <2>2, <2>3 DEF ThumbnailKey
  <2> QED BY <2>1, <2>4 DEF ReadingOn
<1>3. locals # {} => local \in DOMAIN lanes
  BY DEF LaneInv, Exactly, Located, ReadingOn, Reading
<1>4. local \in DOMAIN lanes => AtMostOne(locals) /\ (lanes[local].reading <=> locals # {})
  BY DEF LaneInv, Exactly, Exact
<1>5. AtMostOne(locals) /\ locals \subseteq Request
  BY <1>3, <1>4 DEF AtMostOne, ReadingOn
<1>6. Cardinality(locals) <= 1
  BY <1>5, CardinalityOfFew
<1>7. readsByDevice[d] = Cardinality(reads)
  BY DEF IndInv, CapacityAccounted, ReadsAccounted
<1> HIDE DEF reads, archives, locals, local
<1>8. Cardinality(archives) \in Nat /\ Cardinality(reads) \in Nat /\ Cardinality(locals) \in Nat
  BY <1>1, FS_CardinalityType
<1>9. Cardinality(reads) <= Cardinality(archives) + 1
  <2>1. reads \subseteq archives \cup locals /\ IsFiniteSet(archives \cup locals)
    BY <1>1, <1>2, FS_Union
  <2>2. /\ Cardinality(archives \cup locals) =
             Cardinality(archives) + Cardinality(locals) - Cardinality(archives \cap locals)
        /\ Cardinality(archives \cap locals) \in Nat
    BY <1>1, FS_Union, FS_Subset, FS_Intersection, FS_CardinalityType
  <2>3. /\ Cardinality(reads) <= Cardinality(archives \cup locals)
    BY <2>1, FS_Subset
  <2> QED BY <1>6, <1>8, <2>2, <2>3
<1>10. (local \in DOMAIN lanes => ~lanes[local].reading) => Cardinality(reads) <= Cardinality(archives)
  <2> SUFFICES ASSUME local \in DOMAIN lanes => ~lanes[local].reading
               PROVE  Cardinality(reads) <= Cardinality(archives)
    OBVIOUS
  <2>1. locals = {}
    BY <1>3, <1>4
  <2>2. reads \subseteq archives
    BY <1>2, <2>1
  <2> QED BY <1>1, <2>2, FS_Subset
<1> QED BY <1>7, <1>9, <1>10 DEF archives, local

\* The idle readers of a lane kind, as AheadIn counts them.
IdleReaders(kind) ==
  IF readsInProgress[kind] < ReadersPerLane THEN ReadersPerLane - readsInProgress[kind] ELSE 0

\* A read that begins leaves the other lanes admissible, but where it takes the last read of
\* their device: then their kind has no idle reader left for them.
LEMMA StillOpen ==
  ASSUME StableRoutes, IndInv, LaneInv, StableInv, KeyedByRoute,
         NEW key \in DOMAIN lanes, ReadStarts(key), key.lane \in LaneKind,
         NEW j \in DOMAIN lanes \ {key}, j.lane \in LaneKind, Admissible(lanes, readsByDevice, j)
  PROVE  \/ Admissible(lanes', readsByDevice', j)
         \/ IdleReaders(j.lane) <= IF j.lane = key.lane THEN 1 ELSE 0
<1>1. /\ lanes'[j] = lanes[j]
      /\ readsByDevice' = IF DeviceAdmitted(key.lane)
                          THEN [readsByDevice EXCEPT ![key.place] = @ + 1]
                          ELSE readsByDevice
      /\ readsByDevice \in [Devices -> Nat] /\ readsInProgress \in [LaneKind -> Nat]
      /\ ReadersPerLane \in Nat
      /\ Admissible(lanes, readsByDevice, key)
      /\ readsInProgress[key.lane] < ReadersPerLane
  BY LaneConstants DEF ReadStarts, IndInv, TypeOK, NextThumbnailLane, SelectThumbnailLane, AdmissibleLanes,
                       HasIdleReader, CapacityAccounted, ReadsAccounted
<1>2. key.place \in Devices /\ j.place \in Devices
  BY KeyType DEF IndInv, TypeOK
<1>3. CASE ~DeviceAdmitted(key.lane) \/ j.place # key.place
  <2>1. readsByDevice'[j.place] = readsByDevice[j.place]
    BY <1>1, <1>2, <1>3
  <2> QED BY <1>1, <2>1 DEF Admissible
<1>4. CASE ~DeviceAdmitted(j.lane)
  BY <1>1, <1>4 DEF Admissible, DeviceAdmitted
<1>5. CASE DeviceAdmitted(key.lane) /\ DeviceAdmitted(j.lane) /\ j.place = key.place
  <2> DEFINE d     == key.place
             limit == lanes[key].limit
             local == Key("Local", d, None)
  <2>1. ThumbnailKey(key) /\ ThumbnailKey(j)
    BY <1>1, <1>5, QueuedThumbnail DEF Admissible
  <2>2. /\ lanes[j].limit = limit /\ limit \in Nat
        /\ limit # MaxReadsPerSolidStateDevice =>
             limit = MaxReadsPerSeekDevice /\ key.archive = None /\ j.archive = None
    BY <1>5, <2>1, LimitOfDevice
  <2>3. readsByDevice[d] < limit /\ readsByDevice'[d] = readsByDevice[d] + 1 /\ readsByDevice[d] \in Nat
    BY <1>1, <1>2, <1>5 DEF Admissible, DeviceAdmitted
  <2>4. ~lanes[key].reading /\ ~lanes[j].reading
    BY <1>1 DEF Admissible
  <2>5. CASE readsByDevice[d] + 1 < limit
    <3>1. readsByDevice'[j.place] < lanes'[j].limit
      BY <1>1, <1>5, <2>2, <2>3, <2>5
    <3> QED BY <1>1, <3>1 DEF Admissible
  <2>6. CASE readsByDevice[d] + 1 = limit /\ limit = MaxReadsPerSolidStateDevice
    <3> DEFINE archives == Cardinality(ReadsOf("Archive"))
    <3>1. readsByDevice[d] >= ReadersPerLane /\ archives = readsInProgress["Archive"]
      BY <1>1, <2>3, <2>6, LimitsLeaveRoom, LaneConstants
         DEF IndInv, CapacityAccounted, ReadsAccounted, LaneKind
    <3>2. /\ readsByDevice[d] <= archives + 1
          /\ (local \in DOMAIN lanes => ~lanes[local].reading) => readsByDevice[d] <= archives
      BY <1>2, ReadsOnDevice
    <3>3. archives \in Nat
      BY <1>1, <3>1 DEF LaneKind
    <3>4. key.lane = "Local" => key = local
      BY <2>1 DEF ThumbnailKey
    <3>5. j.lane = "Local" => j = local
      BY <1>5, <2>1 DEF ThumbnailKey
    <3> HIDE DEF archives, local
    <3>6. CASE j.lane = "Local"
      <4>1. key.lane = "Archive" /\ readsByDevice[d] <= archives
        BY <2>1, <2>4, <3>2, <3>4, <3>5, <3>6 DEF ThumbnailKey
      <4> QED BY <1>1, <2>3, <3>1, <3>3, <4>1
    <3>7. CASE j.lane = "Archive" /\ key.lane = "Local"
      <4>1. readsByDevice[d] <= archives
        BY <2>4, <3>2, <3>4, <3>7
      <4>2. readsInProgress[j.lane] >= ReadersPerLane
        BY <1>1, <2>3, <3>1, <3>3, <3>7, <4>1
      <4> QED BY <1>1, <3>7, <4>2 DEF IdleReaders
    <3>8. CASE j.lane = "Archive" /\ key.lane = "Archive"
      <4>1. readsInProgress[j.lane] + 1 >= ReadersPerLane /\ readsInProgress[j.lane] \in Nat
        BY <1>1, <2>3, <3>1, <3>2, <3>3, <3>8
      <4> QED BY <1>1, <3>8, <4>1 DEF IdleReaders
    <3> QED BY <2>1, <3>6, <3>7, <3>8 DEF ThumbnailKey
  <2>7. CASE limit # MaxReadsPerSolidStateDevice /\ readsByDevice[d] + 1 = limit
    <3>1. /\ limit = MaxReadsPerSeekDevice
          /\ key.archive = None /\ j.archive = None
      BY <2>2, <2>7
    <3>2. readsByDevice[d] # 0
      BY <2>3, <2>7, <3>1, LimitsLeaveRoom, LaneConstants
    <3>3. readsByDevice[d] = Cardinality(DeviceReads(d))
      BY <1>2 DEF IndInv, CapacityAccounted, ReadsAccounted
    <3>4. PICK r : r \in DeviceReads(d)
      BY <3>2, <3>3, FS_EmptySet
    <3> DEFINE k == state[r].laneKey
    <3>5. ThumbnailKey(k) /\ k.place = d /\ r \in Request /\ job[r] = "reading"
      BY <3>4, ReadThumbnail DEF DeviceReads, ThumbnailReads
    <3>6. k \in DOMAIN lanes
      BY <3>5 DEF LaneInv, Exactly, Located, Reading
    <3>7. lanes[k].reading
      BY <3>5, <3>6 DEF LaneInv, Exactly, Exact, ReadingOn
    <3>8. k.archive = None
      BY <2>1, <2>7, <3>5, <3>6, LimitOfDevice
    <3> HIDE DEF k
    <3>9. k = key \/ k = j
      <4>1. k.lane = key.lane \/ k.lane = j.lane
        <5>1. key.lane # j.lane
          BY <1>5, <2>1, <3>1 DEF ThumbnailKey
        <5> QED BY <2>1, <3>5, <5>1 DEF ThumbnailKey
      <4> QED BY <1>5, <2>1, <3>1, <3>5, <3>8, <4>1 DEF ThumbnailKey
    <3> QED BY <2>4, <3>7, <3>9
  <2> QED BY <2>2, <2>3, <2>5, <2>6, <2>7
<1> QED BY <1>3, <1>4, <1>5

-----------------------------------------------------------------------------
(***************************************************************************)
(* A take and the slots left to the other kinds.                           *)
(***************************************************************************)

\* The lanes of a kind with work of a higher priority.
Higher(kind, priority) ==
  {key \in AdmissibleLanes(lanes, readsByDevice, kind) :
     Outranks(TopPriority(lanes[key].queue), priority)}

Least(m, n) == IF m < n THEN m ELSE n

AheadNow(kind, priority) == AheadIn(lanes, readsByDevice, readsInProgress, kind, priority)

AheadCounted ==
  \A kind \in LaneKind, priority \in Nat :
    /\ AheadNow(kind, priority) = Least(Cardinality(Higher(kind, priority)), IdleReaders(kind))
    /\ IsFiniteSet(Higher(kind, priority)) /\ Cardinality(Higher(kind, priority)) \in Nat
    /\ IdleReaders(kind) \in Nat /\ AheadNow(kind, priority) \in Nat

\* Ahead of a priority are the lanes with work of a higher one, but no more of them than
\* there are idle readers, ...
LEMMA AheadCounts == IndInv => AheadCounted
<1> SUFFICES ASSUME IndInv, NEW kind \in LaneKind, NEW priority \in Nat
             PROVE  /\ AheadNow(kind, priority) = Least(Cardinality(Higher(kind, priority)), IdleReaders(kind))
                    /\ IsFiniteSet(Higher(kind, priority)) /\ Cardinality(Higher(kind, priority)) \in Nat
                    /\ IdleReaders(kind) \in Nat /\ AheadNow(kind, priority) \in Nat
  BY DEF AheadCounted
<1>1. AheadNow(kind, priority) = Least(Cardinality(Higher(kind, priority)), IdleReaders(kind))
  BY DEF AheadNow, AheadIn, Least, Higher, IdleReaders
<1>2. IsFiniteSet(Higher(kind, priority))
  BY OpenLanesFinite DEF Higher, AdmissibleLanes, Admissible
<1>3. IdleReaders(kind) \in Nat
  BY LaneConstants DEF IdleReaders, IndInv, TypeOK
<1>4. Cardinality(Higher(kind, priority)) \in Nat
  BY <1>2, FS_CardinalityType
<1> QED BY <1>1, <1>2, <1>3, <1>4 DEF Least

\* ... in the next state too.
LEMMA AheadCountsNext == IndInv' => AheadCounted'
BY AheadCounts, PTL

\* The lower the priority, the more is ahead of it.
LEMMA AheadMonotone ==
  ASSUME IndInv, StageInv, NEW kind \in LaneKind, NEW low \in Nat, NEW high \in Nat, low <= high
  PROVE  AheadNow(kind, high) <= AheadNow(kind, low)
<1>1. \A key \in AdmissibleLanes(lanes, readsByDevice, kind) : TopPriority(lanes[key].queue) \in Nat
  BY BetterPriority DEF AdmissibleLanes, Admissible
<1>2. Higher(kind, high) \subseteq Higher(kind, low)
  BY <1>1 DEF Higher, Outranks
<1>3. Cardinality(Higher(kind, high)) <= Cardinality(Higher(kind, low))
  BY <1>2, AheadCounts, FS_Subset DEF AheadCounted
<1> QED BY <1>3, AheadCounts DEF Least, AheadCounted

Taken(key, kind) == IF kind = key.lane THEN 1 ELSE 0

\* A read that begins takes at most one from what is ahead in its own kind, and nothing from
\* what is ahead in another.
LEMMA AheadAfterTake ==
  ASSUME StableRoutes, IndInv, IndInv', LaneInv, StableInv, KeyedByRoute,
         NEW key \in DOMAIN lanes, ReadStarts(key), key.lane \in LaneKind,
         NEW kind \in LaneKind, NEW priority \in Nat
  PROVE  AheadNow(kind, priority) <= AheadNow(kind, priority)' + Taken(key, kind)
<1> DEFINE now  == Higher(kind, priority)
           next == Higher(kind, priority)'
<1>1. /\ AheadNow(kind, priority) = Least(Cardinality(now), IdleReaders(kind))
      /\ IsFiniteSet(now) /\ Cardinality(now) \in Nat /\ IdleReaders(kind) \in Nat
  BY AheadCounts DEF AheadCounted
<1>2. /\ AheadNow(kind, priority)' = Least(Cardinality(next), IdleReaders(kind)')
      /\ IsFiniteSet(next) /\ Cardinality(next) \in Nat
      /\ IdleReaders(kind)' \in Nat /\ AheadNow(kind, priority)' \in Nat
  BY AheadCountsNext DEF AheadCounted, Least
<1>3. IdleReaders(kind)' = IdleReaders(kind) - Taken(key, kind) /\ Taken(key, kind) \in Nat
  <2>1. /\ readsInProgress \in [LaneKind -> Nat] /\ ReadersPerLane \in Nat
        /\ readsInProgress[key.lane] < ReadersPerLane
        /\ readsInProgress' = [readsInProgress EXCEPT ![key.lane] = @ + 1]
    BY LaneConstants DEF ReadStarts, HasIdleReader, IndInv, TypeOK, CapacityAccounted, ReadsAccounted
  <2>2. readsInProgress'[kind] = readsInProgress[kind] + Taken(key, kind) /\ Taken(key, kind) \in Nat
    BY <2>1 DEF Taken
  <2>3. Taken(key, kind) = 0 \/ (readsInProgress[kind] < ReadersPerLane /\ Taken(key, kind) = 1)
    BY <2>1 DEF Taken
    <2> QED BY <2>1, <2>2, <2>3 DEF IdleReaders
<1>4. CASE \A j \in now \ {key} : Admissible(lanes', readsByDevice', j)
  <2>1. now \ {key} \subseteq next
    BY <1>4 DEF Higher, AdmissibleLanes, ReadStarts
  <2>2. Cardinality(now \ {key}) <= Cardinality(next)
    BY <1>2, <2>1, FS_Subset
  <2>3. IsFiniteSet(now \ {key}) /\ Cardinality(now \ {key}) \in Nat
    BY <1>1, FS_RemoveElement, FS_CardinalityType
  <2>4. Cardinality(now) <= Cardinality(now \ {key}) + Taken(key, kind)
    <3>1. CASE key \in now
      <4>1. Taken(key, kind) = 1
        BY <3>1 DEF Higher, AdmissibleLanes, Taken
      <4> HIDE DEF now
      <4> QED BY <1>1, <2>3, <3>1, <4>1, FS_RemoveElement
    <3>2. CASE key \notin now
      <4>1. Cardinality(now \ {key}) = Cardinality(now)
        <5>1. now \ {key} = now
          BY <3>2
        <5> QED BY <5>1
      <4> HIDE DEF now
      <4> QED BY <1>1, <1>3, <4>1
    <3> QED BY <3>1, <3>2
  <2> HIDE DEF now, next
  <2> QED BY <1>1, <1>2, <1>3, <2>2, <2>3, <2>4 DEF Least
<1>5. CASE \E j \in now \ {key} : ~Admissible(lanes', readsByDevice', j)
  <2>1. IdleReaders(kind) <= Taken(key, kind)
    BY <1>5, StillOpen DEF Higher, AdmissibleLanes, Taken
  <2> HIDE DEF now, next
  <2> QED BY <1>1, <1>2, <1>3, <2>1 DEF Least
<1> HIDE DEF now, next
<1> QED BY <1>4, <1>5

\* What SelectThumbnailLane_NoLock counts before it lets a reader of `kind` read at `priority`,
AheadOf(kind, priority) == Ahead(lanes, readsByDevice, readsInProgress, kind, priority)

\* never more than one slot more than what it counts once another kind has begun a read.
LEMMA OthersAheadAfterTake ==
  ASSUME StableRoutes, IndInv, IndInv', StageInv, LaneInv, StableInv, KeyedByRoute,
         NEW key \in DOMAIN lanes, ReadStarts(key), key.lane \in LaneKind,
         NEW kind \in LaneKind \ {key.lane}, NEW low \in Nat, NEW high \in Nat, low <= high
  PROVE  /\ AheadOf(kind, high) <= AheadOf(kind, low)' + 1
         /\ AheadOf(kind, high) \in Nat /\ AheadOf(kind, low)' \in Nat
<1> DEFINE before(other) == IF other = kind THEN 0 ELSE AheadNow(other, high)
           after(other)  == IF other = kind THEN 0 ELSE AheadNow(other, low)'
<1>1. \A other \in LaneKind :
        /\ before(other) <= after(other) + Taken(key, other)
        /\ before(other) \in Nat /\ after(other) \in Nat
  <2> TAKE other \in LaneKind
  <2>1. AheadNow(other, high) \in Nat /\ AheadNow(other, low) \in Nat
    BY AheadCounts DEF AheadCounted
  <2>2. AheadNow(other, low)' \in Nat
    BY AheadCountsNext DEF AheadCounted
  <2>3. AheadNow(other, high) <= AheadNow(other, low)
    BY AheadMonotone
  <2>4. AheadNow(other, low) <= AheadNow(other, low)' + Taken(key, other)
    BY AheadAfterTake
  <2>5. Taken(key, other) \in Nat
    BY DEF Taken
  <2> QED BY <2>1, <2>2, <2>3, <2>4, <2>5
<1>2. /\ AheadOf(kind, high) = before("Local") + before("Archive") + before("Remote")
      /\ AheadOf(kind, low)' = after("Local") + after("Archive") + after("Remote")
  BY DEF AheadOf, Ahead, AheadNow
<1> HIDE DEF before, after
<1>3. /\ Taken(key, "Local") \in Nat /\ Taken(key, "Archive") \in Nat /\ Taken(key, "Remote") \in Nat
      /\ Taken(key, "Local") + Taken(key, "Archive") + Taken(key, "Remote") = 1
  BY DEF Taken, LaneKind
<1>4. /\ before("Local") <= after("Local") + Taken(key, "Local")
      /\ before("Archive") <= after("Archive") + Taken(key, "Archive")
      /\ before("Remote") <= after("Remote") + Taken(key, "Remote")
      /\ before("Local") \in Nat /\ before("Archive") \in Nat /\ before("Remote") \in Nat
      /\ after("Local") \in Nat /\ after("Archive") \in Nat /\ after("Remote") \in Nat
  BY <1>1 DEF LaneKind
<1> QED BY <1>2, <1>3, <1>4

\* So a read that begins gives no other kind a lane it did not have: what it takes from the
\* work ahead of that kind it also takes from the free slots.
LEMMA TakeOpensNothing ==
  ASSUME StableRoutes, IndInv, IndInv', StageInv, LaneInv, StableInv, KeyedByRoute,
         NEW key \in DOMAIN lanes, ReadStarts(key), key.lane \in LaneKind,
         NEW kind \in LaneKind \ {key.lane}, NextThumbnailLane(kind)' # {}
  PROVE  NextThumbnailLane(kind) # {}
<1> DEFINE open == AdmissibleLanes(lanes, readsByDevice, kind)
<1>1. PICK k : /\ k \in DOMAIN lanes' /\ k.lane = kind /\ Admissible(lanes', readsByDevice', k)
               /\ FreeSlots' > 0
               /\ Ahead(lanes', readsByDevice', readsInProgress', kind, TopPriority(lanes'[k].queue))
                    < FreeSlots'
  BY DEF NextThumbnailLane, SelectThumbnailLane, AdmissibleLanes
<1>2. k \in DOMAIN lanes /\ k # key /\ lanes'[k] = lanes[k]
  BY <1>1 DEF ReadStarts
<1>3. FreeSlots = FreeSlots' + 1 /\ FreeSlots' \in Nat
  <2>1. prefetchedTotal \in Nat /\ prefetchReads \in Nat /\ globalPrefetchCap \in Nat
    BY SMTT(60), SchedulerConstants DEF IndInv, TypeOK
  <2>2. /\ prefetchReads' = prefetchReads + 1 /\ prefetchedTotal' = prefetchedTotal
        /\ globalPrefetchCap' = globalPrefetchCap
    BY DEF ReadStarts
  <2> QED BY <1>1, <2>1, <2>2 DEF FreeSlots
<1>4. k \in open
  <2>1. DeviceAdmitted(kind) => readsByDevice[k.place] \in Nat /\ readsByDevice[k.place] <= readsByDevice'[k.place]
    <3>1. k.place \in Devices /\ readsByDevice \in [Devices -> Nat]
      BY <1>2, KeyType DEF IndInv, TypeOK
    <3>2. readsByDevice' = [readsByDevice EXCEPT ![key.place] = @ + 1] \/ readsByDevice' = readsByDevice
      BY DEF ReadStarts
    <3> QED BY <3>1, <3>2
  <2>2. lanes[k].limit \in Nat
    BY <1>2 DEF IndInv, TypeOK, LaneState
  <2>3. kind # "Remote" => readsByDevice'[k.place] \in Nat
    BY <1>2, KeyType DEF IndInv, TypeOK
  <2>4. kind # "Remote" => readsByDevice[k.place] < lanes[k].limit
    BY <1>1, <1>2, <2>1, <2>2, <2>3 DEF Admissible, DeviceAdmitted
  <2> QED BY <1>1, <1>2, <2>4 DEF Admissible, AdmissibleLanes
<1>5. open \subseteq DOMAIN lanes /\ \A j \in open : lanes[j].queue # {}
  BY DEF AdmissibleLanes, Admissible
<1> HIDE DEF open
<1>6. PICK b \in open : \A j \in open \ {b} : Better(lanes[b], lanes[j])
  BY <1>4, <1>5, BestLane
<1>7. /\ TopPriority(lanes[b].queue) \in Nat /\ TopPriority(lanes[k].queue) \in Nat
      /\ ~Outranks(TopPriority(lanes[k].queue), TopPriority(lanes[b].queue))
  BY <1>4, <1>5, <1>6, BetterPriority
<1>8. PICK high \in Nat, low \in Nat : high = TopPriority(lanes[b].queue) /\ low = TopPriority(lanes[k].queue)
  BY <1>7
<1>9. low <= high
  BY <1>7, <1>8 DEF Outranks
<1>10. AheadOf(kind, low)' < FreeSlots'
  BY <1>1, <1>2, <1>8 DEF AheadOf
<1>11. AheadOf(kind, high) <= AheadOf(kind, low)' + 1 /\ AheadOf(kind, high) \in Nat /\ AheadOf(kind, low)' \in Nat
  BY <1>9, OthersAheadAfterTake
<1>12. AheadOf(kind, high) < FreeSlots /\ FreeSlots > 0
  <2>1. \A m, n, free \in Nat : (m <= n + 1 /\ n < free) => (m < free + 1 /\ free + 1 > 0)
    OBVIOUS
  <2>2. AheadOf(kind, high) < FreeSlots' + 1 /\ FreeSlots' + 1 > 0
    BY <1>3, <1>10, <1>11, <2>1
  <2> QED BY <1>3, <2>2
<1> QED BY <1>6, <1>8, <1>12 DEF NextThumbnailLane, SelectThumbnailLane, open, AheadOf

-----------------------------------------------------------------------------
(***************************************************************************)
(* The steps that tell nobody.                                             *)
(***************************************************************************)

\* A pool that finds work after the step found some before it.
OpensNothing == \A pool \in Pool : HasWork(pool)' => HasWork(pool)

\* The parts of that: the lanes of thumbnails, those of main images, the decode queues.
OpensNoLane     == \A kind \in LaneKind : NextThumbnailLane(kind)' # {} => NextThumbnailLane(kind) # {}
OpensNoMainLane == SelectMainLane(lanes, mainReads + mainHeld)' # {} => SelectMainLane(lanes, mainReads + mainHeld) # {}
QueuesNothing   == (highQueue' # <<>> => highQueue # <<>>) /\ (backgroundQueue' # {} => backgroundQueue # {})

\* A step that opens no lane to a reader and queues nothing for a worker gives no pool work.
LEMMA PartsOpenNothing == ASSUME OpensNoLane, OpensNoMainLane, QueuesNothing PROVE OpensNothing
<1> SUFFICES ASSUME NEW pool \in Pool, HasWork(pool)' PROVE HasWork(pool)
  BY DEF OpensNothing
<1>1. CASE pool \in LaneKind
  BY <1>1, PoolsLook, PoolsLookNext DEF WorkOfPools, OpensNoLane
<1>2. CASE pool = "Main"
  BY <1>2, PoolsLook, PoolsLookNext DEF WorkOfPools, OpensNoMainLane
<1>3. CASE pool = "HighPriority"
  BY <1>3, PoolsLook, PoolsLookNext DEF WorkOfPools, QueuesNothing
<1>4. CASE pool \in {"Background", "Shared"}
  BY <1>4, PoolsLook, PoolsLookNext DEF WorkOfPools, QueuesNothing
<1> QED BY <1>1, <1>2, <1>3, <1>4, PoolsLook DEF WorkOfPools, WorkerKind

\* The free slots are a number.
LEMMA SlotsAreNumbers == IndInv => FreeSlots \in Nat
<1> SUFFICES ASSUME IndInv PROVE FreeSlots \in Nat
  OBVIOUS
<1>1. prefetchedTotal \in Nat /\ prefetchReads \in Nat /\ globalPrefetchCap \in Nat
  BY SchedulerConstants DEF IndInv, TypeOK
<1> QED BY <1>1 DEF FreeSlots

\* The free slots are a number in the next state too.
LEMMA SlotsAreNumbersNext == IndInv' => (FreeSlots \in Nat)'
BY SlotsAreNumbers, PTL

\* A step that leaves the thumbnails alone and frees no slot gives no reader a lane.
LEMMA SameThumbnailsOpenNothing ==
  ASSUME IndInv, IndInv', SameThumbnails(lanes', lanes), UNCHANGED <<readsByDevice, readsInProgress>>,
         FreeSlots' <= FreeSlots
  PROVE  OpensNoLane
<1> SUFFICES ASSUME NEW kind \in LaneKind, NextThumbnailLane(kind)' # {} PROVE NextThumbnailLane(kind) # {}
  BY DEF OpensNoLane
<1>1. SelectThumbnailLane(lanes', readsByDevice, readsInProgress, FreeSlots', kind)
        = SelectThumbnailLane(lanes, readsByDevice, readsInProgress, FreeSlots', kind)
  BY SameThumbnailChoice
<1>2. PICK key \in SelectThumbnailLane(lanes, readsByDevice, readsInProgress, FreeSlots', kind) : TRUE
  BY <1>1 DEF NextThumbnailLane
<1> DEFINE ahead == Ahead(lanes, readsByDevice, readsInProgress, kind, TopPriority(lanes[key].queue))
<1>3. ahead \in Nat
  BY NobodyAhead
<1>4. FreeSlots \in Nat /\ FreeSlots' \in Nat
  BY SlotsAreNumbers, SlotsAreNumbersNext
<1>5. FreeSlots' > 0 /\ ahead < FreeSlots'
  BY <1>2 DEF SelectThumbnailLane
<1> HIDE DEF ahead
<1>6. FreeSlots > 0 /\ ahead < FreeSlots
  BY <1>3, <1>4, <1>5
<1> QED BY <1>2, <1>6 DEF NextThumbnailLane, SelectThumbnailLane, ahead

\* Nor does a step that leaves everything but the decode queues and the requests alone.
LEMMA SameTableOpensNothing ==
  ASSUME IndInv, IndInv', SameThumbnails(lanes', lanes), SameMainImages(lanes', lanes), QueuesNothing,
         UNCHANGED <<readsByDevice, readsInProgress, prefetchedTotal, prefetchReads,
                     globalPrefetchCap, mainReads, mainHeld>>
  PROVE  OpensNothing
<1>1. FreeSlots' = FreeSlots /\ FreeSlots \in Nat
  BY SlotsAreNumbers DEF FreeSlots
<1>2. FreeSlots' <= FreeSlots
  BY <1>1
<1>3. OpensNoLane
  BY <1>2, SameThumbnailsOpenNothing
<1>4. OpensNoMainLane
  BY SameMainChoice DEF OpensNoMainLane
<1> QED BY <1>3, <1>4, PartsOpenNothing

\* Lanes that stay hold the same thumbnails and main images.
LEMMA SameLanesSame ==
  ASSUME UNCHANGED lanes PROVE SameThumbnails(lanes', lanes) /\ SameMainImages(lanes', lanes)
BY DEF SameThumbnails, SameMainImages

\* A reader that takes a thumbnail: its own kind had work, and it opens no lane to another.
LEMMA LaneReaderOpensNothing ==
  ASSUME StableRoutes, IndInv, IndInv', StageInv, LaneInv, StableInv, KeyedByRoute,
         NEW kind \in LaneKind, LaneReaderTake(kind)
  PROVE  OpensNothing
<1>1. PICK key \in DOMAIN lanes : key.lane = kind /\ ReadStarts(key)
  BY LaneReaderStarts
<1>2. ASSUME NEW other \in LaneKind, NextThumbnailLane(other)' # {} PROVE NextThumbnailLane(other) # {}
  <2>1. CASE other = kind
    BY <1>1, <2>1 DEF ReadStarts
  <2>2. CASE other # kind
    BY <1>1, <1>2, <2>2, TakeOpensNothing
  <2> QED BY <2>1, <2>2
<1>3. OpensNoLane
  BY <1>2 DEF OpensNoLane
<1>4. OpensNoMainLane
  BY <1>1, SameMainChoice DEF ReadStarts, OpensNoMainLane
<1>5. QueuesNothing
  BY <1>1 DEF ReadStarts, QueuesNothing
<1> QED BY <1>3, <1>4, <1>5, PartsOpenNothing

\* One that takes a main image leaves the thumbnails alone.
LEMMA MainReaderOpensNothing ==
  ASSUME IndInv, IndInv', StageInv, MainReaderTake PROVE OpensNothing
<1>1. /\ SameThumbnails(lanes', lanes)
      /\ UNCHANGED <<readsByDevice, readsInProgress, prefetchReads, prefetchedTotal,
                     globalPrefetchCap, highQueue, backgroundQueue>>
  BY MainReaderLeavesThumbnails
<1>2. FreeSlots' <= FreeSlots
  <2>1. FreeSlots' = FreeSlots
    BY <1>1 DEF FreeSlots
  <2> QED BY <2>1, SlotsAreNumbers
<1>3. OpensNoLane
  BY <1>1, <1>2, SameThumbnailsOpenNothing
<1>4. OpensNoMainLane
  BY DEF MainReaderTake, OpensNoMainLane
<1>5. QueuesNothing
  BY <1>1 DEF QueuesNothing
<1> QED BY <1>3, <1>4, <1>5, PartsOpenNothing

\* A worker that takes a task: a canceled one holds nothing it could give back.
LEMMA WorkerTakeOpensNothing ==
  ASSUME IndInv, IndInv', StageInv, NEW kind \in WorkerKind, WorkerTake(kind)
  PROVE  OpensNothing
<1>1. ASSUME NEW r \in Request, Take(r, kind), job[r] = "none"
      PROVE  UNCHANGED <<lanes, prefetchedTotal, mainHeld>>
  <2> DEFINE s == [state[r] EXCEPT !.queuedIn = "None"]
  <2>1. CASE ~s.canceled
    BY <1>1, <2>1 DEF Take
  <2>2. CASE s.canceled
    <3>1. state[r].canceled
      <4>1. state[r] \in RequestState
        BY DEF IndInv, TypeOK
      <4> QED BY <2>2, <4>1 DEF RequestState
    <3>2. ~state[r].holdsPrefetchSlot /\ ~state[r].holdsMainInput
      BY <1>1, <3>1 DEF StageInv, RequestOK, CanceledFree, WorkerTake
    <3>3. ~s.holdsPrefetchSlot /\ ~s.holdsMainInput
      <4>1. state[r] \in RequestState
        BY DEF IndInv, TypeOK
      <4> QED BY <3>2, <4>1 DEF RequestState
    <3>4. lanes' = ReleasedLanes(lanes, s) /\ ReleaseCounts(s)
      BY <1>1, <2>2 DEF Take
    <3> HIDE DEF s
    <3> QED BY <3>3, <3>4 DEF ReleasedLanes, ReleaseCounts, ReleasesSlot
  <2> QED BY <2>1, <2>2
<1>2. UNCHANGED <<lanes, prefetchedTotal, mainHeld>> /\ QueuesNothing
  <2>1. CASE TakeHigh(kind)
    <3>1. highQueue # <<>> /\ Take(Head(highQueue), kind) /\ backgroundQueue' = backgroundQueue
      BY <2>1 DEF TakeHigh
    <3>2. highQueue \in Seq(Request)
      BY DEF IndInv, TypeOK
    <3>3. 1 \in DOMAIN highQueue /\ Head(highQueue) = highQueue[1] /\ Head(highQueue) \in Request
      BY <3>1, <3>2
    <3>4. job[Head(highQueue)] = "none"
      BY <3>3 DEF IndInv, Queues, HighAgrees
    <3> QED BY <1>1, <3>1, <3>3, <3>4 DEF QueuesNothing
  <2>2. CASE TakeBackground(kind)
    <3>1. PICK e \in backgroundQueue : Take(e.task, kind)
      BY <2>2 DEF TakeBackground
    <3>2. e.task \in Request /\ job[e.task] = "none"
      BY DEF IndInv, TypeOK, Queues, BackgroundAgrees, Waits
    <3>3. highQueue' = highQueue /\ backgroundQueue # {}
      BY <2>2 DEF TakeBackground
    <3> QED BY <1>1, <3>1, <3>2, <3>3 DEF QueuesNothing
  <2> QED BY <2>1, <2>2 DEF WorkerTake
<1> QED BY <1>2, SameLanesSame, SameTableOpensNothing DEF WorkerTake, tuningVars

\* A worker that is done with a task that held nothing.
LEMMA WorkerReleaseOpensNothing ==
  ASSUME IndInv, IndInv', NEW r \in Request, WorkerRelease(r), ~WorkerFrees(r)
  PROVE  OpensNothing
<1>1. UNCHANGED <<lanes, prefetchedTotal, mainHeld>>
  BY DEF WorkerRelease, WorkerFrees, ReleasedLanes, ReleaseCounts, ReleasesSlot
<1>2. UNCHANGED <<readsByDevice, readsInProgress, prefetchReads, mainReads, globalPrefetchCap,
                  highQueue, backgroundQueue>>
  BY DEF WorkerRelease, queueVars, tuningVars
<1> QED BY <1>1, <1>2, SameLanesSame, SameTableOpensNothing DEF QueuesNothing

\* A cancel that frees nothing finds nothing to remove.
LEMMA CancelOpensNothing ==
  ASSUME IndInv, IndInv', LaneInv, NEW r \in Request, Cancel(r), ~CancelFrees(r)
  PROVE  OpensNothing
<1> DEFINE s == state[r]
           key == s.laneKey
<1>1. ~(CancelReleases(s) /\ (s.holdsPrefetchSlot \/ s.holdsMainInput)) /\ ~QueuedInLane(r, s)
  BY DEF CancelFrees, CancelReleases
<1>2. lanes' = Unqueued(r, s) /\ UNCHANGED <<prefetchedTotal, mainHeld>>
  BY <1>1 DEF Cancel
<1>3. UNCHANGED <<readsByDevice, readsInProgress, prefetchReads, mainReads, globalPrefetchCap,
                  highQueue, backgroundQueue>>
  BY DEF Cancel, queueVars, tuningVars
<1>4. SameThumbnails(lanes', lanes) /\ SameMainImages(lanes', lanes)
  <2>1. CASE s.queuedIn = "Io" /\ key \in DOMAIN lanes
    <3> DEFINE less == [lanes EXCEPT ![key].queue = Remove(@, r, s.priority, s.sequence)]
    <3>1. Remove(lanes[key].queue, r, s.priority, s.sequence) = lanes[key].queue
      BY <1>1, <2>1 DEF QueuedInLane, Finds, Remove
    <3>2. lanes' = Reclaim(less, key)
      BY <1>2, <2>1 DEF Unqueued
    <3>3. DOMAIN less = DOMAIN lanes /\ \A k \in DOMAIN lanes : less[k] = lanes[k]
      <4>1. less[key] = [lanes[key] EXCEPT !.queue = lanes[key].queue]
        BY <2>1, <3>1
      <4>2. lanes[key] \in LaneState
        BY <2>1 DEF IndInv, TypeOK
      <4>3. [lanes[key] EXCEPT !.queue = lanes[key].queue] = lanes[key]
        BY <4>2 DEF LaneState
      <4> QED BY <4>1, <4>3
    <3> HIDE DEF less
    <3>4. \A k \in DOMAIN less : ~Idle(less[k])
      BY <3>3 DEF LaneInv
    <3>5. DOMAIN lanes' = DOMAIN lanes /\ \A k \in DOMAIN lanes : lanes'[k] = lanes[k]
      BY <3>2, <3>3, <3>4 DEF Reclaim
    <3> QED BY <3>5 DEF SameThumbnails, SameMainImages
  <2>2. CASE s.queuedIn = "MainIo" /\ key \in DOMAIN lanes
    <3> DEFINE less == [lanes EXCEPT ![key].mainQueue = Remove(@, r, s.priority, s.sequence)]
    <3>1. Remove(lanes[key].mainQueue, r, s.priority, s.sequence) = lanes[key].mainQueue
      BY <1>1, <2>2 DEF QueuedInLane, Finds, Remove
    <3>2. lanes' = Reclaim(less, key)
      BY <1>2, <2>2 DEF Unqueued
    <3>3. DOMAIN less = DOMAIN lanes /\ \A k \in DOMAIN lanes : less[k] = lanes[k]
      <4>1. less[key] = [lanes[key] EXCEPT !.mainQueue = lanes[key].mainQueue]
        BY <2>2, <3>1
      <4>2. lanes[key] \in LaneState
        BY <2>2 DEF IndInv, TypeOK
      <4>3. [lanes[key] EXCEPT !.mainQueue = lanes[key].mainQueue] = lanes[key]
        BY <4>2 DEF LaneState
      <4> QED BY <4>1, <4>3
    <3> HIDE DEF less
    <3>4. \A k \in DOMAIN less : ~Idle(less[k])
      BY <3>3 DEF LaneInv
    <3>5. DOMAIN lanes' = DOMAIN lanes /\ \A k \in DOMAIN lanes : lanes'[k] = lanes[k]
      BY <3>2, <3>3, <3>4 DEF Reclaim
    <3> QED BY <3>5 DEF SameThumbnails, SameMainImages
  <2>3. CASE ~(s.queuedIn = "Io" /\ key \in DOMAIN lanes) /\ ~(s.queuedIn = "MainIo" /\ key \in DOMAIN lanes)
    BY <1>2, <2>3, SameLanesSame DEF Unqueued
  <2> QED BY <2>1, <2>2, <2>3
<1> QED BY <1>2, <1>3, <1>4, SameTableOpensNothing DEF QueuesNothing

\* SetThreadCount's last statement may lower the cap.
LEMMA RetuneOpensNothing ==
  ASSUME IndInv, IndInv', Retune, InitialCap <= globalPrefetchCap PROVE OpensNothing
<1>1. /\ globalPrefetchCap' = InitialCap
      /\ UNCHANGED <<lanes, readsByDevice, readsInProgress, prefetchedTotal, prefetchReads, mainReads,
                     mainHeld, highQueue, backgroundQueue>>
  BY DEF Retune, laneVars, queueVars, prefetchVars, mainVars
<1>2. FreeSlots' <= FreeSlots
  <2>1. prefetchedTotal \in Nat /\ prefetchReads \in Nat /\ globalPrefetchCap \in Nat /\ InitialCap \in Nat
    BY SchedulerConstants DEF IndInv, TypeOK
  <2> QED BY <1>1, <2>1 DEF FreeSlots
<1>3. OpensNoLane
  BY <1>1, <1>2, SameLanesSame, SameThumbnailsOpenNothing
<1>4. OpensNoMainLane
  BY <1>1 DEF OpensNoMainLane
<1>5. QueuesNothing
  BY <1>1 DEF QueuesNothing
<1> QED BY <1>3, <1>4, <1>5, PartsOpenNothing

\* The others touch nothing a pool looks at.
LEMMA OthersOpenNothing ==
  ASSUME IndInv, IndInv',
         UNCHANGED <<laneVars, queueVars, prefetchVars, mainVars, globalPrefetchCap>>
  PROVE  OpensNothing
BY SameLanesSame, SameTableOpensNothing DEF QueuesNothing, laneVars, queueVars, prefetchVars, mainVars

-----------------------------------------------------------------------------
(***************************************************************************)
(* The invariant of the waiting threads.                                   *)
(***************************************************************************)

\* The cap is that of a fresh start or the one the devices seen call for.
CapKnown == globalPrefetchCap \in {InitialCap, CapFor(volumeProfiles)}

\* No step sets another cap than those.
LEMMA CapKnownNext == ASSUME CapKnown, [Next]_vars PROVE CapKnown'
<1>1. ASSUME UNCHANGED tuningVars PROVE CapKnown'
  BY <1>1 DEF CapKnown, tuningVars, CapFor, SlotsOf
<1>2. ASSUME NEW r \in Request, Client(r) PROVE CapKnown'
  <2>1. CASE \E priority \in Priorities, answer \in Answers[r] : EnqueueThumbnail(r, priority, answer)
    <3>1. globalPrefetchCap' = CapFor(volumeProfiles')
      BY <2>1 DEF EnqueueThumbnail
    <3> QED BY <3>1 DEF CapKnown, CapFor, SlotsOf
  <2>2. CASE ~\E priority \in Priorities, answer \in Answers[r] : EnqueueThumbnail(r, priority, answer)
    BY <1>1, <1>2, <2>2 DEF Client, EnqueueLocalMain, EnqueueSlowMain, EnqueueRejected, SetPriority, Cancel
  <2> QED BY <2>1, <2>2
<1>3. ASSUME Reader PROVE CapKnown'
  BY <1>1, <1>3 DEF Reader, LaneReaderTake, MainReaderTake, LaneReaderFinish, MainReaderFinish
<1>4. ASSUME NEW kind \in WorkerKind, WorkerTake(kind) PROVE CapKnown'
  BY <1>1, <1>4 DEF WorkerTake
<1>5. ASSUME NEW r \in Request, WorkerStep(r) PROVE CapKnown'
  BY <1>1, <1>5 DEF WorkerStep, WorkerBegin, WorkerFinish, WorkerDeliver, WorkerRelease
<1>6. ASSUME Lifecycle PROVE CapKnown'
  <2>1. CASE JoinAll \/ Retune
    BY <2>1 DEF JoinAll, Retune, CapKnown
  <2>2. CASE ~(JoinAll \/ Retune)
    BY <1>1, <1>6, <2>2 DEF Lifecycle, BeginStop, SkipStop, ScanLeases, BoundExpires, Reopen
  <2> QED BY <2>1, <2>2
<1>7. ASSUME UNCHANGED vars PROVE CapKnown'
  BY <1>1, <1>7 DEF vars
<1> QED BY <1>2, <1>3, <1>4, <1>5, <1>6, <1>7 DEF Next

\* Each pool counts the threads that wait.
AsleepType == asleep \in [Pool -> Nat]

\* A step that wakes every thread, or leaves a notification due,
LEMMA AnnouncedKeeps ==
  ASSUME AsleepType, NotifyNow \/ NotifySoon \/ Notify
  PROVE  NoneSleepsBesideWork' /\ AsleepType'
<1>1. CASE NotifyNow \/ Notify
  BY <1>1 DEF NotifyNow, Notify, Woken, NoneSleepsBesideWork, AsleepType
<1>2. CASE NotifySoon
  BY <1>2 DEF NotifySoon, NoneSleepsBesideWork, AsleepType
<1> QED BY <1>1, <1>2

\* and one that tells nobody and gives no pool work.
LEMMA SilentKeeps ==
  ASSUME NoneSleepsBesideWork, AsleepType, Silent, OpensNothing, shutdown' => shutdown,
         (globalPrefetchCap <= CapFor(volumeProfiles))' => globalPrefetchCap <= CapFor(volumeProfiles)
  PROVE  NoneSleepsBesideWork' /\ AsleepType'
<1>1. AsleepType'
  BY DEF Silent, AsleepType
<1> SUFFICES ASSUME (globalPrefetchCap <= CapFor(volumeProfiles))', ~due', NEW pool \in Pool,
                    HasWork(pool)' \/ shutdown'
             PROVE  asleep'[pool] = 0
  BY <1>1 DEF NoneSleepsBesideWork
<1>2. HasWork(pool) \/ shutdown
  BY DEF OpensNothing
<1> QED BY <1>2 DEF NoneSleepsBesideWork, Silent

\* Most of these change neither the cap nor m_shutdown.
LEMMA QuietKeeps ==
  ASSUME NoneSleepsBesideWork, AsleepType, Silent, OpensNothing, UNCHANGED <<tuningVars, shutdown>>
  PROVE  NoneSleepsBesideWork' /\ AsleepType'
<1>1. (globalPrefetchCap <= CapFor(volumeProfiles))' => globalPrefetchCap <= CapFor(volumeProfiles)
  BY DEF tuningVars, CapFor, SlotsOf
<1> QED BY <1>1, SilentKeeps

\* What clients do leaves nobody asleep beside work: what gives work announces it.
LEMMA ClientKeepsAwake ==
  ASSUME IndInv, IndInv', LaneInv, AsleepType, NoneSleepsBesideWork, NEW r \in Request, ClientWakes(r)
  PROVE  NoneSleepsBesideWork' /\ AsleepType'
<1>1. CASE NotifySoon
  BY <1>1, AnnouncedKeeps
<1>2. CASE EnqueueRejected(r) /\ Silent
  BY <1>2, OthersOpenNothing, QuietKeeps DEF EnqueueRejected, tuningVars, lifecycleVars
<1>3. CASE Cancel(r) /\ ~CancelFrees(r) /\ Silent
  BY <1>3, CancelOpensNothing, QuietKeeps DEF Cancel, lifecycleVars
<1> QED BY <1>1, <1>2, <1>3 DEF ClientWakes, NotifyIf

\* So do the takes of readers and workers, who are awake themselves, ...
LEMMA TakesKeepAwake ==
  ASSUME StableRoutes, IndInv, IndInv', StageInv, LaneInv, StableInv, KeyedByRoute,
         AsleepType, NoneSleepsBesideWork,
         \/ \E kind \in LaneKind : LaneReaderWakes(kind)
         \/ MainReaderWakes
         \/ \E kind \in WorkerKind : WorkerWakes(kind)
  PROVE  NoneSleepsBesideWork' /\ AsleepType'
<1>1. CASE \E kind \in LaneKind : LaneReaderWakes(kind)
  BY <1>1, LaneReaderOpensNothing, QuietKeeps DEF LaneReaderWakes, LaneReaderTake, lifecycleVars
<1>2. CASE MainReaderWakes
  BY <1>2, MainReaderOpensNothing, QuietKeeps DEF MainReaderWakes, MainReaderTake, lifecycleVars
<1>3. CASE \E kind \in WorkerKind : WorkerWakes(kind)
  <2>1. PICK kind \in WorkerKind : WorkerWakes(kind)
    BY <1>3
  <2>2. WorkerTake(kind) /\ (NotifyNow \/ Silent)
    BY <2>1 DEF WorkerWakes
  <2>3. CASE NotifyNow
    BY <2>3, AnnouncedKeeps
  <2>4. CASE Silent
    BY <2>2, <2>4, WorkerTakeOpensNothing, QuietKeeps DEF WorkerTake, lifecycleVars
  <2> QED BY <2>2, <2>3, <2>4
<1> QED BY <1>1, <1>2, <1>3

\* ... the steps with which they go on, ...
LEMMA ThreadsKeepAwake ==
  ASSUME IndInv, IndInv', AsleepType, NoneSleepsBesideWork,
         NEW r \in Request, ReadEnds(r) \/ WorkerGoesOn(r)
  PROVE  NoneSleepsBesideWork' /\ AsleepType'
<1>1. CASE ReadEnds(r)
  BY <1>1, AnnouncedKeeps DEF ReadEnds
<1>2. CASE (WorkerBegin(r) \/ WorkerFinish(r) \/ WorkerDeliver(r)) /\ Silent
  BY <1>2, OthersOpenNothing, QuietKeeps
     DEF WorkerBegin, WorkerFinish, WorkerDeliver, tuningVars, lifecycleVars
<1>3. CASE WorkerRelease(r) /\ WorkerFrees(r) /\ NotifySoon
  BY <1>3, AnnouncedKeeps
<1>4. CASE WorkerRelease(r) /\ ~WorkerFrees(r) /\ Silent
  BY <1>4, WorkerReleaseOpensNothing, QuietKeeps DEF WorkerRelease, lifecycleVars
<1> QED BY <1>1, <1>2, <1>3, <1>4 DEF WorkerGoesOn, NotifyIf

\* ... those of the scheduler's lifecycle, ...
LEMMA LifecycleKeepsAwake ==
  ASSUME IndInv, IndInv', CapKnown, AsleepType, NoneSleepsBesideWork, LifecycleGoesOn, Silent
  PROVE  NoneSleepsBesideWork' /\ AsleepType'
<1>1. CASE Retune
  <2>1. CASE globalPrefetchCap = InitialCap
    <3>1. UNCHANGED <<tuningVars, shutdown>>
      BY <1>1, <2>1 DEF Retune, tuningVars
    <3>2. InitialCap <= globalPrefetchCap
      BY <2>1, SchedulerConstants
    <3> QED BY <1>1, <3>1, <3>2, RetuneOpensNothing, QuietKeeps
  <2>2. CASE globalPrefetchCap = CapFor(volumeProfiles)
    <3> SUFFICES ASSUME (globalPrefetchCap <= CapFor(volumeProfiles))'
                 PROVE  NoneSleepsBesideWork' /\ AsleepType'
      BY DEF NoneSleepsBesideWork, AsleepType, Silent
    <3>1. InitialCap <= globalPrefetchCap
      BY <1>1, <2>2 DEF Retune, CapFor, SlotsOf
    <3>2. globalPrefetchCap <= CapFor(volumeProfiles)
      BY <2>2, SchedulerConstants DEF IndInv, TypeOK
    <3> QED BY <1>1, <3>1, <3>2, RetuneOpensNothing, SilentKeeps DEF Retune
  <2> QED BY <2>1, <2>2 DEF CapKnown
<1>2. CASE \E count \in ThreadCounts : Reopen(count)
  <2>1. UNCHANGED <<laneVars, queueVars, prefetchVars, mainVars, tuningVars>> /\ ~shutdown'
    BY <1>2 DEF Reopen
  <2>2. (globalPrefetchCap <= CapFor(volumeProfiles))' => globalPrefetchCap <= CapFor(volumeProfiles)
    BY <2>1 DEF tuningVars, CapFor, SlotsOf
  <2> QED BY <2>1, <2>2, OthersOpenNothing, SilentKeeps DEF tuningVars
<1>3. CASE ~Retune /\ ~\E count \in ThreadCounts : Reopen(count)
  <2>1. UNCHANGED <<laneVars, queueVars, prefetchVars, mainVars, tuningVars, shutdown>>
    BY <1>3 DEF LifecycleGoesOn, SkipStop, ScanLeases, BoundExpires
  <2> QED BY <2>1, OthersOpenNothing, QuietKeeps DEF tuningVars
<1> QED BY <1>1, <1>2, <1>3

\* ... and going to sleep, which follows on a look at the work under the same lock.
LEMMA WaitKeepsAwake ==
  ASSUME IndInv, IndInv', AsleepType, NoneSleepsBesideWork, NEW pool \in Pool, Wait(pool)
  PROVE  NoneSleepsBesideWork' /\ AsleepType'
<1>1. UNCHANGED vars /\ ~HasWork(pool) /\ ~shutdown /\ asleep' = [asleep EXCEPT ![pool] = @ + 1] /\ due' = due
  BY DEF Wait, MayWait
<1>2. OpensNothing
  BY <1>1, OthersOpenNothing DEF vars, tuningVars
<1>3. AsleepType'
  BY <1>1 DEF AsleepType
<1> SUFFICES ASSUME (globalPrefetchCap <= CapFor(volumeProfiles))', ~due', NEW other \in Pool,
                    HasWork(other)' \/ shutdown'
             PROVE  asleep'[other] = 0
  BY <1>3 DEF NoneSleepsBesideWork
<1>4. (HasWork(other) \/ shutdown) /\ other # pool
  BY <1>1, <1>2 DEF OpensNothing, vars, lifecycleVars
<1>5. globalPrefetchCap <= CapFor(volumeProfiles)
  BY <1>1 DEF vars, tuningVars, CapFor, SlotsOf
<1>6. asleep[other] = 0
  BY <1>1, <1>4, <1>5 DEF NoneSleepsBesideWork
<1> QED BY <1>1, <1>4, <1>6 DEF AsleepType

\* No step leaves a thread asleep beside work.
LEMMA WakeupNextKeeps ==
  ASSUME StableRoutes, IndInv, IndInv', StageInv, LaneInv, StableInv, KeyedByRoute, CapKnown,
         AsleepType, NoneSleepsBesideWork, [WakeupNext]_wakeupVars
  PROVE  NoneSleepsBesideWork' /\ AsleepType'
<1>1. CASE \E r \in Request : ClientWakes(r)
  BY <1>1, ClientKeepsAwake
<1>2. CASE \/ \E kind \in LaneKind : LaneReaderWakes(kind)
           \/ MainReaderWakes
           \/ \E kind \in WorkerKind : WorkerWakes(kind)
  BY <1>2, TakesKeepAwake
<1>3. CASE \E r \in Request : ReadEnds(r) \/ WorkerGoesOn(r)
  BY <1>3, ThreadsKeepAwake
<1>4. CASE \E pool \in Pool : Wait(pool)
  BY <1>4, WaitKeepsAwake
<1>5. CASE Notify \/ ((\E name \in Calls : BeginStop(name)) /\ NotifySoon)
  BY <1>5, AnnouncedKeeps
<1>6. CASE LifecycleGoesOn /\ Silent
  BY <1>6, LifecycleKeepsAwake
<1>7. CASE JoinThreads
  BY <1>7 DEF JoinThreads, Silent, NoneSleepsBesideWork, AsleepType
<1>8. CASE UNCHANGED wakeupVars
  <2>1. Silent /\ UNCHANGED vars
    BY <1>8 DEF wakeupVars, Silent
  <2> QED BY <2>1, OthersOpenNothing, QuietKeeps DEF vars, tuningVars, lifecycleVars
<1> QED BY <1>1, <1>2, <1>3, <1>4, <1>5, <1>6, <1>7, <1>8 DEF WakeupNext

\* While the topology is stable no thread sleeps beside work it could take, or through a
\* stop, unless a notification is due (DecodeScheduler.cpp, every wait of m_queueCondition):
\* for every number of requests, devices, lanes and threads the limits leave room for.
THEOREM NoneSleeps == ASSUME StableRoutes PROVE WakeupSpec => []NoneSleepsBesideWork
<1>1. WakeupInit => CapKnown /\ AsleepType /\ NoneSleepsBesideWork
  BY DEF WakeupInit, Init, CapKnown, AsleepType, NoneSleepsBesideWork
<1>2. ASSUME IndInv, IndInv', StageInv, LaneInv, StableInv, KeyedByRoute,
             CapKnown, AsleepType, NoneSleepsBesideWork, [WakeupNext]_wakeupVars
      PROVE  (CapKnown /\ AsleepType /\ NoneSleepsBesideWork)'
  <2>1. [Next]_vars
    BY <1>2, WakeupSteps
  <2> QED BY <1>2, <2>1, WakeupNextKeeps, CapKnownNext
<1>3. WakeupSpec => Spec
  BY WakeupIsScheduler
<1>4. Spec => [](IndInv /\ StageInv /\ LaneInv /\ StableInv /\ KeyedByRoute)
  BY Invariant, StageInvariant, LaneInvariant, StableInvariant, LaneIsRouted, PTL
<1> QED BY <1>1, <1>2, <1>3, <1>4, PTL DEF WakeupSpec

================================================================================
