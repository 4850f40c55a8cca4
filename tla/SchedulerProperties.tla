-------------------------- MODULE SchedulerProperties --------------------------
(***************************************************************************)
(* What module DecodeScheduler is checked for.                             *)
(***************************************************************************)
EXTENDS DecodeScheduler

\* The state has the shape the code gives it, and the global cap stays within
\* 1..kMaxPrefetchCap whatever devices are seen.
TypeOK ==
  /\ state \in [Request -> RequestState]
  /\ live \subseteq Request
  /\ DOMAIN lanes \subseteq Keys
  /\ \A key \in DOMAIN lanes : lanes[key] \in LaneState
  /\ highQueue \in Seq(Request)
  /\ backgroundQueue \subseteq [task : Request, priority : Nat, sequence : Nat]
  /\ nextSequence \in Nat
  /\ serviceClock \in Nat
  /\ readsByDevice \in [Devices -> Nat]
  /\ readsInProgress \in [LaneKind -> Nat]
  /\ volumeProfiles \in [Devices -> 0..SolidStateDepth]
  /\ globalPrefetchCap \in 1..MaxPrefetchCap
  /\ prefetchedTotal \in Nat
  /\ prefetchReads \in Nat
  /\ mainReads \in Nat
  /\ mainHeld \in Nat
  /\ shutdown \in BOOLEAN
  /\ threadCount \in 1..MaxDecodeWorkers
  /\ joinPending \in BOOLEAN
  /\ call \in Calls \cup {"none"}
  /\ stage \in {"idle", "scan", "join", "reopen", "retune"}
  /\ stops \in Nat
  /\ changes \in Nat
  /\ job \in [Request -> Job]
  /\ worker \in [Request -> WorkerKind \cup {None}]
  /\ bytesHold \in [Request -> BOOLEAN]
  /\ outcome \in [Request -> Outcome]

-----------------------------------------------------------------------------
(***************************************************************************)
(* Capacity.                                                               *)
(***************************************************************************)

ThumbnailReads == {r \in Request : job[r] = "reading"}
SlotHolders    == {r \in Request : state[r].holdsPrefetchSlot}
InputHolders   == {r \in Request : state[r].holdsMainInput}

DeviceReads(d) ==
  {r \in ThumbnailReads : DeviceAdmitted(state[r].laneKey.lane) /\ state[r].laneKey.place = d}

ReadsAccounted ==
  /\ prefetchReads = Cardinality(ThumbnailReads)
  /\ mainReads = Cardinality(MainReadsOn)
  /\ \A kind \in LaneKind : readsInProgress[kind] = Cardinality(ReadsOf(kind))
  /\ \A d \in Devices : readsByDevice[d] = Cardinality(DeviceReads(d))

HeldAccounted ==
  /\ prefetchedTotal = Cardinality(SlotHolders)
  /\ mainHeld = Cardinality(InputHolders)

\* Every capacity count of the scheduler is the number of requests that really
\* hold it, through reads, cancels, releases, failed joins and restarts: none
\* leaks (prefetch would slow down for good) and none is given back twice (the
\* saturating decrements of ReleasePrefetch_NoLock would hide it).
CapacityAccounted == ReadsAccounted /\ HeldAccounted

\* Requests whose file is in memory, or being read into it: a worker keeps the
\* bytes through its own reference until it has given the capacity back.
ThumbnailBytes ==
  {r \in Request \ MainImage : job[r] = "reading" \/ state[r].prefetched \/ bytesHold[r]}
MainImageBytes ==
  {r \in MainImage : job[r] = "mainReading" \/ state[r].prefetched \/ bytesHold[r]}

\* The memory bound of the design note in DecodeScheduler.h: whatever restarts
\* and topology changes do to the cap, at most kMaxPrefetchCap thumbnail files
\* and kMainImageInputCap main-image inputs are being read or belong to a task or
\* worker at once.  (What a canceled read left with its reader and what only the
\* cache refers to come on top: module PrefetchedBytes.)
BytesBounded ==
  /\ Cardinality(ThumbnailBytes) <= MaxPrefetchCap
  /\ Cardinality(MainImageBytes) <= MainImageInputCap

\* The topology is stable: routes to one lane agree on its depth and its limit, those of
\* the lanes admitted against one device on the limit, and those that count for one
\* device on the depth.
StableRoutes ==
  \A a, b \in Routes :
    /\ a.key = b.key => a.depth = b.depth /\ a.limit = b.limit
    /\ (DeviceAdmitted(a.key.lane) /\ DeviceAdmitted(b.key.lane) /\ a.key.place = b.key.place)
         => a.limit = b.limit
    /\ a.device = b.device => a.depth = b.depth

\* While the topology is stable and the scheduler not restarted, thumbnail
\* bytes and reads stay within the current global cap, and those of one lane
\* within its device's depth.
PrefetchWithinCap ==
  /\ Cardinality(ThumbnailBytes) <= globalPrefetchCap
  /\ \A key \in DOMAIN lanes :
       Cardinality({r \in ThumbnailBytes : state[r].laneKey = key}) <= lanes[key].depth

\* No device serves more thumbnail reads at once than the largest admission
\* limit of the lanes alive on it.
DeviceReadsBounded ==
  \A d \in Devices :
    DeviceReads(d) # {} =>
      \E key \in DOMAIN lanes :
        key.place = d /\ Cardinality(DeviceReads(d)) <= lanes[key].limit

\* The global cap is the sum of the depths of the devices seen (at most
\* kMaxPrefetchCap) once any device has been: the invariant the member comment
\* of DecodeScheduler.h states for m_volumeProfiles and m_globalPrefetchCap.
CapIsSumOfDepths ==
  SlotsOf(volumeProfiles) # {} => globalPrefetchCap = CapFor(volumeProfiles)

-----------------------------------------------------------------------------
(***************************************************************************)
(* Where a request is.                                                     *)
(***************************************************************************)

InLane(r)       == {key \in DOMAIN lanes : \E e \in lanes[key].queue : e.task = r}
InMainLane(r)   == {key \in DOMAIN lanes : \E e \in lanes[key].mainQueue : e.task = r}
InHigh(r)       == {i \in DOMAIN highQueue : highQueue[i] = r}
InBackground(r) == {e \in backgroundQueue : e.task = r}

Places(r) ==
  Cardinality(InLane(r)) + Cardinality(InMainLane(r)) + Cardinality(InHigh(r))
    + Cardinality(InBackground(r)) + (IF job[r] = "none" THEN 0 ELSE 1)

\* A request accepted and not settled is in exactly one queue or one thread's
\* hands: none is lost between the stages, none is worked on twice.  A settled
\* one is nowhere, but for the worker that still has to release its bytes.
InOnePlace ==
  \A r \in Request :
    /\ outcome[r] = "pending" => Places(r) = 1
    /\ outcome[r] \in {"new", "rejected"} => Places(r) = 0
    /\ outcome[r] \in Settled => Places(r) = (IF job[r] = "releasing" THEN 1 ELSE 0)

\* Cancel and SetPriority find a queued task by recomputing its key: the key it
\* is queued under is always the request's current priority and sequence, in
\* the queue its state names.
KeyedByState(queue, r, queuedIn) ==
  \A e \in queue : e.task = r =>
    /\ e.priority = state[r].priority /\ e.sequence = state[r].sequence
    /\ state[r].queuedIn = queuedIn

QueueKeysCurrent ==
  \A r \in Request :
    /\ \A key \in DOMAIN lanes :
         /\ KeyedByState(lanes[key].queue, r, "Io")
         /\ KeyedByState(lanes[key].mainQueue, r, "MainIo")
         /\ key \in InLane(r) \cup InMainLane(r) => state[r].laneKey = key
    /\ KeyedByState(backgroundQueue, r, "Decode")

\* A lane is alive exactly while something is queued, read or held there: a
\* reader always finds the lane it read for (m_lanes.at), and no idle lane
\* lingers.  Its flags and its count of holders are those of its requests.
LanesExact ==
  /\ \A key \in DOMAIN lanes :
       /\ ~Idle(lanes[key])
       /\ LET busy(kind) == {r \in Request : job[r] = kind /\ state[r].laneKey = key}
          IN  /\ Cardinality(busy("reading")) = (IF lanes[key].reading THEN 1 ELSE 0)
              /\ Cardinality(busy("mainReading")) = (IF lanes[key].mainReading THEN 1 ELSE 0)
       /\ lanes[key].held = Cardinality({r \in SlotHolders : state[r].laneKey = key})
  /\ \A r \in Request : job[r] \in Reading \/ state[r].holdsPrefetchSlot =>
       state[r].laneKey \in DOMAIN lanes

\* The live table holds exactly the tracked requests that are still wanted and
\* not yet decided (a stop leaves the canceled ones in it until they are met).
LiveExact ==
  LET undecided == {r \in Tracked : outcome[r] = "pending" /\ job[r] # "delivering"}
  IN  /\ live \subseteq undecided
      /\ ~shutdown => live = {r \in undecided : ~state[r].canceled}

-----------------------------------------------------------------------------
(***************************************************************************)
(* Cancellation, slow sources, shutdown.                                   *)
(***************************************************************************)

\* Canceled work cannot hold back prefetch: while the scheduler runs, a canceled
\* request that no thread holds has no slot, no main input and no bytes, and
\* waits in no lane.
CanceledHoldNothing ==
  \A r \in Request :
    state[r].canceled /\ job[r] = "none" /\ ~shutdown =>
      /\ ~state[r].holdsPrefetchSlot /\ ~state[r].holdsMainInput
      /\ ~state[r].prefetched /\ ~bytesHold[r]
      /\ InLane(r) \cup InMainLane(r) = {}

\* A decode worker never reopens a slow source: an Archive or Remote request is
\* decoded only from bytes a reader attached to it, so a slow or failed read
\* can never block a worker.
SlowDecodesHaveBytes ==
  \A r \in Request : job[r] = "decoding" /\ Slow(r) => bytesHold[r]

\* When Shutdown (or a Shutdown(bound) that returned true) is over, no request
\* is pending and no thread works on one; only then may the scheduler reopen.
StoppedIsQuiet ==
  shutdown /\ ~joinPending /\ stage \in {"idle", "reopen"} =>
    \A r \in Request : job[r] = "none" /\ outcome[r] # "pending"

-----------------------------------------------------------------------------
(***************************************************************************)
(* Admission.                                                              *)
(***************************************************************************)

HasIdleReader(kind) == Cardinality(ReadsOf(kind)) < ReadersPerLane

CanRead(kind) ==
  HasIdleReader(kind) /\ AdmissibleLanes(lanes, readsByDevice, kind) # {}

\* Leaving the last slots to other readers never leaves them to nobody: while a
\* slot is free and some idle reader has an admissible lane, one of the readers
\* can take one.
AdmissionNeverStalls ==
  FreeSlots > 0 /\ (\E kind \in LaneKind : CanRead(kind)) =>
    \E kind \in LaneKind : HasIdleReader(kind) /\ NextThumbnailLane(kind) # {}

\* The last free slot goes to the highest priority an idle reader can start,
\* across lane kinds (a lower-priority read elsewhere does not take it).
LastSlotToTopPriority ==
  [][\A r \in Request :
       FreeSlots = 1 /\ job[r] = "none" /\ job'[r] = "reading" =>
         \A kind \in LaneKind : HasIdleReader(kind) =>
           \A key \in AdmissibleLanes(lanes, readsByDevice, kind) :
             TopPriority(lanes[key].queue) <= state[r].priority]_vars

-----------------------------------------------------------------------------
(***************************************************************************)
(* The promise to clients, and progress.                                   *)
(***************************************************************************)

Promise == INSTANCE RequestLifecycle WITH
  open     <- ~shutdown,
  status   <- [r \in Request |-> IF job[r] = "delivering" THEN "due" ELSE outcome[r]],
  canceled <- {r \in Request : /\ outcome[r] = "pending" /\ job[r] # "delivering"
                               /\ state[r].canceled}

Run == INSTANCE SchedulerRun WITH
  accepting <- ~shutdown,
  stopping  <- stage \in {"scan", "join"},
  busy      <- \E r \in Request : job[r] # "none",
  calling   <- {r \in Request : job[r] = "delivering"}

\* What a client is promised: delivered at most once or dropped, only for a reason,
\* never after a cancel or a stop was seen, and nothing carried over a restart.
KeepsPromise == Promise!Spec

\* What ImageLoader has of the scheduler: threads find work and callbacks begin only while requests
\* are accepted, a stop ends once all threads have, or leaves them to the next one.
KeepsRun == Run!Spec

\* The scheduler implements both: the life cycle of a request, and its own.
ImplementsLifecycle == KeepsPromise /\ KeepsRun

Pending == {r \in Request : outcome[r] = "pending"}

\* With sources that answer, every accepted request is delivered or dropped,
\* unless a stop intervenes: no admission wait, priority rule or cancel strands
\* one.  (A request is enqueued once, so where all settle each does.)
AcceptedSettles ==
  EverySourceAnswers => (Pending # {} ~> (Pending = {} \/ shutdown))

\* The point of the lanes: even if Archive and Remote reads never end, every
\* Local request settles.
LocalNeverWaitsForSlow ==
  \A r \in Request :
    ~Slow(r) /\ outcome[r] = "pending" ~> (outcome[r] \in Settled \/ shutdown)

\* With sources that answer, a lifecycle call ends, whatever was queued, read or
\* decoded when it began.
StopCompletes == EverySourceAnswers => (call # "none" ~> call = "none")
================================================================================
