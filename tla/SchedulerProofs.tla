----------------------------- MODULE SchedulerProofs -----------------------------
(***************************************************************************)
(* Theorems of DecodeScheduler for every value of its constants: the types,*)
(* the capacity accounting and the memory bound, and that a queued task is *)
(* found under its current key.  All rest on the invariant IndInv.         *)
(***************************************************************************)
EXTENDS SchedulerInvariant, TLAPS, FiniteSetTheorems

-----------------------------------------------------------------------------
(***************************************************************************)
(* Routes, keys and devices.                                               *)
(***************************************************************************)

\* Whatever the topology query answers, a route names a lane of one of the three
\* kinds, a depth no larger than the deepest, and a limit.
LEMMA RouteType ==
  ASSUME NEW r \in Request, NEW answer \in Answers[r]
  PROVE  LET route == RouteOf(r, answer)
         IN  /\ route.key \in Keys
             /\ route.key.lane \in LaneKind
             /\ route.device \in Devices
             /\ route.depth \in Nat /\ route.depth \in 0..SolidStateDepth
             /\ route.limit \in Nat
<1> DEFINE route == RouteOf(r, answer)
<1>1. route \in Routes
  BY DEF Routes, RoutesOf
<1>2. route.key \in Keys /\ route.device \in Devices
  BY <1>1 DEF Keys, Devices
<1>3. /\ route.key.lane \in LaneKind
      /\ route.depth \in 0..SolidStateDepth
      /\ route.limit \in Nat
  <2>1. CASE IoLaneFor(Source[r].kind) = "Remote"
    BY <2>1, LaneConstants DEF RouteOf, RouteFor, RemoteRoute, Key, LaneKind
  <2>2. CASE IoLaneFor(Source[r].kind) # "Remote"
    BY <2>2, LaneConstants
       DEF RouteOf, RouteFor, DeviceRoute, IoLaneFor, Key, LaneKind
  <2> QED BY <2>1, <2>2
<1> QED BY <1>2, <1>3, LaneConstants

\* Where a lane's requests are read: its key is a known key, its place a known device.
LEMMA KeyType ==
  ASSUME NEW key \in Keys
  PROVE  key.lane \in LaneKind /\ key.place \in Devices
<1>1. PICK r \in Request : \E answer \in Answers[r] : key = RouteOf(r, answer).key
  BY DEF Keys, Routes, RoutesOf
<1> QED BY <1>1, RouteType DEF Devices

\* Finitely many requests and answers make finitely many devices.
LEMMA DevicesFinite == IsFiniteSet(Devices)
<1>1. \A r \in Request : IsFiniteSet(RoutesOf(r))
  <2> SUFFICES ASSUME NEW r \in Request PROVE IsFiniteSet(RoutesOf(r))
    OBVIOUS
  <2> DEFINE f == [answer \in Answers[r] |-> RouteOf(r, answer)]
  <2>1. f \in Surjection(Answers[r], RoutesOf(r))
    BY DEF Surjection, RoutesOf
  <2> QED BY <2>1, FS_Surjection, SchedulerConstants
<1>2. IsFiniteSet(Routes)
  <2> DEFINE RR == {RoutesOf(r) : r \in Request}
             f  == [r \in Request |-> RoutesOf(r)]
  <2>1. f \in Surjection(Request, RR)
    BY DEF Surjection
  <2>2. IsFiniteSet(RR)
    BY <2>1, FS_Surjection, SchedulerConstants
  <2>3. \A S \in RR : IsFiniteSet(S)
    BY <1>1
  <2>4. IsFiniteSet(UNION RR)
    BY <2>2, <2>3, FS_UNION
  <2> QED BY <2>4 DEF Routes
<1>3. IsFiniteSet({route.device : route \in Routes})
  <2> DEFINE T == {route.device : route \in Routes}
             f == [route \in Routes |-> route.device]
  <2>1. f \in Surjection(Routes, T)
    BY DEF Surjection
  <2> QED BY <1>2, <2>1, FS_Surjection
<1>4. IsFiniteSet({route.key.place : route \in Routes})
  <2> DEFINE T == {route.key.place : route \in Routes}
             f == [route \in Routes |-> route.key.place]
  <2>1. f \in Surjection(Routes, T)
    BY DEF Surjection
  <2> QED BY <1>2, <2>1, FS_Surjection
<1>5. Devices = {route.device : route \in Routes} \cup {route.key.place : route \in Routes}
  BY DEF Devices, Keys
<1> QED BY <1>3, <1>4, <1>5, FS_Union

\* Whatever devices are seen, the global cap is in range.
LEMMA CapRange ==
  ASSUME NEW profiles
  PROVE  CapFor(profiles) \in 1..MaxPrefetchCap
<1> DEFINE Depths == 1..SolidStateDepth
<1>0. IsFiniteSet(Depths)
  BY FS_Interval, LaneConstants
<1> HIDE DEF Depths
<1>1. IsFiniteSet(Devices \X Depths)
  BY <1>0, DevicesFinite, FS_Product
<1> USE DEF Depths
<1>2. SlotsOf(profiles) \subseteq Devices \X (1..SolidStateDepth)
  BY DEF SlotsOf
<1>3. Cardinality(SlotsOf(profiles)) \in Nat
  BY <1>1, <1>2, FS_Subset, FS_CardinalityType
<1> QED BY <1>3, SchedulerConstants DEF CapFor

-----------------------------------------------------------------------------
(***************************************************************************)
(* Sets of requests: one more, one less, no change.                        *)
(***************************************************************************)

\* Requests can be counted: every set of them is finite.
LEMMA RequestsFinite ==
  ASSUME NEW S, S \subseteq Request
  PROVE  IsFiniteSet(S) /\ Cardinality(S) \in Nat
BY SchedulerConstants, FS_Subset, FS_CardinalityType

\* A count goes up by one with the request that joins the set,
LEMMA OneMore ==
  ASSUME NEW S, NEW T, S \subseteq Request, NEW r \in Request,
         r \notin S, T = S \cup {r}
  PROVE  Cardinality(T) = Cardinality(S) + 1
BY RequestsFinite, FS_AddElement

\* and down by one with the request that leaves it.
LEMMA OneLess ==
  ASSUME NEW S, NEW T, S \subseteq Request, NEW r \in S,
         T = S \ {r}
  PROVE  Cardinality(S) > 0 /\ Cardinality(T) = Cardinality(S) - 1
<1>1. IsFiniteSet(S) /\ Cardinality(S) \in Nat
  BY RequestsFinite
<1>2. Cardinality(S) # 0
  BY <1>1, FS_EmptySet
<1> QED BY <1>1, <1>2, FS_RemoveElement, SMTT(60)

\* A union holds at most what its parts hold.
LEMMA UnionBound ==
  ASSUME NEW S, NEW T, NEW U, S \subseteq Request, T \subseteq Request,
         U \subseteq S \cup T
  PROVE  Cardinality(U) <= Cardinality(S) + Cardinality(T)
<1>1. /\ IsFiniteSet(S) /\ Cardinality(S) \in Nat
      /\ IsFiniteSet(T) /\ Cardinality(T) \in Nat
      /\ Cardinality(S \cap T) \in Nat /\ IsFiniteSet(S \cup T)
      /\ Cardinality(S \cup T) \in Nat /\ Cardinality(U) \in Nat
  BY RequestsFinite
<1>2. Cardinality(S \cup T) = Cardinality(S) + Cardinality(T) - Cardinality(S \cap T)
  BY <1>1, FS_Union
<1>3. Cardinality(U) <= Cardinality(S \cup T)
  BY <1>1, FS_Subset
<1> QED BY <1>1, <1>2, <1>3

-----------------------------------------------------------------------------
(***************************************************************************)
(* What an action leaves alone keeps its part of the invariant.            *)
(***************************************************************************)

\* Reads that go on keep their counts.
LEMMA ReadsFrame ==
  ASSUME ReadsAccounted,
         \A q \in Request :
           /\ job'[q] = "reading" <=> job[q] = "reading"
           /\ job'[q] = "mainReading" <=> job[q] = "mainReading"
           /\ job[q] = "reading" => state'[q].laneKey = state[q].laneKey,
         UNCHANGED <<prefetchReads, mainReads, readsInProgress, readsByDevice>>
  PROVE  ReadsAccounted'
<1>1. ThumbnailReads' = ThumbnailReads
  BY DEF ThumbnailReads
<1>2. MainReadsOn' = MainReadsOn
  BY DEF MainReadsOn
<1>3. \A kind \in LaneKind : ReadsOf(kind)' = ReadsOf(kind)
  BY DEF ReadsOf
<1>4. \A d \in Devices : DeviceReads(d)' = DeviceReads(d)
  BY <1>1 DEF DeviceReads, ThumbnailReads
<1> QED BY <1>1, <1>2, <1>3, <1>4 DEF ReadsAccounted

\* Capacity nobody takes or gives back keeps its counts.
LEMMA HeldFrame ==
  ASSUME HeldAccounted,
         \A q \in Request :
           /\ state'[q].holdsPrefetchSlot = state[q].holdsPrefetchSlot
           /\ state'[q].holdsMainInput = state[q].holdsMainInput,
         UNCHANGED <<prefetchedTotal, mainHeld>>
  PROVE  HeldAccounted'
BY DEF HeldAccounted, SlotHolders, InputHolders

\* Of the requests outside `moved`, those that wait in some queue go on waiting.
Undisturbed(moved) ==
  \A q \in Request \ moved :
    job[q] = "none" /\ outcome[q] = "pending" =>
      /\ job'[q] = "none" /\ outcome'[q] = "pending"
      /\ state'[q].queuedIn = state[q].queuedIn
      /\ state'[q].priority = state[q].priority
      /\ state'[q].sequence = state[q].sequence
      /\ state'[q].laneKey = state[q].laneKey

\* Every lane left is an old one, with no new entry and none of `moved`.
LanesOnlyLose(moved) ==
  \A key \in DOMAIN lanes' :
    /\ key \in DOMAIN lanes
    /\ lanes'[key].queue \subseteq {e \in lanes[key].queue : e.task \notin moved}
    /\ lanes'[key].mainQueue \subseteq {e \in lanes[key].mainQueue : e.task \notin moved}

\* Lane queues that lose entries at most, none of a request the step touches,
\* still agree.
LEMMA LaneQueuesFrame ==
  ASSUME NEW moved, TypeOK, LaneQueuesAgree, Undisturbed(moved), LanesOnlyLose(moved)
  PROVE  LaneQueuesAgree'
<1>1. ASSUME NEW key \in DOMAIN lanes', NEW e \in lanes'[key].queue
      PROVE  /\ Waits(e, "Io")' /\ state'[e.task].laneKey = key
             /\ e.task \notin MainImage
  <2>1. /\ key \in DOMAIN lanes /\ e \in lanes[key].queue /\ e.task \notin moved
    BY <1>1 DEF LanesOnlyLose
  <2>2. e.task \in Request
    BY <2>1 DEF TypeOK, LaneState
  <2>3. Waits(e, "Io") /\ state[e.task].laneKey = key /\ e.task \notin MainImage
    BY <2>1 DEF LaneQueuesAgree
  <2> QED BY <2>1, <2>2, <2>3 DEF Undisturbed, Waits
<1>2. ASSUME NEW key \in DOMAIN lanes', NEW e \in lanes'[key].mainQueue
      PROVE  /\ Waits(e, "MainIo")' /\ state'[e.task].laneKey = key
             /\ e.task \in MainImage
  <2>1. /\ key \in DOMAIN lanes /\ e \in lanes[key].mainQueue /\ e.task \notin moved
    BY <1>2 DEF LanesOnlyLose
  <2>2. e.task \in Request
    BY <2>1 DEF TypeOK, LaneState
  <2>3. Waits(e, "MainIo") /\ state[e.task].laneKey = key /\ e.task \in MainImage
    BY <2>1 DEF LaneQueuesAgree
  <2> QED BY <2>1, <2>2, <2>3 DEF Undisturbed, Waits
<1> QED BY <1>1, <1>2 DEF LaneQueuesAgree

\* The same of the background queue,
LEMMA BackgroundFrame ==
  ASSUME NEW moved, TypeOK, BackgroundAgrees, Undisturbed(moved),
         backgroundQueue' \subseteq {e \in backgroundQueue : e.task \notin moved}
  PROVE  BackgroundAgrees'
<1> SUFFICES ASSUME NEW e \in backgroundQueue' PROVE Waits(e, "Decode")'
  BY DEF BackgroundAgrees
<1>1. e \in backgroundQueue /\ e.task \notin moved /\ e.task \in Request
  BY DEF TypeOK
<1> QED BY <1>1 DEF BackgroundAgrees, Waits, Undisturbed

\* and of the high queue.
LEMMA HighFrame ==
  ASSUME NEW moved, TypeOK, HighAgrees, Undisturbed(moved), highQueue' = highQueue,
         \A i \in DOMAIN highQueue : highQueue[i] \notin moved
  PROVE  HighAgrees'
<1>1. \A i \in DOMAIN highQueue : highQueue[i] \in Request
  BY DEF TypeOK
<1> QED BY <1>1 DEF HighAgrees, Undisturbed

\* A pending request in no queue can be appended to the high queue.
LEMMA HighPush ==
  ASSUME NEW r \in Request, TypeOK, HighAgrees, Undisturbed({r}),
         highQueue' = Append(highQueue, r),
         \A i \in DOMAIN highQueue : highQueue[i] # r,
         job'[r] = "none", outcome'[r] = "pending", state'[r].queuedIn = "None"
  PROVE  HighAgrees' /\ highQueue' \in Seq(Request)
<1>1. highQueue \in Seq(Request) /\ \A i \in DOMAIN highQueue : highQueue[i] \in Request
  BY DEF TypeOK
<1>2. /\ DOMAIN highQueue' = 1..(Len(highQueue) + 1)
      /\ DOMAIN highQueue = 1..Len(highQueue) /\ Len(highQueue) \in Nat
      /\ highQueue'[Len(highQueue) + 1] = r
      /\ \A i \in DOMAIN highQueue : highQueue'[i] = highQueue[i]
  BY <1>1
<1>3. \A i \in DOMAIN highQueue' : i \in DOMAIN highQueue \/ i = Len(highQueue) + 1
  BY <1>2
<1> QED BY <1>1, <1>2, <1>3 DEF HighAgrees, Undisturbed

\* A request in a thread's hands, or not yet accepted, is in no queue.
LEMMA BusyInNoQueue ==
  ASSUME Queues, NEW r, job[r] # "none" \/ outcome[r] # "pending"
  PROVE  /\ \A key \in DOMAIN lanes :
              \A e \in lanes[key].queue \cup lanes[key].mainQueue : e.task # r
         /\ \A e \in backgroundQueue : e.task # r
         /\ \A i \in DOMAIN highQueue : highQueue[i] # r
BY DEF Queues, LaneQueuesAgree, BackgroundAgrees, HighAgrees, Waits

\* So a step of such a request alone disturbs no queue.
LEMMA QueuesFrame ==
  ASSUME NEW moved, TypeOK, Queues, Undisturbed(moved),
         \A r \in moved : job[r] # "none" \/ outcome[r] # "pending",
         UNCHANGED <<highQueue, backgroundQueue>>,
         LanesOnlyLose({})
  PROVE  Queues'
<1>1. LanesOnlyLose(moved)
  BY BusyInNoQueue DEF LanesOnlyLose
<1>2. /\ \A e \in backgroundQueue : e.task \notin moved
      /\ \A i \in DOMAIN highQueue : highQueue[i] \notin moved
  BY BusyInNoQueue
<1>3. LaneQueuesAgree'
  BY <1>1, LaneQueuesFrame DEF Queues
<1>4. BackgroundAgrees'
  BY <1>2, BackgroundFrame DEF Queues
<1>5. HighAgrees'
  BY <1>2, HighFrame DEF Queues
<1> QED BY <1>3, <1>4, <1>5 DEF Queues

-----------------------------------------------------------------------------
(***************************************************************************)
(* The lane table.                                                         *)
(***************************************************************************)

LanesTyped(table) ==
  DOMAIN table \subseteq Keys /\ \A key \in DOMAIN table : table[key] \in LaneState

\* Reclaiming a lane removes it or leaves the table as it is;
LEMMA ReclaimKeeps ==
  ASSUME NEW table, NEW key
  PROVE  /\ DOMAIN Reclaim(table, key) \subseteq DOMAIN table
         /\ \A k \in DOMAIN Reclaim(table, key) : Reclaim(table, key)[k] = table[k]
BY DEF Reclaim

\* what is left of a typed table is typed.
LEMMA ReclaimTyped ==
  ASSUME NEW table, NEW key, LanesTyped(table)
  PROVE  LanesTyped(Reclaim(table, key))
BY ReclaimKeeps DEF LanesTyped

\* Giving capacity back touches no queue.
LEMMA ReleasedLanesKeep ==
  ASSUME NEW table, NEW s, LanesTyped(table)
  PROVE  /\ LanesTyped(ReleasedLanes(table, s))
         /\ \A k \in DOMAIN ReleasedLanes(table, s) :
              /\ k \in DOMAIN table
              /\ ReleasedLanes(table, s)[k].queue = table[k].queue
              /\ ReleasedLanes(table, s)[k].mainQueue = table[k].mainQueue
<1> DEFINE key  == s.laneKey
           less == [table EXCEPT ![key].held = Dec(@)]
<1>1. CASE ReleasesSlot(s) /\ key \in DOMAIN table
  <2>1. ReleasedLanes(table, s) = Reclaim(less, key)
    BY <1>1 DEF ReleasedLanes
  <2>2. DOMAIN less = DOMAIN table
    OBVIOUS
  <2>3. \A k \in DOMAIN table : k # key => less[k] = table[k]
    OBVIOUS
  <2>4. less[key] = [table[key] EXCEPT !.held = Dec(table[key].held)]
    BY <1>1
  <2>5. /\ less[key] \in LaneState
        /\ less[key].queue = table[key].queue
        /\ less[key].mainQueue = table[key].mainQueue
    BY <1>1, <2>4 DEF LanesTyped, LaneState, Dec
  <2>6. LanesTyped(less)
    BY <2>2, <2>3, <2>5 DEF LanesTyped
  <2> HIDE DEF less
  <2> QED BY <2>1, <2>2, <2>3, <2>5, <2>6, ReclaimKeeps, ReclaimTyped
<1>2. CASE ~(ReleasesSlot(s) /\ key \in DOMAIN table)
  BY <1>2 DEF ReleasedLanes
<1> QED BY <1>1, <1>2

-----------------------------------------------------------------------------
(***************************************************************************)
(* Capacity given back, reads begun and reads ended.                       *)
(***************************************************************************)

\* ReleasePrefetch_NoLock gives back what request r holds, once.
LEMMA HeldRelease ==
  ASSUME TypeOK, Holders, HeldAccounted, NEW r \in Request, NEW s,
         s.holdsPrefetchSlot = state[r].holdsPrefetchSlot,
         s.holdsMainInput = state[r].holdsMainInput,
         ReleaseCounts(s),
         ~state'[r].holdsPrefetchSlot, ~state'[r].holdsMainInput,
         \A q \in Request \ {r} :
           /\ state'[q].holdsPrefetchSlot = state[q].holdsPrefetchSlot
           /\ state'[q].holdsMainInput = state[q].holdsMainInput
  PROVE  /\ HeldAccounted'
         /\ prefetchedTotal' \in Nat /\ prefetchedTotal' <= prefetchedTotal
         /\ mainHeld' \in Nat /\ mainHeld' <= mainHeld
<1>1. /\ prefetchedTotal \in Nat /\ mainHeld \in Nat
      /\ state[r].holdsPrefetchSlot \in BOOLEAN /\ state[r].holdsMainInput \in BOOLEAN
      /\ ~(state[r].holdsPrefetchSlot /\ state[r].holdsMainInput)
  BY DEF TypeOK, RequestState, Holders, HoldsRightly
<1>2. /\ SlotHolders' = SlotHolders \ {r} /\ SlotHolders \subseteq Request
      /\ InputHolders' = InputHolders \ {r} /\ InputHolders \subseteq Request
  BY DEF SlotHolders, InputHolders
<1>3. CASE state[r].holdsPrefetchSlot
  <2>1. r \in SlotHolders /\ InputHolders' = InputHolders
    BY <1>1, <1>2, <1>3 DEF SlotHolders, InputHolders
  <2>2. prefetchedTotal > 0 /\ Cardinality(SlotHolders') = prefetchedTotal - 1
    BY <1>2, <2>1, OneLess DEF HeldAccounted
  <2> QED BY <1>1, <1>3, <2>1, <2>2 DEF HeldAccounted, ReleaseCounts, ReleasesSlot, Dec
<1>4. CASE state[r].holdsMainInput
  <2>1. r \in InputHolders /\ SlotHolders' = SlotHolders
    BY <1>1, <1>2, <1>4 DEF SlotHolders, InputHolders
  <2>2. mainHeld > 0 /\ Cardinality(InputHolders') = mainHeld - 1
    BY <1>2, <2>1, OneLess DEF HeldAccounted
  <2> QED BY <1>1, <1>4, <2>1, <2>2 DEF HeldAccounted, ReleaseCounts, ReleasesSlot, Dec
<1>5. CASE ~state[r].holdsPrefetchSlot /\ ~state[r].holdsMainInput
  <2>1. SlotHolders' = SlotHolders /\ InputHolders' = InputHolders
    BY <1>2, <1>5 DEF SlotHolders, InputHolders
  <2> QED BY <1>1, <1>5, <2>1 DEF HeldAccounted, ReleaseCounts, ReleasesSlot
<1> QED BY <1>3, <1>4, <1>5

\* Fewer held and as many read stay within the caps.
LEMMA WithinCapsFrame ==
  ASSUME TypeOK, WithinCaps,
         UNCHANGED <<prefetchReads, mainReads>>,
         prefetchedTotal' \in Nat, prefetchedTotal' <= prefetchedTotal,
         mainHeld' \in Nat, mainHeld' <= mainHeld
  PROVE  WithinCaps'
<1>1. /\ prefetchReads \in Nat /\ mainReads \in Nat
      /\ prefetchedTotal \in Nat /\ mainHeld \in Nat
  BY DEF TypeOK
<1>2. MaxPrefetchCap \in Nat /\ MainImageInputCap \in Nat
  BY SchedulerConstants, LaneConstants
<1>3. PICK total \in Nat, held \in Nat : prefetchedTotal' = total /\ mainHeld' = held
  OBVIOUS
<1> QED BY <1>1, <1>2, <1>3 DEF WithinCaps

-----------------------------------------------------------------------------
(***************************************************************************)
(* The initial states.                                                     *)
(***************************************************************************)

\* The state Enqueue makes has the type of a request's state.
LEMMA FreshType == Fresh \in RequestState
BY DEF Fresh, RequestState, Stage

\* The constructor's state: nothing is queued, read or held.
LEMMA InitInv == Init => IndInv
<1> SUFFICES ASSUME Init PROVE IndInv
  OBVIOUS
<1>1. TypeOK
  <2>1. state \in [Request -> RequestState]
    BY FreshType DEF Init
  <2>2. highQueue \in Seq(Request)
    BY DEF Init
  <2>3. DOMAIN lanes = {}
    BY DEF Init
  <2>4. /\ readsByDevice \in [Devices -> Nat]
        /\ readsInProgress \in [LaneKind -> Nat]
        /\ volumeProfiles \in [Devices -> 0..SolidStateDepth]
    BY LaneConstants DEF Init
  <2>5. globalPrefetchCap \in 1..MaxPrefetchCap /\ threadCount \in 1..MaxDecodeWorkers
    BY SchedulerConstants DEF Init
  <2>6. /\ job \in [Request -> Job] /\ worker \in [Request -> WorkerKind \cup {None}]
        /\ bytesHold \in [Request -> BOOLEAN] /\ outcome \in [Request -> Outcome]
    BY DEF Init, Job, Outcome
  <2>7. /\ live \subseteq Request /\ backgroundQueue = {}
        /\ nextSequence \in Nat /\ serviceClock \in Nat
        /\ prefetchedTotal \in Nat /\ prefetchReads \in Nat
        /\ mainReads \in Nat /\ mainHeld \in Nat
        /\ shutdown \in BOOLEAN /\ joinPending \in BOOLEAN
        /\ call = "none" /\ stage = "idle" /\ stops \in Nat /\ changes \in Nat
    BY DEF Init
  <2> QED BY <2>1, <2>2, <2>3, <2>4, <2>5, <2>6, <2>7 DEF TypeOK
<1>2. Holders
  BY DEF Init, Holders, HoldsRightly, HoldsNothingYet, Fresh, Reading
<1>3. Queues
  BY DEF Init, Queues, LaneQueuesAgree, BackgroundAgrees, HighAgrees
<1>4. CapacityAccounted
  <2>1. /\ ThumbnailReads = {} /\ MainReadsOn = {}
        /\ SlotHolders = {} /\ InputHolders = {}
        /\ \A kind \in LaneKind : ReadsOf(kind) = {}
        /\ \A d \in Devices : DeviceReads(d) = {}
    BY DEF Init, ThumbnailReads, MainReadsOn, SlotHolders, InputHolders, ReadsOf,
           DeviceReads, Fresh
  <2> QED BY <2>1, FS_EmptySet
          DEF Init, CapacityAccounted, ReadsAccounted, HeldAccounted
<1>5. WithinCaps
  BY SchedulerConstants, LaneConstants DEF Init, WithinCaps
<1> QED BY <1>1, <1>2, <1>3, <1>4, <1>5 DEF IndInv

-----------------------------------------------------------------------------
(***************************************************************************)
(* Every action keeps the invariant: first the lifecycle calls.            *)
(***************************************************************************)

\* All the invariant but the types is about requests, lanes, queues and counts.
LEMMA CountersStep ==
  ASSUME IndInv, TypeOK',
         UNCHANGED <<requestVars, laneVars, highQueue, backgroundQueue,
                     prefetchVars, mainVars>>
  PROVE  IndInv'
<1> USE DEF requestVars, laneVars, prefetchVars, mainVars
<1>1. Holders'
  BY DEF IndInv, Holders, HoldsRightly, HoldsNothingYet
<1>2. Queues'
  BY DEF IndInv, Queues, LaneQueuesAgree, BackgroundAgrees, HighAgrees, Waits
<1>3. ReadsAccounted'
  BY ReadsFrame DEF IndInv, CapacityAccounted
<1>4. HeldAccounted'
  BY HeldFrame DEF IndInv, CapacityAccounted
<1>5. WithinCaps'
  BY DEF IndInv, WithinCaps
<1> QED BY <1>1, <1>2, <1>3, <1>4, <1>5 DEF IndInv, CapacityAccounted

\* SetThreadCount of a stopped scheduler only moves to its reopening.
LEMMA SkipStopInv == ASSUME IndInv, SkipStop PROVE IndInv'
<1>1. TypeOK'
  BY DEF IndInv, TypeOK, SkipStop, BeginCall, Calls, requestVars, laneVars, queueVars,
         tuningVars, prefetchVars, mainVars
<1> QED BY <1>1, CountersStep DEF SkipStop, queueVars

\* A Shutdown(bound) that gives up only leaves the threads owned.
LEMMA BoundExpiresInv == ASSUME IndInv, BoundExpires PROVE IndInv'
<1>1. TypeOK'
  BY DEF IndInv, TypeOK, BoundExpires, requestVars, laneVars, queueVars,
         tuningVars, prefetchVars, mainVars
<1> QED BY <1>1, CountersStep DEF BoundExpires, queueVars

\* SetThreadCount reopens with a worker count within its range,
LEMMA ReopenInv == ASSUME IndInv, NEW count \in ThreadCounts, Reopen(count) PROVE IndInv'
<1>1. Clamp(count) \in 1..MaxDecodeWorkers
  BY SchedulerConstants DEF Clamp
<1>2. TypeOK'
  BY <1>1 DEF IndInv, TypeOK, Reopen, requestVars, laneVars, queueVars,
         tuningVars, prefetchVars, mainVars
<1> QED BY <1>2, CountersStep DEF Reopen, queueVars

\* and with a cap within its range.
LEMMA RetuneInv == ASSUME IndInv, Retune PROVE IndInv'
<1>1. TypeOK'
  BY SchedulerConstants DEF IndInv, TypeOK, Retune, requestVars, laneVars, queueVars,
         prefetchVars, mainVars
<1> QED BY <1>1, CountersStep DEF Retune, queueVars

\* Marking requests canceled changes nothing the invariant speaks of.
LEMMA CancelMarks ==
  ASSUME IndInv, NEW marked,
         state' = [r \in Request |->
                     IF r \in marked THEN [state[r] EXCEPT !.canceled = TRUE] ELSE state[r]],
         shutdown' \in BOOLEAN, call' \in Calls \cup {"none"}, stops' \in Nat,
         stage' \in {"idle", "scan", "join", "reopen", "retune"},
         UNCHANGED <<live, job, worker, bytesHold, outcome, laneVars, queueVars,
                     tuningVars, prefetchVars, mainVars, threadCount, joinPending,
                     changes>>
  PROVE  IndInv'
<1> USE DEF laneVars, queueVars, tuningVars, prefetchVars, mainVars
<1>1. ASSUME NEW r \in Request
      PROVE  /\ state'[r] \in RequestState
             /\ state'[r].decoding = state[r].decoding
             /\ state'[r].prefetched = state[r].prefetched
             /\ state'[r].holdsPrefetchSlot = state[r].holdsPrefetchSlot
             /\ state'[r].holdsMainInput = state[r].holdsMainInput
             /\ state'[r].laneKey = state[r].laneKey
             /\ state'[r].priority = state[r].priority
             /\ state'[r].sequence = state[r].sequence
             /\ state'[r].queuedIn = state[r].queuedIn
  <2>1. state[r] \in RequestState
    BY DEF IndInv, TypeOK
  <2> QED BY <2>1 DEF RequestState
<1>2. TypeOK'
  <2>1. state' \in [Request -> RequestState]
    BY <1>1
  <2> QED BY <2>1 DEF IndInv, TypeOK
<1>3. Holders'
  BY <1>1 DEF IndInv, Holders, HoldsRightly, HoldsNothingYet
<1>4. Queues'
  <2>1. Undisturbed({})
    BY <1>1 DEF Undisturbed
  <2>2. LanesOnlyLose({})
    BY DEF LanesOnlyLose
  <2> QED BY <2>1, <2>2, QueuesFrame DEF IndInv
<1>5. ReadsAccounted'
  BY <1>1, ReadsFrame DEF IndInv, CapacityAccounted
<1>6. HeldAccounted'
  BY <1>1, HeldFrame DEF IndInv, CapacityAccounted
<1>7. WithinCaps'
  BY DEF IndInv, WithinCaps
<1> QED BY <1>2, <1>3, <1>4, <1>5, <1>6, <1>7 DEF IndInv, CapacityAccounted

\* A stop cancels the live requests,
LEMMA BeginStopInv == ASSUME IndInv, NEW name \in Calls, BeginStop(name) PROVE IndInv'
<1>1. stops' \in Nat
  BY DEF IndInv, TypeOK, BeginStop, BeginCall
<1> QED BY <1>1, CancelMarks DEF BeginStop, BeginCall

\* and its lease scan the registered reads.
LEMMA ScanLeasesInv ==
  ASSUME IndInv, NEW registered, ScanLeases(registered) PROVE IndInv'
<1>1. stops' \in Nat /\ call' \in Calls \cup {"none"} /\ shutdown' \in BOOLEAN
  BY DEF IndInv, TypeOK, ScanLeases
<1> QED BY <1>1, CancelMarks DEF ScanLeases

\* The join resets everything; nothing is read or held by then.
LEMMA JoinAllInv == ASSUME IndInv, JoinAll PROVE IndInv'
<1>1. TypeOK'
  <2>1. /\ state' \in [Request -> RequestState]
        /\ outcome' \in [Request -> Outcome]
    BY FreshType DEF IndInv, TypeOK, JoinAll, Outcome
  <2>2. DOMAIN lanes' = {} /\ highQueue' \in Seq(Request)
    BY DEF JoinAll
  <2>3. /\ readsByDevice' \in [Devices -> Nat]
        /\ readsInProgress' \in [LaneKind -> Nat]
        /\ volumeProfiles' \in [Devices -> 0..SolidStateDepth]
        /\ globalPrefetchCap' \in 1..MaxPrefetchCap
    BY SchedulerConstants, LaneConstants DEF JoinAll
  <2>4. /\ call' \in Calls \cup {"none"} /\ stage' \in {"idle", "reopen"}
        /\ joinPending' \in BOOLEAN /\ shutdown' \in BOOLEAN
        /\ stops' \in Nat /\ changes' \in Nat /\ threadCount' \in 1..MaxDecodeWorkers
        /\ nextSequence' \in Nat
    BY DEF IndInv, TypeOK, JoinAll
  <2>5. /\ job' \in [Request -> Job] /\ worker' \in [Request -> WorkerKind \cup {None}]
        /\ bytesHold' \in [Request -> BOOLEAN]
    BY DEF IndInv, TypeOK, JoinAll
  <2>6. /\ live' \subseteq Request /\ backgroundQueue' = {} /\ serviceClock' \in Nat
        /\ prefetchedTotal' \in Nat /\ prefetchReads' \in Nat
        /\ mainReads' \in Nat /\ mainHeld' \in Nat
    BY DEF JoinAll
  <2> QED BY <2>1, <2>2, <2>3, <2>4, <2>5, <2>6 DEF TypeOK
<1>2. \A r \in Request : state'[r] = Fresh /\ job'[r] = "none" /\ ~bytesHold'[r]
  <2>1. \A r \in Request : bytesHold[r] \in BOOLEAN /\ HoldsRightly(r)
    BY DEF IndInv, TypeOK, Holders
  <2> QED BY <2>1 DEF JoinAll, AllExited, HoldsRightly
<1>3. Holders'
  BY <1>2 DEF Holders, HoldsRightly, HoldsNothingYet, Fresh, Reading
<1>4. Queues'
  BY DEF JoinAll, Queues, LaneQueuesAgree, BackgroundAgrees, HighAgrees
<1>5. CapacityAccounted'
  <2>1. /\ ThumbnailReads' = {} /\ MainReadsOn' = {}
        /\ SlotHolders' = {} /\ InputHolders' = {}
        /\ \A kind \in LaneKind : ReadsOf(kind)' = {}
        /\ \A d \in Devices : DeviceReads(d)' = {}
    BY <1>2 DEF ThumbnailReads, MainReadsOn, SlotHolders, InputHolders, ReadsOf,
           DeviceReads, Fresh
  <2> QED BY <2>1, FS_EmptySet
          DEF JoinAll, CapacityAccounted, ReadsAccounted, HeldAccounted
<1>6. WithinCaps'
  BY SchedulerConstants, LaneConstants DEF JoinAll, WithinCaps
<1> QED BY <1>1, <1>3, <1>4, <1>5, <1>6 DEF IndInv

-----------------------------------------------------------------------------
(***************************************************************************)
(* The decode workers.                                                     *)
(***************************************************************************)

\* A worker goes on with the request it holds.
LEMMA WorkerMoves ==
  ASSUME IndInv, NEW r \in Request, NEW to \in Job \ (Reading \cup {"none"}),
         job[r] \notin Reading \cup {"none"},
         job' = [job EXCEPT ![r] = to],
         live' \subseteq live,
         outcome' \in [Request -> Outcome],
         \A q \in Request : outcome'[q] = "new" => outcome[q] = "new",
         \A q \in Request \ {r} : outcome'[q] = outcome[q],
         UNCHANGED <<state, worker, bytesHold, laneVars, queueVars,
                     tuningVars, prefetchVars, mainVars, lifecycleVars>>
  PROVE  IndInv'
<1> USE DEF laneVars, queueVars, tuningVars, prefetchVars, mainVars, lifecycleVars
<1>1. /\ job \in [Request -> Job]
      /\ job'[r] = to /\ \A q \in Request \ {r} : job'[q] = job[q]
  BY DEF IndInv, TypeOK
<1>2. TypeOK'
  <2>1. job' \in [Request -> Job]
    BY <1>1
  <2> QED BY <2>1 DEF IndInv, TypeOK
<1>3. Holders'
  BY <1>1 DEF IndInv, Holders, HoldsRightly, HoldsNothingYet, Reading
<1>4. Queues'
  <2>1. Undisturbed({r})
    BY <1>1 DEF Undisturbed
  <2>2. LanesOnlyLose({})
    BY DEF LanesOnlyLose
  <2> QED BY <2>1, <2>2, QueuesFrame DEF IndInv
<1>5. ReadsAccounted'
  BY <1>1, ReadsFrame DEF IndInv, CapacityAccounted, Reading
<1>6. HeldAccounted'
  BY HeldFrame DEF IndInv, CapacityAccounted
<1>7. WithinCaps'
  BY DEF IndInv, WithinCaps
<1> QED BY <1>2, <1>3, <1>4, <1>5, <1>6, <1>7 DEF IndInv, CapacityAccounted

\* A worker looks at the flags,
LEMMA WorkerBeginInv == ASSUME IndInv, NEW r \in Request, WorkerBegin(r) PROVE IndInv'
<1>1. BeginsAs(r) \in Job \ (Reading \cup {"none"})
  BY DEF BeginsAs, Job, Reading
<1>2. outcome' \in [Request -> Outcome]
  BY DEF IndInv, TypeOK, WorkerBegin
<1>3. job[r] \notin Reading \cup {"none"} /\ job' = [job EXCEPT ![r] = BeginsAs(r)]
  BY DEF WorkerBegin, MoveWorker, Reading
<1> QED BY <1>1, <1>2, <1>3, WorkerMoves DEF WorkerBegin

\* decides on the delivery,
LEMMA WorkerFinishInv == ASSUME IndInv, NEW r \in Request, WorkerFinish(r) PROVE IndInv'
<1> DEFINE to == IF Delivers(r) THEN "delivering" ELSE "releasing"
<1>1. to \in Job \ (Reading \cup {"none"})
  BY DEF Job, Reading
<1>2. /\ outcome' \in [Request -> Outcome]
      /\ \A q \in Request \ {r} : outcome'[q] = outcome[q]
      /\ \A q \in Request : outcome'[q] = "new" => outcome[q] = "new"
  BY DEF IndInv, TypeOK, WorkerFinish, Outcome
<1>3. job[r] \notin Reading \cup {"none"} /\ job' = [job EXCEPT ![r] = to]
  BY DEF WorkerFinish, MoveWorker, Reading
<1>4. live' \subseteq live
  BY DEF WorkerFinish, Finish
<1> HIDE DEF to
<1> QED BY <1>1, <1>2, <1>3, <1>4, WorkerMoves DEF WorkerFinish

\* calls back,
LEMMA WorkerDeliverInv == ASSUME IndInv, NEW r \in Request, WorkerDeliver(r) PROVE IndInv'
<1>1. "releasing" \in Job \ (Reading \cup {"none"})
  BY DEF Job, Reading
<1>2. /\ outcome' \in [Request -> Outcome]
      /\ \A q \in Request \ {r} : outcome'[q] = outcome[q]
      /\ \A q \in Request : outcome'[q] = "new" => outcome[q] = "new"
  BY DEF IndInv, TypeOK, WorkerDeliver, Outcome
<1>3. job[r] \notin Reading \cup {"none"} /\ job' = [job EXCEPT ![r] = "releasing"]
  BY DEF WorkerDeliver, MoveWorker, Reading
<1> QED BY <1>1, <1>2, <1>3, WorkerMoves DEF WorkerDeliver

\* What the worker's request held is given back as it lets go of the bytes.
\* and gives back what the request holds, once.
LEMMA WorkerReleaseInv == ASSUME IndInv, NEW r \in Request, WorkerRelease(r) PROVE IndInv'
<1> USE DEF queueVars, tuningVars, lifecycleVars
<1>1. /\ job[r] = "releasing"
      /\ job' = [job EXCEPT ![r] = "none"]
      /\ state' = [state EXCEPT ![r] = Fresh]
      /\ bytesHold' = [bytesHold EXCEPT ![r] = FALSE]
  BY DEF WorkerRelease, MoveWorker
<1>2. /\ job'[r] = "none" /\ state'[r] = Fresh /\ bytesHold'[r] = FALSE
      /\ \A q \in Request \ {r} : /\ job'[q] = job[q] /\ state'[q] = state[q]
                                  /\ bytesHold'[q] = bytesHold[q]
  BY <1>1 DEF IndInv, TypeOK
<1>3. lanes' = ReleasedLanes(lanes, state[r]) /\ ReleaseCounts(state[r])
  BY DEF WorkerRelease
<1>4. LanesTyped(lanes') /\ LanesOnlyLose({})
  <2>1. LanesTyped(lanes)
    BY DEF IndInv, TypeOK, LanesTyped
  <2> QED BY <1>3, <2>1, ReleasedLanesKeep DEF LanesOnlyLose
<1>5. /\ HeldAccounted'
      /\ prefetchedTotal' \in Nat /\ prefetchedTotal' <= prefetchedTotal
      /\ mainHeld' \in Nat /\ mainHeld' <= mainHeld
  BY <1>2, <1>3, HeldRelease DEF IndInv, CapacityAccounted, Fresh
<1>6. TypeOK'
  <2>1. /\ state' \in [Request -> RequestState] /\ job' \in [Request -> Job]
        /\ worker' \in [Request -> WorkerKind \cup {None}]
        /\ bytesHold' \in [Request -> BOOLEAN]
    BY <1>1, FreshType DEF IndInv, TypeOK, Job, WorkerRelease
  <2> QED BY <1>4, <1>5, <2>1 DEF IndInv, TypeOK, WorkerRelease, LanesTyped
<1>7. Holders'
  <2>1. ASSUME NEW q \in Request PROVE HoldsRightly(q)' /\ HoldsNothingYet(q)'
    <3>1. CASE q = r
      BY <1>2, <3>1 DEF HoldsRightly, HoldsNothingYet, Fresh, Reading
    <3>2. CASE q # r
      BY <1>2, <3>2 DEF IndInv, Holders, HoldsRightly, HoldsNothingYet, WorkerRelease
    <3> QED BY <3>1, <3>2
  <2> QED BY <2>1 DEF Holders
<1>8. Queues'
  <2>1. Undisturbed({r})
    BY <1>2 DEF Undisturbed, WorkerRelease
  <2> QED BY <1>1, <1>4, <2>1, QueuesFrame DEF IndInv, WorkerRelease
<1>9. ReadsAccounted'
  BY <1>1, <1>2, ReadsFrame DEF IndInv, CapacityAccounted, WorkerRelease
<1>10. WithinCaps'
  BY <1>5, WithinCapsFrame DEF IndInv, WorkerRelease
<1> QED BY <1>5, <1>6, <1>7, <1>8, <1>9, <1>10 DEF IndInv, CapacityAccounted

-----------------------------------------------------------------------------
(***************************************************************************)
(* Enqueue.                                                                *)
(***************************************************************************)

\* Lane queues that gain nothing but an entry of r, which now waits there.
LEMMA LaneQueuesGain ==
  ASSUME NEW r, TypeOK, LaneQueuesAgree, Undisturbed({r}),
         \A key \in DOMAIN lanes' :
           /\ \A e \in lanes'[key].queue :
                \/ key \in DOMAIN lanes /\ e \in lanes[key].queue /\ e.task # r
                \/ /\ e.task = r /\ Waits(e, "Io")'
                   /\ state'[r].laneKey = key /\ r \notin MainImage
           /\ \A e \in lanes'[key].mainQueue :
                \/ key \in DOMAIN lanes /\ e \in lanes[key].mainQueue /\ e.task # r
                \/ /\ e.task = r /\ Waits(e, "MainIo")'
                   /\ state'[r].laneKey = key /\ r \in MainImage
  PROVE  LaneQueuesAgree'
<1>1. ASSUME NEW key \in DOMAIN lanes', NEW e \in lanes'[key].queue
      PROVE  /\ Waits(e, "Io")' /\ state'[e.task].laneKey = key
             /\ e.task \notin MainImage
  <2>1. CASE key \in DOMAIN lanes /\ e \in lanes[key].queue /\ e.task # r
    <3>1. /\ e.task \in Request
          /\ Waits(e, "Io") /\ state[e.task].laneKey = key /\ e.task \notin MainImage
      BY <2>1 DEF LaneQueuesAgree, TypeOK, LaneState
    <3> QED BY <2>1, <3>1 DEF Undisturbed, Waits
  <2> QED BY <1>1, <2>1
<1>2. ASSUME NEW key \in DOMAIN lanes', NEW e \in lanes'[key].mainQueue
      PROVE  /\ Waits(e, "MainIo")' /\ state'[e.task].laneKey = key
             /\ e.task \in MainImage
  <2>1. CASE key \in DOMAIN lanes /\ e \in lanes[key].mainQueue /\ e.task # r
    <3>1. /\ e.task \in Request
          /\ Waits(e, "MainIo") /\ state[e.task].laneKey = key /\ e.task \in MainImage
      BY <2>1 DEF LaneQueuesAgree, TypeOK, LaneState
    <3> QED BY <2>1, <3>1 DEF Undisturbed, Waits
  <2> QED BY <1>2, <2>1
<1> QED BY <1>1, <1>2 DEF LaneQueuesAgree

\* What every accepted request has in common.
LEMMA AcceptKeeps ==
  ASSUME IndInv, NEW r \in Request, NEW priority \in Nat,
         NEW key \in Keys \cup {None}, NEW queuedIn \in Stage,
         Accept(r, priority, key, queuedIn)
  PROVE  /\ state' \in [Request -> RequestState] /\ outcome' \in [Request -> Outcome]
         /\ live' \subseteq Request /\ nextSequence' \in Nat
         /\ job'[r] = "none" /\ outcome'[r] = "pending"
         /\ state'[r].priority = priority /\ state'[r].sequence = nextSequence'
         /\ state'[r].laneKey = key /\ state'[r].queuedIn = queuedIn
         /\ job[r] # "none" \/ outcome[r] # "pending"
         /\ Undisturbed({r}) /\ Holders' /\ CapacityAccounted' /\ WithinCaps'
<1> DEFINE s == [Fresh EXCEPT !.priority = priority, !.sequence = nextSequence',
                              !.laneKey = key, !.queuedIn = queuedIn]
<1>1. nextSequence' \in Nat /\ nextSequence \in Nat
  BY DEF Accept, IndInv, TypeOK
<1>2. /\ s \in RequestState
      /\ s.priority = priority /\ s.sequence = nextSequence'
      /\ s.laneKey = key /\ s.queuedIn = queuedIn
      /\ ~s.prefetched /\ ~s.holdsPrefetchSlot /\ ~s.holdsMainInput
  BY <1>1 DEF Fresh, RequestState
<1>3. state' = [state EXCEPT ![r] = s]
  BY DEF Accept
<1> HIDE DEF s
<1>4. /\ outcome[r] = "new" /\ outcome'[r] = "pending" /\ state'[r] = s
      /\ \A q \in Request \ {r} : outcome'[q] = outcome[q] /\ state'[q] = state[q]
      /\ UNCHANGED <<job, worker, bytesHold>>
  BY <1>3 DEF Accept, IndInv, TypeOK
<1>5. /\ job[r] = "none" /\ ~bytesHold[r]
      /\ ~state[r].holdsPrefetchSlot /\ ~state[r].holdsMainInput
  <2>1. HoldsRightly(r) /\ HoldsNothingYet(r) /\ bytesHold[r] \in BOOLEAN
    BY DEF IndInv, Holders, TypeOK
  <2> QED BY <1>4, <2>1 DEF HoldsRightly, HoldsNothingYet
<1>6. state' \in [Request -> RequestState]
  BY <1>2, <1>3 DEF IndInv, TypeOK
<1>7. outcome' \in [Request -> Outcome] /\ live' \subseteq Request
  BY DEF Accept, IndInv, TypeOK, Outcome
<1>8. Undisturbed({r})
  BY <1>4 DEF Undisturbed
<1>9. Holders'
  <2>1. ASSUME NEW q \in Request PROVE HoldsRightly(q)' /\ HoldsNothingYet(q)'
    <3>1. CASE q = r
      BY <1>2, <1>4, <1>5, <3>1 DEF HoldsRightly, HoldsNothingYet, Reading
    <3>2. CASE q # r
      BY <1>4, <3>2 DEF IndInv, Holders, HoldsRightly, HoldsNothingYet
    <3> QED BY <3>1, <3>2
  <2> QED BY <2>1 DEF Holders
<1>10. ReadsAccounted'
  BY <1>4, <1>5, ReadsFrame DEF IndInv, CapacityAccounted, Accept, prefetchVars, mainVars
<1>11. HeldAccounted'
  <2>1. \A q \in Request : /\ state'[q].holdsPrefetchSlot = state[q].holdsPrefetchSlot
                           /\ state'[q].holdsMainInput = state[q].holdsMainInput
    <3>1. /\ s.holdsPrefetchSlot = FALSE /\ s.holdsMainInput = FALSE
          /\ state[r].holdsPrefetchSlot = FALSE /\ state[r].holdsMainInput = FALSE
      BY <1>2, <1>5 DEF IndInv, TypeOK, RequestState
    <3> QED BY <1>4, <3>1
  <2> QED BY <2>1, HeldFrame DEF IndInv, CapacityAccounted, Accept, prefetchVars, mainVars
<1>12. WithinCaps'
  BY DEF IndInv, WithinCaps, Accept, prefetchVars, mainVars
<1> QED BY <1>1, <1>2, <1>4, <1>5, <1>6, <1>7, <1>8, <1>9, <1>10, <1>11, <1>12
        DEF CapacityAccounted

\* Enqueue after a stop touches nothing but the client's answer.
LEMMA EnqueueRejectedInv ==
  ASSUME IndInv, NEW r \in Request, EnqueueRejected(r) PROVE IndInv'
<1> USE DEF laneVars, queueVars, tuningVars, prefetchVars, mainVars, lifecycleVars
<1>1. /\ outcome[r] = "new" /\ outcome' \in [Request -> Outcome]
      /\ outcome'[r] = "rejected"
      /\ \A q \in Request \ {r} : outcome'[q] = outcome[q]
  BY DEF EnqueueRejected, IndInv, TypeOK, Outcome
<1>2. TypeOK'
  BY <1>1 DEF EnqueueRejected, IndInv, TypeOK
<1>3. Holders'
  BY <1>1 DEF EnqueueRejected, IndInv, Holders, HoldsRightly, HoldsNothingYet
<1>4. Queues'
  <2>1. Undisturbed({r}) /\ LanesOnlyLose({})
    BY <1>1 DEF Undisturbed, LanesOnlyLose, EnqueueRejected
  <2> QED BY <1>1, <2>1, QueuesFrame DEF IndInv, EnqueueRejected
<1>5. ReadsAccounted' /\ HeldAccounted' /\ WithinCaps'
  BY ReadsFrame, HeldFrame DEF EnqueueRejected, IndInv, CapacityAccounted, WithinCaps
<1> QED BY <1>2, <1>3, <1>4, <1>5 DEF IndInv, CapacityAccounted

\* A local full-resolution request goes straight to the high queue.
LEMMA EnqueueLocalMainInv ==
  ASSUME IndInv, NEW r \in Request, NEW priority \in Priorities,
         EnqueueLocalMain(r, priority)
  PROVE  IndInv'
<1>1. priority \in Nat
  BY SchedulerConstants
<1>2. Accept(r, priority, None, "None") /\ "None" \in Stage
  BY DEF EnqueueLocalMain, Stage
<1>3. /\ state' \in [Request -> RequestState] /\ outcome' \in [Request -> Outcome]
      /\ live' \subseteq Request /\ nextSequence' \in Nat
      /\ job'[r] = "none" /\ outcome'[r] = "pending" /\ state'[r].queuedIn = "None"
      /\ job[r] # "none" \/ outcome[r] # "pending"
      /\ Undisturbed({r}) /\ Holders' /\ CapacityAccounted' /\ WithinCaps'
  <2>1. None \in Keys \cup {None}
    OBVIOUS
  <2> QED BY <1>1, <1>2, <2>1, AcceptKeeps, ZenonT(60)
<1>4. highQueue \in Seq(Request) /\ highQueue' = Append(highQueue, r)
  BY DEF IndInv, TypeOK, EnqueueLocalMain
<1>5. TypeOK'
  <2>1. highQueue' \in Seq(Request)
    BY <1>4
  <2> QED BY <1>2, <1>3, <2>1
          DEF IndInv, TypeOK, EnqueueLocalMain, Accept, prefetchVars, mainVars,
              tuningVars, lifecycleVars
<1>6. LaneQueuesAgree' /\ BackgroundAgrees'
  <2>1. LanesOnlyLose({r})
    BY <1>3, BusyInNoQueue DEF IndInv, LanesOnlyLose, EnqueueLocalMain
  <2>2. \A e \in backgroundQueue : e.task \notin {r}
    BY <1>3, BusyInNoQueue DEF IndInv
  <2> QED BY <1>2, <1>3, <2>1, <2>2, LaneQueuesFrame, BackgroundFrame
          DEF IndInv, Queues, Accept
<1>7. HighAgrees'
  <2>1. \A i \in DOMAIN highQueue : highQueue[i] # r
    BY <1>3, BusyInNoQueue DEF IndInv
  <2> QED BY <1>3, <1>4, <2>1, HighPush DEF IndInv, Queues
<1> QED BY <1>3, <1>5, <1>6, <1>7 DEF IndInv, Queues

\* A push adds the pushed entry at most.
LEMMA PushAdds ==
  ASSUME NEW queue, NEW r, NEW priority, NEW sequence
  PROVE  Push(queue, r, priority, sequence) \subseteq
           queue \cup {Entry(r, priority, sequence)}
BY DEF Push, Emplace

\* The fields of a queue entry.
LEMMA EntryFields ==
  ASSUME NEW r, NEW priority, NEW sequence
  PROVE  LET e == Entry(r, priority, sequence)
         IN  e.task = r /\ e.priority = priority /\ e.sequence = sequence
BY DEF Entry

\* The lane Enqueue finds or creates for a route has the lane's type.
LEMMA LaneForType ==
  ASSUME TypeOK, NEW route, route.depth \in Nat, route.limit \in Nat
  PROVE  LET lane == LaneFor(route)
         IN  /\ lane \in LaneState
             /\ \A e \in lane.queue :
                  route.key \in DOMAIN lanes /\ e \in lanes[route.key].queue
             /\ \A e \in lane.mainQueue :
                  route.key \in DOMAIN lanes /\ e \in lanes[route.key].mainQueue
<1> DEFINE old == IF route.key \in DOMAIN lanes THEN lanes[route.key] ELSE EmptyLane
<1>1. /\ old \in LaneState
      /\ \A e \in old.queue : route.key \in DOMAIN lanes /\ e \in lanes[route.key].queue
      /\ \A e \in old.mainQueue :
           route.key \in DOMAIN lanes /\ e \in lanes[route.key].mainQueue
  BY LaneConstants DEF TypeOK, EmptyLane, LaneState
<1>2. LaneFor(route) = [old EXCEPT !.depth = route.depth, !.limit = route.limit]
  BY DEF LaneFor
<1> HIDE DEF old
<1> QED BY <1>1, <1>2 DEF LaneState

\* Writing a typed lane under a known key keeps the table typed.
LEMMA WithLaneType ==
  ASSUME NEW table, LanesTyped(table), NEW key \in Keys, NEW lane \in LaneState
  PROVE  /\ LanesTyped(WithLane(table, key, lane))
         /\ WithLane(table, key, lane)[key] = lane
         /\ \A k \in DOMAIN WithLane(table, key, lane) :
              k # key => k \in DOMAIN table /\ WithLane(table, key, lane)[k] = table[k]
BY DEF LanesTyped, WithLane

\* The part of the two lane-enqueue actions that differs only in the queue used.
LEMMA EnqueueInLane ==
  ASSUME IndInv, NEW r \in Request, NEW priority \in Nat, NEW key \in Keys,
         NEW queuedIn \in {"Io", "MainIo"}, queuedIn = "MainIo" <=> r \in MainImage,
         Accept(r, priority, key, queuedIn),
         NEW lane \in LaneState, lanes' = WithLane(lanes, key, lane),
         \A e \in lane.queue :
           \/ key \in DOMAIN lanes /\ e \in lanes[key].queue
           \/ queuedIn = "Io" /\ e = Entry(r, priority, nextSequence'),
         \A e \in lane.mainQueue :
           \/ key \in DOMAIN lanes /\ e \in lanes[key].mainQueue
           \/ queuedIn = "MainIo" /\ e = Entry(r, priority, nextSequence'),
         highQueue' = highQueue,
         volumeProfiles' \in [Devices -> 0..SolidStateDepth],
         globalPrefetchCap' \in 1..MaxPrefetchCap
  PROVE  IndInv'
<1>1. queuedIn \in Stage /\ key \in Keys \cup {None}
  BY DEF Stage
<1>2. /\ state' \in [Request -> RequestState] /\ outcome' \in [Request -> Outcome]
      /\ live' \subseteq Request /\ nextSequence' \in Nat
      /\ job'[r] = "none" /\ outcome'[r] = "pending"
      /\ state'[r].priority = priority /\ state'[r].sequence = nextSequence'
      /\ state'[r].laneKey = key /\ state'[r].queuedIn = queuedIn
      /\ job[r] # "none" \/ outcome[r] # "pending"
      /\ Undisturbed({r}) /\ Holders' /\ CapacityAccounted' /\ WithinCaps'
  BY <1>1, AcceptKeeps
<1>3. LanesTyped(lanes)
  BY DEF IndInv, TypeOK, LanesTyped
<1>4. /\ LanesTyped(lanes') /\ lanes'[key] = lane
      /\ \A k \in DOMAIN lanes' : k # key => k \in DOMAIN lanes /\ lanes'[k] = lanes[k]
  BY <1>3, WithLaneType
<1>5. /\ \A k \in DOMAIN lanes :
           \A e \in lanes[k].queue \cup lanes[k].mainQueue : e.task # r
      /\ \A e \in backgroundQueue : e.task \notin {r}
      /\ \A i \in DOMAIN highQueue : highQueue[i] \notin {r}
  BY <1>2, BusyInNoQueue DEF IndInv
<1>6. TypeOK'
  BY <1>2, <1>4
     DEF IndInv, TypeOK, Accept, LanesTyped, prefetchVars, mainVars, lifecycleVars
<1>7. LaneQueuesAgree'
  <2>1. ASSUME NEW k \in DOMAIN lanes', NEW e \in lanes'[k].queue
        PROVE  \/ k \in DOMAIN lanes /\ e \in lanes[k].queue /\ e.task # r
               \/ /\ e.task = r /\ Waits(e, "Io")'
                  /\ state'[r].laneKey = k /\ r \notin MainImage
    <3>1. CASE k # key
      BY <1>4, <1>5, <2>1, <3>1
    <3>2. CASE k = key
      BY <1>2, <1>4, <1>5, <2>1, <3>2, EntryFields DEF Waits
    <3> QED BY <3>1, <3>2
  <2>2. ASSUME NEW k \in DOMAIN lanes', NEW e \in lanes'[k].mainQueue
        PROVE  \/ k \in DOMAIN lanes /\ e \in lanes[k].mainQueue /\ e.task # r
               \/ /\ e.task = r /\ Waits(e, "MainIo")'
                  /\ state'[r].laneKey = k /\ r \in MainImage
    <3>1. CASE k # key
      BY <1>4, <1>5, <2>2, <3>1
    <3>2. CASE k = key
      BY <1>2, <1>4, <1>5, <2>2, <3>2, EntryFields DEF Waits
    <3> QED BY <3>1, <3>2
  <2> QED BY <1>2, <2>1, <2>2, LaneQueuesGain DEF IndInv, Queues
<1>8. BackgroundAgrees' /\ HighAgrees'
  BY <1>2, <1>5, BackgroundFrame, HighFrame DEF IndInv, Queues, Accept
<1> QED BY <1>2, <1>6, <1>7, <1>8 DEF IndInv, Queues

\* A slow full-resolution request joins its lane's main queue.
LEMMA EnqueueSlowMainInv ==
  ASSUME IndInv, NEW r \in Request, NEW priority \in Priorities, NEW answer \in Answers[r],
         EnqueueSlowMain(r, priority, answer)
  PROVE  IndInv'
<1> DEFINE route == RouteOf(r, answer)
           old   == LaneFor(route)
           lane  == [old EXCEPT !.mainQueue = Push(@, r, priority, nextSequence')]
<1>1. priority \in Nat /\ nextSequence' \in Nat
  <2>1. priority \in Nat
    BY SchedulerConstants
  <2>2. nextSequence \in Nat
    BY DEF IndInv, TypeOK
  <2>3. nextSequence' = nextSequence + 1
    BY DEF EnqueueSlowMain, Accept
  <2> QED BY <2>1, <2>2, <2>3
<1>2. route.key \in Keys /\ route.depth \in Nat /\ route.limit \in Nat
  BY RouteType
<1>3. /\ old \in LaneState
      /\ \A e \in old.queue : route.key \in DOMAIN lanes /\ e \in lanes[route.key].queue
      /\ \A e \in old.mainQueue :
           route.key \in DOMAIN lanes /\ e \in lanes[route.key].mainQueue
  BY <1>2, LaneForType DEF IndInv
<1>4. /\ r \in MainImage /\ Accept(r, priority, route.key, "MainIo")
      /\ lanes' = WithLane(lanes, route.key, lane)
      /\ highQueue' = highQueue
      /\ volumeProfiles' \in [Devices -> 0..SolidStateDepth]
      /\ globalPrefetchCap' \in 1..MaxPrefetchCap
  BY DEF EnqueueSlowMain, tuningVars, IndInv, TypeOK
<1> HIDE DEF old
<1>5. /\ lane \in LaneState /\ lane.queue = old.queue
      /\ \A e \in lane.mainQueue :
           e \in old.mainQueue \/ e = Entry(r, priority, nextSequence')
  BY <1>1, <1>3, PushAdds DEF LaneState, Entry
<1> HIDE DEF route, lane
<1> QED BY <1>1, <1>2, <1>3, <1>4, <1>5, EnqueueInLane

\* A thumbnail joins its lane's queue, and its device the profiles.
LEMMA EnqueueThumbnailInv ==
  ASSUME IndInv, NEW r \in Request, NEW priority \in Priorities, NEW answer \in Answers[r],
         EnqueueThumbnail(r, priority, answer)
  PROVE  IndInv'
<1> DEFINE route == RouteOf(r, answer)
           old   == LaneFor(route)
           lane  == [old EXCEPT !.queue = Push(@, r, priority, nextSequence')]
<1>1. priority \in Nat /\ nextSequence' \in Nat
  <2>1. priority \in Nat
    BY SchedulerConstants
  <2>2. nextSequence \in Nat
    BY DEF IndInv, TypeOK
  <2>3. nextSequence' = nextSequence + 1
    BY DEF EnqueueThumbnail, Accept
  <2> QED BY <2>1, <2>2, <2>3
<1>2. /\ route.key \in Keys /\ route.depth \in Nat /\ route.limit \in Nat
      /\ route.depth \in 0..SolidStateDepth
  BY RouteType
<1>3. /\ old \in LaneState
      /\ \A e \in old.queue : route.key \in DOMAIN lanes /\ e \in lanes[route.key].queue
      /\ \A e \in old.mainQueue :
           route.key \in DOMAIN lanes /\ e \in lanes[route.key].mainQueue
  BY <1>2, LaneForType DEF IndInv
<1>4. /\ r \notin MainImage /\ Accept(r, priority, route.key, "Io")
      /\ lanes' = WithLane(lanes, route.key, lane)
      /\ highQueue' = highQueue
      /\ volumeProfiles' = [volumeProfiles EXCEPT ![route.device] = route.depth]
      /\ globalPrefetchCap' = CapFor(volumeProfiles')
  BY DEF EnqueueThumbnail
<1>5. /\ volumeProfiles' \in [Devices -> 0..SolidStateDepth]
      /\ globalPrefetchCap' \in 1..MaxPrefetchCap
  BY <1>2, <1>4, CapRange DEF IndInv, TypeOK
<1> HIDE DEF old
<1>6. /\ lane \in LaneState /\ lane.mainQueue = old.mainQueue
      /\ \A e \in lane.queue : e \in old.queue \/ e = Entry(r, priority, nextSequence')
  BY <1>1, <1>3, PushAdds DEF LaneState, Entry
<1> HIDE DEF route, lane
<1> QED BY <1>1, <1>2, <1>3, <1>4, <1>5, <1>6, EnqueueInLane

-----------------------------------------------------------------------------
(***************************************************************************)
(* SetPriority and Cancel.                                                 *)
(***************************************************************************)

EntryType == [task : Request, priority : Nat, sequence : Nat]

\* Re-keying a queue whose entries of r are under r's current key leaves them
\* under its new one.
LEMMA RekeyedKeeps ==
  ASSUME NEW queue, queue \subseteq EntryType, NEW r \in Request, NEW priority \in Nat,
         state[r].sequence \in Nat,
         \A e \in queue : e.task = r => /\ e.priority = state[r].priority
                                        /\ e.sequence = state[r].sequence
  PROVE  /\ Rekeyed(queue, r, priority) \subseteq EntryType
         /\ \A e \in Rekeyed(queue, r, priority) :
              \/ e \in queue /\ e.task # r
              \/ /\ e = Entry(r, priority, state[r].sequence)
                 /\ \E f \in queue : f.task = r
<1> DEFINE old == Entry(r, state[r].priority, state[r].sequence)
           new == Entry(r, priority, state[r].sequence)
<1>1. new \in EntryType
  BY DEF Entry, EntryType
<1>2. \A e \in queue : e.task = r => e = old
  BY DEF Entry, EntryType
<1>3. old.task = r
  BY DEF Entry
<1>4. CASE old \in queue
  <2>1. Rekeyed(queue, r, priority) \subseteq (queue \ {old}) \cup {new}
    BY <1>4 DEF Rekeyed, Finds, Reprioritize, Remove, Emplace
  <2> HIDE DEF old, new
  <2> QED BY <1>1, <1>2, <1>3, <1>4, <2>1 DEF new
<1>5. CASE old \notin queue
  <2>1. Rekeyed(queue, r, priority) = queue
    BY <1>5 DEF Rekeyed, Finds
  <2> HIDE DEF old, new
  <2> QED BY <1>2, <1>5, <2>1
<1> QED BY <1>4, <1>5

\* SetPriority re-keys the entry in the queue the request's state names, so the
\* keys stay current.
LEMMA SetPriorityInv ==
  ASSUME IndInv, NEW r \in Request, NEW priority \in Priorities, SetPriority(r, priority)
  PROVE  IndInv'
<1> DEFINE s   == state[r]
           key == s.laneKey
<1>1. /\ priority \in Nat /\ s \in RequestState /\ s.sequence \in Nat
      /\ changes \in Nat
  BY SchedulerConstants DEF IndInv, TypeOK, RequestState
<1>2. /\ state' = [state EXCEPT ![r] = [s EXCEPT !.priority = priority]]
      /\ UNCHANGED <<live, job, worker, bytesHold, outcome, highQueue, prefetchReads,
                     prefetchedTotal, mainReads, mainHeld, readsInProgress, readsByDevice>>
  BY DEF SetPriority, prefetchVars, mainVars
<1>3. /\ state'[r] = [s EXCEPT !.priority = priority]
      /\ \A q \in Request \ {r} : state'[q] = state[q]
  BY <1>2 DEF IndInv, TypeOK
<1>4. /\ state'[r] \in RequestState
      /\ state'[r].priority = priority /\ state'[r].sequence = s.sequence
      /\ state'[r].queuedIn = s.queuedIn /\ state'[r].laneKey = s.laneKey
      /\ state'[r].prefetched = s.prefetched /\ state'[r].decoding = s.decoding
      /\ state'[r].holdsPrefetchSlot = s.holdsPrefetchSlot
      /\ state'[r].holdsMainInput = s.holdsMainInput
  BY <1>1, <1>3 DEF RequestState
<1>5. Undisturbed({r})
  BY <1>2, <1>3 DEF Undisturbed
<1> DEFINE Moves(old, new) ==
             /\ new \subseteq EntryType
             /\ \A e \in new : \/ e \in old /\ e.task # r
                               \/ /\ e = Entry(r, priority, s.sequence)
                                  /\ \E f \in old : f.task = r
\* A queue without r's task, or re-keyed for it.
<1>6. ASSUME NEW queue, queue \subseteq EntryType, NEW new,
             \A e \in queue : e.task = r => /\ e.priority = s.priority
                                            /\ e.sequence = s.sequence,
             \/ new = Rekeyed(queue, r, priority)
             \/ new = queue /\ \A e \in queue : e.task # r
      PROVE  Moves(queue, new)
  BY <1>1, <1>6, RekeyedKeeps
<1>7. backgroundQueue \subseteq EntryType /\ Moves(backgroundQueue, backgroundQueue')
  <2>1. backgroundQueue \subseteq EntryType
    BY DEF IndInv, TypeOK, EntryType
  <2>2. \A e \in backgroundQueue : e.task = r =>
          /\ e.priority = s.priority /\ e.sequence = s.sequence /\ s.queuedIn = "Decode"
    BY DEF IndInv, Queues, BackgroundAgrees, Waits
  <2>3. \/ backgroundQueue' = Rekeyed(backgroundQueue, r, priority)
        \/ backgroundQueue' = backgroundQueue /\ s.queuedIn # "Decode"
    BY DEF SetPriority
  <2> QED BY <1>6, <2>1, <2>2, <2>3
<1>8. ASSUME NEW k \in DOMAIN lanes'
      PROVE  /\ k \in DOMAIN lanes /\ lanes'[k] \in LaneState
             /\ Moves(lanes[k].queue, lanes'[k].queue)
             /\ Moves(lanes[k].mainQueue, lanes'[k].mainQueue)
  <2>1. k \in DOMAIN lanes
    BY <1>8 DEF SetPriority
  <2>2. /\ lanes[k] \in LaneState
        /\ lanes[k].queue \subseteq EntryType /\ lanes[k].mainQueue \subseteq EntryType
    BY <2>1 DEF IndInv, TypeOK, LaneState, EntryType
  <2>3. /\ \A e \in lanes[k].queue : e.task = r =>
             /\ e.priority = s.priority /\ e.sequence = s.sequence
             /\ s.queuedIn = "Io" /\ key = k
        /\ \A e \in lanes[k].mainQueue : e.task = r =>
             /\ e.priority = s.priority /\ e.sequence = s.sequence
             /\ s.queuedIn = "MainIo" /\ key = k
    BY <2>1 DEF IndInv, Queues, LaneQueuesAgree, Waits
  <2>4. \/ lanes'[k] = lanes[k] /\ ~(s.queuedIn \in {"Io", "MainIo"} /\ key = k)
        \/ s.queuedIn = "Io"
             /\ lanes'[k] = [lanes[k] EXCEPT !.queue = Rekeyed(lanes[k].queue, r, priority)]
        \/ s.queuedIn = "MainIo"
             /\ lanes'[k] = [lanes[k] EXCEPT !.mainQueue = Rekeyed(lanes[k].mainQueue, r, priority)]
    BY <2>1 DEF SetPriority
  <2>5. CASE lanes'[k] = lanes[k] /\ ~(s.queuedIn \in {"Io", "MainIo"} /\ key = k)
    BY <1>6, <2>1, <2>2, <2>3, <2>5
  <2>6. CASE s.queuedIn = "Io"
             /\ lanes'[k] = [lanes[k] EXCEPT !.queue = Rekeyed(lanes[k].queue, r, priority)]
    <3>1. /\ lanes'[k].queue = Rekeyed(lanes[k].queue, r, priority)
          /\ lanes'[k].mainQueue = lanes[k].mainQueue
      BY <2>2, <2>6 DEF LaneState
    <3>2. /\ Moves(lanes[k].queue, lanes'[k].queue)
          /\ Moves(lanes[k].mainQueue, lanes'[k].mainQueue)
      BY <1>6, <2>2, <2>3, <2>6, <3>1
    <3>3. lanes'[k] \in LaneState
      BY <2>2, <2>6, <3>1, <3>2 DEF LaneState, EntryType
    <3> QED BY <2>1, <3>2, <3>3
  <2>7. CASE s.queuedIn = "MainIo"
             /\ lanes'[k] = [lanes[k] EXCEPT !.mainQueue = Rekeyed(lanes[k].mainQueue, r, priority)]
    <3>1. /\ lanes'[k].mainQueue = Rekeyed(lanes[k].mainQueue, r, priority)
          /\ lanes'[k].queue = lanes[k].queue
      BY <2>2, <2>7 DEF LaneState
    <3>2. /\ Moves(lanes[k].queue, lanes'[k].queue)
          /\ Moves(lanes[k].mainQueue, lanes'[k].mainQueue)
      BY <1>6, <2>2, <2>3, <2>7, <3>1
    <3>3. lanes'[k] \in LaneState
      BY <2>2, <2>7, <3>1, <3>2 DEF LaneState, EntryType
    <3> QED BY <2>1, <3>2, <3>3
  <2> QED BY <2>4, <2>5, <2>6, <2>7
<1>9. TypeOK'
  <2>1. state' \in [Request -> RequestState]
    BY <1>2, <1>3, <1>4 DEF IndInv, TypeOK
  <2>2. changes' \in Nat
    BY <1>1 DEF SetPriority
  <2>3. DOMAIN lanes' \subseteq Keys /\ \A k \in DOMAIN lanes' : lanes'[k] \in LaneState
    BY <1>8 DEF IndInv, TypeOK
  <2>4. backgroundQueue' \subseteq [task : Request, priority : Nat, sequence : Nat]
    BY <1>7 DEF EntryType
  <2> QED BY <2>1, <2>2, <2>3, <2>4
          DEF IndInv, TypeOK, SetPriority, tuningVars, prefetchVars, mainVars
<1>10. Holders'
  <2>1. ASSUME NEW q \in Request PROVE HoldsRightly(q)' /\ HoldsNothingYet(q)'
    <3>1. HoldsRightly(q) /\ HoldsNothingYet(q)
      BY DEF IndInv, Holders
    <3>2. CASE q = r
      BY <1>2, <1>4, <3>1, <3>2 DEF HoldsRightly, HoldsNothingYet
    <3>3. CASE q # r
      BY <1>2, <1>3, <3>1, <3>3 DEF HoldsRightly, HoldsNothingYet
    <3> QED BY <3>2, <3>3
  <2> QED BY <2>1 DEF Holders
<1>11. LaneQueuesAgree'
  <2>1. ASSUME NEW k \in DOMAIN lanes', NEW e \in lanes'[k].queue
        PROVE  \/ k \in DOMAIN lanes /\ e \in lanes[k].queue /\ e.task # r
               \/ /\ e.task = r /\ Waits(e, "Io")'
                  /\ state'[r].laneKey = k /\ r \notin MainImage
    <3>1. \/ e \in lanes[k].queue /\ e.task # r
          \/ /\ e = Entry(r, priority, s.sequence)
             /\ \E f \in lanes[k].queue : f.task = r
      BY <1>8, <2>1
    <3>2. ASSUME NEW f \in lanes[k].queue, f.task = r
          PROVE  /\ job[r] = "none" /\ outcome[r] = "pending" /\ s.queuedIn = "Io"
                 /\ s.laneKey = k /\ r \notin MainImage
      BY <1>8, <3>2 DEF IndInv, Queues, LaneQueuesAgree, Waits
    <3> QED BY <1>2, <1>4, <1>8, <3>1, <3>2, EntryFields DEF Waits
  <2>2. ASSUME NEW k \in DOMAIN lanes', NEW e \in lanes'[k].mainQueue
        PROVE  \/ k \in DOMAIN lanes /\ e \in lanes[k].mainQueue /\ e.task # r
               \/ /\ e.task = r /\ Waits(e, "MainIo")'
                  /\ state'[r].laneKey = k /\ r \in MainImage
    <3>1. \/ e \in lanes[k].mainQueue /\ e.task # r
          \/ /\ e = Entry(r, priority, s.sequence)
             /\ \E f \in lanes[k].mainQueue : f.task = r
      BY <1>8, <2>2
    <3>2. ASSUME NEW f \in lanes[k].mainQueue, f.task = r
          PROVE  /\ job[r] = "none" /\ outcome[r] = "pending" /\ s.queuedIn = "MainIo"
                 /\ s.laneKey = k /\ r \in MainImage
      BY <1>8, <3>2 DEF IndInv, Queues, LaneQueuesAgree, Waits
    <3> QED BY <1>2, <1>4, <1>8, <3>1, <3>2, EntryFields DEF Waits
  <2> QED BY <1>5, <2>1, <2>2, LaneQueuesGain DEF IndInv, Queues
<1>12. BackgroundAgrees'
  <2> SUFFICES ASSUME NEW e \in backgroundQueue' PROVE Waits(e, "Decode")'
    BY DEF BackgroundAgrees
  <2>1. CASE e \in backgroundQueue /\ e.task # r
    BY <1>5, <1>7, <2>1
       DEF IndInv, Queues, BackgroundAgrees, Waits, Undisturbed, EntryType
  <2>2. CASE e = Entry(r, priority, s.sequence) /\ \E f \in backgroundQueue : f.task = r
    <3>1. job[r] = "none" /\ outcome[r] = "pending" /\ s.queuedIn = "Decode"
      BY <2>2 DEF IndInv, Queues, BackgroundAgrees, Waits
    <3> QED BY <1>2, <1>4, <2>2, <3>1, EntryFields DEF Waits
  <2> QED BY <1>7, <2>1, <2>2
<1>13. HighAgrees'
  <2>1. \A q \in Request : state'[q].queuedIn = state[q].queuedIn
    BY <1>3, <1>4
  <2>2. \A i \in DOMAIN highQueue : highQueue[i] \in Request
    BY DEF IndInv, TypeOK
  <2> QED BY <1>2, <2>1, <2>2 DEF IndInv, Queues, HighAgrees
<1>14. ReadsAccounted' /\ HeldAccounted'
  <2>1. \A q \in Request : /\ state'[q].laneKey = state[q].laneKey
                           /\ state'[q].holdsPrefetchSlot = state[q].holdsPrefetchSlot
                           /\ state'[q].holdsMainInput = state[q].holdsMainInput
    BY <1>3, <1>4
  <2> QED BY <1>2, <2>1, ReadsFrame, HeldFrame DEF IndInv, CapacityAccounted
<1>15. WithinCaps'
  BY <1>2 DEF IndInv, WithinCaps
<1> QED BY <1>9, <1>10, <1>11, <1>12, <1>13, <1>14, <1>15
        DEF IndInv, Queues, CapacityAccounted

\* Taking r's queued task out of its lane: the lanes left lose nothing else.
LEMMA UnqueuedKeeps ==
  ASSUME TypeOK, NEW r, NEW s
  PROVE  /\ LanesTyped(Unqueued(r, s))
         /\ \A k \in DOMAIN Unqueued(r, s) :
              /\ k \in DOMAIN lanes
              /\ Unqueued(r, s)[k].queue =
                   IF s.queuedIn = "Io" /\ k = s.laneKey
                   THEN Remove(lanes[k].queue, r, s.priority, s.sequence)
                   ELSE lanes[k].queue
              /\ Unqueued(r, s)[k].mainQueue =
                   IF s.queuedIn = "MainIo" /\ k = s.laneKey
                   THEN Remove(lanes[k].mainQueue, r, s.priority, s.sequence)
                   ELSE lanes[k].mainQueue
<1> DEFINE key  == s.laneKey
           io   == [lanes EXCEPT ![key].queue = Remove(@, r, s.priority, s.sequence)]
           main == [lanes EXCEPT ![key].mainQueue = Remove(@, r, s.priority, s.sequence)]
<1>1. LanesTyped(lanes)
  BY DEF TypeOK, LanesTyped
<1>2. CASE s.queuedIn = "Io" /\ key \in DOMAIN lanes
  <2>1. DOMAIN io = DOMAIN lanes /\ \A k \in DOMAIN lanes : k # key => io[k] = lanes[k]
    OBVIOUS
  <2>2. io[key] = [lanes[key] EXCEPT !.queue = Remove(lanes[key].queue, r, s.priority, s.sequence)]
    BY <1>2
  <2>3. /\ io[key] \in LaneState
        /\ io[key].queue = Remove(lanes[key].queue, r, s.priority, s.sequence)
        /\ io[key].mainQueue = lanes[key].mainQueue
    BY <1>1, <1>2, <2>2 DEF LanesTyped, LaneState, Remove
  <2>4. LanesTyped(io)
    BY <1>1, <2>1, <2>3 DEF LanesTyped
  <2>5. Unqueued(r, s) = Reclaim(io, key)
    BY <1>2 DEF Unqueued
  <2> HIDE DEF io
  <2> QED BY <1>2, <2>1, <2>3, <2>4, <2>5, ReclaimKeeps, ReclaimTyped
<1>3. CASE s.queuedIn = "MainIo" /\ key \in DOMAIN lanes
  <2>1. DOMAIN main = DOMAIN lanes /\ \A k \in DOMAIN lanes : k # key => main[k] = lanes[k]
    OBVIOUS
  <2>2. main[key] = [lanes[key] EXCEPT !.mainQueue =
                       Remove(lanes[key].mainQueue, r, s.priority, s.sequence)]
    BY <1>3
  <2>3. /\ main[key] \in LaneState
        /\ main[key].mainQueue = Remove(lanes[key].mainQueue, r, s.priority, s.sequence)
        /\ main[key].queue = lanes[key].queue
    BY <1>1, <1>3, <2>2 DEF LanesTyped, LaneState, Remove
  <2>4. LanesTyped(main)
    BY <1>1, <2>1, <2>3 DEF LanesTyped
  <2>5. Unqueued(r, s) = Reclaim(main, key)
    BY <1>3 DEF Unqueued
  <2> HIDE DEF main
  <2> QED BY <1>3, <2>1, <2>3, <2>4, <2>5, ReclaimKeeps, ReclaimTyped
<1>4. CASE ~(s.queuedIn \in {"Io", "MainIo"} /\ key \in DOMAIN lanes)
  <2>1. Unqueued(r, s) = lanes
    BY <1>4 DEF Unqueued
  <2> QED BY <1>1, <1>4, <2>1
<1> QED BY <1>2, <1>3, <1>4

\* Cancel finds the task in its lane and drops it there.
LEMMA CancelQueuedInv ==
  ASSUME IndInv, NEW r \in Request, Cancel(r), QueuedInLane(r, state[r])
  PROVE  IndInv'
<1> DEFINE s == state[r]
<1> USE DEF queueVars, tuningVars, lifecycleVars
<1>1. /\ job[r] = "none" /\ outcome[r] = "pending"
      /\ s.queuedIn \in {"Io", "MainIo"} /\ s \in RequestState
  <2>1. s \in RequestState
    BY DEF IndInv, TypeOK
  <2> DEFINE e == Entry(r, s.priority, s.sequence)
  <2>2. /\ s.laneKey \in DOMAIN lanes
        /\ \/ s.queuedIn = "Io" /\ e \in lanes[s.laneKey].queue
           \/ s.queuedIn = "MainIo" /\ e \in lanes[s.laneKey].mainQueue
    BY DEF QueuedInLane, Finds
  <2>3. e.task = r
    BY EntryFields
  <2> HIDE DEF e
  <2>4. job[e.task] = "none" /\ outcome[e.task] = "pending"
    BY <2>2 DEF IndInv, Queues, LaneQueuesAgree, Waits
  <2> QED BY <2>1, <2>2, <2>3, <2>4
<1>2. /\ ~s.holdsPrefetchSlot /\ ~s.holdsMainInput /\ ~bytesHold[r]
  <2>1. HoldsRightly(r) /\ HoldsNothingYet(r) /\ bytesHold[r] \in BOOLEAN
    BY DEF IndInv, Holders, TypeOK
  <2> QED BY <1>1, <2>1 DEF HoldsRightly, HoldsNothingYet
<1>3. /\ state' = [state EXCEPT ![r] = Fresh]
      /\ outcome' = [outcome EXCEPT ![r] = "withdrawn"]
      /\ lanes' = Unqueued(r, s)
      /\ live' \subseteq live
      /\ UNCHANGED <<job, worker, bytesHold, serviceClock, readsByDevice,
                     readsInProgress, queueVars, tuningVars, prefetchReads,
                     prefetchedTotal, mainReads, mainHeld, lifecycleVars>>
  BY <1>2 DEF Cancel
<1>4. /\ state'[r] = Fresh /\ outcome'[r] = "withdrawn"
      /\ \A q \in Request \ {r} : state'[q] = state[q] /\ outcome'[q] = outcome[q]
  BY <1>3 DEF IndInv, TypeOK
<1>5. Undisturbed({r})
  BY <1>3, <1>4 DEF Undisturbed
<1>6. LanesTyped(lanes') /\ LanesOnlyLose({r})
  <2>1. LanesTyped(lanes')
    BY <1>3, UnqueuedKeeps DEF IndInv
  <2>2. ASSUME NEW k \in DOMAIN lanes'
        PROVE  /\ k \in DOMAIN lanes
               /\ lanes'[k].queue \subseteq {e \in lanes[k].queue : e.task \notin {r}}
    <3>0. /\ k \in DOMAIN lanes
          /\ lanes'[k].queue =
               IF s.queuedIn = "Io" /\ k = s.laneKey
               THEN Remove(lanes[k].queue, r, s.priority, s.sequence)
               ELSE lanes[k].queue
      BY <1>3, <2>2, UnqueuedKeeps DEF IndInv
    <3>1. lanes[k].queue \subseteq EntryType
      BY <3>0 DEF IndInv, TypeOK, LaneState, EntryType
    <3>2. \A e \in lanes[k].queue : e.task = r =>
            /\ s.queuedIn = "Io" /\ k = s.laneKey
            /\ e = Entry(r, s.priority, s.sequence)
      BY <3>0, <3>1 DEF IndInv, Queues, LaneQueuesAgree, Waits, Entry, EntryType
    <3> QED BY <3>0, <3>2 DEF Remove
  <2>3. ASSUME NEW k \in DOMAIN lanes'
        PROVE  lanes'[k].mainQueue \subseteq {e \in lanes[k].mainQueue : e.task \notin {r}}
    <3>0. /\ k \in DOMAIN lanes
          /\ lanes'[k].mainQueue =
               IF s.queuedIn = "MainIo" /\ k = s.laneKey
               THEN Remove(lanes[k].mainQueue, r, s.priority, s.sequence)
               ELSE lanes[k].mainQueue
      BY <1>3, <2>3, UnqueuedKeeps DEF IndInv
    <3>1. lanes[k].mainQueue \subseteq EntryType
      BY <3>0 DEF IndInv, TypeOK, LaneState, EntryType
    <3>2. \A e \in lanes[k].mainQueue : e.task = r =>
            /\ s.queuedIn = "MainIo" /\ k = s.laneKey
            /\ e = Entry(r, s.priority, s.sequence)
      BY <3>0, <3>1 DEF IndInv, Queues, LaneQueuesAgree, Waits, Entry, EntryType
    <3> QED BY <3>0, <3>2 DEF Remove
  <2> QED BY <2>1, <2>2, <2>3 DEF LanesOnlyLose
<1>7. TypeOK'
  <2>1. state' \in [Request -> RequestState] /\ outcome' \in [Request -> Outcome]
    BY <1>3, FreshType DEF IndInv, TypeOK, Outcome
  <2> QED BY <1>3, <1>6, <2>1 DEF IndInv, TypeOK, LanesTyped
<1>8. Holders'
  <2>1. ASSUME NEW q \in Request PROVE HoldsRightly(q)' /\ HoldsNothingYet(q)'
    <3>1. CASE q = r
      BY <1>1, <1>2, <1>3, <1>4, <3>1 DEF HoldsRightly, HoldsNothingYet, Fresh, Reading
    <3>2. CASE q # r
      BY <1>3, <1>4, <3>2 DEF IndInv, Holders, HoldsRightly, HoldsNothingYet
    <3> QED BY <3>1, <3>2
  <2> QED BY <2>1 DEF Holders
<1>9. LaneQueuesAgree'
  BY <1>5, <1>6, LaneQueuesFrame DEF IndInv, Queues
<1>10. BackgroundAgrees' /\ HighAgrees'
  <2>1. /\ \A e \in backgroundQueue : e.task \notin {r}
        /\ \A i \in DOMAIN highQueue : highQueue[i] \notin {r}
    BY <1>1 DEF IndInv, Queues, BackgroundAgrees, HighAgrees, Waits
  <2> QED BY <1>3, <1>5, <2>1, BackgroundFrame, HighFrame DEF IndInv, Queues
<1>11. ReadsAccounted'
  BY <1>1, <1>3, <1>4, ReadsFrame DEF IndInv, CapacityAccounted
<1>12. HeldAccounted'
  <2>1. /\ Fresh.holdsPrefetchSlot = FALSE /\ Fresh.holdsMainInput = FALSE
        /\ s.holdsPrefetchSlot = FALSE /\ s.holdsMainInput = FALSE
    BY <1>1, <1>2 DEF Fresh, RequestState
  <2> QED BY <1>3, <1>4, <2>1, HeldFrame DEF IndInv, CapacityAccounted
<1>13. WithinCaps'
  BY <1>3 DEF IndInv, WithinCaps
<1> QED BY <1>7, <1>8, <1>9, <1>10, <1>11, <1>12, <1>13
        DEF IndInv, Queues, CapacityAccounted

\* Cancel finds it elsewhere: what it holds is given back unless a worker has it.
LEMMA CancelElsewhereInv ==
  ASSUME IndInv, NEW r \in Request, Cancel(r), ~QueuedInLane(r, state[r])
  PROVE  IndInv'
<1> DEFINE s      == state[r]
           marked == [s EXCEPT !.canceled = TRUE]
           given  == CancelReleases(s) /\ (s.holdsPrefetchSlot \/ s.holdsMainInput)
<1> USE DEF queueVars, tuningVars, lifecycleVars
<1>1. /\ state' = [state EXCEPT ![r] = IF given THEN Released(marked) ELSE marked]
      /\ lanes' = IF given THEN ReleasedLanes(Unqueued(r, s), s) ELSE Unqueued(r, s)
      /\ IF given THEN ReleaseCounts(s) ELSE UNCHANGED <<prefetchedTotal, mainHeld>>
      /\ live' \subseteq live
      /\ UNCHANGED <<job, worker, bytesHold, serviceClock, readsByDevice,
                     readsInProgress, queueVars, tuningVars, prefetchReads,
                     mainReads, lifecycleVars>>
  BY DEF Cancel
<1>2. outcome' = outcome
  BY DEF Cancel, IndInv, TypeOK
<1>3. /\ s \in RequestState /\ HoldsRightly(r) /\ HoldsNothingYet(r)
      /\ bytesHold[r] \in BOOLEAN
  BY DEF IndInv, TypeOK, Holders
<1>4. /\ state'[r] = IF given THEN Released(marked) ELSE marked
      /\ \A q \in Request \ {r} : state'[q] = state[q]
  BY <1>1 DEF IndInv, TypeOK
<1>5. /\ state'[r] \in RequestState
      /\ state'[r].queuedIn = s.queuedIn /\ state'[r].laneKey = s.laneKey
      /\ state'[r].priority = s.priority /\ state'[r].sequence = s.sequence
      /\ state'[r].decoding = s.decoding
  BY <1>3, <1>4, ZenonT(60) DEF RequestState, Released
<1>6. /\ given => /\ ~state'[r].prefetched /\ ~state'[r].holdsPrefetchSlot
                  /\ ~state'[r].holdsMainInput /\ ~bytesHold[r]
      /\ ~given => /\ state'[r].prefetched = s.prefetched
                   /\ state'[r].holdsPrefetchSlot = s.holdsPrefetchSlot
                   /\ state'[r].holdsMainInput = s.holdsMainInput
  BY <1>3, <1>4 DEF RequestState, Released, HoldsRightly, CancelReleases
<1>7. LanesTyped(lanes') /\ LanesOnlyLose({})
  <2>1. /\ LanesTyped(Unqueued(r, s))
        /\ \A k \in DOMAIN Unqueued(r, s) :
             /\ k \in DOMAIN lanes
             /\ Unqueued(r, s)[k].queue \subseteq lanes[k].queue
             /\ Unqueued(r, s)[k].mainQueue \subseteq lanes[k].mainQueue
    <3>1. \A queue : Remove(queue, r, s.priority, s.sequence) \subseteq queue
      BY DEF Remove
    <3> QED BY <3>1, UnqueuedKeeps DEF IndInv
  <2> DEFINE table == Unqueued(r, s)
  <2> HIDE DEF table
  <2>2. /\ LanesTyped(lanes')
        /\ \A k \in DOMAIN lanes' :
             /\ k \in DOMAIN table
             /\ lanes'[k].queue = table[k].queue /\ lanes'[k].mainQueue = table[k].mainQueue
    BY <1>1, <2>1, ReleasedLanesKeep DEF table
  <2> QED BY <2>1, <2>2 DEF LanesOnlyLose, table
<1> HIDE DEF given, marked
<1>8. /\ HeldAccounted'
      /\ prefetchedTotal' \in Nat /\ prefetchedTotal' <= prefetchedTotal
      /\ mainHeld' \in Nat /\ mainHeld' <= mainHeld
  <2>1. CASE given
    BY <1>1, <1>4, <1>6, <2>1, HeldRelease DEF IndInv, CapacityAccounted
  <2>2. CASE ~given
    BY <1>1, <1>4, <1>6, <2>2, HeldFrame DEF IndInv, CapacityAccounted, TypeOK
  <2> QED BY <2>1, <2>2
<1>9. TypeOK'
  <2>1. state' \in [Request -> RequestState]
    BY <1>1, <1>4, <1>5 DEF IndInv, TypeOK
  <2> QED BY <1>1, <1>2, <1>7, <1>8, <2>1 DEF IndInv, TypeOK, LanesTyped
<1>10. Holders'
  <2>1. ASSUME NEW q \in Request PROVE HoldsRightly(q)' /\ HoldsNothingYet(q)'
    <3>1. CASE q = r
      BY <1>1, <1>2, <1>3, <1>5, <1>6, <3>1 DEF HoldsRightly, HoldsNothingYet
    <3>2. CASE q # r
      BY <1>1, <1>2, <1>4, <3>2 DEF IndInv, Holders, HoldsRightly, HoldsNothingYet
    <3> QED BY <3>1, <3>2
  <2> QED BY <2>1 DEF Holders
<1>11. Queues'
  <2>1. Undisturbed({})
    BY <1>1, <1>2, <1>4, <1>5 DEF Undisturbed
  <2> QED BY <1>1, <1>7, <2>1, QueuesFrame DEF IndInv
<1>12. ReadsAccounted'
  BY <1>1, <1>4, <1>5, ReadsFrame DEF IndInv, CapacityAccounted
<1>13. WithinCaps'
  BY <1>1, <1>8, WithinCapsFrame DEF IndInv
<1> QED BY <1>8, <1>9, <1>10, <1>11, <1>12, <1>13 DEF IndInv, CapacityAccounted

-----------------------------------------------------------------------------
(***************************************************************************)
(* The readers take a task from a lane.                                    *)
(***************************************************************************)

\* The lanes of `table` are lanes alive, and hold nothing new and nothing of r.
Without(table, r) ==
  \A k \in DOMAIN table :
    /\ k \in DOMAIN lanes
    /\ table[k].queue \subseteq {e \in lanes[k].queue : e.task # r}
    /\ table[k].mainQueue \subseteq {e \in lanes[k].mainQueue : e.task # r}

\* What a reader pops leaves its lane's thumbnail queue,
LEMMA PopThumbnail ==
  ASSUME IndInv, NEW key \in DOMAIN lanes, NEW e \in lanes[key].queue
  PROVE  LET popped == [lanes EXCEPT ![key].queue = @ \ {e}]
         IN  LanesTyped(popped) /\ Without(popped, e.task) /\ DOMAIN popped = DOMAIN lanes
<1> DEFINE popped == [lanes EXCEPT ![key].queue = @ \ {e}]
<1>1. LanesTyped(lanes)
  BY DEF IndInv, TypeOK, LanesTyped
<1>2. /\ DOMAIN popped = DOMAIN lanes
      /\ \A k \in DOMAIN lanes : k # key => popped[k] = lanes[k]
      /\ popped[key] = [lanes[key] EXCEPT !.queue = lanes[key].queue \ {e}]
  OBVIOUS
<1>3. /\ popped[key] \in LaneState
      /\ popped[key].queue = lanes[key].queue \ {e}
      /\ popped[key].mainQueue = lanes[key].mainQueue
  BY <1>1, <1>2 DEF LanesTyped, LaneState
<1>4. \A k \in DOMAIN lanes :
        /\ \A f \in lanes[k].queue : f.task = e.task => k = key /\ f = e
        /\ \A f \in lanes[k].mainQueue : f.task # e.task
  <2>1. Waits(e, "Io") /\ state[e.task].laneKey = key
    BY DEF IndInv, Queues, LaneQueuesAgree
  <2> SUFFICES ASSUME NEW k \in DOMAIN lanes
               PROVE  /\ \A f \in lanes[k].queue : f.task = e.task => k = key /\ f = e
                      /\ \A f \in lanes[k].mainQueue : f.task # e.task
    OBVIOUS
  <2>2. \A f \in lanes[k].mainQueue : f.task # e.task
    BY <2>1 DEF IndInv, Queues, LaneQueuesAgree, Waits
  <2>3. ASSUME NEW f \in lanes[k].queue, f.task = e.task PROVE k = key /\ f = e
    <3>1. Waits(f, "Io") /\ state[f.task].laneKey = k
      BY DEF IndInv, Queues, LaneQueuesAgree
    <3>2. /\ k = key /\ f.priority = e.priority /\ f.sequence = e.sequence
      BY <2>1, <2>3, <3>1 DEF Waits
    <3>3. lanes[key] \in LaneState
      BY <1>1 DEF LanesTyped
    <3>4. lanes[key].queue \subseteq [task : Request, priority : Nat, sequence : Nat]
      BY <3>3 DEF LaneState
    <3> QED BY <2>3, <3>2, <3>4
  <2> QED BY <2>2, <2>3
<1> HIDE DEF popped
<1>5. LanesTyped(popped)
  BY <1>1, <1>2, <1>3 DEF LanesTyped
<1>6. Without(popped, e.task)
  BY <1>2, <1>3, <1>4 DEF Without
<1> QED BY <1>2, <1>5, <1>6 DEF popped

\* or its main queue, and every other entry where it was.
LEMMA PopMain ==
  ASSUME IndInv, NEW key \in DOMAIN lanes, NEW e \in lanes[key].mainQueue
  PROVE  LET popped == [lanes EXCEPT ![key].mainQueue = @ \ {e}]
         IN  LanesTyped(popped) /\ Without(popped, e.task) /\ DOMAIN popped = DOMAIN lanes
<1> DEFINE popped == [lanes EXCEPT ![key].mainQueue = @ \ {e}]
<1>1. LanesTyped(lanes)
  BY DEF IndInv, TypeOK, LanesTyped
<1>2. /\ DOMAIN popped = DOMAIN lanes
      /\ \A k \in DOMAIN lanes : k # key => popped[k] = lanes[k]
      /\ popped[key] = [lanes[key] EXCEPT !.mainQueue = lanes[key].mainQueue \ {e}]
  OBVIOUS
<1>3. /\ popped[key] \in LaneState
      /\ popped[key].mainQueue = lanes[key].mainQueue \ {e}
      /\ popped[key].queue = lanes[key].queue
  BY <1>1, <1>2 DEF LanesTyped, LaneState
<1>4. \A k \in DOMAIN lanes :
        /\ \A f \in lanes[k].mainQueue : f.task = e.task => k = key /\ f = e
        /\ \A f \in lanes[k].queue : f.task # e.task
  <2>1. Waits(e, "MainIo") /\ state[e.task].laneKey = key
    BY DEF IndInv, Queues, LaneQueuesAgree
  <2> SUFFICES ASSUME NEW k \in DOMAIN lanes
               PROVE  /\ \A f \in lanes[k].mainQueue : f.task = e.task => k = key /\ f = e
                      /\ \A f \in lanes[k].queue : f.task # e.task
    OBVIOUS
  <2>2. \A f \in lanes[k].queue : f.task # e.task
    BY <2>1 DEF IndInv, Queues, LaneQueuesAgree, Waits
  <2>3. ASSUME NEW f \in lanes[k].mainQueue, f.task = e.task PROVE k = key /\ f = e
    <3>1. Waits(f, "MainIo") /\ state[f.task].laneKey = k
      BY DEF IndInv, Queues, LaneQueuesAgree
    <3>2. /\ k = key /\ f.priority = e.priority /\ f.sequence = e.sequence
      BY <2>1, <2>3, <3>1 DEF Waits
    <3>3. lanes[key] \in LaneState
      BY <1>1 DEF LanesTyped
    <3>4. lanes[key].mainQueue \subseteq [task : Request, priority : Nat, sequence : Nat]
      BY <3>3 DEF LaneState
    <3> QED BY <2>3, <3>2, <3>4
  <2> QED BY <2>2, <2>3
<1> HIDE DEF popped
<1>5. LanesTyped(popped)
  BY <1>1, <1>2, <1>3 DEF LanesTyped
<1>6. Without(popped, e.task)
  BY <1>2, <1>3, <1>4 DEF Without
<1> QED BY <1>2, <1>5, <1>6 DEF popped

\* A request that leaves a lane queue is in no other queue.
LEMMA PoppedQueues ==
  ASSUME IndInv, NEW r \in Request, state[r].queuedIn \in {"Io", "MainIo"},
         Undisturbed({r}), LanesOnlyLose({r}), UNCHANGED <<highQueue, backgroundQueue>>
  PROVE  Queues'
<1>1. /\ \A e \in backgroundQueue : e.task \notin {r}
      /\ \A i \in DOMAIN highQueue : highQueue[i] \notin {r}
  BY DEF IndInv, Queues, BackgroundAgrees, HighAgrees, Waits
<1> QED BY <1>1, LaneQueuesFrame, BackgroundFrame, HighFrame DEF IndInv, Queues

\* The popped task was canceled: it is dropped.
LEMMA DiscardQueuedInv ==
  ASSUME IndInv, NEW r \in Request, NEW table, NEW key,
         LanesTyped(table), Without(table, r),
         job[r] = "none", state[r].queuedIn \in {"Io", "MainIo"},
         DiscardQueued(r, table, key),
         UNCHANGED <<worker, bytesHold, queueVars, tuningVars, prefetchedTotal,
                     mainHeld, lifecycleVars>>
  PROVE  IndInv'
<1> USE DEF queueVars, tuningVars, lifecycleVars
<1>1. /\ state' = [state EXCEPT ![r] = Fresh]
      /\ outcome' = [outcome EXCEPT ![r] = "dropped"]
      /\ lanes' = Reclaim(table, key)
      /\ live' \subseteq live
      /\ UNCHANGED <<job, serviceClock, readsByDevice, readsInProgress, prefetchReads,
                     mainReads>>
  BY DEF DiscardQueued, Finish
<1>2. /\ state'[r] = Fresh /\ outcome'[r] = "dropped"
      /\ \A q \in Request \ {r} : state'[q] = state[q] /\ outcome'[q] = outcome[q]
  BY <1>1 DEF IndInv, TypeOK
<1>3. /\ state[r] \in RequestState /\ HoldsRightly(r) /\ HoldsNothingYet(r)
      /\ bytesHold[r] \in BOOLEAN
  BY DEF IndInv, TypeOK, Holders
<1>4. LanesTyped(lanes') /\ LanesOnlyLose({r})
  BY <1>1, ReclaimTyped, ReclaimKeeps DEF Without, LanesOnlyLose
<1>5. TypeOK'
  <2>1. state' \in [Request -> RequestState] /\ outcome' \in [Request -> Outcome]
    BY <1>1, FreshType DEF IndInv, TypeOK, Outcome
  <2> QED BY <1>1, <1>4, <2>1 DEF IndInv, TypeOK, LanesTyped
<1>6. Holders'
  <2>1. ASSUME NEW q \in Request PROVE HoldsRightly(q)' /\ HoldsNothingYet(q)'
    <3>1. CASE q = r
      BY <1>1, <1>2, <1>3, <3>1 DEF HoldsRightly, HoldsNothingYet, Fresh, Reading
    <3>2. CASE q # r
      BY <1>1, <1>2, <3>2 DEF IndInv, Holders, HoldsRightly, HoldsNothingYet
    <3> QED BY <3>1, <3>2
  <2> QED BY <2>1 DEF Holders
<1>7. Queues'
  <2>1. Undisturbed({r})
    BY <1>1, <1>2 DEF Undisturbed
  <2> QED BY <1>4, <2>1, PoppedQueues
<1>8. ReadsAccounted'
  BY <1>1, <1>2, ReadsFrame DEF IndInv, CapacityAccounted
<1>9. HeldAccounted'
  <2>1. /\ Fresh.holdsPrefetchSlot = FALSE /\ Fresh.holdsMainInput = FALSE
        /\ state[r].holdsPrefetchSlot = FALSE /\ state[r].holdsMainInput = FALSE
    BY <1>3 DEF Fresh, RequestState, HoldsNothingYet
  <2> QED BY <1>1, <1>2, <2>1, HeldFrame DEF IndInv, CapacityAccounted
<1>10. WithinCaps'
  BY <1>1 DEF IndInv, WithinCaps
<1> QED BY <1>5, <1>6, <1>7, <1>8, <1>9, <1>10 DEF IndInv, CapacityAccounted

\* A thumbnail read begins: one more in every count it belongs to.
LEMMA ReadBegins ==
  ASSUME TypeOK, ReadsAccounted, NEW r \in Request, NEW key \in Keys,
         job[r] = "none", state[r].laneKey = key, state'[r].laneKey = key,
         job' = [job EXCEPT ![r] = "reading"],
         \A q \in Request \ {r} : state'[q] = state[q],
         prefetchReads' = prefetchReads + 1,
         mainReads' = mainReads,
         readsInProgress' = [readsInProgress EXCEPT ![key.lane] = @ + 1],
         readsByDevice' = IF DeviceAdmitted(key.lane)
                          THEN [readsByDevice EXCEPT ![key.place] = @ + 1]
                          ELSE readsByDevice
  PROVE  ReadsAccounted'
<1>1. /\ job'[r] = "reading" /\ \A q \in Request \ {r} : job'[q] = job[q]
      /\ key.lane \in LaneKind /\ key.place \in Devices
  BY KeyType DEF TypeOK
<1>2. ThumbnailReads' = ThumbnailReads \cup {r} /\ r \notin ThumbnailReads
  BY <1>1 DEF ThumbnailReads
<1>3. prefetchReads' = Cardinality(ThumbnailReads')
  <2>1. ThumbnailReads \subseteq Request
    BY DEF ThumbnailReads
  <2> QED BY <1>2, <2>1, OneMore DEF ReadsAccounted
<1>4. MainReadsOn' = MainReadsOn
  BY <1>1 DEF MainReadsOn
<1>5. ASSUME NEW kind \in LaneKind
      PROVE  readsInProgress'[kind] = Cardinality(ReadsOf(kind)')
  <2>1. /\ ReadsOf(kind) \subseteq Request /\ r \notin ReadsOf(kind)
        /\ readsInProgress[kind] = Cardinality(ReadsOf(kind))
        /\ readsInProgress \in [LaneKind -> Nat]
    BY DEF ReadsOf, ReadsAccounted, TypeOK
  <2>2. CASE kind = key.lane
    <3>1. ReadsOf(kind)' = ReadsOf(kind) \cup {r}
      BY <1>1, <2>2 DEF ReadsOf
    <3>2. Cardinality(ReadsOf(kind)') = Cardinality(ReadsOf(kind)) + 1
      BY <2>1, <3>1, OneMore
    <3> QED BY <2>1, <2>2, <3>2
  <2>3. CASE kind # key.lane
    <3>1. ReadsOf(kind)' = ReadsOf(kind)
      BY <1>1, <2>3 DEF ReadsOf
    <3> QED BY <1>1, <2>1, <2>3, <3>1
  <2> QED BY <2>2, <2>3
<1>6. ASSUME NEW d \in Devices
      PROVE  readsByDevice'[d] = Cardinality(DeviceReads(d)')
  <2>1. /\ DeviceReads(d) \subseteq Request /\ r \notin DeviceReads(d)
        /\ readsByDevice[d] = Cardinality(DeviceReads(d))
        /\ readsByDevice \in [Devices -> Nat]
    BY <1>2 DEF DeviceReads, ThumbnailReads, ReadsAccounted, TypeOK
  <2>2. CASE DeviceAdmitted(key.lane) /\ d = key.place
    <3>1. DeviceReads(d)' = DeviceReads(d) \cup {r}
      BY <1>1, <1>2, <2>2 DEF DeviceReads, ThumbnailReads
    <3>2. Cardinality(DeviceReads(d)') = Cardinality(DeviceReads(d)) + 1
      BY <2>1, <3>1, OneMore
    <3> QED BY <2>1, <2>2, <3>2
  <2>3. CASE ~(DeviceAdmitted(key.lane) /\ d = key.place)
    <3>1. DeviceReads(d)' = DeviceReads(d)
      BY <1>1, <1>2, <2>3 DEF DeviceReads, ThumbnailReads
    <3> QED BY <1>1, <2>1, <2>3, <3>1
  <2> QED BY <2>2, <2>3
<1> QED BY <1>3, <1>4, <1>5, <1>6 DEF ReadsAccounted

\* Common to both kinds of read: the popped request goes into a reader's hands.
LEMMA TakenByReader ==
  ASSUME IndInv, NEW r \in Request, NEW how \in Reading,
         job[r] = "none", outcome[r] = "pending", state[r].queuedIn \in {"Io", "MainIo"},
         state[r].laneKey \in Keys, how = "mainReading" <=> r \in MainImage,
         state' = [state EXCEPT ![r].queuedIn = "None"],
         job' = [job EXCEPT ![r] = how],
         LanesOnlyLose({r}),
         UNCHANGED <<outcome, bytesHold, highQueue, backgroundQueue, prefetchedTotal, mainHeld>>
  PROVE  /\ state' \in [Request -> RequestState] /\ job' \in [Request -> Job]
         /\ state'[r].laneKey = state[r].laneKey
         /\ \A q \in Request \ {r} : state'[q] = state[q] /\ job'[q] = job[q]
         /\ job'[r] = how
         /\ Holders' /\ Queues' /\ HeldAccounted'
<1>1. /\ state[r] \in RequestState /\ HoldsRightly(r) /\ HoldsNothingYet(r)
      /\ bytesHold[r] \in BOOLEAN /\ how \in Job
  BY DEF IndInv, TypeOK, Holders, Job
<1>2. /\ state'[r] = [state[r] EXCEPT !.queuedIn = "None"]
      /\ job'[r] = how
      /\ \A q \in Request \ {r} : state'[q] = state[q] /\ job'[q] = job[q]
  BY DEF IndInv, TypeOK
<1>3. /\ state'[r] \in RequestState
      /\ state'[r].laneKey = state[r].laneKey /\ state'[r].queuedIn = "None"
      /\ state'[r].prefetched = state[r].prefetched
      /\ state'[r].decoding = state[r].decoding
      /\ state'[r].holdsPrefetchSlot = state[r].holdsPrefetchSlot
      /\ state'[r].holdsMainInput = state[r].holdsMainInput
  BY <1>1, <1>2 DEF RequestState, Stage
<1>4. state' \in [Request -> RequestState] /\ job' \in [Request -> Job]
  BY <1>1, <1>2, <1>3 DEF IndInv, TypeOK
<1>5. Holders'
  <2>1. ASSUME NEW q \in Request PROVE HoldsRightly(q)' /\ HoldsNothingYet(q)'
    <3>1. CASE q = r
      BY <1>1, <1>2, <1>3, <3>1 DEF HoldsRightly, HoldsNothingYet, Reading
    <3>2. CASE q # r
      BY <1>2, <3>2 DEF IndInv, Holders, HoldsRightly, HoldsNothingYet
    <3> QED BY <3>1, <3>2
  <2> QED BY <2>1 DEF Holders
<1>6. Queues'
  <2>1. Undisturbed({r})
    BY <1>2 DEF Undisturbed
  <2> QED BY <2>1, PoppedQueues
<1>7. HeldAccounted'
  BY <1>2, <1>3, HeldFrame DEF IndInv, CapacityAccounted
<1> QED BY <1>2, <1>3, <1>4, <1>5, <1>6, <1>7

\* A reader that starts a thumbnail read takes a slot the selection found free.
LEMMA StartReadInv ==
  ASSUME IndInv, NEW r \in Request, NEW table, NEW key \in Keys,
         LanesTyped(table), Without(table, r),
         job[r] = "none", outcome[r] = "pending", state[r].queuedIn = "Io",
         state[r].laneKey = key, r \notin MainImage,
         prefetchedTotal + prefetchReads < MaxPrefetchCap,
         StartRead(r, table, key),
         UNCHANGED <<worker, bytesHold, queueVars, tuningVars, prefetchedTotal,
                     mainHeld, lifecycleVars>>
  PROVE  IndInv'
<1> USE DEF queueVars, tuningVars, lifecycleVars
<1>1. /\ state' = [state EXCEPT ![r].queuedIn = "None"]
      /\ job' = [job EXCEPT ![r] = "reading"]
      /\ serviceClock' = serviceClock + 1 /\ serviceClock \in Nat
      /\ lanes' = [table EXCEPT ![key].reading = TRUE, ![key].lastServed = serviceClock']
      /\ prefetchReads' = prefetchReads + 1 /\ prefetchReads \in Nat
      /\ readsInProgress' = [readsInProgress EXCEPT ![key.lane] = @ + 1]
      /\ readsByDevice' = IF DeviceAdmitted(key.lane)
                          THEN [readsByDevice EXCEPT ![key.place] = @ + 1]
                          ELSE readsByDevice
      /\ UNCHANGED <<live, outcome, mainReads>>
  BY DEF StartRead, IndInv, TypeOK
<1>2. LanesTyped(lanes') /\ LanesOnlyLose({r})
  <2>1. /\ DOMAIN lanes' = DOMAIN table
        /\ \A k \in DOMAIN table : k # key => lanes'[k] = table[k]
        /\ key \in DOMAIN table =>
             lanes'[key] = [table[key] EXCEPT !.reading = TRUE, !.lastServed = serviceClock']
    BY <1>1
  <2>2. key \in DOMAIN table => /\ lanes'[key] \in LaneState
                                /\ lanes'[key].queue = table[key].queue
                                /\ lanes'[key].mainQueue = table[key].mainQueue
    <3>1. PICK clock \in Nat : serviceClock' = clock
      BY <1>1
    <3> QED BY <2>1, <3>1 DEF LanesTyped, LaneState
  <2>3. LanesTyped(lanes')
    BY <2>1, <2>2 DEF LanesTyped
  <2> QED BY <2>1, <2>2, <2>3 DEF Without, LanesOnlyLose
<1>3. /\ state' \in [Request -> RequestState] /\ job' \in [Request -> Job]
      /\ state'[r].laneKey = state[r].laneKey
      /\ \A q \in Request \ {r} : state'[q] = state[q] /\ job'[q] = job[q]
      /\ Holders' /\ Queues' /\ HeldAccounted'
  BY <1>1, <1>2, TakenByReader DEF Reading
<1>4. TypeOK'
  <2>1. /\ readsInProgress \in [LaneKind -> Nat] /\ readsByDevice \in [Devices -> Nat]
    BY DEF IndInv, TypeOK
  <2>2. readsInProgress' \in [LaneKind -> Nat] /\ readsByDevice' \in [Devices -> Nat]
    <3>1. key.lane \in LaneKind /\ key.place \in Devices
      BY KeyType
    <3>2. readsInProgress[key.lane] + 1 \in Nat /\ readsByDevice[key.place] + 1 \in Nat
      BY <2>1, <3>1
    <3>3. readsInProgress' \in [LaneKind -> Nat]
      BY <1>1, <2>1, <3>2
    <3>4. readsByDevice' \in [Devices -> Nat]
      BY <1>1, <2>1, <3>2
    <3> QED BY <3>3, <3>4
  <2>3. serviceClock' \in Nat /\ prefetchReads' \in Nat
    BY <1>1
  <2> QED BY <1>1, <1>2, <1>3, <2>2, <2>3 DEF IndInv, TypeOK, LanesTyped
<1>5. ReadsAccounted'
  BY <1>1, <1>3, ReadBegins DEF IndInv, CapacityAccounted
<1>6. WithinCaps'
  <2>1. prefetchedTotal \in Nat /\ MaxPrefetchCap \in Nat
    BY SchedulerConstants DEF IndInv, TypeOK
  <2> QED BY <1>1, <2>1 DEF IndInv, WithinCaps
<1> QED BY <1>3, <1>4, <1>5, <1>6 DEF IndInv, CapacityAccounted

\* A lane reader discards or starts what it pops.
LEMMA LaneReaderTakeInv ==
  ASSUME IndInv, NEW kind \in LaneKind, LaneReaderTake(kind) PROVE IndInv'
<1>1. PICK key \in NextThumbnailLane(kind) : \E e \in lanes[key].queue :
        /\ IF state[e.task].canceled
           THEN DiscardQueued(e.task, [lanes EXCEPT ![key].queue = @ \ {e}], key)
           ELSE StartRead(e.task, [lanes EXCEPT ![key].queue = @ \ {e}], key)
  BY DEF LaneReaderTake
<1>2. key \in DOMAIN lanes /\ FreeSlots > 0
  BY DEF NextThumbnailLane, SelectThumbnailLane, AdmissibleLanes
<1>3. prefetchedTotal + prefetchReads < MaxPrefetchCap
  <2>1. /\ prefetchedTotal \in Nat /\ prefetchReads \in Nat
        /\ globalPrefetchCap \in 1..MaxPrefetchCap /\ MaxPrefetchCap \in Nat
    BY SchedulerConstants DEF IndInv, TypeOK
  <2> QED BY <1>2, <2>1 DEF FreeSlots
<1>4. PICK e \in lanes[key].queue :
        IF state[e.task].canceled
        THEN DiscardQueued(e.task, [lanes EXCEPT ![key].queue = @ \ {e}], key)
        ELSE StartRead(e.task, [lanes EXCEPT ![key].queue = @ \ {e}], key)
  BY <1>1
<1> DEFINE r      == e.task
           popped == [lanes EXCEPT ![key].queue = @ \ {e}]
<1>5. /\ r \in Request /\ key \in Keys
      /\ job[r] = "none" /\ outcome[r] = "pending" /\ state[r].queuedIn = "Io"
      /\ state[r].laneKey = key /\ r \notin MainImage
  <2>1. Waits(e, "Io") /\ state[e.task].laneKey = key /\ e.task \notin MainImage
    BY <1>2 DEF IndInv, Queues, LaneQueuesAgree
  <2>2. lanes[key] \in LaneState /\ key \in Keys
    BY <1>2 DEF IndInv, TypeOK
  <2> QED BY <2>1, <2>2 DEF Waits, LaneState
<1>6. LanesTyped(popped) /\ Without(popped, r)
  BY <1>2, PopThumbnail
<1>7. UNCHANGED <<worker, bytesHold, queueVars, tuningVars, prefetchedTotal,
                  mainHeld, lifecycleVars>>
  BY DEF LaneReaderTake
<1>8. DiscardQueued(r, popped, key) \/ StartRead(r, popped, key)
  BY <1>4
<1> HIDE DEF r, popped
<1> QED BY <1>3, <1>5, <1>6, <1>7, <1>8, DiscardQueuedInv, StartReadInv

\* A main reader that starts a read takes an input the selection found free.
LEMMA StartMainReadInv ==
  ASSUME IndInv, NEW r \in Request, NEW table, NEW key \in Keys,
         LanesTyped(table), Without(table, r),
         job[r] = "none", outcome[r] = "pending", state[r].queuedIn = "MainIo",
         state[r].laneKey = key, r \in MainImage,
         mainReads + mainHeld < MainImageInputCap,
         StartMainRead(r, table, key),
         UNCHANGED <<worker, bytesHold, queueVars, tuningVars, prefetchedTotal,
                     mainHeld, lifecycleVars>>
  PROVE  IndInv'
<1> USE DEF queueVars, tuningVars, lifecycleVars
<1>1. /\ state' = [state EXCEPT ![r].queuedIn = "None"]
      /\ job' = [job EXCEPT ![r] = "mainReading"]
      /\ lanes' = [table EXCEPT ![key].mainReading = TRUE]
      /\ mainReads' = mainReads + 1 /\ mainReads \in Nat
      /\ UNCHANGED <<live, outcome, serviceClock, readsByDevice, readsInProgress,
                     prefetchReads>>
  BY DEF StartMainRead, IndInv, TypeOK
<1>2. LanesTyped(lanes') /\ LanesOnlyLose({r})
  <2>1. /\ DOMAIN lanes' = DOMAIN table
        /\ \A k \in DOMAIN table : k # key => lanes'[k] = table[k]
        /\ key \in DOMAIN table => lanes'[key] = [table[key] EXCEPT !.mainReading = TRUE]
    BY <1>1
  <2>2. key \in DOMAIN table => /\ lanes'[key] \in LaneState
                                /\ lanes'[key].queue = table[key].queue
                                /\ lanes'[key].mainQueue = table[key].mainQueue
    BY <2>1 DEF LanesTyped, LaneState
  <2>3. LanesTyped(lanes')
    BY <2>1, <2>2 DEF LanesTyped
  <2> QED BY <2>1, <2>2, <2>3 DEF Without, LanesOnlyLose
<1>3. /\ state' \in [Request -> RequestState] /\ job' \in [Request -> Job]
      /\ state'[r].laneKey = state[r].laneKey /\ job'[r] = "mainReading"
      /\ \A q \in Request \ {r} : state'[q] = state[q] /\ job'[q] = job[q]
      /\ Holders' /\ Queues' /\ HeldAccounted'
  BY <1>1, <1>2, TakenByReader DEF Reading
<1>4. TypeOK'
  <2>1. mainReads' \in Nat
    BY <1>1
  <2> QED BY <1>1, <1>2, <1>3, <2>1 DEF IndInv, TypeOK, LanesTyped
<1>5. ReadsAccounted'
  <2>1. /\ MainReadsOn' = MainReadsOn \cup {r} /\ r \notin MainReadsOn
        /\ MainReadsOn \subseteq Request
    BY <1>3 DEF MainReadsOn
  <2>2. mainReads' = Cardinality(MainReadsOn')
    BY <1>1, <2>1, OneMore DEF IndInv, CapacityAccounted, ReadsAccounted
  <2>3. /\ ThumbnailReads' = ThumbnailReads
        /\ \A kind \in LaneKind : ReadsOf(kind)' = ReadsOf(kind)
        /\ \A d \in Devices : DeviceReads(d)' = DeviceReads(d)
    BY <1>3 DEF ThumbnailReads, ReadsOf, DeviceReads
  <2> QED BY <1>1, <2>2, <2>3 DEF IndInv, CapacityAccounted, ReadsAccounted
<1>6. WithinCaps'
  <2>1. mainHeld \in Nat /\ MainImageInputCap \in Nat
    BY LaneConstants DEF IndInv, TypeOK
  <2> QED BY <1>1, <2>1 DEF IndInv, WithinCaps
<1> QED BY <1>3, <1>4, <1>5, <1>6 DEF IndInv, CapacityAccounted

\* A main reader discards or starts what it pops.
LEMMA MainReaderTakeInv == ASSUME IndInv, MainReaderTake PROVE IndInv'
<1>1. PICK key \in SelectMainLane(lanes, mainReads + mainHeld) :
        \E e \in lanes[key].mainQueue :
          IF state[e.task].canceled
          THEN DiscardQueued(e.task, [lanes EXCEPT ![key].mainQueue = @ \ {e}], key)
          ELSE StartMainRead(e.task, [lanes EXCEPT ![key].mainQueue = @ \ {e}], key)
  BY DEF MainReaderTake
<1>2. key \in DOMAIN lanes /\ mainReads + mainHeld < MainImageInputCap
  BY DEF SelectMainLane
<1>3. PICK e \in lanes[key].mainQueue :
        IF state[e.task].canceled
        THEN DiscardQueued(e.task, [lanes EXCEPT ![key].mainQueue = @ \ {e}], key)
        ELSE StartMainRead(e.task, [lanes EXCEPT ![key].mainQueue = @ \ {e}], key)
  BY <1>1
<1> DEFINE r      == e.task
           popped == [lanes EXCEPT ![key].mainQueue = @ \ {e}]
<1>4. /\ r \in Request /\ key \in Keys
      /\ job[r] = "none" /\ outcome[r] = "pending" /\ state[r].queuedIn = "MainIo"
      /\ state[r].laneKey = key /\ r \in MainImage
  <2>1. Waits(e, "MainIo") /\ state[e.task].laneKey = key /\ e.task \in MainImage
    BY <1>2 DEF IndInv, Queues, LaneQueuesAgree
  <2>2. lanes[key] \in LaneState /\ key \in Keys
    BY <1>2 DEF IndInv, TypeOK
  <2> QED BY <2>1, <2>2 DEF Waits, LaneState
<1>5. LanesTyped(popped) /\ Without(popped, r)
  BY <1>2, PopMain
<1>6. UNCHANGED <<worker, bytesHold, queueVars, tuningVars, prefetchedTotal,
                  mainHeld, lifecycleVars>>
  BY DEF MainReaderTake
<1>7. DiscardQueued(r, popped, key) \/ StartMainRead(r, popped, key)
  BY <1>3
<1> HIDE DEF r, popped
<1> QED BY <1>2, <1>4, <1>5, <1>6, <1>7, DiscardQueuedInv, StartMainReadInv

-----------------------------------------------------------------------------
(***************************************************************************)
(* The readers finish a read.                                              *)
(***************************************************************************)

\* A thumbnail read ends: one less in every count it belonged to.
LEMMA ReadOver ==
  ASSUME TypeOK, ReadsAccounted, NEW r \in Request, NEW key \in Keys,
         job[r] = "reading", state[r].laneKey = key,
         job' = [job EXCEPT ![r] = "none"],
         \A q \in Request \ {r} : state'[q] = state[q],
         prefetchReads' = prefetchReads - 1,
         mainReads' = mainReads,
         readsInProgress' = [readsInProgress EXCEPT ![key.lane] = @ - 1],
         readsByDevice' = IF DeviceAdmitted(key.lane)
                          THEN [readsByDevice EXCEPT ![key.place] = Dec(@)]
                          ELSE readsByDevice
  PROVE  /\ ReadsAccounted'
         /\ prefetchReads > 0 /\ prefetchReads' \in Nat
         /\ readsInProgress' \in [LaneKind -> Nat] /\ readsByDevice' \in [Devices -> Nat]
<1>1. /\ job'[r] = "none" /\ \A q \in Request \ {r} : job'[q] = job[q]
      /\ key.lane \in LaneKind /\ key.place \in Devices
  BY KeyType DEF TypeOK
<1>2. /\ prefetchReads \in Nat /\ readsInProgress \in [LaneKind -> Nat]
      /\ readsByDevice \in [Devices -> Nat]
  BY DEF TypeOK
<1>3. ThumbnailReads' = ThumbnailReads \ {r} /\ r \in ThumbnailReads
  BY <1>1 DEF ThumbnailReads
<1>4. prefetchReads > 0 /\ prefetchReads' = Cardinality(ThumbnailReads')
  <2>1. ThumbnailReads \subseteq Request
    BY DEF ThumbnailReads
  <2> QED BY <1>3, <2>1, OneLess DEF ReadsAccounted
<1>5. MainReadsOn' = MainReadsOn
  BY <1>1 DEF MainReadsOn
<1>6. readsInProgress[key.lane] > 0
  <2>1. ReadsOf(key.lane) \subseteq Request /\ r \in ReadsOf(key.lane)
    BY DEF ReadsOf
  <2> QED BY <1>1, <2>1, OneLess DEF ReadsAccounted
<1>7. readsInProgress' \in [LaneKind -> Nat]
  <2>1. readsInProgress[key.lane] - 1 \in Nat
    BY <1>1, <1>2, <1>6
  <2> QED BY <1>2, <2>1
<1>8. readsByDevice' \in [Devices -> Nat]
  <2>1. Dec(readsByDevice[key.place]) \in Nat
    BY <1>1, <1>2 DEF Dec
  <2> QED BY <1>2, <2>1
<1>9. ASSUME NEW kind \in LaneKind
      PROVE  readsInProgress'[kind] = Cardinality(ReadsOf(kind)')
  <2>1. readsInProgress[kind] = Cardinality(ReadsOf(kind)) /\ ReadsOf(kind) \subseteq Request
    BY DEF ReadsOf, ReadsAccounted
  <2>2. CASE kind = key.lane
    <3>1. ReadsOf(kind)' = ReadsOf(kind) \ {r} /\ r \in ReadsOf(kind)
      BY <1>1, <2>2 DEF ReadsOf
    <3>2. Cardinality(ReadsOf(kind)') = Cardinality(ReadsOf(kind)) - 1
      BY <2>1, <3>1, OneLess
    <3> QED BY <1>1, <1>2, <2>1, <2>2, <3>2
  <2>3. CASE kind # key.lane
    <3>1. ReadsOf(kind)' = ReadsOf(kind)
      BY <1>1, <2>3 DEF ReadsOf
    <3> QED BY <1>1, <1>2, <2>1, <2>3, <3>1
  <2> QED BY <2>2, <2>3
<1>10. ASSUME NEW d \in Devices
       PROVE  readsByDevice'[d] = Cardinality(DeviceReads(d)')
  <2>1. readsByDevice[d] = Cardinality(DeviceReads(d)) /\ DeviceReads(d) \subseteq Request
    BY DEF DeviceReads, ThumbnailReads, ReadsAccounted
  <2>2. CASE DeviceAdmitted(key.lane) /\ d = key.place
    <3>1. DeviceReads(d)' = DeviceReads(d) \ {r} /\ r \in DeviceReads(d)
      BY <1>1, <1>3, <2>2 DEF DeviceReads, ThumbnailReads
    <3>2. /\ Cardinality(DeviceReads(d)) > 0
          /\ Cardinality(DeviceReads(d)') = Cardinality(DeviceReads(d)) - 1
      BY <2>1, <3>1, OneLess
    <3>3. readsByDevice'[d] = readsByDevice[d] - 1
      BY <1>2, <2>1, <2>2, <3>2 DEF Dec
    <3> QED BY <2>1, <3>2, <3>3
  <2>3. CASE ~(DeviceAdmitted(key.lane) /\ d = key.place)
    <3>1. DeviceReads(d)' = DeviceReads(d)
      BY <1>1, <1>3, <2>3 DEF DeviceReads, ThumbnailReads
    <3> QED BY <1>1, <1>2, <2>1, <2>3, <3>1
  <2> QED BY <2>2, <2>3
<1>11. prefetchReads' \in Nat
  BY <1>2, <1>4
<1> QED BY <1>4, <1>5, <1>7, <1>8, <1>9, <1>10, <1>11 DEF ReadsAccounted

\* The read of a thumbnail ends: discarded, or on to the background queue.
LEMMA LaneReaderFinishInv ==
  ASSUME IndInv, NEW r \in Request, NEW result \in ReadResult, LaneReaderFinish(r, result)
  PROVE  IndInv'
<1> DEFINE key     == state[r].laneKey
           discard == Discards(r, result)
           keeps   == result = "bytes" /\ ~discard
           s       == AfterRead(state[r], result, key.lane # "Local", "slot")
           t       == [s EXCEPT !.queuedIn = "Decode"]
           done    == [lanes EXCEPT ![key].reading = FALSE,
                                    ![key].held = IF keeps THEN @ + 1 ELSE @]
<1> USE DEF tuningVars, mainVars, lifecycleVars
<1>1. /\ job[r] = "reading" /\ job' = [job EXCEPT ![r] = "none"]
      /\ prefetchReads' = prefetchReads - 1
      /\ readsInProgress' = [readsInProgress EXCEPT ![key.lane] = @ - 1]
      /\ readsByDevice' = IF DeviceAdmitted(key.lane)
                          THEN [readsByDevice EXCEPT ![key.place] = Dec(@)]
                          ELSE readsByDevice
      /\ lanes' = Reclaim(done, key)
      /\ prefetchedTotal' = IF keeps THEN prefetchedTotal + 1 ELSE prefetchedTotal
      /\ UNCHANGED <<worker, bytesHold, serviceClock, highQueue, nextSequence,
                     tuningVars, mainVars, lifecycleVars>>
  BY DEF LaneReaderFinish
<1>2. /\ state[r] \in RequestState /\ HoldsRightly(r) /\ HoldsNothingYet(r)
      /\ bytesHold[r] \in BOOLEAN
  BY DEF IndInv, TypeOK, Holders
<1>3. /\ r \notin MainImage /\ key \in Keys /\ outcome[r] = "pending"
      /\ state[r].holdsPrefetchSlot = FALSE /\ state[r].holdsMainInput = FALSE
      /\ ~bytesHold[r]
  BY <1>1, <1>2 DEF HoldsRightly, HoldsNothingYet, Reading, RequestState
<1>4. /\ t \in RequestState
      /\ result # "bytes" => t.prefetched = FALSE /\ t.holdsPrefetchSlot = FALSE
      /\ result = "bytes" => t.holdsPrefetchSlot = TRUE
      /\ t.holdsMainInput = FALSE
      /\ t.priority = s.priority /\ t.sequence = s.sequence /\ t.queuedIn = "Decode"
      /\ s.priority \in Nat /\ s.sequence \in Nat
  <2>1. /\ s \in RequestState
        /\ result # "bytes" => s.prefetched = FALSE /\ s.holdsPrefetchSlot = FALSE
        /\ result = "bytes" => s.holdsPrefetchSlot = TRUE
        /\ s.holdsMainInput = FALSE
    <3> DEFINE slow == key.lane # "Local"
    <3>1. slow \in BOOLEAN /\ s = AfterRead(state[r], result, slow, "slot")
      OBVIOUS
    <3> HIDE DEF slow, s
    <3> QED BY <1>2, <3>1, ZenonT(60) DEF AfterRead, RequestState
  <2> HIDE DEF s
  <2> QED BY <2>1 DEF RequestState, Stage
<1>5. /\ discard => /\ live' \subseteq live
                    /\ outcome' = [outcome EXCEPT ![r] = "dropped"]
                    /\ state' = [state EXCEPT ![r] = Fresh]
                    /\ UNCHANGED backgroundQueue
      /\ ~discard => /\ state' = [state EXCEPT ![r] = t]
                     /\ backgroundQueue' = Push(backgroundQueue, r, s.priority, s.sequence)
                     /\ UNCHANGED <<live, outcome>>
  BY DEF LaneReaderFinish, Finish
<1> HIDE DEF t, s, discard
<1>6. /\ job'[r] = "none" /\ \A q \in Request \ {r} : job'[q] = job[q]
      /\ \A q \in Request \ {r} : state'[q] = state[q] /\ outcome'[q] = outcome[q]
      /\ discard => state'[r] = Fresh /\ outcome'[r] = "dropped"
      /\ ~discard => state'[r] = t /\ outcome'[r] = "pending"
  BY <1>1, <1>3, <1>5 DEF IndInv, TypeOK
<1>7. LanesTyped(lanes') /\ LanesOnlyLose({})
  <2> DEFINE lane == [lanes[key] EXCEPT !.reading = FALSE,
                                        !.held = IF keeps THEN @ + 1 ELSE @]
  <2>1. key \in DOMAIN lanes =>
          lane \in LaneState /\ lane.queue = lanes[key].queue
                             /\ lane.mainQueue = lanes[key].mainQueue
    <3> SUFFICES ASSUME key \in DOMAIN lanes
                 PROVE  lane \in LaneState /\ lane.queue = lanes[key].queue
                                           /\ lane.mainQueue = lanes[key].mainQueue
      OBVIOUS
    <3> DEFINE held == IF keeps THEN lanes[key].held + 1 ELSE lanes[key].held
    <3>1. lanes[key] \in LaneState
      BY DEF IndInv, TypeOK
    <3>2. held \in Nat
      BY <3>1 DEF LaneState
    <3>3. lane = [lanes[key] EXCEPT !.reading = FALSE, !.held = held]
      OBVIOUS
    <3> HIDE DEF held, lane
    <3> QED BY <3>1, <3>2, <3>3 DEF LaneState
  <2>2. /\ DOMAIN done = DOMAIN lanes
        /\ \A k \in DOMAIN lanes : done[k] = IF k = key THEN lane ELSE lanes[k]
    OBVIOUS
  <2>3. lanes' = Reclaim(done, key)
    BY <1>1
  <2> HIDE DEF done, lane, key
  <2>4. LanesTyped(done)
    BY <2>1, <2>2 DEF IndInv, TypeOK, LanesTyped
  <2>5. \A k \in DOMAIN lanes : /\ done[k].queue = lanes[k].queue
                               /\ done[k].mainQueue = lanes[k].mainQueue
    BY <2>1, <2>2
  <2>6. LanesTyped(lanes')
    BY <2>3, <2>4, ReclaimTyped
  <2>7. \A k \in DOMAIN lanes' : k \in DOMAIN done /\ lanes'[k] = done[k]
    BY <2>3, ReclaimKeeps
  <2> QED BY <2>2, <2>5, <2>6, <2>7 DEF LanesOnlyLose
<1>8. /\ ReadsAccounted'
      /\ prefetchReads > 0 /\ prefetchReads' \in Nat
      /\ readsInProgress' \in [LaneKind -> Nat] /\ readsByDevice' \in [Devices -> Nat]
  <2> HIDE DEF key
  <2>1. state[r].laneKey = key
    BY DEF key
  <2> QED BY <1>1, <1>3, <1>6, <2>1, ReadOver DEF IndInv, CapacityAccounted
<1>9. backgroundQueue' \subseteq [task : Request, priority : Nat, sequence : Nat]
  <2>1. Entry(r, s.priority, s.sequence) \in [task : Request, priority : Nat, sequence : Nat]
    BY <1>4 DEF Entry
  <2> QED BY <1>5, <2>1, PushAdds DEF IndInv, TypeOK
<1>10. prefetchedTotal' \in Nat
  BY <1>1 DEF IndInv, TypeOK
<1>11. TypeOK'
  <2>1. state' \in [Request -> RequestState] /\ outcome' \in [Request -> Outcome]
    BY <1>4, <1>5, FreshType, ZenonT(60) DEF IndInv, TypeOK, Outcome
  <2>2. job' \in [Request -> Job]
    BY <1>1 DEF IndInv, TypeOK, Job
  <2>3. live' \subseteq Request
    BY <1>5 DEF IndInv, TypeOK
  <2> QED BY <1>1, <1>7, <1>8, <1>9, <1>10, <2>1, <2>2, <2>3 DEF IndInv, TypeOK, LanesTyped
<1>12. Holders'
  <2>1. ASSUME NEW q \in Request PROVE HoldsRightly(q)' /\ HoldsNothingYet(q)'
    <3>1. CASE q = r /\ discard
      BY <1>1, <1>3, <1>6, <3>1 DEF HoldsRightly, HoldsNothingYet, Fresh, Reading
    <3>2. CASE q = r /\ ~discard
      BY <1>1, <1>3, <1>4, <1>6, <3>2 DEF HoldsRightly, HoldsNothingYet, Reading
    <3>3. CASE q # r
      BY <1>1, <1>6, <3>3 DEF IndInv, Holders, HoldsRightly, HoldsNothingYet
    <3> QED BY <3>1, <3>2, <3>3
  <2> QED BY <2>1 DEF Holders
<1>13. Undisturbed({r})
  BY <1>6 DEF Undisturbed
<1>14. Queues'
  <2>1. CASE discard
    BY <1>1, <1>5, <1>7, <1>13, <2>1, QueuesFrame DEF IndInv
  <2>2. CASE ~discard
    <3>1. /\ \A k \in DOMAIN lanes :
               \A e \in lanes[k].queue \cup lanes[k].mainQueue : e.task # r
          /\ \A e \in backgroundQueue : e.task # r
          /\ \A i \in DOMAIN highQueue : highQueue[i] \notin {r}
      BY <1>1, BusyInNoQueue DEF IndInv
    <3>2. LanesOnlyLose({r})
      BY <1>7, <3>1 DEF LanesOnlyLose
    <3>3. LaneQueuesAgree' /\ HighAgrees'
      BY <1>1, <1>13, <3>1, <3>2, LaneQueuesFrame, HighFrame DEF IndInv, Queues
    <3>4. ASSUME NEW e \in backgroundQueue' PROVE Waits(e, "Decode")'
      <4>1. CASE e \in backgroundQueue
        BY <1>13, <3>1, <4>1
           DEF IndInv, TypeOK, Queues, BackgroundAgrees, Undisturbed, Waits
      <4>2. CASE e = Entry(r, s.priority, s.sequence)
        BY <1>4, <1>6, <2>2, <4>2, EntryFields DEF Waits
      <4> QED BY <1>5, <2>2, <4>1, <4>2, PushAdds
    <3> QED BY <3>3, <3>4 DEF Queues, BackgroundAgrees
  <2> QED BY <2>1, <2>2
<1>15. HeldAccounted'
  <2>1. CASE keeps
    <3>1. /\ SlotHolders' = SlotHolders \cup {r} /\ r \notin SlotHolders
          /\ SlotHolders \subseteq Request /\ InputHolders' = InputHolders
      BY <1>3, <1>4, <1>6, <2>1 DEF SlotHolders, InputHolders
    <3> QED BY <1>1, <2>1, <3>1, OneMore DEF IndInv, CapacityAccounted, HeldAccounted
  <2>2. CASE ~keeps
    <3>1. state'[r].holdsPrefetchSlot = FALSE /\ state'[r].holdsMainInput = FALSE
      BY <1>4, <1>6, <2>2 DEF Fresh
    <3> QED BY <1>1, <1>3, <1>6, <2>2, <3>1, HeldFrame DEF IndInv, CapacityAccounted
  <2> QED BY <2>1, <2>2
<1>16. WithinCaps'
  <2>1. /\ prefetchReads \in Nat /\ prefetchedTotal \in Nat /\ MaxPrefetchCap \in Nat
    BY SchedulerConstants DEF IndInv, TypeOK
  <2>2. prefetchedTotal' + prefetchReads' <= prefetchedTotal + prefetchReads
    BY <1>1, <2>1
  <2> QED BY <1>1, <2>1 DEF IndInv, WithinCaps
<1> QED BY <1>8, <1>11, <1>12, <1>14, <1>15, <1>16 DEF IndInv, CapacityAccounted

\* The read of a main image ends: discarded, or on to the high queue.
LEMMA MainReaderFinishInv ==
  ASSUME IndInv, NEW r \in Request, NEW result \in ReadResult, MainReaderFinish(r, result)
  PROVE  IndInv'
<1> DEFINE key     == state[r].laneKey
           discard == Discards(r, result)
           keeps   == result = "bytes" /\ ~discard
           t       == AfterRead(state[r], result, TRUE, "input")
           done    == [lanes EXCEPT ![key].mainReading = FALSE]
<1> USE DEF tuningVars, prefetchVars, lifecycleVars
<1>1. /\ job[r] = "mainReading" /\ job' = [job EXCEPT ![r] = "none"]
      /\ mainReads' = mainReads - 1
      /\ lanes' = Reclaim(done, key)
      /\ mainHeld' = IF keeps THEN mainHeld + 1 ELSE mainHeld
      /\ UNCHANGED <<worker, bytesHold, serviceClock, readsByDevice,
                     readsInProgress, backgroundQueue, nextSequence, tuningVars,
                     prefetchVars, lifecycleVars>>
  BY DEF MainReaderFinish
<1>2. /\ state[r] \in RequestState /\ HoldsRightly(r) /\ HoldsNothingYet(r)
      /\ bytesHold[r] \in BOOLEAN
  BY DEF IndInv, TypeOK, Holders
<1>3. /\ r \in MainImage /\ outcome[r] = "pending" /\ state[r].queuedIn = "None"
      /\ state[r].holdsPrefetchSlot = FALSE /\ state[r].holdsMainInput = FALSE
      /\ ~bytesHold[r]
  BY <1>1, <1>2 DEF HoldsRightly, HoldsNothingYet, Reading, RequestState
<1>4. /\ t \in RequestState
      /\ result # "bytes" => t.prefetched = FALSE /\ t.holdsMainInput = FALSE
      /\ result = "bytes" => t.holdsMainInput = TRUE
      /\ t.holdsPrefetchSlot = FALSE
      /\ t.queuedIn = "None"
  BY <1>2, <1>3 DEF AfterRead, RequestState
<1>5. /\ discard => /\ live' \subseteq live
                    /\ outcome' = [outcome EXCEPT ![r] = "dropped"]
                    /\ state' = [state EXCEPT ![r] = Fresh]
                    /\ UNCHANGED highQueue
      /\ ~discard => /\ state' = [state EXCEPT ![r] = t]
                     /\ highQueue' = Append(highQueue, r)
                     /\ UNCHANGED <<live, outcome>>
  BY DEF MainReaderFinish, Finish
<1> HIDE DEF t, discard
<1>6. /\ job'[r] = "none" /\ \A q \in Request \ {r} : job'[q] = job[q]
      /\ \A q \in Request \ {r} : state'[q] = state[q] /\ outcome'[q] = outcome[q]
      /\ discard => state'[r] = Fresh /\ outcome'[r] = "dropped"
      /\ ~discard => state'[r] = t /\ outcome'[r] = "pending"
  BY <1>1, <1>3, <1>5 DEF IndInv, TypeOK
<1>7. LanesTyped(lanes') /\ LanesOnlyLose({})
  <2> DEFINE lane == [lanes[key] EXCEPT !.mainReading = FALSE]
  <2>1. key \in DOMAIN lanes =>
          lane \in LaneState /\ lane.queue = lanes[key].queue
                             /\ lane.mainQueue = lanes[key].mainQueue
    BY ZenonT(60) DEF IndInv, TypeOK, LaneState
  <2>2. /\ DOMAIN done = DOMAIN lanes
        /\ \A k \in DOMAIN lanes : done[k] = IF k = key THEN lane ELSE lanes[k]
    OBVIOUS
  <2>3. lanes' = Reclaim(done, key)
    BY <1>1
  <2> HIDE DEF done, lane, key
  <2>4. LanesTyped(done)
    BY <2>1, <2>2 DEF IndInv, TypeOK, LanesTyped
  <2>5. \A k \in DOMAIN lanes : /\ done[k].queue = lanes[k].queue
                               /\ done[k].mainQueue = lanes[k].mainQueue
    BY <2>1, <2>2
  <2>6. LanesTyped(lanes')
    BY <2>3, <2>4, ReclaimTyped
  <2>7. \A k \in DOMAIN lanes' : k \in DOMAIN done /\ lanes'[k] = done[k]
    BY <2>3, ReclaimKeeps
  <2> QED BY <2>2, <2>5, <2>6, <2>7 DEF LanesOnlyLose
<1>8. ReadsAccounted' /\ mainReads > 0 /\ mainReads' \in Nat
  <2>1. /\ MainReadsOn' = MainReadsOn \ {r} /\ r \in MainReadsOn
        /\ MainReadsOn \subseteq Request
    BY <1>1, <1>6 DEF MainReadsOn
  <2>2. mainReads > 0 /\ mainReads' = Cardinality(MainReadsOn')
    BY <1>1, <2>1, OneLess DEF IndInv, CapacityAccounted, ReadsAccounted
  <2>3. /\ ThumbnailReads' = ThumbnailReads
        /\ \A kind \in LaneKind : ReadsOf(kind)' = ReadsOf(kind)
        /\ \A d \in Devices : DeviceReads(d)' = DeviceReads(d)
    BY <1>1, <1>6 DEF ThumbnailReads, ReadsOf, DeviceReads
  <2>4. mainReads' \in Nat
    BY <1>1, <2>2 DEF IndInv, TypeOK
  <2> QED BY <1>1, <2>2, <2>3, <2>4 DEF IndInv, CapacityAccounted, ReadsAccounted
<1>9. mainHeld' \in Nat
  BY <1>1 DEF IndInv, TypeOK
<1>10. Undisturbed({r})
  BY <1>6 DEF Undisturbed
<1>11. Queues' /\ highQueue' \in Seq(Request)
  <2>1. CASE discard
    BY <1>1, <1>5, <1>7, <1>10, <2>1, QueuesFrame DEF IndInv, TypeOK
  <2>2. CASE ~discard
    <3>1. /\ \A k \in DOMAIN lanes :
               \A e \in lanes[k].queue \cup lanes[k].mainQueue : e.task # r
          /\ \A e \in backgroundQueue : e.task \notin {r}
          /\ \A i \in DOMAIN highQueue : highQueue[i] # r
      BY <1>1, BusyInNoQueue DEF IndInv
    <3>2. LanesOnlyLose({r})
      BY <1>7, <3>1 DEF LanesOnlyLose
    <3>3. LaneQueuesAgree' /\ BackgroundAgrees'
      BY <1>1, <1>10, <3>1, <3>2, LaneQueuesFrame, BackgroundFrame DEF IndInv, Queues
    <3>4. HighAgrees' /\ highQueue' \in Seq(Request)
      BY <1>4, <1>5, <1>6, <1>10, <2>2, <3>1, HighPush DEF IndInv, Queues
    <3> QED BY <3>3, <3>4 DEF Queues
  <2> QED BY <2>1, <2>2
<1>12. TypeOK'
  <2>1. state' \in [Request -> RequestState] /\ outcome' \in [Request -> Outcome]
    BY <1>4, <1>5, FreshType, ZenonT(60) DEF IndInv, TypeOK, Outcome
  <2>2. job' \in [Request -> Job]
    BY <1>1 DEF IndInv, TypeOK, Job
  <2>3. live' \subseteq Request
    BY <1>5 DEF IndInv, TypeOK
  <2> QED BY <1>1, <1>7, <1>8, <1>9, <1>11, <2>1, <2>2, <2>3
          DEF IndInv, TypeOK, LanesTyped
<1>13. Holders'
  <2>1. ASSUME NEW q \in Request PROVE HoldsRightly(q)' /\ HoldsNothingYet(q)'
    <3>1. CASE q = r /\ discard
      BY <1>1, <1>3, <1>6, <3>1 DEF HoldsRightly, HoldsNothingYet, Fresh, Reading
    <3>2. CASE q = r /\ ~discard
      BY <1>1, <1>3, <1>4, <1>6, <3>2 DEF HoldsRightly, HoldsNothingYet, Reading
    <3>3. CASE q # r
      BY <1>1, <1>6, <3>3 DEF IndInv, Holders, HoldsRightly, HoldsNothingYet
    <3> QED BY <3>1, <3>2, <3>3
  <2> QED BY <2>1 DEF Holders
<1>14. HeldAccounted'
  <2>1. CASE keeps
    <3>1. /\ InputHolders' = InputHolders \cup {r} /\ r \notin InputHolders
          /\ InputHolders \subseteq Request /\ SlotHolders' = SlotHolders
      BY <1>3, <1>4, <1>6, <2>1 DEF SlotHolders, InputHolders
    <3> QED BY <1>1, <2>1, <3>1, OneMore DEF IndInv, CapacityAccounted, HeldAccounted
  <2>2. CASE ~keeps
    <3>1. state'[r].holdsPrefetchSlot = FALSE /\ state'[r].holdsMainInput = FALSE
      BY <1>4, <1>6, <2>2 DEF Fresh
    <3> QED BY <1>1, <1>3, <1>6, <2>2, <3>1, HeldFrame DEF IndInv, CapacityAccounted
  <2> QED BY <2>1, <2>2
<1>15. WithinCaps'
  <2>1. mainReads \in Nat /\ mainHeld \in Nat /\ MainImageInputCap \in Nat
    BY LaneConstants DEF IndInv, TypeOK
  <2> QED BY <1>1, <2>1 DEF IndInv, WithinCaps
<1> QED BY <1>8, <1>11, <1>12, <1>13, <1>14, <1>15 DEF IndInv, CapacityAccounted

-----------------------------------------------------------------------------
(***************************************************************************)
(* A worker takes a task.                                                  *)
(***************************************************************************)

\* The popped task a worker meets: discarded with its capacity, or taken with it.
LEMMA TakeKeeps ==
  ASSUME IndInv, NEW r \in Request, NEW kind \in WorkerKind, Take(r, kind),
         job[r] = "none", outcome[r] = "pending", state[r].queuedIn \notin {"Io", "MainIo"},
         UNCHANGED <<serviceClock, readsByDevice, readsInProgress, nextSequence,
                     tuningVars, prefetchReads, mainReads, lifecycleVars>>,
         highQueue' \in Seq(Request), backgroundQueue' \subseteq backgroundQueue
  PROVE  /\ TypeOK' /\ Holders' /\ CapacityAccounted' /\ WithinCaps'
         /\ Undisturbed({r}) /\ LaneQueuesAgree'
<1> DEFINE s == [state[r] EXCEPT !.queuedIn = "None"]
           t == [s EXCEPT !.decoding = TRUE]
<1> USE DEF tuningVars, lifecycleVars
<1>1. /\ state[r] \in RequestState /\ HoldsRightly(r) /\ HoldsNothingYet(r)
      /\ bytesHold[r] \in BOOLEAN
  BY DEF IndInv, TypeOK, Holders
<1>2. ~bytesHold[r]
  BY <1>1 DEF HoldsRightly
<1>3. /\ s \in RequestState
      /\ s.holdsPrefetchSlot = state[r].holdsPrefetchSlot
      /\ s.holdsMainInput = state[r].holdsMainInput
      /\ s.prefetched = state[r].prefetched
      /\ t \in RequestState /\ t.decoding = TRUE /\ t.queuedIn = "None"
      /\ t.holdsPrefetchSlot = state[r].holdsPrefetchSlot
      /\ t.holdsMainInput = state[r].holdsMainInput
      /\ t.prefetched = state[r].prefetched
  BY <1>1 DEF RequestState, Stage
<1>4. \/ /\ state' = [state EXCEPT ![r] = Fresh]
         /\ lanes' = ReleasedLanes(lanes, s) /\ ReleaseCounts(s)
         /\ live' \subseteq live
         /\ outcome' = [outcome EXCEPT ![r] = "dropped"]
         /\ UNCHANGED <<job, worker, bytesHold>>
      \/ /\ state' = [state EXCEPT ![r] = t]
         /\ job' = [job EXCEPT ![r] = "taken"]
         /\ worker' = [worker EXCEPT ![r] = kind]
         /\ bytesHold' = [bytesHold EXCEPT ![r] = s.prefetched]
         /\ UNCHANGED <<live, outcome, lanes, prefetchedTotal, mainHeld>>
  BY DEF Take, Finish
<1> HIDE DEF s, t
<1>5. LanesTyped(lanes)
  BY DEF IndInv, TypeOK, LanesTyped
<1>6. \A k \in DOMAIN lanes : \A e \in lanes[k].queue \cup lanes[k].mainQueue : e.task # r
  BY DEF IndInv, Queues, LaneQueuesAgree, Waits
<1>7. CASE /\ state' = [state EXCEPT ![r] = Fresh]
           /\ lanes' = ReleasedLanes(lanes, s) /\ ReleaseCounts(s)
           /\ live' \subseteq live
           /\ outcome' = [outcome EXCEPT ![r] = "dropped"]
           /\ UNCHANGED <<job, worker, bytesHold>>
  <2>1. /\ state'[r] = Fresh /\ outcome'[r] = "dropped"
        /\ \A q \in Request \ {r} : state'[q] = state[q] /\ outcome'[q] = outcome[q]
    BY <1>7 DEF IndInv, TypeOK
  <2>2. LanesTyped(lanes') /\ LanesOnlyLose({r})
    BY <1>5, <1>6, <1>7, ReleasedLanesKeep DEF LanesOnlyLose
  <2>3. /\ HeldAccounted'
        /\ prefetchedTotal' \in Nat /\ prefetchedTotal' <= prefetchedTotal
        /\ mainHeld' \in Nat /\ mainHeld' <= mainHeld
    <3>1. ~state'[r].holdsPrefetchSlot /\ ~state'[r].holdsMainInput
      BY <2>1 DEF Fresh
    <3> QED BY <1>3, <1>7, <2>1, <3>1, HeldRelease DEF IndInv, CapacityAccounted
  <2>4. state' \in [Request -> RequestState] /\ outcome' \in [Request -> Outcome]
    BY <1>7, FreshType DEF IndInv, TypeOK, Outcome
  <2>5. TypeOK'
    BY <1>7, <2>2, <2>3, <2>4 DEF IndInv, TypeOK, LanesTyped
  <2>6. ASSUME NEW q \in Request PROVE HoldsRightly(q)' /\ HoldsNothingYet(q)'
    <3>1. CASE q = r
      BY <1>2, <1>7, <2>1, <3>1 DEF HoldsRightly, HoldsNothingYet, Fresh, Reading
    <3>2. CASE q # r
      BY <1>7, <2>1, <3>2 DEF IndInv, Holders, HoldsRightly, HoldsNothingYet
    <3> QED BY <3>1, <3>2
  <2>7. ReadsAccounted'
    BY <1>7, <2>1, ReadsFrame DEF IndInv, CapacityAccounted
  <2>8. WithinCaps'
    BY <2>3, WithinCapsFrame DEF IndInv
  <2>9. Undisturbed({r})
    BY <1>7, <2>1 DEF Undisturbed
  <2>10. LaneQueuesAgree'
    BY <2>2, <2>9, LaneQueuesFrame DEF IndInv, Queues
  <2> QED BY <2>3, <2>5, <2>6, <2>7, <2>8, <2>9, <2>10 DEF Holders, CapacityAccounted
<1>8. CASE /\ state' = [state EXCEPT ![r] = t]
           /\ job' = [job EXCEPT ![r] = "taken"]
           /\ worker' = [worker EXCEPT ![r] = kind]
           /\ bytesHold' = [bytesHold EXCEPT ![r] = s.prefetched]
           /\ UNCHANGED <<live, outcome, lanes, prefetchedTotal, mainHeld>>
  <2>1. /\ state'[r] = t /\ job'[r] = "taken" /\ bytesHold'[r] = s.prefetched
        /\ \A q \in Request \ {r} : /\ state'[q] = state[q] /\ job'[q] = job[q]
                                    /\ bytesHold'[q] = bytesHold[q]
    BY <1>8 DEF IndInv, TypeOK
  <2>2. LanesOnlyLose({r})
    BY <1>6, <1>8 DEF LanesOnlyLose
  <2>3. TypeOK'
    <3>1. /\ state' \in [Request -> RequestState] /\ job' \in [Request -> Job]
          /\ worker' \in [Request -> WorkerKind \cup {None}]
      BY <1>3, <1>8 DEF IndInv, TypeOK, Job
    <3>2. s.prefetched \in BOOLEAN
      BY <1>3 DEF RequestState
    <3>3. bytesHold' \in [Request -> BOOLEAN]
      BY <1>8, <3>2 DEF IndInv, TypeOK
    <3> QED BY <1>8, <3>1, <3>3 DEF IndInv, TypeOK
  <2>4. ASSUME NEW q \in Request PROVE HoldsRightly(q)' /\ HoldsNothingYet(q)'
    <3>1. CASE q = r
      BY <1>1, <1>3, <1>8, <2>1, <3>1 DEF HoldsRightly, HoldsNothingYet, Reading
    <3>2. CASE q # r
      BY <1>8, <2>1, <3>2 DEF IndInv, Holders, HoldsRightly, HoldsNothingYet
    <3> QED BY <3>1, <3>2
  <2>5. ReadsAccounted'
    BY <1>8, <2>1, ReadsFrame DEF IndInv, CapacityAccounted
  <2>6. HeldAccounted'
    BY <1>3, <1>8, <2>1, HeldFrame DEF IndInv, CapacityAccounted
  <2>7. WithinCaps'
    BY <1>8 DEF IndInv, WithinCaps
  <2>8. Undisturbed({r})
    BY <1>8, <2>1 DEF Undisturbed
  <2>9. LaneQueuesAgree'
    BY <2>2, <2>8, LaneQueuesFrame DEF IndInv, Queues
  <2> QED BY <2>3, <2>4, <2>5, <2>6, <2>7, <2>8, <2>9 DEF Holders, CapacityAccounted
<1> QED BY <1>4, <1>7, <1>8

\* A worker takes from the high queue, or else from the background queue.
LEMMA WorkerTakeInv ==
  ASSUME IndInv, NEW kind \in WorkerKind, WorkerTake(kind) PROVE IndInv'
<1>1. UNCHANGED <<serviceClock, readsByDevice, readsInProgress, nextSequence,
                  tuningVars, prefetchReads, mainReads, lifecycleVars>>
  BY DEF WorkerTake
<1>2. highQueue \in Seq(Request)
  BY DEF IndInv, TypeOK
<1>3. CASE TakeHigh(kind)
  <2> DEFINE r == Head(highQueue)
  <2>1. /\ highQueue # <<>> /\ highQueue' = Tail(highQueue)
        /\ backgroundQueue' = backgroundQueue /\ Take(r, kind)
    BY <1>3 DEF TakeHigh
  <2>2. /\ 1 \in DOMAIN highQueue /\ r = highQueue[1] /\ r \in Request
        /\ highQueue' \in Seq(Request)
        /\ DOMAIN highQueue' = 1..(Len(highQueue) - 1)
        /\ DOMAIN highQueue = 1..Len(highQueue) /\ Len(highQueue) \in Nat
        /\ \A i \in DOMAIN highQueue' : highQueue'[i] = highQueue[i + 1]
    BY <1>2, <2>1
  <2> HIDE DEF r
  <2>3. job[r] = "none" /\ outcome[r] = "pending" /\ state[r].queuedIn = "None"
    BY <2>2 DEF IndInv, Queues, HighAgrees
  <2>4. /\ TypeOK' /\ Holders' /\ CapacityAccounted' /\ WithinCaps'
        /\ Undisturbed({r}) /\ LaneQueuesAgree'
    BY <1>1, <2>1, <2>2, <2>3, TakeKeeps
  <2>5. BackgroundAgrees'
    <3>1. \A e \in backgroundQueue : e.task \notin {r}
      BY <2>3 DEF IndInv, Queues, BackgroundAgrees, Waits
    <3> QED BY <2>1, <2>4, <3>1, BackgroundFrame DEF IndInv, Queues
  <2>6. HighAgrees'
    <3>1. \A i \in DOMAIN highQueue' :
            /\ i + 1 \in DOMAIN highQueue /\ i + 1 # 1
            /\ highQueue'[i] = highQueue[i + 1]
      BY <2>2
    <3>2. \A j \in DOMAIN highQueue : j # 1 => highQueue[j] # r /\ highQueue[j] \in Request
      BY <1>2, <2>2 DEF IndInv, Queues, HighAgrees
    <3>3. \A i \in DOMAIN highQueue' :
            /\ job'[highQueue'[i]] = "none" /\ outcome'[highQueue'[i]] = "pending"
            /\ state'[highQueue'[i]].queuedIn = "None"
      BY <2>4, <3>1, <3>2 DEF IndInv, Queues, HighAgrees, Undisturbed
    <3>4. ASSUME NEW i \in DOMAIN highQueue', NEW j \in DOMAIN highQueue',
                 highQueue'[i] = highQueue'[j]
          PROVE  i = j
      <4>1. i + 1 = j + 1
        BY <3>1, <3>4 DEF IndInv, Queues, HighAgrees
      <4> QED BY <2>2, <4>1
    <3> QED BY <3>3, <3>4 DEF HighAgrees
  <2> QED BY <2>4, <2>5, <2>6 DEF IndInv, Queues
<1>4. CASE TakeBackground(kind)
  <2>1. PICK e \in backgroundQueue :
          backgroundQueue' = backgroundQueue \ {e} /\ Take(e.task, kind)
    BY <1>4 DEF TakeBackground
  <2> DEFINE r == e.task
  <2>2. highQueue' = highQueue
    BY <1>4 DEF TakeBackground
  <2>3. backgroundQueue \subseteq [task : Request, priority : Nat, sequence : Nat]
    BY DEF IndInv, TypeOK
  <2>4. /\ r \in Request /\ Waits(e, "Decode")
        /\ job[r] = "none" /\ outcome[r] = "pending" /\ state[r].queuedIn = "Decode"
    BY <2>3 DEF IndInv, Queues, BackgroundAgrees, Waits
  <2>5. /\ TypeOK' /\ Holders' /\ CapacityAccounted' /\ WithinCaps'
        /\ Undisturbed({r}) /\ LaneQueuesAgree'
    BY <1>1, <1>2, <2>1, <2>2, <2>4, TakeKeeps
  <2>6. BackgroundAgrees'
    <3>1. \A f \in backgroundQueue : f.task = r => f = e
      BY <2>3, <2>4 DEF IndInv, Queues, BackgroundAgrees, Waits
    <3> QED BY <2>1, <2>5, <3>1, BackgroundFrame DEF IndInv, Queues
  <2>7. HighAgrees'
    <3>1. \A i \in DOMAIN highQueue : highQueue[i] \notin {r}
      BY <2>4 DEF IndInv, Queues, HighAgrees
    <3> QED BY <2>2, <2>5, <3>1, HighFrame DEF IndInv, Queues
  <2> QED BY <2>5, <2>6, <2>7 DEF IndInv, Queues
<1> QED BY <1>3, <1>4 DEF WorkerTake

-----------------------------------------------------------------------------
(***************************************************************************)
(* The theorems.                                                           *)
(***************************************************************************)

\* What clients do,
LEMMA ClientInv == ASSUME IndInv, NEW r \in Request, Client(r) PROVE IndInv'
<1>1. ASSUME NEW priority \in Priorities, EnqueueLocalMain(r, priority) PROVE IndInv'
  BY <1>1, EnqueueLocalMainInv
<1>2. ASSUME NEW priority \in Priorities, NEW answer \in Answers[r],
             EnqueueSlowMain(r, priority, answer)
      PROVE  IndInv'
  BY <1>2, EnqueueSlowMainInv
<1>3. ASSUME NEW priority \in Priorities, NEW answer \in Answers[r],
             EnqueueThumbnail(r, priority, answer)
      PROVE  IndInv'
  BY <1>3, EnqueueThumbnailInv
<1>4. ASSUME EnqueueRejected(r) PROVE IndInv'
  BY <1>4, EnqueueRejectedInv
<1>5. ASSUME NEW priority \in Priorities, SetPriority(r, priority) PROVE IndInv'
  BY <1>5, SetPriorityInv
<1>6. ASSUME Cancel(r) PROVE IndInv'
  BY <1>6, CancelQueuedInv, CancelElsewhereInv
<1> QED BY <1>1, <1>2, <1>3, <1>4, <1>5, <1>6 DEF Client

\* what readers do,
LEMMA ReaderInv == ASSUME IndInv, Reader PROVE IndInv'
<1>1. ASSUME NEW kind \in LaneKind, LaneReaderTake(kind) PROVE IndInv'
  BY <1>1, LaneReaderTakeInv
<1>2. ASSUME MainReaderTake PROVE IndInv'
  BY <1>2, MainReaderTakeInv
<1>3. ASSUME NEW r \in Request, NEW result \in ReadResult, LaneReaderFinish(r, result)
      PROVE  IndInv'
  BY <1>3, LaneReaderFinishInv
<1>4. ASSUME NEW r \in Request, NEW result \in ReadResult, MainReaderFinish(r, result)
      PROVE  IndInv'
  BY <1>4, MainReaderFinishInv
<1> QED BY <1>1, <1>2, <1>3, <1>4 DEF Reader

\* what a worker does with its task,
LEMMA WorkerStepInv == ASSUME IndInv, NEW r \in Request, WorkerStep(r) PROVE IndInv'
<1>1. ASSUME WorkerBegin(r) PROVE IndInv'
  BY <1>1, WorkerBeginInv
<1>2. ASSUME WorkerFinish(r) PROVE IndInv'
  BY <1>2, WorkerFinishInv
<1>3. ASSUME WorkerDeliver(r) PROVE IndInv'
  BY <1>3, WorkerDeliverInv
<1>4. ASSUME WorkerRelease(r) PROVE IndInv'
  BY <1>4, WorkerReleaseInv
<1> QED BY <1>1, <1>2, <1>3, <1>4 DEF WorkerStep

\* what lifecycle calls do,
LEMMA LifecycleInv == ASSUME IndInv, Lifecycle PROVE IndInv'
<1>1. ASSUME NEW name \in Calls, BeginStop(name) PROVE IndInv'
  BY <1>1, BeginStopInv
<1>2. ASSUME SkipStop PROVE IndInv'
  BY <1>2, SkipStopInv
<1>3. ASSUME NEW registered \in SUBSET Request, ScanLeases(registered) PROVE IndInv'
  BY <1>3, ScanLeasesInv
<1>4. ASSUME BoundExpires PROVE IndInv'
  BY <1>4, BoundExpiresInv
<1>5. ASSUME JoinAll PROVE IndInv'
  BY <1>5, JoinAllInv
<1>6. ASSUME NEW count \in ThreadCounts, Reopen(count) PROVE IndInv'
  BY <1>6, ReopenInv
<1>7. ASSUME Retune PROVE IndInv'
  BY <1>7, RetuneInv
<1> QED BY <1>1, <1>2, <1>3, <1>4, <1>5, <1>6, <1>7 DEF Lifecycle

\* and doing nothing keeps the invariant:
LEMMA StutterInv == ASSUME IndInv, UNCHANGED vars PROVE IndInv'
<1>1. UNCHANGED <<requestVars, laneVars, queueVars, tuningVars, prefetchVars, mainVars,
                  lifecycleVars>>
  BY DEF vars
<1>2. TypeOK'
  BY <1>1 DEF IndInv, TypeOK, requestVars, laneVars, queueVars, tuningVars,
             prefetchVars, mainVars, lifecycleVars
<1> QED BY <1>1, <1>2, CountersStep DEF queueVars

\* every step does.
LEMMA NextInv == ASSUME IndInv, [Next]_vars PROVE IndInv'
<1>1. ASSUME NEW r \in Request, Client(r) PROVE IndInv'
  BY <1>1, ClientInv
<1>2. ASSUME Reader PROVE IndInv'
  BY <1>2, ReaderInv
<1>3. ASSUME NEW kind \in WorkerKind, WorkerTake(kind) PROVE IndInv'
  BY <1>3, WorkerTakeInv
<1>4. ASSUME NEW r \in Request, WorkerStep(r) PROVE IndInv'
  BY <1>4, WorkerStepInv
<1>5. ASSUME Lifecycle PROVE IndInv'
  BY <1>5, LifecycleInv
<1>6. ASSUME UNCHANGED vars PROVE IndInv'
  BY <1>6, StutterInv
<1> QED BY <1>1, <1>2, <1>3, <1>4, <1>5, <1>6 DEF Next

\* The inductive invariant holds in every state the scheduler reaches, whatever
\* the requests, sources, topologies, caps and calls: enqueue, cancel, reads,
\* decodes, shutdowns and restarts in any order.
THEOREM Invariant == Spec => []IndInv
<1>1. Init => IndInv
  BY InitInv
<1>2. IndInv /\ [Next]_vars => IndInv'
  BY NextInv
<1> QED BY <1>1, <1>2, PTL DEF Spec

\* The scheduler's state keeps its shape: counts stay natural numbers although
\* the code decrements them, the worker count and the global cap stay in range.
THEOREM TypeCorrect == Spec => []TypeOK
<1>1. IndInv => TypeOK
  BY DEF IndInv
<1> QED BY <1>1, Invariant, PTL

\* No capacity leaks and none is given back twice: every count kept by the lane
\* readers, main readers, Cancel, the workers and the join equals the number of
\* requests that hold what it counts.
THEOREM CapacityExact == Spec => []CapacityAccounted
<1>1. IndInv => CapacityAccounted
  BY DEF IndInv
<1> QED BY <1>1, Invariant, PTL

\* Cancel and SetPriority always find a queued request: every entry is keyed by
\* its request's current priority and sequence, in the lane its state names.
THEOREM KeysCurrent == Spec => []QueueKeysCurrent
<1>1. IndInv => QueueKeysCurrent
  <2>1. SUFFICES ASSUME IndInv PROVE QueueKeysCurrent
    OBVIOUS
  <2>2. ASSUME NEW r \in Request, NEW key \in DOMAIN lanes
        PROVE  /\ KeyedByState(lanes[key].queue, r, "Io")
               /\ KeyedByState(lanes[key].mainQueue, r, "MainIo")
    BY <2>1 DEF IndInv, Queues, LaneQueuesAgree, Waits, KeyedByState
  <2>3. ASSUME NEW r \in Request, NEW key \in InLane(r) \cup InMainLane(r)
        PROVE  state[r].laneKey = key
    BY <2>1, <2>3 DEF IndInv, Queues, LaneQueuesAgree, InLane, InMainLane
  <2>4. ASSUME NEW r \in Request PROVE KeyedByState(backgroundQueue, r, "Decode")
    BY <2>1 DEF IndInv, Queues, BackgroundAgrees, Waits, KeyedByState
  <2> QED BY <2>2, <2>3, <2>4 DEF QueueKeysCurrent
<1> QED BY <1>1, Invariant, PTL

\* The files in memory are those being read and those of the holders: a worker
\* that still decodes from bytes still holds the capacity they are counted under.
LEMMA BytesHaveHolders ==
  ASSUME IndInv
  PROVE  /\ ThumbnailBytes \subseteq ThumbnailReads \cup SlotHolders
         /\ MainImageBytes \subseteq MainReadsOn \cup InputHolders
<1>1. ASSUME NEW r \in Request, state[r].prefetched \/ bytesHold[r]
      PROVE  /\ state[r].holdsPrefetchSlot \/ state[r].holdsMainInput
             /\ state[r].holdsPrefetchSlot => r \notin MainImage
             /\ state[r].holdsMainInput => r \in MainImage
  BY <1>1 DEF IndInv, Holders, HoldsRightly
<1>2. ASSUME NEW r \in ThumbnailBytes PROVE r \in ThumbnailReads \cup SlotHolders
  BY <1>1 DEF ThumbnailBytes, ThumbnailReads, SlotHolders
<1>3. ASSUME NEW r \in MainImageBytes PROVE r \in MainReadsOn \cup InputHolders
  BY <1>1, SchedulerConstants DEF MainImageBytes, MainReadsOn, InputHolders
<1> QED BY <1>2, <1>3

\* The memory bound: through any cancels, restarts and topology changes at most
\* kMaxPrefetchCap thumbnail files and kMainImageInputCap main-image inputs are
\* being read or belong to a task or worker at once, those it decodes from included.
THEOREM MemoryBounded == Spec => []BytesBounded
<1>1. IndInv => BytesBounded
  <2>1. SUFFICES ASSUME IndInv PROVE BytesBounded
    OBVIOUS
  <2>2. /\ ThumbnailReads \subseteq Request /\ SlotHolders \subseteq Request
        /\ MainReadsOn \subseteq Request /\ InputHolders \subseteq Request
    BY DEF ThumbnailReads, SlotHolders, MainReadsOn, InputHolders
  <2>3. /\ Cardinality(ThumbnailBytes) <= Cardinality(ThumbnailReads) + Cardinality(SlotHolders)
        /\ Cardinality(MainImageBytes) <= Cardinality(MainReadsOn) + Cardinality(InputHolders)
    BY <2>1, <2>2, BytesHaveHolders, UnionBound
  <2>4. /\ Cardinality(SlotHolders) + Cardinality(ThumbnailReads) <= MaxPrefetchCap
        /\ Cardinality(MainReadsOn) + Cardinality(InputHolders) <= MainImageInputCap
    BY <2>1 DEF IndInv, CapacityAccounted, ReadsAccounted, HeldAccounted, WithinCaps
  <2>5. /\ Cardinality(ThumbnailReads) \in Nat /\ Cardinality(SlotHolders) \in Nat
        /\ Cardinality(MainReadsOn) \in Nat /\ Cardinality(InputHolders) \in Nat
        /\ Cardinality(ThumbnailBytes) \in Nat /\ Cardinality(MainImageBytes) \in Nat
    BY <2>2, RequestsFinite, SchedulerConstants DEF ThumbnailBytes, MainImageBytes
  <2>6. MaxPrefetchCap \in Nat /\ MainImageInputCap \in Nat
    BY SchedulerConstants, LaneConstants
  <2> QED BY <2>3, <2>4, <2>5, <2>6 DEF BytesBounded
<1> QED BY <1>1, Invariant, PTL
================================================================================
