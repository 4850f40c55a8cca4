--------------------------- MODULE RequestStageProofs ---------------------------
(***************************************************************************)
(* Theorems about the stages of a request: where it is, who can find it,   *)
(* what it holds once canceled, what a stop leaves behind, and that the    *)
(* scheduler implements modules RequestLifecycle and SchedulerRun.         *)
(***************************************************************************)
EXTENDS SchedulerProofs

-----------------------------------------------------------------------------
(***************************************************************************)
(* The invariant of one request.                                           *)
(***************************************************************************)

\* The entry under which r is queued.
EntryOf(r) == Entry(r, state[r].priority, state[r].sequence)

\* A pending request no thread holds is in the queue its state names.
Placed(r) ==
  outcome[r] = "pending" /\ job[r] = "none" =>
    /\ state[r].queuedIn = "Io" =>
         /\ state[r].laneKey \in DOMAIN lanes
         /\ EntryOf(r) \in lanes[state[r].laneKey].queue
    /\ state[r].queuedIn = "MainIo" =>
         /\ state[r].laneKey \in DOMAIN lanes
         /\ EntryOf(r) \in lanes[state[r].laneKey].mainQueue
    /\ state[r].queuedIn = "Decode" => EntryOf(r) \in backgroundQueue
    /\ state[r].queuedIn = "None" => \E i \in DOMAIN highQueue : highQueue[i] = r

\* How far its thread is, and what its client has seen.
Handled(r) ==
  /\ outcome[r] \in {"new", "rejected"} => job[r] = "none"
  /\ outcome[r] \in Settled => job[r] \in {"none", "releasing"}
  /\ outcome[r] = "pending" => job[r] # "releasing"
  /\ state[r].decoding => job[r] \notin Reading \cup {"none"}
  /\ job[r] = "skipped" => state[r].canceled \/ shutdown

\* Not dropped yet, and not selected for delivery.
Undecided(r) == outcome[r] = "pending" /\ job[r] # "delivering"

\* The live table has the tracked requests that are undecided and not canceled; a
\* stop cancels all of them and finds no new ones.
Findable(r) ==
  /\ r \in live => r \in Tracked /\ Undecided(r)
  /\ r \in live /\ ~shutdown => ~state[r].canceled
  /\ r \in Tracked /\ Undecided(r) /\ ~state[r].canceled => r \in live /\ ~shutdown

\* A canceled request no thread holds has given back its capacity and waits in no
\* lane; one a stop canceled may do so until it is met.
CanceledFree(r) ==
  state[r].canceled /\ job[r] = "none" /\ ~shutdown =>
    /\ ~state[r].holdsPrefetchSlot /\ ~state[r].holdsMainInput
    /\ state[r].queuedIn \notin {"Io", "MainIo"}

\* After its read a slow request has its bytes, or its failure is known; its worker
\* keeps them to the end of the decode, whatever is canceled meanwhile.
HasBytes(r) ==
  Slow(r) =>
    /\ outcome[r] = "pending" /\ job[r] = "none" /\ state[r].queuedIn \notin {"Io", "MainIo"} =>
         state[r].canceled \/ state[r].prefetched \/ state[r].slowReadFailed
    /\ job[r] = "taken" => bytesHold[r] \/ state[r].slowReadFailed
    /\ job[r] = "decoding" => bytesHold[r]

\* It is queued and read in a lane of the kind of its source.
InOwnLane(r) ==
  state[r].queuedIn \in {"Io", "MainIo"} \/ job[r] \in Reading =>
    state[r].laneKey.lane = IoLaneFor(Source[r].kind)

RequestOK(r) ==
  /\ Placed(r) /\ Handled(r) /\ Findable(r)
  /\ CanceledFree(r) /\ HasBytes(r) /\ InOwnLane(r)

-----------------------------------------------------------------------------
(***************************************************************************)
(* The invariant of all of them.                                           *)
(***************************************************************************)

\* No two pending requests share a sequence number: no key of a queue is taken.
SequencesUnique ==
  /\ \A r \in Pending : state[r].sequence \in 1..nextSequence
  /\ \A q, r \in Pending : state[q].sequence = state[r].sequence => q = r

\* How the lifecycle call and the flags go together.
Control ==
  /\ stage = "idle" <=> call = "none"
  /\ stage \in {"scan", "join", "reopen"} => shutdown
  /\ stage = "retune" => ~shutdown
  /\ joinPending => shutdown
  /\ stage = "reopen" => ~joinPending

\* A stop is complete,
Quiet == shutdown /\ ~joinPending /\ stage \in {"idle", "reopen"}

\* and has left nothing behind.
AllQuiet ==
  Quiet => \A r \in Request :
    job[r] = "none" /\ outcome[r] # "pending" /\ state[r] = Fresh /\ r \notin live

StageInv == (\A r \in Request : RequestOK(r)) /\ SequencesUnique /\ Control /\ AllQuiet

-----------------------------------------------------------------------------
(***************************************************************************)
(* Steps of one request.                                                   *)
(***************************************************************************)

\* A step changes no request but r,
OnlyTouches(r) ==
  \A q \in Request \ {r} :
    /\ state'[q] = state[q] /\ job'[q] = job[q]
    /\ outcome'[q] = outcome[q] /\ bytesHold'[q] = bytesHold[q]
    /\ q \in live' <=> q \in live

\* and the queued requests but r stay in the lanes
KeepsOthers(table, newTable, r) ==
  \A key \in DOMAIN table :
    /\ \A e \in table[key].queue : e.task # r =>
         key \in DOMAIN newTable /\ e \in newTable[key].queue
    /\ \A e \in table[key].mainQueue : e.task # r =>
         key \in DOMAIN newTable /\ e \in newTable[key].mainQueue

\* and the decode queues.
OthersStay(r) ==
  /\ KeepsOthers(lanes, lanes', r)
  /\ \A e \in backgroundQueue : e.task # r => e \in backgroundQueue'
  /\ \A i \in DOMAIN highQueue : highQueue[i] # r =>
       \E j \in DOMAIN highQueue' : highQueue'[j] = highQueue[i]

\* r keeps its sequence number, or is not pending any more.
KeepsSequence(r) ==
  outcome'[r] = "pending" => outcome[r] = "pending" /\ state'[r].sequence = state[r].sequence

\* Then every other request is as right as it was.
LEMMA OthersOK ==
  ASSUME NEW r, OnlyTouches(r), OthersStay(r), shutdown' = shutdown,
         NEW q \in Request \ {r}, RequestOK(q)
  PROVE  RequestOK(q)'
<1>0. /\ state'[q] = state[q] /\ job'[q] = job[q]
      /\ outcome'[q] = outcome[q] /\ bytesHold'[q] = bytesHold[q]
      /\ q \in live' <=> q \in live
  BY DEF OnlyTouches
<1>1. Placed(q)'
  <2>1. EntryOf(q)' = EntryOf(q) /\ EntryOf(q).task = q
    BY <1>0 DEF EntryOf, Entry
  <2> QED
    BY <1>0, <2>1 DEF Placed, RequestOK, OthersStay, KeepsOthers
<1>2. Handled(q)' /\ Findable(q)'
  BY <1>0 DEF RequestOK, Handled, Findable, Undecided
<1>3. CanceledFree(q)' /\ HasBytes(q)' /\ InOwnLane(q)'
  BY <1>0 DEF RequestOK, CanceledFree, HasBytes, InOwnLane
<1> QED
  BY <1>1, <1>2, <1>3 DEF RequestOK

\* Sequence numbers stay unique when no request gets a new one.
LEMMA SequencesFrame ==
  ASSUME SequencesUnique, nextSequence' = nextSequence, \A q \in Request : KeepsSequence(q)
  PROVE  SequencesUnique'
<1>1. \A q \in Pending' : q \in Pending /\ state'[q].sequence = state[q].sequence
  BY DEF Pending, KeepsSequence
<1> QED
  BY <1>1 DEF SequencesUnique

\* A step of one request while the scheduler is not at rest keeps the invariant if
\* it leaves that request right.
LEMMA RequestStep ==
  ASSUME StageInv, NEW r \in Request, OnlyTouches(r), OthersStay(r),
         UNCHANGED <<shutdown, joinPending, call, stage, nextSequence>>,
         KeepsSequence(r), ~Quiet, RequestOK(r)'
  PROVE  StageInv'
<1>1. \A q \in Request : RequestOK(q)'
  BY OthersOK DEF StageInv
<1>2. SequencesUnique'
  BY SequencesFrame DEF StageInv, OnlyTouches, KeepsSequence
<1>3. Control' /\ AllQuiet'
  BY DEF StageInv, Control, AllQuiet, Quiet
<1> QED
  BY <1>1, <1>2, <1>3 DEF StageInv

\* A stopped scheduler has no request in a thread's hands, pending or live.
LEMMA NotQuiet ==
  ASSUME StageInv, NEW r \in Request, job[r] # "none" \/ outcome[r] = "pending" \/ r \in live
  PROVE  ~Quiet
BY DEF StageInv, AllQuiet

\* Reclaiming a lane, an idle one, takes nobody's place,
LEMMA ReclaimStays ==
  ASSUME NEW table, NEW key, NEW r
  PROVE  KeepsOthers(table, Reclaim(table, key), r)
BY DEF KeepsOthers, Reclaim, Idle

\* nor does giving capacity back.
LEMMA ReleasedStays ==
  ASSUME NEW table, NEW s, NEW r, LanesTyped(table)
  PROVE  KeepsOthers(table, ReleasedLanes(table, s), r)
<1> DEFINE key  == s.laneKey
           less == [table EXCEPT ![key].held = Dec(@)]
<1>1. CASE ReleasesSlot(s) /\ key \in DOMAIN table
  <2>1. ReleasedLanes(table, s) = Reclaim(less, key)
    BY <1>1 DEF ReleasedLanes
  <2>2. DOMAIN less = DOMAIN table /\ \A k \in DOMAIN table : k # key => less[k] = table[k]
    OBVIOUS
  <2>3. less[key] = [table[key] EXCEPT !.held = Dec(table[key].held)]
    BY <1>1
  <2>4. less[key].queue = table[key].queue /\ less[key].mainQueue = table[key].mainQueue
    BY <1>1, <2>3 DEF LanesTyped, LaneState
  <2>5. \A k \in DOMAIN table : less[k].queue = table[k].queue /\ less[k].mainQueue = table[k].mainQueue
    BY <2>2, <2>4
  <2>6. KeepsOthers(less, Reclaim(less, key), r)
    BY ReclaimStays
  <2> HIDE DEF less
  <2> QED
    BY <2>1, <2>2, <2>5, <2>6 DEF KeepsOthers
<1>2. CASE ~(ReleasesSlot(s) /\ key \in DOMAIN table)
  BY <1>2 DEF ReleasedLanes, KeepsOthers
<1> QED
  BY <1>1, <1>2

-----------------------------------------------------------------------------
(***************************************************************************)
(* The decode workers.                                                     *)
(***************************************************************************)

\* What a worker does to r while it holds r's task touches r only.
LEMMA WorkerTouches ==
  ASSUME IndInv, StageInv, NEW r \in Request, WorkerStep(r)
  PROVE  /\ OnlyTouches(r) /\ OthersStay(r) /\ KeepsSequence(r)
         /\ job[r] # "none"
         /\ UNCHANGED <<shutdown, joinPending, call, stage, nextSequence>>
<1> USE DEF laneVars, queueVars, tuningVars, prefetchVars, mainVars, lifecycleVars
<1>1. LanesTyped(lanes)
  BY DEF IndInv, TypeOK, LanesTyped
<1>2. /\ state \in [Request -> RequestState] /\ job \in [Request -> Job]
      /\ outcome \in [Request -> Outcome] /\ bytesHold \in [Request -> BOOLEAN]
  BY DEF IndInv, TypeOK
<1>3. CASE WorkerBegin(r)
  BY <1>2, <1>3 DEF WorkerBegin, MoveWorker, OnlyTouches, OthersStay, KeepsOthers,
                    KeepsSequence
<1>4. CASE WorkerFinish(r)
  BY <1>2, <1>4 DEF WorkerFinish, MoveWorker, Finish, OnlyTouches, OthersStay, KeepsOthers,
                    KeepsSequence
<1>5. CASE WorkerDeliver(r)
  BY <1>2, <1>5 DEF WorkerDeliver, MoveWorker, OnlyTouches, OthersStay, KeepsOthers,
                    KeepsSequence
<1>6. CASE WorkerRelease(r)
  <2>1. KeepsOthers(lanes, lanes', r)
    BY <1>1, <1>6, ReleasedStays DEF WorkerRelease
  <2>2. job[r] = "releasing" /\ outcome[r] # "pending"
    BY <1>6 DEF WorkerRelease, MoveWorker, StageInv, RequestOK, Handled
  <2> QED
    BY <1>2, <1>6, <2>1, <2>2
       DEF WorkerRelease, MoveWorker, OnlyTouches, OthersStay, KeepsSequence
<1> QED
  BY <1>3, <1>4, <1>5, <1>6 DEF WorkerStep

\* Each of its steps leaves r right: a look at the flags,
LEMMA WorkerBeginStage ==
  ASSUME IndInv, StageInv, NEW r \in Request, WorkerBegin(r) PROVE StageInv'
<1> USE DEF laneVars, queueVars, tuningVars, prefetchVars, mainVars, lifecycleVars
<1>1. /\ OnlyTouches(r) /\ OthersStay(r) /\ KeepsSequence(r) /\ ~Quiet
      /\ UNCHANGED <<shutdown, joinPending, call, stage, nextSequence>>
  BY WorkerTouches, NotQuiet DEF WorkerStep
<1>2. /\ job[r] = "taken" /\ job'[r] = BeginsAs(r)
      /\ state'[r] = state[r] /\ outcome'[r] = outcome[r] /\ bytesHold'[r] = bytesHold[r]
      /\ live' = live /\ shutdown' = shutdown
  BY DEF WorkerBegin, MoveWorker, IndInv, TypeOK
<1>3. BeginsAs(r) \in {"skipped", "failing", "decoding"}
  BY DEF BeginsAs
<1>4. /\ BeginsAs(r) = "decoding" => ~state[r].slowReadFailed
      /\ BeginsAs(r) = "skipped" => state[r].canceled \/ shutdown
  BY DEF BeginsAs
<1>5. RequestOK(r)
  BY DEF StageInv
<1>6. Placed(r)' /\ Handled(r)' /\ Findable(r)' /\ CanceledFree(r)'
  BY <1>2, <1>3, <1>4, <1>5
     DEF RequestOK, Placed, Handled, Findable, Undecided, CanceledFree, Reading, Settled
<1>7. HasBytes(r)' /\ InOwnLane(r)'
  BY <1>2, <1>3, <1>4, <1>5 DEF RequestOK, HasBytes, InOwnLane, Reading
<1> QED
  BY <1>1, <1>6, <1>7, RequestStep DEF RequestOK

\* the delivery decision,
LEMMA WorkerFinishStage ==
  ASSUME IndInv, StageInv, NEW r \in Request, WorkerFinish(r) PROVE StageInv'
<1> USE DEF laneVars, queueVars, tuningVars, prefetchVars, mainVars, lifecycleVars
<1>1. /\ OnlyTouches(r) /\ OthersStay(r) /\ KeepsSequence(r) /\ ~Quiet
      /\ UNCHANGED <<shutdown, joinPending, call, stage, nextSequence>>
  BY WorkerTouches, NotQuiet DEF WorkerStep
<1>2. /\ job[r] \in {"skipped", "failing", "decoding"}
      /\ job'[r] = IF Delivers(r) THEN "delivering" ELSE "releasing"
      /\ outcome'[r] = IF Delivers(r) THEN outcome[r] ELSE "dropped"
      /\ state'[r] = state[r] /\ bytesHold'[r] = bytesHold[r]
      /\ live' = live \ {r} /\ shutdown' = shutdown
  BY DEF WorkerFinish, MoveWorker, Finish, IndInv, TypeOK
<1>3. RequestOK(r) /\ outcome[r] \in Outcome
  BY DEF StageInv, IndInv, TypeOK
<1>4. outcome[r] = "pending"
  BY <1>2, <1>3 DEF RequestOK, Handled, Settled, Outcome
<1>5. Placed(r)' /\ Handled(r)' /\ Findable(r)' /\ CanceledFree(r)'
  BY <1>2, <1>3, <1>4
     DEF RequestOK, Placed, Handled, Findable, Undecided, CanceledFree, Reading, Settled
<1>6. HasBytes(r)' /\ InOwnLane(r)'
  BY <1>2, <1>3 DEF RequestOK, HasBytes, InOwnLane, Reading
<1> QED
  BY <1>1, <1>5, <1>6, RequestStep DEF RequestOK

\* the callback,
LEMMA WorkerDeliverStage ==
  ASSUME IndInv, StageInv, NEW r \in Request, WorkerDeliver(r) PROVE StageInv'
<1> USE DEF laneVars, queueVars, tuningVars, prefetchVars, mainVars, lifecycleVars
<1>1. /\ OnlyTouches(r) /\ OthersStay(r) /\ KeepsSequence(r) /\ ~Quiet
      /\ UNCHANGED <<shutdown, joinPending, call, stage, nextSequence>>
  BY WorkerTouches, NotQuiet DEF WorkerStep
<1>2. /\ job[r] = "delivering" /\ job'[r] = "releasing" /\ outcome'[r] = "delivered"
      /\ state'[r] = state[r] /\ bytesHold'[r] = bytesHold[r]
      /\ live' = live /\ shutdown' = shutdown
  BY DEF WorkerDeliver, MoveWorker, IndInv, TypeOK
<1>3. RequestOK(r)
  BY DEF StageInv
<1>4. Placed(r)' /\ Handled(r)' /\ Findable(r)' /\ CanceledFree(r)'
  BY <1>2, <1>3
     DEF RequestOK, Placed, Handled, Findable, Undecided, CanceledFree, Reading, Settled
<1>5. HasBytes(r)' /\ InOwnLane(r)'
  BY <1>2, <1>3 DEF RequestOK, HasBytes, InOwnLane, Reading
<1> QED
  BY <1>1, <1>4, <1>5, RequestStep DEF RequestOK

\* A request's state that is Fresh again, of a request settled and in no hands, is right.
LEMMA FreshOK ==
  ASSUME NEW r \in Request, state'[r] = Fresh, job'[r] = "none", outcome'[r] \in Settled,
         r \notin live'
  PROVE  RequestOK(r)'
BY DEF RequestOK, Placed, Handled, Findable, Undecided, CanceledFree, HasBytes, InOwnLane,
       Reading, Settled, Fresh

\* and the release.
LEMMA WorkerReleaseStage ==
  ASSUME IndInv, StageInv, NEW r \in Request, WorkerRelease(r) PROVE StageInv'
<1> USE DEF laneVars, queueVars, tuningVars, prefetchVars, mainVars, lifecycleVars
<1>1. /\ OnlyTouches(r) /\ OthersStay(r) /\ KeepsSequence(r) /\ ~Quiet
      /\ UNCHANGED <<shutdown, joinPending, call, stage, nextSequence>>
  BY WorkerTouches, NotQuiet DEF WorkerStep
<1>2. /\ job[r] = "releasing" /\ job'[r] = "none" /\ state'[r] = Fresh
      /\ outcome'[r] = outcome[r] /\ live' = live
  BY DEF WorkerRelease, MoveWorker, IndInv, TypeOK
<1>3. RequestOK(r) /\ outcome[r] \in Outcome
  BY DEF StageInv, IndInv, TypeOK
<1>4. outcome'[r] \in Settled /\ r \notin live'
  BY <1>2, <1>3 DEF RequestOK, Handled, Findable, Undecided, Settled, Outcome
<1> QED
  BY <1>1, <1>2, <1>4, FreshOK, RequestStep

\* A worker takes a request that waits in a decode queue, and touches no other.
LEMMA WorkerTakes ==
  ASSUME IndInv, StageInv, NEW kind \in WorkerKind, WorkerTake(kind)
  PROVE  \E r \in Request :
           /\ Take(r, kind)
           /\ job[r] = "none" /\ outcome[r] = "pending"
           /\ state[r].queuedIn \notin {"Io", "MainIo"}
           /\ OnlyTouches(r) /\ OthersStay(r)
           /\ UNCHANGED <<shutdown, joinPending, call, stage, nextSequence>>
<1>1. /\ state \in [Request -> RequestState] /\ job \in [Request -> Job]
      /\ outcome \in [Request -> Outcome] /\ bytesHold \in [Request -> BOOLEAN]
      /\ highQueue \in Seq(Request) /\ LanesTyped(lanes)
      /\ \A e \in backgroundQueue : e.task \in Request
  BY DEF IndInv, TypeOK, LanesTyped
<1>2. UNCHANGED <<shutdown, joinPending, call, stage, nextSequence>>
  BY DEF WorkerTake, lifecycleVars
<1>3. ASSUME NEW r \in Request, Take(r, kind)
      PROVE  OnlyTouches(r) /\ KeepsOthers(lanes, lanes', r)
  <2>1. OnlyTouches(r)
    BY <1>1, <1>3 DEF Take, Finish, OnlyTouches
  <2>2. KeepsOthers(lanes, lanes', r)
    <3> DEFINE s == [state[r] EXCEPT !.queuedIn = "None"]
    <3>1. lanes' = ReleasedLanes(lanes, s) \/ lanes' = lanes
      BY <1>3 DEF Take
    <3>2. KeepsOthers(lanes, ReleasedLanes(lanes, s), r)
      BY <1>1, ReleasedStays
    <3>3. KeepsOthers(lanes, lanes, r)
      BY DEF KeepsOthers
    <3> QED
      BY <3>1, <3>2, <3>3
  <2> QED
    BY <2>1, <2>2
<1>4. CASE TakeHigh(kind)
  <2> DEFINE r == Head(highQueue)
  <2>1. /\ 1 \in DOMAIN highQueue /\ r = highQueue[1] /\ r \in Request
        /\ Take(r, kind) /\ backgroundQueue' = backgroundQueue /\ highQueue' = Tail(highQueue)
    BY <1>1, <1>4 DEF TakeHigh
  <2>2. job[r] = "none" /\ outcome[r] = "pending" /\ state[r].queuedIn = "None"
    BY <2>1 DEF IndInv, Queues, HighAgrees
  <2>3. \A i \in DOMAIN highQueue : highQueue[i] # r =>
          \E j \in DOMAIN highQueue' : highQueue'[j] = highQueue[i]
    <3> SUFFICES ASSUME NEW i \in DOMAIN highQueue, highQueue[i] # r
                 PROVE  \E j \in DOMAIN highQueue' : highQueue'[j] = highQueue[i]
      OBVIOUS
    <3>1. i - 1 \in DOMAIN Tail(highQueue) /\ Tail(highQueue)[i - 1] = highQueue[i]
      BY <1>1, <2>1
    <3> QED
      BY <2>1, <3>1
  <2> HIDE DEF r
  <2> QED
    BY <1>2, <1>3, <2>1, <2>2, <2>3 DEF OthersStay
<1>5. CASE TakeBackground(kind)
  <2>1. PICK e \in backgroundQueue :
          backgroundQueue' = backgroundQueue \ {e} /\ Take(e.task, kind)
    BY <1>5 DEF TakeBackground
  <2> DEFINE r == e.task
  <2>2. highQueue' = highQueue /\ r \in Request
    BY <1>1, <1>5, <2>1 DEF TakeBackground
  <2>3. job[r] = "none" /\ outcome[r] = "pending" /\ state[r].queuedIn = "Decode"
    BY DEF IndInv, Queues, BackgroundAgrees, Waits
  <2>4. \A f \in backgroundQueue : f.task # r => f \in backgroundQueue'
    BY <2>1
  <2> HIDE DEF r
  <2> QED
    BY <1>2, <1>3, <2>1, <2>2, <2>3, <2>4 DEF OthersStay, r
<1> QED
  BY <1>4, <1>5 DEF WorkerTake

\* The request it takes is right in its hands, or dropped.
LEMMA WorkerTakeStage ==
  ASSUME IndInv, StageInv, NEW kind \in WorkerKind, WorkerTake(kind) PROVE StageInv'
<1>1. PICK r \in Request :
        /\ Take(r, kind)
        /\ job[r] = "none" /\ outcome[r] = "pending"
        /\ state[r].queuedIn \notin {"Io", "MainIo"}
        /\ OnlyTouches(r) /\ OthersStay(r)
        /\ UNCHANGED <<shutdown, joinPending, call, stage, nextSequence>>
  BY WorkerTakes
<1>2. /\ state \in [Request -> RequestState] /\ job \in [Request -> Job]
      /\ outcome \in [Request -> Outcome] /\ bytesHold \in [Request -> BOOLEAN]
      /\ worker \in [Request -> WorkerKind \cup {None}] /\ state[r] \in RequestState
  BY DEF IndInv, TypeOK
<1>3. ~Quiet
  BY <1>1, NotQuiet
<1>4. CASE state[r].canceled
  <2>1. /\ state'[r] = Fresh /\ job'[r] = "none" /\ outcome'[r] = "dropped"
        /\ r \notin live'
    BY <1>1, <1>2, <1>4 DEF Take, Finish, RequestState
  <2>2. RequestOK(r)' /\ KeepsSequence(r)
    BY <2>1, FreshOK DEF Settled, KeepsSequence
  <2> QED
    BY <1>1, <1>3, <2>2, RequestStep
<1>5. CASE ~state[r].canceled
  <2> DEFINE s == [state[r] EXCEPT !.queuedIn = "None", !.decoding = TRUE]
  <2>1. /\ state' = [state EXCEPT ![r] = [[state[r] EXCEPT !.queuedIn = "None"]
                                            EXCEPT !.decoding = TRUE]]
        /\ job'[r] = "taken" /\ outcome'[r] = "pending"
        /\ bytesHold'[r] = state[r].prefetched /\ live' = live
    BY <1>1, <1>2, <1>5 DEF Take, RequestState
  <2>2. /\ ~state'[r].canceled /\ state'[r].queuedIn = "None"
        /\ state'[r].sequence = state[r].sequence
        /\ state'[r].slowReadFailed = state[r].slowReadFailed
    BY <1>2, <1>5, <2>1 DEF RequestState
  <2>3. RequestOK(r)
    BY DEF StageInv
  <2>4. Placed(r)' /\ Handled(r)' /\ Findable(r)' /\ CanceledFree(r)'
    BY <1>1, <1>5, <2>1, <2>2, <2>3
       DEF RequestOK, Placed, Handled, Findable, Undecided, CanceledFree, Reading, Settled
  <2>5. HasBytes(r)' /\ InOwnLane(r)'
    BY <1>1, <1>5, <2>1, <2>2, <2>3 DEF RequestOK, HasBytes, InOwnLane, Reading
  <2>6. KeepsSequence(r)
    BY <1>1, <2>2 DEF KeepsSequence
  <2> QED
    BY <1>1, <1>3, <2>4, <2>5, <2>6, RequestStep DEF RequestOK
<1> QED
  BY <1>4, <1>5

-----------------------------------------------------------------------------
(***************************************************************************)
(* The readers take a request from a lane.                                 *)
(***************************************************************************)

\* A reader took r from a lane queue: to read it, or to drop it.
TakenToRead(r, queuedIn, how) ==
  /\ job[r] = "none" /\ outcome[r] = "pending" /\ state[r].queuedIn = queuedIn
  /\ OnlyTouches(r) /\ OthersStay(r)
  /\ UNCHANGED <<shutdown, joinPending, call, stage, nextSequence>>
  /\ \/ /\ state[r].canceled
        /\ state'[r] = Fresh /\ job'[r] = "none" /\ outcome'[r] = "dropped"
        /\ r \notin live'
     \/ /\ ~state[r].canceled
        /\ state'[r] = [state[r] EXCEPT !.queuedIn = "None"]
        /\ job'[r] = how /\ UNCHANGED <<outcome, bytesHold, live>>

\* A task discarded from a lane, or taken to be read, is touched alone.
LEMMA ReaderTouches ==
  ASSUME IndInv, NEW r \in Request, NEW table, NEW key, KeepsOthers(lanes, table, r),
         \/ DiscardQueued(r, table, key) \/ StartRead(r, table, key)
         \/ StartMainRead(r, table, key),
         UNCHANGED <<worker, bytesHold, queueVars, tuningVars, prefetchedTotal,
                     mainHeld, lifecycleVars>>,
         LanesTyped(table), key \in DOMAIN table
  PROVE  /\ OnlyTouches(r) /\ OthersStay(r)
         /\ UNCHANGED <<shutdown, joinPending, call, stage, nextSequence>>
<1> USE DEF queueVars, lifecycleVars
<1>1. /\ state \in [Request -> RequestState] /\ job \in [Request -> Job]
      /\ outcome \in [Request -> Outcome] /\ bytesHold \in [Request -> BOOLEAN]
  BY DEF IndInv, TypeOK
<1>2. OnlyTouches(r)
  BY <1>1 DEF DiscardQueued, StartRead, StartMainRead, Finish, OnlyTouches
<1>3. KeepsOthers(lanes, lanes', r)
  <2>1. CASE DiscardQueued(r, table, key)
    <3>1. KeepsOthers(table, Reclaim(table, key), r)
      BY ReclaimStays
    <3> QED
      BY <2>1, <3>1 DEF DiscardQueued, KeepsOthers
  <2>2. ASSUME NEW lane \in LaneState,
               lane.queue = table[key].queue, lane.mainQueue = table[key].mainQueue,
               lanes' = [table EXCEPT ![key] = lane]
        PROVE  KeepsOthers(lanes, lanes', r)
    BY <2>2 DEF KeepsOthers
  <2>3. CASE StartRead(r, table, key)
    <3> DEFINE lane == [table[key] EXCEPT !.reading = TRUE, !.lastServed = serviceClock']
    <3>1. lanes' = [table EXCEPT ![key] = lane]
      BY <2>3 DEF StartRead
    <3>2. serviceClock' \in Nat
      BY <2>3, SMTT(60) DEF StartRead, IndInv, TypeOK
    <3>3. /\ lane \in LaneState
          /\ lane.queue = table[key].queue /\ lane.mainQueue = table[key].mainQueue
      BY <3>2 DEF LanesTyped, LaneState
    <3> HIDE DEF lane
    <3> QED
      BY <2>2, <3>1, <3>3
  <2>4. CASE StartMainRead(r, table, key)
    <3> DEFINE lane == [table[key] EXCEPT !.mainReading = TRUE]
    <3>1. lanes' = [table EXCEPT ![key] = lane]
      BY <2>4 DEF StartMainRead
    <3>2. /\ lane \in LaneState
          /\ lane.queue = table[key].queue /\ lane.mainQueue = table[key].mainQueue
      BY DEF LanesTyped, LaneState
    <3> HIDE DEF lane
    <3> QED
      BY <2>2, <3>1, <3>2
  <2> QED
    BY <2>1, <2>3, <2>4
<1> QED
  BY <1>2, <1>3 DEF OthersStay

\* LaneReaderThread takes what waits in a thumbnail lane,
LEMMA LaneReaderTakes ==
  ASSUME IndInv, NEW kind \in LaneKind, LaneReaderTake(kind)
  PROVE  \E r \in Request : TakenToRead(r, "Io", "reading")
<1>0. PICK key \in NextThumbnailLane(kind) : \E e \in lanes[key].queue :
        IF state[e.task].canceled
        THEN DiscardQueued(e.task, [lanes EXCEPT ![key].queue = @ \ {e}], key)
        ELSE StartRead(e.task, [lanes EXCEPT ![key].queue = @ \ {e}], key)
  BY DEF LaneReaderTake
<1>1. PICK e \in lanes[key].queue :
        IF state[e.task].canceled
        THEN DiscardQueued(e.task, [lanes EXCEPT ![key].queue = @ \ {e}], key)
        ELSE StartRead(e.task, [lanes EXCEPT ![key].queue = @ \ {e}], key)
  BY <1>0
<1>2. key \in DOMAIN lanes /\ UNCHANGED <<worker, bytesHold, queueVars, tuningVars,
                                          prefetchedTotal, mainHeld, lifecycleVars>>
  BY <1>1 DEF NextThumbnailLane, SelectThumbnailLane, AdmissibleLanes, LaneReaderTake
<1> DEFINE r      == e.task
           popped == [lanes EXCEPT ![key].queue = @ \ {e}]
<1>3. r \in Request /\ job[r] = "none" /\ outcome[r] = "pending" /\ state[r].queuedIn = "Io"
  BY <1>1, <1>2, SMTT(60) DEF IndInv, TypeOK, LaneState, Queues, LaneQueuesAgree, Waits
<1>4. LanesTyped(popped) /\ DOMAIN popped = DOMAIN lanes
  BY <1>1, <1>2, PopThumbnail
<1>5. KeepsOthers(lanes, popped, r)
  <2>1. popped[key] = [lanes[key] EXCEPT !.queue = lanes[key].queue \ {e}]
    BY <1>2
  <2>2. lanes[key] \in LaneState
    BY <1>2 DEF IndInv, TypeOK
  <2>3. /\ popped[key].queue = lanes[key].queue \ {e}
        /\ popped[key].mainQueue = lanes[key].mainQueue
    BY <2>1, <2>2 DEF LaneState
  <2> QED
    BY <2>3 DEF KeepsOthers
<1>6. IF state[r].canceled THEN DiscardQueued(r, popped, key) ELSE StartRead(r, popped, key)
  BY <1>1
<1> HIDE DEF r, popped
<1>7. /\ OnlyTouches(r) /\ OthersStay(r)
      /\ UNCHANGED <<shutdown, joinPending, call, stage, nextSequence>>
  BY <1>2, <1>3, <1>4, <1>5, <1>6, ReaderTouches
<1>8. state \in [Request -> RequestState] /\ job \in [Request -> Job]
      /\ outcome \in [Request -> Outcome] /\ bytesHold' = bytesHold
      /\ state[r].canceled \in BOOLEAN
  BY <1>2, <1>3 DEF IndInv, TypeOK, RequestState
<1>9. CASE state[r].canceled
  BY <1>3, <1>6, <1>7, <1>8, <1>9 DEF DiscardQueued, Finish, TakenToRead
<1>10. CASE ~state[r].canceled
  BY <1>3, <1>6, <1>7, <1>8, <1>10 DEF StartRead, TakenToRead
<1> QED
  BY <1>3, <1>9, <1>10

\* MainReaderThread what waits in the main queue of one.
LEMMA MainReaderTakes ==
  ASSUME IndInv, MainReaderTake
  PROVE  \E r \in Request : TakenToRead(r, "MainIo", "mainReading")
<1>0. PICK key \in SelectMainLane(lanes, mainReads + mainHeld) : \E e \in lanes[key].mainQueue :
        IF state[e.task].canceled
        THEN DiscardQueued(e.task, [lanes EXCEPT ![key].mainQueue = @ \ {e}], key)
        ELSE StartMainRead(e.task, [lanes EXCEPT ![key].mainQueue = @ \ {e}], key)
  BY DEF MainReaderTake
<1>1. PICK e \in lanes[key].mainQueue :
        IF state[e.task].canceled
        THEN DiscardQueued(e.task, [lanes EXCEPT ![key].mainQueue = @ \ {e}], key)
        ELSE StartMainRead(e.task, [lanes EXCEPT ![key].mainQueue = @ \ {e}], key)
  BY <1>0
<1>2. key \in DOMAIN lanes /\ UNCHANGED <<worker, bytesHold, queueVars, tuningVars,
                                          prefetchedTotal, mainHeld, lifecycleVars>>
  BY <1>1 DEF SelectMainLane, MainReaderTake
<1> DEFINE r      == e.task
           popped == [lanes EXCEPT ![key].mainQueue = @ \ {e}]
<1>3. r \in Request /\ job[r] = "none" /\ outcome[r] = "pending" /\ state[r].queuedIn = "MainIo"
  BY <1>1, <1>2, SMTT(60) DEF IndInv, TypeOK, LaneState, Queues, LaneQueuesAgree, Waits
<1>4. LanesTyped(popped) /\ DOMAIN popped = DOMAIN lanes
  BY <1>1, <1>2, PopMain
<1>5. KeepsOthers(lanes, popped, r)
  <2>1. popped[key] = [lanes[key] EXCEPT !.mainQueue = lanes[key].mainQueue \ {e}]
    BY <1>2
  <2>2. lanes[key] \in LaneState
    BY <1>2 DEF IndInv, TypeOK
  <2>3. /\ popped[key].mainQueue = lanes[key].mainQueue \ {e}
        /\ popped[key].queue = lanes[key].queue
    BY <2>1, <2>2 DEF LaneState
  <2> QED
    BY <2>3 DEF KeepsOthers
<1>6. IF state[r].canceled THEN DiscardQueued(r, popped, key) ELSE StartMainRead(r, popped, key)
  BY <1>1
<1> HIDE DEF r, popped
<1>7. /\ OnlyTouches(r) /\ OthersStay(r)
      /\ UNCHANGED <<shutdown, joinPending, call, stage, nextSequence>>
  BY <1>2, <1>3, <1>4, <1>5, <1>6, ReaderTouches
<1>8. state \in [Request -> RequestState] /\ job \in [Request -> Job]
      /\ outcome \in [Request -> Outcome] /\ bytesHold' = bytesHold
      /\ state[r].canceled \in BOOLEAN
  BY <1>2, <1>3 DEF IndInv, TypeOK, RequestState
<1>9. CASE state[r].canceled
  BY <1>3, <1>6, <1>7, <1>8, <1>9 DEF DiscardQueued, Finish, TakenToRead
<1>10. CASE ~state[r].canceled
  BY <1>3, <1>6, <1>7, <1>8, <1>10 DEF StartMainRead, TakenToRead
<1> QED
  BY <1>3, <1>9, <1>10

\* The request a reader took is right in its hands, or dropped.
LEMMA ReaderTakeStage ==
  ASSUME IndInv, StageInv, NEW r \in Request,
         NEW queuedIn \in {"Io", "MainIo"}, NEW how \in Reading, TakenToRead(r, queuedIn, how)
  PROVE  StageInv'
<1>1. /\ ~Quiet /\ OnlyTouches(r) /\ OthersStay(r)
      /\ UNCHANGED <<shutdown, joinPending, call, stage, nextSequence>>
      /\ job[r] = "none" /\ outcome[r] = "pending" /\ state[r].queuedIn = queuedIn
  BY NotQuiet DEF TakenToRead
<1>2. state[r] \in RequestState /\ RequestOK(r)
  BY DEF IndInv, TypeOK, StageInv
<1>3. ASSUME state'[r] = Fresh, job'[r] = "none", outcome'[r] = "dropped", r \notin live'
      PROVE  StageInv'
  <2>1. RequestOK(r)' /\ KeepsSequence(r)
    BY <1>3, FreshOK DEF Settled, KeepsSequence
  <2> QED
    BY <1>1, <2>1, RequestStep
<1>4. ASSUME ~state[r].canceled, state'[r] = [state[r] EXCEPT !.queuedIn = "None"],
             job'[r] = how, UNCHANGED <<outcome, bytesHold, live>>
      PROVE  StageInv'
  <2>1. /\ ~state'[r].canceled /\ state'[r].queuedIn = "None"
        /\ state'[r].sequence = state[r].sequence /\ state'[r].laneKey = state[r].laneKey
        /\ state'[r].decoding = state[r].decoding
    BY <1>2, <1>4 DEF RequestState
  <2>2. ~state[r].decoding
    BY <1>1, <1>2 DEF RequestOK, Handled
  <2>3. Placed(r)' /\ Handled(r)' /\ Findable(r)' /\ CanceledFree(r)'
    BY <1>1, <1>2, <1>4, <2>1, <2>2
       DEF RequestOK, Placed, Handled, Findable, Undecided, CanceledFree, Reading, Settled
  <2>4. HasBytes(r)' /\ InOwnLane(r)'
    BY <1>1, <1>2, <1>4, <2>1 DEF RequestOK, HasBytes, InOwnLane, Reading
  <2>5. KeepsSequence(r)
    BY <1>1, <2>1 DEF KeepsSequence
  <2> QED
    BY <1>1, <2>3, <2>4, <2>5, RequestStep DEF RequestOK
<1> QED
  BY <1>3, <1>4 DEF TakenToRead

-----------------------------------------------------------------------------
(***************************************************************************)
(* The readers finish a read.                                              *)
(***************************************************************************)

\* A sequence number no entry has yet leaves room for its entry.
LEMMA PushLands ==
  ASSUME NEW queue, NEW r, NEW priority, NEW sequence, \A e \in queue : e.sequence # sequence
  PROVE  /\ Entry(r, priority, sequence) \in Push(queue, r, priority, sequence)
         /\ queue \subseteq Push(queue, r, priority, sequence)
BY EntryFields DEF Push, Emplace, SameKey

\* The entries of the queues are those of other pending requests than one in a thread's
\* hands, and no sequence number of theirs is its own.
LEMMA SequenceFree ==
  ASSUME IndInv, StageInv, NEW r \in Request, outcome[r] = "pending", job[r] # "none"
  PROVE  \A e \in backgroundQueue : e.sequence # state[r].sequence
<1> SUFFICES ASSUME NEW e \in backgroundQueue PROVE e.sequence # state[r].sequence
  OBVIOUS
<1>1. /\ e.task \in Request /\ e.task # r
      /\ outcome[e.task] = "pending" /\ e.sequence = state[e.task].sequence
  BY BusyInNoQueue DEF IndInv, TypeOK, Queues, BackgroundAgrees, Waits
<1> QED
  BY <1>1 DEF StageInv, SequencesUnique, Pending

\* r's read ended: it is dropped, or handed on with its bytes or its failure known.
ReadDone(r) ==
  /\ job[r] \in Reading /\ job'[r] = "none"
  /\ OnlyTouches(r) /\ OthersStay(r)
  /\ UNCHANGED <<shutdown, joinPending, call, stage, nextSequence>>
  /\ \/ /\ state'[r] = Fresh /\ outcome'[r] = "dropped" /\ r \notin live'
        /\ state[r].canceled \/ shutdown
     \/ /\ ~state[r].canceled /\ UNCHANGED <<outcome, live>>
        /\ ~state'[r].canceled
        /\ state'[r].decoding = state[r].decoding
        /\ state'[r].sequence = state[r].sequence
        /\ Slow(r) => state'[r].prefetched \/ state'[r].slowReadFailed
        /\ \/ state'[r].queuedIn = "Decode" /\ EntryOf(r)' \in backgroundQueue'
           \/ state'[r].queuedIn = "None" /\ \E i \in DOMAIN highQueue' : highQueue'[i] = r

\* The lane it was read in is free again, and nobody's place is taken,
LEMMA FreedLaneStays ==
  ASSUME IndInv, NEW r, NEW key, NEW done, DOMAIN done = DOMAIN lanes,
         \A k \in DOMAIN lanes : /\ done[k].queue = lanes[k].queue
                                 /\ done[k].mainQueue = lanes[k].mainQueue
  PROVE  KeepsOthers(lanes, Reclaim(done, key), r)
<1>1. KeepsOthers(done, Reclaim(done, key), r)
  BY ReclaimStays
<1> QED
  BY <1>1 DEF KeepsOthers

\* a thumbnail goes on to the background queue,
LEMMA LaneReaderFinishes ==
  ASSUME IndInv, StageInv, NEW r \in Request, NEW result \in ReadResult,
         LaneReaderFinish(r, result)
  PROVE  ReadDone(r)
<1> USE DEF lifecycleVars
<1> DEFINE key     == state[r].laneKey
           discard == Discards(r, result)
           keeps   == result = "bytes" /\ ~discard
           slow    == key.lane # "Local"
           s       == AfterRead(state[r], result, slow, "slot")
           t       == [s EXCEPT !.queuedIn = "Decode"]
           done    == [lanes EXCEPT ![key].reading = FALSE,
                                    ![key].held = IF keeps THEN @ + 1 ELSE @]
<1>1. /\ job[r] = "reading" /\ job' = [job EXCEPT ![r] = "none"]
      /\ lanes' = Reclaim(done, key)
      /\ UNCHANGED <<bytesHold, highQueue, nextSequence, lifecycleVars>>
      /\ discard => /\ live' = live \ {r}
                    /\ outcome' = [outcome EXCEPT ![r] = "dropped"]
                    /\ state' = [state EXCEPT ![r] = Fresh]
                    /\ UNCHANGED backgroundQueue
      /\ ~discard => /\ state' = [state EXCEPT ![r] = t]
                     /\ backgroundQueue' = Push(backgroundQueue, r, s.priority, s.sequence)
                     /\ UNCHANGED <<live, outcome>>
  BY DEF LaneReaderFinish, Finish
<1>2. /\ state \in [Request -> RequestState] /\ state[r] \in RequestState
      /\ job \in [Request -> Job] /\ outcome \in [Request -> Outcome]
      /\ outcome[r] = "pending"
  BY <1>1 DEF IndInv, TypeOK, Holders, HoldsNothingYet, Reading
<1>3. slow <=> Slow(r)
  BY <1>1 DEF StageInv, RequestOK, InOwnLane, Slow, Reading
<1>4. slow \in BOOLEAN
  OBVIOUS
<1>5. KeepsOthers(lanes, lanes', r)
  <2>1. /\ DOMAIN done = DOMAIN lanes
        /\ \A k \in DOMAIN lanes \ {key} : done[k] = lanes[k]
    OBVIOUS
  <2>2. key \in DOMAIN lanes =>
          done[key] = [lanes[key] EXCEPT !.reading = FALSE,
                                         !.held = IF keeps THEN lanes[key].held + 1
                                                  ELSE lanes[key].held]
    OBVIOUS
  <2>3. \A k \in DOMAIN lanes : lanes[k] \in LaneState
    BY DEF IndInv, TypeOK
  <2>4. key \in DOMAIN lanes => /\ done[key].queue = lanes[key].queue
                                /\ done[key].mainQueue = lanes[key].mainQueue
    BY <2>2, <2>3 DEF LaneState
  <2> HIDE DEF done, key
  <2> QED
    BY <1>1, <2>1, <2>4, FreedLaneStays
<1> HIDE DEF slow
<1>6. /\ s.canceled = state[r].canceled /\ s.decoding = state[r].decoding
      /\ s.sequence = state[r].sequence /\ s.priority = state[r].priority
      /\ s.prefetched = (result = "bytes")
      /\ s.slowReadFailed = (result = "nothing" /\ slow)
      /\ s \in RequestState
  BY <1>2, <1>4 DEF AfterRead, RequestState
<1> HIDE DEF s
<1>7. /\ t.canceled = state[r].canceled /\ t.decoding = state[r].decoding
      /\ t.sequence = s.sequence /\ t.priority = s.priority
      /\ t.prefetched = (result = "bytes")
      /\ t.slowReadFailed = (result = "nothing" /\ slow)
      /\ t.queuedIn = "Decode"
  BY <1>6 DEF RequestState
<1>8. \A q \in Request \ {r} : state'[q] = state[q] /\ job'[q] = job[q]
                               /\ outcome'[q] = outcome[q] /\ (q \in live' <=> q \in live)
  BY <1>1, <1>2
<1>9. OnlyTouches(r)
  BY <1>1, <1>8 DEF OnlyTouches
<1>10. OthersStay(r)
  <2>1. backgroundQueue \subseteq backgroundQueue'
    BY <1>1 DEF Push, Emplace
  <2> QED
    BY <1>1, <1>5, <2>1 DEF OthersStay
<1>11. CASE discard
  <2>1. state'[r] = Fresh /\ outcome'[r] = "dropped" /\ r \notin live' /\ job'[r] = "none"
    BY <1>1, <1>2, <1>11
  <2>2. state[r].canceled \/ shutdown
    BY <1>11 DEF Discards, LaneReaderFinish, MayStop
  <2> QED
    BY <2>2, <1>1, <1>9, <1>10, <2>1 DEF ReadDone, Reading
<1>12. CASE ~discard
  <2>1. state'[r] = t /\ job'[r] = "none"
    BY <1>1, <1>2, <1>12
  <2>2. ~state[r].canceled /\ result \in {"bytes", "nothing"}
    BY <1>12 DEF Discards, ReadResult
  <2>3. EntryOf(r)' \in backgroundQueue'
    <3>1. \A e \in backgroundQueue : e.sequence # s.sequence
      BY <1>1, <1>2, <1>6, SequenceFree
    <3>2. EntryOf(r)' = Entry(r, s.priority, s.sequence)
      BY <1>7, <2>1 DEF EntryOf
    <3> QED
      BY <1>1, <1>12, <3>1, <3>2, PushLands
  <2>4. Slow(r) => state'[r].prefetched \/ state'[r].slowReadFailed
    BY <1>3, <1>7, <2>1, <2>2
  <2> HIDE DEF t
  <2> QED
    BY <1>1, <1>6, <1>7, <1>9, <1>10, <1>12, <2>1, <2>2, <2>3, <2>4 DEF ReadDone, Reading
<1> QED
  BY <1>11, <1>12

\* a main image to the high queue.
LEMMA MainReaderFinishes ==
  ASSUME IndInv, StageInv, NEW r \in Request, NEW result \in ReadResult,
         MainReaderFinish(r, result)
  PROVE  ReadDone(r)
<1> USE DEF lifecycleVars
<1> DEFINE key     == state[r].laneKey
           discard == Discards(r, result)
           t       == AfterRead(state[r], result, TRUE, "input")
           done    == [lanes EXCEPT ![key].mainReading = FALSE]
<1>1. /\ job[r] = "mainReading" /\ job' = [job EXCEPT ![r] = "none"]
      /\ lanes' = Reclaim(done, key)
      /\ UNCHANGED <<bytesHold, backgroundQueue, nextSequence, lifecycleVars>>
      /\ discard => /\ live' = live \ {r}
                    /\ outcome' = [outcome EXCEPT ![r] = "dropped"]
                    /\ state' = [state EXCEPT ![r] = Fresh]
                    /\ UNCHANGED highQueue
      /\ ~discard => /\ state' = [state EXCEPT ![r] = t]
                     /\ highQueue' = Append(highQueue, r)
                     /\ UNCHANGED <<live, outcome>>
  BY DEF MainReaderFinish, Finish
<1>2. /\ state \in [Request -> RequestState] /\ state[r] \in RequestState
      /\ job \in [Request -> Job] /\ outcome \in [Request -> Outcome]
      /\ outcome[r] = "pending" /\ state[r].queuedIn = "None"
      /\ highQueue \in Seq(Request)
  BY <1>1 DEF IndInv, TypeOK, Holders, HoldsNothingYet, Reading
<1>3. KeepsOthers(lanes, lanes', r)
  <2>1. /\ DOMAIN done = DOMAIN lanes
        /\ \A k \in DOMAIN lanes \ {key} : done[k] = lanes[k]
    OBVIOUS
  <2>2. key \in DOMAIN lanes => done[key] = [lanes[key] EXCEPT !.mainReading = FALSE]
    OBVIOUS
  <2>3. \A k \in DOMAIN lanes : lanes[k] \in LaneState
    BY DEF IndInv, TypeOK
  <2>4. key \in DOMAIN lanes => /\ done[key].queue = lanes[key].queue
                                /\ done[key].mainQueue = lanes[key].mainQueue
    BY <2>2, <2>3 DEF LaneState
  <2> HIDE DEF done, key
  <2> QED
    BY <1>1, <2>1, <2>4, FreedLaneStays
<1>4. /\ t.canceled = state[r].canceled /\ t.decoding = state[r].decoding
      /\ t.sequence = state[r].sequence
      /\ t.prefetched = (result = "bytes")
      /\ t.slowReadFailed = (result = "nothing")
      /\ t.queuedIn = "None"
  BY <1>2 DEF AfterRead, RequestState
<1>5. \A q \in Request \ {r} : state'[q] = state[q] /\ job'[q] = job[q]
                               /\ outcome'[q] = outcome[q] /\ (q \in live' <=> q \in live)
  BY <1>1, <1>2
<1>6. OnlyTouches(r)
  BY <1>1, <1>5 DEF OnlyTouches
<1>7. /\ \A i \in DOMAIN highQueue : i \in DOMAIN Append(highQueue, r)
                                     /\ Append(highQueue, r)[i] = highQueue[i]
      /\ Len(highQueue) + 1 \in DOMAIN Append(highQueue, r)
      /\ Append(highQueue, r)[Len(highQueue) + 1] = r
  BY <1>2
<1>8. OthersStay(r)
  BY <1>1, <1>3, <1>7 DEF OthersStay
<1> HIDE DEF t
<1>9. CASE discard
  <2>1. state'[r] = Fresh /\ outcome'[r] = "dropped" /\ r \notin live' /\ job'[r] = "none"
    BY <1>1, <1>2, <1>9
  <2>2. state[r].canceled \/ shutdown
    BY <1>9 DEF Discards, MainReaderFinish, MayStop
  <2> QED
    BY <2>2, <1>1, <1>6, <1>8, <2>1 DEF ReadDone, Reading
<1>10. CASE ~discard
  <2>1. state'[r] = t /\ job'[r] = "none"
    BY <1>1, <1>2, <1>10
  <2>2. ~state[r].canceled /\ result \in {"bytes", "nothing"}
    BY <1>10 DEF Discards, ReadResult
  <2>3. \E i \in DOMAIN highQueue' : highQueue'[i] = r
    BY <1>1, <1>7, <1>10
  <2> QED
    BY <1>1, <1>4, <1>6, <1>8, <1>10, <2>1, <2>2, <2>3 DEF ReadDone, Reading
<1> QED
  BY <1>9, <1>10

\* Either way it is right.
LEMMA ReadDoneStage ==
  ASSUME IndInv, StageInv, NEW r \in Request, ReadDone(r) PROVE StageInv'
<1>1. /\ ~Quiet /\ OnlyTouches(r) /\ OthersStay(r)
      /\ UNCHANGED <<shutdown, joinPending, call, stage, nextSequence>>
      /\ job[r] \in Reading /\ job'[r] = "none" /\ outcome[r] = "pending"
  BY NotQuiet DEF ReadDone, Reading, IndInv, Holders, HoldsNothingYet
<1>2. RequestOK(r)
  BY DEF StageInv
<1>3. CASE state'[r] = Fresh /\ outcome'[r] = "dropped" /\ r \notin live'
  <2>1. RequestOK(r)' /\ KeepsSequence(r)
    BY <1>1, <1>3, FreshOK DEF Settled, KeepsSequence
  <2> QED
    BY <1>1, <2>1, RequestStep
<1>4. CASE ~(state'[r] = Fresh /\ outcome'[r] = "dropped" /\ r \notin live')
  <2>1. /\ ~state[r].canceled /\ outcome' = outcome /\ live' = live
        /\ ~state'[r].canceled
        /\ state'[r].decoding = state[r].decoding
        /\ state'[r].sequence = state[r].sequence
        /\ Slow(r) => state'[r].prefetched \/ state'[r].slowReadFailed
        /\ \/ state'[r].queuedIn = "Decode" /\ EntryOf(r)' \in backgroundQueue'
           \/ state'[r].queuedIn = "None" /\ \E i \in DOMAIN highQueue' : highQueue'[i] = r
    BY <1>4 DEF ReadDone
  <2>2. Placed(r)'
    BY <1>1, <2>1 DEF Placed
  <2>3. Handled(r)' /\ Findable(r)' /\ CanceledFree(r)'
    BY <1>1, <1>2, <2>1 DEF RequestOK, Handled, Findable, Undecided, CanceledFree, Reading, Settled
  <2>4. HasBytes(r)' /\ InOwnLane(r)' /\ KeepsSequence(r)
    BY <1>1, <2>1 DEF HasBytes, InOwnLane, Reading, KeepsSequence
  <2> QED
    BY <1>1, <2>2, <2>3, <2>4, RequestStep DEF RequestOK
<1> QED
  BY <1>3, <1>4

\* Every step of a reader keeps the invariant.
LEMMA ReaderStage ==
  ASSUME IndInv, StageInv, Reader PROVE StageInv'
<1>1. ASSUME NEW kind \in LaneKind, LaneReaderTake(kind) PROVE StageInv'
  BY <1>1, LaneReaderTakes, ReaderTakeStage DEF Reading
<1>2. CASE MainReaderTake
  BY <1>2, MainReaderTakes, ReaderTakeStage DEF Reading
<1>3. ASSUME NEW r \in Request, NEW result \in ReadResult, LaneReaderFinish(r, result)
      PROVE  StageInv'
  BY <1>3, LaneReaderFinishes, ReadDoneStage
<1>4. ASSUME NEW r \in Request, NEW result \in ReadResult, MainReaderFinish(r, result)
      PROVE  StageInv'
  BY <1>4, MainReaderFinishes, ReadDoneStage
<1> QED
  BY <1>1, <1>2, <1>3, <1>4 DEF Reader

-----------------------------------------------------------------------------
(***************************************************************************)
(* Enqueue.                                                                *)
(***************************************************************************)

\* The entries of the queues are those of pending requests: one with the sequence
\* number of a pending request is its own, and none has a number not given yet.
LEMMA EntriesBySequence ==
  ASSUME IndInv, StageInv,
         NEW e, \/ e \in backgroundQueue
                \/ \E key \in DOMAIN lanes : e \in lanes[key].queue \cup lanes[key].mainQueue
  PROVE  /\ e.sequence \in 1..nextSequence
         /\ \A r \in Pending : e.sequence = state[r].sequence => e = EntryOf(r)
<1>1. e \in [task : Request, priority : Nat, sequence : Nat]
  BY DEF IndInv, TypeOK, LaneState
<1>2. /\ outcome[e.task] = "pending"
      /\ e.sequence = state[e.task].sequence /\ e.priority = state[e.task].priority
  BY DEF IndInv, Queues, BackgroundAgrees, LaneQueuesAgree, Waits
<1>3. e.task \in Pending
  BY <1>1, <1>2 DEF Pending
<1>4. e = Entry(e.task, e.priority, e.sequence)
  BY <1>1 DEF Entry
<1> QED
  BY <1>2, <1>3, <1>4 DEF StageInv, SequencesUnique, EntryOf

\* A request accepted is right if it is queued where its state says, and not waiting to
\* be decoded if it must be read first; no other is touched.
LEMMA AcceptStage ==
  ASSUME IndInv, StageInv, NEW r \in Request, NEW priority \in Nat,
         NEW key \in Keys \cup {None}, NEW queuedIn \in Stage,
         Accept(r, priority, key, queuedIn), OthersStay(r), Placed(r)',
         queuedIn \in {"Io", "MainIo"} => key.lane = IoLaneFor(Source[r].kind),
         Slow(r) => queuedIn \in {"Io", "MainIo"}
  PROVE  StageInv'
<1> USE DEF lifecycleVars
<1>1. /\ nextSequence \in Nat /\ nextSequence' = nextSequence + 1
      /\ outcome[r] = "new" /\ job[r] = "none" /\ job' = job
      /\ ~shutdown /\ live' = live \cup ({r} \cap Tracked)
      /\ UNCHANGED <<bytesHold, shutdown, joinPending, call, stage>>
  BY DEF Accept, IndInv, TypeOK, Holders, HoldsNothingYet
<1>2. /\ outcome'[r] = "pending"
      /\ state'[r].sequence = nextSequence + 1
      /\ state'[r].laneKey = key /\ state'[r].queuedIn = queuedIn
      /\ ~state'[r].canceled /\ ~state'[r].decoding
      /\ \A q \in Request \ {r} : state'[q] = state[q] /\ outcome'[q] = outcome[q]
  <2>1. state'[r] = [Fresh EXCEPT !.priority = priority, !.sequence = nextSequence',
                                  !.laneKey = key, !.queuedIn = queuedIn]
    BY DEF Accept, IndInv, TypeOK
  <2>2. ~state'[r].canceled /\ ~state'[r].decoding
    BY <2>1 DEF Fresh
  <2>3. \A q \in Request \ {r} : state'[q] = state[q] /\ outcome'[q] = outcome[q]
    BY DEF Accept, IndInv, TypeOK
  <2> QED
    BY <1>1, <2>2, <2>3, AcceptKeeps, ZenonT(60)
<1>3. OnlyTouches(r)
  BY <1>1, <1>2 DEF OnlyTouches
<1>4. \A q \in Request \ {r} : RequestOK(q)'
  BY <1>1, <1>3, OthersOK DEF StageInv
<1>5. RequestOK(r)'
  <2>1. Handled(r)' /\ Findable(r)' /\ CanceledFree(r)'
    BY <1>1, <1>2 DEF StageInv, RequestOK, Handled, Findable, Undecided, CanceledFree,
                      Reading, Settled
  <2>2. HasBytes(r)' /\ InOwnLane(r)'
    BY <1>1, <1>2 DEF HasBytes, InOwnLane, Reading
  <2> QED
    BY <2>1, <2>2 DEF RequestOK
<1>6. SequencesUnique'
  <2>1. \A q \in Pending' : \/ q = r
                            \/ /\ q \in Pending /\ q # r
                               /\ state'[q].sequence = state[q].sequence
    BY <1>2 DEF Pending
  <2>2. \A q \in Pending : state[q].sequence \in 1..nextSequence
    BY DEF StageInv, SequencesUnique
  <2>3. \A q \in Pending' : state'[q].sequence \in 1..(nextSequence + 1)
    BY <1>1, <1>2, <2>1, <2>2
  <2>4. \A p, q \in Pending' : state'[p].sequence = state'[q].sequence => p = q
    <3> SUFFICES ASSUME NEW p \in Pending', NEW q \in Pending',
                        state'[p].sequence = state'[q].sequence
                 PROVE  p = q
      OBVIOUS
    <3>1. \A x \in Pending : state[x].sequence # nextSequence + 1
      BY <1>1, <2>2
    <3> QED
      BY <1>2, <2>1, <3>1 DEF StageInv, SequencesUnique
  <2> QED
    BY <1>1, <2>3, <2>4 DEF SequencesUnique
<1>7. Control' /\ AllQuiet'
  BY <1>1 DEF StageInv, Control, AllQuiet, Quiet
<1> QED
  BY <1>4, <1>5, <1>6, <1>7 DEF StageInv

\* A local full-resolution request goes straight to the high queue,
LEMMA EnqueueLocalMainStage ==
  ASSUME IndInv, StageInv, NEW r \in Request, NEW priority \in Priorities,
         EnqueueLocalMain(r, priority)
  PROVE  StageInv'
<1>1. /\ Accept(r, priority, None, "None") /\ ~Slow(r)
      /\ highQueue' = Append(highQueue, r) /\ lanes' = lanes
      /\ backgroundQueue' = backgroundQueue
      /\ highQueue \in Seq(Request) /\ priority \in Nat
  BY SchedulerConstants DEF EnqueueLocalMain, NeedsLane, Accept, IndInv, TypeOK
<1>2. /\ \A i \in DOMAIN highQueue : i \in DOMAIN Append(highQueue, r)
                                     /\ Append(highQueue, r)[i] = highQueue[i]
      /\ Len(highQueue) + 1 \in DOMAIN Append(highQueue, r)
      /\ Append(highQueue, r)[Len(highQueue) + 1] = r
  BY <1>1
<1>3. OthersStay(r)
  BY <1>1, <1>2 DEF OthersStay, KeepsOthers
<1>4. state'[r].queuedIn = "None"
  BY <1>1, AcceptKeeps DEF Stage
<1>5. Placed(r)'
  BY <1>1, <1>2, <1>4 DEF Placed
<1> QED
  BY <1>1, <1>3, <1>5, AcceptStage DEF Stage

\* The lane of a route, with its queues if it was alive.
LEMMA LaneForKeeps ==
  ASSUME IndInv, NEW r \in Request, NEW answer \in Answers[r]
  PROVE  LET route == RouteOf(r, answer)
             lane  == LaneFor(route)
         IN  /\ lane \in LaneState
             /\ route.key \in DOMAIN lanes =>
                  /\ lane.queue = lanes[route.key].queue
                  /\ lane.mainQueue = lanes[route.key].mainQueue
             /\ route.key \notin DOMAIN lanes => lane.queue = {} /\ lane.mainQueue = {}
<1> DEFINE route == RouteOf(r, answer)
<1>1. route.depth \in Nat /\ route.limit \in Nat
  BY RouteType
<1> HIDE DEF route
<1>2. LaneFor(route) \in LaneState
  BY <1>1, LaneForType DEF IndInv
<1>3. CASE route.key \in DOMAIN lanes
  <2>1. lanes[route.key] \in LaneState
    BY <1>3 DEF IndInv, TypeOK
  <2>2. LaneFor(route) = [lanes[route.key] EXCEPT !.depth = route.depth, !.limit = route.limit]
    BY <1>3 DEF LaneFor
  <2> QED
    BY <1>2, <1>3, <2>1, <2>2 DEF LaneState, route
<1>4. CASE route.key \notin DOMAIN lanes
  <2>1. LaneFor(route) = [EmptyLane EXCEPT !.depth = route.depth, !.limit = route.limit]
    BY <1>4 DEF LaneFor
  <2>2. LaneFor(route).queue = {} /\ LaneFor(route).mainQueue = {}
    BY <2>1 DEF EmptyLane
  <2> QED
    BY <1>2, <1>4, <2>2 DEF route
<1> QED
  BY <1>3, <1>4

\* A lane is of the kind of its requests' sources.
LEMMA RouteLane ==
  ASSUME NEW r \in Request, NEW answer \in Answers[r]
  PROVE  RouteOf(r, answer).key.lane = IoLaneFor(Source[r].kind)
BY DEF RouteOf, RouteFor, RemoteRoute, DeviceRoute, Key

\* a thumbnail and a slow full-resolution request to a queue of their lane, where their
\* new sequence number is free.
LEMMA EnqueueInLaneStage ==
  ASSUME IndInv, StageInv, NEW r \in Request, NEW priority \in Nat, NEW answer \in Answers[r],
         NEW queuedIn \in {"Io", "MainIo"}, NEW lane \in LaneState,
         NEW key \in Keys, key = RouteOf(r, answer).key,
         Accept(r, priority, key, queuedIn), lanes' = WithLane(lanes, key, lane),
         highQueue' = highQueue,
         LaneFor(RouteOf(r, answer)).queue \subseteq lane.queue,
         LaneFor(RouteOf(r, answer)).mainQueue \subseteq lane.mainQueue,
         queuedIn = "Io" => Entry(r, priority, nextSequence') \in lane.queue,
         queuedIn = "MainIo" => Entry(r, priority, nextSequence') \in lane.mainQueue
  PROVE  StageInv'
<1>0. queuedIn \in Stage /\ key \in Keys \cup {None}
  BY DEF Stage
<1>1. key.lane = IoLaneFor(Source[r].kind)
  BY RouteLane
<1>2. key \in DOMAIN lanes => /\ lanes[key].queue \subseteq lane.queue
                              /\ lanes[key].mainQueue \subseteq lane.mainQueue
  BY LaneForKeeps
<1>3. /\ key \in DOMAIN lanes' /\ lanes'[key] = lane
      /\ \A k \in DOMAIN lanes : k \in DOMAIN lanes' /\ (k # key => lanes'[k] = lanes[k])
  BY DEF WithLane
<1>4. KeepsOthers(lanes, lanes', r)
  BY <1>2, <1>3 DEF KeepsOthers
<1>5. OthersStay(r)
  BY <1>4 DEF OthersStay, Accept
<1>6. /\ state'[r].priority = priority /\ state'[r].sequence = nextSequence'
      /\ state'[r].laneKey = key /\ state'[r].queuedIn = queuedIn
  BY <1>0, AcceptKeeps, ZenonT(60)
<1>7. Placed(r)'
  BY <1>3, <1>6 DEF Placed, EntryOf
<1> QED
  BY <1>0, <1>1, <1>5, <1>7, AcceptStage

\* A main image of a slow volume enters its lane's main queue,
LEMMA EnqueueSlowMainStage ==
  ASSUME IndInv, StageInv, NEW r \in Request, NEW priority \in Priorities,
         NEW answer \in Answers[r], EnqueueSlowMain(r, priority, answer)
  PROVE  StageInv'
<1> DEFINE route == RouteOf(r, answer)
           old   == LaneFor(route)
           queue == Push(old.mainQueue, r, priority, nextSequence')
           lane  == [old EXCEPT !.mainQueue = queue]
<1>1. /\ Accept(r, priority, route.key, "MainIo") /\ route.key \in Keys
      /\ lanes' = WithLane(lanes, route.key, lane)
      /\ highQueue' = highQueue /\ priority \in Nat
      /\ nextSequence' = nextSequence + 1 /\ nextSequence \in Nat
  BY SchedulerConstants, RouteType DEF EnqueueSlowMain, Accept, IndInv, TypeOK
<1>2. /\ old \in LaneState
      /\ route.key \in DOMAIN lanes => old.mainQueue = lanes[route.key].mainQueue
      /\ route.key \notin DOMAIN lanes => old.mainQueue = {}
  BY LaneForKeeps
<1>3. Entry(r, priority, nextSequence') \in queue /\ old.mainQueue \subseteq queue
  <2>1. \A e \in old.mainQueue : e.sequence \in 1..nextSequence
    BY <1>2, EntriesBySequence
  <2>2. \A e \in old.mainQueue : e.sequence # nextSequence'
    BY <1>1, <2>1
  <2> QED
    BY <2>2, PushLands
<1>4. queue \subseteq [task : Request, priority : Nat, sequence : Nat]
  <2>1. Entry(r, priority, nextSequence') \in [task : Request, priority : Nat, sequence : Nat]
    BY <1>1 DEF Entry
  <2> QED
    BY <1>2, <2>1, PushAdds DEF LaneState
<1> HIDE DEF queue, old, route
<1>5. lane \in LaneState /\ lane.queue = old.queue /\ lane.mainQueue = queue
  BY <1>2, <1>4 DEF LaneState
<1> HIDE DEF lane
<1> QED
  BY <1>1, <1>3, <1>5, EnqueueInLaneStage DEF old, route

\* and a thumbnail its lane's queue.
LEMMA EnqueueThumbnailStage ==
  ASSUME IndInv, StageInv, NEW r \in Request, NEW priority \in Priorities,
         NEW answer \in Answers[r], EnqueueThumbnail(r, priority, answer)
  PROVE  StageInv'
<1> DEFINE route == RouteOf(r, answer)
           old   == LaneFor(route)
           queue == Push(old.queue, r, priority, nextSequence')
           lane  == [old EXCEPT !.queue = queue]
<1>1. /\ Accept(r, priority, route.key, "Io") /\ route.key \in Keys
      /\ lanes' = WithLane(lanes, route.key, lane)
      /\ highQueue' = highQueue /\ priority \in Nat
      /\ nextSequence' = nextSequence + 1 /\ nextSequence \in Nat
  BY SchedulerConstants, RouteType DEF EnqueueThumbnail, Accept, IndInv, TypeOK
<1>2. /\ old \in LaneState
      /\ route.key \in DOMAIN lanes => old.queue = lanes[route.key].queue
      /\ route.key \notin DOMAIN lanes => old.queue = {}
  BY LaneForKeeps
<1>3. Entry(r, priority, nextSequence') \in queue /\ old.queue \subseteq queue
  <2>1. \A e \in old.queue : e.sequence \in 1..nextSequence
    BY <1>2, EntriesBySequence
  <2>2. \A e \in old.queue : e.sequence # nextSequence'
    BY <1>1, <2>1
  <2> QED
    BY <2>2, PushLands
<1>4. queue \subseteq [task : Request, priority : Nat, sequence : Nat]
  <2>1. Entry(r, priority, nextSequence') \in [task : Request, priority : Nat, sequence : Nat]
    BY <1>1 DEF Entry
  <2> QED
    BY <1>2, <2>1, PushAdds DEF LaneState
<1> HIDE DEF queue, old, route
<1>5. lane \in LaneState /\ lane.mainQueue = old.mainQueue /\ lane.queue = queue
  BY <1>2, <1>4 DEF LaneState
<1> HIDE DEF lane
<1> QED
  BY <1>1, <1>3, <1>5, EnqueueInLaneStage DEF old, route

\* A request rejected was nowhere and stays nowhere.
LEMMA EnqueueRejectedStage ==
  ASSUME IndInv, StageInv, NEW r \in Request, EnqueueRejected(r) PROVE StageInv'
<1> USE DEF requestVars, laneVars, queueVars, tuningVars, prefetchVars, mainVars, lifecycleVars
<1>1. /\ outcome[r] = "new" /\ outcome'[r] = "rejected"
      /\ \A q \in Request \ {r} : outcome'[q] = outcome[q]
      /\ UNCHANGED <<state, live, job, bytesHold, lanes, highQueue, backgroundQueue,
                     nextSequence, shutdown, joinPending, call, stage>>
  BY DEF EnqueueRejected, IndInv, TypeOK
<1>2. OnlyTouches(r) /\ OthersStay(r)
  BY <1>1 DEF OnlyTouches, OthersStay, KeepsOthers
<1>3. \A q \in Request \ {r} : RequestOK(q)'
  BY <1>1, <1>2, OthersOK DEF StageInv
<1>4. RequestOK(r)
  BY DEF StageInv
<1>5. RequestOK(r)'
  BY <1>1, <1>4 DEF RequestOK, Placed, Handled, Findable, Undecided, CanceledFree,
                    HasBytes, InOwnLane, Settled
<1>6. SequencesUnique'
  BY <1>1, SequencesFrame DEF StageInv, KeepsSequence
<1>7. Control' /\ AllQuiet'
  BY <1>1 DEF StageInv, Control, AllQuiet, Quiet
<1> QED
  BY <1>3, <1>5, <1>6, <1>7 DEF StageInv

-----------------------------------------------------------------------------
(***************************************************************************)
(* SetPriority and Cancel.                                                 *)
(***************************************************************************)

\* Re-keying moves r's entry to its new place, and no other.
LEMMA RekeyedLands ==
  ASSUME NEW queue, NEW r, NEW priority,
         \A e \in queue : e.sequence = state[r].sequence => e = EntryOf(r)
  PROVE  /\ \A e \in queue : e.task # r => e \in Rekeyed(queue, r, priority)
         /\ EntryOf(r) \in queue =>
              Entry(r, priority, state[r].sequence) \in Rekeyed(queue, r, priority)
<1> DEFINE s    == state[r]
           rest == Remove(queue, r, s.priority, s.sequence)
<1>1. EntryOf(r).task = r
  BY DEF EntryOf, Entry
<1>2. \A e \in queue : e.task # r => e \in rest
  BY <1>1 DEF Remove, EntryOf
<1>3. CASE EntryOf(r) \in queue
  <2>1. Rekeyed(queue, r, priority) = Push(rest, r, priority, s.sequence)
    BY <1>3 DEF Rekeyed, Finds, EntryOf, Reprioritize, Push
  <2>2. \A e \in rest : e.sequence # s.sequence
    BY DEF Remove, EntryOf
  <2> HIDE DEF rest
  <2> QED
    BY <1>2, <2>1, <2>2, PushLands
<1>4. CASE EntryOf(r) \notin queue
  BY <1>4 DEF Rekeyed, Finds, EntryOf
<1> QED
  BY <1>3, <1>4

\* A change of priority keeps a request where it is, under its new key.
LEMMA SetPriorityStage ==
  ASSUME IndInv, StageInv, NEW r \in Request, NEW priority \in Priorities,
         SetPriority(r, priority)
  PROVE  StageInv'
<1> USE DEF queueVars, tuningVars, prefetchVars, mainVars
<1> DEFINE s   == state[r]
           key == s.laneKey
<1>1. /\ s \in RequestState /\ RequestOK(r) /\ outcome[r] = "pending" /\ ~Quiet
  BY NotQuiet DEF SetPriority, IndInv, TypeOK, StageInv, RequestOK, Findable, Undecided
<1>2. /\ state' = [state EXCEPT ![r] = [s EXCEPT !.priority = priority]]
      /\ UNCHANGED <<live, job, bytesHold, outcome, highQueue, nextSequence,
                     shutdown, joinPending, call, stage>>
  BY DEF SetPriority
<1>3. /\ state'[r] = [s EXCEPT !.priority = priority]
      /\ \A q \in Request \ {r} : state'[q] = state[q]
  BY <1>2 DEF IndInv, TypeOK
<1>4. /\ state'[r].priority = priority /\ state'[r].sequence = s.sequence
      /\ state'[r].queuedIn = s.queuedIn /\ state'[r].laneKey = s.laneKey
      /\ state'[r].prefetched = s.prefetched /\ state'[r].decoding = s.decoding
      /\ state'[r].canceled = s.canceled /\ state'[r].slowReadFailed = s.slowReadFailed
      /\ state'[r].holdsPrefetchSlot = s.holdsPrefetchSlot
      /\ state'[r].holdsMainInput = s.holdsMainInput
  BY <1>1, <1>3 DEF RequestState
<1>5. OnlyTouches(r)
  BY <1>2, <1>3 DEF OnlyTouches
<1> DEFINE Moved(old, new) ==
             /\ \A e \in old : e.task # r => e \in new
             /\ EntryOf(r) \in old => Entry(r, priority, s.sequence) \in new
<1>6. ASSUME NEW queue, \A e \in queue : e.sequence = s.sequence => e = EntryOf(r)
      PROVE  Moved(queue, Rekeyed(queue, r, priority))
  BY <1>6, RekeyedLands
<1>7. r \in Pending
  BY <1>1 DEF Pending
<1>8. /\ \A e \in backgroundQueue : e.task # r => e \in backgroundQueue'
      /\ s.queuedIn = "Decode" => Moved(backgroundQueue, backgroundQueue')
  <2>1. \A e \in backgroundQueue : e.sequence = s.sequence => e = EntryOf(r)
    BY <1>7, EntriesBySequence
  <2>2. Moved(backgroundQueue, Rekeyed(backgroundQueue, r, priority))
    BY <1>6, <2>1
  <2>3. backgroundQueue' = IF s.queuedIn = "Decode"
                           THEN Rekeyed(backgroundQueue, r, priority) ELSE backgroundQueue
    BY DEF SetPriority
  <2> HIDE DEF s
  <2> QED
    BY <2>2, <2>3
<1>9. ASSUME NEW k \in DOMAIN lanes
      PROVE  /\ k \in DOMAIN lanes'
             /\ \A e \in lanes[k].queue : e.task # r => e \in lanes'[k].queue
             /\ \A e \in lanes[k].mainQueue : e.task # r => e \in lanes'[k].mainQueue
             /\ s.queuedIn = "Io" /\ key = k => Moved(lanes[k].queue, lanes'[k].queue)
             /\ s.queuedIn = "MainIo" /\ key = k =>
                  Moved(lanes[k].mainQueue, lanes'[k].mainQueue)
  <2>1. lanes[k] \in LaneState
    BY <1>9 DEF IndInv, TypeOK
  <2>2. /\ \A e \in lanes[k].queue : e.sequence = s.sequence => e = EntryOf(r)
        /\ \A e \in lanes[k].mainQueue : e.sequence = s.sequence => e = EntryOf(r)
    BY <1>7, EntriesBySequence
  <2>3. /\ Moved(lanes[k].queue, Rekeyed(lanes[k].queue, r, priority))
        /\ Moved(lanes[k].mainQueue, Rekeyed(lanes[k].mainQueue, r, priority))
    BY <1>6, <2>2
  <2>4. \/ lanes'[k] = lanes[k] /\ ~(s.queuedIn \in {"Io", "MainIo"} /\ key = k)
        \/ s.queuedIn = "Io"
             /\ lanes'[k] = [lanes[k] EXCEPT !.queue = Rekeyed(lanes[k].queue, r, priority)]
        \/ s.queuedIn = "MainIo"
             /\ lanes'[k] = [lanes[k] EXCEPT !.mainQueue = Rekeyed(lanes[k].mainQueue, r, priority)]
    BY <1>9 DEF SetPriority
  <2>5. k \in DOMAIN lanes'
    BY <1>9 DEF SetPriority
  <2>6. CASE lanes'[k] = lanes[k] /\ ~(s.queuedIn \in {"Io", "MainIo"} /\ key = k)
    BY <2>5, <2>6
  <2>7. CASE s.queuedIn = "Io"
             /\ lanes'[k] = [lanes[k] EXCEPT !.queue = Rekeyed(lanes[k].queue, r, priority)]
    <3>1. /\ lanes'[k].queue = Rekeyed(lanes[k].queue, r, priority)
          /\ lanes'[k].mainQueue = lanes[k].mainQueue
      BY <2>1, <2>7 DEF LaneState
    <3> QED
      BY <2>3, <2>5, <2>7, <3>1
  <2>8. CASE s.queuedIn = "MainIo"
             /\ lanes'[k] = [lanes[k] EXCEPT !.mainQueue = Rekeyed(lanes[k].mainQueue, r, priority)]
    <3>1. /\ lanes'[k].mainQueue = Rekeyed(lanes[k].mainQueue, r, priority)
          /\ lanes'[k].queue = lanes[k].queue
      BY <2>1, <2>8 DEF LaneState
    <3> QED
      BY <2>3, <2>5, <2>8, <3>1
  <2> QED
    BY <2>4, <2>6, <2>7, <2>8
<1>10. OthersStay(r)
  BY <1>2, <1>8, <1>9 DEF OthersStay, KeepsOthers
<1>11. EntryOf(r)' = Entry(r, priority, s.sequence)
  BY <1>4 DEF EntryOf
<1>12. Placed(r)'
  <2> SUFFICES ASSUME outcome[r] = "pending", job[r] = "none"
               PROVE  Placed(r)'
    BY <1>2 DEF Placed
  <2>1. Placed(r)
    BY <1>1 DEF RequestOK
  <2> HIDE DEF s
  <2> QED
    BY <1>2, <1>4, <1>8, <1>9, <1>11, <2>1 DEF Placed, s
<1>13. Handled(r)' /\ Findable(r)' /\ CanceledFree(r)'
  BY <1>1, <1>2, <1>4 DEF RequestOK, Handled, Findable, Undecided, CanceledFree
<1>14. HasBytes(r)' /\ InOwnLane(r)' /\ KeepsSequence(r)
  BY <1>1, <1>2, <1>4 DEF RequestOK, HasBytes, InOwnLane, KeepsSequence
<1> QED
  BY <1>1, <1>2, <1>5, <1>10, <1>12, <1>13, <1>14, RequestStep DEF RequestOK

\* Taking r's task out of its lane leaves the others there.
LEMMA UnqueuedStays ==
  ASSUME TypeOK, NEW r, NEW s PROVE KeepsOthers(lanes, Unqueued(r, s), r)
<1> DEFINE key  == s.laneKey
           io   == [lanes EXCEPT ![key].queue = Remove(@, r, s.priority, s.sequence)]
           main == [lanes EXCEPT ![key].mainQueue = Remove(@, r, s.priority, s.sequence)]
<1>1. \A k \in DOMAIN lanes : lanes[k] \in LaneState
  BY DEF TypeOK
<1>2. \A queue : \A e \in queue : e.task # r => e \in Remove(queue, r, s.priority, s.sequence)
  BY EntryFields DEF Remove
<1>3. ASSUME NEW table, KeepsOthers(lanes, table, r)
      PROVE  KeepsOthers(lanes, Reclaim(table, key), r)
  <2>1. KeepsOthers(table, Reclaim(table, key), r)
    BY ReclaimStays
  <2> QED
    BY <1>3, <2>1 DEF KeepsOthers
<1>4. CASE s.queuedIn = "Io" /\ key \in DOMAIN lanes
  <2>1. DOMAIN io = DOMAIN lanes /\ \A k \in DOMAIN lanes : k # key => io[k] = lanes[k]
    OBVIOUS
  <2>2. io[key] = [lanes[key] EXCEPT !.queue = Remove(lanes[key].queue, r, s.priority, s.sequence)]
    BY <1>4
  <2>3. /\ io[key].queue = Remove(lanes[key].queue, r, s.priority, s.sequence)
        /\ io[key].mainQueue = lanes[key].mainQueue
    BY <1>1, <1>4, <2>2 DEF LaneState
  <2>4. Unqueued(r, s) = Reclaim(io, key)
    BY <1>4 DEF Unqueued
  <2> HIDE DEF io
  <2>5. KeepsOthers(lanes, io, r)
    BY <1>2, <2>1, <2>3 DEF KeepsOthers
  <2> QED
    BY <1>3, <2>4, <2>5
<1>5. CASE s.queuedIn = "MainIo" /\ key \in DOMAIN lanes
  <2>1. DOMAIN main = DOMAIN lanes /\ \A k \in DOMAIN lanes : k # key => main[k] = lanes[k]
    OBVIOUS
  <2>2. main[key] = [lanes[key] EXCEPT !.mainQueue =
                       Remove(lanes[key].mainQueue, r, s.priority, s.sequence)]
    BY <1>5
  <2>3. /\ main[key].mainQueue = Remove(lanes[key].mainQueue, r, s.priority, s.sequence)
        /\ main[key].queue = lanes[key].queue
    BY <1>1, <1>5, <2>2 DEF LaneState
  <2>4. Unqueued(r, s) = Reclaim(main, key)
    BY <1>5 DEF Unqueued
  <2> HIDE DEF main
  <2>5. KeepsOthers(lanes, main, r)
    BY <1>2, <2>1, <2>3 DEF KeepsOthers
  <2> QED
    BY <1>3, <2>4, <2>5
<1>6. CASE ~(s.queuedIn \in {"Io", "MainIo"} /\ key \in DOMAIN lanes)
  BY <1>6 DEF Unqueued, KeepsOthers
<1> QED
  BY <1>4, <1>5, <1>6

\* A canceled request is dropped from its lane, or waits to be met, its capacity given
\* back unless a worker has it.
LEMMA CancelStage ==
  ASSUME IndInv, StageInv, NEW r \in Request, Cancel(r) PROVE StageInv'
<1> USE DEF queueVars, lifecycleVars
<1> DEFINE s       == state[r]
           removed == QueuedInLane(r, s)
           marked  == [s EXCEPT !.canceled = TRUE]
           given   == CancelReleases(s) /\ (s.holdsPrefetchSlot \/ s.holdsMainInput)
           t       == IF given THEN Released(marked) ELSE marked
<1>1. /\ s \in RequestState /\ RequestOK(r) /\ outcome[r] = "pending" /\ job[r] # "delivering"
      /\ HoldsRightly(r) /\ r \in live
  BY DEF Cancel, IndInv, TypeOK, Holders, StageInv, RequestOK, Findable, Undecided
<1>2. ~Quiet
  BY <1>1, NotQuiet
<1>3. /\ UNCHANGED <<job, bytesHold, highQueue, backgroundQueue, nextSequence,
                     shutdown, joinPending, call, stage>>
      /\ live' = live \ {r}
      /\ \A q \in Request \ {r} : state'[q] = state[q] /\ outcome'[q] = outcome[q]
      /\ removed => state'[r] = Fresh /\ outcome'[r] = "withdrawn"
      /\ ~removed => state'[r] = t /\ outcome'[r] = "pending"
  BY <1>1 DEF Cancel, IndInv, TypeOK
<1>4. OnlyTouches(r)
  BY <1>3 DEF OnlyTouches
<1>5. OthersStay(r)
  <2>1. TypeOK /\ LanesTyped(Unqueued(r, s))
    BY UnqueuedKeeps DEF IndInv
  <2>2. KeepsOthers(lanes, Unqueued(r, s), r)
    BY <2>1, UnqueuedStays
  <2>3. KeepsOthers(Unqueued(r, s), ReleasedLanes(Unqueued(r, s), s), r)
    BY <2>1, ReleasedStays
  <2>4. lanes' = Unqueued(r, s) \/ lanes' = ReleasedLanes(Unqueued(r, s), s)
    BY DEF Cancel
  <2>5. KeepsOthers(lanes, lanes', r)
    BY <2>2, <2>3, <2>4 DEF KeepsOthers
  <2> QED
    BY <1>3, <2>5 DEF OthersStay
<1> HIDE DEF removed
<1>6. CASE removed
  <2>1. job[r] = "none"
    BY <1>6 DEF removed, QueuedInLane, Finds, Entry, IndInv, Queues, LaneQueuesAgree, Waits
  <2>2. RequestOK(r)' /\ KeepsSequence(r)
    BY <1>3, <1>6, <2>1, FreshOK DEF Settled, KeepsSequence
  <2> QED
    BY <1>2, <1>3, <1>4, <1>5, <2>2, RequestStep
<1>7. CASE ~removed
  <2>1. /\ t.canceled = TRUE /\ t.decoding = s.decoding /\ t.sequence = s.sequence
        /\ t.priority = s.priority /\ t.laneKey = s.laneKey /\ t.queuedIn = s.queuedIn
        /\ t.slowReadFailed = s.slowReadFailed
    BY <1>1 DEF Released, RequestState
  <2>2. ~s.decoding => ~t.holdsPrefetchSlot /\ ~t.holdsMainInput
    BY <1>1 DEF Released, RequestState, CancelReleases, HoldsRightly
  <2> HIDE DEF t
  <2>3. /\ state'[r].canceled /\ state'[r].decoding = s.decoding
        /\ state'[r].sequence = s.sequence /\ state'[r].priority = s.priority
        /\ state'[r].laneKey = s.laneKey /\ state'[r].queuedIn = s.queuedIn
        /\ state'[r].slowReadFailed = s.slowReadFailed
        /\ outcome'[r] = "pending"
        /\ ~s.decoding => ~state'[r].holdsPrefetchSlot /\ ~state'[r].holdsMainInput
    BY <1>3, <1>7, <2>1, <2>2
  <2>4. job[r] = "none" => s.queuedIn \notin {"Io", "MainIo"}
    BY <1>1, <1>7 DEF removed, QueuedInLane, Finds, RequestOK, Placed, EntryOf
  <2>5. Placed(r)'
    <3>1. EntryOf(r)' = EntryOf(r)
      BY <2>3 DEF EntryOf
    <3> QED
      BY <1>1, <1>3, <2>3, <2>4, <3>1 DEF RequestOK, Placed
  <2>6. Handled(r)' /\ Findable(r)'
    BY <1>1, <1>3, <2>3 DEF RequestOK, Handled, Findable, Undecided, Settled
  <2>7. CanceledFree(r)'
    BY <1>1, <1>3, <2>3, <2>4 DEF RequestOK, Handled, CanceledFree
  <2>8. HasBytes(r)' /\ InOwnLane(r)' /\ KeepsSequence(r)
    BY <1>1, <1>3, <2>3 DEF RequestOK, HasBytes, InOwnLane, KeepsSequence
  <2> QED
    BY <1>2, <1>3, <1>4, <1>5, <2>5, <2>6, <2>7, <2>8, RequestStep DEF RequestOK
<1> QED
  BY <1>6, <1>7

\* Every step of a client keeps the invariant.
LEMMA ClientStage ==
  ASSUME IndInv, StageInv, NEW r \in Request, Client(r) PROVE StageInv'
<1>1. ASSUME NEW priority \in Priorities, EnqueueLocalMain(r, priority) PROVE StageInv'
  BY <1>1, EnqueueLocalMainStage
<1>2. ASSUME NEW priority \in Priorities, NEW answer \in Answers[r],
             EnqueueSlowMain(r, priority, answer)
      PROVE  StageInv'
  BY <1>2, EnqueueSlowMainStage
<1>3. ASSUME NEW priority \in Priorities, NEW answer \in Answers[r],
             EnqueueThumbnail(r, priority, answer)
      PROVE  StageInv'
  BY <1>3, EnqueueThumbnailStage
<1>4. CASE EnqueueRejected(r)
  BY <1>4, EnqueueRejectedStage
<1>5. ASSUME NEW priority \in Priorities, SetPriority(r, priority) PROVE StageInv'
  BY <1>5, SetPriorityStage
<1>6. CASE Cancel(r)
  BY <1>6, CancelStage
<1> QED
  BY <1>1, <1>2, <1>3, <1>4, <1>5, <1>6 DEF Client

-----------------------------------------------------------------------------
(***************************************************************************)
(* Shutdown and SetThreadCount.                                            *)
(***************************************************************************)

\* A stop marks requests canceled, all that could still be found among them; the rest
\* of what they are stays.
LEMMA MarksStage ==
  ASSUME IndInv, StageInv, NEW marked,
         state' = [r \in Request |->
                     IF r \in marked THEN [state[r] EXCEPT !.canceled = TRUE] ELSE state[r]],
         shutdown', Control', ~Quiet',
         ~shutdown => live \subseteq marked,
         UNCHANGED <<live, job, bytesHold, outcome, lanes, highQueue, backgroundQueue,
                     nextSequence>>
  PROVE  StageInv'
<1>1. ASSUME NEW r \in Request
      PROVE  /\ state[r].canceled \/ r \in marked => state'[r].canceled
             /\ state'[r].canceled => state[r].canceled \/ r \in marked
             /\ state'[r].priority = state[r].priority
             /\ state'[r].sequence = state[r].sequence
             /\ state'[r].queuedIn = state[r].queuedIn
             /\ state'[r].laneKey = state[r].laneKey
             /\ state'[r].decoding = state[r].decoding
             /\ state'[r].prefetched = state[r].prefetched
             /\ state'[r].slowReadFailed = state[r].slowReadFailed
  <2>1. state[r] \in RequestState
    BY DEF IndInv, TypeOK
  <2>2. state'[r] = IF r \in marked THEN [state[r] EXCEPT !.canceled = TRUE] ELSE state[r]
    OBVIOUS
  <2> QED
    BY <2>1, <2>2 DEF RequestState
<1>2. ASSUME NEW r \in Request PROVE RequestOK(r)'
  <2>1. RequestOK(r)
    BY DEF StageInv
  <2>2. EntryOf(r)' = EntryOf(r)
    BY <1>1 DEF EntryOf
  <2>3. Placed(r)'
    BY <1>1, <2>1, <2>2 DEF RequestOK, Placed
  <2>4. Handled(r)' /\ Findable(r)' /\ CanceledFree(r)'
    BY <1>1, <2>1 DEF RequestOK, Handled, Findable, Undecided, CanceledFree
  <2>5. HasBytes(r)' /\ InOwnLane(r)'
    BY <1>1, <2>1 DEF RequestOK, HasBytes, InOwnLane
  <2> QED
    BY <2>3, <2>4, <2>5 DEF RequestOK
<1>3. SequencesUnique'
  BY <1>1, SequencesFrame DEF StageInv, KeepsSequence
<1> QED
  BY <1>2, <1>3 DEF StageInv, AllQuiet

\* Steps of the lifecycle that change no request keep each right if no request can be
\* told accepted from refused by them.
LEMMA ControlStage ==
  ASSUME StageInv, UNCHANGED <<state, live, job, bytesHold, outcome, lanes, highQueue,
                               backgroundQueue, nextSequence, shutdown>>,
         Control', AllQuiet'
  PROVE  StageInv'
<1>1. ASSUME NEW r \in Request PROVE RequestOK(r)'
  BY DEF StageInv, RequestOK, Placed, EntryOf, Handled, Findable, Undecided, CanceledFree,
         HasBytes, InOwnLane
<1>2. SequencesUnique'
  BY SequencesFrame DEF StageInv, KeepsSequence
<1> QED
  BY <1>1, <1>2 DEF StageInv

\* The stop begins,
LEMMA BeginStopStage ==
  ASSUME IndInv, StageInv, NEW name \in Calls, BeginStop(name) PROVE StageInv'
<1> USE DEF laneVars, queueVars
<1>1. /\ shutdown' = TRUE /\ stage' = "scan" /\ call' = name /\ call' # "none"
      /\ joinPending' = joinPending
  BY DEF BeginStop, BeginCall, Calls
<1>2. Control' /\ ~Quiet'
  BY <1>1 DEF Control, Quiet
<1> QED
  BY <1>1, <1>2, MarksStage DEF BeginStop

\* or is skipped,
LEMMA SkipStopStage ==
  ASSUME IndInv, StageInv, SkipStop PROVE StageInv'
<1> USE DEF requestVars, laneVars, queueVars
<1>1. /\ call = "none" /\ call' = "SetThreadCount" /\ stage' = "reopen"
      /\ shutdown /\ ~joinPending
      /\ UNCHANGED <<state, live, job, bytesHold, outcome, lanes, highQueue,
                     backgroundQueue, nextSequence, shutdown, joinPending>>
  BY DEF SkipStop, BeginCall, Stopped
<1>2. Control' /\ Quiet
  BY <1>1 DEF StageInv, Control, Quiet
<1>3. AllQuiet'
  BY <1>1, <1>2 DEF StageInv, AllQuiet
<1> QED
  BY <1>1, <1>2, <1>3, ControlStage

\* cancels the reads registered,
LEMMA ScanLeasesStage ==
  ASSUME IndInv, StageInv, NEW registered, ScanLeases(registered) PROVE StageInv'
<1> USE DEF laneVars, queueVars
<1>1. /\ stage = "scan" /\ stage' = "join"
      /\ UNCHANGED <<shutdown, joinPending, call>>
  BY DEF ScanLeases
<1>2. shutdown' /\ shutdown /\ Control' /\ ~Quiet'
  BY <1>1 DEF StageInv, Control, Quiet
<1> QED
  BY <1>1, <1>2, MarksStage DEF ScanLeases

\* gives up waiting,
LEMMA BoundExpiresStage ==
  ASSUME IndInv, StageInv, BoundExpires PROVE StageInv'
<1> USE DEF requestVars, laneVars, queueVars
<1>1. /\ stage = "join" /\ stage' = "idle" /\ call' = "none" /\ joinPending' = TRUE
      /\ UNCHANGED <<state, live, job, bytesHold, outcome, lanes, highQueue,
                     backgroundQueue, nextSequence, shutdown>>
  BY DEF BoundExpires
<1>2. Control' /\ AllQuiet'
  BY <1>1 DEF StageInv, Control, AllQuiet, Quiet
<1> QED
  BY <1>1, <1>2, ControlStage

\* or ends with every thread joined and every request dropped;
LEMMA JoinAllStage ==
  ASSUME IndInv, StageInv, JoinAll PROVE StageInv'
<1>1. /\ stage = "join" /\ joinPending' = FALSE /\ shutdown' = shutdown
      /\ stage' = IF call = "SetThreadCount" THEN "reopen" ELSE "idle"
      /\ call' = IF call = "SetThreadCount" THEN call ELSE "none"
      /\ \A r \in Request : job'[r] = "none" /\ state'[r] = Fresh
      /\ \A r \in Request : outcome'[r] = IF outcome[r] = "pending" THEN "dropped" ELSE outcome[r]
      /\ live' = {}
  BY DEF JoinAll, AllExited
<1>2. ASSUME NEW r \in Request PROVE RequestOK(r)' /\ outcome'[r] # "pending"
  BY <1>1 DEF RequestOK, Placed, Handled, Findable, Undecided, CanceledFree, HasBytes,
              InOwnLane, Reading, Settled, Fresh
<1>3. SequencesUnique'
  BY <1>2 DEF SequencesUnique, Pending
<1>4. Control'
  BY <1>1 DEF StageInv, Control
<1>5. AllQuiet'
  BY <1>1, <1>2 DEF AllQuiet
<1> QED
  BY <1>2, <1>3, <1>4, <1>5 DEF StageInv

\* the scheduler reopens with nothing left,
LEMMA ReopenStage ==
  ASSUME IndInv, StageInv, NEW count, Reopen(count) PROVE StageInv'
<1> USE DEF requestVars, laneVars, queueVars
<1>1. /\ stage = "reopen" /\ stage' = "retune" /\ shutdown' = FALSE
      /\ UNCHANGED <<state, live, job, bytesHold, outcome, lanes, highQueue,
                     backgroundQueue, nextSequence, joinPending, call>>
  BY DEF Reopen
<1>2. Quiet
  BY <1>1 DEF StageInv, Control, Quiet
<1>3. ASSUME NEW r \in Request PROVE RequestOK(r)'
  <2>1. /\ job[r] = "none" /\ outcome[r] # "pending" /\ state[r] = Fresh /\ r \notin live
        /\ RequestOK(r)
    BY <1>2 DEF StageInv, AllQuiet
  <2> QED
    BY <1>1, <2>1 DEF RequestOK, Placed, Handled, Findable, Undecided, CanceledFree,
                      HasBytes, InOwnLane, Reading, Fresh
<1>4. SequencesUnique'
  BY <1>1, SequencesFrame DEF StageInv, KeepsSequence
<1>5. Control' /\ AllQuiet'
  BY <1>1, <1>2 DEF StageInv, Control, AllQuiet, Quiet
<1> QED
  BY <1>3, <1>4, <1>5 DEF StageInv

\* and the call ends.
LEMMA RetuneStage ==
  ASSUME IndInv, StageInv, Retune PROVE StageInv'
<1> USE DEF requestVars, laneVars, queueVars
<1>1. /\ stage = "retune" /\ stage' = "idle" /\ call' = "none"
      /\ UNCHANGED <<state, live, job, bytesHold, outcome, lanes, highQueue,
                     backgroundQueue, nextSequence, shutdown, joinPending>>
  BY DEF Retune
<1>2. ~shutdown
  BY <1>1 DEF StageInv, Control
<1>3. Control' /\ AllQuiet'
  BY <1>1, <1>2 DEF StageInv, Control, AllQuiet, Quiet
<1> QED
  BY <1>1, <1>3, ControlStage

\* Every step of a lifecycle call keeps the invariant.
LEMMA LifecycleStage ==
  ASSUME IndInv, StageInv, Lifecycle PROVE StageInv'
BY BeginStopStage, SkipStopStage, ScanLeasesStage, BoundExpiresStage, JoinAllStage,
   ReopenStage, RetuneStage
   DEF Lifecycle

-----------------------------------------------------------------------------
(***************************************************************************)
(* The invariant holds.                                                    *)
(***************************************************************************)

\* It holds initially,
LEMMA InitStage == Init => StageInv
<1> SUFFICES ASSUME Init PROVE StageInv
  OBVIOUS
<1>1. ASSUME NEW r \in Request PROVE RequestOK(r)
  BY DEF Init, RequestOK, Placed, Handled, Findable, Undecided, CanceledFree, HasBytes,
         InOwnLane, Reading, Settled, Fresh
<1>2. SequencesUnique
  BY DEF Init, SequencesUnique, Pending
<1>3. Control /\ AllQuiet
  BY DEF Init, Control, AllQuiet, Quiet
<1> QED
  BY <1>1, <1>2, <1>3 DEF StageInv

\* when nothing changes,
LEMMA StutterStage == ASSUME StageInv, UNCHANGED vars PROVE StageInv'
<1> USE DEF vars, requestVars, laneVars, queueVars, lifecycleVars
<1>1. Control' /\ AllQuiet'
  BY DEF StageInv, Control, AllQuiet, Quiet
<1> QED
  BY <1>1, ControlStage

\* and after every step.
LEMMA NextStage == ASSUME IndInv, StageInv, [Next]_vars PROVE StageInv'
<1>1. ASSUME NEW r \in Request, Client(r) PROVE StageInv'
  BY <1>1, ClientStage
<1>2. CASE Reader
  BY <1>2, ReaderStage
<1>3. ASSUME NEW kind \in WorkerKind, WorkerTake(kind) PROVE StageInv'
  BY <1>3, WorkerTakeStage
<1>4. ASSUME NEW r \in Request, WorkerStep(r) PROVE StageInv'
  BY <1>4, WorkerBeginStage, WorkerFinishStage, WorkerDeliverStage, WorkerReleaseStage
     DEF WorkerStep
<1>5. CASE Lifecycle
  BY <1>5, LifecycleStage
<1>6. CASE UNCHANGED vars
  BY <1>6, StutterStage
<1> QED
  BY <1>1, <1>2, <1>3, <1>4, <1>5, <1>6 DEF Next

\* Through every stage, cancel, stop and restart each request is in the place its state
\* names, found by the live table while it is undecided, free of what it held once it is
\* canceled, and a complete stop leaves none behind.
THEOREM StageInvariant == Spec => []StageInv
<1>1. Init => IndInv /\ StageInv
  BY InitInv, InitStage
<1>2. IndInv /\ StageInv /\ [Next]_vars => (IndInv /\ StageInv)'
  BY NextInv, NextStage
<1> QED
  BY <1>1, <1>2, PTL DEF Spec

-----------------------------------------------------------------------------
(***************************************************************************)
(* What it means for clients and hosts.                                    *)
(***************************************************************************)

\* When Shutdown has returned without threads left behind, no thread holds a request and
\* none is pending, and so it stays until the scheduler reopens.
THEOREM StopIsComplete == Spec => []StoppedIsQuiet
<1>1. StageInv => StoppedIsQuiet
  BY DEF StageInv, AllQuiet, Quiet, StoppedIsQuiet
<1> QED
  BY <1>1, StageInvariant, PTL

\* A decode worker has the bytes of every Archive or Remote request it decodes: it never
\* opens a slow source itself, whatever failed, was canceled or stopped before.
THEOREM DecodesFromBytes == Spec => []SlowDecodesHaveBytes
<1>1. StageInv => SlowDecodesHaveBytes
  BY DEF StageInv, RequestOK, HasBytes, SlowDecodesHaveBytes
<1> QED
  BY <1>1, StageInvariant, PTL

\* The live table is exact: Cancel and SetPriority find every tracked request that is
\* wanted and undecided, and no other.
THEOREM LiveTableExact == Spec => []LiveExact
<1>1. IndInv /\ StageInv => LiveExact
  <2>1. SUFFICES ASSUME IndInv, StageInv PROVE LiveExact
    OBVIOUS
  <2>2. \A r \in Request : Findable(r)
    BY <2>1 DEF StageInv, RequestOK
  <2>3. Tracked \subseteq Request
    BY SchedulerConstants
  <2>4. live \subseteq Request
    BY <2>1 DEF IndInv, TypeOK
  <2> QED
    BY <2>2, <2>3, <2>4 DEF Findable, Undecided, LiveExact
<1> QED
  BY <1>1, Invariant, StageInvariant, PTL

\* While the scheduler runs, a canceled request no thread holds has given back its slot or
\* input and its bytes, and waits in no lane: canceled work holds back nobody.
THEOREM CanceledGiveBack == Spec => []CanceledHoldNothing
<1>1. IndInv /\ StageInv => CanceledHoldNothing
  <2>1. SUFFICES ASSUME IndInv, StageInv, NEW r \in Request,
                        state[r].canceled, job[r] = "none", ~shutdown
                 PROVE  /\ ~state[r].holdsPrefetchSlot /\ ~state[r].holdsMainInput
                        /\ ~state[r].prefetched /\ ~bytesHold[r]
                        /\ InLane(r) \cup InMainLane(r) = {}
    BY DEF CanceledHoldNothing
  <2>2. /\ ~state[r].holdsPrefetchSlot /\ ~state[r].holdsMainInput
        /\ state[r].queuedIn \notin {"Io", "MainIo"}
    BY <2>1 DEF StageInv, RequestOK, CanceledFree
  <2>3. ~state[r].prefetched /\ ~bytesHold[r]
    BY <2>1, <2>2 DEF IndInv, Holders, HoldsRightly
  <2>4. InLane(r) = {} /\ InMainLane(r) = {}
    BY <2>1, <2>2 DEF IndInv, Queues, LaneQueuesAgree, Waits, InLane, InMainLane
  <2> QED
    BY <2>2, <2>3, <2>4
<1> QED
  BY <1>1, Invariant, StageInvariant, PTL

\* How many places of each kind a request has.
LEMMA CountPlaces ==
  ASSUME IndInv, StageInv, NEW r \in Request
  PROVE  Cardinality(InLane(r)) + Cardinality(InMainLane(r)) + Cardinality(InHigh(r))
           + Cardinality(InBackground(r))
           = IF outcome[r] = "pending" /\ job[r] = "none" THEN 1 ELSE 0
<1>0. Cardinality({}) = 0 /\ \A x : Cardinality({x}) = 1
  BY FS_EmptySet, FS_Singleton
<1>1. CASE job[r] # "none" \/ outcome[r] # "pending"
  <2>1. InLane(r) = {} /\ InMainLane(r) = {} /\ InHigh(r) = {} /\ InBackground(r) = {}
    BY <1>1, BusyInNoQueue DEF IndInv, InLane, InMainLane, InHigh, InBackground
  <2> QED
    BY <1>0, <1>1, <2>1
<1>2. CASE job[r] = "none" /\ outcome[r] = "pending"
  <2> DEFINE s == state[r]
  <2>1. s.queuedIn \in Stage /\ Placed(r) /\ EntryOf(r).task = r
    BY DEF IndInv, TypeOK, RequestState, StageInv, RequestOK, EntryOf, Entry
  <2>2. /\ s.queuedIn # "Io" => InLane(r) = {}
        /\ s.queuedIn # "MainIo" => InMainLane(r) = {}
    BY DEF IndInv, Queues, LaneQueuesAgree, Waits, InLane, InMainLane
  <2>3. s.queuedIn # "Decode" => InBackground(r) = {}
    BY DEF IndInv, Queues, BackgroundAgrees, Waits, InBackground
  <2>4. s.queuedIn # "None" => InHigh(r) = {}
    BY DEF IndInv, Queues, HighAgrees, InHigh
  <2>5. CASE s.queuedIn = "Io"
    <3>1. InLane(r) = {s.laneKey}
      BY <1>2, <2>1, <2>5 DEF Placed, IndInv, Queues, LaneQueuesAgree, InLane
    <3>2. Cardinality(InLane(r)) = 1
      BY <1>0, <3>1
    <3> HIDE DEF s
    <3> QED
      BY <1>0, <1>2, <2>2, <2>3, <2>4, <2>5, <3>2
  <2>6. CASE s.queuedIn = "MainIo"
    <3>1. InMainLane(r) = {s.laneKey}
      BY <1>2, <2>1, <2>6 DEF Placed, IndInv, Queues, LaneQueuesAgree, InMainLane
    <3>2. Cardinality(InMainLane(r)) = 1
      BY <1>0, <3>1
    <3> HIDE DEF s
    <3> QED
      BY <1>0, <1>2, <2>2, <2>3, <2>4, <2>6, <3>2
  <2>7. CASE s.queuedIn = "Decode"
    <3>1. EntryOf(r) \in backgroundQueue
      BY <1>2, <2>1, <2>7 DEF Placed
    <3>2. \A e \in backgroundQueue : e.task = r => e = EntryOf(r)
      <4> SUFFICES ASSUME NEW e \in backgroundQueue, e.task = r PROVE e = EntryOf(r)
        OBVIOUS
      <4>1. e.sequence = state[r].sequence
        BY DEF IndInv, Queues, BackgroundAgrees, Waits
      <4> QED
        BY <1>2, <4>1, EntriesBySequence DEF Pending
    <3>3. InBackground(r) = {EntryOf(r)}
      BY <2>1, <3>1, <3>2 DEF InBackground
    <3> HIDE DEF s
    <3> QED
      BY <1>0, <1>2, <2>2, <2>3, <2>4, <2>7, <3>3
  <2>8. CASE s.queuedIn = "None"
    <3>1. PICK i \in DOMAIN highQueue : highQueue[i] = r
      BY <1>2, <2>1, <2>8 DEF Placed
    <3>2. InHigh(r) = {i}
      BY <3>1 DEF IndInv, Queues, HighAgrees, InHigh
    <3> HIDE DEF s
    <3> QED
      BY <1>0, <1>2, <2>2, <2>3, <2>4, <2>8, <3>2
  <2> QED
    BY <2>1, <2>5, <2>6, <2>7, <2>8 DEF Stage
<1> QED
  BY <1>1, <1>2

\* No request is lost between the stages and none is worked on twice: a pending one is in
\* exactly one queue or one thread's hands, and a settled one nowhere but with the worker
\* that still has to release its bytes.
THEOREM OnePlace == Spec => []InOnePlace
<1>1. IndInv /\ StageInv => InOnePlace
  <2>1. SUFFICES ASSUME IndInv, StageInv, NEW r \in Request
                 PROVE  /\ outcome[r] = "pending" => Places(r) = 1
                        /\ outcome[r] \in {"new", "rejected"} => Places(r) = 0
                        /\ outcome[r] \in Settled =>
                             Places(r) = (IF job[r] = "releasing" THEN 1 ELSE 0)
    BY DEF InOnePlace
  <2>2. Handled(r)
    BY <2>1 DEF StageInv, RequestOK
  <2>3. Places(r) = (IF outcome[r] = "pending" /\ job[r] = "none" THEN 1 ELSE 0)
                      + (IF job[r] = "none" THEN 0 ELSE 1)
    BY <2>1, CountPlaces DEF Places
  <2> QED
    BY <2>2, <2>3 DEF Handled, Settled
<1> QED
  BY <1>1, Invariant, StageInvariant, PTL

-----------------------------------------------------------------------------
(***************************************************************************)
(* The scheduler implements module RequestLifecycle, if every request has  *)
(* a handle: one without is in no live table, so a stop cannot cancel it,  *)
(* and a worker that has it may still select it for delivery.              *)
(***************************************************************************)

\* The abstract state: what the client of r can tell,
StatusOf(r) == IF job[r] = "delivering" THEN "due" ELSE outcome[r]

StatusMap == [r \in Request |-> StatusOf(r)]

\* and the requests canceled.
CanceledOnes == {r \in Request : /\ outcome[r] = "pending" /\ job[r] # "delivering"
                                 /\ state[r].canceled}

\* A step of r alone moves no other request, and cancels no other.
LEMMA OthersUnmoved ==
  ASSUME NEW r \in Request, OnlyTouches(r)
  PROVE  /\ StatusMap' = [StatusMap EXCEPT ![r] = StatusOf(r)']
         /\ \A q \in Request \ {r} : q \in CanceledOnes' <=> q \in CanceledOnes
         /\ StatusMap[r] = StatusOf(r)
<1>1. \A q \in Request \ {r} : StatusOf(q)' = StatusOf(q)
  BY DEF OnlyTouches, StatusOf
<1>2. \A q \in Request \ {r} : q \in CanceledOnes' <=> q \in CanceledOnes
  BY DEF OnlyTouches, CanceledOnes
<1> QED
  BY <1>1, <1>2 DEF StatusMap

\* What r's part of the abstract step may be.
Advances(r) ==
  \/ ~shutdown /\ StatusOf(r) = "new" /\ StatusOf(r)' = "pending" /\ r \notin CanceledOnes'
  \/ shutdown /\ StatusOf(r) = "new" /\ StatusOf(r)' = "rejected" /\ r \notin CanceledOnes'
  \/ StatusOf(r) = "pending" /\ StatusOf(r)' = "pending" /\ r \in CanceledOnes'
  \/ StatusOf(r) = "pending" /\ StatusOf(r)' = "withdrawn"
  \/ /\ ~shutdown /\ r \notin CanceledOnes
     /\ StatusOf(r) = "pending" /\ StatusOf(r)' = "due"
  \/ StatusOf(r) = "due" /\ StatusOf(r)' = "delivered"
  \/ /\ r \in CanceledOnes \/ shutdown
     /\ StatusOf(r) = "pending" /\ StatusOf(r)' = "dropped"
  \/ StatusOf(r)' = StatusOf(r) /\ (r \in CanceledOnes' <=> r \in CanceledOnes)

\* A step of r alone is then a step of the abstract specification, or a stutter.
LEMMA AdvanceRefines ==
  ASSUME NEW r \in Request, OnlyTouches(r), shutdown' = shutdown, Advances(r)
  PROVE  [Promise!Next]_(Promise!lifecycle)
<1>1. /\ StatusMap' = [StatusMap EXCEPT ![r] = StatusOf(r)']
      /\ \A q \in Request \ {r} : q \in CanceledOnes' <=> q \in CanceledOnes
      /\ StatusMap[r] = StatusOf(r)
  BY OthersUnmoved
<1>2. /\ CanceledOnes \subseteq Request /\ CanceledOnes' \subseteq Request
      /\ r \in CanceledOnes => StatusOf(r) = "pending"
      /\ r \in CanceledOnes' => StatusOf(r)' = "pending"
  BY DEF CanceledOnes, StatusOf
<1>3. /\ r \notin CanceledOnes /\ r \notin CanceledOnes' => CanceledOnes' = CanceledOnes
      /\ r \in CanceledOnes' => CanceledOnes' = CanceledOnes \cup {r}
      /\ r \notin CanceledOnes' => CanceledOnes' = CanceledOnes \ {r}
  BY <1>1, <1>2
<1> USE DEF Promise!Move
<1>4. CASE ~shutdown /\ StatusOf(r) = "new" /\ StatusOf(r)' = "pending" /\ r \notin CanceledOnes'
  <2>1. Promise!Accept(r)
    BY <1>1, <1>2, <1>3, <1>4 DEF Promise!Accept, StatusMap, CanceledOnes, StatusOf
  <2> QED
    BY <2>1 DEF Promise!Next
<1>5. CASE shutdown /\ StatusOf(r) = "new" /\ StatusOf(r)' = "rejected" /\ r \notin CanceledOnes'
  <2>1. Promise!Reject(r)
    BY <1>1, <1>2, <1>3, <1>5 DEF Promise!Reject, StatusMap, CanceledOnes, StatusOf
  <2> QED
    BY <2>1 DEF Promise!Next
<1>6. CASE StatusOf(r) = "pending" /\ StatusOf(r)' = "pending" /\ r \in CanceledOnes'
  <2>1. Promise!Cancel(r)
    BY <1>1, <1>3, <1>6 DEF Promise!Cancel, StatusMap, CanceledOnes, StatusOf
  <2> QED
    BY <2>1 DEF Promise!Next
<1>7. CASE StatusOf(r) = "pending" /\ StatusOf(r)' = "withdrawn"
  <2>1. Promise!CancelQueued(r)
    BY <1>1, <1>2, <1>3, <1>7 DEF Promise!CancelQueued, StatusMap, CanceledOnes, StatusOf
  <2> QED
    BY <2>1 DEF Promise!Next
<1>8. CASE /\ ~shutdown /\ r \notin CanceledOnes
           /\ StatusOf(r) = "pending" /\ StatusOf(r)' = "due"
  <2>1. Promise!Select(r)
    BY <1>1, <1>2, <1>3, <1>8 DEF Promise!Select, StatusMap, CanceledOnes, StatusOf
  <2> QED
    BY <2>1 DEF Promise!Next
<1>9. CASE StatusOf(r) = "due" /\ StatusOf(r)' = "delivered"
  <2>1. Promise!Deliver(r)
    BY <1>1, <1>2, <1>3, <1>9 DEF Promise!Deliver, StatusMap, CanceledOnes, StatusOf
  <2> QED
    BY <2>1 DEF Promise!Next
<1>10. CASE /\ r \in CanceledOnes \/ shutdown
            /\ StatusOf(r) = "pending" /\ StatusOf(r)' = "dropped"
  <2>1. Promise!Drop(r)
    BY <1>1, <1>2, <1>3, <1>10 DEF Promise!Drop, StatusMap, CanceledOnes, StatusOf
  <2> QED
    BY <2>1 DEF Promise!Next
<1>11. CASE StatusOf(r)' = StatusOf(r) /\ (r \in CanceledOnes' <=> r \in CanceledOnes)
  <2>1. CanceledOnes' = CanceledOnes
    BY <1>1, <1>2, <1>11
  <2>2. StatusMap' = StatusMap
    BY <1>1, <1>11 DEF StatusMap
  <2> QED
    BY <2>1, <2>2 DEF Promise!lifecycle, StatusMap, CanceledOnes, StatusOf
<1> QED
  BY <1>4, <1>5, <1>6, <1>7, <1>8, <1>9, <1>10, <1>11 DEF Advances

\* What clients do,
LEMMA ClientRefines ==
  ASSUME IndInv, StageInv, NEW r \in Request, Client(r)
  PROVE  [Promise!Next]_(Promise!lifecycle)
<1> USE DEF lifecycleVars, queueVars
<1>1. /\ state \in [Request -> RequestState] /\ outcome \in [Request -> Outcome]
      /\ state[r] \in RequestState /\ RequestOK(r)
  BY DEF IndInv, TypeOK, StageInv
<1>2. ASSUME NEW priority, NEW key, NEW queuedIn, Accept(r, priority, key, queuedIn)
      PROVE  [Promise!Next]_(Promise!lifecycle)
  <2>1. /\ ~shutdown /\ shutdown' = shutdown /\ job' = job /\ bytesHold' = bytesHold
        /\ outcome[r] = "new" /\ outcome'[r] = "pending" /\ job[r] = "none"
        /\ live' = live \cup ({r} \cap Tracked)
        /\ \A q \in Request \ {r} : state'[q] = state[q] /\ outcome'[q] = outcome[q]
    BY <1>1, <1>2 DEF Accept, RequestOK, Handled
  <2>2. state'[r] = [Fresh EXCEPT !.priority = priority, !.sequence = nextSequence',
                                  !.laneKey = key, !.queuedIn = queuedIn]
    BY <1>1, <1>2 DEF Accept
  <2>3. ~state'[r].canceled
    BY <2>2 DEF Fresh
  <2>4. OnlyTouches(r) /\ Advances(r)
    BY <2>1, <2>3 DEF OnlyTouches, Advances, StatusOf, CanceledOnes
  <2> QED
    BY <2>1, <2>4, AdvanceRefines
<1>3. CASE EnqueueRejected(r)
  <2>1. /\ shutdown /\ shutdown' = shutdown /\ UNCHANGED <<state, live, job, bytesHold>>
        /\ outcome[r] = "new" /\ outcome'[r] = "rejected" /\ job[r] = "none"
        /\ \A q \in Request \ {r} : outcome'[q] = outcome[q]
    BY <1>1, <1>3 DEF EnqueueRejected, RequestOK, Handled
  <2>2. OnlyTouches(r) /\ Advances(r)
    BY <2>1 DEF OnlyTouches, Advances, StatusOf, CanceledOnes
  <2> QED
    BY <2>1, <2>2, AdvanceRefines
<1>4. ASSUME NEW priority, SetPriority(r, priority)
      PROVE  [Promise!Next]_(Promise!lifecycle)
  <2>1. /\ UNCHANGED <<live, job, bytesHold, outcome, shutdown>>
        /\ state'[r] = [state[r] EXCEPT !.priority = priority]
        /\ \A q \in Request \ {r} : state'[q] = state[q]
    BY <1>1, <1>4 DEF SetPriority
  <2>2. state'[r].canceled = state[r].canceled
    BY <1>1, <2>1 DEF RequestState
  <2>3. OnlyTouches(r) /\ Advances(r)
    BY <2>1, <2>2 DEF OnlyTouches, Advances, StatusOf, CanceledOnes
  <2> QED
    BY <2>1, <2>3, AdvanceRefines
<1>5. CASE Cancel(r)
  <2> DEFINE marked == [state[r] EXCEPT !.canceled = TRUE]
  <2>1. /\ UNCHANGED <<job, bytesHold, shutdown>> /\ live' = live \ {r}
        /\ outcome[r] = "pending" /\ job[r] # "delivering"
        /\ \/ outcome'[r] = "withdrawn"
           \/ outcome'[r] = "pending" /\ state'[r] \in {marked, Released(marked)}
        /\ \A q \in Request \ {r} : state'[q] = state[q] /\ outcome'[q] = outcome[q]
    BY <1>1, <1>5 DEF Cancel, RequestOK, Findable, Undecided
  <2>2. marked.canceled /\ Released(marked).canceled
    BY <1>1 DEF Released, RequestState
  <2> HIDE DEF marked
  <2>3. OnlyTouches(r) /\ Advances(r)
    BY <2>1, <2>2 DEF OnlyTouches, Advances, StatusOf, CanceledOnes
  <2> QED
    BY <2>1, <2>3, AdvanceRefines
<1> QED
  BY <1>2, <1>3, <1>4, <1>5
     DEF Client, EnqueueLocalMain, EnqueueSlowMain, EnqueueThumbnail

\* readers,
LEMMA ReaderRefines ==
  ASSUME IndInv, StageInv, Reader
  PROVE  [Promise!Next]_(Promise!lifecycle)
<1>1. ASSUME NEW r \in Request, NEW queuedIn, NEW how \in Reading, TakenToRead(r, queuedIn, how)
      PROVE  [Promise!Next]_(Promise!lifecycle)
  <2>1. /\ OnlyTouches(r) /\ shutdown' = shutdown
        /\ job[r] = "none" /\ outcome[r] = "pending" /\ state[r] \in RequestState
    BY <1>1 DEF TakenToRead, IndInv, TypeOK
  <2>2. CASE /\ state[r].canceled
             /\ state'[r] = Fresh /\ job'[r] = "none" /\ outcome'[r] = "dropped"
    <3>1. Advances(r)
      BY <2>1, <2>2 DEF Advances, StatusOf, CanceledOnes
    <3> QED
      BY <2>1, <3>1, AdvanceRefines
  <2>3. CASE /\ ~state[r].canceled
             /\ state'[r] = [state[r] EXCEPT !.queuedIn = "None"]
             /\ job'[r] = how /\ UNCHANGED outcome
    <3>1. ~state'[r].canceled
      BY <2>1, <2>3 DEF RequestState
    <3>2. Advances(r)
      BY <2>1, <2>3, <3>1 DEF Advances, StatusOf, CanceledOnes, Reading
    <3> QED
      BY <2>1, <3>2, AdvanceRefines
  <2> QED
    BY <1>1, <2>2, <2>3 DEF TakenToRead
<1>2. ASSUME NEW r \in Request, ReadDone(r)
      PROVE  [Promise!Next]_(Promise!lifecycle)
  <2>1. /\ OnlyTouches(r) /\ shutdown' = shutdown
        /\ job[r] \in Reading /\ job'[r] = "none" /\ outcome[r] = "pending"
    BY <1>2 DEF ReadDone, Reading, IndInv, Holders, HoldsNothingYet
  <2>2. Advances(r)
    BY <1>2, <2>1 DEF ReadDone, Advances, StatusOf, CanceledOnes, Reading
  <2> QED
    BY <2>1, <2>2, AdvanceRefines
<1>3. ASSUME NEW kind \in LaneKind, LaneReaderTake(kind)
      PROVE  [Promise!Next]_(Promise!lifecycle)
  BY <1>1, <1>3, LaneReaderTakes DEF Reading
<1>4. CASE MainReaderTake
  BY <1>1, <1>4, MainReaderTakes DEF Reading
<1> QED
  BY <1>2, <1>3, <1>4, LaneReaderFinishes, MainReaderFinishes DEF Reader

\* workers,
LEMMA WorkerRefines ==
  ASSUME Tracked = Request, IndInv, StageInv,
         \/ \E kind \in WorkerKind : WorkerTake(kind)
         \/ \E r \in Request : WorkerStep(r)
  PROVE  [Promise!Next]_(Promise!lifecycle)
<1> USE DEF lifecycleVars
<1>1. ASSUME NEW kind \in WorkerKind, WorkerTake(kind)
      PROVE  [Promise!Next]_(Promise!lifecycle)
  <2>1. PICK r \in Request : /\ Take(r, kind) /\ OnlyTouches(r) /\ shutdown' = shutdown
                             /\ job[r] = "none" /\ outcome[r] = "pending"
    BY <1>1, WorkerTakes
  <2>2. /\ state \in [Request -> RequestState] /\ job \in [Request -> Job]
        /\ outcome \in [Request -> Outcome] /\ state[r] \in RequestState
    BY DEF IndInv, TypeOK
  <2>3. CASE state[r].canceled
    <3>1. outcome'[r] = "dropped" /\ job'[r] = "none"
      BY <2>1, <2>2, <2>3 DEF Take, RequestState
    <3>2. Advances(r)
      BY <2>1, <2>3, <3>1 DEF Advances, StatusOf, CanceledOnes
    <3> QED
      BY <2>1, <3>2, AdvanceRefines
  <2>4. CASE ~state[r].canceled
    <3>1. /\ state'[r] = [[state[r] EXCEPT !.queuedIn = "None"] EXCEPT !.decoding = TRUE]
          /\ job'[r] = "taken" /\ outcome'[r] = "pending"
      BY <2>1, <2>2, <2>4 DEF Take, RequestState
    <3>2. ~state'[r].canceled
      BY <2>2, <2>4, <3>1 DEF RequestState
    <3>3. Advances(r)
      BY <2>1, <2>4, <3>1, <3>2 DEF Advances, StatusOf, CanceledOnes
    <3> QED
      BY <2>1, <3>3, AdvanceRefines
  <2> QED
    BY <2>3, <2>4
<1>2. ASSUME NEW r \in Request, WorkerStep(r)
      PROVE  [Promise!Next]_(Promise!lifecycle)
  <2>1. OnlyTouches(r) /\ shutdown' = shutdown
    BY <1>2, WorkerTouches
  <2>2. /\ state \in [Request -> RequestState] /\ job \in [Request -> Job]
        /\ outcome \in [Request -> Outcome]
        /\ Handled(r) /\ Findable(r) /\ r \in Tracked
    BY DEF IndInv, TypeOK, StageInv, RequestOK
  <2>3. ASSUME WorkerBegin(r) PROVE Advances(r)
    <3>1. /\ job[r] = "taken" /\ job'[r] \in {"skipped", "failing", "decoding"}
          /\ UNCHANGED <<state, outcome>>
      BY <2>2, <2>3 DEF WorkerBegin, MoveWorker, BeginsAs
    <3> QED
      BY <3>1 DEF Advances, StatusOf, CanceledOnes
  <2>4. ASSUME WorkerFinish(r) PROVE Advances(r)
    <3>1. /\ job[r] \in {"skipped", "failing", "decoding"} /\ state' = state
          /\ Delivers(r) => job'[r] = "delivering" /\ outcome'[r] = outcome[r]
          /\ ~Delivers(r) => job'[r] = "releasing" /\ outcome'[r] = "dropped"
      BY <2>2, <2>4 DEF WorkerFinish, MoveWorker
    <3>2. outcome[r] = "pending"
      BY <2>2, <3>1 DEF Handled, Settled, Outcome
    <3>3. CASE Delivers(r)
      <4>1. ~state[r].canceled /\ ~shutdown
        BY <2>2, <3>1, <3>2, <3>3 DEF Delivers, Findable, Undecided
      <4> QED
        BY <3>1, <3>2, <3>3, <4>1 DEF Advances, StatusOf, CanceledOnes
    <3>4. CASE ~Delivers(r)
      <4>1. state[r].canceled \/ shutdown
        BY <2>2, <3>4 DEF Delivers, Handled
      <4> QED
        BY <3>1, <3>2, <3>4, <4>1 DEF Advances, StatusOf, CanceledOnes
    <3> QED
      BY <3>3, <3>4
  <2>5. ASSUME WorkerDeliver(r) PROVE Advances(r)
    <3>1. job[r] = "delivering" /\ job'[r] = "releasing" /\ outcome'[r] = "delivered"
      BY <2>2, <2>5 DEF WorkerDeliver, MoveWorker
    <3> QED
      BY <3>1 DEF Advances, StatusOf, CanceledOnes
  <2>6. ASSUME WorkerRelease(r) PROVE Advances(r)
    <3>1. job[r] = "releasing" /\ job'[r] = "none" /\ outcome' = outcome
      BY <2>2, <2>6 DEF WorkerRelease, MoveWorker
    <3> QED
      BY <2>2, <3>1 DEF Handled, Advances, StatusOf, CanceledOnes
  <2>7. WorkerBegin(r) \/ WorkerFinish(r) \/ WorkerDeliver(r) \/ WorkerRelease(r)
    BY <1>2 DEF WorkerStep
  <2>8. Advances(r)
    BY <2>3, <2>4, <2>5, <2>6, <2>7
  <2> QED
    BY <2>1, <2>8, AdvanceRefines
<1> QED
  BY <1>1, <1>2

\* and lifecycle calls: marking requests canceled closes the scheduler to them,
LEMMA CloseRefines ==
  ASSUME IndInv, StageInv, NEW marked, marked \subseteq Request, shutdown',
         \A r \in marked : StatusOf(r) = "pending",
         state' = [r \in Request |->
                     IF r \in marked THEN [state[r] EXCEPT !.canceled = TRUE] ELSE state[r]],
         UNCHANGED <<job, outcome>>
  PROVE  [Promise!Next]_(Promise!lifecycle)
<1>1. StatusMap' = StatusMap
  BY DEF StatusMap, StatusOf
<1>2. \A r \in Request : state'[r].canceled <=> state[r].canceled \/ r \in marked
  <2> SUFFICES ASSUME NEW r \in Request
               PROVE  state'[r].canceled <=> state[r].canceled \/ r \in marked
    OBVIOUS
  <2>1. state[r] \in RequestState
    BY DEF IndInv, TypeOK
  <2>2. state'[r] = IF r \in marked THEN [state[r] EXCEPT !.canceled = TRUE] ELSE state[r]
    OBVIOUS
  <2> QED
    BY <2>1, <2>2 DEF RequestState
<1>3. CanceledOnes' = CanceledOnes \cup marked
  BY <1>2 DEF CanceledOnes, StatusOf
<1>4. marked \subseteq {r \in Request : StatusMap[r] = "pending"}
  BY DEF StatusMap
<1>5. Promise!Close(marked)
  BY <1>1, <1>3, <1>4 DEF Promise!Close, StatusMap, CanceledOnes, StatusOf
<1> QED
  BY <1>5 DEF Promise!Next

\* A lifecycle call closes the promise, drops what is pending, or reopens it.
LEMMA LifecycleRefines ==
  ASSUME IndInv, StageInv, Lifecycle
  PROVE  [Promise!Next]_(Promise!lifecycle)
<1> USE DEF requestVars
<1>1. ASSUME UNCHANGED <<job, outcome, state, shutdown>>
      PROVE  [Promise!Next]_(Promise!lifecycle)
  BY <1>1 DEF Promise!lifecycle
<1>2. ASSUME NEW name \in Calls, BeginStop(name)
      PROVE  [Promise!Next]_(Promise!lifecycle)
  <2>1. live \subseteq Request /\ \A r \in live : StatusOf(r) = "pending"
    BY DEF IndInv, TypeOK, StageInv, RequestOK, Findable, Undecided, StatusOf
  <2> QED
    BY <1>2, <2>1, CloseRefines DEF BeginStop
<1>3. ASSUME NEW registered \in SUBSET Request, ScanLeases(registered)
      PROVE  [Promise!Next]_(Promise!lifecycle)
  <2>1. shutdown' /\ \A r \in registered : StatusOf(r) = "pending"
    BY <1>3 DEF ScanLeases, StatusOf, IndInv, Holders, HoldsNothingYet, Reading,
                StageInv, Control
  <2> QED
    BY <1>3, <2>1, CloseRefines DEF ScanLeases
<1>4. CASE JoinAll
  <2>1. /\ shutdown /\ shutdown' = shutdown /\ \A r \in Request : job[r] = "none" /\ job'[r] = "none"
        /\ outcome' = [r \in Request |->
                         IF outcome[r] = "pending" THEN "dropped" ELSE outcome[r]]
    BY <1>4 DEF JoinAll, AllExited, StageInv, Control
  <2>2. /\ \A r \in Request : StatusMap[r] = outcome[r] /\ outcome[r] \in Outcome
        /\ StatusMap' = [r \in Request |-> IF StatusMap[r] = "pending" THEN "dropped"
                                           ELSE StatusMap[r]]
        /\ CanceledOnes' = {}
    BY <2>1 DEF StatusMap, StatusOf, CanceledOnes, IndInv, TypeOK
  <2>3. Promise!DropAll
    BY <2>1, <2>2 DEF Promise!DropAll, StatusMap, CanceledOnes, StatusOf, Outcome
  <2> QED
    BY <2>3 DEF Promise!Next
<1>5. ASSUME NEW count \in ThreadCounts, Reopen(count)
      PROVE  [Promise!Next]_(Promise!lifecycle)
  <2>1. /\ Quiet /\ shutdown' = FALSE /\ UNCHANGED <<job, outcome, state>>
    BY <1>5 DEF Reopen, StageInv, Control, Quiet
  <2>2. \A r \in Request : StatusMap[r] \notin {"pending", "due"}
    BY <2>1 DEF StageInv, AllQuiet, StatusMap, StatusOf, IndInv, TypeOK, Outcome
  <2>3. Promise!Reopen
    BY <2>1, <2>2 DEF Promise!Reopen, Promise!Unsettled, StatusMap, CanceledOnes, StatusOf
  <2> QED
    BY <2>3 DEF Promise!Next
<1>6. CASE SkipStop \/ BoundExpires \/ Retune
  BY <1>1, <1>6 DEF SkipStop, BoundExpires, Retune
<1> QED
  BY <1>2, <1>3, <1>4, <1>5, <1>6 DEF Lifecycle

\* The initial states map to the abstract ones,
LEMMA InitRefines == Init => Promise!Init
BY DEF Init, Promise!Init, Fresh

\* and every step to an abstract step or a stutter.
LEMMA StepRefines ==
  ASSUME Tracked = Request, IndInv, StageInv, [Next]_vars
  PROVE  [Promise!Next]_(Promise!lifecycle)
<1>1. CASE UNCHANGED vars
  BY <1>1 DEF vars, requestVars, lifecycleVars, Promise!lifecycle
<1>2. CASE Next
  BY <1>2, ClientRefines, ReaderRefines, WorkerRefines, LifecycleRefines DEF Next
<1> QED
  BY <1>1, <1>2

\* When every request has a handle, the scheduler keeps its promise to clients: a request
\* accepted is delivered at most once, or withdrawn, or dropped for a cancel or a stop;
\* none is selected for delivery once it is canceled or a stop has begun; and nothing
\* accepted before a stop is heard of after the scheduler reopens.
LEMMA PromiseKept ==
  ASSUME Tracked = Request
  PROVE  Spec => KeepsPromise
<1>1. Init => Promise!Init
  BY InitRefines
<1>2. IndInv /\ StageInv /\ [Next]_vars => [Promise!Next]_(Promise!lifecycle)
  BY StepRefines
<1> QED
  BY <1>1, <1>2, Invariant, StageInvariant, PTL DEF Spec, KeepsPromise, Promise!Spec

-----------------------------------------------------------------------------
(***************************************************************************)
(* The refinement of SchedulerRun.                                         *)
(***************************************************************************)

Busy       == \E r \in Request : job[r] # "none"
Delivering == {r \in Request : job[r] = "delivering"}

\* Threads at work, while a stop is waited for or not,
LEMMA WorkRuns ==
  ASSUME UNCHANGED <<shutdown, stage, joinPending>>,
         shutdown /\ Busy' => Busy,
         shutdown => Delivering' \subseteq Delivering
  PROVE  [Run!Next]_(Run!run)
<1>1. Delivering' # {} => Busy'
  BY DEF Delivering, Busy
<1>2. Run!Work
  BY <1>1 DEF Run!Work, Delivering, Busy
<1> QED
  BY <1>2 DEF Run!Next

\* clients, who start no thread,
LEMMA ClientRuns ==
  ASSUME NEW r \in Request, Client(r)
  PROVE  [Run!Next]_(Run!run)
<1> USE DEF lifecycleVars
<1>1. ASSUME NEW priority, SetPriority(r, priority)
      PROVE  UNCHANGED <<shutdown, stage, joinPending, job>>
  BY <1>1 DEF SetPriority
<1>2. CASE Cancel(r)
  BY <1>2, WorkRuns DEF Cancel, Busy, Delivering
<1>3. ASSUME NEW priority, NEW key, NEW queuedIn, Accept(r, priority, key, queuedIn)
      PROVE  UNCHANGED <<shutdown, stage, joinPending, job>>
  BY <1>3 DEF Accept
<1>4. CASE EnqueueRejected(r)
  BY <1>4, WorkRuns DEF EnqueueRejected, Busy, Delivering
<1>5. CASE UNCHANGED <<shutdown, stage, joinPending, job>>
  BY <1>5, WorkRuns DEF Busy, Delivering
<1> QED
  BY <1>1, <1>2, <1>3, <1>4, <1>5
     DEF Client, EnqueueLocalMain, EnqueueSlowMain, EnqueueThumbnail

\* readers,
LEMMA ReaderRuns ==
  ASSUME IndInv, Reader
  PROVE  [Run!Next]_(Run!run)
<1>1. CASE (\E kind \in LaneKind : LaneReaderTake(kind)) \/ MainReaderTake
  <2>1. ~shutdown /\ UNCHANGED <<shutdown, stage, joinPending>>
    BY <1>1 DEF LaneReaderTake, MainReaderTake, lifecycleVars
  <2> QED
    BY <2>1, WorkRuns
<1>2. ASSUME NEW r \in Request, NEW result \in ReadResult,
             LaneReaderFinish(r, result) \/ MainReaderFinish(r, result)
      PROVE  [Run!Next]_(Run!run)
  <2>1. /\ UNCHANGED <<shutdown, stage, joinPending>>
        /\ job[r] \in Reading /\ job' = [job EXCEPT ![r] = "none"]
    BY <1>2 DEF LaneReaderFinish, MainReaderFinish, lifecycleVars, Reading
  <2>2. Busy /\ Delivering' \subseteq Delivering
    BY <2>1 DEF Busy, Delivering, Reading, IndInv, TypeOK
  <2> QED
    BY <2>1, <2>2, WorkRuns
<1> QED
  BY <1>1, <1>2 DEF Reader

\* workers, which select no request for delivery once a stop has canceled it,
LEMMA WorkerRuns ==
  ASSUME Tracked = Request, IndInv, StageInv,
         \/ \E kind \in WorkerKind : WorkerTake(kind)
         \/ \E r \in Request : WorkerStep(r)
  PROVE  [Run!Next]_(Run!run)
<1> USE DEF lifecycleVars
<1>1. CASE \E kind \in WorkerKind : WorkerTake(kind)
  <2>1. ~shutdown /\ UNCHANGED <<shutdown, stage, joinPending>>
    BY <1>1 DEF WorkerTake
  <2> QED
    BY <2>1, WorkRuns
<1>2. ASSUME NEW r \in Request, WorkerStep(r)
      PROVE  [Run!Next]_(Run!run)
  <2>1. /\ job \in [Request -> Job] /\ outcome \in [Request -> Outcome]
        /\ Handled(r) /\ Findable(r) /\ r \in Tracked
    BY DEF IndInv, TypeOK, StageInv, RequestOK
  <2>2. PICK from \in SUBSET (Job \ {"none"}), to \in Job : MoveWorker(r, from, to)
    BY <1>2 DEF WorkerStep, WorkerBegin, BeginsAs, WorkerFinish, WorkerDeliver,
                WorkerRelease, Job
  <2>3. UNCHANGED <<shutdown, stage, joinPending>>
    BY <1>2 DEF WorkerStep, WorkerBegin, WorkerFinish, WorkerDeliver, WorkerRelease
  <2>4. Busy
    BY <2>2 DEF MoveWorker, Busy
  <2>5. CASE to # "delivering"
    <3>1. Delivering' \subseteq Delivering
      BY <2>1, <2>2, <2>5 DEF MoveWorker, Delivering
    <3> QED
      BY <2>3, <2>4, <3>1, WorkRuns
  <2>6. CASE to = "delivering"
    <3>1. WorkerFinish(r) /\ Delivers(r)
      BY <1>2, <2>1, <2>2, <2>6
         DEF WorkerStep, WorkerBegin, BeginsAs, WorkerFinish, WorkerDeliver, WorkerRelease,
             MoveWorker
    <3>2. job[r] \in {"skipped", "failing", "decoding"}
      BY <3>1 DEF WorkerFinish, MoveWorker
    <3>3. outcome[r] = "pending"
      BY <2>1, <3>2 DEF Handled, Settled, Outcome
    <3>4. ~shutdown
      BY <2>1, <3>1, <3>2, <3>3 DEF Delivers, Findable, Undecided
    <3> QED
      BY <2>3, <3>4, WorkRuns
  <2> QED
    BY <2>5, <2>6
<1> QED
  BY <1>1, <1>2

\* and lifecycle calls.
LEMMA LifecycleRuns ==
  ASSUME IndInv, StageInv, Lifecycle
  PROVE  [Run!Next]_(Run!run)
<1> USE DEF requestVars
<1>1. Control
  BY DEF StageInv
<1>2. ASSUME NEW name \in Calls, BeginStop(name)
      PROVE  [Run!Next]_(Run!run)
  <2>1. Run!Stop
    BY <1>1, <1>2 DEF Run!Stop, BeginStop, BeginCall, Stopped, Control
  <2> QED
    BY <2>1 DEF Run!Next
<1>3. CASE SkipStop \/ Retune \/ \E registered \in SUBSET Request : ScanLeases(registered)
  BY <1>1, <1>3 DEF SkipStop, Retune, ScanLeases, BeginCall, Control, Run!run
<1>4. CASE BoundExpires
  <2>1. Run!GiveUp
    BY <1>4 DEF Run!GiveUp, BoundExpires
  <2> QED
    BY <2>1 DEF Run!Next
<1>5. CASE JoinAll
  <2>1. Run!Join
    BY <1>5 DEF Run!Join, JoinAll, AllExited
  <2> QED
    BY <2>1 DEF Run!Next
<1>6. ASSUME NEW count \in ThreadCounts, Reopen(count)
      PROVE  [Run!Next]_(Run!run)
  <2>1. Quiet
    BY <1>1, <1>6 DEF Reopen, Control, Quiet
  <2>2. \A r \in Request : job[r] = "none"
    BY <2>1 DEF StageInv, AllQuiet
  <2>3. Run!Open
    BY <1>6, <2>1, <2>2 DEF Run!Open, Reopen, Quiet
  <2> QED
    BY <2>3 DEF Run!Next
<1> QED
  BY <1>2, <1>3, <1>4, <1>5, <1>6 DEF Lifecycle

\* When every request has a handle, the scheduler starts and stops as module SchedulerRun
\* says: threads find work and callbacks begin only while requests are accepted, a stop
\* ends once all threads have or gives up and leaves them to the next one, and requests
\* are accepted again only once all threads have ended.
THEOREM RunKept ==
  ASSUME Tracked = Request
  PROVE  Spec => KeepsRun
<1>1. Init => Run!Init
  BY DEF Init, Run!Init
<1>2. ASSUME IndInv, StageInv, [Next]_vars PROVE [Run!Next]_(Run!run)
  <2>1. CASE UNCHANGED vars
    <3>1. UNCHANGED <<shutdown, stage, joinPending, job>>
      BY <2>1 DEF vars, requestVars, lifecycleVars
    <3> QED
      BY <3>1, WorkRuns DEF Busy, Delivering
  <2>2. CASE Next
    BY <1>2, <2>2, ClientRuns, ReaderRuns, WorkerRuns, LifecycleRuns DEF Next
  <2> QED
    BY <1>2, <2>1, <2>2
<1> QED
  BY <1>1, <1>2, Invariant, StageInvariant, PTL DEF Spec, KeepsRun, Run!Spec

\* When every request has a handle, the scheduler implements both of its abstract
\* specifications: the life cycle of a request, and its own.
THEOREM LifecycleKept ==
  ASSUME Tracked = Request
  PROVE  Spec => ImplementsLifecycle
BY PromiseKept, RunKept DEF ImplementsLifecycle

================================================================================
