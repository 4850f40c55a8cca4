---------------------------- MODULE SchedulerWakeups ----------------------------
(***************************************************************************)
(* m_queueCondition: DecodeScheduler with the threads that wait on it.     *)
(*                                                                         *)
(* Readers, main readers and workers share one condition variable.  Under  *)
(* m_queueMutex an idle thread looks for work and either takes some or     *)
(* waits.  From then on it does nothing until some thread notifies all of  *)
(* them: what it missed in between is missed until the next notification.  *)
(*                                                                         *)
(* A reader notifies in the critical section that ends its read; every     *)
(* other notification follows the critical section it is about, so it is   *)
(* owed for a while (`due`) and may come late or cover several changes.    *)
(***************************************************************************)
EXTENDS SchedulerProperties

\* The limits of the code leave a lane room beside a read that begins: a hard disk
\* serves two reads, a solid-state drive more than one lane kind has readers.
ASSUME LimitsLeaveRoom ==
  /\ MaxReadsPerSeekDevice >= 2
  /\ MaxReadsPerSolidStateDevice > ReadersPerLane

VARIABLES
  asleep,  \* [Pool -> Nat]: the threads of a pool that wait on m_queueCondition
  due      \* some thread left m_queueMutex and has still to notify_all

wakeupVars == <<vars, asleep, due>>

\* The threads that wait: the readers of each lane kind, the main readers, the
\* workers.  A pool whose threads no request of the instance concerns is left out.
Pool ==
  {IoLaneFor(Source[r].kind) : r \in Request \ MainImage}
    \cup (IF \E r \in MainImage : Slow(r) THEN {"Main"} ELSE {})
    \cup WorkerKind

\* The threads of a pool that hold no task.
IdleIn(pool) ==
  CASE pool \in LaneKind   -> ReadersPerLane - Cardinality(ReadsOf(pool))
    [] pool = "Main"       -> MainImageReaders - Cardinality(MainReadsOn)
    [] pool \in WorkerKind -> WorkersOf(pool) - Cardinality({r \in Request : worker[r] = pool})

\* What a thread of the pool finds when it looks for work.
HasWork(pool) ==
  CASE pool \in LaneKind     -> NextThumbnailLane(pool) # {}
    [] pool = "Main"         -> SelectMainLane(lanes, mainReads + mainHeld) # {}
    [] pool = "HighPriority" -> highQueue # <<>>
    [] OTHER                 -> highQueue # <<>> \/ backgroundQueue # {}

Awake(pool) == pool \in Pool /\ asleep[pool] < IdleIn(pool)

WakeupInit ==
  /\ Init
  /\ asleep = [pool \in Pool |-> 0]
  /\ due = FALSE

-----------------------------------------------------------------------------
(***************************************************************************)
(* Waiting and notifying.                                                  *)
(***************************************************************************)

\* An idle thread looks for work and at m_shutdown before it waits.
MayWait(pool) == Awake(pool) /\ ~HasWork(pool) /\ ~shutdown

Wait(pool) ==
  /\ MayWait(pool)
  /\ asleep' = [asleep EXCEPT ![pool] = @ + 1]
  /\ UNCHANGED <<vars, due>>

Woken == [pool \in Pool |-> 0]

\* The notify_all a thread owes.
Notify ==
  /\ due
  /\ due' = FALSE
  /\ asleep' = Woken
  /\ UNCHANGED vars

NotifyNow  == asleep' = Woken /\ UNCHANGED due
NotifySoon == due' = TRUE /\ UNCHANGED asleep
Silent     == UNCHANGED <<asleep, due>>

NotifyIf(condition) == IF condition THEN NotifySoon ELSE Silent

-----------------------------------------------------------------------------
(***************************************************************************)
(* The actions of DecodeScheduler with the notifications they make.        *)
(***************************************************************************)
Enqueues(r) ==
  \/ \E priority \in Priorities : EnqueueLocalMain(r, priority)
  \/ \E priority \in Priorities, answer \in Answers[r] : EnqueueSlowMain(r, priority, answer)
  \/ \E priority \in Priorities, answer \in Answers[r] : EnqueueThumbnail(r, priority, answer)

\* A faulty form of CancelFrees: a task removed from its lane wakes nobody.
CancelFreesHeld(r) ==
  ~state[r].decoding /\ (state[r].holdsPrefetchSlot \/ state[r].holdsMainInput)

\* Whether Cancel freed capacity or removed a task from its lane, which can
\* unblock another lane kind's choice.
CancelFrees(r) ==
  \/ ~state[r].decoding /\ (state[r].holdsPrefetchSlot \/ state[r].holdsMainInput)
  \/ QueuedInLane(r, state[r])

\* ReleasePrefetch_NoLock returned true.
WorkerFrees(r) == state[r].holdsPrefetchSlot \/ state[r].holdsMainInput

ClientWakes(r) ==
  \/ Enqueues(r) /\ NotifySoon
  \/ EnqueueRejected(r) /\ Silent
  \/ (\E priority \in Priorities : SetPriority(r, priority)) /\ NotifySoon
  \/ Cancel(r) /\ NotifyIf(CancelFrees(r))

\* A thread takes a task only when it is awake; the others learn nothing.
LaneReaderWakes(kind) == Awake(kind) /\ LaneReaderTake(kind) /\ Silent
MainReaderWakes       == Awake("Main") /\ MainReaderTake /\ Silent

\* A worker that drops a canceled task that still held capacity notifies at once.
WorkerWakes(kind) ==
  /\ Awake(kind)
  /\ WorkerTake(kind)
  /\ IF prefetchedTotal' < prefetchedTotal \/ mainHeld' < mainHeld THEN NotifyNow ELSE Silent

ReadEnds(r) ==
  /\ \E result \in ReadResult : LaneReaderFinish(r, result) \/ MainReaderFinish(r, result)
  /\ NotifyNow

WorkerGoesOn(r) ==
  \/ (WorkerBegin(r) \/ WorkerFinish(r) \/ WorkerDeliver(r)) /\ Silent
  \/ WorkerRelease(r) /\ NotifyIf(WorkerFrees(r))

\* A thread leaves its loop only when it is awake to see m_shutdown.
JoinThreads ==
  /\ \A pool \in Pool : asleep[pool] = 0
  /\ JoinAll
  /\ Silent

LifecycleGoesOn ==
  \/ SkipStop
  \/ \E registered \in SUBSET Request : ScanLeases(registered)
  \/ BoundExpires
  \/ \E count \in ThreadCounts : Reopen(count)
  \/ Retune

WakeupNext ==
  \/ \E r \in Request : ClientWakes(r)
  \/ \E kind \in LaneKind : LaneReaderWakes(kind)
  \/ MainReaderWakes
  \/ \E kind \in WorkerKind : WorkerWakes(kind)
  \/ \E r \in Request : ReadEnds(r) \/ WorkerGoesOn(r)
  \/ \E pool \in Pool : Wait(pool)
  \/ Notify
  \/ (\E name \in Calls : BeginStop(name)) /\ NotifySoon
  \/ LifecycleGoesOn /\ Silent
  \/ JoinThreads

WakeupSpec == WakeupInit /\ [][WakeupNext]_wakeupVars

-----------------------------------------------------------------------------
\* No thread sleeps beside work it could take, or through a stop, unless a thread
\* is about to notify: the readers wait without a predicate, so each change that
\* can make a lane admissible (a read that ends, capacity given back, a task
\* queued, promoted or removed) has to be announced, and no take may open a choice
\* to a reader that sleeps.  (A restart may raise the cap without a word; what
\* any client does next makes up for it.)
NoneSleepsBesideWork ==
  globalPrefetchCap <= CapFor(volumeProfiles) /\ ~due =>
    \A pool \in Pool : HasWork(pool) \/ shutdown => asleep[pool] = 0
================================================================================
