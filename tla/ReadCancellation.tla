---------------------------- MODULE ReadCancellation ----------------------------
(***************************************************************************)
(* How a byte-source read in progress is stopped: the request's canceled   *)
(* flag and stop token, the read lease of the reading thread, the stop     *)
(* queue with the thread that dispatches it, CancelSynchronousIo, and what *)
(* a stop of the scheduler does about reads and thread priorities.         *)
(*                                                                         *)
(* A thread here is one of the readers.  What its read does is up to the   *)
(* source: one of Polite waits for data or its token; any other ignores    *)
(* the token and may block in the operating system, where only data or     *)
(* CancelSynchronousIo ends the call.  Lanes, slots and decodes are left   *)
(* to module DecodeScheduler.                                              *)
(***************************************************************************)
EXTENDS Integers, Sequences, FiniteSets, SequencesExt

CONSTANTS
  None,
  Request,    \* the requests clients may enqueue, each at most once
  Tracked,    \* those with a nonzero handle
  Polite,     \* those whose source honours the stop token
  Thread,     \* the readers
  Background, \* those that read in background mode: the lane readers
  Calls,      \* the lifecycle calls made
  MaxStops    \* bound: how many of them

ASSUME CancellationConstants ==
  /\ IsFiniteSet(Request) /\ IsFiniteSet(Thread)
  /\ None \notin Request \cup Thread
  /\ Tracked \subseteq Request /\ Polite \subseteq Request
  /\ Background \subseteq Thread
  /\ Calls \subseteq {"Shutdown", "BoundedShutdown", "SetThreadCount"}
  /\ MaxStops \in Nat

VARIABLES
  status,      \* [Request -> where the request is]
  live,        \* m_liveRequests
  canceled,    \* the requests whose canceled flag is set
  token,       \* the requests whose stop token is signaled
  readLease,   \* [Request -> the reader whose lease it was given, or None]
  at,          \* [Thread -> where the thread is in its loop and in LeasedRead]
  task,        \* [Thread -> the request it holds, or None]
  active,      \* [Thread -> ReadLease::active]
  partial,     \* the requests whose read was cut short
  starved,     \* the threads at background CPU priority
  stopQueue,   \* m_stopQueue
  stopExit,    \* m_stopExit
  dispatcher,  \* what the stop-dispatch thread does
  stopping,    \* the request it stops, or None
  held,        \* the lease whose mutex it holds, or None
  shutdown,    \* m_shutdown
  joinPending, \* m_joinPending
  call,        \* the lifecycle call in progress
  stage,       \* how far it is
  found,       \* StopAndJoin's `live`: the requests it is about to stop
  scanned,     \* the threads whose lease it has looked at
  stops,       \* lifecycle calls made
  early        \* history: canceled between the reopening of a restart and its
               \* clearing of the stop queue

requestVars    == <<status, live, canceled, readLease, early>>
threadVars     == <<at, task, active, partial>>
dispatcherVars == <<dispatcher, stopping, held>>
queueVars      == <<stopQueue, stopExit>>
lifecycleVars  == <<shutdown, joinPending, call, stage, found, scanned, stops>>

vars == <<requestVars, token, threadVars, starved, queueVars, dispatcherVars,
          lifecycleVars>>

Status == {"new", "rejected", "queued", "taken", "decoding", "settled", "dropped"}
Place  == {"idle", "taken", "entered", "registered", "running", "blocked", "retiring", "finishing"}
Stages == {"idle", "raise", "scan", "publish", "join", "reopen", "clear", "start"}

Init ==
  /\ status = [r \in Request |-> "new"]
  /\ live = {} /\ canceled = {} /\ token = {}
  /\ readLease = [r \in Request |-> None]
  /\ at = [t \in Thread |-> "idle"]
  /\ task = [t \in Thread |-> None]
  /\ active = [t \in Thread |-> None]
  /\ partial = {} /\ starved = {}
  /\ stopQueue = <<>> /\ stopExit = FALSE
  /\ dispatcher = "idle" /\ stopping = None /\ held = None
  /\ shutdown = FALSE /\ joinPending = FALSE
  /\ call = "none" /\ stage = "idle" /\ found = {} /\ scanned = {} /\ stops = 0
  /\ early = {}

-----------------------------------------------------------------------------
(***************************************************************************)
(* Clients.                                                                *)
(***************************************************************************)
Enqueue(r) ==
  /\ status[r] = "new"
  /\ status' = [status EXCEPT ![r] = IF shutdown THEN "rejected" ELSE "queued"]
  /\ live' = IF shutdown THEN live ELSE live \cup ({r} \cap Tracked)
  /\ UNCHANGED <<canceled, readLease, early, token, threadVars, starved, queueVars,
                 dispatcherVars, lifecycleVars>>

\* The flag, the live entry and the stop change in one critical section.
Cancel(r) ==
  /\ r \in live
  /\ live' = live \ {r}
  /\ canceled' = canceled \cup {r}
  /\ status' = [status EXCEPT ![r] = IF @ = "queued" THEN "dropped" ELSE @]
  /\ stopQueue' = Append(stopQueue, r)
  /\ early' = IF stage = "clear" THEN early \cup {r} ELSE early
  /\ UNCHANGED <<readLease, token, threadVars, starved, stopExit, dispatcherVars,
                 lifecycleVars>>

\* A worker takes the request (its lease never registers a read) and is done
\* with it.
Settle(r) ==
  /\ status[r] = "decoding"
  /\ status' = [status EXCEPT ![r] = "settled"]
  /\ live' = live \ {r}
  /\ readLease' = [readLease EXCEPT ![r] = None]
  /\ UNCHANGED <<canceled, early, token, threadVars, starved, queueVars,
                 dispatcherVars, lifecycleVars>>

-----------------------------------------------------------------------------
(***************************************************************************)
(* A reading thread: LaneReaderThread or MainReaderThread around           *)
(* LeasedRead.                                                             *)
(***************************************************************************)
Move(t, from, to) == at[t] = from /\ at' = [at EXCEPT ![t] = to]

\* A faulty form of LeaseFree: the lease is used without its mutex.
LeaseIgnored(t) == TRUE

\* The mutex of t's lease is held only by the dispatch thread for more than a
\* step of this model.
LeaseFree(t) == held # t

\* The lease is given under m_queueMutex.
Take(t, r) ==
  /\ ~shutdown
  /\ status[r] = "queued"
  /\ Move(t, "idle", "taken")
  /\ task' = [task EXCEPT ![t] = r]
  /\ status' = [status EXCEPT ![r] = "taken"]
  /\ readLease' = [readLease EXCEPT ![r] = t]
  /\ UNCHANGED <<live, canceled, early, token, active, partial, starved, queueVars,
                 dispatcherVars, lifecycleVars>>

\* THREAD_MODE_BACKGROUND_BEGIN, which undoes a raise.
EnterBackground(t) ==
  /\ t \in Background
  /\ Move(t, "taken", "entered")
  /\ starved' = starved \cup {t}
  /\ UNCHANGED <<requestVars, token, task, active, partial, queueVars,
                 dispatcherVars, lifecycleVars>>

Register(t) ==
  /\ LeaseFree(t)
  /\ Move(t, IF t \in Background THEN "entered" ELSE "taken", "registered")
  /\ active' = [active EXCEPT ![t] = task[t]]
  /\ UNCHANGED <<requestVars, token, task, partial, starved, queueVars,
                 dispatcherVars, lifecycleVars>>

\* A faulty form of SeesStop: the shutdown flag is not looked at.
SeesCancel(r) == r \in canceled \/ r \in token

SeesStop(r) == r \in token \/ r \in canceled \/ shutdown

\* The check after the registration.
Check(t) ==
  /\ at[t] = "registered"
  /\ at' = [at EXCEPT ![t] = IF SeesStop(task[t]) THEN "retiring" ELSE "running"]
  /\ UNCHANGED <<requestVars, token, task, active, partial, starved, queueVars,
                 dispatcherVars, lifecycleVars>>

\* A source that ignores the token blocks in the operating system.
Block(t) ==
  /\ task[t] \notin Polite
  /\ Move(t, "running", "blocked")
  /\ UNCHANGED <<requestVars, token, task, active, partial, starved, queueVars,
                 dispatcherVars, lifecycleVars>>

\* The data is there.
ReadEnds(t) ==
  /\ Move(t, "running", "retiring") \/ Move(t, "blocked", "retiring")
  /\ UNCHANGED <<requestVars, token, task, active, partial, starved, queueVars,
                 dispatcherVars, lifecycleVars>>

\* A source that honours the token returns what it has.
ReadStops(t) ==
  /\ task[t] \in Polite \cap token
  /\ Move(t, "running", "retiring")
  /\ partial' = partial \cup {task[t]}
  /\ UNCHANGED <<requestVars, token, task, active, starved, queueVars,
                 dispatcherVars, lifecycleVars>>

\* Waits for an OS cancel aimed at this read that is still in progress.
Retire(t) ==
  /\ LeaseFree(t)
  /\ Move(t, "retiring", "finishing")
  /\ active' = [active EXCEPT ![t] = None]
  /\ UNCHANGED <<requestVars, token, task, partial, starved, queueVars,
                 dispatcherVars, lifecycleVars>>

\* A faulty form of Discards: only the token is looked at.
DiscardsByToken(r) == r \in token

\* A canceled request is discarded: `stopped`, and the look at the flag under
\* m_queueMutex.
Discards(r) == r \in token \/ r \in canceled

\* Background mode ends, then the critical section that ends the read.  `stopped`
\* was determined before it, so a shutdown since then may be missed.
Finish(t) ==
  LET r == task[t]
  IN  /\ Move(t, "finishing", "idle")
      /\ task' = [task EXCEPT ![t] = None]
      /\ starved' = starved \ {t}
      /\ \E discards \in {Discards(r), Discards(r) \/ shutdown} :
           /\ status' = [status EXCEPT ![r] = IF discards THEN "dropped" ELSE "decoding"]
           /\ live' = IF discards THEN live \ {r} ELSE live
      /\ UNCHANGED <<canceled, readLease, early, token, active, partial, queueVars,
                     dispatcherVars, lifecycleVars>>

-----------------------------------------------------------------------------
(***************************************************************************)
(* CancelSynchronousIo on a thread ends the call it is blocked in, if it   *)
(* is in one.                                                              *)
(***************************************************************************)
CancelSynchronousIo(t) ==
  IF at[t] = "blocked"
  THEN /\ at' = [at EXCEPT ![t] = "retiring"]
       /\ partial' = partial \cup {task[t]}
  ELSE UNCHANGED <<at, partial>>

(***************************************************************************)
(* StopDispatchThread and StopRequest.                                     *)
(***************************************************************************)
DispatchTake ==
  /\ dispatcher = "idle" /\ stopQueue # <<>>
  /\ dispatcher' = "signal"
  /\ stopping' = Head(stopQueue)
  /\ stopQueue' = Tail(stopQueue)
  /\ UNCHANGED <<requestVars, token, threadVars, starved, stopExit, held, lifecycleVars>>

\* request_stop runs the host's stop callbacks.
DispatchSignal ==
  /\ dispatcher = "signal"
  /\ dispatcher' = "lease"
  /\ token' = token \cup {stopping}
  /\ UNCHANGED <<requestVars, threadVars, starved, queueVars, stopping, held, lifecycleVars>>

\* Lock the lease the request was given; go on if its read is registered there.
DispatchLock ==
  LET lease == readLease[stopping]
      mine  == lease # None /\ active[lease] = stopping
  IN  /\ dispatcher = "lease"
      /\ dispatcher' = IF mine THEN "cancel" ELSE "idle"
      /\ held' = IF mine THEN lease ELSE None
      /\ stopping' = IF mine THEN stopping ELSE None
      /\ UNCHANGED <<requestVars, token, threadVars, starved, queueVars, lifecycleVars>>

DispatchCancel ==
  /\ dispatcher = "cancel"
  /\ dispatcher' = "idle"
  /\ stopping' = None
  /\ held' = None
  /\ CancelSynchronousIo(held)
  /\ UNCHANGED <<requestVars, token, task, active, starved, queueVars, lifecycleVars>>

\* A faulty form of MayRetire: the exit flag is looked at before the queue.
MayRetireAtOnce == stopExit

MayRetire == stopExit /\ stopQueue = <<>>

DispatchExit ==
  /\ dispatcher = "idle" /\ MayRetire
  /\ dispatcher' = "exited"
  /\ UNCHANGED <<requestVars, token, threadVars, starved, queueVars, stopping,
                 held, lifecycleVars>>

-----------------------------------------------------------------------------
(***************************************************************************)
(* Shutdown, Shutdown(bound) and SetThreadCount, as far as reads go.       *)
(***************************************************************************)
Stopped == shutdown /\ ~joinPending

BeginStop(name) ==
  /\ call = "none" /\ stops < MaxStops /\ ~Stopped
  /\ name = "SetThreadCount" => ~joinPending
  /\ stops' = stops + 1
  /\ call' = name
  /\ stage' = "raise"
  /\ shutdown' = TRUE
  /\ canceled' = canceled \cup live
  /\ found' = live
  /\ scanned' = {}
  /\ UNCHANGED <<status, live, readLease, early, token, threadVars, starved,
                 queueVars, dispatcherVars, joinPending>>

\* A stopped scheduler is restarted.
SkipStop ==
  /\ call = "none" /\ stops < MaxStops /\ Stopped /\ "SetThreadCount" \in Calls
  /\ stops' = stops + 1
  /\ call' = "SetThreadCount"
  /\ stage' = "reopen"
  /\ UNCHANGED <<requestVars, token, threadVars, starved, queueVars,
                 dispatcherVars, shutdown, joinPending, found, scanned>>

RaiseThreadPriorities ==
  /\ stage = "raise"
  /\ stage' = "scan"
  /\ starved' = {}
  /\ UNCHANGED <<requestVars, token, threadVars, queueVars, dispatcherVars,
                 shutdown, joinPending, call, found, scanned, stops>>

\* Every read registered on a lease by now is canceled, and stopped below.
ScanLease(t) ==
  LET registered == {active[t]} \ {None}
  IN  /\ stage = "scan" /\ t \notin scanned
      /\ LeaseFree(t)
      /\ canceled' = canceled \cup registered
      /\ found' = found \cup registered
      /\ scanned' = scanned \cup {t}
      /\ stage' = IF scanned' = Thread THEN "publish" ELSE "scan"
      /\ UNCHANGED <<status, live, readLease, early, token, threadVars, starved,
                     queueVars, dispatcherVars, shutdown, joinPending, call, stops>>

PublishStops ==
  /\ stage = "publish"
  /\ stage' = "join"
  /\ stopQueue' = stopQueue \o SetToSeq(found)
  /\ stopExit' = TRUE
  /\ found' = {}
  /\ UNCHANGED <<requestVars, token, threadVars, starved, dispatcherVars,
                 shutdown, joinPending, call, scanned, stops>>

\* CancelActiveReadsIo, at once and with every retry.
CancelActiveRead(t) ==
  /\ stage = "join"
  /\ LeaseFree(t)
  /\ active[t] \in canceled
  /\ at[t] = "blocked"
  /\ CancelSynchronousIo(t)
  /\ UNCHANGED <<requestVars, token, task, active, starved, queueVars,
                 dispatcherVars, lifecycleVars>>

\* A faulty form of RaisedAgain: the priorities are raised once.
RaisedOnce == starved

RaisedAgain == {}

RaiseAgain ==
  /\ stage = "join"
  /\ starved # {}
  /\ starved' = RaisedAgain
  /\ UNCHANGED <<requestVars, token, threadVars, queueVars, dispatcherVars, lifecycleVars>>

BoundExpires ==
  /\ stage = "join" /\ call = "BoundedShutdown"
  /\ stage' = "idle" /\ call' = "none"
  /\ joinPending' = TRUE
  /\ UNCHANGED <<requestVars, token, threadVars, starved, queueVars,
                 dispatcherVars, shutdown, found, scanned, stops>>

\* Every thread has exited: what was queued is dropped, the leases are closed.
JoinAll ==
  /\ stage = "join"
  /\ \A t \in Thread : at[t] = "idle"
  /\ dispatcher = "exited"
  /\ stage' = IF call = "SetThreadCount" THEN "reopen" ELSE "idle"
  /\ call' = IF call = "SetThreadCount" THEN call ELSE "none"
  /\ joinPending' = FALSE
  /\ live' = {}
  /\ status' = [r \in Request |->
                  IF status[r] \in {"queued", "decoding"} THEN "dropped" ELSE status[r]]
  /\ stopQueue' = <<>>
  /\ readLease' = [r \in Request |-> None]
  /\ UNCHANGED <<canceled, early, token, threadVars, starved, stopExit,
                 dispatcherVars, shutdown, found, scanned, stops>>

\* SetThreadCount goes on: requests are accepted and the readers start, ...
Reopen ==
  /\ stage = "reopen"
  /\ stage' = "clear"
  /\ shutdown' = FALSE
  /\ UNCHANGED <<requestVars, token, threadVars, starved, queueVars,
                 dispatcherVars, joinPending, call, found, scanned, stops>>

\* ... then the stop queue is cleared, ...
ClearStops ==
  /\ stage = "clear"
  /\ stage' = "start"
  /\ stopQueue' = <<>>
  /\ stopExit' = FALSE
  /\ UNCHANGED <<requestVars, token, threadVars, starved, dispatcherVars,
                 shutdown, joinPending, call, found, scanned, stops>>

\* ... and the stop-dispatch thread starts.
StartDispatch ==
  /\ stage = "start"
  /\ stage' = "idle" /\ call' = "none"
  /\ dispatcher' = "idle"
  /\ UNCHANGED <<requestVars, token, threadVars, starved, queueVars, stopping,
                 held, shutdown, joinPending, found, scanned, stops>>

-----------------------------------------------------------------------------
ThreadStep(t) ==
  \/ EnterBackground(t)
  \/ Register(t)
  \/ Check(t)
  \/ Block(t)
  \/ ReadStops(t)
  \/ Retire(t)
  \/ Finish(t)

Dispatch ==
  \/ DispatchTake
  \/ DispatchSignal
  \/ DispatchLock
  \/ DispatchCancel
  \/ DispatchExit

Lifecycle ==
  \/ RaiseThreadPriorities
  \/ \E t \in Thread : ScanLease(t)
  \/ PublishStops
  \/ JoinAll
  \/ Reopen
  \/ ClearStops
  \/ StartDispatch

Next ==
  \/ \E r \in Request : Enqueue(r) \/ Cancel(r) \/ Settle(r)
  \/ \E t \in Thread, r \in Request : Take(t, r)
  \/ \E t \in Thread : ThreadStep(t) \/ ReadEnds(t) \/ CancelActiveRead(t)
  \/ Dispatch
  \/ RaiseAgain
  \/ \E name \in Calls : BeginStop(name)
  \/ SkipStop
  \/ BoundExpires
  \/ Lifecycle

Spec == Init /\ [][Next]_vars

(***************************************************************************)
(* Fairness.  A thread that is not starved goes on, the dispatch thread    *)
(* and a lifecycle call do too (the bound of Shutdown(bound) need not      *)
(* expire), and the join retries what it retries.  Data need never arrive  *)
(* (ReadEnds), and a starved thread need never run.                        *)
(***************************************************************************)
Fairness ==
  /\ \A t \in Thread : WF_vars(t \notin starved /\ ThreadStep(t))
  /\ \A t \in Thread : WF_vars(CancelActiveRead(t))
  /\ WF_vars(Dispatch)
  /\ WF_vars(RaiseAgain)
  /\ WF_vars(Lifecycle)

FairSpec == Spec /\ Fairness

-----------------------------------------------------------------------------
(***************************************************************************)
(* Properties.                                                             *)
(***************************************************************************)
\* The types; and an OS cancel in progress holds the lease on which the read it
\* aims at is registered.
CancellationTypeOK ==
  /\ status \in [Request -> Status]
  /\ live \subseteq Request /\ canceled \subseteq Request /\ token \subseteq Request
  /\ readLease \in [Request -> Thread \cup {None}]
  /\ at \in [Thread -> Place]
  /\ task \in [Thread -> Request \cup {None}]
  /\ active \in [Thread -> Request \cup {None}]
  /\ partial \subseteq Request /\ starved \subseteq Thread
  /\ stopQueue \in Seq(Request) /\ stopExit \in BOOLEAN
  /\ dispatcher \in {"idle", "signal", "lease", "cancel", "exited"}
  /\ stopping \in Request \cup {None} /\ held \in Thread \cup {None}
  /\ shutdown \in BOOLEAN /\ joinPending \in BOOLEAN
  /\ call \in Calls \cup {"none"} /\ stage \in Stages
  /\ found \subseteq Request /\ scanned \subseteq Thread
  /\ stops \in Nat /\ early \subseteq Request
  /\ held # None => active[held] = stopping

Reading(t) == at[t] \in {"running", "blocked"}

\* The stop of r was delivered, or will be: it is queued for a dispatch thread
\* that has not retired, in its hands, or about to be published by a stop.
StopOnItsWay(r) ==
  \/ r \in token
  \/ dispatcher = "signal" /\ stopping = r
  \/ r \in ToSet(stopQueue) /\ (dispatcher # "exited" \/ stage \in {"clear", "start"})
  \/ r \in found

\* A canceled read that goes on has its stop on the way: the registration before
\* the check, the publication in the critical section of the cancel, the scan of
\* the leases and the retirement of the dispatch thread leave no gap.
StopNeverLost ==
  \A t \in Thread : Reading(t) /\ task[t] \in canceled => StopOnItsWay(task[t])

\* The same but for a request canceled after a restart reopened the scheduler and
\* before it cleared the stop queue.
StopLostOnlyByRestart ==
  \A t \in Thread :
    Reading(t) /\ task[t] \in canceled \ early => StopOnItsWay(task[t])

\* Once a stop has published what it found, no read goes on that was not
\* canceled, a request outside the live table included: a read either was on its
\* lease when the leases were scanned or saw the shutdown flag.
NoReadEscapesStop ==
  stage = "join" => \A t \in Thread : Reading(t) => task[t] \in canceled

\* CancelSynchronousIo reaches only a read that was canceled: a late dispatch never
\* ends the next read of the thread.
LateCancelHitsNoOther ==
  [][\A t \in Thread :
       at[t] = "blocked" /\ partial' # partial /\ at'[t] = "retiring" =>
         task[t] \in canceled]_vars

\* Bytes a stop cut short are never decoded.
PartialNeverDecoded ==
  \A r \in partial : status[r] \notin {"decoding", "settled"}

\* A lifecycle call ends though no source ever answers: every read is stopped by
\* its token or by the operating system, also one that blocks after the first
\* attempt, and no thread stays in background mode, also one that enters it after
\* the first raise.
StopEnds == call # "none" ~> call = "none"
================================================================================
