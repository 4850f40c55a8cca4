------------------------------ MODULE ImageLoader ------------------------------
(***************************************************************************)
(* class ImageLoader: who owns the scheduler while its calls overlap.      *)
(* Every call copies m_scheduler under m_mutex and uses the copy without   *)
(* it; Shutdown moves the pointer out, Shutdown(bound) resets it once all  *)
(* threads were joined, and whoever drops the last copy runs               *)
(* ~DecodeScheduler, which joins without a bound.                          *)
(*                                                                         *)
(* The scheduler is reduced to what its lifecycle calls do: m_shutdown,    *)
(* m_joinPending, m_lifecycleMutex and its threads as one group: module    *)
(* SchedulerRun, which DecodeScheduler implements.  Each step is one       *)
(* critical section.                                                       *)
(***************************************************************************)
EXTENDS Naturals

CONSTANTS
  Client,    \* threads that call the loader
  OnWorker,  \* those of them that are result callbacks on a decode worker
  Programs,  \* the programs clients may be: [Client -> the calls the client makes]
  MaxCalls,  \* how many calls one client makes
  Request,   \* requests, each made at most once
  None

\* The calls a client makes.
Call == {"request", "cancel", "setPriority", "setThreadCount", "shutdown", "shutdownBound",
         "shutdownIfCreated"}

ASSUME LoaderConstants ==
  /\ OnWorker \subseteq Client
  /\ MaxCalls \in Nat
  /\ None \notin Client \cup Request
  /\ None \notin BOOLEAN
  /\ None \notin Call

VARIABLES
  mayCall,      \* the program the clients are
  instance,     \* the static of Instance()
  loader,       \* m_scheduler is set
  accepting,    \* ~m_shutdown
  joinPending,  \* m_joinPending
  lifecycle,    \* the owner of m_lifecycleMutex
  threads,      \* a thread of the scheduler is not joined
  exited,       \* every thread left its function
  life,         \* what became of each request
  pc, op, arg,  \* where a client is, in which call, for which request
  verdict,      \* what a client's last shutdown answered
  calls

clientVars    == <<pc, op, arg, verdict, calls>>
schedulerVars == <<accepting, joinPending, lifecycle, threads, exited>>
vars == <<mayCall, instance, loader, schedulerVars, life, clientVars>>

Init ==
  /\ mayCall \in Programs
  /\ instance = "none"
  /\ loader = FALSE
  /\ accepting = FALSE /\ joinPending = FALSE /\ lifecycle = None
  /\ threads = FALSE /\ exited = FALSE
  /\ life = [r \in Request |-> "new"]
  /\ pc = [c \in Client |-> "idle"]
  /\ op = [c \in Client |-> None]
  /\ arg = [c \in Client |-> None]
  /\ verdict = [c \in Client |-> None]
  /\ calls = [c \in Client |-> 0]

\* A client holds a copy of m_scheduler.
Holding == {"enqueue", "cancel", "lock", "join", "reset", "release"}
Holders == {c \in Client : pc[c] \in Holding}

Goto(c, to)      == pc' = [pc EXCEPT ![c] = to]
Answer(c, value) == verdict' = [verdict EXCEPT ![c] = value]
Dropped          == [r \in Request |-> IF life[r] = "live" THEN "dropped" ELSE life[r]]

\* Client c starts call o; a callback is started by its delivery.
Calls(c, o) ==
  /\ pc[c] = IF c \in OnWorker THEN "callback" ELSE "idle"
  /\ o \in mayCall[c] /\ calls[c] < MaxCalls
  /\ calls' = [calls EXCEPT ![c] = @ + 1]
  /\ op' = [op EXCEPT ![c] = o]

-----------------------------------------------------------------------------
\* Instance() for the first time, unless a host was told there is no loader
\* ("a first Instance() call after this returned is not supported").
Construct(c) ==
  /\ instance = "none"
  /\ pc[c] = "idle" /\ c \notin OnWorker /\ mayCall[c] # {"shutdownIfCreated"}
  /\ \A d \in Client : verdict[d] = None
  /\ instance' = "constructing"
  /\ Goto(c, "constructing")
  /\ UNCHANGED <<loader, schedulerVars, life, op, arg, verdict, calls>>

Constructed(c) ==
  /\ pc[c] = "constructing"
  /\ instance' = "ready"
  /\ loader' = TRUE /\ accepting' = TRUE /\ threads' = TRUE
  /\ Goto(c, "idle")
  /\ UNCHANGED <<joinPending, lifecycle, exited, life, op, arg, verdict, calls>>

ShutdownIfCreated(c) ==
  /\ Calls(c, "shutdownIfCreated")
  /\ IF instance = "none"
     THEN Answer(c, TRUE) /\ Goto(c, "idle")
     ELSE Answer(c, None) /\ Goto(c, "instance")
  /\ UNCHANGED <<instance, loader, schedulerVars, life, arg>>

\* The calls that only use the scheduler.
RequestDecoded(c, r) ==
  /\ Calls(c, "request") /\ instance = "ready"
  /\ life[r] = "new"
  /\ IF loader
     THEN Goto(c, "enqueue") /\ life' = [life EXCEPT ![r] = "requested"]
     ELSE Goto(c, "idle")    /\ life' = [life EXCEPT ![r] = "rejected"]
  /\ arg' = [arg EXCEPT ![c] = r]
  /\ UNCHANGED <<instance, loader, schedulerVars, verdict>>

\* A faulty form of Accepts: an Enqueue that does not look at m_shutdown.
AcceptsAlways == TRUE

Accepts == accepting

Enqueue(c) ==
  /\ pc[c] = "enqueue"
  /\ life' = [life EXCEPT ![arg[c]] = IF Accepts THEN "live" ELSE "rejected"]
  /\ Goto(c, "release")
  /\ UNCHANGED <<instance, loader, schedulerVars, op, arg, verdict, calls>>

Cancel(c, r) ==
  /\ Calls(c, "cancel") /\ instance = "ready"
  /\ life[r] \notin {"new", "requested", "rejected"}
  /\ Goto(c, IF loader THEN "cancel" ELSE "idle")
  /\ arg' = [arg EXCEPT ![c] = r]
  /\ UNCHANGED <<instance, loader, schedulerVars, life, verdict>>

CancelLive(c) ==
  /\ pc[c] = "cancel"
  /\ life' = [life EXCEPT ![arg[c]] = IF @ = "live" THEN "canceled" ELSE @]
  /\ Goto(c, "release")
  /\ UNCHANGED <<instance, loader, schedulerVars, op, arg, verdict, calls>>

\* SetPriority and LiveRequestCount: nothing changes here but who holds a copy.
SetPriority(c) ==
  /\ Calls(c, "setPriority") /\ instance = "ready"
  /\ Goto(c, IF loader THEN "release" ELSE "idle")
  /\ UNCHANGED <<instance, loader, schedulerVars, life, arg, verdict>>

-----------------------------------------------------------------------------
\* The lifecycle calls, up to the scheduler's lifecycle mutex.
SetWorkerThreadCount(c) ==
  /\ Calls(c, "setThreadCount") /\ instance = "ready"
  /\ Goto(c, IF loader THEN "lock" ELSE "idle")
  /\ UNCHANGED <<instance, loader, schedulerVars, life, arg, verdict>>

Shutdown(c) ==
  /\ Calls(c, "shutdown") /\ instance = "ready"
  /\ loader' = FALSE
  /\ Goto(c, IF loader THEN "lock" ELSE "idle")
  /\ Answer(c, IF loader THEN None ELSE TRUE)
  /\ UNCHANGED <<instance, schedulerVars, life, arg>>

ShutdownBound(c) ==
  /\ \/ Calls(c, "shutdownBound")
     \/ pc[c] = "instance" /\ UNCHANGED <<calls, op>>
  /\ instance = "ready"
  /\ Goto(c, IF loader THEN "lock" ELSE "idle")
  /\ Answer(c, IF loader THEN None ELSE TRUE)
  /\ UNCHANGED <<instance, loader, schedulerVars, life, arg>>

Bounded(c) == op[c] \in {"shutdownBound", "shutdownIfCreated"}

\* What c does after StopAndJoin joined all threads, or found none.
Stopped(c) ==
  /\ lifecycle' = None /\ joinPending' = FALSE
  /\ IF op[c] = "setThreadCount"
     THEN accepting' = TRUE /\ threads' = TRUE /\ exited' = FALSE
     ELSE accepting' = FALSE /\ threads' = FALSE /\ UNCHANGED exited
  /\ Goto(c, CASE op[c] = "destroy" -> "idle" [] Bounded(c) -> "reset" [] OTHER -> "release")
  /\ verdict' = IF op[c] = "shutdown" THEN [verdict EXCEPT ![c] = TRUE] ELSE verdict

\* A faulty form of NothingToStop: threads a bounded shutdown left are forgotten.
NothingToStopOnceShut == ~accepting

\* StopAndJoin returns at once.
NothingToStop == ~accepting /\ ~joinPending

\* A faulty form of GivesUp: SetThreadCount joins the threads a stop left, and goes on.
NeverGivesUp(c) == FALSE

\* SetThreadCount returns at once while threads of a bounded shutdown are not joined.
GivesUp(c) == op[c] = "setThreadCount" /\ joinPending

\* The lifecycle mutex is free: SetThreadCount gives up while threads are left
\* unjoined, otherwise StopAndJoin.
Lock(c) ==
  /\ pc[c] = "lock" /\ lifecycle = None
  /\ \/ /\ GivesUp(c)
        /\ Goto(c, "release")
        /\ UNCHANGED <<schedulerVars, life, verdict>>
     \/ /\ ~GivesUp(c)
        /\ NothingToStop
        /\ IF op[c] = "setThreadCount" THEN Stopped(c)
           ELSE /\ Goto(c, IF Bounded(c) THEN "reset" ELSE "release")
                /\ verdict' = IF Bounded(c) THEN verdict ELSE [verdict EXCEPT ![c] = TRUE]
                /\ UNCHANGED schedulerVars
        /\ UNCHANGED life
     \/ /\ ~GivesUp(c)
        /\ ~NothingToStop
        /\ lifecycle' = c /\ accepting' = FALSE /\ life' = Dropped
        /\ Goto(c, "join")
        /\ UNCHANGED <<joinPending, threads, exited, verdict>>
  /\ UNCHANGED <<instance, loader, op, arg, calls>>

Join(c) ==
  /\ pc[c] = "join" /\ exited
  /\ Stopped(c)
  /\ UNCHANGED <<instance, loader, life, op, arg, calls>>

\* A faulty form of KeepsLoader: the scheduler is dropped after a timeout too.
DropsLoader == loader' = FALSE

\* "Threads are still running: keep the scheduler they may use."
KeepsLoader == UNCHANGED loader

\* The bound runs out.
TimeOut(c) ==
  /\ pc[c] = "join" /\ Bounded(c)
  /\ lifecycle' = None /\ joinPending' = TRUE
  /\ KeepsLoader
  /\ Answer(c, FALSE)
  /\ Goto(c, "release")
  /\ UNCHANGED <<instance, accepting, threads, exited, life, op, arg, calls>>

Reset(c) ==
  /\ pc[c] = "reset"
  /\ loader' = FALSE
  /\ Answer(c, TRUE)
  /\ Goto(c, "release")
  /\ UNCHANGED <<instance, schedulerVars, life, op, arg, calls>>

\* Faulty forms of Destroys: the scheduler is dropped without joining; it is not
\* shared, and goes although another call still uses it.
DestroysNothing(c)     == FALSE
DestroysWhileShared(c) == ~loader /\ ~NothingToStop

\* ~DecodeScheduler has something to stop.
Destroys(c) == ~loader /\ Holders = {c} /\ ~NothingToStop

\* The call returns and drops its copy.
Release(c) ==
  /\ pc[c] = "release"
  /\ IF Destroys(c)
     THEN /\ lifecycle' = c /\ accepting' = FALSE /\ life' = Dropped
          /\ op' = [op EXCEPT ![c] = "destroy"]
          /\ Goto(c, "join")
     ELSE Goto(c, "idle") /\ UNCHANGED <<lifecycle, accepting, life, op>>
  /\ UNCHANGED <<instance, loader, joinPending, threads, exited, arg, verdict, calls>>

-----------------------------------------------------------------------------
\* The decode workers: a result is delivered, the callback makes a call or
\* returns; stopped threads exit once no callback runs on them.
Deliver(r) ==
  /\ life[r] = "live"
  /\ life' = [life EXCEPT ![r] = "delivered"]
  /\ \/ UNCHANGED pc
     \/ \E c \in OnWorker : pc[c] = "idle" /\ Goto(c, "callback")
  /\ UNCHANGED <<instance, loader, schedulerVars, op, arg, verdict, calls>>

CallbackReturns(c) ==
  /\ c \in OnWorker /\ pc[c] = "callback"
  /\ Goto(c, "idle")
  /\ UNCHANGED <<instance, loader, schedulerVars, life, op, arg, verdict, calls>>

ThreadsExit ==
  /\ threads /\ ~accepting /\ ~exited
  /\ \A c \in OnWorker : pc[c] = "idle"
  /\ exited' = TRUE
  /\ UNCHANGED <<instance, loader, accepting, joinPending, lifecycle, threads, life, clientVars>>

-----------------------------------------------------------------------------
\* What a client does on its own to finish a call.
Proceed(c) ==
  \/ Constructed(c) \/ (pc[c] = "instance" /\ ShutdownBound(c))
  \/ Enqueue(c) \/ CancelLive(c)
  \/ Lock(c) \/ Join(c) \/ TimeOut(c) \/ Reset(c) \/ Release(c)
  \/ CallbackReturns(c)

Finish(c) == Proceed(c) /\ UNCHANGED mayCall
Exit      == ThreadsExit /\ UNCHANGED mayCall

Begin(c) ==
  \/ Construct(c) \/ ShutdownIfCreated(c) \/ ShutdownBound(c) \/ Shutdown(c)
  \/ SetWorkerThreadCount(c) \/ SetPriority(c)
  \/ \E r \in Request : RequestDecoded(c, r) \/ Cancel(c, r)

Next ==
  \/ \E c \in Client : Begin(c) /\ UNCHANGED mayCall
  \/ \E c \in Client : Finish(c)
  \/ \E r \in Request : Deliver(r) /\ UNCHANGED mayCall
  \/ Exit

\* Threads run; a read, a decode or a host callback may keep a decode thread.
Spec == Init /\ [][Next]_vars /\ \A c \in Client : WF_vars(Finish(c))

\* Nothing keeps a decode thread for ever.
ThreadsAreFree == WF_vars(Exit)

-----------------------------------------------------------------------------
(***************************************************************************)
(* Properties.                                                             *)
(***************************************************************************)

\* c's last shutdown call returned, and did not report a timeout.
ShutDownFor(c) == pc[c] = "idle" /\ verdict[c] = TRUE

\* ImageLoader.h on Shutdown(bound): "true when every decode thread was joined
\* within `bound`".
JoinedWhenTrue == \A c \in Client : ShutDownFor(c) => ~threads

Uses(call) == \E c \in Client : call \in mayCall[c]

BoundedOnly == ~Uses("shutdown") /\ ~Uses("setThreadCount")

\* Where only bounded calls shut down it is so: also when several overlap, and
\* after one that timed out.
JoinedByBoundedCalls == BoundedOnly => JoinedWhenTrue

\* A Shutdown has taken the scheduler out of the loader and not reached it yet.
ShutdownArrives == \E c \in Client : pc[c] = "lock" /\ op[c] = "shutdown"

\* ImageLoader.cpp in Shutdown: "a request racing with this sees either the
\* nullptr above or a scheduler that rejects it": once a shutdown returned, not
\* even a request that had copied the scheduler before is accepted.  (Unless that
\* shutdown found nothing because another one is on its way with the scheduler, or a
\* SetWorkerThreadCount that had copied it too restarts it.)
RacingRequestsRejected ==
  [][~Uses("setThreadCount") /\ ~ShutdownArrives /\ (\E c \in Client : ShutDownFor(c)) =>
       \A r \in Request : life'[r] = "live" => life[r] = "live"]_vars

\* README on Shutdown(bound): it "waits at most `bound`", also when a decode
\* thread never exits; where no unbounded call holds the lifecycle mutex.
BoundedReturns ==
  \A c \in Client : (BoundedOnly /\ pc[c] # "idle" /\ Bounded(c)) ~> (pc[c] = "idle")

\* Every call returns if the decode threads can exit: no call waits for a decode
\* thread while a callback on that thread waits for the call or joins itself.
CallsReturn ==
  ThreadsAreFree => \A c \in Client : (pc[c] # "idle") ~> (pc[c] = "idle")

\* No thread outlives the scheduler object it runs in.
ThreadsOwned == threads => loader \/ Holders # {}

Run == INSTANCE SchedulerRun WITH
  stopping <- lifecycle # None,
  busy     <- threads /\ ~exited,
  calling  <- {c \in OnWorker : pc[c] # "idle"}

\* However the loader's calls overlap, what happens to their scheduler is what module
\* SchedulerRun allows, which DecodeScheduler implements: no callback begins in a scheduler
\* that was stopped, no stop ends while one runs, and no restart runs beside the threads
\* of a stop that gave up.
RunsScheduler == Run!Spec
================================================================================
