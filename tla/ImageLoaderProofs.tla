--------------------------- MODULE ImageLoaderProofs ---------------------------
(***************************************************************************)
(* Theorems about ImageLoader: the threads always have an owner, a bounded *)
(* shutdown that answers true joined them, a request that races a finished *)
(* shutdown is rejected, and the scheduler is run as SchedulerRun allows.  *)
(***************************************************************************)
EXTENDS ImageLoader, TLAPS

-----------------------------------------------------------------------------
(***************************************************************************)
(* The inductive invariant.                                                *)
(***************************************************************************)

Place == {"idle", "constructing", "instance", "enqueue", "cancel", "lock", "join", "reset",
          "release", "callback"}
Life  == {"new", "requested", "rejected", "live", "canceled", "delivered", "dropped"}

LoaderTypes ==
  /\ instance \in {"none", "constructing", "ready"}
  /\ loader \in BOOLEAN /\ accepting \in BOOLEAN /\ joinPending \in BOOLEAN
  /\ threads \in BOOLEAN /\ exited \in BOOLEAN
  /\ lifecycle \in Client \cup {None}
  /\ life \in [Request -> Life]
  /\ pc \in [Client -> Place]
  /\ op \in [Client -> Call \cup {"destroy", None}]
  /\ verdict \in [Client -> BOOLEAN \cup {None}]

\* The calls that need the lifecycle mutex.
Locking == {"setThreadCount", "shutdown", "shutdownBound", "shutdownIfCreated"}

\* Where a client is says which call it makes, whether it has the lifecycle mutex, and
\* how far the construction of the loader is.
Located(c) ==
  /\ pc[c] = "join" <=> lifecycle = c
  /\ pc[c] = "constructing" => instance = "constructing"
  /\ pc[c] \in Holding => instance = "ready"
  /\ pc[c] = "instance" => op[c] = "shutdownIfCreated"
  /\ pc[c] = "lock" => op[c] \in Locking
  /\ pc[c] = "join" => op[c] \in Locking \cup {"destroy"}
  /\ op[c] \in {"shutdown", "setThreadCount"} => op[c] \in mayCall[c]

OneConstructs == \A c, d \in Client : pc[c] = "constructing" /\ pc[d] = "constructing" => c = d

\* Threads run while the scheduler accepts requests, is being stopped, or was left by a
\* stop that timed out.
ThreadsKnown ==
  /\ threads <=> accepting \/ joinPending \/ lifecycle # None
  /\ lifecycle # None => ~accepting
  /\ threads => instance = "ready"

\* Without restarts a scheduler that accepts requests is the loader's, or a Shutdown
\* arrives at it; so nobody was told that it is shut down.
OnceShut ==
  ~Uses("setThreadCount") =>
    /\ \A c \in Client : pc[c] = "reset" => ~accepting
    /\ accepting => loader \/ ShutdownArrives
    /\ \A c \in Client : verdict[c] = TRUE =>
         instance # "constructing" /\ (accepting => ShutdownArrives)

\* With bounded calls only, the loader drops the scheduler after all threads were joined.
OnceJoined ==
  BoundedOnly =>
    /\ \A c \in Client : pc[c] = "reset" => ~threads
    /\ threads => loader
    /\ \A c \in Client : verdict[c] = TRUE => instance # "constructing" /\ ~threads

LoaderInv ==
  /\ LoaderTypes
  /\ \A c \in Client : Located(c)
  /\ OneConstructs /\ ThreadsKnown /\ ThreadsOwned /\ OnceShut /\ OnceJoined

-----------------------------------------------------------------------------
(***************************************************************************)
(* Steps.                                                                  *)
(***************************************************************************)

\* The initial states.
LEMMA InitLoader == Init => LoaderInv
<1> SUFFICES ASSUME Init PROVE LoaderInv
  OBVIOUS
<1>1. LoaderTypes
  BY DEF Init, LoaderTypes, Place, Life
<1>2. \A c \in Client : Located(c)
  BY LoaderConstants DEF Init, Located, Holding, Call
<1>3. OneConstructs /\ ThreadsKnown /\ ThreadsOwned
  BY DEF Init, OneConstructs, ThreadsKnown, ThreadsOwned
<1>4. OnceShut /\ OnceJoined
  BY LoaderConstants DEF Init, OnceShut, OnceJoined
<1> QED BY <1>1, <1>2, <1>3, <1>4 DEF LoaderInv

\* A step that leaves the scheduler as it is, of a client that neither waits for the
\* lifecycle mutex nor holds it before or after:
Aside(c, to) ==
  /\ pc[c] \notin {"lock", "join", "constructing", "reset"}
  /\ pc' = [pc EXCEPT ![c] = to]
  /\ to \in Place \ {"lock", "join", "constructing", "reset"}

\* such a step keeps the invariant, if what it leaves without an owner has stopped.
LEMMA AsideInv ==
  ASSUME LoaderInv, NEW c \in Client, NEW to, Aside(c, to),
         UNCHANGED <<mayCall, instance, loader, schedulerVars, verdict>>,
         life' \in [Request -> Life],
         NEW name \in Call \cup {op[c]}, op' = [op EXCEPT ![c] = name],
         name \in mayCall[c] \/ name = op[c],
         to \in Holding => instance = "ready",
         to = "instance" => name = "shutdownIfCreated",
         pc[c] \in Holding => loader \/ to \in Holding \/ NothingToStop \/ Holders # {c}
  PROVE  LoaderInv'
<1> USE DEF schedulerVars
<1>0. /\ pc \in [Client -> Place] /\ op \in [Client -> Call \cup {"destroy", None}]
      /\ \A d \in Client \ {c} : pc'[d] = pc[d] /\ op'[d] = op[d]
      /\ pc'[c] = to /\ op'[c] = name
  BY DEF LoaderInv, LoaderTypes, Aside
<1>1. LoaderTypes'
  BY <1>0 DEF LoaderInv, LoaderTypes, Aside
<1>2. ASSUME NEW d \in Client PROVE Located(d)'
  <2>1. Located(d)
    BY DEF LoaderInv
  <2> QED BY <1>0, <2>1 DEF Located, Aside, Holding
<1>3. OneConstructs'
  BY <1>0 DEF LoaderInv, OneConstructs, Aside
<1>4. ThreadsKnown'
  BY DEF LoaderInv, ThreadsKnown
<1>5. ThreadsOwned'
  <2> SUFFICES ASSUME threads, ~loader PROVE Holders' # {}
    BY DEF ThreadsOwned
  <2>1. \A d \in Client \ {c} : d \in Holders => d \in Holders'
    BY <1>0 DEF Holders
  <2>2. CASE to \in Holding
    BY <1>0, <2>2 DEF Holders
  <2>3. CASE pc[c] \notin Holding
    BY <2>1, <2>3 DEF LoaderInv, ThreadsOwned, Holders
  <2>4. CASE pc[c] \in Holding /\ Holders # {c}
    BY <2>1, <2>4 DEF Holders
  <2>5. CASE NothingToStop
    <3>1. lifecycle # None /\ lifecycle \in Client
      BY <2>5 DEF NothingToStop, LoaderInv, ThreadsKnown, LoaderTypes
    <3>2. pc[lifecycle] = "join"
      BY <3>1 DEF LoaderInv, Located
    <3>3. lifecycle # c /\ lifecycle \in Holders
      BY <3>1, <3>2 DEF Aside, Holders, Holding
    <3> QED BY <2>1, <3>1, <3>3
  <2> QED BY <2>2, <2>3, <2>4, <2>5
<1>6. OnceShut' /\ OnceJoined'
  <2>1. Uses("setThreadCount")' = Uses("setThreadCount") /\ BoundedOnly' = BoundedOnly
    BY DEF Uses, BoundedOnly
  <2>2. ShutdownArrives' = ShutdownArrives
    BY <1>0 DEF ShutdownArrives, Aside
  <2>3. \A d \in Client : pc'[d] = "reset" => pc[d] = "reset"
    BY <1>0 DEF Aside
  <2> QED BY <2>1, <2>2, <2>3 DEF LoaderInv, OnceShut, OnceJoined
<1> QED BY <1>1, <1>2, <1>3, <1>4, <1>5, <1>6 DEF LoaderInv

\* The same for a step within a call.
LEMMA AsideWithin ==
  ASSUME LoaderInv, NEW c \in Client, NEW to, Aside(c, to), to # "instance",
         UNCHANGED <<mayCall, instance, loader, schedulerVars, verdict, op>>,
         life' \in [Request -> Life],
         to \in Holding => instance = "ready",
         pc[c] \in Holding => loader \/ to \in Holding \/ NothingToStop \/ Holders # {c}
  PROVE  LoaderInv'
<1> DEFINE name == op[c]
<1>1. op' = [op EXCEPT ![c] = name]
  BY DEF LoaderInv, LoaderTypes
<1>2. name \in Call \cup {op[c]} /\ (name \in mayCall[c] \/ name = op[c])
  OBVIOUS
<1> HIDE DEF name
<1> QED BY <1>1, <1>2, AsideInv

\* The steps that only use the scheduler, those of callbacks, and a call that returns
\* while it is not the last to refer to a scheduler with something to stop.
LEMMA UseInv ==
  ASSUME LoaderInv, NEW c \in Client, UNCHANGED mayCall,
         \/ \E r \in Request : RequestDecoded(c, r) \/ Cancel(c, r)
         \/ SetPriority(c) \/ Enqueue(c) \/ CancelLive(c) \/ CallbackReturns(c)
         \/ Release(c) /\ ~Destroys(c)
  PROVE  LoaderInv'
<1> USE DEF clientVars
<1>0. /\ pc \in [Client -> Place] /\ op \in [Client -> Call \cup {"destroy", None}]
      /\ life \in [Request -> Life]
  BY DEF LoaderInv, LoaderTypes
<1>2. ASSUME NEW r \in Request, RequestDecoded(c, r) PROVE LoaderInv'
  <2>1. PICK to \in {"enqueue", "idle"} : pc' = [pc EXCEPT ![c] = to]
    BY <1>2 DEF RequestDecoded, Goto
  <2>2. Aside(c, to)
    BY <1>2, <2>1 DEF RequestDecoded, Calls, Aside, Place
  <2>3. /\ UNCHANGED <<mayCall, instance, loader, schedulerVars, verdict>>
        /\ life' \in [Request -> Life] /\ instance = "ready"
        /\ op' = [op EXCEPT ![c] = "request"] /\ "request" \in mayCall[c]
        /\ pc[c] \notin Holding
    BY <1>0, <1>2 DEF RequestDecoded, Calls, Life, Holding
  <2> QED BY <2>1, <2>2, <2>3, AsideInv DEF Call, Holding
<1>3. ASSUME NEW r \in Request, Cancel(c, r) PROVE LoaderInv'
  <2>1. PICK to \in {"cancel", "idle"} : pc' = [pc EXCEPT ![c] = to]
    BY <1>3 DEF Cancel, Goto
  <2>2. Aside(c, to)
    BY <1>3, <2>1 DEF Cancel, Calls, Aside, Place
  <2>3. /\ UNCHANGED <<mayCall, instance, loader, schedulerVars, verdict>>
        /\ life' \in [Request -> Life] /\ instance = "ready"
        /\ op' = [op EXCEPT ![c] = "cancel"] /\ "cancel" \in mayCall[c]
        /\ pc[c] \notin Holding
    BY <1>0, <1>3 DEF Cancel, Calls, Life, Holding
  <2> QED BY <2>1, <2>2, <2>3, AsideInv DEF Call, Holding
<1>4. CASE SetPriority(c)
  <2>1. PICK to \in {"release", "idle"} : pc' = [pc EXCEPT ![c] = to]
    BY <1>4 DEF SetPriority, Goto
  <2>2. Aside(c, to)
    BY <1>4, <2>1 DEF SetPriority, Calls, Aside, Place
  <2>3. /\ UNCHANGED <<mayCall, instance, loader, schedulerVars, verdict>>
        /\ life' \in [Request -> Life] /\ instance = "ready"
        /\ op' = [op EXCEPT ![c] = "setPriority"] /\ "setPriority" \in mayCall[c]
        /\ pc[c] \notin Holding
    BY <1>0, <1>4 DEF SetPriority, Calls, Life, Holding
  <2> QED BY <2>1, <2>2, <2>3, AsideInv DEF Call, Holding
<1>5. CASE Enqueue(c) \/ CancelLive(c)
  <2>1. Aside(c, "release") /\ pc[c] \in Holding
    BY <1>5 DEF Enqueue, CancelLive, Goto, Aside, Place, Holding
  <2>2. /\ UNCHANGED <<mayCall, instance, loader, schedulerVars, verdict, op>>
        /\ instance = "ready"
    BY <1>5, <2>1 DEF Enqueue, CancelLive, LoaderInv, Located
  <2>3. life' \in [Request -> Life]
    BY <1>0, <1>5 DEF Enqueue, CancelLive, Life
  <2> QED BY <2>1, <2>2, <2>3, AsideWithin DEF Holding
<1>6. CASE CallbackReturns(c)
  <2>1. Aside(c, "idle") /\ pc[c] \notin Holding
    BY <1>6 DEF CallbackReturns, Goto, Aside, Place, Holding
  <2>2. /\ UNCHANGED <<mayCall, instance, loader, schedulerVars, verdict, op>>
        /\ life' \in [Request -> Life]
    BY <1>0, <1>6 DEF CallbackReturns
  <2> QED BY <2>1, <2>2, AsideWithin DEF Holding
<1>7. CASE Release(c) /\ ~Destroys(c)
  <2>1. Aside(c, "idle") /\ (loader \/ NothingToStop \/ Holders # {c})
    BY <1>7 DEF Release, Destroys, Goto, Aside, Place, Holding
  <2>2. /\ UNCHANGED <<mayCall, instance, loader, schedulerVars, verdict, op>>
        /\ life' \in [Request -> Life]
    BY <1>0, <1>7 DEF Release, schedulerVars
  <2> QED BY <2>1, <2>2, AsideWithin DEF Holding
<1> QED BY <1>2, <1>3, <1>4, <1>5, <1>6, <1>7

\* Results are delivered, and threads leave.
LEMMA ThreadInv ==
  ASSUME LoaderInv, UNCHANGED mayCall, (\E r \in Request : Deliver(r)) \/ ThreadsExit
  PROVE  LoaderInv'
<1> USE DEF schedulerVars, clientVars
<1>0. /\ pc \in [Client -> Place] /\ op \in [Client -> Call \cup {"destroy", None}]
      /\ life \in [Request -> Life]
  BY DEF LoaderInv, LoaderTypes
<1>1. ASSUME UNCHANGED <<mayCall, instance, loader, accepting, joinPending, lifecycle, threads,
                         pc, op, verdict>>,
             life' \in [Request -> Life], exited' \in BOOLEAN
      PROVE  LoaderInv'
  <2>1. LoaderTypes' /\ (\A c \in Client : Located(c)') /\ OneConstructs' /\ ThreadsKnown'
    BY <1>1 DEF LoaderInv, LoaderTypes, Located, OneConstructs, ThreadsKnown
  <2>2. ThreadsOwned'
    BY <1>1 DEF LoaderInv, ThreadsOwned, Holders
  <2>3. OnceShut' /\ OnceJoined'
    BY <1>1 DEF LoaderInv, OnceShut, OnceJoined, Uses, BoundedOnly, ShutdownArrives
  <2> QED BY <2>1, <2>2, <2>3 DEF LoaderInv
<1>2. ASSUME NEW r \in Request, Deliver(r) PROVE LoaderInv'
  <2>1. /\ UNCHANGED <<mayCall, instance, loader, schedulerVars, verdict, op>>
        /\ life' \in [Request -> Life] /\ exited \in BOOLEAN
    BY <1>0, <1>2 DEF Deliver, Life, LoaderInv, LoaderTypes
  <2>2. CASE UNCHANGED pc
    BY <1>1, <2>1, <2>2
  <2>3. ASSUME NEW c \in OnWorker, pc[c] = "idle", Goto(c, "callback") PROVE LoaderInv'
    <3>1. c \in Client /\ Aside(c, "callback") /\ pc[c] \notin Holding
      BY <2>3, LoaderConstants DEF Goto, Aside, Place, Holding
    <3>2. pc[c] \notin Holding /\ "callback" \notin Holding /\ "callback" # "instance"
      BY <3>1 DEF Holding
    <3> QED BY <2>1, <3>1, <3>2, AsideWithin
  <2> QED BY <1>2, <2>2, <2>3 DEF Deliver
<1>3. CASE ThreadsExit
  BY <1>0, <1>1, <1>3 DEF ThreadsExit
<1> QED BY <1>2, <1>3

-----------------------------------------------------------------------------
(***************************************************************************)
(* Construction, and the calls that stop the scheduler.                    *)
(***************************************************************************)

\* The first Instance() call,
LEMMA ConstructInv ==
  ASSUME LoaderInv, NEW c \in Client, UNCHANGED mayCall, Construct(c) PROVE LoaderInv'
<1> USE DEF schedulerVars
<1>0. /\ pc[c] = "idle" /\ pc' = [pc EXCEPT ![c] = "constructing"]
      /\ instance = "none" /\ instance' = "constructing" /\ \A d \in Client : verdict[d] = None
      /\ UNCHANGED <<loader, schedulerVars, life, op, arg, verdict, calls, mayCall>>
  BY DEF Construct, Goto
<1>1. /\ LoaderTypes /\ ~threads
      /\ \A d \in Client : pc'[d] = IF d = c THEN "constructing" ELSE pc[d]
  BY <1>0 DEF LoaderInv, LoaderTypes, ThreadsKnown
<1>2. LoaderTypes'
  BY <1>0, <1>1 DEF LoaderTypes, Place
<1>3. ASSUME NEW d \in Client PROVE Located(d)'
  <2>1. Located(d)
    BY DEF LoaderInv
  <2> QED BY <1>0, <1>1, <2>1 DEF Located, Holding
<1>4. OneConstructs'
  <2>1. \A d \in Client : pc[d] # "constructing"
    BY <1>0 DEF LoaderInv, Located
  <2> QED BY <1>1, <2>1 DEF OneConstructs
<1>5. ThreadsKnown' /\ ThreadsOwned'
  BY <1>0, <1>1 DEF LoaderInv, ThreadsKnown, ThreadsOwned
<1>6. OnceShut' /\ OnceJoined'
  <2>1. ~accepting /\ \A d \in Client : verdict'[d] # TRUE
    BY <1>0, <1>1, LoaderConstants DEF LoaderInv, ThreadsKnown
  <2> QED BY <1>0, <1>1, <2>1 DEF OnceShut, OnceJoined
<1> QED BY <1>2, <1>3, <1>4, <1>5, <1>6 DEF LoaderInv

\* and its end.
LEMMA ConstructedInv ==
  ASSUME LoaderInv, NEW c \in Client, UNCHANGED mayCall, Constructed(c) PROVE LoaderInv'
<1>0. /\ pc[c] = "constructing" /\ pc' = [pc EXCEPT ![c] = "idle"]
      /\ instance' = "ready" /\ loader' = TRUE /\ accepting' = TRUE /\ threads' = TRUE
      /\ UNCHANGED <<joinPending, lifecycle, exited, life, op, arg, verdict, calls, mayCall>>
  BY DEF Constructed, Goto
<1>1. /\ LoaderTypes /\ instance = "constructing"
      /\ \A d \in Client : pc'[d] = IF d = c THEN "idle" ELSE pc[d]
  BY <1>0 DEF LoaderInv, LoaderTypes, Located
<1>2. LoaderTypes'
  BY <1>0, <1>1 DEF LoaderTypes, Place
<1>3. ASSUME NEW d \in Client PROVE Located(d)'
  <2>1. Located(d) /\ (d # c => pc[d] # "constructing")
    BY <1>0 DEF LoaderInv, OneConstructs
  <2> QED BY <1>0, <1>1, <2>1 DEF Located, Holding
<1>4. OneConstructs'
  BY <1>0, <1>1 DEF LoaderInv, OneConstructs
<1>5. ThreadsKnown' /\ ThreadsOwned'
  <2>1. lifecycle = None
    BY <1>0, <1>1 DEF LoaderInv, LoaderTypes, Located, Holding
  <2> QED BY <1>0, <1>1, <2>1 DEF LoaderInv, ThreadsKnown, ThreadsOwned
<1>6. OnceShut' /\ OnceJoined'
  <2>1. \A d \in Client : pc'[d] # "reset"
    BY <1>0, <1>1 DEF LoaderInv, Located, Holding
  <2>2. /\ Uses("setThreadCount")' = Uses("setThreadCount") /\ BoundedOnly' = BoundedOnly
        /\ \A d \in Client : verdict'[d] = verdict[d]
    BY <1>0 DEF Uses, BoundedOnly
  <2> QED BY <1>0, <1>1, <2>1, <2>2 DEF LoaderInv, OnceShut, OnceJoined
<1> QED BY <1>2, <1>3, <1>4, <1>5, <1>6 DEF LoaderInv

\* What a call by c leaves of the others.
LEMMA OthersStay ==
  ASSUME LoaderInv, NEW c \in Client, UNCHANGED mayCall,
         NEW to \in Place, pc' = [pc EXCEPT ![c] = to],
         NEW name \in Call \cup {"destroy", None}, op' = [op EXCEPT ![c] = name],
         NEW value \in BOOLEAN \cup {None}, verdict' = [verdict EXCEPT ![c] = value]
  PROVE  /\ pc' \in [Client -> Place] /\ pc'[c] = to
         /\ op' \in [Client -> Call \cup {"destroy", None}] /\ op'[c] = name
         /\ verdict' \in [Client -> BOOLEAN \cup {None}] /\ verdict'[c] = value
         /\ \A d \in Client \ {c} : pc'[d] = pc[d] /\ op'[d] = op[d] /\ verdict'[d] = verdict[d]
         /\ Uses("setThreadCount")' = Uses("setThreadCount") /\ BoundedOnly' = BoundedOnly
BY DEF LoaderInv, LoaderTypes, Uses, BoundedOnly

\* ShutdownIfCreated finds no loader, or goes on to Shutdown(bound).
LEMMA ShutdownIfCreatedInv ==
  ASSUME LoaderInv, NEW c \in Client, UNCHANGED mayCall, ShutdownIfCreated(c) PROVE LoaderInv'
<1> USE DEF schedulerVars
<1> DEFINE to    == IF instance = "none" THEN "idle" ELSE "instance"
           value == IF instance = "none" THEN TRUE ELSE None
<1>0. /\ pc[c] \in {"idle", "callback"} /\ pc' = [pc EXCEPT ![c] = to]
      /\ op' = [op EXCEPT ![c] = "shutdownIfCreated"]
      /\ verdict' = [verdict EXCEPT ![c] = value]
      /\ UNCHANGED <<instance, loader, schedulerVars, life, mayCall>>
  BY DEF ShutdownIfCreated, Calls, Goto, Answer
<1>1. /\ to \in {"idle", "instance"} /\ value \in {TRUE, None}
      /\ to = "instance" => value = None
      /\ value = TRUE => instance = "none"
  BY LoaderConstants
<1> HIDE DEF to, value
<1>2. /\ pc' \in [Client -> Place] /\ pc'[c] = to
      /\ op' \in [Client -> Call \cup {"destroy", None}] /\ op'[c] = "shutdownIfCreated"
      /\ verdict' \in [Client -> BOOLEAN \cup {None}] /\ verdict'[c] = value
      /\ \A d \in Client \ {c} : pc'[d] = pc[d] /\ op'[d] = op[d] /\ verdict'[d] = verdict[d]
      /\ Uses("setThreadCount")' = Uses("setThreadCount") /\ BoundedOnly' = BoundedOnly
  BY <1>0, <1>1, OthersStay, ZenonT(60) DEF Place, Call
<1>3. LoaderTypes'
  BY <1>0, <1>2 DEF LoaderInv, LoaderTypes
<1>4. ASSUME NEW d \in Client PROVE Located(d)'
  <2>1. Located(d)
    BY DEF LoaderInv
  <2> QED BY <1>0, <1>1, <1>2, <2>1 DEF Located, Holding
<1>5. OneConstructs' /\ ThreadsKnown'
  BY <1>0, <1>1, <1>2 DEF LoaderInv, OneConstructs, ThreadsKnown
<1>6. ThreadsOwned'
  <2>1. Holders' = Holders
    BY <1>0, <1>1, <1>2 DEF Holders, Holding
  <2> QED BY <1>0, <2>1 DEF LoaderInv, ThreadsOwned
<1>7. OnceShut' /\ OnceJoined'
  <2>1. ShutdownArrives' = ShutdownArrives
    BY <1>0, <1>1, <1>2 DEF ShutdownArrives
  <2>2. instance = "none" => ~threads /\ ~accepting
    BY DEF LoaderInv, ThreadsKnown
  <2>3. \A d \in Client : verdict'[d] = TRUE => verdict[d] = TRUE \/ instance = "none"
    BY <1>1, <1>2, LoaderConstants
  <2>4. \A d \in Client : pc'[d] = "reset" => pc[d] = "reset"
    BY <1>0, <1>1, <1>2
  <2> QED BY <1>0, <1>2, <2>1, <2>2, <2>3, <2>4 DEF LoaderInv, OnceShut, OnceJoined
<1> QED BY <1>3, <1>4, <1>5, <1>6, <1>7 DEF LoaderInv

\* A lifecycle call takes its copy of the scheduler, or finds none.
LEMMA ArriveInv ==
  ASSUME LoaderInv, NEW c \in Client, pc[c] \in {"idle", "callback", "instance"},
         UNCHANGED <<mayCall, instance, schedulerVars, life>>, instance = "ready",
         NEW to, to = (IF loader THEN "lock" ELSE "idle"), pc' = [pc EXCEPT ![c] = to],
         NEW name \in Locking, op' = [op EXCEPT ![c] = name],
         name \in mayCall[c] \/ name = "shutdownIfCreated",
         NEW value \in BOOLEAN \cup {None}, verdict' = [verdict EXCEPT ![c] = value],
         value = TRUE => ~loader \/ verdict[c] = TRUE,
         UNCHANGED loader \/ (name = "shutdown" /\ loader' = FALSE)
  PROVE  LoaderInv'
<1> USE DEF schedulerVars
<1>1. to \in Place /\ to \in {"lock", "idle"} /\ name \in Call \cup {"destroy", None}
  BY DEF Place, Locking, Call
<1>2. /\ pc' \in [Client -> Place] /\ pc'[c] = to
      /\ op' \in [Client -> Call \cup {"destroy", None}] /\ op'[c] = name
      /\ verdict' \in [Client -> BOOLEAN \cup {None}] /\ verdict'[c] = value
      /\ \A d \in Client \ {c} : pc'[d] = pc[d] /\ op'[d] = op[d] /\ verdict'[d] = verdict[d]
      /\ Uses("setThreadCount")' = Uses("setThreadCount") /\ BoundedOnly' = BoundedOnly
  BY <1>1, OthersStay
<1>3. LoaderTypes'
  BY <1>2 DEF LoaderInv, LoaderTypes
<1>4. ASSUME NEW d \in Client PROVE Located(d)'
  <2>1. Located(d)
    BY DEF LoaderInv
  <2> QED BY <1>1, <1>2, <2>1 DEF Located, Holding, Locking
<1>5. OneConstructs' /\ ThreadsKnown'
  BY <1>1, <1>2 DEF LoaderInv, OneConstructs, ThreadsKnown
<1>6. ThreadsOwned'
  <2>1. CASE loader
    <3>1. c \in Holders'
      BY <1>2, <2>1 DEF Holders, Holding
    <3> QED BY <3>1 DEF ThreadsOwned
  <2>2. CASE ~loader
    <3>1. Holders \subseteq Holders'
      BY <1>2 DEF Holders, Holding
    <3> QED BY <2>2, <3>1 DEF LoaderInv, ThreadsOwned
  <2> QED BY <2>1, <2>2
<1>7. OnceShut' /\ OnceJoined'
  <2>1. ShutdownArrives => ShutdownArrives'
    BY <1>2 DEF ShutdownArrives
  <2>2. ASSUME loader, ~loader' PROVE ShutdownArrives' /\ ~BoundedOnly
    <3>1. to = "lock" /\ name = "shutdown" /\ "shutdown" \in mayCall[c]
      BY <2>2
    <3>2. pc'[c] = "lock" /\ op'[c] = "shutdown"
      BY <1>2, <3>1
    <3>3. Uses("shutdown")
      BY <3>1 DEF Uses
    <3> QED BY <3>2, <3>3 DEF ShutdownArrives, BoundedOnly
  <2>3. \A d \in Client : verdict'[d] = TRUE => verdict[d] = TRUE \/ ~loader
    BY <1>2
  <2>4. \A d \in Client : pc'[d] = "reset" => pc[d] = "reset"
    BY <1>1, <1>2
  <2>5. OnceShut'
    BY <1>2, <2>1, <2>2, <2>3, <2>4 DEF LoaderInv, OnceShut
  <2>6. OnceJoined'
    BY <1>2, <2>2, <2>3, <2>4 DEF LoaderInv, OnceJoined
  <2> QED BY <2>5, <2>6
<1> QED BY <1>3, <1>4, <1>5, <1>6, <1>7 DEF LoaderInv

\* The lifecycle calls up to the mutex.
LEMMA CallLockInv ==
  ASSUME LoaderInv, NEW c \in Client, UNCHANGED mayCall,
         SetWorkerThreadCount(c) \/ Shutdown(c) \/ ShutdownBound(c)
  PROVE  LoaderInv'
<1> DEFINE to == IF loader THEN "lock" ELSE "idle"
           told == IF loader THEN None ELSE TRUE
<1>0. /\ pc \in [Client -> Place] /\ op \in [Client -> Call \cup {"destroy", None}]
      /\ verdict \in [Client -> BOOLEAN \cup {None}] /\ loader \in BOOLEAN
      /\ pc[c] = "instance" => op[c] = "shutdownIfCreated"
      /\ told \in BOOLEAN \cup {None} /\ (told = TRUE => ~loader)
  BY LoaderConstants DEF LoaderInv, LoaderTypes, Located
<1>1. ASSUME SetWorkerThreadCount(c) PROVE LoaderInv'
  <2>1. /\ pc[c] \in {"idle", "callback", "instance"}
        /\ UNCHANGED <<mayCall, instance, schedulerVars, life>> /\ instance = "ready"
        /\ pc' = [pc EXCEPT ![c] = to] /\ op' = [op EXCEPT ![c] = "setThreadCount"]
        /\ "setThreadCount" \in mayCall[c] /\ UNCHANGED <<loader, verdict>>
    BY <1>1 DEF SetWorkerThreadCount, Calls, Goto
  <2> DEFINE value == verdict[c]
  <2>2. value \in BOOLEAN \cup {None} /\ verdict' = [verdict EXCEPT ![c] = value]
    BY <1>0, <2>1
  <2>3. value = TRUE => ~loader \/ verdict[c] = TRUE
    OBVIOUS
  <2>4. "setThreadCount" \in Locking
    BY DEF Locking
  <2> HIDE DEF value
  <2> QED BY <2>1, <2>2, <2>3, <2>4, ArriveInv
<1>2. ASSUME Shutdown(c) PROVE LoaderInv'
  <2>1. /\ pc[c] \in {"idle", "callback", "instance"}
        /\ UNCHANGED <<mayCall, instance, schedulerVars, life>> /\ instance = "ready"
        /\ pc' = [pc EXCEPT ![c] = to] /\ op' = [op EXCEPT ![c] = "shutdown"]
        /\ "shutdown" \in mayCall[c] /\ loader' = FALSE
        /\ verdict' = [verdict EXCEPT ![c] = told]
    BY <1>2 DEF Shutdown, Calls, Goto, Answer
  <2>2. "shutdown" \in Locking
    BY DEF Locking
  <2> HIDE DEF told
  <2> QED BY <1>0, <2>1, <2>2, ArriveInv
<1>3. ASSUME ShutdownBound(c) PROVE LoaderInv'
  <2>1. PICK name \in {"shutdownBound", "shutdownIfCreated"} :
          /\ pc[c] \in {"idle", "callback", "instance"}
          /\ op' = [op EXCEPT ![c] = name]
          /\ name \in mayCall[c] \/ name = "shutdownIfCreated"
    BY <1>0, <1>3 DEF ShutdownBound, Calls
  <2>2. /\ UNCHANGED <<mayCall, instance, schedulerVars, life, loader>> /\ instance = "ready"
        /\ pc' = [pc EXCEPT ![c] = to]
        /\ verdict' = [verdict EXCEPT ![c] = told]
    BY <1>3 DEF ShutdownBound, Goto, Answer
  <2>3. name \in Locking
    BY DEF Locking
  <2> HIDE DEF told
  <2> QED BY <1>0, <2>1, <2>2, <2>3, ArriveInv
<1> QED BY <1>1, <1>2, <1>3

-----------------------------------------------------------------------------
(***************************************************************************)
(* Under the lifecycle mutex.                                              *)
(***************************************************************************)

\* What the steps of a call that reached the mutex have in common: the call gets the
\* mutex, has it or gives it back; the threads stay, or they are joined.
LEMMA TurnInv ==
  ASSUME LoaderInv, NEW c \in Client, pc[c] \in Holding, UNCHANGED <<mayCall, instance>>,
         NEW to \in {"join", "reset", "release", "idle"}, pc' = [pc EXCEPT ![c] = to],
         NEW name \in {op[c], "destroy"}, op' = [op EXCEPT ![c] = name],
         to = "join" => name \in Locking \cup {"destroy"},
         NEW value \in BOOLEAN \cup {None}, verdict' = [verdict EXCEPT ![c] = value],
         lifecycle \in {None, c}, lifecycle' = (IF to = "join" THEN c ELSE None),
         loader' \in BOOLEAN, accepting' \in BOOLEAN, joinPending' \in BOOLEAN,
         threads' \in BOOLEAN, exited' \in BOOLEAN, life' \in [Request -> Life],
         threads' <=> accepting' \/ joinPending' \/ to = "join",
         to = "join" => ~accepting', to = "idle" => ~threads',
         Uses("setThreadCount") \/ ~accepting',
         \/ ~BoundedOnly \/ ~threads'
         \/ UNCHANGED <<loader, threads>> /\ to # "reset" /\ (value = TRUE => verdict[c] = TRUE)
  PROVE  LoaderInv'
<1>1. to \in Place /\ name \in Call \cup {"destroy", None} /\ c # None
  BY LoaderConstants DEF Place, LoaderInv, LoaderTypes
<1>2. /\ pc' \in [Client -> Place] /\ pc'[c] = to
      /\ op' \in [Client -> Call \cup {"destroy", None}] /\ op'[c] = name
      /\ verdict' \in [Client -> BOOLEAN \cup {None}] /\ verdict'[c] = value
      /\ \A d \in Client \ {c} : pc'[d] = pc[d] /\ op'[d] = op[d] /\ verdict'[d] = verdict[d]
      /\ Uses("setThreadCount")' = Uses("setThreadCount") /\ BoundedOnly' = BoundedOnly
  BY <1>1, OthersStay
<1>3. instance = "ready"
  BY DEF LoaderInv, Located
<1>4. LoaderTypes'
  BY <1>2 DEF LoaderInv, LoaderTypes
<1>5. ASSUME NEW d \in Client PROVE Located(d)'
  <2>1. Located(d) /\ Located(c)
    BY DEF LoaderInv
  <2>2. CASE d = c
    BY <1>1, <1>2, <1>3, <2>1, <2>2 DEF Located, Holding
  <2>3. CASE d # c
    BY <1>1, <1>2, <2>1, <2>3, LoaderConstants DEF Located
  <2> QED BY <2>2, <2>3
<1>6. OneConstructs'
  BY <1>2 DEF LoaderInv, OneConstructs
<1>7. ThreadsKnown'
  BY <1>1, <1>3 DEF ThreadsKnown
<1>8. ThreadsOwned'
  BY <1>2 DEF ThreadsOwned, Holders, Holding
<1>9. OnceShut'
  BY <1>2, <1>3 DEF OnceShut
<1>10. OnceJoined'
  BY <1>2, <1>3 DEF LoaderInv, OnceJoined
<1> QED BY <1>4, <1>5, <1>6, <1>7, <1>8, <1>9, <1>10 DEF LoaderInv

\* A call that joined all threads, or found a stopped scheduler to restart.
LEMMA StoppedInv ==
  ASSUME LoaderInv, NEW c \in Client, Stopped(c),
         UNCHANGED <<mayCall, instance, loader, life, op>>,
         \/ pc[c] = "join"
         \/ pc[c] = "lock" /\ lifecycle = None /\ op[c] = "setThreadCount"
  PROVE  LoaderInv'
<1> DEFINE to    == CASE op[c] = "destroy" -> "idle" [] Bounded(c) -> "reset" [] OTHER -> "release"
           name  == op[c]
           value == IF op[c] = "shutdown" THEN TRUE ELSE verdict[c]
           again == op[c] = "setThreadCount"
<1>1. LoaderTypes /\ Located(c) /\ pc[c] \in Holding
  BY DEF LoaderInv, Holding
<1>2. /\ to \in {"idle", "reset", "release"} /\ pc' = [pc EXCEPT ![c] = to]
      /\ to = "idle" => op[c] = "destroy"
  BY DEF Stopped, Goto, Bounded
<1>3. op' = [op EXCEPT ![c] = name] /\ name \in {op[c], "destroy"}
  BY <1>1 DEF LoaderTypes
<1>4. value \in BOOLEAN \cup {None} /\ verdict' = [verdict EXCEPT ![c] = value]
  BY <1>1 DEF LoaderTypes, Stopped
<1>5. lifecycle \in {None, c} /\ lifecycle' = None
  BY <1>1 DEF Located, Stopped
<1>6. /\ accepting' = again /\ threads' = again /\ joinPending' = FALSE /\ exited' \in BOOLEAN
      /\ again \in BOOLEAN
  BY <1>1 DEF Stopped, LoaderTypes
<1>7. again => Uses("setThreadCount") /\ ~BoundedOnly /\ to # "idle"
  <2>1. again => "setThreadCount" \in mayCall[c]
    BY <1>1 DEF Located
  <2> QED BY <1>2, <2>1 DEF Uses, BoundedOnly
<1>8. loader' \in BOOLEAN /\ life' \in [Request -> Life]
  BY <1>1 DEF LoaderTypes
<1> HIDE DEF to, name, value, again
<1>9. /\ to \in {"join", "reset", "release", "idle"} /\ to # "join"
      /\ to = "join" => name \in Locking \cup {"destroy"}
      /\ to = "join" => ~accepting'
      /\ to = "idle" => ~threads'
      /\ lifecycle' = (IF to = "join" THEN c ELSE None)
      /\ threads' <=> accepting' \/ joinPending' \/ to = "join"
      /\ accepting' \in BOOLEAN /\ threads' \in BOOLEAN /\ joinPending' \in BOOLEAN
      /\ Uses("setThreadCount") \/ ~accepting'
      /\ ~BoundedOnly \/ ~threads'
  BY <1>2, <1>5, <1>6, <1>7
<1> QED BY <1>1, <1>2, <1>3, <1>4, <1>5, <1>6, <1>8, <1>9, TurnInv

\* A call that stops the scheduler, to wait for its threads.
LEMMA StopInv ==
  ASSUME LoaderInv, NEW c \in Client, pc[c] \in Holding,
         lifecycle = None, ~NothingToStop,
         lifecycle' = c, accepting' = FALSE, life' = Dropped,
         pc' = [pc EXCEPT ![c] = "join"],
         NEW name \in {op[c], "destroy"}, op' = [op EXCEPT ![c] = name],
         name \in Locking \cup {"destroy"},
         UNCHANGED <<mayCall, instance, loader, joinPending, threads, exited, verdict>>
  PROVE  LoaderInv'
<1> DEFINE to    == "join"
           value == verdict[c]
<1>1. LoaderTypes /\ threads
  BY DEF LoaderInv, ThreadsKnown, NothingToStop
<1>2. life' \in [Request -> Life]
  BY <1>1 DEF LoaderTypes, Dropped, Life
<1>3. value \in BOOLEAN \cup {None} /\ verdict' = [verdict EXCEPT ![c] = value]
  BY <1>1 DEF LoaderTypes
<1>4. /\ to \in {"join", "reset", "release", "idle"} /\ pc' = [pc EXCEPT ![c] = to]
      /\ to = "join" => name \in Locking \cup {"destroy"}
      /\ to = "join" => ~accepting'
      /\ to = "idle" => ~threads'
      /\ lifecycle \in {None, c} /\ lifecycle' = (IF to = "join" THEN c ELSE None)
      /\ threads' <=> accepting' \/ joinPending' \/ to = "join"
      /\ to # "reset" /\ (value = TRUE => verdict[c] = TRUE)
      /\ Uses("setThreadCount") \/ ~accepting'
      /\ loader' \in BOOLEAN /\ accepting' \in BOOLEAN /\ joinPending' \in BOOLEAN
      /\ threads' \in BOOLEAN /\ exited' \in BOOLEAN
  BY <1>1 DEF LoaderTypes
<1> HIDE DEF to, value
<1> QED BY <1>2, <1>3, <1>4, TurnInv, ZenonT(60)

\* A call that leaves the threads to what they are: it gives up, finds nothing to stop,
\* or drops the loader's reference after the join.
LEMMA LeaveInv ==
  ASSUME LoaderInv, NEW c \in Client, pc[c] \in {"lock", "reset"},
         UNCHANGED <<mayCall, instance, schedulerVars, life, op>>,
         NEW to \in {"reset", "release"}, pc' = [pc EXCEPT ![c] = to],
         NEW value \in BOOLEAN \cup {None}, verdict' = [verdict EXCEPT ![c] = value],
         UNCHANGED loader \/ (pc[c] = "reset" /\ loader' = FALSE),
         \/ op[c] = "setThreadCount" /\ pc[c] = "lock" /\ to = "release" /\ value = verdict[c]
         \/ ~accepting /\ ~threads
         \/ pc[c] = "reset" /\ to = "release"
  PROVE  LoaderInv'
<1> USE DEF schedulerVars
<1>1. to \in Place /\ op[c] \in Call \cup {"destroy", None}
  BY DEF Place, LoaderInv, LoaderTypes
<1>2. op' = [op EXCEPT ![c] = op[c]]
  BY DEF LoaderInv, LoaderTypes
<1>3. /\ pc' \in [Client -> Place] /\ pc'[c] = to
      /\ verdict' \in [Client -> BOOLEAN \cup {None}] /\ verdict'[c] = value
      /\ \A d \in Client \ {c} : pc'[d] = pc[d] /\ verdict'[d] = verdict[d]
      /\ Uses("setThreadCount")' = Uses("setThreadCount") /\ BoundedOnly' = BoundedOnly
  <2> DEFINE name == op[c]
  <2>1. name \in Call \cup {"destroy", None} /\ op' = [op EXCEPT ![c] = name]
    BY <1>1, <1>2
  <2> HIDE DEF name
  <2> QED BY <1>1, <2>1, OthersStay
<1>4. instance = "ready" /\ Located(c)
  BY DEF LoaderInv, Located, Holding
<1>5. LoaderTypes'
  BY <1>3 DEF LoaderInv, LoaderTypes
<1>6. ASSUME NEW d \in Client PROVE Located(d)'
  <2>1. Located(d)
    BY DEF LoaderInv
  <2> QED BY <1>3, <1>4, <2>1 DEF Located, Holding
<1>7. OneConstructs' /\ ThreadsKnown'
  BY <1>3 DEF LoaderInv, OneConstructs, ThreadsKnown
<1>8. ThreadsOwned'
  BY <1>3 DEF ThreadsOwned, Holders, Holding
<1>9. OnceShut'
  <2> SUFFICES ASSUME ~Uses("setThreadCount") PROVE ~accepting'
    BY <1>3, <1>4 DEF OnceShut
  <2>1. op[c] # "setThreadCount"
    BY <1>4 DEF Located, Uses
  <2> QED BY <2>1 DEF LoaderInv, OnceShut
<1>10. OnceJoined'
  <2> SUFFICES ASSUME BoundedOnly PROVE ~threads'
    BY <1>3, <1>4 DEF OnceJoined
  <2>1. op[c] # "setThreadCount"
    BY <1>4 DEF Located, Uses, BoundedOnly
  <2> QED BY <2>1 DEF LoaderInv, OnceJoined
<1> QED BY <1>5, <1>6, <1>7, <1>8, <1>9, <1>10 DEF LoaderInv

\* The lifecycle mutex is free,
LEMMA LockInv ==
  ASSUME LoaderInv, NEW c \in Client, UNCHANGED mayCall, Lock(c) PROVE LoaderInv'
<1>1. /\ pc[c] = "lock" /\ lifecycle = None
      /\ UNCHANGED <<mayCall, instance, loader, op, arg, calls>>
  BY DEF Lock
<1>2. /\ LoaderTypes /\ Located(c) /\ pc[c] \in Holding /\ op[c] \in Locking
  BY <1>1 DEF LoaderInv, Located, Holding
<1> USE DEF GivesUp
<1>3. CASE GivesUp(c)
  <2> DEFINE to    == "release"
             value == verdict[c]
  <2>1. /\ to \in {"reset", "release"} /\ pc' = [pc EXCEPT ![c] = to]
        /\ UNCHANGED <<schedulerVars, life, verdict>>
    BY <1>3 DEF Lock, Goto
  <2>2. value \in BOOLEAN \cup {None} /\ verdict' = [verdict EXCEPT ![c] = value]
    BY <1>2, <2>1 DEF LoaderTypes
  <2>3. op[c] = "setThreadCount" /\ pc[c] = "lock" /\ to = "release" /\ value = verdict[c]
    BY <1>1, <1>3
  <2> HIDE DEF to, value
  <2> QED BY <1>1, <2>1, <2>2, <2>3, LeaveInv
<1>4. CASE ~GivesUp(c) /\ NothingToStop
  <2>1. CASE op[c] = "setThreadCount"
    <3>1. Stopped(c) /\ UNCHANGED life
      BY <1>4, <2>1 DEF Lock
    <3> QED BY <1>1, <2>1, <3>1, StoppedInv
  <2>2. CASE op[c] # "setThreadCount"
    <3> DEFINE to    == IF Bounded(c) THEN "reset" ELSE "release"
               value == IF Bounded(c) THEN verdict[c] ELSE TRUE
    <3>1. /\ to \in {"reset", "release"} /\ pc' = [pc EXCEPT ![c] = to]
          /\ UNCHANGED <<schedulerVars, life>>
      BY <1>4, <2>2 DEF Lock, Goto
    <3>2. value \in BOOLEAN \cup {None} /\ verdict' = [verdict EXCEPT ![c] = value]
      BY <1>2, <1>4, <2>2 DEF LoaderTypes, Lock
    <3>3. ~accepting /\ ~threads
      BY <1>1, <1>4 DEF NothingToStop, LoaderInv, ThreadsKnown
    <3> HIDE DEF to, value
    <3> QED BY <1>1, <3>1, <3>2, <3>3, LeaveInv
  <2> QED BY <2>1, <2>2
<1>5. CASE ~GivesUp(c) /\ ~NothingToStop
  <2> DEFINE name == op[c]
  <2>1. /\ lifecycle' = c /\ accepting' = FALSE /\ life' = Dropped
        /\ pc' = [pc EXCEPT ![c] = "join"]
        /\ UNCHANGED <<joinPending, threads, exited, verdict>>
    BY <1>5 DEF Lock, Goto
  <2>2. name \in {op[c], "destroy"} /\ op' = [op EXCEPT ![c] = name] /\ name \in Locking \cup {"destroy"}
    BY <1>1, <1>2 DEF LoaderTypes
  <2> HIDE DEF name
  <2> QED BY <1>1, <1>2, <1>5, <2>1, <2>2, StopInv
<1> QED BY <1>3, <1>4, <1>5

\* the bound of a call runs out,
LEMMA TimeOutInv ==
  ASSUME LoaderInv, NEW c \in Client, UNCHANGED mayCall, TimeOut(c) PROVE LoaderInv'
<1> DEFINE to    == "release"
           name  == op[c]
           value == FALSE
<1>1. /\ pc[c] = "join" /\ pc' = [pc EXCEPT ![c] = to]
      /\ verdict' = [verdict EXCEPT ![c] = value]
      /\ lifecycle' = None /\ joinPending' = TRUE
      /\ UNCHANGED <<mayCall, instance, loader, accepting, threads, exited, life, op, arg, calls>>
  BY DEF TimeOut, Goto, Answer, KeepsLoader
<1>2. LoaderTypes /\ lifecycle = c /\ c # None /\ threads /\ ~accepting
  BY <1>1, LoaderConstants DEF LoaderInv, Located, ThreadsKnown
<1>3. name \in {op[c], "destroy"} /\ op' = [op EXCEPT ![c] = name]
  BY <1>1, <1>2 DEF LoaderTypes
<1>4. /\ to \in {"join", "reset", "release", "idle"} /\ pc[c] \in Holding
      /\ value \in BOOLEAN \cup {None}
      /\ to = "join" => name \in Locking \cup {"destroy"}
      /\ to = "join" => ~accepting'
      /\ to = "idle" => ~threads'
      /\ lifecycle \in {None, c} /\ lifecycle' = (IF to = "join" THEN c ELSE None)
      /\ threads' <=> accepting' \/ joinPending' \/ to = "join"
      /\ UNCHANGED <<loader, threads>> /\ to # "reset" /\ (value = TRUE => verdict[c] = TRUE)
      /\ Uses("setThreadCount") \/ ~accepting'
      /\ loader' \in BOOLEAN /\ accepting' \in BOOLEAN /\ joinPending' \in BOOLEAN
      /\ threads' \in BOOLEAN /\ exited' \in BOOLEAN /\ life' \in [Request -> Life]
  BY <1>1, <1>2 DEF LoaderTypes, Holding
<1> HIDE DEF to, value, name
<1> QED BY <1>1, <1>3, <1>4, TurnInv

\* The bounded shutdown drops the loader's reference once all threads were joined,
LEMMA ResetInv ==
  ASSUME LoaderInv, NEW c \in Client, UNCHANGED mayCall, Reset(c) PROVE LoaderInv'
<1> DEFINE to    == "release"
           value == TRUE
<1>1. /\ pc[c] = "reset" /\ pc' = [pc EXCEPT ![c] = to] /\ loader' = FALSE
      /\ verdict' = [verdict EXCEPT ![c] = value]
      /\ UNCHANGED <<mayCall, instance, schedulerVars, life, op>>
      /\ to \in {"reset", "release"} /\ to = "release" /\ value \in BOOLEAN \cup {None}
  BY DEF Reset, Goto, Answer
<1> HIDE DEF to, value
<1> QED BY <1>1, LeaveInv

\* and the last reference of all destroys a scheduler that has something to stop.
LEMMA DestroyInv ==
  ASSUME LoaderInv, NEW c \in Client, UNCHANGED mayCall, Release(c), Destroys(c)
  PROVE  LoaderInv'
<1> DEFINE name == "destroy"
<1>1. /\ pc[c] = "release" /\ lifecycle' = c /\ accepting' = FALSE /\ life' = Dropped
      /\ pc' = [pc EXCEPT ![c] = "join"] /\ op' = [op EXCEPT ![c] = name]
      /\ UNCHANGED <<mayCall, instance, loader, joinPending, threads, exited, verdict>>
  BY DEF Release, Goto
<1>2. lifecycle = None
  <2> SUFFICES ASSUME lifecycle \in Client PROVE FALSE
    BY DEF LoaderInv, LoaderTypes
  <2>1. pc[lifecycle] = "join"
    BY DEF LoaderInv, Located
  <2>2. lifecycle \in Holders
    BY <2>1 DEF Holders, Holding
  <2> QED BY <1>1, <2>1, <2>2 DEF Destroys
<1>3. /\ pc[c] \in Holding /\ ~NothingToStop
      /\ name \in {op[c], "destroy"} /\ name \in Locking \cup {"destroy"}
  BY <1>1 DEF Holding, Destroys
<1> HIDE DEF name
<1> QED BY <1>1, <1>2, <1>3, StopInv

-----------------------------------------------------------------------------
(***************************************************************************)
(* Every step, and the theorems.                                           *)
(***************************************************************************)

\* Every step keeps the invariant.
LEMMA NextLoader == LoaderInv /\ [Next]_vars => LoaderInv'
<1> SUFFICES ASSUME LoaderInv, [Next]_vars PROVE LoaderInv'
  OBVIOUS
<1>1. CASE UNCHANGED vars
  BY <1>1 DEF vars, schedulerVars, clientVars, LoaderInv, LoaderTypes, Located, OneConstructs,
              ThreadsKnown, ThreadsOwned, Holders, OnceShut, OnceJoined, Uses, BoundedOnly,
              ShutdownArrives
<1>2. ASSUME NEW c \in Client, Begin(c), UNCHANGED mayCall PROVE LoaderInv'
  BY <1>2, ConstructInv, ShutdownIfCreatedInv, CallLockInv, UseInv DEF Begin
<1>3. ASSUME NEW c \in Client, Finish(c) PROVE LoaderInv'
  <2>1. UNCHANGED mayCall /\ Proceed(c)
    BY <1>3 DEF Finish
  <2>2. CASE Join(c)
    <3>1. pc[c] = "join" /\ Stopped(c) /\ UNCHANGED <<mayCall, instance, loader, life, op>>
      BY <2>1, <2>2 DEF Join
    <3> QED BY <3>1, StoppedInv
  <2>3. CASE Release(c)
    BY <2>1, <2>3, UseInv, DestroyInv
  <2>4. CASE Constructed(c) \/ ShutdownBound(c) \/ Enqueue(c) \/ CancelLive(c) \/ CallbackReturns(c)
    BY <2>1, <2>4, ConstructedInv, CallLockInv, UseInv
  <2>5. CASE Lock(c) \/ TimeOut(c) \/ Reset(c)
    BY <2>1, <2>5, LockInv, TimeOutInv, ResetInv
  <2> QED BY <2>1, <2>2, <2>3, <2>4, <2>5 DEF Proceed
<1>4. CASE UNCHANGED mayCall /\ ((\E r \in Request : Deliver(r)) \/ ThreadsExit)
  BY <1>4, ThreadInv
<1> QED BY <1>1, <1>2, <1>3, <1>4 DEF Next, Exit

\* Every reachable state satisfies the inductive invariant.
THEOREM LoaderInvariant == Spec => []LoaderInv
<1>1. Init => LoaderInv
  BY InitLoader
<1>2. LoaderInv /\ [Next]_vars => LoaderInv'
  BY NextLoader
<1> QED BY <1>1, <1>2, PTL DEF Spec

\* No thread outlives the scheduler it runs in: while one is not joined, the loader or a
\* call that has not returned refers to the scheduler, however the calls overlap.
THEOREM ThreadsAlwaysOwned == Spec => []ThreadsOwned
<1>1. LoaderInv => ThreadsOwned
  BY DEF LoaderInv
<1> QED BY <1>1, LoaderInvariant, PTL

\* Where only bounded calls shut down, one that returned true left no thread behind: also
\* when several overlap, after one that timed out, and with calls of callbacks.
THEOREM BoundedCallsJoin == Spec => []JoinedByBoundedCalls
<1>1. LoaderInv => JoinedByBoundedCalls
  BY DEF LoaderInv, OnceJoined, JoinedByBoundedCalls, JoinedWhenTrue, ShutDownFor
<1> QED BY <1>1, LoaderInvariant, PTL

\* Once a shutdown returned, no request is accepted: not even one that had copied the
\* scheduler before.
THEOREM RacingRejected == Spec => RacingRequestsRejected
<1> DEFINE Rejects ==
      ~Uses("setThreadCount") /\ ~ShutdownArrives /\ (\E c \in Client : ShutDownFor(c)) =>
         \A r \in Request : life'[r] = "live" => life[r] = "live"
<1>1. LoaderInv /\ [Next]_vars => [Rejects]_vars
  <2> SUFFICES ASSUME LoaderInv, Next, ~Uses("setThreadCount"), ~ShutdownArrives,
                      NEW c \in Client, ShutDownFor(c),
                      NEW r \in Request, life'[r] = "live", life[r] # "live"
               PROVE  FALSE
    OBVIOUS
  <2>1. ~accepting /\ life \in [Request -> Life]
    BY DEF LoaderInv, LoaderTypes, OnceShut, ShutDownFor
  <2>2. ASSUME NEW d \in Client, Begin(d) PROVE FALSE
    BY <2>1, <2>2 DEF Begin, Construct, ShutdownIfCreated, ShutdownBound, Shutdown,
         SetWorkerThreadCount, SetPriority, RequestDecoded, Cancel
  <2>3. ASSUME NEW d \in Client, Proceed(d) PROVE FALSE
    BY <2>1, <2>3 DEF Proceed, Constructed, ShutdownBound, Enqueue, Accepts, CancelLive, Lock,
         Join, TimeOut, Reset, Release, CallbackReturns, Dropped
  <2>4. ASSUME (\E q \in Request : Deliver(q)) \/ ThreadsExit PROVE FALSE
    BY <2>1, <2>4 DEF Deliver, ThreadsExit
  <2> QED BY <2>2, <2>3, <2>4 DEF Next, Finish, Exit
<1> QED BY <1>1, LoaderInvariant, PTL DEF Spec, RacingRequestsRejected

-----------------------------------------------------------------------------
(***************************************************************************)
(* The refinement of SchedulerRun.                                         *)
(***************************************************************************)

Calling == {c \in OnWorker : pc[c] # "idle"}

\* Callbacks run on threads that have not left their function, requests are live while they
\* are accepted, and a restart that joins threads joins none of a stop that gave up.
RunInv ==
  /\ exited => ~accepting /\ instance = "ready" /\ Calling = {}
  /\ Calling # {} => threads
  /\ \A r \in Request : life[r] = "live" => accepting
  /\ \A c \in Client : pc[c] = "join" /\ op[c] = "setThreadCount" => ~joinPending

\* What every step keeps, and is.
Runs == RunInv' /\ [Run!Next]_(Run!run)

\* A client elsewhere than at the scheduler's lifecycle, a callback that begins or ends.
LEMMA AsideRuns ==
  ASSUME LoaderInv, RunInv, NEW c \in Client, NEW to, to # "join", pc' = [pc EXCEPT ![c] = to],
         c \in OnWorker /\ pc[c] = "idle" /\ to # "idle" => accepting,
         \A r \in Request : life'[r] = "live" => accepting,
         \A d \in Client \ {c} : op'[d] = op[d],
         instance = "ready" => instance' = "ready", UNCHANGED schedulerVars
  PROVE  Runs
<1> USE DEF schedulerVars
<1>1. /\ pc'[c] = to /\ \A d \in Client \ {c} : pc'[d] = pc[d]
      /\ OnWorker \subseteq Client /\ (accepting => threads)
  BY LoaderConstants DEF LoaderInv, LoaderTypes, ThreadsKnown
<1>2. /\ Calling' \subseteq Calling \/ accepting
      /\ Calling' # {} => threads /\ ~exited
  BY <1>1 DEF Calling, RunInv
<1>3. RunInv'
  BY <1>1, <1>2 DEF RunInv
<1>4. Run!Work
  BY <1>2 DEF Run!Work, Calling
<1> QED
  BY <1>3, <1>4 DEF Runs, Run!Next

\* A step that touches neither clients nor scheduler.
LEMMA StutterRuns ==
  ASSUME RunInv, UNCHANGED <<instance, schedulerVars, pc, op>>,
         \A r \in Request : life'[r] = "live" => accepting
  PROVE  Runs
<1>1. Calling' = Calling
  BY DEF Calling
<1>2. RunInv'
  BY <1>1 DEF RunInv, schedulerVars
<1>3. UNCHANGED Run!run
  BY <1>1 DEF Run!run, Calling, schedulerVars
<1> QED
  BY <1>2, <1>3 DEF Runs

\* The calls of clients, up to the lifecycle mutex,
LEMMA BeginRuns ==
  ASSUME LoaderInv, RunInv, NEW c \in Client, Begin(c) PROVE Runs
<1>0. /\ \A r \in Request : life'[r] = "live" => life[r] = "live"
      /\ UNCHANGED schedulerVars /\ (instance = "ready" => instance' = "ready")
  <2>1. life \in [Request -> Life]
    BY DEF LoaderInv, LoaderTypes
  <2> QED
    BY <2>1 DEF Begin, Construct, ShutdownIfCreated, ShutdownBound, Shutdown,
                SetWorkerThreadCount, SetPriority, RequestDecoded, Cancel
<1>1. PICK to : pc' = [pc EXCEPT ![c] = to] /\ to # "join"
  BY DEF Begin, Construct, ShutdownIfCreated, ShutdownBound, Shutdown,
         SetWorkerThreadCount, SetPriority, RequestDecoded, Cancel, Goto
<1>2. c \in OnWorker => pc[c] # "idle"
  BY DEF Begin, Construct, ShutdownIfCreated, ShutdownBound, Shutdown,
         SetWorkerThreadCount, SetPriority, RequestDecoded, Cancel, Calls
<1>3. \A d \in Client \ {c} : op'[d] = op[d]
  <2>1. op \in [Client -> Call \cup {"destroy", None}]
    BY DEF LoaderInv, LoaderTypes
  <2> QED
    BY <2>1 DEF Begin, Construct, ShutdownIfCreated, ShutdownBound, Shutdown,
                SetWorkerThreadCount, SetPriority, RequestDecoded, Cancel, Calls
<1> QED
  BY <1>0, <1>1, <1>2, <1>3, AsideRuns DEF RunInv

\* the first Instance() call, which starts the scheduler,
LEMMA ConstructedRuns ==
  ASSUME LoaderInv, RunInv, NEW c \in Client, Constructed(c) PROVE Runs
<1>1. /\ pc[c] = "constructing" /\ instance = "constructing" /\ pc \in [Client -> Place]
      /\ ~threads /\ ~accepting /\ ~joinPending /\ lifecycle = None /\ ~exited
  BY DEF Constructed, LoaderInv, LoaderTypes, Located, ThreadsKnown, RunInv
<1>2. /\ instance' = "ready" /\ accepting' = TRUE /\ threads' = TRUE
      /\ UNCHANGED <<joinPending, lifecycle, exited, life, op>>
      /\ pc' = [pc EXCEPT ![c] = "idle"]
  BY DEF Constructed, Goto
<1>3. Calling = {} /\ Calling' = {}
  BY <1>1, <1>2, LoaderConstants DEF RunInv, Calling
<1>4. RunInv'
  BY <1>1, <1>2, <1>3 DEF RunInv
<1>5. Run!Open
  BY <1>1, <1>2, <1>3 DEF Run!Open, Calling
<1> QED
  BY <1>4, <1>5 DEF Runs, Run!Next

\* a call that stops the scheduler,
LEMMA StopRuns ==
  ASSUME LoaderInv, RunInv, NEW c \in Client, pc[c] \in Holding,
         lifecycle = None, ~NothingToStop, ~GivesUp(c) \/ op'[c] # "setThreadCount",
         lifecycle' = c, accepting' = FALSE, life' = Dropped,
         pc' = [pc EXCEPT ![c] = "join"], op'[c] \in {op[c], "destroy"},
         \A d \in Client \ {c} : op'[d] = op[d],
         UNCHANGED <<instance, joinPending, threads, exited>>
  PROVE  Runs
<1>1. /\ pc \in [Client -> Place] /\ life \in [Request -> Life] /\ c # None
      /\ OnWorker \subseteq Client
  BY LoaderConstants DEF LoaderInv, LoaderTypes
<1>2. Calling' = Calling
  BY <1>1 DEF Calling, Holding
<1>3. \A r \in Request : life'[r] # "live"
  BY <1>1 DEF Dropped
<1>4. \A d \in Client : pc'[d] = "join" /\ op'[d] = "setThreadCount" => ~joinPending'
  BY <1>1 DEF RunInv, GivesUp
<1>5. RunInv'
  BY <1>2, <1>3, <1>4 DEF RunInv
<1>6. Run!Stop
  BY <1>1, <1>2 DEF Run!Stop, NothingToStop, Calling
<1> QED
  BY <1>5, <1>6 DEF Runs, Run!Next

\* one whose threads were joined, or that restarts a stopped scheduler,
LEMMA StoppedRuns ==
  ASSUME LoaderInv, RunInv, NEW c \in Client, Stopped(c), UNCHANGED <<instance, life, op>>,
         \/ pc[c] = "join" /\ exited
         \/ pc[c] = "lock" /\ lifecycle = None /\ op[c] = "setThreadCount" /\ NothingToStop
  PROVE  Runs
<1>1. /\ LoaderTypes /\ ThreadsKnown /\ Located(c) /\ c # None
      /\ OnWorker \subseteq Client
  BY LoaderConstants DEF LoaderInv
<1>2. PICK to : pc' = [pc EXCEPT ![c] = to] /\ to \in {"idle", "reset", "release"}
  BY DEF Stopped, Goto, Bounded
<1>3. Calling = {} /\ ~(threads /\ ~exited) /\ ~accepting
  BY <1>1 DEF RunInv, ThreadsKnown, NothingToStop, Located
<1>4. Calling' = {}
  BY <1>1, <1>2, <1>3 DEF Calling, LoaderTypes
<1>5. \A d \in Client : pc'[d] = "join" => pc[d] = "join"
  BY <1>1, <1>2 DEF LoaderTypes
<1>6. CASE op[c] = "setThreadCount"
  <2>1. /\ accepting' = TRUE /\ threads' = TRUE /\ exited' = FALSE /\ joinPending' = FALSE
        /\ lifecycle' = None
    BY <1>6 DEF Stopped
  <2>2. ~joinPending
    BY <1>6 DEF RunInv, NothingToStop
  <2>3. RunInv'
    BY <1>4, <2>1 DEF RunInv
  <2>4. Run!Open
    BY <1>1, <1>3, <1>4, <2>1, <2>2 DEF Run!Open, Calling, LoaderTypes
  <2> QED
    BY <2>3, <2>4 DEF Runs, Run!Next
<1>7. CASE op[c] # "setThreadCount"
  <2>1. /\ accepting' = FALSE /\ threads' = FALSE /\ exited' = exited
        /\ joinPending' = FALSE /\ lifecycle' = None
    BY <1>7 DEF Stopped
  <2>2. lifecycle = c
    BY <1>1, <1>7 DEF Located
  <2>3. RunInv'
    BY <1>3, <1>4, <2>1 DEF RunInv
  <2>4. Run!Join
    BY <1>1, <1>3, <1>4, <2>1, <2>2 DEF Run!Join, Calling, LoaderTypes
  <2> QED
    BY <2>3, <2>4 DEF Runs, Run!Next
<1> QED
  BY <1>6, <1>7

\* one that waited for the lifecycle mutex,
LEMMA LockRuns ==
  ASSUME LoaderInv, RunInv, NEW c \in Client, Lock(c) PROVE Runs
<1>1. /\ pc[c] = "lock" /\ lifecycle = None
      /\ UNCHANGED <<instance, loader, op, arg, calls>>
  BY DEF Lock
<1>2. CASE UNCHANGED <<schedulerVars, life>>
  <2>1. PICK to : pc' = [pc EXCEPT ![c] = to] /\ to # "join"
    BY <1>1, <1>2, LoaderConstants DEF Lock, Goto, Stopped, schedulerVars, Bounded
  <2> QED
    BY <1>1, <1>2, <2>1, AsideRuns DEF RunInv
<1>3. CASE Stopped(c) /\ op[c] = "setThreadCount" /\ NothingToStop /\ UNCHANGED life
  BY <1>1, <1>3, StoppedRuns
<1>4. CASE /\ ~GivesUp(c) /\ ~NothingToStop
           /\ lifecycle' = c /\ accepting' = FALSE /\ life' = Dropped
           /\ Goto(c, "join")
           /\ UNCHANGED <<joinPending, threads, exited, verdict>>
  BY <1>1, <1>4, StopRuns DEF Goto, Holding
<1> QED
  BY <1>2, <1>3, <1>4 DEF Lock

\* one whose bound runs out,
LEMMA TimeOutRuns ==
  ASSUME LoaderInv, RunInv, NEW c \in Client, TimeOut(c) PROVE Runs
<1>1. /\ pc[c] = "join" /\ Bounded(c) /\ pc' = [pc EXCEPT ![c] = "release"]
      /\ lifecycle' = None /\ joinPending' = TRUE
      /\ UNCHANGED <<instance, accepting, threads, exited, life, op>>
  BY DEF TimeOut, Goto
<1>2. /\ pc \in [Client -> Place] /\ lifecycle = c /\ c # None /\ OnWorker \subseteq Client
      /\ \A d \in Client \ {c} : pc[d] # "join"
  BY <1>1, LoaderConstants DEF LoaderInv, LoaderTypes, Located
<1>3. Calling' = Calling
  BY <1>1, <1>2 DEF Calling
<1>4. \A d \in Client : pc'[d] # "join"
  BY <1>1, <1>2
<1>5. RunInv'
  BY <1>1, <1>3, <1>4 DEF RunInv
<1>6. Run!GiveUp
  BY <1>1, <1>2, <1>3 DEF Run!GiveUp, Calling
<1> QED
  BY <1>5, <1>6 DEF Runs, Run!Next

\* and one that returns: it may drop the last reference to the scheduler.
LEMMA ReleaseRuns ==
  ASSUME LoaderInv, RunInv, NEW c \in Client, Release(c) PROVE Runs
<1>1. /\ pc[c] = "release" /\ UNCHANGED <<instance, joinPending, threads, exited>>
      /\ op \in [Client -> Call \cup {"destroy", None}]
  BY DEF Release, LoaderInv, LoaderTypes
<1>2. CASE Destroys(c)
  <2>1. /\ lifecycle' = c /\ accepting' = FALSE /\ life' = Dropped
        /\ op' = [op EXCEPT ![c] = "destroy"] /\ pc' = [pc EXCEPT ![c] = "join"]
    BY <1>2 DEF Release, Goto
  <2>2. lifecycle = None
    <3> SUFFICES ASSUME lifecycle \in Client PROVE FALSE
      BY DEF LoaderInv, LoaderTypes
    <3>1. pc[lifecycle] = "join"
      BY DEF LoaderInv, Located
    <3>2. lifecycle \in Holders
      BY <3>1 DEF Holders, Holding
    <3> QED
      BY <1>1, <1>2, <3>1, <3>2 DEF Destroys
  <2>3. ~NothingToStop /\ pc[c] \in Holding
    BY <1>1, <1>2 DEF Destroys, Holding
  <2>4. op'[c] = "destroy" /\ \A d \in Client \ {c} : op'[d] = op[d]
    BY <1>1, <2>1
  <2> QED
    BY <1>1, <2>1, <2>2, <2>3, <2>4, StopRuns
<1>3. CASE ~Destroys(c)
  <2>1. pc' = [pc EXCEPT ![c] = "idle"] /\ UNCHANGED <<schedulerVars, life, op>>
    BY <1>3 DEF Release, Goto, schedulerVars
  <2> QED
    BY <1>1, <2>1, AsideRuns DEF RunInv
<1> QED
  BY <1>2, <1>3

\* What else a client does to finish a call,
LEMMA ProceedRuns ==
  ASSUME LoaderInv, RunInv, NEW c \in Client, Proceed(c) PROVE Runs
<1> USE DEF RunInv
<1>0. life \in [Request -> Life]
  BY DEF LoaderInv, LoaderTypes
<1>1. CASE pc[c] = "instance" /\ ShutdownBound(c)
  <2>1. PICK to \in {"lock", "idle"} : pc' = [pc EXCEPT ![c] = to]
    BY <1>1 DEF ShutdownBound, Goto
  <2>2. op' = op /\ UNCHANGED <<instance, schedulerVars, life>>
    BY <1>1 DEF ShutdownBound, Calls
  <2> QED
    BY <1>1, <2>1, <2>2, AsideRuns
<1>2. CASE Enqueue(c)
  <2>1. /\ pc[c] = "enqueue" /\ pc' = [pc EXCEPT ![c] = "release"]
        /\ UNCHANGED <<instance, schedulerVars, op>>
        /\ \A r \in Request : life'[r] = "live" => accepting
    BY <1>0, <1>2 DEF Enqueue, Goto, Accepts
  <2> QED
    BY <2>1, AsideRuns
<1>3. CASE CancelLive(c) \/ Reset(c) \/ CallbackReturns(c)
  <2>1. PICK to \in {"release", "idle"} : pc' = [pc EXCEPT ![c] = to]
    BY <1>3 DEF CancelLive, Reset, CallbackReturns, Goto
  <2>2. /\ pc[c] # "idle" /\ UNCHANGED <<instance, schedulerVars, op>>
        /\ \A r \in Request : life'[r] = "live" => accepting
    BY <1>0, <1>3 DEF CancelLive, Reset, CallbackReturns
  <2> QED
    BY <2>1, <2>2, AsideRuns
<1>4. CASE Join(c)
  BY <1>4, StoppedRuns DEF Join
<1> QED
  BY <1>1, <1>2, <1>3, <1>4, ConstructedRuns, LockRuns, TimeOutRuns, ReleaseRuns DEF Proceed

\* and what the threads do.
LEMMA ThreadRuns ==
  ASSUME LoaderInv, RunInv, (\E r \in Request : Deliver(r)) \/ ThreadsExit PROVE Runs
<1> USE DEF RunInv, clientVars
<1>0. life \in [Request -> Life] /\ OnWorker \subseteq Client
  BY LoaderConstants DEF LoaderInv, LoaderTypes
<1>1. ASSUME NEW r \in Request, Deliver(r) PROVE Runs
  <2>1. /\ accepting /\ UNCHANGED <<instance, schedulerVars, op>>
    BY <1>1 DEF Deliver
  <2>2. CASE UNCHANGED pc
    BY <2>1, <2>2, StutterRuns
  <2>3. ASSUME NEW c \in OnWorker, Goto(c, "callback") PROVE Runs
    BY <1>0, <2>1, <2>3, AsideRuns DEF Goto
  <2> QED
    BY <1>1, <2>2, <2>3 DEF Deliver
<1>2. CASE ThreadsExit
  <2>1. /\ threads /\ ~accepting /\ ~exited /\ exited' = TRUE /\ Calling = {}
        /\ UNCHANGED <<instance, accepting, joinPending, lifecycle, threads, life, pc, op>>
    BY <1>2 DEF ThreadsExit, Calling
  <2>2. Calling' = {} /\ instance = "ready"
    BY <2>1 DEF Calling, LoaderInv, ThreadsKnown
  <2>3. RunInv'
    BY <2>1, <2>2
  <2>4. Run!Work
    BY <2>1, <2>2 DEF Run!Work, Calling
  <2> QED
    BY <2>3, <2>4 DEF Runs, Run!Next
<1> QED
  BY <1>1, <1>2

\* So every step is one of the scheduler's, or none.
LEMMA StepRuns ==
  ASSUME LoaderInv, RunInv, [Next]_vars PROVE Runs
<1>1. CASE UNCHANGED vars
  BY <1>1, StutterRuns DEF vars, clientVars, RunInv
<1>2. CASE Next
  BY <1>2, BeginRuns, ProceedRuns, ThreadRuns DEF Next, Finish, Exit
<1> QED
  BY <1>1, <1>2

\* However the loader's calls overlap, what they do to their scheduler is what module
\* SchedulerRun allows, as what DecodeScheduler does is (RunKept): no callback begins after
\* a stop, no call is told that the threads were joined while one runs, and no restart runs
\* beside threads a stop left.
THEOREM LoaderRunsScheduler == Spec => RunsScheduler
<1>1. Init => RunInv /\ Run!Init
  BY LoaderConstants DEF Init, RunInv, Calling, Run!Init
<1>2. LoaderInv /\ RunInv /\ [Next]_vars => RunInv' /\ [Run!Next]_(Run!run)
  BY StepRuns DEF Runs
<1> QED
  BY <1>1, <1>2, LoaderInvariant, PTL DEF Spec, RunsScheduler, Run!Spec

================================================================================
