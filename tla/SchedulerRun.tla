----------------------------- MODULE SchedulerRun -----------------------------
(***************************************************************************)
(* What DecodeScheduler promises whoever starts and stops it, and nothing  *)
(* of what its threads do: a stop is one call at a time; it ends when all  *)
(* threads have, or gives up and leaves them to the next one; threads find *)
(* new work, and result callbacks begin, only while requests are accepted; *)
(* and requests are accepted again only once all threads have ended.       *)
(*                                                                         *)
(* Module DecodeScheduler implements it, and so does module ImageLoader,   *)
(* whose scheduler is reduced to these variables: the two agree on what a  *)
(* stop, a timeout and a restart may do.                                   *)
(***************************************************************************)
VARIABLES
  accepting,    \* requests are accepted
  stopping,     \* a lifecycle call is waiting for the threads to end
  joinPending,  \* a stop gave up: threads are left to be joined
  busy,         \* a thread has work
  calling       \* the result callbacks that have begun and not returned

run == <<accepting, stopping, joinPending, busy, calling>>

Init ==
  /\ accepting \in BOOLEAN
  /\ stopping = FALSE
  /\ joinPending = FALSE
  /\ busy = FALSE
  /\ calling = {}

\* The threads work.  Once requests are not accepted, they only finish.
Work ==
  /\ busy' => busy \/ accepting
  /\ calling' \subseteq calling \/ accepting
  /\ calling' # {} => busy'
  /\ UNCHANGED <<accepting, stopping, joinPending>>

\* There is something to stop.
Stop ==
  /\ accepting \/ joinPending
  /\ ~stopping
  /\ stopping' = TRUE
  /\ accepting' = FALSE
  /\ UNCHANGED <<joinPending, busy, calling>>

GiveUp ==
  /\ stopping
  /\ stopping' = FALSE
  /\ joinPending' = TRUE
  /\ UNCHANGED <<accepting, busy, calling>>

Join ==
  /\ stopping
  /\ ~busy
  /\ stopping' = FALSE
  /\ joinPending' = FALSE
  /\ UNCHANGED <<accepting, busy, calling>>

\* The threads start: at once after a join, or later, but never beside those
\* of a stop that gave up.
Open ==
  /\ ~accepting
  /\ ~joinPending
  /\ ~busy
  /\ accepting' = TRUE
  /\ stopping' = FALSE
  /\ busy' \in BOOLEAN
  /\ UNCHANGED <<joinPending, calling>>

Next == Work \/ Stop \/ GiveUp \/ Join \/ Open

Spec == Init /\ [][Next]_run
===============================================================================
