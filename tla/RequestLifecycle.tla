---------------------------- MODULE RequestLifecycle ---------------------------
(***************************************************************************)
(* What DecodeScheduler promises the client of a request, and nothing of   *)
(* how: an accepted request is delivered at most once or dropped, never    *)
(* both; only a request the client canceled, or a stop took, is dropped;   *)
(* none is selected for delivery once it is canceled or a stop has begun;  *)
(* a request rejected is never heard of again; and a scheduler reopens     *)
(* only once nothing accepted before is left to deliver.                   *)
(***************************************************************************)
CONSTANT Request

VARIABLES
  open,      \* requests are accepted
  status,    \* [Request -> Status]
  canceled   \* the pending requests somebody canceled

lifecycle == <<open, status, canceled>>

\* "due": selected for delivery, the callback not yet run.
Status == {"new", "rejected", "pending", "due", "delivered", "dropped", "withdrawn"}

Unsettled == {r \in Request : status[r] \in {"pending", "due"}}

Init ==
  /\ open = TRUE
  /\ status = [r \in Request |-> "new"]
  /\ canceled = {}

Move(r, from, to) == status[r] = from /\ status' = [status EXCEPT ![r] = to]

Accept(r)  == open /\ Move(r, "new", "pending") /\ UNCHANGED <<open, canceled>>

Reject(r)  == ~open /\ Move(r, "new", "rejected") /\ UNCHANGED <<open, canceled>>

Cancel(r) ==
  /\ status[r] = "pending"
  /\ canceled' = canceled \cup {r}
  /\ UNCHANGED <<open, status>>

\* A queued request is canceled and withdrawn in one step.
CancelQueued(r) ==
  /\ Move(r, "pending", "withdrawn")
  /\ canceled' = canceled \ {r}
  /\ UNCHANGED open

Select(r) ==
  /\ open
  /\ r \notin canceled
  /\ Move(r, "pending", "due")
  /\ UNCHANGED <<open, canceled>>

Deliver(r) == Move(r, "due", "delivered") /\ UNCHANGED <<open, canceled>>

Drop(r) ==
  /\ r \in canceled \/ ~open
  /\ Move(r, "pending", "dropped")
  /\ canceled' = canceled \ {r}
  /\ UNCHANGED open

\* A stop cancels some requests with it (all those that can be found).
Close(some) ==
  /\ some \subseteq {r \in Request : status[r] = "pending"}
  /\ open' = FALSE
  /\ canceled' = canceled \cup some
  /\ UNCHANGED status

\* The stop completes: what is still pending is dropped, nothing is due.
DropAll ==
  /\ ~open
  /\ \A r \in Request : status[r] # "due"
  /\ status' = [r \in Request |-> IF status[r] = "pending" THEN "dropped" ELSE status[r]]
  /\ canceled' = {}
  /\ UNCHANGED open

Reopen ==
  /\ Unsettled = {}
  /\ open' = TRUE
  /\ UNCHANGED <<status, canceled>>

Next ==
  \/ \E r \in Request :
       \/ Accept(r) \/ Reject(r)
       \/ Cancel(r) \/ CancelQueued(r)
       \/ Select(r) \/ Deliver(r) \/ Drop(r)
  \/ \E some \in SUBSET Request : Close(some)
  \/ DropAll
  \/ Reopen

Spec == Init /\ [][Next]_lifecycle
================================================================================
