--------------------------- MODULE SchedulerInvariant ---------------------------
(***************************************************************************)
(* The inductive invariant behind the theorems of SchedulerProofs: besides *)
(* the types and the counts, what the queues and the holders of capacity   *)
(* agree on with the state of their requests.                              *)
(***************************************************************************)
EXTENDS SchedulerProperties

\* The entry's request waits in the queue its state names, under the key its
\* priority and sequence give, and no thread holds it.
Waits(e, queuedIn) ==
  /\ job[e.task] = "none"
  /\ outcome[e.task] = "pending"
  /\ state[e.task].queuedIn = queuedIn
  /\ state[e.task].priority = e.priority
  /\ state[e.task].sequence = e.sequence

LaneQueuesAgree ==
  \A key \in DOMAIN lanes :
    /\ \A e \in lanes[key].queue :
         Waits(e, "Io") /\ state[e.task].laneKey = key /\ e.task \notin MainImage
    /\ \A e \in lanes[key].mainQueue :
         Waits(e, "MainIo") /\ state[e.task].laneKey = key /\ e.task \in MainImage

BackgroundAgrees == \A e \in backgroundQueue : Waits(e, "Decode")

HighAgrees ==
  /\ \A i \in DOMAIN highQueue :
       /\ job[highQueue[i]] = "none"
       /\ outcome[highQueue[i]] = "pending"
       /\ state[highQueue[i]].queuedIn = "None"
  /\ \A i, j \in DOMAIN highQueue : highQueue[i] = highQueue[j] => i = j

\* Thumbnails hold slots, main images hold inputs; bytes in memory are counted
\* under one of them until their last user is done.
HoldsRightly(r) ==
  LET s     == state[r]
      holds == s.holdsPrefetchSlot \/ s.holdsMainInput
  IN  /\ s.prefetched => holds
      /\ s.holdsPrefetchSlot => r \notin MainImage
      /\ s.holdsMainInput => r \in MainImage
      /\ bytesHold[r] => s.decoding /\ holds /\ job[r] \notin Reading \cup {"none"}

\* A request being read, or not yet read, holds nothing; one being read is
\* pending and in no queue.
HoldsNothingYet(r) ==
  LET s == state[r]
  IN  /\ outcome[r] = "new" => job[r] = "none"
      /\ outcome[r] = "new" \/ job[r] \in Reading \/ s.queuedIn \in {"Io", "MainIo"} =>
           ~s.holdsPrefetchSlot /\ ~s.holdsMainInput
      /\ job[r] \in Reading => outcome[r] = "pending" /\ s.queuedIn = "None"
      /\ job[r] = "reading" => r \notin MainImage /\ s.laneKey \in Keys
      /\ job[r] = "mainReading" => r \in MainImage /\ s.laneKey \in Keys

Holders == \A r \in Request : HoldsRightly(r) /\ HoldsNothingYet(r)

WithinCaps ==
  /\ prefetchedTotal + prefetchReads <= MaxPrefetchCap
  /\ mainReads + mainHeld <= MainImageInputCap

Queues == LaneQueuesAgree /\ BackgroundAgrees /\ HighAgrees

IndInv == TypeOK /\ Holders /\ Queues /\ CapacityAccounted /\ WithinCaps
================================================================================
