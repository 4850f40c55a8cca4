------------------------- MODULE ReadCancellationProofs -------------------------
(***************************************************************************)
(* Theorems about the stopping of reads.                                   *)
(***************************************************************************)
EXTENDS ReadCancellation, TLAPS, FiniteSetTheorems, SequenceTheorems

-----------------------------------------------------------------------------
(***************************************************************************)
(* The inductive invariant.                                                *)
(***************************************************************************)

\* A stop is complete.
Quiet == shutdown /\ ~joinPending /\ stage \in {"idle", "reopen"}

\* A restart has let requests in and has not started the dispatch thread yet.
Restarting == stage \in {"clear", "start"}

\* How the lifecycle call, the flags and the dispatch thread go together.
Control ==
  /\ stage = "idle" <=> call = "none"
  /\ stage \in {"raise", "scan", "publish", "join", "reopen"} => shutdown
  /\ joinPending => shutdown
  /\ Restarting => ~shutdown
  /\ stage = "reopen" => ~joinPending
  /\ stopExit => shutdown \/ stage = "clear"
  /\ dispatcher = "exited" => (shutdown /\ stopExit) \/ Restarting
  /\ Restarting => dispatcher = "exited"
  /\ dispatcher \in {"signal", "lease", "cancel"} <=> stopping # None
  /\ dispatcher = "cancel" <=> held # None
  /\ found # {} => stage \in {"raise", "scan", "publish"}
  /\ stage = "raise" => scanned = {}

\* A request is in one reader's hands, and on its lease while it is read.
Tasks ==
  /\ \A t \in Thread : at[t] = "idle" <=> task[t] = None
  /\ \A t \in Thread : task[t] # None => status[task[t]] = "taken"
  /\ \A t, u \in Thread : task[t] = task[u] /\ task[t] # None => t = u
  /\ \A t \in Thread :
       active[t] = IF at[t] \in {"registered", "running", "blocked", "retiring"}
                   THEN task[t] ELSE None

\* Whatever is stopped, or about to be, was canceled first.
StopsAreCanceled ==
  /\ ToSet(stopQueue) \subseteq canceled
  /\ found \subseteq canceled
  /\ token \subseteq canceled
  /\ stopping # None => stopping \in canceled
  /\ partial \subseteq canceled

\* What a complete stop leaves.
AllQuiet ==
  Quiet => /\ \A t \in Thread : at[t] = "idle"
           /\ stopQueue = <<>> /\ live = {} /\ dispatcher = "exited"

\* What a restart clears was canceled since it reopened.
Cleared == stage = "clear" => ToSet(stopQueue) \subseteq early

\* The stop in progress has looked at t's lease, or an earlier one did.
Looked(t) ==
  \/ stage = "scan" /\ t \in scanned
  \/ stage \in {"publish", "join"}
  \/ shutdown /\ stopExit

NoneEscapes == \A t \in Thread : Looked(t) /\ Reading(t) => task[t] \in canceled

\* StopOnItsWay without what a stop has only found.
Published(r) ==
  \/ r \in token
  \/ dispatcher = "signal" /\ stopping = r
  \/ r \in ToSet(stopQueue) /\ (dispatcher # "exited" \/ Restarting)

\* Once a stop has published what it found, nothing that is read waits for a later
\* stop to publish it: the dispatch thread may retire.
StopsKept ==
  \A t \in Thread : Reading(t) /\ task[t] \in canceled \ early =>
    /\ Published(task[t]) \/ task[t] \in found
    /\ shutdown /\ stopExit => Published(task[t])

CancellationInv ==
  /\ CancellationTypeOK
  /\ Control
  /\ Tasks
  /\ StopsAreCanceled
  /\ AllQuiet
  /\ Cleared
  /\ NoneEscapes
  /\ StopsKept
  /\ PartialNeverDecoded

-----------------------------------------------------------------------------
(***************************************************************************)
(* The sets of sequences.                                                  *)
(***************************************************************************)
\* Append adds its element to the set of a sequence.
LEMMA AppendSet ==
  ASSUME NEW S, NEW s \in Seq(S), NEW e \in S
  PROVE  Append(s, e) \in Seq(S) /\ ToSet(Append(s, e)) = ToSet(s) \cup {e}
<1>1. Append(s, e) \in Seq(S)
  OBVIOUS
<1>2. ToSet(Append(s, e)) \subseteq ToSet(s) \cup {e}
  BY DEF ToSet
<1>3. e \in ToSet(Append(s, e))
  <2>1. Append(s, e)[Len(s) + 1] = e /\ Len(s) + 1 \in DOMAIN Append(s, e)
    OBVIOUS
  <2> QED
    BY <2>1 DEF ToSet
<1>4. ASSUME NEW i \in DOMAIN s PROVE s[i] \in ToSet(Append(s, e))
  <2>1. Append(s, e)[i] = s[i] /\ i \in DOMAIN Append(s, e)
    OBVIOUS
  <2> QED
    BY <2>1 DEF ToSet
<1> QED
  BY <1>1, <1>2, <1>3, <1>4 DEF ToSet

\* A sequence has its head and what its tail has.
LEMMA HeadTailSet ==
  ASSUME NEW S, NEW s \in Seq(S), s # <<>>
  PROVE  /\ Head(s) \in S /\ Tail(s) \in Seq(S)
         /\ ToSet(s) = {Head(s)} \cup ToSet(Tail(s))
<1>1. Head(s) \in S /\ Tail(s) \in Seq(S)
  OBVIOUS
<1>2. ToSet(s) \subseteq {Head(s)} \cup ToSet(Tail(s))
  <2> SUFFICES ASSUME NEW i \in DOMAIN s, i # 1
               PROVE  s[i] \in ToSet(Tail(s))
    BY DEF ToSet
  <2>1. i - 1 \in DOMAIN Tail(s) /\ Tail(s)[i - 1] = s[i]
    OBVIOUS
  <2> QED
    BY <2>1 DEF ToSet
<1>3. Head(s) \in ToSet(s)
  <2>1. 1 \in DOMAIN s /\ s[1] = Head(s)
    OBVIOUS
  <2> QED
    BY <2>1 DEF ToSet
<1>4. ASSUME NEW i \in DOMAIN Tail(s) PROVE Tail(s)[i] \in ToSet(s)
  <2>1. i + 1 \in DOMAIN s /\ Tail(s)[i] = s[i + 1]
    OBVIOUS
  <2> QED
    BY <2>1 DEF ToSet
<1> QED
  BY <1>1, <1>2, <1>3, <1>4 DEF ToSet

\* A concatenation has what its parts have.
LEMMA ConcatSet ==
  ASSUME NEW S, NEW s \in Seq(S), NEW t \in Seq(S)
  PROVE  s \o t \in Seq(S) /\ ToSet(s \o t) = ToSet(s) \cup ToSet(t)
<1>1. /\ s \o t \in Seq(S)
      /\ DOMAIN (s \o t) = 1 .. Len(s) + Len(t)
      /\ \A i \in 1 .. Len(s) + Len(t) :
           (s \o t)[i] = IF i <= Len(s) THEN s[i] ELSE t[i - Len(s)]
  OBVIOUS
<1>2. ToSet(s \o t) \subseteq ToSet(s) \cup ToSet(t)
  BY <1>1 DEF ToSet
<1>3. ASSUME NEW i \in DOMAIN s PROVE s[i] \in ToSet(s \o t)
  <2>1. i \in DOMAIN (s \o t) /\ (s \o t)[i] = s[i]
    BY <1>1
  <2> QED
    BY <2>1 DEF ToSet
<1>4. ASSUME NEW i \in DOMAIN t PROVE t[i] \in ToSet(s \o t)
  <2>1. Len(s) + i \in DOMAIN (s \o t) /\ (s \o t)[Len(s) + i] = t[i]
    BY <1>1
  <2> QED
    BY <2>1 DEF ToSet
<1> QED
  BY <1>1, <1>2, <1>3, <1>4 DEF ToSet

\* SetToSeq lists a finite set: stops are published for exactly what was found.
LEMMA SetToSeqSet ==
  ASSUME NEW S, IsFiniteSet(S)
  PROVE  SetToSeq(S) \in Seq(S) /\ ToSet(SetToSeq(S)) = S
<1> DEFINE n == Cardinality(S)
           s == SetToSeq(S)
<1>1. n \in Nat
  BY FS_CardinalityType
<1>2. PICK f \in [1..n -> S] : IsInjective(f)
  <2>1. ExistsBijection(1..n, S)
    BY FS_CardinalityType
  <2> QED
    BY <2>1 DEF ExistsBijection, Bijection, Injection, IsInjective
<1>3. s \in [1..n -> S] /\ IsInjective(s)
  BY <1>2 DEF SetToSeq
<1>4. s \in Seq(S)
  BY <1>1, <1>3
<1>5. ToSet(s) \subseteq S
  BY <1>3 DEF ToSet
<1>6. Cardinality(ToSet(s)) = n
  <2>1. s \in Bijection(1..n, ToSet(s))
    BY <1>3 DEF Bijection, Injection, Surjection, IsInjective, ToSet
  <2>2. ExistsBijection(1..n, ToSet(s))
    BY <2>1 DEF ExistsBijection
  <2> QED
    BY <2>2, <1>1, FS_CountingElements
<1>7. ToSet(s) = S
  BY <1>5, <1>6, FS_Subset
<1> QED
  BY <1>4, <1>7

\* The empty sequence has nothing.
LEMMA EmptyToSet ==
  /\ ToSet(<<>>) = {}
  /\ \A S : <<>> \in Seq(S)
BY DEF ToSet

-----------------------------------------------------------------------------
(***************************************************************************)
(* Every action preserves the invariant; the parts an action does not      *)
(* disturb come last.                                                      *)
(***************************************************************************)
USE DEF Status, Place, Stages,
        requestVars, threadVars, dispatcherVars, queueVars, lifecycleVars

\* A request that arrives is in no reader's hands.
LEMMA EnqueueInv ==
  ASSUME NEW r \in Request, CancellationInv, Enqueue(r)
  PROVE  CancellationInv'
<1> USE DEF CancellationInv, Enqueue
<1>1. CancellationTypeOK'
  BY DEF CancellationTypeOK
<1>2. Tasks'
  BY DEF Tasks, CancellationTypeOK
<1>3. AllQuiet'
  BY DEF AllQuiet, Quiet, Control, Restarting, CancellationTypeOK, Tasks
<1>4. PartialNeverDecoded'
  BY DEF PartialNeverDecoded, Tasks, StopsAreCanceled, CancellationTypeOK
<1>5. Control' /\ StopsAreCanceled' /\ Cleared' /\ NoneEscapes' /\ StopsKept'
  BY DEF Control, Quiet, Restarting, StopsAreCanceled, Cleared, NoneEscapes, Looked,
        Reading, StopsKept, Published
<1> QED
  BY <1>1, <1>2, <1>3, <1>4, <1>5

\* The stop of a canceled request is queued; one canceled after the dispatch thread
\* retired was canceled by the stop already.
LEMMA CancelInv ==
  ASSUME NEW r \in Request, CancellationInv, Cancel(r)
  PROVE  CancellationInv'
<1> USE DEF CancellationInv, Cancel
<1>1. CancellationTypeOK'
  BY AppendSet DEF CancellationTypeOK
<1>2. Tasks'
  BY DEF Tasks, CancellationTypeOK
<1>3. StopsAreCanceled'
  BY AppendSet DEF StopsAreCanceled, CancellationTypeOK
<1>4. AllQuiet'
  BY AppendSet DEF AllQuiet, Quiet, Control, Restarting, CancellationTypeOK, Tasks
<1>5. Cleared'
  BY AppendSet DEF Cleared, Control, Quiet, Restarting, StopsAreCanceled,
        CancellationTypeOK
<1>6. NoneEscapes'
  BY DEF NoneEscapes, Looked, Reading, Control, Quiet, Restarting, Tasks,
        CancellationTypeOK
<1>7. StopsKept'
  BY AppendSet DEF StopsKept, Published, Reading, Control, Quiet, Restarting, Tasks,
        CancellationTypeOK, NoneEscapes, Looked, StopsAreCanceled
<1>8. PartialNeverDecoded'
  BY DEF PartialNeverDecoded, Tasks, StopsAreCanceled, CancellationTypeOK
<1>9. Control'
  BY DEF Control, Quiet, Restarting
<1> QED
  BY <1>1, <1>2, <1>3, <1>4, <1>5, <1>6, <1>7, <1>8, <1>9

\* A decoded request leaves the parts about reads alone.
LEMMA SettleInv ==
  ASSUME NEW r \in Request, CancellationInv, Settle(r)
  PROVE  CancellationInv'
<1> USE DEF CancellationInv, Settle
<1>1. CancellationTypeOK'
  BY DEF CancellationTypeOK
<1>2. Tasks'
  BY DEF Tasks, CancellationTypeOK
<1>3. AllQuiet'
  BY DEF AllQuiet, Quiet, Control, Restarting, CancellationTypeOK, Tasks
<1>4. PartialNeverDecoded'
  BY DEF PartialNeverDecoded, Tasks, StopsAreCanceled, CancellationTypeOK
<1>5. Control' /\ StopsAreCanceled' /\ Cleared' /\ NoneEscapes' /\ StopsKept'
  BY DEF Control, Quiet, Restarting, StopsAreCanceled, Cleared, NoneEscapes, Looked,
        Reading, StopsKept, Published
<1> QED
  BY <1>1, <1>2, <1>3, <1>4, <1>5

\* A request that is taken was queued, so no other reader has it.
LEMMA TakeInv ==
  ASSUME NEW t \in Thread, NEW r \in Request, CancellationInv, Take(t, r)
  PROVE  CancellationInv'
<1> USE DEF CancellationInv, Take, Move
<1>1. CancellationTypeOK'
  BY DEF CancellationTypeOK
<1>2. Tasks'
  BY CancellationConstants DEF Tasks, CancellationTypeOK
<1>3. AllQuiet'
  BY DEF AllQuiet, Quiet, Control, Restarting, CancellationTypeOK, Tasks
<1>4. NoneEscapes'
  BY DEF NoneEscapes, Looked, Reading, Control, Quiet, Restarting, Tasks,
        CancellationTypeOK
<1>5. StopsKept'
  BY DEF StopsKept, Published, Reading, Control, Quiet, Restarting, Tasks,
        CancellationTypeOK, NoneEscapes, Looked, StopsAreCanceled
<1>6. PartialNeverDecoded'
  BY DEF PartialNeverDecoded, Tasks, StopsAreCanceled, CancellationTypeOK
<1>7. Control' /\ StopsAreCanceled' /\ Cleared'
  BY DEF Control, Quiet, Restarting, StopsAreCanceled, Cleared
<1> QED
  BY <1>1, <1>2, <1>3, <1>4, <1>5, <1>6, <1>7

\* Background mode changes who runs only.
LEMMA EnterBackgroundInv ==
  ASSUME NEW t \in Thread, CancellationInv, EnterBackground(t)
  PROVE  CancellationInv'
<1> USE DEF CancellationInv, EnterBackground, Move
<1>1. CancellationTypeOK'
  BY DEF CancellationTypeOK
<1>2. Tasks'
  BY DEF Tasks, CancellationTypeOK
<1>3. AllQuiet'
  BY DEF AllQuiet, Quiet, Control, Restarting, CancellationTypeOK, Tasks
<1>4. NoneEscapes'
  BY DEF NoneEscapes, Looked, Reading, Control, Quiet, Restarting, Tasks,
        CancellationTypeOK
<1>5. StopsKept'
  BY DEF StopsKept, Published, Reading, Control, Quiet, Restarting, Tasks,
        CancellationTypeOK, NoneEscapes, Looked, StopsAreCanceled
<1>6. Control' /\ StopsAreCanceled' /\ Cleared' /\ PartialNeverDecoded'
  BY DEF Control, Quiet, Restarting, StopsAreCanceled, Cleared, PartialNeverDecoded
<1> QED
  BY <1>1, <1>2, <1>3, <1>4, <1>5, <1>6

\* A read is on its lease before it looks at the flags.
LEMMA RegisterInv ==
  ASSUME NEW t \in Thread, CancellationInv, Register(t)
  PROVE  CancellationInv'
<1> USE DEF CancellationInv, Register, Move, LeaseFree
<1>1. CancellationTypeOK'
  BY DEF CancellationTypeOK
<1>2. Tasks'
  BY DEF Tasks, CancellationTypeOK
<1>3. AllQuiet'
  BY DEF AllQuiet, Quiet, Control, Restarting, CancellationTypeOK, Tasks
<1>4. NoneEscapes'
  BY DEF NoneEscapes, Looked, Reading, Control, Quiet, Restarting, Tasks,
        CancellationTypeOK
<1>5. StopsKept'
  BY DEF StopsKept, Published, Reading, Control, Quiet, Restarting, Tasks,
        CancellationTypeOK, NoneEscapes, Looked, StopsAreCanceled
<1>6. Control' /\ StopsAreCanceled' /\ Cleared' /\ PartialNeverDecoded'
  BY DEF Control, Quiet, Restarting, StopsAreCanceled, Cleared, PartialNeverDecoded
<1> QED
  BY <1>1, <1>2, <1>3, <1>4, <1>5, <1>6

\* A read goes on only if it was neither canceled nor under shutdown.
LEMMA CheckInv ==
  ASSUME NEW t \in Thread, CancellationInv, Check(t)
  PROVE  CancellationInv'
<1> USE DEF CancellationInv, Check, SeesStop
<1>1. CancellationTypeOK'
  BY DEF CancellationTypeOK
<1>2. Tasks'
  BY DEF Tasks, CancellationTypeOK
<1>3. AllQuiet'
  BY DEF AllQuiet, Quiet, Control, Restarting, CancellationTypeOK, Tasks
<1>4. NoneEscapes'
  BY DEF NoneEscapes, Looked, Reading, Control, Quiet, Restarting, Tasks,
        CancellationTypeOK
<1>5. StopsKept'
  BY DEF StopsKept, Published, Reading, Control, Quiet, Restarting, Tasks,
        CancellationTypeOK, NoneEscapes, Looked, StopsAreCanceled
<1>6. Control' /\ StopsAreCanceled' /\ Cleared' /\ PartialNeverDecoded'
  BY DEF Control, Quiet, Restarting, StopsAreCanceled, Cleared, PartialNeverDecoded
<1> QED
  BY <1>1, <1>2, <1>3, <1>4, <1>5, <1>6

\* A read that blocks goes on.
LEMMA BlockInv ==
  ASSUME NEW t \in Thread, CancellationInv, Block(t)
  PROVE  CancellationInv'
<1> USE DEF CancellationInv, Block, Move
<1>1. CancellationTypeOK'
  BY DEF CancellationTypeOK
<1>2. Tasks'
  BY DEF Tasks, CancellationTypeOK
<1>3. AllQuiet'
  BY DEF AllQuiet, Quiet, Control, Restarting, CancellationTypeOK, Tasks
<1>4. NoneEscapes'
  BY DEF NoneEscapes, Looked, Reading, Control, Quiet, Restarting, Tasks,
        CancellationTypeOK
<1>5. StopsKept'
  BY DEF StopsKept, Published, Reading, Control, Quiet, Restarting, Tasks,
        CancellationTypeOK, NoneEscapes, Looked, StopsAreCanceled
<1>6. Control' /\ StopsAreCanceled' /\ Cleared' /\ PartialNeverDecoded'
  BY DEF Control, Quiet, Restarting, StopsAreCanceled, Cleared, PartialNeverDecoded
<1> QED
  BY <1>1, <1>2, <1>3, <1>4, <1>5, <1>6

\* A read that ends no longer goes on.
LEMMA ReadEndsInv ==
  ASSUME NEW t \in Thread, CancellationInv, ReadEnds(t)
  PROVE  CancellationInv'
<1> USE DEF CancellationInv, ReadEnds, Move
<1>1. CancellationTypeOK'
  BY DEF CancellationTypeOK
<1>2. Tasks'
  BY DEF Tasks, CancellationTypeOK
<1>3. AllQuiet'
  BY DEF AllQuiet, Quiet, Control, Restarting, CancellationTypeOK, Tasks
<1>4. NoneEscapes'
  BY DEF NoneEscapes, Looked, Reading, Control, Quiet, Restarting, Tasks,
        CancellationTypeOK
<1>5. StopsKept'
  BY DEF StopsKept, Published, Reading, Control, Quiet, Restarting, Tasks,
        CancellationTypeOK, NoneEscapes, Looked, StopsAreCanceled
<1>6. Control' /\ StopsAreCanceled' /\ Cleared' /\ PartialNeverDecoded'
  BY DEF Control, Quiet, Restarting, StopsAreCanceled, Cleared, PartialNeverDecoded
<1> QED
  BY <1>1, <1>2, <1>3, <1>4, <1>5, <1>6

\* A read that heeds its token was canceled.
LEMMA ReadStopsInv ==
  ASSUME NEW t \in Thread, CancellationInv, ReadStops(t)
  PROVE  CancellationInv'
<1> USE DEF CancellationInv, ReadStops, Move
<1>1. CancellationTypeOK'
  BY DEF CancellationTypeOK
<1>2. Tasks'
  BY DEF Tasks, CancellationTypeOK
<1>3. StopsAreCanceled'
  BY DEF StopsAreCanceled, CancellationTypeOK
<1>4. AllQuiet'
  BY DEF AllQuiet, Quiet, Control, Restarting, CancellationTypeOK, Tasks
<1>5. NoneEscapes'
  BY DEF NoneEscapes, Looked, Reading, Control, Quiet, Restarting, Tasks,
        CancellationTypeOK
<1>6. StopsKept'
  BY DEF StopsKept, Published, Reading, Control, Quiet, Restarting, Tasks,
        CancellationTypeOK, NoneEscapes, Looked, StopsAreCanceled
<1>7. PartialNeverDecoded'
  BY DEF PartialNeverDecoded, Tasks, StopsAreCanceled, CancellationTypeOK
<1>8. Control' /\ Cleared'
  BY DEF Control, Quiet, Restarting, Cleared
<1> QED
  BY <1>1, <1>2, <1>3, <1>4, <1>5, <1>6, <1>7, <1>8

\* A read leaves its lease after it ended.
LEMMA RetireInv ==
  ASSUME NEW t \in Thread, CancellationInv, Retire(t)
  PROVE  CancellationInv'
<1> USE DEF CancellationInv, Retire, Move, LeaseFree
<1>1. CancellationTypeOK'
  BY DEF CancellationTypeOK
<1>2. Tasks'
  BY DEF Tasks, CancellationTypeOK
<1>3. AllQuiet'
  BY DEF AllQuiet, Quiet, Control, Restarting, CancellationTypeOK, Tasks
<1>4. NoneEscapes'
  BY DEF NoneEscapes, Looked, Reading, Control, Quiet, Restarting, Tasks,
        CancellationTypeOK
<1>5. StopsKept'
  BY DEF StopsKept, Published, Reading, Control, Quiet, Restarting, Tasks,
        CancellationTypeOK, NoneEscapes, Looked, StopsAreCanceled
<1>6. Control' /\ StopsAreCanceled' /\ Cleared' /\ PartialNeverDecoded'
  BY DEF Control, Quiet, Restarting, StopsAreCanceled, Cleared, PartialNeverDecoded
<1> QED
  BY <1>1, <1>2, <1>3, <1>4, <1>5, <1>6

\* A request that goes on to a decode was not canceled, so its read is whole.
LEMMA FinishInv ==
  ASSUME NEW t \in Thread, CancellationInv, Finish(t)
  PROVE  CancellationInv'
<1> USE DEF CancellationInv, Finish, Move, Discards
<1>1. CancellationTypeOK'
  BY CancellationConstants DEF CancellationTypeOK, Tasks
<1>2. Tasks'
  BY DEF Tasks, CancellationTypeOK
<1>3. AllQuiet'
  BY DEF AllQuiet, Quiet, Control, Restarting, CancellationTypeOK, Tasks
<1>4. NoneEscapes'
  BY DEF NoneEscapes, Looked, Reading, Control, Quiet, Restarting, Tasks,
        CancellationTypeOK
<1>5. StopsKept'
  BY DEF StopsKept, Published, Reading, Control, Quiet, Restarting, Tasks,
        CancellationTypeOK, NoneEscapes, Looked, StopsAreCanceled
<1>6. PartialNeverDecoded'
  BY ZenonT(60) DEF PartialNeverDecoded, Tasks, StopsAreCanceled, CancellationTypeOK
<1>7. Control' /\ StopsAreCanceled' /\ Cleared'
  BY DEF Control, Quiet, Restarting, StopsAreCanceled, Cleared
<1> QED
  BY <1>1, <1>2, <1>3, <1>4, <1>5, <1>6, <1>7

\* A stop taken from the queue is about to be signaled.
LEMMA DispatchTakeInv ==
  ASSUME CancellationInv, DispatchTake
  PROVE  CancellationInv'
<1> USE DEF CancellationInv, DispatchTake
<1>1. CancellationTypeOK'
  BY HeadTailSet, CancellationConstants DEF CancellationTypeOK, Control, Quiet,
        Restarting
<1>2. Control'
  BY HeadTailSet, CancellationConstants DEF Control, Quiet, Restarting,
        CancellationTypeOK
<1>3. StopsAreCanceled'
  BY HeadTailSet, CancellationConstants DEF StopsAreCanceled, CancellationTypeOK
<1>4. AllQuiet'
  BY HeadTailSet, CancellationConstants DEF AllQuiet, Quiet, Control, Restarting,
        CancellationTypeOK, Tasks
<1>5. Cleared'
  BY HeadTailSet, CancellationConstants DEF Cleared, Control, Quiet, Restarting,
        StopsAreCanceled
<1>6. StopsKept'
  BY HeadTailSet, CancellationConstants DEF StopsKept, Published, Reading, Control,
        Quiet, Restarting, Tasks, CancellationTypeOK, NoneEscapes, Looked,
        StopsAreCanceled
<1>7. Tasks' /\ NoneEscapes' /\ PartialNeverDecoded'
  BY DEF Tasks, NoneEscapes, Looked, Reading, PartialNeverDecoded
<1> QED
  BY <1>1, <1>2, <1>3, <1>4, <1>5, <1>6, <1>7

\* A stop in the dispatch thread's hands is delivered.
LEMMA DispatchSignalInv ==
  ASSUME CancellationInv, DispatchSignal
  PROVE  CancellationInv'
<1> USE DEF CancellationInv, DispatchSignal
<1>1. CancellationTypeOK'
  BY CancellationConstants DEF CancellationTypeOK, Control, Quiet, Restarting
<1>2. Control'
  BY DEF Control, Quiet, Restarting, CancellationTypeOK
<1>3. StopsAreCanceled'
  BY CancellationConstants DEF StopsAreCanceled, CancellationTypeOK, Control, Quiet,
        Restarting
<1>4. AllQuiet'
  BY DEF AllQuiet, Quiet, Control, Restarting, CancellationTypeOK, Tasks
<1>5. StopsKept'
  BY DEF StopsKept, Published, Reading, Control, Quiet, Restarting, Tasks,
        CancellationTypeOK, NoneEscapes, Looked, StopsAreCanceled
<1>6. Tasks' /\ Cleared' /\ NoneEscapes' /\ PartialNeverDecoded'
  BY DEF Tasks, Cleared, NoneEscapes, Looked, Reading, PartialNeverDecoded
<1> QED
  BY <1>1, <1>2, <1>3, <1>4, <1>5, <1>6

\* The lease is held only while the request is read on it.
LEMMA DispatchLockInv ==
  ASSUME CancellationInv, DispatchLock
  PROVE  CancellationInv'
<1> USE DEF CancellationInv, DispatchLock
<1>1. CancellationTypeOK'
  BY CancellationConstants DEF CancellationTypeOK, Control, Quiet, Restarting
<1>2. Control'
  BY DEF Control, Quiet, Restarting, CancellationTypeOK
<1>3. StopsAreCanceled'
  BY DEF StopsAreCanceled, CancellationTypeOK
<1>4. AllQuiet'
  BY DEF AllQuiet, Quiet, Control, Restarting, CancellationTypeOK, Tasks
<1>5. StopsKept'
  BY DEF StopsKept, Published, Reading, Control, Quiet, Restarting, Tasks,
        CancellationTypeOK, NoneEscapes, Looked, StopsAreCanceled
<1>6. Tasks' /\ Cleared' /\ NoneEscapes' /\ PartialNeverDecoded'
  BY DEF Tasks, Cleared, NoneEscapes, Looked, Reading, PartialNeverDecoded
<1> QED
  BY <1>1, <1>2, <1>3, <1>4, <1>5, <1>6

\* The read that the operating system ends is that of the canceled request.
LEMMA DispatchCancelInv ==
  ASSUME CancellationInv, DispatchCancel
  PROVE  CancellationInv'
<1> USE DEF CancellationInv, DispatchCancel, CancelSynchronousIo
<1>1. CancellationTypeOK'
  BY CancellationConstants DEF CancellationTypeOK, Control, Quiet, Restarting, Tasks
<1>2. Control'
  BY DEF Control, Quiet, Restarting, CancellationTypeOK
<1>3. Tasks'
  BY DEF Tasks, CancellationTypeOK
<1>4. StopsAreCanceled'
  BY CancellationConstants DEF StopsAreCanceled, CancellationTypeOK, Control, Quiet,
        Restarting, Tasks
<1>5. AllQuiet'
  BY DEF AllQuiet, Quiet, Control, Restarting, CancellationTypeOK, Tasks
<1>6. NoneEscapes'
  BY DEF NoneEscapes, Looked, Reading, Control, Quiet, Restarting, Tasks,
        CancellationTypeOK
<1>7. StopsKept'
  BY DEF StopsKept, Published, Reading, Control, Quiet, Restarting, Tasks,
        CancellationTypeOK, NoneEscapes, Looked, StopsAreCanceled
<1>8. PartialNeverDecoded'
  BY CancellationConstants DEF PartialNeverDecoded, Tasks, StopsAreCanceled,
        CancellationTypeOK, Control, Quiet, Restarting
<1>9. Cleared'
  BY DEF Cleared
<1> QED
  BY <1>1, <1>2, <1>3, <1>4, <1>5, <1>6, <1>7, <1>8, <1>9

\* The dispatch thread retires when everything published is delivered.
LEMMA DispatchExitInv ==
  ASSUME CancellationInv, DispatchExit
  PROVE  CancellationInv'
<1> USE DEF CancellationInv, DispatchExit, MayRetire
<1>1. CancellationTypeOK'
  BY EmptyToSet DEF CancellationTypeOK
<1>2. Control'
  BY DEF Control, Quiet, Restarting, CancellationTypeOK
<1>3. AllQuiet'
  BY EmptyToSet DEF AllQuiet, Quiet, Control, Restarting, CancellationTypeOK, Tasks
<1>4. StopsKept'
  BY EmptyToSet DEF StopsKept, Published, Reading, Control, Quiet, Restarting,
        Tasks, CancellationTypeOK, NoneEscapes, Looked, StopsAreCanceled
<1>5. Tasks' /\ StopsAreCanceled' /\ Cleared' /\ NoneEscapes' /\ PartialNeverDecoded'
  BY DEF Tasks, StopsAreCanceled, Cleared, NoneEscapes, Looked, Reading,
        PartialNeverDecoded
<1> QED
  BY <1>1, <1>2, <1>3, <1>4, <1>5

\* A stop cancels what is live and has it in `found`.
LEMMA BeginStopInv ==
  ASSUME NEW name \in Calls, CancellationInv, BeginStop(name)
  PROVE  CancellationInv'
<1> USE DEF CancellationInv, BeginStop, Stopped
<1>1. CancellationTypeOK'
  BY DEF CancellationTypeOK
<1>2. Control'
  BY CancellationConstants DEF Control, Quiet, Restarting, CancellationTypeOK
<1>3. StopsAreCanceled'
  BY DEF StopsAreCanceled, CancellationTypeOK
<1>4. AllQuiet'
  BY DEF AllQuiet, Quiet, Control, Restarting, CancellationTypeOK, Tasks
<1>5. Cleared'
  BY DEF Cleared, Control, Quiet, Restarting, StopsAreCanceled
<1>6. NoneEscapes'
  BY DEF NoneEscapes, Looked, Reading, Control, Quiet, Restarting, Tasks,
        CancellationTypeOK
<1>7. StopsKept'
  BY DEF StopsKept, Published, Reading, Control, Quiet, Restarting, Tasks,
        CancellationTypeOK, NoneEscapes, Looked, StopsAreCanceled
<1>8. Tasks' /\ PartialNeverDecoded'
  BY DEF Tasks, PartialNeverDecoded
<1> QED
  BY <1>1, <1>2, <1>3, <1>4, <1>5, <1>6, <1>7, <1>8

\* A restart of a stopped scheduler finds it quiet.
LEMMA SkipStopInv ==
  ASSUME CancellationInv, SkipStop
  PROVE  CancellationInv'
<1> USE DEF CancellationInv, SkipStop, Stopped
<1>1. CancellationTypeOK'
  BY DEF CancellationTypeOK
<1>2. Control'
  BY DEF Control, Quiet, Restarting, CancellationTypeOK
<1>3. AllQuiet'
  BY DEF AllQuiet, Quiet, Control, Restarting, CancellationTypeOK, Tasks
<1>4. Cleared'
  BY DEF Cleared, Control, Quiet, Restarting, StopsAreCanceled
<1>5. NoneEscapes'
  BY DEF NoneEscapes, Looked, Reading, Control, Quiet, Restarting, Tasks,
        CancellationTypeOK
<1>6. StopsKept'
  BY DEF StopsKept, Published, Reading, Control, Quiet, Restarting, Tasks,
        CancellationTypeOK, NoneEscapes, Looked, StopsAreCanceled
<1>7. Tasks' /\ StopsAreCanceled' /\ PartialNeverDecoded'
  BY DEF Tasks, StopsAreCanceled, PartialNeverDecoded
<1> QED
  BY <1>1, <1>2, <1>3, <1>4, <1>5, <1>6, <1>7

\* No lease is looked at before the scan.
LEMMA RaiseThreadPrioritiesInv ==
  ASSUME CancellationInv, RaiseThreadPriorities
  PROVE  CancellationInv'
<1> USE DEF CancellationInv, RaiseThreadPriorities
<1>1. CancellationTypeOK'
  BY DEF CancellationTypeOK
<1>2. Control'
  BY DEF Control, Quiet, Restarting, CancellationTypeOK
<1>3. AllQuiet'
  BY DEF AllQuiet, Quiet, Control, Restarting, CancellationTypeOK, Tasks
<1>4. Cleared'
  BY DEF Cleared, Control, Quiet, Restarting, StopsAreCanceled
<1>5. NoneEscapes'
  BY DEF NoneEscapes, Looked, Reading, Control, Quiet, Restarting, Tasks,
        CancellationTypeOK
<1>6. StopsKept'
  BY DEF StopsKept, Published, Reading, Control, Quiet, Restarting, Tasks,
        CancellationTypeOK, NoneEscapes, Looked, StopsAreCanceled
<1>7. Tasks' /\ StopsAreCanceled' /\ PartialNeverDecoded'
  BY DEF Tasks, StopsAreCanceled, PartialNeverDecoded
<1> QED
  BY <1>1, <1>2, <1>3, <1>4, <1>5, <1>6, <1>7

\* What is read on a lease that was looked at is canceled and in `found`.
LEMMA ScanLeaseInv ==
  ASSUME NEW t \in Thread, CancellationInv, ScanLease(t)
  PROVE  CancellationInv'
<1> USE DEF CancellationInv, ScanLease, LeaseFree
<1>1. CancellationTypeOK'
  BY DEF CancellationTypeOK
<1>2. Control'
  BY DEF Control, Quiet, Restarting, CancellationTypeOK
<1>3. StopsAreCanceled'
  BY DEF StopsAreCanceled, CancellationTypeOK
<1>4. AllQuiet'
  BY DEF AllQuiet, Quiet, Control, Restarting, CancellationTypeOK, Tasks
<1>5. Cleared'
  BY DEF Cleared, Control, Quiet, Restarting, StopsAreCanceled
<1>6. NoneEscapes'
  BY DEF NoneEscapes, Looked, Reading, Control, Quiet, Restarting, Tasks,
        CancellationTypeOK
<1>7. StopsKept'
  BY DEF StopsKept, Published, Reading, Control, Quiet, Restarting, Tasks,
        CancellationTypeOK, NoneEscapes, Looked, StopsAreCanceled
<1>8. Tasks' /\ PartialNeverDecoded'
  BY DEF Tasks, PartialNeverDecoded
<1> QED
  BY <1>1, <1>2, <1>3, <1>4, <1>5, <1>6, <1>7, <1>8

\* What was found is queued; if the dispatch thread has retired, it was delivered
\* by the stop before.
LEMMA PublishStopsInv ==
  ASSUME CancellationInv, PublishStops
  PROVE  CancellationInv'
<1> USE DEF CancellationInv, PublishStops
<1>0. /\ stopQueue' \in Seq(Request)
      /\ ToSet(stopQueue') = ToSet(stopQueue) \cup found
  <2>1. IsFiniteSet(found)
    BY CancellationConstants, FS_Subset DEF CancellationTypeOK
  <2>2. SetToSeq(found) \in Seq(found) /\ ToSet(SetToSeq(found)) = found
    BY <2>1, SetToSeqSet
  <2>3. SetToSeq(found) \in Seq(Request)
    BY <2>2, SeqMonotonic DEF CancellationTypeOK
  <2> QED
    BY <2>2, <2>3, ConcatSet DEF CancellationTypeOK
<1>1. CancellationTypeOK'
  BY <1>0 DEF CancellationTypeOK
<1>2. Control'
  BY DEF Control, Quiet, Restarting, CancellationTypeOK
<1>3. StopsAreCanceled'
  BY <1>0 DEF StopsAreCanceled, CancellationTypeOK
<1>4. AllQuiet'
  BY <1>0 DEF AllQuiet, Quiet, Control, Restarting, CancellationTypeOK, Tasks
<1>5. Cleared'
  BY <1>0 DEF Cleared, Control, Quiet, Restarting, StopsAreCanceled
<1>6. NoneEscapes'
  BY DEF NoneEscapes, Looked, Reading, Control, Quiet, Restarting, Tasks,
        CancellationTypeOK
<1>7. StopsKept'
  BY <1>0 DEF StopsKept, Published, Reading, Control, Quiet, Restarting, Tasks,
        CancellationTypeOK, NoneEscapes, Looked, StopsAreCanceled
<1>8. Tasks' /\ PartialNeverDecoded'
  BY DEF Tasks, PartialNeverDecoded
<1> QED
  BY <1>1, <1>2, <1>3, <1>4, <1>5, <1>6, <1>7, <1>8

\* A retry ends only reads that were canceled.
LEMMA CancelActiveReadInv ==
  ASSUME NEW t \in Thread, CancellationInv, CancelActiveRead(t)
  PROVE  CancellationInv'
<1> USE DEF CancellationInv, CancelActiveRead, CancelSynchronousIo, LeaseFree
<1>1. CancellationTypeOK'
  BY CancellationConstants DEF CancellationTypeOK, Tasks
<1>2. Tasks'
  BY DEF Tasks, CancellationTypeOK
<1>3. StopsAreCanceled'
  BY CancellationConstants DEF StopsAreCanceled, CancellationTypeOK, Tasks
<1>4. AllQuiet'
  BY DEF AllQuiet, Quiet, Control, Restarting, CancellationTypeOK, Tasks
<1>5. NoneEscapes'
  BY DEF NoneEscapes, Looked, Reading, Control, Quiet, Restarting, Tasks,
        CancellationTypeOK
<1>6. StopsKept'
  BY DEF StopsKept, Published, Reading, Control, Quiet, Restarting, Tasks,
        CancellationTypeOK, NoneEscapes, Looked, StopsAreCanceled
<1>7. PartialNeverDecoded'
  BY CancellationConstants DEF PartialNeverDecoded, Tasks, StopsAreCanceled,
        CancellationTypeOK
<1>8. Control' /\ Cleared'
  BY DEF Control, Quiet, Restarting, Cleared
<1> QED
  BY <1>1, <1>2, <1>3, <1>4, <1>5, <1>6, <1>7, <1>8

\* Priorities do not matter to what is stopped.
LEMMA RaiseAgainInv ==
  ASSUME CancellationInv, RaiseAgain
  PROVE  CancellationInv'
<1> USE DEF CancellationInv, RaiseAgain, RaisedAgain
<1>1. CancellationTypeOK'
  BY DEF CancellationTypeOK
<1>2. Control' /\ Tasks' /\ StopsAreCanceled' /\ AllQuiet' /\ Cleared' /\ NoneEscapes' /\ StopsKept' /\ PartialNeverDecoded'
  BY DEF Control, Quiet, Restarting, Tasks, StopsAreCanceled, AllQuiet, Cleared,
        NoneEscapes, Looked, Reading, StopsKept, Published, PartialNeverDecoded
<1> QED
  BY <1>1, <1>2

\* A stop that gives up has published all it found.
LEMMA BoundExpiresInv ==
  ASSUME CancellationInv, BoundExpires
  PROVE  CancellationInv'
<1> USE DEF CancellationInv, BoundExpires
<1>1. CancellationTypeOK'
  BY DEF CancellationTypeOK
<1>2. Control'
  BY DEF Control, Quiet, Restarting, CancellationTypeOK
<1>3. AllQuiet'
  BY DEF AllQuiet, Quiet, Control, Restarting, CancellationTypeOK, Tasks
<1>4. Cleared'
  BY DEF Cleared, Control, Quiet, Restarting, StopsAreCanceled
<1>5. NoneEscapes'
  BY DEF NoneEscapes, Looked, Reading, Control, Quiet, Restarting, Tasks,
        CancellationTypeOK
<1>6. StopsKept'
  BY DEF StopsKept, Published, Reading, Control, Quiet, Restarting, Tasks,
        CancellationTypeOK, NoneEscapes, Looked, StopsAreCanceled
<1>7. Tasks' /\ StopsAreCanceled' /\ PartialNeverDecoded'
  BY DEF Tasks, StopsAreCanceled, PartialNeverDecoded
<1> QED
  BY <1>1, <1>2, <1>3, <1>4, <1>5, <1>6, <1>7

\* After a join nothing is read, queued or live.
LEMMA JoinAllInv ==
  ASSUME CancellationInv, JoinAll
  PROVE  CancellationInv'
<1> USE DEF CancellationInv, JoinAll
<1>1. CancellationTypeOK'
  BY EmptyToSet DEF CancellationTypeOK
<1>2. Control'
  BY DEF Control, Quiet, Restarting, CancellationTypeOK
<1>3. Tasks'
  BY DEF Tasks, CancellationTypeOK
<1>4. StopsAreCanceled'
  BY EmptyToSet DEF StopsAreCanceled, CancellationTypeOK
<1>5. AllQuiet'
  BY EmptyToSet DEF AllQuiet, Quiet, Control, Restarting, CancellationTypeOK, Tasks
<1>6. Cleared'
  BY EmptyToSet DEF Cleared, Control, Quiet, Restarting, StopsAreCanceled
<1>7. NoneEscapes'
  BY DEF NoneEscapes, Looked, Reading, Control, Quiet, Restarting, Tasks,
        CancellationTypeOK
<1>8. StopsKept'
  BY EmptyToSet DEF StopsKept, Published, Reading, Control, Quiet, Restarting,
        Tasks, CancellationTypeOK, NoneEscapes, Looked, StopsAreCanceled
<1>9. PartialNeverDecoded'
  BY DEF PartialNeverDecoded, Tasks, StopsAreCanceled, CancellationTypeOK
<1> QED
  BY <1>1, <1>2, <1>3, <1>4, <1>5, <1>6, <1>7, <1>8, <1>9

\* A restart begins quiet.
LEMMA ReopenInv ==
  ASSUME CancellationInv, Reopen
  PROVE  CancellationInv'
<1> USE DEF CancellationInv, Reopen
<1>1. CancellationTypeOK'
  BY EmptyToSet DEF CancellationTypeOK
<1>2. Control'
  BY DEF Control, Quiet, Restarting, CancellationTypeOK, AllQuiet
<1>3. AllQuiet'
  BY EmptyToSet DEF AllQuiet, Quiet, Control, Restarting, CancellationTypeOK, Tasks
<1>4. Cleared'
  BY EmptyToSet DEF Cleared, Control, Quiet, Restarting, StopsAreCanceled, AllQuiet
<1>5. NoneEscapes'
  BY DEF NoneEscapes, Looked, Reading, Control, Quiet, Restarting, Tasks,
        CancellationTypeOK
<1>6. StopsKept'
  BY EmptyToSet DEF StopsKept, Published, Reading, Control, Quiet, Restarting,
        Tasks, CancellationTypeOK, NoneEscapes, Looked, StopsAreCanceled
<1>7. Tasks' /\ StopsAreCanceled' /\ PartialNeverDecoded'
  BY DEF Tasks, StopsAreCanceled, PartialNeverDecoded
<1> QED
  BY <1>1, <1>2, <1>3, <1>4, <1>5, <1>6, <1>7

\* Only stops of requests canceled since the reopening are cleared.
LEMMA ClearStopsInv ==
  ASSUME CancellationInv, ClearStops
  PROVE  CancellationInv'
<1> USE DEF CancellationInv, ClearStops
<1>1. CancellationTypeOK'
  BY EmptyToSet DEF CancellationTypeOK
<1>2. Control'
  BY DEF Control, Quiet, Restarting, CancellationTypeOK
<1>3. StopsAreCanceled'
  BY EmptyToSet DEF StopsAreCanceled, CancellationTypeOK
<1>4. AllQuiet'
  BY EmptyToSet DEF AllQuiet, Quiet, Control, Restarting, CancellationTypeOK, Tasks
<1>5. Cleared'
  BY EmptyToSet DEF Cleared, Control, Quiet, Restarting, StopsAreCanceled
<1>6. NoneEscapes'
  BY DEF NoneEscapes, Looked, Reading, Control, Quiet, Restarting, Tasks,
        CancellationTypeOK
<1>7. StopsKept'
  BY EmptyToSet DEF StopsKept, Published, Reading, Control, Quiet, Restarting,
        Tasks, CancellationTypeOK, NoneEscapes, Looked, StopsAreCanceled, Cleared
<1>8. Tasks' /\ PartialNeverDecoded'
  BY DEF Tasks, PartialNeverDecoded
<1> QED
  BY <1>1, <1>2, <1>3, <1>4, <1>5, <1>6, <1>7, <1>8

\* The new dispatch thread serves what was queued since.
LEMMA StartDispatchInv ==
  ASSUME CancellationInv, StartDispatch
  PROVE  CancellationInv'
<1> USE DEF CancellationInv, StartDispatch
<1>1. CancellationTypeOK'
  BY DEF CancellationTypeOK
<1>2. Control'
  BY DEF Control, Quiet, Restarting, CancellationTypeOK
<1>3. AllQuiet'
  BY DEF AllQuiet, Quiet, Control, Restarting, CancellationTypeOK, Tasks
<1>4. Cleared'
  BY DEF Cleared, Control, Quiet, Restarting, StopsAreCanceled
<1>5. NoneEscapes'
  BY DEF NoneEscapes, Looked, Reading, Control, Quiet, Restarting, Tasks,
        CancellationTypeOK
<1>6. StopsKept'
  BY DEF StopsKept, Published, Reading, Control, Quiet, Restarting, Tasks,
        CancellationTypeOK, NoneEscapes, Looked, StopsAreCanceled
<1>7. Tasks' /\ StopsAreCanceled' /\ PartialNeverDecoded'
  BY DEF Tasks, StopsAreCanceled, PartialNeverDecoded
<1> QED
  BY <1>1, <1>2, <1>3, <1>4, <1>5, <1>6, <1>7

\* A step of the next-state relation preserves the invariant.
LEMMA NextInv ==
  ASSUME CancellationInv, [Next]_vars
  PROVE  CancellationInv'
<1>1. CASE \E r \in Request : Enqueue(r)
  BY <1>1, EnqueueInv
<1>2. CASE \E r \in Request : Cancel(r)
  BY <1>2, CancelInv
<1>3. CASE \E r \in Request : Settle(r)
  BY <1>3, SettleInv
<1>4. CASE \E t \in Thread, r \in Request : Take(t, r)
  BY <1>4, TakeInv
<1>5. CASE \E t \in Thread : EnterBackground(t)
  BY <1>5, EnterBackgroundInv
<1>6. CASE \E t \in Thread : Register(t)
  BY <1>6, RegisterInv
<1>7. CASE \E t \in Thread : Check(t)
  BY <1>7, CheckInv
<1>8. CASE \E t \in Thread : Block(t)
  BY <1>8, BlockInv
<1>9. CASE \E t \in Thread : ReadEnds(t)
  BY <1>9, ReadEndsInv
<1>10. CASE \E t \in Thread : ReadStops(t)
  BY <1>10, ReadStopsInv
<1>11. CASE \E t \in Thread : Retire(t)
  BY <1>11, RetireInv
<1>12. CASE \E t \in Thread : Finish(t)
  BY <1>12, FinishInv
<1>13. CASE DispatchTake
  BY <1>13, DispatchTakeInv
<1>14. CASE DispatchSignal
  BY <1>14, DispatchSignalInv
<1>15. CASE DispatchLock
  BY <1>15, DispatchLockInv
<1>16. CASE DispatchCancel
  BY <1>16, DispatchCancelInv
<1>17. CASE DispatchExit
  BY <1>17, DispatchExitInv
<1>18. CASE \E name \in Calls : BeginStop(name)
  BY <1>18, BeginStopInv
<1>19. CASE SkipStop
  BY <1>19, SkipStopInv
<1>20. CASE RaiseThreadPriorities
  BY <1>20, RaiseThreadPrioritiesInv
<1>21. CASE \E t \in Thread : ScanLease(t)
  BY <1>21, ScanLeaseInv
<1>22. CASE PublishStops
  BY <1>22, PublishStopsInv
<1>23. CASE \E t \in Thread : CancelActiveRead(t)
  BY <1>23, CancelActiveReadInv
<1>24. CASE RaiseAgain
  BY <1>24, RaiseAgainInv
<1>25. CASE BoundExpires
  BY <1>25, BoundExpiresInv
<1>26. CASE JoinAll
  BY <1>26, JoinAllInv
<1>27. CASE Reopen
  BY <1>27, ReopenInv
<1>28. CASE ClearStops
  BY <1>28, ClearStopsInv
<1>29. CASE StartDispatch
  BY <1>29, StartDispatchInv
<1>30. CASE UNCHANGED vars
  BY <1>30 DEF CancellationInv, vars, CancellationTypeOK, Control, Tasks, StopsAreCanceled,
        AllQuiet, Quiet, Restarting, Cleared, NoneEscapes, Looked, StopsKept, Published,
        Reading, PartialNeverDecoded
<1> QED
  BY <1>1, <1>2, <1>3, <1>4, <1>5, <1>6, <1>7, <1>8, <1>9, <1>10, <1>11, <1>12, <1>13, <1>14, <1>15,
     <1>16, <1>17, <1>18, <1>19, <1>20, <1>21, <1>22, <1>23, <1>24, <1>25, <1>26, <1>27, <1>28, <1>29, <1>30
     DEF Next, ThreadStep, Dispatch, Lifecycle

\* The initial states satisfy the invariant.
LEMMA InitInv == Init => CancellationInv
<1> SUFFICES ASSUME Init PROVE CancellationInv
  OBVIOUS
<1> USE DEF Init
<1>1. CancellationTypeOK
  BY EmptyToSet DEF CancellationTypeOK
<1>2. Control /\ Tasks
  BY DEF Control, Restarting, Tasks
<1>3. StopsAreCanceled /\ PartialNeverDecoded
  BY EmptyToSet DEF StopsAreCanceled, PartialNeverDecoded
<1>4. AllQuiet /\ Cleared
  BY DEF AllQuiet, Quiet, Cleared
<1>5. NoneEscapes /\ StopsKept
  BY DEF NoneEscapes, StopsKept, Reading
<1> QED
  BY <1>1, <1>2, <1>3, <1>4, <1>5 DEF CancellationInv

-----------------------------------------------------------------------------
(***************************************************************************)
(* The theorems.                                                           *)
(***************************************************************************)

\* The invariant of reads, leases, stops and lifecycle calls.
THEOREM ReadsInvariant == Spec => []CancellationInv
BY InitInv, NextInv, PTL DEF Spec

\* LeasedRead and StopRequest keep their types, and an OS cancel in progress holds
\* the lease on which the read it aims at is registered.
THEOREM LeasesTyped == Spec => []CancellationTypeOK
<1>1. CancellationInv => CancellationTypeOK
  BY DEF CancellationInv
<1> QED
  BY <1>1, ReadsInvariant, PTL

\* Once StopAndJoin has published what it found, it has canceled every read that
\* goes on, also of requests in no live table.
THEOREM StopsReachAllReads == Spec => []NoReadEscapesStop
<1>1. CancellationInv => NoReadEscapesStop
  BY DEF CancellationInv, NoneEscapes, Looked, NoReadEscapesStop
<1> QED
  BY <1>1, ReadsInvariant, PTL

\* A canceled read that goes on has its stop delivered or on the way, unless it was
\* canceled between the reopening of a restart and its clearing of the stop queue.
THEOREM StopsArrive == Spec => []StopLostOnlyByRestart
<1>1. CancellationInv => StopLostOnlyByRestart
  BY DEF CancellationInv, StopsKept, Published, Restarting, StopLostOnlyByRestart,
         StopOnItsWay
<1> QED
  BY <1>1, ReadsInvariant, PTL

\* The readers discard every read a stop cut short.
THEOREM PartialDiscarded == Spec => []PartialNeverDecoded
<1>1. CancellationInv => PartialNeverDecoded
  BY DEF CancellationInv
<1> QED
  BY <1>1, ReadsInvariant, PTL

\* CancelSynchronousIo ends only reads that were canceled: whoever calls it holds
\* the lease of the thread, and the lease names the request.
LEMMA CanceledOnly ==
  ASSUME CancellationInv, [Next]_vars, NEW t \in Thread,
         at[t] = "blocked", partial' # partial, at'[t] = "retiring"
  PROVE  task[t] \in canceled
<1> USE DEF CancellationInv, CancelSynchronousIo
<1>1. CASE DispatchCancel
  <2>1. held \in Thread /\ t = held
    BY <1>1 DEF DispatchCancel, CancellationTypeOK, Control
  <2>2. task[t] = stopping
    BY <2>1, CancellationConstants DEF CancellationTypeOK, Tasks
  <2> QED
    BY <1>1, <2>2 DEF DispatchCancel, Control, StopsAreCanceled
<1>2. ASSUME NEW u \in Thread, CancelActiveRead(u)
      PROVE  task[t] \in canceled
  BY <1>2 DEF CancelActiveRead, CancellationTypeOK, Tasks
<1>3. ASSUME NEW u \in Thread, ReadStops(u)
      PROVE  FALSE
  BY <1>3 DEF ReadStops, Move, CancellationTypeOK
<1>4. CASE partial' = partial
  BY <1>4
<1> QED
  BY <1>1, <1>2, <1>3, <1>4
     DEF Next, ThreadStep, Dispatch, Lifecycle, vars, Enqueue, Cancel, Settle, Take,
         EnterBackground, Register, Check, Block, ReadEnds, Retire, Finish, DispatchTake,
         DispatchSignal, DispatchLock, DispatchExit, BeginStop, SkipStop,
         RaiseThreadPriorities, ScanLease, PublishStops, RaiseAgain, BoundExpires,
         JoinAll, Reopen, ClearStops, StartDispatch

\* A late dispatch never ends the next read of the thread.
THEOREM NoStrayCancel == Spec => LateCancelHitsNoOther
<1>1. ASSUME CancellationInv, [Next]_vars
      PROVE  [\A t \in Thread :
                at[t] = "blocked" /\ partial' # partial /\ at'[t] = "retiring" =>
                  task[t] \in canceled]_vars
  BY <1>1, CanceledOnly
<1> QED
  BY <1>1, ReadsInvariant, PTL DEF Spec, LateCancelHitsNoOther

================================================================================
