------------------------- MODULE SchedulerLanesProofs -------------------------
(***************************************************************************)
(* Theorems about the lanes of the scheduler: which are alive, that their  *)
(* flags and counts are those of their requests, and which request an      *)
(* admission takes.                                                        *)
(***************************************************************************)
EXTENDS RequestStageProofs, WellFoundedInduction

-----------------------------------------------------------------------------
(***************************************************************************)
(* A lane table and the requests it speaks of.                             *)
(***************************************************************************)

\* The requests that `kind` of read is under way for in the lane, and the holders of
\* its slots, in states st with their threads at jb.
ReadingOn(st, jb, kind, key) == {r \in Request : jb[r] = kind /\ st[r].laneKey = key}
HoldersOn(st, key) == {r \in Request : st[r].holdsPrefetchSlot /\ st[r].laneKey = key}

AtMostOne(S) == \A q, r \in S : q = r

\* The lane has a flag for the one read of each kind, and counts the holders.
Exact(lane, key, st, jb) ==
  /\ AtMostOne(ReadingOn(st, jb, "reading", key))
  /\ AtMostOne(ReadingOn(st, jb, "mainReading", key))
  /\ lane.reading <=> ReadingOn(st, jb, "reading", key) # {}
  /\ lane.mainReading <=> ReadingOn(st, jb, "mainReading", key) # {}
  /\ lane.held = Cardinality(HoldersOn(st, key))

\* A request that is read, or holds a slot, does so in a lane of the table.
Located(table, st, jb) ==
  \A r \in Request : jb[r] \in Reading \/ st[r].holdsPrefetchSlot => st[r].laneKey \in DOMAIN table

Exactly(table, st, jb) ==
  /\ Located(table, st, jb)
  /\ \A key \in DOMAIN table : Exact(table[key], key, st, jb)

NoneIdle(table, key) == \A k \in DOMAIN table \ {key} : ~Idle(table[k])

LaneInv ==
  /\ Exactly(lanes, state, job)
  /\ \A key \in DOMAIN lanes : ~Idle(lanes[key])

SameFlags(lane, old) ==
  /\ lane.reading <=> old.reading
  /\ lane.mainReading <=> old.mainReading
  /\ lane.held = old.held

\* Nothing a lane counts or flags changes with the request.
SameOnLanes(s, j, t, i) ==
  /\ t.holdsPrefetchSlot <=> s.holdsPrefetchSlot
  /\ s.holdsPrefetchSlot => t.laneKey = s.laneKey
  /\ \A kind \in Reading : i = kind <=> j = kind
  /\ j \in Reading => t.laneKey = s.laneKey

\* Reclaiming a lane once it is idle leaves nobody without a lane, and none idle.
LEMMA ReclaimExact ==
  ASSUME NEW table, NEW st, NEW jb, NEW key, Exactly(table, st, jb), NoneIdle(table, key)
  PROVE  /\ Exactly(Reclaim(table, key), st, jb)
         /\ \A k \in DOMAIN Reclaim(table, key) : ~Idle(Reclaim(table, key)[k])
<1> DEFINE new == Reclaim(table, key)
<1>1. /\ \A k \in DOMAIN new : k \in DOMAIN table /\ new[k] = table[k]
      /\ \A k \in DOMAIN table : k \notin DOMAIN new => k = key /\ Idle(table[k])
      /\ key \in DOMAIN new => ~Idle(table[key])
  BY DEF Reclaim
<1>2. ASSUME NEW r \in Request, jb[r] \in Reading \/ st[r].holdsPrefetchSlot
      PROVE  st[r].laneKey \in DOMAIN new
  <2>1. st[r].laneKey \in DOMAIN table
    BY <1>2 DEF Exactly, Located
  <2>2. Exact(table[st[r].laneKey], st[r].laneKey, st, jb)
    BY <2>1 DEF Exactly
  <2>3. SUFFICES ASSUME Idle(table[st[r].laneKey]) PROVE FALSE
    BY <2>1, <1>1
  <2>4. CASE jb[r] \in Reading
    BY <2>2, <2>3, <2>4 DEF Exact, ReadingOn, Idle, Reading
  <2>5. CASE st[r].holdsPrefetchSlot
    <3>1. r \in HoldersOn(st, st[r].laneKey)
      BY <2>5 DEF HoldersOn
    <3>2. Cardinality(HoldersOn(st, st[r].laneKey)) > 0
      BY <3>1, OneLess DEF HoldersOn
    <3> QED BY <3>2, <2>2, <2>3 DEF Exact, Idle
  <2> QED BY <1>2, <2>4, <2>5
<1>3. Exactly(new, st, jb)
  BY <1>1, <1>2 DEF Exactly, Located
<1>4. \A k \in DOMAIN new : ~Idle(new[k])
  BY <1>1 DEF NoneIdle
<1> QED BY <1>3, <1>4

\* A step that moves no reader and no slot leaves the lanes exact; a lane it creates is
\* neither read nor held.
LEMMA LanesFrame ==
  ASSUME NEW table, NEW st, NEW jb, Exactly(table, st, jb),
         NEW newTable, NEW newSt, NEW newJb, DOMAIN table \subseteq DOMAIN newTable,
         \A k \in DOMAIN table : SameFlags(newTable[k], table[k]),
         \A k \in DOMAIN newTable \ DOMAIN table :
           ~newTable[k].reading /\ ~newTable[k].mainReading /\ newTable[k].held = 0,
         \A r \in Request : SameOnLanes(st[r], jb[r], newSt[r], newJb[r])
  PROVE  Exactly(newTable, newSt, newJb)
<1>1. \A key : /\ ReadingOn(newSt, newJb, "reading", key) = ReadingOn(st, jb, "reading", key)
               /\ ReadingOn(newSt, newJb, "mainReading", key) = ReadingOn(st, jb, "mainReading", key)
               /\ HoldersOn(newSt, key) = HoldersOn(st, key)
  BY DEF ReadingOn, HoldersOn, SameOnLanes, Reading
<1>2. Located(newTable, newSt, newJb)
  BY DEF Located, Exactly, SameOnLanes, Reading
<1>3. ASSUME NEW key \in DOMAIN newTable PROVE Exact(newTable[key], key, newSt, newJb)
  <2>1. CASE key \in DOMAIN table
    BY <2>1, <1>1 DEF Exactly, Exact, SameFlags
  <2>2. CASE key \notin DOMAIN table
    <3>1. /\ ReadingOn(st, jb, "reading", key) = {}
          /\ ReadingOn(st, jb, "mainReading", key) = {}
          /\ HoldersOn(st, key) = {}
      BY <2>2 DEF Exactly, Located, ReadingOn, HoldersOn, Reading
    <3> QED BY <2>2, <3>1, <1>1, <1>3, FS_EmptySet DEF Exact, AtMostOne
  <2> QED BY <2>1, <2>2
<1> QED BY <1>2, <1>3 DEF Exactly

\* A step of one request in one lane has only that lane to answer for.
LEMMA LaneOfOne ==
  ASSUME NEW table, NEW st, NEW jb, Exactly(table, st, jb),
         NEW newTable, NEW newSt, NEW newJb, NEW r \in Request, NEW key \in DOMAIN table,
         DOMAIN newTable = DOMAIN table,
         \A k \in DOMAIN table \ {key} : SameFlags(newTable[k], table[k]),
         \A q \in Request \ {r} : newSt[q] = st[q] /\ newJb[q] = jb[q],
         jb[r] \in Reading \/ st[r].holdsPrefetchSlot => st[r].laneKey = key,
         newJb[r] \in Reading \/ newSt[r].holdsPrefetchSlot => newSt[r].laneKey = key,
         Exact(newTable[key], key, newSt, newJb)
  PROVE  Exactly(newTable, newSt, newJb)
<1>1. \A k : k # key =>
        /\ ReadingOn(newSt, newJb, "reading", k) = ReadingOn(st, jb, "reading", k)
        /\ ReadingOn(newSt, newJb, "mainReading", k) = ReadingOn(st, jb, "mainReading", k)
        /\ HoldersOn(newSt, k) = HoldersOn(st, k)
  BY DEF ReadingOn, HoldersOn, Reading
<1>2. Located(newTable, newSt, newJb)
  BY DEF Located, Exactly
<1>3. \A k \in DOMAIN table \ {key} : Exact(newTable[k], k, newSt, newJb)
  BY <1>1 DEF Exactly, Exact, SameFlags
<1> QED BY <1>2, <1>3 DEF Exactly

\* A step of one request that ends in reclaiming its lane keeps the invariant if the lane
\* was right before that.
LEMMA LaneSettles ==
  ASSUME LaneInv, NEW r \in Request, NEW key \in DOMAIN lanes, NEW lane,
         NEW done, done = [lanes EXCEPT ![key] = lane], lanes' = Reclaim(done, key),
         \A q \in Request \ {r} : state'[q] = state[q] /\ job'[q] = job[q],
         job[r] \in Reading \/ state[r].holdsPrefetchSlot => state[r].laneKey = key,
         job'[r] \in Reading \/ state'[r].holdsPrefetchSlot => state'[r].laneKey = key,
         Exact(lane, key, state', job')
  PROVE  LaneInv'
<1>1. /\ Exact(done[key], key, state', job') /\ DOMAIN done = DOMAIN lanes
      /\ \A k \in DOMAIN lanes \ {key} : SameFlags(done[k], lanes[k])
  BY DEF SameFlags
<1>2. Exactly(lanes, state, job) /\ NoneIdle(done, key)
  BY DEF LaneInv, NoneIdle
<1>3. /\ \A q \in Request \ {r} : state'[q] = state[q] /\ job'[q] = job[q]
      /\ job[r] \in Reading \/ state[r].holdsPrefetchSlot => state[r].laneKey = key
      /\ job'[r] \in Reading \/ state'[r].holdsPrefetchSlot => state'[r].laneKey = key
  OBVIOUS
<1>4. Exactly(done, state', job')
  BY ONLY r \in Request, key \in DOMAIN lanes, <1>1, <1>2, <1>3, LaneOfOne
<1>5. Exactly(lanes', state', job') /\ \A k \in DOMAIN lanes' : ~Idle(lanes'[k])
  BY <1>2, <1>4, ReclaimExact
<1> QED BY <1>5 DEF LaneInv

-----------------------------------------------------------------------------
(***************************************************************************)
(* Readers.                                                                *)
(***************************************************************************)

\* A table that differs from the lane table in the queues of the lane `key` alone.
Popped(table, key) ==
  /\ key \in DOMAIN lanes
  /\ DOMAIN table = DOMAIN lanes
  /\ \A k \in DOMAIN lanes : SameFlags(table[k], lanes[k])
  /\ \A k \in DOMAIN lanes \ {key} : table[k] = lanes[k]
  /\ \A k \in DOMAIN lanes : table[k] \in LaneState

\* Taking an entry from a queue gives such a table.
LEMMA PopKeepsFlags ==
  ASSUME IndInv, NEW key \in DOMAIN lanes, NEW e
  PROVE  /\ Popped([lanes EXCEPT ![key].queue = @ \ {e}], key)
         /\ Popped([lanes EXCEPT ![key].mainQueue = @ \ {e}], key)
<1>1. \A k \in DOMAIN lanes : lanes[k] \in LaneState
  BY DEF IndInv, TypeOK
<1> DEFINE io   == [lanes[key] EXCEPT !.queue = lanes[key].queue \ {e}]
           main == [lanes[key] EXCEPT !.mainQueue = lanes[key].mainQueue \ {e}]
<1>2. io \in LaneState /\ main \in LaneState /\ SameFlags(io, lanes[key]) /\ SameFlags(main, lanes[key])
  BY <1>1 DEF LaneState, SameFlags
<1>3. /\ [lanes EXCEPT ![key].queue = @ \ {e}] = [lanes EXCEPT ![key] = io]
      /\ [lanes EXCEPT ![key].mainQueue = @ \ {e}] = [lanes EXCEPT ![key] = main]
  OBVIOUS
<1>4. \A k \in DOMAIN lanes : SameFlags(lanes[k], lanes[k])
  BY DEF SameFlags
<1> HIDE DEF io, main
<1>5. ASSUME NEW lane \in LaneState, SameFlags(lane, lanes[key])
      PROVE  Popped([lanes EXCEPT ![key] = lane], key)
  BY <1>1, <1>4, <1>5 DEF Popped
<1> QED BY <1>2, <1>3, <1>5

\* A discarded task leaves the lanes as its queue entry did.
LEMMA DiscardLanes ==
  ASSUME IndInv, LaneInv, NEW r \in Request, NEW table, NEW key, Popped(table, key),
         job[r] = "none", ~state[r].holdsPrefetchSlot, DiscardQueued(r, table, key)
  PROVE  LaneInv'
<1>1. /\ state' = [state EXCEPT ![r] = Fresh] /\ job' = job /\ lanes' = Reclaim(table, key)
      /\ state \in [Request -> RequestState]
  BY DEF DiscardQueued, IndInv, TypeOK
<1>2. \A q \in Request : SameOnLanes(state[q], job[q], state'[q], job'[q])
  BY <1>1 DEF SameOnLanes, Fresh, Reading
<1>3. Exactly(table, state', job')
  BY <1>2, LanesFrame DEF LaneInv, Popped
<1>4. NoneIdle(table, key)
  BY DEF Popped, NoneIdle, LaneInv
<1> QED BY <1>1, <1>3, <1>4, ReclaimExact DEF LaneInv

\* A read begins where none was under way.
LEMMA StartLanes ==
  ASSUME IndInv, LaneInv, NEW r \in Request, NEW table, NEW key, Popped(table, key),
         job[r] = "none", ~state[r].holdsPrefetchSlot, state[r].laneKey = key,
         \/ StartRead(r, table, key) /\ ~lanes[key].reading
         \/ StartMainRead(r, table, key) /\ ~lanes[key].mainReading
  PROVE  LaneInv'
<1>1. /\ state' = [state EXCEPT ![r].queuedIn = "None"]
      /\ state \in [Request -> RequestState] /\ job \in [Request -> Job]
  BY DEF StartRead, StartMainRead, IndInv, TypeOK
<1>2. /\ \A q \in Request \ {r} : state'[q] = state[q]
      /\ state'[r].laneKey = key /\ ~state'[r].holdsPrefetchSlot
  BY <1>1 DEF RequestState
<1>3. /\ table[key] \in LaneState /\ key \in DOMAIN table
      /\ table[key].held = lanes[key].held
      /\ table[key].reading <=> lanes[key].reading
      /\ table[key].mainReading <=> lanes[key].mainReading
  BY DEF Popped, SameFlags
<1>4. Exact(lanes[key], key, state, job)
  BY DEF Popped, LaneInv, Exactly
<1>5. HoldersOn(state', key) = HoldersOn(state, key)
  BY <1>2 DEF HoldersOn
<1>6. ASSUME NEW lane, lanes' = [table EXCEPT ![key] = lane],
             Exact(lane, key, state', job'), lane.reading \/ lane.mainReading,
             \A q \in Request \ {r} : job'[q] = job[q]
      PROVE  LaneInv'
  <2>1. Exactly(lanes', state', job')
    <3>1. /\ lanes'[key] = lane /\ DOMAIN lanes' = DOMAIN lanes /\ key \in DOMAIN lanes
          /\ \A k \in DOMAIN lanes \ {key} : SameFlags(lanes'[k], lanes[k])
      BY <1>3, <1>6 DEF Popped, SameFlags
    <3>2. /\ job[r] \in Reading \/ state[r].holdsPrefetchSlot => state[r].laneKey = key
          /\ job'[r] \in Reading \/ state'[r].holdsPrefetchSlot => state'[r].laneKey = key
      BY <1>2
    <3>3. Exact(lanes'[key], key, state', job')
      BY <1>6, <3>1
    <3>4. /\ \A q \in Request \ {r} : state'[q] = state[q] /\ job'[q] = job[q]
          /\ Exactly(lanes, state, job)
      BY <1>2, <1>6 DEF LaneInv
    <3> QED BY <3>1, <3>2, <3>3, <3>4, LaneOfOne
  <2>2. \A k \in DOMAIN lanes' : ~Idle(lanes'[k])
    BY <1>6, <1>3 DEF LaneInv, Popped, Idle
  <2> QED BY <2>1, <2>2 DEF LaneInv
<1>7. CASE StartRead(r, table, key) /\ ~lanes[key].reading
  <2> DEFINE lane == [table[key] EXCEPT !.reading = TRUE, !.lastServed = serviceClock']
  <2>1. lanes' = [table EXCEPT ![key] = lane] /\ job' = [job EXCEPT ![r] = "reading"]
    BY <1>7 DEF StartRead
  <2>2. /\ lane.reading /\ (lane.mainReading <=> lanes[key].mainReading)
        /\ lane.held = lanes[key].held
    BY <1>3 DEF LaneState
  <2>3. ReadingOn(state', job', "reading", key) = {r}
    BY <1>1, <1>2, <1>4, <1>7, <2>1 DEF ReadingOn, Exact
  <2>4. ReadingOn(state', job', "mainReading", key) = ReadingOn(state, job, "mainReading", key)
    BY <1>1, <1>2, <2>1 DEF ReadingOn
  <2> HIDE DEF lane
  <2>5. Exact(lane, key, state', job')
    BY <1>4, <1>5, <2>2, <2>3, <2>4 DEF Exact, AtMostOne
  <2> QED BY <1>1, <1>6, <2>1, <2>2, <2>5
<1>8. CASE StartMainRead(r, table, key) /\ ~lanes[key].mainReading
  <2> DEFINE lane == [table[key] EXCEPT !.mainReading = TRUE]
  <2>1. lanes' = [table EXCEPT ![key] = lane] /\ job' = [job EXCEPT ![r] = "mainReading"]
    BY <1>8 DEF StartMainRead
  <2>2. /\ lane.mainReading /\ (lane.reading <=> lanes[key].reading)
        /\ lane.held = lanes[key].held
    BY <1>3 DEF LaneState
  <2>3. ReadingOn(state', job', "mainReading", key) = {r}
    BY <1>1, <1>2, <1>4, <1>8, <2>1 DEF ReadingOn, Exact
  <2>4. ReadingOn(state', job', "reading", key) = ReadingOn(state, job, "reading", key)
    BY <1>1, <1>2, <2>1 DEF ReadingOn
  <2> HIDE DEF lane
  <2>5. Exact(lane, key, state', job')
    BY <1>4, <1>5, <2>2, <2>3, <2>4 DEF Exact, AtMostOne
  <2> QED BY <1>1, <1>6, <2>1, <2>2, <2>5
<1> QED BY <1>7, <1>8

\* So it is when LaneReaderThread takes the next thumbnail,
LEMMA LaneReaderTakeLanes ==
  ASSUME IndInv, LaneInv, NEW kind \in LaneKind, LaneReaderTake(kind) PROVE LaneInv'
<1>0. PICK key \in NextThumbnailLane(kind) : \E e \in lanes[key].queue :
        IF state[e.task].canceled
        THEN DiscardQueued(e.task, [lanes EXCEPT ![key].queue = @ \ {e}], key)
        ELSE StartRead(e.task, [lanes EXCEPT ![key].queue = @ \ {e}], key)
  BY DEF LaneReaderTake
<1>1. PICK e \in lanes[key].queue :
        IF state[e.task].canceled
        THEN DiscardQueued(e.task, [lanes EXCEPT ![key].queue = @ \ {e}], key)
        ELSE StartRead(e.task, [lanes EXCEPT ![key].queue = @ \ {e}], key)
  BY <1>0
<1>2. key \in DOMAIN lanes /\ ~lanes[key].reading
  BY <1>1 DEF NextThumbnailLane, SelectThumbnailLane, AdmissibleLanes, Admissible
<1>3. /\ e.task \in Request /\ job[e.task] = "none" /\ state[e.task].queuedIn = "Io"
      /\ state[e.task].laneKey = key
  BY <1>1, <1>2, SMTT(60) DEF IndInv, TypeOK, LaneState, Queues, LaneQueuesAgree, Waits
<1>4. ~state[e.task].holdsPrefetchSlot
  BY <1>3 DEF IndInv, Holders, HoldsNothingYet
<1>5. Popped([lanes EXCEPT ![key].queue = @ \ {e}], key)
  BY <1>2, PopKeepsFlags
<1> DEFINE popped == [lanes EXCEPT ![key].queue = @ \ {e}]
           r      == e.task
<1>6. \/ DiscardQueued(r, popped, key)
      \/ StartRead(r, popped, key)
  BY <1>1
<1> HIDE DEF popped, r
<1> QED BY <1>2, <1>3, <1>4, <1>5, <1>6, DiscardLanes, StartLanes DEF popped, r

\* and when MainReaderThread takes the next main image.
LEMMA MainReaderTakeLanes ==
  ASSUME IndInv, LaneInv, MainReaderTake PROVE LaneInv'
<1>0. PICK key \in SelectMainLane(lanes, mainReads + mainHeld) : \E e \in lanes[key].mainQueue :
        IF state[e.task].canceled
        THEN DiscardQueued(e.task, [lanes EXCEPT ![key].mainQueue = @ \ {e}], key)
        ELSE StartMainRead(e.task, [lanes EXCEPT ![key].mainQueue = @ \ {e}], key)
  BY DEF MainReaderTake
<1>1. PICK e \in lanes[key].mainQueue :
        IF state[e.task].canceled
        THEN DiscardQueued(e.task, [lanes EXCEPT ![key].mainQueue = @ \ {e}], key)
        ELSE StartMainRead(e.task, [lanes EXCEPT ![key].mainQueue = @ \ {e}], key)
  BY <1>0
<1>2. key \in DOMAIN lanes /\ ~lanes[key].mainReading
  BY <1>1 DEF SelectMainLane
<1>3. /\ e.task \in Request /\ job[e.task] = "none" /\ state[e.task].queuedIn = "MainIo"
      /\ state[e.task].laneKey = key
  BY <1>1, <1>2, SMTT(60) DEF IndInv, TypeOK, LaneState, Queues, LaneQueuesAgree, Waits
<1>4. ~state[e.task].holdsPrefetchSlot
  BY <1>3 DEF IndInv, Holders, HoldsNothingYet
<1>5. Popped([lanes EXCEPT ![key].mainQueue = @ \ {e}], key)
  BY <1>2, PopKeepsFlags
<1> DEFINE popped == [lanes EXCEPT ![key].mainQueue = @ \ {e}]
           r      == e.task
<1>6. \/ DiscardQueued(r, popped, key)
      \/ StartMainRead(r, popped, key)
  BY <1>1
<1> HIDE DEF popped, r
<1> QED BY <1>2, <1>3, <1>4, <1>5, <1>6, DiscardLanes, StartLanes DEF popped, r

\* The end of a thumbnail's read frees its lane; bytes that are kept are counted there.
LEMMA LaneReaderFinishLanes ==
  ASSUME IndInv, LaneInv, NEW r \in Request, NEW result \in ReadResult,
         LaneReaderFinish(r, result)
  PROVE  LaneInv'
<1> DEFINE key     == state[r].laneKey
           discard == Discards(r, result)
           keeps   == result = "bytes" /\ ~discard
           s       == AfterRead(state[r], result, key.lane # "Local", "slot")
           t       == [s EXCEPT !.queuedIn = "Decode"]
           done    == [lanes EXCEPT ![key].reading = FALSE,
                                    ![key].held = IF keeps THEN @ + 1 ELSE @]
           lane    == [lanes[key] EXCEPT !.reading = FALSE,
                                         !.held = IF keeps THEN lanes[key].held + 1
                                                  ELSE lanes[key].held]
<1>1. /\ job[r] = "reading" /\ job' = [job EXCEPT ![r] = "none"]
      /\ lanes' = Reclaim(done, key)
      /\ discard => state' = [state EXCEPT ![r] = Fresh]
      /\ ~discard => state' = [state EXCEPT ![r] = t]
  BY DEF LaneReaderFinish
<1>2. /\ state \in [Request -> RequestState] /\ state[r] \in RequestState
      /\ job \in [Request -> Job] /\ ~state[r].holdsPrefetchSlot
  BY <1>1 DEF IndInv, TypeOK, Holders, HoldsNothingYet, Reading
<1>3. key \in DOMAIN lanes /\ lanes[key] \in LaneState /\ Exact(lanes[key], key, state, job)
  BY <1>1 DEF LaneInv, Exactly, Located, Reading, IndInv, TypeOK
<1>4. done = [lanes EXCEPT ![key] = lane]
  BY <1>3
<1>5. /\ ~lane.reading /\ lane.mainReading = lanes[key].mainReading
      /\ lane.held = IF keeps THEN lanes[key].held + 1 ELSE lanes[key].held
  BY <1>3 DEF LaneState
<1>6. /\ ~discard => (state'[r].holdsPrefetchSlot <=> keeps) /\ state'[r].laneKey = key
      /\ discard => ~state'[r].holdsPrefetchSlot
  <2>1. CASE discard
    BY <2>1, <1>1, <1>2 DEF Fresh
  <2>2. CASE ~discard
    <3>1. s.holdsPrefetchSlot = (result = "bytes") /\ s.laneKey = key /\ s \in RequestState
      BY <1>2 DEF AfterRead, RequestState
    <3> HIDE DEF s
    <3>2. t.holdsPrefetchSlot = s.holdsPrefetchSlot /\ t.laneKey = s.laneKey
      BY <3>1 DEF RequestState
    <3> HIDE DEF t
    <3>3. state'[r] = t
      BY <1>1, <1>2, <2>2
    <3> QED BY <2>2, <3>1, <3>2, <3>3
  <2> QED BY <2>1, <2>2
<1>7. \A q \in Request \ {r} : state'[q] = state[q] /\ job'[q] = job[q]
  BY <1>1, <1>2
<1>8. job'[r] = "none" /\ (keeps => ~discard)
  BY <1>1, <1>2
<1>9. keeps \in BOOLEAN /\ discard \in BOOLEAN
  BY DEF Discards
<1> HIDE DEF s, t, done, lane, keeps, discard
<1>10. Exact(lane, key, state', job')
  <2> HIDE DEF key
  <2>1. ReadingOn(state', job', "reading", key) = {}
    BY <1>1, <1>2, <1>3, <1>7, <1>8 DEF ReadingOn, Exact, AtMostOne, key
  <2>2. ReadingOn(state', job', "mainReading", key) = ReadingOn(state, job, "mainReading", key)
    BY <1>1, <1>2, <1>7 DEF ReadingOn
  <2>3. lane.held = Cardinality(HoldersOn(state', key))
    <3>1. lanes[key].held = Cardinality(HoldersOn(state, key))
      BY <1>3 DEF Exact
    <3>2. CASE keeps
      <4>1. r \notin HoldersOn(state, key) /\ HoldersOn(state', key) = HoldersOn(state, key) \cup {r}
        BY <1>2, <1>6, <1>7, <1>8, <3>2 DEF HoldersOn
      <4>2. HoldersOn(state, key) \subseteq Request
        BY DEF HoldersOn
      <4> QED BY <3>1, <3>2, <4>1, <4>2, <1>5, OneMore
    <3>3. CASE ~keeps
      <4>1. HoldersOn(state', key) = HoldersOn(state, key)
        BY <1>2, <1>6, <1>7, <1>9, <3>3 DEF HoldersOn
      <4> QED BY <3>1, <3>3, <4>1, <1>5
    <3> QED BY <3>2, <3>3
  <2> QED BY <1>3, <1>5, <2>1, <2>2, <2>3 DEF Exact, AtMostOne
<1>11. key \in DOMAIN lanes /\ lanes' = Reclaim([lanes EXCEPT ![key] = lane], key)
  BY <1>1, <1>3, <1>4
<1>12. /\ job[r] \in Reading \/ state[r].holdsPrefetchSlot => state[r].laneKey = key
       /\ job'[r] \in Reading \/ state'[r].holdsPrefetchSlot => state'[r].laneKey = key
  BY <1>6, <1>8, <1>9 DEF Reading
<1> HIDE DEF key
<1> QED BY <1>7, <1>10, <1>11, <1>12, LaneSettles

\* The end of a main image's read frees its lane.
LEMMA MainReaderFinishLanes ==
  ASSUME IndInv, LaneInv, NEW r \in Request, NEW result \in ReadResult,
         MainReaderFinish(r, result)
  PROVE  LaneInv'
<1> DEFINE key     == state[r].laneKey
           discard == Discards(r, result)
           t       == AfterRead(state[r], result, TRUE, "input")
           done    == [lanes EXCEPT ![key].mainReading = FALSE]
           lane    == [lanes[key] EXCEPT !.mainReading = FALSE]
<1>1. /\ job[r] = "mainReading" /\ job' = [job EXCEPT ![r] = "none"]
      /\ lanes' = Reclaim(done, key)
      /\ discard => state' = [state EXCEPT ![r] = Fresh]
      /\ ~discard => state' = [state EXCEPT ![r] = t]
  BY DEF MainReaderFinish
<1>2. /\ state \in [Request -> RequestState] /\ state[r] \in RequestState
      /\ job \in [Request -> Job] /\ ~state[r].holdsPrefetchSlot
  BY <1>1 DEF IndInv, TypeOK, Holders, HoldsNothingYet, Reading
<1>3. key \in DOMAIN lanes /\ lanes[key] \in LaneState /\ Exact(lanes[key], key, state, job)
  BY <1>1 DEF LaneInv, Exactly, Located, Reading, IndInv, TypeOK
<1>4. done = [lanes EXCEPT ![key] = lane]
  BY <1>3
<1>5. /\ ~lane.mainReading /\ lane.reading = lanes[key].reading
      /\ lane.held = lanes[key].held
  BY <1>3 DEF LaneState
<1>6. ~state'[r].holdsPrefetchSlot
  <2>1. ~t.holdsPrefetchSlot
    BY <1>2 DEF AfterRead, RequestState
  <2> HIDE DEF t
  <2> QED BY <1>1, <1>2, <2>1 DEF Fresh
<1>7. \A q \in Request \ {r} : state'[q] = state[q] /\ job'[q] = job[q]
  BY <1>1, <1>2
<1>8. job'[r] = "none"
  BY <1>1, <1>2
<1> HIDE DEF t, done, lane, discard
<1>10. Exact(lane, key, state', job')
  <2> HIDE DEF key
  <2>1. ReadingOn(state', job', "mainReading", key) = {}
    BY <1>1, <1>2, <1>3, <1>7, <1>8 DEF ReadingOn, Exact, AtMostOne, key
  <2>2. ReadingOn(state', job', "reading", key) = ReadingOn(state, job, "reading", key)
    BY <1>1, <1>2, <1>7 DEF ReadingOn
  <2>3. HoldersOn(state', key) = HoldersOn(state, key)
    BY <1>2, <1>6, <1>7 DEF HoldersOn
  <2> QED BY <1>3, <1>5, <2>1, <2>2, <2>3 DEF Exact, AtMostOne
<1>11. key \in DOMAIN lanes /\ lanes' = Reclaim([lanes EXCEPT ![key] = lane], key)
  BY <1>1, <1>3, <1>4
<1>12. /\ job[r] \in Reading \/ state[r].holdsPrefetchSlot => state[r].laneKey = key
       /\ job'[r] \in Reading \/ state'[r].holdsPrefetchSlot => state'[r].laneKey = key
  BY <1>6, <1>8 DEF Reading
<1> HIDE DEF key
<1> QED BY <1>7, <1>10, <1>11, <1>12, LaneSettles

-----------------------------------------------------------------------------
(***************************************************************************)
(* Capacity given back.                                                    *)
(***************************************************************************)

\* Giving back what a request in a worker's hands or in a queue holds frees its slot
\* in its lane.
LEMMA ReleaseLanes ==
  ASSUME IndInv, LaneInv, NEW r \in Request, job[r] \notin Reading, job'[r] \notin Reading,
         NEW s, s.laneKey = state[r].laneKey,
         s.holdsPrefetchSlot = state[r].holdsPrefetchSlot,
         s.holdsMainInput = state[r].holdsMainInput,
         lanes' = ReleasedLanes(lanes, s), ~state'[r].holdsPrefetchSlot,
         \A q \in Request \ {r} : state'[q] = state[q] /\ job'[q] = job[q]
  PROVE  LaneInv'
<1>1. /\ state[r] \in RequestState /\ HoldsRightly(r)
      /\ \A k \in DOMAIN lanes : lanes[k] \in LaneState
  BY DEF IndInv, TypeOK, Holders
<1>2. ReleasesSlot(s) <=> state[r].holdsPrefetchSlot
  BY <1>1 DEF ReleasesSlot, HoldsRightly
<1>3. CASE ~state[r].holdsPrefetchSlot
  <2>1. lanes' = lanes
    BY <1>2, <1>3 DEF ReleasedLanes
  <2>2. \A q \in Request : SameOnLanes(state[q], job[q], state'[q], job'[q])
    BY <1>3 DEF SameOnLanes, Reading
  <2>3. \A k \in DOMAIN lanes : SameFlags(lanes[k], lanes[k])
    BY DEF SameFlags
  <2> QED BY <2>1, <2>2, <2>3, LanesFrame DEF LaneInv
<1>4. CASE state[r].holdsPrefetchSlot
  <2> DEFINE key  == state[r].laneKey
             done == [lanes EXCEPT ![key].held = Dec(@)]
             lane == [lanes[key] EXCEPT !.held = Dec(lanes[key].held)]
  <2>1. key \in DOMAIN lanes /\ Exact(lanes[key], key, state, job)
    BY <1>4 DEF LaneInv, Exactly, Located
  <2>2. lanes' = Reclaim(done, key) /\ done = [lanes EXCEPT ![key] = lane]
    BY <1>2, <1>4, <2>1 DEF ReleasedLanes
  <2>3. /\ lane.reading = lanes[key].reading /\ lane.mainReading = lanes[key].mainReading
        /\ lane.held = Dec(lanes[key].held)
    BY <1>1, <2>1 DEF LaneState
  <2> HIDE DEF lane, done
  <2>4. Exact(lane, key, state', job')
    <3> HIDE DEF key
    <3>1. /\ ReadingOn(state', job', "reading", key) = ReadingOn(state, job, "reading", key)
          /\ ReadingOn(state', job', "mainReading", key) = ReadingOn(state, job, "mainReading", key)
      BY DEF ReadingOn, Reading
    <3>2. r \in HoldersOn(state, key) /\ HoldersOn(state', key) = HoldersOn(state, key) \ {r}
      BY <1>4 DEF HoldersOn, key
    <3>3. HoldersOn(state, key) \subseteq Request
      BY DEF HoldersOn
    <3>4. lanes[key].held = Cardinality(HoldersOn(state, key))
      BY <2>1 DEF Exact
    <3>5. lane.held = Cardinality(HoldersOn(state', key))
      BY <3>2, <3>3, <3>4, <2>3, OneLess DEF Dec
    <3> QED BY <2>1, <2>3, <3>1, <3>5 DEF Exact
  <2>5. key \in DOMAIN lanes /\ lanes' = Reclaim([lanes EXCEPT ![key] = lane], key)
    BY <2>1, <2>2
  <2>6. /\ job[r] \in Reading \/ state[r].holdsPrefetchSlot => state[r].laneKey = key
        /\ job'[r] \in Reading \/ state'[r].holdsPrefetchSlot => state'[r].laneKey = key
    OBVIOUS
  <2> HIDE DEF key
  <2> QED BY <2>4, <2>5, <2>6, LaneSettles
<1> QED BY <1>3, <1>4

-----------------------------------------------------------------------------
(***************************************************************************)
(* Workers.                                                                *)
(***************************************************************************)

\* A step that moves no reader, no slot and no lane.
LEMMA NoLaneMoves ==
  ASSUME LaneInv, lanes' = lanes,
         \A q \in Request : SameOnLanes(state[q], job[q], state'[q], job'[q])
  PROVE  LaneInv'
<1>1. \A k \in DOMAIN lanes : SameFlags(lanes[k], lanes[k])
  BY DEF SameFlags
<1> QED BY <1>1, LanesFrame DEF LaneInv

\* A request whose state stays, in hands that are no reader's before or after.
LEMMA NoReaderMoves ==
  ASSUME LaneInv, lanes' = lanes, state' = state, NEW r \in Request,
         job[r] \notin Reading, job'[r] \notin Reading,
         \A q \in Request \ {r} : job'[q] = job[q]
  PROVE  LaneInv'
<1>1. \A q \in Request : SameOnLanes(state[q], job[q], state'[q], job'[q])
  BY DEF SameOnLanes, Reading
<1> QED BY <1>1, NoLaneMoves

\* A worker that takes a task from a decode queue, or meets a canceled one there,
LEMMA WorkerTakeLanes ==
  ASSUME IndInv, StageInv, LaneInv, NEW kind \in WorkerKind, WorkerTake(kind) PROVE LaneInv'
<1>1. PICK r \in Request : Take(r, kind) /\ job[r] = "none" /\ OnlyTouches(r)
  BY WorkerTakes
<1> DEFINE s == [state[r] EXCEPT !.queuedIn = "None"]
<1>2. /\ state \in [Request -> RequestState] /\ job \in [Request -> Job]
      /\ \A q \in Request \ {r} : state'[q] = state[q] /\ job'[q] = job[q]
  BY <1>1 DEF IndInv, TypeOK, OnlyTouches
<1>3. /\ s.laneKey = state[r].laneKey /\ s.canceled = state[r].canceled
      /\ s.holdsPrefetchSlot = state[r].holdsPrefetchSlot
      /\ s.holdsMainInput = state[r].holdsMainInput /\ s \in RequestState
  BY <1>2 DEF RequestState, Stage
<1>4. CASE s.canceled
  <2>1. /\ lanes' = ReleasedLanes(lanes, s) /\ state' = [state EXCEPT ![r] = Fresh]
        /\ job' = job
    BY <1>1, <1>4 DEF Take
  <2>2. ~state'[r].holdsPrefetchSlot /\ job[r] \notin Reading /\ job'[r] \notin Reading
    BY <1>1, <1>2, <2>1 DEF Fresh, Reading
  <2> HIDE DEF s
  <2> QED BY <1>2, <1>3, <2>1, <2>2, ReleaseLanes
<1>5. CASE ~s.canceled
  <2>1. /\ lanes' = lanes /\ job' = [job EXCEPT ![r] = "taken"]
        /\ state' = [state EXCEPT ![r] = [s EXCEPT !.decoding = TRUE]]
    BY <1>1, <1>5 DEF Take
  <2> HIDE DEF s
  <2>2. /\ state'[r].laneKey = state[r].laneKey
        /\ state'[r].holdsPrefetchSlot = state[r].holdsPrefetchSlot
        /\ job'[r] = "taken"
    BY <1>2, <1>3, <2>1 DEF RequestState
  <2>3. \A q \in Request : SameOnLanes(state[q], job[q], state'[q], job'[q])
    BY <1>1, <1>2, <2>2 DEF SameOnLanes, Reading
  <2> QED BY <2>1, <2>3, NoLaneMoves
<1> QED BY <1>4, <1>5

\* and every later step of its, keeps the lanes exact.
LEMMA WorkerStepLanes ==
  ASSUME IndInv, LaneInv, NEW r \in Request, WorkerStep(r) PROVE LaneInv'
<1> USE DEF laneVars
<1>1. job \in [Request -> Job] /\ state \in [Request -> RequestState]
  BY DEF IndInv, TypeOK
<1>2. CASE WorkerBegin(r)
  <2>1. /\ job[r] = "taken" /\ job' = [job EXCEPT ![r] = BeginsAs(r)]
        /\ BeginsAs(r) \in {"skipped", "failing", "decoding"}
        /\ lanes' = lanes /\ state' = state
    BY <1>2 DEF WorkerBegin, MoveWorker, BeginsAs
  <2> QED BY <1>1, <2>1, NoReaderMoves DEF Reading
<1>3. CASE WorkerFinish(r)
  <2> DEFINE to == IF Delivers(r) THEN "delivering" ELSE "releasing"
  <2>1. /\ job[r] \in {"skipped", "failing", "decoding"} /\ job' = [job EXCEPT ![r] = to]
        /\ lanes' = lanes /\ state' = state
    BY <1>3 DEF WorkerFinish, MoveWorker
  <2>2. to \notin Reading /\ job[r] \notin Reading
    BY <2>1 DEF Reading
  <2> HIDE DEF to
  <2> QED BY <1>1, <2>1, <2>2, NoReaderMoves
<1>4. CASE WorkerDeliver(r)
  <2>1. /\ job[r] = "delivering" /\ job' = [job EXCEPT ![r] = "releasing"]
        /\ lanes' = lanes /\ state' = state
    BY <1>4 DEF WorkerDeliver, MoveWorker
  <2> QED BY <1>1, <2>1, NoReaderMoves DEF Reading
<1>5. CASE WorkerRelease(r)
  <2>1. /\ job[r] = "releasing" /\ job' = [job EXCEPT ![r] = "none"]
        /\ lanes' = ReleasedLanes(lanes, state[r]) /\ state' = [state EXCEPT ![r] = Fresh]
    BY <1>5 DEF WorkerRelease, MoveWorker
  <2>2. /\ ~state'[r].holdsPrefetchSlot /\ job[r] \notin Reading /\ job'[r] \notin Reading
        /\ \A q \in Request \ {r} : state'[q] = state[q] /\ job'[q] = job[q]
    BY <1>1, <2>1 DEF Fresh, Reading
  <2> QED BY <2>1, <2>2, ReleaseLanes
<1> QED BY <1>2, <1>3, <1>4, <1>5 DEF WorkerStep

-----------------------------------------------------------------------------
(***************************************************************************)
(* Clients and the lifecycle calls.                                        *)
(***************************************************************************)

\* A request is accepted with nothing read or held for it;
LEMMA AcceptLanes ==
  ASSUME IndInv, NEW r \in Request, NEW priority, NEW key, NEW queuedIn,
         Accept(r, priority, key, queuedIn)
  PROVE  \A q \in Request : SameOnLanes(state[q], job[q], state'[q], job'[q])
<1>1. /\ outcome[r] = "new" /\ job' = job /\ state \in [Request -> RequestState]
      /\ state' = [state EXCEPT ![r] =
           [Fresh EXCEPT !.priority = priority, !.sequence = nextSequence',
                         !.laneKey = key, !.queuedIn = queuedIn]]
  BY DEF Accept, IndInv, TypeOK
<1>2. job[r] = "none" /\ ~state[r].holdsPrefetchSlot
  BY <1>1 DEF IndInv, Holders, HoldsNothingYet
<1>3. ~state'[r].holdsPrefetchSlot
  BY <1>1 DEF Fresh
<1> QED BY <1>1, <1>2, <1>3 DEF SameOnLanes, Reading

\* its lane, found or created, has the flags and the holders it had,
LEMMA LaneForFlags ==
  ASSUME IndInv, NEW route
  PROVE  LET lane == LaneFor(route)
         IN  /\ route.key \in DOMAIN lanes => SameFlags(lane, lanes[route.key])
             /\ route.key \notin DOMAIN lanes =>
                  ~lane.reading /\ ~lane.mainReading /\ lane.held = 0
<1> DEFINE old == IF route.key \in DOMAIN lanes THEN lanes[route.key] ELSE EmptyLane
<1>1. old \in LaneState
  BY LaneConstants DEF IndInv, TypeOK, EmptyLane, LaneState
<1>2. LaneFor(route) = [old EXCEPT !.depth = route.depth, !.limit = route.limit]
  BY DEF LaneFor
<1>3. SameFlags(LaneFor(route), old)
  BY <1>1, <1>2 DEF LaneState, SameFlags
<1> QED BY <1>3 DEF SameFlags, EmptyLane

\* and something queued.
LEMMA QueuedLanes ==
  ASSUME IndInv, LaneInv, NEW route, NEW lane, SameFlags(lane, LaneFor(route)), ~Idle(lane),
         lanes' = WithLane(lanes, route.key, lane),
         \A q \in Request : SameOnLanes(state[q], job[q], state'[q], job'[q])
  PROVE  LaneInv'
<1> DEFINE key == route.key
<1>1. /\ DOMAIN lanes' = DOMAIN lanes \cup {key} /\ lanes'[key] = lane
      /\ \A k \in DOMAIN lanes : k # key => lanes'[k] = lanes[k]
  BY DEF WithLane
<1>2. /\ \A k \in DOMAIN lanes : SameFlags(lanes'[k], lanes[k])
      /\ \A k \in DOMAIN lanes' \ DOMAIN lanes :
           ~lanes'[k].reading /\ ~lanes'[k].mainReading /\ lanes'[k].held = 0
  BY <1>1, LaneForFlags DEF SameFlags
<1>3. Exactly(lanes', state', job')
  BY <1>1, <1>2, LanesFrame DEF LaneInv
<1>4. \A k \in DOMAIN lanes' : ~Idle(lanes'[k])
  BY <1>1 DEF LaneInv
<1> QED BY <1>3, <1>4 DEF LaneInv

\* An accepted request leaves the counts of every lane exact.
LEMMA EnqueueLanes ==
  ASSUME IndInv, LaneInv, NEW r \in Request, NEW priority \in Priorities,
         \/ EnqueueLocalMain(r, priority)
         \/ \E answer \in Answers[r] : EnqueueSlowMain(r, priority, answer)
         \/ \E answer \in Answers[r] : EnqueueThumbnail(r, priority, answer)
  PROVE  LaneInv'
<1>1. CASE EnqueueLocalMain(r, priority)
  BY <1>1, AcceptLanes, NoLaneMoves DEF EnqueueLocalMain
<1>2. ASSUME NEW answer \in Answers[r], EnqueueSlowMain(r, priority, answer) PROVE LaneInv'
  <2> DEFINE route == RouteOf(r, answer)
             old   == LaneFor(route)
             queue == Push(old.mainQueue, r, priority, nextSequence')
             lane  == [old EXCEPT !.mainQueue = queue]
  <2>1. /\ Accept(r, priority, route.key, "MainIo")
        /\ lanes' = WithLane(lanes, route.key, lane)
    BY <1>2 DEF EnqueueSlowMain
  <2>2. old \in LaneState
    BY RouteType, LaneForType DEF IndInv
  <2>3. queue # {}
    BY DEF Push, Emplace
  <2> HIDE DEF queue, old
  <2>4. SameFlags(lane, old) /\ ~Idle(lane)
    BY <2>2, <2>3 DEF SameFlags, LaneState, Idle
  <2>5. \A q \in Request : SameOnLanes(state[q], job[q], state'[q], job'[q])
    BY <2>1, AcceptLanes
  <2> HIDE DEF lane, route
  <2> QED BY <2>1, <2>4, <2>5, QueuedLanes DEF old
<1>3. ASSUME NEW answer \in Answers[r], EnqueueThumbnail(r, priority, answer) PROVE LaneInv'
  <2> DEFINE route == RouteOf(r, answer)
             old   == LaneFor(route)
             queue == Push(old.queue, r, priority, nextSequence')
             lane  == [old EXCEPT !.queue = queue]
  <2>1. /\ Accept(r, priority, route.key, "Io")
        /\ lanes' = WithLane(lanes, route.key, lane)
    BY <1>3 DEF EnqueueThumbnail
  <2>2. old \in LaneState
    BY RouteType, LaneForType DEF IndInv
  <2>3. queue # {}
    BY DEF Push, Emplace
  <2> HIDE DEF queue, old
  <2>4. SameFlags(lane, old) /\ ~Idle(lane)
    BY <2>2, <2>3 DEF SameFlags, LaneState, Idle
  <2>5. \A q \in Request : SameOnLanes(state[q], job[q], state'[q], job'[q])
    BY <2>1, AcceptLanes
  <2> HIDE DEF lane, route
  <2> QED BY <2>1, <2>4, <2>5, QueuedLanes DEF old
<1> QED BY <1>1, <1>2, <1>3

\* SetPriority empties no queue.
LEMMA SetPriorityLanes ==
  ASSUME IndInv, LaneInv, NEW r \in Request, NEW priority \in Priorities,
         SetPriority(r, priority)
  PROVE  LaneInv'
<1> DEFINE key  == state[r].laneKey
           io   == [lanes[key] EXCEPT !.queue = Rekeyed(lanes[key].queue, r, priority)]
           main == [lanes[key] EXCEPT !.mainQueue = Rekeyed(lanes[key].mainQueue, r, priority)]
<1>1. /\ state' = [state EXCEPT ![r].priority = priority] /\ job' = job
      /\ state \in [Request -> RequestState] /\ priority \in Nat
      /\ \A k \in DOMAIN lanes : lanes[k] \in LaneState
  BY SchedulerConstants DEF SetPriority, IndInv, TypeOK
<1>2. \A q \in Request : SameOnLanes(state[q], job[q], state'[q], job'[q])
  BY <1>1 DEF SameOnLanes, Reading, RequestState
<1>3. \A queue : Rekeyed(queue, r, priority) = {} <=> queue = {}
  BY DEF Rekeyed, Finds, Reprioritize, Emplace, Remove
<1>4. \/ lanes' = lanes
      \/ key \in DOMAIN lanes /\ lanes' = [lanes EXCEPT ![key] = io]
      \/ key \in DOMAIN lanes /\ lanes' = [lanes EXCEPT ![key] = main]
  BY DEF SetPriority
<1>5. ASSUME NEW lane, key \in DOMAIN lanes, lanes' = [lanes EXCEPT ![key] = lane],
             SameFlags(lane, lanes[key]), ~Idle(lanes[key]) => ~Idle(lane)
      PROVE  LaneInv'
  <2>1. /\ DOMAIN lanes' = DOMAIN lanes
        /\ \A k \in DOMAIN lanes : SameFlags(lanes'[k], lanes[k])
    BY <1>5 DEF SameFlags
  <2>2. \A k \in DOMAIN lanes' : ~Idle(lanes'[k])
    BY <1>5 DEF LaneInv
  <2>3. Exactly(lanes', state', job')
    BY <1>2, <2>1, LanesFrame DEF LaneInv
  <2> QED BY <2>2, <2>3 DEF LaneInv
<1>6. ASSUME key \in DOMAIN lanes
      PROVE  /\ SameFlags(io, lanes[key]) /\ (~Idle(lanes[key]) => ~Idle(io))
             /\ SameFlags(main, lanes[key]) /\ (~Idle(lanes[key]) => ~Idle(main))
  BY <1>1, <1>3, <1>6 DEF SameFlags, LaneState, Idle
<1> HIDE DEF io, main, key
<1> QED BY <1>2, <1>4, <1>5, <1>6, NoLaneMoves

\* A task taken out of its lane queue leaves an exact lane, or none.
LEMMA UnqueuedLanes ==
  ASSUME IndInv, LaneInv, NEW r, NEW s, lanes' = Unqueued(r, s),
         \A q \in Request : SameOnLanes(state[q], job[q], state'[q], job'[q])
  PROVE  LaneInv'
<1> DEFINE key  == s.laneKey
           e    == Entry(r, s.priority, s.sequence)
           io   == [lanes EXCEPT ![key].queue = @ \ {e}]
           main == [lanes EXCEPT ![key].mainQueue = @ \ {e}]
<1>1. \/ lanes' = lanes
      \/ key \in DOMAIN lanes /\ lanes' = Reclaim(io, key)
      \/ key \in DOMAIN lanes /\ lanes' = Reclaim(main, key)
  BY DEF Unqueued, Remove
<1>2. key \in DOMAIN lanes => Popped(io, key) /\ Popped(main, key)
  BY PopKeepsFlags
<1> HIDE DEF io, main, key, e
<1>3. ASSUME NEW table, Popped(table, key), lanes' = Reclaim(table, key) PROVE LaneInv'
  <2>1. Exactly(table, state', job')
    BY <1>3, LanesFrame DEF LaneInv, Popped
  <2>2. NoneIdle(table, key)
    BY <1>3 DEF Popped, NoneIdle, LaneInv
  <2>3. Exactly(lanes', state', job') /\ \A k \in DOMAIN lanes' : ~Idle(lanes'[k])
    BY <1>3, <2>1, <2>2, ReclaimExact
  <2> QED BY <2>3 DEF LaneInv
<1> QED BY <1>1, <1>2, <1>3, NoLaneMoves

\* Cancel takes a task out of its lane, gives its slot back, or only marks it.
LEMMA CancelLanes ==
  ASSUME IndInv, LaneInv, NEW r \in Request, Cancel(r) PROVE LaneInv'
<1> DEFINE s       == state[r]
           removed == QueuedInLane(r, s)
           marked  == [s EXCEPT !.canceled = TRUE]
           given   == CancelReleases(s) /\ (s.holdsPrefetchSlot \/ s.holdsMainInput)
<1>1. /\ state \in [Request -> RequestState] /\ s \in RequestState
      /\ HoldsRightly(r) /\ HoldsNothingYet(r)
      /\ state' = [state EXCEPT ![r] = IF removed THEN Fresh
                                      ELSE IF given THEN Released(marked) ELSE marked]
      /\ lanes' = IF given THEN ReleasedLanes(Unqueued(r, s), s) ELSE Unqueued(r, s)
      /\ job' = job
  BY DEF Cancel, IndInv, TypeOK, Holders
<1>2. /\ marked.laneKey = s.laneKey /\ marked.holdsPrefetchSlot = s.holdsPrefetchSlot
      /\ marked.holdsMainInput = s.holdsMainInput /\ marked \in RequestState
  BY <1>1 DEF RequestState
<1>3. removed => s.queuedIn \in {"Io", "MainIo"}
  BY DEF QueuedInLane
<1> HIDE DEF marked, removed
<1>4. CASE given
  <2>1. s.queuedIn \notin {"Io", "MainIo"} /\ job[r] \notin Reading
    BY <1>1, <1>4 DEF HoldsNothingYet
  <2>2. Unqueued(r, s) = lanes
    BY <2>1 DEF Unqueued
  <2>3. state' = [state EXCEPT ![r] = Released(marked)]
    BY <1>1, <1>3, <1>4, <2>1
  <2>4. ~Released(marked).holdsPrefetchSlot
    BY <1>1, <1>2 DEF Released, HoldsRightly, RequestState
  <2>5. /\ ~state'[r].holdsPrefetchSlot /\ job'[r] \notin Reading
        /\ lanes' = ReleasedLanes(lanes, s)
        /\ \A q \in Request \ {r} : state'[q] = state[q] /\ job'[q] = job[q]
    BY <1>1, <1>4, <2>1, <2>2, <2>3, <2>4
  <2> QED BY <2>1, <2>5, ReleaseLanes
<1>5. CASE ~given
  <2>1. CASE removed
    <3>1. job[r] \notin Reading /\ ~s.holdsPrefetchSlot
      BY <1>1, <1>3, <2>1 DEF HoldsNothingYet
    <3>2. state'[r] = Fresh /\ \A q \in Request \ {r} : state'[q] = state[q]
      BY <1>1, <2>1
    <3>3. \A q \in Request : SameOnLanes(state[q], job[q], state'[q], job'[q])
      BY <1>1, <3>1, <3>2 DEF SameOnLanes, Fresh, Reading
    <3> QED BY <1>1, <1>5, <3>3, UnqueuedLanes
  <2>2. CASE ~removed
    <3>1. state'[r] = marked /\ \A q \in Request \ {r} : state'[q] = state[q]
      BY <1>1, <1>5, <2>2
    <3>2. \A q \in Request : SameOnLanes(state[q], job[q], state'[q], job'[q])
      BY <1>1, <1>2, <3>1 DEF SameOnLanes, Reading
    <3> QED BY <1>1, <1>5, <3>2, UnqueuedLanes
  <2> QED BY <2>1, <2>2
<1> QED BY <1>4, <1>5

\* A stop only marks requests; a completed join leaves no lane and nobody in one.
LEMMA LifecycleLanes ==
  ASSUME IndInv, LaneInv, Lifecycle PROVE LaneInv'
<1> USE DEF requestVars, laneVars
<1>1. ASSUME NEW marked,
             state' = [r \in Request |->
                         IF r \in marked THEN [state[r] EXCEPT !.canceled = TRUE] ELSE state[r]],
             lanes' = lanes, job' = job
      PROVE  LaneInv'
  <2>1. \A q \in Request : /\ state'[q].laneKey = state[q].laneKey
                           /\ state'[q].holdsPrefetchSlot = state[q].holdsPrefetchSlot
    BY <1>1 DEF IndInv, TypeOK, RequestState
  <2>2. \A q \in Request : SameOnLanes(state[q], job[q], state'[q], job'[q])
    BY <1>1, <2>1 DEF SameOnLanes, Reading
  <2> QED BY <1>1, <2>2, NoLaneMoves
<1>2. ASSUME UNCHANGED <<state, job, lanes>> PROVE LaneInv'
  BY <1>2 DEF LaneInv
<1>3. CASE \E name \in Calls : BeginStop(name)
  BY <1>1, <1>3 DEF BeginStop
<1>4. CASE \E registered \in SUBSET Request : ScanLeases(registered)
  BY <1>1, <1>4 DEF ScanLeases
<1>5. CASE JoinAll
  <2>1. /\ \A r \in Request : job'[r] = "none" /\ ~state'[r].holdsPrefetchSlot
        /\ DOMAIN lanes' = {}
    BY <1>5 DEF JoinAll, AllExited, Fresh
  <2> QED BY <2>1 DEF LaneInv, Exactly, Located, Reading
<1>6. CASE SkipStop
  BY <1>2, <1>6 DEF SkipStop
<1>7. CASE BoundExpires
  BY <1>2, <1>7 DEF BoundExpires
<1>8. CASE \E count \in ThreadCounts : Reopen(count)
  BY <1>2, <1>8 DEF Reopen
<1>9. CASE Retune
  BY <1>2, <1>9 DEF Retune
<1> QED BY <1>3, <1>4, <1>5, <1>6, <1>7, <1>8, <1>9 DEF Lifecycle

-----------------------------------------------------------------------------
(***************************************************************************)
(* The theorem.                                                            *)
(***************************************************************************)

\* Every step keeps the lanes exact.
LEMMA NextLanes ==
  ASSUME IndInv, StageInv, LaneInv, [Next]_vars PROVE LaneInv'
<1>1. ASSUME NEW r \in Request, Client(r) PROVE LaneInv'
  <2>1. CASE EnqueueRejected(r)
    BY <2>1 DEF EnqueueRejected, laneVars, LaneInv
  <2> QED BY <1>1, <2>1, EnqueueLanes, SetPriorityLanes, CancelLanes DEF Client
<1>2. ASSUME Reader PROVE LaneInv'
  BY <1>2, LaneReaderTakeLanes, MainReaderTakeLanes, LaneReaderFinishLanes,
     MainReaderFinishLanes DEF Reader
<1>3. ASSUME NEW kind \in WorkerKind, WorkerTake(kind) PROVE LaneInv'
  BY <1>3, WorkerTakeLanes
<1>4. ASSUME NEW r \in Request, WorkerStep(r) PROVE LaneInv'
  BY <1>4, WorkerStepLanes
<1>5. ASSUME Lifecycle PROVE LaneInv'
  BY <1>5, LifecycleLanes
<1>6. ASSUME UNCHANGED vars PROVE LaneInv'
  BY <1>6 DEF vars, laneVars, requestVars, LaneInv
<1> QED BY <1>1, <1>2, <1>3, <1>4, <1>5, <1>6 DEF Next

\* No lane exists in the initial states.
LEMMA InitLanes == ASSUME Init PROVE LaneInv
<1>1. /\ \A r \in Request : job[r] = "none" /\ ~state[r].holdsPrefetchSlot
      /\ DOMAIN lanes = {}
  BY DEF Init, Fresh
<1> QED BY <1>1 DEF LaneInv, Exactly, Located, Reading

\* The lanes agree with their requests in every reachable state.
THEOREM LaneInvariant == Spec => []LaneInv
<1>1. Init => LaneInv
  BY InitLanes
<1>2. IndInv /\ StageInv /\ LaneInv /\ [Next]_vars => LaneInv'
  BY NextLanes
<1> QED BY <1>1, <1>2, Invariant, StageInvariant, PTL DEF Spec

\* A set with at most one element has none or one.
LEMMA CardinalityOfFew ==
  ASSUME NEW S, S \subseteq Request, AtMostOne(S)
  PROVE  Cardinality(S) = IF S # {} THEN 1 ELSE 0
<1>1. CASE S = {}
  BY <1>1, FS_EmptySet
<1>2. CASE S # {}
  <2>1. PICK r : r \in S
    BY <1>2
  <2>2. S = {r}
    BY <2>1 DEF AtMostOne
  <2> QED BY <1>2, <2>2, FS_Singleton
<1> QED BY <1>1, <1>2

\* A lane is alive exactly while something is queued, read or held there, its flags and
\* its count of slots are those of its requests, and the lane of a request that is read
\* or holds a slot exists: m_lanes.at never throws in LaneReaderThread, and
\* ReclaimLane_NoLock drops no lane too early and forgets none.
THEOREM LanesAreExact == Spec => []LanesExact
<1>1. LaneInv => LanesExact
  <2> SUFFICES ASSUME LaneInv PROVE LanesExact
    OBVIOUS
  <2>1. ASSUME NEW key \in DOMAIN lanes, NEW kind \in Reading
        PROVE  Cardinality(ReadingOn(state, job, kind, key))
                 = IF ReadingOn(state, job, kind, key) # {} THEN 1 ELSE 0
    <3>1. AtMostOne(ReadingOn(state, job, kind, key))
      BY <2>1 DEF LaneInv, Exactly, Exact, Reading
    <3>2. ReadingOn(state, job, kind, key) \subseteq Request
      BY DEF ReadingOn
    <3> QED BY <3>1, <3>2, CardinalityOfFew
  <2>2. \A key \in DOMAIN lanes :
          /\ Cardinality({r \in Request : job[r] = "reading" /\ state[r].laneKey = key})
               = IF lanes[key].reading THEN 1 ELSE 0
          /\ Cardinality({r \in Request : job[r] = "mainReading" /\ state[r].laneKey = key})
               = IF lanes[key].mainReading THEN 1 ELSE 0
    BY <2>1 DEF LaneInv, Exactly, Exact, ReadingOn, Reading
  <2>3. \A key : {r \in SlotHolders : state[r].laneKey = key} = HoldersOn(state, key)
    BY DEF SlotHolders, HoldersOn
  <2>4. \A key \in DOMAIN lanes :
          /\ ~Idle(lanes[key])
          /\ lanes[key].held = Cardinality({r \in SlotHolders : state[r].laneKey = key})
    BY <2>3 DEF LaneInv, Exactly, Exact
  <2>5. \A r \in Request : job[r] \in Reading \/ state[r].holdsPrefetchSlot =>
          state[r].laneKey \in DOMAIN lanes
    BY DEF LaneInv, Exactly, Located
  <2> QED BY <2>2, <2>4, <2>5 DEF LanesExact
<1> QED BY <1>1, LaneInvariant, PTL

-----------------------------------------------------------------------------
(***************************************************************************)
(* First elements.                                                         *)
(***************************************************************************)

\* A set of natural numbers has a least element.
LEMMA LeastNat ==
  ASSUME NEW S, S \subseteq Nat, S # {}
  PROVE  \E n \in S : \A m \in S : n <= m
<1> DEFINE R == OpToRel(<, Nat)
<1>1. IsWellFoundedOn(R, Nat)
  BY NatLessThanWellFounded
<1>2. \A m, n \in Nat : <<m, n>> \in R <=> m < n
  BY DEF OpToRel
<1> HIDE DEF R
<1>3. PICK n \in S : \A m \in S : <<m, n>> \notin R
  BY <1>1, WFMin
<1>4. \A m \in S : m \in Nat /\ n \in Nat /\ ~(m < n)
  BY <1>2, <1>3
<1> QED BY <1>4

\* A transitive and irreflexive relation has an element nothing precedes in every finite
\* set: the one that the fewest precede.
LEMMA FirstExists ==
  ASSUME NEW S, IsFiniteSet(S), S # {}, NEW R,
         \A x \in S : <<x, x>> \notin R,
         \A x, y, z \in S : <<x, y>> \in R /\ <<y, z>> \in R => <<x, z>> \in R
  PROVE  \E x \in S : \A y \in S : <<y, x>> \notin R
<1> DEFINE Preceding(x) == {y \in S : <<y, x>> \in R}
           Counts == {Cardinality(Preceding(x)) : x \in S}
<1>1. \A x \in S : IsFiniteSet(Preceding(x)) /\ Cardinality(Preceding(x)) \in Nat
  BY FS_Subset, FS_CardinalityType
<1>2. PICK n \in Counts : \A m \in Counts : n <= m
  <2>1. Counts # {}
    <3>1. PICK x : x \in S
      OBVIOUS
    <3>2. Cardinality(Preceding(x)) \in Counts
      BY <3>1
    <3> HIDE DEF Counts
    <3> QED BY <3>2
  <2>2. ASSUME NEW c \in Counts PROVE c \in Nat
    <3>1. PICK x \in S : c = Cardinality(Preceding(x))
      BY <2>2
    <3> QED BY <1>1, <3>1
  <2> HIDE DEF Counts
  <2> QED BY <2>1, <2>2, LeastNat
<1>3. PICK x \in S : n = Cardinality(Preceding(x))
  OBVIOUS
<1>4. ASSUME NEW y \in S, <<y, x>> \in R PROVE FALSE
  <2>1. y \in Preceding(x) /\ Preceding(y) \subseteq Preceding(x) \ {y}
    BY <1>4
  <2>2. IsFiniteSet(Preceding(x)) /\ IsFiniteSet(Preceding(y))
    BY <1>1
  <2>3. Cardinality(Preceding(y)) \in Counts
    OBVIOUS
  <2>4. Cardinality(Preceding(x)) \in Nat /\ Cardinality(Preceding(y)) \in Nat
    BY <1>1
  <2> HIDE DEF Preceding, Counts
  <2>5. /\ IsFiniteSet(Preceding(x) \ {y})
        /\ Cardinality(Preceding(x) \ {y}) = Cardinality(Preceding(x)) - 1
    BY <2>1, <2>2, FS_RemoveElement
  <2>6. Cardinality(Preceding(y)) <= Cardinality(Preceding(x) \ {y})
    BY <2>1, <2>5, FS_Subset
  <2> QED BY <1>2, <1>3, <2>3, <2>4, <2>5, <2>6
<1> QED BY <1>4
-----------------------------------------------------------------------------
(***************************************************************************)
(* What an admission takes.                                                *)
(***************************************************************************)

\* The entries of the thumbnail queues are told apart by their sequence numbers.
LEMMA EntriesApart ==
  ASSUME IndInv, StageInv, NEW key \in DOMAIN lanes, NEW e \in lanes[key].queue
  PROVE  /\ e.task \in Request /\ e.priority \in Nat /\ e.sequence \in Nat
         /\ e = EntryOf(e.task) /\ state[e.task].laneKey = key
         /\ e.priority = state[e.task].priority
         /\ \A k \in DOMAIN lanes : \A f \in lanes[k].queue :
              f.sequence = e.sequence => f = e /\ k = key
<1>1. /\ e \in [task : Request, priority : Nat, sequence : Nat]
      /\ \A k \in DOMAIN lanes : \A f \in lanes[k].queue :
           /\ f \in [task : Request, priority : Nat, sequence : Nat]
           /\ Waits(f, "Io") /\ state[f.task].laneKey = k
  BY DEF IndInv, TypeOK, LaneState, Queues, LaneQueuesAgree
<1>2. e.task \in Pending /\ e.sequence = state[e.task].sequence
  BY <1>1 DEF Waits, Pending
<1>3. \A k \in DOMAIN lanes : \A f \in lanes[k].queue :
        f.sequence = e.sequence => f = EntryOf(e.task)
  BY <1>2, EntriesBySequence
<1>4. e = EntryOf(e.task)
  BY <1>3
<1> QED BY <1>1, <1>3, <1>4 DEF Waits

\* A queue that is not empty has a top, what Pop takes,
LEMMA TopExists ==
  ASSUME IndInv, StageInv, NEW key \in DOMAIN lanes, lanes[key].queue # {}
  PROVE  IsTop(Top(lanes[key].queue), lanes[key].queue)
<1> DEFINE queue == lanes[key].queue
           R     == {p \in queue \X queue : Before(p[1], p[2])}
<1>1. IsFiniteSet(queue)
  <2> DEFINE all == {EntryOf(r) : r \in Request}
             f   == [r \in Request |-> EntryOf(r)]
  <2>1. f \in Surjection(Request, all)
    BY DEF Surjection
  <2>2. IsFiniteSet(all)
    BY <2>1, FS_Surjection, SchedulerConstants
  <2>3. queue \subseteq all
    BY EntriesApart
  <2> QED BY <2>2, <2>3, FS_Subset
<1>2. \A e \in queue : e.priority \in Nat /\ e.sequence \in Nat
  BY EntriesApart
<1>3. \A e, f \in queue : <<e, f>> \in R <=> Before(e, f)
  OBVIOUS
<1> HIDE DEF R
<1>4. /\ \A e \in queue : <<e, e>> \notin R
      /\ \A e, f, g \in queue : <<e, f>> \in R /\ <<f, g>> \in R => <<e, g>> \in R
  BY <1>2, <1>3 DEF Before
<1>5. queue # {}
  OBVIOUS
<1>6. PICK e \in queue : \A f \in queue : <<f, e>> \notin R
  <2> HIDE DEF queue
  <2> QED BY <1>1, <1>4, <1>5, FirstExists
<1>7. \A f \in queue \ {e} : f.sequence # e.sequence
  BY EntriesApart
<1>8. \A f \in queue \ {e} : Before(e, f)
  <2>1. \A f \in queue : ~Before(f, e)
    BY <1>3, <1>6
  <2> HIDE DEF queue
  <2> QED BY <1>2, <1>7, <2>1 DEF Before
<1> QED BY <1>8 DEF Top, IsTop

\* and only one.
LEMMA TopIsOne ==
  ASSUME IndInv, StageInv, NEW key \in DOMAIN lanes, NEW e, IsTop(e, lanes[key].queue)
  PROVE  Top(lanes[key].queue) = e
<1> DEFINE queue == lanes[key].queue
           top   == Top(queue)
<1>1. IsTop(top, queue) /\ IsTop(e, queue)
  BY TopExists DEF IsTop
<1>2. \A f \in queue : f.priority \in Nat /\ f.sequence \in Nat
  BY EntriesApart
<1> HIDE DEF top, queue
<1>3. SUFFICES ASSUME top # e PROVE FALSE
  BY DEF top, queue
<1>4. Before(top, e) /\ Before(e, top) /\ top \in queue /\ e \in queue
  BY <1>1, <1>3 DEF IsTop
<1> QED BY <1>2, <1>4 DEF Before

\* Finitely many lanes have something queued.
LEMMA OpenLanesFinite ==
  ASSUME IndInv, NEW open, open \subseteq DOMAIN lanes, \A key \in open : lanes[key].queue # {}
  PROVE  IsFiniteSet(open)
<1> DEFINE all == {state[r].laneKey : r \in Request}
           f   == [r \in Request |-> state[r].laneKey]
<1>1. f \in Surjection(Request, all)
  BY DEF Surjection
<1>2. IsFiniteSet(all)
  BY <1>1, FS_Surjection, SchedulerConstants
<1>3. ASSUME NEW key \in open PROVE key \in all
  <2>1. PICK e : e \in lanes[key].queue
    BY <1>3
  <2>2. e.task \in Request /\ state[e.task].laneKey = key
    BY <1>3, <2>1 DEF IndInv, TypeOK, LaneState, Queues, LaneQueuesAgree
  <2> QED BY <2>2
<1> QED BY <1>2, <1>3, FS_Subset

\* Among lanes with something queued, one is better than every other.
LEMMA BestLane ==
  ASSUME IndInv, StageInv, NEW open, open \subseteq DOMAIN lanes, open # {},
         \A key \in open : lanes[key].queue # {}
  PROVE  \E key \in open : \A other \in open \ {key} : Better(lanes[key], lanes[other])
<1> DEFINE top(key) == Top(lanes[key].queue)
           R        == {p \in open \X open : Better(lanes[p[1]], lanes[p[2]])}
<1>1. \A key \in open : top(key) \in lanes[key].queue
  BY TopExists DEF IsTop
<1>2. ASSUME NEW key \in open
      PROVE  /\ top(key).priority \in Nat /\ top(key).sequence \in Nat
             /\ lanes[key].lastServed \in Nat
             /\ state[top(key).task].laneKey = key /\ top(key).task \in Request
  <2>1. top(key) \in lanes[key].queue /\ key \in DOMAIN lanes
    BY <1>1, <1>2
  <2>2. lanes[key].lastServed \in Nat
    BY <2>1 DEF IndInv, TypeOK, LaneState
  <2> HIDE DEF top
  <2> QED BY <2>1, <2>2, EntriesApart
<1>3. IsFiniteSet(open)
  BY OpenLanesFinite
<1>4. \A k, l \in open : <<k, l>> \in R <=> Better(lanes[k], lanes[l])
  OBVIOUS
<1>5. \A k, l \in open : Better(lanes[k], lanes[l]) <=>
        \/ top(k).priority > top(l).priority
        \/ top(k).priority = top(l).priority /\ lanes[k].lastServed < lanes[l].lastServed
        \/ top(k).priority = top(l).priority /\ lanes[k].lastServed = lanes[l].lastServed
             /\ top(k).sequence < top(l).sequence
  BY DEF Better, TopPriority, TopSequence
<1>6. \A k, l \in open : top(k).sequence = top(l).sequence => k = l
  BY <1>1, EntriesApart
<1> HIDE DEF R, top
<1>7. /\ \A k \in open : <<k, k>> \notin R
      /\ \A j, k, l \in open : <<j, k>> \in R /\ <<k, l>> \in R => <<j, l>> \in R
  BY <1>2, <1>4, <1>5
<1>8. PICK key \in open : \A other \in open : <<other, key>> \notin R
  BY <1>3, <1>7, FirstExists
<1>9. ASSUME NEW other \in open \ {key} PROVE Better(lanes[key], lanes[other])
  <2>1. ~Better(lanes[other], lanes[key]) /\ top(key).sequence # top(other).sequence
    BY <1>4, <1>6, <1>8
  <2> QED BY <1>2, <1>5, <2>1
<1> QED BY <1>9

\* The priorities of lanes with something queued are numbers; none is higher than that of
\* a better lane.
LEMMA BetterPriority ==
  ASSUME IndInv, StageInv, NEW key \in DOMAIN lanes, NEW other \in DOMAIN lanes,
         lanes[key].queue # {}, lanes[other].queue # {},
         other # key => Better(lanes[key], lanes[other])
  PROVE  /\ TopPriority(lanes[key].queue) \in Nat /\ TopPriority(lanes[other].queue) \in Nat
         /\ ~Outranks(TopPriority(lanes[other].queue), TopPriority(lanes[key].queue))
<1>1. /\ Top(lanes[key].queue) \in lanes[key].queue
      /\ Top(lanes[other].queue) \in lanes[other].queue
  BY TopExists DEF IsTop
<1>2. TopPriority(lanes[key].queue) \in Nat /\ TopPriority(lanes[other].queue) \in Nat
  BY <1>1, EntriesApart DEF TopPriority
<1> QED BY <1>2 DEF Better, Outranks

\* Whose readers could start a read of a higher priority.
IsAhead(kind, priority) ==
  /\ HasIdleReader(kind)
  /\ \E key \in AdmissibleLanes(lanes, readsByDevice, kind) :
       Outranks(TopPriority(lanes[key].queue), priority)

\* A slot is left for such a kind, and for no other.
LEMMA AheadOfOneKind ==
  ASSUME IndInv, NEW kind \in LaneKind, NEW priority
  PROVE  /\ AheadIn(lanes, readsByDevice, readsInProgress, kind, priority) \in Nat
         /\ AheadIn(lanes, readsByDevice, readsInProgress, kind, priority) = 0
              <=> ~IsAhead(kind, priority)
<1> DEFINE higher == {key \in AdmissibleLanes(lanes, readsByDevice, kind) :
                        Outranks(TopPriority(lanes[key].queue), priority)}
           idle   == IF readsInProgress[kind] < ReadersPerLane
                     THEN ReadersPerLane - readsInProgress[kind] ELSE 0
<1>1. AheadIn(lanes, readsByDevice, readsInProgress, kind, priority)
        = IF Cardinality(higher) < idle THEN Cardinality(higher) ELSE idle
  BY DEF AheadIn
<1>2. /\ readsInProgress[kind] \in Nat
      /\ readsInProgress[kind] = Cardinality(ReadsOf(kind))
  BY DEF IndInv, TypeOK, CapacityAccounted, ReadsAccounted
<1>3. idle \in Nat /\ (idle = 0 <=> ~HasIdleReader(kind))
  BY <1>2, LaneConstants DEF HasIdleReader
<1>4. IsFiniteSet(higher)
  BY OpenLanesFinite DEF AdmissibleLanes, Admissible
<1>5. higher = {} <=> \A key \in AdmissibleLanes(lanes, readsByDevice, kind) :
                        ~Outranks(TopPriority(lanes[key].queue), priority)
  OBVIOUS
<1> HIDE DEF higher, idle
<1>6. Cardinality(higher) \in Nat /\ (Cardinality(higher) = 0 <=> higher = {})
  BY <1>4, FS_CardinalityType, FS_EmptySet
<1> QED BY <1>1, <1>3, <1>5, <1>6 DEF IsAhead

\* So no slot is left to anybody exactly if no other kind could start such a read.
LEMMA NobodyAhead ==
  ASSUME IndInv, NEW kind \in LaneKind, NEW priority
  PROVE  /\ Ahead(lanes, readsByDevice, readsInProgress, kind, priority) \in Nat
         /\ Ahead(lanes, readsByDevice, readsInProgress, kind, priority) = 0
              <=> \A other \in LaneKind \ {kind} : ~IsAhead(other, priority)
<1> DEFINE in(other) == IF other = kind THEN 0
                        ELSE AheadIn(lanes, readsByDevice, readsInProgress, other, priority)
<1>1. \A other \in LaneKind : /\ in(other) \in Nat
                              /\ in(other) = 0 <=> other = kind \/ ~IsAhead(other, priority)
  BY AheadOfOneKind
<1>2. Ahead(lanes, readsByDevice, readsInProgress, kind, priority)
        = in("Local") + in("Archive") + in("Remote")
  BY DEF Ahead
<1> HIDE DEF in
<1>3. "Local" \in LaneKind /\ "Archive" \in LaneKind /\ "Remote" \in LaneKind
  BY DEF LaneKind
<1>4. /\ in("Local") \in Nat /\ in("Archive") \in Nat /\ in("Remote") \in Nat
      /\ (\A other \in LaneKind : in(other) = 0)
           <=> in("Local") = 0 /\ in("Archive") = 0 /\ in("Remote") = 0
  BY <1>1, <1>3 DEF LaneKind
<1> QED BY <1>1, <1>2, <1>4

\* While a prefetch slot is free and some idle reader has an admissible lane, a reader can
\* take one: the slots SelectThumbnailLane_NoLock leaves to readers with more urgent work
\* are never left to nobody, so prefetch does not stall with work to do.
THEOREM AdmissionNeverStallsHolds == Spec => []AdmissionNeverStalls
<1>1. IndInv /\ StageInv => AdmissionNeverStalls
  <2> SUFFICES ASSUME IndInv, StageInv, FreeSlots > 0, NEW some \in LaneKind, CanRead(some)
               PROVE  \E kind \in LaneKind : HasIdleReader(kind) /\ NextThumbnailLane(kind) # {}
    BY DEF AdmissionNeverStalls
  <2> DEFINE open == {key \in DOMAIN lanes :
                        /\ key.lane \in LaneKind /\ HasIdleReader(key.lane)
                        /\ Admissible(lanes, readsByDevice, key)}
  <2>1. open # {} /\ open \subseteq DOMAIN lanes /\ \A key \in open : lanes[key].queue # {}
    BY DEF CanRead, AdmissibleLanes, Admissible
  <2> HIDE DEF open
  <2>2. PICK key \in open : \A other \in open \ {key} : Better(lanes[key], lanes[other])
    BY <2>1, BestLane
  <2> USE DEF open
  <2> DEFINE kind == key.lane
             priority == TopPriority(lanes[key].queue)
  <2>3. kind \in LaneKind /\ HasIdleReader(kind)
    OBVIOUS
  <2>4. ASSUME NEW other \in LaneKind, IsAhead(other, priority) PROVE FALSE
    <3>1. PICK k \in AdmissibleLanes(lanes, readsByDevice, other) :
            Outranks(TopPriority(lanes[k].queue), priority)
      BY <2>4 DEF IsAhead
    <3>2. k \in open
      BY <2>4, <3>1 DEF IsAhead, AdmissibleLanes
    <3>3. /\ key \in DOMAIN lanes /\ k \in DOMAIN lanes
          /\ lanes[key].queue # {} /\ lanes[k].queue # {}
      BY <3>2, <2>1
    <3> HIDE DEF open
    <3> QED BY <2>2, <3>1, <3>2, <3>3, BetterPriority
  <2>5. Ahead(lanes, readsByDevice, readsInProgress, kind, priority) = 0
    <3> HIDE DEF kind, priority, open
    <3> QED BY <2>3, <2>4, NobodyAhead
  <2>6. key \in AdmissibleLanes(lanes, readsByDevice, kind)
    BY DEF AdmissibleLanes
  <2>7. \A other \in AdmissibleLanes(lanes, readsByDevice, kind) \ {key} :
          Better(lanes[key], lanes[other])
    BY <2>2, <2>3 DEF AdmissibleLanes
  <2>8. key \in NextThumbnailLane(kind)
    BY <2>5, <2>6, <2>7 DEF NextThumbnailLane, SelectThumbnailLane
  <2> QED BY <2>3, <2>8
<1> QED BY <1>1, Invariant, StageInvariant, PTL

\* Only LaneReaderThread begins a thumbnail's read.
LEMMA OnlyLaneReadersRead ==
  ASSUME IndInv, Next, NEW r \in Request, job[r] = "none", job'[r] = "reading"
  PROVE  \E kind \in LaneKind : LaneReaderTake(kind)
<1>1. job \in [Request -> Job]
  BY DEF IndInv, TypeOK
<1>2. ASSUME NEW q \in Request, Client(q) PROVE FALSE
  <2>1. job' = job
    BY <1>2 DEF Client, EnqueueLocalMain, EnqueueSlowMain, EnqueueThumbnail, Accept,
                EnqueueRejected, SetPriority, Cancel
  <2> QED BY <2>1
<1>3. CASE Reader
  <2>1. CASE MainReaderTake
    <3>1. PICK key \in SelectMainLane(lanes, mainReads + mainHeld) : \E e \in lanes[key].mainQueue :
            \/ job' = job
            \/ job' = [job EXCEPT ![e.task] = "mainReading"]
      BY <2>1 DEF MainReaderTake, DiscardQueued, StartMainRead
    <3> QED BY <1>1, <3>1
  <2>2. ASSUME NEW q \in Request, NEW result \in ReadResult,
               LaneReaderFinish(q, result) \/ MainReaderFinish(q, result)
        PROVE  FALSE
    <3>1. job' = [job EXCEPT ![q] = "none"]
      BY <2>2 DEF LaneReaderFinish, MainReaderFinish
    <3> QED BY <1>1, <3>1
  <2> QED BY <1>3, <2>1, <2>2 DEF Reader
<1>4. ASSUME NEW kind \in WorkerKind, WorkerTake(kind) PROVE FALSE
  <2>1. \E q : job' = job \/ job' = [job EXCEPT ![q] = "taken"]
    BY <1>4 DEF WorkerTake, TakeHigh, TakeBackground, Take
  <2> QED BY <1>1, <2>1
<1>5. ASSUME NEW q \in Request, WorkerStep(q) PROVE FALSE
  <2>1. PICK to : job' = [job EXCEPT ![q] = to] /\ to # "reading"
    BY <1>5 DEF WorkerStep, WorkerBegin, WorkerFinish, WorkerDeliver, WorkerRelease,
                MoveWorker, BeginsAs
  <2> QED BY <1>1, <2>1
<1>6. ASSUME Lifecycle PROVE FALSE
  <2>1. job' = job
    BY <1>6 DEF Lifecycle, BeginStop, SkipStop, ScanLeases, BoundExpires, JoinAll, Reopen,
                Retune, requestVars
  <2> QED BY <2>1
<1> QED BY <1>2, <1>3, <1>4, <1>5, <1>6 DEF Next

\* The last free slot goes to the highest priority an idle reader of any lane kind can
\* start: a read of a lower priority elsewhere never takes it (the `ahead` count of
\* SelectThumbnailLane_NoLock).
THEOREM LastSlotHolds == Spec => LastSlotToTopPriority
<1>1. ASSUME IndInv, StageInv, Next, FreeSlots = 1, NEW r \in Request,
             job[r] = "none", job'[r] = "reading", NEW other \in LaneKind,
             HasIdleReader(other), NEW l \in AdmissibleLanes(lanes, readsByDevice, other)
      PROVE  TopPriority(lanes[l].queue) <= state[r].priority
  <2>1. PICK kind \in LaneKind : LaneReaderTake(kind)
    BY <1>1, OnlyLaneReadersRead
  <2>2. PICK key \in NextThumbnailLane(kind) : \E e \in lanes[key].queue :
          /\ IsTop(e, lanes[key].queue)
          /\ job' = job \/ job' = [job EXCEPT ![e.task] = "reading"]
    BY <2>1 DEF LaneReaderTake, DiscardQueued, StartRead
  <2>3. PICK e \in lanes[key].queue :
          /\ IsTop(e, lanes[key].queue)
          /\ job' = job \/ job' = [job EXCEPT ![e.task] = "reading"]
    BY <2>2
  <2>4. r = e.task
    BY <1>1, <2>3 DEF IndInv, TypeOK
  <2>5. /\ key \in AdmissibleLanes(lanes, readsByDevice, kind)
        /\ \A k \in AdmissibleLanes(lanes, readsByDevice, kind) \ {key} :
             Better(lanes[key], lanes[k])
        /\ Ahead(lanes, readsByDevice, readsInProgress, kind,
                 TopPriority(lanes[key].queue)) < 1
    BY <1>1, <2>2 DEF NextThumbnailLane, SelectThumbnailLane
  <2>6. /\ key \in DOMAIN lanes /\ lanes[key].queue # {}
        /\ l \in DOMAIN lanes /\ lanes[l].queue # {}
    BY <1>1, <2>5 DEF AdmissibleLanes, Admissible
  <2>7. TopPriority(lanes[key].queue) = state[r].priority
    <3>1. Top(lanes[key].queue) = e
      BY <1>1, <2>3, <2>6, TopIsOne
    <3>2. e.priority = state[e.task].priority
      BY <1>1, <2>3, <2>6, EntriesApart
    <3> QED BY <2>4, <3>1, <3>2 DEF TopPriority
  <2>8. ~Outranks(TopPriority(lanes[l].queue), TopPriority(lanes[key].queue))
    <3>1. CASE other = kind
      <4>1. l # key => Better(lanes[key], lanes[l])
        BY <1>1, <2>5, <3>1
      <4> QED BY <1>1, <2>6, <4>1, BetterPriority
    <3>2. CASE other # kind
      <4>1. Ahead(lanes, readsByDevice, readsInProgress, kind,
                  TopPriority(lanes[key].queue)) = 0
        BY <1>1, <2>5, NobodyAhead
      <4>2. ~IsAhead(other, TopPriority(lanes[key].queue))
        BY <1>1, <3>2, <4>1, NobodyAhead
      <4> QED BY <1>1, <4>2 DEF IsAhead
    <3> QED BY <3>1, <3>2
  <2>9. /\ TopPriority(lanes[l].queue) \in Nat
        /\ TopPriority(lanes[key].queue) \in Nat
    <3>1. /\ Top(lanes[key].queue) \in lanes[key].queue
          /\ Top(lanes[l].queue) \in lanes[l].queue
      BY <1>1, <2>6, TopExists DEF IsTop
    <3> QED BY <1>1, <2>6, <3>1, EntriesApart DEF TopPriority
  <2> QED BY <2>7, <2>8, <2>9 DEF Outranks
<1>2. IndInv /\ StageInv /\ [Next]_vars =>
        [\A r \in Request :
           FreeSlots = 1 /\ job[r] = "none" /\ job'[r] = "reading" =>
             \A kind \in LaneKind : HasIdleReader(kind) =>
               \A key \in AdmissibleLanes(lanes, readsByDevice, kind) :
                 TopPriority(lanes[key].queue) <= state[r].priority]_vars
  BY <1>1
<1> QED BY <1>2, Invariant, StageInvariant, PTL DEF Spec, LastSlotToTopPriority

-----------------------------------------------------------------------------
(***************************************************************************)
(* Capacity by lane and by device.                                         *)
(***************************************************************************)

\* The answers of the device query agree about each device, and are about none of the
\* devices that the routing makes up itself.
AnswersAgree ==
  \A q, r \in Request : \A a \in Answers[q], b \in Answers[r] :
    /\ a.device = b.device => a.seek = b.seek
    /\ a.device[1] \notin {"unc", "unknown", "remote"}

\* The two forms of a route: to a server, and to a device, which the query answered or
\* the routing made up.
ToServer(route) ==
  /\ route.key.lane = "Remote" /\ route.device[1] = "remote"
  /\ route.depth = SeekDepth /\ route.limit = ReadersPerLane
ToDevice(route, place) ==
  /\ route.key.lane # "Remote" /\ route.key.place = place.device /\ route.device = place.device
  /\ route.depth = IF place.seek THEN SeekDepth ELSE SolidStateDepth
  /\ route.limit = IF place.seek THEN MaxReadsPerSeekDevice ELSE MaxReadsPerSolidStateDevice
Answered(place) == \E r \in Request : place \in Answers[r]
MadeUp(place)   == place.seek = TRUE /\ place.device[1] \in {"unc", "unknown"}

\* Where the answers agree the topology is stable, whatever is requested from where.
LEMMA AgreementIsStable == ASSUME AnswersAgree PROVE StableRoutes
<1>1. ASSUME NEW route \in Routes
      PROVE  ToServer(route) \/ \E place : ToDevice(route, place) /\ (Answered(place) \/ MadeUp(place))
  <2>1. PICK r \in Request : route \in RoutesOf(r)
    BY DEF Routes
  <2>2. PICK answer \in Answers[r] : route = RouteOf(r, answer)
    BY <2>1 DEF RoutesOf
  <2>3. CASE IoLaneFor(Source[r].kind) = "Remote"
    BY <2>2, <2>3 DEF RouteOf, RouteFor, RemoteRoute, Key, Device, ToServer
  <2>4. CASE IoLaneFor(Source[r].kind) # "Remote"
    <3> DEFINE place == PlaceOf(Source[r], answer)
    <3>1. route = DeviceRoute(Source[r], r \in MainImage, answer)
      BY <2>2, <2>4 DEF RouteOf, RouteFor
    <3>2. ToDevice(route, place)
      BY <2>4, <3>1 DEF DeviceRoute, Key, ToDevice
    <3>3. Answered(place) \/ MadeUp(place)
      BY DEF PlaceOf, Answered, MadeUp, Topology, Device
    <3> HIDE DEF place
    <3> QED BY <3>2, <3>3
  <2> QED BY <2>3, <2>4
<1>2. ASSUME NEW p, NEW q, p.device = q.device,
             Answered(p) \/ MadeUp(p), Answered(q) \/ MadeUp(q)
      PROVE  p.seek = q.seek
  BY <1>2, ZenonT(60) DEF AnswersAgree, Answered, MadeUp
<1>3. ASSUME NEW p, Answered(p) \/ MadeUp(p) PROVE p.device[1] # "remote"
  BY <1>3 DEF AnswersAgree, Answered, MadeUp
<1>4. ASSUME NEW a \in Routes, NEW b \in Routes
      PROVE  /\ a.key = b.key => a.depth = b.depth /\ a.limit = b.limit
             /\ (DeviceAdmitted(a.key.lane) /\ DeviceAdmitted(b.key.lane) /\ a.key.place = b.key.place)
                  => a.limit = b.limit
             /\ a.device = b.device => a.depth = b.depth
  <2>1. CASE ToServer(a) /\ ToServer(b)
    BY <2>1 DEF ToServer, DeviceAdmitted
  <2>2. ASSUME NEW route, NEW other, NEW p, ToServer(route), ToDevice(other, p), Answered(p) \/ MadeUp(p)
        PROVE  /\ route.key # other.key /\ route.device # other.device
               /\ ~DeviceAdmitted(route.key.lane)
    BY <1>3, <2>2 DEF ToServer, ToDevice, DeviceAdmitted
  <2>3. ASSUME NEW p, NEW q, ToDevice(a, p), ToDevice(b, q),
               Answered(p) \/ MadeUp(p), Answered(q) \/ MadeUp(q)
        PROVE  a.key.place = b.key.place \/ a.device = b.device => a.depth = b.depth /\ a.limit = b.limit
    <3>1. a.key.place = b.key.place \/ a.device = b.device => p.seek = q.seek
      BY <1>2, <2>3 DEF ToDevice
    <3> QED BY <2>3, <3>1 DEF ToDevice
  <2> QED BY <1>1, <2>1, <2>2, <2>3
<1> QED BY <1>4 DEF StableRoutes

\* The files a lane keeps in memory or reads fit its depth.
Fits(lane) == lane.held + (IF lane.reading THEN 1 ELSE 0) <= lane.depth

AsRouted(lane, key) ==
  \A route \in Routes : route.key = key => lane.depth = route.depth /\ lane.limit = route.limit

StableInv ==
  \A key \in DOMAIN lanes :
    /\ AsRouted(lanes[key], key)
    /\ Fits(lanes[key])
    /\ DeviceAdmitted(key.lane) => readsByDevice[key.place] <= lanes[key].limit

\* A lane that takes on nothing,
Shrinks(lane, old) ==
  /\ lane.depth = old.depth /\ lane.limit = old.limit
  /\ lane.held <= old.held
  /\ lane.reading => old.reading

\* in a table that gets no lane.
NoneGrows(table, newTable) ==
  \A k \in DOMAIN newTable : k \in DOMAIN table /\ Shrinks(newTable[k], table[k])

\* What takes on nothing keeps every lane within its limits.
LEMMA StableFrame ==
  ASSUME IndInv, IndInv', StableInv, NoneGrows(lanes, lanes'),
         \A d \in Devices : readsByDevice'[d] <= readsByDevice[d]
  PROVE  StableInv'
<1>1. ASSUME NEW key \in DOMAIN lanes'
      PROVE  /\ key \in DOMAIN lanes /\ Shrinks(lanes'[key], lanes[key])
             /\ lanes[key] \in LaneState /\ lanes'[key] \in LaneState /\ key.place \in Devices
             /\ readsByDevice[key.place] \in Nat /\ readsByDevice'[key.place] \in Nat
  <2>1. key \in Keys
    BY <1>1 DEF IndInv, TypeOK
  <2> QED BY <1>1, <2>1, KeyType DEF NoneGrows, IndInv, TypeOK
<1>2. ASSUME NEW key \in DOMAIN lanes' PROVE AsRouted(lanes'[key], key)
  BY <1>1, <1>2 DEF StableInv, AsRouted, Shrinks
<1>3. ASSUME NEW key \in DOMAIN lanes' PROVE Fits(lanes'[key])
  <2>1. Fits(lanes[key])
    BY <1>1, <1>3 DEF StableInv
  <2> QED BY <1>1, <1>3, <2>1 DEF Fits, Shrinks, LaneState
<1>4. ASSUME NEW key \in DOMAIN lanes', DeviceAdmitted(key.lane)
      PROVE  readsByDevice'[key.place] <= lanes'[key].limit
  <2>1. readsByDevice[key.place] <= lanes[key].limit
    BY <1>1, <1>4 DEF StableInv
  <2>2. /\ readsByDevice'[key.place] <= readsByDevice[key.place]
        /\ lanes'[key].limit = lanes[key].limit
    BY <1>1, <1>4 DEF Shrinks
  <2> QED BY <1>1, <1>4, <2>1, <2>2 DEF LaneState
<1> QED BY <1>2, <1>3, <1>4 DEF StableInv

\* Reclaiming a lane,
LEMMA ReclaimShrinks ==
  ASSUME NEW table, NEW newTable, NEW key, NoneGrows(table, newTable)
  PROVE  NoneGrows(table, Reclaim(newTable, key))
BY ReclaimKeeps DEF NoneGrows

\* giving a slot back,
LEMMA ReleaseShrinks ==
  ASSUME NEW table, NEW s, \A k \in DOMAIN table : table[k] \in LaneState
  PROVE  NoneGrows(table, ReleasedLanes(table, s))
<1> DEFINE key  == s.laneKey
           lane == [table[key] EXCEPT !.held = Dec(table[key].held)]
           done == [table EXCEPT ![key] = lane]
<1>1. \A k \in DOMAIN table : Shrinks(table[k], table[k])
  BY DEF Shrinks, LaneState
<1>2. CASE ReleasesSlot(s) /\ key \in DOMAIN table
  <2>1. Shrinks(lane, table[key])
    BY <1>2 DEF Shrinks, LaneState, Dec
  <2>2. ReleasedLanes(table, s) = Reclaim(done, key)
    BY <1>2 DEF ReleasedLanes
  <2> HIDE DEF lane
  <2>3. NoneGrows(table, done)
    BY <1>1, <1>2, <2>1 DEF NoneGrows
  <2> QED BY <2>2, <2>3, ReclaimShrinks
<1>3. CASE ~(ReleasesSlot(s) /\ key \in DOMAIN table)
  BY <1>1, <1>3 DEF ReleasedLanes, NoneGrows
<1> QED BY <1>2, <1>3

\* and taking a task out of a queue take on nothing.
LEMMA PoppedShrinks ==
  ASSUME IndInv, NEW key \in DOMAIN lanes, NEW queue
  PROVE  /\ NoneGrows(lanes, [lanes EXCEPT ![key].queue = queue])
         /\ NoneGrows(lanes, [lanes EXCEPT ![key].mainQueue = queue])
<1> DEFINE io   == [lanes[key] EXCEPT !.queue = queue]
           main == [lanes[key] EXCEPT !.mainQueue = queue]
<1>1. \A k \in DOMAIN lanes : lanes[k] \in LaneState
  BY DEF IndInv, TypeOK
<1>2. \A k \in DOMAIN lanes : Shrinks(lanes[k], lanes[k])
  BY <1>1 DEF Shrinks, LaneState
<1>3. Shrinks(io, lanes[key]) /\ Shrinks(main, lanes[key])
  BY <1>1 DEF Shrinks, LaneState
<1>4. /\ [lanes EXCEPT ![key].queue = queue] = [lanes EXCEPT ![key] = io]
      /\ [lanes EXCEPT ![key].mainQueue = queue] = [lanes EXCEPT ![key] = main]
  OBVIOUS
<1> HIDE DEF io, main
<1> QED BY <1>2, <1>3, <1>4 DEF NoneGrows

\* So do the steps of a client that enqueues nothing.
LEMMA ClientShrinks ==
  ASSUME IndInv, NEW r \in Request,
         \/ \E priority \in Priorities : SetPriority(r, priority)
         \/ Cancel(r)
         \/ EnqueueRejected(r)
  PROVE  NoneGrows(lanes, lanes') /\ readsByDevice' = readsByDevice
<1>1. \A k \in DOMAIN lanes : lanes[k] \in LaneState
  BY DEF IndInv, TypeOK
<1>2. NoneGrows(lanes, lanes)
  BY <1>1 DEF NoneGrows, Shrinks, LaneState
<1>3. CASE \E priority \in Priorities : SetPriority(r, priority)
  <2>1. PICK priority \in Priorities : SetPriority(r, priority)
    BY <1>3
  <2>2. \/ lanes' = lanes
        \/ \E key \in DOMAIN lanes : \E queue : \/ lanes' = [lanes EXCEPT ![key].queue = queue]
                                               \/ lanes' = [lanes EXCEPT ![key].mainQueue = queue]
    BY <2>1 DEF SetPriority
  <2> QED BY <1>2, <2>1, <2>2, PoppedShrinks DEF SetPriority
<1>4. CASE Cancel(r)
  <2> DEFINE s == state[r]
             new == Unqueued(r, s)
  <2>1. lanes' \in {new, ReleasedLanes(new, s)} /\ readsByDevice' = readsByDevice
    BY <1>4 DEF Cancel
  <2>2. NoneGrows(lanes, new)
    <3> DEFINE key  == s.laneKey
               io   == Remove(lanes[key].queue, r, s.priority, s.sequence)
               main == Remove(lanes[key].mainQueue, r, s.priority, s.sequence)
    <3>1. \/ new = lanes
          \/ key \in DOMAIN lanes /\ new = Reclaim([lanes EXCEPT ![key].queue = io], key)
          \/ key \in DOMAIN lanes /\ new = Reclaim([lanes EXCEPT ![key].mainQueue = main], key)
      BY DEF Unqueued
    <3> HIDE DEF key, io, main, new
    <3>2. key \in DOMAIN lanes => /\ NoneGrows(lanes, [lanes EXCEPT ![key].queue = io])
                                  /\ NoneGrows(lanes, [lanes EXCEPT ![key].mainQueue = main])
      BY PoppedShrinks
    <3>3. key \in DOMAIN lanes =>
            /\ NoneGrows(lanes, Reclaim([lanes EXCEPT ![key].queue = io], key))
            /\ NoneGrows(lanes, Reclaim([lanes EXCEPT ![key].mainQueue = main], key))
      BY <3>2, ReclaimShrinks
    <3> QED BY <1>2, <3>1, <3>3
  <2>3. LanesTyped(new)
    BY UnqueuedKeeps DEF IndInv
  <2> HIDE DEF new, s
  <2>4. NoneGrows(new, ReleasedLanes(new, s))
    BY <2>3, ReleaseShrinks DEF LanesTyped
  <2>5. LanesTyped(ReleasedLanes(new, s))
    BY <2>3, ReleasedLanesKeep
  <2>6. NoneGrows(lanes, ReleasedLanes(new, s))
    BY <1>1, <2>2, <2>3, <2>4, <2>5 DEF LanesTyped, NoneGrows, Shrinks, LaneState
  <2> QED BY <2>1, <2>2, <2>6
<1>5. CASE EnqueueRejected(r)
  BY <1>2, <1>5 DEF EnqueueRejected, laneVars
<1> QED BY <1>3, <1>4, <1>5

\* So do the steps of workers, of the readers of main images, and of the lifecycle calls.
LEMMA OthersShrink ==
  ASSUME IndInv, StageInv,
         \/ \E kind \in WorkerKind : WorkerTake(kind)
         \/ \E r \in Request : WorkerStep(r)
         \/ MainReaderTake
         \/ \E r \in Request, result \in ReadResult : MainReaderFinish(r, result)
         \/ Lifecycle
         \/ UNCHANGED vars
  PROVE  NoneGrows(lanes, lanes') /\ \A d \in Devices : readsByDevice'[d] <= readsByDevice[d]
<1> USE DEF laneVars
<1>1. \A k \in DOMAIN lanes : lanes[k] \in LaneState
  BY DEF IndInv, TypeOK
<1>2. NoneGrows(lanes, lanes)
  BY <1>1 DEF NoneGrows, Shrinks, LaneState
<1>3. readsByDevice' = readsByDevice => \A d \in Devices : readsByDevice'[d] <= readsByDevice[d]
  BY DEF IndInv, TypeOK
<1>4. ASSUME NEW kind \in WorkerKind, WorkerTake(kind) PROVE NoneGrows(lanes, lanes') /\ readsByDevice' = readsByDevice
  <2>1. PICK r \in Request : Take(r, kind)
    BY <1>4, WorkerTakes
  <2>2. lanes' = lanes \/ \E s : lanes' = ReleasedLanes(lanes, s)
    BY <2>1 DEF Take
  <2> QED BY <1>1, <1>2, <1>4, <2>2, ReleaseShrinks DEF WorkerTake
<1>5. ASSUME NEW r \in Request, WorkerStep(r) PROVE NoneGrows(lanes, lanes') /\ readsByDevice' = readsByDevice
  <2>1. /\ lanes' = lanes \/ \E s : lanes' = ReleasedLanes(lanes, s)
        /\ readsByDevice' = readsByDevice
    BY <1>5 DEF WorkerStep, WorkerBegin, WorkerFinish, WorkerDeliver, WorkerRelease
  <2> QED BY <1>1, <1>2, <2>1, ReleaseShrinks
<1>6. ASSUME NEW table, NEW key \in DOMAIN table, NEW flag \in BOOLEAN, NoneGrows(lanes, table),
             \A k \in DOMAIN table : table[k] \in LaneState
      PROVE  NoneGrows(lanes, [table EXCEPT ![key].mainReading = flag])
  <2> DEFINE lane == [table[key] EXCEPT !.mainReading = flag]
  <2>1. Shrinks(lane, lanes[key])
    BY <1>6 DEF NoneGrows, Shrinks, LaneState
  <2>2. [table EXCEPT ![key].mainReading = flag] = [table EXCEPT ![key] = lane]
    OBVIOUS
  <2> HIDE DEF lane
  <2> QED BY <1>6, <2>1, <2>2 DEF NoneGrows
<1>7. CASE MainReaderTake
  <2>1. PICK key \in SelectMainLane(lanes, mainReads + mainHeld) : \E e \in lanes[key].mainQueue :
          \/ DiscardQueued(e.task, [lanes EXCEPT ![key].mainQueue = @ \ {e}], key)
          \/ StartMainRead(e.task, [lanes EXCEPT ![key].mainQueue = @ \ {e}], key)
    BY <1>7 DEF MainReaderTake
  <2>2. PICK e \in lanes[key].mainQueue :
          \/ DiscardQueued(e.task, [lanes EXCEPT ![key].mainQueue = @ \ {e}], key)
          \/ StartMainRead(e.task, [lanes EXCEPT ![key].mainQueue = @ \ {e}], key)
    BY <2>1
  <2> DEFINE rest   == lanes[key].mainQueue \ {e}
             popped == [lanes EXCEPT ![key].mainQueue = rest]
  <2>3. key \in DOMAIN lanes
    BY DEF SelectMainLane
  <2>4. /\ NoneGrows(lanes, popped)
        /\ DOMAIN popped = DOMAIN lanes /\ \A k \in DOMAIN popped : popped[k] \in LaneState
    <3> HIDE DEF rest
    <3>1. NoneGrows(lanes, popped)
      BY <2>3, PoppedShrinks
    <3>2. LanesTyped(popped)
      BY <2>2, <2>3, PopMain DEF rest
    <3> QED BY <3>1, <3>2 DEF LanesTyped
  <2>5. \/ lanes' = Reclaim(popped, key) /\ readsByDevice' = readsByDevice
        \/ lanes' = [popped EXCEPT ![key].mainReading = TRUE] /\ readsByDevice' = readsByDevice
    BY <2>2 DEF DiscardQueued, StartMainRead
  <2> HIDE DEF popped
  <2>6. CASE lanes' = Reclaim(popped, key) /\ readsByDevice' = readsByDevice
    BY <1>3, <2>4, <2>6, ReclaimShrinks
  <2>7. CASE lanes' = [popped EXCEPT ![key].mainReading = TRUE] /\ readsByDevice' = readsByDevice
    <3>1. key \in DOMAIN popped
      BY <2>3, <2>4
    <3>2. NoneGrows(lanes, [popped EXCEPT ![key].mainReading = TRUE])
      BY <1>6, <2>4, <3>1
    <3> QED BY <1>3, <2>7, <3>2
  <2> QED BY <2>5, <2>6, <2>7
<1>8. ASSUME NEW r \in Request, NEW result \in ReadResult, MainReaderFinish(r, result)
      PROVE  NoneGrows(lanes, lanes') /\ readsByDevice' = readsByDevice
  <2> DEFINE key  == state[r].laneKey
             done == [lanes EXCEPT ![key].mainReading = FALSE]
  <2>1. lanes' = Reclaim(done, key) /\ readsByDevice' = readsByDevice
    BY <1>8 DEF MainReaderFinish
  <2>2. CASE key \in DOMAIN lanes
    <3>1. NoneGrows(lanes, done)
      BY <1>1, <1>2, <1>6, <2>2
    <3> HIDE DEF done
    <3> QED BY <2>1, <3>1, ReclaimShrinks
  <2>3. CASE key \notin DOMAIN lanes
    <3>1. DOMAIN done = DOMAIN lanes /\ \A k \in DOMAIN lanes : done[k] = lanes[k]
      BY <2>3
    <3>2. NoneGrows(lanes, done)
      BY <1>2, <3>1 DEF NoneGrows
    <3> HIDE DEF done
    <3> QED BY <2>1, <3>2, ReclaimShrinks
  <2> QED BY <2>2, <2>3
<1>9. CASE Lifecycle
  <2>1. CASE JoinAll
    <3>1. DOMAIN lanes' = {} /\ \A d \in Devices : readsByDevice'[d] = 0 /\ readsByDevice[d] \in Nat
      BY <2>1 DEF JoinAll, IndInv, TypeOK
    <3> QED BY <3>1 DEF NoneGrows
  <2>2. CASE ~JoinAll
    <3>1. lanes' = lanes /\ readsByDevice' = readsByDevice
      BY <1>9, <2>2 DEF Lifecycle, BeginStop, SkipStop, ScanLeases, BoundExpires, Reopen, Retune
    <3> QED BY <1>2, <1>3, <3>1
  <2> QED BY <2>1, <2>2
<1>10. CASE UNCHANGED vars
  BY <1>2, <1>3, <1>10 DEF vars
<1> QED BY <1>3, <1>4, <1>5, <1>7, <1>8, <1>9, <1>10

\* The lane of a thumbnail discarded takes on nothing, one whose read begins has room for
\* it, and so has its device.
LEMMA LaneReaderTakeStable ==
  ASSUME IndInv, IndInv', StableRoutes, StableInv, NEW kind \in LaneKind, LaneReaderTake(kind)
  PROVE  StableInv'
<1>0. PICK key \in NextThumbnailLane(kind) : \E e \in lanes[key].queue :
        \/ DiscardQueued(e.task, [lanes EXCEPT ![key].queue = @ \ {e}], key)
        \/ StartRead(e.task, [lanes EXCEPT ![key].queue = @ \ {e}], key)
  BY DEF LaneReaderTake
<1>1. PICK e \in lanes[key].queue :
        \/ DiscardQueued(e.task, [lanes EXCEPT ![key].queue = @ \ {e}], key)
        \/ StartRead(e.task, [lanes EXCEPT ![key].queue = @ \ {e}], key)
  BY <1>0
<1> DEFINE rest   == lanes[key].queue \ {e}
           popped == [lanes EXCEPT ![key].queue = rest]
<1>2. /\ key \in DOMAIN lanes /\ ~lanes[key].reading /\ lanes[key].held < lanes[key].depth
      /\ DeviceAdmitted(key.lane) => readsByDevice[key.place] < lanes[key].limit
  BY DEF NextThumbnailLane, SelectThumbnailLane, AdmissibleLanes, Admissible, DeviceAdmitted
<1>3. /\ NoneGrows(lanes, popped) /\ DOMAIN popped = DOMAIN lanes
      /\ \A k \in DOMAIN lanes : popped[k] \in LaneState
  <2> HIDE DEF rest
  <2>1. NoneGrows(lanes, popped)
    BY <1>2, PoppedShrinks
  <2>2. LanesTyped(popped)
    BY <1>1, <1>2, PopThumbnail DEF rest
  <2> QED BY <2>1, <2>2 DEF LanesTyped
<1>4. readsByDevice \in [Devices -> Nat] /\ \A k \in DOMAIN lanes : k \in Keys /\ lanes[k] \in LaneState
  BY DEF IndInv, TypeOK
<1>5. CASE DiscardQueued(e.task, popped, key)
  <2>1. lanes' = Reclaim(popped, key) /\ readsByDevice' = readsByDevice
    BY <1>5 DEF DiscardQueued
  <2>2. \A d \in Devices : readsByDevice'[d] <= readsByDevice[d]
    BY <1>4, <2>1
  <2> HIDE DEF popped
  <2> QED BY <1>3, <2>1, <2>2, ReclaimShrinks, StableFrame
<1>6. CASE StartRead(e.task, popped, key)
  <2> DEFINE lane == [popped[key] EXCEPT !.reading = TRUE, !.lastServed = serviceClock']
  <2>1. /\ lanes' = [popped EXCEPT ![key] = lane]
        /\ readsByDevice' = IF DeviceAdmitted(key.lane)
                            THEN [readsByDevice EXCEPT ![key.place] = @ + 1]
                            ELSE readsByDevice
    BY <1>6 DEF StartRead
  <2>2. /\ lane.depth = lanes[key].depth /\ lane.limit = lanes[key].limit
        /\ lane.held <= lanes[key].held /\ lane.held \in Nat /\ lane.reading
    BY <1>2, <1>3 DEF LaneState, NoneGrows, Shrinks
  <2> HIDE DEF lane, popped
  <2>3. /\ DOMAIN lanes' = DOMAIN lanes /\ lanes'[key] = lane
        /\ \A k \in DOMAIN lanes \ {key} : lanes'[k] = popped[k] /\ Shrinks(popped[k], lanes[k])
    BY <1>2, <1>3, <2>1 DEF NoneGrows
  <2>4. ASSUME NEW k \in DOMAIN lanes'
        PROVE  lanes'[k].depth = lanes[k].depth /\ lanes'[k].limit = lanes[k].limit
    BY <2>2, <2>3, <2>4 DEF Shrinks
  <2>5. ASSUME NEW k \in DOMAIN lanes' PROVE AsRouted(lanes'[k], k)
    BY <2>3, <2>4, <2>5 DEF StableInv, AsRouted
  <2>6. ASSUME NEW k \in DOMAIN lanes' PROVE Fits(lanes'[k])
    <3>1. CASE k = key
      BY <1>2, <1>4, <2>2, <2>3, <3>1 DEF Fits, LaneState
    <3>2. CASE k # key
      <4>1. /\ Fits(lanes[k]) /\ lanes[k] \in LaneState /\ lanes'[k] \in LaneState
            /\ Shrinks(lanes'[k], lanes[k])
        BY <1>3, <1>4, <2>3, <2>6, <3>2 DEF StableInv
      <4> QED BY <4>1 DEF Fits, Shrinks, LaneState
    <3> QED BY <3>1, <3>2
  <2>7. ASSUME NEW k \in DOMAIN lanes', DeviceAdmitted(k.lane)
        PROVE  readsByDevice'[k.place] <= lanes'[k].limit
    <3>1. /\ k \in DOMAIN lanes /\ lanes[k].limit \in Nat /\ k.place \in Devices
          /\ readsByDevice[k.place] <= lanes[k].limit /\ lanes'[k].limit = lanes[k].limit
      BY <1>4, <2>3, <2>4, <2>7, KeyType DEF StableInv, LaneState
    <3>2. CASE DeviceAdmitted(key.lane) /\ k.place = key.place
      <4>1. PICK a \in Routes : a.key = k
        BY <1>4, <3>1 DEF Keys
      <4>2. PICK b \in Routes : b.key = key
        BY <1>2, <1>4 DEF Keys
      <4>3. a.limit = b.limit
        BY <2>7, <3>2, <4>1, <4>2 DEF StableRoutes
      <4>4. lanes[k].limit = a.limit /\ lanes[key].limit = b.limit
        BY <1>2, <3>1, <4>1, <4>2 DEF StableInv, AsRouted
      <4>5. readsByDevice'[k.place] = readsByDevice[k.place] + 1
        BY <1>4, <2>1, <3>1, <3>2
      <4> QED BY <1>2, <1>4, <3>1, <3>2, <4>3, <4>4, <4>5
    <3>3. CASE ~(DeviceAdmitted(key.lane) /\ k.place = key.place)
      BY <1>4, <2>1, <3>1, <3>3
    <3> QED BY <3>2, <3>3
  <2> QED BY <2>5, <2>6, <2>7 DEF StableInv
<1> QED BY <1>1, <1>5, <1>6

\* A read that ends leaves its bytes the place it had.
LEMMA LaneReaderFinishStable ==
  ASSUME IndInv, LaneInv, StableInv, NEW r \in Request, NEW result \in ReadResult,
         LaneReaderFinish(r, result)
  PROVE  StableInv'
<1> DEFINE key   == state[r].laneKey
           keeps == result = "bytes" /\ ~Discards(r, result)
           done  == [lanes EXCEPT ![key].reading = FALSE,
                                  ![key].held = IF keeps THEN @ + 1 ELSE @]
           lane  == [lanes[key] EXCEPT !.reading = FALSE,
                                       !.held = IF keeps THEN lanes[key].held + 1
                                                ELSE lanes[key].held]
<1>1. /\ job[r] = "reading" /\ lanes' = Reclaim(done, key)
      /\ readsByDevice' = IF DeviceAdmitted(key.lane)
                          THEN [readsByDevice EXCEPT ![key.place] = Dec(@)]
                          ELSE readsByDevice
  BY DEF LaneReaderFinish
<1>2. /\ readsByDevice \in [Devices -> Nat]
      /\ \A k \in DOMAIN lanes : k \in Keys /\ lanes[k] \in LaneState
  BY DEF IndInv, TypeOK
<1>3. key \in DOMAIN lanes /\ Exact(lanes[key], key, state, job)
  BY <1>1 DEF LaneInv, Exactly, Located, Reading
<1>4. lanes[key].reading
  BY <1>1, <1>3 DEF Exact, ReadingOn
<1>5. done = [lanes EXCEPT ![key] = lane]
  BY <1>2, <1>3
<1>6. /\ lane.depth = lanes[key].depth /\ lane.limit = lanes[key].limit
      /\ ~lane.reading /\ lane.held <= lanes[key].held + 1 /\ lane.held \in Nat
  BY <1>2, <1>3 DEF LaneState
<1> HIDE DEF keeps, lane, done
<1>7. /\ DOMAIN lanes' \subseteq DOMAIN lanes
      /\ \A k \in DOMAIN lanes' : lanes'[k] = IF k = key THEN lane ELSE lanes[k]
  <2>1. /\ DOMAIN done = DOMAIN lanes
        /\ \A k \in DOMAIN lanes : done[k] = IF k = key THEN lane ELSE lanes[k]
    BY <1>3, <1>5
  <2> QED BY <1>1, <2>1, ReclaimKeeps
<1>8. \A d \in Devices : /\ readsByDevice'[d] \in Nat
                         /\ readsByDevice'[d] <= readsByDevice[d]
  BY <1>1, <1>2 DEF Dec
<1>9. ASSUME NEW k \in DOMAIN lanes' PROVE AsRouted(lanes'[k], k)
  BY <1>3, <1>6, <1>7, <1>9 DEF StableInv, AsRouted
<1>10. ASSUME NEW k \in DOMAIN lanes' PROVE Fits(lanes'[k])
  <2>1. CASE k = key
    <3>1. lanes[key].held + 1 <= lanes[key].depth
      BY <1>3, <1>4 DEF StableInv, Fits
    <3>2. lanes[key].held \in Nat /\ lanes[key].depth \in Nat
      BY <1>2, <1>3 DEF LaneState
    <3> QED BY <1>6, <1>7, <1>10, <2>1, <3>1, <3>2 DEF Fits
  <2>2. CASE k # key
    BY <1>7, <1>10, <2>2 DEF StableInv
  <2> QED BY <2>1, <2>2
<1>11. ASSUME NEW k \in DOMAIN lanes', DeviceAdmitted(k.lane)
       PROVE  readsByDevice'[k.place] <= lanes'[k].limit
  <2>1. k \in DOMAIN lanes /\ lanes[k].limit \in Nat /\ k.place \in Devices
    BY <1>2, <1>7, <1>11, KeyType DEF LaneState
  <2>2. readsByDevice[k.place] <= lanes[k].limit /\ lanes'[k].limit = lanes[k].limit
    BY <1>6, <1>7, <1>11, <2>1 DEF StableInv
  <2> QED BY <1>2, <1>8, <2>1, <2>2
<1> QED BY <1>9, <1>10, <1>11 DEF StableInv

\* A lane written for a route agrees with the other routes to it, and if it is new, with
\* the lane of whoever reads on its device.
LEMMA RoutedStable ==
  ASSUME IndInv, LaneInv, StableRoutes, StableInv, NEW route \in Routes,
         route.depth \in Nat, route.limit \in Nat, NEW lane,
         lane.depth = route.depth, lane.limit = route.limit, SameFlags(lane, LaneFor(route)),
         lanes' = WithLane(lanes, route.key, lane), readsByDevice' = readsByDevice
  PROVE  StableInv'
<1> DEFINE key == route.key
<1>1. /\ DOMAIN lanes' = DOMAIN lanes \cup {key} /\ lanes'[key] = lane
      /\ \A k \in DOMAIN lanes : k # key => lanes'[k] = lanes[k]
  BY DEF WithLane
<1>2. key \in Keys /\ key.place \in Devices /\ readsByDevice[key.place] \in Nat
  <2>1. key \in Keys
    BY DEF Keys
  <2> QED BY <2>1, KeyType DEF IndInv, TypeOK
<1>3. AsRouted(lane, key)
  BY DEF StableRoutes, AsRouted
<1>4. key \in DOMAIN lanes => lanes[key].depth = route.depth /\ lanes[key].limit = route.limit
  BY DEF StableInv, AsRouted
<1>5. Fits(lane)
  <2>1. CASE key \in DOMAIN lanes
    <3>1. SameFlags(lane, lanes[key])
      BY <2>1, LaneForFlags DEF SameFlags
    <3> QED BY <1>4, <2>1, <3>1 DEF StableInv, Fits, SameFlags
  <2>2. CASE key \notin DOMAIN lanes
    <3>1. ~lane.reading /\ lane.held = 0
      BY <2>2, LaneForFlags DEF SameFlags
    <3> QED BY <3>1 DEF Fits
  <2> QED BY <2>1, <2>2
<1>6. ASSUME DeviceAdmitted(key.lane) PROVE readsByDevice[key.place] <= lane.limit
  <2>1. CASE readsByDevice[key.place] = 0
    BY <2>1
  <2>2. CASE readsByDevice[key.place] # 0
    <3>1. readsByDevice[key.place] = Cardinality(DeviceReads(key.place))
      BY <1>2 DEF IndInv, CapacityAccounted, ReadsAccounted
    <3>2. DeviceReads(key.place) # {}
      BY <2>2, <3>1, FS_EmptySet
    <3>3. PICK q \in DeviceReads(key.place) : TRUE
      BY <3>2
    <3> DEFINE k == state[q].laneKey
    <3>4. q \in Request /\ job[q] = "reading" /\ DeviceAdmitted(k.lane) /\ k.place = key.place
      BY <3>3 DEF DeviceReads, ThumbnailReads
    <3>5. k \in DOMAIN lanes
      BY <3>4 DEF LaneInv, Exactly, Located, Reading
    <3>6. PICK b \in Routes : b.key = k
      BY <3>5 DEF IndInv, TypeOK, Keys
    <3>7. b.limit = route.limit
      BY <1>6, <3>4, <3>6 DEF StableRoutes
    <3>8. lanes[k].limit = b.limit
      BY <3>5, <3>6 DEF StableInv, AsRouted
    <3>9. readsByDevice[k.place] <= lanes[k].limit
      BY <3>4, <3>5 DEF StableInv
    <3> QED BY <3>4, <3>7, <3>8, <3>9
  <2> QED BY <2>1, <2>2
<1> HIDE DEF key
<1>7. ASSUME NEW k \in DOMAIN lanes' PROVE AsRouted(lanes'[k], k) /\ Fits(lanes'[k])
  <2>1. CASE k = key
    BY <1>1, <1>3, <1>5, <2>1
  <2>2. CASE k # key
    BY <1>1, <1>7, <2>2 DEF StableInv
  <2> QED BY <2>1, <2>2
<1>8. ASSUME NEW k \in DOMAIN lanes', DeviceAdmitted(k.lane)
      PROVE  readsByDevice'[k.place] <= lanes'[k].limit
  BY <1>1, <1>6, <1>8 DEF StableInv
<1> QED BY <1>7, <1>8 DEF StableInv

\* The latest route of a lane decides its depth and limit.
LEMMA LaneForRoute ==
  ASSUME IndInv, NEW route
  PROVE  LaneFor(route).depth = route.depth /\ LaneFor(route).limit = route.limit
<1> DEFINE old == IF route.key \in DOMAIN lanes THEN lanes[route.key] ELSE EmptyLane
<1>1. old \in LaneState
  BY LaneConstants DEF IndInv, TypeOK, EmptyLane, LaneState
<1>2. LaneFor(route) = [old EXCEPT !.depth = route.depth, !.limit = route.limit]
  BY DEF LaneFor
<1> HIDE DEF old
<1> QED BY <1>1, <1>2 DEF LaneState

\* Enqueue writes the lane of its route; full-resolution requests of local files write none.
LEMMA EnqueueStable ==
  ASSUME IndInv, IndInv', LaneInv, StableRoutes, StableInv,
         NEW r \in Request, NEW priority \in Priorities,
         \/ EnqueueLocalMain(r, priority)
         \/ \E answer \in Answers[r] : EnqueueSlowMain(r, priority, answer)
         \/ \E answer \in Answers[r] : EnqueueThumbnail(r, priority, answer)
  PROVE  StableInv'
<1>1. CASE EnqueueLocalMain(r, priority)
  <2>1. lanes' = lanes /\ readsByDevice' = readsByDevice
    BY <1>1 DEF EnqueueLocalMain, Accept
  <2> QED BY <2>1 DEF StableInv
<1>2. ASSUME NEW answer \in Answers[r], EnqueueSlowMain(r, priority, answer) PROVE StableInv'
  <2> DEFINE route == RouteOf(r, answer)
             old   == LaneFor(route)
             queue == Push(old.mainQueue, r, priority, nextSequence')
             lane  == [old EXCEPT !.mainQueue = queue]
  <2>1. lanes' = WithLane(lanes, route.key, lane) /\ readsByDevice' = readsByDevice
    BY <1>2 DEF EnqueueSlowMain, Accept
  <2>2. route \in Routes /\ route.depth \in Nat /\ route.limit \in Nat
    BY RouteType DEF Routes, RoutesOf
  <2>3. old \in LaneState /\ old.depth = route.depth /\ old.limit = route.limit
    BY <2>2, LaneForType, LaneForRoute DEF IndInv
  <2> HIDE DEF queue, old
  <2>4. SameFlags(lane, old) /\ lane.depth = old.depth /\ lane.limit = old.limit
    BY <2>3 DEF SameFlags, LaneState
  <2> HIDE DEF lane, route
  <2> QED BY <2>1, <2>2, <2>3, <2>4, RoutedStable DEF old
<1>3. ASSUME NEW answer \in Answers[r], EnqueueThumbnail(r, priority, answer) PROVE StableInv'
  <2> DEFINE route == RouteOf(r, answer)
             old   == LaneFor(route)
             queue == Push(old.queue, r, priority, nextSequence')
             lane  == [old EXCEPT !.queue = queue]
  <2>1. lanes' = WithLane(lanes, route.key, lane) /\ readsByDevice' = readsByDevice
    BY <1>3 DEF EnqueueThumbnail, Accept
  <2>2. route \in Routes /\ route.depth \in Nat /\ route.limit \in Nat
    BY RouteType DEF Routes, RoutesOf
  <2>3. old \in LaneState /\ old.depth = route.depth /\ old.limit = route.limit
    BY <2>2, LaneForType, LaneForRoute DEF IndInv
  <2> HIDE DEF queue, old
  <2>4. SameFlags(lane, old) /\ lane.depth = old.depth /\ lane.limit = old.limit
    BY <2>3 DEF SameFlags, LaneState
  <2> HIDE DEF lane, route
  <2> QED BY <2>1, <2>2, <2>3, <2>4, RoutedStable DEF old
<1> QED BY <1>1, <1>2, <1>3

\* Every step keeps the capacities.
LEMMA NextStable ==
  ASSUME IndInv, IndInv', StageInv, LaneInv, StableRoutes, StableInv, [Next]_vars
  PROVE  StableInv'
<1>1. ASSUME NEW r \in Request, Client(r) PROVE StableInv'
  <2>1. CASE \/ \E priority \in Priorities : SetPriority(r, priority)
             \/ Cancel(r)
             \/ EnqueueRejected(r)
    <3>1. NoneGrows(lanes, lanes') /\ readsByDevice' = readsByDevice
      BY <2>1, ClientShrinks
    <3>2. readsByDevice \in [Devices -> Nat]
      BY DEF IndInv, TypeOK
    <3>3. \A d \in Devices : readsByDevice'[d] <= readsByDevice[d]
      BY <3>1, <3>2
    <3> QED BY <3>1, <3>3, StableFrame
  <2> QED BY <1>1, <2>1, EnqueueStable DEF Client
<1>2. CASE Reader
  <2>1. CASE MainReaderTake \/ \E r \in Request, result \in ReadResult : MainReaderFinish(r, result)
    BY <2>1, OthersShrink, StableFrame
  <2> QED BY <1>2, <2>1, LaneReaderTakeStable, LaneReaderFinishStable DEF Reader
<1>3. CASE \/ \E kind \in WorkerKind : WorkerTake(kind)
           \/ \E r \in Request : WorkerStep(r)
           \/ Lifecycle
           \/ UNCHANGED vars
  BY <1>3, OthersShrink, StableFrame
<1> QED BY <1>1, <1>2, <1>3 DEF Next

\* Under a stable topology every lane keeps to the depth and the limit of its routes, in
\* every reachable state, restarts included.
THEOREM StableInvariant == ASSUME StableRoutes PROVE Spec => []StableInv
<1>1. Init => StableInv
  BY DEF Init, StableInv
<1>2. IndInv /\ IndInv' /\ StageInv /\ LaneInv /\ StableInv /\ [Next]_vars => StableInv'
  BY NextStable
<1> QED BY <1>1, <1>2, Invariant, StageInvariant, LaneInvariant, PTL DEF Spec

\* The admission promise per device: where the topology is stable, the thumbnail reads of
\* a device never exceed the limit of a lane alive on it, whatever readers of the Local
\* and the Archive lanes do at once.
THEOREM DeviceReadsHold == ASSUME StableRoutes PROVE Spec => []DeviceReadsBounded
<1>1. IndInv /\ LaneInv /\ StableInv => DeviceReadsBounded
  <2> SUFFICES ASSUME IndInv, LaneInv, StableInv, NEW d \in Devices, NEW r \in DeviceReads(d)
               PROVE  \E key \in DOMAIN lanes :
                        key.place = d /\ Cardinality(DeviceReads(d)) <= lanes[key].limit
    BY DEF DeviceReadsBounded
  <2> DEFINE key == state[r].laneKey
  <2>1. r \in Request /\ job[r] = "reading" /\ DeviceAdmitted(key.lane) /\ key.place = d
    BY DEF DeviceReads, ThumbnailReads
  <2>2. key \in DOMAIN lanes
    BY <2>1 DEF LaneInv, Exactly, Located, Reading
  <2>3. readsByDevice[d] = Cardinality(DeviceReads(d))
    BY DEF IndInv, CapacityAccounted, ReadsAccounted
  <2> QED BY <2>1, <2>2, <2>3 DEF StableInv
<1> QED BY <1>1, Invariant, LaneInvariant, StableInvariant, PTL

-----------------------------------------------------------------------------
(***************************************************************************)
(* Capacity under the global cap, while no lifecycle call intervenes.      *)
(***************************************************************************)

\* No thumbnail was ever requested.
Unasked == \A r \in Request \ MainImage : outcome[r] = "new"

\* The cap is the sum of the depths of the devices seen, once there is one, and what is
\* held or read stays below it.
CapInv ==
  /\ stage = "idle" /\ stops = 0 /\ ~shutdown
  /\ \A route \in Routes : volumeProfiles[route.device] \in {0, route.depth}
  /\ prefetchedTotal + prefetchReads <= globalPrefetchCap
  /\ globalPrefetchCap = CapFor(volumeProfiles) \/ Unasked

\* A step that is no thumbnail's request and takes no slot:
AsksNothing == \A r \in Request \ MainImage : outcome[r] = "new" => outcome'[r] = "new"
TakesNoSlot ==
  /\ prefetchedTotal' + prefetchReads' <= prefetchedTotal + prefetchReads
  /\ UNCHANGED <<tuningVars, stage, stops, shutdown>>

\* Arithmetic of the two counts.
LEMMA Sums ==
  /\ \A a, b \in Nat : a + b \in Nat
  /\ \A a, b, c, d \in Nat : c <= a /\ d = b => c + d <= a + b
  /\ \A a, b, c, d \in Nat : c <= a + 1 /\ d = b - 1 => c + d <= a + b
  /\ \A a, b, c, cap \in Nat : a + b < cap /\ c <= b + 1 => a + c <= cap
OBVIOUS

\* Such a step keeps what is held or read below the cap.
LEMMA CapFrame ==
  ASSUME TypeOK, TypeOK', CapInv, AsksNothing, TakesNoSlot
  PROVE  CapInv'
<1>1. /\ prefetchedTotal + prefetchReads \in Nat /\ globalPrefetchCap \in Nat
      /\ prefetchedTotal' + prefetchReads' \in Nat
  <2>1. MaxPrefetchCap \in Nat /\ globalPrefetchCap \in 1..MaxPrefetchCap
    BY SchedulerConstants DEF TypeOK
  <2>2. /\ prefetchedTotal \in Nat /\ prefetchReads \in Nat
        /\ prefetchedTotal' \in Nat /\ prefetchReads' \in Nat
    BY DEF TypeOK
  <2>3. /\ prefetchedTotal + prefetchReads \in Nat
        /\ prefetchedTotal' + prefetchReads' \in Nat
    BY ONLY <2>2, Sums
  <2> QED BY <2>1, <2>3
<1>2. UNCHANGED <<volumeProfiles, globalPrefetchCap, stage, stops, shutdown>>
  BY DEF TakesNoSlot, tuningVars
<1>3. prefetchedTotal' + prefetchReads' <= globalPrefetchCap'
  BY <1>1, <1>2 DEF CapInv, TakesNoSlot
<1>4. globalPrefetchCap' = CapFor(volumeProfiles') \/ Unasked'
  BY <1>2 DEF CapInv, AsksNothing, Unasked
<1> QED BY <1>2, <1>3, <1>4 DEF CapInv

\* A request that was asked for does not turn into one that was not.
LEMMA OneAsked ==
  ASSUME IndInv, NEW r \in Request, OnlyTouches(r), outcome[r] # "new" \/ r \in MainImage
  PROVE  AsksNothing
BY DEF AsksNothing, OnlyTouches

\* The more devices are seen, the higher the cap.
LEMMA CapGrows ==
  ASSUME NEW few, NEW many, SlotsOf(few) \subseteq SlotsOf(many)
  PROVE  CapFor(few) <= CapFor(many)
<1> DEFINE Depths == 1..SolidStateDepth
<1>1. IsFiniteSet(Devices \X Depths)
  <2>1. IsFiniteSet(Depths)
    BY FS_Interval, LaneConstants
  <2> HIDE DEF Depths
  <2> QED BY <2>1, DevicesFinite, FS_Product
<1>2. SlotsOf(many) \subseteq Devices \X Depths
  BY DEF SlotsOf
<1>3. IsFiniteSet(SlotsOf(many))
  BY <1>1, <1>2, FS_Subset
<1>4. /\ Cardinality(SlotsOf(many)) \in Nat /\ Cardinality(SlotsOf(few)) \in Nat
      /\ Cardinality(SlotsOf(few)) <= Cardinality(SlotsOf(many))
  BY <1>3, FS_Subset, FS_CardinalityType
<1> QED BY <1>4, SchedulerConstants DEF CapFor

\* Before the first thumbnail nothing is held or read.
LEMMA UnaskedIsEmpty ==
  ASSUME IndInv, Unasked
  PROVE  prefetchedTotal = 0 /\ prefetchReads = 0
<1>1. SlotHolders = {} /\ ThumbnailReads = {}
  BY DEF IndInv, Holders, HoldsRightly, HoldsNothingYet, Unasked, SlotHolders, ThumbnailReads,
         Reading
<1> QED BY <1>1, FS_EmptySet DEF IndInv, CapacityAccounted, ReadsAccounted, HeldAccounted

\* Clients: a thumbnail's request may add a device and so raise the cap.
LEMMA EnqueueThumbnailCap ==
  ASSUME IndInv, IndInv', StableRoutes, CapInv, NEW r \in Request, NEW priority \in Priorities,
         NEW answer \in Answers[r], EnqueueThumbnail(r, priority, answer)
  PROVE  CapInv'
<1> DEFINE route == RouteOf(r, answer)
<1>1. /\ volumeProfiles' = [volumeProfiles EXCEPT ![route.device] = route.depth]
      /\ globalPrefetchCap' = CapFor(volumeProfiles')
      /\ UNCHANGED <<stage, stops, shutdown, prefetchedTotal, prefetchReads>>
  BY DEF EnqueueThumbnail, Accept, lifecycleVars, prefetchVars
<1>2. /\ route \in Routes /\ route.device \in Devices
      /\ route.depth \in Nat /\ route.depth \in 0..SolidStateDepth
  BY RouteType DEF Routes, RoutesOf
<1>3. volumeProfiles \in [Devices -> 0..SolidStateDepth] /\ SolidStateDepth \in Nat
  BY LaneConstants DEF IndInv, TypeOK
<1> HIDE DEF route
<1>4. \A d \in Devices : volumeProfiles'[d] = IF d = route.device THEN route.depth ELSE volumeProfiles[d]
  BY <1>1, <1>3
<1>5. ASSUME NEW other \in Routes PROVE volumeProfiles'[other.device] \in {0, other.depth}
  <2>1. other.device \in Devices
    BY DEF Devices
  <2>2. other.device = route.device => other.depth = route.depth
    BY <1>2 DEF StableRoutes
  <2> QED BY <1>4, <2>1, <2>2 DEF CapInv
<1>6. prefetchedTotal + prefetchReads <= CapFor(volumeProfiles')
  <2>1. /\ CapFor(volumeProfiles') \in Nat /\ CapFor(volumeProfiles) \in Nat
        /\ CapFor(volumeProfiles') >= 1 /\ prefetchedTotal \in Nat /\ prefetchReads \in Nat
    <3>1. CapFor(volumeProfiles') \in 1..MaxPrefetchCap /\ CapFor(volumeProfiles) \in 1..MaxPrefetchCap
      BY CapRange
    <3>2. MaxPrefetchCap \in Nat
      BY SchedulerConstants
    <3>3. prefetchedTotal \in Nat /\ prefetchReads \in Nat
      BY DEF IndInv, TypeOK
    <3> QED BY <3>1, <3>2, <3>3
  <2>2. CASE Unasked
    BY <2>1, <2>2, UnaskedIsEmpty
  <2>3. CASE ~Unasked
    <3>1. \A d \in Devices : volumeProfiles[d] <= volumeProfiles'[d]
      <4>1. volumeProfiles[route.device] <= route.depth
        BY <1>2, <1>3 DEF CapInv
      <4> QED BY <1>3, <1>4, <4>1
    <3>2. SlotsOf(volumeProfiles) \subseteq SlotsOf(volumeProfiles')
      <4>1. \A d \in Devices : volumeProfiles[d] \in Int /\ volumeProfiles'[d] \in Int
        BY <1>2, <1>3, <1>4
      <4> QED BY <3>1, <4>1 DEF SlotsOf
    <3>3. CapFor(volumeProfiles) <= CapFor(volumeProfiles')
      BY <3>2, CapGrows
    <3>4. prefetchedTotal + prefetchReads <= CapFor(volumeProfiles)
      BY <2>3 DEF CapInv
    <3> QED BY <2>1, <3>3, <3>4
  <2> QED BY <2>2, <2>3
<1> QED BY <1>1, <1>5, <1>6 DEF CapInv

\* The other steps of clients ask for no thumbnail and take no slot: Cancel gives back.
LEMMA ClientCap ==
  ASSUME IndInv, IndInv', StageInv, StableRoutes, CapInv, NEW r \in Request, Client(r)
  PROVE  CapInv'
<1> USE DEF tuningVars, prefetchVars, lifecycleVars
<1>0. /\ outcome \in [Request -> Outcome]
      /\ prefetchedTotal \in Nat /\ prefetchReads \in Nat
  BY DEF IndInv, TypeOK
<1>1. ASSUME NEW priority \in Priorities, NEW answer \in Answers[r],
             EnqueueThumbnail(r, priority, answer)
      PROVE  CapInv'
  BY <1>1, EnqueueThumbnailCap
<1>2. ASSUME AsksNothing, TakesNoSlot PROVE CapInv'
  BY <1>2, CapFrame DEF IndInv
<1>3. CASE \/ \E priority \in Priorities : EnqueueLocalMain(r, priority)
           \/ \E priority \in Priorities, answer \in Answers[r] : EnqueueSlowMain(r, priority, answer)
  <2>1. r \in MainImage /\ outcome' = [outcome EXCEPT ![r] = "pending"]
    BY <1>3 DEF EnqueueLocalMain, EnqueueSlowMain, NeedsLane, Accept
  <2>2. UNCHANGED <<prefetchedTotal, prefetchReads, volumeProfiles, globalPrefetchCap,
                    stage, stops, shutdown>>
    BY <1>3 DEF EnqueueLocalMain, EnqueueSlowMain, Accept
  <2> QED BY <1>0, <1>2, <2>1, <2>2 DEF AsksNothing, TakesNoSlot
<1>4. CASE EnqueueRejected(r)
  BY <1>4 DEF EnqueueRejected, CapInv
<1>5. CASE \E priority \in Priorities : SetPriority(r, priority)
  <2>1. UNCHANGED <<prefetchedTotal, prefetchReads, volumeProfiles, globalPrefetchCap,
                    stage, stops, shutdown, outcome>>
    BY <1>5 DEF SetPriority
  <2> QED BY <1>0, <1>2, <2>1 DEF AsksNothing, TakesNoSlot
<1>6. CASE Cancel(r)
  <2>1. /\ prefetchedTotal' = prefetchedTotal \/ prefetchedTotal' = Dec(prefetchedTotal)
        /\ UNCHANGED <<prefetchReads, volumeProfiles, globalPrefetchCap, stage, stops, shutdown>>
    BY <1>6 DEF Cancel, ReleaseCounts
  <2>2. r \in live /\ outcome' \in {outcome, [outcome EXCEPT ![r] = "withdrawn"]}
    BY <1>0, <1>6 DEF Cancel
  <2>3. outcome[r] = "pending"
    BY <2>2 DEF StageInv, RequestOK, Findable, Undecided
  <2>4. AsksNothing
    BY <1>0, <2>2, <2>3 DEF AsksNothing
  <2>5. prefetchedTotal' <= prefetchedTotal
    BY <1>0, <2>1 DEF Dec
  <2>6. prefetchedTotal' + prefetchReads' <= prefetchedTotal + prefetchReads
    <3>1. prefetchedTotal' \in Nat /\ prefetchReads' \in Nat
      BY DEF IndInv, TypeOK
    <3> QED BY ONLY <1>0, <2>1, <2>5, <3>1, Sums
  <2> QED BY <1>2, <2>1, <2>4, <2>6 DEF TakesNoSlot
<1> QED BY <1>1, <1>3, <1>4, <1>5, <1>6 DEF Client

\* Readers: a read begins only when a slot is free under the cap, and turns into what it
\* brought.
LEMMA ReaderCap ==
  ASSUME IndInv, IndInv', StageInv, CapInv, Reader
  PROVE  CapInv'
<1> USE DEF tuningVars, lifecycleVars
<1>0. /\ prefetchedTotal \in Nat /\ prefetchReads \in Nat /\ globalPrefetchCap \in Nat
      /\ prefetchedTotal' \in Nat /\ prefetchReads' \in Nat
  BY SchedulerConstants DEF IndInv, TypeOK
<1>1. ASSUME AsksNothing, TakesNoSlot PROVE CapInv'
  BY <1>1, CapFrame DEF IndInv
<1>2. ASSUME NEW kind \in LaneKind, LaneReaderTake(kind) PROVE CapInv'
  <2>1. /\ UNCHANGED <<volumeProfiles, globalPrefetchCap, stage, stops, shutdown, prefetchedTotal>>
        /\ prefetchReads' = prefetchReads \/ prefetchReads' = prefetchReads + 1
        /\ FreeSlots > 0
    BY <1>2 DEF LaneReaderTake, DiscardQueued, StartRead, NextThumbnailLane, SelectThumbnailLane
  <2>2. prefetchedTotal' + prefetchReads' <= globalPrefetchCap
    <3>1. prefetchedTotal + prefetchReads < globalPrefetchCap
      BY <1>0, <2>1 DEF FreeSlots
    <3>2. prefetchReads' <= prefetchReads + 1
      BY <1>0, <2>1
    <3>3. prefetchedTotal + prefetchReads' <= globalPrefetchCap
      BY ONLY <1>0, <3>1, <3>2, Sums
    <3> QED BY <2>1, <3>3
  <2>3. AsksNothing
    <3>1. PICK r \in Request : TakenToRead(r, "Io", "reading")
      BY <1>2, LaneReaderTakes
    <3> QED BY <3>1, OneAsked DEF TakenToRead
  <2> QED BY <2>1, <2>2, <2>3 DEF CapInv, Unasked, AsksNothing
<1>3. CASE MainReaderTake
  <2>1. UNCHANGED <<volumeProfiles, globalPrefetchCap, stage, stops, shutdown, prefetchedTotal,
                    prefetchReads>>
    BY <1>3 DEF MainReaderTake, DiscardQueued, StartMainRead
  <2>2. AsksNothing
    <3>1. PICK r \in Request : TakenToRead(r, "MainIo", "mainReading")
      BY <1>3, MainReaderTakes
    <3> QED BY <3>1, OneAsked DEF TakenToRead
  <2> QED BY <1>0, <1>1, <2>1, <2>2 DEF TakesNoSlot
<1>4. ASSUME NEW r \in Request, NEW result \in ReadResult, LaneReaderFinish(r, result)
      PROVE  CapInv'
  <2>1. /\ UNCHANGED <<volumeProfiles, globalPrefetchCap, stage, stops, shutdown>>
        /\ prefetchReads' = prefetchReads - 1
        /\ prefetchedTotal' = prefetchedTotal \/ prefetchedTotal' = prefetchedTotal + 1
    BY <1>4 DEF LaneReaderFinish
  <2>2. prefetchedTotal' + prefetchReads' <= prefetchedTotal + prefetchReads
    <3>1. prefetchedTotal' <= prefetchedTotal + 1
      BY <1>0, <2>1
    <3> QED BY ONLY <1>0, <2>1, <3>1, Sums
  <2>3. AsksNothing
    <3>1. outcome' \in {outcome, [outcome EXCEPT ![r] = "dropped"]} /\ outcome[r] = "pending"
      BY <1>4 DEF LaneReaderFinish, IndInv, Holders, HoldsNothingYet, Reading
    <3>2. outcome \in [Request -> Outcome]
      BY DEF IndInv, TypeOK
    <3> QED BY <3>1, <3>2 DEF AsksNothing
  <2> QED BY <1>1, <2>1, <2>2, <2>3 DEF TakesNoSlot
<1>5. ASSUME NEW r \in Request, NEW result \in ReadResult, MainReaderFinish(r, result)
      PROVE  CapInv'
  <2>1. UNCHANGED <<volumeProfiles, globalPrefetchCap, stage, stops, shutdown, prefetchedTotal,
                    prefetchReads>>
    BY <1>5 DEF MainReaderFinish, prefetchVars
  <2>2. AsksNothing
    <3>1. outcome' \in {outcome, [outcome EXCEPT ![r] = "dropped"]} /\ outcome[r] = "pending"
      BY <1>5 DEF MainReaderFinish, IndInv, Holders, HoldsNothingYet, Reading
    <3>2. outcome \in [Request -> Outcome]
      BY DEF IndInv, TypeOK
    <3> QED BY <3>1, <3>2 DEF AsksNothing
  <2> QED BY <1>0, <1>1, <2>1, <2>2 DEF TakesNoSlot
<1> QED BY <1>2, <1>3, <1>4, <1>5 DEF Reader

\* Workers only give back.
LEMMA WorkerCap ==
  ASSUME IndInv, IndInv', StageInv, CapInv,
         \/ \E kind \in WorkerKind : WorkerTake(kind)
         \/ \E r \in Request : WorkerStep(r)
  PROVE  CapInv'
<1> USE DEF tuningVars, prefetchVars, lifecycleVars
<1>0. /\ prefetchedTotal \in Nat /\ prefetchReads \in Nat
      /\ prefetchedTotal' \in Nat /\ prefetchReads' \in Nat
  BY DEF IndInv, TypeOK
<1>1. ASSUME UNCHANGED <<volumeProfiles, globalPrefetchCap, stage, stops, shutdown, prefetchReads>>,
             prefetchedTotal' \in {prefetchedTotal, Dec(prefetchedTotal)}, AsksNothing
      PROVE  CapInv'
  <2>1. prefetchedTotal' <= prefetchedTotal
    BY <1>0, <1>1 DEF Dec
  <2>2. prefetchedTotal' + prefetchReads' <= prefetchedTotal + prefetchReads
    BY ONLY <1>0, <1>1, <2>1, Sums
  <2> QED BY <1>1, <2>2, CapFrame DEF TakesNoSlot, IndInv
<1>2. ASSUME NEW kind \in WorkerKind, WorkerTake(kind) PROVE CapInv'
  <2>1. PICK r \in Request : Take(r, kind) /\ outcome[r] = "pending" /\ OnlyTouches(r)
    BY <1>2, WorkerTakes
  <2>2. UNCHANGED <<volumeProfiles, globalPrefetchCap, stage, stops, shutdown, prefetchReads>>
    BY <1>2 DEF WorkerTake
  <2>3. prefetchedTotal' \in {prefetchedTotal, Dec(prefetchedTotal)}
    BY <2>1 DEF Take, ReleaseCounts
  <2> QED BY <1>1, <2>1, <2>2, <2>3, OneAsked
<1>3. ASSUME NEW r \in Request, WorkerStep(r) PROVE CapInv'
  <2>1. OnlyTouches(r) /\ outcome[r] # "new"
    BY <1>3, WorkerTouches DEF StageInv, RequestOK, Handled
  <2>2. /\ UNCHANGED <<volumeProfiles, globalPrefetchCap, stage, stops, shutdown, prefetchReads>>
        /\ prefetchedTotal' \in {prefetchedTotal, Dec(prefetchedTotal)}
    BY <1>3 DEF WorkerStep, WorkerBegin, WorkerFinish, WorkerDeliver, WorkerRelease, ReleaseCounts
  <2> QED BY <1>1, <2>1, <2>2, OneAsked
<1> QED BY <1>2, <1>3

\* Under a stable topology and with no lifecycle call, what is held or read of thumbnails
\* stays below the sum of the depths of the devices seen.
THEOREM CapInvariant == ASSUME StableRoutes, MaxStops = 0 PROVE Spec => []CapInv
<1>1. Init => CapInv
  <2> SUFFICES ASSUME Init PROVE CapInv
    OBVIOUS
  <2>1. \A route \in Routes : route.device \in Devices
    BY DEF Devices
  <2> QED BY <2>1, SchedulerConstants DEF Init, CapInv, Unasked
<1>2. IndInv /\ IndInv' /\ StageInv /\ CapInv /\ [Next]_vars => CapInv'
  <2> SUFFICES ASSUME IndInv, IndInv', StageInv, CapInv, [Next]_vars PROVE CapInv'
    OBVIOUS
  <2>1. ~Lifecycle
    BY DEF Lifecycle, BeginStop, SkipStop, BeginCall, ScanLeases, BoundExpires, JoinAll, Reopen,
           Retune, CapInv
  <2>2. CASE UNCHANGED vars
    BY <2>2 DEF vars, requestVars, tuningVars, prefetchVars, lifecycleVars, CapInv, Unasked
  <2> QED BY <2>1, <2>2, ClientCap, ReaderCap, WorkerCap DEF Next
<1> QED BY <1>1, <1>2, Invariant, StageInvariant, PTL DEF Spec

\* The prefetch promise of README and DecodeScheduler.h: while the topology is stable and
\* the scheduler is not restarted, the thumbnail files read, waiting or being decoded stay
\* within the global cap, and those of a lane within the depth of its device, however
\* requests are canceled or re-prioritised.
THEOREM PrefetchHolds == ASSUME StableRoutes, MaxStops = 0 PROVE Spec => []PrefetchWithinCap
<1>1. IndInv /\ CapInv => Cardinality(ThumbnailBytes) <= globalPrefetchCap
  <2> SUFFICES ASSUME IndInv, CapInv PROVE Cardinality(ThumbnailBytes) <= globalPrefetchCap
    OBVIOUS
  <2>1. ThumbnailReads \subseteq Request /\ SlotHolders \subseteq Request
    BY DEF ThumbnailReads, SlotHolders
  <2>2. Cardinality(ThumbnailBytes) <= Cardinality(ThumbnailReads) + Cardinality(SlotHolders)
    BY <2>1, BytesHaveHolders, UnionBound
  <2>3. Cardinality(SlotHolders) + Cardinality(ThumbnailReads) <= globalPrefetchCap
    BY DEF IndInv, CapacityAccounted, ReadsAccounted, HeldAccounted, CapInv
  <2>4. /\ Cardinality(ThumbnailReads) \in Nat /\ Cardinality(SlotHolders) \in Nat
        /\ Cardinality(ThumbnailBytes) \in Nat
    BY <2>1, RequestsFinite, SchedulerConstants DEF ThumbnailBytes
  <2>5. globalPrefetchCap \in Nat
    BY SchedulerConstants DEF IndInv, TypeOK
  <2> QED BY <2>2, <2>3, <2>4, <2>5
<1>2. IndInv /\ LaneInv /\ StableInv =>
        \A key \in DOMAIN lanes :
          Cardinality({r \in ThumbnailBytes : state[r].laneKey = key}) <= lanes[key].depth
  <2> SUFFICES ASSUME IndInv, LaneInv, StableInv, NEW key \in DOMAIN lanes
               PROVE  Cardinality({r \in ThumbnailBytes : state[r].laneKey = key})
                        <= lanes[key].depth
    OBVIOUS
  <2> DEFINE bytes == {r \in ThumbnailBytes : state[r].laneKey = key}
             read  == ReadingOn(state, job, "reading", key)
             held  == HoldersOn(state, key)
  <2>1. read \subseteq Request /\ held \subseteq Request /\ bytes \subseteq Request
    BY SchedulerConstants DEF ReadingOn, HoldersOn, ThumbnailBytes
  <2>2. bytes \subseteq read \cup held
    BY BytesHaveHolders DEF ReadingOn, HoldersOn, ThumbnailReads, SlotHolders, ThumbnailBytes
  <2>3. Exact(lanes[key], key, state, job) /\ Fits(lanes[key]) /\ lanes[key] \in LaneState
    BY DEF LaneInv, Exactly, StableInv, IndInv, TypeOK
  <2>4. Cardinality(read) = IF lanes[key].reading THEN 1 ELSE 0
    BY <2>1, <2>3, CardinalityOfFew DEF Exact
  <2>5. Cardinality(held) = lanes[key].held
    BY <2>3 DEF Exact
  <2>6. /\ Cardinality(read) \in Nat /\ Cardinality(held) \in Nat /\ Cardinality(bytes) \in Nat
        /\ lanes[key].depth \in Nat
    BY <2>1, <2>3, RequestsFinite DEF LaneState
  <2> HIDE DEF bytes, read, held
  <2>7. Cardinality(bytes) <= Cardinality(read) + Cardinality(held)
    BY <2>1, <2>2, UnionBound
  <2>8. Cardinality(bytes) <= lanes[key].depth
    BY <2>3, <2>4, <2>5, <2>6, <2>7 DEF Fits
  <2> QED BY <2>8 DEF bytes
<1>3. IndInv /\ LaneInv /\ StableInv /\ CapInv => PrefetchWithinCap
  BY <1>1, <1>2 DEF PrefetchWithinCap
<1> QED BY <1>3, Invariant, LaneInvariant, StableInvariant, CapInvariant, PTL

================================================================================
