----------------------------- MODULE VolumeTopology -----------------------------
(***************************************************************************)
(* The cache of volume topologies that routing reads: looked up under      *)
(* m_topologyMutex, asked of the device without a lock, stored under the   *)
(* mutex again.  The query opens the device and may block for any time,    *)
(* and a drive letter may be remapped meanwhile.                           *)
(***************************************************************************)
EXTENDS Integers, FiniteSets

CONSTANTS
  Drive,     \* the volumes ("C:")
  Disk,      \* the disks a volume may be on
  NoSeek,    \* those that incur no seek penalty
  Caller,    \* the threads in Enqueue
  Nobody,
  OwnDevice, \* the device of a volume the query cannot place
  Interval,  \* kTopologyRefreshInterval
  MaxTime    \* bound: the clock stops here

ASSUME TopologyConstants ==
  /\ NoSeek \subseteq Disk
  /\ OwnDevice \notin Disk
  /\ Interval \in Nat \ {0} /\ MaxTime \in Nat

VARIABLES
  clock,       \* steady_clock
  disk,        \* [Drive -> the disk it is on]: the environment
  placed,      \* history: <<drive, disk, time>> that held, the last Interval of it
  topologies,  \* m_topologyByVolume: [a subset of Drive -> [topology, queried]]
  asking,      \* [Caller -> the lookup whose query it runs, or Nobody]
  answered     \* [Caller -> the query's answer, not stored yet, or Nobody]

environmentVars == <<clock, disk, placed>>
lookupVars      == <<asking, answered>>
topologyVars    == <<environmentVars, topologies, lookupVars>>

TopologyInit ==
  /\ clock = 0
  /\ disk \in [Drive -> Disk]
  /\ placed = {<<v, disk[v], 0>> : v \in Drive}
  /\ topologies = [v \in {} |-> Nobody]
  /\ asking = [c \in Caller |-> Nobody]
  /\ answered = [c \in Caller |-> Nobody]

-----------------------------------------------------------------------------
(* The environment. *)
Tick ==
  /\ clock < MaxTime
  /\ clock' = clock + 1
  /\ placed' = {p \in placed : p[3] > clock + 1 - Interval}
                 \cup {<<v, disk[v], clock + 1>> : v \in Drive}
  /\ UNCHANGED <<disk, topologies, lookupVars>>

Remap(v, d) ==
  /\ disk' = [disk EXCEPT ![v] = d]
  /\ placed' = placed \cup {<<v, d, clock>>}
  /\ UNCHANGED <<clock, topologies, lookupVars>>

-----------------------------------------------------------------------------
(* TopologyForVolume. *)
Fresh(v) == v \in DOMAIN topologies /\ clock - topologies[v].queried < Interval

\* A fresh topology is returned at once; otherwise a query starts, with the mutex
\* released.
AskTopology(c, v) ==
  /\ asking[c] = Nobody /\ ~Fresh(v)
  /\ asking' = [asking EXCEPT ![c] = [drive |-> v, now |-> clock]]
  /\ UNCHANGED <<environmentVars, topologies, answered>>

\* A faulty form of Answers: a penalty that cannot be read is taken for none.
HopefulAnswers(d) ==
  {[device |-> device, seekPenalty |-> penalty] :
     device \in {d, OwnDevice}, penalty \in {d \notin NoSeek, FALSE}}

\* QueryVolumeTopology: either part may fail, a failed part is conservative.  A
\* query that throws leaves both.
Answers(d) ==
  {[device |-> device, seekPenalty |-> penalty] :
     device \in {d, OwnDevice}, penalty \in {d \notin NoSeek, TRUE}}

QueryReturns(c) ==
  /\ asking[c] # Nobody /\ answered[c] = Nobody
  /\ \E topology \in Answers(disk[asking[c].drive]) :
       answered' = [answered EXCEPT ![c] = topology]
  /\ UNCHANGED <<environmentVars, topologies, asking>>

\* A faulty form of QueriedAt: an answer is stamped when it is stored.
StoredAt(lookup) == clock

\* An answer is stamped with the time at which its lookup started.
QueriedAt(lookup) == lookup.now

StoreTopology(c) ==
  LET lookup == asking[c]
      entry  == [topology |-> answered[c], queried |-> QueriedAt(lookup)]
  IN  /\ answered[c] # Nobody
      /\ topologies' = [v \in DOMAIN topologies \cup {lookup.drive} |->
                          IF v = lookup.drive THEN entry ELSE topologies[v]]
      /\ asking' = [asking EXCEPT ![c] = Nobody]
      /\ answered' = [answered EXCEPT ![c] = Nobody]
      /\ UNCHANGED environmentVars

\* SetVolumeTopologyQuery and the end of StopAndJoin.  A query in progress stores
\* its answer in the cleared cache.
ForgetTopologies ==
  /\ topologies # [v \in {} |-> Nobody]
  /\ topologies' = [v \in {} |-> Nobody]
  /\ UNCHANGED <<environmentVars, lookupVars>>

TopologyNext ==
  \/ Tick
  \/ \E v \in Drive, d \in Disk : Remap(v, d)
  \/ \E c \in Caller, v \in Drive : AskTopology(c, v)
  \/ \E c \in Caller : QueryReturns(c) \/ StoreTopology(c)
  \/ ForgetTopologies

TopologySpec == TopologyInit /\ [][TopologyNext]_topologyVars

-----------------------------------------------------------------------------
(***************************************************************************)
(* Properties.                                                             *)
(***************************************************************************)

\* The disks the drive was on less than one refresh interval ago.
RecentDisks(v) == {d \in Disk : \E p \in placed : p[1] = v /\ p[2] = d}

\* A lookup is never served what a query older than the refresh interval said,
\* however long queries block, whoever else stores an answer meanwhile, and
\* whenever the cache is cleared: the device is one the drive was on, and the seek
\* penalty is denied only if it was on a disk without one.
TopologyIsRecent ==
  \A v \in Drive : Fresh(v) =>
    LET topology == topologies[v].topology
    IN  /\ topology.device \in RecentDisks(v) \cup {OwnDevice}
        /\ ~topology.seekPenalty => RecentDisks(v) \cap NoSeek # {}
================================================================================
