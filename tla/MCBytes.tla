-------------------------------- MODULE MCBytes --------------------------------
(***************************************************************************)
(* Small instances of PrefetchedBytes and VolumeTopology for TLC: the      *)
(* bytes of thumbnails, and the cached topologies by which requests are    *)
(* given their lanes.  The two share no variable, so a behaviour moves the *)
(* one or the other and their states add up instead of multiplying.        *)
(***************************************************************************)
EXTENDS PrefetchedBytes, VolumeTopology, TLC

VARIABLE moving  \* "bytes" or "topologies"

MCInit == Init /\ TopologyInit /\ moving \in {"bytes", "topologies"}

MCNext ==
  \/ moving = "bytes" /\ Next /\ UNCHANGED <<topologyVars, moving>>
  \/ moving = "topologies" /\ TopologyNext /\ UNCHANGED <<vars, moving>>

MCSpec == MCInit /\ [][MCNext]_<<vars, topologyVars, moving>>

\* a1 and a2 load one path; the topology answer changed between them, so that
\* their lanes differ.
MCPathOf == [r \in Request |-> CASE r \in {"a1", "a2"} -> "c:a"
                                 [] r = "b1" -> "c:b"]
MCLane   == [r \in Request |-> CASE r \in {"a1", "b1"} -> "disk1"
                                 [] r = "a2" -> "disk2"]
MCPath     == {"c:a", "c:b"}
MCVolumeOf == [p \in MCPath |-> "c"]

\* Entries of three archives on one hard disk, which share its archive lane; the cap is
\* its depth.
ArchivePathOf   == [r \in Request |-> r]
ArchiveLane     == [r \in Request |-> "disk1"]
ArchivePath     == Request
ArchiveVolumeOf == [p \in ArchivePath |-> "c"]

\* Readers run the same code.
ReaderSymmetry == Permutations(Readers)
================================================================================
