------------------------------ MODULE MCScheduler ------------------------------
(***************************************************************************)
(* Small instances of DecodeScheduler for TLC: requests named for what     *)
(* they load, and where their paths lead.                                  *)
(***************************************************************************)
EXTENDS SchedulerProperties

\* The machine: volumes c and d are on one hard disk, s is on a solid-state
\* drive, nas is a file server.
HardDisk   == Topology(Device("disk", "hdd"), TRUE)
SolidState == Topology(Device("disk", "ssd"), FALSE)

OnVolume(kind, host, volume) ==
  [kind |-> kind, host |-> host, volume |-> volume, server |-> None]
OnServer(kind, host, server) ==
  [kind |-> kind, host |-> host, volume |-> None, server |-> server]

\* Which file each request loads.  Names ending in M are full resolution.
Files == [
  hdd1  |-> OnVolume("Local", "photo1", "c"),
  hdd2  |-> OnVolume("Unknown", "photo2", "d"),
  hdd3  |-> OnVolume("Local", "photo3", "c"),
  hddM  |-> OnVolume("Local", "photo4", "c"),
  ssd1  |-> OnVolume("Local", "shot1", "s"),
  ssd2  |-> OnVolume("Local", "shot2", "s"),
  ssd3  |-> OnVolume("Local", "shot3", "s"),
  ssd4  |-> OnVolume("Local", "shot4", "s"),
  zip1  |-> OnVolume("Archive", "a.zip", "c"),
  zip2  |-> OnVolume("Archive", "b.zip", "c"),
  zipM  |-> OnVolume("Archive", "a.zip", "c"),
  szip1 |-> OnVolume("Archive", "c.zip", "s"),
  szip2 |-> OnVolume("Archive", "d.zip", "s"),
  szipM |-> OnVolume("Archive", "c.zip", "s"),
  nas1  |-> OnServer("Remote", "scan1", "nas"),
  nas2  |-> OnServer("Remote", "scan2", "nas"),
  nasM  |-> OnServer("Remote", "scan3", "nas"),
  uncz1 |-> OnServer("Archive", "e.zip", "nas"),
  odd1  |-> OnVolume("Local", "odd", None)]

MCSource == [r \in Request |-> Files[r]]

MCMainImage == Request \cap {"hddM", "zipM", "szipM", "nasM"}

AnswerFor(r) == IF Files[r].volume = "s" THEN SolidState ELSE HardDisk

\* Every volume always gives one answer.
StableAnswers == [r \in Request |-> {AnswerFor(r)}]

\* So this machine's topology is stable: the hypothesis of the theorems about capacity.
ASSUME StableTopology == StableRoutes
================================================================================
