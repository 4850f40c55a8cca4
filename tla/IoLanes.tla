-------------------------------- MODULE IoLanes --------------------------------
(***************************************************************************)
(* Routing and admission of the I/O lanes of DecodeScheduler: which lane a *)
(* request's bytes are read in, and which lane a free reader takes next.   *)
(* Pure operators over the lane table; module DecodeScheduler holds the    *)
(* state.                                                                  *)
(***************************************************************************)
EXTENDS Naturals, FiniteSets, PriorityTaskQueue

CONSTANTS
  None,                     \* "no such part": an empty string of the code
  ReadersPerLane,           \* kReadersPerLane
  MainImageInputCap,        \* kMainImageInputCap
  MaxReadsPerSeekDevice,    \* kMaxReadsPerSeekDevice
  MaxReadsPerSolidStateDevice,  \* kMaxReadsPerSolidStateDevice
  SeekDepth,                \* route.depth of a device with a seek penalty
  SolidStateDepth           \* route.depth of a device without one

ASSUME LaneConstants ==
  /\ ReadersPerLane \in Nat \ {0}
  /\ MainImageInputCap \in Nat \ {0}
  /\ MaxReadsPerSeekDevice \in Nat \ {0}
  /\ MaxReadsPerSolidStateDevice \in Nat \ {0}
  /\ SeekDepth \in Nat \ {0}
  /\ SolidStateDepth \in Nat
  /\ SeekDepth <= SolidStateDepth

LaneKind == {"Local", "Archive", "Remote"}

-----------------------------------------------------------------------------
(***************************************************************************)
(* A source is what the host and the path's text say of a request's path:  *)
(*   kind    the PathSourceKind ClassifyPath returns,                      *)
(*   host    the file that holds the bytes (the archive of an entry),      *)
(*   volume  the drive letter of host, or None,                            *)
(*   server  the UNC server of host, or None.                              *)
(* A topology is the answer of the volume device query.                    *)
(***************************************************************************)
SourceKind == {"Unknown", "Local", "Archive", "Remote"}

IoLaneFor(kind) == IF kind \in {"Archive", "Remote"} THEN kind ELSE "Local"

Device(namespace, name) == <<namespace, name>>

Topology(device, seek) == [device |-> device, seek |-> seek]

\* A faulty form of Key: archive thumbnails queue in the lane of their device.
KeyByDevice(lane, place, archive) ==
  [lane |-> IF lane = "Archive" THEN "Local" ELSE lane, place |-> place, archive |-> archive]

Key(lane, place, archive) == [lane |-> lane, place |-> place, archive |-> archive]

\* Remote: keyed by the server, or the drive letter; never a device query.
RemoteRoute(source) ==
  LET root == IF source.server # None THEN source.server ELSE source.volume
  IN  [key    |-> Key("Remote", Device("root", root), None),
       device |-> Device("remote", root),
       depth  |-> SeekDepth,
       limit  |-> ReadersPerLane]

\* Without a drive letter: a UNC host is its own device, anything else shares
\* one unknown device; both are taken to have a seek penalty.
PlaceOf(source, answer) ==
  IF source.volume # None THEN answer
  ELSE IF source.server # None THEN Topology(Device("unc", source.server), TRUE)
  ELSE Topology(Device("unknown", None), TRUE)

\* Local and Archive: admitted against the device of the host file.  An
\* archive is a lane of its own when the device has no seek penalty, and
\* always for a main image.
DeviceRoute(source, main, answer) ==
  LET lane  == IoLaneFor(source.kind)
      place == PlaceOf(source, answer)
      own   == lane = "Archive" /\ (main \/ ~place.seek)
  IN  [key    |-> Key(lane, place.device, IF own THEN source.host ELSE None),
       device |-> place.device,
       depth  |-> IF place.seek THEN SeekDepth ELSE SolidStateDepth,
       limit  |-> IF place.seek THEN MaxReadsPerSeekDevice
                                ELSE MaxReadsPerSolidStateDevice]

RouteFor(source, main, answer) ==
  IF IoLaneFor(source.kind) = "Remote" THEN RemoteRoute(source)
  ELSE DeviceRoute(source, main, answer)

-----------------------------------------------------------------------------
(***************************************************************************)
(* The lane table maps the keys of the lanes alive to their state.  A      *)
(* lane's kind and device are part of its key.                             *)
(***************************************************************************)
EmptyLane ==
  [depth |-> SeekDepth, limit |-> MaxReadsPerSeekDevice,
   queue |-> {}, mainQueue |-> {},
   reading |-> FALSE, mainReading |-> FALSE, held |-> 0, lastServed |-> 0]

\* A faulty form of Idle: a lane whose bytes wait for a decode counts as idle.
IdleDespiteHeld(lane) ==
  lane.queue = {} /\ lane.mainQueue = {} /\ ~lane.reading /\ ~lane.mainReading

Idle(lane) ==
  /\ lane.queue = {} /\ lane.mainQueue = {}
  /\ ~lane.reading /\ ~lane.mainReading
  /\ lane.held = 0

\* The table after ReclaimLane_NoLock(key).
Reclaim(lanes, key) ==
  [k \in DOMAIN lanes \ {j \in {key} \cap DOMAIN lanes : Idle(lanes[j])} |-> lanes[k]]

\* A faulty form of Admissible: reads are not admitted against the device.
AdmissibleAnyDevice(lanes, readsByDevice, key) ==
  lanes[key].queue # {} /\ ~lanes[key].reading /\ lanes[key].held < lanes[key].depth

\* ThumbnailAdmissible_NoLock
Admissible(lanes, readsByDevice, key) ==
  LET lane == lanes[key]
  IN  /\ lane.queue # {}
      /\ ~lane.reading
      /\ lane.held < lane.depth
      /\ key.lane # "Remote" => readsByDevice[key.place] < lane.limit

AdmissibleLanes(lanes, readsByDevice, kind) ==
  {key \in DOMAIN lanes : key.lane = kind /\ Admissible(lanes, readsByDevice, key)}

\* The lambda `better`: priority, then the lane served least recently, then
\* the oldest request.
Better(a, b) ==
  LET pa == TopPriority(a.queue)
      pb == TopPriority(b.queue)
  IN  \/ pa > pb
      \/ pa = pb /\ a.lastServed < b.lastServed
      \/ pa = pb /\ a.lastServed = b.lastServed
           /\ TopSequence(a.queue) < TopSequence(b.queue)

\* Which waiting work a last slot is left to, and a faulty form that also leaves
\* it to work of the same priority.
OutranksOrTies(priority, other) == priority >= other
Outranks(priority, other) == priority > other

\* The reads idle readers of another kind could start for work of a higher
\* priority: min(idle readers, lanes waiting).
AheadIn(lanes, readsByDevice, readsInProgress, kind, priority) ==
  LET higher == {key \in AdmissibleLanes(lanes, readsByDevice, kind) :
                   Outranks(TopPriority(lanes[key].queue), priority)}
      idle   == IF readsInProgress[kind] < ReadersPerLane
                THEN ReadersPerLane - readsInProgress[kind] ELSE 0
  IN  IF Cardinality(higher) < idle THEN Cardinality(higher) ELSE idle

\* A faulty form of Ahead: every reader takes whatever slot is free.
NothingAhead(lanes, readsByDevice, readsInProgress, kind, priority) == 0

Ahead(lanes, readsByDevice, readsInProgress, kind, priority) ==
  LET in(other) == IF other = kind THEN 0
                   ELSE AheadIn(lanes, readsByDevice, readsInProgress, other, priority)
  IN  in("Local") + in("Archive") + in("Remote")

\* SelectThumbnailLane_NoLock: the lanes a free reader of `kind` may take, at
\* most one; `free` is the number of prefetch slots left under the global cap.
SelectThumbnailLane(lanes, readsByDevice, readsInProgress, free, kind) ==
  LET open == AdmissibleLanes(lanes, readsByDevice, kind)
  IN  {key \in open :
        /\ free > 0
        /\ \A other \in open \ {key} : Better(lanes[key], lanes[other])
        /\ Ahead(lanes, readsByDevice, readsInProgress, kind,
                 TopPriority(lanes[key].queue)) < free}

\* SelectMainLane_NoLock, below the cap on main-image inputs (`used` of them).
SelectMainLane(lanes, used) ==
  LET open == {key \in DOMAIN lanes : lanes[key].mainQueue # {} /\ ~lanes[key].mainReading}
  IN  {key \in open :
        /\ used < MainImageInputCap
        /\ \A other \in open \ {key} :
             Before(Top(lanes[key].mainQueue), Top(lanes[other].mainQueue))}
================================================================================
