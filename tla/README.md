# ImageCore: a TLA+ specification of the decode pipeline

ImageCore loads images for an interactive viewer: thumbnails and previews in
bulk, full-resolution images on demand, from local disks, archives and network
paths. Its core is `DecodeScheduler`: some twelve threads, one mutex, and a long
list of promises (memory bounds, admission per device, priorities across
readers, cancellation at any moment, shutdown and restart with reads in flight).
Behind it a dispatcher tries registered decoders on each image; in front of it
`ImageLoader` owns it for the host. This directory specifies these parts in TLA+:
the scheduler, its condition variable and how it stops reads in progress, the
byte cache and the volume-topology cache beside it, the loader, the decoder
registry with the routing of a decode, and the geometry of thumbnails. TLC
model-checks all of them; TLAPS proves the main safety properties of the
scheduler and its condition variable, of the byte cache, of the stopping of reads, of
the topology cache, of the loader and of the decoder registry with its routing, and the
geometry for pictures of any size.

Contents: 1 the system; 2 the modules; 3 how the model corresponds to the code;
4 the runs; 5 fairness; 6 what is proved; 7 where code and comments disagree;
8 what is only checked, and what is not modelled; 9 plan; 10 how to run it.

## 1. The system

### Components

| Component | State | Operations | What makes it correct |
|---|---|---|---|
| `PriorityTaskQueue` (DecodeScheduler.cpp 250-309) | tasks keyed by (255 - priority, sequence) | Push, Pop, Remove, Reprioritize, TopPriority, TopSequence | a queued task is always found under its request's current key |
| I/O lanes: routing and admission (384-571) | lane table: queues, flags, held count, depth, limit, last service | RouteFor, ThumbnailAdmissible, SelectThumbnailLane, SelectMainLane, ReclaimLane | bounds per lane and device, no free slot that nobody may take, priority for the last slot, lanes alive exactly while used |
| Request scheduling, everything under `m_queueMutex` (949-1922) | request states, live table, lanes, decode queues, capacity counts, shutdown flag | Enqueue, SetPriority, Cancel; lane readers, main readers, decode workers | nothing lost or done twice; counts exact; memory bounded; canceled work holds nothing; slow sources never reach a worker |
| Lifecycle (852-947, 1163-1371) | `m_shutdown`, `m_joinPending`, threads, stop queue | Shutdown, Shutdown(bound), SetThreadCount | a completed stop leaves nothing behind; a restart starts from nothing |
| Wakeups (`m_queueCondition`) | who waits | wait, notify_all | no thread sleeps beside work it could do |
| Read cancellation (591-713, 1210-1238) | read leases, `m_stopQueue`, dispatch thread | LeasedRead, StopRequest, CancelActiveReadsIo, StopDispatchThread | a canceled read is stopped; a late OS cancel never hits the next read |
| `FileByteCache` | entries, per-volume counts, order | Get, Put, EraseIfUnshared, SetMaxEntries | count bound, counts follow entries, bytes freed after the last user |
| Volume topology cache (348-382) | answer and time per volume | TopologyForVolume | a lookup is never served an answer older than the refresh interval |
| Thread priorities (715-732, 1400-1430) | priority and background mode per thread | RaiseThreadPriorities, background mode around a read or decode | a stop is not held back by a thread in background mode |
| `ImageLoader` | the scheduler it owns | RequestDecoded, Shutdown, Shutdown(bound), ShutdownIfCreated | true means stopped; no request reaches a destroyed scheduler |
| `DecoderRegistry`, decode routing (ImageDecodeDispatcher.cpp) | factories by id, ids by extension; candidates and last error of a decode | RegisterFactory, UnregisterFactory, GetCandidateFactories, Decode | the tables agree; the content decides, not the name; the next candidate is tried on failure |
| Format detection; mip selection, orientation, scaling | none (pure) | DetectByMagic, DetectByExtension, mip choice, Orient | agree with their reference definitions |
| Log, value types | level and sink | | outside the specification |

### How they interact

`ImageLoader::RequestDecoded` calls `Enqueue` on a host thread. A *local
full-resolution* request goes straight to the high-priority decode queue: its
decoder reads the file. Every other request is routed to an *I/O lane* (kind,
device, sometimes the archive) and read there by a reader thread: thumbnails by
one of `kReadersPerLane` lane readers of the kind, archive and remote
full-resolution images by one of `kMainImageReaders` main readers. A finished
read pushes the request, with its bytes, to a decode queue, from which a decode
worker takes it, decodes, and calls the client back. Bytes in memory are counted:
a thumbnail's bytes hold a *prefetch slot* (global cap, lane depth), a main
image's hold a *main-image input*, from the end of the read until the last user
is done. `Cancel` and `SetPriority` find a request wherever it is through the
live table (only requests with a nonzero handle are in it). `Shutdown` and
`SetThreadCount`, serialised by `m_lifecycleMutex`, raise `m_shutdown`, cancel
live requests and registered reads, join the threads and reset; `SetThreadCount`
then reopens with a new worker count.

### What is hard

* Every stage hands a request over with the mutex released in between: a cancel,
  a priority change or a stop may fall into each gap.
* Capacity is given back by four owners (the reader whose read is discarded,
  `Cancel`, a worker that meets a canceled task, a worker that is done), and
  the decrements saturate at zero: a slot given back twice goes unnoticed.
* Admission looks across readers: a reader leaves the last slots to
  higher-priority work of other lane kinds. Two readers that both deferred would
  leave the slot to nobody.
* Queue entries are found by recomputing their key.
* Reads of archives and network paths may never end; local work must go on.
* A bounded shutdown may return with threads running, and be followed by
  anything.
* Idle threads wait on one condition variable, the readers without a predicate:
  what no notification announces is not noticed.
* A stop has to reach a read in progress, which may be registering, blocked in the
  operating system or just ending on another thread; its dispatch thread retires,
  and a restart clears the queue it serves.
* A decode reads its source twice, for the header and for the pixels, and the two
  readings, the file's name and the registered decoders need not agree.

PROJECT.json lists each hazard with its line and the properties that cover it.

## 2. The modules

| Module | What it is |
|---|---|
| `PriorityTaskQueue` | the queue, as operators on sets of keyed entries |
| `IoLanes` | routing, admission, selection, reclaim: pure operators over the lane table |
| `DecodeScheduler` | the state machine: one action per critical section |
| `SchedulerProperties` | type invariant, safety, action and liveness properties; the refinement mappings |
| `RequestLifecycle` | an abstract specification: what a client is promised of a request |
| `SchedulerRun` | an abstract specification: how the scheduler is started and stopped, and when its threads may run |
| `MCScheduler` | the instances: a small machine with a hard disk, an SSD, a file server |
| `SchedulerInvariant` | the inductive invariant |
| `SchedulerProofs` | the theorems about types, counts, memory and keys |
| `RequestStageProofs` | the invariant of a request's way through queues and threads, the theorems that rest on it, and the refinement of `RequestLifecycle` and `SchedulerRun` |
| `SchedulerLanesProofs` | the invariant of the lane table, and the theorems about lanes, admission and caps |
| `FileByteCache` | the cache of file bytes: entries, per-volume counts, limit |
| `PrefetchedBytes` | the state machine of who refers to a thumbnail's bytes: readers, tasks, workers, cancels, the cache; its properties |
| `ImageLoader` | the state machine of overlapping loader calls and who owns the scheduler; its properties |
| `SchedulerWakeups` | `m_queueCondition`: the actions of `DecodeScheduler`, each with the notification it makes |
| `ReadCancellation` | the state machine of read leases, stop queue, dispatch thread, OS cancels and thread priorities; its properties |
| `VolumeTopology` | the cache of volume topologies: lookups, queries without a lock, remapped drives |
| `ImageFormatDetector` | what a header and a name say about the format: pure operators |
| `DecoderRegistry` | the factory tables and the choice of candidates |
| `ImageDecodeDispatcher` | the state machine of one decode among registrations and replaced files; its properties |
| `ImageGeometry` | thumbnail sizes, mip choice, EXIF orientation: pure operators and their references |
| `WakeupProofs` | why no thread sleeps beside its work |
| `CacheProofs` | the inductive invariants of the two caches, and the theorems about them |
| `ReadCancellationProofs`, `ImageLoaderProofs`, `DecodeProofs` | the inductive invariants and the theorems about these |
| `MCWakeups`, `MCCancellation`, `MCBytes`, `MCLoader`, `MCDecode` | the instances of these |

`DecodeScheduler` extends `IoLanes`, which extends `PriorityTaskQueue`.
`SchedulerProperties` instantiates `RequestLifecycle` with a refinement mapping:
a request is "due" while its worker is between the delivery decision and the
callback's return, and otherwise what its client has seen. ("dropped" is what a thread
or a stop does to a canceled request, "withdrawn" what the client's own `Cancel` does to
a queued one in one step: apart, so that a drop needs an earlier cancel.)
`SchedulerRun` is instantiated twice. In `SchedulerProperties` a stop is under way from the
scan of the leases to the join, threads are busy while a request is in the hands of one, and
the callbacks are the requests being delivered; in `ImageLoader` a stop is under way while a
call has the lifecycle mutex, threads are busy until they have left their function, and the
callbacks are the clients in `OnWorker` that are not idle. Both implement it, so the detailed
scheduler and the reduced one agree on what a stop, a timeout and a restart may do.
`SchedulerProofs`, `RequestStageProofs` and `SchedulerLanesProofs` extend each other in
this order, on top of `SchedulerInvariant`; `WakeupProofs` extends the last of them and
`SchedulerWakeups`. `PrefetchedBytes` extends `FileByteCache`. `SchedulerWakeups` extends `SchedulerProperties` and
conjoins each action of `DecodeScheduler` with what it does to the threads that
wait. `ImageDecodeDispatcher` extends `DecoderRegistry` and `ImageFormatDetector`.

Several state machines look at one scheduler from different sides.
`DecodeScheduler` has the counts and queues and takes references, calls and the
stopping of a read as atomic with them; `PrefetchedBytes` splits the releases where
the code does (slot under one mutex, cache entry under another);
`ReadCancellation` splits a read and its stop, and leaves lanes and slots out;
`ImageLoader` splits the calls and reduces the scheduler to its lifecycle. What one
of them assumes, another shows: that a read reported as stopped was canceled or under
shutdown (`PartialNeverDecoded` and `LateCancelHitsNoOther` of `ReadCancellation`),
that no thread sleeps beside its work (`NoneSleepsBesideWork`), and that requests are
accepted again only when no thread is left (`ImplementsLifecycle`, `RunsScheduler`).

`MCBytes` and `MCDecode` each hold two specifications that share no variable; a
behaviour moves one of them, so that their states add up.

## 3. Correspondence with the code

**Atomicity.** An action is one critical section of `m_queueMutex`, complete with
the trailing reclaim, push or release in it, or the unlocked code between two of
them where that code touches shared state (a worker's look at the flags before
the decode; the last store of `SetThreadCount`).

**Threads.** Threads of one pool run the same code, so a thread is represented by
the request in its hands: `job[r]` says where in the thread's function it is,
`worker[r]` of which kind. A pool has an idle thread while fewer requests than
threads are in its hands.

**Requests.** A request is enqueued once, under its own handle, as `ImageLoader`
does. `state[r]` is its `DecodeRequestState`; it exists from `Enqueue` until its
task is destroyed, and is `Fresh` outside that time. `outcome[r]` is a history of
what its client has seen.

| Code | Model |
|---|---|
| `Enqueue` | `EnqueueLocalMain`, `EnqueueSlowMain`, `EnqueueThumbnail`, `EnqueueRejected` |
| `SetPriority`, `Cancel` | `SetPriority`, `Cancel` |
| `LaneReaderThread` | `LaneReaderTake` (pop; discard or start), `LaneReaderFinish` |
| `MainReaderThread` | `MainReaderTake`, `MainReaderFinish` |
| `WorkerThread` | `WorkerTake`, `WorkerBegin` (unlocked look), `WorkerFinish` (delivery decision), `WorkerDeliver` (callback), `WorkerRelease` |
| `StopAndJoin` | `BeginStop`, `ScanLeases`, then `JoinAll` or `BoundExpires` |
| `SetThreadCount` | the stop or `SkipStop`, then `Reopen`, then `Retune` (line 945) |
| `ReleasePrefetch_NoLock` | `Released`, `ReleasedLanes`, `ReleaseCounts` |
| `ReclaimLane_NoLock` | `Reclaim` |

**Abstractions.** A path is a *source*: kind, host file, drive letter, UNC server.
The volume query is an input: at each `Enqueue` any answer of `Answers[r]`. A read
ends with bytes, with nothing, or stopped; a stop is reported only to a canceled
request or under shutdown, which is what `LeasedRead` guarantees. A hit in the byte
cache is a read with bytes. Decoding is a step that ends. `unordered_map`s are
functions over the entries present (`lanes`), or total functions with 0 for no
entry (`readsByDevice`, `volumeProfiles`). A `std::map` queue is a set of entries:
a sequence number is used once, so the order is total.

**The byte cache.** Each operation of `FileByteCache` is one critical section of
its mutex, conjoined with the step of the thread that calls it. Eviction erases in
the arbitrary order of the map: any subset of the right size stays. Bytes are named
by the request they were read for, so `ref[r]` is the shared_ptr of r's task or
thread and `use_count() > 1` is "another request refers to these bytes".

| Code | `PrefetchedBytes` |
|---|---|
| `Enqueue` (1018-1032), `Cancel` | `Enqueue`; `Cancel`, `CancelErase` |
| `LaneReaderThread` | `Take`, `FlushBytes`, `FlushEntry` (`flushDiscard`), `Lookup`, `ReadBytes` or `ReadNothing`, `Cache`, `Finish` |
| `WorkerThread` | `WorkerTake`, `WorkerDiscard`, `WorkerRelease`, `WorkerErase` |
| `StopAndJoin`, restart | `Stop`, `Restart` |

Priorities, devices and reader kinds are left to `DecodeScheduler`: a reader may take
any request of a lane that is not being read, which allows every order the code has.

**The loader.** A call is the steps between which `m_mutex` is free: the copy (or
move) of `m_scheduler`, the scheduler's own critical section, the drop of the copy.
`mayCall` says who
makes which calls, one of `Programs`; `op[c]` is the call, `pc[c]` where client c is in it; a client in `OnWorker` is a
result callback, which its decode thread waits for. Whoever drops the last copy runs
`~DecodeScheduler` (`Destroys`). Threads start and are joined as one group.

| Code | `ImageLoader` |
|---|---|
| `Instance`, constructor | `Construct`, `Constructed` |
| `RequestDecoded`, `Cancel`, `SetPriority` / `LiveRequestCount` | `RequestDecoded`, `Enqueue`; `Cancel`, `CancelLive`; `SetPriority` |
| `SetWorkerThreadCount`, `Shutdown`, `Shutdown(bound)`, `ShutdownIfCreated` | the action of that name, then `Lock`, `Join` or `TimeOut`, `Reset` |
| return from a call | `Release` |
| scheduler threads | `Deliver`, `CallbackReturns`, `ThreadsExit`; `Finish` and `Exit` are these steps under a fixed program |

**Wakeups.** A thread that finds no work waits (`Wait`) and takes nothing until
somebody notifies. Every notification of the code is a `notify_all`. A read's end
notifies inside its critical section (`NotifyNow`); every other notification follows
the critical section it is about, so it is owed (`due`) for any time, and other steps
come before it. `asleep` counts the waiting threads of each pool.

| Code | `SchedulerWakeups` |
|---|---|
| the waits of `LaneReaderThread`, `MainReaderThread`, `WorkerThread` | `Wait` |
| `notify_all` | `Notify`, or `NotifyNow` |
| when `Cancel` and a worker notify | `CancelFrees`, `WorkerFrees` |
| leaving the loop once `m_shutdown` is seen | `JoinThreads` |

**Stopping a read.** `at[t]` is where a reader is in its loop and in `LeasedRead`,
`active[t]` the request registered on its lease. The lease's mutex is held across
steps by the dispatch thread only (`held`), around `CancelSynchronousIo`. A source of
`Polite` watches its token; any other may block in the operating system. Background
mode is `starved`: such a thread need not run until a stop raises its priority.

| Code | `ReadCancellation` |
|---|---|
| `LeasedRead` | `Register`, `Check`, the read (`Block`, `ReadEnds`, `ReadStops`), `Retire` |
| around it in the readers | `Take`, `EnterBackground`, `Finish` |
| `StopDispatchThread`, `StopRequest` | `DispatchTake`, `DispatchSignal`, `DispatchLock`, `DispatchCancel`, `DispatchExit` |
| `Cancel` | `Cancel` |
| `StopAndJoin` | `BeginStop`, `RaiseThreadPriorities`, `ScanLease`, `PublishStops`; `CancelActiveRead` and `RaiseAgain` with every retry; `JoinAll` or `BoundExpires` |
| `SetThreadCount` | the stop or `SkipStop`, then `Reopen`, `ClearStops`, `StartDispatch` |

A shutdown may begin after a finished read looked at the flag: `Finish` has both
outcomes. A reader's read without a lease (the byte cache has the bytes) needs no
stopping and is left out.

**Topologies.** `TopologyForVolume` is `AskTopology` (check, under the mutex),
`QueryReturns` (no lock held; any time later) and `StoreTopology`. The drive may be
remapped at any time; `placed` remembers where it was during the last interval. A
failed query gives the volume a device of its own, or a seek penalty.

**Decoding.** Content is its format, its signature, whether it is intact, and its
number of mips; a header is the signature as far as it is there. With bytes in memory the
file may hold anything, or be missing: DirectXTex decodes the bytes, and so does WIC unless
they are more than a stream takes (`StreamLimit`, UINT32_MAX), when `CreateDecoder` opens
the path (`WicSource`). Spellings of an
extension are records, so that dot and case exist to be dropped. The registry's loops
(`push_back` and `stable_sort` for each spelling, erase-remove, the set of ids seen) are
written as what they leave, `EntriesAt` some places of a list: `stable_sort` of a sorted
list with one entry more puts it behind its equals. That the list is sorted is part of
`RegistryInv`. WIC and DirectXTex
are external: they decode what is intact and of one of their formats, and may decode
what is damaged. A host's decoder does as it likes. The order of factories of one
priority is that of a hash table: any.

| Code | `DecoderRegistry`, `ImageDecodeDispatcher` |
|---|---|
| `RegisterFactory`, `UnregisterFactory`, `RegisterBuiltInDecoders` | the actions of that name |
| `GetCandidateFactories`, `CollectFactoriesByIds` | `CandidateFactories`, `FirstOfEach` |
| `ImageDecodeDispatcher::Decode` | `ProbeHeader`, `CheckMipLevel`, `LookUpCandidates`, then `TryNext` for each, or `Exhausted` |
| `LoadWithDirectXTex`; `CreateDecoder`, the WIC decoders | `DxtexResults`; `WicSource`, `WicResults` |

Geometry is exact: the scales, floats in the code, are fractions, rounded as
`std::round` does.

**Faulty forms.** Next to some definitions stands a *faulty form* that no action
uses: the same definition with a plausible bug. Substituting one must break a
property; section 4 says which.

## 4. The runs

`CHECK_DEADLOCK FALSE` everywhere: once every request is settled and the bounded
calls are used up, the program has nothing left to do.

| Run | Instance | Checks |
|---|---|---|
| `MCStages` | two slow main images for one input, an archive thumbnail, all cancelable; failed reads; one lifecycle call; two workers | `CapacityAccounted`, `InOnePlace`, `LiveExact`, `BytesBounded`, `LanesExact`, `CanceledHoldNothing`, `SlowDecodesHaveBytes` |
| `MCContention` | three of four thumbnails: two of one local lane, an archive's on their disk, a server's; two slots, one read per disk, one reader per lane kind; two priorities; one of the local ones has a handle, with which its priority is changed and it is canceled; slow reads may never end | `PrefetchWithinCap`, `DeviceReadsBounded`, `AdmissionNeverStalls`, `LastSlotToTopPriority`, `AcceptedSettles` |
| `MCProgress` | two of a local thumbnail, a local main image and an archive thumbnail; one or two workers (a count of 0 is clamped), two lifecycle calls; slow reads may never end | `TypeOK`, `StoppedIsQuiet`, `ImplementsLifecycle`, `LocalNeverWaitsForSlow`, `StopCompletes` |
| `MCWakeups` | two of a local and an archive thumbnail and an archive main image, a reader each, every thread asleep or awake; a priority change, a cancel, a lifecycle call | `NoneSleepsBesideWork`, `QueueKeysCurrent` |
| `MCBytes` | two requests of one path in two lanes, one of another, two readers, caps 1 and 2; two lookups of a drive that is remapped, an interval of two ticks | `CacheAccounted`, `NoEntryStranded`, `TopologyIsRecent` |
| `MCLoader` | four programs: two hosts with bounded shutdowns and a callback that makes requests; a final shutdown against restarts; a final shutdown against a bounded one and a callback that makes requests; a bounded shutdown, which may give up, against restarts | `JoinedByBoundedCalls`, `ThreadsOwned`, `RacingRequestsRejected`, `RunsScheduler`, `BoundedReturns`, `CallsReturn` |
| `MCCancellation` | a lane reader in background mode and a main reader; a request that honours its token, one without handle that does not; two lifecycle calls | `StopLostOnlyByRestart`, `NoReadEscapesStop`, `PartialNeverDecoded`, `LateCancelHitsNoOther`, `StopEnds` |
| `MCDecode` | five factories, two of one id and one with the id of WIC; ten contents, from bytes beside any file and by path, under four names; pictures with sides up to 17 | `RegistryConsistent`, `IntactIsDecoded`, `CandidatesInOrder`, `MipLevelHonoured`, `ThumbnailsFit`, `MipsLoseNoPixels`, `ImagesUpright` |
| `MCRetune`, `MCWorstCase`, `MCLoaderOverlap`, `MCLostStop` | the disagreements of section 7 | one property each, violated |

What the properties say:

* **Capacity.** `CapacityAccounted`: each of the six counts is the number of
  requests that really hold what it counts, through every stage, cancel, stop and
  restart. `BytesBounded`: the memory bound, with the bytes a worker is still
  decoding from. `PrefetchWithinCap`, `DeviceReadsBounded`: the current cap, the
  depth of each lane, the reads of each device.
* **Place.** `InOnePlace`: a pending request is in exactly one queue or thread.
  `QueueKeysCurrent`: it is found there. `LanesExact`: a lane is alive exactly
  while it is used, so a reader finds the lane it read for. `LiveExact`: the live
  table is what `Cancel` may still affect.
* **Cancellation and stops.** `CanceledHoldNothing`, `SlowDecodesHaveBytes`,
  `StoppedIsQuiet`, and `ImplementsLifecycle`: the abstract life cycle of a request (at most
  one delivery, none after a cancel or a stop was seen, a drop only for a reason) and of
  the scheduler (threads find work only while requests are accepted; those of a stop that
  gave up keep it closed until they are joined).
* **Admission.** `AdmissionNeverStalls`: while a slot is free and some idle reader
  could read, one of the readers takes one. `LastSlotToTopPriority`: the last
  slot goes to the highest priority any idle reader could start.
* **Progress.** `AcceptedSettles`: with sources that answer, every accepted request
  settles, however the admission waits, the deferrals to higher priority and a cancel
  interleave. It says that the set of pending requests empties again: a request is
  enqueued once, so then each has settled. `LocalNeverWaitsForSlow`: local ones do so even if the slow sources never
  answer. `StopCompletes`: with sources that answer, a lifecycle call ends.
* **Wakeups.** `NoneSleepsBesideWork`: unless some thread still owes a notification,
  no thread sleeps that could take work or has to leave for a stop.
* **Stopping reads.** `StopLostOnlyByRestart`: a canceled read that goes on has its
  stop delivered or on the way (but for section 7's gap). `NoReadEscapesStop`: a stop
  cancels also what is in no live table. `PartialNeverDecoded`: bytes cut short are
  dropped. `LateCancelHitsNoOther`: `CancelSynchronousIo` ends only canceled reads.
  `StopEnds`: a stop ends though no source answers, a read blocks after the first
  attempt, or a thread enters background mode after the first raise.
* **Bytes.** `CacheAccounted`: limit and per-volume counts of the cache.
  `NoEntryStranded`: an entry stays only while a request of its path refers to its
  bytes or is on its way to erase it. The hazard is `EraseIfUnshared`, which leaves
  a shared entry to the other owner: had two owners erased first and dropped their
  references after, each would have relied on the other.
* **Topologies.** `TopologyIsRecent`: what a lookup is served was true less than one
  refresh interval ago. A slow query may store its answer over a newer one, or in a
  cache that was cleared meanwhile; it does no harm since an answer carries the time at
  which its lookup began.
* **Loader.** `JoinedByBoundedCalls` and `RacingRequestsRejected`: what a returned
  shutdown means. `BoundedReturns`, `CallsReturn`: it does return, whatever the decode
  threads do, or if they can exit. `ThreadsOwned`: the scheduler outlives its
  threads. `RunsScheduler`: however calls overlap, the scheduler they share is started
  and stopped as `SchedulerRun` allows.
* **Decoding.** `RegistryConsistent`: the tables agree after every sequence of
  registrations and removals. `CandidatesInOrder`: claimants of the extension first,
  then by priority, nobody twice. `IntactIsDecoded`: an intact image is decoded
  whatever its name, whatever a host's factories do before, and whatever the file beside its
  bytes holds. `MipLevelHonoured`: no
  image at another level, and a level that does not exist is the request's error.
* **Geometry.** `ThumbnailsFit`, `MipsLoseNoPixels`, `ImagesUpright` compare the
  code's arithmetic with what it is for: the largest size of that shape in the target,
  at most a pixel lost by starting from a mip, every pixel where EXIF puts it.

**Bounds, and why they are enough.** Each request is enqueued once; `MaxRequests`
lets clients enqueue only so many of an instance's requests, so that a run has every
pair of them; `MaxChanges`, `MaxStops` and `Cancelable` bound the rest of what clients
do; everything else is unbounded, and the counters are bounded by these. Caps are either
the code's, or scaled down so that they bind with three requests: in `MCContention` two
slots at most (one when only one device was seen), one read per disk and one reader per
lane kind for three requests, in `MCStages` one main-image input for two main images. Every action depends on at most two requests at a time (the one it
moves, and one that competes with it for a slot, a lane or the order of a queue),
and on a third kind of lane for the deferral rule; `MCContention` has these three
lane kinds, and with them the three waits: behind a request of the same lane, for the
disk, and for a slot left to work of higher priority. One of its requests has a handle, so
that a priority changes and a request is canceled while others wait: the others are of
handle 0, since with one more handle its liveness takes TLC twice as long. `MCWakeups`
changes the priority of any of its requests, and checks the keys. Two lifecycle calls (`MaxStops`) are a bounded stop that times out and what
follows it: the stop that joins, or the restart that is refused. Two workers
are one of each kind, one worker is the shared one.

`MCWakeups` needs two requests for the one work a thread could miss: one that blocks the
lane or the slot and one that becomes admissible when it goes; its pools have one
reader so that a thread missed is missed for good.

In `MCBytes` two requests share a path, which is what the erase races over, and a
third evicts or is evicted; caps of 1 and 2, below the code's, make eviction and
replacement happen. `MCWorstCase` has the cap the code computes for one hard disk. The
clock of the topology cache goes to twice the interval (`MaxTime`): an answer can grow
stale while its query runs and after it is stored. In the loader a client makes at most
`MaxCalls` (two) calls: three clients overlap a call that stops, one that stops or
restarts, and one that uses the scheduler, and a second call retries a timed-out
shutdown.

`MCCancellation` has a thread of each kind and a request of each kind. The two
calls are what a stop can race: a bounded stop that gives up and the next one, or a
restart and a stop. `MCDecode` has a host factory that comes first and fails, another
of the same id that takes its place, spellings that repeat an extension, and, among
contents, those with no signature, those cut off in it, those damaged, those too large for WIC's stream (`StreamLimit` is 100 bytes there), and a DDS with two
mips, asked for levels 0 to 2 (`MaxMip`). The file is replaced at most once in a
decode. Sides from 1 to 17 against targets up to 8, 5 mips and 8 orientations have every
rounding case, the sides that round to 0 included.

**Substitutions that are caught.** For each property, one faulty form that breaks
it in its run:

| Faulty form | What it does | Broken |
|---|---|---|
| `ReleasesEither` | a main input gives back a prefetch slot too | `CapacityAccounted` |
| `LeftQueued` | cancel leaves the task in its lane | `InOnePlace` |
| `FinishLater` | the live entry is not erased | `LiveExact` |
| `ClampAbove` | no lower bound on the worker count | `TypeOK` |
| `BoundForgets` | a bounded stop forgets the threads left | `StoppedIsQuiet` |
| `DeliversDecoded` | a cancel during the decode is not looked at | `ImplementsLifecycle` |
| `FreeSlotsByHeld` | reads in progress take no slot | `PrefetchWithinCap` |
| `AdmissibleAnyDevice` | no admission per device | `DeviceReadsBounded` |
| `NotRekeyed` | priority changed without re-keying | `QueueKeysCurrent` |
| `OutranksOrTies` | readers defer to equal priority as well | `AdmissionNeverStalls`, `AcceptedSettles` |
| `NothingAhead` | readers never defer | `LastSlotToTopPriority` |
| `CancelReleasesAlways` | cancel gives back bytes a worker decodes from | `BytesBounded` |
| `IdleDespiteHeld` | a lane is reclaimed while bytes are held | `LanesExact` |
| `CancelReleasesNothing` | canceled bytes wait for a worker | `CanceledHoldNothing` |
| `AfterAnyRead` | a failed slow read is decoded | `SlowDecodesHaveBytes` |
| `KeyByDevice` | archives share the lane of their disk | `LocalNeverWaitsForSlow` |
| `QueuesDrained` | a join waits until the queues are empty | `StopCompletes` |
| `CancelFreesHeld` | a task removed from its lane wakes nobody | `NoneSleepsBesideWork` |
| `Evicted` | a replaced entry stays counted | `CacheAccounted` |
| `FlushForgets` | a reader drops discarded bytes but not their entry | `NoEntryStranded` |
| `StoredAt` | an answer is stamped when it is stored | `TopologyIsRecent` |
| `NothingToStopOnceShut` | `StopAndJoin` does not look at `m_joinPending` | `JoinedByBoundedCalls` |
| `AcceptsAlways` | `Enqueue` does not look at `m_shutdown` | `RacingRequestsRejected` |
| `NeverGivesUp` | a restart joins the threads a stop left, and goes on | `RunsScheduler` |
| `DropsLoader` | a timed-out shutdown drops the scheduler too | `BoundedReturns` |
| `DestroysWhileShared` | the scheduler is not shared by the calls that use it | `CallsReturn` |
| `DestroysNothing` | `~DecodeScheduler` does not join | `ThreadsOwned` |
| `LeaseIgnored` | a lease is used without its mutex | `LateCancelHitsNoOther` |
| `SeesCancel` | a registering read does not look at `m_shutdown` | `NoReadEscapesStop` |
| `DiscardsByToken` | a finished read looks at its token only | `PartialNeverDecoded` |
| `MayRetireAtOnce` | the dispatch thread retires with stops queued | `StopLostOnlyByRestart` |
| `RaisedOnce` | a stop raises the priorities once | `StopEnds` |
| `WithoutFirst` | a removal takes one entry of a list | `RegistryConsistent` |
| `NameExtension` | the name alone chooses the loader | `IntactIsDecoded` |
| `EveryOne` | a factory listed twice is tried twice | `CandidatesInOrder` |
| `NotDds` | a mip level is checked against the format only | `MipLevelHonoured` |
| `LooseScale` | the side that needs it less decides the scale | `ThumbnailsFit` |
| `ReachesSmaller` | a mip has to reach the smaller side only | `MipsLoseNoPixels` |
| `OrientTurnedFirst` | the turn comes before the flip | `ImagesUpright` |

Five more are there to be tried by hand: `WorkersDedicated`, a single worker serves one
queue only (`AcceptedSettles`), `HopefulAnswers` (`TopologyIsRecent`), `InOrder`
(`RegistryConsistent`), `FileContent` (`IntactIsDecoded`) and `ScaleStoredSides`
(`ThumbnailsFit`).

## 5. Fairness

`ThreadFairness` is weak fairness of each pool (a thread that can take a step
eventually does), of the worker that holds a request, and of the steps of a
lifecycle call already begun. It stands for an OS that schedules runnable threads,
decoders and callbacks that return, and notifications that reach the waiters; that the
code's notifications suffice for the last is what `NoneSleepsBesideWork` shows.
Clients are never obliged to do anything, and the bound of a `Shutdown(bound)` need
not expire. `ReadFairness(S)` says that the reads of S end: `SlowSourcesMayHang` has
it for local requests only, and `EverySourceAnswers`, the rest of it, is the
assumption of `AcceptedSettles` and `StopCompletes`.

No strong fairness is needed: requests are finitely many and `MCContention` changes
one priority once. Under endless arrivals or re-prioritisation a request can be overtaken for ever,
in the code as in the model: priorities have no aging. These bounds are therefore part of
what `AcceptedSettles` claims.

`ReadCancellation!Fairness`: a thread that is not in background mode goes on, the
dispatch thread and a lifecycle call do, and the join repeats what it repeats. Nothing
else is assumed: data need never arrive (`ReadEnds`), a thread in background mode may
get no processor, a bound need not expire. What is assumed of a source is that one of
`Polite` returns once its token is signaled, and that a blocked call ends when
`CancelSynchronousIo` hits it. A read that does neither keeps its thread, as README.md
and ImageLoader.h say.

`ImageLoader!Spec` has weak fairness of the steps that finish a call already begun
(the bound of a bounded shutdown does run out, a callback returns), and none of the
exit of the threads. `ThreadsAreFree`, that they do exit, is the assumption of
`CallsReturn`. Clients need not call anything. The lifecycle mutex needs no strong
fairness because `MaxCalls` bounds how often it is taken.

## 6. What is proved

`SchedulerProofs` proves, for all values of the constants that satisfy
`LaneConstants` and `SchedulerConstants` (any finite set of requests, any sources
and topology answers, any caps, any worker counts, any number of calls):

| Theorem | States |
|---|---|
| `Invariant` | `Spec => []IndInv` |
| `TypeCorrect` | `Spec => []TypeOK` |
| `CapacityExact` | `Spec => []CapacityAccounted` |
| `MemoryBounded` | `Spec => []BytesBounded` |
| `KeysCurrent` | `Spec => []QueueKeysCurrent` |

The assumptions are the named ASSUMEs of `IoLanes` and `DecodeScheduler`: finite
sets of requests and answers, positive caps, an initial cap within range. TLC
evaluates them in every run.

None of the properties is inductive by itself. `IndInv` (`SchedulerInvariant`) adds,
and each part is there because an action needs it:

* **`WithinCaps`**: slots held plus reads in progress stay under `MaxPrefetchCap`,
  inputs held plus main reads under `MainImageInputCap`. It says `MaxPrefetchCap`,
  not the current cap, because a restart or a new topology answer may lower the
  current cap below what is held (section 7).
* **`Holders`**: bytes in memory belong to a request that holds a slot or an input
  (that makes the memory bound follow from the counts), and a request that is
  being read or not yet read holds nothing (so the end of a read adds a holder, and
  the count goes up by exactly one).
* **`Queues`**: an entry's request is pending, in no thread's hands, and in the
  queue its state names under its current key. Without it a pop might take a
  request a thread works on, and a read would be counted twice; and `Cancel` might
  miss the entry.
* **`CapacityAccounted`** itself: the decrements of the model are the code's, some
  saturating, some unguarded, and only an exact count shows that an unguarded one
  never meets zero.

The proof has one lemma per action (`EnqueueThumbnailInv`, `CancelQueuedInv`, ...),
one step per part of the invariant in each. They rest on *frame lemmas*: what an
action leaves alone keeps its part (`ReadsFrame`, `HeldFrame`, `QueuesFrame`), a
set that gains or loses one request changes its count by one (`OneMore`,
`OneLess`), and giving capacity back lowers the right count (`HeldRelease`).
`NextInv` collects the actions, and `Invariant` follows by temporal reasoning.

`RequestStageProofs` proves, from the same assumptions:

| Theorem | States |
|---|---|
| `StageInvariant` | `Spec => []StageInv` |
| `OnePlace` | `Spec => []InOnePlace` |
| `LiveTableExact` | `Spec => []LiveExact` |
| `CanceledGiveBack` | `Spec => []CanceledHoldNothing` |
| `DecodesFromBytes` | `Spec => []SlowDecodesHaveBytes` |
| `StopIsComplete` | `Spec => []StoppedIsQuiet` |
| `LifecycleKept` | `Tracked = Request` implies `Spec => ImplementsLifecycle` |
| `RunKept` | `Tracked = Request` implies `Spec => KeepsRun` |

`IndInv` says of each entry where its request is; `StageInv` is the converse, and says of
each request:

* **`Placed`**: pending and in no thread's hands, it is in the queue its state names,
  under its current key. Together with `Queues` that is `InOnePlace`. A pop removes one
  entry and a push adds one, and no other entry is hit because **`SequencesUnique`**: no
  two pending requests share a sequence number.
* **`Handled`**: how the thread's stage and the client's outcome go together, and that a
  request is skipped for a cancel or a stop only: it makes `Drop` of the abstract
  specification possible.
* **`Findable`**: the live table has the tracked requests that are undecided and not
  canceled, a stop included. Without the stop (`LiveExact` says less during one) a
  request could outlive the stop uncanceled, and `Reopen` would meet it.
* **`CanceledFree`**, **`HasBytes`**: what a canceled request has given back, and that a
  slow one has bytes, or a known failure, from the end of its read to the end of its
  decode. The step between (`taken`) is what the property leaves out and the proof needs.
* **`InOwnLane`**: it waits in a lane of its source's kind, so the reader that pops it is
  of that kind and the end of its read counts down the right pool.
* **`Control`**, **`AllQuiet`**: which stages of a lifecycle call go with which flags,
  and that a complete stop leaves every request as if new; a restart starts from there.

The refinement maps each action to one action of `RequestLifecycle` or to a stutter
(`ClientRefines`, `ReaderRefines`, `WorkerRefines`, `LifecycleRefines`), and so for
`SchedulerRun` (`ClientRuns`, `ReaderRuns`, `WorkerRuns`, `LifecycleRuns`): a step of readers
or workers is `Work` because a request enters a thread's hands only before a stop, and
`Open` follows `Join` because `AllQuiet` leaves no request with a thread. The hypothesis
`Tracked = Request` says that every request has a handle, as those of `ImageLoader` have;
it holds in `MCProgress`, and without it the statement is false (section 7, Limits).

`SchedulerLanesProofs` proves, from the same assumptions:

| Theorem | States | Further hypotheses |
|---|---|---|
| `LaneInvariant` | `Spec => []LaneInv` | |
| `LanesAreExact` | `Spec => []LanesExact` | |
| `AdmissionNeverStallsHolds` | `Spec => []AdmissionNeverStalls` | |
| `LastSlotHolds` | `Spec => LastSlotToTopPriority` | |
| `StableInvariant` | `Spec => []StableInv` | `StableRoutes` |
| `DeviceReadsHold` | `Spec => []DeviceReadsBounded` | `StableRoutes` |
| `CapInvariant` | `Spec => []CapInv` | `StableRoutes`, `MaxStops = 0` |
| `PrefetchHolds` | `Spec => []PrefetchWithinCap` | `StableRoutes`, `MaxStops = 0` |

`LaneInv` is `LanesExact` in a form the provers take a step at a time: at most one
request is read for a lane, and the flag says whether one is (no cardinality), and the
table after a step differs in one lane (`Exactly`, with frame lemmas for the others).
`AdmissionNeverStalls` rests on the reader with the best work: among the kinds with an
idle reader and an admissible lane there is one whose best priority none outranks, by
the least number principle; nothing is left for others before it (`AheadOfOneKind`), and
its lanes have a best one in turn, again by the least number principle, since keys are
unique (`SequencesUnique`, and every entry is of a pending request). `LastSlotToTopPriority` is
the other half of the deferral rule: with one slot free, whoever takes it found nothing
ahead.

`StableInv` says that a lane's depth and limit are those of the routes to it, that what
it holds and reads fits its depth, and that its device's reads fit its limit. `CapInv`
adds that the cap is the sum of the depths of the devices seen, and that slots held and
reads in progress fit it. `StableRoutes` says that the routes to one lane or device agree
on depth and limit, and `AgreementIsStable` that they do whenever the answers of the
device query agree about each device, whatever is requested. TLC evaluates it for the
machine of `MCScheduler` (`StableTopology`). Without it, and with a restart, depth
and cap can fall below what is already held; then only `BytesBounded` is left.

`WakeupProofs` proves, from the same assumptions and `LimitsLeaveRoom`:

| Theorem | States | Further hypotheses |
|---|---|---|
| `WakeupIsScheduler` | `WakeupSpec => Spec` | |
| `LaneIsRouted` | `Spec => []KeyedByRoute` | |
| `NoneSleeps` | `WakeupSpec => []NoneSleepsBesideWork` | `StableRoutes` |

By the first, all that is proved of `DecodeScheduler` holds here. A thread falls asleep
when it has no work, so what is to show is that no step gives a sleeper work unless it
notifies or owes a notification. For most silent steps that is plain: they leave the
lanes as they are, or take from them. The step to fear is a reader that takes a thumbnail,
which the code announces to nobody. It changes what every other reader may do: the
device has one more read, the machine one free slot less, and one request less is
waiting, for which others may have left that slot alone.

* **`TakeOpensNothing`**: it opens no choice to another kind. What is ahead of that kind
  (`Ahead`, the slots left to work of higher priority) goes down by one at most, and the
  free slots go down by one with it (`AheadAfterTake`, `OthersAheadAfterTake`).
* **`StillOpen`** is why the first half is true: a lane counted as ahead because it is
  admissible must still be counted after the read began. It is, or every reader of its
  kind is busy. A hard disk, whose lanes of all kinds share a limit, has room for a
  second read; on a solid-state drive the limit is reached only by more reads than one
  kind has readers. This is the assumption `LimitsLeaveRoom` on the limits of
  DecodeScheduler.h:244-248, and it needs that lanes of one device have one limit: that is
  `LimitOfDevice`, from `KeyedByRoute` and `StableRoutes`.
* **`CapKnown`**: the cap is the initial one or that of the profiles. The store at the end
  of `SetThreadCount`, which notifies nobody, therefore never raises it above what the
  property allows for.

`ImageLoaderProofs` proves, for any clients, requests, programs and number of calls
(`LoaderConstants`):

| Theorem | States |
|---|---|
| `LoaderInvariant` | `Spec => []LoaderInv` |
| `ThreadsAlwaysOwned` | `Spec => []ThreadsOwned` |
| `BoundedCallsJoin` | `Spec => []JoinedByBoundedCalls` |
| `RacingRejected` | `Spec => RacingRequestsRejected` |
| `LoaderRunsScheduler` | `Spec => RunsScheduler` |

The parts of `LoaderInv` beside types and `ThreadsOwned`:

* **`Located`**: where a client is says which call it makes; it has the lifecycle mutex
  exactly while it joins, so a call that drops the last copy finds the mutex free. With
  **`OneConstructs`** nothing uses the scheduler before it is constructed.
* **`ThreadsKnown`**: threads run exactly while the scheduler accepts requests, is being
  stopped, or was left by a stop that timed out. So `NothingToStop` with the mutex free
  means that none run: the early return of `StopAndJoin` is right to report a join.
* **`OnceShut`**: without restarts, a scheduler that accepts requests is the loader's, or
  a `Shutdown` has taken it and arrives at it; whoever was told that it is shut down was
  told so when it no longer accepted, or while that `Shutdown` was on its way.
* **`OnceJoined`**: with bounded calls only, the loader keeps the scheduler as long as
  threads run, so a call that finds none may answer true.

`LoaderRunsScheduler` adds `RunInv`: threads that have left their function leave no callback
behind and accept nothing, a callback runs on a thread not joined, a request is live only
while requests are accepted, and a restart that joins threads joins none of a stop that gave
up. The last is the one a step needs: without it the restart would end in `Open` with
`joinPending` set.

`CacheProofs` proves of the byte cache, for any finite sets of requests, paths and
readers, any lanes, volumes and caps (`CacheConstants`, `BytesConstants`):

| Theorem | States |
|---|---|
| `BytesInvariant` | `Spec => []BytesInv` |
| `BytesTyped` | `Spec => []BytesTypeOK` |
| `CacheCounts` | `Spec => []CacheAccounted` |
| `NothingStranded` | `Spec => []NoEntryStranded` |

`BytesInv` adds `RefsRight` to the two properties: references and entries are to
bytes of their own path (so the other owner that makes an entry "shared" is a
request of that path, which will erase it), and a request that has not read yet, or
whose bytes are not cached yet, is in no entry (so a canceled read leaves none). The
operations of the cache have a lemma each (`PutOK`, `EraseOK`, `SetMaxOK`,
`ClearOK`), on the counting lemmas `UncountedCounts` and `CountedCounts`: erasing a
set of entries and adding one keep the count of every volume exact.

`ReadCancellationProofs` proves, for any finite sets of threads and requests and any
numbers of calls (`CancellationConstants`):

| Theorem | States |
|---|---|
| `ReadsInvariant` | `Spec => []CancellationInv` |
| `LeasesTyped` | `Spec => []CancellationTypeOK` |
| `StopsReachAllReads` | `Spec => []NoReadEscapesStop` |
| `StopsArrive` | `Spec => []StopLostOnlyByRestart` |
| `PartialDiscarded` | `Spec => []PartialNeverDecoded` |
| `NoStrayCancel` | `Spec => LateCancelHitsNoOther` |

The parts of `CancellationInv` beside the properties:

* **`Control`**: which stages of the lifecycle call go with which flags and states of
  the dispatch thread; **`AllQuiet`**: what a complete stop leaves, so that a restart
  starts from nothing.
* **`Tasks`**: a request is in the hands of one thread, and on that thread's lease
  exactly while it is read. With the lease mutex that gives `NoStrayCancel`.
* **`StopsAreCanceled`**: whatever is queued, found, being stopped or cut short was
  canceled first. A read that was cut short is therefore one its reader discards.
* **`NoneEscapes`**: `NoReadEscapesStop`, strengthened to the leases a scan has already
  looked at (`Looked`). A read that registers behind the scan meets the cancellation at
  its check: it was live when the stop canceled all that is live, or it holds the lease.
* **`StopsKept`**: a stop on its way is *published*, or still among what the scan found.
  Once the exit flag is set it is published; otherwise the dispatch thread could
  retire with nothing queued and leave it behind.
* **`Cleared`**: what a restart clears was canceled after it reopened. This is the gap
  of section 7, and the reason why `StopsArrive` excepts it.

`CacheProofs` proves of the topology cache, for any volumes, disks and bound of the clock
(`TopologyConstants`):

| Theorem | States |
|---|---|
| `TopologyInvariant` | `TopologySpec => []TopologyInv` |
| `AnswersAreRecent` | `TopologySpec => []TopologyIsRecent` |

`TopologyInv` says that an answer, cached or in the hands of a lookup, names a disk the
volume was on since its stamp. It holds because the time is read before the query; a
stamp taken after a slow query would call an old answer new.

`DecodeProofs` is about one decode among a host's registrations and replaced files, for any
factories, ids, extensions, priorities, contents, names and mip levels, and about pictures
of every size:

| Theorem | States |
|---|---|
| `MipInvariant` | `DispatchSpec => []MipInv` |
| `MipLevelsHonoured` | `DispatchSpec => []MipLevelHonoured` |
| `RegistryInvariant` | `DispatchSpec => []RegistryInv` |
| `RegistryAgrees` | `DispatchSpec => []RegistryConsistent` |
| `CandidatesInvariant` | `DispatchSpec => []CandidateInv` |
| `CandidatesAreInOrder` | `DispatchSpec => []CandidatesInOrder` |
| `IntactInvariant` | `DispatchSpec => []IntactInv` |
| `IntactImagesAreDecoded` | `DispatchSpec => []IntactIsDecoded` |
| `ThumbnailsAlwaysFit` | `PictureSpec => []ThumbnailsFit` |
| `MipsNeverLosePixels` | `PictureSpec => []MipsLoseNoPixels` |
| `ImagesAlwaysUpright` | `PictureSpec => []ImagesUpright` |

The assumptions are four named ASSUMEs. `RegistryConstants`: finitely many factories and
spellings, integer priorities, no empty id. `DispatcherConstants`: the two built-in
factories, and what begins like a DDS is one, damaged or not. `IntactContents`: what is
intact shows the signature of its format, if that has one. `BuiltInFactories`: both built-in
factories serve every purpose, and their `Probe` is `BuiltInProbe`. Only `IntactInvariant`
needs `IntactContents`.

`MipInv` follows the header: while the source stays (`SourceStays`: the file is not
replaced, or there are bytes), the header probed is the source's. The check of the level therefore speaks of the same image, and past it
a level other than 0 is tried only on what may be a DDS that has it; the loaders then
read the level from the container itself (`ServedByBuiltIn`). WIC succeeds there only with what the detector does
not know: what shows that it is a DDS WIC is no candidate for (`CandidateInv` says that
candidates passed their probe), whether it would get the bytes or open the path. The
proof showed that `Loaded`, `DdsMips` and `DetectByMagic` were written as CASEs whose
guards overlapped, which leaves the value open; they are exclusive now, in the order of the
code's tests.

`RegistryInv` adds to `RegistryConsistent` that a list holds registered ids only and that a
list exists only under extensions some factory spells. Both matter when an id is taken
over: had `UnregisterFactory` left one entry of the id anywhere, the next factory of that id
would be offered files of an extension it never claimed. A list is in order when every
entry is in the relation `Falling` to all behind it. `OrderedTaken` and `OrderedConcat` say
which operations keep such an order, of any relation, and serve the lists as well as the
candidates, whose relation `Before` is the one `CandidatesInOrder` asks for. What
`EntriesAt` returns is `EntriesTaken`: counting the places up to each is one to one, so
every number is reached. That no factory comes twice rests on two facts: `FirstOfEach` has
every id once and ids are those of their factories; and whoever claims the extension and
qualifies is listed, so the others do not claim it (`CandidatesAre`).

`IntactInv` says that the decoder of an intact image is among the candidates not tried yet:
it qualifies, whatever the name (`DecoderQualifies`), it was found if it was registered, and
when its turn comes it decodes (`DecoderDecodes`), so a decode cannot come to its end
without success. Its conditions are `whole` (the built-in factories are registered at the
lookup), `SourceStays`, and for a format of WIC's that bytes in memory are what WIC gets
(`WicHasSource`); section 7 says what becomes of the others.

The geometry needs no assumption: `EveryThumbnailFits`, `EveryMipLosesNoPixels` and
`EveryOrientationUndone` quantify over all sizes, targets, numbers of mips and orientations,
and the three theorems of the table state them for the properties of the run, with any set
`Picture`. The arithmetic is that of exact fractions: `RoundExact` and `RoundBound` bound
what rounding does to a side, `ScaledFits` and `FrameIsFitted` carry this to the scaled and
turned picture. For mips, `MipShape` is the invariant of the chain: a mip has the picture's
shape within a pixel of its own, unless a side is held at 1. The chosen mip reaches the
target (`ChosenMip`), so scaling it to the target shrinks that pixel to at most one of the
thumbnail (`OtherSideNear`, `MipScaled`); a mip that fits the target already is compared as
it is (`MipAsItIs`). That the powers of two exist at all, a recursive function, is shown by a
least number that has none (`LeastNat`, `DoublesExist`, `Powers`), since the library's
induction theorems cannot be used. What the code's single-precision factors add is outside
all of them (section 3).

## 7. Where code and comments disagree

* **`MCRetune`** (DecodeScheduler.cpp:945). The last statement of `SetThreadCount`
  stores the global cap without `m_queueMutex`, after the scheduler has reopened.
  An `Enqueue` in between has its cap overwritten: one hard disk profiled at depth
  2 with a cap of 4. DecodeScheduler.h:604 states the cap is the sum of the
  depths. The next thumbnail `Enqueue` repairs it.
* **`MCWorstCase`** (1134, 1614, 1786). A slot is given back before the bytes it
  stands for: `Cancel` and the workers erase the cache entry after the critical
  section, and a reader drops a canceled read's bytes after the one that finishes
  it. Another read can complete in between, so three files are in memory under a cap
  of two. DecodeScheduler.h:183 calls (cap + main-image inputs) x 1 GiB the worst
  case.
* **`MCLoaderOverlap`** (ImageLoader.cpp:82). `Shutdown()` moves the scheduler out
  before it joins, so a `Shutdown(bound)` beside it finds none and returns true with
  decode threads running. ImageLoader.h:39: "true when every decode thread was joined
  within `bound`".
* **`MCLostStop`** (934). `SetThreadCount` accepts requests and starts the readers
  before it clears the stop queue: the stop of a request canceled in between is removed,
  and its read goes on until data comes or the scheduler stops. DecodeScheduler.h:309
  says of a canceled read that "the token is signaled, and CancelSynchronousIo tried,
  shortly after".

`JoinedWhenTrue` holds where no unbounded shutdown or restart overlaps
(`JoinedByBoundedCalls`), and a stop is lost in no other way (`StopLostOnlyByRestart`).

### Limits

What the properties do not claim, and the code does not promise or not keep:

* A second topology answer for a device (a failed seek-penalty query counts as a seek
  penalty; 1010, 1023) lowers depth and cap below what is already held. So
  `PrefetchWithinCap` is checked, and proved, for answers that agree about each device and
  without restarts; the absolute bound `BytesBounded` is proved for any answers.
* A cap left too high by the race at 945 admits a read no notification announced, and
  one left too low can hold local thumbnails back while slow reads never end.
  `NoneSleepsBesideWork` is claimed for a cap that is not too high.
* Two answers of the device query that disagree about one device (a seek penalty is assumed
  where the query fails, DecodeScheduler.cpp:37, and read from the descriptor where it does
  not, 83) give lanes of that device different limits. A read that begins can then close
  the lane for which a reader of a third kind had left the slot, and nobody tells that
  reader: it sleeps beside its work until the next notification. `NoneSleepsBesideWork` is
  checked, and proved, for answers that agree. It also rests on the limits themselves
  (`LimitsLeaveRoom`): with a limit of one on a hard disk one take could close two lanes.
* A request with handle 0 that is being decoded when a stop begins is delivered, since
  it is in no live table (1596). `ImageLoader` never uses handle 0;
  `ImplementsLifecycle` is checked, and proved, where every request has a handle.
* `Shutdown(bound)` waits for the lifecycle mutex before its deadline is computed
  (1171): beside an unbounded `Shutdown` or a restart that waits for a thread, it takes
  longer than the "at most `bound`" of README.md:104. `BoundedReturns` is claimed for
  bounded calls among themselves.
* A `SetWorkerThreadCount` that copied the scheduler before a shutdown restarts it
  afterwards (ImageLoader.cpp:182), and a request that copied it too is accepted then.
  The header advises to set the count before requests are issued. So
  `RacingRequestsRejected` is claimed without restarts.
* A shutdown that finds the scheduler gone returns while an unbounded `Shutdown` may still
  be on its way to it (ImageLoader.cpp:70), and until that one arrives a request that had
  copied the scheduler is accepted. `RacingRequestsRejected` leaves these moments out
  (`ShutdownArrives`): the comment at ImageLoader.cpp:74 is about the shutdown it stands in.
* A restart that races a `Shutdown(bound)` can leave a result callback with the last
  copy of the scheduler, which then joins its own thread: `CallsReturn` is checked for
  the programs of `MCLoader`, in none of which a request is made between the two
  (`RestartCalls` has them meet without one).
* The OS cancel of a single `Cancel` is tried once: a read that blocks after it is
  stopped by its data, its token or the next stop of the scheduler only.
* `MipLevelHonoured` leaves out an image WIC knows and the detector does not (ICO, HEIC),
  named .dds: its level is ignored.
* Both `IntactIsDecoded` and `MipLevelHonoured` are claimed for a decode whose file is not
  replaced between probe and load; from bytes they hold whatever becomes of the file. When
  all candidates fail, the error returned is the last one's.
* Bytes of more than UINT32_MAX are not given to WIC, which opens the path instead
  (ImageDecodeDispatcher.cpp:105, 120-128): an intact JPEG in memory then fails when there
  is no file, and another image comes when the file is another. README.md:45 says of a
  decode from bytes that the path "is never opened". `IntactIsDecoded` leaves such bytes
  out. The scheduler passes none: its reads are at most 1 GiB (DecodeScheduler.cpp:164).
* A thumbnail so thin that a side rounds to 0 comes in full size; mips round their sides
  down, so the thumbnail of a DDS may differ in shape by a pixel.
* A host that takes the id "builtin.wic" or "builtin.dxtex" first keeps it: the built-in
  decoder is then not registered, and the registration is not repeated.

## 8. Only model-checked, and not modelled

Only model-checked:

* the liveness properties (`AcceptedSettles`, `LocalNeverWaitsForSlow`, `StopCompletes`,
  `StopEnds`, `BoundedReturns`, `CallsReturn`): TLAPS does not reason about fairness.

Every safety property that a passing run checks is also a theorem.

Not modelled:

* pixel work: conversion, alpha detection, block-compressed passthrough, the code of WIC
  and DirectXTex (external); the thumbnail a container embeds, which WIC may return at
  its own size. EXR needs USE_OPENEXR, which no build file of the repository
  defines;
* how the operating system schedules: a thread in background mode is one that need not
  run, and no more is said of priorities;
* an explicit `DecodeInput::header` (ImageDecodeDispatcher.cpp:1143): by its contract
  (DecodeTypes.h:14) it is the start of the content, which is what the probe takes without
  it, and the one the scheduler passes with its bytes is just that
  (DecodeScheduler.cpp:1551);
* background mode of a decode worker (1400): `ReadCancellation` has that of a lane reader
  (1753), which the same retries end;
* spurious wakeups, which only add looks for work; the read of a lane reader that the
  byte cache answers, which holds no lease;
* a host's callback that throws, calls back under the registry's mutex, or shuts the
  loader down from a decode thread (outside the interface); allocation failure;
* `GetDiagnostics` and logging (read-only), value types, path parsing (abstracted to its
  result).

## 9. Plan

Done:

1. `PriorityTaskQueue`, `IoLanes`: the operators.
2. `DecodeScheduler` with `RequestLifecycle`: stages, cancels, stops.
3. `SchedulerInvariant`, `SchedulerProofs`.
4. `FileByteCache`, `PrefetchedBytes`: counts, limit, racing releases.
5. `ImageLoader`: ownership of the scheduler across its calls.
6. `SchedulerWakeups`: every wait and every notification.
7. `ReadCancellation`: leases, stop queue, dispatch thread, OS cancels, thread priorities
   across a stop.
8. `VolumeTopology`: check, unlocked query, store.
9. `ImageFormatDetector`, `DecoderRegistry`, `ImageDecodeDispatcher`: routing and
   fall-through.
10. `ImageGeometry`: thumbnail sizes, mip selection, EXIF orientation.
11. `SchedulerRun`: what the loader's scheduler and the detailed one have in common.

Theorems proved: of the scheduler and its condition variable all safety and action
properties and the refinement of its two abstract specifications; the byte cache, the stopping
of reads, the topology cache, the safety of the loader and its refinement of
`SchedulerRun`, the registry, the routing of a decode and the geometry of its result.

## 10. Running it

    tlc -workers 2 -config MCStages.cfg MCScheduler
    tlc -workers 2 -config MCCancellation.cfg MCCancellation
    tlapm SchedulerProofs.tla
    tlapm RequestStageProofs.tla
    tlapm SchedulerLanesProofs.tla
    tlapm WakeupProofs.tla
    tlapm ImageLoaderProofs.tla
    tlapm CacheProofs.tla
    tlapm ReadCancellationProofs.tla
    tlapm DecodeProofs.tla

`MCContention`, `MCStages`, `MCProgress`, `MCRetune` instantiate `MCScheduler`;
`MCWorstCase` instantiates `MCBytes`, `MCLoaderOverlap` `MCLoader`, `MCLostStop`
`MCCancellation`; the others have a module of their own. Each passing run takes at most
two and a half minutes and has between 9 thousand and 890 thousand distinct states. From nothing
`SchedulerProofs`, `RequestStageProofs` and `SchedulerLanesProofs` take about four minutes
each, the other proofs a minute or less. A leaf near the default time of its prover names
the prover and allows it a minute.
