# A TLA+ verification of Adaptive-LIO

The repository holds two programs that run side by side on a robot:

* **the node** (`src/src/Adaptive-LIO/src`), a LiDAR-inertial odometry that
  publishes a low-latency `/odom` extrapolated from the IMU and, behind it, a
  slower estimator that corrects it scan by scan;
* **the driver** (`src/src/livox_ros_driver2/src`), which finds the LiDARs,
  configures them, cuts their packets into frames and publishes those.

What is hard about both is not their arithmetic but their timing: samples,
scans, packets, answers and stop requests arrive on different threads in an
order nobody chose, and the code has to stay right in all of them. That is what
is modelled here, together with the two data structures the estimate rests on:
the map of voxels and the database of key frames. The estimator's numerics are
not.

Paths below are relative to these two directories unless they start with `src/`.

## 1. Inventory

### The node

| Component | Code | State it keeps | Operations |
| --- | --- | --- | --- |
| IMU quality gate | `algo/imu_quality.h` | last forwarded stamp, per axis the last healthy value and its stamp, the degraded episode (start, recovery count), a fault latch | `Process` |
| LIO input queues | `lio/lidarodom.{h,cpp}`, `algo/aux_time_crop.h` | `lidar_buffer_`, `imu_buffer_`, `aux_lidar_buffer_`, the cursor in the front auxiliary packet, two watermarks, `stopping_` | both `pushData`, `getMeasureMents`, `RequestStop` |
| LIO frame processing | `lio/lidarodom.cpp` | initialiser, ESKF, `last_imu_`, the prediction fault, the voxel map, frame and posterior counters | `TryInitIMU`, `Predict`, `ProcessMeasurements`, `poseEstimation` |
| High-rate output chain | `apps/imu_odom_output.h`, `algo/imu_odom_predictor.h` | sample queue, one-place mailbox for posteriors, predictor (history, filter, anchors), stop and fault flags | `OnImu`, `OnState`, `Run`, `Append`, `Submit`, `Advance`, `Publishable`, `Fail`, `Stop` |
| Threads, faults, shutdown | `apps/main_ada.cpp` | two executors, four worker threads, a cloud queue, a keyframe queue, their stop flags | callbacks, fault routing, the joins |
| Voxel map and its hash table | `lio/lidarodom.cpp`, `common/cloudMap.hpp`, `thirdparty/tessil-src` | a table of buckets, voxels with up to a fixed number of points, when the map was last maintained | `addPointToMap`, `searchNeighbors`, `lasermap_fov_segment`, `grid_sampling`, insertion, look-up and erasure of the table |
| Scan matching | `lio/lidarodom.cpp`, `lio/lidarFactor.h`, `algo/lidar_*.h` | none between frames | `optimize` |
| Static initialiser | `algo/static_imu_init*` | samples, their mean and variance | `AddIMU`, `TryInit` |
| Cloud conversion | `preprocess/cloud_convert/cloud_convert2.cc`, the callbacks in `apps/main_ada.cpp` | segments and their end times, cleared for each message | one handler per kind of LiDAR, `sub_sample_frame`, `SortFinitePoints` |
| Key frames and their database | `scantext_module/src/Mapping.cpp`, `apps/main_ada.cpp` | the gate's last pose and time, a queue of tasks, `keyframes_`, `global_map_`, `saving_`, and on disk `poses.txt`, a cloud and a descriptor per key frame, the saved map | `scantext_cbk`, `addFrameWithSC`, `initDatabaseIfNeeded`, `saveMapAsync`, `saveMap`, the save service |

### The driver

| Component | Code | State it keeps | Operations |
| --- | --- | --- | --- |
| Device registry and handshake | `comm/cache_index.cpp`, `lds_lidar.cpp`, `call_back/livox_lidar_callback.cpp` | slots, per device the wanted settings, `set_bits`, `connect_state` | `GetFreeIndex`, `GetIndex`, the announcement and six kinds of answer |
| Configuration files | `parse_cfg_file/*` | none | `ParseUserConfigs` |
| Packet assembly | `comm/pub_handler.cpp` | raw packet queue, per LiDAR the points collected, the frame, one synchronisation flag, `last_pub_time_` | the SDK callback, `RawDataProcess`, `CheckTimer` |
| Packet queues, publishing loop | `comm/ldq.cpp`, `comm/semaphore.cpp`, `lds.cpp`, `lddc.cpp`, `livox_ros_driver2.cpp`, `driver_node.cpp` | a ring per device, two semaphores, exit flags | `QueuePushAny`, `QueuePop`, `PushLidarData`, `Distribute...`, the destructor |

### How they interact

    SDK thread --raw packets--> packet thread --rings, semaphore--> poll thread --topics-->
                                                                                 |
      /imu ----> IMU callback: quality gate -> output chain (mutex_) -> LIO queues (mtx_buf)
      /scan ---> LiDAR callbacks ---------------------------------> LIO queues (mtx_buf)
                 LIO worker: group -> predict -> match -> posterior -> output chain's mailbox
                                                   |-> cloud queue, keyframe queue
                 keyframe worker: database files, global map -> detached saver <- save service
                 output worker: restore, replay, publish /odom
                 a fault anywhere: output's flag first, then RequestStop of the LIO

The order of the two calls in the IMU callback, the mailbox and the order of
fault and stop flags are what hold the two estimator chains together.

### What is hard, and what makes each part correct

* **Gate.** Several kinds of bad sample in any order must leave a stream the
  two integrators can rely on: ordered, without holes, with substituted values
  that are recent and really measured, and within a budget per bad episode.
* **LIO queues.** Scans may overlap, arrive late or find samples missing; each
  measurement group must hold exactly the samples its scan needs, and no point
  of the auxiliary LiDAR may be lost or used twice.
* **LIO frame.** The sample right of a scan's end is needed by this scan and
  by the next; over a long run each interval has to be integrated exactly once.
* **Output chain.** A posterior about the past is restored and the samples
  since are replayed, while the callbacks go on. `/odom` must only move
  forward, must rest on recent LiDAR data, and must fall silent after a fault.
* **Node.** None of this may depend on the interleaving of the threads, and
  everything must come to rest when asked.
* **Conversion.** Five handlers filter, sort, time and cut messages in slightly
  different ways, and the callback stamps the pieces by other sums: every point
  has to lie within the time its frame is de-skewed over.
* **Voxel map.** Entries are displaced, shifted back and rehashed as the map
  grows and is pruned; a voxel must be found if and only if it is there, a
  neighbour across a voxel border must be seen, and pruning must take the far
  and leave the near.
* **Key frames.** Two gates in a row and a queue that drops must leave no place
  uncovered; the process may end between any two files; service and worker ask
  for saves of a map that is being extended.
* **Handshake.** Answers, refusals, timeouts and repeated announcements mix;
  a LiDAR has to end up sampling, and only when it is configured.
* **Assembly.** Sensor clocks jump and synchronisation comes and goes; points
  must be neither lost nor repeated.
* **Rings.** Two threads, no lock, indices that wrap, a semaphore that is
  looked at without its mutex.

The hazards, each at its line with the properties that watch it, are in
`PROJECT.json`, under `hazards`.

## 2. Modules

    ImuQualityGate            gate; proofs in Admission_proofs
    LioBuffers                queues and measurement groups
    Propagation               one integration leg, shared by both filters
      LioFrame                the worker's processing of one group
        LioChain              LioBuffers + LioFrame
          LioIntake           LioChain + CloudConvert + the callbacks of main;
                              proofs in LioIntake_proofs
      ImuOdomOutput           the output chain's operations
        OutputChain           ... under the contract of its callers; proofs in
                              AdaptiveLio_proofs
          AdaptiveLio         LioChain + OutputChain + callbacks + faults + main;
                              proofs in AdaptiveLio_proofs
      SampleRuns_proofs       runs of samples and the legs over them: the lemmas
                              those three share
    CloudConvert              messages to stamped segments, pure operators
    Odometry                  abstract: what /odom promises
    NodeShutdown              condition variables, queues and joins of main,
                              proofs in NodeShutdown_proofs
    VoxelGrid                 places, voxel keys, the block of a voxel
      VoxelUpkeep             adding to a map, searching it, pruning it, and when
        VoxelBlocks           abstract: the map as a plain dictionary
        VoxelMap              the map in its table; proofs in Maps_proofs
    RobinHash                 the open-addressing table, pure operators; proofs in
                              RobinHash_proofs
    KeyframeStore             key-frame gate, worker, database, saves, restarts;
                              proofs in Maps_proofs
    LidarHandshake            registry, configuration, answers; proofs in
                              Admission_proofs
    PacketAssembly            raw packets to frames; proofs in LidarDriver_proofs
    LidarPackets              rings, semaphore, poll loop, exit; proofs in
                              LidarDriver_proofs
    PacketFifo                abstract: a bounded queue that counts its losses

Each `MC...` module gives small constants to the module it extends; where a
`.cfg` can hold the constants itself there is no MC module. Definitions
introduced by a comment `Slip:` are not part of any specification: each is a
plausible mistake in the operator that follows it, kept beside it to show that
a property can tell the two apart (`mutants` in `PROJECT.json`).

### How state and actions correspond to the code

**ImuQualityGate.** One action per way `Process` returns: refused after the
fault, dropped, one of three faults, forwarded. A reading is healthy or not; a
value is represented by the stamp of the sample it was measured by, so that
"which value was substituted" is visible and "what the value was" is not. Since
the loop over the axes returns in the middle, a refused sample may have recorded
any subset of its healthy axes (`RecordedBefore`). `forwarded` is history.

**LioBuffers.** `PushScan`, `PushAux`, `PushImu`, `GetMeasurements` and `Stop`
are the critical sections under `mtx_buf`. A full scan or sample queue is fatal,
a full auxiliary queue drops its oldest packet together with the cursor in it.
`PacketsPopped`, `Partial` and `NextCursor` are the auxiliary loop's three ways
to treat a packet. A packet is known by its stamp and a point by its packet and
its time, so two points of one packet and one time count as one (they always go
together). An auxiliary packet is delivered at most once, which the transport
guarantees and the time check in `pushData` nearly does.

**LioFrame / LioChain.** A frame is three steps of the worker: predict and match
(`Estimate`, or one of the failing alternatives), hand the posterior over
(`SendState`), maintain the map (`UpdateMap`, `ShowOnly`). Matching is its
verdict, freely chosen: seed, matched or rejected. Initialisation succeeds
freely once `MinInitSamples` good samples are there. `legs` records what the
filter integrated.

**CloudConvert / LioIntake.** The six handlers are one set of operators over the
kind of sensor, because they differ in few places, each named: which sort their
points (`Sorted`), which count from their own first point (`OwnClock`), which
filter by index (`Kept`), which keep absolute stamps (`Stamp`; for that driver
the header is taken to be the stamp of the first point, as its driver writes
it). Points of auxiliary packets end up sorted by time (`SortFinitePoints`), as
`pushData` sorts them. A point has a time, a voxel of the down-sampling and whether it passes the
tests on its coordinates. `sub_sample_frame` after a shuffle keeps any one point
per voxel: `SubSamples` is the set of outcomes. A callback converts a message
(`Receive`, `ReceiveAux`) and then calls `pushData` segment by segment
(`PushMain`, `PushAuxiliary`), while the worker (`IntakeWorker`, all of LioChain's)
takes what is complete. The callbacks of both LiDARs share a mutually exclusive
callback group, so there is one message in hand.

**VoxelGrid / VoxelUpkeep / VoxelBlocks / RobinHash / VoxelMap.** One axis stands for three, which the code
treats alike; `KeyOf` truncates towards zero, as `static_cast<short>` does, so
the voxel at the origin is twice as wide. RobinHash is the table bucket by
bucket. `Find` is the look-up: the first bucket, counted from the key's home,
where the search ends. `Settle` is one turn of the insertion's loop, in which an
entry in hand takes a bucket or goes on, and `Carried` is the loop; `Rehashed` is
the growth, `ShiftedBack` the erasure. The loop turns as often as there are
buckets: an entry that has found its place changes nothing any more, and the
proofs show that there always is one. VoxelUpkeep has what does not depend on how
the voxels are stored: what a frame adds to a map (`Added`), the search
(`Neighbours`), what pruning leaves (`Surroundings`), and when upkeep falls due.
VoxelBlocks is a node that keeps such a map as a function from voxels to blocks.
VoxelMap keeps it in the table, one operation of RobinHash after the other, and
samples frames through a second table as `grid_sampling` does;
`ImplementsVoxelBlocks` maps a table to what is found in it (`Found`). The
properties are stated of the dictionary and checked of the table through that
mapping. A frame is one step of the worker (`ProcessMeasurements`): accepted or
not, upkeep or not, segmentation or not. The verdict of the numerical match is
free; without enough residuals, which the search decides, it cannot be positive.
A key point with enough neighbours gives up to `Closest` of them (`MayMatch`);
which fall to planarity or distance from the plane is the verdict's.
An empty table accepts by the number of points. `InRange` is the bound on places:
their voxels are keys that have a hash.

**KeyframeStore.** Every system call that changes a file is a step, so `Restart`
can come between any two: a process is killed, dies of an exception none of
these threads catches, or ends under the detached saver when main returns. The
steps from `Enter` to `AddToMap` hold `map_mutex_` (`mutexFree`). A frame is its
time and pose; a file is absent, torn or a frame. `wiped` marks the time during
which an older database is being removed. The code looks at no result of writing
`poses.txt`: a line is written, or the stream fails and writes nothing until the
database is opened anew (`WriteLine`, `posesFailed`). A missing line is then all
that may be wrong: the lines that are there are those of the key frames, and
without a failure none is missing.

**ImuOdomOutput / OutputChain.** The callbacks are `OnImu`, `OnState`; the
worker is `Wake` (takes both queues in one critical section), `Work` (append,
submit, advance: private to the thread) and `Publish`. The filter is the
posterior it was restored from and the legs since. OutputChain adds the contract
of the callers, and the refinement of `Odometry`. A fault between `Work` and
`Publish` finds a message in flight; that is why the abstraction has a phase
`closing`, in which one message may still leave.

**AdaptiveLio.** Runs the actions of both chains. `GateForwards` and
`PushForwarded` are the two calls of the IMU callback, with a step of any other
thread possible in between. `Fail` is two steps, the output's flag and then
`RequestStop`, and its callers hold `mtx_buf` or `mutex_` meanwhile: `BufFree`
and `OutFree` are what they block. The gate is represented by its guarantee,
`StreamChained`, which is proved for it.

**NodeShutdown.** A condition wait is split into evaluating the predicate under
the mutex, falling asleep, and waking up, because the difference is the subject.
Two stop flags are set under the mutex of their queue, that of the LIO is not.
The output worker's wait is timed, so it needs no notification and is left out.

**LidarHandshake.** Requests to a device are a bag (`pending`); an answer, a
refusal or a timeout takes one out, and a callback may put one back. Entries are
parsed as the code parses them, eight bits wide and with -1 for an absent member
(`Parsed`, `Int8`). Slots are zeroed as `ResetLidar` zeroes them.

**PacketAssembly.** A packet stands for its points and is the time of its first
one. `sent` is what the frames of a LiDAR held, one behind the other; `points`
and `base` are what the last of them points into and is stamped with. The SDK's
callback is `Arrive`, `PushRaw`, `NotifyRaw`; the packet thread
pops and then assembles, and the synchronisation flag it reads is the one of the
packet that arrived last. Times are whole milliseconds.

**LidarPackets.** Each access to a ring index, a slot or the semaphore's count
that the other thread could see in between is a step of its own. Indices count
modulo `IndexMod`, a multiple of the ring's size, as 2^32 is.

## 3. Runs

| Run | Question | Bounds, and why they are enough |
| --- | --- | --- |
| `admission` | Is the forwarded IMU stream usable whatever is put in? Is a LiDAR configured before it samples, does it get there, in a slot of its own? | Gate: two axes, seven ticks; a hold, a recovery, an exhausted budget, a gap and a clock reset fit in one behaviour; the result is proved for all values. Handshake: three LiDARs for two slots, one listed twice; two announcements, so that a second one meets pending answers. |
| `lio` | From a message to the map: is every interval integrated once, does a group hold what its scan needs, are points of both LiDARs used once and de-skewable, is only what was accepted mapped? | All five kinds of LiDAR. Sweeps of two segments that follow, overlap, arrive late; points that are unsorted, too late, filtered or share a voxel; auxiliary packets across scan borders; capacities of two scans, four samples, one packet, so that overflow and backlog happen; 1.5 million states. |
| `output_chain` | Does the output chain keep its promise under its contract? | Four ticks, each of which may end a scan and bring a posterior, a history short enough to lose a posterior, a queue short enough to overflow, a horizon short enough to expire. |
| `node` | Does the LIO chain keep that contract, and the node its promise, in every interleaving? | Four samples, three scans that follow each other and end at a sample or inside a raw interval; faults from all five sites; shutdown at any time. |
| `shutdown` | Do queues, stops and joins work once the LIO worker has ended? | Three scans against queues of two. |
| `shutdown_lost_wakeup` | Is the LIO worker always joined? | No: see Findings. |
| `packets` | Are the rings FIFOs, does the semaphore strand a packet, and does the poll thread end? | Two devices, rings of two, indices modulo four: with four packets the indices wrap. |
| `handshake_blind_spot` | Does a LiDAR get the value the configuration holds? | No: see Findings. |
| `assembly` | Are points conserved and frames timed, and does the thread end? | Two LiDARs, three packets, sensor clocks in any relation to the host's. |
| `keyframes` | Is the database consistent wherever the process ends, is a save whole, is every place covered? | Four poses, whose steps and turns are below and above the thresholds, any line of which may fail to be written; four frames, a queue of one, a service call against automatic saves, one restart, so that an old database is met and removed; 2.1 million states. |
| `voxels` | Is the table a dictionary, the search complete, the pruning harmless? | Five frames of a robot that goes, stops and returns; all hashes fall on three neighbouring buckets at the end of a small table, so that entries are displaced, wrap around, ask for growth and are shifted back; two points per voxel, so that blocks fill. |
| `map_pruning` | Are voxels beyond `max_distance` suppressed? | No: see Findings. |

`admission` holds two models that share nothing: a behaviour is about the IMU or
about a LiDAR, chosen at the start, and the other model stands still. Its
properties are those of `GateSpec` and of `HandshakeSpec`.

What the properties say is stated above each of them in its module. Deadlock is
not checked where a run may come to rest: inputs are exhausted or the program
has ended.

### Fairness

* `NodeShutdown`: weak fairness of notifications and consumers; strong fairness
  of the LIO worker and of main's shutdown, which compete for a mutex the other
  holds only while it falls asleep: a thread that finds it free again and again
  gets it. No fairness for sensors, for the operator, or for spurious wakeups:
  they may happen and nothing counts on them.
* `LidarPackets`: weak fairness of the packet thread's and the poll thread's
  steps; `Wait` of the semaphore is enabled only while the count is positive.
* `LidarHandshake` (and `AdmissionSpec`, which repeats it): weak fairness of
  registration, which happens during start, and of every pending request being
  answered one way or the other. That is an assumption about device and network:
  a request that is repeated after each timeout does not time out for ever.
* `PacketAssembly`: weak fairness of the packet thread, whose wait is timed.

The other specifications state none; their properties are safety. For the
output worker, whose wait is bounded by a second, the question is not whether it
looks again but whether anything is left over when it is back at its wait: that
is `NothingForgotten`.

### Findings

* **A stop can be missed** (`shutdown_lost_wakeup`). `RequestStop` stores the
  flag and notifies without `mtx_buf`. Between the worker's look at the
  predicate and its falling asleep the notification is lost; nothing calls
  `pushData` any more, and main's join does not return. Storing the flag under
  the mutex, as main does for the two other queues, closes the gap: `shutdown`
  shows it for those.
* **A documented blind spot does not fit** (`handshake_blind_spot`). 200 becomes
  -56 in eight bits; the documented range is 50 to 200.
* **Pruning can miss every maintenance** (`map_pruning`). The map is segmented
  when it is maintained on a frame whose number `fov_segment_stride` divides.
  Maintenance itself happens on every other frame when the robot moves half the
  trigger per frame; if those are the odd ones, a stride of 2 never hits, and
  voxels beyond `max_distance`, "the threshold of the distance to suppress
  voxels from the map", stay for ever. Counting maintenances instead of frames
  would keep the two in step.

Two more behaviours of the handshake are in the model without a run of their
own. A LiDAR whose entry has an address and no setting is asked for nothing, so
no answer ever makes its device sample; the driver's README lists defaults that
the parser does not apply. And a LiDAR without an entry is asked, on its second
announcement, for the zeros `ResetLidar` left in its slot. The save service
answers that a save was started also when `saveMapAsync` skipped it because one
was under way; that older save may lack the latest key frames, and
`SavedMapHoldsRequest` speaks only of the request a save was started for.

## 4. Proofs

`Admission_proofs` proves the four properties `admission` checks of the
gate, its type invariant and `FaultTerminal`, for every set of
axes and stamps and every value of the thresholds, from `GateAssumption` alone:
stamps are naturals, the thresholds positive, and the hold time does not exceed
the longest raw interval, which the gate's constructor enforces.

The invariant has five named parts, each inductive with those before it:

1. `GateTypes`: types, and the recovery counter stays below its target as long
   as the episode is open. `TypeCorrect` follows.
2. `Stream`: forwarded stamps are chained, and `lastStamp` is the last of them.
   It is what `StreamIsChained` needs and what relates the latch to the history.
3. `Values`: a kept stamp was measured, healthy, by a forwarded sample. As it
   stands `HeldValueFresh` says nothing of the values *kept*, only of those
   forwarded; this is its strengthening. After a fault in mid-loop a kept value
   may belong to a refused sample, so the part speaks of gates not yet faulted.
4. `Episodes`: an open episode starts at a clean forwarded sample, and
   `degradedStart` is its stamp. It gives `EpisodesStayWithinBudget`.
5. `Recoveries`: while an episode is open, the last `recovery` forwarded samples
   held nothing. It gives `RecoveryTakesCleanSamples`.

`FaultIsTerminal` needs no invariant. The steps that change nothing or only
latch are dispatched together; forwarding has one step per part.

`Maps_proofs` is about both maps. It proves four of the key-frame store's invariants for any
poses, thresholds, queue bound, number of saves and number of restarts, from
`StoreAssumption`. Its invariant is built in this order: the types of each group
of variables; *exclusion*, the flag of `saveMapAsync` is up while a thread is
between it and its reset, and never two are, which gives `SavesExclude`; *the
map follows the worker*, its frames are the key frames but for the one being
written;
*promises*, what a thread was asked for is in memory, and in its copy once it
has one, which gives `SavesHoldTheirRequest`; *own files*, no number that is
still to be used has a descriptor, and the descriptor of the frame in hand comes
after its cloud, which is what makes `DatabaseIsConsistent` survive an end
between any two writes, and no line is missing unless the stream of poses failed; and *followed*, the gate's pose is that of the last task
queued, of the one in hand or of the last one done, which gives
`PlacesAreCovered`.

Of the voxel map it proves what `voxels` checks: that the hash table is a
dictionary, and the two safety properties of that dictionary. It takes two steps.

`RobinHash_proofs` is about tables alone, with any keys, any hash, any limit on
displacement and any values, from `HashAssumption`: hashes are naturals. A table
is *sound* when four things hold of it.

* `Located`: an entry is as far from its home as it says.
* `KeysOnce`: no key is in it twice.
* `Robin`: from one bucket to the next, entries are at most one farther from
  home. It is what lets a search end at the first entry that is nearer to its
  home than the key looked for.
* `Counted`: no more than half of it is full, so every search and every insertion
  comes to a vacant bucket.

`SearchFinds` and `SearchFails` say that in such a table the look-up finds what is
stored, and stops for any other key at a bucket where that key could be put.
`SettleKeeps` takes an insertion around one bucket: the table is sound but for its
count, and the entry in hand fits the next bucket and comes closer to a vacant
one; so `CarriedArrives`. `RehashedHolds` places every entry of one table in
another, `ShiftsBack` moves a run of entries back by one. Together they show that
`Assigned` and `Erased` leave a table sound and do to the function it stands for
(`MapOf`) what an assignment and a removal do to a dictionary (`AssignedUpdates`,
`ErasedRemoves`). The loops are recursive functions; that such a function exists
and that what its steps keep holds at its end is one lemma for all (`Iterates`).

`Maps_proofs` lifts this to frames, for any hash, any voxel size and capacity, any
distance, trigger and stride, and any scans and motions, from `HashAssumption`,
`GridAssumption` and `UpkeepAssumption`. `FoundIs`: in a sound table, what look-ups
find is what it stands for. `ExtendedAdds` and `SegmentedLeaves`: after the points
of a frame have been added one by one, and after the far voxels have been
collected and erased one by one, that is what `Added` and `Surroundings` say; the
erasures do not disturb the collected ones, although they move entries about.
`SampledFirst`: the sampling table holds the first point of each of its voxels.
Hence frames are accepted and upkeep falls due as over a dictionary
(`AcceptedAlike`), and every step of the table is one of `VoxelBlocks` or a stutter
(`MapStep`, `VoxelBlocksImplemented`).

The properties of the dictionary rest on arithmetic: where the places of a voxel
are on either side of the origin (`VoxelOf`), so that two of them are closer than
twice its size (`OneVoxel`), and a place within *w* voxel sizes is in a voxel
within *w* (`ReachedVoxels`). `NearestMany` shows of any finite set of places that
those with fewer than *W* nearer ones are the *W* nearest, or all; with
`ReachedVoxels` it gives `NearestAreFoundHolds`. For `KeepsWhatItSawHolds` the
invariant `MapInv` adds to soundness that blocks belong to their voxels (`Keyed`):
a point added is kept (`AddedKeeps`, by induction over the points of the frame),
and suppressing what is far takes nothing near, because a voxel's oldest point is
close to all of its places (`SurroundingsKeep`).

`LidarDriver_proofs` has three parts. The first is the raw packets' queue. What
one LiDAR has in it (`OfLidar`) is a recursive function; its equation is shown to
have a solution (`PartsExist`), and by induction over a set of positions (`UpTo`)
a packet pushed comes last and a packet popped came first (`OfAppended`,
`OfPopped`). Then `AssemblyInv`, the types and `PointsConserved` itself, is
inductive: arrived points are those sent, those collected, the packet in hand
and the queue, in this order, and each step moves one boundary of that
concatenation (`PointsConservedHolds`). No step needs to know which clock decides
or what it shows.

The second part is what the arithmetic of free-running indices
needs: remainders are unique, a fill below the range is the difference of the
indices modulo it, the slots of a window as long as the ring differ, all for any
size that divides the range. In the third, `PacketsInv` says for every ring that its
window fits, that every slot of it holds a packet, and for the two threads what
the program counter implies of the packet in hand; with it each step of either
thread is a `PacketFifo` step or leaves the queue as it is (`RingsAreQueues`),
and the count stays below two although it is looked at without its mutex
(`WakeupsAreBinary`). `WakeInv` adds who owes a look at a ring with a live
packet: the count, the packet thread on its way to signal, or the poll thread
in the part of its round that is still ahead. When both are at rest nobody
owes one, so nothing is left (`NothingIsLeftBehind`).

The second half of `Admission_proofs` works for any set of LiDARs, entries and slots. Slots in
use are always the first ones, one to a LiDAR (`SlotsInOrder`), which gives
`SlotsAreExclusive`. `SamplingAfterSettings` is an action property and needs two
more parts: nothing is pending before registration has ended, and then only for
registered LiDARs (`AskedInOrder`), so no configuration changes under an open
request; and once something is pending, each setting of the slot has its bit or
was accepted, while a free slot never samples (`Accounted`).

`NodeShutdown_proofs` shows for every capacity that the queue of clouds is
always the end of what was made and that of the newest ones those no longer
queued have been published (`QueueIsNewest`). With what main has joined at each
of its steps, and the publisher leaving only an empty queue (`Joined`), this is
`LastCloudsArePublished`.

### The two estimator chains

These are the proofs the rest was built for. They go from what one call computes
to what the whole node promises, and each level is a module.

`SampleRuns_proofs`. A queue and a history hold a *run* of the sample stream
(`EndsAt`), and what a filter integrated is a *path* of legs from one time to
another. Consuming moves a run's end, trimming its beginning; replaying a run
from a time inside it is a path between neighbouring samples (`ReplayIsPath`). The
code computes this sample by sample; no induction theorem can be instantiated
here, so such a lemma is proved by its least counterexample (`LeastNatural`,
from the well-foundedness of the naturals), and the model writes the recursion
as a function, whose equation the prover can use.

`AdaptiveLio_proofs` starts with the output chain by itself. `ChainInv` says of it,
with any times, capacities, history bound and horizon:

* `Flows`: history, batch and queue are consecutive runs of the stream, the
  queue its end as long as no fault has been latched (`Pipeline`), so an append
  never has a gap to bridge.
* `Numbered`, `InHand`, `Newest`: posteriors are numbered as they were given, what
  the worker or the mailbox holds is one of them, and a mailbox that is not
  empty holds the newest. This gives `MailboxIsNewest`.
* `Control` and `Restored`: the anchors are those of the posterior the filter was
  restored from, and the filter's legs are a path of neighbouring samples from
  there. This gives `ReplayIsExact`.
* `Faultless`: the predictor holds no fault but the one of the batch in hand, and that
  one is a posterior older than the history. It gives `OnlyHistoryMissFaults` and
  `NoPosteriorWaits`, and with `Pipeline`, `NothingForgotten`.
* `Emission`: what may leave next is newer than what left last and rests on a
  posterior no older than the horizon.

`AdvanceOutcome` and `WorkOutcome` state what one round of the worker amounts to:
it misses the history and fails, it idles, or it stands on its posterior. With
them every step is a step of `Odometry` or a stutter (`ChainImplementsOdometry`).
The assumptions are that times are naturals and `NoUpdate` is no posterior.

`LioIntake_proofs`. `LioStep` is what any callbacks and the worker may do to the
LIO chain, in `LioIntake` as in the node; `LioInv` is inductive under it. Beyond
types it says: the samples are chained (`SampleStream`); the queue is the end
of the stream, but for what groups have consumed (`Queued`); a group's run ends
with the first sample past its scan, which stays in the queue for the next
(`Grouped`); the filter stands between the last sample it used and the one
behind it (`Placed`); frames and posteriors are numbered in step (`InTurn`);
what is in the map has a posterior of its own (`Mapped`). From it follow
`ImuRunCoversScan`, `PredictionIsExact` and `MapOnlyFromAccepted`, and that the
prediction fails for nothing but a late scan: `FaultsOnlyOnLateScan`.

`IntakeInv` adds the callbacks of both LiDARs:

* `AuxInv`: queued packets start one behind the other, and neither the unread
  rest of one nor anything still to come was handed on before (`AuxQueued`,
  `AuxRead`). What a cut does to the front packet, takes whole or leaves, is one
  lemma each; together they give `AuxPointsOnce`. Since the packets follow each
  other in time, the one the loop stops at has every later point behind it:
  `AuxNoneOverlooked`.
* `Held`, `Clouds`: what a handler produces, whatever the kind of sensor, sorted
  or cut, has no point later than its segment's end, and down-sampling, queueing
  and grouping keep that.
* `Trajectory`: while a frame is handed over, its legs are a path from the
  previous estimate to the scan's end. A path reaches every time in between
  (`PathCovers`), which with `Clouds` is `DeskewCoversPoints`.

`IntakeAssumption` says what a message is: IMU stamps are naturals; the extent of
a sweep is divided by the number of its segments, because times are whole ticks
where the code's are real; kinds that neither sort nor filter have no point
later than their last one; the driver with absolute times stamps a message with
its first point; auxiliary packets have no point outside their extent and do not
overlap, as the comment on the loop's early exit says they do not
(`lio/lidarodom.cpp`, in `getMeasureMents`). `FailsOnlyLate` is where the code's tests on neighbouring samples are
shown never to fire behind the gate.

The rest of `AdaptiveLio_proofs` composes the two. A step of the node is a `LioStep` or leaves that chain alone,
and likewise a step of the output chain (`NodeIsSteps`), so both invariants
carry over once the node is shown to keep what they ask of callers. For that
`NodeInv` adds: both chains got the same samples, but for the one between the two
calls of the IMU callback, until something stops the LIO (`HandedOver`); scans
and the filter stand at sensor times (`ScansTimed`, `FilterTimed`); posteriors of
both chains agree, but for the one in hand (`GivenInTurn`); the fault latches
come in order (`Latched`); what main has joined has ended (`Joined`). Then:

* `ContractKeptHolds`: the node gives the output chain exactly what
  `OutputChain` assumes: samples chained, posteriors about the past and in turn.
  An invariant of one chain thereby becomes an invariant of the node, and
  `NodeImplementsOdometry` follows without looking at the output chain again.
* `NodeChainsAreExact`, `NodeFaultsOnlyOnLateScan`: both filters integrate every
  interval once, whatever the threads do.
* `FaultReachesOutputFirstHolds` and `QuietAfterStopHolds`: a stopped LIO
  means a stopped or faulted output; after that nothing is published.

`NodeAssumption` asks only that a scan end at a sensor time.

### Only model-checked

The prover has no rule for fairness, nor for `ENABLED`, so what must eventually
happen is checked by TLC on the instances above and not proved:
`AskedGetsSampling` (`admission`), `ConsumersAreJoined` and `ReadyScanTaken`
(`shutdown`), `ExitFollowsNextPacket` (`packets`), and `UninitReturns` (`assembly`).
The three violations under Findings are counterexamples, which TLC finds.

## 5. What is left out

* **Numerics**: filter, matching, initialiser statistics, rotations. Their
  outcomes are free choices, so every property holds whatever they compute.
* **Voxel keys that wrap.** Keys are shorts; the model's places are within the
  range where the cast is exact. Far points, which need other numbers of
  neighbours, rotation and the choice among residuals are left out with the
  numerics. So are the exceptions of the table at its maximum size and its
  shrinking, which a minimum load factor of zero disables.
* **Messages with undefined handling**: without points, without extent or with
  points beyond the last one, for the handlers other than the Livox ones, which
  read `points.back()` or index a segment unchecked. The older `CloudConvert`
  is not used by the node.
* **Scan-context descriptors** and the loading of a saved map; `saveDatabase`,
  which nothing calls. The shift between two descriptors that `test_scantext.cpp`
  expects is a matter of their arithmetic.
* **Vendored code** apart from the hash table, message and parameter plumbing,
  and tests. They are most of the repository's lines (Sophus, the rest of tessil,
  evaluation tools), hold no state the node shares, and set the upper bound of
  what a map from definitions to lines can cover.
* **A partly predicted state after a failed prediction** cannot be observed: the
  prediction fault stops the worker before the filter is used again.
* **`RestoreSnapshot` failing** cannot happen after `Submit` has validated.
* **Exceptions of the output worker** and of the consumers; parameter set-up;
  topics and message formats; logging and statistics.
* **The initialiser's window**, which drops its oldest samples: success is free
  once enough have been counted.
* **The driver's IMU queue**, a deque under a mutex with the same semaphore
  protocol as the rings; empty packets; SDK callbacks running concurrently with
  each other; stores of one thread becoming visible out of order (ARM).
* **Messages of the LiDAR in `node`**: `AdaptiveLio` starts from scans as
  `pushData` gets them; `lio` covers how they come about, and the auxiliary ones.

## 6. Plan

In the order of importance; done items are the modules above.

1. Gate, queues, frame, output chain, node, shutdown: done.
2. Driver: handshake, assembly, rings: done; the IMU path and the three stages
   composed are left.
3. Cloud conversion, key frames and their database, the voxel map and its hash
   table: done.
4. Proofs: gate, handshake, key-frame store, rings, shutdown, both estimator
   chains with the points of both LiDARs, the node, the driver's packets from
   the SDK's callback to the frames and through the rings, the hash table, and
   the voxel map in it: done. Every safety property of a passing run has its
   theorem.
