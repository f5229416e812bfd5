# A formal model of SOTA-Paddle-MTMC

The program tracks people over several cameras and gives each person one
global identity. Its hard part is not the neural networks but what surrounds
them: a chain of threads, child processes and containers connected by Redis
streams, each writing to several stores without a transaction, with queues,
watchdogs, retries and caches on the way. This directory models that system
in TLA+, checks it with TLC on small instances, and proves its main safety
properties for all values of the constants with TLAPS.

Run everything from this directory: `tlc -config X.cfg M` for the runs listed
in `PROJECT.json`, `tlapm X_proofs.tla` for the proofs.

## 1. The system

```
 PP-Human children (one per camera; monitors, watchdog)     RTSP cameras
   |  MOT files    | stream:detections, frames in MinIO        | reader
   v               |                                           v
 MultiCameraRunner |                                    ring buffer (sidecar)
   | frame results v                       SAHI workers
   |       DetectionEventConsumer               | extra boxes
   +------------> TrackletCollector <-----------+
                        |  row in tracklets, then stream:tracklets
          +-------------+--------------+
          v                            v
      ReIDWorker               TransReID sidecar (own container)
 (no-op in production)         | points in Qdrant, stream:embeddings
                               v
                    GlobalIdentityResolver
        | PostgreSQL, Redis, Qdrant, audit row
        +--> stream:identity_decisions --> telemetry (MQTT), overlay cache,
        |                                  evidence re-key
        +--> stream:zone_events ---------> telemetry (dwell sessions)

 PELSweeper: claims old pending entries of every stream:* group, appends them again
 beside it: seeding at start, retention, /health, benchmark and release gate
```

| component | state | operations | what makes it correct |
|---|---|---|---|
| Redis streams (`storage/redis_state.py`) | entries, per group a cursor and a pending list | `publish` (XADD MAXLEN ~), `consume` (XREADGROUP `>`), `ack` | no message is lost to a group |
| PEL sweeper (`workers/pel_sweeper.py`) | the entries it has claimed | XAUTOCLAIM, XADD of a copy, one XACK | recovery loses nothing, and comes to an end |
| Detection consumer (`workers/detection_event_consumer.py`) | `_queue`, `_pending_ids` | read, parse, enqueue or drop, `_drain` | nothing acknowledged before it is processed; what fails is retried |
| Tracklet collector (`workers/tracklet_collector.py`) | `_in_flight` under a lock | `on_detection`, `on_frame`, `on_sahi_detection`, `finalize_stale`, `emit_closed_tracklets` | each tracklet emitted at most once; silent tracklets leave |
| Sidecar and ReID worker (`reid/transreid_sidecar.py`, `workers/reid_worker.py`, `utils/frame_buffer.py`) | the points of a tracklet, a ring of frames | load frames or crops, cut, upsert, announce | a point shows the tracklet's person |
| Resolver (`identity/*.py`) | none of its own; writes five stores in turn | search, decide, create / link / mark / backfill / audit / publish | every embedding decided and audited; stores agree; impossible transitions and ambiguous merges never happen |
| Telemetry and dwell (`workers/telemetry_worker.py`, `zones/dwell.py`) | open dwell sessions, in memory | open, force-close | a session has its row; repetition opens no second one |
| Overlay cache (`workers/identity_overlay_cache.py`) | bindings (camera, local id) with expiry | apply, look up, re-associate | a label is the identity decided for the track, or a fresh one of its camera |
| Camera runner (`workers/multi_camera_runner.py`) | two bounded queues per camera | put with a drop policy, drain, stream, stop | frames in order, drops counted, all loops end |
| Reader, streamer (`utils/resilient_reader.py`, `streaming/mediamtx_streamer.py`) | a capture, an ffmpeg child | read, reconnect, push, stop | a source that comes back yields frames; no stray child |
| PP-Human manager and adapter (`detection/pphuman_pipeline.py`) | children, monitors, stamps, `os.environ`, the MOT buffer | spawn, poll, stall, respawn, stop; stream, tail, `get_detections` | a camera is watched under its own name until it is flagged; frames complete |
| PP-Human child (`detection/_vendor/paddledetection_pipeline.py`) | frame queue, upload cache | capture, track, upload, XADD | a frame link names the event's own frame |
| MQTT (`telemetry/`, `integrations/mqtt_publisher.py`) | queue, retry thread, paho client | offer, retry, stop, start | no payload vanishes uncounted; order |
| Seeding (`seed/legacy.py`) | tables and fingerprints | check, write rows, record | after a finished seeding a table is behind its file only for a failed call |
| Process (`main.py`) | children and who replaces them, the stop event | boot, signals, loop, teardown | a stop leaves no child but one on its way; a signal is heeded |
| API, retention, runtime mode, benchmark and gate (`api/server.py`, `scripts/`, `core/runtime_mode.py`) | a probe cache; store rows; a mode; reports | probe; expire; resolve; judge | recent answers; no identity comes back unnoticed; nothing invented in production; no release without a good report |
| Geometry, drawing, offline evaluation, CLI | pure, or I/O | | section 7 |

Behaviours that are hard to test here:

* **Delivery.** A worker that fails leaves its message pending and never reads
  it again (`consume` asks only for `>`). Recovery is the sweeper's: it appends
  a copy to the *whole* stream and acknowledges the original for *one* group,
  with several Redis calls any of which may fail.
* **Several writers, no transaction.** The resolver writes PostgreSQL, Redis,
  Qdrant, the audit table and a stream one after the other; the sidecar may
  overwrite the same Qdrant points meanwhile; a second pass after a failure may
  decide otherwise. Seeding and retention write their stores step by step too.
* **Decisions under a limit.** The search returns a bounded number of points,
  filters by the time stamps of single points, and drops cameras whose query
  failed.
* **Two retries at once.** What the detection consumer failed on is retried
  from its own queue and by the sweeper; an MQTT publisher that is stopped and
  started again may have two retry threads.
* **Threads beside the pipeline.** Finalizers, drain threads, monitors, push
  and tail threads share queues, process handles and `os.environ`, mostly
  without a lock, and stop() races all of them.
* **Parallel lists.** Frame links and boxes of a tracklet are two lists that
  one failed upload brings out of step.

`PROJECT.json` lists these and the other hazards at their lines.

## 2. Modules

| module | models | composed with |
|---|---|---|
| `AtLeastOnce` | the contract of a stream: what each stage may assume | abstract specification of `StreamDelivery` |
| `StreamDelivery` | one stream, its groups, trimming, workers, the sweeper | implements `AtLeastOnce` |
| `DetectionConsumer` | the consumer of `stream:detections` with its queue | `Services` |
| `TrackletCollector` | open tracklets, two finalizers, emission | |
| `IdentityPolicy` | links, scores, decision tree (no state) | used by `IdentityResolution` |
| `IdentityResolution` | sidecar and resolver and the stores they write | `IdentityPolicy`; its message passing assumes `AtLeastOnce` |
| `DwellSessions`, `OverlayCache`, `CameraQueues`, `ResilientReader`, `PPHumanPipeline`, `MediaMTXStreamer` | the threads beside the identity pipeline | `SideThreads` |
| `MotFrames` | MOT file, `stream()`, tail thread, frame buffer, worker | |
| `MqttPublishers`, `TopologySeed`, `PPHumanChild`, `BenchmarkGate`, `ProcessLife`, `StreamHealth`, `HealthProbe`, `Retention`, `ProductionGate`, `TrackletCrops` | the services around it | `Services`, with `DetectionConsumer` |
| `SideThreads`, `Services` | several parts in one specification | |
| `*_proofs` | theorems about the module of that name; `SideThreads_proofs` about `CameraQueues`, `ResilientReader`, `PPHumanPipeline` and `MediaMTXStreamer`, `Services_proofs` about `OverlayCache` and the services without proofs of their own | |
| `MC...` | instances for TLC | |

The parts of `SideThreads` and of `Services` share no variable. `part` (or
`service`) is chosen in the initial state and only that part moves, so the state
space is the sum of theirs and not the product: a property of one part cannot
depend on the others' steps. What the other parts may choose at their start
is fixed. Where components do interact - streams with groups and sweeper,
sidecar with resolver, collector with its finalizers and stores, children with
monitors and stop(), resolver with retention, benchmark with gate, collector
with crop loading - they are in one module together.

Definitions whose comment begins with "Mutant:" are plausible bugs of the
definition that follows them; no specification uses them. Each shows that a
property would notice that bug.

### StreamDelivery

`log` is everything ever appended, so an entry's id is its index; `first` is
what MAXLEN has trimmed; `cursor[g]` and `pel[g]` are the group in Redis;
`hand[g]` is the `for msg_id, fields in msgs` loop of the worker; `handled[g]`
is history. `Publish` and `Consume` are `RedisState.publish` and `consume`
(`MAXLEN ~` may trim nothing or anything beyond the newest MaxLen). A worker
handles its batch in order (`Handle`, `HandleFails`) and acknowledges
(`Ack`, `AckFails`). The loops differ in one place: the sidecar catches an
exception of XACK, the in-process workers do not, and their thread ends
(`AckGuarded`). `SweepClaim`, `SweepRequeue`, `SweepAck` and their failures are
`_sweep_group` and `_requeue_claimed`, one Redis call a step. A call may fail
before or after the server executed it.

### DetectionConsumer

`queue` and `pending_ids` are the two lists the thread keeps side by side;
`batch` the rest of the reply it walks through; `draining` says it is inside
`_drain`. `Discard` is both early exits of the loop (invalid, queue full),
`Enqueue` the append of both lists, `DrainEvent` and `DrainFails` one turn of
`_drain`. The sweeper is one step here, because `StreamDelivery` has its
details: the entry is appended again and acknowledged. An entry the thread is
just walking through is old enough for that only if the thread is late (a
fault); an entry that waits in the queue always gets there. `owed` and
`repeats` are history.

### TrackletCollector and TrackletCrops

A key is a pair (camera, local id). All code under `_lock` is one step; the
calls of `emit_closed_tracklets` outside the lock are one step each. `closed[f]`
is the list that finalizer `f` took away: the auto-finalize thread ("auto") or
the main loop ("main"). An exception in the auto thread abandons its list
(`lost`); in the main loop it ends the process, because `main.py` catches
nothing around `emit_closed_tracklets`. Detections carry the time of their
frame, up to `MaxLag` late, and `on_frame` opens a tracklet before it has a
usable crop (`OnFrameNoCrop`: no `end_time`). Crops, boxes and embeddings are
abstracted to whether the tracklet is `rich` enough for the length gate.

`TrackletCrops` is what the collector captures for ReID, `frame_uris` beside
`frame_bboxes` and `crop_uris`, and what the sidecar or the ReID worker makes
of them: which of the four ways it takes, how it pairs URIs and boxes, which
points it overwrites, and the RTSP ring with its reader thread
(`_drop_oldest_and_put` in its three steps). A picture is the pair of the frame
it is cut from and the frame its box was found in.

### IdentityPolicy and IdentityResolution

`IdentityPolicy` is `scoring.py`, `ambiguity.py` and `camera_topology.py` with
percentages for floats. The exponential decay over time is a constant table.
`zone_transition_score` is always 0.5, because no caller passes a previous zone.

In `IdentityResolution` a constant `scene` says which camera saw each tracklet
and how similar each pair looks; the model explores all orders and times of
processing. `point[t]` is the payload shared by a tracklet's Qdrant points
(global id and time stamp). The sidecar takes two steps (`SidecarUpsert`,
`SidecarPublish`), so that the resolver can run between them. The resolver
carries out one decision at a time, one store per step, in the order of
`_resolve_inner`: `ResolverDecides` (search and decide), `CreateIdentity`,
`LinkTracklet`, `MarkSeen`, the backfill's read and write as two steps,
`AuditDecision`, `PublishDecision`. `Returned` is the search with its limit,
applied as in the code *before* the tracklet's own points are removed;
`PerCameraBest` is the loop that keeps one hit per camera, and an equal one.
A fault stops a handler between two steps, makes one sub-query or one
best-effort write fail, or brings a finished message back.
The points of a tracklet are written in one step; the code writes them one by
one, and goes on only when all were written.

### The side threads

* `DwellSessions`: the zone-event half of `TelemetryWorker` with its
  `DwellBookkeeper`; a failed insert or upsert, a failed write in the force-close
  loop, a restart that forgets the open sessions, and the sweeper, which claims on
  idle time alone: an entry the thread still has in its batch, too, when the thread
  is late (a fault). The only
  producer of zone events publishes "enter" and never "exit", so sessions end by
  age.
* `OverlayCache`: the XREAD thread that starts from "$", and `lookup`, which the
  drain thread calls: a track without a binding borrows the camera's latest.
* `CameraQueues`: worker, drain thread and `stream()` of one camera with both
  queues, each put, eviction and get a step; the policy is chosen at the start.
* `ResilientReader`: the generator with its two loops, `capture` and the age of
  `_first_failure_ts`.
* `PPHumanPipeline`: `child`, `monitor[c]` (where the monitor thread is; its poll
  and its stall test are two steps), `stamp`, `environ` (the variable that
  `run_pipeline` writes and copies in two steps), `toStop` (the cameras stop() has
  still to pass). `StreamHealth` adds what becomes of a crash: the tail
  thread, which goes on reading the files of dead children and ends with stop()
  alone, the watchdog, `crashed_cameras`.
* `MediaMTXStreamer`: push thread and stop() over the handle `_process`, each
  statement that reads or writes it a step.
* `MotFrames`: the file the child appends to, the passes of `stream()` with
  `last_seen`, the tail's buffer, and the worker that asks for frames.

### The services

* `MqttPublishers`: `kind` is the publisher ("direct" is the one in use; the
  queueing ones are created by tests only). paho, its own outbox and the broker
  are external.
* `TopologySeed`: a row per file stands for its rows; the pool's `dict_row` makes
  `row[0]` a KeyError.
* `PPHumanChild`: the vendored pipeline with the project's patches: capture
  thread, bounded queue, frame loop, `_cache_frame_to_minio`, XADD, and the three
  ways the child ends.
* `BenchmarkGate`: preflight, benchmark, operator and gate over the files they
  share. `ProcessLife`: `build_app_context` and `main` in order, with failures,
  signals and the teardown, beside children that end and threads that replace them
  and that no stop ends; `caught` are the children whose replacement was under way
  when runner.stop() ran. `HealthProbe`: `/health` with the MinIO cache.
  `Retention`: one pass beside late resolutions. `ProductionGate`: who may invent
  detections or features, by mode.

## 3. Runs

| run | question | result |
|---|---|---|
| `delivery` | Can a message be lost by any order of crashes, failed calls, trims and sweeps? Does recovery end, does every message get handled? Does the stream implement `AtLeastOnce`? | holds |
| `collector` | Is a tracklet ever emitted twice, lost unaccounted, or stuck? | holds |
| `identity` | Do the stores agree, are matches feasible and identities final, what costs an orphan identity? | holds |
| `identity_live` | Is every tracklet decided in the end? | holds |
| `side_threads` | The six parts of `SideThreads` (properties below) | holds |
| `services` | The eleven parts of `Services` (properties below) | holds |
| `failed_detection` | Is an event put back into the queue retried, as the comment says? | **violated** |
| `ambiguous` | "Ambiguous candidates are NOT auto-merged" | **violated** |
| `two_places` | "impossible transitions are hard-blocked" | **violated** |
| `joinable` | "the joinable column matches the audit" | **violated** |
| `mot_frames` | "the official MOT detections for frame_id" | **violated** |
| `seeding` | "a stored fingerprint makes warm restarts a no-op" | **violated** |

### What the violations show

* `failed_detection`. `_drain` is called only after an append. One event that
  the collector always refuses blocks the queue: every later message is queued
  behind it until the queue is full, and from then on each message is
  acknowledged and dropped by the overflow branch, which skips `_drain`. The
  queue is never tried again, even if the collector would now accept.
* `ambiguous`. The margin compares the best hit of each *camera* among the TopK
  points returned. A second identity on the same camera as the best hit, or
  crowded out by the tracklet's own points, is never a rival; a single hit has
  a margin of 1.0.
* `two_places`. The travel window is a filter on the time of a stored point,
  not on the latest sighting of the identity.
* `joinable`. `tracklets.global_id` is written first, the audit row last. A
  stop in between and a second pass that does not assign leave the column with
  an identity no audit row names.
* `mot_frames`. `stream()` moves `last_seen` to a frame with its first
  detection and skips the others of the frame: with two people in the picture
  the worker gets one. The same test discards what a replaced child writes until
  its frame numbers have passed the old ones.
* `seeding`. The first start records fingerprints; every later one raises
  KeyError when it reads one (`row[0]` of a dictionary row), which `main.py`
  logs and survives with the tables as they are. The test passes because its
  cursor returns tuples.

### Properties worth a comment

* `NoLoss` and `ImplementsAtLeastOnce` depend on the order "append, then
  acknowledge" in the sweeper and "handle, then acknowledge" in every worker.
  `SettledForGood` says recovery stops: since a copy goes to all groups, a
  message owed to nobody must not come back.
* `RepeatsAreFaults`: although queue and sweeper both retry a refused
  detection, it is collected once more than it should be at most once per
  failure.
* `UnannouncedAreFaults`: an exception abandons a whole list of tracklets but
  leaves at most one row per finalizer that is never announced. When the main
  loop dies the auto thread dies with it, hence the factor.
* `IdentityIsFirm`, `StoresAgree` hold for tracklets that no fault has touched
  (`disturbed`); `joinable` shows why the restriction is needed.
* Several properties name the gap the code leaves, and hold beside it.
  `SessionsHaveRows` excepts sessions whose `upsert_dwell` failed: memory has
  opened them, and the redelivered message is acknowledged without a row.
  `NoChildLeftBehind` excepts cameras whose monitor was past its poll when
  stop() ran. `OwnCamera` excepts two respawns at the same time. `NoStrayChild`
  excepts stop() meeting a reconnection. `DropsAreCounted` says what the counter
  knows (the first queue, with an over-count under `drop_newest`) and nothing
  about the second. `RecoversOnceOpened` needs the first open to have succeeded.
  `ChildrenAreStopped` excepts kills, failed boots, swallowed failures, and the
  children whose replacement was under way when runner.stop() ran.
  `ArrivalsInOrder` excepts the legacy publisher, which puts a failed payload at
  the tail, and a start() that overtakes the old retry thread. `PointsAreOwn`
  excepts tracklets with an upload missing before the point. `SkippedRowsAreFaults`
  leaves out tables whose camera is missing. Each exception is a state the code
  reaches; none is wider than that.
* `CrashIsNotMasked` is about a crash that was reported. A camera that falls
  silent without exiting is masked: the adapter's one watchdog has one time
  stamp for all cameras, and the others renew it.
* `GateIsSound`: reports are written to a temporary file and renamed, so a kill
  leaves the old ones, and a production report that missed a bound of the gate
  is refused while it is the newest.

## 4. Bounds

* `delivery` (224,526 states): two messages, the two groups of
  `stream:tracklets` (one with a guarded XACK, one without), reads of one, MaxLen
  2, two faults. Two faults give a crash during the recovery from a crash; MaxLen
  2 makes trims reach pending and undelivered entries; the log grows only by
  publishes and sweeps. Every property but the liveness is also proved for all
  values, batches included (section 6).
* `collector`: two keys, three tracklets, detections up to time 1 arriving up
  to one tick late, idle times 1 and 2, one fault. Both finalizers can hold
  lists at once, a key can be reopened, and a list can hold two tracklets.
* `identity` (868,032 states): three tracklets on two cameras with a one-way
  link and a disabled row, times 0..2, two crops each, a limit of four hits, one
  fault, and four scenes: the same person throughout, two look-alikes, and two
  mixtures with similarities on both sides of the thresholds (the production
  values 0.82, 0.72, 0.92, margin 0.04, override 0.95). A limit of 4 for 6
  points stands for 10 over tracklets of up to 15 crops. The runs `ambiguous` and
  `two_places` need no fault.
* `identity_live` (62,438 states): one scene, times 0..1, one fault.
* `side_threads` (445,510 states), by part:
  - dwell (216,420): two pairs, two events up to one tick old, sessions that are
    stale after one tick, reads of two, one fault: a force-close pass over two
    sessions that fails at the first, a batch whose second event is redelivered, an
    entry that is swept while it is being handled.
  - overlay (66,032): two cameras, two tracks and two identities, TTL 1, two
    decisions, one restart: an expiry between two lookups, two tracks that borrow.
  - queues (44,621): both queues of two, six frames: both full with frames left
    over, an eviction that finds the queue emptied, under each policy.
  - reader (281): three outages. Its states are few because the generator has
    one thread; outages, failed reads and both loops occur.
  - pipeline (115,504): two cameras, one restart each, one exit: two respawns at
    the same time, the cap reached, stop() at every point.
  - streamer (2,652): four children, a limit of two attempts.
* `services` (359,749 states), by part:
  - consumer (28,494): two valid detections and one that does not parse, reads of
    two, a queue of two, three faults: enough to refuse two events, fill the
    queue, overflow, and lose an acknowledgement or restart on top. `Copies` never
    stops the sweeper: three copies besides the original do not occur alive at a
    time with these faults.
  - publishers (98,915): two payloads, a queue of two, two attempts, two retry
    threads, two outages or raising calls.
  - seed (24,304): two edits, two failing calls: a partial seed followed by an
    edit and another partial one.
  - child (37,202): a queue of two frames, two tracks, three frames, two failures.
  - release (47,436): two benchmarks, one of them killed, the preflight and the
    operator at any time. life (6,916): two failing steps, both
    kinds of children ending and being replaced at any time. health (694): two
    cameras. mode (7,687): all combinations of what is asked and installed.
  - probe (50,214): two requests, a TTL of 3 and probes of up to 2, time to 6.
  - retention (37,216): two identities, a window of 1, lateness up to 2, time to
    4, one failure: an expiry, a late match before and after a pass.
  - crops (20,669): three detections, two crops at most, a ring of two for four
    frames, two deliveries: an upload missing in front, points overwritten, a ring
    that is evicted while it is read.

Runs that switch off TLC's deadlock check do so because the model stops when
the bounds are used up (all that is published has been handled, time is over, or
the process has ended).

## 5. Fairness

* `delivery`: weak fairness of reading, handling and acknowledging for
  each group (the loops run for ever) and of the sweeper's claim, requeue and
  acknowledge (its loop catches every exception and sleeps a fixed interval).
  Nothing forces a dead thread to be restarted: an in-process worker whose XACK
  raised stays dead while its process lives. So the property assumes that the
  group's worker is eventually up for good.
* `collector`: time passes, and the auto-finalize thread comes back after each
  exception. Of the main loop only the emission it has begun is assumed to go
  on: in production it blocks in `runner.stream()`.
* `identity_live`: sidecar and resolver keep taking steps, that is, a thread or
  container that died is restarted (by the operator or the restart policy).
* `side_threads`: the loops of one camera's worker and of the drain thread, and
  the exit of `stream()` (each loop looks at its stop flag with a bounded wait);
  the reader, which its worker calls in a loop; each camera's monitor, a loop
  around a sleep. Nothing is assumed of children, cameras or stop().
* `services`: for the consumer, its thread (whose loop catches Redis errors and
  goes on), the sweeper, which returns to each pending entry, and the cameras,
  which keep publishing; for the process, its main thread. Nothing is assumed of
  operators, brokers, signals or frames, and `SignalIsHeeded` therefore says "or
  no frames flow".

## 6. Proofs

All theorems hold for every value of the constants that satisfies the named
assumptions (`SizesAssumption` and the like); TLC evaluates these on the runs.

**`StreamDelivery_proofs`**: `TypeCorrect`, `NothingLost` (`[]NoLoss`),
`DeliveredOnce` (no entry is handed out twice),
`SettledStays` (`SettledForGood`), and `AtLeastOnceHolds`: the stream implements
`AtLeastOnce`. `NoLoss` alone is not inductive: when the sweeper's XACK removes
the entries it moved, their copies must be known to exist. `IInv` adds
`GroupBounds` (what a group has seen lies within its cursor, and the cursor within
the log), `TrimBound`, `ClaimBounds` (the sweep in progress speaks of entries that
existed when it began: `upto`) and `MovedCopied` (each moved entry has a copy above
`upto`, which is live for every group in its own right). One lemma per action
shows that it preserves `IInv`. The refinement reads `Outstanding`, `Done` and
`Expired` off the log; every step is a Publish, Complete, Settle or Redeliver of
the contract or leaves it alone. The sweeper's XACK is the step that needs
`MovedCopied`: it settles nothing that has no younger copy.

**`DetectionConsumer_proofs`**: `DetectionTypeCorrect`, `QueueInStep`
(queue and id list aligned), `NothingSilentlyLost` (`[]NoSilentLoss`). `DInv` is the
three together and `DrainsSomething`: the thread is draining only while its
queue is not empty. The heads and tails that `_drain` takes exist because of
`DrainsSomething` and `InStep`, and the acknowledgement after an event is the
event's own, so that nothing else loses its entry, because of `InStep`.
`RetriesAreBounded` (`[]RepeatsAreFaults`) needs a `Ledger`: every message that may
still bring a detection to the collector again, wherever it is (stream, pending
list, batch or queue), is charged to a fault of its own, and no fault carries two.
A second copy comes into being only by a failed call, which pays for it.

**`TrackletCollector_proofs`**: `TypeCorrect`, `NeverInTwoPlaces`
(`[]InOnePlace`), `MessagesHaveRows` (no message before its row), `StrandedAreFaults`
(`[]UnannouncedAreFaults`). `PInv` says that the six places of a tracklet partition
the ids opened so far (`OwnIds`: an id names one tracklet; `IdsShared`: no two places
share one). `RInv` adds that rows belong to announced or stranded tracklets, or
to the one a finalizer is just emitting (`RowOfNext`), so that a fault strands at
most one row per finalizer; the counting uses the library's cardinality facts.

**`IdentityResolution_proofs`**: `ResolutionTypes`, `SettledHasRow` (what the
resolver acknowledged is audited), `PublishedHasRow` (what it announced is audited),
`UndisturbedStoresAgree`, `MatchesFollowLinks` (`[]MatchesAreFeasible`),
`SinkNeedsOverride` (with the Stage-3 threshold above 90 percent a camera without
outgoing links matches itself only by the cosine override: the weighted score
cannot reach it, its camera and zone factors being neutral), `IdentityStaysFirm`.
The invariant relates the stores by the phase a tracklet is in: `Stories` says that
an undisturbed tracklet is unannounced, waiting, carried by the resolver or decided,
and what each store holds in that phase; `Working` says it of the resolver's task step
by step; `GidsMinted` and `Followed` (every decision obeys the policy) complete it.
`OrphansStandForFaults` (`[]OrphansAreFaults`) counts: `Accounted` charges each
identity that no tracklet bears, and each message that finds its tracklet already
linked or shares it with another message, to a fault of its own, so that a
redelivery that mints anew has been paid for when it was put back.

**`DwellSessions_proofs`**: `RowlessSessionsAreFaults` (`[]SessionsHaveRows`) and
`RowsRepeatForFaults` (`[]RepeatedRowsAreFaults`), with the types. `Deliveries`
says where messages are: in the mailbox or unacknowledged, once each; one of the
batch is among the latter or, swept from under the thread, back in the mailbox.
`EventRows` and `OpenRows` say who may still add a row: a message has used up a row
less for each delivery that is still to come or has not inserted yet (`Due`: at
most two, when it was swept in the thread's hands), a pair one less while it has no
session, and only a fault puts one back there.
`Closing` (what force-close has taken is in memory no more) and `Unwritten` (a
session without its row stands for a failed upsert) complete it.

**`MqttPublishers_proofs`**: `PayloadsInOnePlace` (`[]PayloadsAccounted`) for any
number of retry threads, and `PublishersKeepOrder` (`[]ArrivalsInOrder`). `Placed`
says that the payloads in the queue and in the threads' hands are offered,
undecided and all different, and that every other one has an outcome. `Ordered`
adds, for the publishers that keep the order, that at most one thread has an item
(`Alone`), that what has arrived and what paho keeps is in order (`SentInOrder`),
and that the item in hand and those waiting come after it (`Behind`). A `start()`
that overtakes an old thread breaks `Alone`, which is why the property excepts it.

**`SideThreads_proofs`**, four of the parts of `SideThreads`.

* `CameraQueues`. `FramesStayInOrder` for any queue sizes, policies and number of
  frames: collected and queued frames, the one in the drain thread's hand, the first
  queue and the frame being put form one increasing line. `LossesAreCounted`
  (`[]DropsAreCounted`): frames that are in neither are lost, and `Counted` adds
  what holds between the counter's step and the eviction's: a refused frame of
  `drop_newest` is counted before the eviction makes good for it, and the put that
  follows cannot fail.
* `ResilientReader`. `FirstOpenIsFinal`: a reader yields a frame only if its first
  open succeeded, and one that was opened reports online through every outage.
* `PPHumanPipeline`. `EndsAreFlagged` (a monitor that ended left a child that exited
  with 0, or a crashed camera), `CamerasAreOwn`, `NothingLeftBehind`. The invariant
  adds that a camera being replaced has no child (`DownWhileReplaced`), that the
  restarts left agree with the monitor (`RestartsLeft`), what `os.environ` holds
  between write and copy (`OwnEnviron`), and that a camera stop() has passed is
  quiet (`QuietAfterStop`).
* `MediaMTXStreamer`. `NoChildStrays` (`[]NoStrayChild`), and `LimitNeverApplies`:
  the attempt counter never exceeds one, so `max_reconnect_attempts` and the growing
  back-off are never used. The invariant follows the handle: the last child is the
  only one not waited for (`LastChild`, `WaitedFor`), and stop() has reset it
  (`StopResets`, `NoHandle`) unless it met the push thread in its loop (`MetInLoop`).

**`Services_proofs`**: eleven properties, each with an invariant of its own.
`SkippedRowsFollow` counts, of the files a start has been through (`Through`), those
whose tables it left behind (`Behind`): only a failed call adds one, because the
cameras come before what refers to them; `FrameLinksAreOwn` that a URI is cached
only of a stored frame; `InventionIsAsked` that the mode and the fallback are what
was asked for. `HealthIsRecent` dates what a probe has found and what is cached by
MinIO's last states (`ProbesAreBounded`, `CacheIsDated`). `CrashesStay` needs only
that what was reported came from a bad exit; `RevivalIsLate` that an identity's
points are no newer than its `last_seen_at`. `ChildrenEnd` follows the teardown:
past the runner's stop no child runs, and none is on its way, that was not on its
way then, unless a failure was swallowed (`StepsFollow` says that start and teardown
go through their own steps). `ReleasesAreSound` needs that each report on disk, and
the one being made, is whole and of a run. `OwnIdentityIsDrawn` carries, with the
identity, the expiry of a track's last decision: it is equality of the two expiries
that keeps `lookup` from replacing the binding. `LabelsStayLocal`
(`[]LabelsAreLocalAndFresh`) needs `Sourced`: not only the labels, the camera's list
that lookup borrows from holds nothing but what decisions about that camera gave,
with their expiry; `OverlayTypes` are its types. `PicturesAreOwn` (`[]PointsAreOwn`)
follows a picture from the lists of the collector (`Captured`) over the pairs to the
points (`Embedded`), and the ring (`RingInLine`: a frame has at most the frames
behind it in the ring, and the one being put, behind it in the stream, also while
the reader thread evicts and the sidecar takes). Its lemma `ValidAreLate` is about
`Valid` itself: a URI stands further up than its frame only where an earlier one is
missing. That each place of the filtered list is taken (`UploadsAreCounted`) follows
from an injection between finite sets of one size.

Every safety property that a passing run lists is the property of a theorem, the
refinement of `AtLeastOnce` included. Only model-checked are the liveness
properties (`EventuallyDelivered`, `EventuallyClosed`, `EventuallyDecided`,
`StopEndsLoops`, `RecoversOnceOpened`, `StallIsHandled`, `EventuallyTaken`,
`SignalIsHeeded`): they need fairness and ENABLED, which the prover does not reason
about. The violations of section 3 are runs by nature.

The theorems about types, `InStep`, `NoEntryTwice`, `RowBeforeMessage`,
`SettledIsAudited`, `PublishedIsAudited`, `SinkMatchesByOverride`, `EndedIsFlagged`
and `FirstOpenDecides` state invariants that no run lists: the proofs cover
them for all values, and TLC checks what is built on them.

## 7. Not modelled

* The evidence re-key worker. With what this deployment uploads and publishes
  `handle_decision` never has anything to do (crops are "debug" objects, decisions
  carry no site_id or end_zone_id): a model would have no reachable step.
* Neural networks, MOT association, geometry, drawing, image quality: numbers and
  pixels; they appear as choices of the environment (`scene`, `Detect`, `Publish`,
  `TrackIds`). The vendored Paddle code besides the patched `pipeline.py` is of
  this kind.
* The read-only routes of the API, the CLI, configuration, metrics, payload
  formatting; the offline evaluation and the operator scripts other than
  preflight, benchmark, gate and retention: sequential or pure.
* Key-value state of Redis other than `seen`, connection pools, DDL, collection
  management, MinIO's puts and gets as such.
* The SAHI worker and bridge beyond their call into the collector: the bridge's
  de-duplication is geometry. The worker's own publish cannot succeed (below).
* Time is in ticks; the values of timeouts matter only in their order.

Observations met on the way, which no run states:

* Detections. A SAHI tracklet is keyed by (camera, frame id), `SAHIWorker` always
  passes frame 0, and a repeated sighting does not raise `frame_count`: all of a
  camera's SAHI detections share a tracklet that the length gate discards. Its
  `stream:sahi` publishing calls methods RedisState does not have; `_sahi_windows`
  is never read, `DetectionUnionMerger` is created by tests only. The consumer's
  docstring announces bounded retries; there is no bound and no dead-letter path.
  `docs/issues-closed.md` says the next consumer of a group retries pending
  messages; only the sweeper brings them back.
* Crops. Sidecar (`transreid_sidecar.py:326`) and ReID worker
  (`reid_worker.py:292`) drop None from `frame_uris` and zip the rest with all
  boxes, so after one failed upload crops are cut from another frame than their
  box. `RTSPFrameBuffer.get_frame` gives the oldest frame, not "the most recent",
  and a new one for each box; the comment at `transreid_sidecar.py:582` says it is
  found by (camera_id, frame_id). The collector takes
  up to 15 crops, the sidecar by default the first 8 of them. Both workers use the
  same collection and point ids. When a redelivery finds fewer crops, the older points remain.
* ReID. The refusal of a missing checkpoint in production is raised in the
  loader thread and only logged; a smoke run with an unloaded model falls through
  to `_extract_real` and fails.
* Dwell. No producer sends "exit", so a dwell row closes after 24 hours. A
  restart forgets the open sessions: their rows stay open, the pair's next
  event opens a second one.
* Queues. `drop_newest` evicts the oldest frame and `drop_oldest` drops the new
  one; what the second queue refuses is counted nowhere.
* Reader and streamer. A source dead at the first open reconnects but is never
  read again; a source that was opened shows "online" through outages; the
  back-off is never reset, or (streamer) never grows. A failed spawn ends the
  push thread with `_running` set.
* PP-Human. A child that never prints is never taken for stalled, and no respawn
  resets the stamp. `any_seen_mot_recently` is always true. A tail crash marks the
  cameras already seen, not "every configured camera"; nobody reads `healthy`.
  The child's loop ends as soon as its queue is empty, though the comment says
  "we want the source to loop forever" (`paddledetection_pipeline.py:950`);
  `_frame_cache` is never trimmed; a broken ffmpeg pipe ends the main thread while
  the capture thread keeps the process alive.
* MQTT. After a failed connect paho's loop is never started, and its
  reconnection never happens. stop() may time out and a following start() clear
  the event, which leaves two retry threads. The legacy publisher's `_pending` is
  never emptied. A payload that `json.dumps` refuses in the asynchronous
  publisher's retry thread (`telemetry/mqtt_publisher.py:197`) is lost uncounted.
* Seeding. One unchanged file of the three skips the whole seeding; fingerprints
  are recorded though rows failed.
* Benchmark and gate. `runner.stop()` terminates the children, the monitors
  count them as crashed, and `crashed_cameras` is read afterwards: a healthy
  time-limited run ends as "failed". The gate never reads `workers_crashed`,
  `detector_backend` or `status`, although `benchmark_t4.py:702-704` says its exit
  code keeps the gate from being tricked; `gpu_memory_used_mb` and the `_p99_ms`
  keys are in no report; `ambiguous_auto_merge_rate` is never checked; a newer smoke
  report supersedes a refused production run; no JUnit file counts as passed
  tests. The preflight file is not written atomically.
* API. `/identity/{global_id}` is declared before `/identity/decisions` and
  `/identity/ambiguous`, which are therefore unreachable, though the docstring of
  `server.py`, `docs/mtmct-operations.md:48` and `docs/improvement-loop.md:39` name
  them. A slow probe overwrites a newer cache entry.
* Retention. A dry run still expires identities; nothing sets one back to active.
* Process. SIGTERM before the handlers are installed kills the process and
  leaves the children; after that it is seen only when a frame arrives. Worker
  threads, consumer, overlay cache and collector are not joined before the stores
  close. `block_ms=0` means "block for ever" to Redis.

## 8. Plan

Done: everything in section 2. What could follow, in this order:

1. The collector, the sidecar and the resolver over one `AtLeastOnce` stream each,
   instead of assuming its contract.
2. The key-value state of Redis (active bindings and their expiry) as read by
   the telemetry worker.
