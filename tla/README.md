# VisionPlatform in TLA+

TLA+ models of the core of VisionPlatform (`src/vision-platform/src/vision_platform/`, Python): the
shared-memory frame ring, its epochs, the inference client and server, the process supervisor and the
two-process profile they make up; the configured pipeline application with its sources, stages and
sinks; and the web application with its loops, its overlay and its long connections. TLC checks each
model on a small instance; TLAPS proves, for every value of the constants, the safety of the ring and
that it implements an abstract channel, and the safety of the ring epochs, the inference client, the
supervisor, the full-stack profile, the overlay and the bulkhead of the web application (section 4).

Paths below are relative to `src/vision-platform/src/vision_platform/` unless they start with `src/`.

## 1. The system

The code is layered: `domain` (pure algorithms) <- `kernel` (layouts, contracts, policies) <-
`runtime` (stages, rings, stores) <- `application` (workers, coordinators, supervisor), with
`adapters` (cameras, ONNX, ZMQ, HTTP) and `profiles` (runnable programs) at the rim. Three programs are
modelled: `profiles/vision_slice_app.py`, which runs configured pipelines one after another;
`profiles/vision_web_app.py`, in which a video and a detection thread feed browser pages; and
`profiles/vision_fullstack_profile.py`, made of two supervised processes:

    parent ── RingPool, control plane, Supervisor
      ├─ camera process     camera_worker ─ ShmFrameWriter ──┐ ring in shared memory
      │                       └ ZmqInferenceClient (io thread)│
      │                              │ requests │ answers (ZMQ)│
      └─ inference process  InferenceServer ─ ShmFrameReader ─┘

| Component | State it keeps | Operations | What makes it hard | What makes it correct |
|---|---|---|---|---|
| SHM frame ring (`runtime/ipc/shm_frame_ring.py`) | per slot: state, generation, owner, reader registry, lock, data | `write`, `read`, `quarantine_poisoned_slot`, reaping of dead readers | copies without the lock, a process that dies with the lock, a recovery that works without it | whole frames, no copy in and out at once, no unread frame overwritten, every call returns |
| Ring epochs (`ring_pool.py`, `ring_control_plane.py`, `application/*_epoch_coordinator.py`, `ring_supervisor.py`) | epoch of each ring, registered writer, the published (epoch, name) | `activate`/`reset_for_reuse`, `publish`, `bootstrap`, `write`, `read_ref` | two-word record read without a lock, rings used again, callers suspended inside a call | stale refs read nothing, the published ring is ready and not being reset, a reused ring is whole |
| Inference client (`adapters/zmq_inference_client.py`, `kernel/backpressure.py`) | bounded queue, window, tables of pending requests, responses | `submit`, `poll_responses`, `infer`, io loop, `teardown` | three threads, answers racing timeouts, a server that dies, a socket that blocks | one response per request, the window, conservation of frames, everything returns |
| Inference server (`application/inference_server.py`) | one request in hand | `serve`, `_handle` | crash with requests in its socket | one answer per request it finishes |
| Supervisor (`application/supervisor.py`) | processes, restart counts, backoff deadlines, heartbeats | `run`, `_cascade_shutdown` | crashes, hangs, workers that ignore SIGTERM, locks inside `mp.Value`/`mp.Event` | one process per worker, capped restarts, a stop that ends and leaves nobody |
| Full-stack profile | the composition above | `run_profile`, `camera_worker` | what each part does to the others when a process dies | frames flow, requests find their frames, crashed workers recover |
| Overlay state, expiry scheduler, health, display stabilizer (`runtime/overlay_*.py`, `display_stabilizer.py`) | latest accepted result, tracks with deadlines, revision | completions, ticks, discontinuities | late completions, deadlines that move | monotone revisions, nothing of an old epoch, tracks that expire |
| Web application, loops (`profiles/vision_web_app.py`, `domain/detect_cadence.py`, `motion_gate.py`) | newest frame, ages of the last read and detection, gate, health | `_video_loop`, `_detect_loop`, merge of the options | four rules that may each forbid a detection, a camera that leaves, a detector that raises | detections neither too close nor too far apart, a lasting change found, health that tells |
| Web application, pages (`vision_web_app.py`, `runtime/stream_admission.py`, `log_throttle.py`) | places taken, refusals; in the page: image, event source, polls, process, epoch, boxes | `/stream`, `/events`, polls, `applyOverlay`, fallbacks and retries | a thread per connection, clients that leave unnoticed, a source that never asks again, a server restarted under an open page | places come back and a thread stays free, one feed per page, the page shows what the server holds and no longer |
| Pipeline application (`profiles/vision_slice_app.py`, `pipeline_factory.py`, `runtime/pipeline_runner.py`, `sync_linear_executor.py`, sinks) | what is set up, counters, gauges, log, outcomes | validate, build, set up, run, tear down, report | any call may raise, Ctrl+C at any point, observers beside it | torn down, truthful accounts, no pipeline forgotten |
| Tracking and line crossing (`runtime/iou_tracker.py`, `domain/geometry.py`, stages) | tracks with ages and identities, sides of the line | per-frame updates | ties, expiry, identities, points on the line | a stable matching, identities never reused, crossings that alternate |
| Frame sources (`adapters/*_frame_source.py`) | capture, position, reconnects | `setup`, `read`, `teardown` | loss, bounded reconnects, endless files | a run ends unless its source goes on |
| Detectors, formats, authentication | | | numeric code and I/O | |

All but the last row are modelled (section 2); what is left out of each is in section 6. `PROJECT.json` lists every component with its files and every hazard with its line.

## 2. Modules

| Module | Models | Actions and code |
|---|---|---|
| `ShmRing` | one ring: a writer and any number of readers, any of which may stop for ever or die between two steps | `Write*`: `ShmFrameWriter.write` (peek, acquire, mark WRITING, copy, commit); `Read*`, `Unpin*`: `ShmFrameReader.read`; `Suspect`, `Condemn`, `Spare`, `Quarantine`, `CountSlot`, `Report`: `quarantine_poisoned_slot`, step by step because it takes no lock: the store, the count (a slot a step) and the request are apart |
| `ShmRingProofs` | theorems about `ShmRing`, and the proof that it implements `FrameChannel` under the mapping `Channel` | |
| `FrameChannel` | what a ring promises: frames published in order, each taken whole under its ref or not at all, none replaced unread or in use | `Publish`: `write`; `Ask`, `Take`, `Deliver`, `End`: `read`. An abstract specification: it has no lines of its own |
| `RingEpoch` | a pool of rings, the control plane, `RingSupervisor.switchover`, both coordinators | `SwitchStart` ... `PublishEpoch`: guard pass, clear pass, unregister, bump, name, epoch; `Writer*`, `Write*`, `Read*`: bootstrap and the calls, with the control plane's two loads as two steps |
| `ZmqClient` | `camera_worker`, `ZmqInferenceClient` with queue and io thread, `infer()` of other threads, `InferenceServer` across a connection | `Cam*`, `Io*`, `Infer*`, `Server*`, one action per step that another thread can observe |
| `Supervisor` | `run()` and `_cascade_shutdown()`, and the workers as it sees them | one action per decision of the loop; `Beat*`, `Poll*` for a worker's accesses to shared objects, `Hang`, `Crash` |
| `FullStack` | the profile running on: ring, queue, window, socket, server, restarts | composes the results of the other four: a read or write is one step because `ShmRing` shows it may be taken so, a request is answered or times out once because `ZmqClient` shows it |
| `Overlay` | `OverlayStateStore`, `DisplayStabilizer` and `OverlayExpiryScheduler`, the loops that call them, and the page that draws | `TakeFrame` ... `Report`: `_detect_loop`; `Complete`, `Tick`, `Discontinuity`, `Report` call `ApplyCompletion`, `ApplyTick`, `ApplySourceDiscontinuity`, `SetHealth`, each one critical section of the store; `Plan`, `Tick`: `serve`; `Push`, `OnEvent`, `LoseStream`: the event stream; `Ask`, `Answer`, `OnAnswer`, `AskFails`: `poll()`; `Render`; `Restart` |
| `Sources` | the file, stream, camera and synthetic sources as functions of their state | `Opened`, `ReadSource`, `TornDownSource` |
| `Tracking` | IoU, greedy association, the tracker, the line, the gate of the pipeline, over integer boxes | functions; `StableMatching` is the reference definition |
| `SliceConfig` | what the factory and the loaders accept, and what a command line becomes | functions |
| `Slice` | the pipeline application from its start to its exit code, with the log writer's and the exporter's thread | one action per call of `main`, `run_pipeline` and the executor that may raise; `WriteLog`, `Serve` |
| `Cadence` | merge and checks of the detection options, `should_detect`, `MotionGate`, `derive_health` | functions |
| `WebLoops` | `_video_loop` over `Sources`, `_detect_loop` over `Cadence`, and time | `Read`, `Take`, `Detect`, `Fail`, `Resume`; `Outage`, `Return`, `Elapse` |
| `WebStreams` | the bulkhead, `/stream`, `/events`, the page's fallbacks and retries, the throttled log of refusals | `Serve*`, `Notice`: the server; `Poll`, `RetryImage`, `TabVisible`: the page; `Arrive`, `Leave`, `Lose*`: viewers and network |
| `RingEpochProofs`, `ZmqClientProofs`, `SupervisorProofs`, `FullStackProofs`, `OverlayProofs`, `SliceProofs` | theorems about the module each is named after | |
| `WebProofs` | theorems about `WebStreams` and `WebLoops`, whose names are apart so that one module can extend both | |

`MCShmRing`, `MCRingEpoch`, `MCZmqClient`, `MCSupervisor`, `MCFullStack`, `MCOverlay`, `MCSlice`,
`MCWebLoops` and `MCWebStreams` give the constants of a
module values for TLC. Each module's header says what it abstracts from; the points a reader should
know are these.

- A frame is the number it was written under, copied in two halves: a copy that overlaps a write is
  visibly torn. Generations are the code's.
- A lease of the ring is never state. Every test of a deadline in the code is conjoined with the
  owner being dead, and nothing bounds when the test is made, so its outcome is a choice.
- Reading the reader registry in the lock-free recovery is one step, and `reader_count` is the
  registry's size, from which the code recomputes it in each critical section.
- In `ZmqClient` an answer (or a scan of the deadlines) is one step of the io thread: the response is
  put before `in_flight` goes down, so the camera thread cannot see the difference. Taking a request
  out of the queue, accounting for it and sending it are three steps.
- In `Overlay` boxes have no coordinates: what an association matches, and which tracks are predicted to
  have left the picture, is a choice among everything it can find. Candidates are keyed by a number that
  tells them apart, since their order never matters. Its clock is an integer, and the
  scheduler's thread runs up to `Late` units after it should. The store is written for several
  detectors and for source discontinuities; the web application has one detector and raises none, and
  `Overlay` has both. The health reported is LIVE or ERROR; the ages that make it STALE are in `WebLoops`.
- In the other modules time is a choice: a request in flight may become overdue, a heartbeat late, a grace over, at any
  moment. Clocks that step are not modelled.
- `RingEpoch` does not repeat the crash recovery of `ShmRing` (a slot is quarantined as a choice, and
  `write` gives a slot up at once); `FullStack` does not repeat the inside of a read or write.
- In `Slice` every call of the user's parts may raise, as often as the application's `breaks` allow, and a
  Ctrl+C may come between any two steps once. `world` is what the cameras see; boxes are integers, a
  centre is doubled and an IoU is a fraction, so that no comparison rounds. Source ids are distinct.
  The registry entry `looping` stands for a source a caller registers: the built-in ones all end.
- In `WebLoops` time is a set of ages that saturate, a decision takes no time and two frames of one scene
  do not differ for the motion gate. `calm` is history, and says how long nothing has gone wrong.
- In `WebStreams` a response to a client that left is a `ghost' until its next chunk cannot be written,
  and a request whose client left while it waited for a thread is served all the same. Short requests
  need a free thread for a moment and hold none.
- Definitions whose comment begins "Mutant" or "Seeded fault" are altered forms of the definition
  that follows. No specification uses them; each property is known to fail when one is put in place
  of the original.

## 3. Runs

Each configuration disables the deadlock check because the systems really stop: at the bounds on
frames, generations, crashes and disturbances, when all processes are dead, and when a client, a caller,
the program or the supervisor is done. (`WebLoops` never stops; its configuration is like the others.)

Modules define `TypeOK` where it says something; it is a part of `IInv` and of the invariant of the
bulkhead (section 4), and the configurations leave it out. A property below that has a name for each of
its parts in the module is their conjunction, and the parts are in brackets.

| Run (configuration) | Instance | Distinct states | Shows |
|---|---|---|---|
| `ring` (`MCShmRing`) | 1 slot, 2 readers (symmetric), 2 registry entries, 3 generations, everybody mortal | 1,101,648 | `NoTornFrame`, `LivePinKept`, `NoSilentOverwrite`, and `IInv` of the proofs |
| `ring_live` (`MCShmRingLive`) | 3 slots, 1 mortal reader, 4 generations, fair calls | 144,789 | `CallsReturn`, `PoisonedReadQuarantined`, `DegradedRingAsksRebuild`, `DegradedRingRebuilt`, and the refinement `ImplementsChannel`; here the round robin skips, wraps and gives up, and a ring that has lost two slots is degraded |
| `epoch` (`MCRingEpoch`) | pool of 2, 1 slot, 1 reader, 4 epochs, 2 frames, 1 restart each | 3,628,117 | `StaleAfterSwitchover` and `SwitchoverSound` [`ResetSparesPublished`, `PublishedRingReady`, `FullCapacity`]; `FrameOfRef`, `WriteOfEpoch` while switchovers were paced |
| `zmq` (`MCZmqClient`) | window 2, queue 1, `DROP_OLDEST` or `REJECT`, 3 frames, garbage and skewed replies, 1 server crash | 2,214,474 | `OneResponse`, `Conserved` [the window, the balance of frames, every response polled] |
| `zmq_live` (`MCZmqClientLive`) | window 1, queue 1, `BLOCK`, a socket that holds 1 request, a second thread in `infer()`, 2 frames | 181,656 | `ShutdownEnds`, `EveryRequestAnswered` |
| `sup` (`MCSupervisor`) | 3 workers: 2 cooperative, 1 with a heartbeat, 1 with a backoff; 1 restart | 53,698 | `OneProcess` (and no orphan), `ShutdownOrderly` (cooperative workers first, nobody comes back), `FailureHandled` (crashes and hangs), `StopHonoured` |
| `full` (`MCFullStack`) | 4 slots, window 2, queue 2, 1 camera crash, 3 server crashes, 2 restarts | 48,736 | `SlotsAccounted` [`RequestsReadable` through crashes; `RingFullMeansBusy`, `EvictionLeavesRoom` while nothing crashes], `FramesFlow` |
| `overlay` (`MCOverlay`) | lease 2, candidate lease 1, scheduler late by 1, 3 frames, 1 box; either 2 detectors and no time, or 1 detector and a page fed by events or polls that meets a new epoch or a new server | 1,020,901 | `NewestResult` (nor one of an old epoch), `LeaseKept`, `CaughtUp`, `BrowserLease`, `NeverAhead` |
| `slice` (`MCSlice`) | 917 applications: every scene of three frames before a line, gated chains, and files of up to three pipelines of which one call fails, one is wrong, or the user stops them | 69,296 | `TornDown`, `CrossingsReported` [`ReportsAgree`, `CrossingsAlternate`], `AccountsTrue` [`RejectedNeverRuns`, `ScrapeSane`, `LastWordTrue`, `NoPipelineForgotten`], `StableAssociation`, `AppEnds` |
| `web_streams` (`MCWebStreams`) | 2 viewers, one without EventSource, 3 threads, 1 in reserve, 5 disturbances | 197,046 | `BulkheadSound` [`PlacesCounted`, `ThreadLeft`, `RefusalsTold`], `FeedComesBack`, `VideoComesBack`, `PlacesReturn` |
| `web_loops` (`MCWebLoops`) | 32 combinations of the detection options, a file that differs, 3 refused ones, 3 other sources; 2 scenes, lease 2, 2 faults | 561,297 | `DetectionsSpaced`, `ChangeSeen`, `ErrorStands` |
| `epoch_aba` (`MCRingEpochAba`) | smaller still | | the first disagreement of section 5 |

Why the bounds are enough for what is claimed:

- *Ring.* Reuse of a slot needs two generations, a reader that is late for one needs a third. Two
  readers meet in one slot's registry; registries that are full occur, because a dead reader's
  entry stays. More slots only matter to the round robin and to the count of quarantined
  slots, for which `ring_live` has three, of which two are the threshold: a fourth generation uses the first
  slot again, and stores come between the steps of a count. Proofs
  (section 4) remove the bounds for the safety properties.
- *Epochs.* With a pool of two, epoch 3 is the first to reuse a ring and epoch 4 reuses the other
  while the first is published. Two frames let one frame overlap or replace another.
- *Client.* A window of two has an answer and a timeout of different requests in one round, three
  frames overflow a queue of one behind it. The live instance has a socket that one request fills.
- *Supervisor.* `max_restarts = 1` has a first failure that is retried and a second that is not, both
  at once and after a backoff. Three workers let two cooperative ones share a grace.
- *Full stack.* More slots than the queue holds, which holds as much as the window: the smallest
  instance in which evictions leak slots and still leave room. The bound of `EvictionLeavesRoom` is
  reached.
- *Overlay.* Three frames confirm a track, match it again and miss it; `MaxMisses = 1` lets it survive a
  miss and not two. Four units of time are a lease of two, the scheduler's lateness, and one more, in
  which a lease kept too long would show. `Small` in `MCOverlay` splits the instance: what two detectors
  can do to each other takes no time and no page, and a page meets one change at a time.
- *Slice.* Three frames let a track appear, move over the line and be lost or replaced, four and five
  frames let it come back after its age and cross again. A third pipeline shows whether the second's
  failure reached it. A log queue of two overflows; a cap of one gauge is met by the second pipeline.
- *Web streams.* One viewer with events takes both places of two, the other is refused. Five
  disturbances are an arrival, a loss, a reload, a departure and one more; three errors of an event
  source in a row are among them. Counters modulo 2 tell a lost refusal from none; the proof has any
  modulus.
- *Web loops.* Lease, throttle, heartbeat and every-n are two, so each is met, missed by one and
  passed. Two scenes are a change and its return. Two faults are a failure and a failed recovery.

### Fairness

- `ShmRing!FairSpec`: a call in progress goes on while its process lives. No step waits for anything
  but a lock, and each acquire has a timeout. `PoisonedReadQuarantined` further has `Busy` as its
  hypothesis: calls keep coming, and a recovery attempted again and again finds the lease over and
  two equal snapshots in the end (strong fairness of `Suspect` and `Condemn`: leases have a length).
  `DegradedRingRebuilt` needs `FairSpec` only: who has stored `QUARANTINED` goes on to count and report.
- `ZmqClient!FairSpec`: the client's own threads run, time passes, and the drain loop meets its
  deadline if it goes on (strong fairness: the loop comes by the test again and again). Nothing is
  assumed of the server: it may stop serving without having crashed.
- `Supervisor!FairSpec`: `run()` goes on, strongly, because the locks it needs come free again and
  again; backoff and grace end; a worker inside an access to a shared object finishes it. Workers owe
  nothing else: they may never beat, poll or end.
- `FullStack!FairSpec`: every thread of every live process goes on, and so does the supervisor.
  No fairness is assumed of crashes.
- `Slice!FairSpec`: the main thread, the log writer and the exporter go on, and a camera that is asked for
  ever answers in the end, at an open and at a read (strong fairness). Failures and Ctrl+C are not fair.
- `WebStreams!FairSpec`: the server's threads take the requests that wait, timers fire, a generator goes on
  to its next chunk, the thread that counted a refusal writes its line of the log, and a camera that works gives a frame. Viewers and the network owe nothing.
- `WebLoops!FairLoops`: both threads run, a call of the detector returns or raises, time passes. Neither
  outages nor recoveries of the camera are fair, and `Elapse` waits for frames only while `Flows`.

### Preconditions that occur in properties

- `RingEpoch`: `sup.settled` holds while no ring was taken back under a call that began when an epoch
  of that ring was current (`Settled`). A larger pool makes that likelier; nothing in the code
  enforces it, and `epoch_aba` shows what happens otherwise.
- `ShmRing!DegradedRingRebuilt` is about behaviours in which no process dies between its store of
  `QUARANTINED` and its request. Nothing makes the request for one that does (section 5).
- `ZmqClient!ShutdownEnds` excepts a teardown whose join ran out while the io thread was
  blocked in `send()`. It then closes under that thread a socket its own module calls not thread-safe
  (`zmq_inference_client.py:5-7`, `:224-228`), and what follows is undefined: the `send()` may raise, it may
  never return and `ctx.term()` with it, or the process may be aborted. `CamJoinTimeout` leaves all three open
  (`hung`, `aborted`), and `TeardownReturns`, the property without the exception, is false (section 5).
- `ZmqClient!EveryRequestAnswered` excepts an io thread stuck in `send()` for good, and is checked with
  a server whose replies decode; `MCZmqClientSkew` shows what happens if one does not.
- `Supervisor!StopHonoured` is checked with `DieLocked = FALSE`: no worker dies inside an access to
  an `mp.Value` or `mp.Event`.
- `Overlay!LeaseKept` needs an idle poll (250 ms by default) no longer than the display lease (600 ms by
  default); `--overlay-display-lease-ms` can set a shorter lease, and nothing compares the two.
  `BrowserLease` is about pages that poll: an event stream takes no account of how long an event was
  under way.
- `FullStack`: `Uncrashed` in the flow properties; `MCFullStackServer` and `MCFullStackCamera` show why.
- `Slice`: `CrossingsAlternate` is about a line across the whole picture (`Across`: an object may walk round
  the end of a shorter one), and `LastWordTrue` about a log that dropped no record. The counts of a line are
  compared with the files when the line is the last stage (`LineEnds`), as the command line puts it: a stage
  behind it can fail a frame whose crossings are counted already, and such a frame has no rows.
- `WebStreams!ThreadLeft` needs a reserve smaller than the number of threads and no `--max-stream-conns`:
  otherwise `capacity_from_threads` gives one place whatever is left. The liveness properties are
  checked with a video loop that encodes a frame; `MCWebStreamsLeak` shows why.
- `WebLoops!ChangeSeen` needs what makes the loop look at a still scene (`Looks`): without a limit of
  skips and a heartbeat, a change the gate saw while the throttle forbade the detection is lost.
  `ErrorStands` needs the motion gate off; with it a still frame reports LIVE after an error.

## 4. Proofs

Each proof module proves its theorems from the assumptions its component's module makes of the constants
(sizes are natural numbers, some of them positive, sets are sets) and from nothing else but what is
named here. Some theorems have a hypothesis, and each is one the code needs:

- `CountersConserved`: `"BLOCK" \notin Policies`. Under `BLOCK` it is false (`MCZmqClientBlock`, section 5);
  what is left then is `NothingInvented`.
- `WritesAreOfTheirEpoch`, `FramesAreOfTheirRef` and the last part of `SwitchoversAreSound` speak of
  behaviours in which switchovers are paced (`sup.settled`, in the properties themselves); `epoch_aba`
  shows what happens otherwise.
- `LeasesKept`: `IdlePoll =< DisplayLease`; the code does not compare the two.

The argument is the same everywhere: an invariant that is inductive, one lemma for each of its parts,
one step for each action that can disturb the part, and a theorem for each property that follows.
What follows says which invariant, and why the property alone would not do.

### The ring

`ShmRingProofs` proves, from `RingAssumption` alone (any number of slots, entries, readers, mortal
processes, generations), that the specification of `ShmRing` implies

| Theorem | Property |
|---|---|
| `Inductive` | `[]IInv` |
| `TypeCorrect` | `[]TypeOK` |
| `FramesWhole` | `[]NoTornFrame`: what `read()` returns is whole and is the frame of the ref |
| `CopiesExclude` | `[]CopyExclusion` |
| `PinsKept` | `[]LivePinKept` |
| `NoFrameDropped` | `[]NoSilentOverwrite` |
| `DegradedRingAsks` | `[]DegradedRingAsksRebuild` |
| `RingIsChannel` | `ImplementsChannel`, the refinement |

The invariant. `QUARANTINED` is stored without the lock, by a process that may have looked long ago,
and lock holders store their own state over it. So no part of an invariant may say that a slot's
state stays what its lock holder saw, and the argument one would expect (the lock protects the
header) is not inductive. `IInv` says instead

- `LockInv`: whoever is in a critical section holds the lock;
- `PinInv`: while a live reader pins a slot, its registry entry stands and the slot holds, whole,
  the generation it came for, whatever the state says;
- `WriterAlone`: the slot being written is `WRITING` or `QUARANTINED` and no live reader pins it;
- `DataInv`, `CopyInv`: a readable slot is whole, and so is what was copied so far;
- `HistoryInv`: `DONE` is reached only over a pinned frame, `FREE` never has a published one.

Each part of `IInv` has a lemma (`TypeStep`, `LockStep`, `PinStep`, `AloneStep`, `DataStep`,
`CopyStep`, `HistoryStep`, `SilentStep`) with one step per action that can disturb it; `IInvStep`
collects them, and each theorem is `IInv` with one implication. `ring` checks the same `IInv`.

`DegradedRingAsksRebuild` says that a degraded ring (half of its slots quarantined, rounded up) has asked for
its rebuild, or that some process is counting its slots and has missed none of the quarantined ones it has
passed (`CountsAll`). It is not a consequence of `IInv` but inductive with it. Store, count and request are
separate steps without a lock, so the proof follows such a witness. The process that stores `QUARANTINED`
becomes one: it has passed no slot yet. `CountSlot` keeps it one (`BelowNext`), and so do the steps that add
no quarantined slot (`QuarantinedShrinks`): a state stored over `QUARANTINED` only makes a count too high,
and then the request is made though the ring has recovered. The `Report` of a witness of a degraded ring asks
(`BelowEnds`). A witness may be dead: the request is lost when every process that counts them all dies
before it asks, and only then. `DegradedRingRebuilt` is the liveness of it, model-checked.

`RingIsChannel == Spec => ImplementsChannel`: under the mapping `Channel` (the refs handed out are
published, the frames some reader pinned are taken, a reader takes while it copies and has got its frame
when the copy is whole) the initial states are the channel's and every step is one step of the channel or
none. It needs, beside `IInv`, the invariant `GenInv`: the generations handed out are below the writer's
next one and at most those of their slots, so a frame is published later than every other and a readable one
is its slot's newest. `ChannelStep` has one lemma for each kind of step (`AskStep`, `TakeStep`,
`DeliverStep`, `PublishStep`, and the steps the channel does not see); the wholeness of what is delivered is
`PinInv` and `CopyInv`, that nothing is published over a frame somebody takes is `WriterAlone`, and that
nothing unread is replaced is `HistoryInv`.

### The epochs

| Theorem of `RingEpochProofs` | Property |
|---|---|
| `CoreInvariant`, `EpochTypeCorrect` | `[]CoreInv`, `[]TypeOK` |
| `NoStaleFrame` | `[]StaleAfterSwitchover`: a read that began after a switchover pins no frame of an earlier epoch |
| `PublishedIsReady` | `[](ResetSparesPublished /\ PublishedRingReady)` |
| `PacingInvariant` | `[]RingEpochInv` |
| `WritesAreOfTheirEpoch` | `[]WriteOfEpoch` |
| `FramesAreOfTheirRef` | `[]FrameOfRef` |
| `SwitchoversAreSound` | `[]SwitchoverSound` |

There are two layers. `CoreInv` holds at any pace. A caller reads the epoch and then the name, and the
supervisor stores the name before the epoch; so what a caller has is not "the ring of its epoch" but the
ring of *some* epoch from the one it noted to the newest one named (`Led`). `EpochsInv` is the arithmetic
of the pool: of the epochs `1 .. Activated` the last `PoolSize` have their rings to themselves, and every
ring is at an epoch of its own. From the two, an epoch that is equal in ring and ref is at least the one the
reader noted.

`RingEpochInv` adds `sup.settled => PacedInv`. While no call is overtaken by the whole pool (`Paced`), the
ring a call is in is not the one being reset, so its epoch stands still under the call. Then a ref names one
frame (`Generations`: generations under one label only grow, and a ring gets a writer only before it has
refs of its epoch, `Registration`), a readable slot holds the frame of a ref of the ring's epoch
(`SlotsHoldRefs`), and the slot being written is nobody's (`SlotOfWriter`). Without `SlotsHoldRefs` the
induction fails at `ReadPin`: that generation and epoch agree says nothing of the data.

### The client

| Theorem of `ZmqClientProofs` | Property |
|---|---|
| `ClientInvariant` | `[]ClientInv` |
| `OneResponseAlways` | `[]OneResponse` |
| `NothingInvented` | `[](WindowRespected /\ sent + dropped + fullRing + Len(queue) <= captured)`, for every policy |
| `CountersConserved` | `[]Conserved`, unless the policy may be `BLOCK` |

A request could get a second response if it came by the io thread twice. `ClientInv` excludes it by order:
the queue is in the order of capture, the request in the io thread's hands is ahead of the queue, and
whatever is pending or answered is ahead of both (`QueueInOrder`, `TakenAhead`, `SentAhead`). What is taken
next is thus neither pending nor answered. `TakenAhead` also carries the room in the window from the test to
the send, in between which responses only make more room. `Account` counts a frame in the two threads' hands
as well, which is where the counters alone are wrong for a moment.

### The supervisor

| Theorem of `SupervisorProofs` | Property |
|---|---|
| `SupervisorInvariant`, `SupervisorTyped` | `[]SupervisorInv`, `[]TypeOK` |
| `OneProcessAlways` | `[]OneProcess`: no second process of a worker, and none left when `run()` returns |
| `ShutdownIsOrderly` | `ShutdownOrderly`, an action property |

That a spawn never meets a live process depends on how `run()` got there: over `_handle_failure`
(`FailedDown`: the worker was terminated, killed if need be, and has not been spawned since), out of a
backoff (a worker that waits is not tracked, and nobody untracked is alive: `UntrackedDown`), or at the
start (`StartFresh`). `Joined` and `StragglersDown` follow the cascade through its list; `WithinCap` bounds
the restarts of whoever may be started; `AtFirst` is needed because the cascade and the loop each rely on
starting at the head of the list.

### The full stack

| Theorem of `FullStackProofs` | Property |
|---|---|
| `FullStackInvariant`, `FullStackTyped` | `[]FullStackInv`, `[]TypeOK` |
| `SlotsAlwaysAccounted` | `[]SlotsAccounted`: `RequestsReadable` through any crashes, `RingFullMeansBusy` and `EvictionLeavesRoom` until the first |

The slots requests name are cut in three: queue, pipe, and what the server holds (`Apart`: no slot is named
twice; `Unserved`: each is READY). Requests only move on, so while nothing crashes every action but one
leaves the slots that nobody names as they are or fewer; the one is `CamWrite` with `DROP_OLDEST` on a full
queue, and at that moment the queue holds `QueueMax` other slots, hence the bound. The proof is about
cardinalities of finite sets, and `RingFullMeansBusy` follows from the bound by counting.

### The overlay

| Theorem of `OverlayProofs` | Property |
|---|---|
| `OverlayInvariant` | `[]OverlayInv` |
| `ResultsNewest` | `NewestResult`, an action property |
| `LeasesKept` | `[]LeaseKept`, if `IdlePoll =< DisplayLease` |
| `PageCatchesUp` | `[]CaughtUp` |
| `BrowserLeaseHolds` | `[]BrowserLease` |
| `PageNeverAhead` | `[]NeverAhead` |

The stabilizer, each event on its way and the page are stages of the same tracks. `Evolves` is all that a
call of the store may do to the stabilizer: a track stays as it is, is matched (revision one higher, a new
lease), goes, or is new under a number not given out before. `OverlayInv` has two halves.

- The server's: the snapshot is the stabilizer's (`Shown`); frames and calls in progress are never ahead of
  the epoch (`InOrder`), which with `_gate` gives `NewestResult`; no deadline is further away than a lease
  (`Leased`); and the scheduler's next wake is no later than the first deadline (`Awake`). The last is an
  induction over what happens while it sleeps: deadlines that come in the meantime are a full lease away
  from now, and the wake is at most a lease away from when it was planned, so it must be carried as a bound
  of the wake and not of the deadline.
- The page's: whatever is downstream is not ahead of what is upstream (`PageBehind`, `EventsBehind`,
  `EventsInOrder`). "Not ahead" has to compare process, then epoch, then revisions, and has to say of the
  displayIds that the stabilizer has given them out (`Issued`): a box whose track is gone would otherwise
  bind a track to come. Deadlines are tied to leases from below for a stream (`Lasting`: a box as new as
  its track lasts as long) and from above for a poll (`Brief`), with the time since the request in it.
  `Delivered` says what is on its way once the current revision was sent. A box that `render` has removed
  had an expired lease because of `Lasting`, without which `Delivered` is not inductive.

### The bulkhead

`WebProofs` proves, from `PoolAssumption` alone, `PlacesInductive` (`[]Inv`) and from it
`BulkheadHolds`: `[]BulkheadSound`. `Inv` says that the bulkhead's count is what the open pages hold plus
the ghosts, that a window nobody sits at holds nothing (else an arrival would forget a
connection), that the count is at most `MaxStreams`, and that the refusals add up. A step changes one
window or none: `Move` and `Rest` reduce each action to the difference it makes to the three numbers,
`ViewStep` gets that difference from the cardinalities of two sets, `RefusalOwed` adds a refusal to what the threads have still to log, and
`RefusalTold` takes it from there into the log: the arithmetic of counters modulo `Wrap` (`ModAdd`). A
ghost is counted, so `Release` never meets a count of zero (`NoticeStep`).

### The web application's loops

| Theorem of `WebProofs` | Property |
|---|---|
| `LoopsInvariant` | `[]LoopsInv` |
| `SpacedDetections` | `DetectionsSpaced`, an action property with an invariant in it |
| `ErrorsStand` | `ErrorStands`, an action property |

They hold for every set of command lines and files, every frame period, time of a detection and number of
failures, from `LoopAssumption`: options are whole numbers, and a source that gives its frames in time is
not stale between two of them.

That a detection is at most `Bound` old when all has been well for longer than `Bound` says nothing of the
moments before, so it is not inductive. `Beating` bounds the age of the last detection in each place
of the detection loop: no frame waits (by the age of the last frame that was read), one waits (by a frame
period), one is in the detector (by the time it has been there), and in each the bound may fail only while
`calm` is short. `CalmFresh` supplies the age of a frame, and `ConfMerged` that the heartbeat fits the
lease and that the throttle is the one that was typed; both are properties of what `main()` accepts, proved
of the initial states (`LoopsStart`). `ErrorDue` is what `ErrorStands` needs: a failed detection leaves the cadence
where it was, so the next frame is one it runs on and is not passed by (`TakeDoes`).

### The pipeline application

| Theorem of `SliceProofs` | Property |
|---|---|
| `SliceInvariant`, `SliceTypes` | `[]SliceInv`, `[]SliceTyped` |
| `RunTornDown` | `[]TornDown` |
| `AccountsAreTrue` | `[]AccountsTrue`: `RejectedNeverRuns`, `ScrapeSane`, `LastWordTrue`, `NoPipelineForgotten` |
| `AssociationStable` | `StableAssociation` |
| `RunIsTold` | `[]RunTold`, the invariant under the next one |
| `CrossingsAreReported` | `[]CrossingsReported`: `ReportsAgree`, `CrossingsAlternate` |

They hold for every set of applications (any files, flags, scenes, failures and interrupts), from
`SliceAssumption`: lists are lists, and a limit on the series of `/metrics` is positive; and
`WorldAssumption`: each pipeline has something before its camera, and detections are lists of boxes. The parts of `SliceInv`:

- a pipeline under way is one whose builders raised nothing, and such a pipeline is valid (`BuiltIsValid`:
  the first fault of a list is its least index, `HasLeast`), which is `RejectedNeverRuns`;
- what is set up at each place of the main thread: `open` is not a function of the place alone, because a
  sink that fails and an interrupt skip parts of the rollback, so the part says for each place
  what may be left, and `TornDown` is that of the last place;
- no more frames have failed than were read, and the one in the executor has not failed yet;
- the gauges of a camera agree with its counters between two snapshots and are one write apart within one,
  frames first, which is why a scrape is never absurd;
- the last record that was enqueued is the last of the file and the queue, and one made at the end of a run is
  final;
- the outcomes are those of the pipelines before `i`, in their order;
- while a pipeline runs, each `track` stage has a tracker's state and a packet has what the detector put in.

`AssociationStable` is about an algorithm that recurs over its data. `GreedyAssociate` is a recursive
function on the sets of candidate pairs, and its equation is all TLA+ says of it, so that there is such a
function has to be shown too. In one order of the pairs (`BeforeOrders`: fractions compared by cross products,
ties by index) every set of candidates has at most one stable matching (`StableIsOne`), and has one
(`HasStable`): the best pair with one of what it leaves (`BestIsTaken`). The function that maps each set to it
solves the equation; and any solution is stable on every set, since a smallest set on which it
were not would leave a smaller one (`RestIsSmaller`, `HasLeast` on cardinalities: no induction theorem is
needed). `TrackerDoes` carries this to the tracker: the ids of a frame are all different, new ones are
the next in order (`RanksCount`), and those it continues are exactly the matching.

`CrossingsReported` speaks of the moments between two frames and of the files a run leaves; `RunTold` says
what holds on the way there. What is *told* is a file with what is owed to it: while a packet is in the chain
the crossings it has, while the sinks are served those that the sinks still to come will write. A step moves
rows from the debt into the file, or adds them to both, so the parts are kept by every step (`RunSteps` sorts
the steps by what they do to a run):

- `FilesAgree`: the event files are the same but for the debt, the frame log is one line behind at most;
- `LinesTold`: what is told has as many events each way as the line has counted, alternates for each object,
  and its last event of an object in sight says on which side of the line the object was seen last
  (`Tells`). The last part is what makes it inductive: the next crossing leaves from that side, and on a line
  nobody gets round every change of side is a crossing (`CrossedSides`, `LineTells`);
- `FilesAlternate`: a file cut short by a failing sink or an interrupt is a beginning of what was told, and a
  beginning of a list that alternates alternates (`BeginningAlternates`, `PartAlternates`);
- `SummaryTold`: on the command line the summary has the counts of the tracker and the line, or the packet
  under way brings them. It needs the order of the chain that the flags make (`ChainOfArgs`: nothing but the
  line is behind the tracker, and so nothing fails once there are tracks);
- `FilesTyped`, `PacketSeen`, `LineWaits`: lists are lists, a packet is about what the camera sees, and has no
  crossings before the line.

Every sum is a cardinality of two lists joined (`JoinedCounts`), so no induction over the lists is needed.

### Model-checked only

- All liveness (`CallsReturn`, `PoisonedReadQuarantined`, `DegradedRingRebuilt`, `ShutdownEnds`,
  `EveryRequestAnswered`, `FailureHandled`, `StopHonoured`, `FramesFlow`, `AppEnds`, `FeedComesBack`,
  `VideoComesBack`, `PlacesReturn`, `ChangeSeen`): it needs `ENABLED`, which is beyond the prover.

## 5. Where code and documents disagree

The run `epoch_aba` ends with a counterexample; `PROJECT.json` quotes the text. A ref of an old epoch is
said to read nothing. The epoch is compared before the lock is taken, and generations start again at 1
in a reused ring: a reader slow enough for the whole pool to go round returns a whole frame of a later
epoch.

Further configurations are kept for reading; each makes TLC print a behaviour that contradicts a
sentence of the documents or a comment, as the comment of the property says:

| Configuration | Property | Behaviour |
|---|---|---|
| `MCShmRingTerminal` | `QuarantineIsTerminal` | a lock holder that looked before the lock-free quarantine stores its own state over `QUARANTINED`, called sticky; no frame is torn by it (section 4) |
| the same with two generations | `LiveOwnerSpared` | (as the `INVARIANT`, in place of the `PROPERTY`) a slot a live writer has just taken is quarantined on an old snapshot |
| `MCShmRingTerminal` with `FairSpec` and `DegradedRingAsked` as its `PROPERTIES`, in place of the `PROPERTY` | `DegradedRingAsked` | a process dies between its store of `QUARANTINED` and the request (`shm_frame_ring.py:427`, `:433`): the ring stays at the threshold and nobody ever asks for its rebuild |
| `MCShmRingReap` | `DeadReaderReaped` | a dead reader's entry stays if nobody reads that frame again |
| `MCShmRingPoison` | `PoisonedSlotTerminal` | a `READY` slot whose lock died with a reader is judged by its live owner |
| `MCRingEpochEarly` | `RefAfterPublish` | a bootstrap between the two stores of `publish()` issues refs of an unpublished epoch |
| `MCZmqClientBooks` | `ConservedAlways` | a frame whose `write()` raises is counted as captured and nowhere else |
| the same (`-continue` shows both) | `DrainedMeansDone` | the drain sees an empty queue and nothing in flight with a request in the io thread's hands |
| `MCZmqClientBlock` | `Conserved` | under `BLOCK` a `put()` that gave up is counted nowhere |
| `MCZmqClientBuffer` | `SendNeverBlocks` | requests that timed out stay in the socket's buffer until `send()` blocks |
| `MCZmqClientLive` with `TeardownReturns` as its `PROPERTIES` | `TeardownReturns` | the join of the teardown runs out with the io thread blocked in `send()`, and the socket is closed under it: the teardown may never return (`zmq_inference_client.py:5-7`, `:224-228`) |
| `MCSupervisorLocked` | `StopHonoured` | a worker that dies holding the lock of its heartbeat stops the supervisor |
| `MCZmqClientSkew` | `EveryRequestAnswered` | a reply that names a request and does not decode removes it from the table first: it gets no response and its place in the window is lost (`zmq_inference_client.py:134`; `:88` says a request that waits times out by itself) |
| `MCFullStackServer` | `FramesFlowAgain` | requests lost with the server leave their slots `READY`, which nobody reads, reclaims or counts; if these are all the slots (8 of 8 by default) the camera drops every frame from then on (`src/.kiro/specs/full-stack-integration-profile/requirements.md:54`: one crash does not drag down the other process) |
| `MCFullStackCamera` | `CameraRecovers` | a crashed camera is respawned and refused by the ring, where its predecessor is still registered, until its restarts are used up; the rebuild is asked for and `run_profile` has wired nobody to do it |
| `MCSliceStarve` | `LastPipelineReached` | a camera that has used up `max_reconnect` answers ERROR at every read; the runner (`pipeline_runner.py:130`) counts it and reads on, so the pipelines after it are never reached (`vision_slice_app.py:315`: the error of one pipeline is isolated) |
| `MCWebStreamsLeak` | `PlacesReturn` | before the first frame `/stream` writes nothing, so a client that left is not noticed and keeps its place (`_released_after`, `vision_web_app.py:418`: always released) |
| `MCWebLoopsHeartbeat` | `HeartbeatForces` | the heartbeat counts from the first detection: with a gate and a detector that raised on the first frame of a still scene it forces nothing (`detect_cadence.py:36`) |
| `MCWebLoops` with `LossShown` as its `PROPERTIES` | `LossShown` | health is reported only with a new frame: a camera that is lost stays LIVE (`overlay_health.py:4-6`) |

Seen while modelling, without a configuration: a log queue that is full at the shutdown makes the stop
of the listener raise `queue.Full` (`production_log_handle.py:86-90` says the last lines are not lost); a
`CompositeSink` whose k-th sink fails in setup leaves those before it open; a Ctrl+C in `setup_all` skips
the roll-back, and an exception of `source.teardown` during a Ctrl+C takes its place; the health
after a long inference uses the read time taken before it (`vision_web_app.py:286`, `:318`) and may say
STALE of a camera that works; an interval equal to the lease is accepted (`detection_cadence.py:84-96`)
although the wait for a frame and the inference come on top, so boxes blink; the reload of the image in
the page's overlay handler (`vision_web_app.py:158`) never runs, because `onopen` has reset `pollFails`.

## 6. Not modelled

- Bytes: header layouts and struct packing, the wire codec, CRCs; a layout error is a unit test's.
- The waiting half of `BoundedQueue`: two conditions, each signalled by the one operation that makes it
  true. The client only uses `put` under `BLOCK`, which is there with its timeout, and non-blocking `get`.
- Wall-clock steps, and reuse of a process identity (pid and creation time).
- Detectors, image processing, NMS, letterboxing: numeric code without state, out of TLC's reach.
- `InlineInferenceClient`: a synchronous call without state; its `read_ref` is `RingEpoch`'s.
- `PushFrameSource` and `ReconnectPacer`, which no profile uses; the demo programs.
- Of the pipeline application: a second Ctrl+C, formats of files and metrics, rotation of logs.
- Of the web application: drawing, authentication and headers, the short routes; a `HEAD` request for
  `/stream`, which takes a place and never starts its generator; a motion gate that raises (an unusable
  region) and so ends the detection thread; `_stop`, which nobody sets.

## 7. Plan

In the order of what they would add:

1. `FullStack` and `RingEpoch` over `FrameChannel`, whose steps they now repeat.
2. `BoundedQueue` with its two conditions as a module, and the queue of `ZmqClient` as an instance of it.
3. One clock for `Overlay` and `WebLoops`, so that the lease of a box and the cadence meet in one model.
