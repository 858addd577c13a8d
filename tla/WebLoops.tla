----------------------------- MODULE WebLoops -----------------------------
(***************************************************************************)
(* The two threads of the web application that make what its pages show:    *)
(* the video loop reads a source and publishes the newest frame, the        *)
(* detection loop takes it, decides by cadence and motion gate whether to   *)
(* run the detector, and reports the health of both.                       *)
(*                                                                         *)
(* Time is discrete and kept as ages, which saturate: a frame comes  *)
(* at most once in a tick and at least every FramePeriod while the source   *)
(* gives frames, a detection takes at most DetectTime, a decision takes no  *)
(* time.  A frame is its scene: two frames of one scene do not differ for   *)
(* the motion gate.                                                         *)
(* Bounds: Faults outages and failures, Top tries counted by a source.      *)
(***************************************************************************)
EXTENDS Sources, Cadence

CONSTANTS Starts,       \* the command lines: [cli, toml, overlay, source]
          Scenes, FramePeriod, DetectTime, Stale, Faults, Top

\* Options are whole numbers, and a source that gives its frames in time is not
\* stale between two of them.
ASSUME LoopAssumption ==
    /\ FramePeriod \in Nat /\ DetectTime \in Nat
    /\ Stale.source \in Nat /\ Stale.detector \in Nat /\ FramePeriod <= Stale.source + 1
    /\ \A s \in Starts : \A k \in {"min", "max", "every"} : s.cli[k] \in Int /\ s.toml[k] \in Int
    /\ \A s \in Starts : s.overlay.display \in Int

VARIABLES conf,     \* [cadence, lease, source, typed]: what main() made of the command line
          video,    \* the video loop: [state, src, up]; `up' is the device
          raw,      \* _raw: [scene, fresh]; fresh: its version is not last_ver
          loop,     \* the detection loop: [state, scene, errors, works]
          gate,     \* its MotionGate
          age,      \* ages: [read, held, taken, detect, calm]
          versions, \* frames since: [detect, taken]
          seen,     \* the scene of the last result applied to the store
          health,   \* the health in the store
          faults
loopVars == <<conf, video, raw, loop, gate, age, versions, seen, health, faults>>

Accepted(s) ==
    LET c == MergeDetection(s.cli, s.toml)
    IN  /\ ValidCadence(s.toml) /\ ValidCadence(c) /\ ValidOverlay(s.overlay)
        /\ CadenceFitsLease(c, s.overlay.display)

\* A source that cannot be opened ends its loop before it begins.
LoopsInit ==
    /\ \E s \in {t \in Starts : Accepted(t)}, up \in BOOLEAN :
          /\ conf = [cadence |-> MergeDetection(s.cli, s.toml), typed |-> s.cli,
                     lease |-> s.overlay.display, source |-> s.source]
          /\ video = [up |-> up, src |-> Opened(s.source, Closed, up),
                      state |-> IF SetupRaises(s.source, up) THEN "ended" ELSE "running"]
    /\ raw = [scene |-> NoScene, fresh |-> FALSE]
    /\ loop = [state |-> "idle", scene |-> NoScene, errors |-> 0, works |-> TRUE]
    /\ gate = FirstGate
    /\ age = [read |-> Never, held |-> Never, taken |-> Never, detect |-> Never, calm |-> 0]
    /\ versions = [detect |-> 0, taken |-> 0]
    /\ seen = NoScene
    /\ health = [source |-> "INITIALIZING", detector |-> "INITIALIZING"]
    /\ faults = 0

-----------------------------------------------------------------------------
(* The video loop.                                                          *)

Flows == video.state = "running" /\ video.up /\ video.src.cap

More(n) == IF n < conf.cadence.every THEN n + 1 ELSE n

Publish(scene) ==
    /\ raw' = [scene |-> scene, fresh |-> TRUE]
    /\ age' = [age EXCEPT !.read = 0]
    /\ versions' = [detect |-> More(versions.detect), taken |-> More(versions.taken)]

\* One turn of the loop: a frame is published, no data is read over, the end of
\* the source or an error ends the loop.
Read ==
    /\ video.state = "running"
    /\ age.read # 0
    /\ \E r \in {ReadSource(conf.source, video.src, video.up, Top)} :
          \/ /\ r.status = "FRAME"
             /\ \E s \in Scenes : Publish(s)
             /\ video' = [video EXCEPT !.src = r.src]
          \/ /\ r.status = "RECONNECTING"
             /\ video' = [video EXCEPT !.src = r.src]
             /\ UNCHANGED <<raw, age, versions>>
          \/ /\ r.status \in {"EOF", "ERROR"}
             /\ video' = [video EXCEPT !.src = TornDownSource(r.src), !.state = "ended"]
             /\ UNCHANGED <<raw, age, versions>>
    /\ UNCHANGED <<conf, loop, gate, seen, health, faults>>

\* The camera goes away or comes back.
Outage ==
    /\ conf.source.kind \in Cameras
    /\ video.up
    /\ faults < Faults
    /\ faults' = faults + 1
    /\ video' = [video EXCEPT !.up = FALSE]
    /\ UNCHANGED <<conf, raw, loop, gate, age, versions, seen, health>>

Return ==
    /\ ~video.up
    /\ video' = [video EXCEPT !.up = TRUE]
    /\ UNCHANGED <<conf, raw, loop, gate, age, versions, seen, health, faults>>

-----------------------------------------------------------------------------
(* The detection loop.                                                      *)

\* Mutant: the heartbeat does not overrule the gate.
RunsGated(moved, cadence) == moved /\ cadence.run

\* The heartbeat overrules the gate.
Runs(moved, cadence) == cadence.reason = "MAX_INTERVAL" \/ (moved /\ cadence.run)

\* Take the newest frame; the gate looks at it in any case.  What is passed by
\* is reported as a detector that is well.
Take ==
    /\ loop.state = "idle"
    /\ raw.fresh
    /\ raw' = [raw EXCEPT !.fresh = FALSE]
    /\ \E d \in {IF conf.cadence.gate THEN Decide(gate, raw.scene, conf.cadence)
                 ELSE [run |-> TRUE, gate |-> gate]},
          c \in {ShouldDetect(conf.cadence, age.detect, versions.detect)} :
          /\ gate' = d.gate
          /\ \/ /\ Runs(d.run, c)
                /\ loop' = [loop EXCEPT !.state = "busy", !.scene = raw.scene]
                /\ age' = [age EXCEPT !.taken = 0, !.held = age.read]
                /\ versions' = [versions EXCEPT !.taken = 0]
                /\ UNCHANGED health
             \/ /\ ~Runs(d.run, c)
                /\ health' = DeriveHealth(age.read, 0, FALSE, Stale)
                /\ UNCHANGED <<loop, age, versions>>
    /\ UNCHANGED <<conf, video, seen, faults>>

\* Mutant: the cadence starts again whatever became of the detection.
FailedStartsAgain == [age EXCEPT !.taken = Never, !.held = Never, !.calm = 0, !.detect = 0]

\* A failed detection leaves the cadence where it was.  `calm' is history: how
\* long nothing has gone wrong.
Failed == [age EXCEPT !.taken = Never, !.held = Never, !.calm = 0]

\* The result is applied; the read time is the one taken with the frame.
Detect ==
    /\ loop.state = "busy" /\ loop.works
    /\ seen' = loop.scene
    /\ health' = DeriveHealth(age.held, 0, FALSE, Stale)
    /\ age' = [age EXCEPT !.detect = 0, !.taken = Never, !.held = Never]
    /\ versions' = [detect |-> versions.taken, taken |-> 0]
    /\ loop' = [loop EXCEPT !.state = "idle", !.scene = NoScene, !.errors = 0]
    /\ UNCHANGED <<conf, video, raw, gate, faults>>

\* The detector raises: this once, or until it is set up again.  Errors are
\* counted up to the threshold of the recovery.
Fail ==
    /\ loop.state = "busy"
    /\ \E works \in BOOLEAN :
          /\ loop.works => faults < Faults
          /\ ~loop.works => ~works
          /\ faults' = IF loop.works THEN faults + 1 ELSE faults
          /\ loop' = [loop EXCEPT !.state = "pause", !.scene = NoScene, !.works = works,
                                  !.errors = IF @ < 4 THEN @ + 1 ELSE @]
    /\ health' = DeriveHealth(age.held, Never, TRUE, Stale)
    /\ age' = Failed
    /\ versions' = [versions EXCEPT !.taken = 0]
    /\ UNCHANGED <<conf, video, raw, gate, seen>>

\* Mutant: only the third error leads to a recovery.
ReloadsOnce == loop.errors = 3

ReloadDue == loop.errors >= 3

\* After a pause the third error in a row, and each one after it, sets the
\* detector up again, which may fail too.
Resume ==
    /\ loop.state = "pause"
    /\ \/ /\ ~ReloadDue
          /\ loop' = [loop EXCEPT !.state = "idle"]
          /\ UNCHANGED faults
       \/ /\ ReloadDue
          /\ loop' = [loop EXCEPT !.state = "idle", !.works = TRUE, !.errors = 0]
          /\ UNCHANGED faults
       \/ /\ ReloadDue
          /\ faults < Faults
          /\ faults' = faults + 1
          /\ loop' = [loop EXCEPT !.state = "idle", !.works = FALSE]
    /\ UNCHANGED <<conf, video, raw, gate, age, versions, seen, health>>

-----------------------------------------------------------------------------
(* Time.                                                                    *)

\* Within this a detection follows the one before when all is well.
Bound == conf.lease + FramePeriod + DetectTime

\* An age counts up to the first value beyond all it is compared with.
Older(a, top) == IF a # Never /\ a <= top THEN a + 1 ELSE a

Urgent == \/ loop.state = "idle" /\ raw.fresh
          \/ loop.state = "busy" /\ age.taken >= DetectTime
          \/ Flows /\ (age.read = Never \/ age.read >= FramePeriod)

Elapse ==
    /\ ~Urgent
    /\ age' = [read |-> Older(age.read, Stale.source), held |-> Older(age.held, Stale.source),
               taken |-> Older(age.taken, DetectTime), detect |-> Older(age.detect, Bound),
               calm |-> IF Flows /\ loop.works /\ loop.state # "pause" THEN Older(age.calm, Bound) ELSE 0]
    /\ UNCHANGED <<conf, video, raw, loop, gate, versions, seen, health, faults>>

LoopsNext == Read \/ Outage \/ Return \/ Take \/ Detect \/ Fail \/ Resume \/ Elapse

LoopsSpec == LoopsInit /\ [][LoopsNext]_loopVars

\* The threads run, a working detector answers in the end, time passes; neither
\* outages nor failures are fair, nor does a failed reload have to happen.
FairLoops ==
    /\ LoopsSpec
    /\ WF_loopVars(Read) /\ WF_loopVars(Take) /\ WF_loopVars(Detect \/ Fail) /\ WF_loopVars(Resume)
    /\ WF_loopVars(Elapse)

-----------------------------------------------------------------------------
(* Properties.                                                              *)

\* With a heartbeat, once a first detection was made and while frames come and
\* the detector works, no two detections are further apart than the lease of a
\* box, plus the wait for a frame and one detection.
HeartbeatHeld ==
    (conf.cadence.max > 0 /\ age.detect # Never /\ age.calm > Bound) => age.detect <= Bound

\* Detections are no closer than the throttle typed on the command line, whatever
\* the file says and the heartbeat forces, and no further apart than the
\* heartbeat asks: whatever the gate, the throttle and every-n say together, a
\* thing that stands still is found again about as soon as its box expires.
DetectionsSpaced ==
    [][/\ HeartbeatHeld'
       /\ (loop.state = "idle" /\ loop'.state = "busy" /\ conf.typed.min # Unset
             /\ age.detect # Never) => age.detect >= conf.typed.min]_loopVars

\* What makes the loop look at a still scene: no gate, a limit of skips, or the
\* heartbeat, which counts from the first detection only.
Looks == ~conf.cadence.gate \/ conf.cadence.maxSkip > 0 \/ (conf.cadence.max > 0 /\ age.detect # Never)

\* A change of the scene that lasts is detected in the end, though the gate saw
\* it while the cadence did not let the detector run, or the detector failed and
\* had to be set up again, more than once when that failed too.
ChangeSeen == \A s \in Scenes :
    <>[](Flows /\ raw.scene = s /\ Looks) => <>[](seen = s)

\* Without a motion gate an ERROR of the detector stands until a detection
\* succeeds: no frame passed by in between reports it well.
ErrorStands == [][(health.detector = "ERROR" /\ health'.detector # "ERROR" /\ ~conf.cadence.gate)
                    => age'.detect = 0 /\ loop.state = "busy"]_loopVars

\* The source is shown as live no longer when it has ended or is away for good.
LossShown == <>[](~Flows) => <>[](health.source # "LIVE")

\* With a heartbeat a detector that works is run in the end, while frames come.
HeartbeatForces == (conf.cadence.max > 0 /\ <>[]Flows) => <>(age.detect # Never)
=============================================================================
