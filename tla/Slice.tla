------------------------------- MODULE Slice -------------------------------
(***************************************************************************)
(* The pipeline application (profiles/vision_slice_app.py): a configuration *)
(* file or a command line becomes pipelines, each a source, a chain of      *)
(* stages and its sinks, run one after another by runtime/pipeline_runner.  *)
(* The runner's thread is the one actor that matters; beside it run the     *)
(* thread that writes the log file and the one that serves /metrics.        *)
(*                                                                         *)
(* An application `app' is a record                                         *)
(*   mode, validate, pipelines, args   what is to run (config or cli)       *)
(*   cli, toml                         flags and section on observability   *)
(*   machine, world                    the devices and what the cameras see *)
(*   breaks, interrupts, port          how many calls may fail, whether a   *)
(*                                     Ctrl+C may come, whether the metrics *)
(*                                     port is free                         *)
(* world[i] is [scene, length, seeks] for pipeline i, and a frame of a scene *)
(* is [dets, shape, moved, fits, fails].  Source ids are distinct.          *)
(***************************************************************************)
EXTENDS SliceConfig, Sources, Tracking, FiniteSets

CONSTANTS Apps,       \* the applications that may be started
          Threshold,  \* iou_threshold of the trackers
          LogCap,     \* records the queue of the log file holds
          MaxCount    \* counters of what an endless source may repeat stop here

IsSequence(s) == s \in Seq({s[j] : j \in DOMAIN s})

\* Pipelines, stages and sinks are lists; a limit on the series of /metrics that
\* is not positive is refused, that of the file when the file is read.
ASSUME SliceAssumption ==
    \A a \in Apps :
        /\ IsSequence(a.pipelines)
        /\ \A j \in DOMAIN a.pipelines : IsSequence(a.pipelines[j].stages) /\ IsSequence(a.pipelines[j].sinks)
        /\ a.cli.cap \in (Nat \ {0}) \cup {NoPort}
        /\ a.toml.cap \in Nat \cup {NoPort, Bad}

\* Every pipeline has something before its camera, and what a detector finds in a
\* frame of it is a list of boxes.
ASSUME WorldAssumption ==
    \A a \in Apps :
        /\ (IF a.mode = "cli" THEN {1} ELSE DOMAIN a.pipelines) \subseteq DOMAIN a.world
        /\ \A j \in DOMAIN a.world :
              /\ IsSequence(a.world[j].scene) /\ a.world[j].scene # <<>>
              /\ \A f \in DOMAIN a.world[j].scene :
                    LET dets == a.world[j].scene[f].dets
                    IN  /\ IsSequence(dets)
                        /\ \A d \in DOMAIN dets : \A c \in {"x", "y", "w", "h"} : dets[d].box[c] \in Int

VARIABLES
    app, left,          \* the application; calls that may still fail
    pc, ret, i, k, exc, \* place of the main thread, of its emission, pipeline, index, exception
    open,               \* what is set up: Source, <<"stage", k>>, <<"sink", k>>
    src, stages, n, result, out,    \* locals of a run: source, stage states, counters, last result, files
    outcome, code,      \* what each pipeline came to, exit code
    gauges, log, exp,   \* metrics, log file, exporter thread
    seen                \* history: identities the tracker has given out in this run

mainVars == <<pc, ret, i, k, exc>>
runVars  == <<src, stages, n, result, out, seen>>
obsVars  == <<gauges, log, exp>>
endVars  == <<outcome, code>>
vars     == <<app, left, mainVars, open, runVars, endVars, obsVars>>

-----------------------------------------------------------------------------
(* The application under way *)

NoCode == -1
Source == <<"source", 0>>

Pipelines == IF app.mode = "cli" THEN <<ArgsToPipeline(app.args)>> ELSE app.pipelines
P == Pipelines[i]
W == app.world[i]

SinkKinds ==
    [j \in DOMAIN P.sinks |-> P.sinks[j].type]
        \o IF app.mode = "cli" /\ app.args.track THEN <<"summary">> ELSE <<>>

SourceSpec ==
    [kind   |-> IF P.source.type = "looping" THEN "video" ELSE P.source.type,
     n      |-> IF P.source.type \in Generated THEN Param(P.source, "max_frames", 20) ELSE W.length,
     budget |-> Param(P.source, "max_reconnect", NoBudget),
     loop   |-> P.source.type = "looping",
     seeks  |-> W.seeks]

Obs == MergeObservability(app.cli, IF app.mode = "cli" THEN ObservabilityOff ELSE app.toml)

Observers == (IF Obs.observe THEN {"stdout"} ELSE {}) \cup (IF Obs.log THEN {"log"} ELSE {})
                 \cup (IF Obs.port # NoPort THEN {"metrics"} ELSE {})

Bump(c) == IF c < MaxCount THEN c + 1 ELSE c

NoCounts == [read |-> 0, processed |-> 0, skipped |-> 0, errors |-> 0, eof |-> 0, srcErrors |-> 0]
NoPacket == [has |-> {}, dets |-> <<>>, tracks |-> <<>>, events |-> <<>>, unique |-> 0, in |-> 0, out |-> 0]
NewResult == [verdict |-> "SUCCESS", packet |-> NoPacket]
NoSummary == [unique |-> 0, in |-> 0, out |-> 0]

-----------------------------------------------------------------------------
(* Stages and the executor *)

NewStage(item) ==
    CASE item.type = "motion_gate" -> NoGate
      [] item.type = "track" -> NoTracks
      [] item.type = "line_crossing" -> NoLine
      [] OTHER -> None

LineOf(item) == [a |-> [x |-> item.params["ax"], y |-> item.params["ay"]],
                 b |-> [x |-> item.params["bx"], y |-> item.params["by"]]]

Did(st, packet) == [verdict |-> "SUCCESS", st |-> st, packet |-> packet]

\* process() of one stage; a missing artifact is an error of the frame.
StageStep(item, st, packet, frame) ==
    LET failed == [verdict |-> "ERROR", st |-> st, packet |-> packet]
        With(name) == [packet EXCEPT !.has = @ \cup {name}]
    IN  CASE item.type = "motion_gate" ->
                 LET g == GateStep(st, frame.shape, frame.moved, frame.fits,
                              [roi |-> Param(item, "roi", NoBudget) # NoBudget,
                               maxSkip |-> Param(item, "max_consecutive_skip", 0)])
                 IN  [verdict |-> g.verdict, st |-> g.gate, packet |-> packet]
          [] item.type = "detect" ->
                 IF frame.fails THEN failed
                 ELSE Did(st, [With("detections") EXCEPT !.dets = frame.dets])
          [] item.type = "count" ->
                 IF "detections" \in packet.has THEN Did(st, With("count")) ELSE failed
          [] item.type = "track" ->
                 IF "detections" \notin packet.has THEN failed
                 ELSE LET t == TrackerUpdate(st, packet.dets, Threshold, Param(item, "max_age", 30))
                      IN  Did(t.tracker, [With("tracks") EXCEPT !.tracks = t.out,
                                                                !.unique = t.tracker.next])
          [] item.type = "line_crossing" ->
                 IF "tracks" \notin packet.has THEN failed
                 ELSE LET l == LineUpdate(st, packet.tracks, LineOf(item), n.read)
                      IN  Did(l.line, [With("crossings") EXCEPT !.events = l.events,
                                                                !.in = l.line.in, !.out = l.line.out])

Tally(verdict) ==
    CASE verdict = "SUCCESS" -> [n EXCEPT !.processed = @ + 1]
      [] verdict = "SKIPPED" -> [n EXCEPT !.skipped = @ + 1]
      [] verdict = "ERROR"   -> [n EXCEPT !.errors = @ + 1]

-----------------------------------------------------------------------------
(* Sinks *)

\* What a result adds to the file of a sink.
Rows(kind) ==
    IF result.verdict # "SUCCESS" THEN <<>>
    ELSE CASE kind = "jsonl" -> <<n.read>>
           [] kind \in {"crossing_events", "crossing_events_sqlite"} -> result.packet.events
           [] kind = "summary" -> <<>>

\* The summary keeps what it last saw of each artifact.
Summary(old) ==
    IF result.verdict # "SUCCESS" THEN old
    ELSE [unique |-> IF "tracks" \in result.packet.has THEN result.packet.unique ELSE old.unique,
          in  |-> IF "crossings" \in result.packet.has THEN result.packet.in ELSE old.in,
          out |-> IF "crossings" \in result.packet.has THEN result.packet.out ELSE old.out]

-----------------------------------------------------------------------------
(* Observation *)

\* Mutant: an observer that raises silences the ones after it.
ReachedInOrder(broken) == IF broken THEN {} ELSE Observers

\* The observers a snapshot reaches when the first of them raises.
Reached(broken) == IF broken THEN Observers \ {"stdout"} ELSE Observers

Admit(series, value) ==
    IF i \in DOMAIN series \/ Obs.cap = NoPort \/ Cardinality(DOMAIN series) < Obs.cap
    THEN [s \in DOMAIN series \cup {i} |-> IF s = i THEN value ELSE series[s]]
    ELSE series

\* A full queue drops the new record and counts it.
Enqueued(record) ==
    IF Len(log.queue) < LogCap THEN [log EXCEPT !.queue = Append(@, record)]
    ELSE [log EXCEPT !.dropped = @ + 1]

EmitThen(place) ==
    ret' = place /\ pc' = IF Observers = {} THEN place ELSE "emit"

-----------------------------------------------------------------------------
(* Starting *)

Init ==
    /\ app \in Apps
    /\ left = app.breaks
    /\ pc = "load" /\ ret = None /\ i = 1 /\ k = 1 /\ exc = None
    /\ open = {}
    /\ src = Closed /\ stages = <<>> /\ n = NoCounts /\ result = NewResult
    /\ out = [files |-> <<>>, summary |-> NoSummary] /\ seen = {}
    /\ outcome = <<>> /\ code = NoCode
    /\ gauges = [frames |-> [s \in {} |-> 0], errors |-> [s \in {} |-> 0]]
    /\ log = [state |-> "off", queue |-> <<>>, file |-> <<>>, dropped |-> 0]
    /\ exp = "off"

Exit(c) == pc' = "done" /\ code' = c

\* Read the file or the flags; --validate stops here.
Load ==
    /\ pc = "load"
    /\ IF app.mode = "cli" THEN IF ValidArgs(app.args) THEN pc' = "observe" /\ UNCHANGED code ELSE Exit(2)
       ELSE IF ~Parsed(app.pipelines, app.toml) THEN Exit(IF app.validate THEN 2 ELSE 1)
       ELSE IF app.validate
       THEN Exit(IF \A j \in DOMAIN app.pipelines : Valid(app.pipelines[j]) THEN 0 ELSE 2)
       ELSE pc' = "observe" /\ UNCHANGED code
    /\ UNCHANGED <<app, left, ret, i, k, exc, open, runVars, outcome, obsVars>>

\* Open the log file, then bind the exporter: a port that is taken ends the
\* program with the log still open.  A file without pipelines is done.
Observe ==
    /\ pc = "observe"
    /\ log' = IF Obs.log THEN [log EXCEPT !.state = "open"] ELSE log
    /\ IF Obs.port # NoPort /\ ~app.port
       THEN Exit(1) /\ exp' = exp
       ELSE /\ pc' = IF Pipelines = <<>> THEN "close" ELSE "build"
            /\ UNCHANGED code
            /\ exp' = IF Obs.port # NoPort THEN "born" ELSE exp
    /\ UNCHANGED <<app, left, ret, i, k, exc, open, runVars, outcome, gauges>>

\* Mutant: a pipeline that cannot be built ends the run of the file.
BuildFailedEndsRun(fault) == pc' = "close" /\ exc' = fault /\ UNCHANGED code

\* The bulkhead takes any exception; the command line knows only one.
BuildFailed(fault) ==
    IF app.mode = "config" THEN pc' = "ended" /\ exc' = fault /\ UNCHANGED code
    ELSE IF fault = "CapabilityError" THEN pc' = "close" /\ exc' = fault /\ UNCHANGED code
    ELSE Exit(1) /\ exc' = fault

\* What an earlier runner left open is collected with it.
Build ==
    /\ pc = "build"
    /\ LET fault == BuildFault(P, app.machine)
       IN  IF fault # None THEN BuildFailed(fault) /\ UNCHANGED <<k, src, stages, n, result, out, seen>>
           ELSE /\ pc' = "setup" /\ k' = 1 /\ src' = Closed /\ n' = NoCounts /\ result' = NewResult
                /\ stages' = [j \in DOMAIN P.stages |-> NewStage(P.stages[j])]
                /\ out' = [files |-> [j \in DOMAIN SinkKinds |-> <<>>], summary |-> NoSummary]
                /\ seen' = {} /\ UNCHANGED <<exc, code>>
    /\ ret' = None /\ open' = {}
    /\ UNCHANGED <<app, left, i, outcome, obsVars>>

Breaks == left > 0 /\ left' = left - 1

SetupSource ==
    /\ pc = "setup"
    /\ \E ok \in BOOLEAN :
          /\ IF ok \/ SourceSpec.kind = "rtsp" THEN UNCHANGED left ELSE Breaks
          /\ IF SetupRaises(SourceSpec, ok)
             THEN exc' = "RuntimeError" /\ EmitThen("ended") /\ UNCHANGED <<k, open, src>>
             ELSE /\ ok \/ SourceSpec.kind = "rtsp"
                  /\ src' = Opened(SourceSpec, src, ok) /\ open' = open \cup {Source}
                  /\ pc' = "stages" /\ k' = 1 /\ UNCHANGED <<ret, exc>>
    /\ UNCHANGED <<app, i, stages, n, result, out, seen, endVars, obsVars>>

OpenStages == {c \in open : c[1] = "stage"}
OpenSinks  == {c \in open : c[1] = "sink"}

\* Mutant: what the setup had opened stays open.
UndoStagesNever == {}

\* setup_all, when a stage raises: tear down those that were set up.
UndoStages == OpenStages

\* Only loading a model can fail.
SetupStage ==
    /\ pc = "stages"
    /\ \/ /\ k > Len(P.stages) /\ pc' = "sinks" /\ k' = 1 /\ UNCHANGED <<left, exc, open>>
       \/ /\ k <= Len(P.stages) /\ k' = k + 1 /\ open' = open \cup {<<"stage", k>>}
          /\ UNCHANGED <<left, pc, exc>>
       \/ /\ k <= Len(P.stages) /\ P.stages[k].type = "detect" /\ Breaks
          /\ open' = open \ UndoStages /\ exc' = "RuntimeError" /\ pc' = "unsource" /\ UNCHANGED k
    /\ UNCHANGED <<app, ret, i, runVars, endVars, obsVars>>

\* A sink that cannot open its file leaves the ones before it open.
SetupSink ==
    /\ pc = "sinks"
    /\ \/ /\ k > Len(SinkKinds) /\ pc' = "loop" /\ UNCHANGED <<left, k, exc, open>>
       \/ /\ k <= Len(SinkKinds) /\ k' = k + 1 /\ open' = open \cup {<<"sink", k>>}
          /\ UNCHANGED <<left, pc, exc>>
       \/ /\ k <= Len(SinkKinds) /\ SinkKinds[k] # "summary" /\ Breaks
          /\ exc' = "OSError" /\ pc' = "unstage" /\ UNCHANGED <<k, open>>
    /\ UNCHANGED <<app, ret, i, runVars, endVars, obsVars>>

-----------------------------------------------------------------------------
(* The loop *)

\* A snapshot when one is due by the clock, then the limit on frames.
Loop ==
    /\ pc = "loop"
    /\ LET next == IF P.max # NoBudget /\ n.read >= P.max THEN "unsink" ELSE "read"
       IN  (pc' = next /\ UNCHANGED ret) \/ (Obs.interval > 0 /\ Observers # {} /\ EmitThen(next))
    /\ UNCHANGED <<app, left, i, k, exc, open, runVars, endVars, obsVars>>

Read(ok) ==
    /\ pc = "read"
    /\ LET r == ReadSource(SourceSpec, src, ok, MaxCount)
       IN  /\ src' = r.src
           /\ CASE r.status = "EOF" ->
                     /\ n' = [n EXCEPT !.eof = Bump(@)]
                     /\ pc' = IF IsFinite(SourceSpec, r.src) THEN "unsink" ELSE "loop"
                [] r.status = "ERROR" -> n' = [n EXCEPT !.srcErrors = Bump(@)] /\ pc' = "loop"
                [] r.status = "RECONNECTING" -> pc' = "loop" /\ UNCHANGED n
                [] r.status = "FRAME" -> n' = [n EXCEPT !.read = @ + 1] /\ pc' = "execute"
           /\ IF r.status = "FRAME" THEN k' = 1 /\ result' = NewResult ELSE UNCHANGED <<k, result>>
    /\ UNCHANGED <<app, left, ret, i, exc, open, stages, out, seen, endVars, obsVars>>

\* The camera answers, or the source has no camera.
ReadGood == Read(TRUE)
ReadBad  == Read(FALSE) /\ SourceSpec.kind = "rtsp"

Frame == W.scene[((n.read - 1) % Len(W.scene)) + 1]

\* The packet goes down the chain up to the first stage that does not succeed.
ExecuteStage ==
    /\ pc = "execute" /\ k <= Len(P.stages) /\ result.verdict = "SUCCESS"
    /\ \E s \in {StageStep(P.stages[k], stages[k], result.packet, Frame)} :
          /\ result' = [verdict |-> s.verdict, packet |-> s.packet]
          /\ stages' = [stages EXCEPT ![k] = s.st]
    /\ seen' = seen \cup {result'.packet.tracks[j].id : j \in DOMAIN result'.packet.tracks}
    /\ k' = k + 1
    /\ UNCHANGED <<app, left, pc, ret, i, exc, open, src, n, out, endVars, obsVars>>

Executed ==
    /\ pc = "execute" /\ (k > Len(P.stages) \/ result.verdict # "SUCCESS")
    /\ n' = Tally(result.verdict) /\ k' = 1
    /\ IF Obs.every > 0 /\ n.read % Obs.every = 0 THEN EmitThen("handle")
       ELSE pc' = "handle" /\ UNCHANGED ret
    /\ UNCHANGED <<app, left, i, exc, open, src, stages, result, out, seen, endVars, obsVars>>

\* One sink after the other; one that fails keeps part of its rows, and those
\* after it miss the result.
Handle ==
    /\ pc = "handle"
    /\ \/ /\ k > Len(SinkKinds) /\ pc' = "loop" /\ UNCHANGED <<left, k, exc, out>>
       \/ /\ k <= Len(SinkKinds) /\ k' = k + 1
          /\ out' = [files |-> [out.files EXCEPT ![k] = @ \o Rows(SinkKinds[k])],
                     summary |-> IF SinkKinds[k] = "summary" THEN Summary(out.summary) ELSE out.summary]
          /\ UNCHANGED <<left, pc, exc>>
       \/ /\ k <= Len(SinkKinds) /\ Rows(SinkKinds[k]) # <<>> /\ Breaks
          /\ \E m \in 0 .. Len(Rows(SinkKinds[k])) :
                out' = [out EXCEPT !.files[k] = @ \o SubSeq(Rows(SinkKinds[k]), 1, m)]
          /\ exc' = "OSError" /\ pc' = "unsink" /\ UNCHANGED k
    /\ UNCHANGED <<app, ret, i, open, src, stages, n, result, seen, endVars, obsVars>>

-----------------------------------------------------------------------------
(* Teardown, in reverse of the setup *)

Unsink ==
    /\ pc = "unsink" /\ open' = open \ OpenSinks /\ pc' = "unstage"
    /\ UNCHANGED <<app, left, ret, i, k, exc, runVars, endVars, obsVars>>

\* Teardown resets every state but a motion gate's idea of its camera, which
\* no second run shares.
Unstage ==
    /\ pc = "unstage" /\ open' = open \ OpenStages /\ pc' = "unsource"
    /\ stages' = [j \in DOMAIN stages |-> NewStage(P.stages[j])]
    /\ UNCHANGED <<app, left, ret, i, k, exc, src, n, result, out, seen, endVars, obsVars>>

\* Releasing a capture may raise, after it has been forgotten.
Unsource ==
    /\ pc = "unsource" /\ open' = open \ {Source}
    /\ src' = TornDownSource(src)
    /\ UNCHANGED <<left, exc>> \/ (SourceSpec.kind \notin Generated /\ Breaks /\ exc' = "RuntimeError")
    /\ EmitThen("ended")
    /\ UNCHANGED <<app, i, k, stages, n, result, out, seen, endVars, obsVars>>

\* Ctrl+C.  The unwinding passes the finally blocks that are entered, not the
\* rollback of setup_all, which is for an Exception.
Unwound ==
    CASE pc = "build" -> IF app.mode = "config" THEN "close" ELSE "done"
      [] pc = "setup" -> "final"
      [] pc = "stages" -> "unsource"
      [] pc = "sinks" -> "unstage"
      [] pc \in {"loop", "read", "execute", "handle"} -> "unsink"

Interrupt ==
    /\ app.interrupts /\ exc = None
    /\ pc \in {"build", "setup", "stages", "sinks", "loop", "read", "execute", "handle"}
    /\ exc' = "Interrupt"
    /\ IF Unwound = "final" THEN EmitThen("ended") ELSE pc' = Unwound /\ UNCHANGED ret
    /\ code' = IF Unwound = "done" THEN 1 ELSE code
    /\ UNCHANGED <<app, left, i, k, open, runVars, outcome, obsVars>>

-----------------------------------------------------------------------------
(* A snapshot: the log and the frames of a camera, then its errors.         *)

\* Mutant: the errors before the frames they were counted in.
FirstGaugeErrors(g) == [g EXCEPT !.errors = Admit(@, n.errors)]

FirstGauge(g) == [g EXCEPT !.frames = Admit(@, n.read)]

Emit ==
    /\ pc = "emit"
    /\ \E broken \in BOOLEAN :
          /\ pc' = IF "metrics" \in Reached(broken) THEN "emit2" ELSE ret
          /\ IF broken THEN "stdout" \in Observers /\ Breaks ELSE UNCHANGED left
          /\ log' = IF "log" \in Reached(broken) THEN Enqueued([i |-> i, n |-> n, final |-> ret = "ended"])
                    ELSE log
          /\ gauges' = IF "metrics" \in Reached(broken)
                       THEN FirstGauge(gauges) ELSE gauges
    /\ UNCHANGED <<app, ret, i, k, exc, open, runVars, endVars, exp>>

EmitErrors ==
    /\ pc = "emit2" /\ pc' = ret
    /\ gauges' = [gauges EXCEPT !.errors = Admit(@, n.errors)]
    /\ UNCHANGED <<app, left, ret, i, k, exc, open, runVars, endVars, log, exp>>

-----------------------------------------------------------------------------
(* Ends *)

Outcome == IF exc = None THEN "ok" ELSE "failed"

\* The bulkhead: what a pipeline raised is counted and the next one starts.
Ended ==
    /\ pc = "ended"
    /\ IF app.mode = "cli" \/ exc = "Interrupt"
       THEN pc' = "close" /\ UNCHANGED <<i, exc, outcome>>
       ELSE /\ outcome' = Append(outcome, Outcome) /\ exc' = None
            /\ IF i < Len(Pipelines) THEN i' = i + 1 /\ pc' = "build" ELSE i' = i /\ pc' = "close"
    /\ UNCHANGED <<app, left, ret, k, open, runVars, code, obsVars>>

ExitCode ==
    IF exc = "CapabilityError" THEN 2
    ELSE IF exc # None \/ \E j \in DOMAIN outcome : outcome[j] = "failed" THEN 1 ELSE 0

\* stop() of the exporter waits for its thread, then shutdown() of the log
\* enqueues a sentinel, which raises on a full queue, and waits for the writer.
Close ==
    \/ /\ pc = "close" /\ exp \in {"born", "serving"} /\ exp' = "stopping" /\ UNCHANGED <<pc, code, log>>
    \/ /\ pc = "close" /\ exp \in {"off", "stopped"} /\ UNCHANGED exp
       /\ IF log.state = "off" THEN Exit(ExitCode) /\ UNCHANGED log
          ELSE IF Len(log.queue) >= LogCap THEN Exit(1) /\ UNCHANGED log
          ELSE pc' = "drain" /\ log' = [log EXCEPT !.state = "closing"] /\ UNCHANGED code
    \/ /\ pc = "drain" /\ log.queue = <<>>
       /\ log' = [log EXCEPT !.state = "closed"] /\ Exit(ExitCode) /\ UNCHANGED exp

CloseAll ==
    /\ Close
    /\ UNCHANGED <<app, left, ret, i, k, exc, open, runVars, outcome, gauges>>

\* The writer of the log and the server of /metrics: daemon threads.
WriteLog ==
    /\ pc # "done" /\ log.queue # <<>>
    /\ log' = [log EXCEPT !.queue = Tail(@), !.file = Append(@, Head(log.queue))]
    /\ UNCHANGED <<app, left, mainVars, open, runVars, endVars, gauges, exp>>

Serve ==
    /\ pc # "done"
    /\ \/ exp = "born" /\ exp' = "serving"
       \/ exp = "stopping" /\ exp' = "stopped"
    /\ UNCHANGED <<app, left, mainVars, open, runVars, endVars, gauges, log>>

Main == \/ Load \/ Observe \/ Build \/ SetupSource \/ SetupStage \/ SetupSink \/ Loop \/ ReadGood \/ ReadBad
        \/ ExecuteStage \/ Executed \/ Handle \/ Unsink \/ Unstage \/ Unsource \/ Emit \/ EmitErrors \/ Ended \/ CloseAll

Next == Main \/ Interrupt \/ WriteLog \/ Serve

Spec == Init /\ [][Next]_vars

\* The threads run, and a camera that is asked again and again opens now and then
\* and delivers now and then.
FairSpec ==
    /\ Spec /\ WF_vars(Main) /\ WF_vars(WriteLog) /\ WF_vars(Serve)
    /\ SF_vars(ReadGood /\ src.cap) /\ SF_vars(ReadGood /\ ~src.cap)

-----------------------------------------------------------------------------
(* Properties *)

Running == {"setup", "stages", "sinks", "loop", "read", "execute", "handle"}

StagesOf(type) == {j \in DOMAIN P.stages : P.stages[j].type = type}
SinksOf(types) == {j \in DOMAIN out.files : SinkKinds[j] \in types}
CrossingSinks  == SinksOf({"crossing_events", "crossing_events_sqlite"})

\* A run that has read a frame leaves nothing set up, however it ended.  One that
\* failed on its way up leaves its source and, unless it was interrupted, its
\* stages torn down; only sinks that were opened before one that failed stay.
TornDown ==
    pc = "ended" /\ ret = "ended" =>
        /\ Source \notin open
        /\ OpenStages # {} => app.interrupts
        /\ n.read > 0 => open = {}

\* A counting line is the last stage of its chain, as the command line puts it.
LineEnds == \A l \in StagesOf("line_crossing") : l = Len(P.stages)

\* A line is across the whole picture when nobody gets to its other side round one
\* of its ends.
Centres == UNION {{Centre(W.scene[f].dets[d].box) : d \in DOMAIN W.scene[f].dets} : f \in DOMAIN W.scene}

Across(line) ==
    \A p, q \in Centres :
        (Orient(line.a, line.b, p) > 0) # (Orient(line.a, line.b, q) > 0)
        => (Orient(p, q, line.a) > 0) # (Orient(p, q, line.b) > 0)

\* Between two frames everything that reports crossings reports the same: both
\* event files hold the same events, as many each way as a line at the end of the
\* chain has counted (a stage behind it can fail a frame whose crossings are
\* counted already), the frame log has a line per frame processed, and the summary
\* has the line's counts and as many identities as the tracker has given out.
ReportsAgree ==
    pc = "loop" =>
        /\ \A j, l \in CrossingSinks : out.files[j] = out.files[l]
        /\ \A j \in SinksOf({"jsonl"}) : Len(out.files[j]) = n.processed
        /\ LineEnds =>
              \A j \in CrossingSinks, l \in StagesOf("line_crossing"), d \in {"in", "out"} :
                  Cardinality({e \in DOMAIN out.files[j] : out.files[j][e].dir = d}) = stages[l][d]
        /\ \A j \in SinksOf({"summary"}) : out.summary.unique = Cardinality(seen)
        /\ \A j \in SinksOf({"summary"}), l \in StagesOf("line_crossing") :
              out.summary.in = stages[l].in /\ out.summary.out = stages[l].out

\* Of one object in sight, an event file has crossings one way and the other in turn.
Alternates(events) ==
    \A a, b \in DOMAIN events :
        /\ a < b /\ events[a].id = events[b].id /\ events[a].since = events[b].since
        /\ \A c \in a + 1 .. b - 1 : events[c].id # events[a].id
        => events[a].dir # events[b].dir

\* An object that stays in sight of a line across the whole picture crosses it one
\* way and then the other, never twice the same way, whatever becomes of the run.
CrossingsAlternate ==
    pc \in Running \cup {"unsink", "unstage", "unsource"} /\ LineEnds =>
        \A l \in StagesOf("line_crossing"), j \in CrossingSinks :
            Across(LineOf(P.stages[l])) => Alternates(out.files[j])

\* What is reported of crossings is one story, and one that can be true.
CrossingsReported == ReportsAgree /\ CrossingsAlternate

\* What a frame continues of the tracks it found is a stable matching: no
\* detection and track of one label that overlap enough are kept apart but by a
\* better pair of one of them.
StableAssociation ==
    [][pc = "execute" /\ k \in StagesOf("track") /\ k' = k + 1 /\ result'.verdict = "SUCCESS" =>
         LET old == stages[k].tracks
             new == result'.packet.tracks
         IN  StableMatching(old, result.packet.dets, Threshold,
                 {m \in (DOMAIN new) \X (DOMAIN old) : new[m[1]].id = m[2]})]_vars

\* A scrape of /metrics never shows more failed frames than frames, though the
\* gauges of a snapshot are written one by one.
ScrapeSane ==
    \A s \in DOMAIN gauges.errors :
        s \in DOMAIN gauges.frames /\ gauges.errors[s] <= gauges.frames[s]

\* The last snapshot of a run is what remains: in the gauges of its camera, unless
\* their number is at its limit, and as the last line of the log file, unless a
\* full queue made it drop one, whatever happened to the run or to another observer.
LastWordTrue ==
    /\ pc = "ended" /\ ret = "ended" /\ "metrics" \in Observers =>
          IF i \in DOMAIN gauges.frames
          THEN gauges.frames[i] = n.read /\ gauges.errors[i] = n.errors
          ELSE Cardinality(DOMAIN gauges.frames) = Obs.cap
    /\ log.state = "closed" /\ log.dropped = 0 /\ log.file # <<>> =>
          LET last == log.file[Len(log.file)] IN last.final /\ last.n = n

\* Every pipeline of the file is tried, whatever happened to those before it,
\* unless the user stops the program; and 0 means that all of them ran.
NoPipelineForgotten ==
    pc = "done" /\ app.mode = "config" /\ ~app.validate =>
        /\ outcome # <<>> /\ exc # "Interrupt" => Len(outcome) = Len(app.pipelines)
        /\ code = 0 => \A j \in DOMAIN app.pipelines : j \in DOMAIN outcome /\ outcome[j] = "ok"

\* What --validate refuses never opens its camera, and the command line makes
\* nothing that --validate would refuse.
RejectedNeverRuns == pc \in Running => Valid(P)

\* What the program says is what happens: of a configuration before it runs, in a
\* scrape on the way, and last in its gauges, its log and its exit code.
AccountsTrue == RejectedNeverRuns /\ ScrapeSane /\ LastWordTrue /\ NoPipelineForgotten

\* The program ends when its sources do: files and generators end, a camera
\* answers often enough for the frames that were asked for.
AppEnds == <>(pc = "done")

\* "An error of one pipeline must not drag down the others": the last pipeline
\* of the file is reached.
LastPipelineReached == <>(i = Len(Pipelines))
=============================================================================
