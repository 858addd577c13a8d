------------------------------- MODULE MCSlice -------------------------------
(* Applications for Slice: every scene of a few frames under one chain of
   analytics, and a few files and command lines whose calls may fail. *)
EXTENDS Slice

IouThreshold == <<3, 10>>

Box(x) == [x |-> x, y |-> 0, w |-> 4, h |-> 2]
Car(x) == [label |-> "car", box |-> Box(x)]
Man(x) == [label |-> "man", box |-> Box(x)]

Shot(dets) == [dets |-> dets, shape |-> "hd", moved |-> TRUE, fits |-> TRUE, fails |-> FALSE]

World(scene) == [scene |-> scene, length |-> Len(scene), seeks |-> TRUE]
Still  == World(<<Shot(<<Car(0)>>)>>)
Broken == World(<<Shot(<<>>), [Shot(<<>>) EXCEPT !.fails = TRUE]>>)
Clip   == World(<<Shot(<<Car(0)>>), Shot(<<Car(1)>>)>>)
Stuck  == [World(<<Shot(<<>>)>>) EXCEPT !.seeks = FALSE]

Machine == [torch |-> 0, onnx |-> 1]

-----------------------------------------------------------------------------
(* Command lines *)

Args == [source |-> "fake", frames |-> 3, max |-> NoBudget, video |-> FALSE, rtsp |-> FALSE,
         maxReconnect |-> NoBudget, detector |-> "fake", weights |-> FALSE, device |-> Cpu,
         gate |-> FALSE, gateMaxSkip |-> 0, track |-> FALSE, maxAge |-> 1, line |-> NoParams,
         out |-> FALSE, crossingOut |-> FALSE, crossingDb |-> FALSE]

\* Upright through the centre of Car(1), higher than the picture (in half units).
Line == [ax |-> 6, ay |-> 100, bx |-> 6, by |-> -100]

App == [mode |-> "cli", validate |-> FALSE, pipelines |-> <<>>, args |-> Args,
        cli |-> ObservabilityOff, toml |-> ObservabilityOff, machine |-> Machine,
        world |-> <<Still>>, breaks |-> 0, interrupts |-> FALSE, port |-> TRUE]

Counting == [Args EXCEPT !.track = TRUE, !.line = Line, !.crossingOut = TRUE, !.crossingDb = TRUE]

Views == {Shot(<<>>)} \cup {Shot(<<Car(x)>>) : x \in 0 .. 3}
             \cup {Shot(<<Car(p[1]), Car(p[2])>>) : p \in {<<1, 2>>, <<2, 0>>}}
             \cup {Shot(<<Man(1), Car(2)>>)}

Scene(views, frames, maxAge) ==
    {[App EXCEPT !.args = [Counting EXCEPT !.frames = frames, !.maxAge = maxAge], !.world = <<World(s)>>] :
        s \in [1 .. frames -> views]}

\* Any three frames; a car that goes to and fro; one that is lost and comes back.
Scenes == Scene(Views, 3, 1) \cup Scene({Shot(<<Car(x)>>) : x \in 0 .. 2}, 5, 1)
              \cup Scene({Shot(<<>>), Shot(<<Car(0)>>), Shot(<<Car(3)>>)}, 4, 1)

\* A gate before the chain, frames that do not move and frames of another shape.
Gated == {[App EXCEPT !.args = [Counting EXCEPT !.gate = TRUE, !.gateMaxSkip = 1, !.out = TRUE],
                      !.world = <<World(s)>>] :
             s \in [1 .. 3 -> {Shot(<<Car(1)>>), [Shot(<<Car(2)>>) EXCEPT !.moved = FALSE],
                               [Shot(<<Car(3)>>) EXCEPT !.shape = "sd"]}]}

-----------------------------------------------------------------------------
(* Files *)

Pipe(id, source) ==
    [id |-> id, source |-> source, detector |-> Item("fake", NoParams), max |-> NoBudget,
     stages |-> <<Item("detect", NoParams), Item("count", NoParams)>>,
     sinks |-> <<Item("jsonl", [path |-> 0])>>]

Fake(id, frames) == Pipe(id, Item("fake", [max_frames |-> frames]))
Video(id) == Pipe(id, Item("video", [path |-> 0]))
Rtsp(id, budget) == [Pipe(id, Item("rtsp", [url |-> 0, max_reconnect |-> budget])) EXCEPT !.max = 2]
Looping(id, max) == [Pipe(id, Item("looping", [path |-> 0])) EXCEPT !.max = max]

Typo(id)     == [Fake(id, 1) EXCEPT !.stages = <<Item("detect", NoParams), Item("track", [max_agee |-> 3])>>]
Needs(id)    == Pipe(id, Item("video", NoParams))
Cuda2(id)    == [Fake(id, 1) EXCEPT !.detector = Item("pt", [weights |-> 0, device |-> Cuda])]
Sightless(id) == [Fake(id, 1) EXCEPT !.detector = NoDetector]
RoiBad(id)   == [Fake(id, 1) EXCEPT !.stages = <<Item("motion_gate", [roi |-> Bad])>>]
Blind(id)    == [Fake(id, 2) EXCEPT !.stages = <<Item("count", NoParams)>>]
Both(id)     == [Fake(id, 1) EXCEPT !.sinks = <<Item("jsonl", [path |-> 0]), Item("crossing_events", [path |-> 0])>>]

File(pipelines, world) == [App EXCEPT !.mode = "config", !.pipelines = pipelines, !.world = world]

Seen(apps)   == {[a EXCEPT !.toml = [ObservabilityOff EXCEPT !.observe = TRUE, !.port = 9, !.every = 1]] : a \in apps}
Logged(apps) == {[a EXCEPT !.cli = [ObservabilityOff EXCEPT !.log = TRUE, !.every = 1],
                           !.toml = [ObservabilityOff EXCEPT !.port = 9, !.cap = 1]] : a \in apps}
Timed(apps)  == {[a EXCEPT !.cli = [ObservabilityOff EXCEPT !.port = 9]] : a \in apps}
Failing(apps) == {[a EXCEPT !.breaks = 1] : a \in apps}
Stopped(apps) == {[a EXCEPT !.interrupts = TRUE] : a \in apps}

Sound ==
    {File(<<Fake("a", 2), Video("b")>>, <<Broken, Clip>>),
     File(<<Rtsp("a", NoBudget), Both("b")>>, <<Still, Still>>),
     File(<<>>, <<>>)}

Faulty ==
    {File(<<Fake("a", 1), bad, Fake("c", 1)>>, <<Still, Still, Still>>) :
        bad \in {Typo("b"), Needs("b"), Cuda2("b"), Sightless("b"), RoiBad("b"), Blind("b"),
                 Pipe("b", Item("nosuch", NoParams)), Fake("a", 1),
                 [Fake("b", 1) EXCEPT !.max = Bad]}}

Loops == {File(<<Looping("a", 3), Looping("b", NoBudget)>>, <<Clip, Stuck>>)}

Lines ==
    {[App EXCEPT !.args = a] :
        a \in {[Args EXCEPT !.frames = 2, !.out = TRUE], [Args EXCEPT !.source = "rtsp"],
               [Args EXCEPT !.source = "rtsp", !.rtsp = TRUE, !.max = 1],
               [Args EXCEPT !.source = "video", !.video = TRUE],
               [Args EXCEPT !.crossingOut = TRUE], [Args EXCEPT !.line = Line],
               [Args EXCEPT !.detector = "pt", !.weights = TRUE, !.device = Cuda],
               [Args EXCEPT !.track = TRUE, !.maxAge = Bad],
               [Args EXCEPT !.gate = TRUE, !.gateMaxSkip = 1]}}

Fleet ==
    Stopped(Failing(Seen(Sound))) \cup Failing(Logged(Sound)) \cup Failing(Loops)
        \cup Timed(Faulty) \cup {[a EXCEPT !.validate = TRUE] : a \in Faulty \cup Sound}
        \cup Failing(Lines) \cup Failing(Logged(Lines)) \cup Failing(Timed(Lines)) \cup {[a EXCEPT !.port = FALSE] : a \in Logged(Sound)}

AllApps == Scenes \cup Gated \cup Fleet

\* A camera that may stay away for longer than its reconnections.
DeadCamera == {File(<<Rtsp("a", 1), Fake("b", 1)>>, <<Still, Still>>)}
=============================================================================
