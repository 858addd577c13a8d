---------------------------- MODULE SliceConfig ----------------------------
(***************************************************************************)
(* From a configuration to a runner: application/config_loader.py,          *)
(* kernel/config.py, profiles/pipeline_factory.py and the flags of          *)
(* profiles/vision_slice_app.py.                                           *)
(*                                                                         *)
(* An item of a configuration is [type, params]; params is a function from *)
(* the keys that are given to integers.  Bad stands for a value outside the *)
(* range its builder accepts, None for a field that is missing or of the    *)
(* wrong type.  A device is Cpu, AutoDevice, Cuda or n + 1 for cuda:n.     *)
(***************************************************************************)
EXTENDS Integers, Sequences

None == "none"
Bad  == -9
Cpu  == 0
AutoDevice == -1
Cuda == -2

Item(type, params) == [type |-> type, params |-> params]
NoParams == [k \in {} |-> 0]
NoDetector == Item(None, NoParams)

Param(item, key, default) ==
    IF key \in DOMAIN item.params THEN item.params[key] ELSE default

-----------------------------------------------------------------------------
(* The registry: per section and type, the keys a builder knows and those it *)
(* needs.  `looping' stands for an entry a caller adds, the registry being a *)
(* parameter: a video that starts again at its end.                        *)

Keys(needed, optional) == [allowed |-> needed \cup optional, needed |-> needed]

Registry ==
    [sources   |-> [fake  |-> Keys({}, {"max_frames"}),
                    noise |-> Keys({}, {"max_frames"}),
                    video |-> Keys({"path"}, {}),
                    rtsp  |-> Keys({"url"}, {"max_reconnect"}),
                    looping |-> Keys({"path"}, {})],
     detectors |-> [fake  |-> Keys({}, {"model_size"}),
                    pt    |-> Keys({"weights"}, {"device"}),
                    onnx  |-> Keys({"weights"}, {"labels", "yolo", "layout", "conf",
                                                 "model_size", "device"})],
     stages    |-> [detect |-> Keys({}, {}),
                    count  |-> Keys({}, {}),
                    motion_gate   |-> Keys({}, {"pixel_diff_threshold", "min_area_ratio",
                                                "max_consecutive_skip", "roi",
                                                "illumination_robust"}),
                    track         |-> Keys({}, {"iou_threshold", "max_age"}),
                    line_crossing |-> Keys({"ax", "ay", "bx", "by"}, {})],
     sinks     |-> [jsonl |-> Keys({"path"}, {}),
                    crossing_events |-> Keys({"path"}, {}),
                    crossing_events_sqlite |-> Keys({"path"}, {})]]

Known(section, item) == item.type \in DOMAIN Registry[section]

\* _lookup, then _check_params: what both the dry run and the build refuse.
Accepted(section, item) ==
    /\ Known(section, item)
    /\ DOMAIN item.params \subseteq Registry[section][item.type].allowed

-----------------------------------------------------------------------------
(* parse_app_config: structure only, and one fault refuses the whole file.  *)

WellTyped(item) == item.type # None

ParsedPipeline(p) ==
    /\ p.id # None
    /\ WellTyped(p.source)
    /\ p.detector = NoDetector \/ WellTyped(p.detector)
    /\ \A j \in DOMAIN p.stages : WellTyped(p.stages[j])
    /\ \A j \in DOMAIN p.sinks : WellTyped(p.sinks[j])
    /\ p.max # Bad

ParsedObservability(o) == Bad \notin {o.port, o.interval, o.every, o.cap} /\ o.cap # 0

Parsed(pipelines, obs) ==
    /\ \A j \in DOMAIN pipelines : ParsedPipeline(pipelines[j])
    /\ \A j, l \in DOMAIN pipelines : j # l => pipelines[j].id # pipelines[l].id
    /\ ParsedObservability(obs)

-----------------------------------------------------------------------------
(* validate_config: without building anything, so that a key that is missing *)
(* or a value out of range passes.                                         *)

Uses(p, type) == \E j \in DOMAIN p.stages : p.stages[j].type = type

Valid(p) ==
    /\ Accepted("sources", p.source)
    /\ \A j \in DOMAIN p.stages : Accepted("stages", p.stages[j])
    /\ \A j \in DOMAIN p.sinks : Accepted("sinks", p.sinks[j])
    /\ p.detector = NoDetector \/ Accepted("detectors", p.detector)
    /\ ~(Uses(p, "detect") /\ p.detector = NoDetector)

-----------------------------------------------------------------------------
(* build_runner: the exception of the first builder that raises.            *)

\* A machine is [torch, onnx]: the number of its CUDA devices as each library sees it.
\* An ordinal is one of torch's, whichever library is to run on it.
ResolveFault(device, hasCuda, gpus) ==
    IF device \in {AutoDevice, Cpu} \/ (hasCuda /\ (device = Cuda \/ device - 1 \in 0 .. gpus - 1)) THEN None
    ELSE "CapabilityError"

\* What a builder, or the constructor behind it, refuses of the values it is given.
ValueFault(item, machine) ==
    LET Wrong(keys) == \E key \in keys : Param(item, key, 0) = Bad
    IN  IF Wrong({"roi", "yolo", "layout"}) THEN "ConfigError"
        ELSE IF Wrong({"max_consecutive_skip", "iou_threshold", "max_age", "conf",
                       "ax", "ay", "bx", "by"}) THEN "ValueError"
        ELSE IF item.type = "pt" THEN ResolveFault(Param(item, "device", Cpu), machine.torch > 0, machine.torch)
        ELSE IF item.type = "onnx" THEN ResolveFault(Param(item, "device", Cpu), machine.onnx > 0, machine.torch)
        ELSE None

Fault(section, item, detector, machine) ==
    IF ~Known(section, item) THEN "ConfigError"
    ELSE IF ~(Registry[section][item.type].needed \subseteq DOMAIN item.params) THEN "ConfigError"
    ELSE IF section = "stages" /\ item.type = "detect" /\ detector = NoDetector THEN "ConfigError"
    ELSE ValueFault(item, machine)

\* Mutant: builders take what they know and ignore the rest.
ItemFaultUnchecked(section, item, detector, machine) == Fault(section, item, detector, machine)

ItemFault(section, item, detector, machine) ==
    IF Accepted(section, item) THEN Fault(section, item, detector, machine) ELSE "ConfigError"

BuildFault(p, machine) ==
    LET Of(section, items) == [j \in DOMAIN items |-> ItemFault(section, items[j], p.detector, machine)]
        faults == (IF p.detector = NoDetector THEN <<>> ELSE Of("detectors", <<p.detector>>))
                      \o Of("sources", <<p.source>>) \o Of("stages", p.stages) \o Of("sinks", p.sinks)
        raised == {j \in DOMAIN faults : faults[j] # None}
    IN  IF raised = {} THEN None ELSE faults[CHOOSE j \in raised : \A l \in raised : j <= l]

-----------------------------------------------------------------------------
(* The flags of the command line.                                          *)

ValidArgs(a) ==
    /\ a.source = "video" => a.video
    /\ a.source = "rtsp" => a.rtsp
    /\ a.detector = "pt" => a.weights
    /\ a.line # NoParams => a.track /\ DOMAIN a.line = {"ax", "ay", "bx", "by"}
                                    /\ \A key \in DOMAIN a.line : a.line[key] # Bad
    /\ a.crossingOut \/ a.crossingDb => a.line # NoParams

Chosen(flag, item) == IF flag THEN <<item>> ELSE <<>>

StagesOfArgs(a) ==
    Chosen(a.gate, Item("motion_gate", [max_consecutive_skip |-> a.gateMaxSkip]))
        \o <<Item("detect", NoParams), Item("count", NoParams)>>
        \o Chosen(a.track, Item("track", [max_age |-> a.maxAge]))
        \o Chosen(a.line # NoParams, Item("line_crossing", a.line))

SinksOfArgs(a) ==
    Chosen(a.out, Item("jsonl", [path |-> 0]))
        \o Chosen(a.crossingOut, Item("crossing_events", [path |-> 0]))
        \o Chosen(a.crossingDb, Item("crossing_events_sqlite", [path |-> 0]))

ArgsToPipeline(a) ==
    [id |-> "cli", max |-> a.max,
     source |-> CASE a.source \in {"fake", "noise"} -> Item(a.source, [max_frames |-> a.frames])
                  [] a.source = "video" -> Item("video", [path |-> 0])
                  [] a.source = "rtsp" -> Item("rtsp", [url |-> 0, max_reconnect |-> a.maxReconnect]),
     detector |-> IF a.detector = "fake" THEN Item("fake", NoParams)
                  ELSE Item("pt", [weights |-> 0, device |-> a.device]),
     stages |-> StagesOfArgs(a), sinks |-> SinksOfArgs(a)]

-----------------------------------------------------------------------------
(* Observability: a flag wins over the file, the file over the default.     *)

NoPort == -1
ObservabilityOff == [observe |-> FALSE, port |-> NoPort, interval |-> 0, every |-> 0,
                     log |-> FALSE, cap |-> NoPort]

MergeObservability(cli, toml) ==
    LET First(a, b, unset) == IF a # unset THEN a ELSE b
        m == [observe  |-> cli.observe \/ toml.observe,
              port     |-> First(cli.port, toml.port, NoPort),
              interval |-> First(cli.interval, toml.interval, 0),
              every    |-> First(cli.every, toml.every, 0),
              log      |-> cli.log \/ toml.log,
              cap      |-> First(cli.cap, toml.cap, NoPort)]
    IN  IF (m.observe \/ m.port # NoPort) /\ m.every = 0 /\ m.interval = 0
        THEN [m EXCEPT !.interval = 5] ELSE m
=============================================================================
