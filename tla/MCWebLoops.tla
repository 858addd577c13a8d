----------------------------- MODULE MCWebLoops -----------------------------
(* Command lines and files for WebLoops: each rule of the cadence alone and *)
(* against the others, on a camera; and sources that end.                  *)
EXTENDS WebLoops

NoCli   == [min |-> Unset, max |-> Unset, every |-> Unset, maxSkip |-> Unset, gate |-> FALSE]
Leases  == [candidate |-> 1, display |-> 2, ghost |-> 3]
Camera  == [kind |-> "webcam", n |-> 0, budget |-> NoBudget, loop |-> FALSE, seeks |-> FALSE]
Stream  == [Camera EXCEPT !.kind = "rtsp", !.budget = 1]
File    == [Camera EXCEPT !.kind = "video", !.n = 1, !.loop = TRUE]

Start == [cli |-> NoCli, toml |-> DefaultCadence, overlay |-> Leases, source |-> Camera]
With(cli) == [Start EXCEPT !.cli = cli]

Rules == {[NoCli EXCEPT !.min = min, !.max = max, !.every = every, !.maxSkip = skip, !.gate = g] :
            min \in {Unset, 2}, max \in {Unset, 2}, every \in {Unset, 2},
            skip \in {Unset, 1}, g \in BOOLEAN}

\* The throttle of the file is another than the one typed; options that do not
\* fit each other or the lease are refused.
Merged == [Start EXCEPT !.cli = [NoCli EXCEPT !.min = 2],
                        !.toml = [DefaultCadence EXCEPT !.min = 1, !.gate = TRUE, !.max = 2]]
Refused == {With([NoCli EXCEPT !.max = 9, !.gate = TRUE]),
            With([NoCli EXCEPT !.min = 2, !.max = 1]),
            With([NoCli EXCEPT !.every = 0])}

AllStarts == {With(r) : r \in Rules} \cup {Merged} \cup Refused
                 \cup {[Start EXCEPT !.source = s] : s \in {Stream, File, [File EXCEPT !.seeks = TRUE]}}

\* A gate and a heartbeat, nothing else.
GateOnly == {With([NoCli EXCEPT !.max = 2, !.gate = TRUE])}

StaleAfter == [source |-> 2, detector |-> 2]
=============================================================================
