------------------------------ MODULE Sources ------------------------------
(***************************************************************************)
(* The frame sources (adapters of the port IFrameSource) as functions of    *)
(* their state: what setup, read and teardown do to it.                    *)
(*                                                                         *)
(* A source is described by                                                *)
(*   [kind, n, budget, loop, seeks]                                        *)
(* where n is the number of frames of a finite source, `budget' is          *)
(* max_reconnect (NoBudget: none) and `seeks' says whether a capture can go *)
(* back to its start.  The device behind a capture answers an open or a     *)
(* read with `ok', which the caller chooses.                               *)
(***************************************************************************)
EXTENDS Integers

NoBudget == -1

Generated == {"fake", "noise"}
Cameras   == {"rtsp", "webcam"}

Closed == [setup |-> FALSE, cap |-> FALSE, pos |-> 0, tries |-> 0, loopFailed |-> FALSE]

\* A file that cannot be opened is an error of the configuration and raises;
\* a camera that cannot be opened is tried again by read.
SetupRaises(s, ok) == s.kind = "video" /\ ~ok

Opened(s, src, ok) ==
    [src EXCEPT !.setup = TRUE, !.pos = 0, !.tries = 0,
                !.cap = s.kind = "video" \/ (s.kind \in Cameras /\ ok)]

ReadGenerated(s, src) ==
    IF src.pos < s.n THEN [status |-> "FRAME", src |-> [src EXCEPT !.pos = @ + 1]]
    ELSE [status |-> "EOF", src |-> src]

\* Mutant: a loop that yields no frame is not remembered.
ReadVideoForgets(s, src) ==
    IF src.pos < s.n THEN [status |-> "FRAME", src |-> [src EXCEPT !.pos = @ + 1]]
    ELSE IF s.loop /\ s.seeks /\ s.n > 0 THEN [status |-> "FRAME", src |-> [src EXCEPT !.pos = 1]]
    ELSE [status |-> "EOF", src |-> src]

\* At the end of the file a looping source seeks and reads once more; when that
\* yields nothing it is a finite one from then on.
ReadVideo(s, src) ==
    IF src.pos < s.n THEN [status |-> "FRAME", src |-> [src EXCEPT !.pos = @ + 1]]
    ELSE IF s.loop /\ s.seeks /\ s.n > 0 THEN [status |-> "FRAME", src |-> [src EXCEPT !.pos = 1]]
    ELSE [status |-> "EOF", src |-> [src EXCEPT !.loopFailed = s.loop]]

Exhausted(s, src) == s.kind = "rtsp" /\ s.budget # NoBudget /\ src.tries >= s.budget

\* Reopening answers RECONNECTING whether it worked or not; a frame makes the
\* budget whole again.  Tries are counted up to `top'.
ReadCamera(s, src, ok, top) ==
    IF ~src.cap
    THEN IF Exhausted(s, src) THEN [status |-> "ERROR", src |-> src]
         ELSE [status |-> "RECONNECTING",
               src |-> [src EXCEPT !.cap = ok,
                                   !.tries = IF s.kind = "rtsp" /\ @ < top THEN @ + 1 ELSE @]]
    ELSE IF ~ok THEN [status |-> "RECONNECTING", src |-> [src EXCEPT !.cap = FALSE]]
    ELSE [status |-> "FRAME", src |-> [src EXCEPT !.tries = 0]]

ReadSource(s, src, ok, top) ==
    CASE s.kind \in Generated -> ReadGenerated(s, src)
      [] s.kind = "video"     -> ReadVideo(s, src)
      [] s.kind \in Cameras   -> ReadCamera(s, src, ok, top)

IsFinite(s, src) ==
    \/ s.kind \in Generated
    \/ s.kind = "video" /\ (~s.loop \/ src.loopFailed)

TornDownSource(src) == [src EXCEPT !.setup = FALSE, !.cap = FALSE]
=============================================================================
