------------------------------ MODULE Cadence ------------------------------
(***************************************************************************)
(* The rules that spare the detector of the web application work, and the   *)
(* configuration they come from: the [detection] table of a TOML file       *)
(* merged with the command line, the checks made at the start, the cadence  *)
(* (should_detect), the motion gate and the health derived from ages.       *)
(*                                                                         *)
(* A time is a number of ticks; Never is a time that has not come.  A       *)
(* cadence is [min, max, every, gate, maxSkip]; an option that was not given *)
(* on the command line is Unset.                                           *)
(***************************************************************************)
EXTENDS Integers

Unset == -1
Never == -1

DefaultCadence == [min |-> 0, max |-> 0, every |-> 1, gate |-> FALSE, maxSkip |-> 0]

\* DetectionCadenceConfig.__post_init__
ValidCadence(c) ==
    /\ c.min >= 0 /\ c.max >= 0 /\ c.maxSkip >= 0
    /\ c.every >= 1
    /\ c.max > 0 => c.min <= c.max

\* Mutant: a value of the file hides the option of the command line.
MergeFileWins(cli, toml) ==
    LET Pick(k) == IF toml[k] # DefaultCadence[k] \/ cli[k] = Unset THEN toml[k] ELSE cli[k]
    IN  [min |-> Pick("min"), max |-> Pick("max"), every |-> Pick("every"),
         maxSkip |-> Pick("maxSkip"), gate |-> cli.gate \/ toml.gate]

\* What was given on the command line goes before the file, the file before the
\* defaults; the gate is on when either asks for it.
MergeDetection(cli, toml) ==
    LET Pick(k) == IF cli[k] = Unset THEN toml[k] ELSE cli[k]
    IN  [min |-> Pick("min"), max |-> Pick("max"), every |-> Pick("every"),
         maxSkip |-> Pick("maxSkip"), gate |-> cli.gate \/ toml.gate]

\* OverlayConfig.__post_init__, the order of the leases.
ValidOverlay(o) == o.candidate <= o.display /\ o.display <= o.ghost

\* Mutant: only the throttle is held against the lease.
FitsThrottleOnly(c, lease) == c.min <= lease

\* assert_cadence_fits_lease
CadenceFitsLease(c, lease) == c.min <= lease /\ c.max <= lease

\* should_detect, from the age of the last detection and the number of frames
\* since the frame it was made of.
ShouldDetect(c, age, versions) ==
    CASE age = Never -> [run |-> TRUE, reason |-> "FIRST"]
      [] age # Never /\ c.max > 0 /\ age >= c.max -> [run |-> TRUE, reason |-> "MAX_INTERVAL"]
      [] age # Never /\ (c.max = 0 \/ age < c.max) ->
            [run |-> age >= c.min /\ versions >= c.every, reason |-> "GATED"]

-----------------------------------------------------------------------------
(* MotionGate.  `prev' is the last scene it saw.                            *)

NoScene == -1
FirstGate == [prev |-> NoScene, skips |-> 0]

\* Mutant: the forced run does not come before the limit is passed, and the
\* count never passes it.
DecideNeverForces(g, scene, c) ==
    IF g.prev # scene THEN [run |-> TRUE, gate |-> [prev |-> scene, skips |-> 0]]
    ELSE [run |-> FALSE, gate |-> [g EXCEPT !.skips = IF @ < c.maxSkip THEN @ + 1 ELSE @]]

\* The first frame runs, a frame unlike the one before runs, and so does the one
\* after maxSkip still frames.  Without that limit the skips need no count.
Decide(g, scene, c) ==
    IF g.prev # scene \/ (c.maxSkip > 0 /\ g.skips >= c.maxSkip)
    THEN [run |-> TRUE, gate |-> [prev |-> scene, skips |-> 0]]
    ELSE [run |-> FALSE, gate |-> [g EXCEPT !.skips = IF c.maxSkip > 0 THEN @ + 1 ELSE @]]

-----------------------------------------------------------------------------
\* derive_health as the loop calls it: `readAge' and `doneAge' are the ages of
\* the last frame read and of the last completion.
DeriveHealth(readAge, doneAge, failed, stale) ==
    [source   |-> CASE readAge = Never -> "INITIALIZING"
                    [] readAge # Never /\ readAge > stale.source -> "STALE"
                    [] readAge \in 0 .. stale.source -> "LIVE",
     detector |-> CASE failed -> "ERROR"
                    [] ~failed /\ doneAge = Never -> "INITIALIZING"
                    [] ~failed /\ doneAge > stale.detector -> "STALE"
                    [] ~failed /\ doneAge \in 0 .. stale.detector -> "LIVE"]
=============================================================================
