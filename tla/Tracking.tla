------------------------------ MODULE Tracking ------------------------------
(***************************************************************************)
(* The analytics of a pipeline as functions of their state and one frame:   *)
(* the motion gate, the IoU tracker and the counting line                   *)
(* (domain/motion_gate.py, runtime/iou_tracker.py, domain/tracking.py,      *)
(* domain/geometry.py, runtime/stages).  `Slice' runs them as stages.       *)
(*                                                                         *)
(* Coordinates are integers and an IoU is a fraction <<inter, union>>, so   *)
(* that every comparison the code makes with floats is exact here.  The    *)
(* pixels behind the gate are not modelled: whether a frame moved is a     *)
(* choice of the caller.                                                   *)
(***************************************************************************)
EXTENDS Integers, Sequences, FiniteSets

NoShape == "none"

-----------------------------------------------------------------------------
(* Geometry *)

Orient(a, b, c) == (b.x - a.x) * (c.y - a.y) - (b.y - a.y) * (c.x - a.x)

\* Mutant: a point on the line is on neither side.
SegmentsIntersectStrict(p1, p2, p3, p4) ==
    /\ Orient(p3, p4, p1) * Orient(p3, p4, p2) < 0
    /\ Orient(p1, p2, p3) * Orient(p1, p2, p4) < 0

SegmentsIntersect(p1, p2, p3, p4) ==
    /\ (Orient(p3, p4, p1) > 0) # (Orient(p3, p4, p2) > 0)
    /\ (Orient(p1, p2, p3) > 0) # (Orient(p1, p2, p4) > 0)

\* Twice the centre of a box; lines are given in the same unit.
Centre(b) == [x |-> 2 * b.x + b.w, y |-> 2 * b.y + b.h]

Overlap(a, al, b, bl) ==
    LET lo == IF a > b THEN a ELSE b
        hi == IF a + al < b + bl THEN a + al ELSE b + bl
    IN  IF hi > lo THEN hi - lo ELSE 0

Iou(a, b) ==
    LET inter == Overlap(a.x, a.w, b.x, b.w) * Overlap(a.y, a.h, b.y, b.h)
        union == a.w * a.h + b.w * b.h - inter
    IN  IF union > 0 THEN <<inter, union>> ELSE <<0, 1>>

AtLeast(r, s) == r[1] * s[2] >= s[1] * r[2]

-----------------------------------------------------------------------------
(* Association.  A pair is <<index of a detection, id of a track>>; ids grow *)
(* in the order of the tracker's table, so they stand for its indices.      *)

Pairs(tracks, dets, threshold) ==
    {p \in (DOMAIN dets) \X (DOMAIN tracks) :
        /\ dets[p[1]].label = tracks[p[2]].label
        /\ AtLeast(Iou(dets[p[1]].box, tracks[p[2]].box), threshold)}

Before(tracks, dets, p, q) ==
    LET r == Iou(dets[p[1]].box, tracks[p[2]].box)
        s == Iou(dets[q[1]].box, tracks[q[2]].box)
    IN  \/ ~AtLeast(s, r)
        \/ /\ AtLeast(r, s) /\ AtLeast(s, r)
           /\ p[1] < q[1] \/ (p[1] = q[1] /\ p[2] < q[2])

\* Mutant: a detection is used once, a track any number of times.
AssociateTracksTwice(tracks, dets, threshold) ==
    LET Take[C \in SUBSET Pairs(tracks, dets, threshold)] ==
            IF C = {} THEN {}
            ELSE LET c == CHOOSE p \in C : \A q \in C \ {p} : Before(tracks, dets, p, q)
                 IN  {c} \cup Take[{q \in C : q[1] # c[1]}]
    IN  Take[Pairs(tracks, dets, threshold)]

\* greedy_associate: best pair first, both of its ends used up.
GreedyAssociate(tracks, dets, threshold) ==
    LET Take[C \in SUBSET Pairs(tracks, dets, threshold)] ==
            IF C = {} THEN {}
            ELSE LET c == CHOOSE p \in C : \A q \in C \ {p} : Before(tracks, dets, p, q)
                 IN  {c} \cup Take[{q \in C : q[1] # c[1] /\ q[2] # c[2]}]
    IN  Take[Pairs(tracks, dets, threshold)]

\* What an association should be, whatever computes it: a matching in which
\* every pair left out lost one of its ends to a better pair.
StableMatching(tracks, dets, threshold, M) ==
    /\ M \subseteq Pairs(tracks, dets, threshold)
    /\ \A p, q \in M : p # q => p[1] # q[1] /\ p[2] # q[2]
    /\ \A p \in Pairs(tracks, dets, threshold) \ M :
          \E q \in M : /\ q[1] = p[1] \/ q[2] = p[2]
                       /\ Before(tracks, dets, q, p)

-----------------------------------------------------------------------------
(* IouTracker *)

NoTracks == [tracks |-> <<>>, next |-> 0]

\* Mutant: the first id that is not in use.
FreshIdReused(t, n) ==
    LET free == {i \in 0 .. t.next + n : i \notin DOMAIN t.tracks}
    IN  CHOOSE i \in free : Cardinality({j \in free : j < i}) = n - 1

\* The id of the n-th detection that matches no track.
FreshId(t, n) == t.next + n - 1

\* A matched track takes the box of its detection, the others age, and every
\* detection that is left starts a track.
TrackerUpdate(t, dets, threshold, maxAge) ==
    LET Updated[M \in SUBSET Pairs(t.tracks, dets, threshold)] ==
            LET lost == DOMAIN dets \ {m[1] : m \in M}
                idOf == [d \in DOMAIN dets |->
                            IF d \in lost THEN FreshId(t, Cardinality({e \in lost : e <= d}))
                            ELSE (CHOOSE m \in M : m[1] = d)[2]]
                seen == {idOf[d] : d \in DOMAIN dets}
                kept == {i \in DOMAIN t.tracks \ seen : t.tracks[i].age + 1 <= maxAge}
                Seen(i) == LET d == CHOOSE e \in DOMAIN dets : idOf[e] = i
                           IN  [label |-> dets[d].label, box |-> dets[d].box, age |-> 0,
                                hits |-> IF d \in lost THEN 1 ELSE t.tracks[i].hits + 1]
            IN  [tracker |-> [tracks |-> [i \in seen \cup kept |->
                                             IF i \in seen THEN Seen(i)
                                             ELSE [t.tracks[i] EXCEPT !.age = @ + 1]],
                              next |-> t.next + Cardinality(lost)],
                 out |-> [d \in DOMAIN dets |->
                             [id |-> idOf[d], label |-> dets[d].label, box |-> dets[d].box]]]
    IN  Updated[GreedyAssociate(t.tracks, dets, threshold)]

-----------------------------------------------------------------------------
(* LineCrossingStage.  `since' is history: the frame from which on a track   *)
(* has been in every frame the stage saw.                                  *)

NoLine == [last |-> <<>>, since |-> <<>>, in |-> 0, out |-> 0]

Direction(line, prev, curr) ==
    IF Orient(line.a, line.b, curr) > 0 THEN "in" ELSE "out"

LineUpdate(l, tracks, line, frame) ==
    LET at == [i \in {tracks[j].id : j \in DOMAIN tracks} |->
                  Centre(tracks[CHOOSE j \in DOMAIN tracks : tracks[j].id = i].box)]
        crossed == {i \in DOMAIN at \cap DOMAIN l.last :
                        SegmentsIntersect(l.last[i], at[i], line.a, line.b)}
        Since(i) == IF i \in DOMAIN l.last THEN l.since[i] ELSE frame
        Event(tr) == [id |-> tr.id, label |-> tr.label, since |-> Since(tr.id),
                      dir |-> Direction(line, l.last[tr.id], at[tr.id])]
        Count(d) == Cardinality({i \in crossed : Direction(line, l.last[i], at[i]) = d})
        hits == {j \in DOMAIN tracks : tracks[j].id \in crossed}
        Hit(m) == CHOOSE j \in hits : Cardinality({h \in hits : h <= j}) = m
    IN  [line   |-> [last |-> at, since |-> [i \in DOMAIN at |-> Since(i)],
                     in |-> l.in + Count("in"), out |-> l.out + Count("out")],
         events |-> [m \in 1 .. Cardinality(hits) |-> Event(tracks[Hit(m)])]]

-----------------------------------------------------------------------------
(* MotionGateStage.  `mask' is the shape of the frame its mask was made for. *)

NoGate == [prev |-> NoShape, mask |-> NoShape, skips |-> 0]

GateForces(g, limit) == limit > 0 /\ g.skips >= limit

\* The gate looks at a frame of `shape'; `moved' says whether enough of it
\* changed, `fits' whether the region of interest has pixels in that shape.
GateStep(g, shape, moved, fits, cfg) ==
    IF g.prev # shape
    THEN [verdict |-> IF cfg.roi /\ ~fits THEN "ERROR" ELSE "SUCCESS",
          gate |-> [prev |-> shape, skips |-> 0,
                    mask |-> IF cfg.roi /\ fits THEN shape ELSE g.mask]]
    ELSE IF g.mask \notin {NoShape, shape}
    THEN [verdict |-> "ERROR", gate |-> g]
    ELSE IF moved \/ GateForces(g, cfg.maxSkip)
    THEN [verdict |-> "SUCCESS", gate |-> [g EXCEPT !.skips = 0]]
    ELSE [verdict |-> "SKIPPED", gate |-> [g EXCEPT !.skips = @ + 1]]
=============================================================================
