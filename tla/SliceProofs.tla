----------------------------- MODULE SliceProofs -----------------------------
(***************************************************************************)
(* Proofs about Slice for every set of applications: what a run sets up is *)
(* torn down, what the program reports is what happened, a tracker's       *)
(* identities follow a stable matching, and what a line counts is what the *)
(* files, the summary and the frame log tell.                              *)
(***************************************************************************)
EXTENDS Slice, FiniteSetTheorems, SequenceTheorems, TLAPS

(***************************************************************************)
(* Least numbers and sequences.                                            *)
(***************************************************************************)

(* A set of numbers that is not empty has a least one.                     *)
LEMMA HasLeast ==
  ASSUME NEW S \in SUBSET Nat, S # {}
  PROVE  \E j \in S : \A l \in S : j <= l
  <1>1. PICK j \in S : \A l \in S : ~ (<<l, j>> \in OpToRel(<, Nat))
    BY NatLessThanWellFounded, WFMin
  <1>2. \A l \in S : ~ (l < j)
    BY <1>1 DEF OpToRel
  <1> QED
    BY <1>2

(* A function on 1 .. m is a sequence.                                     *)
LEMMA FunctionIsSequence ==
  ASSUME NEW S, NEW m \in Nat, NEW f \in [1 .. m -> S]
  PROVE  f \in Seq(S) /\ Len(f) = m /\ DOMAIN f = 1 .. m
  OBVIOUS

(* A list without exceptions has parts without.                            *)
LEMMA NoneRaised ==
  ASSUME NEW S, NEW s \in Seq(S), NEW t \in Seq(S),
         \A j \in DOMAIN (s \o t) : (s \o t)[j] = None
  PROVE  (\A j \in DOMAIN s : s[j] = None) /\ (\A j \in DOMAIN t : t[j] = None)
  <1> DEFINE u == s \o t
  <1>1. /\ u \in Seq(S) /\ Len(u) = Len(s) + Len(t)
        /\ \A j \in 1 .. Len(s) + Len(t) : u[j] = IF j <= Len(s) THEN s[j] ELSE t[j - Len(s)]
    BY ConcatProperties
  <1>2. \A j \in DOMAIN u : u[j] = None
    OBVIOUS
  <1> HIDE DEF u
  <1>3. /\ Len(s) \in Nat /\ DOMAIN s = 1 .. Len(s)
        /\ Len(t) \in Nat /\ DOMAIN t = 1 .. Len(t)
        /\ DOMAIN u = 1 .. Len(u)
    BY <1>1, LenProperties
  <1>4. ASSUME NEW j \in 1 .. Len(s) PROVE s[j] = None
    <2>1. j \in 1 .. Len(u) /\ j <= Len(s)
      BY <1>1, <1>3
    <2> QED
      BY <1>1, <1>2, <1>3, <2>1
  <1>5. ASSUME NEW j \in 1 .. Len(t) PROVE t[j] = None
    <2>1. Len(s) + j \in 1 .. Len(u) /\ ~(Len(s) + j <= Len(s)) /\ Len(s) + j - Len(s) = j
      BY <1>1, <1>3
    <2> QED
      BY <1>1, <1>2, <1>3, <2>1
  <1> QED
    BY <1>3, <1>4, <1>5

(***************************************************************************)
(* What the builders take.                                                 *)
(***************************************************************************)

(* A builder that raises nothing knew the type and the keys of its item.   *)
LEMMA ItemTaken ==
  ASSUME NEW section, NEW item, NEW detector, NEW machine,
         ItemFault(section, item, detector, machine) = None
  PROVE  /\ Accepted(section, item)
         /\ ~(section = "stages" /\ item.type = "detect" /\ detector = NoDetector)
  <1>1. Accepted(section, item)
    BY DEF ItemFault, None
  <1>2. Fault(section, item, detector, machine) = None
    BY <1>1 DEF ItemFault
  <1> QED
    BY <1>1, <1>2 DEF Fault, None

(* A pipeline that is built is one that validate_config accepts.           *)
LEMMA BuiltIsValid ==
  ASSUME NEW p, NEW machine, IsSequence(p.stages), IsSequence(p.sinks),
         BuildFault(p, machine) = None
  PROVE  Valid(p)
  <1> DEFINE Of(section, items) ==
               [j \in DOMAIN items |-> ItemFault(section, items[j], p.detector, machine)]
             det == IF p.detector = NoDetector THEN <<>> ELSE Of("detectors", <<p.detector>>)
             sou == Of("sources", <<p.source>>)
             sta == Of("stages", p.stages)
             sin == Of("sinks", p.sinks)
             All == {det[j] : j \in DOMAIN det} \cup {sou[j] : j \in DOMAIN sou}
                       \cup {sta[j] : j \in DOMAIN sta} \cup {sin[j] : j \in DOMAIN sin}
             two == det \o sou
             three == two \o sta
             faults == three \o sin
             raised == {j \in DOMAIN faults : faults[j] # None}
  <1>1. /\ Len(p.stages) \in Nat /\ DOMAIN p.stages = 1 .. Len(p.stages)
        /\ Len(p.sinks) \in Nat /\ DOMAIN p.sinks = 1 .. Len(p.sinks)
    BY LenProperties DEF IsSequence
  <1>2. /\ sta \in [1 .. Len(p.stages) -> All]
        /\ sin \in [1 .. Len(p.sinks) -> All]
        /\ sou \in [1 .. 1 -> All]
        /\ det = <<>> \/ det \in [1 .. 1 -> All]
    BY <1>1
  <1>3. det \in Seq(All) /\ sou \in Seq(All) /\ sta \in Seq(All) /\ sin \in Seq(All)
    <2> HIDE DEF Of, det, sou, sta, sin, All, two, three, faults, raised
    <2>1. sta \in Seq(All)
      BY <1>1, <1>2, FunctionIsSequence
    <2>2. sin \in Seq(All)
      BY <1>1, <1>2, FunctionIsSequence
    <2>3. sou \in Seq(All)
      BY <1>2, FunctionIsSequence
    <2>4. det \in Seq(All)
      <3>1. CASE det = <<>>
        BY <3>1
      <3>2. CASE det \in [1 .. 1 -> All]
        BY <3>2, FunctionIsSequence
      <3> QED
        BY <1>2, <3>1, <3>2
    <2> QED
      BY <2>1, <2>2, <2>3, <2>4
  <1>4. raised = {}
    <2>1. SUFFICES ASSUME raised # {} PROVE FALSE
      OBVIOUS
    <2>2. raised \subseteq Nat
      <3> HIDE DEF det, sou, sta, sin, All
      <3>1. faults \in Seq(All)
        BY <1>3, ConcatProperties
      <3> QED
        BY <3>1, LenProperties
    <2>3. \E j \in raised : \A l \in raised : j <= l
      BY <2>1, <2>2, HasLeast
    <2>4. (CHOOSE j \in raised : \A l \in raised : j <= l) \in raised
      BY <2>3
    <2>5. BuildFault(p, machine) = faults[CHOOSE j \in raised : \A l \in raised : j <= l]
      BY <2>1 DEF BuildFault
    <2> QED
      BY <2>4, <2>5
  <1>5. /\ \A j \in DOMAIN det : det[j] = None
        /\ \A j \in DOMAIN sou : sou[j] = None
        /\ \A j \in DOMAIN sta : sta[j] = None
        /\ \A j \in DOMAIN sin : sin[j] = None
    <2>1. \A j \in DOMAIN faults : faults[j] = None
      BY <1>4
    <2> HIDE DEF det, sou, sta, sin, All
    <2>2. two \in Seq(All)
      BY <1>3, ConcatProperties
    <2> HIDE DEF two
    <2>3. three \in Seq(All)
      BY <1>3, <2>2, ConcatProperties
    <2> HIDE DEF three
    <2> USE DEF three
    <2>4. (\A j \in DOMAIN three : three[j] = None) /\ (\A j \in DOMAIN sin : sin[j] = None)
      <3> HIDE DEF three
      <3>1. \A j \in DOMAIN (three \o sin) : (three \o sin)[j] = None
        BY <2>1
      <3> HIDE DEF faults, raised
      <3> QED
        BY <1>3, <2>3, <3>1, NoneRaised
    <2>5. (\A j \in DOMAIN two : two[j] = None) /\ (\A j \in DOMAIN sta : sta[j] = None)
      <3>1. \A j \in DOMAIN (two \o sta) : (two \o sta)[j] = None
        BY <2>4
      <3> HIDE DEF three, faults, raised
      <3> QED
        BY <1>3, <2>2, <3>1, NoneRaised
    <2>6. (\A j \in DOMAIN det : det[j] = None) /\ (\A j \in DOMAIN sou : sou[j] = None)
      <3>1. \A j \in DOMAIN (det \o sou) : (det \o sou)[j] = None
        BY <2>5 DEF two
      <3> HIDE DEF two, three, faults, raised
      <3> QED
        BY <1>3, <3>1, NoneRaised
    <2> QED
      BY <2>4, <2>5, <2>6
  <1>6. ItemFault("sources", p.source, p.detector, machine) = None
    BY <1>5
  <1>7. \A j \in DOMAIN p.stages : ItemFault("stages", p.stages[j], p.detector, machine) = None
    BY <1>5
  <1>8. \A j \in DOMAIN p.sinks : ItemFault("sinks", p.sinks[j], p.detector, machine) = None
    BY <1>5
  <1>9. p.detector # NoDetector => ItemFault("detectors", p.detector, p.detector, machine) = None
    BY <1>5
  <1> HIDE DEF Of
  <1>10. ~(Uses(p, "detect") /\ p.detector = NoDetector)
    BY <1>7, ItemTaken DEF Uses
  <1> QED
    BY <1>6, <1>7, <1>8, <1>9, <1>10, ItemTaken DEF Valid


(***************************************************************************)
(* The greedy association is a stable matching.                            *)
(***************************************************************************)

BoxTyped(b) == b.x \in Int /\ b.y \in Int /\ b.w \in Int /\ b.h \in Int

(* Detections and tracks as they come: boxes are integers, ids numbers.    *)
DetsTyped(dets) == IsSequence(dets) /\ \A d \in DOMAIN dets : BoxTyped(dets[d].box)

TracksTyped(tracks) ==
  DOMAIN tracks \in SUBSET Nat /\ \A j \in DOMAIN tracks : BoxTyped(tracks[j].box)

Fractions == {r \in Int \X Int : r[2] > 0}

(* Nonlinear terms are kept to facts about them.                           *)
LEMMA ProductTyped ==
  ASSUME NEW a \in Int, NEW b \in Int
  PROVE  a * b \in Int
  OBVIOUS

(* An IoU is a fraction.                                                   *)
LEMMA IouIsFraction ==
  ASSUME NEW a, NEW b, BoxTyped(a), BoxTyped(b)
  PROVE  Iou(a, b) \in Fractions
  <1>1. \A u, ul, v, vl \in Int : Overlap(u, ul, v, vl) \in Int
    BY DEF Overlap
  <1> DEFINE ox == Overlap(a.x, a.w, b.x, b.w)
             oy == Overlap(a.y, a.h, b.y, b.h)
             inter == ox * oy
             union == a.w * a.h + b.w * b.h - inter
  <1>2. ox \in Int /\ oy \in Int
    BY <1>1 DEF BoxTyped
  <1> HIDE DEF ox, oy
  <1>3. inter \in Int /\ a.w * a.h \in Int /\ b.w * b.h \in Int
    BY <1>2, ProductTyped DEF BoxTyped
  <1> HIDE DEF inter
  <1>4. union \in Int
    BY <1>3
  <1>5. Iou(a, b) = IF union > 0 THEN <<inter, union>> ELSE <<0, 1>>
    BY DEF Iou, union, inter, ox, oy
  <1> HIDE DEF union
  <1> QED
    BY <1>3, <1>4, <1>5 DEF Fractions

(* Cross products order fractions.                                         *)
LEMMA CrossProducts ==
  ASSUME NEW a \in Int, NEW b \in Int, NEW c \in Int, NEW d \in Int, NEW e \in Int, NEW f \in Int,
         b > 0, d > 0, f > 0, a * d >= c * b, c * f >= e * d
  PROVE  a * f >= e * b
  <1>1. (a * d) * f >= (c * b) * f
    BY Z3
  <1>2. (c * f) * b >= (e * d) * b
    BY Z3
  <1>3. d * (a * f - e * b) >= 0
    BY <1>1, <1>2, Z3
  <1> QED
    BY <1>3, Z3

(* `AtLeast' orders fractions: it is total and transitive.                 *)
LEMMA AtLeastOrders ==
  ASSUME NEW r \in Fractions, NEW s \in Fractions, NEW t \in Fractions
  PROVE  /\ AtLeast(r, s) \/ AtLeast(s, r)
         /\ AtLeast(r, s) /\ AtLeast(s, t) => AtLeast(r, t)
  <1>1. /\ r[1] \in Int /\ r[2] \in Int /\ r[2] > 0
        /\ s[1] \in Int /\ s[2] \in Int /\ s[2] > 0
        /\ t[1] \in Int /\ t[2] \in Int /\ t[2] > 0
    BY DEF Fractions
  <1>2. AtLeast(r, s) \/ AtLeast(s, r)
    <2>1. r[1] * s[2] \in Int /\ s[1] * r[2] \in Int
      BY <1>1, ProductTyped
    <2> QED
      BY <2>1 DEF AtLeast
  <1>3. ASSUME AtLeast(r, s), AtLeast(s, t) PROVE AtLeast(r, t)
    <2>1. r[1] * s[2] >= s[1] * r[2] /\ s[1] * t[2] >= t[1] * s[2]
      BY <1>3 DEF AtLeast
    <2> DEFINE a == r[1]  b == r[2]  c == s[1]  d == s[2]  e == t[1]  f == t[2]
    <2>2. a * f >= e * b
      <3>1. /\ a \in Int /\ b \in Int /\ c \in Int /\ d \in Int /\ e \in Int /\ f \in Int
            /\ b > 0 /\ d > 0 /\ f > 0 /\ a * d >= c * b /\ c * f >= e * d
        BY <1>1, <2>1
      <3> HIDE DEF a, b, c, d, e, f
      <3> QED
        BY <3>1, CrossProducts
    <2> QED
      BY <2>2 DEF AtLeast
  <1> QED
    BY <1>2, <1>3

(* Pairs of one set of tracks and detections, best first, are in an order. *)
LEMMA BeforeOrders ==
  ASSUME NEW tracks, NEW dets, NEW threshold, DetsTyped(dets), TracksTyped(tracks),
         NEW p \in Pairs(tracks, dets, threshold), NEW q \in Pairs(tracks, dets, threshold),
         NEW r \in Pairs(tracks, dets, threshold)
  PROVE  /\ ~Before(tracks, dets, p, p)
         /\ p # q => Before(tracks, dets, p, q) \/ Before(tracks, dets, q, p)
         /\ Before(tracks, dets, p, q) /\ Before(tracks, dets, q, r) => Before(tracks, dets, p, r)
  <1> DEFINE u(z) == Iou(dets[z[1]].box, tracks[z[2]].box)
             Ids == (DOMAIN dets) \X (DOMAIN tracks)
             Lower(y, z) == y[1] < z[1] \/ (y[1] = z[1] /\ y[2] < z[2])
             Level(y, z) == AtLeast(u(y), u(z)) /\ AtLeast(u(z), u(y))
  <1>1. p \in Ids /\ q \in Ids /\ r \in Ids
    BY DEF Pairs
  <1>2. DOMAIN dets \subseteq Nat
    BY LenProperties DEF DetsTyped, IsSequence
  <1>3. \A z \in Ids : u(z) \in Fractions /\ z = <<z[1], z[2]>> /\ z[1] \in Nat /\ z[2] \in Nat
    BY <1>2, IouIsFraction DEF DetsTyped, TracksTyped
  <1>4. \A x, y, z \in Ids : /\ AtLeast(u(x), u(y)) \/ AtLeast(u(y), u(x))
                             /\ AtLeast(u(x), u(y)) /\ AtLeast(u(y), u(z)) => AtLeast(u(x), u(z))
    <2>1. SUFFICES ASSUME NEW x \in Ids, NEW y \in Ids, NEW z \in Ids
                   PROVE  /\ AtLeast(u(x), u(y)) \/ AtLeast(u(y), u(x))
                          /\ AtLeast(u(x), u(y)) /\ AtLeast(u(y), u(z)) => AtLeast(u(x), u(z))
      BY Zenon
    <2>2. u(x) \in Fractions /\ u(y) \in Fractions /\ u(z) \in Fractions
      BY <1>3
    <2> HIDE DEF u
    <2> QED
      BY <2>2, AtLeastOrders
  <1>5. \A y, z : Before(tracks, dets, y, z) <=> ~AtLeast(u(z), u(y)) \/ (Level(y, z) /\ Lower(y, z))
    BY DEF Before
  <1>6. \A x, y, z \in Ids : /\ ~Lower(x, x)
                             /\ x # y => Lower(x, y) \/ Lower(y, x)
                             /\ Lower(x, y) /\ Lower(y, z) => Lower(x, z)
    BY <1>3
  <1> HIDE DEF u, Lower, Ids
  <1> QED
    BY <1>1, <1>4, <1>5, <1>6

(* A set of pairs that is not empty has a best one.                        *)
LEMMA HasBest ==
  ASSUME NEW tracks, NEW dets, NEW threshold, DetsTyped(dets), TracksTyped(tracks),
         NEW C \in SUBSET Pairs(tracks, dets, threshold), IsFiniteSet(C), C # {}
  PROVE  \E p \in C : \A q \in C \ {p} : Before(tracks, dets, p, q)
  <1> DEFINE Better(p) == {q \in C : Before(tracks, dets, q, p)}
             ranks == {Cardinality(Better(p)) : p \in C}
  <1>1. \A p \in C : IsFiniteSet(Better(p)) /\ Cardinality(Better(p)) \in Nat
    BY FS_Subset, FS_CardinalityType
  <1>2. PICK p \in C : \A q \in C : Cardinality(Better(p)) <= Cardinality(Better(q))
    <2> HIDE DEF Better
    <2>1. ranks \in SUBSET Nat /\ ranks # {}
      BY <1>1
    <2> HIDE DEF ranks
    <2>2. \E j \in ranks : \A l \in ranks : j <= l
      BY <2>1, HasLeast
    <2> QED
      BY <2>2 DEF ranks
  <1>3. ASSUME NEW q \in C, q # p, ~Before(tracks, dets, p, q) PROVE FALSE
    <2>1. Before(tracks, dets, q, p)
      BY <1>3, BeforeOrders
    <2>2. Better(q) \subseteq Better(p) /\ q \in Better(p) /\ q \notin Better(q)
      BY <2>1, BeforeOrders
    <2>3. Cardinality(Better(q)) < Cardinality(Better(p))
      <3> HIDE DEF Better
      <3> QED
        BY <1>1, <2>2, FS_Subset
    <2> HIDE DEF Better
    <2> QED
      BY <1>1, <1>2, <2>3
  <1> QED
    BY <1>3

(* A stable matching within a set of candidates.                           *)
StableIn(tracks, dets, C, M) ==
  /\ M \subseteq C
  /\ \A p, q \in M : p # q => p[1] # q[1] /\ p[2] # q[2]
  /\ \A p \in C \ M : \E q \in M : /\ q[1] = p[1] \/ q[2] = p[2]
                                   /\ Before(tracks, dets, q, p)

(* There is at most one.                                                   *)
LEMMA StableIsOne ==
  ASSUME NEW tracks, NEW dets, NEW threshold, DetsTyped(dets), TracksTyped(tracks),
         NEW C \in SUBSET Pairs(tracks, dets, threshold), IsFiniteSet(C),
         NEW M, NEW N, StableIn(tracks, dets, C, M), StableIn(tracks, dets, C, N)
  PROVE  M = N
  <1> DEFINE D == (M \ N) \cup (N \ M)
  <1>1. SUFFICES ASSUME D # {} PROVE FALSE
    OBVIOUS
  <1>2. D \in SUBSET C /\ IsFiniteSet(D)
    BY FS_Subset DEF StableIn
  <1>3. PICK p \in D : \A q \in D \ {p} : Before(tracks, dets, p, q)
    BY <1>1, <1>2, HasBest
  <1>4. ASSUME NEW A, NEW B, StableIn(tracks, dets, C, A), StableIn(tracks, dets, C, B),
               p \in A \ B, B \ A \subseteq D
        PROVE  FALSE
    <2>1. PICK q \in B : (q[1] = p[1] \/ q[2] = p[2]) /\ Before(tracks, dets, q, p)
      BY <1>4 DEF StableIn
    <2>2. q \notin A /\ q # p
      BY <1>4, <2>1 DEF StableIn
    <2>3. Before(tracks, dets, p, q)
      BY <1>3, <1>4, <2>2
    <2>4. p \in Pairs(tracks, dets, threshold) /\ q \in Pairs(tracks, dets, threshold)
      BY <1>2, <1>4, <2>2
    <2> QED
      BY <2>1, <2>3, <2>4, BeforeOrders
  <1> QED
    BY <1>3, <1>4

Best(tracks, dets, C) == CHOOSE p \in C : \A q \in C \ {p} : Before(tracks, dets, p, q)

Rest(C, c) == {q \in C : q[1] # c[1] /\ q[2] # c[2]}

(* The best pair goes with what is stable in the rest.                     *)
LEMMA BestIsTaken ==
  ASSUME NEW tracks, NEW dets, NEW threshold, DetsTyped(dets), TracksTyped(tracks),
         NEW C \in SUBSET Pairs(tracks, dets, threshold), IsFiniteSet(C), C # {},
         NEW M, StableIn(tracks, dets, Rest(C, Best(tracks, dets, C)), M)
  PROVE  StableIn(tracks, dets, C, {Best(tracks, dets, C)} \cup M)
  <1> DEFINE c == Best(tracks, dets, C)
  <1>1. c \in C /\ \A q \in C \ {c} : Before(tracks, dets, c, q)
    BY HasBest DEF Best
  <1> HIDE DEF c
  <1>2. StableIn(tracks, dets, Rest(C, c), M)
    BY DEF c
  <1> SUFFICES StableIn(tracks, dets, C, {c} \cup M)
    BY DEF c
  <1> QED
    BY <1>1, <1>2 DEF StableIn, Rest

(* Each round of the greedy association leaves fewer candidates.           *)
LEMMA RestIsSmaller ==
  ASSUME NEW tracks, NEW dets, NEW threshold, DetsTyped(dets), TracksTyped(tracks),
         NEW C \in SUBSET Pairs(tracks, dets, threshold), IsFiniteSet(C), C # {}
  PROVE  /\ Rest(C, Best(tracks, dets, C)) \in SUBSET C
         /\ IsFiniteSet(Rest(C, Best(tracks, dets, C)))
         /\ Cardinality(Rest(C, Best(tracks, dets, C))) < Cardinality(C)
  <1> DEFINE c == Best(tracks, dets, C)
             R == Rest(C, c)
  <1>1. c \in C /\ c \notin R /\ R \in SUBSET C
    BY HasBest DEF Best, Rest
  <1> HIDE DEF c, R
  <1>2. IsFiniteSet(R) /\ Cardinality(R) < Cardinality(C)
    BY <1>1, FS_Subset, FS_CardinalityType
  <1> QED
    BY <1>1, <1>2 DEF c, R

(* There is at least one stable matching: the best pair with one of what   *)
(* is left, or a smallest set of candidates would be without.              *)
LEMMA HasStable ==
  ASSUME NEW tracks, NEW dets, NEW threshold, DetsTyped(dets), TracksTyped(tracks),
         NEW C \in SUBSET Pairs(tracks, dets, threshold), IsFiniteSet(C)
  PROVE  \E M \in SUBSET C : StableIn(tracks, dets, C, M)
  <1> DEFINE Fails(B) == ~\E M \in SUBSET B : StableIn(tracks, dets, B, M)
             bad == {B \in SUBSET C : Fails(B)}
             sizes == {Cardinality(B) : B \in bad}
  <1>1. SUFFICES ASSUME Fails(C) PROVE FALSE
    OBVIOUS
  <1>2. C \in bad
    BY <1>1
  <1>3. \A B \in bad : B \in SUBSET C /\ IsFiniteSet(B) /\ Cardinality(B) \in Nat
    BY FS_Subset, FS_CardinalityType
  <1>4. PICK B \in bad : \A A \in bad : Cardinality(B) <= Cardinality(A)
    <2> HIDE DEF bad
    <2>1. sizes \in SUBSET Nat /\ sizes # {}
      BY <1>2, <1>3
    <2> HIDE DEF sizes
    <2>2. \E j \in sizes : \A l \in sizes : j <= l
      BY <2>1, HasLeast
    <2> QED
      BY <2>2 DEF sizes
  <1>5. CASE B = {}
    BY <1>4, <1>5 DEF StableIn
  <1>6. CASE B # {}
    <2> DEFINE R == Rest(B, Best(tracks, dets, B))
    <2>1. R \in SUBSET B /\ IsFiniteSet(R) /\ Cardinality(R) < Cardinality(B)
      BY <1>3, <1>4, <1>6, RestIsSmaller
    <2>2. R \notin bad
      <3> HIDE DEF R, bad
      <3>1. Cardinality(R) \in Nat /\ Cardinality(B) \in Nat
        BY <1>3, <1>4, <2>1, FS_CardinalityType
      <3> QED
        BY <1>4, <2>1, <3>1
    <2>3. PICK M \in SUBSET R : StableIn(tracks, dets, R, M)
      BY <1>4, <2>1, <2>2
    <2>4. StableIn(tracks, dets, B, {Best(tracks, dets, B)} \cup M)
      BY <1>3, <1>4, <1>6, <2>3, BestIsTaken
    <2>5. {Best(tracks, dets, B)} \cup M \in SUBSET B
      BY <2>4 DEF StableIn
    <2> QED
      BY <1>4, <2>4, <2>5
  <1> QED
    BY <1>5, <1>6

(* greedy_associate: its recursive function exists, because taking a stable *)
(* matching of every set of candidates is one that satisfies its equation,  *)
(* and whatever satisfies it is stable, or a smallest set would be without. *)
LEMMA GreedyIsStable ==
  ASSUME NEW tracks, NEW dets, NEW threshold, DetsTyped(dets), TracksTyped(tracks),
         IsFiniteSet(Pairs(tracks, dets, threshold))
  PROVE  StableMatching(tracks, dets, threshold, GreedyAssociate(tracks, dets, threshold))
  <1> DEFINE S == Pairs(tracks, dets, threshold)
             Step(f, C) == IF C = {} THEN {}
                           ELSE LET c == CHOOSE p \in C : \A q \in C \ {p} : Before(tracks, dets, p, q)
                                IN  {c} \cup f[{q \in C : q[1] # c[1] /\ q[2] # c[2]}]
             Take == CHOOSE f : f = [C \in SUBSET S |-> Step(f, C)]
             F == [C \in SUBSET S |-> CHOOSE M \in SUBSET C : StableIn(tracks, dets, C, M)]
  <1>1. GreedyAssociate(tracks, dets, threshold) = Take[S]
    BY DEF GreedyAssociate
  <1>2. \A f, C : C # {} => Step(f, C) = {Best(tracks, dets, C)} \cup f[Rest(C, Best(tracks, dets, C))]
    BY DEF Best, Rest
  <1>3. \A f, C : C = {} => Step(f, C) = {}
    OBVIOUS
  <1> HIDE DEF Step
  <1>4. \A C \in SUBSET S : IsFiniteSet(C)
    BY FS_Subset
  <1>5. \A C \in SUBSET S : StableIn(tracks, dets, C, F[C])
    <2>1. SUFFICES ASSUME NEW C \in SUBSET S PROVE StableIn(tracks, dets, C, F[C])
      OBVIOUS
    <2>2. \E M \in SUBSET C : StableIn(tracks, dets, C, M)
      BY <1>4, HasStable
    <2> QED
      BY <2>2
  <1>6. F = [C \in SUBSET S |-> Step(F, C)]
    <2>1. ASSUME NEW C \in SUBSET S PROVE F[C] = Step(F, C)
      <3>1. CASE C = {}
        BY <1>3, <1>5, <3>1 DEF StableIn
      <3>2. CASE C # {}
        <4> DEFINE R == Rest(C, Best(tracks, dets, C))
        <4>1. R \in SUBSET S
          BY DEF Rest
        <4>2. StableIn(tracks, dets, R, F[R])
          BY <1>5, <4>1
        <4> HIDE DEF F
        <4>3. StableIn(tracks, dets, C, {Best(tracks, dets, C)} \cup F[R])
          BY <1>4, <3>2, <4>2, BestIsTaken
        <4>4. F[C] = {Best(tracks, dets, C)} \cup F[R]
          BY <1>4, <1>5, <4>3, StableIsOne
        <4> QED
          BY <1>2, <3>2, <4>4
      <3> QED
        BY <3>1, <3>2
    <2>2. F = [C \in SUBSET S |-> F[C]]
      OBVIOUS
    <2> HIDE DEF F
    <2> QED
      BY <2>1, <2>2
  <1> HIDE DEF F
  <1>7. Take = [C \in SUBSET S |-> Step(Take, C)]
    BY <1>6
  <1> HIDE DEF Take
  <1>8. \A C \in SUBSET S : Take[C] = Step(Take, C)
    BY <1>7
  <1> DEFINE bad == {C \in SUBSET S : ~StableIn(tracks, dets, C, Take[C])}
             sizes == {Cardinality(C) : C \in bad}
  <1>9. S \notin bad
    <2>1. SUFFICES ASSUME S \in bad PROVE FALSE
      OBVIOUS
    <2>2. \A C \in bad : C \in SUBSET S /\ IsFiniteSet(C) /\ Cardinality(C) \in Nat
      BY <1>4, FS_CardinalityType
    <2>3. PICK C \in bad : \A D \in bad : Cardinality(C) <= Cardinality(D)
      <3> HIDE DEF bad
      <3>1. sizes \in SUBSET Nat /\ sizes # {}
        BY <2>1, <2>2
      <3> HIDE DEF sizes
      <3>2. \E j \in sizes : \A l \in sizes : j <= l
        BY <3>1, HasLeast
      <3> QED
        BY <3>2 DEF sizes
    <2>4. CASE C = {}
      BY <1>3, <1>8, <2>3, <2>4 DEF StableIn
    <2>5. CASE C # {}
      <3> DEFINE R == Rest(C, Best(tracks, dets, C))
      <3>1. R \in SUBSET C /\ IsFiniteSet(R) /\ Cardinality(R) < Cardinality(C)
        BY <2>2, <2>3, <2>5, RestIsSmaller
      <3>2. R \in SUBSET S
        BY <2>2, <2>3, <3>1
      <3>3. R \notin bad
        <4> HIDE DEF R, bad
        <4>1. Cardinality(R) \in Nat /\ Cardinality(C) \in Nat
          BY <2>2, <2>3, <3>1, FS_CardinalityType
        <4> QED
          BY <2>3, <3>1, <4>1
      <3>4. StableIn(tracks, dets, C, {Best(tracks, dets, C)} \cup Take[R])
        BY <2>2, <2>3, <2>5, <3>2, <3>3, BestIsTaken
      <3>5. Take[C] = {Best(tracks, dets, C)} \cup Take[R]
        BY <1>2, <1>8, <2>3, <2>5
      <3> QED
        BY <2>3, <3>4, <3>5
    <2> QED
      BY <2>4, <2>5
  <1>10. StableIn(tracks, dets, S, Take[S])
    BY <1>9
  <1> QED
    BY <1>1, <1>10 DEF StableIn, StableMatching

(***************************************************************************)
(* A frame of the tracker.                                                 *)
(***************************************************************************)

(* The ranks of the elements of a finite set of numbers are 1 up to its    *)
(* size, each of them once.                                                *)
LEMMA RanksCount ==
  ASSUME NEW S \in SUBSET Nat, IsFiniteSet(S)
  PROVE  LET Rank(d) == Cardinality({e \in S : e <= d})
         IN  /\ \A d \in S : Rank(d) \in 1 .. Cardinality(S)
             /\ \A d, e \in S : Rank(d) = Rank(e) => d = e
             /\ \A r \in 1 .. Cardinality(S) : \E d \in S : Rank(d) = r
  <1> DEFINE Below(d) == {e \in S : e <= d}
             Rank(d) == Cardinality(Below(d))
             T == {Rank(d) : d \in S}
             m == Cardinality(S)
  <1>1. \A d \in S : /\ IsFiniteSet(Below(d)) /\ Below(d) \in SUBSET S /\ d \in Below(d)
                     /\ Rank(d) \in Nat /\ Rank(d) <= m /\ Rank(d) # 0
    <2>1. SUFFICES ASSUME NEW d \in S
                   PROVE  /\ IsFiniteSet(Below(d)) /\ Below(d) \in SUBSET S /\ d \in Below(d)
                          /\ Rank(d) \in Nat /\ Rank(d) <= m /\ Rank(d) # 0
      BY Zenon
    <2>2. Below(d) \in SUBSET S /\ d \in Below(d)
      OBVIOUS
    <2> DEFINE B == Below(d)
    <2>3. B \in SUBSET S /\ d \in B
      BY <2>2
    <2> HIDE DEF B
    <2>4. IsFiniteSet(B) /\ Cardinality(B) \in Nat /\ Cardinality(B) <= m /\ Cardinality(B) # 0
      BY <2>3, FS_Subset, FS_CardinalityType, FS_EmptySet
    <2> QED
      BY <2>3, <2>4 DEF B
  <1>2. ASSUME NEW d \in S, NEW e \in S, d < e PROVE Rank(d) < Rank(e)
    <2> DEFINE A == Below(d)  B == Below(e)
    <2>1. A \in SUBSET B /\ e \in B /\ e \notin A
      <3>1. /\ \A x : x \in A <=> x \in S /\ x <= d
            /\ \A x : x \in B <=> x \in S /\ x <= e
        OBVIOUS
      <3> HIDE DEF A, B
      <3>2. ASSUME NEW x \in A PROVE x \in B
        <4>1. x \in Nat /\ d \in Nat /\ e \in Nat /\ x <= d
          BY <3>1
        <4> QED
          BY <1>2, <3>1, <4>1
      <3>3. e \in B /\ e \notin A
        <4>1. d \in Nat /\ e \in Nat
          OBVIOUS
        <4> QED
          BY <1>2, <3>1, <4>1
      <3> QED
        BY <3>2, <3>3
    <2>2. IsFiniteSet(B)
      BY <1>1
    <2> HIDE DEF A, B
    <2>3. IsFiniteSet(A) /\ Cardinality(A) <= Cardinality(B) /\ Cardinality(A) # Cardinality(B)
      BY <2>1, <2>2, FS_Subset
    <2>4. Cardinality(A) \in Nat /\ Cardinality(B) \in Nat
      BY <2>2, <2>3, FS_CardinalityType
    <2>5. Cardinality(A) < Cardinality(B)
      BY <2>3, <2>4
    <2> QED
      BY <2>5 DEF A, B
  <1> HIDE DEF Below
  <1>3. m \in Nat
    BY FS_CardinalityType
  <1>4. \A d, e \in S : Rank(d) = Rank(e) => d = e
    <2>1. SUFFICES ASSUME NEW d \in S, NEW e \in S, Rank(d) = Rank(e), d # e PROVE FALSE
      BY Zenon
    <2>2. d < e \/ e < d
      BY <2>1
    <2>3. Rank(d) \in Nat /\ Rank(e) \in Nat
      BY <1>1
    <2>4. CASE d < e
      <3>1. Rank(d) < Rank(e)
        BY <1>2, <2>4
      <3> HIDE DEF Rank
      <3> QED
        BY <2>1, <2>3, <3>1
    <2>5. CASE e < d
      <3>1. Rank(e) < Rank(d)
        BY <1>2, <2>5
      <3> HIDE DEF Rank
      <3> QED
        BY <2>1, <2>3, <3>1
    <2> QED
      BY <2>2, <2>4, <2>5
  <1>5. \A d \in S : Rank(d) \in 1 .. m
    <2> HIDE DEF m
    <2> QED
      BY <1>1, <1>3
  <1> HIDE DEF Rank
  <1>6. T = 1 .. m
    <2> DEFINE f == [r \in T |-> CHOOSE d \in S : Rank(d) = r]
    <2>1. T \in SUBSET (1 .. m)
      BY <1>5
    <2>2. f \in Surjection(T, S)
      <3>1. \A d \in S : f[Rank(d)] = d
        BY <1>4
      <3>2. f \in [T -> S]
        OBVIOUS
      <3> HIDE DEF f
      <3> QED
        BY <3>1, <3>2 DEF Surjection
    <2>3. IsFiniteSet(1 .. m) /\ Cardinality(1 .. m) = m
      <3> HIDE DEF m
      <3> QED
        BY <1>3, FS_Interval
    <2>4. IsFiniteSet(T) /\ Cardinality(T) <= Cardinality(1 .. m)
      BY <2>1, <2>3, FS_Subset
    <2>5. m <= Cardinality(T)
      BY <2>2, <2>4, FS_Surjection
    <2>6. Cardinality(T) \in Nat
      BY <2>4, FS_CardinalityType
    <2> HIDE DEF T, f
    <2>7. Cardinality(T) = m
      BY <1>3, <2>3, <2>4, <2>5, <2>6
    <2> QED
      BY <2>1, <2>3, <2>7, FS_Subset
  <1>7. \A r \in 1 .. m : \E d \in S : Rank(d) = r
    BY <1>6
  <1> QED
    BY <1>4, <1>5, <1>7 DEF Rank, Below

TrackerTyped(t) ==
  /\ t.next \in Nat /\ DOMAIN t.tracks \subseteq 0 .. t.next - 1
  /\ \A j \in DOMAIN t.tracks : BoxTyped(t.tracks[j].box)

(* The detections no track is found for, and the ids of the tracks in       *)
(* sight: those of the matching, and new ones.                              *)
Lost(dets, M) == DOMAIN dets \ {m[1] : m \in M}

IdOf(t, dets, M) ==
  [d \in DOMAIN dets |->
     IF d \in Lost(dets, M) THEN FreshId(t, Cardinality({e \in Lost(dets, M) : e <= d}))
     ELSE (CHOOSE m \in M : m[1] = d)[2]]

\* What ids as the tracker hands them over are like.
IdsFit(t, dets, M, lost, idOf) ==
  /\ IsFiniteSet(lost) /\ Cardinality(lost) \in Nat
  /\ \A d \in lost : idOf[d] \in t.next .. t.next + Cardinality(lost) - 1
  /\ \A d \in DOMAIN dets \ lost : idOf[d] \in DOMAIN t.tracks /\ <<d, idOf[d]>> \in M
  /\ \A d, e \in DOMAIN dets : idOf[d] = idOf[e] => d = e
  /\ \A j \in t.next .. t.next + Cardinality(lost) - 1 : \E d \in lost : idOf[d] = j
  /\ \A m \in M : m = <<m[1], m[2]>> /\ m[1] \in DOMAIN dets \ lost /\ idOf[m[1]] = m[2]

(* The ids of a frame continue its matching and otherwise follow on.       *)
LEMMA TrackIds ==
  ASSUME NEW t, TrackerTyped(t), NEW dets, DetsTyped(dets), NEW threshold,
         NEW M, StableMatching(t.tracks, dets, threshold, M)
  PROVE  IdsFit(t, dets, M, Lost(dets, M), IdOf(t, dets, M))
  <1> DEFINE lost == Lost(dets, M)
             Rank(d) == Cardinality({e \in lost : e <= d})
             idOf == IdOf(t, dets, M)
             count == Cardinality(lost)
  <1>1. DOMAIN dets \subseteq Nat /\ IsFiniteSet(DOMAIN dets)
    <2>1. Len(dets) \in Nat /\ DOMAIN dets = 1 .. Len(dets)
      BY LenProperties DEF DetsTyped, IsSequence
    <2> QED
      BY <2>1, FS_Interval
  <1>2. lost \in SUBSET Nat /\ IsFiniteSet(lost) /\ count \in Nat
    <2>1. lost \in SUBSET DOMAIN dets
      BY DEF Lost
    <2> HIDE DEF lost
    <2> QED
      BY <1>1, <2>1, FS_Subset, FS_CardinalityType
  <1>3. /\ \A d \in lost : Rank(d) \in 1 .. count
        /\ \A d, e \in lost : Rank(d) = Rank(e) => d = e
        /\ \A r \in 1 .. count : \E d \in lost : Rank(d) = r
    <2> HIDE DEF lost
    <2> QED
      BY <1>2, RanksCount
  <1>4. /\ \A m \in M : m \in (DOMAIN dets) \X (DOMAIN t.tracks)
        /\ \A p, q \in M : p # q => p[1] # q[1] /\ p[2] # q[2]
    BY DEF StableMatching, Pairs
  <1>5. /\ \A d \in lost : idOf[d] = t.next + Rank(d) - 1
        /\ \A d \in DOMAIN dets \ lost : \E m \in M : m[1] = d /\ idOf[d] = m[2]
    <2>1. \A d \in lost : d \in DOMAIN dets
      BY DEF Lost
    <2>2. ASSUME NEW d \in DOMAIN dets \ lost PROVE \E m \in M : m[1] = d /\ idOf[d] = m[2]
      <3>1. \E m \in M : m[1] = d
        BY DEF Lost
      <3>2. idOf[d] = (CHOOSE m \in M : m[1] = d)[2]
        BY <2>2 DEF IdOf
      <3> QED
        BY <3>1, <3>2
    <2> QED
      BY <2>1, <2>2 DEF FreshId, IdOf
  <1>6. \A m \in M : m = <<m[1], m[2]>> /\ m[1] \in DOMAIN dets \ lost /\ m[2] \in DOMAIN t.tracks
    BY <1>4 DEF Lost
  <1> HIDE DEF idOf, Rank, lost, count
  <1>7. t.next \in Nat /\ DOMAIN t.tracks \subseteq 0 .. t.next - 1
    BY DEF TrackerTyped
  <1>8. \A m \in M : idOf[m[1]] = m[2]
    BY <1>4, <1>5, <1>6
  <1>9. \A d \in lost : idOf[d] \in t.next .. t.next + count - 1
    <2>1. SUFFICES ASSUME NEW d \in lost PROVE idOf[d] \in t.next .. t.next + count - 1
      BY Zenon
    <2> DEFINE r == Rank(d)
    <2>2. idOf[d] = t.next + r - 1
      BY <1>5
    <2>3. r \in 1 .. count
      BY <1>3
    <2> HIDE DEF r
    <2> QED
      BY <1>2, <1>7, <2>2, <2>3
  <1>10. \A d \in DOMAIN dets \ lost : idOf[d] \in DOMAIN t.tracks /\ <<d, idOf[d]>> \in M
    BY <1>5, <1>6
  <1>11. ASSUME NEW j \in t.next .. t.next + count - 1 PROVE \E d \in lost : idOf[d] = j
    <2>1. j - t.next + 1 \in 1 .. count
      BY <1>2, <1>7
    <2>2. PICK d \in lost : Rank(d) = j - t.next + 1
      BY <1>3, <2>1
    <2> QED
      BY <1>5, <1>7, <2>2
  <1>12. ASSUME NEW d \in DOMAIN dets, NEW e \in DOMAIN dets, idOf[d] = idOf[e] PROVE d = e
    <2>1. CASE d \in lost /\ e \in lost
      <3> DEFINE r == Rank(d)  q == Rank(e)
      <3>1. r \in 1 .. count /\ q \in 1 .. count
        BY <1>3, <2>1
      <3>2. t.next + r - 1 = t.next + q - 1
        BY <1>5, <1>12, <2>1
      <3>3. r = q
        <4> HIDE DEF r, q
        <4> QED
          BY <1>2, <1>7, <3>1, <3>2
      <3> QED
        BY <1>3, <2>1, <3>3
    <2>2. CASE d \notin lost /\ e \notin lost
      <3>1. <<d, idOf[d]>> \in M /\ <<e, idOf[d]>> \in M
        BY <1>10, <1>12, <2>2
      <3> QED
        BY <1>4, <3>1
    <2>3. ASSUME NEW a \in lost, NEW b \in DOMAIN dets \ lost PROVE idOf[a] # idOf[b]
      <3> DEFINE x == idOf[a]  y == idOf[b]
      <3>1. x \in t.next .. t.next + count - 1
        BY <1>9, <2>3
      <3>2. y \in 0 .. t.next - 1
        BY <1>7, <1>10, <2>3
      <3>3. x # y
        <4> HIDE DEF x, y
        <4> QED
          BY <1>2, <1>7, <3>1, <3>2
      <3> QED
        BY <3>3
    <2> QED
      BY <1>12, <2>1, <2>2, <2>3
  <1>13. IdsFit(t, dets, M, lost, idOf)
    BY <1>2, <1>6, <1>8, <1>9, <1>10, <1>11, <1>12 DEF IdsFit, count
  <1> QED
    BY <1>13 DEF lost, idOf

(* What the tracker makes of a frame: tracks and ids as they should be, and *)
(* the ids that go on are a stable matching.                                *)
TracksOut(given, dets, next) ==
  /\ IsSequence(given) /\ DOMAIN given = DOMAIN dets
  /\ \A d \in DOMAIN given : /\ given[d] = [id |-> given[d].id, label |-> dets[d].label, box |-> dets[d].box]
                           /\ given[d].id \in 0 .. next - 1
  /\ \A d, e \in DOMAIN given : given[d].id = given[e].id => d = e

Continued(tracks, given) == {m \in (DOMAIN given) \X (DOMAIN tracks) : given[m[1]].id = m[2]}

LEMMA TrackerDoes ==
  ASSUME NEW t, TrackerTyped(t), NEW dets, DetsTyped(dets), NEW threshold, NEW maxAge
  PROVE  LET u == TrackerUpdate(t, dets, threshold, maxAge)
         IN  /\ TrackerTyped(u.tracker) /\ t.next <= u.tracker.next
             /\ TracksOut(u.out, dets, u.tracker.next)
             /\ \A j \in t.next .. u.tracker.next - 1 : \E d \in DOMAIN u.out : u.out[d].id = j
             /\ StableMatching(t.tracks, dets, threshold, Continued(t.tracks, u.out))
  <1> DEFINE S == Pairs(t.tracks, dets, threshold)
             M == GreedyAssociate(t.tracks, dets, threshold)
  <1>1. Len(dets) \in Nat /\ DOMAIN dets = 1 .. Len(dets)
    BY LenProperties DEF DetsTyped, IsSequence
  <1>2. TracksTyped(t.tracks) /\ t.next \in Nat /\ DOMAIN t.tracks \subseteq 0 .. t.next - 1
    BY DEF TracksTyped, TrackerTyped
  <1>3. IsFiniteSet(S)
    <2>1. IsFiniteSet(DOMAIN dets)
      BY <1>1, FS_Interval
    <2>2. IsFiniteSet(DOMAIN t.tracks)
      <3>1. IsFiniteSet(0 .. t.next - 1)
        <4>1. 0 \in Int /\ t.next - 1 \in Int
          BY <1>2
        <4> QED
          BY <4>1, FS_Interval
      <3> QED
        BY <1>2, <3>1, FS_Subset
    <2>3. IsFiniteSet((DOMAIN dets) \X (DOMAIN t.tracks))
      BY <2>1, <2>2, FS_Product
    <2>4. S \in SUBSET ((DOMAIN dets) \X (DOMAIN t.tracks))
      BY DEF Pairs
    <2> QED
      BY <2>3, <2>4, FS_Subset
  <1>4. StableMatching(t.tracks, dets, threshold, M)
    BY <1>2, <1>3, GreedyIsStable
  <1>5. M \in SUBSET S
    BY <1>4 DEF StableMatching
  <1> HIDE DEF M
  <1>8. IdsFit(t, dets, M, Lost(dets, M), IdOf(t, dets, M))
    BY <1>4, TrackIds
  <1> DEFINE lost == Lost(dets, M)
             idOf == IdOf(t, dets, M)
             sighted == {idOf[d] : d \in DOMAIN dets}
             kept == {j \in DOMAIN t.tracks \ sighted : t.tracks[j].age + 1 <= maxAge}
             Seen(j) == LET d == CHOOSE e \in DOMAIN dets : idOf[e] = j
                        IN  [label |-> dets[d].label, box |-> dets[d].box, age |-> 0,
                             hits |-> IF d \in lost THEN 1 ELSE t.tracks[j].hits + 1]
             tracks == [j \in sighted \cup kept |-> IF j \in sighted THEN Seen(j)
                                                 ELSE [t.tracks[j] EXCEPT !.age = @ + 1]]
             given == [d \in DOMAIN dets |-> [id |-> idOf[d], label |-> dets[d].label, box |-> dets[d].box]]
             next == t.next + Cardinality(lost)
             u == TrackerUpdate(t, dets, threshold, maxAge)
  <1>6. u = [tracker |-> [tracks |-> tracks, next |-> next], out |-> given]
    BY <1>5, Zenon DEF TrackerUpdate, M, Lost, IdOf
  <1>7. u.tracker.tracks = tracks /\ u.tracker.next = next /\ u.out = given
    <2> HIDE DEF tracks, next, given, u
    <2> QED
      BY <1>6
  <1>16. IdsFit(t, dets, M, lost, idOf)
    BY <1>8
  <1>9. lost \in SUBSET DOMAIN dets
    BY DEF Lost
  <1> HIDE DEF lost, idOf, u
  <1>17. /\ IsFiniteSet(lost) /\ Cardinality(lost) \in Nat
         /\ \A d \in lost : idOf[d] \in t.next .. t.next + Cardinality(lost) - 1
         /\ \A d \in DOMAIN dets \ lost : idOf[d] \in DOMAIN t.tracks /\ <<d, idOf[d]>> \in M
         /\ \A d, e \in DOMAIN dets : idOf[d] = idOf[e] => d = e
         /\ \A j \in t.next .. t.next + Cardinality(lost) - 1 : \E d \in lost : idOf[d] = j
         /\ \A m \in M : m = <<m[1], m[2]>> /\ m[1] \in DOMAIN dets \ lost /\ idOf[m[1]] = m[2]
    BY <1>16 DEF IdsFit
  <1>18. next = t.next + Cardinality(lost)
    OBVIOUS
  <1>10. next \in Nat /\ t.next <= next
    BY <1>2, <1>17
  <1>11. \A d \in DOMAIN dets : idOf[d] \in 0 .. next - 1
    <2>1. SUFFICES ASSUME NEW d \in DOMAIN dets PROVE idOf[d] \in 0 .. next - 1
      BY Zenon
    <2> DEFINE x == idOf[d]  c == Cardinality(lost)
    <2>4. c \in Nat /\ next = t.next + c
      BY <1>17, <1>18
    <2>2. x \in t.next .. next - 1 \/ x \in 0 .. t.next - 1
      <3>1. d \in lost => idOf[d] \in t.next .. t.next + Cardinality(lost) - 1
        BY <1>17
      <3>2. d \notin lost => x \in DOMAIN t.tracks
        BY <1>17
      <3>3. x \in t.next .. t.next + c - 1 \/ x \in 0 .. t.next - 1
        BY <1>2, <3>1, <3>2
      <3> HIDE DEF x, c, next
      <3> QED
        BY <1>2, <2>4, <3>3
    <2> HIDE DEF x, next
    <2>3. x \in 0 .. next - 1
      BY <1>2, <1>10, <2>2
    <2> QED
      BY <2>3 DEF x
  <1>12. TrackerTyped(u.tracker)
    <2>1. DOMAIN tracks \subseteq 0 .. next - 1
      <3>1. kept \subseteq 0 .. t.next - 1 /\ sighted \subseteq 0 .. next - 1
        BY <1>2, <1>11
      <3>2. DOMAIN tracks = sighted \cup kept
        OBVIOUS
      <3> HIDE DEF kept, sighted, next, tracks
      <3>3. 0 .. t.next - 1 \subseteq 0 .. next - 1
        BY <1>2, <1>10
      <3> QED
        BY <3>1, <3>2, <3>3
    <2>2. ASSUME NEW j \in DOMAIN tracks PROVE BoxTyped(tracks[j].box)
      <3>1. CASE j \in sighted
        <4>1. PICK d \in DOMAIN dets : d = CHOOSE e \in DOMAIN dets : idOf[e] = j
          BY <3>1
        <4>2. tracks[j] = Seen(j)
          BY <3>1
        <4>3. Seen(j) = [label |-> dets[d].label, box |-> dets[d].box, age |-> 0,
                         hits |-> IF d \in lost THEN 1 ELSE t.tracks[j].hits + 1]
          BY <4>1
        <4>4. tracks[j].box = dets[d].box
          <5> HIDE DEF tracks, Seen
          <5> QED
            BY <4>2, <4>3
        <4> QED
          BY <4>4 DEF DetsTyped
      <3>2. CASE j \notin sighted
        <4>1. j \in DOMAIN t.tracks /\ tracks[j] = [t.tracks[j] EXCEPT !.age = @ + 1]
          BY <3>2
        <4> HIDE DEF tracks
        <4>2. tracks[j].box = t.tracks[j].box
          BY <4>1
        <4> QED
          BY <4>1, <4>2 DEF TrackerTyped
      <3> QED
        BY <3>1, <3>2
    <2> HIDE DEF tracks, next
    <2> QED
      BY <1>7, <1>10, <2>1, <2>2 DEF TrackerTyped
  <1>13. TracksOut(u.out, dets, u.tracker.next)
    <2>1. IsSequence(given) /\ DOMAIN given = DOMAIN dets
      BY <1>1 DEF IsSequence
    <2>2. \A d \in DOMAIN dets : /\ given[d] = [id |-> idOf[d], label |-> dets[d].label, box |-> dets[d].box]
                                 /\ given[d].id = idOf[d]
      OBVIOUS
    <2> HIDE DEF given, next
    <2> QED
      BY <1>7, <1>17, <1>11, <2>1, <2>2 DEF TracksOut
  <1>14. \A j \in t.next .. u.tracker.next - 1 : \E d \in DOMAIN u.out : u.out[d].id = j
    <2>1. \A d \in DOMAIN dets : d \in DOMAIN given /\ given[d].id = idOf[d]
      OBVIOUS
    <2> HIDE DEF given
    <2> DEFINE c == Cardinality(lost)
    <2>4. c \in Nat /\ next = t.next + c /\ u.tracker.next = next
      BY <1>7, <1>17, <1>18
    <2>2. t.next .. u.tracker.next - 1 = t.next .. t.next + c - 1
      <3> HIDE DEF c, next
      <3> QED
        BY <1>2, <2>4
    <2> HIDE DEF next
    <2>3. ASSUME NEW j \in t.next .. t.next + Cardinality(lost) - 1 PROVE \E d \in DOMAIN given : given[d].id = j
      <3>1. PICK d \in lost : idOf[d] = j
        BY <1>17
      <3> QED
        BY <1>9, <2>1, <3>1
    <2> QED
      BY <1>7, <2>2, <2>3
  <1>15. Continued(t.tracks, u.out) = M
    <2>1. \A d \in DOMAIN dets : given[d].id = idOf[d]
      OBVIOUS
    <2>2. DOMAIN given = DOMAIN dets
      OBVIOUS
    <2> HIDE DEF given, next
    <2>3. ASSUME NEW m \in M PROVE m \in Continued(t.tracks, u.out)
      <3>1. m = <<m[1], m[2]>> /\ m[1] \in DOMAIN dets \ lost /\ idOf[m[1]] = m[2]
        BY <1>17
      <3>2. m[2] \in DOMAIN t.tracks
        BY <1>17, <3>1
      <3> QED
        BY <1>7, <2>1, <2>2, <3>1, <3>2 DEF Continued
    <2>4. ASSUME NEW m \in Continued(t.tracks, u.out) PROVE m \in M
      <3>1. m = <<m[1], m[2]>> /\ m[1] \in DOMAIN dets /\ m[2] \in DOMAIN t.tracks /\ idOf[m[1]] = m[2]
        BY <1>7, <2>1, <2>2 DEF Continued
      <3>2. m[1] \notin lost
        <4> DEFINE x == m[2]
        <4>1. x \in 0 .. t.next - 1 /\ x = idOf[m[1]]
          BY <1>2, <3>1
        <4>2. m[1] \in lost => x \in t.next .. t.next + Cardinality(lost) - 1
          BY <1>17, <4>1
        <4> HIDE DEF x
        <4> QED
          BY <1>2, <1>17, <4>1, <4>2
      <3> QED
        BY <1>17, <3>1, <3>2
    <2> QED
      BY <2>3, <2>4
  <1> QED
    BY <1>4, <1>7, <1>10, <1>12, <1>13, <1>14, <1>15 DEF u

(***************************************************************************)
(* The inductive invariant.                                                *)
(***************************************************************************)

Places ==
  {"load", "observe", "build", "setup", "stages", "sinks", "loop", "read", "execute", "handle",
   "unsink", "unstage", "unsource", "emit", "emit2", "ended", "close", "drain", "done"}

Returns == {None, "unsink", "read", "handle", "ended"}

Verdicts == {"SUCCESS", "SKIPPED", "ERROR"}

Counts == [read : Nat, processed : Nat, skipped : Nat, errors : Nat, eof : Nat, srcErrors : Nat]

Openable == {Source} \cup ({"stage"} \X Nat) \cup ({"sink"} \X Nat)

Records == [i : Nat, n : Counts, final : BOOLEAN]

(* Where the main thread is once the snapshot it is at has been taken.     *)
Place == IF pc \in {"emit", "emit2"} THEN ret ELSE pc

(* There is a pipeline under way.                                          *)
Under == pc \notin {"load", "observe", "close", "drain", "done"}

SliceTyped ==
  /\ app \in Apps
  /\ pc \in Places /\ ret \in Returns
  /\ pc \in {"emit", "emit2"} => ret # None
  /\ i \in Nat \ {0} /\ k \in Nat \ {0}
  /\ open \subseteq Openable
  /\ n \in Counts
  /\ result.verdict \in Verdicts

(* What is under way is a pipeline of the application, and one that the    *)
(* builders took.                                                          *)
UnderWay ==
  /\ Under => i \in DOMAIN Pipelines
  /\ Place \in Running => Valid(P)

(* What is open at each place, on the way up and on the way down.          *)
SetUp ==
  /\ pc = "setup" => open = {}
  /\ pc = "stages" => OpenSinks = {}
  /\ pc \in {"setup", "stages", "sinks"} => n.read = 0

TakenDown ==
  /\ pc = "unstage" /\ n.read > 0 => OpenSinks = {}
  /\ pc = "unsource" => /\ n.read > 0 => open \subseteq {Source}
                        /\ OpenStages # {} => app.interrupts
  /\ Place = "ended" /\ ret = "ended" =>
        /\ Source \notin open
        /\ OpenStages # {} => app.interrupts
        /\ n.read > 0 => open = {}

(* A frame that failed was read, and one being executed has not failed yet. *)
FramesCounted == n.errors <= n.read /\ (pc = "execute" => n.errors < n.read)

(* The gauges of the cameras: none has a frame of a run to come.           *)
GaugesTyped ==
  /\ gauges.frames \in [DOMAIN gauges.frames -> Nat] /\ IsFiniteSet(DOMAIN gauges.frames)
  /\ gauges.errors \in [DOMAIN gauges.errors -> Nat]
  /\ gauges = [frames |-> gauges.frames, errors |-> gauges.errors]

GaugesOfRuns ==
  /\ \A s \in DOMAIN gauges.frames : s \in Nat /\ s <= i
  /\ i \in DOMAIN gauges.frames => gauges.frames[i] <= n.read
  /\ pc \in {"load", "observe", "build"} => i \notin DOMAIN gauges.frames

(* Both series of gauges have the same cameras but between their writes;   *)
(* then the first has the value of now, or no room.                        *)
GaugesPaired ==
  /\ pc # "emit2" => DOMAIN gauges.errors = DOMAIN gauges.frames
  /\ pc = "emit2" =>
        IF i \in DOMAIN gauges.frames
        THEN /\ gauges.frames[i] = n.read
             /\ DOMAIN gauges.frames = DOMAIN gauges.errors \cup {i}
        ELSE /\ DOMAIN gauges.frames = DOMAIN gauges.errors
             /\ Obs.cap # NoPort /\ Cardinality(DOMAIN gauges.frames) = Obs.cap

GaugesCapped ==
  /\ pc \notin {"load", "done"} => Obs.cap \in Nat \cup {NoPort}
  /\ Obs.cap \in Nat => Cardinality(DOMAIN gauges.frames) <= Obs.cap

LastGauge ==
  pc = "ended" /\ ret = "ended" /\ "metrics" \in Observers =>
     IF i \in DOMAIN gauges.frames
     THEN gauges.frames[i] = n.read /\ gauges.errors[i] = n.errors
     ELSE Cardinality(DOMAIN gauges.frames) = Obs.cap

(* The log.  Between two runs its last record, written or waiting, is the  *)
(* final one of the run before, unless one was dropped.                    *)
LogTyped ==
  /\ log = [state |-> log.state, queue |-> log.queue, file |-> log.file, dropped |-> log.dropped]
  /\ log.queue \in Seq(Records) /\ log.file \in Seq(Records) /\ log.dropped \in Nat
  /\ log.state = "closed" => pc = "done" /\ log.queue = <<>>

Between ==
  \/ pc \in {"load", "observe", "build", "ended", "close", "drain", "done"}
  \/ pc = "emit2" /\ ret = "ended"

LastRecord == IF log.queue # <<>> THEN log.queue[Len(log.queue)] ELSE log.file[Len(log.file)]

LogLast ==
  /\ "log" \notin Observers => log.queue = <<>> /\ log.file = <<>>
  /\ Between /\ log.dropped = 0 /\ (log.queue # <<>> \/ log.file # <<>>) =>
        LastRecord.final /\ LastRecord.n = n

(* The outcomes are those of the pipelines before the one under way, and   *)
(* of all of them in the end.                                              *)
OutcomesInOrder ==
  /\ outcome \in Seq({"ok", "failed"})
  /\ app.mode = "config" /\ pc \notin {"close", "drain", "done"} => Len(outcome) = i - 1
  /\ pc \in {"load", "observe"} => i = 1
  /\ app.mode = "config" /\ pc \in {"close", "drain"} =>
        exc = "Interrupt" \/ Len(outcome) = Len(app.pipelines)

ExitTold ==
  pc = "done" /\ app.mode = "config" /\ ~app.validate =>
     /\ outcome # <<>> /\ exc # "Interrupt" => Len(outcome) = Len(app.pipelines)
     /\ code = 0 => /\ Len(outcome) = Len(app.pipelines)
                    /\ \A j \in DOMAIN outcome : outcome[j] # "failed"

(* The packet on its way and the states of the stages.                     *)
PacketTyped(p) ==
  /\ DOMAIN p = {"has", "dets", "tracks", "events", "unique", "in", "out"}
  /\ DetsTyped(p.dets)

(* The trackers of a running pipeline are of their type, and so is what the *)
(* packet brings them.                                                     *)
StagesTyped ==
  Place \in Running => /\ DOMAIN stages = DOMAIN P.stages
                       /\ \A j \in StagesOf("track") : TrackerTyped(stages[j])

PacketsTyped == pc = "execute" => PacketTyped(result.packet)

SliceInv ==
  /\ SliceTyped
  /\ UnderWay
  /\ SetUp /\ TakenDown
  /\ FramesCounted
  /\ GaugesTyped /\ GaugesOfRuns /\ GaugesPaired /\ GaugesCapped /\ LastGauge
  /\ ScrapeSane
  /\ LogTyped /\ LogLast
  /\ OutcomesInOrder /\ ExitTold
  /\ StagesTyped /\ PacketsTyped

(***************************************************************************)
(* What the operations under an action return.                             *)
(***************************************************************************)

(* The parts of a pipeline are lists, of a file or of a command line.      *)
LEMMA PipelineShape ==
  ASSUME app \in Apps, i \in DOMAIN Pipelines
  PROVE  IsSequence(P.stages) /\ IsSequence(P.sinks)
  <1>1. CASE app.mode = "cli"
    <2> DEFINE a == app.args
               One(flag, item, S) == IF flag THEN <<item>> ELSE <<>>
    <2>1. Pipelines = <<ArgsToPipeline(a)>>
      BY <1>1 DEF Pipelines
    <2>2. P = ArgsToPipeline(a)
      BY <2>1 DEF P
    <2>3. \A flag, item, S : item \in S => Chosen(flag, item) \in Seq(S)
      <3> TAKE flag, item, S
      <3>1. <<>> \in Seq(S)
        OBVIOUS
      <3>2. item \in S => <<item>> \in Seq(S)
        OBVIOUS
      <3> QED
        BY <3>1, <3>2 DEF Chosen
    <2>4. \A S, s : s \in Seq(S) => IsSequence(s)
      <3> TAKE S, s
      <3> HAVE s \in Seq(S)
      <3>1. Len(s) \in Nat /\ s \in [1 .. Len(s) -> S]
        BY LenProperties
      <3>2. s \in [1 .. Len(s) -> {s[j] : j \in DOMAIN s}]
        BY <3>1
      <3> QED
        BY <3>1, <3>2, FunctionIsSequence DEF IsSequence
    <2>5. IsSequence(StagesOfArgs(a))
      <3> DEFINE g == Item("motion_gate", [max_consecutive_skip |-> a.gateMaxSkip])
                 d == Item("detect", NoParams)
                 c == Item("count", NoParams)
                 t == Item("track", [max_age |-> a.maxAge])
                 l == Item("line_crossing", a.line)
                 S == {g, d, c, t, l}
                 s1 == Chosen(a.gate, g)
                 s2 == <<d, c>>
                 s3 == Chosen(a.track, t)
                 s4 == Chosen(a.line # NoParams, l)
      <3>1. s1 \in Seq(S) /\ s3 \in Seq(S) /\ s4 \in Seq(S)
        BY <2>3
      <3>2. s2 \in Seq(S)
        OBVIOUS
      <3>3. StagesOfArgs(a) = s1 \o s2 \o s3 \o s4
        BY DEF StagesOfArgs
      <3> HIDE DEF s1, s2, s3, s4, S
      <3>4. s1 \o s2 \in Seq(S)
        BY <3>1, <3>2, ConcatProperties
      <3>5. s1 \o s2 \o s3 \in Seq(S)
        BY <3>1, <3>4, ConcatProperties
      <3>6. s1 \o s2 \o s3 \o s4 \in Seq(S)
        BY <3>1, <3>5, ConcatProperties
      <3> QED
        BY <3>3, <3>6, <2>4
    <2>6. IsSequence(SinksOfArgs(a))
      <3> DEFINE j == Item("jsonl", [path |-> 0])
                 e == Item("crossing_events", [path |-> 0])
                 q == Item("crossing_events_sqlite", [path |-> 0])
                 S == {j, e, q}
                 s1 == Chosen(a.out, j)
                 s2 == Chosen(a.crossingOut, e)
                 s3 == Chosen(a.crossingDb, q)
      <3>1. s1 \in Seq(S) /\ s2 \in Seq(S) /\ s3 \in Seq(S)
        BY <2>3
      <3>2. SinksOfArgs(a) = s1 \o s2 \o s3
        BY DEF SinksOfArgs
      <3> HIDE DEF s1, s2, s3, S
      <3>3. s1 \o s2 \in Seq(S)
        BY <3>1, ConcatProperties
      <3>4. s1 \o s2 \o s3 \in Seq(S)
        BY <3>1, <3>3, ConcatProperties
      <3> QED
        BY <3>2, <3>4, <2>4
    <2> QED
      BY <2>2, <2>5, <2>6 DEF ArgsToPipeline
  <1>2. CASE app.mode # "cli"
    BY <1>2, SliceAssumption DEF SliceAssumption, Pipelines, P
  <1> QED
    BY <1>1, <1>2

(* process() of each type of stage.                                        *)
Failed(st, packet) == [verdict |-> "ERROR", st |-> st, packet |-> packet]

Having(packet, name) == [packet EXCEPT !.has = @ \cup {name}]

Tracked(packet, t) ==
  Did(t.tracker, [Having(packet, "tracks") EXCEPT !.tracks = t.out, !.unique = t.tracker.next])

Lined(packet, l) ==
  Did(l.line, [Having(packet, "crossings") EXCEPT !.events = l.events, !.in = l.line.in, !.out = l.line.out])

LEMMA StageIsGate ==
  ASSUME NEW item, item.type = "motion_gate", NEW st, NEW packet, NEW frame
  PROVE  \E cfg : LET g == GateStep(st, frame.shape, frame.moved, frame.fits, cfg)
                  IN  StageStep(item, st, packet, frame)
                        = [verdict |-> g.verdict, st |-> g.gate, packet |-> packet]
  BY Zenon DEF StageStep

LEMMA StageIsDetect ==
  ASSUME NEW item, item.type = "detect", NEW st, NEW packet, NEW frame
  PROVE  StageStep(item, st, packet, frame) =
           IF frame.fails THEN Failed(st, packet)
           ELSE Did(st, [Having(packet, "detections") EXCEPT !.dets = frame.dets])
  BY Zenon DEF StageStep, Failed, Having

LEMMA StageIsCount ==
  ASSUME NEW item, item.type = "count", NEW st, NEW packet, NEW frame
  PROVE  StageStep(item, st, packet, frame) =
           IF "detections" \in packet.has THEN Did(st, Having(packet, "count")) ELSE Failed(st, packet)
  BY Zenon DEF StageStep, Failed, Having

LEMMA StageIsTrack ==
  ASSUME NEW item, item.type = "track", NEW st, NEW packet, NEW frame
  PROVE  StageStep(item, st, packet, frame) =
           IF "detections" \notin packet.has THEN Failed(st, packet)
           ELSE Tracked(packet, TrackerUpdate(st, packet.dets, Threshold, Param(item, "max_age", 30)))
  BY Zenon DEF StageStep, Failed, Having, Tracked

LEMMA StageIsLine ==
  ASSUME NEW item, item.type = "line_crossing", NEW st, NEW packet, NEW frame
  PROVE  StageStep(item, st, packet, frame) =
           IF "tracks" \notin packet.has THEN Failed(st, packet)
           ELSE Lined(packet, LineUpdate(st, packet.tracks, LineOf(item), n.read))
  BY Zenon DEF StageStep, Failed, Having, Lined

(* A stage of a pipeline that was taken gives one of three verdicts.       *)
LEMMA StageVerdict ==
  ASSUME SliceTyped, UnderWay, pc = "execute", k <= Len(P.stages), NEW st, NEW packet, NEW frame
  PROVE  StageStep(P.stages[k], st, packet, frame).verdict \in Verdicts
  <1>1. Valid(P) /\ IsSequence(P.stages)
    BY PipelineShape DEF UnderWay, Under, Place, Running, SliceTyped
  <1>2. k \in DOMAIN P.stages
    <2>1. Len(P.stages) \in Nat /\ DOMAIN P.stages = 1 .. Len(P.stages)
      BY <1>1, LenProperties DEF IsSequence
    <2> QED
      BY <2>1 DEF SliceTyped
  <1> DEFINE item == P.stages[k]
  <1>3. item.type \in {"detect", "count", "motion_gate", "track", "line_crossing"}
    BY <1>1, <1>2 DEF item, Valid, Accepted, Known, Registry
  <1> SUFFICES StageStep(item, st, packet, frame).verdict \in Verdicts
    OBVIOUS
  <1> HIDE DEF item
  <1>4. CASE item.type = "detect"
    BY <1>4, StageIsDetect DEF Did, Failed, Verdicts
  <1>5. CASE item.type = "count"
    BY <1>5, StageIsCount DEF Did, Failed, Verdicts
  <1>6. CASE item.type = "motion_gate"
    BY <1>6, StageIsGate DEF GateStep, Verdicts
  <1>7. CASE item.type = "track"
    <2>1. \A t : Tracked(packet, t).verdict = "SUCCESS"
      BY DEF Tracked, Did
    <2> QED
      BY <1>7, <2>1, StageIsTrack DEF Failed, Verdicts
  <1>8. CASE item.type = "line_crossing"
    <2>1. \A l : Lined(packet, l).verdict = "SUCCESS"
      BY DEF Lined, Did
    <2> QED
      BY <1>8, <2>1, StageIsLine DEF Failed, Verdicts
  <1> QED
    BY <1>3, <1>4, <1>5, <1>6, <1>7, <1>8

(* Before the first frame there is no track and nothing in the packet.     *)
LEMMA NewTyped == TrackerTyped(NoTracks) /\ PacketTyped(NewResult.packet)
  <1>1. TrackerTyped(NoTracks)
    BY DEF TrackerTyped, NoTracks
  <1>2. IsSequence(<<>>)
    BY DEF IsSequence
  <1> QED
    BY <1>1, <1>2 DEF PacketTyped, NewResult, NoPacket, DetsTyped

(* A frame is one of the scene, and holds a list of boxes.                 *)
LEMMA FrameTyped ==
  ASSUME SliceTyped, UnderWay, pc = "execute"
  PROVE  DetsTyped(Frame.dets) /\ \E f \in DOMAIN W.scene : Frame = W.scene[f]
  <1>1. app \in Apps /\ i \in DOMAIN Pipelines
    BY DEF SliceTyped, UnderWay, Under
  <1>2. i \in DOMAIN app.world
    <2>1. (IF app.mode = "cli" THEN {1} ELSE DOMAIN app.pipelines) \subseteq DOMAIN app.world
      BY <1>1, WorldAssumption DEF WorldAssumption
    <2>2. CASE app.mode = "cli"
      <3>1. DOMAIN Pipelines = {1}
        BY <2>2 DEF Pipelines
      <3> QED
        BY <1>1, <2>1, <2>2, <3>1
    <2>3. CASE app.mode # "cli"
      BY <1>1, <2>1, <2>3 DEF Pipelines
    <2> QED
      BY <2>2, <2>3
  <1> DEFINE scene == W.scene
             at == ((n.read - 1) % Len(scene)) + 1
  <1>3. /\ IsSequence(scene) /\ scene # <<>>
        /\ \A f \in DOMAIN scene :
              /\ IsSequence(scene[f].dets)
              /\ \A d \in DOMAIN scene[f].dets :
                    \A c \in {"x", "y", "w", "h"} : scene[f].dets[d].box[c] \in Int
    BY <1>1, <1>2, WorldAssumption DEF WorldAssumption, W
  <1>4. n.read \in Nat
    BY DEF SliceTyped, Counts
  <1>5. Frame = scene[at]
    BY DEF Frame
  <1> HIDE DEF scene
  <1>6. Len(scene) \in Nat \ {0} /\ DOMAIN scene = 1 .. Len(scene)
    BY <1>3, LenProperties, EmptySeq DEF IsSequence
  <1>7. at \in DOMAIN scene
    BY <1>4, <1>6
  <1> HIDE DEF at
  <1>8. DetsTyped(Frame.dets)
    BY <1>3, <1>5, <1>7 DEF DetsTyped, BoxTyped
  <1> QED
    BY <1>5, <1>7, <1>8 DEF scene

(* A stage keeps the packet as it should be.                               *)
LEMMA StageKeepsPacket ==
  ASSUME NEW item, item.type \in {"detect", "count", "motion_gate", "track", "line_crossing"},
         NEW st, NEW packet, PacketTyped(packet), NEW frame, DetsTyped(frame.dets)
  PROVE  PacketTyped(StageStep(item, st, packet, frame).packet)
  <1>1. \A s, p : Did(s, p).packet = p /\ Failed(s, p).packet = p
    BY DEF Did, Failed
  <1>2. \A name : PacketTyped(Having(packet, name))
    BY DEF PacketTyped, Having
  <1>3. CASE item.type = "detect"
    <2> DEFINE h == Having(packet, "detections")
    <2>1. PacketTyped(h)
      BY <1>2
    <2> HIDE DEF h
    <2>2. PacketTyped([h EXCEPT !.dets = frame.dets])
      BY <2>1 DEF PacketTyped
    <2> USE DEF h
    <2> QED
      BY <1>1, <1>3, <2>2, StageIsDetect
  <1>4. CASE item.type = "count"
    BY <1>1, <1>2, <1>4, StageIsCount
  <1>5. CASE item.type = "motion_gate"
    <2>1. StageStep(item, st, packet, frame).packet = packet
      BY <1>5, StageIsGate
    <2> QED
      BY <2>1
  <1>6. CASE item.type = "track"
    <2>1. ASSUME NEW t PROVE PacketTyped(Tracked(packet, t).packet)
      <3> DEFINE h == Having(packet, "tracks")
      <3>1. PacketTyped(h)
        BY <1>2
      <3> HIDE DEF h
      <3>2. PacketTyped([h EXCEPT !.tracks = t.out, !.unique = t.tracker.next])
        BY <3>1 DEF PacketTyped
      <3> USE DEF h
      <3> QED
        BY <1>1, <3>2 DEF Tracked
    <2> QED
      BY <1>1, <1>6, <2>1, StageIsTrack
  <1>7. CASE item.type = "line_crossing"
    <2>1. ASSUME NEW l PROVE PacketTyped(Lined(packet, l).packet)
      <3> DEFINE h == Having(packet, "crossings")
      <3>1. PacketTyped(h)
        BY <1>2
      <3> HIDE DEF h
      <3>2. PacketTyped([h EXCEPT !.events = l.events, !.in = l.line.in, !.out = l.line.out])
        BY <3>1 DEF PacketTyped
      <3> USE DEF h
      <3> QED
        BY <1>1, <3>2 DEF Lined
    <2> QED
      BY <1>1, <1>7, <2>1, StageIsLine
  <1> QED
    BY <1>3, <1>4, <1>5, <1>6, <1>7

(* The stage of a tracker associates as it should and stays of its type.   *)
LEMMA TrackStageDoes ==
  ASSUME NEW item, item.type = "track", NEW st, TrackerTyped(st),
         NEW packet, PacketTyped(packet), NEW frame
  PROVE  LET s == StageStep(item, st, packet, frame)
         IN  /\ TrackerTyped(s.st)
             /\ s.verdict = "SUCCESS" =>
                   StableMatching(st.tracks, packet.dets, Threshold, Continued(st.tracks, s.packet.tracks))
  <1> DEFINE s == StageStep(item, st, packet, frame)
             u == TrackerUpdate(st, packet.dets, Threshold, Param(item, "max_age", 30))
             h == Having(packet, "tracks")
  <1>1. CASE "detections" \notin packet.has
    <2>1. s = Failed(st, packet)
      BY <1>1, StageIsTrack
    <2> HIDE DEF s
    <2>2. s.st = st /\ s.verdict = "ERROR"
      BY <2>1 DEF Failed
    <2> USE DEF s
    <2> QED
      BY <2>2
  <1>2. CASE "detections" \in packet.has
    <2>1. s = Tracked(packet, u)
      BY <1>2, StageIsTrack
    <2>2. TrackerTyped(u.tracker)
          /\ StableMatching(st.tracks, packet.dets, Threshold, Continued(st.tracks, u.out))
      BY TrackerDoes DEF PacketTyped
    <2>3. DOMAIN h = DOMAIN packet
      BY DEF Having
    <2> HIDE DEF s, u, h
    <2>4. s = Did(u.tracker, [h EXCEPT !.tracks = u.out, !.unique = u.tracker.next])
      BY <2>1 DEF Tracked, h
    <2>5. s.st = u.tracker /\ s.packet = [h EXCEPT !.tracks = u.out, !.unique = u.tracker.next]
      BY <2>4 DEF Did
    <2>6. s.packet.tracks = u.out
      BY <2>3, <2>5 DEF PacketTyped
    <2> USE DEF s
    <2> QED
      BY <2>2, <2>5, <2>6
  <1> QED
    BY <1>1, <1>2

(* The source of a pipeline that was taken answers in one of four ways.    *)
LEMMA SourceAnswers ==
  ASSUME SliceTyped, UnderWay, pc = "read", NEW ok
  PROVE  ReadSource(SourceSpec, src, ok, MaxCount).status \in {"EOF", "ERROR", "RECONNECTING", "FRAME"}
  <1>1. Valid(P)
    BY DEF UnderWay, Place, Running
  <1>2. P.source.type \in {"fake", "noise", "video", "rtsp", "looping"}
    BY <1>1 DEF Valid, Accepted, Known, Registry
  <1>3. SourceSpec.kind \in {"fake", "noise", "video", "rtsp"}
    BY <1>2 DEF SourceSpec
  <1> DEFINE s == SourceSpec
  <1> HIDE DEF s
  <1>4. CASE s.kind \in Generated
    BY <1>4 DEF ReadSource, ReadGenerated, Generated, Cameras, s
  <1>5. CASE s.kind = "video"
    BY <1>5 DEF ReadSource, ReadVideo, Generated, Cameras, s
  <1>6. CASE s.kind = "rtsp"
    BY <1>6 DEF ReadSource, ReadCamera, Generated, Cameras, s
  <1> QED
    BY <1>3, <1>4, <1>5, <1>6 DEF Generated, s

(***************************************************************************)
(* What the larger actions do to the control state and the counters.       *)
(***************************************************************************)

LEMMA TallyCounts ==
  ASSUME n \in Counts, NEW v \in Verdicts
  PROVE  /\ Tally(v) \in Counts /\ Tally(v).read = n.read
         /\ Tally(v).errors \in n.errors .. n.errors + 1
  <1>1. CASE v = "SUCCESS"
    <2>1. Tally(v) = [n EXCEPT !.processed = @ + 1]
      BY <1>1, Zenon DEF Tally
    <2> QED
      BY <2>1 DEF Counts
  <1>2. CASE v = "SKIPPED"
    <2>1. Tally(v) = [n EXCEPT !.skipped = @ + 1]
      BY <1>2, Zenon DEF Tally
    <2> QED
      BY <2>1 DEF Counts
  <1>3. CASE v = "ERROR"
    <2>1. Tally(v) = [n EXCEPT !.errors = @ + 1]
      BY <1>3, Zenon DEF Tally
    <2> QED
      BY <2>1 DEF Counts
  <1> QED
    BY <1>1, <1>2, <1>3 DEF Verdicts

(* A read goes on with a frame that is counted, or without.                *)
LEMMA ReadDoes ==
  ASSUME SliceTyped, UnderWay, NEW ok, Read(ok)
  PROVE  /\ pc = "read" /\ pc' \in {"unsink", "loop", "execute"}
         /\ n' \in Counts /\ n'.errors = n.errors
         /\ n'.read = IF pc' = "execute" THEN n.read + 1 ELSE n.read
         /\ k' \in Nat \ {0} /\ result'.verdict \in Verdicts
         /\ UNCHANGED <<app, ret, i, exc, open, endVars, obsVars>>
  <1> DEFINE r == ReadSource(SourceSpec, src, ok, MaxCount)
  <1>1. pc = "read" /\ UNCHANGED <<app, ret, i, exc, open, endVars, obsVars>>
    BY Zenon DEF Read
  <1>2. r.status \in {"EOF", "ERROR", "RECONNECTING", "FRAME"}
    BY <1>1, SourceAnswers
  <1>3. IF r.status = "FRAME" THEN k' = 1 /\ result' = NewResult ELSE UNCHANGED <<k, result>>
    BY Zenon DEF Read
  <1>4. k' \in Nat \ {0} /\ result'.verdict \in Verdicts
    BY <1>3 DEF SliceTyped, NewResult, Verdicts
  <1>5. CASE r.status = "EOF"
    <2>1. /\ n' = [n EXCEPT !.eof = Bump(@)]
          /\ pc' = IF IsFinite(SourceSpec, r.src) THEN "unsink" ELSE "loop"
      BY <1>5, Zenon DEF Read
    <2>2. Bump(n.eof) \in Nat
      BY DEF Bump, SliceTyped, Counts
    <2> QED
      BY <1>1, <1>4, <2>1, <2>2 DEF SliceTyped, Counts
  <1>6. CASE r.status = "ERROR"
    <2>1. n' = [n EXCEPT !.srcErrors = Bump(@)] /\ pc' = "loop"
      BY <1>6, Zenon DEF Read
    <2>2. Bump(n.srcErrors) \in Nat
      BY DEF Bump, SliceTyped, Counts
    <2> QED
      BY <1>1, <1>4, <2>1, <2>2 DEF SliceTyped, Counts
  <1>7. CASE r.status = "RECONNECTING"
    <2>1. n' = n /\ pc' = "loop"
      BY <1>7, Zenon DEF Read
    <2> QED
      BY <1>1, <1>4, <2>1 DEF SliceTyped
  <1>8. CASE r.status = "FRAME"
    <2>1. n' = [n EXCEPT !.read = @ + 1] /\ pc' = "execute"
      BY <1>8, Zenon DEF Read
    <2> QED
      BY <1>1, <1>4, <2>1 DEF SliceTyped, Counts
  <1> QED
    BY <1>2, <1>5, <1>6, <1>7, <1>8

(* A stage leaves its verdict.                                             *)
LEMMA ExecuteStageDoes ==
  ASSUME SliceTyped, UnderWay, ExecuteStage
  PROVE  /\ pc = "execute" /\ k' = k + 1 /\ result'.verdict \in Verdicts
         /\ UNCHANGED <<app, pc, ret, i, exc, open, n, endVars, obsVars>>
  <1>1. /\ pc = "execute" /\ k <= Len(P.stages) /\ k' = k + 1
        /\ UNCHANGED <<app, pc, ret, i, exc, open, n, endVars, obsVars>>
    BY Zenon DEF ExecuteStage
  <1>2. PICK s : /\ s = StageStep(P.stages[k], stages[k], result.packet, Frame)
                 /\ result' = [verdict |-> s.verdict, packet |-> s.packet]
    BY DEF ExecuteStage
  <1>3. result'.verdict = s.verdict
    BY <1>2
  <1> QED
    BY <1>1, <1>2, <1>3, StageVerdict

LEMMA ExecutedDoes ==
  ASSUME SliceTyped, FramesCounted, Executed
  PROVE  /\ pc = "execute" /\ k' = 1
         /\ n' \in Counts /\ n'.read = n.read /\ n'.errors <= n'.read
         /\ EmitThen("handle") \/ (pc' = "handle" /\ ret' = ret)
         /\ UNCHANGED <<app, i, exc, open, result, endVars, obsVars>>
  <1>1. pc = "execute" /\ n' = Tally(result.verdict)
    BY DEF Executed
  <1>2. n' \in Counts /\ n'.read = n.read /\ n'.errors <= n'.read
    <2>1. n \in Counts /\ result.verdict \in Verdicts /\ n.errors < n.read
      BY <1>1 DEF SliceTyped, FramesCounted
    <2>2. /\ Tally(result.verdict) \in Counts /\ Tally(result.verdict).read = n.read
          /\ Tally(result.verdict).errors \in n.errors .. n.errors + 1
      BY <2>1, TallyCounts
    <2>3. n.errors \in Nat /\ n.read \in Nat
      BY <2>1 DEF Counts
    <2> QED
      BY <1>1, <2>1, <2>2, <2>3
  <1> QED
    BY <1>2 DEF Executed

LEMMA HandleDoes ==
  ASSUME SliceTyped, Handle
  PROVE  /\ pc = "handle" /\ pc' \in {"loop", "handle", "unsink"} /\ k' \in Nat \ {0}
         /\ UNCHANGED <<app, ret, i, open, n, result, endVars, obsVars>>
  <1>1. pc = "handle" /\ UNCHANGED <<app, ret, i, open, n, result, endVars, obsVars>>
    BY Zenon DEF Handle
  <1>2. \/ pc' = "loop" /\ k' = k
        \/ pc' = pc /\ k' = k + 1
        \/ pc' = "unsink" /\ k' = k
    BY Zenon DEF Handle
  <1> QED
    BY <1>1, <1>2 DEF SliceTyped

(* A builder that raises, and a pipeline that is built.                    *)
LEMMA BuildDoes ==
  ASSUME SliceTyped, UnderWay, Build
  PROVE  /\ pc = "build" /\ ret' = None /\ open' = {}
         /\ UNCHANGED <<app, i, outcome, obsVars>>
         /\ \/ /\ app.mode = "config" /\ pc' = "ended"
               /\ UNCHANGED <<k, n, result, code>>
            \/ /\ app.mode # "config" /\ pc' = "close" /\ UNCHANGED <<k, n, result, code>>
            \/ /\ app.mode # "config" /\ pc' = "done" /\ code' = 1 /\ UNCHANGED <<k, n, result>>
            \/ /\ pc' = "setup" /\ k' = 1 /\ n' = NoCounts /\ result' = NewResult
               /\ Valid(P) /\ UNCHANGED <<exc, code>>
  <1> DEFINE fault == BuildFault(P, app.machine)
  <1> HIDE DEF fault
  <1>1. pc = "build" /\ ret' = None /\ open' = {} /\ UNCHANGED <<app, i, outcome, obsVars>>
    BY Zenon DEF Build
  <1>2. CASE fault # None
    <2>1. BuildFailed(fault) /\ UNCHANGED <<k, n, result>>
      BY <1>2, Zenon DEF Build, fault
    <2> QED
      BY <1>1, <2>1 DEF BuildFailed, Exit
  <1>3. CASE fault = None
    <2>1. pc' = "setup" /\ k' = 1 /\ n' = NoCounts /\ result' = NewResult /\ UNCHANGED <<exc, code>>
      BY <1>3, Zenon DEF Build, fault
    <2>2. Valid(P)
      <3>1. i \in DOMAIN Pipelines /\ app \in Apps
        BY <1>1 DEF UnderWay, Under, SliceTyped
      <3>2. IsSequence(P.stages) /\ IsSequence(P.sinks)
        BY <3>1, PipelineShape
      <3> QED
        BY <1>3, <3>2, BuiltIsValid DEF fault
    <2> QED
      BY <1>1, <2>1, <2>2
  <1> QED
    BY <1>2, <1>3

(* Where a Ctrl+C leaves the main thread.                                  *)
LEMMA InterruptDoes ==
  ASSUME Interrupt
  PROVE  /\ app.interrupts /\ exc' = "Interrupt"
         /\ UNCHANGED <<app, i, k, open, n, result, outcome, obsVars>>
         /\ \/ pc = "build" /\ app.mode = "config" /\ pc' = "close" /\ UNCHANGED <<ret, code>>
            \/ pc = "build" /\ app.mode # "config" /\ pc' = "done" /\ code' = 1 /\ UNCHANGED ret
            \/ pc = "setup" /\ EmitThen("ended") /\ UNCHANGED code
            \/ pc = "stages" /\ pc' = "unsource" /\ UNCHANGED <<ret, code>>
            \/ pc = "sinks" /\ pc' = "unstage" /\ UNCHANGED <<ret, code>>
            \/ /\ pc \in {"loop", "read", "execute", "handle"}
               /\ pc' = "unsink" /\ UNCHANGED <<ret, code>>
  <1>1. /\ pc = "build" => Unwound = IF app.mode = "config" THEN "close" ELSE "done"
        /\ pc = "setup" => Unwound = "final"
        /\ pc = "stages" => Unwound = "unsource"
        /\ pc = "sinks" => Unwound = "unstage"
        /\ pc \in {"loop", "read", "execute", "handle"} => Unwound = "unsink"
    <2>1. pc = "build" => Unwound = IF app.mode = "config" THEN "close" ELSE "done"
      BY Zenon DEF Unwound
    <2>2. pc = "setup" => Unwound = "final"
      BY Zenon DEF Unwound
    <2>3. pc = "stages" => Unwound = "unsource"
      BY Zenon DEF Unwound
    <2>4. pc = "sinks" => Unwound = "unstage"
      BY Zenon DEF Unwound
    <2>5. pc \in {"loop", "read", "execute", "handle"} => Unwound = "unsink"
      BY Zenon DEF Unwound
    <2> QED
      BY <2>1, <2>2, <2>3, <2>4, <2>5
  <1>2. /\ app.interrupts /\ exc' = "Interrupt"
        /\ UNCHANGED <<app, i, k, open, n, result, outcome, obsVars>>
        /\ pc \in {"build", "setup", "stages", "sinks", "loop", "read", "execute", "handle"}
        /\ IF Unwound = "final" THEN EmitThen("ended") ELSE pc' = Unwound /\ UNCHANGED ret
        /\ code' = IF Unwound = "done" THEN 1 ELSE code
    BY DEF Interrupt, runVars
  <1> HIDE DEF Unwound
  <1> QED
    BY <1>1, <1>2

(***************************************************************************)
(* Each part of the invariant is kept.                                     *)
(***************************************************************************)

LEMMA TypedStep ==
  ASSUME SliceTyped, UnderWay, FramesCounted, [Next]_vars
  PROVE  SliceTyped'
  <1> USE DEF Places, Returns, None
  <1>1. CASE Load
    BY <1>1 DEF Load, Exit, runVars, SliceTyped
  <1>2. CASE Observe
    BY <1>2 DEF Observe, Exit, runVars, SliceTyped
  <1>3. CASE Build
    <2>1. NoCounts \in Counts /\ NewResult.verdict \in Verdicts
      BY DEF NoCounts, Counts, NewResult, Verdicts
    <2> QED
      BY <1>3, <2>1, BuildDoes DEF SliceTyped
  <1>4. CASE SetupSource
    BY <1>4 DEF SetupSource, EmitThen, SliceTyped, Openable
  <1>5. CASE SetupStage
    BY <1>5 DEF SetupStage, runVars, SliceTyped, Openable
  <1>6. CASE SetupSink
    BY <1>6 DEF SetupSink, runVars, SliceTyped, Openable
  <1>7. CASE Loop
    BY <1>7 DEF Loop, EmitThen, runVars, SliceTyped
  <1>8. CASE ReadGood \/ ReadBad
    <2>1. PICK ok : Read(ok)
      BY <1>8 DEF ReadGood, ReadBad
    <2> QED
      BY <2>1, ReadDoes DEF SliceTyped
  <1>9. CASE ExecuteStage
    BY <1>9, ExecuteStageDoes DEF SliceTyped
  <1>10. CASE Executed
    BY <1>10, ExecutedDoes DEF SliceTyped, EmitThen
  <1>11. CASE Handle
    BY <1>11, HandleDoes DEF SliceTyped
  <1>12. CASE Unsink
    BY <1>12 DEF Unsink, runVars, SliceTyped
  <1>13. CASE Unstage
    BY <1>13 DEF Unstage, SliceTyped
  <1>14. CASE Unsource
    BY <1>14 DEF Unsource, EmitThen, SliceTyped
  <1>15. CASE Emit
    BY <1>15 DEF Emit, runVars, SliceTyped
  <1>16. CASE EmitErrors
    BY <1>16 DEF EmitErrors, runVars, SliceTyped
  <1>17. CASE Ended
    BY <1>17 DEF Ended, runVars, SliceTyped
  <1>18. CASE CloseAll
    BY <1>18 DEF CloseAll, Close, Exit, runVars, SliceTyped
  <1>19. CASE Interrupt
    BY <1>19, InterruptDoes DEF SliceTyped, EmitThen
  <1>20. CASE WriteLog \/ Serve \/ UNCHANGED vars
    BY <1>20 DEF WriteLog, Serve, vars, mainVars, runVars, SliceTyped
  <1> QED
    BY <1>1, <1>2, <1>3, <1>4, <1>5, <1>6, <1>7, <1>8, <1>9, <1>10, <1>11, <1>12, <1>13, <1>14,
       <1>15, <1>16, <1>17, <1>18, <1>19, <1>20 DEF Next, Main

LEMMA FramesStep ==
  ASSUME SliceTyped, UnderWay, FramesCounted, [Next]_vars
  PROVE  FramesCounted'
  <1> USE DEF SliceTyped, Returns
  <1>1. CASE Load
    BY <1>1 DEF Load, Exit, runVars, FramesCounted
  <1>2. CASE Observe
    BY <1>2 DEF Observe, Exit, runVars, FramesCounted
  <1>3. CASE Build
    BY <1>3, BuildDoes DEF FramesCounted, NoCounts
  <1>4. CASE SetupSource
    BY <1>4 DEF SetupSource, EmitThen, FramesCounted
  <1>5. CASE SetupStage
    BY <1>5 DEF SetupStage, runVars, FramesCounted
  <1>6. CASE SetupSink
    BY <1>6 DEF SetupSink, runVars, FramesCounted
  <1>7. CASE Loop
    BY <1>7 DEF Loop, EmitThen, runVars, FramesCounted
  <1>8. CASE ReadGood \/ ReadBad
    <2>1. PICK ok : Read(ok)
      BY <1>8 DEF ReadGood, ReadBad
    <2> QED
      BY <2>1, ReadDoes DEF FramesCounted, Counts
  <1>9. CASE ExecuteStage
    BY <1>9, ExecuteStageDoes DEF FramesCounted
  <1>10. CASE Executed
    BY <1>10, ExecutedDoes DEF FramesCounted, EmitThen
  <1>11. CASE Handle
    BY <1>11, HandleDoes DEF FramesCounted
  <1>12. CASE Unsink \/ Unstage \/ Unsource
    BY <1>12 DEF Unsink, Unstage, Unsource, EmitThen, runVars, FramesCounted
  <1>13. CASE Emit \/ EmitErrors
    BY <1>13 DEF Emit, EmitErrors, runVars, FramesCounted
  <1>14. CASE Ended
    BY <1>14 DEF Ended, runVars, FramesCounted
  <1>15. CASE CloseAll
    BY <1>15 DEF CloseAll, Close, Exit, runVars, FramesCounted
  <1>16. CASE Interrupt
    BY <1>16, InterruptDoes DEF FramesCounted, EmitThen
  <1>17. CASE WriteLog \/ Serve \/ UNCHANGED vars
    BY <1>17 DEF WriteLog, Serve, vars, mainVars, runVars, FramesCounted
  <1> QED
    BY <1>1, <1>2, <1>3, <1>4, <1>5, <1>6, <1>7, <1>8, <1>9, <1>10, <1>11, <1>12, <1>13, <1>14,
       <1>15, <1>16, <1>17 DEF Next, Main

(* Both kinds of application have a list of pipelines.                     *)
LEMMA PipelinesList ==
  ASSUME app \in Apps
  PROVE  Len(Pipelines) \in Nat /\ DOMAIN Pipelines = 1 .. Len(Pipelines)
         /\ (app.mode # "cli" => Pipelines = app.pipelines)
  <1>1. CASE app.mode = "cli"
    BY <1>1 DEF Pipelines
  <1>2. CASE app.mode # "cli"
    <2>1. IsSequence(Pipelines) /\ Pipelines = app.pipelines
      BY <1>2, SliceAssumption DEF SliceAssumption, Pipelines
    <2> QED
      BY <2>1, LenProperties DEF IsSequence
  <1> QED
    BY <1>1, <1>2

LEMMA UnderWayStep ==
  ASSUME SliceTyped, UnderWay, OutcomesInOrder, [Next]_vars
  PROVE  UnderWay'
  <1> USE DEF SliceTyped, Returns, None, Under, Place, Running
  <1>a. app' = app /\ Pipelines' = Pipelines /\ (i' = i => (Valid(P))' = Valid(P))
    <2>1. app' = app
      BY Zenon DEF Next, Main, Load, Observe, Build, SetupSource, SetupStage, SetupSink, Loop, ReadGood, ReadBad, Read,
           ExecuteStage, Executed, Handle, Unsink, Unstage, Unsource, Emit, EmitErrors, Ended, CloseAll,
           Interrupt, WriteLog, Serve, vars
    <2> QED
      BY <2>1 DEF Pipelines, P
  <1>1. CASE Load
    BY <1>1 DEF Load, Exit, runVars, UnderWay
  <1>2. CASE Observe
    <2>1. i = 1 /\ i' = i /\ (pc' = "build" => Pipelines # <<>>)
      BY <1>2 DEF Observe, Exit, OutcomesInOrder
    <2>2. pc' = "build" => i \in DOMAIN Pipelines
      BY <2>1, PipelinesList
    <2> QED
      BY <1>2, <1>a, <2>1, <2>2 DEF Observe, Exit, runVars, UnderWay
  <1>3. CASE Build
    BY <1>3, <1>a, BuildDoes DEF UnderWay
  <1>4. CASE SetupSource
    BY <1>4, <1>a DEF SetupSource, EmitThen, UnderWay
  <1>5. CASE SetupStage
    BY <1>5, <1>a DEF SetupStage, runVars, UnderWay
  <1>6. CASE SetupSink
    BY <1>6, <1>a DEF SetupSink, runVars, UnderWay
  <1>7. CASE Loop
    BY <1>7, <1>a DEF Loop, EmitThen, runVars, UnderWay
  <1>8. CASE ReadGood \/ ReadBad
    <2>1. PICK ok : Read(ok)
      BY <1>8 DEF ReadGood, ReadBad
    <2> QED
      BY <2>1, <1>a, ReadDoes DEF UnderWay
  <1>9. CASE ExecuteStage
    BY <1>9, <1>a, ExecuteStageDoes DEF UnderWay
  <1>10. CASE Executed
    BY <1>10, <1>a DEF Executed, UnderWay, EmitThen
  <1>11. CASE Handle
    BY <1>11, <1>a, HandleDoes DEF UnderWay
  <1>12. CASE Unsink \/ Unstage \/ Unsource
    BY <1>12, <1>a DEF Unsink, Unstage, Unsource, EmitThen, runVars, UnderWay
  <1>13. CASE Emit \/ EmitErrors
    BY <1>13, <1>a DEF Emit, EmitErrors, runVars, UnderWay
  <1>14. CASE Ended
    <2>1. i \in DOMAIN Pipelines /\ (i < Len(Pipelines) => i + 1 \in DOMAIN Pipelines)
      BY <1>14, PipelinesList DEF Ended, UnderWay
    <2> QED
      BY <1>14, <1>a, <2>1 DEF Ended, runVars, UnderWay
  <1>15. CASE CloseAll
    BY <1>15 DEF CloseAll, Close, Exit, runVars, UnderWay
  <1>16. CASE Interrupt
    BY <1>16, <1>a, InterruptDoes DEF UnderWay, EmitThen
  <1>17. CASE WriteLog \/ Serve \/ UNCHANGED vars
    BY <1>17, <1>a DEF WriteLog, Serve, vars, mainVars, runVars, UnderWay
  <1> QED
    BY <1>1, <1>2, <1>3, <1>4, <1>5, <1>6, <1>7, <1>8, <1>9, <1>10, <1>11, <1>12, <1>13, <1>14,
       <1>15, <1>16, <1>17 DEF Next, Main

LEMMA OpenStep ==
  ASSUME SliceTyped, UnderWay, SetUp, TakenDown, [Next]_vars
  PROVE  SetUp' /\ TakenDown'
  <1> USE DEF SliceTyped, Returns, None, Place, SetUp, TakenDown, OpenSinks, OpenStages, Source
  <1>1. CASE Load
    BY <1>1 DEF Load, Exit, runVars
  <1>2. CASE Observe
    BY <1>2 DEF Observe, Exit, runVars
  <1>3. CASE Build
    BY <1>3, BuildDoes DEF NoCounts
  <1>4. CASE SetupSource
    BY <1>4 DEF SetupSource, EmitThen
  <1>5. CASE SetupStage
    BY <1>5 DEF SetupStage, runVars, UndoStages
  <1>6. CASE SetupSink
    BY <1>6 DEF SetupSink, runVars
  <1>7. CASE Loop
    BY <1>7 DEF Loop, EmitThen, runVars
  <1>8. CASE ReadGood \/ ReadBad
    <2>1. PICK ok : Read(ok)
      BY <1>8 DEF ReadGood, ReadBad
    <2> QED
      BY <2>1, ReadDoes
  <1>9. CASE ExecuteStage
    BY <1>9, ExecuteStageDoes
  <1>10. CASE Executed
    BY <1>10 DEF Executed, EmitThen
  <1>11. CASE Handle
    BY <1>11, HandleDoes
  <1>12. CASE Unsink
    BY <1>12 DEF Unsink, runVars
  <1>13. CASE Unstage
    BY <1>13 DEF Unstage, Openable
  <1>14. CASE Unsource
    BY <1>14 DEF Unsource, EmitThen
  <1>15. CASE Emit \/ EmitErrors
    BY <1>15 DEF Emit, EmitErrors, runVars
  <1>16. CASE Ended
    BY <1>16 DEF Ended, runVars
  <1>17. CASE CloseAll
    BY <1>17 DEF CloseAll, Close, Exit, runVars
  <1>18. CASE Interrupt
    BY <1>18, InterruptDoes DEF EmitThen
  <1>19. CASE WriteLog \/ Serve \/ UNCHANGED vars
    BY <1>19 DEF WriteLog, Serve, vars, mainVars, runVars
  <1> QED
    BY <1>1, <1>2, <1>3, <1>4, <1>5, <1>6, <1>7, <1>8, <1>9, <1>10, <1>11, <1>12, <1>13, <1>14,
       <1>15, <1>16, <1>17, <1>18, <1>19 DEF Next, Main

(* Which parts of the state an action that is not a snapshot leaves alone. *)
LEMMA OfOneApp ==
  ASSUME [Next]_vars
  PROVE  app' = app /\ Obs' = Obs /\ Observers' = Observers /\ Pipelines' = Pipelines
  <1>1. app' = app
    BY Zenon DEF Next, Main, Load, Observe, Build, SetupSource, SetupStage, SetupSink, Loop, ReadGood,
       ReadBad, Read, ExecuteStage, Executed, Handle, Unsink, Unstage, Unsource, Emit, EmitErrors, Ended,
       CloseAll, Interrupt, WriteLog, Serve, vars
  <1> QED
    BY <1>1 DEF Obs, Observers, Pipelines

LEMMA GaugesKept ==
  ASSUME [Next]_vars
  PROVE  Emit \/ EmitErrors \/ gauges' = gauges
  BY Zenon DEF Next, Main, Load, Observe, Build, SetupSource, SetupStage, SetupSink, Loop, ReadGood,
     ReadBad, Read, ExecuteStage, Executed, Handle, Unsink, Unstage, Unsource, Ended, CloseAll,
     Interrupt, WriteLog, Serve, vars, obsVars

(* The place, the pipeline and the counters without a snapshot.            *)
LEMMA QuietStep ==
  ASSUME SliceTyped, UnderWay, FramesCounted, [Next]_vars, ~Emit, ~EmitErrors
  PROVE  /\ pc' = "emit2" => pc = "emit2" /\ ret' = ret /\ i' = i /\ n' = n
         /\ pc' = "ended" /\ ret' = "ended" /\ Observers # {} => pc = "ended" /\ ret = "ended" /\ i' = i /\ n' = n
         /\ i' >= i
         /\ pc' \in {"load", "observe", "build"} =>
               \/ pc = "ended" /\ i' > i
               \/ pc \in {"load", "observe", "build"} /\ i' = i
         /\ pc # "build" => (i' = i /\ n'.read >= n.read) \/ (pc = "ended" /\ i' > i)
         /\ pc = "build" => i' = i
         /\ pc = "done" => pc' = "done"
         /\ pc = "load" => pc' \in {"load", "done"} \/ (Load /\ pc' = "observe")
         /\ pc = "emit2" => pc' = "emit2"
  <1>n. n.read \in Nat
    BY DEF SliceTyped, Counts
  <1> USE <1>n DEF SliceTyped, Returns, None
  <1>1. CASE Load
    BY <1>1 DEF Load, Exit, runVars
  <1>2. CASE Observe
    BY <1>2 DEF Observe, Exit, runVars
  <1>3. CASE Build
    BY <1>3, BuildDoes
  <1>4. CASE SetupSource
    BY <1>4 DEF SetupSource, EmitThen
  <1>5. CASE SetupStage
    BY <1>5 DEF SetupStage, runVars
  <1>6. CASE SetupSink
    BY <1>6 DEF SetupSink, runVars
  <1>7. CASE Loop
    BY <1>7 DEF Loop, EmitThen, runVars
  <1>8. CASE ReadGood \/ ReadBad
    <2>1. PICK ok : Read(ok)
      BY <1>8 DEF ReadGood, ReadBad
    <2> QED
      BY <2>1, ReadDoes
  <1>9. CASE ExecuteStage
    BY <1>9, ExecuteStageDoes
  <1>10. CASE Executed
    BY <1>10, ExecutedDoes DEF EmitThen
  <1>11. CASE Handle
    BY <1>11, HandleDoes
  <1>12. CASE Unsink \/ Unstage \/ Unsource
    BY <1>12 DEF Unsink, Unstage, Unsource, EmitThen, runVars
  <1>13. CASE Ended
    BY <1>13 DEF Ended, runVars
  <1>14. CASE CloseAll
    BY <1>14 DEF CloseAll, Close, Exit, runVars
  <1>15. CASE Interrupt
    BY <1>15, InterruptDoes DEF EmitThen
  <1>16. CASE WriteLog \/ Serve \/ UNCHANGED vars
    BY <1>16 DEF WriteLog, Serve, vars, mainVars, runVars
  <1> QED
    BY <1>1, <1>2, <1>3, <1>4, <1>5, <1>6, <1>7, <1>8, <1>9, <1>10, <1>11, <1>12, <1>13, <1>14,
       <1>15, <1>16 DEF Next, Main

(* A new series is taken when there is room.                               *)
LEMMA AdmitTakes ==
  ASSUME NEW series, NEW value \in Nat, series \in [DOMAIN series -> Nat], IsFiniteSet(DOMAIN series),
         Obs.cap \in Nat \cup {NoPort}, Obs.cap \in Nat => Cardinality(DOMAIN series) <= Obs.cap
  PROVE  LET t == Admit(series, value)
         IN  /\ t \in [DOMAIN t -> Nat] /\ IsFiniteSet(DOMAIN t)
             /\ \/ /\ DOMAIN t = DOMAIN series \cup {i} /\ t[i] = value
                   /\ \A s \in DOMAIN series \ {i} : t[s] = series[s]
                \/ /\ t = series /\ i \notin DOMAIN series /\ Obs.cap # NoPort
                   /\ Cardinality(DOMAIN series) = Obs.cap
             /\ Obs.cap \in Nat => Cardinality(DOMAIN t) <= Obs.cap
  <1> DEFINE room == i \in DOMAIN series \/ Obs.cap = NoPort \/ Cardinality(DOMAIN series) < Obs.cap
             more == [s \in DOMAIN series \cup {i} |-> IF s = i THEN value ELSE series[s]]
  <1>1. Cardinality(DOMAIN series) \in Nat
    BY FS_CardinalityType
  <1>2. CASE room
    <2>1. Admit(series, value) = more
      BY <1>2 DEF Admit
    <2>2. more \in [DOMAIN more -> Nat] /\ DOMAIN more = DOMAIN series \cup {i} /\ more[i] = value
      OBVIOUS
    <2>3. \A s \in DOMAIN series \ {i} : more[s] = series[s]
      OBVIOUS
    <2>4. IsFiniteSet(DOMAIN more)
      BY <2>2, FS_AddElement
    <2>5. Obs.cap \in Nat => Cardinality(DOMAIN more) <= Obs.cap
      <3>1. SUFFICES ASSUME Obs.cap \in Nat PROVE Cardinality(DOMAIN more) <= Obs.cap
        OBVIOUS
      <3>2. CASE i \in DOMAIN series
        <4>1. DOMAIN more = DOMAIN series
          BY <3>2
        <4> QED
          BY <3>1, <4>1
      <3>3. CASE i \notin DOMAIN series
        <4>1. Cardinality(DOMAIN series) < Obs.cap
          BY <1>2, <3>1, <3>3 DEF NoPort
        <4>2. Cardinality(DOMAIN more) = Cardinality(DOMAIN series) + 1
          BY <2>2, <3>3, FS_AddElement
        <4> QED
          BY <1>1, <3>1, <4>1, <4>2
      <3> QED
        BY <3>2, <3>3
    <2> HIDE DEF more
    <2> QED
      BY <2>1, <2>2, <2>3, <2>4, <2>5
  <1>3. CASE ~room
    <2>1. Admit(series, value) = series
      BY <1>3 DEF Admit
    <2>2. i \notin DOMAIN series /\ Obs.cap # NoPort /\ Cardinality(DOMAIN series) = Obs.cap
      BY <1>1, <1>3
    <2> QED
      BY <2>1, <2>2
  <1> QED
    BY <1>2, <1>3

(* A limit on the series that got through reading the file is positive, or *)
(* there is none.                                                          *)
LEMMA CapRead ==
  ASSUME app \in Apps, Load, pc' = "observe"
  PROVE  Obs.cap \in Nat \cup {NoPort}
  <1>1. \A c, t : MergeObservability(c, t).cap = IF c.cap # NoPort THEN c.cap ELSE t.cap
    BY DEF MergeObservability
  <1>2. /\ app.cli.cap \in (Nat \ {0}) \cup {NoPort}
        /\ app.toml.cap \in Nat \cup {NoPort, Bad}
    BY SliceAssumption DEF SliceAssumption
  <1>3. CASE app.mode = "cli"
    BY <1>1, <1>2, <1>3 DEF Obs, ObservabilityOff, NoPort
  <1>4. CASE app.mode # "cli"
    <2>1. Parsed(app.pipelines, app.toml)
      BY <1>4 DEF Load, Exit
    <2>2. app.toml.cap # Bad
      BY <2>1 DEF Parsed, ParsedObservability
    <2> QED
      BY <1>1, <1>2, <1>4, <2>2 DEF Obs
  <1> QED
    BY <1>3, <1>4

GaugesSound ==
  GaugesTyped /\ GaugesOfRuns /\ GaugesPaired /\ GaugesCapped /\ LastGauge /\ ScrapeSane

\* A step between snapshots leaves the gauges true of the cameras.
LEMMA GaugesQuiet ==
  ASSUME SliceTyped, UnderWay, FramesCounted, GaugesSound, [Next]_vars, ~Emit, ~EmitErrors
  PROVE  GaugesSound'
  <1>1. gauges' = gauges /\ Obs' = Obs /\ Observers' = Observers
    BY GaugesKept, OfOneApp
  <1>2. i \in Nat \ {0} /\ i' \in Nat \ {0} /\ n.read \in Nat /\ n'.read \in Nat
    BY TypedStep DEF SliceTyped, Counts
  <1>3. GaugesTyped'
    BY <1>1 DEF GaugesSound, GaugesTyped
  <1>4. \A s \in DOMAIN gauges.frames : s \in Nat /\ s <= i /\ gauges.frames[s] \in Nat
    BY DEF GaugesSound, GaugesTyped, GaugesOfRuns
  <1>5. GaugesOfRuns'
    <2>1. \A s \in DOMAIN gauges'.frames : s \in Nat /\ s <= i'
      BY <1>1, <1>2, <1>4, QuietStep
    <2>2. i' \in DOMAIN gauges.frames => gauges.frames[i'] <= n'.read
      <3>1. CASE pc = "build"
        BY <3>1, QuietStep DEF GaugesSound, GaugesOfRuns
      <3>2. CASE pc # "build"
        <4>1. SUFFICES ASSUME i' \in DOMAIN gauges.frames PROVE gauges.frames[i'] <= n'.read
          OBVIOUS
        <4>2. i' = i /\ n'.read >= n.read
          BY <1>2, <1>4, <3>2, <4>1, QuietStep
        <4>3. gauges.frames[i] \in Nat /\ gauges.frames[i] <= n.read
          BY <1>4, <4>1, <4>2 DEF GaugesSound, GaugesOfRuns
        <4> QED
          BY <1>2, <4>2, <4>3
      <3> QED
        BY <3>1, <3>2
    <2>3. pc' \in {"load", "observe", "build"} => i' \notin DOMAIN gauges.frames
      BY <1>2, <1>4, QuietStep DEF GaugesSound, GaugesOfRuns
    <2> QED
      BY <1>1, <2>1, <2>2, <2>3 DEF GaugesOfRuns
  <1>6. GaugesPaired'
    <2>1. CASE pc = "emit2"
      BY <1>1, <2>1, QuietStep DEF GaugesSound, GaugesPaired
    <2>2. CASE pc # "emit2"
      BY <1>1, <2>2, QuietStep DEF GaugesSound, GaugesPaired
    <2> QED
      BY <2>1, <2>2
  <1>7. GaugesCapped'
    <2>1. pc' \notin {"load", "done"} => Obs.cap \in Nat \cup {NoPort}
      <3>1. CASE pc = "load"
        BY <3>1, QuietStep, CapRead DEF SliceTyped
      <3>2. CASE pc # "load"
        BY <3>2, QuietStep DEF GaugesSound, GaugesCapped
      <3> QED
        BY <3>1, <3>2
    <2> QED
      BY <1>1, <2>1 DEF GaugesSound, GaugesCapped
  <1>8. LastGauge'
    <2>1. SUFFICES ASSUME pc' = "ended", ret' = "ended", "metrics" \in Observers
                   PROVE  LastGauge'
      BY <1>1 DEF LastGauge
    <2>2. pc = "ended" /\ ret = "ended" /\ i' = i /\ n' = n
      BY <2>1, QuietStep
    <2> QED
      BY <1>1, <2>1, <2>2 DEF GaugesSound, LastGauge
  <1>9. ScrapeSane'
    BY <1>1 DEF GaugesSound, ScrapeSane
  <1> QED
    BY <1>3, <1>5, <1>6, <1>7, <1>8, <1>9 DEF GaugesSound

\* The first series of a snapshot.
LEMMA GaugesEmit ==
  ASSUME SliceTyped, FramesCounted, GaugesSound, Emit
  PROVE  GaugesSound'
  <1>1. /\ pc = "emit" /\ UNCHANGED <<app, ret, i, n>>
        /\ pc' \in {"emit2", ret} /\ ret \notin {"load", "observe", "build", "emit2"}
    BY DEF Emit, runVars, SliceTyped, Returns, None
  <1>2. Obs' = Obs /\ Observers' = Observers
    BY <1>1 DEF Obs, Observers
  <1>3. i \in Nat \ {0} /\ n.read \in Nat
    BY DEF SliceTyped, Counts
  <1> DEFINE fs == gauges.frames
             es == gauges.errors
  <1>4. /\ fs \in [DOMAIN fs -> Nat] /\ IsFiniteSet(DOMAIN fs) /\ es \in [DOMAIN es -> Nat]
        /\ gauges = [frames |-> fs, errors |-> es] /\ DOMAIN es = DOMAIN fs
        /\ \A s \in DOMAIN fs : s \in Nat /\ s <= i
        /\ i \in DOMAIN fs => fs[i] <= n.read
        /\ Obs.cap \in Nat \cup {NoPort}
        /\ Obs.cap \in Nat => Cardinality(DOMAIN fs) <= Obs.cap
    BY <1>1 DEF GaugesSound, GaugesTyped, GaugesOfRuns, GaugesPaired, GaugesCapped
  <1>5. \A s \in DOMAIN es : es[s] <= fs[s]
    BY DEF GaugesSound, ScrapeSane
  <1>6. \/ pc' = "emit2" /\ gauges' = FirstGauge(gauges)
        \/ pc' = ret /\ gauges' = gauges /\ "metrics" \notin Observers
    BY DEF Emit, Reached
  <1>7. CASE pc' = ret /\ gauges' = gauges /\ "metrics" \notin Observers
    BY <1>1, <1>2, <1>4, <1>5, <1>7
       DEF GaugesSound, GaugesTyped, GaugesOfRuns, GaugesPaired, GaugesCapped, LastGauge, ScrapeSane
  <1>8. CASE pc' = "emit2" /\ gauges' = FirstGauge(gauges)
    <2> DEFINE t == Admit(fs, n.read)
    <2>1. gauges' = [frames |-> t, errors |-> es]
      BY <1>4, <1>8 DEF FirstGauge
    <2>2. /\ t \in [DOMAIN t -> Nat] /\ IsFiniteSet(DOMAIN t)
          /\ \/ /\ DOMAIN t = DOMAIN fs \cup {i} /\ t[i] = n.read
                /\ \A s \in DOMAIN fs \ {i} : t[s] = fs[s]
             \/ /\ t = fs /\ i \notin DOMAIN fs /\ Obs.cap # NoPort
                /\ Cardinality(DOMAIN fs) = Obs.cap
          /\ Obs.cap \in Nat => Cardinality(DOMAIN t) <= Obs.cap
      <3> HIDE DEF fs
      <3> QED
        BY <1>3, <1>4, AdmitTakes
    <2> HIDE DEF t, fs, es
    <2>3. gauges'.frames = t /\ gauges'.errors = es
      BY <2>1
    <2>4. GaugesTyped'
      BY <1>4, <2>1, <2>2, <2>3 DEF GaugesTyped
    <2>5. GaugesOfRuns'
      BY <1>1, <1>3, <1>4, <1>8, <2>2, <2>3 DEF GaugesOfRuns
    <2>6. GaugesPaired'
      BY <1>1, <1>2, <1>4, <1>8, <2>2, <2>3 DEF GaugesPaired
    <2>7. GaugesCapped'
      BY <1>2, <1>4, <2>2, <2>3 DEF GaugesCapped
    <2>8. LastGauge'
      BY <1>8 DEF LastGauge
    <2>9. ScrapeSane'
      <3>1. ASSUME NEW s \in DOMAIN es PROVE s \in DOMAIN t /\ es[s] <= t[s]
        <4>1. s \in DOMAIN fs /\ es[s] <= fs[s] /\ es[s] \in Nat /\ fs[s] \in Nat
          BY <1>4, <1>5
        <4>2. CASE s = i
          BY <1>3, <1>4, <2>2, <4>1, <4>2
        <4>3. CASE s # i
          BY <2>2, <4>1, <4>3
        <4> QED
          BY <4>2, <4>3
      <3> QED
        BY <2>3, <3>1 DEF ScrapeSane
    <2> QED
      BY <2>4, <2>5, <2>6, <2>7, <2>8, <2>9 DEF GaugesSound
  <1> QED
    BY <1>6, <1>7, <1>8

\* The second.
LEMMA GaugesEmitErrors ==
  ASSUME SliceTyped, FramesCounted, GaugesSound, EmitErrors
  PROVE  GaugesSound'
  <1>1. /\ pc = "emit2" /\ UNCHANGED <<app, ret, i, n>>
        /\ pc' = ret /\ ret \notin {"load", "observe", "build", "emit2"}
    BY DEF EmitErrors, runVars, SliceTyped, Returns, None
  <1>2. Obs' = Obs /\ Observers' = Observers
    BY <1>1 DEF Obs, Observers
  <1>3. i \in Nat \ {0} /\ n.read \in Nat /\ n.errors \in Nat /\ n.errors <= n.read
    BY DEF SliceTyped, Counts, FramesCounted
  <1> DEFINE fs == gauges.frames
             es == gauges.errors
             t == Admit(es, n.errors)
  <1>4. /\ fs \in [DOMAIN fs -> Nat] /\ IsFiniteSet(DOMAIN fs) /\ es \in [DOMAIN es -> Nat]
        /\ gauges = [frames |-> fs, errors |-> es]
        /\ \A s \in DOMAIN fs : s \in Nat /\ s <= i
        /\ i \in DOMAIN fs => fs[i] <= n.read
        /\ Obs.cap \in Nat \cup {NoPort}
        /\ Obs.cap \in Nat => Cardinality(DOMAIN fs) <= Obs.cap
    BY <1>1 DEF GaugesSound, GaugesTyped, GaugesOfRuns, GaugesCapped
  <1>5. \A s \in DOMAIN es : es[s] <= fs[s]
    BY DEF GaugesSound, ScrapeSane
  <1>6. IF i \in DOMAIN fs
        THEN fs[i] = n.read /\ DOMAIN fs = DOMAIN es \cup {i}
        ELSE DOMAIN fs = DOMAIN es /\ Obs.cap # NoPort /\ Cardinality(DOMAIN fs) = Obs.cap
    BY <1>1 DEF GaugesSound, GaugesPaired
  <1>7. gauges' = [frames |-> fs, errors |-> t]
    BY <1>4 DEF EmitErrors
  <1> HIDE DEF fs, es, t
  <1>8. gauges'.frames = fs /\ gauges'.errors = t
    BY <1>7
  <1>9. IsFiniteSet(DOMAIN es) /\ Cardinality(DOMAIN es) <= Cardinality(DOMAIN fs)
        /\ Cardinality(DOMAIN fs) \in Nat /\ Cardinality(DOMAIN es) \in Nat
    <2>1. DOMAIN es \subseteq DOMAIN fs
      BY <1>6
    <2> QED
      BY <1>4, <2>1, FS_Subset, FS_CardinalityType
  <1>10. /\ t \in [DOMAIN t -> Nat] /\ IsFiniteSet(DOMAIN t)
         /\ \/ /\ DOMAIN t = DOMAIN es \cup {i} /\ t[i] = n.errors
               /\ \A s \in DOMAIN es \ {i} : t[s] = es[s]
            \/ /\ t = es /\ i \notin DOMAIN es /\ Obs.cap # NoPort
               /\ Cardinality(DOMAIN es) = Obs.cap
    <2>1. Obs.cap \in Nat => Cardinality(DOMAIN es) <= Obs.cap
      BY <1>4, <1>9
    <2>2. es \in [DOMAIN es -> Nat] /\ Obs.cap \in Nat \cup {NoPort}
      BY <1>4
    <2> USE DEF t
    <2> QED
      BY <1>3, <1>9, <2>1, <2>2, AdmitTakes
  <1>11. DOMAIN t = DOMAIN fs /\ (i \in DOMAIN fs => t[i] = n.errors)
         /\ \A s \in DOMAIN es \ {i} : t[s] = es[s]
    <2>1. CASE i \in DOMAIN es
      BY <1>6, <1>10, <2>1
    <2>2. CASE i \notin DOMAIN es /\ i \in DOMAIN fs
      <3>1. Cardinality(DOMAIN fs) = Cardinality(DOMAIN es) + 1
        <4>1. DOMAIN fs = DOMAIN es \cup {i}
          BY <1>6, <2>2
        <4> QED
          BY <1>9, <2>2, <4>1, FS_AddElement
      <3>2. Cardinality(DOMAIN es) # Obs.cap \/ Obs.cap = NoPort
        BY <1>4, <1>9, <3>1
      <3> QED
        BY <1>6, <1>10, <2>2, <3>2
    <2>3. CASE i \notin DOMAIN fs
      <3>1. DOMAIN fs = DOMAIN es /\ Obs.cap # NoPort /\ Cardinality(DOMAIN es) = Obs.cap
        BY <1>6, <2>3
      <3>2. t = es
        BY <1>9, <2>3, <3>1 DEF t, Admit
      <3> QED
        BY <2>3, <3>1, <3>2
    <2> QED
      BY <2>1, <2>2, <2>3
  <1>12. GaugesTyped'
    BY <1>4, <1>7, <1>8, <1>10 DEF GaugesTyped
  <1>13. GaugesOfRuns'
    BY <1>1, <1>4, <1>8 DEF GaugesOfRuns
  <1>14. GaugesPaired'
    BY <1>1, <1>8, <1>11 DEF GaugesPaired
  <1>15. GaugesCapped'
    BY <1>2, <1>4, <1>8 DEF GaugesCapped
  <1>16. LastGauge'
    BY <1>1, <1>2, <1>6, <1>8, <1>11 DEF LastGauge
  <1>17. ScrapeSane'
    <2>1. ASSUME NEW s \in DOMAIN t PROVE s \in DOMAIN fs /\ t[s] <= fs[s]
      <3>1. s \in DOMAIN fs
        BY <1>11
      <3>2. CASE s = i
        BY <1>3, <1>6, <1>11, <3>1, <3>2
      <3>3. CASE s # i
        <4>1. s \in DOMAIN es
          BY <1>6, <3>1, <3>3
        <4> QED
          BY <1>5, <1>11, <3>1, <3>3, <4>1
      <3> QED
        BY <3>2, <3>3
    <2> QED
      BY <1>8, <2>1 DEF ScrapeSane
  <1> QED
    BY <1>12, <1>13, <1>14, <1>15, <1>16, <1>17 DEF GaugesSound

LEMMA GaugesStep ==
  ASSUME SliceTyped, UnderWay, FramesCounted, GaugesSound, [Next]_vars
  PROVE  GaugesSound'
  BY GaugesQuiet, GaugesEmit, GaugesEmitErrors

(***************************************************************************)
(* The log.                                                                *)
(***************************************************************************)

LEMMA LogKept ==
  ASSUME [Next]_vars
  PROVE  Observe \/ Emit \/ CloseAll \/ WriteLog \/ log' = log
  BY Zenon DEF Next, Main, Load, Build, SetupSource, SetupStage, SetupSink, Loop, ReadGood,
     ReadBad, Read, ExecuteStage, Executed, Handle, Unsink, Unstage, Unsource, EmitErrors, Ended,
     Interrupt, Serve, vars, obsVars

\* A run that is over has had its last snapshot, if anyone observes.
LEMMA BetweenStep ==
  ASSUME SliceTyped, UnderWay, FramesCounted, [Next]_vars, ~Emit
  PROVE  /\ Between' => (Between /\ n' = n) \/ Observers = {}
         /\ pc = "done" => pc' = "done"
  <1> USE DEF SliceTyped, Returns, None, Between
  <1>1. CASE Load
    BY <1>1 DEF Load, Exit, runVars
  <1>2. CASE Observe
    BY <1>2 DEF Observe, Exit, runVars
  <1>3. CASE Build
    BY <1>3, BuildDoes
  <1>4. CASE SetupSource
    BY <1>4 DEF SetupSource, EmitThen
  <1>5. CASE SetupStage
    BY <1>5 DEF SetupStage, runVars
  <1>6. CASE SetupSink
    BY <1>6 DEF SetupSink, runVars
  <1>7. CASE Loop
    BY <1>7 DEF Loop, EmitThen, runVars
  <1>8. CASE ReadGood \/ ReadBad
    <2>1. PICK ok : Read(ok)
      BY <1>8 DEF ReadGood, ReadBad
    <2> QED
      BY <2>1, ReadDoes
  <1>9. CASE ExecuteStage
    BY <1>9, ExecuteStageDoes
  <1>10. CASE Executed
    BY <1>10, ExecutedDoes DEF EmitThen
  <1>11. CASE Handle
    BY <1>11, HandleDoes
  <1>12. CASE Unsink \/ Unstage \/ Unsource
    BY <1>12 DEF Unsink, Unstage, Unsource, EmitThen, runVars
  <1>13. CASE EmitErrors
    BY <1>13 DEF EmitErrors, runVars
  <1>14. CASE Ended
    BY <1>14 DEF Ended, runVars
  <1>15. CASE CloseAll
    BY <1>15 DEF CloseAll, Close, Exit, runVars
  <1>16. CASE Interrupt
    BY <1>16, InterruptDoes DEF EmitThen
  <1>17. CASE WriteLog \/ Serve \/ UNCHANGED vars
    BY <1>17 DEF WriteLog, Serve, vars, mainVars, runVars
  <1> QED
    BY <1>1, <1>2, <1>3, <1>4, <1>5, <1>6, <1>7, <1>8, <1>9, <1>10, <1>11, <1>12, <1>13, <1>14,
       <1>15, <1>16, <1>17 DEF Next, Main

\* Writing a record moves it from the head of the queue to the end of the file.
LEMMA Written ==
  ASSUME NEW S, NEW q \in Seq(S), NEW f \in Seq(S), q # <<>>
  PROVE  LET f2 == Append(f, Head(q))
         IN  /\ Tail(q) \in Seq(S) /\ f2 \in Seq(S) /\ f2 # <<>>
             /\ IF Tail(q) # <<>> THEN Tail(q)[Len(Tail(q))] = q[Len(q)]
                ELSE f2[Len(f2)] = q[Len(q)]
  <1>1. /\ Len(q) \in Nat \ {0} /\ Head(q) = q[1] /\ Head(q) \in S
        /\ Tail(q) \in Seq(S) /\ Len(Tail(q)) = Len(q) - 1
        /\ \A j \in 1 .. Len(q) - 1 : Tail(q)[j] = q[j + 1]
    BY HeadTailProperties, EmptySeq, LenProperties
  <1>2. /\ Append(f, Head(q)) \in Seq(S) /\ Len(Append(f, Head(q))) = Len(f) + 1
        /\ Append(f, Head(q))[Len(f) + 1] = Head(q)
    BY <1>1, AppendProperties
  <1>3. Len(f) \in Nat
    BY LenProperties
  <1>4. Append(f, Head(q)) # <<>>
    BY <1>2, <1>3
  <1>5. CASE Tail(q) # <<>>
    <2>1. Len(Tail(q)) # 0
      BY <1>1, <1>5, EmptySeq
    <2>2. Tail(q)[Len(q) - 1] = q[Len(q)]
      BY <1>1, <2>1
    <2> QED
      BY <1>1, <1>2, <1>4, <1>5, <2>2
  <1>6. CASE Tail(q) = <<>>
    <2>1. Len(q) = 1
      <3> DEFINE t == Tail(q)
      <3>1. t = <<>> /\ t \in Seq(S) /\ Len(t) = Len(q) - 1 /\ Len(q) \in Nat
        BY <1>1, <1>6
      <3> HIDE DEF t
      <3> QED
        BY <3>1, EmptySeq
    <2> QED
      BY <1>1, <1>2, <1>4, <1>6, <2>1
  <1> QED
    BY <1>5, <1>6

LEMMA LogStep ==
  ASSUME SliceTyped, UnderWay, FramesCounted, LogTyped, LogLast, [Next]_vars
  PROVE  LogTyped' /\ LogLast'
  <1> DEFINE q == log.queue
             f == log.file
  <1>1. Observers' = Observers
    BY OfOneApp
  <1>2. /\ log = [state |-> log.state, queue |-> q, file |-> f, dropped |-> log.dropped]
        /\ q \in Seq(Records) /\ f \in Seq(Records) /\ log.dropped \in Nat
        /\ log.state = "closed" => pc = "done" /\ q = <<>>
        /\ "log" \notin Observers => q = <<>> /\ f = <<>>
    BY DEF LogTyped, LogLast
  <1>3. CASE log' = log /\ ~Emit
    <2>1. LogTyped'
      BY <1>3, BetweenStep DEF LogTyped
    <2>2. CASE Between' /\ Observers # {}
      BY <1>1, <1>3, <2>1, <2>2, BetweenStep DEF LogLast, LastRecord
    <2>3. CASE Observers = {}
      BY <1>1, <1>2, <1>3, <2>1, <2>3 DEF LogLast
    <2>4. CASE ~Between'
      BY <1>1, <1>2, <1>3, <2>1, <2>4 DEF LogLast
    <2> QED
      BY <2>1, <2>2, <2>3, <2>4
  <1>4. CASE Observe
    <2>1. /\ pc = "observe" /\ n' = n
          /\ log' = log \/ log' = [log EXCEPT !.state = "open"]
      BY <1>4 DEF Observe, runVars
    <2>2. /\ log' = [state |-> log'.state, queue |-> q, file |-> f, dropped |-> log.dropped]
          /\ log'.state \in {"open", log.state}
      BY <1>2, <2>1
    <2>3. log'.queue = q /\ log'.file = f /\ log'.dropped = log.dropped
      BY <2>2
    <2>4. LogTyped'
      BY <1>2, <2>1, <2>2, <2>3 DEF LogTyped
    <2>5. LogLast'
      BY <1>1, <2>1, <2>3 DEF LogLast, LastRecord, Between
    <2> QED
      BY <2>4, <2>5
  <1>5. CASE CloseAll
    <2>1. /\ pc \in {"close", "drain"} /\ n' = n
          /\ \/ log' = log
             \/ pc = "close" /\ log' = [log EXCEPT !.state = "closing"]
             \/ pc' = "done" /\ q = <<>> /\ log' = [log EXCEPT !.state = "closed"]
      BY <1>5 DEF CloseAll, Close, Exit, runVars
    <2>2. /\ log' = [state |-> log'.state, queue |-> q, file |-> f, dropped |-> log.dropped]
          /\ log'.state = "closed" => pc' = "done" /\ q = <<>>
      BY <1>2, <2>1
    <2>3. log'.queue = q /\ log'.file = f /\ log'.dropped = log.dropped
      BY <2>2
    <2>4. LogTyped'
      BY <1>2, <2>2, <2>3 DEF LogTyped
    <2>5. LogLast'
      BY <1>1, <2>1, <2>3 DEF LogLast, LastRecord, Between
    <2> QED
      BY <2>4, <2>5
  <1>6. CASE WriteLog
    <2> DEFINE f2 == Append(f, Head(q))
    <2>1. /\ pc # "done" /\ q # <<>> /\ UNCHANGED <<pc, ret, n>>
          /\ log' = [log EXCEPT !.queue = Tail(@), !.file = f2]
      BY <1>6 DEF WriteLog, mainVars, runVars
    <2>2. log' = [state |-> log.state, queue |-> Tail(q), file |-> f2, dropped |-> log.dropped]
      BY <1>2, <2>1
    <2>3. /\ Tail(q) \in Seq(Records) /\ f2 \in Seq(Records) /\ f2 # <<>>
          /\ IF Tail(q) # <<>> THEN Tail(q)[Len(Tail(q))] = q[Len(q)]
             ELSE f2[Len(f2)] = q[Len(q)]
      BY <1>2, <2>1, Written
    <2> HIDE DEF q, f, f2
    <2>4. log'.queue = Tail(q) /\ log'.file = f2 /\ log'.dropped = log.dropped /\ log'.state = log.state
      BY <2>2
    <2>5. LogTyped'
      BY <1>2, <2>1, <2>2, <2>3, <2>4 DEF LogTyped
    <2>6. Between' = Between
      BY <2>1 DEF Between
    <2>7. LastRecord' = LastRecord
      BY <2>1, <2>3, <2>4 DEF LastRecord, q, f
    <2>8. "log" \in Observers
      BY <1>2, <2>1
    <2> QED
      BY <1>1, <2>1, <2>4, <2>5, <2>6, <2>7, <2>8 DEF LogLast, q
  <1>7. CASE Emit
    <2> DEFINE rec == [i |-> i, n |-> n, final |-> ret = "ended"]
    <2>1. /\ pc = "emit" /\ pc' \in {"emit2", ret} /\ UNCHANGED <<ret, i, n>>
          /\ \/ log' = log /\ "log" \notin Observers
             \/ log' = Enqueued(rec) /\ "log" \in Observers
      BY <1>7 DEF Emit, Reached, runVars
    <2>2. ret \in {"unsink", "read", "handle", "ended"}
      BY <2>1 DEF SliceTyped, Returns
    <2>3. CASE log' = log /\ "log" \notin Observers
      BY <1>1, <1>2, <2>1, <2>3 DEF LogTyped, LogLast
    <2>4. CASE log' = Enqueued(rec) /\ "log" \in Observers
      <3>1. rec \in Records
        BY DEF Records, SliceTyped
      <3>2. CASE log' = [log EXCEPT !.queue = Append(@, rec)]
        <4>1. log' = [state |-> log.state, queue |-> Append(q, rec), file |-> f, dropped |-> log.dropped]
          BY <1>2, <3>2
        <4>2. /\ Append(q, rec) \in Seq(Records) /\ Len(Append(q, rec)) = Len(q) + 1
              /\ Append(q, rec)[Len(q) + 1] = rec /\ Len(q) \in Nat
          BY <1>2, <3>1, AppendProperties, LenProperties
        <4>3. rec.n = n /\ (ret = "ended" => rec.final)
          OBVIOUS
        <4> HIDE DEF q, f, rec
        <4>4. /\ log'.queue = Append(q, rec) /\ log'.file = f
              /\ log'.dropped = log.dropped /\ log'.state = log.state
          BY <4>1
        <4>5. log.state # "closed"
          BY <1>2, <2>1
        <4>6. LogTyped'
          BY <1>2, <4>1, <4>2, <4>4, <4>5 DEF LogTyped
        <4>7. Append(q, rec) # <<>>
          BY <4>2
        <4>8. LastRecord' = rec
          BY <4>2, <4>4, <4>7 DEF LastRecord
        <4>9. Between' => ret = "ended"
          BY <2>1, <2>2 DEF Between
        <4>10. n' = n /\ "log" \in Observers'
          BY <1>1, <2>1, <2>4
        <4>11. LogLast'
          BY <4>3, <4>8, <4>9, <4>10 DEF LogLast
        <4> QED
          BY <4>6, <4>11
      <3>3. CASE log' = [log EXCEPT !.dropped = @ + 1]
        <4>1. log' = [state |-> log.state, queue |-> q, file |-> f, dropped |-> log.dropped + 1]
          BY <1>2, <3>3
        <4>2. /\ log'.queue = q /\ log'.file = f
              /\ log'.dropped = log.dropped + 1 /\ log'.state = log.state
          BY <4>1
        <4>3. log.state # "closed"
          BY <1>2, <2>1
        <4>4. LogTyped'
          BY <1>2, <4>1, <4>2, <4>3 DEF LogTyped
        <4>5. LogLast'
          BY <1>1, <1>2, <2>4, <4>2 DEF LogLast
        <4> QED
          BY <4>4, <4>5
      <3> QED
        BY <2>4, <3>2, <3>3 DEF Enqueued
    <2> QED
      BY <2>1, <2>3, <2>4
  <1> QED
    BY <1>3, <1>4, <1>5, <1>6, <1>7, LogKept

(***************************************************************************)
(* What came of the pipelines, and of the program.                         *)
(***************************************************************************)

LEMMA OutcomesStep ==
  ASSUME SliceTyped, UnderWay, FramesCounted, OutcomesInOrder, ExitTold, [Next]_vars
  PROVE  OutcomesInOrder' /\ ExitTold'
  <1> USE DEF SliceTyped, Returns, None
  <1>a. app' = app /\ Pipelines' = Pipelines
    BY OfOneApp
  <1>b. /\ Len(outcome) \in Nat /\ outcome \in Seq({"ok", "failed"})
        /\ app.mode = "config" => Pipelines = app.pipelines
    BY PipelinesList, LenProperties DEF OutcomesInOrder
  <1>c. pc \in {"load", "observe"} /\ app.mode = "config" => outcome = <<>>
    <2>1. pc \in {"load", "observe"} /\ app.mode = "config" => Len(outcome) = 0
      BY DEF OutcomesInOrder
    <2> QED
      BY <1>b, <2>1, EmptySeq
  <1>1. CASE Load
    BY <1>1, <1>a, <1>b, <1>c DEF Load, Exit, OutcomesInOrder, ExitTold
  <1>2. CASE Observe
    <2>1. Pipelines = <<>> => Len(Pipelines) = 0
      OBVIOUS
    <2>2. /\ pc = "observe" /\ UNCHANGED <<app, i, exc, outcome>>
          /\ \/ pc' = "done" /\ code' = 1
             \/ pc' = "close" /\ code' = code /\ Pipelines = <<>>
             \/ pc' = "build" /\ code' = code
      BY <1>2 DEF Observe, Exit
    <2> QED
      BY <1>a, <1>b, <1>c, <2>1, <2>2 DEF OutcomesInOrder, ExitTold
  <1>3. CASE Build
    BY <1>3, <1>a, BuildDoes DEF OutcomesInOrder, ExitTold
  <1>4. CASE SetupSource
    BY <1>4, <1>a DEF SetupSource, EmitThen, endVars, OutcomesInOrder, ExitTold
  <1>5. CASE SetupStage
    BY <1>5, <1>a DEF SetupStage, endVars, OutcomesInOrder, ExitTold
  <1>6. CASE SetupSink
    BY <1>6, <1>a DEF SetupSink, endVars, OutcomesInOrder, ExitTold
  <1>7. CASE Loop
    BY <1>7, <1>a DEF Loop, EmitThen, endVars, OutcomesInOrder, ExitTold
  <1>8. CASE ReadGood \/ ReadBad
    <2>1. PICK ok : Read(ok)
      BY <1>8 DEF ReadGood, ReadBad
    <2> QED
      BY <2>1, <1>a, ReadDoes DEF endVars, OutcomesInOrder, ExitTold
  <1>9. CASE ExecuteStage
    BY <1>9, <1>a, ExecuteStageDoes DEF endVars, OutcomesInOrder, ExitTold
  <1>10. CASE Executed
    BY <1>10, <1>a, ExecutedDoes DEF endVars, EmitThen, OutcomesInOrder, ExitTold
  <1>11. CASE Handle
    BY <1>11, <1>a, HandleDoes DEF endVars, OutcomesInOrder, ExitTold
  <1>12. CASE Unsink \/ Unstage \/ Unsource
    BY <1>12, <1>a DEF Unsink, Unstage, Unsource, EmitThen, endVars, OutcomesInOrder, ExitTold
  <1>13. CASE Emit \/ EmitErrors
    BY <1>13, <1>a DEF Emit, EmitErrors, endVars, OutcomesInOrder, ExitTold
  <1>14. CASE Ended
    <2>1. pc = "ended" /\ UNCHANGED <<app, code>> /\ pc' \in {"build", "close"}
      BY <1>14 DEF Ended
    <2>2. i \in 1 .. Len(Pipelines)
      BY <2>1, PipelinesList DEF UnderWay, Under
    <2>3. CASE app.mode = "cli" \/ exc = "Interrupt"
      BY <1>14, <1>a, <2>1, <2>3 DEF Ended, OutcomesInOrder, ExitTold
    <2>4. CASE ~(app.mode = "cli" \/ exc = "Interrupt")
      <3>1. /\ outcome' = Append(outcome, Outcome)
            /\ IF i < Len(Pipelines) THEN i' = i + 1 /\ pc' = "build" ELSE i' = i /\ pc' = "close"
        BY <1>14, <2>4 DEF Ended
      <3>2. Outcome \in {"ok", "failed"}
        BY DEF Outcome
      <3>3. outcome' \in Seq({"ok", "failed"}) /\ Len(outcome') = Len(outcome) + 1
        BY <1>b, <3>1, <3>2, AppendProperties
      <3> QED
        BY <1>a, <1>b, <2>1, <2>2, <3>1, <3>3, PipelinesList DEF OutcomesInOrder, ExitTold
    <2> QED
      BY <2>3, <2>4
  <1>15. CASE CloseAll
    <2>1. /\ pc \in {"close", "drain"} /\ UNCHANGED <<app, i, exc, outcome>>
          /\ \/ pc' \in {"close", "drain"} /\ code' = code
             \/ pc' = "done" /\ code' \in {1, ExitCode}
      BY <1>15 DEF CloseAll, Close, Exit
    <2>2. ExitCode = 0 => exc = None /\ \A j \in DOMAIN outcome : outcome[j] # "failed"
      BY DEF ExitCode
    <2> QED
      BY <1>a, <2>1, <2>2 DEF OutcomesInOrder, ExitTold
  <1>16. CASE Interrupt
    BY <1>16, <1>a, InterruptDoes DEF EmitThen, OutcomesInOrder, ExitTold
  <1>17. CASE WriteLog \/ Serve \/ UNCHANGED vars
    BY <1>17, <1>a DEF WriteLog, Serve, vars, mainVars, endVars, OutcomesInOrder, ExitTold
  <1> QED
    BY <1>1, <1>2, <1>3, <1>4, <1>5, <1>6, <1>7, <1>8, <1>9, <1>10, <1>11, <1>12, <1>13, <1>14,
       <1>15, <1>16, <1>17 DEF Next, Main

(***************************************************************************)
(* The trackers and what they are given.                                   *)
(***************************************************************************)

(* A pipeline stays the one that was built while it runs, and the packet    *)
(* is new with every frame.                                                *)
LEMMA RunningStep ==
  ASSUME SliceTyped, UnderWay, FramesCounted, [Next]_vars, ~Build
  PROVE  /\ (Place \in Running)' => Place \in Running /\ i' = i
         /\ pc' = "execute" => \/ pc = "execute" /\ (ExecuteStage \/ result' = result)
                               \/ pc = "read" /\ result' = NewResult
  <1> USE DEF SliceTyped, Returns, None, Place, Running
  <1>1. CASE Load
    BY <1>1 DEF Load, Exit, runVars
  <1>2. CASE Observe
    BY <1>2 DEF Observe, Exit, runVars
  <1>4. CASE SetupSource
    BY <1>4 DEF SetupSource, EmitThen
  <1>5. CASE SetupStage
    BY <1>5 DEF SetupStage, runVars
  <1>6. CASE SetupSink
    BY <1>6 DEF SetupSink, runVars
  <1>7. CASE Loop
    BY <1>7 DEF Loop, EmitThen, runVars
  <1>8. CASE ReadGood \/ ReadBad
    <2>1. PICK ok : Read(ok)
      BY <1>8 DEF ReadGood, ReadBad
    <2> DEFINE r == ReadSource(SourceSpec, src, ok, MaxCount)
    <2>2. pc = "read" /\ r.status \in {"EOF", "ERROR", "RECONNECTING", "FRAME"}
      BY <2>1, SourceAnswers DEF Read
    <2>3. /\ IF r.status = "FRAME" THEN k' = 1 /\ result' = NewResult ELSE UNCHANGED <<k, result>>
          /\ r.status = "EOF" => pc' = IF IsFinite(SourceSpec, r.src) THEN "unsink" ELSE "loop"
          /\ r.status = "ERROR" => pc' = "loop"
          /\ r.status = "RECONNECTING" => pc' = "loop"
      BY <2>1, Zenon DEF Read
    <2> HIDE DEF r
    <2>4. pc' = "execute" => result' = NewResult
      BY <2>2, <2>3
    <2> QED
      BY <2>1, <2>2, <2>4, ReadDoes
  <1>9. CASE ExecuteStage
    BY <1>9, ExecuteStageDoes
  <1>10. CASE Executed
    BY <1>10, ExecutedDoes DEF EmitThen
  <1>11. CASE Handle
    BY <1>11, HandleDoes
  <1>12. CASE Unsink \/ Unstage \/ Unsource
    BY <1>12 DEF Unsink, Unstage, Unsource, EmitThen, runVars
  <1>13. CASE Emit \/ EmitErrors
    BY <1>13 DEF Emit, EmitErrors, runVars
  <1>14. CASE Ended
    BY <1>14 DEF Ended, runVars
  <1>15. CASE CloseAll
    BY <1>15 DEF CloseAll, Close, Exit, runVars
  <1>16. CASE Interrupt
    BY <1>16, InterruptDoes DEF EmitThen
  <1>17. CASE WriteLog \/ Serve \/ UNCHANGED vars
    BY <1>17 DEF WriteLog, Serve, vars, mainVars, runVars
  <1> QED
    BY <1>1, <1>2, <1>4, <1>5, <1>6, <1>7, <1>8, <1>9, <1>10, <1>11, <1>12, <1>13, <1>14,
       <1>15, <1>16, <1>17 DEF Next, Main

(* Which actions touch the states of the stages.                           *)
LEMMA StagesKept ==
  ASSUME [Next]_vars
  PROVE  Build \/ ExecuteStage \/ Unstage \/ stages' = stages
  BY Zenon DEF Next, Main, Load, Observe, SetupSource, SetupStage, SetupSink, Loop, ReadGood,
     ReadBad, Read, Executed, Handle, Unsink, Unsource, Emit, EmitErrors, Ended, CloseAll,
     Interrupt, WriteLog, Serve, vars, runVars

(* What a stage leaves: its own state, and the packet.                     *)
LEMMA ExecuteStageLeaves ==
  ASSUME SliceTyped, UnderWay, StagesTyped, PacketsTyped, ExecuteStage
  PROVE  LET s == StageStep(P.stages[k], stages[k], result.packet, Frame)
         IN  /\ k \in DOMAIN P.stages /\ PacketTyped(s.packet)
             /\ result' = [verdict |-> s.verdict, packet |-> s.packet]
             /\ stages' = [stages EXCEPT ![k] = s.st]
             /\ k \in StagesOf("track") =>
                   /\ TrackerTyped(s.st)
                   /\ s.verdict = "SUCCESS" =>
                         StableMatching(stages[k].tracks, result.packet.dets, Threshold,
                                        Continued(stages[k].tracks, s.packet.tracks))
  <1> DEFINE s == StageStep(P.stages[k], stages[k], result.packet, Frame)
  <1>1. /\ pc = "execute" /\ k <= Len(P.stages)
        /\ result' = [verdict |-> s.verdict, packet |-> s.packet]
        /\ stages' = [stages EXCEPT ![k] = s.st]
    BY DEF ExecuteStage
  <1> HIDE DEF s
  <1>2. Valid(P) /\ IsSequence(P.stages)
    BY <1>1, PipelineShape DEF UnderWay, Under, Place, Running, SliceTyped
  <1>3. k \in DOMAIN P.stages
    <2>1. Len(P.stages) \in Nat /\ DOMAIN P.stages = 1 .. Len(P.stages)
      BY <1>2, LenProperties DEF IsSequence
    <2> QED
      BY <1>1, <2>1 DEF SliceTyped
  <1>4. P.stages[k].type \in {"detect", "count", "motion_gate", "track", "line_crossing"}
    BY <1>2, <1>3 DEF Valid, Accepted, Known, Registry
  <1>5. DetsTyped(Frame.dets) /\ PacketTyped(result.packet)
    BY <1>1, FrameTyped DEF PacketsTyped
  <1>6. PacketTyped(s.packet)
    <2> DEFINE item == P.stages[k]  st == stages[k]  packet == result.packet  frame == Frame
    <2>1. item.type \in {"detect", "count", "motion_gate", "track", "line_crossing"}
          /\ PacketTyped(packet) /\ DetsTyped(frame.dets)
      BY <1>4, <1>5
    <2>2. s = StageStep(item, st, packet, frame)
      BY DEF s
    <2> HIDE DEF item, st, packet, frame
    <2> QED
      BY <2>1, <2>2, StageKeepsPacket
  <1>7. ASSUME k \in StagesOf("track")
        PROVE  /\ TrackerTyped(s.st)
               /\ s.verdict = "SUCCESS" =>
                     StableMatching(stages[k].tracks, result.packet.dets, Threshold,
                                    Continued(stages[k].tracks, s.packet.tracks))
    <2> DEFINE item == P.stages[k]  st == stages[k]  packet == result.packet  frame == Frame
    <2>1. item.type = "track" /\ TrackerTyped(st) /\ PacketTyped(packet)
      BY <1>1, <1>5, <1>7 DEF StagesTyped, StagesOf, Place, Running
    <2>2. s = StageStep(item, st, packet, frame)
      BY DEF s
    <2>3. /\ TrackerTyped(s.st)
          /\ s.verdict = "SUCCESS" =>
                StableMatching(st.tracks, packet.dets, Threshold, Continued(st.tracks, s.packet.tracks))
      <3> HIDE DEF item, st, packet, frame
      <3> QED
        BY <2>1, <2>2, TrackStageDoes
    <2> QED
      BY <2>3
  <1> QED
    BY <1>1, <1>3, <1>6, <1>7 DEF s

(* They stay of their type.                                                *)
LEMMA AnalyticsStep ==
  ASSUME SliceTyped, UnderWay, FramesCounted, StagesTyped, PacketsTyped, [Next]_vars
  PROVE  StagesTyped' /\ PacketsTyped'
  <1>1. app' = app /\ Pipelines' = Pipelines
    BY OfOneApp
  <1>2. CASE Build
    <2>1. /\ pc = "build" /\ ret' = None /\ UNCHANGED i
          /\ \/ pc' \in {"ended", "close", "done"}
             \/ pc' = "setup" /\ stages' = [j \in DOMAIN P.stages |-> NewStage(P.stages[j])]
      BY <1>2 DEF Build, BuildFailed, Exit
    <2>2. P' = P
      BY <1>1, <2>1 DEF P
    <2>3. \A item : item.type = "track" => NewStage(item) = NoTracks
      BY Zenon DEF NewStage
    <2>4. StagesTyped'
      BY <2>1, <2>2, <2>3, NewTyped DEF StagesTyped, StagesOf, Place, Running, None
    <2>5. PacketsTyped'
      BY <2>1 DEF PacketsTyped
    <2> QED
      BY <2>4, <2>5
  <1>3. CASE ExecuteStage
    <2> DEFINE s == StageStep(P.stages[k], stages[k], result.packet, Frame)
    <2>1. /\ k \in DOMAIN P.stages /\ PacketTyped(s.packet)
          /\ result' = [verdict |-> s.verdict, packet |-> s.packet]
          /\ stages' = [stages EXCEPT ![k] = s.st]
          /\ k \in StagesOf("track") => TrackerTyped(s.st)
      BY <1>3, ExecuteStageLeaves
    <2> HIDE DEF s
    <2>2. pc = "execute" /\ UNCHANGED <<pc, ret, i>>
      BY <1>3, ExecuteStageDoes
    <2>3. P' = P /\ (StagesOf("track"))' = StagesOf("track")
      BY <1>1, <2>2 DEF P, StagesOf
    <2>4. DOMAIN stages = DOMAIN P.stages /\ \A j \in StagesOf("track") : TrackerTyped(stages[j])
      BY <2>2 DEF StagesTyped, Place, Running
    <2>5. DOMAIN stages' = DOMAIN P.stages /\ \A j \in StagesOf("track") : TrackerTyped(stages'[j])
      BY <2>1, <2>4 DEF StagesOf
    <2>6. result'.packet = s.packet
      BY <2>1
    <2> QED
      BY <2>1, <2>3, <2>5, <2>6 DEF StagesTyped, PacketsTyped
  <1>4. CASE ~Build /\ ~ExecuteStage
    <2>1. StagesTyped'
      <3>1. SUFFICES ASSUME (Place \in Running)' PROVE StagesTyped'
        BY DEF StagesTyped
      <3>2. Place \in Running /\ i' = i
        BY <1>4, <3>1, RunningStep
      <3>3. stages' = stages
        <4>1. ~Unstage
          BY <3>2 DEF Unstage, Place, Running
        <4> QED
          BY <1>4, <4>1, StagesKept
      <3>4. P' = P
        BY <1>1, <3>2 DEF P
      <3> QED
        BY <3>2, <3>3, <3>4 DEF StagesTyped, StagesOf
    <2>2. PacketsTyped'
      BY <1>4, RunningStep, NewTyped DEF PacketsTyped
    <2> QED
      BY <2>1, <2>2
  <1> QED
    BY <1>2, <1>3, <1>4

(***************************************************************************)
(* A counting line.                                                        *)
(***************************************************************************)

(* Lists put together, and what is at their places.                        *)
LEMMA ListsJoined ==
  ASSUME NEW f, NEW e, IsSequence(f), IsSequence(e)
  PROVE  /\ IsSequence(f \o e) /\ Len(f) \in Nat /\ Len(e) \in Nat
         /\ DOMAIN f = 1 .. Len(f) /\ DOMAIN e = 1 .. Len(e)
         /\ DOMAIN (f \o e) = 1 .. Len(f) + Len(e) /\ Len(f \o e) = Len(f) + Len(e)
         /\ \A x \in 1 .. Len(f) : (f \o e)[x] = f[x]
         /\ \A x \in 1 .. Len(e) : (f \o e)[Len(f) + x] = e[x]
  <1> DEFINE A == {f[j] : j \in DOMAIN f} \cup {e[j] : j \in DOMAIN e}
             g == f \o e
  <1>1. f \in Seq(A) /\ e \in Seq(A)
    <2>1. f \in Seq({f[j] : j \in DOMAIN f}) /\ e \in Seq({e[j] : j \in DOMAIN e})
      BY DEF IsSequence
    <2> QED
      BY <2>1, SeqMonotonic
  <1> HIDE DEF A
  <1>2. /\ g \in Seq(A) /\ Len(g) = Len(f) + Len(e)
        /\ \A j \in 1 .. Len(f) + Len(e) : g[j] = IF j <= Len(f) THEN f[j] ELSE e[j - Len(f)]
    BY <1>1, ConcatProperties
  <1>3. /\ Len(f) \in Nat /\ Len(e) \in Nat /\ DOMAIN f = 1 .. Len(f) /\ DOMAIN e = 1 .. Len(e)
        /\ DOMAIN g = 1 .. Len(g)
    BY <1>1, <1>2, LenProperties
  <1> HIDE DEF g
  <1>4. IsSequence(g)
    <2>1. g \in [1 .. Len(g) -> {g[j] : j \in DOMAIN g}] /\ Len(g) \in Nat
      <3>1. g = [j \in DOMAIN g |-> g[j]]
        BY <1>2
      <3> QED
        BY <1>2, <1>3, <3>1
    <2>2. g \in Seq({g[j] : j \in DOMAIN g})
      BY <2>1, FunctionIsSequence
    <2> QED
      BY <2>2 DEF IsSequence
  <1>5. \A x \in 1 .. Len(f) : g[x] = f[x]
    BY <1>2, <1>3
  <1>6. \A x \in 1 .. Len(e) : g[Len(f) + x] = e[x]
    <2>1. SUFFICES ASSUME NEW x \in 1 .. Len(e) PROVE g[Len(f) + x] = e[x]
      OBVIOUS
    <2>2. Len(f) + x \in 1 .. Len(f) + Len(e) /\ ~(Len(f) + x <= Len(f)) /\ Len(f) + x - Len(f) = x
      BY <1>3
    <2> QED
      BY <1>2, <2>2
  <1> QED
    BY <1>2, <1>3, <1>4, <1>5, <1>6 DEF g

(* A list of which another is a beginning alternates only if that does.    *)
LEMMA BeginningAlternates ==
  ASSUME NEW g, Alternates(g), NEW h, DOMAIN h \in SUBSET Int, DOMAIN h \subseteq DOMAIN g,
         \A x \in DOMAIN h : h[x] = g[x],
         \A x, y \in DOMAIN h : x .. y \subseteq DOMAIN h
  PROVE  Alternates(h)
  <1>1. SUFFICES ASSUME NEW a \in DOMAIN h, NEW b \in DOMAIN h, a < b, h[a].id = h[b].id,
                        h[a].since = h[b].since, \A c \in a + 1 .. b - 1 : h[c].id # h[a].id
                 PROVE  h[a].dir # h[b].dir
    BY DEF Alternates
  <1>2. \A c \in a + 1 .. b - 1 : c \in DOMAIN h
    <2>1. a + 1 .. b - 1 \subseteq a .. b
      BY <1>1
    <2> QED
      BY <1>1, <2>1
  <1>3. h[a] = g[a] /\ h[b] = g[b] /\ \A c \in a + 1 .. b - 1 : h[c] = g[c]
    BY <1>1, <1>2
  <1> QED
    BY <1>1, <1>3 DEF Alternates

(* Part of the events of a frame may get to a file.                        *)
LEMMA PartAlternates ==
  ASSUME NEW f, NEW e, IsSequence(f), IsSequence(e), NEW m \in 0 .. Len(e), Alternates(f \o e)
  PROVE  Alternates(f \o SubSeq(e, 1, m)) /\ IsSequence(f \o SubSeq(e, 1, m))
  <1> DEFINE s == SubSeq(e, 1, m)
             g == f \o e
             h == f \o s
  <1>1. /\ Len(f) \in Nat /\ Len(e) \in Nat /\ DOMAIN g = 1 .. Len(f) + Len(e)
        /\ DOMAIN e = 1 .. Len(e)
        /\ \A x \in 1 .. Len(f) : g[x] = f[x]
        /\ \A x \in 1 .. Len(e) : g[Len(f) + x] = e[x]
    BY ListsJoined
  <1>2. s = [x \in 1 .. m |-> e[x]] /\ m \in Nat
    <2>1. m \in Nat
      BY <1>1
    <2>2. s = [x \in 1 .. m |-> e[1 + x - 1]]
      BY <2>1
    <2>3. \A x \in 1 .. m : 1 + x - 1 = x
      OBVIOUS
    <2> QED
      BY <2>1, <2>2, <2>3
  <1>3. IsSequence(s) /\ Len(s) = m /\ \A x \in 1 .. m : s[x] = e[x]
    <2>1. s \in [1 .. m -> {s[x] : x \in DOMAIN s}]
      BY <1>2
    <2> HIDE DEF s
    <2> QED
      BY <1>2, <2>1, FunctionIsSequence DEF IsSequence
  <1> HIDE DEF s, g
  <1>4. /\ IsSequence(h) /\ DOMAIN h = 1 .. Len(f) + m
        /\ \A x \in 1 .. Len(f) : h[x] = f[x]
        /\ \A x \in 1 .. m : h[Len(f) + x] = s[x]
    BY <1>3, ListsJoined
  <1> HIDE DEF h
  <1>5. \A x \in DOMAIN h : x \in DOMAIN g /\ h[x] = g[x]
    <2>1. SUFFICES ASSUME NEW x \in DOMAIN h PROVE x \in DOMAIN g /\ h[x] = g[x]
      OBVIOUS
    <2>2. CASE x <= Len(f)
      BY <1>1, <1>4, <2>2
    <2>3. CASE ~(x <= Len(f))
      <3> DEFINE y == x - Len(f)
      <3>1. y \in 1 .. m /\ y \in 1 .. Len(e) /\ x = Len(f) + y
        BY <1>1, <1>4, <2>3
      <3> HIDE DEF y
      <3>2. h[x] = s[y] /\ s[y] = e[y] /\ g[x] = e[y]
        BY <1>1, <1>3, <1>4, <3>1
      <3> QED
        BY <1>1, <3>1, <3>2
    <2> QED
      BY <2>2, <2>3
  <1>6. DOMAIN h \in SUBSET Int /\ \A x, y \in DOMAIN h : x .. y \subseteq DOMAIN h
    BY <1>1, <1>2, <1>4
  <1>7. Alternates(h)
    <2>1. Alternates(g)
      BY DEF g
    <2> QED
      BY <1>5, <1>6, <2>1, BeginningAlternates
  <1> QED
    BY <1>4, <1>7 DEF h, s

(* Where the objects of a frame are, and which of them have crossed a line. *)
Ids(tracks) == {tracks[j].id : j \in DOMAIN tracks}

At(tracks) ==
  [id \in Ids(tracks) |-> Centre(tracks[CHOOSE j \in DOMAIN tracks : tracks[j].id = id].box)]

Crossed(l, tracks, line) ==
  {id \in DOMAIN At(tracks) \cap DOMAIN l.last : SegmentsIntersect(l.last[id], At(tracks)[id], line.a, line.b)}

Side(line, p) == IF Orient(line.a, line.b, p) > 0 THEN "in" ELSE "out"

(* What the line makes of a frame: an event for each object that crossed,   *)
(* and as many more in its counts.                                         *)
LineOut(l, tracks, line, frame, u) ==
  LET E == u.events
  IN  /\ u.line.last = At(tracks) /\ DOMAIN u.line.since = Ids(tracks)
      /\ \A id \in Ids(tracks) : u.line.since[id] = IF id \in DOMAIN l.last THEN l.since[id] ELSE frame
      /\ IsSequence(E)
      /\ \A m \in DOMAIN E : /\ E[m].id \in Crossed(l, tracks, line)
                             /\ E[m].since = l.since[E[m].id]
                             /\ E[m].dir = Side(line, At(tracks)[E[m].id])
      /\ \A m, o \in DOMAIN E : E[m].id = E[o].id => m = o
      /\ \A id \in Crossed(l, tracks, line) : \E m \in DOMAIN E : E[m].id = id
      /\ \A d \in {"in", "out"} : u.line[d] = l[d] + Cardinality({m \in DOMAIN E : E[m].dir = d})

LEMMA LineDoes ==
  ASSUME NEW l, NEW tracks, IsSequence(tracks), NEW line, NEW frame,
         \A j, m \in DOMAIN tracks : tracks[j].id = tracks[m].id => j = m
  PROVE  LineOut(l, tracks, line, frame, LineUpdate(l, tracks, line, frame))
  <1> DEFINE at == At(tracks)
             crossed == Crossed(l, tracks, line)
             Since(id) == IF id \in DOMAIN l.last THEN l.since[id] ELSE frame
             Event(tr) == [id |-> tr.id, label |-> tr.label, since |-> Since(tr.id),
                           dir |-> Direction(line, l.last[tr.id], at[tr.id])]
             Count(d) == Cardinality({id \in crossed : Direction(line, l.last[id], at[id]) = d})
             hits == {j \in DOMAIN tracks : tracks[j].id \in crossed}
             Rank(j) == Cardinality({h \in hits : h <= j})
             Hit(m) == CHOOSE j \in hits : Rank(j) = m
             E == [m \in 1 .. Cardinality(hits) |-> Event(tracks[Hit(m)])]
             since == [id \in Ids(tracks) |-> Since(id)]
             u == LineUpdate(l, tracks, line, frame)
  <1>1. u = [line |-> [last |-> at, since |-> [id \in DOMAIN at |-> Since(id)],
                       in |-> l.in + Count("in"), out |-> l.out + Count("out")],
             events |-> E]
    BY Zenon DEF LineUpdate, At, Ids, Crossed
  <1>2. DOMAIN at = Ids(tracks)
    BY DEF At
  <1>3. /\ u.line.last = at /\ u.line.since = [id \in DOMAIN at |-> Since(id)] /\ u.events = E
        /\ u.line.in = l.in + Count("in") /\ u.line.out = l.out + Count("out")
    <2> HIDE DEF at, Since, Count, E, u
    <2> QED
      BY <1>1
  <1>4. u.line.last = at /\ DOMAIN u.line.since = Ids(tracks)
        /\ \A id \in Ids(tracks) : u.line.since[id] = Since(id)
    <2> HIDE DEF at, Since, u
    <2> QED
      BY <1>2, <1>3
  <1>5. Len(tracks) \in Nat /\ DOMAIN tracks = 1 .. Len(tracks)
    BY LenProperties DEF IsSequence
  <1>6. hits \in SUBSET (1 .. Len(tracks)) /\ hits \in SUBSET Nat /\ IsFiniteSet(hits)
        /\ Cardinality(hits) \in Nat
    <2>1. hits \in SUBSET (1 .. Len(tracks)) /\ 1 .. Len(tracks) \in SUBSET Nat
      BY <1>5
    <2>2. IsFiniteSet(1 .. Len(tracks))
      BY <1>5, FS_Interval
    <2> HIDE DEF hits
    <2> QED
      BY <2>1, <2>2, FS_Subset, FS_CardinalityType
  <1>7. /\ \A j \in hits : Rank(j) \in 1 .. Cardinality(hits)
        /\ \A j, h \in hits : Rank(j) = Rank(h) => j = h
        /\ \A r \in 1 .. Cardinality(hits) : \E j \in hits : Rank(j) = r
    <2> HIDE DEF hits
    <2> QED
      BY <1>6, RanksCount
  <1>8. \A m \in 1 .. Cardinality(hits) : Hit(m) \in hits /\ Rank(Hit(m)) = m
    <2> HIDE DEF Rank, hits
    <2> QED
      BY <1>7
  <1>9. IsSequence(E) /\ DOMAIN E = 1 .. Cardinality(hits)
    <2>1. E \in [1 .. Cardinality(hits) -> {E[m] : m \in DOMAIN E}]
      <3> HIDE DEF Event, Hit, hits
      <3> QED
        OBVIOUS
    <2>2. DOMAIN E = 1 .. Cardinality(hits)
      OBVIOUS
    <2> HIDE DEF E, hits
    <2> QED
      BY <1>6, <2>1, <2>2, FunctionIsSequence DEF IsSequence
  <1>10. ASSUME NEW m \in DOMAIN E
         PROVE  /\ E[m].id = tracks[Hit(m)].id /\ E[m].since = Since(E[m].id)
                /\ E[m].dir = Side(line, at[E[m].id])
    <2>1. E[m] = Event(tracks[Hit(m)])
      BY <1>9, <1>10
    <2> HIDE DEF E, Hit
    <2>2. \A tr : /\ Event(tr).id = tr.id /\ Event(tr).since = Since(tr.id)
                  /\ Event(tr).dir = Side(line, at[tr.id])
      <3> HIDE DEF Since, at
      <3> QED
        BY DEF Direction, Side
    <2> HIDE DEF Event, Since, at
    <2> QED
      BY <2>1, <2>2
  <1>11. \A m \in DOMAIN E : E[m].id \in crossed
    <2>1. \A j \in hits : tracks[j].id \in crossed
      OBVIOUS
    <2> HIDE DEF E, Hit, hits, crossed
    <2> QED
      BY <1>8, <1>9, <1>10, <2>1
  <1>12. \A id \in crossed : id \in DOMAIN l.last /\ id \in Ids(tracks)
    BY <1>2 DEF Crossed
  <1>13. \A m, o \in DOMAIN E : E[m].id = E[o].id => m = o
    <2>1. SUFFICES ASSUME NEW m \in DOMAIN E, NEW o \in DOMAIN E, E[m].id = E[o].id PROVE m = o
      BY Zenon
    <2>2. Hit(m) \in hits /\ Hit(o) \in hits /\ Rank(Hit(m)) = m /\ Rank(Hit(o)) = o
      <3> HIDE DEF hits, Hit, Rank
      <3> QED
        BY <1>8, <1>9, <2>1
    <2>3. tracks[Hit(m)].id = tracks[Hit(o)].id
      <3> HIDE DEF E, Hit
      <3> QED
        BY <1>10, <2>1
    <2>4. hits \subseteq DOMAIN tracks
      OBVIOUS
    <2> HIDE DEF hits, Hit, Rank
    <2>5. Hit(m) = Hit(o)
      BY <2>2, <2>3, <2>4
    <2> QED
      BY <2>2, <2>5
  <1>14. ASSUME NEW id \in crossed PROVE \E m \in DOMAIN E : E[m].id = id
    <2>1. PICK j \in DOMAIN tracks : tracks[j].id = id
      BY <1>12 DEF Ids
    <2>2. j \in hits
      BY <2>1
    <2> DEFINE m == Rank(j)
    <2>3. m \in DOMAIN E
      <3> HIDE DEF hits, Rank
      <3> QED
        BY <1>7, <1>9, <2>2
    <2>4. Hit(m) = j
      <3>1. m \in 1 .. Cardinality(hits)
        BY <1>9, <2>3
      <3> HIDE DEF hits, Rank
      <3>2. Hit(m) \in hits /\ Rank(Hit(m)) = m
        <4> HIDE DEF m, Hit
        <4> QED
          BY <1>8, <3>1
      <3> QED
        BY <1>7, <2>2, <3>2
    <2>5. E[m].id = tracks[Hit(m)].id
      <3> HIDE DEF E, Hit, m
      <3> QED
        BY <1>10, <2>3
    <2> HIDE DEF E, Hit, m
    <2> QED
      BY <2>1, <2>3, <2>4, <2>5
  <1>15. ASSUME NEW d
         PROVE  Count(d) = Cardinality({m \in DOMAIN E : E[m].dir = d})
    <2> DEFINE M == {m \in DOMAIN E : E[m].dir = d}
               C == {id \in crossed : Side(line, at[id]) = d}
               f == [m \in M |-> E[m].id]
    <2>1. Count(d) = Cardinality(C)
      BY DEF Direction, Side
    <2>2. IsFiniteSet(M)
      <3>1. IsFiniteSet(1 .. Cardinality(hits))
        <4>1. 1 \in Int /\ Cardinality(hits) \in Int
          BY <1>6
        <4> HIDE DEF hits
        <4> QED
          BY <4>1, FS_Interval
      <3>2. M \in SUBSET (1 .. Cardinality(hits))
        <4> HIDE DEF E, hits
        <4> QED
          BY <1>9
      <3> HIDE DEF M, hits
      <3> QED
        BY <3>1, <3>2, FS_Subset
    <2>3. f \in Bijection(M, C)
      <3> HIDE DEF E, at, crossed
      <3>1. f \in [M -> C]
        BY <1>10, <1>11
      <3>2. \A m, o \in M : f[m] = f[o] => m = o
        BY <1>13
      <3>3. \A id \in C : \E m \in M : f[m] = id
        <4>1. SUFFICES ASSUME NEW id \in C PROVE \E m \in M : f[m] = id
          OBVIOUS
        <4>2. PICK m \in DOMAIN E : E[m].id = id
          BY <1>14
        <4>3. E[m].dir = d
          BY <1>10, <4>2
        <4> QED
          BY <4>2, <4>3
      <3> HIDE DEF M, C, f
      <3> QED
        BY <3>1, <3>2, <3>3 DEF Bijection, Injection, IsInjective, Surjection
    <2> HIDE DEF M, C, f
    <2>4. Cardinality(C) = Cardinality(M)
      BY <2>2, <2>3, FS_Bijection DEF ExistsBijection
    <2> QED
      BY <2>1, <2>4 DEF M
  <1>16. \A d \in {"in", "out"} : u.line[d] = l[d] + Cardinality({m \in DOMAIN E : E[m].dir = d})
    <2> HIDE DEF E, u, Count
    <2>1. u.line["in"] = l["in"] + Count("in") /\ u.line["out"] = l["out"] + Count("out")
      BY <1>3
    <2> QED
      BY <1>15, <2>1
  <1>17. \A m \in DOMAIN E : E[m].since = l.since[E[m].id]
    <2> HIDE DEF E, crossed
    <2> QED
      BY <1>10, <1>11, <1>12
  <1>18. /\ \A m \in DOMAIN E : E[m].id \in crossed /\ E[m].since = l.since[E[m].id]
                               /\ E[m].dir = Side(line, at[E[m].id])
         /\ \A id \in crossed : \E m \in DOMAIN E : E[m].id = id
         /\ \A id \in Ids(tracks) : u.line.since[id] = IF id \in DOMAIN l.last THEN l.since[id] ELSE frame
    <2>1. \A id \in Ids(tracks) : u.line.since[id] = IF id \in DOMAIN l.last THEN l.since[id] ELSE frame
      <3> HIDE DEF u
      <3> QED
        BY <1>4
    <2> HIDE DEF E, u, at, crossed
    <2> QED
      BY <1>10, <1>11, <1>14, <1>17, <2>1
  <1> DEFINE e == u.events
  <1>19. e = E
    <2> HIDE DEF E, u
    <2> QED
      BY <1>3
  <1>20. /\ u.line.last = at /\ DOMAIN u.line.since = Ids(tracks)
         /\ \A id \in Ids(tracks) : u.line.since[id] = IF id \in DOMAIN l.last THEN l.since[id] ELSE frame
         /\ IsSequence(e)
         /\ \A m \in DOMAIN e : /\ e[m].id \in crossed
                                /\ e[m].since = l.since[e[m].id]
                                /\ e[m].dir = Side(line, at[e[m].id])
         /\ \A m, o \in DOMAIN e : e[m].id = e[o].id => m = o
         /\ \A id \in crossed : \E m \in DOMAIN e : e[m].id = id
         /\ \A d \in {"in", "out"} : u.line[d] = l[d] + Cardinality({m \in DOMAIN e : e[m].dir = d})
    <2> HIDE DEF E, u, e, at, crossed
    <2>1. u.line.last = at /\ DOMAIN u.line.since = Ids(tracks)
      BY <1>4
    <2>2. \A d \in {"in", "out"} : u.line[d] = l[d] + Cardinality({m \in DOMAIN e : e[m].dir = d})
      BY <1>16, <1>19
    <2> QED
      BY <1>9, <1>13, <1>18, <1>19, <2>1, <2>2
  <1> HIDE DEF E
  <1> QED
    BY Zenon, <1>20 DEF LineOut
(* A line is across what is seen when nobody gets to its other side round   *)
(* one of its ends.                                                        *)
Wide(C, line) ==
  \A p, q \in C : (Orient(line.a, line.b, p) > 0) # (Orient(line.a, line.b, q) > 0)
                  => (Orient(p, q, line.a) > 0) # (Orient(p, q, line.b) > 0)

(* The last crossing of each object that is still in sight says on which    *)
(* side it is.                                                             *)
LastSides(F, l, line) ==
  \A m \in DOMAIN F :
    /\ F[m].id \in DOMAIN l.last /\ F[m].since = l.since[F[m].id]
    /\ \A c \in DOMAIN F : c > m => F[c].id # F[m].id
    => F[m].dir = Side(line, l.last[F[m].id])

LineTyped(l, C, top) ==
  /\ DOMAIN l = {"last", "since", "in", "out"} /\ l.in \in Nat /\ l.out \in Nat
  /\ DOMAIN l.since = DOMAIN l.last
  /\ \A id \in DOMAIN l.last : l.last[id] \in C /\ l.since[id] \in 0 .. top

Counted(F, d) == Cardinality({m \in DOMAIN F : F[m].dir = d})

(* A list of crossings tells what a line has counted up to a frame.        *)
Tells(F, l, line, C, top) ==
  /\ IsSequence(F) /\ LineTyped(l, C, top)
  /\ \A m \in DOMAIN F : F[m].since \in 0 .. top
  /\ \A d \in {"in", "out"} : Counted(F, d) = l[d]
  /\ Wide(C, line) => Alternates(F) /\ LastSides(F, l, line)

(* Counting in two lists put together.                                     *)
LEMMA JoinedCounts ==
  ASSUME NEW f, NEW e, IsSequence(f), IsSequence(e), NEW d
  PROVE  Counted(f, d) \in Nat /\ Counted(e, d) \in Nat /\ Counted(f \o e, d) = Counted(f, d) + Counted(e, d)
  <1> DEFINE g == f \o e
             A == {m \in DOMAIN f : f[m].dir = d}
             B == {m \in DOMAIN e : e[m].dir = d}
             D == {Len(f) + m : m \in B}
             h == [m \in B |-> Len(f) + m]
  <1>1. /\ Len(f) \in Nat /\ Len(e) \in Nat /\ DOMAIN f = 1 .. Len(f) /\ DOMAIN e = 1 .. Len(e)
        /\ DOMAIN g = 1 .. Len(f) + Len(e)
        /\ \A x \in 1 .. Len(f) : g[x] = f[x]
        /\ \A x \in 1 .. Len(e) : g[Len(f) + x] = e[x]
    BY ListsJoined
  <1> HIDE DEF g
  <1>2. {m \in DOMAIN g : g[m].dir = d} = A \cup D
    <2>1. ASSUME NEW m \in DOMAIN g, g[m].dir = d PROVE m \in A \cup D
      <3>1. CASE m <= Len(f)
        BY <1>1, <2>1, <3>1
      <3>2. CASE ~(m <= Len(f))
        <4> DEFINE x == m - Len(f)
        <4>1. x \in 1 .. Len(e) /\ m = Len(f) + x
          BY <1>1, <2>1, <3>2
        <4> HIDE DEF x
        <4>2. x \in B
          BY <1>1, <2>1, <4>1
        <4> QED
          BY <4>1, <4>2
      <3> QED
        BY <3>1, <3>2
    <2>2. ASSUME NEW m \in A PROVE m \in DOMAIN g /\ g[m].dir = d
      BY <1>1
    <2>3. ASSUME NEW m \in B PROVE Len(f) + m \in DOMAIN g /\ g[Len(f) + m].dir = d
      BY <1>1
    <2> QED
      BY <2>1, <2>2, <2>3
  <1>3. IsFiniteSet(A) /\ IsFiniteSet(B)
    <2>1. IsFiniteSet(1 .. Len(f)) /\ IsFiniteSet(1 .. Len(e))
      <3>1. 1 \in Int /\ Len(f) \in Int /\ Len(e) \in Int
        BY <1>1
      <3> QED
        BY <3>1, FS_Interval
    <2>2. A \in SUBSET (1 .. Len(f)) /\ B \in SUBSET (1 .. Len(e))
      BY <1>1
    <2> HIDE DEF A, B
    <2> QED
      BY <2>1, <2>2, FS_Subset
  <1>4. IsFiniteSet(D) /\ Cardinality(D) = Cardinality(B)
    <2>1. h \in Bijection(B, D)
      <3>1. B \subseteq Nat
        BY <1>1
      <3> HIDE DEF B
      <3>2. h \in [B -> D] /\ (\A m, o \in B : h[m] = h[o] => m = o) /\ \A x \in D : \E m \in B : h[m] = x
        BY <1>1, <3>1
      <3> HIDE DEF h, D
      <3> QED
        BY <3>2 DEF Bijection, Injection, IsInjective, Surjection
    <2> HIDE DEF h, D, B
    <2> QED
      BY <1>3, <2>1, FS_Bijection DEF ExistsBijection
  <1>5. A \cap D = {}
    <2>1. \A x \in D : x > Len(f)
      BY <1>1
    <2> QED
      BY <1>1, <2>1
  <1> HIDE DEF A, B, D
  <1>6. Cardinality(A) \in Nat /\ Cardinality(B) \in Nat /\ Cardinality(A \cup D) = Cardinality(A) + Cardinality(B)
    <2>1. Cardinality(A \cap D) = 0
      BY <1>5, FS_EmptySet
    <2>2. Cardinality(A \cup D) = Cardinality(A) + Cardinality(D) - Cardinality(A \cap D)
      BY <1>3, <1>4, FS_Union
    <2>3. Cardinality(A) \in Nat /\ Cardinality(B) \in Nat
      BY <1>3, FS_CardinalityType
    <2> QED
      BY <1>4, <2>1, <2>2, <2>3
  <1> QED
    BY <1>2, <1>6 DEF A, B, g, Counted

(* A crossing is to the other side.                                        *)
LEMMA CrossedSides ==
  ASSUME NEW l, NEW tracks, NEW line, NEW C, NEW id \in Ids(tracks) \cap DOMAIN l.last
  PROVE  /\ id \in Crossed(l, tracks, line) => Side(line, l.last[id]) # Side(line, At(tracks)[id])
         /\ /\ Wide(C, line) /\ l.last[id] \in C /\ At(tracks)[id] \in C
            /\ id \notin Crossed(l, tracks, line)
            => Side(line, l.last[id]) = Side(line, At(tracks)[id])
  <1> DEFINE p == l.last[id]
             q == At(tracks)[id]
  <1>1. id \in Crossed(l, tracks, line) <=> SegmentsIntersect(p, q, line.a, line.b)
    <2>1. DOMAIN At(tracks) = Ids(tracks)
      BY DEF At
    <2> QED
      BY <2>1 DEF Crossed
  <1>2. Side(line, p) # Side(line, q) <=> (Orient(line.a, line.b, p) > 0) # (Orient(line.a, line.b, q) > 0)
    BY DEF Side
  <1> HIDE DEF p, q
  <1>3. SegmentsIntersect(p, q, line.a, line.b) =>
          (Orient(line.a, line.b, p) > 0) # (Orient(line.a, line.b, q) > 0)
    BY DEF SegmentsIntersect
  <1>4. ASSUME Wide(C, line), p \in C, q \in C, ~SegmentsIntersect(p, q, line.a, line.b)
        PROVE  ~((Orient(line.a, line.b, p) > 0) # (Orient(line.a, line.b, q) > 0))
    BY <1>4 DEF SegmentsIntersect, Wide
  <1> QED
    BY <1>1, <1>2, <1>3, <1>4 DEF p, q

(* What the line adds for a frame tells on what was told before.           *)
LEMMA LineTells ==
  ASSUME NEW F, NEW l, NEW line, NEW C, NEW frame \in Nat \ {0}, Tells(F, l, line, C, frame - 1),
         NEW tracks, IsSequence(tracks),
         \A j, m \in DOMAIN tracks : tracks[j].id = tracks[m].id => j = m,
         \A j \in DOMAIN tracks : Centre(tracks[j].box) \in C
  PROVE  /\ IsSequence(LineUpdate(l, tracks, line, frame).events)
         /\ Tells(F \o LineUpdate(l, tracks, line, frame).events,
                  LineUpdate(l, tracks, line, frame).line, line, C, frame)
  <1> DEFINE u == LineUpdate(l, tracks, line, frame)
             E == u.events
             v == u.line
             G == F \o E
             at == At(tracks)
             crossed == Crossed(l, tracks, line)
  <1>0. LineOut(l, tracks, line, frame, u)
    BY LineDoes
  <1>1. DOMAIN v = {"last", "since", "in", "out"}
    BY DEF LineUpdate
  <1> HIDE DEF u
  <1>2. /\ v.last = at /\ DOMAIN v.since = Ids(tracks)
        /\ \A id \in Ids(tracks) : v.since[id] = IF id \in DOMAIN l.last THEN l.since[id] ELSE frame
        /\ IsSequence(E)
        /\ \A m \in DOMAIN E : /\ E[m].id \in crossed
                               /\ E[m].since = l.since[E[m].id]
                               /\ E[m].dir = Side(line, at[E[m].id])
        /\ \A m, o \in DOMAIN E : E[m].id = E[o].id => m = o
        /\ \A id \in crossed : \E m \in DOMAIN E : E[m].id = id
        /\ \A d \in {"in", "out"} : v[d] = l[d] + Counted(E, d)
    BY <1>0 DEF LineOut, Counted
  <1>3. /\ IsSequence(F) /\ LineTyped(l, C, frame - 1)
        /\ \A m \in DOMAIN F : F[m].since \in 0 .. frame - 1
        /\ \A d \in {"in", "out"} : Counted(F, d) = l[d]
        /\ Wide(C, line) => Alternates(F) /\ LastSides(F, l, line)
    BY DEF Tells
  <1>4. DOMAIN at = Ids(tracks) /\ crossed \subseteq Ids(tracks) \cap DOMAIN l.last
    BY DEF At, Crossed
  <1>5. \A id \in Ids(tracks) : at[id] \in C
    <2>1. SUFFICES ASSUME NEW id \in Ids(tracks) PROVE at[id] \in C
      OBVIOUS
    <2>2. PICK j \in DOMAIN tracks : j = CHOOSE m \in DOMAIN tracks : tracks[m].id = id
      BY DEF Ids
    <2> QED
      BY <2>2 DEF At
  <1> HIDE DEF E, v, at, crossed
  <1>6. /\ Len(F) \in Nat /\ Len(E) \in Nat /\ DOMAIN F = 1 .. Len(F) /\ DOMAIN E = 1 .. Len(E)
        /\ IsSequence(G) /\ DOMAIN G = 1 .. Len(F) + Len(E)
        /\ \A x \in 1 .. Len(F) : G[x] = F[x]
        /\ \A x \in 1 .. Len(E) : G[Len(F) + x] = E[x]
    BY <1>2, <1>3, ListsJoined
  <1>14. \A d : Counted(E, d) \in Nat /\ Counted(G, d) = Counted(F, d) + Counted(E, d)
    BY <1>2, <1>3, JoinedCounts
  <1> HIDE DEF G
  <1>7. \A d \in {"in", "out"} : Counted(G, d) = v[d]
    BY <1>2, <1>3, <1>14
  <1>8. LineTyped(v, C, frame)
    <2>1. /\ l.in \in Nat /\ l.out \in Nat /\ DOMAIN l.since = DOMAIN l.last
          /\ \A id \in DOMAIN l.last : l.since[id] \in 0 .. frame - 1
      BY <1>3 DEF LineTyped
    <2>2. v.in \in Nat /\ v.out \in Nat
      <3>2. l["in"] \in Nat /\ l["out"] \in Nat
        BY <2>1
      <3>3. v["in"] \in Nat /\ v["out"] \in Nat
        BY <1>2, <1>14, <3>2
      <3> QED
        BY <3>3
    <2>3. \A id \in Ids(tracks) : v.since[id] \in 0 .. frame
      BY <1>2, <2>1
    <2> QED
      BY <1>1, <1>2, <1>4, <1>5, <2>2, <2>3 DEF LineTyped
  <1>9. \A m \in DOMAIN E : E[m].since \in 0 .. frame - 1
    <2>1. \A id \in DOMAIN l.last : l.since[id] \in 0 .. frame - 1
      BY <1>3 DEF LineTyped
    <2> QED
      BY <1>2, <1>4, <2>1
  <1>10. \A m \in DOMAIN G : \/ m \in DOMAIN F /\ G[m] = F[m]
                             \/ \E x \in DOMAIN E : m = Len(F) + x /\ G[m] = E[x]
    <2>1. SUFFICES ASSUME NEW m \in DOMAIN G
                   PROVE  \/ m \in DOMAIN F /\ G[m] = F[m]
                          \/ \E x \in DOMAIN E : m = Len(F) + x /\ G[m] = E[x]
      OBVIOUS
    <2>2. CASE m <= Len(F)
      BY <1>6, <2>2
    <2>3. CASE ~(m <= Len(F))
      <3>1. m - Len(F) \in 1 .. Len(E) /\ m = Len(F) + (m - Len(F))
        BY <1>6, <2>3
      <3> QED
        BY <1>6, <3>1
    <2> QED
      BY <2>2, <2>3
  <1>11. \A m \in DOMAIN G : G[m].since \in 0 .. frame
    <2>1. \A m \in DOMAIN G : G[m].since \in 0 .. frame - 1
      BY <1>3, <1>9, <1>10
    <2> QED
      BY <2>1
  <1>12. ASSUME Wide(C, line) PROVE Alternates(G)
    <2>1. SUFFICES ASSUME NEW a \in DOMAIN G, NEW b \in DOMAIN G, a < b, G[a].id = G[b].id,
                          G[a].since = G[b].since, \A c \in a + 1 .. b - 1 : G[c].id # G[a].id
                   PROVE  G[a].dir # G[b].dir
      BY DEF Alternates
    <2>2. CASE b \in DOMAIN F
      <3>1. a \in DOMAIN F /\ \A c \in a + 1 .. b - 1 : c \in DOMAIN F
        BY <1>6, <2>1, <2>2
      <3>2. G[a] = F[a] /\ G[b] = F[b] /\ \A c \in a + 1 .. b - 1 : G[c] = F[c]
        BY <1>6, <2>2, <3>1
      <3> QED
        BY <1>3, <1>12, <2>1, <2>2, <3>1, <3>2 DEF Alternates
    <2>3. CASE b \notin DOMAIN F
      <3>1. PICK x \in DOMAIN E : b = Len(F) + x /\ G[b] = E[x]
        BY <1>10, <2>3
      <3>2. a \in DOMAIN F /\ G[a] = F[a]
        <4>1. ASSUME NEW y \in DOMAIN E, a = Len(F) + y, G[a] = E[y] PROVE FALSE
          <5>1. x = y
            BY <1>2, <2>1, <3>1, <4>1
          <5> QED
            BY <1>6, <2>1, <3>1, <4>1, <5>1
        <4> QED
          BY <1>10, <4>1
      <3> DEFINE id == E[x].id
      <3>3. /\ id \in crossed /\ E[x].since = l.since[id] /\ E[x].dir = Side(line, at[id])
            /\ id \in Ids(tracks) /\ id \in DOMAIN l.last
        BY <1>2, <1>4
      <3>4. F[a].id = id /\ F[a].since = l.since[id]
        BY <2>1, <3>1, <3>2, <3>3
      <3>5. \A c \in DOMAIN F : c > a => F[c].id # F[a].id
        <4>1. \A c \in DOMAIN F : c > a => c \in a + 1 .. b - 1 /\ G[c] = F[c]
          BY <1>6, <2>1, <3>1, <3>2
        <4> QED
          BY <2>1, <3>2, <4>1
      <3>6. F[a].dir = Side(line, l.last[id])
        BY <1>3, <1>12, <3>2, <3>3, <3>4, <3>5 DEF LastSides
      <3>7. Side(line, l.last[id]) # Side(line, at[id])
        BY <3>3, CrossedSides DEF at, crossed
      <3> QED
        BY <3>1, <3>2, <3>3, <3>6, <3>7
    <2> QED
      BY <2>2, <2>3
  <1>13. ASSUME Wide(C, line) PROVE LastSides(G, v, line)
    <2>1. SUFFICES ASSUME NEW m \in DOMAIN G, G[m].id \in DOMAIN v.last, G[m].since = v.since[G[m].id],
                          \A c \in DOMAIN G : c > m => G[c].id # G[m].id
                   PROVE  G[m].dir = Side(line, v.last[G[m].id])
      BY DEF LastSides
    <2> DEFINE id == G[m].id
    <2>2. id \in Ids(tracks) /\ v.last[id] = at[id]
      BY <1>2, <1>4, <2>1
    <2>3. CASE \E x \in DOMAIN E : m = Len(F) + x /\ G[m] = E[x]
      BY <1>2, <2>2, <2>3
    <2>4. CASE m \in DOMAIN F /\ G[m] = F[m]
      <3>1. id \in DOMAIN l.last
        <4>1. G[m].since \in 0 .. frame - 1
          BY <1>3, <2>4
        <4>2. G[m].since # frame
          BY <4>1
        <4> QED
          BY <1>2, <2>1, <2>2, <4>2
      <3>2. F[m].id = id /\ F[m].since = l.since[id]
        BY <1>2, <2>1, <2>2, <2>4, <3>1
      <3>3. \A c \in DOMAIN F : c > m => F[c].id # F[m].id
        BY <1>6, <2>1, <2>4
      <3>4. F[m].dir = Side(line, l.last[id])
        BY <1>3, <1>13, <2>4, <3>1, <3>2, <3>3 DEF LastSides
      <3>5. id \notin crossed
        <4>1. SUFFICES ASSUME id \in crossed PROVE FALSE
          OBVIOUS
        <4>2. PICK x \in DOMAIN E : E[x].id = id
          BY <1>2, <4>1
        <4>3. Len(F) + x \in DOMAIN G /\ Len(F) + x > m /\ G[Len(F) + x] = E[x]
          BY <1>6, <2>4
        <4> QED
          BY <2>1, <4>2, <4>3
      <3>6. Side(line, l.last[id]) = Side(line, at[id])
        <4>1. l.last[id] \in C /\ at[id] \in C
          BY <1>3, <1>5, <2>2, <3>1 DEF LineTyped
        <4> HIDE DEF id
        <4> QED
          BY <1>13, <2>2, <3>1, <3>5, <4>1, CrossedSides DEF at, crossed
      <3> QED
        BY <2>2, <2>4, <3>4, <3>6
    <2> QED
      BY <1>10, <2>3, <2>4
  <1> QED
    BY <1>2, <1>6, <1>7, <1>8, <1>11, <1>12, <1>13 DEF Tells, E, v, G, u

(* Before the first frame there is nothing to tell.                        *)
LEMMA NothingToTell ==
  ASSUME NEW line, NEW C, NEW top
  PROVE  Tells(<<>>, NoLine, line, C, top)
  <1>1. IsSequence(<<>>)
    BY DEF IsSequence
  <1>2. \A d : {m \in DOMAIN <<>> : <<>>[m].dir = d} = {}
    OBVIOUS
  <1>3. LineTyped(NoLine, C, top)
    BY DEF LineTyped, NoLine
  <1>4. \A d \in {"in", "out"} : NoLine[d] = 0
    BY DEF NoLine
  <1> QED
    BY <1>1, <1>2, <1>3, <1>4, FS_EmptySet DEF Tells, Counted, Alternates, LastSides

(* Time passes.                                                            *)
LEMMA StillTells ==
  ASSUME NEW F, NEW l, NEW line, NEW C, NEW top \in Int, NEW later \in Int, top <= later,
         Tells(F, l, line, C, top)
  PROVE  Tells(F, l, line, C, later)
  <1>1. \A x \in 0 .. top : x \in 0 .. later
    OBVIOUS
  <1> QED
    BY <1>1 DEF Tells, LineTyped
(***************************************************************************)
(* What a chain does to the packet of a frame.                             *)
(***************************************************************************)

StageTypes == {"detect", "count", "motion_gate", "track", "line_crossing"}

SameTracks(p, q) ==
  p.tracks = q.tracks /\ p.unique = q.unique /\ ("tracks" \in p.has <=> "tracks" \in q.has)

SameCrossings(p, q) ==
  /\ p.events = q.events /\ p.in = q.in /\ p.out = q.out
  /\ ("crossings" \in p.has <=> "crossings" \in q.has)

(* What each stage leaves of the packet, and of its own state.             *)
StageLeaves(item, st, packet, frame, s) ==
  /\ s.packet.dets \in {packet.dets, frame.dets}
  /\ s.verdict # "SUCCESS" => s.packet = packet
  /\ item.type # "track" => SameTracks(s.packet, packet)
  /\ item.type # "line_crossing" => SameCrossings(s.packet, packet)
  /\ item.type = "track" =>
        IF s.verdict # "SUCCESS" THEN s.st = st
        ELSE LET u == TrackerUpdate(st, packet.dets, Threshold, Param(item, "max_age", 30))
             IN  /\ s.st = u.tracker /\ "tracks" \in s.packet.has
                 /\ s.packet.tracks = u.out /\ s.packet.unique = u.tracker.next
  /\ item.type = "line_crossing" =>
        IF "tracks" \notin packet.has THEN s.st = st /\ s.verdict = "ERROR"
        ELSE LET u == LineUpdate(st, packet.tracks, LineOf(item), n.read)
             IN  /\ s.verdict = "SUCCESS" /\ s.st = u.line /\ "crossings" \in s.packet.has
                 /\ s.packet.events = u.events /\ s.packet.in = u.line.in /\ s.packet.out = u.line.out

LEMMA StageDoes ==
  ASSUME NEW item, item.type \in StageTypes, NEW st, NEW packet, PacketTyped(packet), NEW frame
  PROVE  StageLeaves(item, st, packet, frame, StageStep(item, st, packet, frame))
  <1> DEFINE s == StageStep(item, st, packet, frame)
  <1>1. /\ \A x, p : Did(x, p).packet = p /\ Did(x, p).st = x /\ Did(x, p).verdict = "SUCCESS"
        /\ \A x, p : Failed(x, p).packet = p /\ Failed(x, p).st = x /\ Failed(x, p).verdict = "ERROR"
    BY DEF Did, Failed
  <1>2. \A name : DOMAIN Having(packet, name) = DOMAIN packet
    BY DEF Having
  <1>3. \A name : LET h == Having(packet, name)
                  IN  /\ h.has = packet.has \cup {name} /\ h.dets = packet.dets /\ h.tracks = packet.tracks
                      /\ h.events = packet.events /\ h.unique = packet.unique
                      /\ h.in = packet.in /\ h.out = packet.out
    BY DEF Having, PacketTyped
  <1>4. CASE item.type = "detect"
    <2>1. CASE frame.fails
      <3>1. s = Failed(st, packet)
        <4>1. s = IF frame.fails THEN Failed(st, packet)
                  ELSE Did(st, [Having(packet, "detections") EXCEPT !.dets = frame.dets])
          BY <1>4, StageIsDetect
        <4> HIDE DEF s
        <4> QED
          BY <2>1, <4>1
      <3> HIDE DEF s
      <3>2. s.packet = packet /\ s.verdict = "ERROR"
        BY <1>1, <3>1
      <3> QED
        BY <1>4, <3>2 DEF StageLeaves, SameTracks, SameCrossings, s
    <2>2. CASE ~frame.fails
      <3> DEFINE h == Having(packet, "detections")
                 p == [h EXCEPT !.dets = frame.dets]
      <3>1. s = Did(st, p)
        BY <1>4, <2>2, StageIsDetect
      <3> HIDE DEF s
      <3>2. s.packet = p /\ s.verdict = "SUCCESS"
        <4> HIDE DEF p
        <4> QED
          BY <1>1, <3>1
      <3>3. /\ h.has = packet.has \cup {"detections"} /\ h.tracks = packet.tracks
            /\ h.events = packet.events /\ h.unique = packet.unique /\ h.in = packet.in /\ h.out = packet.out
            /\ DOMAIN h = {"has", "dets", "tracks", "events", "unique", "in", "out"}
        BY <1>2, <1>3 DEF PacketTyped
      <3> HIDE DEF h
      <3>4. p.dets = frame.dets /\ SameTracks(p, packet) /\ SameCrossings(p, packet)
        BY <3>3 DEF SameTracks, SameCrossings
      <3> HIDE DEF p
      <3> QED
        BY <1>4, <3>2, <3>4 DEF StageLeaves, s
    <2> QED
      BY <2>1, <2>2
  <1>5. CASE item.type = "count"
    <2> DEFINE h == Having(packet, "count")
    <2>1. s = Failed(st, packet) \/ s = Did(st, h)
      BY <1>5, StageIsCount
    <2>2. SameTracks(h, packet) /\ SameCrossings(h, packet) /\ h.dets = packet.dets
      BY <1>3 DEF SameTracks, SameCrossings
    <2> HIDE DEF s, h
    <2>3. s.packet = packet \/ (s.verdict = "SUCCESS" /\ s.packet = h)
      BY <1>1, <2>1
    <2> QED
      BY <1>5, <2>2, <2>3 DEF StageLeaves, SameTracks, SameCrossings, s
  <1>6. CASE item.type = "motion_gate"
    <2>1. s.packet = packet
      BY <1>6, StageIsGate
    <2> HIDE DEF s
    <2> QED
      BY <1>6, <2>1 DEF StageLeaves, SameTracks, SameCrossings, s
  <1>7. CASE item.type = "track"
    <2>1. CASE "detections" \notin packet.has
      <3>1. s = Failed(st, packet)
        BY <1>7, <2>1, StageIsTrack
      <3> HIDE DEF s
      <3>2. s.packet = packet /\ s.verdict = "ERROR" /\ s.st = st
        BY <1>1, <3>1
      <3> QED
        BY <1>7, <3>2 DEF StageLeaves, SameTracks, SameCrossings, s
    <2>2. CASE "detections" \in packet.has
      <3> DEFINE u == TrackerUpdate(st, packet.dets, Threshold, Param(item, "max_age", 30))
                 h == Having(packet, "tracks")
                 p == [h EXCEPT !.tracks = u.out, !.unique = u.tracker.next]
      <3>1. s = Tracked(packet, u)
        BY <1>7, <2>2, StageIsTrack
      <3> HIDE DEF s, u
      <3>2. s = Did(u.tracker, p)
        BY <3>1 DEF Tracked
      <3>3. /\ h.has = packet.has \cup {"tracks"} /\ h.dets = packet.dets
            /\ h.events = packet.events /\ h.in = packet.in /\ h.out = packet.out
            /\ DOMAIN h = {"has", "dets", "tracks", "events", "unique", "in", "out"}
        BY <1>2, <1>3 DEF PacketTyped
      <3> HIDE DEF h
      <3>4. /\ p.dets = packet.dets /\ SameCrossings(p, packet) /\ "tracks" \in p.has
            /\ p.tracks = u.out /\ p.unique = u.tracker.next
        BY <3>3 DEF SameCrossings
      <3> HIDE DEF p
      <3>5. s.packet = p /\ s.verdict = "SUCCESS" /\ s.st = u.tracker
        BY <1>1, <3>2
      <3>6. StageLeaves(item, st, packet, frame, s)
        BY <1>7, <3>4, <3>5 DEF StageLeaves, u
      <3> QED
        BY <3>6 DEF s
    <2> QED
      BY <2>1, <2>2
  <1>8. CASE item.type = "line_crossing"
    <2>1. CASE "tracks" \notin packet.has
      <3>1. s = Failed(st, packet)
        BY <1>8, <2>1, StageIsLine
      <3> HIDE DEF s
      <3>2. s.packet = packet /\ s.verdict = "ERROR" /\ s.st = st
        BY <1>1, <3>1
      <3> QED
        BY <1>8, <2>1, <3>2 DEF StageLeaves, SameTracks, SameCrossings, s
    <2>2. CASE "tracks" \in packet.has
      <3> DEFINE u == LineUpdate(st, packet.tracks, LineOf(item), n.read)
                 h == Having(packet, "crossings")
                 p == [h EXCEPT !.events = u.events, !.in = u.line.in, !.out = u.line.out]
      <3>1. s = Lined(packet, u)
        BY <1>8, <2>2, StageIsLine
      <3> HIDE DEF s, u
      <3>2. s = Did(u.line, p)
        BY <3>1 DEF Lined
      <3>3. /\ h.has = packet.has \cup {"crossings"} /\ h.dets = packet.dets
            /\ h.tracks = packet.tracks /\ h.unique = packet.unique
            /\ DOMAIN h = {"has", "dets", "tracks", "events", "unique", "in", "out"}
        BY <1>2, <1>3 DEF PacketTyped
      <3> HIDE DEF h
      <3>4. /\ p.dets = packet.dets /\ SameTracks(p, packet) /\ "crossings" \in p.has
            /\ p.events = u.events /\ p.in = u.line.in /\ p.out = u.line.out
        BY <3>3 DEF SameTracks
      <3> HIDE DEF p
      <3>5. s.packet = p /\ s.verdict = "SUCCESS" /\ s.st = u.line
        BY <1>1, <3>2
      <3>6. StageLeaves(item, st, packet, frame, s)
        BY <1>8, <2>2, <3>4, <3>5 DEF StageLeaves, u
      <3> QED
        BY <3>6 DEF s
    <2> QED
      BY <2>1, <2>2
  <1> QED
    BY <1>4, <1>5, <1>6, <1>7, <1>8 DEF StageTypes

(* What is detected in a frame is somewhere in the scene.                  *)
LEMMA FrameSeen ==
  ASSUME SliceTyped, UnderWay, pc = "execute", NEW d \in DOMAIN Frame.dets
  PROVE  Centre(Frame.dets[d].box) \in Centres
  <1>1. PICK f \in DOMAIN W.scene : Frame = W.scene[f]
    BY FrameTyped
  <1>2. d \in DOMAIN W.scene[f].dets /\ Frame.dets[d] = W.scene[f].dets[d]
    BY <1>1
  <1> QED
    BY <1>2 DEF Centres

(* The command line puts its tracker behind the detector, and its line last. *)
LEMMA ChainOfArgs ==
  ASSUME NEW a, NEW s, s = StagesOfArgs(a)
  PROVE  /\ \A l \in DOMAIN s : s[l].type = "line_crossing" => l = Len(s)
         /\ \A t, j \in DOMAIN s : s[t].type = "track" /\ j > t => s[j].type = "line_crossing"
         /\ a.track => \E t \in DOMAIN s : s[t].type = "track"
  <1> DEFINE g == Item("motion_gate", [max_consecutive_skip |-> a.gateMaxSkip])
             d == Item("detect", NoParams)
             c == Item("count", NoParams)
             t == Item("track", [max_age |-> a.maxAge])
             l == Item("line_crossing", a.line)
             s1 == Chosen(a.gate, g)
             s2 == <<d, c>>
             s3 == Chosen(a.track, t)
             s4 == Chosen(a.line # NoParams, l)
             s12 == s1 \o s2
             s123 == s12 \o s3
  <1>1. s = s123 \o s4
    BY DEF StagesOfArgs
  <1>2. /\ g.type = "motion_gate" /\ d.type = "detect" /\ c.type = "count"
        /\ t.type = "track" /\ l.type = "line_crossing"
    BY DEF Item
  <1>3. \A flag, item : /\ IsSequence(Chosen(flag, item))
                        /\ Len(Chosen(flag, item)) = (IF flag THEN 1 ELSE 0)
                        /\ \A x \in DOMAIN Chosen(flag, item) : Chosen(flag, item)[x] = item
    <2>1. SUFFICES ASSUME NEW flag, NEW item
                   PROVE  /\ IsSequence(Chosen(flag, item))
                          /\ Len(Chosen(flag, item)) = (IF flag THEN 1 ELSE 0)
                          /\ \A x \in DOMAIN Chosen(flag, item) : Chosen(flag, item)[x] = item
      OBVIOUS
    <2>2. CASE flag
      <3>1. Chosen(flag, item) = <<item>>
        BY <2>2 DEF Chosen
      <3>2. /\ IsSequence(<<item>>) /\ Len(<<item>>) = 1 /\ \A x \in DOMAIN <<item>> : <<item>>[x] = item
        BY DEF IsSequence
      <3> QED
        BY <2>2, <3>1, <3>2
    <2>3. CASE ~flag
      <3>1. Chosen(flag, item) = <<>>
        BY <2>3 DEF Chosen
      <3>2. IsSequence(<<>>) /\ Len(<<>>) = 0 /\ DOMAIN <<>> = {}
        BY DEF IsSequence
      <3> QED
        BY <2>3, <3>1, <3>2
    <2> QED
      BY <2>2, <2>3
  <1>4. /\ IsSequence(s2) /\ Len(s2) = 2 /\ \A x \in DOMAIN s2 : s2[x] \in {d, c}
    BY DEF IsSequence
  <1> HIDE DEF g, d, c, t, l, s2
  <1>5. /\ IsSequence(s1) /\ (\A x \in DOMAIN s1 : s1[x] = g)
        /\ IsSequence(s3) /\ Len(s3) = (IF a.track THEN 1 ELSE 0) /\ (\A x \in DOMAIN s3 : s3[x] = t)
        /\ IsSequence(s4) /\ Len(s4) \in 0 .. 1 /\ (\A x \in DOMAIN s4 : s4[x] = l)
    BY <1>3
  <1> HIDE DEF s1, s3, s4
  <1>6. /\ IsSequence(s12) /\ Len(s12) \in Nat /\ \A x \in 1 .. Len(s12) : s12[x] \in {g, d, c}
    <2>1. /\ Len(s1) \in Nat /\ Len(s2) \in Nat /\ DOMAIN s1 = 1 .. Len(s1) /\ DOMAIN s2 = 1 .. Len(s2)
          /\ IsSequence(s12) /\ Len(s12) = Len(s1) + Len(s2)
          /\ \A x \in 1 .. Len(s1) : s12[x] = s1[x]
          /\ \A x \in 1 .. Len(s2) : s12[Len(s1) + x] = s2[x]
      <3>1. IsSequence(s1) /\ IsSequence(s2)
        BY <1>4, <1>5
      <3> QED
        BY <3>1, ListsJoined
    <2> HIDE DEF s12
    <2>2. ASSUME NEW x \in 1 .. Len(s12) PROVE s12[x] \in {g, d, c}
      <3>1. CASE x <= Len(s1)
        BY <1>5, <2>1, <3>1
      <3>2. CASE ~(x <= Len(s1))
        <4> DEFINE y == x - Len(s1)
        <4>1. y \in 1 .. Len(s2) /\ x = Len(s1) + y
          BY <2>1, <2>2, <3>2
        <4> HIDE DEF y
        <4> QED
          BY <1>4, <2>1, <4>1
      <3> QED
        BY <3>1, <3>2
    <2> QED
      BY <2>1, <2>2
  <1> HIDE DEF s12
  <1>14. PICK m \in Nat : m = Len(s12)
    BY <1>6
  <1>15. PICK p \in 0 .. 1 : p = Len(s3)
    BY <1>5
  <1>16. PICK q \in 0 .. 1 : q = Len(s4)
    BY <1>5
  <1>7. /\ IsSequence(s123) /\ Len(s123) = m + p
        /\ \A x \in 1 .. m : s123[x] = s12[x]
        /\ \A x \in 1 .. p : s123[m + x] = s3[x]
        /\ DOMAIN s3 = 1 .. p
    BY <1>5, <1>6, <1>14, <1>15, ListsJoined
  <1> HIDE DEF s123
  <1>8. /\ DOMAIN s = 1 .. Len(s) /\ Len(s) = m + p + q
        /\ \A x \in 1 .. Len(s123) : s[x] = s123[x]
        /\ \A x \in 1 .. q : s[Len(s123) + x] = s4[x]
        /\ DOMAIN s4 = 1 .. q
    <2>1. IsSequence(s123) /\ IsSequence(s4) /\ Len(s123) = m + p /\ Len(s4) = q
      BY <1>5, <1>7, <1>16
    <2> DEFINE j == s123 \o s4
    <2>2. /\ DOMAIN s4 = 1 .. Len(s4) /\ DOMAIN j = 1 .. Len(s123) + Len(s4) /\ Len(j) = Len(s123) + Len(s4)
          /\ \A x \in 1 .. Len(s123) : j[x] = s123[x]
          /\ \A x \in 1 .. Len(s4) : j[Len(s123) + x] = s4[x]
      BY <2>1, ListsJoined
    <2>3. s = j
      BY <1>1
    <2> HIDE DEF j
    <2> QED
      BY <2>1, <2>2, <2>3
  <1> HIDE DEF s123
  <1>9. ASSUME NEW x \in DOMAIN s
        PROVE  \/ x <= m /\ s[x] \in {g, d, c}
               \/ x = m + 1 /\ p = 1 /\ s[x] = t
               \/ x = m + p + 1 /\ q = 1 /\ s[x] = l
    <2>1. x \in 1 .. m + p + q /\ Len(s123) = m + p
      BY <1>7, <1>8, <1>9
    <2>2. CASE x <= m
      <3>1. x \in 1 .. m /\ x \in 1 .. Len(s123)
        BY <2>1, <2>2
      <3> QED
        BY <1>6, <1>7, <1>8, <1>14, <2>2, <3>1
    <2>3. CASE x > m /\ x <= m + p
      <3>1. x = m + 1 /\ p = 1 /\ x \in 1 .. Len(s123) /\ 1 \in 1 .. p
        BY <2>1, <2>3
      <3>2. s[x] = s123[x] /\ s123[x] = s3[1]
        BY <1>7, <1>8, <3>1
      <3> QED
        BY <1>5, <1>7, <3>1, <3>2
    <2>4. CASE x > m + p
      <3>1. x = m + p + 1 /\ q = 1 /\ 1 \in 1 .. q
        BY <2>1, <2>4
      <3>2. s[x] = s4[1]
        BY <1>8, <2>1, <3>1
      <3> QED
        BY <1>5, <1>8, <3>1, <3>2
    <2> QED
      BY <2>1, <2>2, <2>3, <2>4
  <1>11. ASSUME a.track PROVE \E x \in DOMAIN s : s[x].type = "track"
    <2>1. p = 1
      BY <1>5, <1>11, <1>15
    <2>2. m + 1 \in DOMAIN s /\ m + 1 \in 1 .. Len(s123) /\ 1 \in 1 .. p
      BY <1>7, <1>8, <2>1
    <2>3. s[m + 1] = s3[1] /\ s3[1] = t
      BY <1>5, <1>7, <1>8, <2>2
    <2> QED
      BY <1>2, <2>2, <2>3
  <1>12. \A x \in DOMAIN s : s[x].type = "line_crossing" => x = Len(s)
    BY <1>2, <1>8, <1>9
  <1>13. \A x, y \in DOMAIN s : s[x].type = "track" /\ y > x => s[y].type = "line_crossing"
    <2>1. SUFFICES ASSUME NEW x \in DOMAIN s, NEW y \in DOMAIN s, s[x].type = "track", y > x
                   PROVE  s[y].type = "line_crossing"
      OBVIOUS
    <2>2. x = m + 1
      BY <1>2, <1>9, <2>1
    <2>3. y > m + 1 /\ ~(y <= m)
      BY <1>8, <2>1, <2>2
    <2> QED
      BY <1>2, <1>9, <2>3
  <1> QED
    BY <1>11, <1>12, <1>13

(* What a sink is: a file of a known kind, or the summary of the command    *)
(* line, which comes last.                                                 *)
FileKinds == {"jsonl", "crossing_events", "crossing_events_sqlite"}

LEMMA SinksKnown ==
  ASSUME SliceTyped, UnderWay, Place \in Running
  PROVE  /\ IsSequence(SinkKinds) /\ Len(SinkKinds) \in Nat /\ DOMAIN SinkKinds = 1 .. Len(SinkKinds)
         /\ \A j \in DOMAIN SinkKinds :
               IF app.mode = "cli" /\ app.args.track /\ j = Len(SinkKinds)
               THEN SinkKinds[j] = "summary" ELSE SinkKinds[j] \in FileKinds
         /\ app.mode = "cli" /\ app.args.track => Len(SinkKinds) >= 1
  <1>1. app \in Apps /\ i \in DOMAIN Pipelines /\ Valid(P)
    BY DEF SliceTyped, UnderWay, Under, Place, Running, Returns
  <1> DEFINE kinds == [j \in DOMAIN P.sinks |-> P.sinks[j].type]
             more == IF app.mode = "cli" /\ app.args.track THEN <<"summary">> ELSE <<>>
  <1>2. IsSequence(P.sinks) /\ Len(P.sinks) \in Nat /\ DOMAIN P.sinks = 1 .. Len(P.sinks)
    BY <1>1, PipelineShape, LenProperties DEF IsSequence
  <1>3. \A j \in DOMAIN P.sinks : P.sinks[j].type \in FileKinds
    BY <1>1 DEF Valid, Accepted, Known, Registry, FileKinds
  <1>4. /\ IsSequence(kinds) /\ Len(kinds) = Len(P.sinks) /\ DOMAIN kinds = DOMAIN P.sinks
        /\ \A j \in DOMAIN kinds : kinds[j] \in FileKinds
    <2>1. kinds \in [1 .. Len(P.sinks) -> {kinds[j] : j \in DOMAIN kinds}]
      BY <1>2
    <2>2. DOMAIN kinds = DOMAIN P.sinks /\ \A j \in DOMAIN kinds : kinds[j] \in FileKinds
      BY <1>3
    <2> HIDE DEF kinds
    <2> QED
      BY <1>2, <2>1, <2>2, FunctionIsSequence DEF IsSequence
  <1>5. SinkKinds = kinds \o more
    BY DEF SinkKinds
  <1>6. CASE app.mode = "cli" /\ app.args.track
    <2>1. IsSequence(<<"summary">>) /\ Len(<<"summary">>) = 1 /\ <<"summary">>[1] = "summary"
      BY DEF IsSequence
    <2> DEFINE one == <<"summary">>
    <2>2. SinkKinds = kinds \o one
      BY <1>5, <1>6
    <2>5. IsSequence(one)
      BY <2>1
    <2> HIDE DEF kinds, one
    <2>3. /\ IsSequence(kinds \o one) /\ Len(kinds) \in Nat
          /\ DOMAIN (kinds \o one) = 1 .. Len(kinds) + 1 /\ Len(kinds \o one) = Len(kinds) + 1
          /\ \A x \in 1 .. Len(kinds) : (kinds \o one)[x] = kinds[x]
          /\ (kinds \o one)[Len(kinds) + 1] = "summary"
      BY <1>4, <2>1, ListsJoined DEF one
    <2>4. \A j \in 1 .. Len(kinds) + 1 : j # Len(kinds) + 1 => j \in 1 .. Len(kinds)
      BY <2>3
    <2> DEFINE all == kinds \o one
    <2>6. /\ IsSequence(all) /\ Len(all) = Len(kinds) + 1 /\ DOMAIN all = 1 .. Len(kinds) + 1
          /\ \A x \in 1 .. Len(kinds) : all[x] = kinds[x]
          /\ all[Len(kinds) + 1] = "summary"
      BY <2>3
    <2>7. SinkKinds = all /\ DOMAIN kinds = 1 .. Len(kinds)
      BY <1>2, <1>4, <2>2
    <2>8. Len(kinds) \in Nat
      BY <2>3
    <2> HIDE DEF all
    <2>9. \A j \in DOMAIN all : IF j = Len(all) THEN all[j] = "summary" ELSE all[j] \in FileKinds
      BY <1>4, <2>4, <2>6, <2>7
    <2> QED
      BY <1>6, <2>6, <2>7, <2>8, <2>9
  <1>7. CASE ~(app.mode = "cli" /\ app.args.track)
    <2>1. IsSequence(<<>>) /\ Len(<<>>) = 0
      BY DEF IsSequence
    <2> DEFINE none == <<>>
    <2>2. SinkKinds = kinds \o none
      BY <1>5, <1>7
    <2> HIDE DEF kinds, none
    <2>3. /\ IsSequence(kinds \o none) /\ Len(kinds) \in Nat
          /\ DOMAIN (kinds \o none) = 1 .. Len(kinds) /\ Len(kinds \o none) = Len(kinds)
          /\ \A x \in 1 .. Len(kinds) : (kinds \o none)[x] = kinds[x]
      BY <1>4, <2>1, ListsJoined DEF none
    <2> QED
      BY <1>2, <1>4, <1>7, <2>2, <2>3
  <1> QED
    BY <1>6, <1>7

(***************************************************************************)
(* What is told of a run.                                                  *)
(***************************************************************************)

(* From the setup of a run until its files are as they stay.               *)
Standing == Running \cup {"unsink", "unstage", "unsource"}

CrossingKinds == {"crossing_events", "crossing_events_sqlite"}
FilesOf(kinds) == {j \in DOMAIN SinkKinds : SinkKinds[j] \in kinds}

(* The crossings of the frame on its way, those of them that are not yet in *)
(* a file, and with the file all that is told.                             *)
Earned == IF result.verdict = "SUCCESS" THEN result.packet.events ELSE <<>>
Owed(j) == IF Place = "handle" /\ k <= j THEN Earned ELSE <<>>
Told(j) == out.files[j] \o (IF pc = "execute" THEN Earned ELSE Owed(j))

FilesTyped ==
  Place \in Standing =>
     /\ DOMAIN out = {"files", "summary"} /\ DOMAIN out.files = DOMAIN SinkKinds
     /\ \A j \in DOMAIN SinkKinds : IsSequence(out.files[j])

(* The packet of a frame has lists of what is somewhere in the scene, and   *)
(* identities the tracker has given out.                                   *)
TracksSeen(tracks) ==
  /\ IsSequence(tracks)
  /\ \A j \in DOMAIN tracks : Centre(tracks[j].box) \in Centres /\ tracks[j].id \in seen
  /\ \A j, l \in DOMAIN tracks : tracks[j].id = tracks[l].id => j = l

PacketSeen ==
  /\ Place \in {"execute", "handle"} => IsSequence(result.packet.events)
  /\ pc = "execute" =>
        /\ \A d \in DOMAIN result.packet.dets : Centre(result.packet.dets[d].box) \in Centres
        /\ TracksSeen(result.packet.tracks)

(* Nothing is told of a line before the end of the chain.                  *)
LineWaits ==
  pc = "execute" /\ LineEnds /\ k <= Len(P.stages) =>
     result.packet.events = <<>> /\ "crossings" \notin result.packet.has

(* The event files agree but for what is owed, and the frame log has a line *)
(* per frame processed.                                                    *)
FilesAgree ==
  Place \in Running =>
     /\ \A j, l \in FilesOf(CrossingKinds) : out.files[j] \o Owed(j) = out.files[l] \o Owed(l)
     /\ \A j \in FilesOf({"jsonl"}) :
           Len(out.files[j]) + (IF Place = "handle" /\ k <= j /\ result.verdict = "SUCCESS" THEN 1 ELSE 0)
             = n.processed

(* What is told is what the line has counted up to the last frame it saw.  *)
Top == IF pc = "execute" /\ k <= Len(P.stages) THEN n.read - 1 ELSE n.read

LinesTold ==
  Place \in Running /\ LineEnds =>
     \A j \in FilesOf(CrossingKinds), l \in StagesOf("line_crossing") :
        Tells(Told(j), stages[l], LineOf(P.stages[l]), Centres, Top)

Alternating ==
  LineEnds =>
     \A j \in FilesOf(CrossingKinds), l \in StagesOf("line_crossing") :
        Across(LineOf(P.stages[l])) => Alternates(out.files[j])

FilesAlternate == Place \in Standing \ Running => Alternating

(* The summary has the counts of the stages, or they are on their way to it. *)
Pending == Place = "execute" \/ (Place = "handle" /\ k <= Len(SinkKinds))

IdsTold(t) ==
  /\ stages[t].next \in Nat /\ seen = 0 .. stages[t].next - 1
  /\ pc = "execute" /\ k <= t => "tracks" \notin result.packet.has
  /\ IF Pending /\ "tracks" \in result.packet.has
     THEN result.verdict = "SUCCESS" /\ result.packet.unique = stages[t].next
     ELSE out.summary.unique = stages[t].next

CountsTold(l) ==
  IF Pending /\ "crossings" \in result.packet.has
  THEN /\ result.verdict = "SUCCESS"
       /\ result.packet.in = stages[l].in /\ result.packet.out = stages[l].out
  ELSE out.summary.in = stages[l].in /\ out.summary.out = stages[l].out

SummaryTold ==
  Place \in Running /\ app.mode = "cli" /\ app.args.track =>
     /\ \A t \in StagesOf("track") : IdsTold(t)
     /\ \A l \in StagesOf("line_crossing") : CountsTold(l)

RunTold ==
  FilesTyped /\ PacketSeen /\ LineWaits /\ FilesAgree /\ LinesTold /\ FilesAlternate /\ SummaryTold

(* What a step does to a run: nothing that is told, or one of these.       *)
RunRests ==
  (Place \in Standing)' =>
     /\ Place \in Standing /\ UNCHANGED <<i, out>>
     /\ (Place \in Running)' =>
           /\ Place \in Running /\ UNCHANGED <<stages, result, seen>>
           /\ n'.read = n.read /\ n'.processed = n.processed
           /\ \/ Place' = Place /\ k' = k /\ (pc' = "execute" <=> pc = "execute")
              \/ /\ Place' \notin {"execute", "handle"} /\ pc' # "execute"
                 /\ pc # "execute" /\ (Place = "handle" => k > Len(SinkKinds))

RunBegins ==
  /\ pc' = "setup" /\ i' = i /\ Valid(P)
  /\ stages' = [j \in DOMAIN P.stages |-> NewStage(P.stages[j])]
  /\ out' = [files |-> [j \in DOMAIN SinkKinds |-> <<>>], summary |-> NoSummary]
  /\ n' = NoCounts /\ seen' = {} /\ Place # "execute"

FrameComes ==
  /\ pc = "read" /\ pc' = "execute" /\ k' = 1 /\ result' = NewResult
  /\ n'.read = n.read + 1 /\ n'.processed = n.processed
  /\ UNCHANGED <<i, stages, out, seen>>

FrameGoes ==
  /\ pc = "execute" /\ (k > Len(P.stages) \/ result.verdict # "SUCCESS")
  /\ pc' # "execute" /\ Place' = "handle" /\ k' = 1 /\ n' = Tally(result.verdict)
  /\ UNCHANGED <<i, stages, out, seen, result>>

RowsWritten ==
  /\ pc = "handle" /\ pc' = "handle" /\ k <= Len(SinkKinds) /\ k' = k + 1
  /\ out' = [files |-> [out.files EXCEPT ![k] = @ \o Rows(SinkKinds[k])],
             summary |-> IF SinkKinds[k] = "summary" THEN Summary(out.summary) ELSE out.summary]
  /\ UNCHANGED <<i, stages, seen, n, result>>

RowsCut ==
  /\ pc = "handle" /\ pc' = "unsink" /\ k <= Len(SinkKinds)
  /\ \E m \in 0 .. Len(Rows(SinkKinds[k])) :
        out' = [out EXCEPT !.files[k] = @ \o SubSeq(Rows(SinkKinds[k]), 1, m)]
  /\ UNCHANGED i

LEMMA RunSteps ==
  ASSUME SliceTyped, UnderWay, FramesCounted, [Next]_vars
  PROVE  /\ UNCHANGED <<app, Pipelines>>
         /\ \/ RunRests \/ RunBegins \/ FrameComes \/ ExecuteStage \/ FrameGoes
            \/ RowsWritten \/ RowsCut
  <1> USE DEF SliceTyped, Returns, None, Place, Running, Standing
  <1>0. UNCHANGED <<app, Pipelines>>
    BY OfOneApp
  <1> SUFFICES RunRests \/ RunBegins \/ FrameComes \/ ExecuteStage \/ FrameGoes \/ RowsWritten \/ RowsCut
    BY <1>0
  <1>1. CASE Load
    BY <1>1 DEF Load, Exit, runVars, RunRests
  <1>2. CASE Observe
    BY <1>2 DEF Observe, Exit, runVars, RunRests
  <1>3. CASE Build
    <2>1. RunRests \/ pc' = "setup"
      BY <1>3, BuildDoes DEF RunRests
    <2>2. ASSUME pc' = "setup" PROVE RunBegins
      <3>1. pc = "build" /\ i' = i /\ Valid(P) /\ n' = NoCounts
        BY <1>3, <2>2, BuildDoes
      <3>2. /\ stages' = [j \in DOMAIN P.stages |-> NewStage(P.stages[j])]
            /\ out' = [files |-> [j \in DOMAIN SinkKinds |-> <<>>], summary |-> NoSummary]
            /\ seen' = {}
        BY <1>3, <2>2 DEF Build, BuildFailed, Exit
      <3> QED
        BY <2>2, <3>1, <3>2 DEF RunBegins
    <2> QED
      BY <2>1, <2>2
  <1>4. CASE SetupSource
    BY <1>4 DEF SetupSource, EmitThen, RunRests
  <1>5. CASE SetupStage
    BY <1>5 DEF SetupStage, runVars, RunRests
  <1>6. CASE SetupSink
    BY <1>6 DEF SetupSink, runVars, RunRests
  <1>7. CASE Loop
    BY <1>7 DEF Loop, EmitThen, runVars, RunRests
  <1>8. CASE ReadGood \/ ReadBad
    <2>1. PICK ok : Read(ok)
      BY <1>8 DEF ReadGood, ReadBad
    <2> DEFINE r == ReadSource(SourceSpec, src, ok, MaxCount)
    <2>2. pc = "read" /\ r.status \in {"EOF", "ERROR", "RECONNECTING", "FRAME"}
      BY <2>1, SourceAnswers DEF Read
    <2>3. /\ IF r.status = "FRAME" THEN k' = 1 /\ result' = NewResult ELSE UNCHANGED <<k, result>>
          /\ r.status = "EOF" => /\ n' = [n EXCEPT !.eof = Bump(@)]
                                 /\ pc' = IF IsFinite(SourceSpec, r.src) THEN "unsink" ELSE "loop"
          /\ r.status = "ERROR" => n' = [n EXCEPT !.srcErrors = Bump(@)] /\ pc' = "loop"
          /\ r.status = "RECONNECTING" => pc' = "loop" /\ UNCHANGED n
          /\ r.status = "FRAME" => n' = [n EXCEPT !.read = @ + 1] /\ pc' = "execute"
          /\ UNCHANGED <<ret, i, stages, out, seen>>
      BY <2>1, Zenon DEF Read
    <2>4. DOMAIN n = {"read", "processed", "skipped", "errors", "eof", "srcErrors"}
      BY DEF Counts
    <2> HIDE DEF r
    <2>5. CASE r.status = "FRAME"
      BY <2>2, <2>3, <2>4, <2>5 DEF FrameComes
    <2>6. CASE r.status # "FRAME"
      <3>1. n'.read = n.read /\ n'.processed = n.processed
        BY <2>2, <2>3, <2>4, <2>6
      <3>2. pc' \in {"unsink", "loop"}
        BY <2>2, <2>3, <2>6
      <3> QED
        BY <2>2, <2>3, <2>6, <3>1, <3>2 DEF RunRests
    <2> QED
      BY <2>5, <2>6
  <1>9. CASE ExecuteStage
    BY <1>9
  <1>10. CASE Executed
    BY <1>10 DEF Executed, EmitThen, FrameGoes
  <1>11. CASE Handle
    <2>1. pc = "handle" /\ UNCHANGED <<i, ret, stages, seen, n, result>>
      BY <1>11, Zenon DEF Handle
    <2>2. \/ k > Len(SinkKinds) /\ pc' = "loop" /\ UNCHANGED <<left, k, exc, out>>
          \/ /\ k <= Len(SinkKinds) /\ k' = k + 1
             /\ out' = [files |-> [out.files EXCEPT ![k] = @ \o Rows(SinkKinds[k])],
                        summary |-> IF SinkKinds[k] = "summary" THEN Summary(out.summary) ELSE out.summary]
             /\ UNCHANGED <<left, pc, exc>>
          \/ /\ k <= Len(SinkKinds) /\ pc' = "unsink"
             /\ \E m \in 0 .. Len(Rows(SinkKinds[k])) :
                   out' = [out EXCEPT !.files[k] = @ \o SubSeq(Rows(SinkKinds[k]), 1, m)]
      BY <1>11, Zenon DEF Handle
    <2>3. CASE k > Len(SinkKinds) /\ pc' = "loop" /\ UNCHANGED <<left, k, exc, out>>
      BY <2>1, <2>3 DEF RunRests
    <2> HIDE DEF SliceTyped
    <2>4. CASE /\ k <= Len(SinkKinds) /\ k' = k + 1
               /\ out' = [files |-> [out.files EXCEPT ![k] = @ \o Rows(SinkKinds[k])],
                          summary |-> IF SinkKinds[k] = "summary" THEN Summary(out.summary) ELSE out.summary]
               /\ UNCHANGED <<left, pc, exc>>
      BY <2>1, <2>4 DEF RowsWritten
    <2>5. CASE /\ k <= Len(SinkKinds) /\ pc' = "unsink"
               /\ \E m \in 0 .. Len(Rows(SinkKinds[k])) :
                     out' = [out EXCEPT !.files[k] = @ \o SubSeq(Rows(SinkKinds[k]), 1, m)]
      BY <2>1, <2>5 DEF RowsCut
    <2> QED
      BY <2>2, <2>3, <2>4, <2>5
  <1>12. CASE Unsink \/ Unstage \/ Unsource
    BY <1>12 DEF Unsink, Unstage, Unsource, EmitThen, runVars, RunRests
  <1>13. CASE Emit \/ EmitErrors
    BY <1>13 DEF Emit, EmitErrors, runVars, RunRests
  <1>14. CASE Ended
    BY <1>14 DEF Ended, runVars, RunRests
  <1>15. CASE CloseAll
    BY <1>15 DEF CloseAll, Close, Exit, runVars, RunRests
  <1>16. CASE Interrupt
    BY <1>16, InterruptDoes DEF EmitThen, RunRests, Interrupt, runVars
  <1>17. CASE WriteLog \/ Serve \/ UNCHANGED vars
    BY <1>17 DEF WriteLog, Serve, vars, mainVars, runVars, RunRests
  <1> QED
    BY <1>1, <1>2, <1>3, <1>4, <1>5, <1>6, <1>7, <1>8, <1>9, <1>10, <1>11, <1>12, <1>13, <1>14,
       <1>15, <1>16, <1>17 DEF Next, Main

(* A run keeps its pipeline, and what its camera sees.                     *)
LEMMA SameRun ==
  ASSUME UNCHANGED <<app, Pipelines>>, i' = i
  PROVE  /\ P' = P /\ SinkKinds' = SinkKinds /\ Centres' = Centres /\ (LineEnds' <=> LineEnds)
         /\ (StagesOf("track"))' = StagesOf("track")
         /\ (StagesOf("line_crossing"))' = StagesOf("line_crossing")
         /\ (FilesOf(CrossingKinds))' = FilesOf(CrossingKinds)
         /\ (FilesOf({"jsonl"}))' = FilesOf({"jsonl"})
  <1>1. P' = P /\ W' = W
    BY DEF P, W
  <1>2. SinkKinds' = SinkKinds
    BY <1>1 DEF SinkKinds
  <1>3. Centres' = Centres
    BY <1>1 DEF Centres
  <1>4. (StagesOf("line_crossing"))' = StagesOf("line_crossing") /\ (StagesOf("track"))' = StagesOf("track")
    BY <1>1 DEF StagesOf
  <1>5. LineEnds' <=> LineEnds
    BY <1>1, <1>4 DEF LineEnds
  <1> QED
    BY <1>1, <1>2, <1>3, <1>4, <1>5 DEF FilesOf, CrossingKinds

LEMMA Emptiness ==
  /\ IsSequence(<<>>) /\ Len(<<>>) = 0 /\ DOMAIN <<>> = {}
  /\ \A f : IsSequence(f) => f \o <<>> = f
  <1>1. IsSequence(<<>>) /\ Len(<<>>) = 0 /\ DOMAIN <<>> = {}
    BY DEF IsSequence
  <1>2. ASSUME NEW f, IsSequence(f) PROVE f \o <<>> = f
    BY <1>2, ConcatEmptySeq DEF IsSequence
  <1> QED
    BY <1>1, <1>2

(* What a beginning of a list is.                                          *)
LEMMA PartIsSequence ==
  ASSUME NEW f, NEW e, IsSequence(f), IsSequence(e), NEW m \in 0 .. Len(e)
  PROVE  IsSequence(f \o SubSeq(e, 1, m))
  <1> DEFINE s == SubSeq(e, 1, m)
  <1>1. Len(e) \in Nat /\ m \in Nat
    <2>1. Len(e) \in Nat
      BY LenProperties DEF IsSequence
    <2> QED
      BY <2>1
  <1>2. s = [x \in 1 .. m |-> e[x]]
    <2>2. s = [x \in 1 .. m |-> e[1 + x - 1]]
      BY <1>1
    <2>3. \A x \in 1 .. m : 1 + x - 1 = x
      OBVIOUS
    <2> QED
      BY <2>2, <2>3
  <1>3. IsSequence(s)
    <2>1. s \in [1 .. m -> {s[x] : x \in DOMAIN s}]
      BY <1>2
    <2> HIDE DEF s
    <2> QED
      BY <1>1, <2>1, FunctionIsSequence DEF IsSequence
  <1> QED
    BY <1>3, ListsJoined

(* The rows of each kind of file.                                          *)
LEMMA RowsTyped ==
  ASSUME NEW kind \in FileKinds \cup {"summary"}, IsSequence(result.packet.events)
  PROVE  /\ IsSequence(Rows(kind)) /\ IsSequence(Earned)
         /\ kind \in CrossingKinds => Rows(kind) = Earned
         /\ kind = "jsonl" => Len(Rows(kind)) = IF result.verdict = "SUCCESS" THEN 1 ELSE 0
         /\ kind = "summary" => Rows(kind) = <<>>
  <1>1. IsSequence(<<>>) /\ Len(<<>>) = 0
    BY Emptiness
  <1>2. IsSequence(<<n.read>>) /\ Len(<<n.read>>) = 1
    BY DEF IsSequence
  <1>3. IsSequence(Earned)
    BY <1>1 DEF Earned
  <1>4. CASE result.verdict # "SUCCESS"
    <2>1. Rows(kind) = <<>> /\ Earned = <<>>
      BY <1>4 DEF Rows, Earned
    <2> QED
      BY <1>1, <1>4, <2>1
  <1>5. CASE result.verdict = "SUCCESS"
    <2>1. kind = "jsonl" => Rows(kind) = <<n.read>>
      BY <1>5, Zenon DEF Rows
    <2>2. kind \in CrossingKinds => Rows(kind) = result.packet.events
      BY <1>5, Zenon DEF Rows, CrossingKinds
    <2>3. kind = "summary" => Rows(kind) = <<>>
      BY <1>5, Zenon DEF Rows
    <2>4. Earned = result.packet.events
      BY <1>5 DEF Earned
    <2>5. kind \in CrossingKinds \/ kind = "jsonl" \/ kind = "summary"
      BY DEF FileKinds, CrossingKinds
    <2> QED
      BY <1>1, <1>2, <1>3, <1>5, <2>1, <2>2, <2>3, <2>4, <2>5
  <1> QED
    BY <1>4, <1>5

(* A stage is one of the chain, and leaves the packet to the next one.     *)
LEMMA StageTakesPacket ==
  ASSUME SliceTyped, UnderWay, StagesTyped, PacketsTyped, ExecuteStage
  PROVE  LET s == StageStep(P.stages[k], stages[k], result.packet, Frame)
         IN  /\ pc = "execute" /\ k \in DOMAIN P.stages /\ k <= Len(P.stages) /\ result.verdict = "SUCCESS"
             /\ DOMAIN P.stages = 1 .. Len(P.stages) /\ Len(P.stages) \in Nat
             /\ result'.verdict = s.verdict /\ result'.packet = s.packet
             /\ DOMAIN stages = DOMAIN P.stages /\ stages' = [stages EXCEPT ![k] = s.st]
             /\ PacketTyped(result.packet) /\ P.stages[k].type \in StageTypes
             /\ StageLeaves(P.stages[k], stages[k], result.packet, Frame, s)
             /\ seen' = seen \cup {result'.packet.tracks[j].id : j \in DOMAIN result'.packet.tracks}
             /\ k' = k + 1 /\ Place = "execute" /\ Place' = "execute"
             /\ UNCHANGED <<app, pc, ret, i, n, out>>
  <1> DEFINE s == StageStep(P.stages[k], stages[k], result.packet, Frame)
  <1>1. /\ pc = "execute" /\ k <= Len(P.stages) /\ result.verdict = "SUCCESS" /\ k' = k + 1
        /\ seen' = seen \cup {result'.packet.tracks[j].id : j \in DOMAIN result'.packet.tracks}
        /\ UNCHANGED <<app, pc, ret, i, n, out>>
    BY Zenon DEF ExecuteStage
  <1>2. /\ k \in DOMAIN P.stages
        /\ result' = [verdict |-> s.verdict, packet |-> s.packet]
        /\ stages' = [stages EXCEPT ![k] = s.st]
    BY ExecuteStageLeaves
  <1>3. Valid(P) /\ IsSequence(P.stages)
    BY <1>1, PipelineShape DEF UnderWay, Under, Place, Running, SliceTyped
  <1>4. Len(P.stages) \in Nat /\ DOMAIN P.stages = 1 .. Len(P.stages)
    BY <1>3, LenProperties DEF IsSequence
  <1>5. P.stages[k].type \in StageTypes
    BY <1>2, <1>3 DEF Valid, Accepted, Known, Registry, StageTypes
  <1>6. PacketTyped(result.packet) /\ DOMAIN stages = DOMAIN P.stages
    BY <1>1 DEF PacketsTyped, StagesTyped, Place, Running
  <1>7. StageLeaves(P.stages[k], stages[k], result.packet, Frame, s)
    BY <1>5, <1>6, StageDoes
  <1>8. Place = "execute" /\ Place' = "execute"
    BY <1>1 DEF Place
  <1> HIDE DEF s
  <1>9. result'.verdict = s.verdict /\ result'.packet = s.packet
    BY <1>2
  <1> QED
    BY <1>1, <1>2, <1>4, <1>5, <1>6, <1>7, <1>8, <1>9 DEF s

(* A sink whose turn it is takes the rows of its kind.                     *)
LEMMA SinkTakes ==
  ASSUME SliceTyped, UnderWay, PacketSeen, Place = "handle", k <= Len(SinkKinds)
  PROVE  /\ k \in DOMAIN SinkKinds /\ Len(SinkKinds) \in Nat /\ DOMAIN SinkKinds = 1 .. Len(SinkKinds)
         /\ IsSequence(Rows(SinkKinds[k])) /\ IsSequence(Earned)
         /\ k \in FilesOf(CrossingKinds) => Rows(SinkKinds[k]) = Earned
         /\ k \in FilesOf({"jsonl"}) => Len(Rows(SinkKinds[k])) = IF result.verdict = "SUCCESS" THEN 1 ELSE 0
         /\ SinkKinds[k] = "summary" => Rows(SinkKinds[k]) = <<>>
  <1>1. Place \in Running
    BY DEF Running
  <1>2. Len(SinkKinds) \in Nat /\ DOMAIN SinkKinds = 1 .. Len(SinkKinds)
    BY <1>1, SinksKnown
  <1>3. k \in DOMAIN SinkKinds
    BY <1>2 DEF SliceTyped
  <1>4. SinkKinds[k] \in FileKinds \cup {"summary"}
    BY <1>1, <1>3, SinksKnown
  <1>5. IsSequence(result.packet.events)
    BY DEF PacketSeen
  <1> QED
    BY <1>2, <1>3, <1>4, <1>5, RowsTyped DEF FilesOf

LEMMA FilesTypedStep ==
  ASSUME SliceTyped, UnderWay, FramesCounted, PacketSeen, FilesTyped, [Next]_vars
  PROVE  FilesTyped'
  <1>1. /\ UNCHANGED <<app, Pipelines>>
        /\ RunRests \/ RunBegins \/ FrameComes \/ ExecuteStage \/ FrameGoes \/ RowsWritten \/ RowsCut
    BY RunSteps
  <1>2. i' = i => SinkKinds' = SinkKinds
    BY <1>1, SameRun
  <1>3. CASE RunRests
    BY <1>2, <1>3 DEF RunRests, FilesTyped
  <1>4. CASE RunBegins
    BY <1>2, <1>4, Emptiness DEF RunBegins, FilesTyped
  <1>5. CASE FrameComes \/ ExecuteStage \/ FrameGoes
    <2>1. i' = i /\ out' = out /\ pc \in {"execute", "read"}
      BY <1>5 DEF FrameComes, ExecuteStage, FrameGoes
    <2>2. i' = i /\ out' = out /\ Place \in Standing
      BY <1>5, <2>1 DEF FrameComes, ExecuteStage, FrameGoes, Place, Standing, Running
    <2> QED
      BY <1>2, <2>2 DEF FilesTyped
  <1>6. CASE RowsWritten \/ RowsCut
    <2>1. Place = "handle" /\ Place \in Standing /\ k <= Len(SinkKinds) /\ i' = i
      BY <1>6 DEF RowsWritten, RowsCut, Place, Standing, Running
    <2> DEFINE r == Rows(SinkKinds[k])
    <2>2. k \in DOMAIN SinkKinds /\ IsSequence(r)
      BY <2>1, SinkTakes
    <2>3. DOMAIN out = {"files", "summary"} /\ DOMAIN out.files = DOMAIN SinkKinds
      BY <2>1 DEF FilesTyped
    <2>4. \A j \in DOMAIN SinkKinds : IsSequence(out.files[j])
      BY <2>1 DEF FilesTyped
    <2>5. \E e : /\ IsSequence(out.files[k] \o e)
                 /\ DOMAIN out' = {"files", "summary"} /\ out'.files = [out.files EXCEPT ![k] = @ \o e]
      <3>1. CASE RowsWritten
        <4>1. IsSequence(out.files[k] \o r)
          BY <2>2, <2>4, ListsJoined
        <4>2. DOMAIN out' = {"files", "summary"} /\ out'.files = [out.files EXCEPT ![k] = @ \o r]
          BY <3>1 DEF RowsWritten
        <4> QED
          BY <4>1, <4>2
      <3>2. CASE RowsCut
        <4> HIDE DEF r
        <4>1. PICK m \in 0 .. Len(r) : out' = [out EXCEPT !.files[k] = @ \o SubSeq(r, 1, m)]
          BY <3>2 DEF RowsCut, r
        <4>2. IsSequence(out.files[k] \o SubSeq(r, 1, m))
          BY <2>2, <2>4, PartIsSequence
        <4>3. DOMAIN out' = {"files", "summary"}
              /\ out'.files = [out.files EXCEPT ![k] = @ \o SubSeq(r, 1, m)]
          BY <2>3, <4>1
        <4> QED
          BY <4>2, <4>3
      <3> QED
        BY <1>6, <3>1, <3>2
    <2>6. SinkKinds' = SinkKinds
      BY <1>2, <2>1
    <2>7. DOMAIN out' = {"files", "summary"} /\ DOMAIN out'.files = DOMAIN SinkKinds
      BY <2>3, <2>5
    <2>8. \A j \in DOMAIN SinkKinds : IsSequence(out'.files[j])
      BY <2>3, <2>4, <2>5
    <2> QED
      BY <2>6, <2>7, <2>8 DEF FilesTyped
  <1> QED
    BY <1>1, <1>3, <1>4, <1>5, <1>6

(* Tracks that are handed over are where their detections are.             *)
LEMMA TracksAreWhere ==
  ASSUME NEW given, NEW dets, NEW next, TracksOut(given, dets, next)
  PROVE  \A j \in DOMAIN given : j \in DOMAIN dets /\ given[j].box = dets[j].box
  <1> TAKE j \in DOMAIN given
  <1>1. given[j] = [id |-> given[j].id, label |-> dets[j].label, box |-> dets[j].box] /\ j \in DOMAIN dets
    BY DEF TracksOut
  <1> DEFINE g == given[j]
             x == given[j].id
             y == dets[j].label
             b == dets[j].box
  <1>2. g = [id |-> x, label |-> y, box |-> b]
    BY <1>1
  <1> HIDE DEF g, x, y, b
  <1>3. g.box = b
    BY <1>2
  <1> QED
    BY <1>1, <1>3 DEF g, b

(* The packet of a frame.                                                  *)
LEMMA PacketSeenStep ==
  ASSUME SliceTyped, UnderWay, FramesCounted, StagesTyped, PacketsTyped, PacketSeen, [Next]_vars
  PROVE  PacketSeen'
  <1>1. /\ UNCHANGED <<app, Pipelines>>
        /\ RunRests \/ RunBegins \/ FrameComes \/ ExecuteStage \/ FrameGoes \/ RowsWritten \/ RowsCut
    BY RunSteps
  <1>2. i' = i => Centres' = Centres
    BY <1>1, SameRun
  <1>3. CASE RunRests
    <2>1. SUFFICES ASSUME Place' \in {"execute", "handle"} \/ pc' = "execute" PROVE PacketSeen'
      BY DEF PacketSeen
    <2>2. (Place \in Running)' /\ (Place \in Standing)'
      BY <2>1 DEF Place, Running, Standing
    <2>3. Place' = Place /\ (pc' = "execute" <=> pc = "execute") /\ UNCHANGED <<result, seen, i>>
      BY <1>3, <2>1, <2>2 DEF RunRests
    <2> QED
      BY <1>2, <2>3 DEF PacketSeen, TracksSeen
  <1>4. CASE RunBegins
    BY <1>4 DEF RunBegins, PacketSeen, Place
  <1>5. CASE FrameComes
    <2>1. result'.packet.events = <<>> /\ result'.packet.dets = <<>> /\ result'.packet.tracks = <<>>
      BY <1>5 DEF FrameComes, NewResult, NoPacket
    <2> QED
      BY <2>1, Emptiness DEF PacketSeen, TracksSeen
  <1>6. CASE ExecuteStage
    <2> DEFINE item == P.stages[k]
               st == stages[k]
               packet == result.packet
               s == StageStep(item, st, packet, Frame)
    <2>1. /\ pc = "execute" /\ k \in DOMAIN P.stages /\ Place = "execute" /\ pc' = pc /\ i' = i
          /\ result'.packet = s.packet /\ item.type \in StageTypes
          /\ PacketTyped(packet) /\ StageLeaves(item, st, packet, Frame, s)
          /\ seen' = seen \cup {result'.packet.tracks[j].id : j \in DOMAIN result'.packet.tracks}
      BY <1>6, StageTakesPacket
    <2> HIDE DEF s
    <2>2. IsSequence(packet.events) /\ TracksSeen(packet.tracks)
          /\ \A d \in DOMAIN packet.dets : Centre(packet.dets[d].box) \in Centres
      BY <2>1 DEF PacketSeen
    <2>3. \A d \in DOMAIN s.packet.dets : Centre(s.packet.dets[d].box) \in Centres
      <3>1. s.packet.dets \in {packet.dets, Frame.dets}
        BY <2>1 DEF StageLeaves
      <3>2. \A d \in DOMAIN Frame.dets : Centre(Frame.dets[d].box) \in Centres
        BY <2>1, FrameSeen
      <3> QED
        BY <2>2, <3>1, <3>2
    <2>4. /\ IsSequence(s.packet.tracks)
          /\ \A j \in DOMAIN s.packet.tracks : Centre(s.packet.tracks[j].box) \in Centres
          /\ \A j, l \in DOMAIN s.packet.tracks : s.packet.tracks[j].id = s.packet.tracks[l].id => j = l
      <3>1. CASE s.packet.tracks = packet.tracks
        BY <2>2, <3>1 DEF TracksSeen
      <3>2. CASE s.packet.tracks # packet.tracks
        <4>1. item.type = "track" /\ s.verdict = "SUCCESS"
          BY <2>1, <3>2 DEF StageLeaves, SameTracks
        <4> DEFINE u == TrackerUpdate(st, packet.dets, Threshold, Param(item, "max_age", 30))
        <4>2. s.packet.tracks = u.out
          BY <2>1, <4>1 DEF StageLeaves
        <4>3. TrackerTyped(st) /\ DetsTyped(packet.dets)
          BY <2>1, <4>1 DEF StagesTyped, StagesOf, Running, PacketTyped
        <4>4. TracksOut(u.out, packet.dets, u.tracker.next)
          BY <4>3, TrackerDoes
        <4> HIDE DEF u
        <4>5. \A j \in DOMAIN u.out : u.out[j].box = packet.dets[j].box /\ j \in DOMAIN packet.dets
          BY <4>4, TracksAreWhere
        <4> QED
          BY <2>2, <4>2, <4>4, <4>5 DEF TracksOut
      <3> QED
        BY <3>1, <3>2
    <2>5. IsSequence(s.packet.events)
      <3>1. CASE s.packet.events = packet.events
        BY <2>2, <3>1
      <3>2. CASE s.packet.events # packet.events
        <4>1. item.type = "line_crossing" /\ "tracks" \in packet.has
          BY <2>1, <3>2 DEF StageLeaves, SameCrossings
        <4>2. s.packet.events = LineUpdate(st, packet.tracks, LineOf(item), n.read).events
          BY <2>1, <4>1 DEF StageLeaves
        <4>3. LineOut(st, packet.tracks, LineOf(item), n.read, LineUpdate(st, packet.tracks, LineOf(item), n.read))
          BY <2>2, LineDoes DEF TracksSeen
        <4> QED
          BY <4>2, <4>3 DEF LineOut
      <3> QED
        BY <3>1, <3>2
    <2>6. Centres' = Centres /\ result'.packet = s.packet
      BY <1>2, <2>1
    <2>7. (TracksSeen(result.packet.tracks))'
      <3>1. \A j \in DOMAIN s.packet.tracks : s.packet.tracks[j].id \in seen'
        BY <2>1, <2>6
      <3> QED
        BY <2>4, <2>6, <3>1 DEF TracksSeen
    <2> QED
      BY <2>3, <2>5, <2>6, <2>7 DEF PacketSeen
  <1>7. CASE FrameGoes \/ RowsWritten \/ RowsCut
    <2>1. pc' # "execute" /\ (Place' \in {"execute", "handle"} => result' = result /\ Place \in {"execute", "handle"})
      BY <1>7 DEF FrameGoes, RowsWritten, RowsCut, Place
    <2> QED
      BY <2>1 DEF PacketSeen
  <1> QED
    BY <1>1, <1>3, <1>4, <1>5, <1>6, <1>7

(* Before the end of the chain there is no line.                           *)
LEMMA LineWaitsStep ==
  ASSUME SliceTyped, UnderWay, FramesCounted, StagesTyped, PacketsTyped, LineWaits, [Next]_vars
  PROVE  LineWaits'
  <1>1. /\ UNCHANGED <<app, Pipelines>>
        /\ RunRests \/ RunBegins \/ FrameComes \/ ExecuteStage \/ FrameGoes \/ RowsWritten \/ RowsCut
    BY RunSteps
  <1>2. i' = i => P' = P /\ (LineEnds' <=> LineEnds)
    BY <1>1, SameRun
  <1>3. CASE RunRests
    <2>1. SUFFICES ASSUME pc' = "execute" PROVE LineWaits'
      BY DEF LineWaits
    <2>2. (Place \in Running)' /\ (Place \in Standing)'
      BY <2>1 DEF Place, Running, Standing
    <2>3. pc = "execute" /\ UNCHANGED <<k, result, i>>
      BY <1>3, <2>1, <2>2 DEF RunRests
    <2> QED
      BY <1>2, <2>3 DEF LineWaits
  <1>4. CASE FrameComes
    <2>1. result'.packet.events = <<>> /\ result'.packet.has = {}
      BY <1>4 DEF FrameComes, NewResult, NoPacket
    <2> QED
      BY <2>1 DEF LineWaits
  <1>5. CASE ExecuteStage
    <2> DEFINE item == P.stages[k]
               s == StageStep(item, stages[k], result.packet, Frame)
    <2>1. /\ pc = "execute" /\ k \in DOMAIN P.stages /\ pc' = pc /\ i' = i /\ k' = k + 1 /\ k <= Len(P.stages)
          /\ Len(P.stages) \in Nat
          /\ result'.packet = s.packet /\ StageLeaves(item, stages[k], result.packet, Frame, s)
      BY <1>5, StageTakesPacket
    <2> HIDE DEF s
    <2>2. SUFFICES ASSUME LineEnds, k' <= Len(P.stages)
                   PROVE  result'.packet.events = <<>> /\ "crossings" \notin result'.packet.has
      BY <1>2, <2>1 DEF LineWaits
    <2>3. item.type # "line_crossing"
      BY <2>1, <2>2 DEF LineEnds, StagesOf, SliceTyped
    <2> QED
      BY <2>1, <2>2, <2>3 DEF StageLeaves, SameCrossings, LineWaits
  <1>6. CASE RunBegins \/ FrameGoes \/ RowsWritten \/ RowsCut
    BY <1>6 DEF RunBegins, FrameGoes, RowsWritten, RowsCut, LineWaits
  <1> QED
    BY <1>1, <1>3, <1>4, <1>5, <1>6

(* What is told does not change while a sink writes it.                    *)
LEMMA RowsAreOwed ==
  ASSUME SliceTyped, UnderWay, FilesTyped, PacketSeen, RowsWritten, NEW j \in DOMAIN SinkKinds
  PROVE  /\ Place = "handle" /\ Place' = "handle"
         /\ j \in FilesOf(CrossingKinds) => out'.files[j] \o (Owed(j))' = out.files[j] \o Owed(j)
         /\ j # k => out'.files[j] = out.files[j] /\ (k' <= j <=> k <= j)
         /\ k \in DOMAIN SinkKinds /\ out'.files[k] = out.files[k] \o Rows(SinkKinds[k])
         /\ IsSequence(out.files[k]) /\ IsSequence(Rows(SinkKinds[k]))
  <1>1. /\ Place = "handle" /\ Place' = "handle" /\ k <= Len(SinkKinds) /\ k' = k + 1 /\ result' = result
        /\ out'.files = [out.files EXCEPT ![k] = @ \o Rows(SinkKinds[k])]
    BY DEF RowsWritten, Place
  <1>2. /\ DOMAIN out.files = DOMAIN SinkKinds
        /\ \A l \in DOMAIN SinkKinds : IsSequence(out.files[l])
    BY <1>1 DEF FilesTyped, Standing, Running
  <1> DEFINE r == Rows(SinkKinds[k])
  <1>3. /\ k \in DOMAIN SinkKinds /\ DOMAIN SinkKinds = 1 .. Len(SinkKinds) /\ Len(SinkKinds) \in Nat
        /\ IsSequence(r) /\ IsSequence(Earned) /\ (k \in FilesOf(CrossingKinds) => r = Earned)
    BY <1>1, SinkTakes
  <1> HIDE DEF r
  <1>4. out'.files[k] = out.files[k] \o r /\ (j # k => out'.files[j] = out.files[j])
    BY <1>1, <1>2, <1>3 DEF r
  <1>5. j \in Int /\ k \in Int
    BY <1>3
  <1>6. j # k => (k' <= j <=> k <= j)
    BY <1>1, <1>5
  <1>7. (Earned)' = Earned
    BY <1>1 DEF Earned
  <1>8. ASSUME j \in FilesOf(CrossingKinds) PROVE out'.files[j] \o (Owed(j))' = out.files[j] \o Owed(j)
    <2>1. CASE j = k
      <3>1. Owed(j) = Earned /\ (Owed(j))' = <<>>
        BY <1>1, <1>5, <2>1 DEF Owed
      <3>2. out'.files[j] = out.files[j] \o Earned
        BY <1>3, <1>4, <1>8, <2>1
      <3>3. IsSequence(out.files[j] \o Earned)
        BY <1>2, <1>3, ListsJoined
      <3> QED
        BY <3>1, <3>2, <3>3, Emptiness
    <2>2. CASE j # k
      <3>1. (Owed(j))' = Owed(j)
        BY <1>1, <1>6, <1>7, <2>2 DEF Owed
      <3> QED
        BY <1>4, <2>2, <3>1
    <2> QED
      BY <2>1, <2>2
  <1> QED
    BY <1>1, <1>2, <1>3, <1>4, <1>6, <1>8 DEF r

LEMMA FilesAgreeStep ==
  ASSUME SliceTyped, UnderWay, FramesCounted, FilesTyped, PacketSeen, FilesAgree, [Next]_vars
  PROVE  FilesAgree'
  <1>1. /\ UNCHANGED <<app, Pipelines>>
        /\ RunRests \/ RunBegins \/ FrameComes \/ ExecuteStage \/ FrameGoes \/ RowsWritten \/ RowsCut
    BY RunSteps
  <1>2. i' = i => /\ SinkKinds' = SinkKinds
                  /\ (FilesOf(CrossingKinds))' = FilesOf(CrossingKinds)
                  /\ (FilesOf({"jsonl"}))' = FilesOf({"jsonl"})
    BY <1>1, SameRun
  <1> DEFINE More(j) == IF Place = "handle" /\ k <= j /\ result.verdict = "SUCCESS" THEN 1 ELSE 0
  <1>3. SUFFICES ASSUME (Place \in Running)'
                 PROVE  /\ \A j, l \in (FilesOf(CrossingKinds))' : out'.files[j] \o (Owed(j))' = out'.files[l] \o (Owed(l))'
                        /\ \A j \in (FilesOf({"jsonl"}))' : Len(out'.files[j]) + More(j)' = n'.processed
    BY DEF FilesAgree
  <1>4. FilesOf(CrossingKinds) \subseteq DOMAIN SinkKinds /\ FilesOf({"jsonl"}) \subseteq DOMAIN SinkKinds
    BY DEF FilesOf
  <1>5. ASSUME Place \in Running
        PROVE  /\ DOMAIN SinkKinds = 1 .. Len(SinkKinds) /\ Len(SinkKinds) \in Nat
               /\ \A j, l \in FilesOf(CrossingKinds) : out.files[j] \o Owed(j) = out.files[l] \o Owed(l)
               /\ \A j \in FilesOf({"jsonl"}) : Len(out.files[j]) + More(j) = n.processed
               /\ \A j \in DOMAIN SinkKinds : IsSequence(out.files[j])
    <2>1. DOMAIN SinkKinds = 1 .. Len(SinkKinds) /\ Len(SinkKinds) \in Nat
      BY <1>5, SinksKnown
    <2>2. \A j \in DOMAIN SinkKinds : IsSequence(out.files[j])
      BY <1>5 DEF FilesTyped, Standing
    <2> QED
      BY <1>5, <2>1, <2>2 DEF FilesAgree
  <1>6. ASSUME Place \in Running, i' = i, out' = out, n'.processed = n.processed,
               \A j \in DOMAIN SinkKinds : (Owed(j))' = Owed(j) /\ More(j)' = More(j)
        PROVE  /\ \A j, l \in (FilesOf(CrossingKinds))' : out'.files[j] \o (Owed(j))' = out'.files[l] \o (Owed(l))'
               /\ \A j \in (FilesOf({"jsonl"}))' : Len(out'.files[j]) + More(j)' = n'.processed
    <2> HIDE DEF More
    <2> QED
      BY <1>2, <1>4, <1>5, <1>6
  <1>7. CASE RunRests
    <2>1. (Place \in Standing)'
      BY <1>3 DEF Standing
    <2>2. /\ Place \in Running /\ i' = i /\ out' = out /\ n'.processed = n.processed /\ result' = result
          /\ \/ Place' = Place /\ k' = k
             \/ Place' \notin {"execute", "handle"} /\ (Place = "handle" => k > Len(SinkKinds))
      BY <1>3, <1>7, <2>1 DEF RunRests
    <2>3. (Earned)' = Earned
      BY <2>2 DEF Earned
    <2>4. \A j \in DOMAIN SinkKinds : j \in Nat /\ j <= Len(SinkKinds)
      BY <1>5, <2>2
    <2>5. \A j \in DOMAIN SinkKinds : (Owed(j))' = Owed(j) /\ More(j)' = More(j)
      <3>1. CASE Place' = Place /\ k' = k
        BY <2>2, <2>3, <3>1 DEF Owed
      <3>2. CASE Place' \notin {"execute", "handle"} /\ (Place = "handle" => k > Len(SinkKinds))
        <4>1. \A j \in DOMAIN SinkKinds : ~(Place = "handle" /\ k <= j)
          BY <1>5, <2>2, <2>4, <3>2 DEF SliceTyped
        <4>2. \A j : ~(Place' = "handle" /\ k' <= j)
          BY <3>2
        <4> QED
          BY <4>1, <4>2 DEF Owed
      <3> QED
        BY <2>2, <3>1, <3>2
    <2> HIDE DEF More
    <2> QED
      BY <1>6, <2>2, <2>5
  <1>8. CASE RunBegins
    <2>1. /\ out'.files = [j \in DOMAIN SinkKinds |-> <<>>] /\ n'.processed = 0 /\ i' = i /\ Place' = "setup"
      BY <1>8 DEF RunBegins, NoCounts, Place
    <2>2. \A j : (Owed(j))' = <<>> /\ More(j)' = 0
      BY <2>1 DEF Owed
    <2> HIDE DEF More
    <2>3. \A j \in DOMAIN SinkKinds : out'.files[j] = <<>>
      BY <2>1
    <2>4. <<>> \o <<>> = <<>> /\ Len(<<>>) = 0
      BY Emptiness
    <2>5. (FilesOf(CrossingKinds))' \subseteq DOMAIN SinkKinds /\ (FilesOf({"jsonl"}))' \subseteq DOMAIN SinkKinds
      BY <1>2, <1>4, <2>1
    <2>6. \A j \in (FilesOf(CrossingKinds))' : out'.files[j] \o (Owed(j))' = <<>>
      BY <2>2, <2>3, <2>4, <2>5
    <2>7. \A j \in (FilesOf({"jsonl"}))' : Len(out'.files[j]) + More(j)' = n'.processed
      BY <2>1, <2>2, <2>3, <2>4, <2>5
    <2> QED
      BY <2>6, <2>7
  <1>9. CASE FrameComes \/ ExecuteStage
    <2>1. /\ Place \in {"read", "execute"} /\ Place' \in {"read", "execute"}
          /\ i' = i /\ out' = out /\ n'.processed = n.processed
      BY <1>9 DEF FrameComes, ExecuteStage, Place
    <2>2. \A j : Owed(j) = <<>> /\ (Owed(j))' = <<>> /\ More(j) = 0 /\ More(j)' = 0
      BY <2>1 DEF Owed
    <2> HIDE DEF More
    <2> QED
      BY <1>6, <2>1, <2>2 DEF Running
  <1>10. CASE FrameGoes
    <2>1. /\ Place = "execute" /\ Place' = "handle" /\ k' = 1 /\ i' = i /\ out' = out /\ result' = result
          /\ n' = Tally(result.verdict)
      BY <1>10 DEF FrameGoes, Place
    <2>2. \A j \in DOMAIN SinkKinds : j \in Nat /\ k' <= j /\ IsSequence(out.files[j])
      BY <1>5, <2>1 DEF Running
    <2>3. (Earned)' = Earned
      BY <2>1 DEF Earned
    <2>4. \A j \in DOMAIN SinkKinds : Owed(j) = <<>> /\ (Owed(j))' = Earned
      BY <2>1, <2>2, <2>3 DEF Owed
    <2>5. \A j, l \in FilesOf(CrossingKinds) : out.files[j] = out.files[l]
      <3>1. \A j \in FilesOf(CrossingKinds) : out.files[j] \o Owed(j) = out.files[j]
        <4>1. ASSUME NEW j \in FilesOf(CrossingKinds) PROVE out.files[j] \o Owed(j) = out.files[j]
          <5>1. IsSequence(out.files[j]) /\ Owed(j) = <<>>
            BY <1>4, <2>2, <2>4
          <5> QED
            BY <5>1, Emptiness
        <4> QED
          BY <4>1
      <3>2. \A j, l \in FilesOf(CrossingKinds) : out.files[j] \o Owed(j) = out.files[l] \o Owed(l)
        BY <1>5, <2>1 DEF Running
      <3> QED
        BY <3>1, <3>2
    <2>6. n'.processed = n.processed + IF result.verdict = "SUCCESS" THEN 1 ELSE 0
      <3>1. /\ result.verdict = "SUCCESS" => n' = [n EXCEPT !.processed = @ + 1]
            /\ result.verdict = "SKIPPED" => n' = [n EXCEPT !.skipped = @ + 1]
            /\ result.verdict = "ERROR" => n' = [n EXCEPT !.errors = @ + 1]
        BY <2>1, Zenon DEF Tally
      <3> QED
        BY <3>1 DEF SliceTyped, Counts, Verdicts
    <2>7. \A j \in DOMAIN SinkKinds : More(j) = 0 /\ More(j)' = IF result.verdict = "SUCCESS" THEN 1 ELSE 0
      BY <2>1, <2>2
    <2> HIDE DEF More
    <2>8. \A j \in FilesOf({"jsonl"}) : Len(out.files[j]) \in Nat
      BY <1>4, <2>2, LenProperties DEF IsSequence
    <2>9. \A j \in FilesOf({"jsonl"}) : Len(out.files[j]) = n.processed
      BY <1>4, <1>5, <2>1, <2>7, <2>8 DEF Running
    <2> QED
      BY <1>2, <1>4, <2>1, <2>4, <2>5, <2>6, <2>7, <2>9
  <1>11. CASE RowsWritten
    <2>1. /\ i' = i /\ n' = n /\ result' = result /\ Place = "handle" /\ Place' = "handle"
          /\ k <= Len(SinkKinds) /\ k' = k + 1
      BY <1>11 DEF RowsWritten, Place
    <2>2. \A j, l \in FilesOf(CrossingKinds) : out'.files[j] \o (Owed(j))' = out'.files[l] \o (Owed(l))'
      <3>1. \A j \in FilesOf(CrossingKinds) : out'.files[j] \o (Owed(j))' = out.files[j] \o Owed(j)
        BY <1>4, <1>11, RowsAreOwed
      <3> QED
        BY <1>5, <2>1, <3>1 DEF Running
    <2>3. ASSUME NEW j \in FilesOf({"jsonl"}) PROVE Len(out'.files[j]) + More(j)' = n'.processed
      <3>1. Len(out.files[j]) + More(j) = n.processed /\ j \in Nat /\ k \in Nat
        <4> HIDE DEF More
        <4>1. Place \in Running
          BY <2>1 DEF Running
        <4>2. j \in 1 .. Len(SinkKinds) /\ Len(SinkKinds) \in Nat
          BY <1>4, <1>5, <4>1
        <4> QED
          BY <1>5, <4>1, <4>2 DEF SliceTyped
      <3>2. CASE j = k
        <4> DEFINE r == Rows(SinkKinds[k])
        <4>1. out'.files[k] = out.files[k] \o r /\ IsSequence(out.files[k]) /\ IsSequence(r)
          BY <1>4, <1>11, RowsAreOwed
        <4>2. Len(r) = IF result.verdict = "SUCCESS" THEN 1 ELSE 0
          BY <2>1, <2>3, <3>2, SinkTakes
        <4>3. More(j) = (IF result.verdict = "SUCCESS" THEN 1 ELSE 0) /\ More(j)' = 0
          BY <2>1, <3>1, <3>2
        <4> HIDE DEF r, More
        <4>4. Len(out.files[k] \o r) = Len(out.files[k]) + Len(r) /\ Len(out.files[k]) \in Nat
          BY <4>1, ListsJoined
        <4>5. n'.processed = n.processed
          BY <2>1
        <4>6. Len(r) = More(j) /\ More(j)' = 0
          BY <4>2, <4>3
        <4>7. Len(out'.files[j]) = Len(out.files[j]) + More(j)
          BY <3>2, <4>1, <4>4, <4>6
        <4>8. Len(out'.files[j]) = n.processed
          BY <3>1, <4>7
        <4>9. n.processed \in Nat
          BY DEF SliceTyped, Counts
        <4> QED
          BY <4>5, <4>6, <4>8, <4>9
      <3>3. CASE j # k
        <4>1. out'.files[j] = out.files[j] /\ (k' <= j <=> k <= j)
          BY <1>4, <1>11, <3>3, RowsAreOwed
        <4>2. More(j)' = More(j)
          BY <2>1, <4>1
        <4> HIDE DEF More
        <4> QED
          BY <2>1, <3>1, <4>1, <4>2
      <3> QED
        BY <3>2, <3>3
    <2> HIDE DEF More
    <2> QED
      BY <1>2, <2>1, <2>2, <2>3
  <1>12. CASE RowsCut
    BY <1>3, <1>12 DEF RowsCut, Place, Running
  <1> QED
    BY <1>1, <1>7, <1>8, <1>9, <1>10, <1>11, <1>12

(* What is told goes on telling what the line has counted.                 *)
LEMMA LinesToldStep ==
  ASSUME SliceTyped, UnderWay, FramesCounted, StagesTyped, PacketsTyped,
         FilesTyped, PacketSeen, LineWaits, LinesTold, [Next]_vars
  PROVE  LinesTold'
  <1>1. /\ UNCHANGED <<app, Pipelines>>
        /\ RunRests \/ RunBegins \/ FrameComes \/ ExecuteStage \/ FrameGoes \/ RowsWritten \/ RowsCut
    BY RunSteps
  <1> DEFINE Files == FilesOf(CrossingKinds)
             Lines == StagesOf("line_crossing")
             Line(l) == LineOf(P.stages[l])
             Late(j) == IF pc = "execute" THEN Earned ELSE Owed(j)
  <1>2. i' = i => /\ SinkKinds' = SinkKinds /\ Files' = Files /\ Lines' = Lines
                  /\ Centres' = Centres /\ P' = P /\ (LineEnds' <=> LineEnds)
    BY <1>1, SameRun
  <1>3. SUFFICES ASSUME (Place \in Running)', LineEnds'
                 PROVE  \A j \in Files', l \in Lines' : (Tells(Told(j), stages[l], Line(l), Centres, Top))'
    BY DEF LinesTold
  <1>4. (Place \in Standing)'
    BY <1>3 DEF Standing
  <1>5. Files \subseteq DOMAIN SinkKinds /\ \A j : Told(j) = out.files[j] \o Late(j)
    BY DEF FilesOf, Told
  <1>6. \A j : (Told(j))' = out'.files[j] \o Late(j)'
    BY DEF Told
  <1>7. n.read \in Nat /\ Top \in {n.read - 1, n.read} /\ Top \in Int /\ k \in Nat
    BY DEF SliceTyped, Counts, Top
  <1>8. ASSUME Place \in Running, i' = i
        PROVE  /\ DOMAIN SinkKinds = 1 .. Len(SinkKinds) /\ Len(SinkKinds) \in Nat
               /\ \A j \in DOMAIN SinkKinds : IsSequence(out.files[j])
               /\ \A j \in Files, l \in Lines : Tells(Told(j), stages[l], Line(l), Centres, Top)
    <2>1. DOMAIN SinkKinds = 1 .. Len(SinkKinds) /\ Len(SinkKinds) \in Nat
      BY <1>8, SinksKnown
    <2>2. \A j \in DOMAIN SinkKinds : IsSequence(out.files[j])
      BY <1>8 DEF FilesTyped, Standing
    <2>3. LineEnds
      BY <1>2, <1>3, <1>8
    <2> QED
      BY <1>8, <2>1, <2>2, <2>3 DEF LinesTold
  <1>9. ASSUME Place \in Running, i' = i, Top <= Top', Top' \in Int,
               \A j \in Files : (Told(j))' = Told(j), \A l \in Lines : stages'[l] = stages[l]
        PROVE  \A j \in Files', l \in Lines' : (Tells(Told(j), stages[l], Line(l), Centres, Top))'
    <2>1. \A j \in Files, l \in Lines : Tells(Told(j), stages[l], Line(l), Centres, Top')
      <3> HIDE DEF Files, Lines, Line
      <3>1. \A j \in Files, l \in Lines : Tells(Told(j), stages[l], Line(l), Centres, Top)
        BY <1>8, <1>9
      <3> QED
        BY <1>7, <1>9, <3>1, StillTells
    <2>2. Files' = Files /\ Lines' = Lines /\ Centres' = Centres /\ \A l : Line(l)' = Line(l)
      BY <1>2, <1>9
    <2> HIDE DEF Files, Lines, Line
    <2> QED
      BY <1>9, <2>1, <2>2
  <1>10. CASE RunRests
    <2>1. /\ Place \in Running /\ i' = i /\ out' = out /\ n'.read = n.read /\ UNCHANGED <<stages, result>>
          /\ \/ Place' = Place /\ k' = k /\ (pc' = "execute" <=> pc = "execute")
             \/ /\ Place' \notin {"execute", "handle"} /\ pc' # "execute"
                /\ pc # "execute" /\ (Place = "handle" => k > Len(SinkKinds))
      BY <1>3, <1>4, <1>10 DEF RunRests
    <2>2. (Earned)' = Earned /\ P' = P
      BY <1>2, <2>1 DEF Earned
    <2>3. Top' = Top
      BY <2>1, <2>2 DEF Top
    <2>4. \A j \in Files : Late(j)' = Late(j)
      <3>1. CASE Place' = Place /\ k' = k /\ (pc' = "execute" <=> pc = "execute")
        BY <2>1, <2>2, <3>1 DEF Owed
      <3>2. CASE /\ Place' \notin {"execute", "handle"} /\ pc' # "execute"
                 /\ pc # "execute" /\ (Place = "handle" => k > Len(SinkKinds))
        <4>1. \A j \in Files : j \in Nat /\ j <= Len(SinkKinds)
          BY <1>5, <1>8, <2>1
        <4>2. \A j \in Files : ~(Place = "handle" /\ k <= j)
          BY <1>7, <1>8, <2>1, <3>2, <4>1
        <4>3. \A j : ~(Place' = "handle" /\ k' <= j)
          BY <3>2
        <4> QED
          BY <3>2, <4>2, <4>3 DEF Owed
      <3> QED
        BY <2>1, <3>1, <3>2
    <2>5. \A j \in Files : (Told(j))' = Told(j)
      <3> HIDE DEF Files, Late
      <3> QED
        BY <1>5, <1>6, <2>1, <2>4
    <2> HIDE DEF Files, Lines, Line, Late
    <2> QED
      BY <1>7, <1>9, <2>1, <2>3, <2>5
  <1>11. CASE RunBegins
    <2>1. /\ out'.files = [j \in DOMAIN SinkKinds |-> <<>>] /\ i' = i /\ pc' = "setup" /\ Place' = "setup"
          /\ stages' = [j \in DOMAIN P.stages |-> NewStage(P.stages[j])]
      BY <1>11 DEF RunBegins, Place
    <2>2. \A j : Late(j)' = <<>>
      BY <2>1 DEF Owed
    <2>3. \A j \in Files : (Told(j))' = <<>>
      <3>1. \A j \in Files : out'.files[j] = <<>>
        BY <1>5, <2>1
      <3> HIDE DEF Late
      <3> QED
        BY <1>6, <2>2, <3>1, Emptiness
    <2>4. \A item : item.type = "line_crossing" => NewStage(item) = NoLine
      BY Zenon DEF NewStage
    <2>5. \A l \in Lines : stages'[l] = NoLine
      BY <2>1, <2>4 DEF StagesOf
    <2>6. Files' = Files /\ Lines' = Lines
      BY <1>2, <2>1
    <2> HIDE DEF Files, Lines, Line, Late
    <2> QED
      BY <2>3, <2>5, <2>6, NothingToTell
  <1>12. CASE FrameComes
    <2>1. /\ pc = "read" /\ pc' = "execute" /\ i' = i /\ out' = out /\ stages' = stages
          /\ n'.read = n.read + 1 /\ result' = NewResult /\ Place = "read"
      BY <1>12 DEF FrameComes, Place
    <2>2. Top = n.read /\ Top' \in {n.read, n.read + 1}
      BY <1>7, <2>1 DEF Top
    <2>3. \A j : Late(j) = <<>> /\ Late(j)' = <<>>
      BY <2>1 DEF Owed, Earned, NewResult, NoPacket
    <2>4. \A j \in Files : (Told(j))' = Told(j)
      <3> HIDE DEF Files, Late
      <3> QED
        BY <1>5, <1>6, <2>1, <2>3
    <2> HIDE DEF Files, Lines, Line, Late
    <2>5. Place \in Running
      BY <2>1 DEF Running
    <2> QED
      BY <1>7, <1>9, <2>1, <2>2, <2>4, <2>5
  <1>13. CASE FrameGoes
    <2>1. /\ Place = "execute" /\ Place' = "handle" /\ k' = 1 /\ i' = i /\ out' = out /\ UNCHANGED <<stages, result>>
          /\ n' = Tally(result.verdict) /\ pc = "execute" /\ pc' # "execute"
      BY <1>13 DEF FrameGoes, Place
    <2>2. n'.read = n.read
      <3>1. /\ result.verdict = "SUCCESS" => n' = [n EXCEPT !.processed = @ + 1]
            /\ result.verdict = "SKIPPED" => n' = [n EXCEPT !.skipped = @ + 1]
            /\ result.verdict = "ERROR" => n' = [n EXCEPT !.errors = @ + 1]
        BY <2>1, Zenon DEF Tally
      <3> QED
        BY <3>1 DEF SliceTyped, Counts, Verdicts
    <2>3. Top' = n.read
      BY <2>1, <2>2 DEF Top
    <2>4. Place \in Running
      BY <2>1 DEF Running
    <2>5. \A j \in Files : Late(j)' = Late(j)
      <3>1. (Earned)' = Earned
        BY <2>1 DEF Earned
      <3>2. \A j \in Files : k' <= j
        BY <1>5, <1>8, <2>1, <2>4
      <3> QED
        BY <2>1, <3>1, <3>2 DEF Owed
    <2>6. \A j \in Files : (Told(j))' = Told(j)
      <3> HIDE DEF Files, Late
      <3> QED
        BY <1>5, <1>6, <2>1, <2>5
    <2> HIDE DEF Files, Lines, Line, Late
    <2> QED
      BY <1>7, <1>9, <2>1, <2>3, <2>4, <2>6
  <1>14. CASE RowsWritten
    <2>1. pc = "handle" /\ pc' = "handle" /\ Place = "handle" /\ UNCHANGED <<i, stages, n>>
      BY <1>14 DEF RowsWritten, Place
    <2>2. Top' = Top /\ Top = n.read
      BY <2>1 DEF Top
    <2>3. \A j \in Files : (Told(j))' = Told(j)
      <3>1. \A j \in Files : out'.files[j] \o (Owed(j))' = out.files[j] \o Owed(j)
        BY <1>5, <1>14, RowsAreOwed
      <3>2. \A j : Late(j) = Owed(j) /\ Late(j)' = (Owed(j))'
        BY <2>1
      <3> HIDE DEF Files, Late
      <3> QED
        BY <1>5, <1>6, <3>1, <3>2
    <2>4. Place \in Running
      BY <2>1 DEF Running
    <2> HIDE DEF Files, Lines, Line, Late
    <2> QED
      BY <1>7, <1>9, <2>1, <2>2, <2>3, <2>4
  <1>15. CASE RowsCut
    BY <1>3, <1>15 DEF RowsCut, Place, Running
  <1>16. CASE ExecuteStage
    <2> DEFINE item == P.stages[k]
               st == stages[k]
               packet == result.packet
               s == StageStep(item, st, packet, Frame)
    <2>1. /\ pc = "execute" /\ pc' = "execute" /\ i' = i /\ out' = out /\ n' = n /\ k' = k + 1
          /\ k \in DOMAIN P.stages /\ k <= Len(P.stages) /\ Len(P.stages) \in Nat
          /\ DOMAIN stages = DOMAIN P.stages /\ stages' = [stages EXCEPT ![k] = s.st]
          /\ result'.verdict = s.verdict /\ result'.packet = s.packet
          /\ StageLeaves(item, st, packet, Frame, s) /\ Place = "execute" /\ Place \in Running
      BY <1>16, StageTakesPacket DEF Running
    <2> HIDE DEF s
    <2>2. P' = P /\ LineEnds
      BY <1>2, <1>3, <2>1
    <2>3. packet.events = <<>>
      BY <2>1, <2>2 DEF LineWaits
    <2>4. Top = n.read - 1 /\ Top' \in {n.read - 1, n.read} /\ (k = Len(P.stages) => Top' = n.read)
      BY <1>7, <2>1, <2>2 DEF Top
    <2>5. \A j : Late(j) = <<>>
      BY <2>1, <2>3 DEF Earned
    <2>6. ASSUME \A j : Late(j)' = <<>>, \A l \in Lines : stages'[l] = stages[l]
          PROVE  \A j \in Files', l \in Lines' : (Tells(Told(j), stages[l], Line(l), Centres, Top))'
      <3>1. \A j \in Files : (Told(j))' = Told(j)
        <4> HIDE DEF Files, Late
        <4> QED
          BY <1>5, <1>6, <2>1, <2>5, <2>6
      <3> HIDE DEF Files, Lines, Line, Late
      <3> QED
        BY <1>7, <1>9, <2>1, <2>4, <2>6, <3>1
    <2>7. CASE item.type # "line_crossing"
      <3>1. \A j : Late(j)' = <<>>
        BY <2>1, <2>3, <2>7 DEF Earned, StageLeaves, SameCrossings
      <3>2. \A l \in Lines : stages'[l] = stages[l]
        BY <2>1, <2>7 DEF StagesOf
      <3> HIDE DEF Files, Lines, Line, Late
      <3> QED
        BY <2>6, <3>1, <3>2
    <2>8. CASE item.type = "line_crossing"
      <3>1. k \in Lines /\ k = Len(P.stages) /\ \A l \in Lines : l = k
        BY <2>1, <2>2, <2>8 DEF StagesOf, LineEnds
      <3>2. CASE "tracks" \notin packet.has
        <4>1. s.st = st /\ s.verdict = "ERROR"
          BY <2>1, <2>8, <3>2 DEF StageLeaves
        <4>2. \A j : Late(j)' = <<>>
          BY <2>1, <4>1 DEF Earned
        <4>3. \A l \in Lines : stages'[l] = stages[l]
          BY <2>1, <3>1, <4>1
        <4> HIDE DEF Files, Lines, Line, Late
        <4> QED
          BY <2>6, <4>2, <4>3
      <3>3. CASE "tracks" \in packet.has
        <4> DEFINE u == LineUpdate(st, packet.tracks, LineOf(item), n.read)
        <4>1. /\ s.verdict = "SUCCESS" /\ s.st = u.line /\ s.packet.events = u.events
          BY <2>1, <2>8, <3>3 DEF StageLeaves
        <4>2. stages'[k] = u.line /\ \A j : Late(j)' = u.events
          BY <2>1, <4>1 DEF Earned
        <4>3. n.read \in Nat \ {0}
          BY <1>7, <2>1 DEF FramesCounted, SliceTyped, Counts
        <4>4. /\ IsSequence(packet.tracks)
              /\ \A j, m \in DOMAIN packet.tracks : packet.tracks[j].id = packet.tracks[m].id => j = m
              /\ \A j \in DOMAIN packet.tracks : Centre(packet.tracks[j].box) \in Centres
          BY <2>1 DEF PacketSeen, TracksSeen
        <4>5. ASSUME NEW j \in Files PROVE Tells((Told(j))', u.line, LineOf(item), Centres, n.read)
          <5>2. Told(j) = out.files[j] /\ (Told(j))' = out.files[j] \o u.events
            <6>1. IsSequence(out.files[j])
              BY <1>5, <1>8, <2>1
            <6> HIDE DEF u, Late, Files
            <6> QED
              BY <1>5, <1>6, <2>1, <2>5, <4>2, <6>1, Emptiness
          <5>3. Tells(out.files[j], st, LineOf(item), Centres, n.read - 1)
            <6>1. Tells(Told(j), stages[k], Line(k), Centres, Top)
              BY <1>8, <2>1, <3>1
            <6> QED
              BY <2>4, <5>2, <6>1
          <5>4. Tells(out.files[j] \o u.events, u.line, LineOf(item), Centres, n.read)
            <6> HIDE DEF Files, Lines, Line, Late, s, packet, st, item
            <6> QED
              BY <4>3, <4>4, <5>3, LineTells DEF u
          <5> QED
            BY <5>2, <5>4
        <4>6. ASSUME NEW j \in Files', NEW l \in Lines'
              PROVE  (Tells(Told(j), stages[l], Line(l), Centres, Top))'
          <5>1. j \in Files /\ l \in Lines
            BY <1>2, <2>1
          <5>2. l = k /\ Centres' = Centres /\ Top' = n.read /\ stages'[l] = u.line
            BY <1>2, <2>1, <2>4, <3>1, <4>2, <5>1
          <5>3. Line(l)' = LineOf(item)
            BY <2>2, <5>2
          <5>4. Tells((Told(j))', u.line, LineOf(item), Centres, n.read)
            BY <4>5, <5>1
          <5> HIDE DEF Files, Lines, Line, Late, u, item
          <5> QED
            BY <5>2, <5>3, <5>4
        <4> QED
          BY <4>6
      <3> QED
        BY <3>2, <3>3
    <2> QED
      BY <2>7, <2>8
  <1> QED
    BY <1>1, <1>10, <1>11, <1>12, <1>13, <1>14, <1>15, <1>16

(* What is in a file is the beginning of what is told.                     *)
LEMMA ToldAlternates ==
  ASSUME SliceTyped, UnderWay, FilesTyped, PacketSeen, LinesTold, Place \in Running, LineEnds,
         NEW j \in FilesOf(CrossingKinds), NEW l \in StagesOf("line_crossing"), Across(LineOf(P.stages[l]))
  PROVE  Alternates(Told(j)) /\ Alternates(out.files[j])
  <1> DEFINE f == out.files[j]
             e == IF pc = "execute" THEN Earned ELSE Owed(j)
             g == f \o e
  <1>1. Alternates(g)
    <2>1. Tells(Told(j), stages[l], LineOf(P.stages[l]), Centres, Top)
      BY DEF LinesTold
    <2>2. Wide(Centres, LineOf(P.stages[l]))
      BY DEF Wide, Across
    <2> QED
      BY <2>1, <2>2 DEF Tells, Told
  <1>2. IsSequence(f)
    BY DEF FilesTyped, Standing, FilesOf
  <1>3. IsSequence(e)
    <2>1. IsSequence(<<>>)
      BY Emptiness
    <2>2. Place \in {"execute", "handle"} => IsSequence(Earned)
      BY <2>1 DEF PacketSeen, Earned
    <2>3. pc = "execute" => Place = "execute"
      BY DEF Place
    <2> QED
      BY <2>1, <2>2, <2>3 DEF Owed
  <1> HIDE DEF f, e
  <1>4. /\ Len(f) \in Nat /\ Len(e) \in Nat /\ DOMAIN f = 1 .. Len(f)
        /\ DOMAIN g = 1 .. Len(f) + Len(e) /\ \A x \in 1 .. Len(f) : g[x] = f[x]
    BY <1>2, <1>3, ListsJoined
  <1> HIDE DEF g
  <1>5. DOMAIN f \in SUBSET Int /\ DOMAIN f \subseteq DOMAIN g
        /\ \A x, y \in DOMAIN f : x .. y \subseteq DOMAIN f
    BY <1>4
  <1>6. Alternates(f)
    BY <1>1, <1>4, <1>5, BeginningAlternates
  <1> QED
    BY <1>1, <1>6 DEF f, g, e, Told

LEMMA StandingAlternates ==
  ASSUME SliceTyped, UnderWay, FilesTyped, PacketSeen, LinesTold, FilesAlternate, Place \in Standing
  PROVE  Alternating
  <1>1. CASE Place \in Running
    BY <1>1, ToldAlternates DEF Alternating
  <1>2. CASE Place \notin Running
    BY <1>2 DEF FilesAlternate
  <1> QED
    BY <1>1, <1>2

LEMMA FilesAlternateStep ==
  ASSUME SliceTyped, UnderWay, FramesCounted, FilesTyped, PacketSeen, LinesTold, FilesAlternate, [Next]_vars
  PROVE  FilesAlternate'
  <1>1. /\ UNCHANGED <<app, Pipelines>>
        /\ RunRests \/ RunBegins \/ FrameComes \/ ExecuteStage \/ FrameGoes \/ RowsWritten \/ RowsCut
    BY RunSteps
  <1> DEFINE Files == FilesOf(CrossingKinds)
             Lines == StagesOf("line_crossing")
             Line(l) == LineOf(P.stages[l])
  <1>2. i' = i => /\ Files' = Files /\ Lines' = Lines
                  /\ Centres' = Centres /\ P' = P /\ (LineEnds' <=> LineEnds)
    BY <1>1, SameRun
  <1>3. ASSUME i' = i, \A j \in Files, l \in Lines : LineEnds /\ Across(Line(l)) => Alternates(out'.files[j])
        PROVE  Alternating'
    <2>1. \A l : Line(l)' = Line(l) /\ (Across(Line(l))' <=> Across(Line(l)))
      BY <1>2, <1>3 DEF Across
    <2>2. Files' = Files /\ Lines' = Lines /\ (LineEnds' <=> LineEnds)
      BY <1>2, <1>3
    <2>3. Alternating' = (LineEnds' => \A j \in Files', l \in Lines' : Across(Line(l))' => Alternates(out'.files[j]))
      BY DEF Alternating, Alternates
    <2> HIDE DEF Files, Lines, Line
    <2> QED
      BY <1>3, <2>1, <2>2, <2>3
  <1>4. CASE RunRests
    <2>1. SUFFICES ASSUME (Place \in Standing)' PROVE Alternating'
      BY DEF FilesAlternate
    <2>2. Place \in Standing /\ i' = i /\ out' = out
      BY <1>4, <2>1 DEF RunRests
    <2>3. Alternating
      BY <2>2, StandingAlternates
    <2> QED
      BY <1>3, <2>2, <2>3 DEF Alternating
  <1>5. CASE RowsCut
    <2> DEFINE r == Rows(SinkKinds[k])
    <2>1. /\ pc = "handle" /\ Place = "handle" /\ Place \in Running /\ i' = i /\ k <= Len(SinkKinds)
      BY <1>5 DEF RowsCut, Place, Running
    <2>2. /\ k \in DOMAIN SinkKinds /\ IsSequence(r) /\ (k \in Files => r = Earned) /\ k \in Nat
      BY <2>1, SinkTakes DEF SliceTyped
    <2>3. DOMAIN out = {"files", "summary"} /\ DOMAIN out.files = DOMAIN SinkKinds
      BY <2>1 DEF FilesTyped, Standing
    <2>4. \A j \in DOMAIN SinkKinds : IsSequence(out.files[j])
      BY <2>1 DEF FilesTyped, Standing
    <2>5. Files \subseteq DOMAIN SinkKinds
      BY DEF FilesOf
    <2>6. k \in Files => Told(k) = out.files[k] \o r
      <3>1. Owed(k) = Earned
        BY <2>1, <2>2 DEF Owed
      <3>2. Told(k) = out.files[k] \o Owed(k)
        BY <2>1 DEF Told
      <3> HIDE DEF r
      <3> QED
        BY <2>2, <3>1, <3>2
    <2>7. PICK m \in 0 .. Len(r) : out' = [out EXCEPT !.files[k] = @ \o SubSeq(r, 1, m)]
      BY <1>5 DEF RowsCut
    <2> HIDE DEF r
    <2>8. /\ out'.files[k] = out.files[k] \o SubSeq(r, 1, m)
          /\ \A j \in DOMAIN SinkKinds : j # k => out'.files[j] = out.files[j]
      BY <2>2, <2>3, <2>7
    <2>9. ASSUME NEW j \in Files, NEW l \in Lines, LineEnds, Across(Line(l)) PROVE Alternates(out'.files[j])
      <3>1. Alternates(Told(j)) /\ Alternates(out.files[j])
        BY <2>1, <2>9, ToldAlternates
      <3>2. CASE j = k
        <4>1. Alternates(out.files[k] \o r)
          BY <2>6, <2>9, <3>1, <3>2
        <4>2. Alternates(out.files[k] \o SubSeq(r, 1, m))
          BY <2>2, <2>4, <4>1, PartAlternates
        <4> QED
          BY <2>8, <3>2, <4>2
      <3>3. CASE j # k
        BY <2>5, <2>8, <3>1, <3>3
      <3> QED
        BY <3>2, <3>3
    <2> HIDE DEF Files, Lines, Line
    <2> QED
      BY <1>3, <2>1, <2>9 DEF FilesAlternate
  <1>6. CASE RunBegins \/ FrameComes \/ ExecuteStage \/ FrameGoes \/ RowsWritten
    <2>1. Place' \in Running
      <3>1. CASE RunBegins \/ FrameComes \/ FrameGoes \/ RowsWritten
        BY <3>1 DEF RunBegins, FrameComes, FrameGoes, RowsWritten, Place, Running
      <3>2. CASE ExecuteStage
        BY <3>2 DEF ExecuteStage, Place, Running
      <3> QED
        BY <1>6, <3>1, <3>2
    <2> QED
      BY <2>1 DEF FilesAlternate, Running
  <1> QED
    BY <1>1, <1>4, <1>5, <1>6

(* The command line: one tracker, then perhaps a line, at the end.         *)
LEMMA CliChain ==
  ASSUME SliceTyped, UnderWay, Place \in Running, app.mode = "cli"
  PROVE  /\ LineEnds
         /\ \A t \in StagesOf("track"), j \in DOMAIN P.stages :
               (j > t => P.stages[j].type = "line_crossing") /\ (P.stages[j].type = "track" => j = t)
         /\ app.args.track => StagesOf("track") # {}
  <1>1. i \in DOMAIN Pipelines
    BY DEF UnderWay, Under, Place, Running, SliceTyped, Returns, None
  <1>2. Pipelines = <<ArgsToPipeline(app.args)>>
    BY DEF Pipelines
  <1>3. P = ArgsToPipeline(app.args)
    BY <1>1, <1>2 DEF P
  <1> DEFINE s == P.stages
  <1>4. s = StagesOfArgs(app.args)
    BY <1>3 DEF ArgsToPipeline
  <1>5. IsSequence(s)
    BY <1>1, PipelineShape DEF SliceTyped
  <1>6. DOMAIN s \subseteq Nat
    BY <1>5, LenProperties DEF IsSequence
  <1> HIDE DEF s
  <1>7. /\ \A l \in DOMAIN s : s[l].type = "line_crossing" => l = Len(s)
        /\ \A t, j \in DOMAIN s : s[t].type = "track" /\ j > t => s[j].type = "line_crossing"
        /\ app.args.track => \E t \in DOMAIN s : s[t].type = "track"
    BY <1>4, ChainOfArgs
  <1>8. ASSUME NEW t \in DOMAIN s, NEW j \in DOMAIN s, s[t].type = "track", s[j].type = "track" PROVE j = t
    <2>1. ~(j > t) /\ ~(t > j)
      BY <1>7, <1>8
    <2> QED
      BY <1>6, <2>1
  <1> QED
    BY <1>7, <1>8 DEF s, LineEnds, StagesOf

LEMMA SummaryToldStep ==
  ASSUME SliceTyped, UnderWay, FramesCounted, StagesTyped, PacketsTyped,
         FilesTyped, PacketSeen, LineWaits, SummaryTold, [Next]_vars
  PROVE  SummaryTold'
  <1>1. /\ UNCHANGED <<app, Pipelines>>
        /\ RunRests \/ RunBegins \/ FrameComes \/ ExecuteStage \/ FrameGoes \/ RowsWritten \/ RowsCut
    BY RunSteps
  <1> DEFINE Tracks == StagesOf("track")
             Lines == StagesOf("line_crossing")
             has == result.packet.has
  <1>2. i' = i => SinkKinds' = SinkKinds /\ Tracks' = Tracks /\ Lines' = Lines /\ P' = P
    BY <1>1, SameRun
  <1>3. SUFFICES ASSUME (Place \in Running)', app.mode = "cli", app.args.track
                 PROVE  (\A t \in Tracks' : (IdsTold(t))') /\ (\A l \in Lines' : (CountsTold(l))')
    BY <1>1 DEF SummaryTold
  <1>4. (Place \in Standing)'
    BY <1>3 DEF Standing
  <1>5. Place = "execute" <=> pc = "execute"
    BY DEF SliceTyped, Returns, None, Place
  <1>6. Place \in Running => /\ \A t \in Tracks : IdsTold(t)
                             /\ \A l \in Lines : CountsTold(l)
    BY <1>3 DEF SummaryTold
  <1>7. ASSUME Place \in Running, UNCHANGED <<i, stages, seen, result, out>>, pc' = "execute" => pc = "execute" /\ k' = k,
               Pending' <=> Pending
        PROVE  (\A t \in Tracks' : (IdsTold(t))') /\ (\A l \in Lines' : (CountsTold(l))')
    <2>1. Tracks' = Tracks /\ Lines' = Lines
      BY <1>2, <1>7
    <2>2. \A t : IdsTold(t) => (IdsTold(t))'
      BY <1>7 DEF IdsTold
    <2>3. \A l : CountsTold(l) => (CountsTold(l))'
      BY <1>7 DEF CountsTold
    <2> HIDE DEF Tracks, Lines
    <2> QED
      BY <1>6, <1>7, <2>1, <2>2, <2>3
  <1>8. CASE RunRests
    <2>1. /\ Place \in Running /\ i' = i /\ UNCHANGED <<stages, result, seen, out>>
          /\ \/ Place' = Place /\ k' = k /\ (pc' = "execute" <=> pc = "execute")
             \/ /\ Place' \notin {"execute", "handle"} /\ pc' # "execute"
                /\ pc # "execute" /\ (Place = "handle" => k > Len(SinkKinds))
      BY <1>3, <1>4, <1>8 DEF RunRests
    <2>2. Len(SinkKinds) \in Nat /\ k \in Nat
      BY <2>1, SinksKnown DEF SliceTyped
    <2>3. Pending' <=> Pending
      BY <1>2, <1>5, <2>1, <2>2 DEF Pending
    <2>4. pc' = "execute" => pc = "execute" /\ k' = k
      BY <2>1
    <2> QED
      BY <1>7, <2>1, <2>3, <2>4
  <1>9. CASE FrameGoes
    <2>1. /\ Place = "execute" /\ Place' = "handle" /\ Place \in Running /\ k' = 1 /\ pc' # "execute"
          /\ UNCHANGED <<i, stages, result, seen, out>>
      BY <1>9 DEF FrameGoes, Place, Running
    <2>2. Len(SinkKinds) \in Nat /\ Len(SinkKinds) >= 1
      BY <1>3, <2>1, SinksKnown
    <2>3. Pending /\ Pending'
      BY <1>2, <2>1, <2>2 DEF Pending
    <2> QED
      BY <1>7, <2>1, <2>3
  <1>10. CASE RunBegins
    <2>1. /\ stages' = [j \in DOMAIN P.stages |-> NewStage(P.stages[j])] /\ i' = i /\ seen' = {}
          /\ pc' = "setup" /\ Place' = "setup" /\ out'.summary = NoSummary
      BY <1>10 DEF RunBegins, Place
    <2>2. ~Pending'
      BY <2>1 DEF Pending
    <2>3. \A item : (item.type = "line_crossing" => NewStage(item) = NoLine) /\ (item.type = "track" => NewStage(item) = NoTracks)
      BY Zenon DEF NewStage
    <2>4. (\A t \in Tracks : stages'[t] = NoTracks) /\ (\A l \in Lines : stages'[l] = NoLine)
      BY <2>1, <2>3 DEF StagesOf
    <2>5. /\ NoTracks.next = 0 /\ NoLine.in = 0 /\ NoLine.out = 0
          /\ out'.summary.unique = 0 /\ out'.summary.in = 0 /\ out'.summary.out = 0
      BY <2>1 DEF NoTracks, NoLine, NoSummary
    <2>7. \A t \in Tracks : (IdsTold(t))'
      <3>1. SUFFICES ASSUME NEW t \in Tracks PROVE (IdsTold(t))'
        OBVIOUS
      <3>2. stages'[t].next = 0
        BY <2>4, <2>5
      <3>3. seen' = 0 .. stages'[t].next - 1
        BY <2>1, <3>2
      <3>4. out'.summary.unique = stages'[t].next
        BY <2>5, <3>2
      <3> QED
        BY <2>1, <2>2, <3>2, <3>3, <3>4 DEF IdsTold
    <2>8. \A l \in Lines : (CountsTold(l))'
      BY <2>2, <2>4, <2>5 DEF CountsTold
    <2> QED
      BY <1>2, <2>1, <2>7, <2>8
  <1>11. CASE FrameComes
    <2>1. /\ Place = "read" /\ Place \in Running /\ pc = "read" /\ UNCHANGED <<i, stages, out, seen>>
          /\ result'.packet.has = {}
      BY <1>11 DEF FrameComes, NewResult, NoPacket, Place, Running
    <2>2. ~Pending
      BY <2>1 DEF Pending
    <2>3. \A t : IdsTold(t) => (IdsTold(t))'
      BY <2>1, <2>2 DEF IdsTold
    <2>4. \A l : CountsTold(l) => (CountsTold(l))'
      BY <2>1, <2>2 DEF CountsTold
    <2> HIDE DEF Tracks, Lines
    <2> QED
      BY <1>2, <1>6, <2>1, <2>3, <2>4
  <1>12. CASE RowsWritten
    <2>1. /\ pc = "handle" /\ pc' = "handle" /\ Place = "handle" /\ Place' = "handle" /\ Place \in Running
          /\ k <= Len(SinkKinds) /\ k' = k + 1 /\ UNCHANGED <<i, stages, seen, n, result>>
          /\ out'.summary = IF SinkKinds[k] = "summary" THEN Summary(out.summary) ELSE out.summary
      BY <1>12 DEF RowsWritten, Place, Running
    <2>2. /\ Len(SinkKinds) \in Nat /\ k \in Nat /\ k \in DOMAIN SinkKinds
          /\ IF k = Len(SinkKinds) THEN SinkKinds[k] = "summary" ELSE SinkKinds[k] \in FileKinds
      <3>1. k \in DOMAIN SinkKinds
        BY <2>1, SinksKnown DEF SliceTyped
      <3> QED
        BY <1>3, <2>1, <3>1, SinksKnown DEF SliceTyped
    <2>3. Pending /\ (Pending' <=> k # Len(SinkKinds))
      BY <1>2, <2>1, <2>2 DEF Pending
    <2>4. CASE k # Len(SinkKinds)
      <3>1. out'.summary = out.summary /\ Pending'
        BY <2>1, <2>2, <2>3, <2>4 DEF FileKinds
      <3>2. \A t : IdsTold(t) => (IdsTold(t))'
        BY <2>1, <2>3, <3>1 DEF IdsTold
      <3>3. \A l : CountsTold(l) => (CountsTold(l))'
        BY <2>1, <2>3, <3>1 DEF CountsTold
      <3> HIDE DEF Tracks, Lines
      <3> QED
        BY <1>2, <1>6, <2>1, <3>2, <3>3
    <2>5. CASE k = Len(SinkKinds)
      <3>1. out'.summary = Summary(out.summary) /\ ~Pending'
        BY <2>1, <2>2, <2>3, <2>5
      <3>2. /\ result.verdict # "SUCCESS" => out'.summary = out.summary
            /\ result.verdict = "SUCCESS" =>
                  /\ out'.summary.unique = IF "tracks" \in has THEN result.packet.unique ELSE out.summary.unique
                  /\ out'.summary.in = IF "crossings" \in has THEN result.packet.in ELSE out.summary.in
                  /\ out'.summary.out = IF "crossings" \in has THEN result.packet.out ELSE out.summary.out
        BY <3>1 DEF Summary
      <3> HIDE DEF has
      <3>3. \A t : IdsTold(t) => (IdsTold(t))'
        BY <2>1, <2>3, <3>1, <3>2 DEF IdsTold, has
      <3>4. \A l : CountsTold(l) => (CountsTold(l))'
        BY <2>1, <2>3, <3>1, <3>2 DEF CountsTold, has
      <3> HIDE DEF Tracks, Lines
      <3> QED
        BY <1>2, <1>6, <2>1, <3>3, <3>4
    <2> QED
      BY <2>4, <2>5
  <1>13. CASE RowsCut
    BY <1>3, <1>13 DEF RowsCut, Place, Running
  <1>14. CASE ExecuteStage
    <2> DEFINE item == P.stages[k]
               st == stages[k]
               packet == result.packet
               s == StageStep(item, st, packet, Frame)
    <2>1. /\ pc = "execute" /\ pc' = "execute" /\ i' = i /\ out' = out /\ n' = n /\ k' = k + 1
          /\ k \in DOMAIN P.stages /\ k <= Len(P.stages) /\ Len(P.stages) \in Nat
          /\ DOMAIN P.stages = 1 .. Len(P.stages) /\ result.verdict = "SUCCESS"
          /\ DOMAIN stages = DOMAIN P.stages /\ stages' = [stages EXCEPT ![k] = s.st]
          /\ result'.verdict = s.verdict /\ result'.packet = s.packet /\ PacketTyped(packet)
          /\ StageLeaves(item, st, packet, Frame, s) /\ Place = "execute" /\ Place' = "execute" /\ Place \in Running
          /\ seen' = seen \cup {result'.packet.tracks[j].id : j \in DOMAIN result'.packet.tracks}
      BY <1>14, StageTakesPacket DEF Running
    <2> HIDE DEF s
    <2>2. Pending /\ Pending'
      BY <2>1 DEF Pending
    <2>3. /\ LineEnds
          /\ \A t \in Tracks : (k > t => item.type = "line_crossing") /\ (item.type = "track" => k = t)
      BY <1>3, <2>1, CliChain
    <2>4. packet.events = <<>> /\ "crossings" \notin packet.has
      BY <2>1, <2>3 DEF LineWaits
    <2>5. {packet.tracks[j].id : j \in DOMAIN packet.tracks} \subseteq seen
      BY <2>1 DEF PacketSeen, TracksSeen
    <2>6. (\A t \in Tracks : t \in DOMAIN P.stages) /\ (\A l \in Lines : l = Len(P.stages) /\ l \in DOMAIN P.stages)
      BY <2>3 DEF StagesOf, LineEnds
    <2>7. ASSUME NEW t \in Tracks PROVE (IdsTold(t))'
      <3>1. IdsTold(t) /\ t \in Nat /\ k \in Nat
        BY <1>6, <2>1, <2>6
      <3>2. CASE item.type # "track"
        <4>1. SameTracks(s.packet, packet) /\ t # k
          BY <2>1, <2>7, <3>2 DEF StageLeaves, StagesOf
        <4>2. stages'[t] = stages[t] /\ seen' = seen
          BY <2>1, <2>5, <4>1 DEF SameTracks
        <4>3. "tracks" \in packet.has => s.verdict = "SUCCESS"
          <5>1. SUFFICES ASSUME "tracks" \in packet.has PROVE s.verdict = "SUCCESS"
            OBVIOUS
          <5>2. ~(k <= t)
            BY <2>1, <3>1, <5>1 DEF IdsTold
          <5>3. item.type = "line_crossing"
            BY <2>3, <2>7, <3>1, <5>2
          <5> QED
            BY <2>1, <5>1, <5>3 DEF StageLeaves
        <4>4. k' <= t => k <= t
          BY <2>1, <3>1
        <4> QED
          BY <2>1, <2>2, <3>1, <4>1, <4>2, <4>3, <4>4 DEF IdsTold, SameTracks
      <3>3. CASE item.type = "track"
        <4>1. k = t /\ ~(k' <= t) /\ "tracks" \notin packet.has
          BY <2>1, <2>3, <2>7, <3>1, <3>3 DEF IdsTold
        <4>2. stages'[t] = s.st
          BY <2>1, <4>1
        <4>3. CASE s.verdict # "SUCCESS"
          <5>1. s.st = st /\ s.packet = packet
            BY <2>1, <3>3, <4>3 DEF StageLeaves
          <5>2. seen' = seen /\ stages'[t] = stages[t]
            BY <2>1, <2>5, <4>1, <4>2, <5>1
          <5> QED
            BY <2>1, <2>2, <3>1, <4>1, <5>1, <5>2 DEF IdsTold
        <4>4. CASE s.verdict = "SUCCESS"
          <5> DEFINE u == TrackerUpdate(st, packet.dets, Threshold, Param(item, "max_age", 30))
          <5>1. /\ s.st = u.tracker /\ s.packet.tracks = u.out /\ s.packet.unique = u.tracker.next
                /\ "tracks" \in s.packet.has
            BY <2>1, <3>3, <4>4 DEF StageLeaves
          <5>2. TrackerTyped(st) /\ DetsTyped(packet.dets)
            BY <2>1, <2>7, <4>1 DEF StagesTyped, StagesOf, PacketTyped
          <5>3. /\ TrackerTyped(u.tracker) /\ st.next <= u.tracker.next
                /\ TracksOut(u.out, packet.dets, u.tracker.next)
                /\ \A j \in st.next .. u.tracker.next - 1 : \E d \in DOMAIN u.out : u.out[d].id = j
            BY <5>2, TrackerDoes
          <5> HIDE DEF u
          <5>4. u.tracker.next \in Nat /\ st.next \in Nat /\ seen = 0 .. st.next - 1
            BY <3>1, <4>1, <5>3 DEF TrackerTyped, IdsTold
          <5>5. seen' = seen \cup {u.out[j].id : j \in DOMAIN u.out}
            BY <2>1, <5>1
          <5>6. \A j \in DOMAIN u.out : u.out[j].id \in 0 .. u.tracker.next - 1
            BY <5>3 DEF TracksOut
          <5>7. seen' = 0 .. u.tracker.next - 1
            <6>1. ASSUME NEW x \in 0 .. u.tracker.next - 1 PROVE x \in seen'
              <7>1. x \in 0 .. st.next - 1 \/ x \in st.next .. u.tracker.next - 1
                BY <5>4
              <7> QED
                BY <5>3, <5>4, <5>5, <7>1
            <6>2. \A x \in 0 .. st.next - 1 : x \in 0 .. u.tracker.next - 1
              BY <5>3, <5>4
            <6> QED
              BY <5>4, <5>5, <5>6, <6>1, <6>2
          <5> QED
            BY <2>1, <2>2, <4>1, <4>2, <4>4, <5>1, <5>4, <5>7 DEF IdsTold
        <4> QED
          BY <4>3, <4>4
      <3> QED
        BY <3>2, <3>3
    <2>8. ASSUME NEW l \in Lines PROVE (CountsTold(l))'
      <3>1. out.summary.in = stages[l].in /\ out.summary.out = stages[l].out
        BY <1>6, <2>1, <2>4 DEF CountsTold
      <3>2. CASE item.type # "line_crossing"
        <4>1. SameCrossings(s.packet, packet) /\ l # k
          BY <2>1, <2>8, <3>2 DEF StageLeaves, StagesOf
        <4>2. stages'[l] = stages[l] /\ "crossings" \notin result'.packet.has
          BY <2>1, <2>4, <4>1 DEF SameCrossings
        <4> QED
          BY <2>1, <3>1, <4>2 DEF CountsTold
      <3>3. CASE item.type = "line_crossing"
        <4>1. l = k
          BY <2>1, <2>3, <2>6, <3>3 DEF LineEnds, StagesOf
        <4>2. stages'[l] = s.st
          BY <2>1, <4>1
        <4>3. CASE "tracks" \notin packet.has
          <5>1. s.st = st /\ s.packet = packet
            BY <2>1, <3>3, <4>3 DEF StageLeaves
          <5> QED
            BY <2>1, <2>4, <3>1, <4>1, <4>2, <5>1 DEF CountsTold
        <4>4. CASE "tracks" \in packet.has
          <5> DEFINE u == LineUpdate(st, packet.tracks, LineOf(item), n.read)
          <5>1. /\ s.verdict = "SUCCESS" /\ s.st = u.line /\ "crossings" \in s.packet.has
                /\ s.packet.in = u.line.in /\ s.packet.out = u.line.out
            BY <2>1, <3>3, <4>4 DEF StageLeaves
          <5> HIDE DEF u
          <5> QED
            BY <2>1, <2>2, <4>2, <5>1 DEF CountsTold
        <4> QED
          BY <4>3, <4>4
      <3> QED
        BY <3>2, <3>3
    <2>9. Tracks' = Tracks /\ Lines' = Lines
      BY <1>2, <2>1
    <2> HIDE DEF Tracks, Lines
    <2> QED
      BY <2>7, <2>8, <2>9
  <1> QED
    BY <1>1, <1>8, <1>9, <1>10, <1>11, <1>12, <1>13, <1>14

LEMMA RunToldStep ==
  ASSUME SliceTyped, UnderWay, FramesCounted, StagesTyped, PacketsTyped, RunTold, [Next]_vars
  PROVE  RunTold'
  <1>1. FilesTyped' /\ PacketSeen' /\ LineWaits'
    BY FilesTypedStep, PacketSeenStep, LineWaitsStep DEF RunTold
  <1>2. FilesAgree' /\ LinesTold'
    BY FilesAgreeStep, LinesToldStep DEF RunTold
  <1>3. FilesAlternate' /\ SummaryTold'
    BY FilesAlternateStep, SummaryToldStep DEF RunTold
  <1> QED
    BY <1>1, <1>2, <1>3 DEF RunTold

(* Between two frames nothing is on its way: what is told is in the files. *)
LEMMA AllIsTold ==
  ASSUME SliceTyped, UnderWay, RunTold
  PROVE  CrossingsReported
  <1> USE DEF RunTold
  <1>1. ASSUME Place \in Standing
        PROVE  \A types : SinksOf(types) = FilesOf(types)
    BY <1>1 DEF FilesTyped, SinksOf, FilesOf
  <1>2. CrossingsAlternate
    <2>1. SUFFICES ASSUME pc \in Running \cup {"unsink", "unstage", "unsource"}, LineEnds,
                          NEW l \in StagesOf("line_crossing"), NEW j \in CrossingSinks, Across(LineOf(P.stages[l]))
                   PROVE  Alternates(out.files[j])
      BY DEF CrossingsAlternate
    <2>2. Place \in Standing
      BY <2>1 DEF Place, Standing, Running
    <2>3. Alternating
      BY <2>2, StandingAlternates
    <2>4. j \in FilesOf(CrossingKinds)
      BY <1>1, <2>2 DEF CrossingSinks, CrossingKinds
    <2> QED
      BY <2>1, <2>3, <2>4 DEF Alternating
  <1>3. ReportsAgree
    <2>1. SUFFICES ASSUME pc = "loop" PROVE ReportsAgree
      BY DEF ReportsAgree
    <2>2. Place = "loop" /\ Place \in Running /\ Place \in Standing /\ ~Pending
      BY <2>1 DEF Place, Running, Standing, Pending
    <2>3. /\ CrossingSinks = FilesOf(CrossingKinds) /\ SinksOf({"jsonl"}) = FilesOf({"jsonl"})
          /\ SinksOf({"summary"}) = FilesOf({"summary"})
      BY <1>1, <2>2 DEF CrossingSinks, CrossingKinds
    <2>4. ASSUME NEW j \in FilesOf(CrossingKinds)
          PROVE  out.files[j] \o Owed(j) = out.files[j] /\ Told(j) = out.files[j]
      <3>1. IsSequence(out.files[j])
        BY <2>2 DEF FilesTyped, FilesOf
      <3>2. Owed(j) = <<>> /\ Told(j) = out.files[j] \o Owed(j)
        BY <2>1, <2>2 DEF Owed, Told
      <3> QED
        BY <3>1, <3>2, Emptiness
    <2>5. \A j, l \in CrossingSinks : out.files[j] = out.files[l]
      <3>1. \A j, l \in FilesOf(CrossingKinds) : out.files[j] \o Owed(j) = out.files[l] \o Owed(l)
        BY <2>2 DEF FilesAgree
      <3> QED
        BY <2>3, <2>4, <3>1
    <2>6. ASSUME NEW j \in SinksOf({"jsonl"}) PROVE Len(out.files[j]) = n.processed
      <3>1. IsSequence(out.files[j])
        BY <2>2, <2>3 DEF FilesTyped, FilesOf
      <3>2. Len(out.files[j]) \in Nat
        BY <3>1, LenProperties DEF IsSequence
      <3>3. Len(out.files[j]) + 0 = n.processed
        BY <2>2, <2>3 DEF FilesAgree
      <3> QED
        BY <3>2, <3>3
    <2>7. ASSUME LineEnds, NEW j \in CrossingSinks, NEW l \in StagesOf("line_crossing"), NEW d \in {"in", "out"}
          PROVE  Cardinality({e \in DOMAIN out.files[j] : out.files[j][e].dir = d}) = stages[l][d]
      <3>1. Tells(Told(j), stages[l], LineOf(P.stages[l]), Centres, Top)
        BY <2>2, <2>3, <2>7 DEF LinesTold
      <3>2. Told(j) = out.files[j]
        BY <2>3, <2>4
      <3> QED
        BY <3>1, <3>2 DEF Tells, Counted
    <2>8. ASSUME NEW j \in SinksOf({"summary"})
          PROVE  app.mode = "cli" /\ app.args.track
      <3>1. j \in DOMAIN SinkKinds /\ SinkKinds[j] = "summary"
        BY <2>3 DEF FilesOf
      <3>2. SinkKinds[j] \notin FileKinds
        BY <3>1 DEF FileKinds
      <3> QED
        BY <2>2, <3>1, <3>2, SinksKnown
    <2>9. ASSUME NEW j \in SinksOf({"summary"}) PROVE out.summary.unique = Cardinality(seen)
      <3>1. PICK t \in StagesOf("track") : TRUE
        BY <2>2, <2>8, CliChain
      <3>2. IdsTold(t)
        BY <2>2, <2>8 DEF SummaryTold
      <3> DEFINE m == stages[t].next
      <3>3. m \in Nat /\ seen = 0 .. m - 1 /\ out.summary.unique = m
        BY <2>2, <3>2 DEF IdsTold
      <3> HIDE DEF m
      <3>4. Cardinality(0 .. m - 1) = m
        <4>1. 0 \in Int /\ m - 1 \in Int
          BY <3>3
        <4>2. Cardinality(0 .. m - 1) = IF 0 > m - 1 THEN 0 ELSE (m - 1) - 0 + 1
          BY <4>1, FS_Interval
        <4> QED
          BY <3>3, <4>2
      <3> QED
        BY <3>3, <3>4
    <2>10. ASSUME NEW j \in SinksOf({"summary"}), NEW l \in StagesOf("line_crossing")
           PROVE  out.summary.in = stages[l].in /\ out.summary.out = stages[l].out
      <3>1. CountsTold(l)
        BY <2>2, <2>8 DEF SummaryTold
      <3> QED
        BY <2>2, <3>1 DEF CountsTold
    <2> QED
      BY <2>5, <2>6, <2>7, <2>9, <2>10 DEF ReportsAgree
  <1> QED
    BY <1>2, <1>3 DEF CrossingsReported

(***************************************************************************)
(* The theorems.                                                           *)
(***************************************************************************)

LEMMA SliceInit == Init => SliceInv
  <1> SUFFICES ASSUME Init PROVE SliceInv
    OBVIOUS
  <1> DEFINE empty == [s \in {} |-> 0]
  <1>1. /\ gauges = [frames |-> empty, errors |-> empty]
        /\ DOMAIN empty = {} /\ empty \in [{} -> Nat]
    BY DEF Init
  <1>2. gauges.frames = empty /\ gauges.errors = empty
    BY <1>1
  <1>3. IsFiniteSet({}) /\ Cardinality({}) = 0
    BY FS_EmptySet
  <1> HIDE DEF empty
  <1>4. /\ pc = "load" /\ ret = None /\ i = 1 /\ k = 1 /\ app \in Apps /\ open = {}
        /\ n = NoCounts /\ result = NewResult /\ outcome = <<>> /\ code = NoCode
        /\ log = [state |-> "off", queue |-> <<>>, file |-> <<>>, dropped |-> 0]
    BY DEF Init
  <1>5. SliceTyped
    BY <1>4 DEF SliceTyped, Places, Returns, None, Counts, NoCounts, NewResult, Verdicts
  <1>6. UnderWay /\ SetUp /\ TakenDown
    BY <1>4 DEF UnderWay, Under, Place, Running, SetUp, TakenDown
  <1>7. FramesCounted
    BY <1>4 DEF FramesCounted, NoCounts
  <1>8. GaugesTyped /\ GaugesOfRuns /\ GaugesPaired
    BY <1>1, <1>2, <1>3, <1>4 DEF GaugesTyped, GaugesOfRuns, GaugesPaired
  <1>9. GaugesCapped /\ LastGauge /\ ScrapeSane
    BY <1>1, <1>2, <1>3, <1>4 DEF GaugesCapped, LastGauge, ScrapeSane
  <1>10. LogTyped /\ LogLast
    BY <1>4 DEF LogTyped, LogLast
  <1>11. OutcomesInOrder /\ ExitTold
    BY <1>4 DEF OutcomesInOrder, ExitTold
  <1>12. StagesTyped /\ PacketsTyped
    BY <1>4 DEF StagesTyped, PacketsTyped, Place, Running
  <1> QED
    BY <1>5, <1>6, <1>7, <1>8, <1>9, <1>10, <1>11, <1>12 DEF SliceInv

LEMMA SliceStep == SliceInv /\ [Next]_vars => SliceInv'
  <1> SUFFICES ASSUME SliceInv, [Next]_vars PROVE SliceInv'
    OBVIOUS
  <1> USE DEF SliceInv
  <1>1. SliceTyped' /\ FramesCounted'
    BY TypedStep, FramesStep
  <1>2. UnderWay' /\ SetUp' /\ TakenDown'
    BY UnderWayStep, OpenStep
  <1>3. GaugesSound'
    BY GaugesStep DEF GaugesSound
  <1>4. LogTyped' /\ LogLast'
    BY LogStep
  <1>5. OutcomesInOrder' /\ ExitTold'
    BY OutcomesStep
  <1>6. StagesTyped' /\ PacketsTyped'
    BY AnalyticsStep
  <1> QED
    BY <1>1, <1>2, <1>3, <1>4, <1>5, <1>6 DEF GaugesSound

\* Every state of a run of the application (profiles/vision_slice_app.py with
\* runtime/pipeline_runner.py) is of its type, and the parts of the state fit
\* together: the pipeline under way was taken by the builders, what is set up is
\* what the place in setup or teardown says, the two gauges of a camera differ
\* only between their writes, the last record between two runs is the final one.
THEOREM SliceInvariant == Spec => []SliceInv
  BY SliceInit, SliceStep, PTL DEF Spec

\* The state is of its type throughout.
THEOREM SliceTypes == Spec => []SliceTyped
  <1>1. SliceInv => SliceTyped
    BY DEF SliceInv
  <1> QED
    BY <1>1, SliceInvariant, PTL

\* PipelineRunner.run: a run that has read a frame has torn down everything it
\* set up when its last snapshot is out; one that failed on its way up has its
\* source and, unless it was interrupted, its stages torn down.
THEOREM RunTornDown == Spec => []TornDown
  <1>1. SliceInv => TornDown
    BY DEF SliceInv, TakenDown, TornDown, Place
  <1> QED
    BY <1>1, SliceInvariant, PTL

\* What the program says is what happened: nothing runs that --validate refuses,
\* a scrape never shows more failed frames than frames, the gauges and the log
\* keep the last snapshot of a run, and exit code 0 means that every pipeline of
\* the file has run without an exception.
THEOREM AccountsAreTrue == Spec => []AccountsTrue
  <1>1. SliceInv => AccountsTrue
    <2> SUFFICES ASSUME SliceInv PROVE AccountsTrue
      OBVIOUS
    <2> USE DEF SliceInv
    <2>1. RejectedNeverRuns
      BY DEF RejectedNeverRuns, UnderWay, Place, Running
    <2>2. ScrapeSane
      OBVIOUS
    <2>3. LastWordTrue
      BY DEF LastWordTrue, LastGauge, LogTyped, LogLast, LastRecord, Between
    <2>4. NoPipelineForgotten
      <3>1. SUFFICES ASSUME pc = "done", app.mode = "config", ~app.validate
                     PROVE  /\ outcome # <<>> /\ exc # "Interrupt" => Len(outcome) = Len(app.pipelines)
                            /\ code = 0 => \A j \in DOMAIN app.pipelines : j \in DOMAIN outcome /\ outcome[j] = "ok"
        BY DEF NoPipelineForgotten
      <3>2. outcome # <<>> /\ exc # "Interrupt" => Len(outcome) = Len(app.pipelines)
        BY <3>1 DEF ExitTold
      <3>3. ASSUME code = 0, NEW j \in DOMAIN app.pipelines
            PROVE  j \in DOMAIN outcome /\ outcome[j] = "ok"
        <4>1. /\ Len(outcome) = Len(app.pipelines)
              /\ \A l \in DOMAIN outcome : outcome[l] # "failed"
          BY <3>1, <3>3 DEF ExitTold
        <4>2. app.pipelines = Pipelines /\ DOMAIN Pipelines = 1 .. Len(Pipelines)
          BY <3>1, PipelinesList DEF SliceTyped
        <4>3. /\ DOMAIN outcome = 1 .. Len(outcome)
              /\ \A l \in DOMAIN outcome : outcome[l] \in {"ok", "failed"}
          BY LenProperties DEF OutcomesInOrder
        <4>4. j \in DOMAIN outcome
          BY <3>3, <4>1, <4>2, <4>3
        <4> QED
          BY <4>1, <4>3, <4>4
      <3> QED
        BY <3>2, <3>3
    <2> QED
      BY <2>1, <2>2, <2>3, <2>4 DEF AccountsTrue
  <1> QED
    BY <1>1, SliceInvariant, PTL

\* IouTracker.update with greedy_associate (runtime/iou_tracker.py,
\* domain/tracking.py): whatever the frames show, the identities a frame takes over
\* from the tracks are a stable matching of its detections with them.
THEOREM AssociationStable == Spec => StableAssociation
  <1> DEFINE Stable ==
        pc = "execute" /\ k \in StagesOf("track") /\ k' = k + 1 /\ result'.verdict = "SUCCESS" =>
          LET old == stages[k].tracks
              new == result'.packet.tracks
          IN  StableMatching(old, result.packet.dets, Threshold,
                  {m \in (DOMAIN new) \X (DOMAIN old) : new[m[1]].id = m[2]})
  <1>1. SliceInv /\ [Next]_vars => [Stable]_vars
    <2>1. SUFFICES ASSUME SliceInv, [Next]_vars, pc = "execute", k \in StagesOf("track"), k' = k + 1,
                          result'.verdict = "SUCCESS"
                   PROVE  StableMatching(stages[k].tracks, result.packet.dets, Threshold,
                                         Continued(stages[k].tracks, result'.packet.tracks))
      BY DEF Continued
    <2>2. k \in Nat \ {0}
      BY <2>1 DEF SliceInv, SliceTyped
    <2>3. ExecuteStage
      <3>1. k' # k /\ k' # 1
        BY <2>1, <2>2
      <3>2. ~Executed /\ ~Interrupt /\ ~WriteLog /\ ~Serve /\ ~UNCHANGED vars
        BY <3>1 DEF Executed, Interrupt, WriteLog, Serve, vars, mainVars
      <3> QED
        BY <2>1, <3>2 DEF Next, Main, Load, Observe, Build, SetupSource, SetupStage, SetupSink, Loop,
           ReadGood, ReadBad, Read, Handle, Unsink, Unstage, Unsource, Emit, EmitErrors, Ended, CloseAll, Close
    <2> DEFINE s == StageStep(P.stages[k], stages[k], result.packet, Frame)
    <2>4. /\ result' = [verdict |-> s.verdict, packet |-> s.packet]
          /\ s.verdict = "SUCCESS" =>
                StableMatching(stages[k].tracks, result.packet.dets, Threshold,
                               Continued(stages[k].tracks, s.packet.tracks))
      BY <2>1, <2>3, ExecuteStageLeaves DEF SliceInv
    <2> HIDE DEF s
    <2> QED
      BY <2>1, <2>4
  <1> QED
    BY <1>1, SliceInvariant, PTL DEF Spec, StableAssociation

\* A run is told as it goes (runtime/pipeline_runner.py with its sinks and the
\* LineCrossingStage): the files hold what the line has counted but for what is on
\* its way to them, the frame log has a line per frame processed, the summary
\* follows the stages, and the packet of a frame is about what the camera sees.
THEOREM RunIsTold == Spec => []RunTold
  <1>1. Init => RunTold
    <2>1. SUFFICES ASSUME Init PROVE RunTold
      OBVIOUS
    <2>2. pc = "load" /\ Place = "load"
      BY <2>1 DEF Init, Place
    <2> QED
      BY <2>2 DEF RunTold, FilesTyped, PacketSeen, LineWaits, FilesAgree, LinesTold, FilesAlternate,
         SummaryTold, Standing, Running
  <1>2. SliceInv /\ RunTold /\ [Next]_vars => RunTold'
    BY RunToldStep DEF SliceInv
  <1> QED
    BY <1>1, <1>2, SliceInvariant, PTL DEF Spec

\* Crossing events, counts and summary (runtime/stages.py, runtime/sinks.py): between
\* two frames both event files hold the same events, as many each way as a line at
\* the end of the chain has counted, the frame log has a line per frame processed,
\* the summary the counts of the line and of the tracker's identities; and of an
\* object that stays in sight of a line nobody gets round, the crossings in a file
\* alternate, also in a file that a failing sink or Ctrl+C cut short.
THEOREM CrossingsAreReported == Spec => []CrossingsReported
  <1>1. SliceInv /\ RunTold => CrossingsReported
    BY AllIsTold DEF SliceInv
  <1> QED
    BY <1>1, SliceInvariant, RunIsTold, PTL
=============================================================================
