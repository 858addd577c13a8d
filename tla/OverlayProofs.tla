----------------------------- MODULE OverlayProofs -----------------------------
(***************************************************************************)
(* Theorems about Overlay, for any number of detectors and boxes, any      *)
(* leases, any delays and any order of events: a result that is shown is   *)
(* of the epoch it is shown under, a track does not outlive its lease, and *)
(* the page is never ahead of the server and catches up with it.           *)
(*                                                                         *)
(* The page, every event on its way to it and the stabilizer are three     *)
(* stages of the same tracks.  The invariant says of any two of them that  *)
(* the later one is not behind the earlier, and what the deadline of a box *)
(* has to do with the lease of its track.                                  *)
(***************************************************************************)
EXTENDS Overlay, FiniteSetTheorems, SequenceTheorems, TLAPS

--------------------------------------------------------------------------------
(* The sets the state is made of.                                          *)

TrackIds == Nat \X Nat

Keyed(T) == UNION {[D -> T] : D \in SUBSET TrackIds}

Track == [rev : Nat, miss : Nat, lease : Nat]
Candidate == [hits : Nat, lease : Nat]

Listed == UNION {[D -> Candidate] : D \in SUBSET (1 .. MaxBoxes)}

Stabs ==
  [epoch : Nat, confirmed : Keyed(Track), candidates : Listed, counter : Nat, revision : Nat]

Healths == {"INITIALIZING", "LIVE", "ERROR"}

Stores == [version : Int, token : Nat, health : Healths, raw : Int]

Views ==
  [proc : Nat, epoch : Nat, rev : Nat, health : Healths, tracks : Keyed(Track), raw : Int]

Payloads == [proc : Nat, epoch : Nat, boxes : Keyed([rev : Nat, rem : Nat])]

Pages ==
  [proc : Int, retired : SUBSET Int, src : Int, boxes : Keyed([rev : Nat, deadline : Nat])]

Links ==
  [mode : {"sse", "degraded", "poll", "none"}, last : Int, pipe : Seq(Payloads), asked : Int]

Calls ==
  [pc : {"poll", "taken", "infer", "report"}, epoch : Nat, ver : Nat, token : Nat, ok : BOOLEAN]

Typed ==
  /\ now \in Nat /\ proc \in Nat
  /\ stab \in Stabs /\ store \in Stores /\ view \in Views
  /\ frame \in [epoch : Nat, ver : Nat]
  /\ call \in [Detectors -> Calls]
  /\ sched \in [pc : {"plan", "sleep"}, wake : Nat]
  /\ link \in Links /\ page \in Pages

(* A function on some of the displayIds.                                   *)
LEMMA KeyedIs ==
  ASSUME NEW T, NEW f
  PROVE  f \in Keyed(T) <=> f \in [DOMAIN f -> T] /\ DOMAIN f \subseteq TrackIds
BY DEF Keyed

LEMMA KeyedAt ==
  ASSUME NEW T, NEW f \in Keyed(T), NEW id \in DOMAIN f
  PROVE  f[id] \in T /\ id \in TrackIds /\ id[1] \in Nat /\ id[2] \in Nat
BY DEF Keyed, TrackIds

LEMMA ListedIs ==
  ASSUME NEW f
  PROVE  f \in Listed <=> f \in [DOMAIN f -> Candidate] /\ DOMAIN f \subseteq 1 .. MaxBoxes
BY DEF Listed

(* The function on none of them.                                           *)
LEMMA KeyedEmpty ==
  /\ DOMAIN <<>> = {} /\ <<>> \in Listed
  /\ \A T : <<>> \in Keyed(T)
<1>1. DOMAIN <<>> = {} /\ \A T : <<>> \in [{} -> T]
  OBVIOUS
<1> QED BY <1>1 DEF Keyed, Listed

(* The larger and the smaller of two numbers, and the least of many.       *)
LEMMA TwoMax ==
  ASSUME NEW a \in Int, NEW b \in Int
  PROVE  Max({a, b}) = (IF a >= b THEN a ELSE b)
BY DEF Max

LEMMA TwoMin ==
  ASSUME NEW a \in Int, NEW b \in Int
  PROVE  Min({a, b}) = (IF a =< b THEN a ELSE b)
BY DEF Min

LEMMA LeastOf ==
  ASSUME NEW S \in SUBSET Nat, S # {}
  PROVE  Min(S) \in S /\ \A x \in S : Min(S) =< x
<1> DEFINE R == OpToRel(<, Nat)
<1>1. IsWellFoundedOn(R, Nat)
  BY NatLessThanWellFounded
<1>2. \A x, y \in Nat : <<y, x>> \in R <=> y < x
  BY DEF OpToRel
<1> HIDE DEF R
<1>3. PICK x \in S : \A y \in S : ~(<<y, x>> \in R)
  BY <1>1, WFMin
<1>4. ASSUME NEW y \in S PROVE x =< y
  <2>1. x \in Nat /\ y \in Nat /\ ~(<<y, x>> \in R)
    BY <1>3
  <2>2. ~(y < x)
    BY <1>2, <2>1
  <2> QED BY <2>1, <2>2
<1> QED BY <1>4 DEF Min

--------------------------------------------------------------------------------
(* What the store's operations do to the stabilizer.                       *)

(* From s to u the tracks live on, are matched at time t, leave, or are    *)
(* new and have numbers that were not used.                                *)
Evolves(s, u, t) ==
  /\ u.epoch = s.epoch /\ u.counter >= s.counter
  /\ \A id \in DOMAIN u.confirmed :
       \/ /\ id \in DOMAIN s.confirmed
          /\ u.confirmed[id].rev = s.confirmed[id].rev
          /\ u.confirmed[id].lease = s.confirmed[id].lease
       \/ /\ id \in DOMAIN s.confirmed
          /\ u.confirmed[id].rev = s.confirmed[id].rev + 1
          /\ u.confirmed[id].lease = t + DisplayLease
       \/ /\ id[1] = s.epoch /\ id[2] > s.counter /\ id[2] =< u.counter
          /\ u.confirmed[id].lease = t + DisplayLease

LEMMA EvolvesSame ==
  ASSUME NEW s \in Stabs, NEW t
  PROVE  Evolves(s, s, t)
<1>1. s.counter \in Nat
  BY DEF Stabs
<1> QED BY <1>1 DEF Evolves

(* No candidate waits for longer than a lease.                             *)
Waiting(s, t) ==
  \A i \in DOMAIN s.candidates : s.candidates[i].lease =< t + DisplayLease

LEMMA LeasesType ==
  /\ DisplayLease \in Nat /\ CandidateLease \in Nat /\ CandidateLease =< DisplayLease
  /\ IdlePoll \in Nat /\ MaxWait \in Nat /\ Late \in Nat /\ MaxBoxes \in Nat
  /\ DisplayLease > 0 /\ IdlePoll > 0 /\ MaxWait > 0
BY OverlayAssumption DEF OverlayAssumption

(* A result that is accepted.                                              *)
LEMMA ResultStab ==
  ASSUME NEW s \in Stabs, NEW t \in Nat, NEW r \in Results(s, t), NEW u,
         u = OnAcceptedResult(s, r, t)
  PROVE  u \in Stabs /\ Evolves(s, u, t) /\ Waiting(u, t)
<1> USE LeasesType
<1> DEFINE cands == Recandidated(s, r, t)
           old   == Rematched(s, r, t)
           promoted == {i \in DOMAIN cands : cands[i].hits >= MinHits}
           new   == {<<s.epoch, s.counter + k>> : k \in 1 .. Cardinality(promoted)}
           conf  == [id \in DOMAIN old \cup new |->
                       IF id \in new THEN [rev |-> 0, miss |-> 0, lease |-> t + DisplayLease]
                       ELSE old[id]]
           cand  == [i \in DOMAIN cands \ promoted |-> cands[i]]
           count == s.counter + Cardinality(promoted)
           rev   == s.revision + 1
<1>1. /\ s.epoch \in Nat /\ s.counter \in Nat /\ s.revision \in Nat
      /\ s.confirmed \in [DOMAIN s.confirmed -> Track] /\ DOMAIN s.confirmed \subseteq TrackIds
      /\ s.candidates \in [DOMAIN s.candidates -> Candidate]
      /\ DOMAIN s.candidates \subseteq 1 .. MaxBoxes
  BY KeyedIs, ListedIs DEF Stabs
<1>2. /\ r.matched \subseteq DOMAIN s.confirmed /\ r.kept \subseteq DOMAIN s.candidates
      /\ r.fresh \subseteq 1 .. MaxBoxes
  BY DEF Results
<1>3. /\ DOMAIN cands \subseteq 1 .. MaxBoxes
      /\ \A i \in DOMAIN cands : cands[i] \in Candidate /\ cands[i].lease = t + CandidateLease
  <2>1. DOMAIN cands = r.kept \cup r.fresh
    BY DEF Recandidated
  <2>2. ASSUME NEW i \in r.kept \cup r.fresh
        PROVE  cands[i] \in Candidate /\ cands[i].lease = t + CandidateLease
    <3>1. i \in r.kept => s.candidates[i].hits \in Nat
      BY <1>1, <1>2 DEF Candidate
    <3> QED BY <3>1 DEF Recandidated, Candidate
  <2> QED BY <1>1, <1>2, <2>1, <2>2
<1>4. /\ DOMAIN old \subseteq DOMAIN s.confirmed
      /\ \A id \in DOMAIN old :
           /\ old[id] \in Track
           /\ \/ old[id].rev = s.confirmed[id].rev /\ old[id].lease = s.confirmed[id].lease
              \/ old[id].rev = s.confirmed[id].rev + 1 /\ old[id].lease = t + DisplayLease
  <2>1. DOMAIN old \subseteq DOMAIN s.confirmed
    BY DEF Rematched
  <2>2. ASSUME NEW id \in DOMAIN old
        PROVE  /\ old[id] \in Track
               /\ \/ old[id].rev = s.confirmed[id].rev /\ old[id].lease = s.confirmed[id].lease
                  \/ old[id].rev = s.confirmed[id].rev + 1 /\ old[id].lease = t + DisplayLease
    <3>1. s.confirmed[id] \in Track
      BY <1>1, <2>1
    <3>2. old[id] = IF id \in r.matched
                      THEN [rev |-> s.confirmed[id].rev + 1, miss |-> 0, lease |-> t + DisplayLease]
                      ELSE [s.confirmed[id] EXCEPT !.miss = @ + 1]
      BY DEF Rematched
    <3> QED BY <3>1, <3>2 DEF Track
  <2> QED BY <2>1, <2>2
<1>5. Cardinality(promoted) \in Nat
  <2>1. IsFiniteSet(1 .. MaxBoxes)
    BY FS_Interval
  <2>2. promoted \in SUBSET (1 .. MaxBoxes)
    BY <1>3
  <2> HIDE DEF promoted
  <2> QED BY <2>1, <2>2, FS_Subset, FS_CardinalityType
<1> HIDE DEF cands, old, promoted
<1>6. /\ new \subseteq TrackIds
      /\ \A id \in new : id[1] = s.epoch /\ id[2] > s.counter /\ id[2] =< count
  <2>1. ASSUME NEW k \in 1 .. Cardinality(promoted)
        PROVE  /\ <<s.epoch, s.counter + k>> \in TrackIds
               /\ s.counter + k > s.counter /\ s.counter + k =< count
    BY <1>1, <1>5, <2>1 DEF TrackIds
  <2> QED BY <2>1
<1> HIDE DEF new
<1>7. conf \in Keyed(Track) /\ DOMAIN conf = DOMAIN old \cup new
  <2>1. [rev |-> 0, miss |-> 0, lease |-> t + DisplayLease] \in Track
    BY DEF Track
  <2>2. DOMAIN conf \subseteq TrackIds /\ conf \in [DOMAIN conf -> Track]
    BY <1>1, <1>4, <1>6, <2>1
  <2> QED BY <2>2, KeyedIs
<1>8. cand \in Listed
  <2>1. cand \in [DOMAIN cand -> Candidate] /\ DOMAIN cand \subseteq 1 .. MaxBoxes
    BY <1>3
  <2> QED BY <2>1, ListedIs
<1>9. count \in Nat /\ count >= s.counter /\ rev \in Nat
  BY <1>1, <1>5
<1>10. u = [s EXCEPT !.confirmed = conf, !.candidates = cand, !.counter = count,
                     !.revision = rev]
  BY DEF OnAcceptedResult, new, cands, old, promoted
<1>11. \A id \in DOMAIN conf : conf[id] = IF id \in new THEN [rev |-> 0, miss |-> 0, lease |-> t + DisplayLease]
                       ELSE old[id]
  OBVIOUS
<1>12. \A i \in DOMAIN cand : cand[i].lease = t + CandidateLease
  BY <1>3
<1> HIDE DEF conf, cand, count, rev
<1>13. /\ u \in Stabs /\ u.epoch = s.epoch /\ u.confirmed = conf /\ u.candidates = cand
       /\ u.counter = count
  BY <1>1, <1>7, <1>8, <1>9, <1>10 DEF Stabs
<1>14. Evolves(s, u, t)
  BY <1>4, <1>6, <1>7, <1>9, <1>11, <1>13 DEF Evolves
<1>15. Waiting(u, t)
  BY <1>12, <1>13 DEF Waiting
<1> QED BY <1>13, <1>14, <1>15

(* A tick: what has expired at t is gone, and without a new revision       *)
(* nothing has changed.                                                    *)
LEMMA TickStab ==
  ASSUME NEW s \in Stabs, NEW t \in Nat, NEW gone, NEW u, u = OnTick(s, gone, t)
  PROVE  /\ u \in Stabs /\ Evolves(s, u, t)
         /\ \A id \in DOMAIN u.confirmed : u.confirmed[id].lease > t
         /\ Waiting(s, t) => Waiting(u, t)
         /\ u.revision = s.revision => u.confirmed = s.confirmed
         /\ u.revision \in Nat
<1> DEFINE stay  == {id \in DOMAIN s.confirmed : s.confirmed[id].lease > t} \ gone
           cands == {i \in DOMAIN s.candidates : s.candidates[i].lease > t}
           same  == stay = DOMAIN s.confirmed /\ cands = DOMAIN s.candidates
           conf  == [id \in stay |-> s.confirmed[id]]
           cand  == [i \in cands |-> s.candidates[i]]
           rev   == IF same THEN s.revision ELSE s.revision + 1
<1>1. /\ s.epoch \in Nat /\ s.counter \in Nat /\ s.revision \in Nat
      /\ s.confirmed \in [DOMAIN s.confirmed -> Track] /\ DOMAIN s.confirmed \subseteq TrackIds
      /\ s.candidates \in [DOMAIN s.candidates -> Candidate]
      /\ DOMAIN s.candidates \subseteq 1 .. MaxBoxes
  BY KeyedIs, ListedIs DEF Stabs
<1>2. conf \in [DOMAIN conf -> Track] /\ DOMAIN conf \subseteq TrackIds
  BY <1>1
<1>3. conf \in Keyed(Track)
  BY <1>2, KeyedIs
<1>4. cand \in Listed
  <2>1. cand \in [DOMAIN cand -> Candidate] /\ DOMAIN cand \subseteq 1 .. MaxBoxes
    BY <1>1
  <2> QED BY <2>1, ListedIs
<1>5. u = [s EXCEPT !.confirmed = conf, !.candidates = cand, !.revision = rev]
  BY DEF OnTick
<1>6. /\ DOMAIN conf \subseteq DOMAIN s.confirmed
      /\ \A id \in DOMAIN conf : conf[id] = s.confirmed[id] /\ conf[id].lease > t
      /\ DOMAIN cand \subseteq DOMAIN s.candidates
      /\ \A i \in DOMAIN cand : cand[i] = s.candidates[i]
  OBVIOUS
<1>7. rev \in Nat /\ (rev = s.revision => conf = s.confirmed)
  BY <1>1
<1> HIDE DEF conf, cand, rev
<1>8. /\ u \in Stabs /\ u.epoch = s.epoch /\ u.confirmed = conf /\ u.candidates = cand
      /\ u.counter = s.counter /\ u.revision = rev
  BY <1>1, <1>3, <1>4, <1>5, <1>7 DEF Stabs
<1> QED BY <1>1, <1>6, <1>7, <1>8 DEF Evolves, Waiting

--------------------------------------------------------------------------------
(* The invariant.                                                          *)

(* A snapshot is of the stabilizer as it is, and of the newest result.     *)
Shown ==
  /\ view.proc = proc /\ view.epoch = stab.epoch /\ view.tracks = stab.confirmed
  /\ view.raw = store.raw /\ store.raw = store.version

(* Frames and inferences are of the present epoch or an earlier one, and   *)
(* no inference is of a frame that is still to come.                       *)
InOrder ==
  /\ frame.epoch =< stab.epoch
  /\ \A d \in Detectors :
       call[d].pc \in {"taken", "infer"} =>
         \/ call[d].epoch < frame.epoch
         \/ call[d].epoch = frame.epoch /\ call[d].ver =< frame.ver

(* No deadline is further away than a lease.                               *)
Leased ==
  /\ Waiting(stab, now)
  /\ \A id \in DOMAIN stab.confirmed : stab.confirmed[id].lease =< now + DisplayLease

(* The scheduler wakes before the first lease ends, give or take how late  *)
(* its thread is.                                                          *)
Awake ==
  IF sched.pc = "plan"
    THEN \A id \in DOMAIN stab.confirmed : now =< stab.confirmed[id].lease
    ELSE /\ now =< sched.wake + Late
         /\ sched.wake =< now + DisplayLease
         /\ \A id \in DOMAIN stab.confirmed : sched.wake =< stab.confirmed[id].lease

(* displayIds that the stabilizer has given out.                           *)
Issued(s, id) == id[1] < s.epoch \/ (id[1] = s.epoch /\ id[2] =< s.counter)

(* displayIds in use are given out.                                        *)
Numbered == \A id \in DOMAIN stab.confirmed : Issued(stab, id)

(* Boxes b of process p and epoch e are not ahead of process q with        *)
(* stabilizer s.                                                           *)
Behind(p, e, b, q, s) ==
  /\ p =< q
  /\ p = q =>
       /\ e =< s.epoch
       /\ \A id \in DOMAIN b :
            /\ Issued(s, id)
            /\ id \in DOMAIN s.confirmed => b[id].rev =< s.confirmed[id].rev

(* ... and not ahead of a payload.                                         *)
Precedes(p, e, b, o) ==
  /\ p =< o.proc
  /\ p = o.proc =>
       /\ e =< o.epoch
       /\ \A id \in DOMAIN b \cap DOMAIN o.boxes : b[id].rev =< o.boxes[id].rev

(* The page and the events on their way, from the oldest to the newest.    *)
PageBehind ==
  /\ page.proc \in Nat \cup {None}
  /\ page.proc = None => page.src = None
  /\ \A p \in page.retired : p < page.proc
  /\ Behind(page.proc, page.src, page.boxes, proc, stab)

EventsBehind ==
  \A i \in 1 .. Len(link.pipe) :
    /\ Behind(link.pipe[i].proc, link.pipe[i].epoch, link.pipe[i].boxes, proc, stab)
    /\ Precedes(page.proc, page.src, page.boxes, link.pipe[i])

EventsInOrder ==
  \A i, j \in 1 .. Len(link.pipe) :
    i < j => Precedes(link.pipe[i].proc, link.pipe[i].epoch, link.pipe[i].boxes, link.pipe[j])

(* A box that is as new as its track is drawn as long as the track's lease *)
(* lasts, ...                                                              *)
PageLasts(p, b, q, s) ==
  p = q => \A id \in DOMAIN b \cap DOMAIN s.confirmed :
             b[id].rev = s.confirmed[id].rev => b[id].deadline >= s.confirmed[id].lease

EventLasts(o, q, s, t) ==
  o.proc = q => \A id \in DOMAIN o.boxes \cap DOMAIN s.confirmed :
                  o.boxes[id].rev = s.confirmed[id].rev =>
                    t + o.boxes[id].rem >= s.confirmed[id].lease

Lasting ==
  link.mode = "sse" =>
    /\ PageLasts(page.proc, page.boxes, proc, stab)
    /\ \A i \in 1 .. Len(link.pipe) : EventLasts(link.pipe[i], proc, stab, now)

(* ... and no longer by a page that polls, which takes what is left of a   *)
(* lease from the time it asked.                                           *)
PageBrief(p, b, q, s, t) ==
  p = q => \A id \in DOMAIN b \cap DOMAIN s.confirmed :
             b[id].deadline =< t \/ b[id].deadline =< s.confirmed[id].lease

AnswerBrief(o, asked, q, s, t) ==
  o.proc = q => \A id \in DOMAIN o.boxes \cap DOMAIN s.confirmed :
                  \/ asked + o.boxes[id].rem =< t
                  \/ asked + o.boxes[id].rem =< s.confirmed[id].lease

Brief ==
  link.mode = "poll" =>
    /\ PageBrief(page.proc, page.boxes, proc, stab, now)
    /\ \A i \in 1 .. Len(link.pipe) : AnswerBrief(link.pipe[i], link.asked, proc, stab, now)

(* One request at a time, and none while there is a stream.                *)
Asked ==
  /\ link.asked # None => /\ link.mode \in {"poll", "degraded"}
                          /\ link.asked \in Nat /\ link.asked =< now
  /\ link.mode # "sse" /\ link.pipe # <<>> => link.asked # None
  /\ Len(link.pipe) =< 1 \/ link.mode = "sse"

(* What the stabilizer holds is on its way, or has arrived.                *)
Mirrors(o) ==
  /\ o.proc = proc /\ o.epoch = stab.epoch
  /\ DOMAIN o.boxes = DOMAIN stab.confirmed
  /\ \A id \in DOMAIN o.boxes : o.boxes[id].rev = stab.confirmed[id].rev

Seen ==
  /\ page.proc = proc /\ page.src = stab.epoch
  /\ DOMAIN page.boxes \subseteq DOMAIN stab.confirmed
  /\ \A id \in DOMAIN stab.confirmed :
       IF id \in DOMAIN page.boxes THEN page.boxes[id].rev = stab.confirmed[id].rev
       ELSE stab.confirmed[id].lease =< now

Delivered ==
  link.mode = "sse" =>
    /\ link.last =< view.rev
    /\ link.last = view.rev =>
         IF link.pipe = <<>> THEN Seen ELSE Mirrors(link.pipe[Len(link.pipe)])

ServerInv ==
  /\ Typed /\ Shown /\ InOrder /\ ResultOfEpoch /\ Leased /\ Numbered
  /\ IdlePoll =< DisplayLease => Awake

PageInv == PageBehind /\ EventsBehind /\ EventsInOrder /\ Lasting /\ Brief /\ Asked /\ Delivered

OverlayInv == ServerInv /\ PageInv

--------------------------------------------------------------------------------
(* The operations of the store.                                            *)

(* A snapshot that is committed.                                           *)
LEMMA CommitView ==
  ASSUME Typed, NEW s \in Stabs, NEW st \in Stores, NEW tr \in Keyed(Track), Commit(s, st, tr)
  PROVE  /\ view' \in Views /\ view'.proc = view.proc /\ view'.epoch = s.epoch
         /\ view'.rev = view.rev + 1 /\ view'.tracks = tr /\ view'.raw = st.raw
<1> DEFINE e == s.epoch
           n == view.rev + 1
           h == st.health
           w == st.raw
<1>1. e \in Nat /\ n \in Nat /\ h \in Healths /\ w \in Int /\ view \in Views
  BY DEF Typed, Stabs, Stores, Views
<1>2. view' = [view EXCEPT !.epoch = e, !.rev = n, !.health = h, !.tracks = tr, !.raw = w]
  BY DEF Commit
<1> HIDE DEF e, n, h, w
<1>3. /\ view' \in Views /\ view'.proc = view.proc /\ view'.epoch = e
      /\ view'.rev = n /\ view'.tracks = tr /\ view'.raw = w
  BY <1>1, <1>2 DEF Views
<1> QED BY <1>3 DEF e, n, w

(* How stabilizer, store and snapshot change while the server lives.       *)
StabTo ==
  /\ proc' = proc
  /\ stab' \in Stabs /\ store' \in Stores /\ view' \in Views
  /\ Evolves(stab, stab', now)
  /\ Waiting(stab, now) => Waiting(stab', now)
  /\ \/ view' = view /\ stab'.confirmed = stab.confirmed
     \/ view'.rev = view.rev + 1

(* A step that leaves the stabilizer alone is such a change.               *)
LEMMA Unchanging ==
  ASSUME Typed, UNCHANGED <<proc, overlay>>
  PROVE  StabTo /\ (Shown => Shown')
<1>1. stab \in Stabs /\ store \in Stores /\ view \in Views /\ Evolves(stab, stab, now)
  BY EvolvesSame DEF Typed
<1>2. proc' = proc /\ stab' = stab /\ store' = store /\ view' = view
  BY DEF overlay
<1> QED BY <1>1, <1>2 DEF StabTo, Shown

(* A result is shown if the gate lets it through, and changes nothing      *)
(* otherwise.                                                              *)
LEMMA CompletionEffect ==
  ASSUME Typed, Shown, NEW c \in Calls, ApplyCompletion(c), proc' = proc
  PROVE  /\ StabTo /\ Shown'
         /\ \/ stab' = stab /\ view' = view
            \/ Gate(c) /\ view'.raw = c.ver /\ view.raw = store.version
<1>1. CASE ~Gate(c) /\ UNCHANGED <<stab, store, view>>
  BY <1>1, Unchanging DEF overlay
<1>2. CASE /\ Gate(c)
           /\ store' = [store EXCEPT !.version = c.ver, !.raw = c.ver]
           /\ \E r \in Results(stab, now) : stab' = OnAcceptedResult(stab, r, now)
           /\ Commit(stab', store', stab'.confirmed)
  <2>1. stab' \in Stabs /\ Evolves(stab, stab', now) /\ Waiting(stab', now)
    BY <1>2, ResultStab DEF Typed
  <2>2. store' \in Stores /\ store'.raw = c.ver /\ store'.version = c.ver
    <3> DEFINE n == c.ver
    <3>1. n \in Int /\ store \in Stores
      BY DEF Typed, Calls
    <3>2. store' = [store EXCEPT !.version = n, !.raw = n]
      BY <1>2
    <3> HIDE DEF n
    <3>3. store' \in Stores /\ store'.raw = n /\ store'.version = n
      BY <3>1, <3>2 DEF Stores
    <3> QED BY <3>3 DEF n
  <2>3. stab'.confirmed \in Keyed(Track)
    BY <2>1 DEF Stabs
  <2>4. /\ view' \in Views /\ view'.proc = view.proc /\ view'.epoch = stab'.epoch
        /\ view'.rev = view.rev + 1 /\ view'.tracks = stab'.confirmed /\ view'.raw = store'.raw
    BY <1>2, <2>1, <2>2, <2>3, CommitView
  <2> QED BY <1>2, <2>1, <2>2, <2>4 DEF StabTo, Shown
<1> QED BY <1>1, <1>2 DEF ApplyCompletion

(* A tick leaves what has not expired, and is shown if it changed anything.*)
LEMMA TickEffect ==
  ASSUME Typed, Shown, ApplyTick, proc' = proc
  PROVE  /\ StabTo /\ Shown' /\ view'.raw = view.raw
         /\ \A id \in DOMAIN stab'.confirmed : stab'.confirmed[id].lease > now
<1>1. PICK gone \in SUBSET MayBeGone(stab, now) : stab' = OnTick(stab, gone, now)
  BY DEF ApplyTick
<1>2. /\ stab' \in Stabs /\ Evolves(stab, stab', now)
      /\ \A id \in DOMAIN stab'.confirmed : stab'.confirmed[id].lease > now
      /\ Waiting(stab, now) => Waiting(stab', now)
      /\ stab'.revision = stab.revision => stab'.confirmed = stab.confirmed
  BY <1>1, TickStab DEF Typed
<1>3. store' = store /\ store \in Stores /\ view \in Views
  BY DEF ApplyTick, Typed
<1>4. CASE stab'.revision # stab.revision
  <2>1. stab'.confirmed \in Keyed(Track)
    BY <1>2 DEF Stabs
  <2>2. /\ view' \in Views /\ view'.proc = view.proc /\ view'.epoch = stab'.epoch
        /\ view'.rev = view.rev + 1 /\ view'.tracks = stab'.confirmed /\ view'.raw = store.raw
    BY <1>2, <1>3, <1>4, <2>1, CommitView DEF ApplyTick
  <2> QED BY <1>2, <1>3, <2>2 DEF StabTo, Shown
<1>5. CASE stab'.revision = stab.revision
  <2>1. view' = view
    BY <1>5 DEF ApplyTick
  <2> QED BY <1>2, <1>3, <1>5, <2>1 DEF StabTo, Shown, Evolves
<1> QED BY <1>4, <1>5

(* Health is shown with the tracks as they were.                           *)
LEMMA HealthEffect ==
  ASSUME Typed, Shown, NEW h \in Healths, SetHealth(h), proc' = proc
  PROVE  StabTo /\ Shown' /\ view'.raw = view.raw /\ stab' = stab
<1>1. stab' = stab /\ stab \in Stabs /\ Evolves(stab, stab', now)
  BY EvolvesSame DEF SetHealth, Typed
<1>2. store' \in Stores /\ store'.raw = store.raw /\ store'.version = store.version
  BY DEF SetHealth, Typed, Stores
<1>3. CASE h # store.health
  <2>1. view.tracks \in Keyed(Track)
    BY DEF Typed, Views
  <2>2. /\ view' \in Views /\ view'.proc = view.proc /\ view'.epoch = stab.epoch
        /\ view'.rev = view.rev + 1 /\ view'.tracks = view.tracks /\ view'.raw = store'.raw
    BY <1>1, <1>2, <1>3, <2>1, CommitView DEF SetHealth
  <2> QED BY <1>1, <1>2, <2>2 DEF StabTo, Shown
<1>4. CASE h = store.health
  <2>1. view' = view
    BY <1>4 DEF SetHealth
  <2> QED BY <1>1, <1>2, <2>1 DEF StabTo, Shown, Typed
<1> QED BY <1>3, <1>4

(* The stabilizer of a new epoch has nothing in it.                        *)
Emptied(s) == s.confirmed = <<>> /\ s.candidates = <<>>

LEMMA DiscontinuityEffect ==
  ASSUME Typed, Shown, Discontinuity
  PROVE  /\ stab' \in Stabs /\ store' \in Stores /\ view' \in Views
         /\ stab'.epoch = stab.epoch + 1 /\ Emptied(stab')
         /\ view'.rev = view.rev + 1 /\ view'.raw = NoRaw /\ Shown'
<1> DEFINE e == stab.epoch + 1
           n == stab.revision + 1
           k == store.token + 1
<1>1. e \in Nat /\ n \in Nat /\ k \in Nat /\ 0 \in Nat /\ NoRaw \in Int /\ None \in Int
      /\ stab \in Stabs /\ store \in Stores /\ <<>> \in Keyed(Track) /\ <<>> \in Listed
  BY KeyedEmpty DEF Typed, Stabs, Stores, NoRaw, None
<1>2. /\ stab' = [stab EXCEPT !.epoch = e, !.confirmed = <<>>, !.candidates = <<>>,
                              !.counter = 0, !.revision = n]
      /\ store' = [store EXCEPT !.version = None, !.token = k, !.raw = NoRaw]
      /\ Commit(stab', store', stab'.confirmed) /\ proc' = proc
  BY DEF Discontinuity, ApplySourceDiscontinuity, OnDiscontinuity
<1> HIDE DEF e, n, k
<1>3. stab' \in Stabs /\ stab'.epoch = e /\ stab'.confirmed = <<>> /\ stab'.candidates = <<>>
  BY <1>1, <1>2 DEF Stabs
<1>4. store' \in Stores /\ store'.raw = NoRaw /\ store'.version = None
  BY <1>1, <1>2 DEF Stores
<1>5. stab'.confirmed \in Keyed(Track)
  BY <1>1, <1>3
<1>6. /\ view' \in Views /\ view'.proc = view.proc /\ view'.epoch = stab'.epoch
      /\ view'.rev = view.rev + 1 /\ view'.tracks = stab'.confirmed /\ view'.raw = store'.raw
  BY <1>2, <1>3, <1>4, <1>5, CommitView
<1>7. Shown'
  BY <1>2, <1>4, <1>6 DEF Shown, NoRaw
<1> QED BY <1>3, <1>4, <1>6, <1>7 DEF Emptied, e

(* So has the stabilizer of a new process.                                 *)
LEMMA RestartEffect ==
  ASSUME Typed, Restart
  PROVE  /\ proc' = proc + 1 /\ stab' \in Stabs /\ store' \in Stores /\ view' \in Views
         /\ Emptied(stab') /\ view'.rev = 0 /\ view'.raw = NoRaw /\ Shown'
<1>1. stab' = NewStab(1) /\ store' = NewStore /\ view' = NewView(proc') /\ proc' = proc + 1
      /\ proc' \in Nat
  BY DEF Restart, Typed
<1>2. stab' \in Stabs
  BY <1>1, KeyedEmpty DEF NewStab, Stabs
<1>3. store' \in Stores
  BY <1>1 DEF NewStore, Stores, Healths, NoRaw, None
<1>4. view' \in Views
  BY <1>1, KeyedEmpty DEF NewView, Views, Healths, NoRaw, None
<1> QED BY <1>1, <1>2, <1>3, <1>4 DEF NewStab, NewStore, NewView, Shown, NoRaw, Emptied

--------------------------------------------------------------------------------
(* Boxes against a stabilizer that changes.                                *)

LEMMA BehindEvolves ==
  ASSUME NEW s \in Stabs, NEW u \in Stabs, NEW t \in Nat, Evolves(s, u, t),
         NEW p, NEW e, NEW b, NEW q, Behind(p, e, b, q, s),
         \A id \in DOMAIN b : b[id].rev \in Nat /\ id[1] \in Nat /\ id[2] \in Nat
  PROVE  Behind(p, e, b, q, u)
<1>1. ASSUME p = q, NEW id \in DOMAIN b
      PROVE  /\ Issued(u, id)
             /\ id \in DOMAIN u.confirmed => b[id].rev =< u.confirmed[id].rev
  <2>1. Issued(s, id) /\ (id \in DOMAIN s.confirmed => b[id].rev =< s.confirmed[id].rev)
    BY <1>1 DEF Behind
  <2>2. s.epoch \in Nat /\ s.counter \in Nat /\ u.counter \in Nat /\ b[id].rev \in Nat
         /\ id[1] \in Nat /\ id[2] \in Nat
    BY DEF Stabs
  <2>3. id \in DOMAIN s.confirmed => s.confirmed[id].rev \in Nat
    <3>1. s.confirmed \in Keyed(Track)
      BY DEF Stabs
    <3>2. id \in DOMAIN s.confirmed => s.confirmed[id] \in Track
      BY <3>1, KeyedAt
    <3> QED BY <3>2 DEF Track
  <2>4. ~(id[1] = s.epoch /\ id[2] > s.counter)
    BY <2>1, <2>2 DEF Issued
  <2>5. u.epoch = s.epoch /\ u.counter >= s.counter
    BY DEF Evolves
  <2>6. Issued(u, id)
    BY <2>1, <2>2, <2>5 DEF Issued
  <2>7. id \in DOMAIN u.confirmed => b[id].rev =< u.confirmed[id].rev
    BY <2>1, <2>2, <2>3, <2>4 DEF Evolves
  <2> QED BY <2>6, <2>7
<1> QED BY <1>1 DEF Behind, Evolves

(* A box that is as new as its track has matched the track that was there. *)
LEMMA SameTrack ==
  ASSUME NEW s \in Stabs, NEW u \in Stabs, NEW t \in Nat, Evolves(s, u, t),
         NEW p, NEW e, NEW b, Behind(p, e, b, p, s),
         NEW id \in DOMAIN b \cap DOMAIN u.confirmed,
         b[id].rev \in Nat, id[1] \in Nat, id[2] \in Nat
  PROVE  /\ id \in DOMAIN s.confirmed
         /\ \/ u.confirmed[id].lease = s.confirmed[id].lease
            \/ u.confirmed[id].lease = t + DisplayLease
         /\ b[id].rev = u.confirmed[id].rev =>
              /\ b[id].rev = s.confirmed[id].rev
              /\ u.confirmed[id].lease = s.confirmed[id].lease
<1>1. Issued(s, id) /\ (id \in DOMAIN s.confirmed => b[id].rev =< s.confirmed[id].rev)
  BY DEF Behind
<1>2. s.epoch \in Nat /\ s.counter \in Nat
  BY DEF Stabs
<1>3. id \in DOMAIN s.confirmed => s.confirmed[id].rev \in Nat
  <2>1. s.confirmed \in Keyed(Track)
    BY DEF Stabs
  <2>2. id \in DOMAIN s.confirmed => s.confirmed[id] \in Track
    BY <2>1, KeyedAt
  <2> QED BY <2>2 DEF Track
<1>4. ~(id[1] = s.epoch /\ id[2] > s.counter)
  BY <1>1, <1>2 DEF Issued
<1> QED BY <1>1, <1>3, <1>4 DEF Evolves

(* Boxes that are not ahead of the server are not ahead of what it sends.  *)
LEMMA BehindPrecedes ==
  ASSUME NEW p, NEW e, NEW b, NEW q, NEW s, NEW o, Behind(p, e, b, q, s),
         o.proc = q, o.epoch = s.epoch, DOMAIN o.boxes \subseteq DOMAIN s.confirmed,
         \A id \in DOMAIN o.boxes : o.boxes[id].rev = s.confirmed[id].rev
  PROVE  Precedes(p, e, b, o)
BY DEF Behind, Precedes

(* What travels to the page.                                               *)
LEMMA PayloadIs ==
  ASSUME NEW v \in Views, NEW t \in Nat, NEW o, o = Payload(v, t)
  PROVE  /\ o \in Payloads /\ o.proc = v.proc /\ o.epoch = v.epoch
         /\ DOMAIN o.boxes = DOMAIN v.tracks
         /\ \A id \in DOMAIN o.boxes :
              /\ o.boxes[id].rev = v.tracks[id].rev
              /\ o.boxes[id].rem \in Nat /\ v.tracks[id].lease \in Nat
              /\ t + o.boxes[id].rem >= v.tracks[id].lease
              /\ o.boxes[id].rem = 0 \/ t + o.boxes[id].rem =< v.tracks[id].lease
<1> DEFINE b == [id \in DOMAIN v.tracks |->
                   [rev |-> v.tracks[id].rev, rem |-> Max({0, v.tracks[id].lease - t})]]
<1>1. v.tracks \in [DOMAIN v.tracks -> Track] /\ DOMAIN v.tracks \subseteq TrackIds
  BY KeyedIs DEF Views
<1>2. ASSUME NEW id \in DOMAIN v.tracks
      PROVE  /\ b[id].rev = v.tracks[id].rev /\ b[id] \in [rev : Nat, rem : Nat]
             /\ v.tracks[id].lease \in Nat /\ b[id].rem \in Nat
             /\ t + b[id].rem >= v.tracks[id].lease
             /\ b[id].rem = 0 \/ t + b[id].rem =< v.tracks[id].lease
  <2>1. v.tracks[id].rev \in Nat /\ v.tracks[id].lease \in Nat
    BY <1>1 DEF Track
  <2> DEFINE m == Max({0, v.tracks[id].lease - t})
  <2>2. m = IF 0 >= v.tracks[id].lease - t THEN 0 ELSE v.tracks[id].lease - t
    BY <2>1, TwoMax
  <2>3. b[id].rem = m /\ b[id].rev = v.tracks[id].rev /\ b[id] = [rev |-> v.tracks[id].rev, rem |-> m]
    OBVIOUS
  <2> HIDE DEF m, b
  <2>4. /\ m \in Nat /\ t + m >= v.tracks[id].lease
        /\ m = 0 \/ t + m =< v.tracks[id].lease
    BY <2>1, <2>2
  <2> QED BY <2>1, <2>3, <2>4
<1>3. o = [proc |-> v.proc, epoch |-> v.epoch, boxes |-> b]
  BY DEF Payload
<1>4. DOMAIN b = DOMAIN v.tracks
  OBVIOUS
<1> HIDE DEF b
<1>5. b \in Keyed([rev : Nat, rem : Nat])
  <2>1. b \in [DOMAIN b -> [rev : Nat, rem : Nat]]
    BY <1>2, <1>4 DEF b
  <2> QED BY <1>1, <1>4, <2>1, KeyedIs
<1>6. o \in Payloads /\ o.boxes = b /\ o.proc = v.proc /\ o.epoch = v.epoch
  BY <1>3, <1>5 DEF Payloads, Views
<1> QED BY <1>2, <1>4, <1>6

(* What the page does with it: it takes over what is there and no more,    *)
(* with its own deadlines, or those it had.                                *)
Applied(p, o, rtt, t, u) ==
  /\ u \in Pages /\ u.proc = o.proc /\ u.src = o.epoch
  /\ \A q \in u.retired : q < u.proc
  /\ DOMAIN u.boxes = DOMAIN o.boxes
  /\ \A id \in DOMAIN u.boxes :
       /\ u.boxes[id].rev = o.boxes[id].rev
       /\ \/ u.boxes[id].deadline = t + Max({0, o.boxes[id].rem - rtt})
          \/ p.proc = o.proc /\ id \in DOMAIN p.boxes /\ u.boxes[id] = p.boxes[id]

LEMMA ApplyIs ==
  ASSUME NEW p \in Pages, NEW o \in Payloads, NEW rtt \in Int, NEW t \in Nat,
         NEW u, u = ApplyOverlay(p, o, rtt, t),
         p.proc \in Nat \cup {None}, p.proc = None => p.src = None,
         \A q \in p.retired : q < p.proc, Precedes(p.proc, p.src, p.boxes, o)
  PROVE  Applied(p, o, rtt, t, u)
<1> DEFINE a == Adopt(p, o)
           kept == IF o.epoch > a.src THEN <<>> ELSE a.boxes
           Box(id) ==
             IF id \in DOMAIN kept /\ o.boxes[id].rev =< kept[id].rev THEN kept[id]
             ELSE [rev |-> o.boxes[id].rev, deadline |-> t + Max({0, o.boxes[id].rem - rtt})]
           b == [id \in DOMAIN o.boxes |-> Box(id)]
<1>1. /\ o.proc \in Nat /\ o.epoch \in Nat /\ p.proc \in Int /\ p.src \in Int
      /\ p.retired \subseteq Int /\ None \in Int /\ None < 0
      /\ o.boxes \in [DOMAIN o.boxes -> [rev : Nat, rem : Nat]] /\ DOMAIN o.boxes \subseteq TrackIds
      /\ p.boxes \in [DOMAIN p.boxes -> [rev : Nat, deadline : Nat]]
      /\ DOMAIN p.boxes \subseteq TrackIds
  <2>1. o.boxes \in Keyed([rev : Nat, rem : Nat]) /\ p.boxes \in Keyed([rev : Nat, deadline : Nat])
    BY DEF Payloads, Pages
  <2>2. /\ o.boxes \in [DOMAIN o.boxes -> [rev : Nat, rem : Nat]] /\ DOMAIN o.boxes \subseteq TrackIds
        /\ p.boxes \in [DOMAIN p.boxes -> [rev : Nat, deadline : Nat]]
        /\ DOMAIN p.boxes \subseteq TrackIds
    BY <2>1, KeyedIs
  <2> QED BY <2>2 DEF Payloads, Pages, None
<1>2. /\ a \in Pages /\ a.proc = o.proc /\ a.src =< o.epoch
      /\ \A q \in a.retired : q < a.proc
      /\ \/ a.src = None
         \/ a.boxes = p.boxes /\ a.src = p.src /\ p.proc = o.proc
  <2>1. CASE p.proc = None
    <3> DEFINE n == o.proc
    <3>1. n \in Int /\ a = [p EXCEPT !.proc = n]
      BY <1>1, <2>1 DEF Adopt
    <3> HIDE DEF n, a
    <3>2. a \in Pages /\ a.proc = n /\ a.src = p.src /\ a.retired = p.retired
      BY <3>1 DEF Pages
    <3> QED BY <1>1, <2>1, <3>2 DEF n
  <2>2. CASE p.proc # None /\ o.proc = p.proc
    <3>1. a = p
      BY <2>2 DEF Adopt
    <3> QED BY <1>1, <2>2, <3>1 DEF Precedes
  <2>3. CASE p.proc # None /\ o.proc # p.proc
    <3>1. p.proc < o.proc /\ p.proc \in Nat
      BY <1>1, <2>3 DEF Precedes
    <3>2. o.proc \notin p.retired
      BY <1>1, <3>1
    <3>3. a = [proc |-> o.proc, retired |-> p.retired \cup {p.proc}, src |-> None, boxes |-> <<>>]
      BY <2>3, <3>2 DEF Adopt
    <3>4. \A q \in p.retired \cup {p.proc} : q < o.proc
      BY <1>1, <3>1
    <3> HIDE DEF a
    <3>5. a \in Pages
      BY <1>1, <3>3, KeyedEmpty DEF Pages
    <3> QED BY <1>1, <3>3, <3>4, <3>5
  <2> QED BY <2>1, <2>2, <2>3
<1>3. ASSUME NEW id \in DOMAIN kept
      PROVE  /\ p.proc = o.proc /\ kept[id] = p.boxes[id] /\ id \in DOMAIN p.boxes
             /\ kept[id] \in [rev : Nat, deadline : Nat]
             /\ id \in DOMAIN o.boxes => kept[id].rev =< o.boxes[id].rev
  <2>1. ~(o.epoch > a.src)
    BY <1>3, KeyedEmpty
  <2>2. kept = p.boxes /\ p.proc = o.proc
    BY <1>1, <1>2, <2>1
  <2> HIDE DEF kept, a
  <2>3. id \in DOMAIN o.boxes => kept[id].rev =< o.boxes[id].rev
    BY <1>3, <2>2 DEF Precedes
  <2> QED BY <1>1, <1>3, <2>2, <2>3
<1>4. u = [a EXCEPT !.src = o.epoch, !.boxes = b]
  BY <1>1, <1>2 DEF ApplyOverlay
<1> HIDE DEF a, kept
<1>5. ASSUME NEW id \in DOMAIN o.boxes
      PROVE  /\ b[id] \in [rev : Nat, deadline : Nat] /\ b[id].rev = o.boxes[id].rev
             /\ \/ b[id].deadline = t + Max({0, o.boxes[id].rem - rtt})
                \/ p.proc = o.proc /\ id \in DOMAIN p.boxes /\ b[id] = p.boxes[id]
  <2>1. o.boxes[id].rev \in Nat /\ o.boxes[id].rem \in Nat
    BY <1>1
  <2>2. CASE id \in DOMAIN kept /\ o.boxes[id].rev =< kept[id].rev
    <3>1. b[id] = kept[id]
      BY <2>2
    <3> HIDE DEF b
    <3> QED BY <1>3, <2>1, <2>2, <3>1
  <2>3. CASE ~(id \in DOMAIN kept /\ o.boxes[id].rev =< kept[id].rev)
    <3> DEFINE m == Max({0, o.boxes[id].rem - rtt})
    <3>1. b[id] = [rev |-> o.boxes[id].rev, deadline |-> t + m]
      BY <2>3
    <3>2. m = IF 0 >= o.boxes[id].rem - rtt THEN 0 ELSE o.boxes[id].rem - rtt
      BY <2>1, TwoMax
    <3>3. m \in Nat
      BY <2>1, <3>2
    <3> HIDE DEF b, m
    <3>4. t + m \in Nat
      BY <3>3
    <3>5. /\ b[id] \in [rev : Nat, deadline : Nat] /\ b[id].rev = o.boxes[id].rev
          /\ b[id].deadline = t + m
      BY <2>1, <3>1, <3>4
    <3> QED BY <3>5 DEF m
  <2> QED BY <2>2, <2>3
<1>6. DOMAIN b = DOMAIN o.boxes
  OBVIOUS
<1>7. b \in Keyed([rev : Nat, deadline : Nat])
  <2>1. b \in [DOMAIN b -> [rev : Nat, deadline : Nat]]
    BY <1>5, <1>6
  <2> HIDE DEF b
  <2> QED BY <1>1, <1>6, <2>1, KeyedIs
<1> HIDE DEF b
<1>8. u \in Pages /\ u.proc = a.proc /\ u.src = o.epoch /\ u.retired = a.retired /\ u.boxes = b
  <2> DEFINE e == o.epoch
  <2>1. e \in Int /\ u = [a EXCEPT !.src = e, !.boxes = b]
    BY <1>1, <1>4
  <2> HIDE DEF e
  <2>2. u \in Pages /\ u.proc = a.proc /\ u.src = e /\ u.retired = a.retired /\ u.boxes = b
    BY <1>2, <1>7, <2>1 DEF Pages
  <2> QED BY <2>2 DEF e
<1> QED BY <1>2, <1>5, <1>6, <1>8 DEF Applied

(* The scheduler waits no longer than the next lease, nor than any lease   *)
(* there may be.                                                           *)
LEMMA WaitPlanIs ==
  ASSUME Typed
  PROVE  /\ WaitPlan \in Nat
         /\ Leased /\ IdlePoll =< DisplayLease => WaitPlan =< DisplayLease
         /\ \A id \in DOMAIN stab.confirmed :
              now =< stab.confirmed[id].lease => now + WaitPlan =< stab.confirmed[id].lease
<1> USE LeasesType
<1> DEFINE D == Deadlines(stab)
<1>1. now \in Nat /\ stab \in Stabs
  BY DEF Typed
<1>2. \A id \in DOMAIN stab.confirmed : stab.confirmed[id].lease \in Nat
  <2>1. stab.confirmed \in Keyed(Track)
    BY <1>1 DEF Stabs
  <2>2. \A id \in DOMAIN stab.confirmed : stab.confirmed[id] \in Track
    BY <2>1, KeyedAt
  <2> QED BY <2>2 DEF Track
<1>3. \A i \in DOMAIN stab.candidates : stab.candidates[i].lease \in Nat
  <2>1. stab.candidates \in Listed
    BY <1>1 DEF Stabs
  <2> QED BY <2>1, ListedIs DEF Candidate
<1>4. D \in SUBSET Nat /\ \A id \in DOMAIN stab.confirmed : stab.confirmed[id].lease \in D
  BY <1>2, <1>3 DEF Deadlines
<1>5. ASSUME Leased PROVE \A x \in D : x =< now + DisplayLease
  BY <1>5 DEF Leased, Waiting, Deadlines
<1>6. CASE D = {}
  <2>1. WaitPlan = IdlePoll
    BY <1>6 DEF WaitPlan
  <2> HIDE DEF D
  <2> QED BY <1>4, <1>6, <2>1
<1>7. CASE D # {}
  <2> DEFINE m == Min(D)
             x == Min({m - now, MaxWait})
  <2>1. WaitPlan = Max({0, x})
    BY <1>7 DEF WaitPlan
  <2> HIDE DEF D
  <2>2. m \in D /\ m \in Nat /\ \A y \in D : m =< y
    BY <1>4, <1>7, LeastOf
  <2> HIDE DEF m
  <2>3. x = (IF m - now =< MaxWait THEN m - now ELSE MaxWait)
    BY <1>1, <2>2, TwoMin
  <2>4. x \in Int /\ x =< m - now
    BY <1>1, <2>2, <2>3
  <2> HIDE DEF x
  <2>5. WaitPlan = IF 0 >= x THEN 0 ELSE x
    BY <2>1, <2>4, TwoMax
  <2>6. WaitPlan \in Nat
    BY <2>4, <2>5
  <2>7. ASSUME Leased PROVE WaitPlan =< DisplayLease
    <3>1. m =< now + DisplayLease
      BY <1>5, <2>2, <2>7
    <3> QED BY <1>1, <2>2, <2>4, <2>5, <3>1
  <2>8. ASSUME NEW id \in DOMAIN stab.confirmed, now =< stab.confirmed[id].lease
        PROVE  now + WaitPlan =< stab.confirmed[id].lease
    <3>1. stab.confirmed[id].lease \in Nat /\ m =< stab.confirmed[id].lease
      BY <1>2, <1>4, <2>2
    <3> QED BY <1>1, <2>2, <2>4, <2>5, <2>8, <3>1
  <2> QED BY <2>6, <2>7, <2>8
<1> QED BY <1>6, <1>7

(* A step of a detector: the frame it has in hand.                         *)
LEMMA CallEffect ==
  ASSUME Typed, NEW d \in Detectors, DetectorStep(d)
  PROVE  /\ call' \in [Detectors -> Calls]
         /\ \A e \in Detectors : e # d => call'[e] = call[e]
         /\ \/ call'[d].pc \in {"report", "poll"}
            \/ call'[d].epoch = frame.epoch /\ call'[d].ver = frame.ver
            \/ /\ call[d].pc = "taken"
               /\ call'[d].epoch = call[d].epoch /\ call'[d].ver = call[d].ver
<1>1. call \in [Detectors -> Calls] /\ call[d] \in Calls
  BY DEF Typed
<1>2. frame.epoch \in Nat /\ frame.ver \in Nat /\ store.token + 1 \in Nat
  BY DEF Typed, Stores
<1>3. CASE TakeFrame(d)
  <2> DEFINE e == frame.epoch
             v == frame.ver
             c == [call[d] EXCEPT !.pc = "taken", !.epoch = e, !.ver = v]
  <2>1. call' = [call EXCEPT ![d] = c] /\ e \in Nat /\ v \in Nat
    BY <1>2, <1>3 DEF TakeFrame
  <2> HIDE DEF e, v
  <2>2. c \in Calls /\ c.epoch = e /\ c.ver = v
    BY <1>1, <2>1 DEF Calls
  <2> HIDE DEF c
  <2> QED BY <1>1, <2>1, <2>2 DEF e, v
<1>4. CASE BeginInference(d)
  <2> DEFINE k == store.token + 1
             c == [call[d] EXCEPT !.pc = "infer", !.token = k]
  <2>1. call' = [call EXCEPT ![d] = c] /\ k \in Nat /\ call[d].pc = "taken"
    BY <1>2, <1>4 DEF BeginInference
  <2> HIDE DEF k
  <2>2. c \in Calls /\ c.epoch = call[d].epoch /\ c.ver = call[d].ver
    BY <1>1, <2>1 DEF Calls
  <2> HIDE DEF c
  <2> QED BY <1>1, <2>1, <2>2
<1>5. CASE Skip(d) \/ Complete(d) \/ Fail(d)
  <2>1. PICK o \in BOOLEAN : call' = [call EXCEPT ![d] = [@ EXCEPT !.pc = "report", !.ok = o]]
    BY <1>5 DEF Skip, Complete, Fail
  <2> DEFINE c == [call[d] EXCEPT !.pc = "report", !.ok = o]
  <2>2. c \in Calls /\ c.pc = "report"
    BY <1>1 DEF Calls
  <2>3. call' = [call EXCEPT ![d] = c]
    BY <2>1
  <2> HIDE DEF c
  <2> QED BY <1>1, <2>2, <2>3
<1>6. CASE Report(d)
  <2> DEFINE c == [call[d] EXCEPT !.pc = "poll"]
  <2>1. call' = [call EXCEPT ![d] = c]
    BY <1>6 DEF Report
  <2>2. c \in Calls /\ c.pc = "poll"
    BY <1>1 DEF Calls
  <2> HIDE DEF c
  <2> QED BY <1>1, <2>1, <2>2
<1> QED BY <1>3, <1>4, <1>5, <1>6 DEF DetectorStep

(* A new frame.                                                            *)
LEMMA FrameEffect ==
  ASSUME Typed, NextFrame
  PROVE  /\ frame' \in [epoch : Nat, ver : Nat]
         /\ \/ frame.epoch < stab.epoch /\ frame'.epoch = stab.epoch
            \/ frame'.epoch = frame.epoch /\ frame'.ver = frame.ver + 1
<1>1. frame \in [epoch : Nat, ver : Nat] /\ stab.epoch \in Nat
  BY DEF Typed, Stabs
<1>2. CASE frame' = [epoch |-> stab.epoch, ver |-> 1] /\ frame.epoch < stab.epoch
  BY <1>1, <1>2
<1>3. CASE frame' = [frame EXCEPT !.ver = @ + 1]
  <2> DEFINE n == frame.ver + 1
  <2>1. n \in Nat /\ frame' = [frame EXCEPT !.ver = n]
    BY <1>1, <1>3
  <2> HIDE DEF n
  <2>2. frame' \in [epoch : Nat, ver : Nat] /\ frame'.epoch = frame.epoch /\ frame'.ver = n
    BY <1>1, <2>1
  <2> QED BY <2>2 DEF n
<1> QED BY <1>2, <1>3 DEF NextFrame

(* The steps of the server that leave time, epoch, process and page alone. *)
Serving == NextFrame \/ Plan \/ Tick \/ \E d \in Detectors : DetectorStep(d)

LEMMA ServingEffect ==
  ASSUME Typed, Shown, Serving
  PROVE  /\ StabTo /\ Shown' /\ UNCHANGED <<now, link, page>>
         /\ frame' \in [epoch : Nat, ver : Nat] /\ call' \in [Detectors -> Calls]
         /\ sched' \in [pc : {"plan", "sleep"}, wake : Nat]
<1>1. /\ now \in Nat /\ frame \in [epoch : Nat, ver : Nat] /\ call \in [Detectors -> Calls]
      /\ sched \in [pc : {"plan", "sleep"}, wake : Nat]
  BY DEF Typed
<1>2. CASE NextFrame
  <2>1. UNCHANGED <<now, proc, overlay, call, sched, link, page>>
    BY <1>2 DEF NextFrame
  <2> QED BY <1>1, <1>2, <2>1, FrameEffect, Unchanging DEF overlay
<1>3. CASE Plan
  <2>1. UNCHANGED <<now, proc, overlay, frame, call, link, page>>
    BY <1>3 DEF Plan
  <2>2. sched' = [pc |-> "sleep", wake |-> now + WaitPlan] /\ now + WaitPlan \in Nat
    BY <1>1, <1>3, WaitPlanIs DEF Plan
  <2> QED BY <1>1, <2>1, <2>2, Unchanging DEF overlay
<1>4. CASE Tick
  <2>1. UNCHANGED <<now, proc, frame, call, link, page>> /\ ApplyTick
    BY <1>4 DEF Tick
  <2>2. sched' \in [pc : {"plan", "sleep"}, wake : Nat]
    BY <1>1, <1>4 DEF Tick
  <2> QED BY <1>1, <2>1, <2>2, TickEffect
<1>5. CASE \E d \in Detectors : DetectorStep(d)
  <2>1. PICK d \in Detectors : DetectorStep(d)
    BY <1>5
  <2>2. call' \in [Detectors -> Calls]
    BY <2>1, CallEffect
  <2>3. UNCHANGED <<now, proc, frame, sched, link, page>>
    BY <2>1 DEF DetectorStep, TakeFrame, Skip, BeginInference, Complete, Fail, Report
  <2>4. StabTo /\ Shown'
    <3>1. CASE TakeFrame(d) \/ Skip(d) \/ Fail(d)
      <4>1. UNCHANGED <<proc, overlay>>
        BY <3>1 DEF TakeFrame, Skip, Fail
      <4> QED BY <4>1, Unchanging
    <3>2. CASE BeginInference(d)
      <4> DEFINE k == store.token + 1
      <4>1. store' = [store EXCEPT !.token = k] /\ stab' = stab /\ view' = view /\ proc' = proc
        BY <3>2 DEF BeginInference
      <4>2. k \in Nat /\ store \in Stores /\ stab \in Stabs /\ view \in Views
        BY DEF Typed, Stores
      <4> HIDE DEF k
      <4>3. store' \in Stores /\ store'.raw = store.raw /\ store'.version = store.version
        BY <4>1, <4>2 DEF Stores
      <4>4. Evolves(stab, stab', now)
        BY <4>1, <4>2, EvolvesSame
      <4> QED BY <4>1, <4>2, <4>3, <4>4 DEF StabTo, Shown
    <3>3. CASE Complete(d)
      <4>1. call[d] \in Calls /\ ApplyCompletion(call[d])
        BY <1>1, <3>3 DEF Complete
      <4> QED BY <2>3, <4>1, CompletionEffect
    <3>4. CASE Report(d)
      <4>1. PICK h \in Healths : SetHealth(h)
        BY <3>4 DEF Report, Healths
      <4> QED BY <2>3, <4>1, HealthEffect
    <3> QED BY <2>1, <3>1, <3>2, <3>3, <3>4 DEF DetectorStep
  <2> QED BY <1>1, <2>2, <2>3, <2>4
<1> QED BY <1>2, <1>3, <1>4, <1>5 DEF Serving

--------------------------------------------------------------------------------
(* The link.                                                               *)

LEMMA LinkIs ==
  ASSUME NEW l \in Links
  PROVE  /\ l.mode \in {"sse", "degraded", "poll", "none"} /\ l.last \in Int
         /\ l.pipe \in Seq(Payloads) /\ l.asked \in Int
BY DEF Links

(* The stream sends the snapshot.                                          *)
LEMMA PushEffect ==
  ASSUME Typed, Push
  PROVE  /\ link' \in Links /\ link'.mode = "sse" /\ link.mode = "sse"
         /\ link'.last = view.rev /\ link'.asked = link.asked
         /\ Payload(view, now) \in Payloads
         /\ link'.pipe = Append(link.pipe, Payload(view, now))
<1> DEFINE n == view.rev
           o == Payload(view, now)
           q == Append(link.pipe, o)
<1>1. link \in Links /\ link.mode = "sse" /\ link' = [link EXCEPT !.last = n, !.pipe = q]
  BY DEF Push, Typed
<1>2. o \in Payloads /\ n \in Int
  BY PayloadIs DEF Typed, Views
<1>3. q \in Seq(Payloads)
  BY <1>1, <1>2, LinkIs
<1> HIDE DEF n, o, q
<1>4. /\ link' \in Links /\ link'.mode = link.mode /\ link'.last = n
      /\ link'.asked = link.asked /\ link'.pipe = q
  BY <1>1, <1>2, <1>3 DEF Links
<1> QED BY <1>1, <1>2, <1>4 DEF n, o, q

(* An event, or an answer, arrives.                                        *)
LEMMA EventEffect ==
  ASSUME Typed, OnEvent
  PROVE  /\ link' \in Links /\ link'.mode = "sse" /\ link.mode = "sse"
         /\ link'.last = link.last /\ link'.asked = link.asked
         /\ link.pipe \in Seq(Payloads) /\ link.pipe # <<>> /\ link'.pipe = Tail(link.pipe)
         /\ page' = ApplyOverlay(page, link.pipe[1], 0, now)
<1> DEFINE q == Tail(link.pipe)
<1>1. link \in Links /\ link.mode = "sse" /\ link' = [link EXCEPT !.pipe = q]
  BY DEF OnEvent, Typed
<1>2. link.pipe \in Seq(Payloads) /\ link.pipe # <<>> /\ q \in Seq(Payloads)
  BY <1>1, LinkIs DEF OnEvent
<1> HIDE DEF q
<1>3. /\ link' \in Links /\ link'.mode = link.mode /\ link'.last = link.last
      /\ link'.asked = link.asked /\ link'.pipe = q
  BY <1>1, <1>2 DEF Links
<1> QED BY <1>1, <1>2, <1>3 DEF q, OnEvent

LEMMA AnswerEffect ==
  ASSUME Typed, Answer
  PROVE  /\ link' \in Links /\ link'.mode = link.mode /\ link'.last = link.last
         /\ link'.asked = link.asked /\ link.asked # None
         /\ Payload(view, now) \in Payloads /\ link'.pipe = <<Payload(view, now)>>
<1> DEFINE o == Payload(view, now)
           q == <<o>>
<1>1. link \in Links /\ link.asked # None /\ link' = [link EXCEPT !.pipe = q]
  BY DEF Answer, Typed
<1>2. o \in Payloads
  BY PayloadIs DEF Typed, Views
<1>3. q \in Seq(Payloads)
  BY <1>2
<1> HIDE DEF o, q
<1>4. /\ link' \in Links /\ link'.mode = link.mode /\ link'.last = link.last
      /\ link'.asked = link.asked /\ link'.pipe = q
  BY <1>1, <1>3 DEF Links
<1> QED BY <1>1, <1>2, <1>4 DEF o, q

LEMMA OnAnswerEffect ==
  ASSUME Typed, OnAnswer \/ AskFails
  PROVE  /\ link' \in Links /\ link'.mode = link.mode /\ link'.last = link.last
         /\ link.asked # None /\ link'.asked = None /\ link'.pipe = <<>>
<1> DEFINE q == <<>>
           n == None
<1>1. link \in Links /\ link.asked # None /\ link' = [link EXCEPT !.asked = n, !.pipe = q]
  BY DEF OnAnswer, AskFails, Typed
<1>2. q \in Seq(Payloads) /\ n \in Int
  BY DEF None
<1> HIDE DEF q, n
<1>3. /\ link' \in Links /\ link'.mode = link.mode /\ link'.last = link.last
      /\ link'.asked = n /\ link'.pipe = q
  BY <1>1, <1>2 DEF Links
<1> QED BY <1>1, <1>3 DEF q, n

LEMMA AskEffect ==
  ASSUME Typed, Ask
  PROVE  /\ link' \in Links /\ link'.mode = link.mode /\ link'.last = link.last
         /\ link.asked = None /\ link'.asked = now /\ link'.pipe = link.pipe
         /\ link.mode \in {"poll", "degraded"}
<1>1. link \in Links /\ now \in Int /\ link' = [link EXCEPT !.asked = now]
  BY DEF Ask, Typed
<1>2. /\ link' \in Links /\ link'.mode = link.mode /\ link'.last = link.last
      /\ link'.asked = now /\ link'.pipe = link.pipe
  BY <1>1 DEF Links
<1> QED BY <1>2 DEF Ask

LEMMA LoseEffect ==
  ASSUME Typed, LoseStream
  PROVE  /\ link' \in Links /\ link.mode = "sse" /\ link'.mode \in {"sse", "degraded"}
         /\ link'.last = None /\ link'.asked = None /\ link'.pipe = <<>>
<1>1. PICK m \in {"sse", "degraded"} :
        link' = [mode |-> m, last |-> None, pipe |-> <<>>, asked |-> None]
  BY DEF LoseStream
<1>2. <<>> \in Seq(Payloads) /\ None \in Int
  BY DEF None
<1> QED BY <1>1, <1>2 DEF Links, LoseStream

LEMMA RestartLink ==
  ASSUME Typed, Restart
  PROVE  /\ link' \in Links /\ link'.mode = link.mode /\ link'.last = None
         /\ link'.asked = link.asked /\ link'.pipe = link.pipe
<1> DEFINE n == None
<1>1. link \in Links /\ n \in Int /\ link' = [link EXCEPT !.last = n]
  BY DEF Restart, Typed, None
<1> HIDE DEF n
<1>2. /\ link' \in Links /\ link'.mode = link.mode /\ link'.last = n
      /\ link'.asked = link.asked /\ link'.pipe = link.pipe
  BY <1>1 DEF Links
<1> QED BY <1>2 DEF n

(* Boxes that are over are drawn no more.                                  *)
LEMMA RenderEffect ==
  ASSUME Typed, Render
  PROVE  /\ page' \in Pages /\ page'.proc = page.proc /\ page'.src = page.src
         /\ page'.retired = page.retired
         /\ DOMAIN page'.boxes = {i \in DOMAIN page.boxes : page.boxes[i].deadline > now}
         /\ \A id \in DOMAIN page'.boxes : page'.boxes[id] = page.boxes[id]
<1> DEFINE b == [id \in {i \in DOMAIN page.boxes : page.boxes[i].deadline > now} |-> page.boxes[id]]
<1>1. page \in Pages /\ page' = [page EXCEPT !.boxes = b]
  BY DEF Render, Typed
<1>2. page.boxes \in Keyed([rev : Nat, deadline : Nat])
  BY <1>1 DEF Pages
<1>3. DOMAIN b = {i \in DOMAIN page.boxes : page.boxes[i].deadline > now}
      /\ \A id \in DOMAIN b : b[id] = page.boxes[id]
  OBVIOUS
<1>4. b \in Keyed([rev : Nat, deadline : Nat])
  <2>1. page.boxes \in [DOMAIN page.boxes -> [rev : Nat, deadline : Nat]]
        /\ DOMAIN page.boxes \subseteq TrackIds
    BY <1>2, KeyedIs
  <2>2. b \in [DOMAIN b -> [rev : Nat, deadline : Nat]] /\ DOMAIN b \subseteq TrackIds
    BY <2>1
  <2> HIDE DEF b
  <2> QED BY <2>2, KeyedIs
<1> HIDE DEF b
<1>5. /\ page' \in Pages /\ page'.proc = page.proc /\ page'.src = page.src
      /\ page'.retired = page.retired /\ page'.boxes = b
  BY <1>1, <1>4 DEF Pages
<1> QED BY <1>3, <1>5

(* The page takes over what has arrived.                                   *)
LEMMA PageEffect ==
  ASSUME Typed, PageBehind, EventsBehind, link.pipe # <<>>, NEW rtt \in Int, NEW o,
         o = link.pipe[1], page' = ApplyOverlay(page, o, rtt, now)
  PROVE  o \in Payloads /\ Applied(page, o, rtt, now, page')
<1>1. link.pipe \in Seq(Payloads)
  BY LinkIs DEF Typed
<1>2. 1 \in 1 .. Len(link.pipe) /\ o \in Payloads
  BY <1>1
<1>3. Precedes(page.proc, page.src, page.boxes, o)
  BY <1>2 DEF EventsBehind
<1>4. page \in Pages /\ now \in Nat
  BY DEF Typed
<1>5. /\ page.proc \in Nat \cup {None} /\ (page.proc = None => page.src = None)
      /\ \A q \in page.retired : q < page.proc
  BY DEF PageBehind
<1> DEFINE p == page
           t == now
           u == page'
<1>6. /\ p \in Pages /\ t \in Nat /\ u = ApplyOverlay(p, o, rtt, t)
      /\ p.proc \in Nat \cup {None} /\ (p.proc = None => p.src = None)
      /\ \A q \in p.retired : q < p.proc
      /\ Precedes(p.proc, p.src, p.boxes, o)
  BY <1>3, <1>4, <1>5
<1> HIDE DEF p, t, u
<1>7. Applied(p, o, rtt, t, u)
  BY <1>2, <1>6, ApplyIs
<1> QED BY <1>2, <1>7 DEF p, t, u

--------------------------------------------------------------------------------
(* Types.                                                                  *)

(* The steps between server and page.                                      *)
Linking == Push \/ OnEvent \/ LoseStream \/ Ask \/ Answer \/ OnAnswer \/ AskFails \/ Render

LEMMA NextCases == Next => Serving \/ Linking \/ Discontinuity \/ Restart \/ Advance
BY DEF Next, Serving, Linking

LEMMA LinkingLeaves ==
  ASSUME Linking
  PROVE  UNCHANGED <<now, proc, overlay, frame, call, sched>>
BY DEF Linking, Push, OnEvent, LoseStream, Ask, Answer, OnAnswer, AskFails, Render

LEMMA LinkingTyped ==
  ASSUME Typed, PageBehind, EventsBehind, Linking
  PROVE  link' \in Links /\ page' \in Pages
<1>1. link \in Links /\ page \in Pages /\ now \in Nat
  BY DEF Typed
<1>2. CASE Push
  BY <1>1, <1>2, PushEffect DEF Push
<1>3. CASE OnEvent
  <2>1. link.pipe # <<>> /\ page' = ApplyOverlay(page, link.pipe[1], 0, now)
    BY <1>3, EventEffect
  <2> QED BY <1>3, <2>1, EventEffect, PageEffect DEF Applied
<1>4. CASE LoseStream
  BY <1>1, <1>4, LoseEffect DEF LoseStream
<1>5. CASE Ask
  BY <1>1, <1>5, AskEffect DEF Ask
<1>6. CASE Answer
  BY <1>1, <1>6, AnswerEffect DEF Answer
<1>7. CASE OnAnswer
  <2>1. /\ link.pipe # <<>> /\ page' = ApplyOverlay(page, link.pipe[1], now - link.asked, now)
        /\ now - link.asked \in Int
    BY <1>1, <1>7, LinkIs DEF OnAnswer
  <2> QED BY <1>7, <2>1, OnAnswerEffect, PageEffect DEF Applied
<1>8. CASE AskFails
  BY <1>1, <1>8, OnAnswerEffect DEF AskFails
<1>9. CASE Render
  BY <1>1, <1>9, RenderEffect DEF Render
<1> QED BY <1>2, <1>3, <1>4, <1>5, <1>6, <1>7, <1>8, <1>9 DEF Linking

LEMMA TypedStep ==
  ASSUME Typed, Shown, PageBehind, EventsBehind, [Next]_vars
  PROVE  Typed' /\ Shown'
<1>1. CASE Serving
  BY <1>1, ServingEffect DEF Typed, StabTo
<1>2. CASE Linking
  BY <1>2, LinkingLeaves, LinkingTyped DEF Typed, Shown, overlay
<1>3. CASE Discontinuity
  <2>1. UNCHANGED <<now, proc, frame, call, sched, link, page>>
    BY <1>3 DEF Discontinuity
  <2> QED BY <1>3, <2>1, DiscontinuityEffect DEF Typed
<1>4. CASE Restart
  <2>1. /\ frame' = [epoch |-> 1, ver |-> 0] /\ call' = [d \in Detectors |-> Poll]
        /\ sched' = [pc |-> "plan", wake |-> now] /\ UNCHANGED <<now, page>>
    BY <1>4 DEF Restart
  <2>2. /\ proc' \in Nat /\ stab' \in Stabs /\ store' \in Stores /\ view' \in Views
        /\ link' \in Links /\ Shown'
    BY <1>4, RestartEffect, RestartLink DEF Typed
  <2>3. frame' \in [epoch : Nat, ver : Nat] /\ Poll \in Calls
    BY <2>1 DEF Poll, Calls
  <2>4. sched' \in [pc : {"plan", "sleep"}, wake : Nat] /\ call' \in [Detectors -> Calls]
    BY <2>1, <2>3 DEF Typed
  <2> QED BY <2>1, <2>2, <2>3, <2>4 DEF Typed
<1>5. CASE Advance \/ UNCHANGED vars
  <2>1. UNCHANGED <<proc, overlay, frame, call, sched, link, page>> /\ now' \in Nat
    BY <1>5 DEF Advance, vars, Typed, overlay
  <2> QED BY <2>1 DEF Typed, Shown, overlay
<1> QED BY <1>1, <1>2, <1>3, <1>4, <1>5, NextCases

--------------------------------------------------------------------------------
(* Frames and results.                                                     *)

(* Results go forward: a result replaces one of an older frame.            *)
Forward == view'.raw # view.raw /\ view'.raw # NoRaw /\ view.raw # NoRaw => view'.raw > view.raw

LEMMA FramesStep ==
  ASSUME Typed, Shown, InOrder, ResultOfEpoch, [Next]_vars
  PROVE  InOrder' /\ ResultOfEpoch' /\ Forward
<1>1. /\ frame \in [epoch : Nat, ver : Nat] /\ stab.epoch \in Nat /\ view.raw \in Int
      /\ call \in [Detectors -> Calls] /\ store.version \in Int
      /\ \A d \in Detectors : call[d].epoch \in Nat /\ call[d].ver \in Nat
      /\ view.epoch = stab.epoch /\ view.raw = store.version
  BY DEF Typed, Stabs, Views, Stores, Calls, Shown
<1>2. CASE NextFrame
  <2>1. UNCHANGED <<stab, view, call>>
    BY <1>2 DEF NextFrame, overlay
  <2>2. \/ frame.epoch < stab.epoch /\ frame'.epoch = stab.epoch
        \/ frame'.epoch = frame.epoch /\ frame'.ver = frame.ver + 1
    BY <1>2, FrameEffect
  <2>3. ASSUME NEW d \in Detectors, call[d].pc \in {"taken", "infer"}
        PROVE  \/ call[d].epoch < frame'.epoch
               \/ call[d].epoch = frame'.epoch /\ call[d].ver =< frame'.ver
    <3>1. \/ call[d].epoch < frame.epoch
          \/ call[d].epoch = frame.epoch /\ call[d].ver =< frame.ver
      BY <2>3 DEF InOrder
    <3> QED BY <1>1, <2>2, <3>1
  <2>4. frame'.epoch =< stab.epoch
    BY <1>1, <2>2 DEF InOrder
  <2>5. ResultOfEpoch'
    BY <1>1, <2>1, <2>2 DEF ResultOfEpoch
  <2> QED BY <2>1, <2>3, <2>4, <2>5 DEF InOrder, Forward
<1>3. CASE Plan \/ Linking \/ Advance \/ UNCHANGED vars
  <2>1. UNCHANGED <<stab, view, call, frame>>
    BY <1>3, LinkingLeaves DEF Plan, Advance, vars, overlay
  <2> QED BY <2>1 DEF InOrder, ResultOfEpoch, Forward
<1>4. CASE Tick
  <2>1. UNCHANGED <<call, frame>> /\ StabTo /\ view'.raw = view.raw /\ Shown'
    BY <1>4, TickEffect DEF Tick
  <2>2. stab'.epoch = stab.epoch /\ view'.epoch = stab.epoch
    BY <2>1 DEF StabTo, Evolves, Shown
  <2> QED BY <1>1, <2>1, <2>2 DEF InOrder, ResultOfEpoch, Forward
<1>5. ASSUME NEW d \in Detectors, DetectorStep(d)
      PROVE  InOrder' /\ ResultOfEpoch' /\ Forward
  <2>1. UNCHANGED <<now, proc, frame>> /\ StabTo /\ Shown'
    <3>1. Serving
      BY <1>5 DEF Serving
    <3> QED BY <1>5, <3>1, ServingEffect DEF StabTo, DetectorStep, TakeFrame, Skip,
               BeginInference, Complete, Fail, Report
  <2>2. stab'.epoch = stab.epoch /\ view'.epoch = stab.epoch
    BY <2>1 DEF StabTo, Evolves, Shown
  <2>3. InOrder'
    <3>1. /\ \A e \in Detectors : e # d => call'[e] = call[e]
          /\ \/ call'[d].pc \in {"report", "poll"}
             \/ call'[d].epoch = frame.epoch /\ call'[d].ver = frame.ver
             \/ /\ call[d].pc = "taken"
                /\ call'[d].epoch = call[d].epoch /\ call'[d].ver = call[d].ver
      BY <1>5, CallEffect
    <3>2. ASSUME NEW e \in Detectors, call'[e].pc \in {"taken", "infer"}
          PROVE  \/ call'[e].epoch < frame.epoch
                 \/ call'[e].epoch = frame.epoch /\ call'[e].ver =< frame.ver
      BY <1>1, <3>1, <3>2 DEF InOrder
    <3> QED BY <2>1, <2>2, <3>2 DEF InOrder
  <2>4. \/ view'.raw = view.raw
        \/ /\ view'.raw > view.raw
           /\ frame.epoch = stab.epoch /\ view'.raw =< frame.ver
    <3>1. CASE Complete(d)
      <4>1. call[d].pc = "infer" /\ ApplyCompletion(call[d]) /\ call[d] \in Calls
        BY <1>1, <3>1 DEF Complete
      <4>2. \/ view' = view
            \/ Gate(call[d]) /\ view'.raw = call[d].ver
        BY <2>1, <4>1, CompletionEffect
      <4>3. \/ call[d].epoch < frame.epoch
            \/ call[d].epoch = frame.epoch /\ call[d].ver =< frame.ver
        BY <4>1 DEF InOrder
      <4>4. frame.epoch =< stab.epoch
        BY DEF InOrder
      <4> QED BY <1>1, <4>2, <4>3, <4>4 DEF Gate
    <3>2. CASE Report(d)
      <4>1. PICK h \in Healths : SetHealth(h)
        BY <3>2 DEF Report, Healths
      <4> QED BY <2>1, <4>1, HealthEffect
    <3>3. CASE TakeFrame(d) \/ Skip(d) \/ BeginInference(d) \/ Fail(d)
      BY <3>3 DEF TakeFrame, Skip, BeginInference, Fail, overlay
    <3> QED BY <1>5, <3>1, <3>2, <3>3 DEF DetectorStep
  <2>5. ResultOfEpoch' /\ Forward
    BY <1>1, <2>1, <2>2, <2>4 DEF ResultOfEpoch, Forward
  <2> QED BY <2>3, <2>5
<1>6. CASE Discontinuity
  <2>1. UNCHANGED <<frame, call>> /\ stab'.epoch = stab.epoch + 1 /\ view'.raw = NoRaw
    BY <1>6, DiscontinuityEffect DEF Discontinuity
  <2>2. frame.epoch =< stab.epoch + 1
    BY <1>1 DEF InOrder
  <2> QED BY <2>1, <2>2 DEF InOrder, ResultOfEpoch, Forward
<1>7. CASE Restart
  <2>1. /\ view'.raw = NoRaw /\ call' = [d \in Detectors |-> Poll]
        /\ stab' = NewStab(1) /\ frame' = [epoch |-> 1, ver |-> 0]
    BY <1>7, RestartEffect DEF Restart
  <2>2. \A d \in Detectors : call'[d].pc = "poll"
    BY <2>1 DEF Poll
  <2>3. stab'.epoch = 1 /\ frame'.epoch = 1
    BY <2>1 DEF NewStab
  <2> QED BY <2>1, <2>2, <2>3 DEF InOrder, ResultOfEpoch, Forward
<1> QED BY <1>2, <1>3, <1>4, <1>5, <1>6, <1>7, NextCases DEF Serving

--------------------------------------------------------------------------------
(* Leases.                                                                 *)

LEMMA StabTypes ==
  ASSUME Typed
  PROVE  /\ now \in Nat /\ stab.epoch \in Nat /\ stab.counter \in Nat /\ sched.wake \in Nat
         /\ \A id \in DOMAIN stab.confirmed :
              /\ id[1] \in Nat /\ id[2] \in Nat
              /\ stab.confirmed[id].rev \in Nat /\ stab.confirmed[id].lease \in Nat
         /\ \A i \in DOMAIN stab.candidates : stab.candidates[i].lease \in Nat
<1>1. stab.confirmed \in Keyed(Track) /\ stab.candidates \in Listed
  BY DEF Typed, Stabs
<1>2. ASSUME NEW id \in DOMAIN stab.confirmed
      PROVE  stab.confirmed[id] \in Track /\ id[1] \in Nat /\ id[2] \in Nat
  BY <1>1, KeyedAt
<1>3. \A i \in DOMAIN stab.candidates : stab.candidates[i] \in Candidate
  BY <1>1, ListedIs
<1> QED BY <1>2, <1>3 DEF Typed, Stabs, Track, Candidate

LEMMA LeasedStep ==
  ASSUME Typed, Shown, Leased, Numbered, [Next]_vars
  PROVE  Leased' /\ Numbered'
<1> USE LeasesType
<1>1. CASE Serving
  <2>1. /\ now' = now /\ stab' \in Stabs /\ Evolves(stab, stab', now)
        /\ Waiting(stab, now) => Waiting(stab', now)
    BY <1>1, ServingEffect DEF StabTo
  <2>2. stab'.counter \in Nat /\ stab'.epoch = stab.epoch /\ stab'.counter >= stab.counter
    BY <2>1 DEF Stabs, Evolves
  <2>3. ASSUME NEW id \in DOMAIN stab'.confirmed
        PROVE  stab'.confirmed[id].lease =< now + DisplayLease /\ Issued(stab', id)
    <3>1. CASE id \in DOMAIN stab.confirmed
      <4>1. /\ stab.confirmed[id].lease =< now + DisplayLease /\ Issued(stab, id)
            /\ stab.confirmed[id].lease \in Nat /\ id[1] \in Nat /\ id[2] \in Nat
        BY <3>1, StabTypes DEF Leased, Numbered
      <4>2. Issued(stab', id)
        BY <4>1, <2>2, StabTypes DEF Issued
      <4>3. stab'.confirmed[id].lease =< now + DisplayLease
        BY <2>1, <4>1, StabTypes DEF Evolves
      <4> QED BY <4>2, <4>3
    <3>2. CASE id \notin DOMAIN stab.confirmed
      <4>1. /\ id[1] = stab.epoch /\ id[2] =< stab'.counter
            /\ stab'.confirmed[id].lease = now + DisplayLease
        BY <2>1, <3>2 DEF Evolves
      <4> QED BY <2>2, <4>1, StabTypes DEF Issued
    <3> QED BY <3>1, <3>2
  <2>4. Waiting(stab', now)
    BY <2>1 DEF Leased
  <2> QED BY <2>1, <2>3, <2>4 DEF Leased, Numbered
<1>2. CASE Linking \/ UNCHANGED vars
  <2>1. UNCHANGED <<now, stab>>
    BY <1>2, LinkingLeaves DEF vars, overlay
  <2> QED BY <2>1 DEF Leased, Numbered
<1>3. CASE Discontinuity \/ Restart
  <2>1. stab'.confirmed = <<>> /\ stab'.candidates = <<>>
    BY <1>3, DiscontinuityEffect, RestartEffect DEF Emptied
  <2> QED BY <2>1, KeyedEmpty DEF Leased, Numbered, Waiting
<1>4. CASE Advance
  <2>1. now' = now + 1 /\ stab' = stab
    BY <1>4 DEF Advance, overlay
  <2>2. \A i \in DOMAIN stab.candidates : stab.candidates[i].lease =< now + 1 + DisplayLease
    BY StabTypes DEF Leased, Waiting
  <2>3. \A id \in DOMAIN stab.confirmed : stab.confirmed[id].lease =< now + 1 + DisplayLease
    BY StabTypes DEF Leased
  <2> QED BY <2>1, <2>2, <2>3 DEF Leased, Numbered, Waiting
<1> QED BY <1>1, <1>2, <1>3, <1>4, NextCases

LEMMA AwakeStep ==
  ASSUME Typed, Shown, Leased, Awake, IdlePoll =< DisplayLease, [Next]_vars
  PROVE  Awake'
<1> USE LeasesType
<1>1. CASE Plan
  <2>1. /\ UNCHANGED <<now, stab>> /\ sched.pc = "plan"
        /\ sched' = [pc |-> "sleep", wake |-> now + WaitPlan]
    BY <1>1 DEF Plan, overlay
  <2>2. WaitPlan \in Nat /\ WaitPlan =< DisplayLease
    BY WaitPlanIs
  <2>3. \A id \in DOMAIN stab.confirmed : now + WaitPlan =< stab.confirmed[id].lease
    BY <2>1, WaitPlanIs DEF Awake
  <2>4. now =< now + WaitPlan + Late /\ now + WaitPlan =< now + DisplayLease
    BY <2>2, StabTypes
  <2>5. sched'.pc = "sleep" /\ sched'.wake = now + WaitPlan
    BY <2>1
  <2> QED BY <2>1, <2>3, <2>4, <2>5 DEF Awake
<1>2. CASE Tick
  <2>1. now' = now /\ sched'.pc = "plan" /\ stab' \in Stabs
        /\ \A id \in DOMAIN stab'.confirmed : stab'.confirmed[id].lease > now
    <3>1. sched \in [pc : {"plan", "sleep"}, wake : Nat]
      BY DEF Typed
    <3> QED BY <1>2, <3>1, TickEffect DEF Tick, StabTo
  <2>2. \A id \in DOMAIN stab'.confirmed : stab'.confirmed[id].lease \in Nat
    <3>1. stab'.confirmed \in Keyed(Track)
      BY <2>1 DEF Stabs
    <3>2. \A id \in DOMAIN stab'.confirmed : stab'.confirmed[id] \in Track
      BY <3>1, KeyedAt
    <3> QED BY <3>2 DEF Track
  <2>3. \A id \in DOMAIN stab'.confirmed : now =< stab'.confirmed[id].lease
    BY <2>1, <2>2, StabTypes
  <2> QED BY <2>1, <2>3 DEF Awake
<1>3. CASE NextFrame \/ \E d \in Detectors : DetectorStep(d)
  <2>1. Serving
    BY <1>3 DEF Serving
  <2>2. now' = now /\ Evolves(stab, stab', now)
    BY <2>1, ServingEffect DEF StabTo
  <2>3. sched' = sched
    BY <1>3 DEF NextFrame, DetectorStep, TakeFrame, Skip, BeginInference, Complete, Fail, Report
  <2>4. ASSUME NEW id \in DOMAIN stab'.confirmed
        PROVE  \/ id \in DOMAIN stab.confirmed /\ stab'.confirmed[id].lease = stab.confirmed[id].lease
               \/ stab'.confirmed[id].lease = now + DisplayLease
    BY <2>2 DEF Evolves
  <2>5. now =< now + DisplayLease
    BY StabTypes
  <2> QED BY <2>2, <2>3, <2>4, <2>5 DEF Awake
<1>4. CASE Linking \/ UNCHANGED vars
  <2>1. UNCHANGED <<now, stab, sched>>
    BY <1>4, LinkingLeaves DEF vars, overlay
  <2> QED BY <2>1 DEF Awake
<1>5. CASE Discontinuity
  <2>1. stab'.confirmed = <<>> /\ UNCHANGED <<now, sched>>
    BY <1>5, DiscontinuityEffect DEF Emptied, Discontinuity
  <2> QED BY <2>1, KeyedEmpty DEF Awake
<1>6. CASE Restart
  <2>1. stab'.confirmed = <<>> /\ sched' = [pc |-> "plan", wake |-> now]
    BY <1>6, RestartEffect DEF Emptied, Restart
  <2> QED BY <2>1, KeyedEmpty DEF Awake
<1>7. CASE Advance
  <2>1. now' = now + 1 /\ sched.pc = "sleep" /\ now < sched.wake + Late
        /\ UNCHANGED <<stab, sched>>
    BY <1>7 DEF Advance, overlay
  <2>2. sched.wake =< now + DisplayLease
    BY <2>1 DEF Awake
  <2>3. now + 1 =< sched.wake + Late /\ sched.wake =< now + 1 + DisplayLease
    BY <2>1, <2>2, StabTypes
  <2> QED BY <2>1, <2>3 DEF Awake
<1> QED BY <1>1, <1>2, <1>3, <1>4, <1>5, <1>6, <1>7, NextCases DEF Serving

--------------------------------------------------------------------------------
(* The page, while the server serves.                                      *)

LEMMA PageTypes ==
  ASSUME Typed
  PROVE  /\ page.proc \in Int /\ page.src \in Int /\ proc \in Nat /\ view.rev \in Nat
         /\ link.last \in Int /\ link.asked \in Int /\ link.pipe \in Seq(Payloads)
         /\ \A id \in DOMAIN page.boxes :
              /\ page.boxes[id].rev \in Nat /\ page.boxes[id].deadline \in Nat
              /\ id[1] \in Nat /\ id[2] \in Nat
<1>1. page \in Pages /\ link \in Links /\ view \in Views /\ proc \in Nat
  BY DEF Typed
<1>2. page.boxes \in Keyed([rev : Nat, deadline : Nat])
  BY <1>1 DEF Pages
<1>3. ASSUME NEW id \in DOMAIN page.boxes
      PROVE  page.boxes[id] \in [rev : Nat, deadline : Nat] /\ id[1] \in Nat /\ id[2] \in Nat
  BY <1>2, KeyedAt
<1> QED BY <1>1, <1>3, LinkIs DEF Pages, Views

LEMMA EventTypes ==
  ASSUME NEW o \in Payloads
  PROVE  /\ o.proc \in Nat /\ o.epoch \in Nat
         /\ \A id \in DOMAIN o.boxes :
              /\ o.boxes[id].rev \in Nat /\ o.boxes[id].rem \in Nat
              /\ id[1] \in Nat /\ id[2] \in Nat
<1>1. o.boxes \in Keyed([rev : Nat, rem : Nat])
  BY DEF Payloads
<1>2. ASSUME NEW id \in DOMAIN o.boxes
      PROVE  o.boxes[id] \in [rev : Nat, rem : Nat] /\ id[1] \in Nat /\ id[2] \in Nat
  BY <1>1, KeyedAt
<1> QED BY <1>2 DEF Payloads

(* What is said of deadlines stays true while tracks are matched.          *)
LEMMA PageEvolves ==
  ASSUME NEW s \in Stabs, NEW u \in Stabs, NEW t \in Nat, Evolves(s, u, t),
         NEW p, NEW e, NEW b, NEW q, Behind(p, e, b, q, s),
         \A id \in DOMAIN b : /\ b[id].rev \in Nat /\ b[id].deadline \in Nat
                              /\ id[1] \in Nat /\ id[2] \in Nat,
         \A id \in DOMAIN s.confirmed : /\ s.confirmed[id].lease \in Nat
                                        /\ s.confirmed[id].lease =< t + DisplayLease
  PROVE  /\ PageLasts(p, b, q, s) => PageLasts(p, b, q, u)
         /\ PageBrief(p, b, q, s, t) => PageBrief(p, b, q, u, t)
<1>1. ASSUME p = q, NEW id \in DOMAIN b \cap DOMAIN u.confirmed
      PROVE  /\ id \in DOMAIN s.confirmed
             /\ \/ u.confirmed[id].lease = s.confirmed[id].lease
                \/ u.confirmed[id].lease = t + DisplayLease
             /\ b[id].rev = u.confirmed[id].rev =>
                  /\ b[id].rev = s.confirmed[id].rev
                  /\ u.confirmed[id].lease = s.confirmed[id].lease
  <2>1. Behind(p, e, b, p, s) /\ b[id].rev \in Nat /\ id[1] \in Nat /\ id[2] \in Nat
    BY <1>1
  <2> QED BY <2>1, SameTrack
<1>2. ASSUME PageLasts(p, b, q, s) PROVE PageLasts(p, b, q, u)
  BY <1>1, <1>2 DEF PageLasts
<1>3. ASSUME PageBrief(p, b, q, s, t), p = q, NEW id \in DOMAIN b \cap DOMAIN u.confirmed
      PROVE  b[id].deadline =< t \/ b[id].deadline =< u.confirmed[id].lease
  <2>1. id \in DOMAIN s.confirmed /\ (b[id].deadline =< t \/ b[id].deadline =< s.confirmed[id].lease)
    BY <1>1, <1>3 DEF PageBrief
  <2>2. DisplayLease \in Nat
    BY LeasesType
  <2> QED BY <1>1, <1>3, <2>1, <2>2
<1> QED BY <1>2, <1>3 DEF PageBrief

LEMMA EventEvolves ==
  ASSUME NEW s \in Stabs, NEW u \in Stabs, NEW t \in Nat, Evolves(s, u, t),
         NEW o \in Payloads, NEW a \in Int, NEW q, Behind(o.proc, o.epoch, o.boxes, q, s),
         \A id \in DOMAIN s.confirmed : /\ s.confirmed[id].lease \in Nat
                                        /\ s.confirmed[id].lease =< t + DisplayLease
  PROVE  /\ Behind(o.proc, o.epoch, o.boxes, q, u)
         /\ EventLasts(o, q, s, t) => EventLasts(o, q, u, t)
         /\ AnswerBrief(o, a, q, s, t) => AnswerBrief(o, a, q, u, t)
<1> DEFINE p == o.proc
           e == o.epoch
           b == o.boxes
<1>1. \A id \in DOMAIN b : b[id].rev \in Nat /\ b[id].rem \in Nat /\ id[1] \in Nat /\ id[2] \in Nat
  BY EventTypes
<1>2. Behind(p, e, b, q, s)
  OBVIOUS
<1> HIDE DEF p, e, b
<1>3. Behind(p, e, b, q, u)
  BY <1>1, <1>2, BehindEvolves
<1>4. ASSUME p = q, NEW id \in DOMAIN b \cap DOMAIN u.confirmed
      PROVE  /\ id \in DOMAIN s.confirmed
             /\ \/ u.confirmed[id].lease = s.confirmed[id].lease
                \/ u.confirmed[id].lease = t + DisplayLease
             /\ b[id].rev = u.confirmed[id].rev =>
                  /\ b[id].rev = s.confirmed[id].rev
                  /\ u.confirmed[id].lease = s.confirmed[id].lease
  <2>1. Behind(p, e, b, p, s) /\ b[id].rev \in Nat /\ id[1] \in Nat /\ id[2] \in Nat
    BY <1>1, <1>2, <1>4
  <2> QED BY <2>1, SameTrack
<1>5. ASSUME EventLasts(o, q, s, t) PROVE EventLasts(o, q, u, t)
  BY <1>4, <1>5 DEF EventLasts, p, b
<1>6. ASSUME AnswerBrief(o, a, q, s, t), p = q, NEW id \in DOMAIN b \cap DOMAIN u.confirmed
      PROVE  a + b[id].rem =< t \/ a + b[id].rem =< u.confirmed[id].lease
  <2>1. id \in DOMAIN s.confirmed /\ (a + b[id].rem =< t \/ a + b[id].rem =< s.confirmed[id].lease)
    BY <1>4, <1>6 DEF AnswerBrief, p, b
  <2>2. DisplayLease \in Nat /\ b[id].rem \in Nat
    BY <1>1, LeasesType
  <2> QED BY <1>4, <1>6, <2>1, <2>2
<1> QED BY <1>3, <1>5, <1>6 DEF AnswerBrief, p, e, b

LEMMA ServingPage ==
  ASSUME Typed, Shown, Leased, PageInv, Serving
  PROVE  PageInv'
<1>1. StabTo /\ Shown' /\ UNCHANGED <<now, link, page>>
  BY ServingEffect
<1>2. /\ proc' = proc /\ stab \in Stabs /\ stab' \in Stabs /\ view' \in Views /\ now \in Nat
      /\ Evolves(stab, stab', now)
      /\ \A id \in DOMAIN stab.confirmed : /\ stab.confirmed[id].lease \in Nat
                                           /\ stab.confirmed[id].lease =< now + DisplayLease
  BY <1>1, StabTypes DEF StabTo, Typed, Leased
<1>3. PageBehind'
  <2>1. Behind(page.proc, page.src, page.boxes, proc, stab)
    BY DEF PageInv, PageBehind
  <2>2. Behind(page.proc, page.src, page.boxes, proc, stab')
    BY <1>2, <2>1, PageTypes, BehindEvolves
  <2> QED BY <1>1, <1>2, <2>2 DEF PageInv, PageBehind
<1>4. /\ PageLasts(page.proc, page.boxes, proc, stab) => PageLasts(page.proc, page.boxes, proc, stab')
      /\ PageBrief(page.proc, page.boxes, proc, stab, now)
           => PageBrief(page.proc, page.boxes, proc, stab', now)
  <2>1. Behind(page.proc, page.src, page.boxes, proc, stab)
    BY DEF PageInv, PageBehind
  <2> QED BY <1>2, <2>1, PageTypes, PageEvolves
<1>5. ASSUME NEW i \in 1 .. Len(link.pipe)
      PROVE  /\ Behind(link.pipe[i].proc, link.pipe[i].epoch, link.pipe[i].boxes, proc, stab')
             /\ EventLasts(link.pipe[i], proc, stab, now) => EventLasts(link.pipe[i], proc, stab', now)
             /\ AnswerBrief(link.pipe[i], link.asked, proc, stab, now)
                  => AnswerBrief(link.pipe[i], link.asked, proc, stab', now)
  <2>1. link.pipe[i] \in Payloads /\ link.asked \in Int
    BY PageTypes
  <2>2. Behind(link.pipe[i].proc, link.pipe[i].epoch, link.pipe[i].boxes, proc, stab)
    BY DEF PageInv, EventsBehind
  <2> QED BY <1>2, <2>1, <2>2, EventEvolves
<1>6. EventsBehind' /\ EventsInOrder' /\ Asked'
  BY <1>1, <1>2, <1>5 DEF PageInv, EventsBehind, EventsInOrder, Asked
<1>7. Lasting' /\ Brief'
  BY <1>1, <1>2, <1>4, <1>5 DEF PageInv, Lasting, Brief
<1>8. Delivered'
  <2>1. CASE view' = view /\ stab'.confirmed = stab.confirmed
    <3>1. stab'.epoch = stab.epoch
      BY <1>2 DEF Evolves
    <3> QED BY <1>1, <1>2, <2>1, <3>1 DEF PageInv, Delivered, Seen, Mirrors
  <2>2. CASE view'.rev = view.rev + 1
    <3>1. link.mode = "sse" => link.last < view'.rev
      BY <2>2, PageTypes DEF PageInv, Delivered
    <3> QED BY <1>1, <2>2, <3>1, PageTypes DEF Delivered
  <2> QED BY <1>1, <2>1, <2>2 DEF StabTo
<1> QED BY <1>3, <1>6, <1>7, <1>8 DEF PageInv

(* A new epoch, and a new process, leave every box behind.                 *)
LEMMA EmptiedPage ==
  ASSUME Typed, Shown, PageInv, Discontinuity \/ Restart
  PROVE  PageInv'
<1>1. /\ UNCHANGED <<now, page>> /\ stab' \in Stabs /\ stab'.confirmed = <<>>
      /\ link'.mode = link.mode /\ link'.asked = link.asked /\ link'.pipe = link.pipe
      /\ \/ proc' = proc /\ stab'.epoch = stab.epoch + 1
         \/ proc' = proc + 1
  <2>1. CASE Discontinuity
    BY <2>1, DiscontinuityEffect DEF Emptied, Discontinuity
  <2>2. CASE Restart
    BY <2>2, RestartEffect, RestartLink DEF Emptied, Restart
  <2> QED BY <2>1, <2>2
<1>2. DOMAIN stab'.confirmed = {}
  BY <1>1, KeyedEmpty
<1>3. ASSUME NEW p \in Int, NEW e \in Int, NEW b, Behind(p, e, b, proc, stab),
             \A id \in DOMAIN b : id[1] \in Nat /\ id[2] \in Nat
      PROVE  Behind(p, e, b, proc', stab')
  <2>1. proc \in Nat /\ stab.epoch \in Nat
    BY PageTypes, StabTypes
  <2>2. CASE proc' = proc + 1
    BY <1>3, <2>1, <2>2 DEF Behind
  <2>3. CASE proc' = proc /\ stab'.epoch = stab.epoch + 1
    <3>1. \A id \in DOMAIN b : Issued(stab, id) => Issued(stab', id)
      BY <1>3, <2>1, <2>3 DEF Issued
    <3> QED BY <1>2, <1>3, <2>1, <2>3, <3>1 DEF Behind
  <2> QED BY <1>1, <2>2, <2>3
<1>4. PageBehind'
  BY <1>1, <1>3, PageTypes DEF PageInv, PageBehind
<1>5. ASSUME NEW i \in 1 .. Len(link.pipe)
      PROVE  Behind(link.pipe[i].proc, link.pipe[i].epoch, link.pipe[i].boxes, proc', stab')
  <2>1. link.pipe[i] \in Payloads
    BY PageTypes
  <2>2. Behind(link.pipe[i].proc, link.pipe[i].epoch, link.pipe[i].boxes, proc, stab)
    BY DEF PageInv, EventsBehind
  <2> QED BY <1>3, <2>1, <2>2, EventTypes
<1>6. EventsBehind' /\ EventsInOrder' /\ Asked'
  BY <1>1, <1>5 DEF PageInv, EventsBehind, EventsInOrder, Asked
<1>7. Lasting' /\ Brief'
  BY <1>2 DEF Lasting, Brief, PageLasts, PageBrief, EventLasts, AnswerBrief
<1>8. Delivered'
  <2>1. CASE Discontinuity
    <3>1. view'.rev = view.rev + 1 /\ link' = link
      BY <2>1, DiscontinuityEffect DEF Discontinuity
    <3>2. link.mode = "sse" => link.last < view'.rev
      BY <3>1, PageTypes DEF PageInv, Delivered
    <3> QED BY <3>1, <3>2, PageTypes DEF Delivered
  <2>2. CASE Restart
    <3>1. view'.rev = 0 /\ link'.last = None
      BY <2>2, RestartEffect, RestartLink
    <3> QED BY <3>1 DEF Delivered, None
  <2> QED BY <2>1, <2>2
<1> QED BY <1>4, <1>6, <1>7, <1>8 DEF PageInv

(* Time passes, or nothing does.                                           *)
LEMMA AdvancePage ==
  ASSUME Typed, PageInv, Advance \/ UNCHANGED vars
  PROVE  PageInv'
<1>1. UNCHANGED <<proc, stab, view, link, page>> /\ now \in Nat /\ (now' = now \/ now' = now + 1)
  BY DEF Advance, overlay, vars, Typed
<1>2. PageBehind' /\ EventsBehind' /\ EventsInOrder'
  BY <1>1 DEF PageInv, PageBehind, EventsBehind, EventsInOrder
<1>3. \A i \in 1 .. Len(link.pipe) : \A id \in DOMAIN link.pipe[i].boxes :
        link.pipe[i].boxes[id].rem \in Nat
  BY PageTypes, EventTypes
<1>4. Lasting'
  <2>1. ASSUME link.mode = "sse", NEW i \in 1 .. Len(link.pipe)
        PROVE  EventLasts(link.pipe[i], proc, stab, now')
    <3>1. EventLasts(link.pipe[i], proc, stab, now)
      BY <2>1 DEF PageInv, Lasting
    <3>2. ASSUME NEW id \in DOMAIN link.pipe[i].boxes \cap DOMAIN stab.confirmed
          PROVE  /\ link.pipe[i].boxes[id].rem \in Nat /\ stab.confirmed[id].lease \in Nat
                 /\ now + link.pipe[i].boxes[id].rem >= stab.confirmed[id].lease
                      => now' + link.pipe[i].boxes[id].rem >= stab.confirmed[id].lease
      <4> DEFINE m == link.pipe[i].boxes[id].rem
                 l == stab.confirmed[id].lease
      <4>1. m \in Nat /\ l \in Nat
        BY <1>3, StabTypes
      <4> HIDE DEF m, l
      <4>2. now + m >= l => now' + m >= l
        BY <1>1, <4>1
      <4> QED BY <4>1, <4>2 DEF m, l
    <3> QED BY <3>1, <3>2 DEF EventLasts
  <2> QED BY <1>1, <2>1 DEF PageInv, Lasting
<1>5. Brief'
  <2>1. ASSUME link.mode = "poll" PROVE PageBrief(page.proc, page.boxes, proc, stab, now')
    BY <1>1, <2>1, PageTypes, StabTypes DEF PageInv, Brief, PageBrief
  <2>2. ASSUME link.mode = "poll", NEW i \in 1 .. Len(link.pipe)
        PROVE  AnswerBrief(link.pipe[i], link.asked, proc, stab, now')
    <3>1. AnswerBrief(link.pipe[i], link.asked, proc, stab, now) /\ link.asked \in Int
      BY <2>2, PageTypes DEF PageInv, Brief
    <3>2. ASSUME NEW id \in DOMAIN link.pipe[i].boxes \cap DOMAIN stab.confirmed
          PROVE  /\ link.pipe[i].boxes[id].rem \in Nat
                 /\ link.asked + link.pipe[i].boxes[id].rem =< now
                      => link.asked + link.pipe[i].boxes[id].rem =< now'
      BY <1>1, <1>3, <3>1
    <3> QED BY <3>1, <3>2 DEF AnswerBrief
  <2> QED BY <1>1, <2>1, <2>2 DEF Brief
<1>6. Asked' /\ Delivered'
  <2>1. Asked'
    BY <1>1, PageTypes DEF PageInv, Asked
  <2>2. ASSUME Seen PROVE Seen'
    BY <1>1, <2>2, StabTypes DEF Seen
  <2> QED BY <1>1, <2>1, <2>2 DEF PageInv, Delivered, Mirrors
<1> QED BY <1>2, <1>4, <1>5, <1>6 DEF PageInv

--------------------------------------------------------------------------------
(* The page and the link.                                                  *)


LEMMA LosePage ==
  ASSUME Typed, PageInv, LoseStream
  PROVE  PageInv'
<1>1. /\ UNCHANGED <<now, proc, stab, view, page>>
      /\ link.mode = "sse" /\ link'.mode \in {"sse", "degraded"}
      /\ link'.last = None /\ link'.asked = None /\ link'.pipe = <<>>
  BY LoseEffect DEF LoseStream, overlay
<1>2. PageBehind' /\ EventsBehind' /\ EventsInOrder'
  BY <1>1 DEF PageInv, PageBehind, EventsBehind, EventsInOrder
<1>3. Lasting' /\ Brief' /\ Asked'
  BY <1>1 DEF PageInv, Lasting, Brief, Asked
<1>4. Delivered'
  BY <1>1, PageTypes DEF Delivered, None
<1> QED BY <1>2, <1>3, <1>4 DEF PageInv

(* A request is made, or fails.                                            *)
LEMMA AskPage ==
  ASSUME Typed, PageInv, Ask \/ AskFails
  PROVE  PageInv'
<1>1. /\ UNCHANGED <<now, proc, stab, view, page>> /\ now \in Nat
      /\ link.mode \in {"poll", "degraded"} /\ link'.mode = link.mode
      /\ link'.asked \in {now, None} /\ link'.pipe = <<>>
  <2>1. CASE Ask
    <3>1. link'.mode = link.mode /\ link'.pipe = link.pipe /\ link'.asked = now
      BY <2>1, AskEffect
    <3> QED BY <2>1, <3>1 DEF Ask, overlay, PageInv, Asked, Typed
  <2>2. CASE AskFails
    BY <2>2, OnAnswerEffect DEF AskFails, overlay, PageInv, Asked, Typed
  <2> QED BY <2>1, <2>2
<1>2. PageBehind' /\ EventsBehind' /\ EventsInOrder'
  BY <1>1 DEF PageInv, PageBehind, EventsBehind, EventsInOrder
<1>3. Lasting' /\ Brief' /\ Asked' /\ Delivered'
  BY <1>1 DEF PageInv, Lasting, Brief, Asked, Delivered
<1> QED BY <1>2, <1>3 DEF PageInv

LEMMA RenderPage ==
  ASSUME Typed, PageInv, Render
  PROVE  PageInv'
<1>1. /\ UNCHANGED <<now, proc, stab, view, link>> /\ now \in Nat
      /\ page'.proc = page.proc /\ page'.src = page.src /\ page'.retired = page.retired
      /\ DOMAIN page'.boxes = {i \in DOMAIN page.boxes : page.boxes[i].deadline > now}
      /\ \A id \in DOMAIN page'.boxes : page'.boxes[id] = page.boxes[id]
  BY RenderEffect DEF Render, overlay, Typed
<1>2. PageBehind'
  BY <1>1 DEF PageInv, PageBehind, Behind
<1>3. EventsBehind' /\ EventsInOrder'
  BY <1>1 DEF PageInv, EventsBehind, EventsInOrder, Precedes
<1>4. Lasting' /\ Brief' /\ Asked'
  BY <1>1 DEF PageInv, Lasting, Brief, Asked, PageLasts, PageBrief
<1>5. Delivered'
  <2>1. ASSUME link.mode = "sse", Seen PROVE Seen'
    <3>1. ASSUME NEW id \in DOMAIN stab.confirmed, id \notin DOMAIN page'.boxes
          PROVE  stab.confirmed[id].lease =< now
      <4>1. CASE id \notin DOMAIN page.boxes
        BY <2>1, <3>1, <4>1 DEF Seen
      <4>2. CASE id \in DOMAIN page.boxes
        <5>1. page.boxes[id].deadline \in Nat /\ stab.confirmed[id].lease \in Nat
          BY <3>1, <4>2, PageTypes, StabTypes
        <5>2. page.boxes[id].deadline =< now
          BY <1>1, <3>1, <4>2, <5>1
        <5>3. page.boxes[id].deadline >= stab.confirmed[id].lease
          BY <2>1, <3>1, <4>2 DEF Seen, PageInv, Lasting, PageLasts
        <5> QED BY <1>1, <5>1, <5>2, <5>3
      <4> QED BY <4>1, <4>2
    <3> QED BY <1>1, <2>1, <3>1 DEF Seen
  <2> QED BY <1>1, <2>1 DEF PageInv, Delivered, Mirrors
<1> QED BY <1>2, <1>3, <1>4, <1>5 DEF PageInv

(* What the server sends is of the stabilizer as it is.                    *)
LEMMA SentIs ==
  ASSUME Typed, Shown, Numbered, NEW o, o = Payload(view, now)
  PROVE  /\ o \in Payloads /\ Mirrors(o)
         /\ Behind(o.proc, o.epoch, o.boxes, proc, stab)
         /\ EventLasts(o, proc, stab, now)
         /\ \A a \in Int : a =< now => AnswerBrief(o, a, proc, stab, now)
<1>1. view \in Views /\ now \in Nat /\ view.tracks = stab.confirmed
      /\ view.proc = proc /\ view.epoch = stab.epoch
  BY DEF Typed, Shown
<1>2. /\ o \in Payloads /\ o.proc = proc /\ o.epoch = stab.epoch
      /\ DOMAIN o.boxes = DOMAIN stab.confirmed
      /\ \A id \in DOMAIN o.boxes :
           /\ o.boxes[id].rev = stab.confirmed[id].rev
           /\ o.boxes[id].rem \in Nat /\ stab.confirmed[id].lease \in Nat
           /\ now + o.boxes[id].rem >= stab.confirmed[id].lease
           /\ o.boxes[id].rem = 0 \/ now + o.boxes[id].rem =< stab.confirmed[id].lease
  BY <1>1, PayloadIs
<1>3. Mirrors(o)
  BY <1>2 DEF Mirrors
<1>4. Behind(o.proc, o.epoch, o.boxes, proc, stab)
  BY <1>2, PageTypes, StabTypes DEF Behind, Numbered
<1>5. EventLasts(o, proc, stab, now)
  BY <1>2 DEF EventLasts
<1>6. ASSUME NEW a \in Int, a =< now PROVE AnswerBrief(o, a, proc, stab, now)
  BY <1>1, <1>2, <1>6 DEF AnswerBrief
<1> QED BY <1>2, <1>3, <1>4, <1>5, <1>6

(* The stream sends.                                                       *)
LEMMA PushPage ==
  ASSUME Typed, Shown, Numbered, PageInv, Push
  PROVE  PageInv'
<1> DEFINE o == Payload(view, now)
<1>1. /\ UNCHANGED <<now, proc, stab, view, page>>
      /\ link.mode = "sse" /\ link'.mode = "sse" /\ link'.last = view.rev /\ link'.asked = link.asked
      /\ link'.pipe = Append(link.pipe, o) /\ link.pipe \in Seq(Payloads)
  BY PushEffect, PageTypes DEF Push, overlay
<1>2. /\ o \in Payloads /\ Mirrors(o) /\ EventLasts(o, proc, stab, now)
      /\ Behind(o.proc, o.epoch, o.boxes, proc, stab)
  BY SentIs
<1> HIDE DEF o
<1>3. /\ Len(link'.pipe) = Len(link.pipe) + 1 /\ link'.pipe[Len(link.pipe) + 1] = o
      /\ Len(link.pipe) \in Nat /\ link'.pipe # <<>>
      /\ \A i \in 1 .. Len(link.pipe) : link'.pipe[i] = link.pipe[i]
  BY <1>1, <1>2
<1>4. /\ o.proc = proc /\ o.epoch = stab.epoch /\ DOMAIN o.boxes \subseteq DOMAIN stab.confirmed
      /\ \A id \in DOMAIN o.boxes : o.boxes[id].rev = stab.confirmed[id].rev
  BY <1>2 DEF Mirrors
<1>5. Precedes(page.proc, page.src, page.boxes, o)
  <2>1. Behind(page.proc, page.src, page.boxes, proc, stab)
    BY DEF PageInv, PageBehind
  <2> QED BY <1>4, <2>1, BehindPrecedes
<1>6. ASSUME NEW i \in 1 .. Len(link.pipe)
      PROVE  Precedes(link.pipe[i].proc, link.pipe[i].epoch, link.pipe[i].boxes, o)
  <2>1. Behind(link.pipe[i].proc, link.pipe[i].epoch, link.pipe[i].boxes, proc, stab)
    BY DEF PageInv, EventsBehind
  <2> QED BY <1>4, <2>1, BehindPrecedes
<1>7. ASSUME NEW i \in 1 .. Len(link'.pipe)
      PROVE  (i \in 1 .. Len(link.pipe) /\ link'.pipe[i] = link.pipe[i])
             \/ (i = Len(link.pipe) + 1 /\ link'.pipe[i] = o)
  BY <1>3
<1>8. PageBehind'
  BY <1>1 DEF PageInv, PageBehind
<1>9. EventsBehind'
  <2>1. ASSUME NEW i \in 1 .. Len(link'.pipe)
        PROVE  /\ Behind(link'.pipe[i].proc, link'.pipe[i].epoch, link'.pipe[i].boxes, proc, stab)
               /\ Precedes(page.proc, page.src, page.boxes, link'.pipe[i])
    BY <1>2, <1>5, <1>7 DEF PageInv, EventsBehind
  <2> QED BY <1>1, <2>1 DEF EventsBehind
<1>10. EventsInOrder'
  <2>1. ASSUME NEW i \in 1 .. Len(link'.pipe), NEW j \in 1 .. Len(link'.pipe), i < j
        PROVE  Precedes(link'.pipe[i].proc, link'.pipe[i].epoch, link'.pipe[i].boxes, link'.pipe[j])
    <3>1. i \in 1 .. Len(link.pipe) /\ link'.pipe[i] = link.pipe[i]
      BY <1>3, <2>1
    <3> QED BY <1>6, <1>7, <2>1, <3>1 DEF PageInv, EventsInOrder
  <2> QED BY <2>1 DEF EventsInOrder
<1>11. Lasting'
  <2>1. ASSUME NEW i \in 1 .. Len(link'.pipe)
        PROVE  EventLasts(link'.pipe[i], proc, stab, now)
    BY <1>1, <1>2, <1>7 DEF PageInv, Lasting
  <2> QED BY <1>1, <2>1 DEF PageInv, Lasting
<1>12. Brief' /\ Asked'
  BY <1>1 DEF PageInv, Brief, Asked
<1>13. Delivered'
  BY <1>1, <1>2, <1>3, PageTypes DEF Delivered, Mirrors
<1> QED BY <1>8, <1>9, <1>10, <1>11, <1>12, <1>13 DEF PageInv

(* A poll is answered.                                                     *)
LEMMA AnswerPage ==
  ASSUME Typed, Shown, Numbered, PageInv, Answer
  PROVE  PageInv'
<1> DEFINE o == Payload(view, now)
<1>1. /\ UNCHANGED <<now, proc, stab, view, page>>
      /\ link'.mode = link.mode /\ link'.asked = link.asked /\ link.asked # None
      /\ link'.pipe = <<o>>
  BY AnswerEffect DEF Answer, overlay
<1>2. /\ o \in Payloads /\ Mirrors(o) /\ Behind(o.proc, o.epoch, o.boxes, proc, stab)
      /\ \A a \in Int : a =< now => AnswerBrief(o, a, proc, stab, now)
  BY SentIs
<1> HIDE DEF o
<1>3. /\ link.mode \in {"poll", "degraded"} /\ link.asked \in Int /\ link.asked =< now
  BY <1>1, PageTypes DEF PageInv, Asked
<1>4. Precedes(page.proc, page.src, page.boxes, o)
  <2>1. Behind(page.proc, page.src, page.boxes, proc, stab)
    BY DEF PageInv, PageBehind
  <2> QED BY <1>2, <2>1, BehindPrecedes DEF Mirrors
<1>5. /\ Len(link'.pipe) = 1 /\ link'.pipe[1] = o /\ \A i \in 1 .. Len(link'.pipe) : i = 1
  BY <1>1
<1>6. PageBehind' /\ EventsBehind' /\ EventsInOrder'
  <2>1. PageBehind'
    BY <1>1 DEF PageInv, PageBehind
  <2>2. EventsBehind'
    BY <1>1, <1>2, <1>4, <1>5 DEF EventsBehind
  <2>3. EventsInOrder'
    BY <1>5 DEF EventsInOrder
  <2> QED BY <2>1, <2>2, <2>3
<1>7. Brief'
  BY <1>1, <1>2, <1>3, <1>5 DEF PageInv, Brief
<1>8. Lasting' /\ Asked' /\ Delivered'
  BY <1>1, <1>3, <1>5 DEF PageInv, Lasting, Asked, Delivered
<1> QED BY <1>6, <1>7, <1>8 DEF PageInv

(* What has arrived leaves the page where the sender was.                  *)
LEMMA ArrivedPage ==
  ASSUME Typed, PageInv, NEW rtt \in Int, NEW o \in Payloads,
         Behind(o.proc, o.epoch, o.boxes, proc, stab),
         Applied(page, o, rtt, now, page'), UNCHANGED <<proc, stab>>
  PROVE  PageBehind'
<1>1. /\ page'.proc = o.proc /\ page'.src = o.epoch /\ DOMAIN page'.boxes = DOMAIN o.boxes
      /\ \A q \in page'.retired : q < page'.proc
      /\ \A id \in DOMAIN page'.boxes : page'.boxes[id].rev = o.boxes[id].rev
      /\ o.proc \in Nat
  BY EventTypes DEF Applied
<1>2. Behind(page'.proc, page'.src, page'.boxes, proc, stab)
  BY <1>1 DEF Behind
<1> QED BY <1>1, <1>2 DEF PageBehind, None

(* An event arrives.                                                       *)
LEMMA EventPage ==
  ASSUME Typed, PageInv, OnEvent
  PROVE  PageInv'
<1> DEFINE o == link.pipe[1]
           n == Len(link.pipe)
<1>1. /\ UNCHANGED <<now, proc, stab, view>>
      /\ link.mode = "sse" /\ link'.mode = "sse" /\ link'.last = link.last
      /\ link'.asked = link.asked /\ link.pipe \in Seq(Payloads) /\ link.pipe # <<>>
      /\ link'.pipe = Tail(link.pipe) /\ page' = ApplyOverlay(page, o, 0, now)
  BY EventEffect DEF OnEvent, overlay
<1>2. PageBehind /\ EventsBehind
  BY DEF PageInv
<1>3. o \in Payloads /\ Applied(page, o, 0, now, page')
  BY <1>1, <1>2, PageEffect
<1>4. /\ n \in Nat /\ n >= 1 /\ Len(link'.pipe) = n - 1
      /\ \A i \in 1 .. n - 1 : link'.pipe[i] = link.pipe[i + 1] /\ i + 1 \in 1 .. n
  BY <1>1
<1>5. Behind(o.proc, o.epoch, o.boxes, proc, stab)
  BY <1>2, <1>4 DEF EventsBehind
<1>6. /\ page'.proc = o.proc /\ page'.src = o.epoch /\ DOMAIN page'.boxes = DOMAIN o.boxes
      /\ \A id \in DOMAIN page'.boxes :
           /\ page'.boxes[id].rev = o.boxes[id].rev
           /\ \/ page'.boxes[id].deadline = now + Max({0, o.boxes[id].rem - 0})
              \/ page.proc = o.proc /\ id \in DOMAIN page.boxes /\ page'.boxes[id] = page.boxes[id]
  BY <1>3 DEF Applied
<1>7. PageBehind'
  BY <1>1, <1>3, <1>5, ArrivedPage
<1>8. EventsBehind'
  <2>1. ASSUME NEW i \in 1 .. n - 1
        PROVE  /\ Behind(link'.pipe[i].proc, link'.pipe[i].epoch, link'.pipe[i].boxes, proc, stab)
               /\ Precedes(page'.proc, page'.src, page'.boxes, link'.pipe[i])
    <3>1. link'.pipe[i] = link.pipe[i + 1] /\ i + 1 \in 1 .. n /\ 1 \in 1 .. n /\ 1 < i + 1
      BY <1>4
    <3>2. Behind(link.pipe[i + 1].proc, link.pipe[i + 1].epoch, link.pipe[i + 1].boxes, proc, stab)
      BY <1>2, <3>1 DEF EventsBehind
    <3>3. Precedes(o.proc, o.epoch, o.boxes, link.pipe[i + 1])
      BY <3>1 DEF PageInv, EventsInOrder
    <3>4. Precedes(page'.proc, page'.src, page'.boxes, link.pipe[i + 1])
      BY <1>6, <3>3 DEF Precedes
    <3> QED BY <3>1, <3>2, <3>4
  <2> QED BY <1>1, <1>4, <2>1 DEF EventsBehind
<1>9. EventsInOrder'
  <2>1. ASSUME NEW i \in 1 .. n - 1, NEW j \in 1 .. n - 1, i < j
        PROVE  Precedes(link'.pipe[i].proc, link'.pipe[i].epoch, link'.pipe[i].boxes, link'.pipe[j])
    <3>1. /\ link'.pipe[i] = link.pipe[i + 1] /\ i + 1 \in 1 .. n
          /\ link'.pipe[j] = link.pipe[j + 1] /\ j + 1 \in 1 .. n /\ i + 1 < j + 1
      BY <1>4, <2>1
    <3> QED BY <3>1 DEF PageInv, EventsInOrder
  <2> QED BY <1>4, <2>1 DEF EventsInOrder
<1>10. Lasting'
  <2>1. PageLasts(page'.proc, page'.boxes, proc, stab)
    <3>1. ASSUME page'.proc = proc, NEW id \in DOMAIN page'.boxes \cap DOMAIN stab.confirmed,
                 page'.boxes[id].rev = stab.confirmed[id].rev
          PROVE  page'.boxes[id].deadline >= stab.confirmed[id].lease
      <4>1. o.boxes[id].rem \in Nat /\ now \in Nat /\ stab.confirmed[id].lease \in Nat
        BY <1>3, <1>6, <3>1, EventTypes, StabTypes
      <4>2. CASE page'.boxes[id].deadline = now + Max({0, o.boxes[id].rem - 0})
        <5>1. EventLasts(o, proc, stab, now)
          BY <1>1, <1>4 DEF PageInv, Lasting
        <5>2. now + o.boxes[id].rem >= stab.confirmed[id].lease
          BY <1>6, <3>1, <5>1 DEF EventLasts
        <5>3. Max({0, o.boxes[id].rem - 0}) = o.boxes[id].rem
          <6>1. o.boxes[id].rem - 0 = o.boxes[id].rem /\ o.boxes[id].rem - 0 \in Int
            BY <4>1
          <6>2. Max({0, o.boxes[id].rem - 0})
                  = IF 0 >= o.boxes[id].rem - 0 THEN 0 ELSE o.boxes[id].rem - 0
            BY <6>1, TwoMax
          <6> QED BY <4>1, <6>1, <6>2
        <5> QED BY <4>1, <4>2, <5>2, <5>3
      <4>3. CASE page.proc = o.proc /\ id \in DOMAIN page.boxes /\ page'.boxes[id] = page.boxes[id]
        <5>1. PageLasts(page.proc, page.boxes, proc, stab)
          BY <1>1 DEF PageInv, Lasting
        <5> QED BY <1>6, <3>1, <4>3, <5>1 DEF PageLasts
      <4> QED BY <1>6, <3>1, <4>2, <4>3
    <3> QED BY <3>1 DEF PageLasts
  <2>2. ASSUME NEW i \in 1 .. n - 1
        PROVE  EventLasts(link'.pipe[i], proc, stab, now)
    BY <1>1, <1>4, <2>2 DEF PageInv, Lasting
  <2> QED BY <1>1, <1>4, <2>1, <2>2 DEF Lasting
<1>11. Brief' /\ Asked'
  BY <1>1 DEF PageInv, Brief, Asked
<1>12. Delivered'
  <2>0. UNCHANGED <<now, proc, stab, view>> /\ link.mode = "sse" /\ link'.mode = "sse"
        /\ link'.last = link.last /\ link.pipe # <<>> /\ n = Len(link.pipe)
    BY <1>1
  <2>1. ASSUME link.last = view.rev, link'.pipe = <<>> PROVE Seen'
    <3>1. n = 1
      <4>1. n \in Nat /\ Len(link'.pipe) = n - 1
        BY <1>4
      <4>2. Len(link'.pipe) = 0
        BY <2>1
      <4> HIDE DEF n
      <4> QED BY <4>1, <4>2
    <3>2. Mirrors(o)
      BY <2>0, <2>1, <3>1 DEF PageInv, Delivered
    <3>3. /\ DOMAIN page'.boxes = DOMAIN stab.confirmed
          /\ \A id \in DOMAIN page'.boxes : page'.boxes[id].rev = stab.confirmed[id].rev
          /\ page'.proc = proc /\ page'.src = stab.epoch
      BY <1>6, <3>2 DEF Mirrors
    <3> QED BY <2>0, <3>3 DEF Seen
  <2>2. ASSUME link.last = view.rev, link'.pipe # <<>>
        PROVE  Mirrors(link.pipe[n]) /\ link'.pipe[Len(link'.pipe)] = link.pipe[n]
    <3>1. n > 1
      BY <1>1, <1>4, <2>2
    <3>2. link'.pipe[n - 1] = link.pipe[n] /\ Len(link'.pipe) = n - 1
      BY <1>4, <3>1
    <3>3. Mirrors(link.pipe[n])
      BY <2>0, <2>2 DEF PageInv, Delivered
    <3> QED BY <3>2, <3>3
  <2>3. ASSUME link.last = view.rev, link'.pipe # <<>>
        PROVE  Mirrors(link.pipe[Len(link.pipe)])'
    BY <2>0, <2>2, <2>3 DEF Mirrors
  <2> QED BY <2>0, <2>1, <2>3 DEF PageInv, Delivered
<1> QED BY <1>7, <1>8, <1>9, <1>10, <1>11, <1>12 DEF PageInv

(* An answer arrives.                                                      *)
LEMMA OnAnswerPage ==
  ASSUME Typed, PageInv, OnAnswer
  PROVE  PageInv'
<1> DEFINE o == link.pipe[1]
           rtt == now - link.asked
<1>1. /\ UNCHANGED <<now, proc, stab, view>> /\ link.pipe # <<>>
      /\ link'.mode = link.mode /\ link.asked # None /\ link'.asked = None /\ link'.pipe = <<>>
      /\ link.asked \in Nat /\ now \in Nat /\ rtt \in Int
      /\ link.mode \in {"poll", "degraded"} /\ link.pipe \in Seq(Payloads)
  BY OnAnswerEffect, PageTypes DEF OnAnswer, overlay, PageInv, Asked, Typed
<1>2. PageBehind /\ EventsBehind /\ 1 \in 1 .. Len(link.pipe)
  BY <1>1 DEF PageInv
<1>3. page' = ApplyOverlay(page, o, rtt, now)
  BY <1>1 DEF OnAnswer
<1>4. rtt = now - link.asked
  OBVIOUS
<1> HIDE DEF rtt
<1>5. o \in Payloads /\ Applied(page, o, rtt, now, page')
  BY <1>1, <1>2, <1>3, PageEffect
<1>6. Behind(o.proc, o.epoch, o.boxes, proc, stab)
  BY <1>2 DEF EventsBehind
<1>7. PageBehind'
  BY <1>1, <1>5, <1>6, ArrivedPage
<1>8. EventsBehind' /\ EventsInOrder' /\ Asked'
  BY <1>1 DEF EventsBehind, EventsInOrder, Asked
<1>9. Brief'
  <2>1. ASSUME link.mode = "poll", page'.proc = proc,
               NEW id \in DOMAIN page'.boxes \cap DOMAIN stab.confirmed
        PROVE  \/ page'.boxes[id].deadline =< now
               \/ page'.boxes[id].deadline =< stab.confirmed[id].lease
    <3>1. /\ page'.proc = o.proc /\ DOMAIN page'.boxes = DOMAIN o.boxes
          /\ \/ page'.boxes[id].deadline = now + Max({0, o.boxes[id].rem - rtt})
             \/ page.proc = o.proc /\ id \in DOMAIN page.boxes /\ page'.boxes[id] = page.boxes[id]
      BY <1>5 DEF Applied
    <3>2. CASE page'.boxes[id].deadline = now + Max({0, o.boxes[id].rem - rtt})
      <4>1. o.boxes[id].rem \in Nat /\ stab.confirmed[id].lease \in Nat
        BY <1>5, <2>1, <3>1, EventTypes, StabTypes
      <4>2. AnswerBrief(o, link.asked, proc, stab, now)
        BY <1>2, <2>1 DEF PageInv, Brief
      <4>3. \/ link.asked + o.boxes[id].rem =< now
            \/ link.asked + o.boxes[id].rem =< stab.confirmed[id].lease
        BY <2>1, <3>1, <4>2 DEF AnswerBrief
      <4>4. o.boxes[id].rem - rtt \in Int
        BY <1>1, <4>1
      <4>5. Max({0, o.boxes[id].rem - rtt})
              = IF 0 >= o.boxes[id].rem - rtt THEN 0 ELSE o.boxes[id].rem - rtt
        BY <4>4, TwoMax
      <4> DEFINE m == o.boxes[id].rem
                 d == page'.boxes[id].deadline
                 k == Max({0, m - rtt})
                 a == link.asked
                 l == stab.confirmed[id].lease
      <4>6. /\ d = now + k /\ k = (IF 0 >= m - rtt THEN 0 ELSE m - rtt) /\ rtt = now - a
            /\ m \in Nat /\ a \in Nat /\ now \in Nat /\ l \in Nat
            /\ (a + m =< now \/ a + m =< l)
        BY <1>1, <1>4, <3>2, <4>1, <4>3, <4>5
      <4> HIDE DEF m, d, k, a, l
      <4>7. d =< now \/ d =< l
        BY <4>6
      <4> QED BY <4>7 DEF d, l
    <3>3. CASE page.proc = o.proc /\ id \in DOMAIN page.boxes /\ page'.boxes[id] = page.boxes[id]
      <4>1. PageBrief(page.proc, page.boxes, proc, stab, now)
        BY <2>1 DEF PageInv, Brief
      <4> QED BY <2>1, <3>1, <3>3, <4>1 DEF PageBrief
    <3> QED BY <3>1, <3>2, <3>3
  <2>2. link.mode = "poll" => PageBrief(page'.proc, page'.boxes, proc, stab, now)
    BY <2>1 DEF PageBrief
  <2> QED BY <1>1, <2>2 DEF Brief
<1>10. Lasting' /\ Delivered'
  BY <1>1 DEF Lasting, Delivered
<1> QED BY <1>7, <1>8, <1>9, <1>10 DEF PageInv

--------------------------------------------------------------------------------
(* The theorems.                                                           *)

LEMMA PageStep ==
  ASSUME Typed, Shown, Leased, Numbered, PageInv, [Next]_vars
  PROVE  PageInv'
<1>1. CASE Linking
  BY <1>1, PushPage, EventPage, LosePage, AskPage, AnswerPage, OnAnswerPage, RenderPage DEF Linking
<1> QED BY <1>1, ServingPage, EmptiedPage, AdvancePage, NextCases

LEMMA OverlayInit == Init => OverlayInv
<1> SUFFICES ASSUME Init PROVE OverlayInv
  OBVIOUS
<1>1. /\ now = 0 /\ proc = 1 /\ stab = NewStab(1) /\ store = NewStore /\ view = NewView(1)
      /\ frame = [epoch |-> 1, ver |-> 0] /\ call = [d \in Detectors |-> Poll]
      /\ sched = [pc |-> "plan", wake |-> 0]
      /\ page = [proc |-> None, retired |-> {}, src |-> None, boxes |-> <<>>]
  BY DEF Init
<1>2. PICK m \in Transports : link = [mode |-> m, last |-> None, pipe |-> <<>>, asked |-> None]
  BY DEF Init
<1>3. <<>> \in Keyed(Track) /\ <<>> \in Keyed([rev : Nat, deadline : Nat]) /\ <<>> \in Listed
      /\ DOMAIN <<>> = {} /\ <<>> \in Seq(Payloads) /\ None \in Int
  BY KeyedEmpty DEF None
<1>4. Typed
  <2>1. stab \in Stabs
    BY <1>1, <1>3 DEF NewStab, Stabs
  <2>2. store \in Stores
    BY <1>1, <1>3 DEF NewStore, Stores, Healths, NoRaw
  <2>3. view \in Views
    BY <1>1, <1>3 DEF NewView, Views, Healths, NoRaw
  <2>4. call \in [Detectors -> Calls] /\ frame \in [epoch : Nat, ver : Nat]
        /\ sched \in [pc : {"plan", "sleep"}, wake : Nat]
    <3>1. Poll \in Calls
      BY DEF Poll, Calls
    <3>2. call \in [Detectors -> Calls]
      BY <1>1, <3>1
    <3> QED BY <1>1, <3>2
  <2>5. link \in Links
    <3>1. m \in {"sse", "degraded", "poll", "none"}
      BY OverlayAssumption DEF OverlayAssumption
    <3> QED BY <1>2, <1>3, <3>1 DEF Links
  <2>6. page \in Pages
    BY <1>1, <1>3 DEF Pages
  <2> QED BY <1>1, <2>1, <2>2, <2>3, <2>4, <2>5, <2>6 DEF Typed
<1>5. stab.confirmed = <<>> /\ stab.candidates = <<>> /\ stab.epoch = 1 /\ sched.pc = "plan"
  BY <1>1 DEF NewStab
<1>6. Shown
  BY <1>1 DEF Shown, NewStab, NewStore, NewView, NoRaw, None
<1>7. InOrder /\ ResultOfEpoch
  BY <1>1, <1>5 DEF InOrder, ResultOfEpoch, NewView, NoRaw, Poll
<1>8. Leased /\ Numbered /\ Awake
  BY <1>3, <1>5 DEF Leased, Numbered, Awake, Waiting
<1>9. page.proc = None /\ page.src = None /\ page.retired = {} /\ page.boxes = <<>>
      /\ link.last = None /\ link.pipe = <<>> /\ link.asked = None /\ view.rev = 0
  BY <1>1, <1>2 DEF NewView
<1>10. PageBehind /\ EventsBehind /\ EventsInOrder
  BY <1>1, <1>9 DEF PageBehind, Behind, EventsBehind, EventsInOrder, None
<1>11. Lasting /\ Brief /\ Asked /\ Delivered
  BY <1>1, <1>3, <1>5, <1>9
  DEF Lasting, Brief, Asked, Delivered, PageLasts, PageBrief, None
<1> QED BY <1>4, <1>6, <1>7, <1>8, <1>10, <1>11 DEF OverlayInv, ServerInv, PageInv

(* The invariant holds, of the server and of the page, whatever is lost,   *)
(* delayed or restarted between them.                                      *)
THEOREM OverlayInvariant == Spec => []OverlayInv
<1>1. OverlayInv /\ [Next]_vars => OverlayInv'
  <2> SUFFICES ASSUME OverlayInv, [Next]_vars PROVE OverlayInv'
    OBVIOUS
  <2>1. Typed' /\ Shown'
    BY TypedStep DEF OverlayInv, ServerInv, PageInv
  <2>2. InOrder' /\ ResultOfEpoch'
    BY FramesStep DEF OverlayInv, ServerInv
  <2>3. Leased' /\ Numbered'
    BY LeasedStep DEF OverlayInv, ServerInv
  <2>4. IdlePoll =< DisplayLease => Awake'
    BY AwakeStep DEF OverlayInv, ServerInv
  <2>5. PageInv'
    BY PageStep DEF OverlayInv, ServerInv
  <2> QED BY <2>1, <2>2, <2>3, <2>4, <2>5 DEF OverlayInv, ServerInv
<1> QED BY OverlayInit, <1>1, PTL DEF Spec

(* NewestResult of Overlay: results shown are of the epoch they are shown  *)
(* under, and within it no result gives way to an older one (_gate).       *)
THEOREM ResultsNewest == Spec => NewestResult
<1>1. OverlayInv /\ OverlayInv' /\ [Next]_vars =>
        [/\ ResultOfEpoch'
         /\ view'.raw # view.raw /\ view'.raw # NoRaw /\ view.raw # NoRaw
              => view'.raw > view.raw]_vars
  BY FramesStep DEF OverlayInv, ServerInv, Forward
<1> QED BY <1>1, OverlayInvariant, PTL DEF Spec, NewestResult

(* LeaseKept of Overlay: if the scheduler never idles for longer than a    *)
(* lease, a track outlives its lease by no more than the lateness of the   *)
(* scheduler's thread (OverlayExpiryScheduler.serve, wait_plan_ns).        *)
THEOREM LeasesKept ==
  ASSUME IdlePoll =< DisplayLease
  PROVE  Spec => []LeaseKept
<1>1. OverlayInv => LeaseKept
  <2> SUFFICES ASSUME OverlayInv, NEW id \in DOMAIN view.tracks
               PROVE  now =< view.tracks[id].lease + Late
    BY DEF LeaseKept
  <2>1. Typed /\ Awake /\ id \in DOMAIN stab.confirmed /\ view.tracks = stab.confirmed
    BY DEF OverlayInv, ServerInv, Shown
  <2>2. /\ now \in Nat /\ sched.wake \in Nat /\ stab.confirmed[id].lease \in Nat /\ Late \in Nat
    BY <2>1, StabTypes, OverlayAssumption DEF OverlayAssumption
  <2>3. \/ now =< stab.confirmed[id].lease
        \/ now =< sched.wake + Late /\ sched.wake =< stab.confirmed[id].lease
    BY <2>1 DEF Awake
  <2> QED BY <2>1, <2>2, <2>3
<1> QED BY <1>1, OverlayInvariant, PTL

(* CaughtUp of Overlay: what a stream has sent in full is what the page    *)
(* has (_sse_overlay_stream, applyOverlay).                                *)
THEOREM PageCatchesUp == Spec => []CaughtUp
<1>1. OverlayInv => CaughtUp
  BY DEF OverlayInv, PageInv, Delivered, Seen, CaughtUp
<1> QED BY <1>1, OverlayInvariant, PTL

(* BrowserLease of Overlay: a page that polls draws no box beyond the      *)
(* server's lease of it, however long the request took (applyOverlay).     *)
THEOREM BrowserLeaseHolds == Spec => []BrowserLease
<1>1. OverlayInv => BrowserLease
  <2> SUFFICES ASSUME OverlayInv, link.mode = "poll", page.proc = proc,
                      NEW id \in DOMAIN page.boxes \cap DOMAIN view.tracks
               PROVE  page.boxes[id].deadline =< Max({now, view.tracks[id].lease})
    BY DEF BrowserLease
  <2>1. Typed /\ id \in DOMAIN stab.confirmed /\ view.tracks = stab.confirmed
    BY DEF OverlayInv, ServerInv, Shown
  <2>2. /\ now \in Nat /\ stab.confirmed[id].lease \in Nat /\ page.boxes[id].deadline \in Nat
    BY <2>1, StabTypes, PageTypes
  <2>3. page.boxes[id].deadline =< now \/ page.boxes[id].deadline =< stab.confirmed[id].lease
    BY <2>1 DEF OverlayInv, PageInv, Brief, PageBrief
  <2>4. Max({now, stab.confirmed[id].lease})
          = IF now >= stab.confirmed[id].lease THEN now ELSE stab.confirmed[id].lease
    BY <2>2, TwoMax
  <2> QED BY <2>1, <2>2, <2>3, <2>4
<1> QED BY <1>1, OverlayInvariant, PTL

(* NeverAhead of Overlay: the page never shows a newer box than the server *)
(* it shows has, across epochs and restarts (applyOverlay, project_overlay)*)
THEOREM PageNeverAhead == Spec => []NeverAhead
<1>1. OverlayInv => NeverAhead
  BY DEF OverlayInv, ServerInv, PageInv, PageBehind, Behind, Shown, NeverAhead
<1> QED BY <1>1, OverlayInvariant, PTL

================================================================================
