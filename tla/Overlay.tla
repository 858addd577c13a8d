-------------------------------- MODULE Overlay --------------------------------
(***************************************************************************)
(* What the browser is shown over the video: OverlayStateStore with its    *)
(* DisplayStabilizer and OverlayExpiryScheduler (runtime/), the threads    *)
(* that call them, and the page that draws (profiles/vision_web_app.py).   *)
(*                                                                         *)
(* A method of the store is one step: it holds the store's lock from its   *)
(* first line to its last.                                                 *)
(*                                                                         *)
(* Abstractions.                                                           *)
(*  - Boxes have no coordinates.  Which of them match which tracks, which  *)
(*    are too weak to start one, and which tracks are predicted to have    *)
(*    left the picture, is a choice among the outcomes the association can *)
(*    have (each box with at most one track, each track with at most one). *)
(*  - Time is an integer clock, the same for server and page: their clocks *)
(*    are only ever used for differences.  The scheduler's thread runs at  *)
(*    most Late units after it should.                                     *)
(*  - More than one detector may be at work and the source may change its  *)
(*    epoch: the store is written, and tested, for both.  The web          *)
(*    application has one detector and raises no discontinuity.            *)
(***************************************************************************)
EXTENDS Integers, Sequences, FiniteSetsExt

CONSTANTS
  Detectors,       \* threads that run _detect_loop
  MinHits, MaxMisses, CandidateLease, DisplayLease,   \* OverlayConfig
  OffFrame,        \* evictPredictedOffFrame
  IdlePoll,        \* idle_poll_ns of the scheduler
  MaxWait,         \* max_wait_ns of the scheduler
  Transports,      \* how a page may start: "sse", "poll" (an old browser), "none" (no page)
  Late,            \* how late the scheduler's thread may be
  MaxBoxes,        \* bound: boxes of a result
  MaxVersion,      \* bound: frames of an epoch
  MaxEpoch,        \* bound: epochs of the source
  MaxProcess,      \* bound: server processes
  PipeSize,        \* bound: events sent and not yet received
  MaxNow           \* bound: the clock

ASSUME OverlayAssumption ==
  /\ {MinHits, CandidateLease, DisplayLease, IdlePoll, MaxWait} \subseteq Nat \ {0}
  /\ CandidateLease =< DisplayLease
  /\ {MaxMisses, Late, MaxBoxes, MaxVersion, MaxEpoch, MaxProcess, PipeSize, MaxNow} \subseteq Nat
  /\ OffFrame \in BOOLEAN
  /\ Transports \subseteq {"sse", "poll", "none"}

VARIABLES
  now,    \* time
  proc,   \* processEpoch of the running server
  stab,   \* DisplayStabilizer
  store,  \* what OverlayStateStore keeps beside it
  view,   \* _snapshot: what snapshot() returns
  frame,  \* epoch and version of the newest frame
  call,   \* per detector: where it is in _detect_loop, and its frame and token
  sched,  \* OverlayExpiryScheduler.serve
  link,   \* between server and page: the event stream, or a poll
  page    \* the page's procEpoch, srcEpoch and boxes

vars == <<now, proc, stab, store, view, frame, call, sched, link, page>>

None == -1
NoRaw == None

--------------------------------------------------------------------------------
(* DisplayStabilizer.  Tracks are keyed by their displayId, the pair of    *)
(* the epoch and a counter, and candidates by a number that tells those    *)
(* there are apart: what becomes of one does not depend on their order.    *)

NewStab(epoch) ==
  [epoch |-> epoch, confirmed |-> <<>>, candidates |-> <<>>, counter |-> 0, revision |-> 0]

(* _predicted_offframe: only after its last match may a track have moved,  *)
(* or be found to have its centre, which no check keeps in, off the frame. *)
MayBeGone(s, t) ==
  {id \in DOMAIN s.confirmed : OffFrame /\ t > s.confirmed[id].lease - DisplayLease}

(* What a result may mean: which tracks it matches, which unmatched ones   *)
(* are found to have left, which candidates it matches, and which boxes    *)
(* become candidates.                                                      *)
Results(s, t) ==
  {r \in [matched : SUBSET DOMAIN s.confirmed, gone : SUBSET MayBeGone(s, t),
          kept : SUBSET DOMAIN s.candidates, fresh : SUBSET (1 .. MaxBoxes)] :
     /\ r.gone \cap r.matched = {} /\ r.kept \cap r.fresh = {}
     /\ Cardinality(r.matched) + Cardinality(r.kept) + Cardinality(r.fresh) =< MaxBoxes}

(* Steps 1 and 2 of on_accepted_result: tracks that match live on with a   *)
(* new lease, the others may miss MaxMisses times.                         *)
Rematched(s, r, t) ==
  LET stay == {id \in DOMAIN s.confirmed \ r.gone :
                 id \in r.matched \/ s.confirmed[id].miss < MaxMisses}
  IN [id \in stay |->
        IF id \in r.matched
          THEN [rev |-> s.confirmed[id].rev + 1, miss |-> 0, lease |-> t + DisplayLease]
          ELSE [s.confirmed[id] EXCEPT !.miss = @ + 1]]

(* Steps 3 to 5: candidates that do not match are gone, boxes that match   *)
(* nothing become candidates.                                              *)
Recandidated(s, r, t) ==
  [i \in r.kept \cup r.fresh |->
     [hits |-> IF i \in r.kept THEN s.candidates[i].hits + 1 ELSE 1,
      lease |-> t + CandidateLease]]

(* Step 6: candidates with enough hits are confirmed.                      *)
OnAcceptedResult(s, r, t) ==
  LET cands    == Recandidated(s, r, t)
      old      == Rematched(s, r, t)
      promoted == {i \in DOMAIN cands : cands[i].hits >= MinHits}
      new      == {<<s.epoch, s.counter + k>> : k \in 1 .. Cardinality(promoted)}
  IN [s EXCEPT
        !.confirmed = [id \in DOMAIN old \cup new |->
                         IF id \in new THEN [rev |-> 0, miss |-> 0, lease |-> t + DisplayLease]
                         ELSE old[id]],
        !.candidates = [i \in DOMAIN cands \ promoted |-> cands[i]],
        !.counter = @ + Cardinality(promoted),
        !.revision = @ + 1]

(* Mutant: what was predicted to have left does not count as a change.     *)
OnTickLeavesQuietly(s, gone, t) ==
  LET stay  == {id \in DOMAIN s.confirmed : s.confirmed[id].lease > t} \ gone
      cands == {i \in DOMAIN s.candidates : s.candidates[i].lease > t}
      same  == stay \cup gone = DOMAIN s.confirmed /\ cands = DOMAIN s.candidates
  IN [s EXCEPT !.confirmed = [id \in stay |-> s.confirmed[id]],
               !.candidates = [i \in cands |-> s.candidates[i]],
               !.revision = IF same THEN @ ELSE @ + 1]

(* on_tick: what has expired, or is found to have left, goes.              *)
OnTick(s, gone, t) ==
  LET stay  == {id \in DOMAIN s.confirmed : s.confirmed[id].lease > t} \ gone
      cands == {i \in DOMAIN s.candidates : s.candidates[i].lease > t}
      same  == stay = DOMAIN s.confirmed /\ cands = DOMAIN s.candidates
  IN [s EXCEPT !.confirmed = [id \in stay |-> s.confirmed[id]],
               !.candidates = [i \in cands |-> s.candidates[i]],
               !.revision = IF same THEN @ ELSE @ + 1]

OnDiscontinuity(s, epoch) ==
  [s EXCEPT !.epoch = epoch, !.confirmed = <<>>, !.candidates = <<>>,
            !.counter = 0, !.revision = @ + 1]

(* next_expiry_ns: the deadlines of tracks and candidates.                 *)
Deadlines(s) ==
  {s.confirmed[id].lease : id \in DOMAIN s.confirmed} \cup
  {s.candidates[i].lease : i \in DOMAIN s.candidates}

--------------------------------------------------------------------------------
(* OverlayStateStore                                                       *)

NewStore == [version |-> None, token |-> 0, health |-> "INITIALIZING", raw |-> NoRaw]

NewView(p) ==
  [proc |-> p, epoch |-> 1, rev |-> 0, health |-> "INITIALIZING", tracks |-> <<>>, raw |-> NoRaw]

(* _commit: one immutable snapshot takes the place of the other.           *)
Commit(s, st, tracks) ==
  view' = [view EXCEPT !.epoch = s.epoch, !.rev = @ + 1, !.health = st.health,
                       !.tracks = tracks, !.raw = st.raw]

(* Mutant: the token alone is trusted to tell the epochs apart.            *)
GateAnyEpoch(c) == c.token = store.token /\ c.ver > store.version

(* Mutant: the token alone is trusted to tell new from old.                *)
GateAnyVersion(c) == c.epoch = stab.epoch /\ c.token = store.token

(* _gate.  A call of another process never reaches this one.               *)
Gate(c) ==
  /\ c.epoch = stab.epoch
  /\ c.token = store.token
  /\ c.ver > store.version

ApplyCompletion(c) ==
  \/ /\ ~Gate(c)
     /\ UNCHANGED <<stab, store, view>>
  \/ /\ Gate(c)
     /\ store' = [store EXCEPT !.version = c.ver, !.raw = c.ver]
     /\ \E r \in Results(stab, now) : stab' = OnAcceptedResult(stab, r, now)
     /\ Commit(stab', store', stab'.confirmed)

ApplyTick ==
  /\ \E gone \in SUBSET MayBeGone(stab, now) : stab' = OnTick(stab, gone, now)
  /\ IF stab'.revision # stab.revision
       THEN Commit(stab', store, stab'.confirmed)
       ELSE UNCHANGED view
  /\ UNCHANGED store

ApplySourceDiscontinuity(epoch) ==
  /\ stab' = OnDiscontinuity(stab, epoch)
  /\ store' = [store EXCEPT !.version = None, !.token = @ + 1, !.raw = NoRaw]
  /\ Commit(stab', store', stab'.confirmed)

SetHealth(h) ==
  /\ store' = [store EXCEPT !.health = h]
  /\ IF h # store.health
       THEN Commit(stab, store', view.tracks)
       ELSE UNCHANGED view
  /\ UNCHANGED stab

--------------------------------------------------------------------------------
(* The page: applyOverlay and render.                                      *)

(* project_overlay: deadlines travel as what remains of them.              *)
Payload(v, t) ==
  [proc |-> v.proc, epoch |-> v.epoch,
   boxes |-> [id \in DOMAIN v.tracks |->
                [rev |-> v.tracks[id].rev, rem |-> Max({0, v.tracks[id].lease - t})]]]

(* Mutant: boxes of the process that is left stay.                         *)
AdoptKeepsBoxes(p, o) ==
  IF p.proc = None \/ (o.proc # p.proc /\ o.proc \notin p.retired)
    THEN [p EXCEPT !.proc = o.proc, !.retired = (@ \cup {p.proc}) \ {None}]
  ELSE p

(* A process not met before is adopted, one that was left behind is not.   *)
Adopt(p, o) ==
  IF p.proc = None THEN [p EXCEPT !.proc = o.proc]
  ELSE IF o.proc # p.proc /\ o.proc \notin p.retired
    THEN [proc |-> o.proc, retired |-> p.retired \cup {p.proc}, src |-> None, boxes |-> <<>>]
  ELSE p

(* Mutant: a payload that repeats a box renews its deadline.               *)
ApplyOverlayRenews(page0, o, rtt, t) ==
  LET p == Adopt(page0, o)
      Box(id) == [rev |-> o.boxes[id].rev, deadline |-> t + o.boxes[id].rem]
  IN IF o.proc # p.proc \/ o.epoch < p.src THEN p
     ELSE [p EXCEPT !.src = o.epoch, !.boxes = [id \in DOMAIN o.boxes |-> Box(id)]]

ApplyOverlay(page0, o, rtt, t) ==
  LET p    == Adopt(page0, o)
      kept == IF o.epoch > p.src THEN <<>> ELSE p.boxes
      Box(id) ==
        IF id \in DOMAIN kept /\ o.boxes[id].rev =< kept[id].rev THEN kept[id]
        ELSE [rev |-> o.boxes[id].rev, deadline |-> t + Max({0, o.boxes[id].rem - rtt})]
  IN IF o.proc # p.proc \/ o.epoch < p.src THEN p
     ELSE [p EXCEPT !.src = o.epoch, !.boxes = [id \in DOMAIN o.boxes |-> Box(id)]]

--------------------------------------------------------------------------------
Poll == [pc |-> "poll", epoch |-> 0, ver |-> 0, token |-> 0, ok |-> TRUE]

Init ==
  /\ now = 0 /\ proc = 1
  /\ stab = NewStab(1) /\ store = NewStore /\ view = NewView(1)
  /\ frame = [epoch |-> 1, ver |-> 0]
  /\ call = [d \in Detectors |-> Poll]
  /\ sched = [pc |-> "plan", wake |-> 0]
  /\ \E m \in Transports : link = [mode |-> m, last |-> None, pipe |-> <<>>, asked |-> None]
  /\ page = [proc |-> None, retired |-> {}, src |-> None, boxes |-> <<>>]

overlay == <<stab, store, view>>

(* _video_loop publishes a frame.  In a new epoch versions start again.    *)
NextFrame ==
  /\ \/ frame.epoch < stab.epoch /\ frame' = [epoch |-> stab.epoch, ver |-> 1]
     \/ frame.epoch = stab.epoch /\ frame.ver < MaxVersion
        /\ frame' = [frame EXCEPT !.ver = @ + 1]
  /\ UNCHANGED <<now, proc, overlay, call, sched, link, page>>

(* The source is lost and found: a new epoch, before its first frame.      *)
Discontinuity ==
  /\ stab.epoch < MaxEpoch /\ frame.epoch = stab.epoch
  /\ ApplySourceDiscontinuity(stab.epoch + 1)
  /\ UNCHANGED <<now, proc, frame, call, sched, link, page>>

(* _detect_loop takes a frame it has not seen, *)
TakeFrame(d) ==
  /\ call[d].pc = "poll" /\ frame.ver > 0
  /\ <<frame.epoch, frame.ver>> # <<call[d].epoch, call[d].ver>>
  /\ call' = [call EXCEPT ![d] = [@ EXCEPT !.pc = "taken", !.epoch = frame.epoch, !.ver = frame.ver]]
  /\ UNCHANGED <<now, proc, overlay, frame, sched, link, page>>

(* passes it by, if the motion gate or the cadence say so,                 *)
Skip(d) ==
  /\ call[d].pc = "taken"
  /\ call' = [call EXCEPT ![d] = [@ EXCEPT !.pc = "report", !.ok = TRUE]]
  /\ UNCHANGED <<now, proc, overlay, frame, sched, link, page>>

(* or starts an inference with a token of its own,                         *)
BeginInference(d) ==
  /\ call[d].pc = "taken"
  /\ store' = [store EXCEPT !.token = @ + 1]
  /\ call' = [call EXCEPT ![d] = [@ EXCEPT !.pc = "infer", !.token = store.token + 1]]
  /\ UNCHANGED <<now, proc, stab, view, frame, sched, link, page>>

(* and hands in what it found                                              *)
Complete(d) ==
  /\ call[d].pc = "infer"
  /\ ApplyCompletion(call[d])
  /\ call' = [call EXCEPT ![d] = [@ EXCEPT !.pc = "report", !.ok = TRUE]]
  /\ UNCHANGED <<now, proc, frame, sched, link, page>>

(* unless the detector raised.                                             *)
Fail(d) ==
  /\ call[d].pc = "infer"
  /\ call' = [call EXCEPT ![d] = [@ EXCEPT !.pc = "report", !.ok = FALSE]]
  /\ UNCHANGED <<now, proc, overlay, frame, sched, link, page>>

Report(d) ==
  /\ call[d].pc = "report"
  /\ SetHealth(IF call[d].ok THEN "LIVE" ELSE "ERROR")
  /\ call' = [call EXCEPT ![d].pc = "poll"]
  /\ UNCHANGED <<now, proc, frame, sched, link, page>>

(* Mutant: the cap is taken for the wait.                                  *)
WaitPlanCap ==
  IF Deadlines(stab) = {} THEN IdlePoll
  ELSE Max({Min(Deadlines(stab)) - now, MaxWait})

(* wait_plan_ns: until the next deadline, but not too long.                *)
WaitPlan ==
  IF Deadlines(stab) = {} THEN IdlePoll
  ELSE Max({0, Min({Min(Deadlines(stab)) - now, MaxWait})})

Plan ==
  /\ sched.pc = "plan"
  /\ sched' = [pc |-> "sleep", wake |-> now + WaitPlan]
  /\ UNCHANGED <<now, proc, overlay, frame, call, link, page>>

Tick ==
  /\ sched.pc = "sleep" /\ now >= sched.wake
  /\ ApplyTick
  /\ sched' = [sched EXCEPT !.pc = "plan"]
  /\ UNCHANGED <<now, proc, frame, call, link, page>>

(* _sse_overlay_stream sends the snapshot if its revision is another one.  *)
Push ==
  /\ link.mode = "sse" /\ link.last # view.rev /\ Len(link.pipe) < PipeSize
  /\ link' = [link EXCEPT !.last = view.rev, !.pipe = Append(@, Payload(view, now))]
  /\ UNCHANGED <<now, proc, overlay, frame, call, sched, page>>

OnEvent ==
  /\ link.mode = "sse" /\ link.pipe # <<>>
  /\ page' = ApplyOverlay(page, Head(link.pipe), 0, now)
  /\ link' = [link EXCEPT !.pipe = Tail(@)]
  /\ UNCHANGED <<now, proc, overlay, frame, call, sched>>

(* onerror: the browser connects again, or the page goes over to polling.  *)
LoseStream ==
  /\ link.mode = "sse"
  /\ \E m \in {"sse", "degraded"} :
       link' = [mode |-> m, last |-> None, pipe |-> <<>>, asked |-> None]
  /\ UNCHANGED <<now, proc, overlay, frame, call, sched, page>>

(* poll(): one request at a time.                                          *)
Ask ==
  /\ link.mode \in {"poll", "degraded"} /\ link.asked = None
  /\ link' = [link EXCEPT !.asked = now]
  /\ UNCHANGED <<now, proc, overlay, frame, call, sched, page>>

Answer ==
  /\ link.asked # None /\ link.pipe = <<>>
  /\ link' = [link EXCEPT !.pipe = <<Payload(view, now)>>]
  /\ UNCHANGED <<now, proc, overlay, frame, call, sched, page>>

OnAnswer ==
  /\ link.asked # None /\ link.pipe # <<>>
  /\ page' = ApplyOverlay(page, Head(link.pipe), now - link.asked, now)
  /\ link' = [link EXCEPT !.asked = None, !.pipe = <<>>]
  /\ UNCHANGED <<now, proc, overlay, frame, call, sched>>

AskFails ==
  /\ link.asked # None
  /\ link' = [link EXCEPT !.asked = None, !.pipe = <<>>]
  /\ UNCHANGED <<now, proc, overlay, frame, call, sched, page>>

(* render(): a box whose deadline has come is not drawn again.             *)
Render ==
  /\ \E id \in DOMAIN page.boxes : page.boxes[id].deadline =< now
  /\ page' = [page EXCEPT !.boxes =
                [id \in {i \in DOMAIN page.boxes : page.boxes[i].deadline > now} |-> page.boxes[id]]]
  /\ UNCHANGED <<now, proc, overlay, frame, call, sched, link>>

(* The server dies and is started again; the page stays open, and what it  *)
(* has been sent may still reach it.                                       *)
Restart ==
  /\ proc < MaxProcess
  /\ proc' = proc + 1
  /\ stab' = NewStab(1) /\ store' = NewStore /\ view' = NewView(proc')
  /\ frame' = [epoch |-> 1, ver |-> 0]
  /\ call' = [d \in Detectors |-> Poll]
  /\ sched' = [pc |-> "plan", wake |-> now]
  /\ link' = [link EXCEPT !.last = None]
  /\ UNCHANGED <<now, page>>

Advance ==
  /\ now < MaxNow /\ sched.pc = "sleep" /\ now < sched.wake + Late
  /\ now' = now + 1
  /\ UNCHANGED <<proc, overlay, frame, call, sched, link, page>>

DetectorStep(d) ==
  TakeFrame(d) \/ Skip(d) \/ BeginInference(d) \/ Complete(d) \/ Fail(d) \/ Report(d)

Next ==
  \/ NextFrame \/ Discontinuity \/ Plan \/ Tick
  \/ \E d \in Detectors : DetectorStep(d)
  \/ Push \/ OnEvent \/ LoseStream \/ Ask \/ Answer \/ OnAnswer \/ AskFails
  \/ Render \/ Restart \/ Advance

Spec == Init /\ [][Next]_vars

--------------------------------------------------------------------------------
(* Properties                                                              *)

Ids == (1 .. MaxEpoch) \X (1 .. MaxBoxes * MaxVersion)

(* The types of the store, its snapshot and the page.                      *)
TypeOK ==
  /\ now \in 0 .. MaxNow /\ proc \in Nat
  /\ stab.epoch \in 1 .. MaxEpoch /\ DOMAIN stab.confirmed \subseteq Ids
  /\ \A id \in DOMAIN stab.confirmed :
       stab.confirmed[id] \in [rev : Nat, miss : 0 .. MaxMisses, lease : 0 .. MaxNow + DisplayLease]
  /\ DOMAIN stab.candidates \subseteq 1 .. MaxBoxes
  /\ \A i \in DOMAIN stab.candidates : stab.candidates[i].hits \in 1 .. MinHits - 1
  /\ store.health \in {"INITIALIZING", "LIVE", "ERROR"}
  /\ view.proc = proc /\ view.rev \in Nat
  /\ frame.epoch \in 1 .. MaxEpoch /\ frame.ver \in 0 .. MaxVersion
  /\ sched.pc \in {"plan", "sleep"}
  /\ page.proc \in {None} \cup 1 .. MaxProcess /\ page.src \in {None} \cup 1 .. MaxEpoch

(* A result that is shown is of a frame of the epoch it is shown under:    *)
(* _gate lets nothing through that was detected in an earlier one, whoever *)
(* dispatched it and whenever it comes back.                               *)
ResultOfEpoch ==
  view.raw # NoRaw => frame.epoch = view.epoch /\ view.raw =< frame.ver

(* ... and two detectors never turn the result back: within an epoch the   *)
(* frame of the snapshot only gets newer, and each frame counts once.      *)
NewestResult ==
  [][/\ ResultOfEpoch'
     /\ view'.raw # view.raw /\ view'.raw # NoRaw /\ view.raw # NoRaw
          => view'.raw > view.raw]_vars

(* The scheduler sleeps without the lock while deadlines come and go, and  *)
(* still no track outlives its lease by more than its thread was late, if  *)
(* IdlePoll is no longer than a lease (the code does not compare them).    *)
LeaseKept == \A id \in DOMAIN view.tracks : now =< view.tracks[id].lease + Late

(* A stream that has sent the current revision, and whose events have all  *)
(* arrived, has brought the page exactly what the stabilizer holds: no     *)
(* change of it goes without a new revision.                               *)
CaughtUp ==
  link.mode = "sse" /\ link.last = view.rev /\ link.pipe = <<>> =>
    /\ page.proc = proc /\ page.src = stab.epoch
    /\ DOMAIN page.boxes \subseteq DOMAIN stab.confirmed
    /\ \A id \in DOMAIN stab.confirmed :
         IF id \in DOMAIN page.boxes THEN page.boxes[id].rev = stab.confirmed[id].rev
         ELSE stab.confirmed[id].lease =< now

(* A page that polls draws no box for longer than the server's lease of it *)
(* lasts, however long the request took.                                   *)
BrowserLease ==
  link.mode = "poll" /\ page.proc = proc =>
    \A id \in DOMAIN page.boxes \cap DOMAIN view.tracks :
      page.boxes[id].deadline =< Max({now, view.tracks[id].lease})

(* The page is never ahead of the server it shows, whichever process and   *)
(* epoch gave a box its name: it would take no update of the box from then.*)
NeverAhead ==
  page.proc = proc =>
    \A id \in DOMAIN page.boxes \cap DOMAIN view.tracks :
      page.boxes[id].rev =< view.tracks[id].rev
================================================================================
