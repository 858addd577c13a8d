---------------------------- MODULE WebStreams ----------------------------
(***************************************************************************)
(* The long connections of the web application and the threads they hold:   *)
(* the bulkhead (StreamAdmission), the routes /stream and /events, the page *)
(* that opens, loses, retries and abandons them, its fallback to polling,   *)
(* and the throttled account of the refusals.                              *)
(*                                                                         *)
(* A synchronous WSGI server gives one thread to every connection.  A       *)
(* generator that streams ends only when a write to its client fails, so a  *)
(* client that left is noticed at the next chunk: until then the response   *)
(* is one of the `ghosts'.  A request whose client left while it waited for *)
(* a thread is `abandoned' and served all the same.                        *)
(*                                                                         *)
(* Bounds: Disturbances counts the arrivals, departures, reloads and losses *)
(* of connections; the counters of refusals are kept modulo Wrap, which     *)
(* every operation on them commutes with.                                  *)
(***************************************************************************)
EXTENDS Integers, FiniteSets

CONSTANTS Viewers,         \* the browser windows
          Plain,           \* those whose browser has no EventSource
          Threads,         \* --threads
          Reserve,         \* --stream-reserve-threads
          MaxStreamConns,  \* --max-stream-conns, or NotGiven
          HasCamera,       \* whether the video loop ever encodes a frame
          Disturbances, Wrap

NotGiven == 0

ASSUME PoolAssumption ==
    /\ Threads \in Nat \ {0}
    /\ Reserve \in Nat
    /\ MaxStreamConns \in Nat
    /\ Plain \subseteq Viewers
    /\ IsFiniteSet(Viewers)
    /\ Disturbances \in Nat
    /\ Wrap \in Nat \ {0}

VARIABLES view,       \* view[v]: the page in window v
          active,     \* StreamAdmission._active
          ghosts,     \* responses that stream to a client that is gone
          abandoned,  \* requests of clients that left before they were served
          jpeg,       \* _jpeg is not None
          log,        \* _stream_refused_total and _busy_log; the refusals that the
                      \* threads which counted them still owe to the log
          moves
vars == <<view, active, ghosts, abandoned, jpeg, log, moves>>

Kinds == {"stream", "events"}

Away == [here |-> FALSE, img |-> "none", es |-> "none", timers |-> 0,
         fails |-> 0, hurt |-> FALSE, polls |-> 0]

Pages == [here : BOOLEAN, img : {"none", "asking", "playing", "failed"},
          es : {"none", "asking", "open", "closed"}, timers : Nat,
          fails : Nat, hurt : BOOLEAN, polls : Nat]

TypeOK ==
    /\ view \in [Viewers -> Pages]
    /\ active \in Nat
    /\ ghosts \in [Kinds -> Nat]
    /\ abandoned \in [Kinds -> Nat]
    /\ jpeg \in BOOLEAN
    /\ log \in [refused : Nat, owed : Nat, told : Nat, suppressed : Nat, inside : BOOLEAN]
    /\ moves \in 0..Disturbances

Init ==
    /\ view = [v \in Viewers |-> Away]
    /\ active = 0
    /\ ghosts = [k \in Kinds |-> 0]
    /\ abandoned = [k \in Kinds |-> 0]
    /\ jpeg = FALSE
    /\ log = [refused |-> 0, owed |-> 0, told |-> 0, suppressed |-> 0, inside |-> FALSE]
    /\ moves = 0

-----------------------------------------------------------------------------
(* The bulkhead and the threads.                                            *)

\* Mutant: no thread is left for the short requests.
CapacityWithoutReserve(threads, reserve) == threads

CapacityFromThreads(threads, reserve) == IF threads > reserve THEN threads - reserve ELSE 1

MaxStreams == IF MaxStreamConns # NotGiven THEN MaxStreamConns
              ELSE CapacityFromThreads(Threads, Reserve)

\* Mutant: the bound is passed by one.
AdmitsOneMore == active <= MaxStreams

TryAcquire == active < MaxStreams

\* Mutant: the place is not given back.
Kept == active

Release == IF active > 0 THEN active - 1 ELSE active

Playing   == {v \in Viewers : view[v].img = "playing"}
Listening == {v \in Viewers : view[v].es = "open"}
Running   == Cardinality(Playing) + Cardinality(Listening) + ghosts["stream"] + ghosts["events"]

FreeThread == Running + log.owed < Threads

-----------------------------------------------------------------------------
(* The refusal: counted for /metrics, then told to the log by the same      *)
(* thread, at most once in a window, with the number of those passed over. *)

\* Mutant: the number passed over is told but not started again.
TickAgain(l) == IF l.inside THEN [l EXCEPT !.suppressed = (@ + 1) % Wrap]
                ELSE [l EXCEPT !.told = (@ + 1 + l.suppressed) % Wrap, !.inside = TRUE]

Tick(l) == IF l.inside THEN [l EXCEPT !.suppressed = (@ + 1) % Wrap]
           ELSE [l EXCEPT !.told = (@ + 1 + l.suppressed) % Wrap, !.inside = TRUE,
                          !.suppressed = 0]

\* A refusal is counted under the lock; the same thread logs it later, and its
\* answer (which nothing else sees) is taken with the count.
Refuse == log' = [log EXCEPT !.refused = (@ + 1) % Wrap, !.owed = @ + 1]

LogRefusal ==
    /\ log.owed > 0
    /\ log' = Tick([log EXCEPT !.owed = @ - 1])
    /\ UNCHANGED <<view, active, ghosts, abandoned, jpeg, moves>>

WindowEnds ==
    /\ log.inside
    /\ log' = [log EXCEPT !.inside = FALSE]
    /\ UNCHANGED <<view, active, ghosts, abandoned, jpeg, moves>>

\* What /metrics and /stats show of the bulkhead.
MetricsSamples == [refused |-> log.refused, active |-> active, max |-> MaxStreams]

-----------------------------------------------------------------------------
(* The page.                                                                *)

\* Mutant: the event source is left open when polling begins.
PollsToo(p) == [p EXCEPT !.polls = @ + 1]

\* degradeToPoll: close the event source and poll from now on.
DegradeToPoll(p) == [p EXCEPT !.es = "closed", !.polls = @ + 1]

\* Mutant: only the third error in a row counts, whatever the state of the source.
OnErrorPatient(p, closed) ==
    LET q == [p EXCEPT !.hurt = TRUE, !.fails = @ + 1, !.es = IF closed THEN "closed" ELSE "asking"]
    IN  IF q.fails >= 3 THEN DegradeToPoll(q) ELSE q

\* es.onerror: the source reconnects by itself, unless the answer was an HTTP
\* error (readyState CLOSED); then, or at the third error in a row, poll.
OnError(p, closed) ==
    LET q == [p EXCEPT !.hurt = TRUE, !.fails = @ + 1, !.es = IF closed THEN "closed" ELSE "asking"]
    IN  IF closed \/ q.fails >= 3 THEN DegradeToPoll(q) ELSE q

OnOpen(p) == [p EXCEPT !.es = "open", !.hurt = FALSE, !.fails = 0]

\* Mutant: the image is not asked for again.
ImgErrorGivesUp(p) == [p EXCEPT !.img = "failed"]

\* The error event of the image: ask again after a while.
ImgError(p) == [p EXCEPT !.img = "failed", !.timers = @ + 1]

\* What becomes of a connection or request of kind k the page lets go.
LetGo(gone, queued) ==
    /\ ghosts' = [k \in Kinds |-> ghosts[k] + IF k \in gone THEN 1 ELSE 0]
    /\ abandoned' = [k \in Kinds |-> abandoned[k] + IF k \in queued THEN 1 ELSE 0]

\* reloadStream(): the image's old connection is dropped, a new one is asked for.
ReloadStream(v, p) ==
    /\ view' = [view EXCEPT ![v] = [p EXCEPT !.img = "asking"]]
    /\ LetGo(IF p.img = "playing" THEN {"stream"} ELSE {},
             IF p.img = "asking" THEN {"stream"} ELSE {})

Disturb == moves < Disturbances /\ moves' = moves + 1

-----------------------------------------------------------------------------
(* Requests.                                                                *)

Arrive(v) ==
    /\ ~view[v].here
    /\ FreeThread
    /\ Disturb
    /\ view' = [view EXCEPT ![v] = [Away EXCEPT !.here = TRUE, !.img = "asking",
                                        !.es = IF v \in Plain THEN "none" ELSE "asking",
                                        !.polls = IF v \in Plain THEN 1 ELSE 0]]
    /\ UNCHANGED <<active, ghosts, abandoned, jpeg, log>>

ServeStream(v) ==
    /\ view[v].img = "asking"
    /\ FreeThread
    /\ \/ /\ TryAcquire
          /\ active' = active + 1
          /\ view' = [view EXCEPT ![v].img = "playing"]
          /\ UNCHANGED log
       \/ /\ ~TryAcquire
          /\ Refuse
          /\ view' = [view EXCEPT ![v] = ImgError(@)]
          /\ UNCHANGED active
    /\ UNCHANGED <<ghosts, abandoned, jpeg, moves>>

ServeEvents(v) ==
    /\ view[v].es = "asking"
    /\ FreeThread
    /\ \/ /\ TryAcquire
          /\ active' = active + 1
          /\ view' = [view EXCEPT ![v] = OnOpen(@)]
          /\ UNCHANGED log
       \/ /\ ~TryAcquire
          /\ Refuse
          /\ view' = [view EXCEPT ![v] = OnError(@, TRUE)]
          /\ UNCHANGED active
    /\ UNCHANGED <<ghosts, abandoned, jpeg, moves>>

ServeAbandoned(k) ==
    /\ abandoned[k] > 0
    /\ FreeThread
    /\ abandoned' = [abandoned EXCEPT ![k] = @ - 1]
    /\ \/ /\ TryAcquire
          /\ active' = active + 1
          /\ ghosts' = [ghosts EXCEPT ![k] = @ + 1]
          /\ UNCHANGED log
       \/ /\ ~TryAcquire
          /\ Refuse
          /\ UNCHANGED <<active, ghosts>>
    /\ UNCHANGED <<view, jpeg, moves>>

\* A chunk that cannot be written ends the generator and its place is given
\* back.  /events writes at least a heartbeat; /stream writes nothing before
\* there is a frame.
Notice(k) ==
    /\ ghosts[k] > 0
    /\ k = "stream" => jpeg
    /\ ghosts' = [ghosts EXCEPT ![k] = @ - 1]
    /\ active' = Release
    /\ UNCHANGED <<view, abandoned, jpeg, log, moves>>

\* A poll that succeeds after an error also reloads the image.
Poll(v) ==
    /\ view[v].polls > 0
    /\ FreeThread
    /\ view[v].hurt
    /\ ReloadStream(v, [view[v] EXCEPT !.hurt = FALSE])
    /\ UNCHANGED <<active, jpeg, log, moves>>

RetryImage(v) ==
    /\ view[v].timers > 0
    /\ ReloadStream(v, [view[v] EXCEPT !.timers = @ - 1])
    /\ UNCHANGED <<active, jpeg, log, moves>>

Frame ==
    /\ HasCamera
    /\ ~jpeg
    /\ jpeg' = TRUE
    /\ UNCHANGED <<view, active, ghosts, abandoned, log, moves>>

-----------------------------------------------------------------------------
(* Disturbances: the tab comes to the front, the network drops a            *)
(* connection, the viewer leaves.                                          *)

TabVisible(v) ==
    /\ view[v].here
    /\ Disturb
    /\ ReloadStream(v, view[v])
    /\ UNCHANGED <<active, jpeg, log>>

LoseStream(v) ==
    /\ view[v].img \in {"asking", "playing"}
    /\ Disturb
    /\ view' = [view EXCEPT ![v] = ImgError(@)]
    /\ LetGo(IF view[v].img = "playing" THEN {"stream"} ELSE {}, {})
    /\ UNCHANGED <<active, jpeg, log>>

LoseEvents(v) ==
    /\ view[v].es \in {"asking", "open"}
    /\ Disturb
    /\ view' = [view EXCEPT ![v] = OnError(@, FALSE)]
    /\ LetGo(IF view[v].es = "open" THEN {"events"} ELSE {}, {})
    /\ UNCHANGED <<active, jpeg, log>>

PollFails(v) ==
    /\ view[v].polls > 0
    /\ Disturb
    /\ view' = [view EXCEPT ![v].hurt = TRUE]
    /\ UNCHANGED <<active, ghosts, abandoned, jpeg, log>>

Leave(v) ==
    /\ view[v].here
    /\ Disturb
    /\ view' = [view EXCEPT ![v] = Away]
    /\ LetGo((IF view[v].img = "playing" THEN {"stream"} ELSE {})
               \cup (IF view[v].es = "open" THEN {"events"} ELSE {}),
             (IF view[v].img = "asking" THEN {"stream"} ELSE {})
               \cup (IF view[v].es = "asking" THEN {"events"} ELSE {}))
    /\ UNCHANGED <<active, jpeg, log>>

Serve == \/ \E v \in Viewers : ServeStream(v) \/ ServeEvents(v) \/ Poll(v) \/ RetryImage(v)
         \/ \E k \in Kinds : ServeAbandoned(k) \/ Notice(k)
         \/ Frame \/ LogRefusal \/ WindowEnds

Next == \/ Serve
        \/ \E v \in Viewers : \/ Arrive(v) \/ TabVisible(v) \/ LoseStream(v)
                              \/ LoseEvents(v) \/ PollFails(v) \/ Leave(v)

Spec == Init /\ [][Next]_vars

\* The server's threads take the requests that wait, the browser's timers fire,
\* a generator goes on to its next chunk, a camera that works gives a frame.
FairSpec ==
    /\ Spec
    /\ \A v \in Viewers : /\ WF_vars(ServeStream(v)) /\ WF_vars(ServeEvents(v))
                          /\ WF_vars(Poll(v)) /\ WF_vars(RetryImage(v))
    /\ \A k \in Kinds : WF_vars(ServeAbandoned(k)) /\ WF_vars(Notice(k))
    /\ WF_vars(Frame) /\ WF_vars(LogRefusal)

-----------------------------------------------------------------------------
(* Properties.                                                              *)

\* The bulkhead counts the responses that stream, no more and no fewer, and
\* they are at most MaxStreams.
PlacesCounted ==
    /\ MetricsSamples.active = Running
    /\ MetricsSamples.active <= MetricsSamples.max

\* With a reserve, the streams never hold every thread.
ThreadLeft == (MaxStreamConns = NotGiven /\ 0 < Reserve /\ Reserve < Threads) => Running < Threads

\* No refusal is forgotten by the throttle: each one was told, on its own line or
\* in the number of a later one, or waits to be told, or is owed by a thread.
RefusalsTold == MetricsSamples.refused = (log.told + log.suppressed + log.owed) % Wrap

\* The bulkhead is sound: however viewers leave, reload, lose or are refused their
\* connections, no place is lost or given back twice, a short request (/stats,
\* /overlay, the page itself) always finds a thread (the promise of
\* stream_admission.py), and every refusal is accounted for.
BulkheadSound == PlacesCounted /\ ThreadLeft /\ RefusalsTold

\* A page that stays open comes to be fed by events or by one chain of polls,
\* even when the bulkhead refuses /events and the browser never asks again, and
\* is not for ever fed by both or by two chains: degradeToPoll happens once.
Feeds(v) == view[v].polls + (IF view[v].es \in {"asking", "open"} THEN 1 ELSE 0)
FeedComesBack == \A v \in Viewers :
    []<>(view[v].here => Feeds(v) = 1 /\ view[v].es # "asking")

\* A page left alone in the end shows the video for good, whatever was refused,
\* lost or reloaded before: places its rivals and its own old connections held
\* come free and the image is asked for until it is served.
Alone(v) == view[v].here /\ \A w \in Viewers \ {v} : ~view[w].here
VideoComesBack == \A v \in Viewers : <>[]Alone(v) => <>[](view[v].img = "playing")

\* When nobody watches any more every place comes back (the operator's check for
\* a leak: `streams' in /stats returns to 0).
PlacesReturn == (\A v \in Viewers : ~view[v].here) ~>
                    (MetricsSamples.active = 0 \/ \E v \in Viewers : view[v].here)
=============================================================================
