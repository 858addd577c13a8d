------------------------------- MODULE ZmqClient -------------------------------
(***************************************************************************)
(* The inference path of a camera process: camera_worker                   *)
(* (profiles/vision_fullstack_profile.py), ZmqInferenceClient with its     *)
(* BoundedQueue and io thread (adapters/zmq_inference_client.py), and the  *)
(* InferenceServer at the other end of a ZMQ connection.                   *)
(*                                                                         *)
(* The camera thread submits a request per frame to a bounded queue and    *)
(* polls for responses; the io thread alone touches the socket: it sends   *)
(* while fewer than Window requests are in flight, receives, and turns     *)
(* requests without an answer into Timeout responses.  Other threads may   *)
(* make synchronous infer() calls through the same io thread.              *)
(*                                                                         *)
(* Abstractions.                                                           *)
(*  - A request is named after its frame, or after the thread that called  *)
(*    infer(); a request_id is never used twice.                           *)
(*  - Whether an answer is a success or an error is not told apart; the    *)
(*    responses of a request are counted.                                  *)
(*  - An answer, or a scan of the deadlines, is one step of the io thread: *)
(*    the response is put before in_flight goes down, so the camera thread *)
(*    never sees a request that is answered in neither.                    *)
(*  - Time passes when Elapse says so: a request in flight becomes overdue *)
(*    at any moment, and the deadlines of the camera are choices.          *)
(*  - The connection delivers in order; a dying server takes with it the   *)
(*    requests that had reached it.  The socket buffers SndHwm requests    *)
(*    while nobody takes them, and send() blocks when they are that many.  *)
(*  - The join of teardown() outlasts every step of the io thread but a    *)
(*    blocked send().  The socket, which is not thread-safe, is closed     *)
(*    under that one at once, and every outcome of it is possible.         *)
(***************************************************************************)
EXTENDS Integers, Sequences, FiniteSets

CONSTANTS
  Window,      \* window_size
  QueueMax,    \* queue_maxsize
  Policies,    \* the policies a queue may be configured with
  SndHwm,      \* sndhwm
  Callers,     \* threads that call infer(), once each
  BadReplies,  \* the kinds of undecodable messages that may arrive
  MaxFrames,   \* bound: frames captured
  MaxCrashes   \* bound: crashes of the server

ASSUME ClientAssumption ==
  /\ {Window, QueueMax, SndHwm} \subseteq Nat \ {0}
  /\ Policies \subseteq {"DROP_OLDEST", "DROP_NEWEST", "REJECT", "BLOCK"}
  /\ BadReplies \subseteq {"garbage", "skewed"}
  /\ {MaxFrames, MaxCrashes} \subseteq Nat
  /\ Callers \cap Nat = {}

Frames   == 1 .. MaxFrames
Requests == Frames \cup Callers

VARIABLES
  cam,        \* camera_worker: what it does next, did write() raise, was the drain cut
  captured,   \* camera_worker: frames_captured
  fullRing,   \* camera_worker: frames_dropped_shm
  queue,      \* _async_outbound
  dropped,    \* its drops and rejects
  io,         \* the io thread: what it does next, and the request in its hands
  running,    \* _running
  inFlight,   \* _in_flight
  pending,    \* keys of _pending_async
  overdue,    \* those of them sent longer than timeout_s ago
  sent,       \* _sent
  answers,    \* responses put into _responses, per frame
  polled,     \* responses the camera has taken out, per frame
  outbound,   \* _outbound
  waiting,    \* keys of _pending
  slot,       \* has the caller's slot been filled?
  caller,     \* what the caller of infer() does next
  pipe,       \* requests on their way to the server
  server,     \* InferenceServer: is it up, and the request in its hands
  replies,    \* messages on their way to the client
  crashes,    \* crashes of the server so far
  policy      \* BackpressurePolicy of the queue, given to the constructor

camera    == <<cam, captured, fullRing>>
inbound   == <<answers, polled>>
async     == <<inFlight, pending, overdue, sent>>
sync      == <<outbound, waiting, slot, caller>>
transport == <<pipe, replies>>
service   == <<server, crashes, policy>>
vars == <<camera, queue, dropped, io, running, async, inbound, sync, transport, service>>

Nothing == 0

Init ==
  /\ cam = [pc |-> "loop", failed |-> FALSE, cut |-> FALSE]
  /\ captured = 0 /\ fullRing = 0
  /\ queue = <<>> /\ dropped = 0
  /\ io = [pc |-> "top", req |-> Nothing]
  /\ running = TRUE
  /\ inFlight = 0 /\ pending = {} /\ overdue = {} /\ sent = 0
  /\ answers = [f \in Frames |-> 0] /\ polled = [f \in Frames |-> 0]
  /\ outbound = <<>> /\ waiting = {}
  /\ slot = [c \in Callers |-> FALSE] /\ caller = [c \in Callers |-> "idle"]
  /\ pipe = <<>> /\ replies = <<>>
  /\ server = [up |-> TRUE, req |-> Nothing]
  /\ crashes = 0
  /\ policy \in Policies

--------------------------------------------------------------------------------
(* camera_worker                                                           *)

CamGoto(from, to) == cam.pc = from /\ cam' = [cam EXCEPT !.pc = to]

(* _consume: everything poll_responses() returns.                          *)
Poll == polled' = answers

CamCapture ==
  /\ captured < MaxFrames
  /\ CamGoto("loop", "write")
  /\ captured' = captured + 1
  /\ UNCHANGED <<fullRing, queue, dropped, io, running, async, inbound, sync, transport, service>>

CamWritten ==
  /\ CamGoto("write", "submit")
  /\ UNCHANGED <<captured, fullRing, queue, dropped, io, running, async, inbound, sync,
                 transport, service>>

(* write() returned None.                                                  *)
CamRingFull ==
  /\ CamGoto("write", "consume")
  /\ fullRing' = fullRing + 1
  /\ UNCHANGED <<captured, queue, dropped, io, running, async, inbound, sync, transport, service>>

(* write() raised (SingleWriterViolation): on to the finally clause.       *)
CamRefused ==
  /\ cam.pc = "write"
  /\ cam' = [cam EXCEPT !.pc = "teardown", !.failed = TRUE]
  /\ UNCHANGED <<captured, fullRing, queue, dropped, io, running, async, inbound, sync,
                 transport, service>>

Full == Len(queue) >= QueueMax

(* Mutant: an evicted request is not counted.                              *)
PutUncounted(f) ==
  /\ queue' = Append(IF Full THEN Tail(queue) ELSE queue, f)
  /\ UNCHANGED dropped

(* BoundedQueue.put by policy.                                             *)
Put(f) ==
  \/ /\ ~Full
     /\ queue' = Append(queue, f)
     /\ UNCHANGED dropped
  \/ /\ Full /\ policy = "DROP_OLDEST"
     /\ queue' = Append(Tail(queue), f)
     /\ dropped' = dropped + 1
  \/ /\ Full /\ policy \in {"DROP_NEWEST", "REJECT"}
     /\ dropped' = dropped + 1
     /\ UNCHANGED queue

CamSubmit ==
  /\ CamGoto("submit", "consume")
  /\ Put(captured)
  /\ UNCHANGED <<captured, fullRing, io, running, async, inbound, sync, transport, service>>

(* BLOCK gives up after timeout_s; submit()'s answer is not looked at.     *)
CamSubmitTimeout ==
  /\ Full /\ policy = "BLOCK"
  /\ CamGoto("submit", "consume")
  /\ UNCHANGED <<captured, fullRing, queue, dropped, io, running, async, inbound, sync,
                 transport, service>>

CamConsume ==
  /\ CamGoto("consume", "loop")
  /\ Poll
  /\ UNCHANGED <<captured, fullRing, queue, dropped, io, running, async, answers, sync,
                 transport, service>>

(* shutdown_event, or the end of the source.                               *)
CamStop ==
  /\ CamGoto("loop", "drainQueue")
  /\ UNCHANGED <<captured, fullRing, queue, dropped, io, running, async, inbound, sync,
                 transport, service>>

(* The drain loop looks at outbound_size, and if that is 0 at in_flight.   *)
CamDrainQueue ==
  /\ cam.pc = "drainQueue"
  /\ cam' = [cam EXCEPT !.pc = IF queue # <<>> THEN "drainWait" ELSE "drainFlight"]
  /\ UNCHANGED <<captured, fullRing, queue, dropped, io, running, async, inbound, sync,
                 transport, service>>

CamDrainFlight ==
  /\ cam.pc = "drainFlight"
  /\ cam' = [cam EXCEPT !.pc = IF inFlight > 0 THEN "drainWait" ELSE "collect"]
  /\ UNCHANGED <<captured, fullRing, queue, dropped, io, running, async, inbound, sync,
                 transport, service>>

CamDrainWait ==
  /\ CamGoto("drainWait", "drainQueue")
  /\ Poll
  /\ UNCHANGED <<captured, fullRing, queue, dropped, io, running, async, answers, sync,
                 transport, service>>

(* Mutant: the drain has no deadline.                                      *)
CamDrainCutNever == FALSE /\ UNCHANGED vars

(* drain_deadline has passed.                                              *)
CamDrainCut ==
  /\ cam.pc = "drainWait"
  /\ cam' = [cam EXCEPT !.pc = "collect", !.cut = TRUE]
  /\ UNCHANGED <<captured, fullRing, queue, dropped, io, running, async, inbound, sync,
                 transport, service>>

CamCollect ==
  /\ CamGoto("collect", "teardown")
  /\ Poll
  /\ UNCHANGED <<captured, fullRing, queue, dropped, io, running, async, answers, sync,
                 transport, service>>

CamTeardown ==
  /\ CamGoto("teardown", "join")
  /\ running' = FALSE
  /\ UNCHANGED <<captured, fullRing, queue, dropped, io, async, inbound, sync, transport, service>>

CamJoin ==
  /\ io.pc = "stopped"
  /\ CamGoto("join", "final")
  /\ UNCHANGED <<captured, fullRing, queue, dropped, io, running, async, inbound, sync,
                 transport, service>>

SendBlocked == io.pc \in {"send", "syncSend"} /\ Len(pipe) >= SndHwm

(* The join times out and the camera thread closes the socket under the    *)
(* io thread.  What comes of it is undefined: close() and term() return,   *)
(* or never do, or abort the process; send() raises, which ends the io     *)
(* thread, or stays where it is.                                           *)
CamJoinTimeout ==
  /\ SendBlocked
  /\ \E outcome \in {"final", "hung", "aborted"} : CamGoto("join", outcome)
  /\ \E left \in {"stopped", "stuck"} : io' = [pc |-> left, req |-> Nothing]
  /\ UNCHANGED <<captured, fullRing, queue, dropped, running, async, inbound, sync,
                 transport, service>>

(* Mutant: the last responses are left.                                    *)
CamFinalUnpolled ==
  /\ CamGoto("final", "done")
  /\ UNCHANGED <<captured, fullRing, queue, dropped, io, running, async, inbound, sync,
                 transport, service>>

(* The last responses are taken, then the counters are written out.        *)
CamFinal ==
  /\ CamGoto("final", "done")
  /\ Poll
  /\ UNCHANGED <<captured, fullRing, queue, dropped, io, running, async, answers, sync,
                 transport, service>>

CamShutdown ==
  \/ CamDrainQueue \/ CamDrainFlight \/ CamDrainWait \/ CamDrainCut
  \/ CamCollect \/ CamTeardown \/ CamJoin \/ CamJoinTimeout \/ CamFinal

CamStep ==
  \/ CamCapture \/ CamWritten \/ CamRingFull \/ CamRefused
  \/ CamSubmit \/ CamSubmitTimeout \/ CamConsume \/ CamStop \/ CamShutdown

--------------------------------------------------------------------------------
(* The io thread: _io_loop and _loop_body.                                 *)

IoGoto(from, to) == io.pc = from /\ io' = [pc |-> to, req |-> Nothing]

IoTop ==
  /\ IoGoto("top", IF running THEN "sync" ELSE "stopped")
  /\ UNCHANGED <<camera, queue, dropped, running, async, inbound, sync, transport, service>>

(* 1) every synchronous request that waits is sent, whatever the window.   *)
IoSyncTake ==
  /\ io.pc = "sync"
  /\ outbound # <<>>
  /\ io' = [pc |-> "syncSend", req |-> Head(outbound)]
  /\ outbound' = Tail(outbound)
  /\ UNCHANGED <<camera, queue, dropped, running, async, inbound, waiting, slot, caller,
                 transport, service>>

IoSyncNone ==
  /\ outbound = <<>>
  /\ IoGoto("sync", "async")
  /\ UNCHANGED <<camera, queue, dropped, running, async, inbound, sync, transport, service>>

(* send() waits for room in the socket's buffer.                           *)
Send ==
  /\ Len(pipe) < SndHwm
  /\ pipe' = Append(pipe, io.req)

IoSyncSend ==
  /\ IoGoto("syncSend", "sync")
  /\ Send
  /\ UNCHANGED <<camera, queue, dropped, running, async, inbound, sync, replies, service>>

(* Mutant: one request too many.                                           *)
WindowOpenByOne == inFlight <= Window

(* 1b) while the window is open a request is taken out of the queue ...    *)
WindowOpen == inFlight < Window

IoTake ==
  /\ io.pc = "async"
  /\ WindowOpen
  /\ queue # <<>>
  /\ io' = [pc |-> "taken", req |-> Head(queue)]
  /\ queue' = Tail(queue)
  /\ UNCHANGED <<camera, dropped, running, async, inbound, sync, transport, service>>

IoNone ==
  /\ ~WindowOpen \/ queue = <<>>
  /\ IoGoto("async", "poll")
  /\ UNCHANGED <<camera, queue, dropped, running, async, inbound, sync, transport, service>>

(* ... then accounted for, then sent.                                      *)
IoMark ==
  /\ io.pc = "taken"
  /\ io' = [io EXCEPT !.pc = "send"]
  /\ pending' = pending \cup {io.req}
  /\ inFlight' = inFlight + 1
  /\ sent' = sent + 1
  /\ UNCHANGED <<camera, queue, dropped, running, overdue, inbound, sync, transport, service>>

IoSend ==
  /\ IoGoto("send", "async")
  /\ Send
  /\ UNCHANGED <<camera, queue, dropped, running, async, inbound, sync, replies, service>>

(* 2) nothing has arrived within poll_ms, or a message has.                *)
IoQuiet ==
  /\ IoGoto("poll", "scan")
  /\ UNCHANGED <<camera, queue, dropped, running, async, inbound, sync, transport, service>>

Arrived == replies # <<>> /\ replies' = Tail(replies)

(* No request_id in it: an exception ends this round, before the scan.     *)
IoRecvGarbage ==
  /\ Arrived /\ Head(replies).kind = "garbage"
  /\ IoGoto("poll", "top")
  /\ UNCHANGED <<camera, queue, dropped, running, async, inbound, sync, pipe, service>>

Known(set) == Head(replies).kind # "garbage" /\ Head(replies).id \in set

(* The caller's slot gets the message as it is; the caller decodes it.     *)
IoRecvSync ==
  /\ Arrived /\ Known(waiting)
  /\ IoGoto("poll", "scan")
  /\ waiting' = waiting \ {Head(replies).id}
  /\ slot' = [slot EXCEPT ![Head(replies).id] = TRUE]
  /\ UNCHANGED <<camera, queue, dropped, running, async, inbound, outbound, caller, pipe, service>>

(* Mutant: the deadline of an answered request is kept.                    *)
ForgetKeepsDeadline(set) ==
  /\ pending' = pending \ set
  /\ UNCHANGED overdue

Forget(set) ==
  /\ pending' = pending \ set
  /\ overdue' = overdue \ set

IoRecvAnswer ==
  LET f == Head(replies).id IN
  /\ Arrived /\ Known(pending) /\ Head(replies).kind = "answer"
  /\ IoGoto("poll", "scan")
  /\ Forget({f})
  /\ answers' = [answers EXCEPT ![f] = @ + 1]
  /\ inFlight' = inFlight - 1
  /\ UNCHANGED <<camera, queue, dropped, running, sent, polled, sync, pipe, service>>

(* A known request_id in a message that does not decode: the request is    *)
(* forgotten before the exception ends the round.                          *)
IoRecvSkewed ==
  /\ Arrived /\ Known(pending) /\ Head(replies).kind = "skewed"
  /\ IoGoto("poll", "top")
  /\ Forget({Head(replies).id})
  /\ UNCHANGED <<camera, queue, dropped, running, inFlight, sent, inbound, sync, pipe, service>>

(* An answer to a request that has timed out is dropped.                   *)
IoRecvLate ==
  /\ Arrived /\ Head(replies).kind # "garbage" /\ ~Known(waiting \cup pending)
  /\ IoGoto("poll", "scan")
  /\ UNCHANGED <<camera, queue, dropped, running, async, inbound, sync, pipe, service>>

(* Mutant: no scan.                                                        *)
IoScanNothing ==
  /\ IoGoto("scan", "top")
  /\ UNCHANGED <<camera, queue, dropped, running, async, inbound, sync, transport, service>>

(* 3) every overdue request is answered with a retryable Timeout.          *)
IoScan ==
  /\ IoGoto("scan", "top")
  /\ Forget(overdue)
  /\ answers' = [f \in Frames |-> IF f \in overdue THEN answers[f] + 1 ELSE answers[f]]
  /\ inFlight' = inFlight - Cardinality(overdue)
  /\ UNCHANGED <<camera, queue, dropped, running, sent, polled, sync, transport, service>>

IoStep ==
  \/ IoTop \/ IoSyncTake \/ IoSyncNone \/ IoSyncSend
  \/ IoTake \/ IoNone \/ IoMark \/ IoSend
  \/ IoQuiet \/ IoRecvGarbage \/ IoRecvSync \/ IoRecvAnswer \/ IoRecvSkewed \/ IoRecvLate
  \/ IoScan

(* timeout_s has passed since the request was sent.                        *)
Elapse(f) ==
  /\ f \in pending
  /\ overdue' = overdue \cup {f}
  /\ UNCHANGED <<camera, queue, dropped, io, running, inFlight, pending, sent, inbound, sync,
                 transport, service>>

--------------------------------------------------------------------------------
(* infer() of another thread.                                              *)

(* An abort ends the callers with their process.                           *)
CallerGoto(c, from, to) ==
  /\ cam.pc # "aborted"
  /\ caller[c] = from
  /\ caller' = [caller EXCEPT ![c] = to]

InferRegister(c) ==
  /\ CallerGoto(c, "idle", "put")
  /\ waiting' = waiting \cup {c}
  /\ UNCHANGED <<camera, queue, dropped, io, running, async, inbound, outbound, slot,
                 transport, service>>

InferPut(c) ==
  /\ CallerGoto(c, "put", "wait")
  /\ outbound' = Append(outbound, c)
  /\ UNCHANGED <<camera, queue, dropped, io, running, async, inbound, waiting, slot,
                 transport, service>>

InferAnswered(c) ==
  /\ slot[c]
  /\ CallerGoto(c, "wait", "returned")
  /\ UNCHANGED <<camera, queue, dropped, io, running, async, inbound, outbound, waiting, slot,
                 transport, service>>

InferTimeout(c) ==
  /\ ~slot[c]
  /\ CallerGoto(c, "wait", "expired")
  /\ UNCHANGED <<camera, queue, dropped, io, running, async, inbound, outbound, waiting, slot,
                 transport, service>>

InferExpire(c) ==
  /\ CallerGoto(c, "expired", "returned")
  /\ waiting' = waiting \ {c}
  /\ UNCHANGED <<camera, queue, dropped, io, running, async, inbound, outbound, slot,
                 transport, service>>

InferStep(c) ==
  \/ InferRegister(c) \/ InferPut(c) \/ InferAnswered(c) \/ InferTimeout(c) \/ InferExpire(c)

--------------------------------------------------------------------------------
(* InferenceServer.serve, one request at a time.                           *)

ServerTake ==
  /\ server.up /\ server.req = Nothing
  /\ pipe # <<>>
  /\ server' = [server EXCEPT !.req = Head(pipe)]
  /\ pipe' = Tail(pipe)
  /\ UNCHANGED <<camera, queue, dropped, io, running, async, inbound, sync, replies, crashes, policy>>

(* A frame that could not be read and a detector that failed are answers.  *)
ServerReply ==
  /\ server.up /\ server.req # Nothing
  /\ server' = [server EXCEPT !.req = Nothing]
  /\ \E kind \in {"answer"} \cup BadReplies :
       replies' = Append(replies, [id |-> server.req, kind |-> kind])
  /\ UNCHANGED <<camera, queue, dropped, io, running, async, inbound, sync, pipe, crashes, policy>>

(* The bulkhead: an exception in recv, handle or send drops the request.   *)
ServerDrop ==
  /\ server.up /\ server.req # Nothing
  /\ server' = [server EXCEPT !.req = Nothing]
  /\ UNCHANGED <<camera, queue, dropped, io, running, async, inbound, sync, transport, crashes, policy>>

ServerCrash ==
  /\ server.up
  /\ crashes < MaxCrashes
  /\ crashes' = crashes + 1
  /\ server' = [up |-> FALSE, req |-> Nothing]
  /\ \E n \in 0 .. Len(pipe) : pipe' = SubSeq(pipe, n + 1, Len(pipe))
  /\ UNCHANGED <<camera, queue, dropped, io, running, async, inbound, sync, replies, policy>>

ServerRestart ==
  /\ ~server.up
  /\ server' = [up |-> TRUE, req |-> Nothing]
  /\ UNCHANGED <<camera, queue, dropped, io, running, async, inbound, sync, transport, crashes, policy>>

ServerStep == ServerTake \/ ServerReply \/ ServerDrop \/ ServerCrash \/ ServerRestart

Next ==
  \/ CamStep
  \/ IoStep
  \/ \E f \in Frames : Elapse(f)
  \/ \E c \in Callers : InferStep(c)
  \/ ServerStep

Spec == Init /\ [][Next]_vars

(* The client's threads keep running and time passes; of the server        *)
(* nothing is assumed.  A drain that goes on meets its deadline.           *)
FairSpec ==
  /\ Spec
  /\ WF_vars(CamShutdown) /\ SF_vars(CamDrainCut)
  /\ WF_vars(IoStep)
  /\ \A f \in Frames : WF_vars(Elapse(f))
  /\ \A c \in Callers : WF_vars(InferStep(c))

--------------------------------------------------------------------------------
(* Properties.                                                             *)

Message == [id : Requests, kind : {"answer", "garbage", "skewed"}]

TypeOK ==
  /\ cam \in [pc : {"loop", "write", "submit", "consume", "drainQueue", "drainFlight",
                    "drainWait", "collect", "teardown", "join", "final", "done",
                    "hung", "aborted"},
              failed : BOOLEAN, cut : BOOLEAN]
  /\ captured \in 0 .. MaxFrames /\ fullRing \in Nat
  /\ queue \in Seq(Frames) /\ dropped \in Nat
  /\ io \in [pc : {"top", "sync", "syncSend", "async", "taken", "send", "poll", "scan",
                   "stopped", "stuck"},
             req : Requests \cup {Nothing}]
  /\ running \in BOOLEAN
  /\ inFlight \in Nat /\ pending \subseteq Frames /\ overdue \subseteq pending /\ sent \in Nat
  /\ answers \in [Frames -> Nat] /\ polled \in [Frames -> Nat]
  /\ outbound \in Seq(Callers) /\ waiting \subseteq Callers /\ slot \in [Callers -> BOOLEAN]
  /\ caller \in [Callers -> {"idle", "put", "wait", "expired", "returned"}]
  /\ pipe \in Seq(Requests) /\ replies \in Seq(Message)
  /\ server \in [up : BOOLEAN, req : Requests \cup {Nothing}]
  /\ crashes \in 0 .. MaxCrashes
  /\ policy \in Policies

(* Flow control (Req 1.3): never more than a window of requests is without *)
(* an answer, although answers race timeouts.                              *)
WindowRespected ==
  /\ Cardinality(pending) <= inFlight
  /\ inFlight <= Window
  /\ Len(queue) <= QueueMax

(* A request gets one response at most: the answer or the Timeout, never   *)
(* both, however late the answer (zmq-inference-service Req 3.3).          *)
OneResponse == \A f \in Frames : answers[f] <= 1

Balanced == sent + dropped + fullRing + Len(queue) = captured

(* Frame_Conservation_Invariant (Req 4.3): the window is respected until    *)
(* the counters are written out; then each captured frame was sent, or     *)
(* dropped at one of three places, and the camera has taken every response *)
(* there is or will be.                                                    *)
Conserved ==
  /\ WindowRespected
  /\ cam.pc = "done" /\ ~cam.failed => Balanced
  /\ cam.pc = "done" => polled = answers

(* Shutting down ends, with a dead server too and whatever the socket's    *)
(* buffer held meanwhile, unless the join gave up on a send() that was     *)
(* still blocked: for what the socket does then nothing is promised.       *)
ShutdownEnds == cam.pc = "drainQueue" ~> cam.pc \in {"done", "hung", "aborted"}

(* A request that was sent gets a response, or the client is torn down, or *)
(* the io thread is stuck in send() for good: "the request that waits      *)
(* times out by itself".                                                   *)
EveryRequestAnswered ==
  \A f \in Frames :
    f \in pending ~> (answers[f] > 0 \/ io.pc \in {"stopped", "stuck"} \/ []SendBlocked)

(* Documented, and not true of the code: the invariant holds               *)
(* unconditionally.                                                        *)
ConservedAlways == cam.pc = "done" => Balanced

(* Documented, and not true of the code: outbound_size = 0 and             *)
(* in_flight = 0 mean that everything was sent and has its response.       *)
DrainedMeansDone ==
  cam.pc = "collect" /\ ~cam.cut => io.pc # "taken" /\ queue = <<>> /\ pending = {}

(* Documented, and not true of the code: a window far smaller than SNDHWM  *)
(* keeps send() from blocking.                                             *)
SendNeverBlocks == ~SendBlocked

(* Taken for granted by the code, and not true of it: teardown() returns.  *)
TeardownReturns == cam.pc = "join" ~> cam.pc = "done"

================================================================================
