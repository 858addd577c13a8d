------------------------------- MODULE FullStack -------------------------------
(***************************************************************************)
(* The two-process system of profiles/vision_fullstack_profile.py running  *)
(* on: a camera process that writes frames into the ring and submits a     *)
(* request for each, an inference server that reads them, and a Supervisor *)
(* that restarts either.  It composes what ShmRing, RingEpoch, ZmqClient   *)
(* and Supervisor model in detail:                                         *)
(*  - write() and each half of read() are single steps on a slot (ShmRing: *)
(*    NoTornFrame, CopyExclusion, NoSilentOverwrite; nobody dies in them   *)
(*    with a lock in hand);                                                *)
(*  - run_profile() wires no RingSupervisor, so the ring of epoch 1 stays; *)
(*  - a request is named after the slot of its frame, and in_flight goes   *)
(*    down once per request, for an answer or for a Timeout (ZmqClient:    *)
(*    OneResponse, EveryRequestAnswered);                                  *)
(*  - a dead process is counted and replaced up to max_restarts            *)
(*    (Supervisor: FailureHandled, OneProcess).                            *)
(*  - write() and submit() are one step: one thread does both, and nobody  *)
(*    looks at the slot before its request comes.                          *)
(* A frame for which there is no slot is dropped: nothing changes.         *)
(***************************************************************************)
EXTENDS Integers, Sequences, SequencesExt, FiniteSets

CONSTANTS
  NSlots,       \* n_slots
  Window,       \* window_size
  QueueMax,     \* queue_maxsize
  MaxRestarts,  \* max_restarts of both workers
  CamCrashes,   \* bound: crashes of the camera process
  SrvCrashes    \* bound: crashes of the server process

ASSUME FullStackAssumption ==
  /\ {NSlots, Window, QueueMax} \subseteq Nat \ {0}
  /\ {MaxRestarts, CamCrashes, SrvCrashes} \subseteq Nat

Slots == 1 .. NSlots

VARIABLES
  slot,      \* state of each slot
  writer,    \* is a writer registered in the ring's control segment?
  cam,       \* the camera process
  queue,     \* _async_outbound
  inFlight,  \* _in_flight
  pipe,      \* requests on their way to the server
  srv,       \* the server process, and the request in its hands
  restarts,  \* _restart_counts
  crashes    \* crashes so far

Processes == {"camera", "inference"}

vars == <<slot, writer, cam, queue, inFlight, pipe, srv, restarts, crashes>>

None == 0

Init ==
  /\ slot = [s \in Slots |-> "free"]
  /\ writer = FALSE
  /\ cam = "boot"
  /\ queue = <<>> /\ inFlight = 0 /\ pipe = <<>>
  /\ srv = [pc |-> "up", req |-> None]
  /\ restarts = [p \in Processes |-> 0]
  /\ crashes = [p \in Processes |-> 0]

--------------------------------------------------------------------------------
(* The camera process.                                                     *)

(* bootstrap() registers the writer, in a ring that has none.              *)
CamRegister ==
  /\ cam = "boot" /\ ~writer
  /\ writer' = TRUE
  /\ cam' = "up"
  /\ UNCHANGED <<slot, queue, inFlight, pipe, srv, restarts, crashes>>

(* Whoever is registered, alive, dead or unknown: SingleWriterViolation.   *)
CamRefused ==
  /\ cam = "boot" /\ writer
  /\ cam' = "dead"
  /\ UNCHANGED <<slot, writer, queue, inFlight, pipe, srv, restarts, crashes>>

(* Mutant: a slot that was not read yet is taken.                          *)
AvailableUnread(s) == slot[s] # "reading"

Available(s) == slot[s] = "free"

(* write(), then submit() under DROP_OLDEST.                               *)
CamWrite(s) ==
  /\ cam = "up"
  /\ Available(s)
  /\ slot' = [slot EXCEPT ![s] = "ready"]
  /\ queue' = Append(IF Len(queue) >= QueueMax THEN Tail(queue) ELSE queue, s)
  /\ UNCHANGED <<writer, cam, inFlight, pipe, srv, restarts, crashes>>

(* The io thread sends while the window is open.                           *)
CamSend ==
  /\ cam = "up"
  /\ inFlight < Window /\ queue # <<>>
  /\ pipe' = Append(pipe, Head(queue))
  /\ queue' = Tail(queue)
  /\ inFlight' = inFlight + 1
  /\ UNCHANGED <<slot, writer, cam, srv, restarts, crashes>>

(* Mutant: a Timeout leaves in_flight as it is.                            *)
CamResolveNever ==
  /\ cam = "up" /\ inFlight > 0
  /\ UNCHANGED vars

(* An answer, or a Timeout at any moment.                                  *)
CamResolve ==
  /\ cam = "up"
  /\ inFlight > 0
  /\ inFlight' = inFlight - 1
  /\ UNCHANGED <<slot, writer, cam, queue, pipe, srv, restarts, crashes>>

(* The queue dies with the process, and what its socket had not yet sent.  *)
CamCrash ==
  /\ cam = "up" /\ crashes["camera"] < CamCrashes
  /\ crashes' = [crashes EXCEPT !["camera"] = @ + 1]
  /\ cam' = "dead"
  /\ queue' = <<>> /\ inFlight' = 0
  /\ \E n \in 0 .. Len(pipe) : pipe' = SubSeq(pipe, 1, n)
  /\ UNCHANGED <<slot, writer, srv, restarts>>

--------------------------------------------------------------------------------
(* The server process.                                                     *)

SrvTake ==
  /\ srv.pc = "up" /\ pipe # <<>>
  /\ srv' = [pc |-> "read", req |-> Head(pipe)]
  /\ pipe' = Tail(pipe)
  /\ UNCHANGED <<slot, writer, cam, queue, inFlight, restarts, crashes>>

(* read_ref() pins the slot of the request, or finds that the frame is     *)
(* gone (ShmReadFailed), ...                                               *)
SrvPin ==
  /\ srv.pc = "read"
  /\ IF slot[srv.req] = "ready"
     THEN /\ slot' = [slot EXCEPT ![srv.req] = "reading"]
          /\ srv' = [srv EXCEPT !.pc = "copy"]
     ELSE /\ srv' = [pc |-> "up", req |-> None]
          /\ UNCHANGED slot
  /\ UNCHANGED <<writer, cam, queue, inFlight, pipe, restarts, crashes>>

(* Mutant: the slot is not given back.                                     *)
SrvUnpinKept ==
  /\ srv.pc = "copy"
  /\ srv' = [pc |-> "up", req |-> None]
  /\ UNCHANGED <<slot, writer, cam, queue, inFlight, pipe, restarts, crashes>>

(* ... copies and unpins it; the last reader marks the slot DONE.          *)
SrvUnpin ==
  /\ srv.pc = "copy"
  /\ slot' = [slot EXCEPT ![srv.req] = "free"]
  /\ srv' = [pc |-> "up", req |-> None]
  /\ UNCHANGED <<writer, cam, queue, inFlight, pipe, restarts, crashes>>

(* The requests that had reached its socket die with the process.          *)
SrvCrash ==
  /\ srv.pc \in {"up", "read", "copy"} /\ crashes["inference"] < SrvCrashes
  /\ crashes' = [crashes EXCEPT !["inference"] = @ + 1]
  /\ srv' = [pc |-> "dead", req |-> None]
  /\ \E n \in 0 .. Len(pipe) : pipe' = SubSeq(pipe, n + 1, Len(pipe))
  /\ UNCHANGED <<slot, writer, cam, queue, inFlight, restarts>>

--------------------------------------------------------------------------------
(* The Supervisor.                                                         *)

Restart(p) == restarts' = [restarts EXCEPT ![p] = @ + 1]

Replacement(p, fresh) == IF restarts[p] < MaxRestarts THEN fresh ELSE "gone"

CamRestart ==
  /\ cam = "dead"
  /\ Restart("camera")
  /\ cam' = Replacement("camera", "boot")
  /\ UNCHANGED <<slot, writer, queue, inFlight, pipe, srv, crashes>>

SrvRestart ==
  /\ srv.pc = "dead"
  /\ Restart("inference")
  /\ srv' = [srv EXCEPT !.pc = Replacement("inference", "up")]
  /\ UNCHANGED <<slot, writer, cam, queue, inFlight, pipe, crashes>>

CamStep == CamRegister \/ CamRefused \/ (\E s \in Slots : CamWrite(s))
Client  == CamSend \/ CamResolve
Server  == SrvTake \/ SrvPin \/ SrvUnpin

Next ==
  \/ CamStep \/ Client \/ Server
  \/ CamCrash \/ SrvCrash
  \/ CamRestart \/ SrvRestart

Spec == Init /\ [][Next]_vars

(* Every thread and the supervisor go on; nothing makes a process crash.   *)
FairSpec ==
  /\ Spec
  /\ WF_vars(CamStep) /\ WF_vars(CamSend) /\ WF_vars(CamResolve)
  /\ WF_vars(Server)
  /\ WF_vars(CamRestart) /\ WF_vars(SrvRestart)

--------------------------------------------------------------------------------
(* Properties.                                                             *)

TypeOK ==
  /\ slot \in [Slots -> {"free", "ready", "reading"}]
  /\ writer \in BOOLEAN
  /\ cam \in {"boot", "up", "dead", "gone"}
  /\ queue \in Seq(Slots) /\ Len(queue) <= QueueMax
  /\ inFlight \in 0 .. Window
  /\ pipe \in Seq(Slots)
  /\ srv.pc \in {"up", "read", "copy", "dead", "gone"} /\ srv.req \in Slots \cup {None}
  /\ restarts \in [Processes -> 0 .. MaxRestarts + 1]
  /\ crashes \in [Processes -> Nat]

Unread == queue \o pipe \o (IF srv.pc = "read" THEN <<srv.req>> ELSE <<>>)

(* Without a switchover no request is ever stale, whatever crashes: the    *)
(* slot of a request still holds its frame, unread, until the request is   *)
(* served, and no two requests are for the same slot.                      *)
RequestsReadable ==
  /\ \A s \in ToSet(Unread) : slot[s] = "ready"
  /\ IsInjective(Unread)

Uncrashed == \A p \in Processes : crashes[p] = 0

(* "Dropped because downstream is full": while nothing crashes, a full     *)
(* ring means that a request is on its way which will free a slot.         *)
RingFullMeansBusy ==
  Uncrashed /\ (\A s \in Slots : ~Available(s)) => Unread # <<>> \/ srv.pc = "copy"

(* A frame that DROP_OLDEST evicts from the queue keeps its slot: nobody   *)
(* will read it, and READY is not overwritten.  While nothing crashes this *)
(* takes slots from the ring until QueueMax of them are left, no more.     *)
Leaked == {s \in Slots : ~Available(s)} \ (ToSet(Unread) \cup {srv.req})

EvictionLeavesRoom ==
  Uncrashed => Cardinality(Leaked) <= (IF NSlots > QueueMax THEN NSlots - QueueMax ELSE 0)

(* Every slot is accounted for: held for a request that will be served, or *)
(* free, or one of the few that evictions took.                            *)
SlotsAccounted == RequestsReadable /\ RingFullMeansBusy /\ EvictionLeavesRoom

(* Frames flow for ever, as long as nothing crashes.                       *)
FramesFlow == []Uncrashed => []<>(srv.pc = "copy")

(* Documented, and not true of the code: a crashed server is restarted and *)
(* frames flow again.                                                      *)
FramesFlowAgain == cam = "up" /\ srv.pc = "dead" ~> srv.pc = "copy" \/ srv.pc = "gone"

(* Documented, and not true of the code: a crashed worker is restarted.    *)
CameraRecovers == cam = "dead" ~> cam = "up"

================================================================================
