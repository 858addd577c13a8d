------------------------------- MODULE RingEpoch -------------------------------
(***************************************************************************)
(* Switchover of the frame bus between the rings of a fixed pool           *)
(* (RingPool, RingControlPlane, RingSupervisor, the writer's and the       *)
(* readers' epoch coordinators).  Epoch e lives in ring e % PoolSize.  The *)
(* supervisor resets the ring of epoch N+1 slot by slot, raises its        *)
(* ring_epoch, and publishes its name and then the epoch in the control    *)
(* plane.  Writer and readers poll the control plane at the start of every *)
(* call, epoch first and name second, and change rings when the epoch has  *)
(* changed.  Nothing synchronises the three but the slot locks.            *)
(*                                                                         *)
(* Abstractions.                                                           *)
(*  - A slot is as in ShmRing, but each of its critical sections is one    *)
(*    step: stalled and dead lock holders are the subject of ShmRing.      *)
(*  - The writer takes any available slot instead of the first one after   *)
(*    _next_slot; it may find every slot busy when some slot is.           *)
(*  - Frames are numbered; a frame is copied in two halves.                *)
(*  - A slot of the published ring may be quarantined at any time; readers *)
(*    do not die, the writer's process does.                               *)
(*  - The name of a ring is its index in the pool, and it is written and   *)
(*    read in one step (the names differ in one byte).                     *)
(***************************************************************************)
EXTENDS Integers

CONSTANTS
  PoolSize,    \* pool_size, at least 2
  NSlots,      \* slots of a ring
  Readers,     \* reader processes
  MaxEpoch,    \* bound: no switchover beyond this epoch
  MaxFrames,   \* bound: number of frames written
  MaxRestarts  \* bound: restarts of the writer's process

ASSUME PoolAssumption ==
  /\ PoolSize \in Nat /\ PoolSize >= 2
  /\ NSlots \in Nat \ {0}
  /\ {MaxEpoch, MaxFrames, MaxRestarts} \subseteq Nat

Rings == 0 .. PoolSize - 1
Slots == 0 .. NSlots - 1

SlotState == {"FREE", "WRITING", "READY", "READING", "DONE", "QUARANTINED"}

(* Seeded fault: off by one in the size of the pool.                       *)
RingForOffByOne(e) == e % (PoolSize - 1)

(* RingPool.ring_for_epoch                                                 *)
RingFor(e) == e % PoolSize

VARIABLES
  ringEpoch,   \* control segment of a ring: ring_epoch
  registered,  \* control segment of a ring: the registered writer, 0 if none
  state, gen,  \* slot header
  pins,        \* slot header: the readers in the registry
  lo, hi,      \* slot data: the halves of the frame
  cpEpoch,     \* control plane: current_epoch
  cpName,      \* control plane: current_ring_name
  sup,         \* RingSupervisor.switchover
  wr,          \* WriterEpochCoordinator and its ShmFrameWriter
  rd,          \* ReaderEpochCoordinator and its ShmFrameReader, per reader
  refs,        \* the refs write() has returned
  frames       \* number of frames written so far

rings == <<ringEpoch, registered>>
slots == <<state, gen, pins, lo, hi>>
cp    == <<cpEpoch, cpName>>
vars  == <<rings, slots, cp, sup, wr, rd, refs, frames>>

NoRef == [slot |-> 0, gen |-> 0, epoch |-> 0, frame |-> 0]

(* The pool is built, epoch 1 is activated and published before the worker *)
(* processes are spawned.                                                  *)
Init ==
  /\ ringEpoch = [k \in Rings |-> IF k = RingFor(1) THEN 1 ELSE 0]
  /\ registered = [k \in Rings |-> 0]
  /\ state = [k \in Rings |-> [s \in Slots |-> "FREE"]]
  /\ gen = [k \in Rings |-> [s \in Slots |-> 0]]
  /\ pins = [k \in Rings |-> [s \in Slots |-> {}]]
  /\ lo = [k \in Rings |-> [s \in Slots |-> 0]]
  /\ hi = [k \in Rings |-> [s \in Slots |-> 0]]
  /\ cpEpoch = 1
  /\ cpName = RingFor(1)
  /\ sup = [pc |-> "idle", new |-> 1, slot |-> 0, settled |-> TRUE]
  /\ wr = [pc |-> "down", pid |-> 0, epoch |-> 0, ring |-> 0, seen |-> 0, target |-> 0,
           label |-> 0, next |-> 1, slot |-> 0, gen |-> 0, frame |-> 0]
  /\ rd = [r \in Readers |-> [pc |-> "down", epoch |-> 0, ring |-> 0, seen |-> 0,
                              ref |-> NoRef, copy |-> <<0, 0>>]]
  /\ refs = {}
  /\ frames = 0

--------------------------------------------------------------------------------
(* RingSupervisor.switchover: activate (reset_for_reuse), then publish.    *)

(* What the deployment has to see to: a ring is not taken back while a     *)
(* call is under way that began when an epoch of that ring was current.    *)
InCall(c) == c.pc \notin {"idle", "down"}

Settled(e) ==
  /\ InCall(wr) => wr.seen + PoolSize > e
  /\ \A r \in Readers : InCall(rd[r]) => rd[r].seen + PoolSize > e

SwitchStart ==
  /\ sup.pc = "idle"
  /\ cpEpoch < MaxEpoch
  /\ sup' = [pc |-> "guard", new |-> cpEpoch + 1, slot |-> 0,
             settled |-> sup.settled /\ Settled(cpEpoch + 1)]
  /\ UNCHANGED <<rings, slots, cp, wr, rd, refs, frames>>

(* From one slot to the next of a pass, or on to the next phase.           *)
NextPass(phase) ==
  sup' = IF sup.slot + 1 < NSlots THEN [sup EXCEPT !.slot = @ + 1]
                                  ELSE [sup EXCEPT !.slot = 0, !.pc = phase]

(* First pass: a slot some reader pins defers the switchover.              *)
Drained ==
  /\ sup.pc = "guard"
  /\ pins[RingFor(sup.new)][sup.slot] = {}
  /\ NextPass("clear")
  /\ UNCHANGED <<rings, slots, cp, wr, rd, refs, frames>>

Defer ==
  /\ sup.pc = "guard"
  /\ pins[RingFor(sup.new)][sup.slot] # {}
  /\ sup' = [sup EXCEPT !.pc = "idle"]
  /\ UNCHANGED <<rings, slots, cp, wr, rd, refs, frames>>

(* Seeded fault: a quarantined slot is left alone.                         *)
ClearUnlessQuarantined ==
  LET k == RingFor(sup.new) IN
  /\ sup.pc = "clear"
  /\ state' = [state EXCEPT ![k][sup.slot] = IF @ = "QUARANTINED" THEN @ ELSE "FREE"]
  /\ gen' = [gen EXCEPT ![k][sup.slot] = 0]
  /\ pins' = [pins EXCEPT ![k][sup.slot] = {}]
  /\ NextPass("unregister")
  /\ UNCHANGED <<rings, lo, hi, cp, wr, rd, refs, frames>>

(* Second pass: every slot becomes FREE, whatever it is by now.            *)
Clear ==
  LET k == RingFor(sup.new) IN
  /\ sup.pc = "clear"
  /\ state' = [state EXCEPT ![k][sup.slot] = "FREE"]
  /\ gen' = [gen EXCEPT ![k][sup.slot] = 0]
  /\ pins' = [pins EXCEPT ![k][sup.slot] = {}]
  /\ NextPass("unregister")
  /\ UNCHANGED <<rings, lo, hi, cp, wr, rd, refs, frames>>

(* Seeded fault: ring_epoch is not raised.                                 *)
UnregisterOnly ==
  /\ sup.pc = "unregister"
  /\ registered' = [registered EXCEPT ![RingFor(sup.new)] = 0]
  /\ sup' = [sup EXCEPT !.pc = "name"]
  /\ UNCHANGED <<ringEpoch, slots, cp, wr, rd, refs, frames>>

Unregister ==
  /\ sup.pc = "unregister"
  /\ registered' = [registered EXCEPT ![RingFor(sup.new)] = 0]
  /\ sup' = [sup EXCEPT !.pc = "bump"]
  /\ UNCHANGED <<ringEpoch, slots, cp, wr, rd, refs, frames>>

Bump ==
  /\ sup.pc = "bump"
  /\ ringEpoch' = [ringEpoch EXCEPT ![RingFor(sup.new)] = sup.new]
  /\ sup' = [sup EXCEPT !.pc = "name"]
  /\ UNCHANGED <<registered, slots, cp, wr, rd, refs, frames>>

PublishName ==
  /\ sup.pc = "name"
  /\ cpName' = RingFor(sup.new)
  /\ sup' = [sup EXCEPT !.pc = "epoch"]
  /\ UNCHANGED <<rings, slots, cpEpoch, wr, rd, refs, frames>>

PublishEpoch ==
  /\ sup.pc = "epoch"
  /\ cpEpoch' = sup.new
  /\ sup' = [sup EXCEPT !.pc = "idle"]
  /\ UNCHANGED <<rings, slots, cpName, wr, rd, refs, frames>>

Supervise ==
  \/ Drained \/ Defer \/ Clear \/ Unregister \/ Bump \/ PublishName \/ PublishEpoch

--------------------------------------------------------------------------------
(* WriterEpochCoordinator: bootstrap() of a new process (epoch 0), and     *)
(* write().  Both read the control plane, epoch first.                     *)

WriterSpawn ==
  /\ wr.pc = "down"
  /\ wr.pid <= MaxRestarts
  /\ wr' = [wr EXCEPT !.pc = "name", !.pid = @ + 1, !.epoch = 0, !.seen = cpEpoch]
  /\ UNCHANGED <<rings, slots, cp, sup, rd, refs, frames>>

(* Seeded fault: write() does not look at the control plane.               *)
WriteCallUnpolled ==
  /\ wr.pc = "idle"
  /\ frames < MaxFrames
  /\ wr' = [wr EXCEPT !.pc = "mark", !.seen = cpEpoch]
  /\ UNCHANGED <<rings, slots, cp, sup, rd, refs, frames>>

WriteCall ==
  /\ wr.pc = "idle"
  /\ frames < MaxFrames
  /\ wr' = [wr EXCEPT !.pc = IF cpEpoch = wr.epoch THEN "mark" ELSE "name", !.seen = cpEpoch]
  /\ UNCHANGED <<rings, slots, cp, sup, rd, refs, frames>>

WriterReadName ==
  /\ wr.pc = "name"
  /\ wr' = [wr EXCEPT !.pc = "register", !.target = cpName]
  /\ UNCHANGED <<rings, slots, cp, sup, rd, refs, frames>>

(* register_writer: any registered writer, alive or dead, is a violation.  *)
Register ==
  /\ wr.pc = "register"
  /\ registered[wr.target] = 0
  /\ registered' = [registered EXCEPT ![wr.target] = wr.pid]
  /\ wr' = [wr EXCEPT !.pc = "construct"]
  /\ UNCHANGED <<ringEpoch, slots, cp, sup, rd, refs, frames>>

(* SingleWriterViolation leaves write() and bootstrap(), and the worker    *)
(* function with them: the process ends.                                   *)
Refused ==
  /\ wr.pc = "register"
  /\ registered[wr.target] # 0
  /\ wr' = [wr EXCEPT !.pc = "down"]
  /\ UNCHANGED <<rings, slots, cp, sup, rd, refs, frames>>

(* A new ShmFrameWriter caches ring_epoch and counts generations from 1.   *)
Construct ==
  /\ wr.pc = "construct"
  /\ wr' = [wr EXCEPT !.pc = IF wr.epoch = 0 THEN "idle" ELSE "mark",
                      !.epoch = wr.seen, !.ring = wr.target,
                      !.label = ringEpoch[wr.target], !.next = 1]
  /\ UNCHANGED <<rings, slots, cp, sup, rd, refs, frames>>

(* Seeded fault: a slot being read counts as available.                    *)
AvailableRead(k, s) == state[k][s] \in {"FREE", "DONE", "READING"}

Available(k, s) == state[k][s] \in {"FREE", "DONE"} /\ pins[k][s] = {}

WriteMark(s) ==
  LET k == wr.ring IN
  /\ wr.pc = "mark"
  /\ Available(k, s)
  /\ state' = [state EXCEPT ![k][s] = "WRITING"]
  /\ gen' = [gen EXCEPT ![k][s] = wr.next]
  /\ wr' = [wr EXCEPT !.pc = "copyLo", !.slot = s, !.gen = wr.next, !.next = @ + 1,
                      !.frame = frames + 1]
  /\ frames' = frames + 1
  /\ UNCHANGED <<rings, pins, lo, hi, cp, sup, rd, refs>>

WriteBusy(s) ==
  /\ wr.pc = "mark"
  /\ ~Available(wr.ring, s)
  /\ wr' = [wr EXCEPT !.pc = "idle"]
  /\ UNCHANGED <<rings, slots, cp, sup, rd, refs, frames>>

WriteCopyLo ==
  /\ wr.pc = "copyLo"
  /\ lo' = [lo EXCEPT ![wr.ring][wr.slot] = wr.frame]
  /\ wr' = [wr EXCEPT !.pc = "copyHi"]
  /\ UNCHANGED <<rings, state, gen, pins, hi, cp, sup, rd, refs, frames>>

WriteCopyHi ==
  /\ wr.pc = "copyHi"
  /\ hi' = [hi EXCEPT ![wr.ring][wr.slot] = wr.frame]
  /\ wr' = [wr EXCEPT !.pc = "commit"]
  /\ UNCHANGED <<rings, state, gen, pins, lo, cp, sup, rd, refs, frames>>

(* The header is rewritten whatever it has become.                         *)
WriteCommit ==
  LET k == wr.ring  s == wr.slot IN
  /\ wr.pc = "commit"
  /\ state' = [state EXCEPT ![k][s] = "READY"]
  /\ gen' = [gen EXCEPT ![k][s] = wr.gen]
  /\ refs' = refs \cup
       {[slot |-> s, gen |-> wr.gen, epoch |-> wr.label, frame |-> wr.frame]}
  /\ wr' = [wr EXCEPT !.pc = "idle"]
  /\ UNCHANGED <<rings, pins, lo, hi, cp, sup, rd, frames>>

(* The writer's process dies anywhere; what it wrote stays.                *)
WriterCrash ==
  /\ wr.pc # "down"
  /\ wr.pid <= MaxRestarts
  /\ wr' = [wr EXCEPT !.pc = "down"]
  /\ UNCHANGED <<rings, slots, cp, sup, rd, refs, frames>>

WriteStep ==
  \/ WriterReadName \/ Register \/ Refused \/ Construct
  \/ \E s \in Slots : WriteMark(s) \/ WriteBusy(s)
  \/ WriteCopyLo \/ WriteCopyHi \/ WriteCommit

--------------------------------------------------------------------------------
(* ReaderEpochCoordinator: bootstrap() (epoch 0), and read_ref() of any    *)
(* ref, at any time and more than once.                                    *)

ReaderSpawn(r) ==
  /\ rd[r].pc = "down"
  /\ rd' = [rd EXCEPT ![r].pc = "name", ![r].seen = cpEpoch]
  /\ UNCHANGED <<rings, slots, cp, sup, wr, refs, frames>>

ReadCall(r, ref) ==
  /\ rd[r].pc = "idle"
  /\ rd' = [rd EXCEPT ![r].pc = IF cpEpoch = rd[r].epoch THEN "check" ELSE "name",
                      ![r].seen = cpEpoch, ![r].ref = ref]
  /\ UNCHANGED <<rings, slots, cp, sup, wr, refs, frames>>

ReaderReadName(r) ==
  /\ rd[r].pc = "name"
  /\ rd' = [rd EXCEPT ![r].pc = IF rd[r].epoch = 0 THEN "idle" ELSE "check",
                      ![r].ring = cpName, ![r].epoch = rd[r].seen]
  /\ UNCHANGED <<rings, slots, cp, sup, wr, refs, frames>>

(* Seeded fault: the ring's epoch is not checked.                          *)
ReadUnchecked(r) ==
  /\ rd[r].pc = "check"
  /\ rd' = [rd EXCEPT ![r].pc = "pin"]
  /\ UNCHANGED <<rings, slots, cp, sup, wr, refs, frames>>

(* ShmFrameReader.read: the ring's epoch is checked before the slot's lock *)
(* is taken; a ref of another epoch is answered with None.                 *)
ReadCheck(r) ==
  /\ rd[r].pc = "check"
  /\ rd' = [rd EXCEPT ![r].pc =
              IF rd[r].ref.epoch = ringEpoch[rd[r].ring] THEN "pin" ELSE "idle"]
  /\ UNCHANGED <<rings, slots, cp, sup, wr, refs, frames>>

(* Seeded fault: the generation of the ref is not compared.                *)
ReadableAnyGen(r) == state[rd[r].ring][rd[r].ref.slot] \in {"READY", "READING"}

Readable(r) ==
  LET k == rd[r].ring  s == rd[r].ref.slot IN
  gen[k][s] = rd[r].ref.gen /\ state[k][s] \in {"READY", "READING"}

ReadPin(r) ==
  LET k == rd[r].ring  s == rd[r].ref.slot IN
  /\ rd[r].pc = "pin"
  /\ Readable(r)
  /\ pins' = [pins EXCEPT ![k][s] = @ \cup {r}]
  /\ state' = [state EXCEPT ![k][s] = "READING"]
  /\ rd' = [rd EXCEPT ![r].pc = "copyLo"]
  /\ UNCHANGED <<rings, gen, lo, hi, cp, sup, wr, refs, frames>>

ReadStale(r) ==
  /\ rd[r].pc = "pin"
  /\ ~Readable(r)
  /\ rd' = [rd EXCEPT ![r].pc = "idle"]
  /\ UNCHANGED <<rings, slots, cp, sup, wr, refs, frames>>

ReadCopyLo(r) ==
  /\ rd[r].pc = "copyLo"
  /\ rd' = [rd EXCEPT ![r].pc = "copyHi", ![r].copy = <<lo[rd[r].ring][rd[r].ref.slot], 0>>]
  /\ UNCHANGED <<rings, slots, cp, sup, wr, refs, frames>>

ReadCopyHi(r) ==
  /\ rd[r].pc = "copyHi"
  /\ rd' = [rd EXCEPT ![r].pc = "unpin", ![r].copy = <<@[1], hi[rd[r].ring][rd[r].ref.slot]>>]
  /\ UNCHANGED <<rings, slots, cp, sup, wr, refs, frames>>

(* The last reader out makes the slot DONE, whatever its state was.        *)
ReadUnpin(r) ==
  LET k == rd[r].ring  s == rd[r].ref.slot IN
  /\ rd[r].pc = "unpin"
  /\ pins' = [pins EXCEPT ![k][s] = @ \ {r}]
  /\ state' = IF pins[k][s] \subseteq {r} THEN [state EXCEPT ![k][s] = "DONE"] ELSE state
  /\ rd' = [rd EXCEPT ![r].pc = "idle"]
  /\ UNCHANGED <<rings, gen, lo, hi, cp, sup, wr, refs, frames>>

ReadStep(r) ==
  \/ ReaderReadName(r) \/ ReadCheck(r) \/ ReadPin(r) \/ ReadStale(r)
  \/ ReadCopyLo(r) \/ ReadCopyHi(r) \/ ReadUnpin(r)

--------------------------------------------------------------------------------
(* ShmRingBuffer.quarantine_poisoned_slot, by whoever timed out on a slot  *)
(* of the published ring.                                                  *)
Quarantine(s) ==
  /\ state[cpName][s] # "QUARANTINED"
  /\ state' = [state EXCEPT ![cpName][s] = "QUARANTINED"]
  /\ UNCHANGED <<rings, gen, pins, lo, hi, cp, sup, wr, rd, refs, frames>>

Next ==
  \/ SwitchStart \/ Supervise
  \/ WriterSpawn \/ WriteCall \/ WriteStep \/ WriterCrash
  \/ \E r \in Readers : ReaderSpawn(r) \/ ReadStep(r) \/ \E ref \in refs : ReadCall(r, ref)
  \/ \E s \in Slots : Quarantine(s)

Spec == Init /\ [][Next]_vars

--------------------------------------------------------------------------------
(* Properties.                                                             *)

Refs == [slot : Slots, gen : Nat, epoch : Nat, frame : Nat]

TypeOK ==
  /\ ringEpoch \in [Rings -> Nat] /\ registered \in [Rings -> Nat]
  /\ state \in [Rings -> [Slots -> SlotState]] /\ gen \in [Rings -> [Slots -> Nat]]
  /\ pins \in [Rings -> [Slots -> SUBSET Readers]]
  /\ lo \in [Rings -> [Slots -> Nat]] /\ hi \in [Rings -> [Slots -> Nat]]
  /\ cpEpoch \in Nat /\ cpName \in Rings
  /\ sup \in [pc : {"idle", "guard", "clear", "unregister", "bump", "name", "epoch"},
              new : Nat, slot : Slots, settled : BOOLEAN]
  /\ wr \in [pc : {"down", "idle", "name", "register", "construct", "mark",
                   "copyLo", "copyHi", "commit"},
             pid : Nat, epoch : Nat, ring : Rings, seen : Nat, target : Rings,
             label : Nat, next : Nat, slot : Slots, gen : Nat, frame : Nat]
  /\ rd \in [Readers ->
              [pc : {"down", "idle", "name", "check", "pin", "copyLo", "copyHi", "unpin"},
               epoch : Nat, ring : Rings, seen : Nat, ref : Refs, copy : Nat \X Nat]]
  /\ refs \in SUBSET Refs
  /\ frames \in Nat

Writing == wr.pc \in {"copyLo", "copyHi", "commit"}

Resetting == sup.pc \in {"guard", "clear", "unregister", "bump"}

(* Documented, and not true of the code: a whole frame that read_ref()     *)
(* returns is the frame of the ref.                                        *)
FrameOfRefAlways ==
  \A r \in Readers :
    rd[r].pc = "unpin" /\ rd[r].copy[1] = rd[r].copy[2] => rd[r].copy[1] = rd[r].ref.frame

(* While the deployment has paced its switchovers, a frame read_ref()      *)
(* returns is not half of one frame and half of another but the frame of   *)
(* the ref, ...                                                            *)
FrameOfRef ==
  sup.settled =>
    \A r \in Readers : rd[r].pc = "unpin" => rd[r].copy = <<rd[r].ref.frame, rd[r].ref.frame>>

(* ... the writer never writes into a ring under an epoch it has left, ... *)
WriteOfEpoch == sup.settled /\ Writing => wr.label = ringEpoch[wr.ring]

(* ... and a ring is published with all of its slots FREE: nothing         *)
(* quarantined, half written or pinned is inherited (Req 5.2).             *)
FullCapacity ==
  sup.settled /\ sup.pc \in {"unregister", "bump", "name"} =>
    \A s \in Slots : state[RingFor(sup.new)][s] = "FREE" /\ pins[RingFor(sup.new)][s] = {}

(* A read that began after epoch N+1 was published returns no frame of     *)
(* epoch N (Req 1.2), however slow the reader and whatever the supervisor  *)
(* does meanwhile.                                                         *)
StaleAfterSwitchover ==
  \A r \in Readers : rd[r].pc \in {"pin", "copyLo", "copyHi", "unpin"}
                       => rd[r].ref.epoch >= rd[r].seen

(* The ring the control plane leads to is not the one being reset.         *)
ResetSparesPublished == Resetting => RingFor(sup.new) # cpName

(* The published epoch is the epoch of the published ring: what publish()  *)
(* announces has been activated before.                                    *)
PublishedRingReady == sup.pc # "epoch" => ringEpoch[cpName] = cpEpoch

(* A switchover leads to a ring that is ready: never the one being reset,  *)
(* never before it is activated, never with a slot that is taken.          *)
SwitchoverSound == ResetSparesPublished /\ PublishedRingReady /\ FullCapacity

(* Documented, and not true of the code: epoch N+1 is published before any *)
(* ref of epoch N+1 exists (a reader handed one before finds the old ring  *)
(* current and loses the frame).                                           *)
RefAfterPublish == \A ref \in refs : ref.epoch <= cpEpoch

================================================================================
