---------------------------- MODULE RingEpochProofs ----------------------------
(***************************************************************************)
(* Proofs about RingEpoch for every pool, number of slots, set of readers  *)
(* and bound: no stale frame after a switchover, and a switchover that     *)
(* leads to a ring that has been activated; and, at the end, what depends  *)
(* on the pace of the switchovers.                                         *)
(***************************************************************************)
EXTENDS RingEpoch, TLAPS

(***************************************************************************)
(* The epochs.                                                             *)
(***************************************************************************)

(* The newest epoch some ring has been activated for, the newest one whose *)
(* ring the control plane names, and the one a switchover is heading for.  *)
Activated == IF sup.pc \in {"name", "epoch"} THEN sup.new ELSE cpEpoch
Published == IF sup.pc = "epoch" THEN sup.new ELSE cpEpoch
Latest    == IF sup.pc = "idle" THEN cpEpoch ELSE sup.new

(* The newest PoolSize epochs have their rings; an older ring is at an     *)
(* epoch of its own that is no older than any it was activated for.        *)
EpochsInv ==
  /\ cpEpoch >= 1
  /\ sup.pc # "idle" => sup.new = cpEpoch + 1
  /\ cpName = RingFor(Published)
  /\ \A e \in 1 .. Activated : ringEpoch[RingFor(e)] >= e
  /\ \A e \in 1 .. Activated : e + PoolSize > Activated => ringEpoch[RingFor(e)] = e
  /\ \A k \in Rings :
       ringEpoch[k] <= Activated /\ (ringEpoch[k] > 0 => RingFor(ringEpoch[k]) = k)

(* The ring is that of an epoch from e on that the control plane has named.*)
Led(k, e, newest) == \E f \in e .. newest : k = RingFor(f)
LedBy(k, e) == Led(k, e, Published)

(* Where a write() or a read_ref() has chosen its ring.                    *)
WriterInRing == wr.pc \in {"mark", "copyLo", "copyHi", "commit"}
InRing(r) == rd[r].pc \in {"check", "pin", "copyLo", "copyHi", "unpin"}
Checked(r) == rd[r].pc \in {"pin", "copyLo", "copyHi", "unpin"}
Pinning(r) == rd[r].pc \in {"copyLo", "copyHi", "unpin"}

(* The ring of the writer was published for the epoch the coordinator has  *)
(* noted or for a later one, and so was its label.                         *)
WriterInv ==
  /\ wr.seen <= cpEpoch
  /\ wr.pc # "down" => wr.pid >= 1 /\ wr.seen >= 1
  /\ wr.pc \in {"register", "construct"} => LedBy(wr.target, wr.seen)
  /\ wr.pc # "down" /\ wr.epoch > 0 =>
       /\ LedBy(wr.ring, wr.epoch)
       /\ RingFor(wr.label) = wr.ring /\ wr.epoch <= wr.label /\ wr.label <= Activated
  /\ wr.pc = "idle" \/ WriterInRing => wr.epoch > 0
  /\ WriterInRing => wr.epoch = wr.seen

(* The same of a reader; the ref it reads is one that write() returned,    *)
(* and once the ring's epoch is checked it is not of an epoch the reader   *)
(* had already found superseded.                                           *)
ReaderInv(r) ==
  /\ rd[r].seen <= cpEpoch
  /\ IF rd[r].pc = "down" THEN rd[r].epoch = 0 ELSE rd[r].seen >= 1
  /\ rd[r].epoch > 0 => LedBy(rd[r].ring, rd[r].epoch)
  /\ InRing(r) => rd[r].epoch = rd[r].seen
  /\ InRing(r) \/ (rd[r].pc = "name" /\ rd[r].epoch > 0) => rd[r].ref \in refs
  /\ Checked(r) => rd[r].ref.epoch >= rd[r].seen

RefsInv == \A ref \in refs : ref.epoch >= 1 /\ ref.epoch <= Activated

CoreInv ==
  /\ TypeOK
  /\ EpochsInv
  /\ WriterInv
  /\ \A r \in Readers : ReaderInv(r)
  /\ RefsInv

(***************************************************************************)
(* Arithmetic of the pool.                                                 *)
(***************************************************************************)
LEMMA PoolFacts ==
  /\ PoolSize \in Nat /\ PoolSize >= 2 /\ NSlots \in Nat /\ NSlots >= 1
  /\ Rings \subseteq Nat /\ 0 \in Rings /\ Slots \subseteq Nat /\ 0 \in Slots
  BY PoolAssumption DEF PoolAssumption, Rings, Slots

(* Every epoch has a ring of the pool.                                     *)
LEMMA RingForType ==
  ASSUME NEW e \in Nat
  PROVE  RingFor(e) \in Rings
  BY PoolAssumption, SMTT(30) DEF PoolAssumption, RingFor, Rings

(* Epochs that are less than PoolSize apart have different rings.          *)
LEMMA RingForNear ==
  ASSUME NEW e \in Nat, NEW f \in Nat, e < f, f < e + PoolSize
  PROVE  RingFor(e) # RingFor(f)
  <1> DEFINE a == e \div PoolSize
             b == f \div PoolSize
  <1>1. PoolSize \in Nat /\ PoolSize >= 2
    BY PoolFacts
  <1>2. /\ a \in Int /\ e % PoolSize \in Int /\ e = PoolSize * a + (e % PoolSize)
        /\ b \in Int /\ f % PoolSize \in Int /\ f = PoolSize * b + (f % PoolSize)
    BY <1>1, SMTT(30)
  <1> HIDE DEF a, b
  <1>3. SUFFICES ASSUME e % PoolSize = f % PoolSize
                 PROVE  FALSE
    BY DEF RingFor
  <1>4. PICK d \in Int : d = b - a
    BY <1>2
  <1>5. f - e = PoolSize * d
    BY <1>1, <1>2, <1>3, <1>4, SMTT(30)
  <1>6. PoolSize * d > 0 /\ PoolSize * d < PoolSize
    BY <1>1, <1>5
  <1> QED
    BY <1>1, <1>4, <1>6, SMTT(30)

(***************************************************************************)
(* What the steps do to the fields of the records and to the slots.        *)
(***************************************************************************)
SupRecord ==
  [pc : {"idle", "guard", "clear", "unregister", "bump", "name", "epoch"},
   new : Nat, slot : Slots, settled : BOOLEAN]

WriterRecord ==
  [pc : {"down", "idle", "name", "register", "construct", "mark", "copyLo", "copyHi", "commit"},
   pid : Nat, epoch : Nat, ring : Rings, seen : Nat, target : Rings,
   label : Nat, next : Nat, slot : Slots, gen : Nat, frame : Nat]

ReaderRecord ==
  [pc : {"down", "idle", "name", "check", "pin", "copyLo", "copyHi", "unpin"},
   epoch : Nat, ring : Rings, seen : Nat, ref : Refs, copy : Nat \X Nat]

(* One slot of one ring becomes v.                                         *)
CellSet(V, g, f, k, s, v) ==
  /\ g \in [Rings -> [Slots -> V]]
  /\ g[k][s] = v
  /\ \A j \in Rings, t \in Slots : j # k \/ t # s => g[j][t] = f[j][t]

(* A nested EXCEPT changes one slot of one ring.                           *)
LEMMA CellUpdate ==
  ASSUME NEW V, NEW f \in [Rings -> [Slots -> V]], NEW k \in Rings, NEW s \in Slots,
         NEW v \in V, NEW g, g = [f EXCEPT ![k][s] = v]
  PROVE  CellSet(V, g, f, k, s, v)
  BY DEF CellSet

OthersKeep(r) == \A q \in Readers : q # r => rd'[q] = rd[q]

(* A reader's step changes that reader only.                               *)
LEMMA OneReader ==
  ASSUME TypeOK, NEW r \in Readers, NEW v \in ReaderRecord, rd' = [rd EXCEPT ![r] = v]
  PROVE  rd' \in [Readers -> ReaderRecord] /\ rd'[r] = v /\ OthersKeep(r)
  BY DEF TypeOK, ReaderRecord, OthersKeep

(* A reader's steps.                                                        *)
LEMMA ReaderSpawnFields ==
  ASSUME TypeOK, NEW r \in Readers, ReaderSpawn(r)
  PROVE  /\ rd' \in [Readers -> ReaderRecord] /\ OthersKeep(r)
         /\ rd[r].pc = "down"
         /\ rd'[r].pc = "name"
         /\ rd'[r].epoch = rd[r].epoch
         /\ rd'[r].ring = rd[r].ring
         /\ rd'[r].seen = cpEpoch
         /\ rd'[r].ref = rd[r].ref
         /\ rd'[r].copy = rd[r].copy
  <1> DEFINE newPc == "name"
             newSeen == cpEpoch
             v == [rd[r] EXCEPT !.pc = newPc, !.seen = newSeen]
  <1>1. rd[r] \in ReaderRecord
    BY DEF TypeOK, ReaderRecord
  <1>2. newPc \in {"down", "idle", "name", "check", "pin", "copyLo", "copyHi", "unpin"} /\ newSeen \in Nat
    BY <1>1 DEF TypeOK, ReaderRecord
  <1>3. rd' = [rd EXCEPT ![r] = v] /\ rd[r].pc = "down"
    BY <1>1 DEF ReaderSpawn, ReaderRecord, TypeOK
  <1> HIDE DEF newPc, newSeen
  <1>4. v \in ReaderRecord /\ v.pc = newPc /\ v.epoch = rd[r].epoch /\ v.ring = rd[r].ring /\ v.seen = newSeen /\ v.ref = rd[r].ref /\ v.copy = rd[r].copy
    BY <1>1, <1>2 DEF ReaderRecord
  <1> HIDE DEF v
  <1> QED
    BY <1>3, <1>4, OneReader DEF newPc, newSeen

(* A call begins: the reader has a ref in hand and the epoch it read.      *)
LEMMA ReadCallFields ==
  ASSUME TypeOK, NEW r \in Readers, NEW ref \in refs, ReadCall(r, ref)
  PROVE  /\ rd' \in [Readers -> ReaderRecord] /\ OthersKeep(r)
         /\ rd[r].pc = "idle"
         /\ rd'[r].pc = IF cpEpoch = rd[r].epoch THEN "check" ELSE "name"
         /\ rd'[r].epoch = rd[r].epoch
         /\ rd'[r].ring = rd[r].ring
         /\ rd'[r].seen = cpEpoch
         /\ rd'[r].ref = ref
         /\ rd'[r].copy = rd[r].copy
  <1> DEFINE newPc == IF cpEpoch = rd[r].epoch THEN "check" ELSE "name"
             newSeen == cpEpoch
             newRef == ref
             v == [rd[r] EXCEPT !.pc = newPc, !.seen = newSeen, !.ref = newRef]
  <1>1. rd[r] \in ReaderRecord
    BY DEF TypeOK, ReaderRecord
  <1>2. newPc \in {"down", "idle", "name", "check", "pin", "copyLo", "copyHi", "unpin"} /\ newSeen \in Nat /\ newRef \in Refs
    BY <1>1 DEF TypeOK, ReaderRecord
  <1>3. rd' = [rd EXCEPT ![r] = v] /\ rd[r].pc = "idle"
    BY <1>1 DEF ReadCall, ReaderRecord, TypeOK
  <1> HIDE DEF newPc, newSeen, newRef
  <1>4. v \in ReaderRecord /\ v.pc = newPc /\ v.epoch = rd[r].epoch /\ v.ring = rd[r].ring /\ v.seen = newSeen /\ v.ref = newRef /\ v.copy = rd[r].copy
    BY <1>1, <1>2 DEF ReaderRecord
  <1> HIDE DEF v
  <1> QED
    BY <1>3, <1>4, OneReader DEF newPc, newSeen, newRef

(* The reader takes the ring the control plane names for the epoch it      *)
(* read.                                                                   *)
LEMMA ReaderReadNameFields ==
  ASSUME TypeOK, NEW r \in Readers, ReaderReadName(r)
  PROVE  /\ rd' \in [Readers -> ReaderRecord] /\ OthersKeep(r)
         /\ rd[r].pc = "name"
         /\ rd'[r].pc = IF rd[r].epoch = 0 THEN "idle" ELSE "check"
         /\ rd'[r].epoch = rd[r].seen
         /\ rd'[r].ring = cpName
         /\ rd'[r].seen = rd[r].seen
         /\ rd'[r].ref = rd[r].ref
         /\ rd'[r].copy = rd[r].copy
  <1> DEFINE newPc == IF rd[r].epoch = 0 THEN "idle" ELSE "check"
             newRing == cpName
             newEpoch == rd[r].seen
             v == [rd[r] EXCEPT !.pc = newPc, !.ring = newRing, !.epoch = newEpoch]
  <1>1. rd[r] \in ReaderRecord
    BY DEF TypeOK, ReaderRecord
  <1>2. newPc \in {"down", "idle", "name", "check", "pin", "copyLo", "copyHi", "unpin"} /\ newRing \in Rings /\ newEpoch \in Nat
    BY <1>1 DEF TypeOK, ReaderRecord
  <1>3. rd' = [rd EXCEPT ![r] = v] /\ rd[r].pc = "name"
    BY <1>1 DEF ReaderReadName, ReaderRecord, TypeOK
  <1> HIDE DEF newPc, newRing, newEpoch
  <1>4. v \in ReaderRecord /\ v.pc = newPc /\ v.epoch = newEpoch /\ v.ring = newRing /\ v.seen = rd[r].seen /\ v.ref = rd[r].ref /\ v.copy = rd[r].copy
    BY <1>1, <1>2 DEF ReaderRecord
  <1> HIDE DEF v
  <1> QED
    BY <1>3, <1>4, OneReader DEF newPc, newRing, newEpoch

(* The epoch check lets through a ref of the very epoch of the ring.       *)
LEMMA ReadCheckFields ==
  ASSUME TypeOK, NEW r \in Readers, ReadCheck(r)
  PROVE  /\ rd' \in [Readers -> ReaderRecord] /\ OthersKeep(r)
         /\ rd[r].pc = "check"
         /\ rd'[r].pc = IF rd[r].ref.epoch = ringEpoch[rd[r].ring] THEN "pin" ELSE "idle"
         /\ rd'[r].epoch = rd[r].epoch
         /\ rd'[r].ring = rd[r].ring
         /\ rd'[r].seen = rd[r].seen
         /\ rd'[r].ref = rd[r].ref
         /\ rd'[r].copy = rd[r].copy
  <1> DEFINE newPc == IF rd[r].ref.epoch = ringEpoch[rd[r].ring] THEN "pin" ELSE "idle"
             v == [rd[r] EXCEPT !.pc = newPc]
  <1>1. rd[r] \in ReaderRecord
    BY DEF TypeOK, ReaderRecord
  <1>2. newPc \in {"down", "idle", "name", "check", "pin", "copyLo", "copyHi", "unpin"}
    BY <1>1 DEF TypeOK, ReaderRecord
  <1>3. rd' = [rd EXCEPT ![r] = v] /\ rd[r].pc = "check"
    BY <1>1 DEF ReadCheck, ReaderRecord, TypeOK
  <1> HIDE DEF newPc
  <1>4. v \in ReaderRecord /\ v.pc = newPc /\ v.epoch = rd[r].epoch /\ v.ring = rd[r].ring /\ v.seen = rd[r].seen /\ v.ref = rd[r].ref /\ v.copy = rd[r].copy
    BY <1>1, <1>2 DEF ReaderRecord
  <1> HIDE DEF v
  <1> QED
    BY <1>3, <1>4, OneReader DEF newPc

(* The pin leaves the reader's ring and ref as they were.                  *)
LEMMA ReadPinFields ==
  ASSUME TypeOK, NEW r \in Readers, ReadPin(r)
  PROVE  /\ rd' \in [Readers -> ReaderRecord] /\ OthersKeep(r)
         /\ rd[r].pc = "pin"
         /\ rd'[r].pc = "copyLo"
         /\ rd'[r].epoch = rd[r].epoch
         /\ rd'[r].ring = rd[r].ring
         /\ rd'[r].seen = rd[r].seen
         /\ rd'[r].ref = rd[r].ref
         /\ rd'[r].copy = rd[r].copy
  <1> DEFINE newPc == "copyLo"
             v == [rd[r] EXCEPT !.pc = newPc]
  <1>1. rd[r] \in ReaderRecord
    BY DEF TypeOK, ReaderRecord
  <1>2. newPc \in {"down", "idle", "name", "check", "pin", "copyLo", "copyHi", "unpin"}
    BY <1>1 DEF TypeOK, ReaderRecord
  <1>3. rd' = [rd EXCEPT ![r] = v] /\ rd[r].pc = "pin"
    BY <1>1 DEF ReadPin, ReaderRecord, TypeOK
  <1> HIDE DEF newPc
  <1>4. v \in ReaderRecord /\ v.pc = newPc /\ v.epoch = rd[r].epoch /\ v.ring = rd[r].ring /\ v.seen = rd[r].seen /\ v.ref = rd[r].ref /\ v.copy = rd[r].copy
    BY <1>1, <1>2 DEF ReaderRecord
  <1> HIDE DEF v
  <1> QED
    BY <1>3, <1>4, OneReader DEF newPc

(* A stale ref ends the call.                                              *)
LEMMA ReadStaleFields ==
  ASSUME TypeOK, NEW r \in Readers, ReadStale(r)
  PROVE  /\ rd' \in [Readers -> ReaderRecord] /\ OthersKeep(r)
         /\ rd[r].pc = "pin"
         /\ rd'[r].pc = "idle"
         /\ rd'[r].epoch = rd[r].epoch
         /\ rd'[r].ring = rd[r].ring
         /\ rd'[r].seen = rd[r].seen
         /\ rd'[r].ref = rd[r].ref
         /\ rd'[r].copy = rd[r].copy
  <1> DEFINE newPc == "idle"
             v == [rd[r] EXCEPT !.pc = newPc]
  <1>1. rd[r] \in ReaderRecord
    BY DEF TypeOK, ReaderRecord
  <1>2. newPc \in {"down", "idle", "name", "check", "pin", "copyLo", "copyHi", "unpin"}
    BY <1>1 DEF TypeOK, ReaderRecord
  <1>3. rd' = [rd EXCEPT ![r] = v] /\ rd[r].pc = "pin"
    BY <1>1 DEF ReadStale, ReaderRecord, TypeOK
  <1> HIDE DEF newPc
  <1>4. v \in ReaderRecord /\ v.pc = newPc /\ v.epoch = rd[r].epoch /\ v.ring = rd[r].ring /\ v.seen = rd[r].seen /\ v.ref = rd[r].ref /\ v.copy = rd[r].copy
    BY <1>1, <1>2 DEF ReaderRecord
  <1> HIDE DEF v
  <1> QED
    BY <1>3, <1>4, OneReader DEF newPc

(* The first half of the copy goes into the first half of the result.      *)
LEMMA ReadCopyLoFields ==
  ASSUME TypeOK, NEW r \in Readers, ReadCopyLo(r)
  PROVE  /\ rd' \in [Readers -> ReaderRecord] /\ OthersKeep(r)
         /\ rd[r].pc = "copyLo"
         /\ rd'[r].pc = "copyHi"
         /\ rd'[r].epoch = rd[r].epoch
         /\ rd'[r].ring = rd[r].ring
         /\ rd'[r].seen = rd[r].seen
         /\ rd'[r].ref = rd[r].ref
         /\ rd'[r].copy = <<lo[rd[r].ring][rd[r].ref.slot], 0>>
  <1> DEFINE newPc == "copyHi"
             newCopy == <<lo[rd[r].ring][rd[r].ref.slot], 0>>
             v == [rd[r] EXCEPT !.pc = newPc, !.copy = newCopy]
  <1>1. rd[r] \in ReaderRecord
    BY DEF TypeOK, ReaderRecord
  <1>2. newPc \in {"down", "idle", "name", "check", "pin", "copyLo", "copyHi", "unpin"} /\ newCopy \in Nat \X Nat
    BY <1>1 DEF TypeOK, ReaderRecord, Refs
  <1>3. rd' = [rd EXCEPT ![r] = v] /\ rd[r].pc = "copyLo"
    BY <1>1 DEF ReadCopyLo, ReaderRecord, TypeOK
  <1> HIDE DEF newPc, newCopy
  <1>4. v \in ReaderRecord /\ v.pc = newPc /\ v.epoch = rd[r].epoch /\ v.ring = rd[r].ring /\ v.seen = rd[r].seen /\ v.ref = rd[r].ref /\ v.copy = newCopy
    BY <1>1, <1>2 DEF ReaderRecord
  <1> HIDE DEF v
  <1> QED
    BY <1>3, <1>4, OneReader DEF newPc, newCopy

(* The second half of the copy leaves the first half as it is.             *)
LEMMA ReadCopyHiFields ==
  ASSUME TypeOK, NEW r \in Readers, ReadCopyHi(r)
  PROVE  /\ rd' \in [Readers -> ReaderRecord] /\ OthersKeep(r)
         /\ rd[r].pc = "copyHi"
         /\ rd'[r].pc = "unpin"
         /\ rd'[r].epoch = rd[r].epoch
         /\ rd'[r].ring = rd[r].ring
         /\ rd'[r].seen = rd[r].seen
         /\ rd'[r].ref = rd[r].ref
         /\ rd'[r].copy = <<rd[r].copy[1], hi[rd[r].ring][rd[r].ref.slot]>>
  <1> DEFINE newPc == "unpin"
             newCopy == <<rd[r].copy[1], hi[rd[r].ring][rd[r].ref.slot]>>
             v == [rd[r] EXCEPT !.pc = newPc, !.copy = newCopy]
  <1>1. rd[r] \in ReaderRecord
    BY DEF TypeOK, ReaderRecord
  <1>2. newPc \in {"down", "idle", "name", "check", "pin", "copyLo", "copyHi", "unpin"} /\ newCopy \in Nat \X Nat
    BY <1>1 DEF TypeOK, ReaderRecord, Refs
  <1>3. rd' = [rd EXCEPT ![r] = v] /\ rd[r].pc = "copyHi"
    BY <1>1 DEF ReadCopyHi, ReaderRecord, TypeOK
  <1> HIDE DEF newPc, newCopy
  <1>4. v \in ReaderRecord /\ v.pc = newPc /\ v.epoch = rd[r].epoch /\ v.ring = rd[r].ring /\ v.seen = rd[r].seen /\ v.ref = rd[r].ref /\ v.copy = newCopy
    BY <1>1, <1>2 DEF ReaderRecord
  <1> HIDE DEF v
  <1> QED
    BY <1>3, <1>4, OneReader DEF newPc, newCopy

(* The unpin ends the call.                                                *)
LEMMA ReadUnpinFields ==
  ASSUME TypeOK, NEW r \in Readers, ReadUnpin(r)
  PROVE  /\ rd' \in [Readers -> ReaderRecord] /\ OthersKeep(r)
         /\ rd[r].pc = "unpin"
         /\ rd'[r].pc = "idle"
         /\ rd'[r].epoch = rd[r].epoch
         /\ rd'[r].ring = rd[r].ring
         /\ rd'[r].seen = rd[r].seen
         /\ rd'[r].ref = rd[r].ref
         /\ rd'[r].copy = rd[r].copy
  <1> DEFINE newPc == "idle"
             v == [rd[r] EXCEPT !.pc = newPc]
  <1>1. rd[r] \in ReaderRecord
    BY DEF TypeOK, ReaderRecord
  <1>2. newPc \in {"down", "idle", "name", "check", "pin", "copyLo", "copyHi", "unpin"}
    BY <1>1 DEF TypeOK, ReaderRecord
  <1>3. rd' = [rd EXCEPT ![r] = v] /\ rd[r].pc = "unpin"
    BY <1>1 DEF ReadUnpin, ReaderRecord, TypeOK
  <1> HIDE DEF newPc
  <1>4. v \in ReaderRecord /\ v.pc = newPc /\ v.epoch = rd[r].epoch /\ v.ring = rd[r].ring /\ v.seen = rd[r].seen /\ v.ref = rd[r].ref /\ v.copy = rd[r].copy
    BY <1>1, <1>2 DEF ReaderRecord
  <1> HIDE DEF v
  <1> QED
    BY <1>3, <1>4, OneReader DEF newPc

(* The writer's steps.                                                     *)
LEMMA WriterSpawnFields ==
  ASSUME TypeOK, WriterSpawn
  PROVE  /\ wr' \in WriterRecord
         /\ wr.pc = "down"
         /\ wr'.pc = "name"
         /\ wr'.pid = wr.pid + 1
         /\ wr'.epoch = 0
         /\ wr'.seen = cpEpoch
         /\ wr'.ring = wr.ring /\ wr'.target = wr.target /\ wr'.label = wr.label
         /\ wr'.next = wr.next /\ wr'.slot = wr.slot /\ wr'.gen = wr.gen
         /\ wr'.frame = wr.frame
  <1> DEFINE newPc == "name"
             newPid == wr.pid + 1
             newEpoch == 0
             newSeen == cpEpoch
  <1>1. wr \in WriterRecord
    BY DEF TypeOK, WriterRecord
  <1>2. /\ newPc \in {"down", "idle", "name", "register", "construct", "mark", "copyLo", "copyHi", "commit"}
        /\ newPid \in Nat
        /\ newEpoch \in Nat
        /\ newSeen \in Nat
    BY <1>1 DEF TypeOK, WriterRecord
  <1>3. wr.pc = "down" /\ wr' = [wr EXCEPT !.pc = newPc, !.pid = newPid, !.epoch = newEpoch, !.seen = newSeen]
    BY DEF WriterSpawn
  <1> HIDE DEF newPc, newPid, newEpoch, newSeen
  <1> QED
    BY <1>1, <1>2, <1>3 DEF WriterRecord, newPc, newPid, newEpoch, newSeen

(* A write() begins: straight on in a known epoch, or by the name first.   *)
LEMMA WriteCallFields ==
  ASSUME TypeOK, WriteCall
  PROVE  /\ wr' \in WriterRecord
         /\ wr.pc = "idle"
         /\ wr'.pc = IF cpEpoch = wr.epoch THEN "mark" ELSE "name"
         /\ wr'.seen = cpEpoch
         /\ wr'.pid = wr.pid /\ wr'.epoch = wr.epoch /\ wr'.ring = wr.ring
         /\ wr'.target = wr.target /\ wr'.label = wr.label /\ wr'.next = wr.next
         /\ wr'.slot = wr.slot /\ wr'.gen = wr.gen /\ wr'.frame = wr.frame
  <1> DEFINE newPc == IF cpEpoch = wr.epoch THEN "mark" ELSE "name"
             newSeen == cpEpoch
  <1>1. wr \in WriterRecord
    BY DEF TypeOK, WriterRecord
  <1>2. /\ newPc \in {"down", "idle", "name", "register", "construct", "mark", "copyLo", "copyHi", "commit"}
        /\ newSeen \in Nat
    BY <1>1 DEF TypeOK, WriterRecord
  <1>3. wr.pc = "idle" /\ wr' = [wr EXCEPT !.pc = newPc, !.seen = newSeen]
    BY DEF WriteCall
  <1> HIDE DEF newPc, newSeen
  <1> QED
    BY <1>1, <1>2, <1>3 DEF WriterRecord, newPc, newSeen

(* The writer takes the ring the control plane names for the epoch it      *)
(* read.                                                                   *)
LEMMA WriterReadNameFields ==
  ASSUME TypeOK, WriterReadName
  PROVE  /\ wr' \in WriterRecord
         /\ wr.pc = "name"
         /\ wr'.pc = "register"
         /\ wr'.target = cpName
         /\ wr'.pid = wr.pid /\ wr'.epoch = wr.epoch /\ wr'.ring = wr.ring
         /\ wr'.seen = wr.seen /\ wr'.label = wr.label /\ wr'.next = wr.next
         /\ wr'.slot = wr.slot /\ wr'.gen = wr.gen /\ wr'.frame = wr.frame
  <1> DEFINE newPc == "register"
             newTarget == cpName
  <1>1. wr \in WriterRecord
    BY DEF TypeOK, WriterRecord
  <1>2. /\ newPc \in {"down", "idle", "name", "register", "construct", "mark", "copyLo", "copyHi", "commit"}
        /\ newTarget \in Rings
    BY <1>1 DEF TypeOK, WriterRecord
  <1>3. wr.pc = "name" /\ wr' = [wr EXCEPT !.pc = newPc, !.target = newTarget]
    BY DEF WriterReadName
  <1> HIDE DEF newPc, newTarget
  <1> QED
    BY <1>1, <1>2, <1>3 DEF WriterRecord, newPc, newTarget

(* Registered, it goes on to construct its FrameRing.                      *)
LEMMA RegisterFields ==
  ASSUME TypeOK, Register
  PROVE  /\ wr' \in WriterRecord
         /\ wr.pc = "register"
         /\ wr'.pc = "construct"
         /\ wr'.pid = wr.pid /\ wr'.epoch = wr.epoch /\ wr'.ring = wr.ring
         /\ wr'.seen = wr.seen /\ wr'.target = wr.target /\ wr'.label = wr.label
         /\ wr'.next = wr.next /\ wr'.slot = wr.slot /\ wr'.gen = wr.gen
         /\ wr'.frame = wr.frame
  <1> DEFINE newPc == "construct"
  <1>1. wr \in WriterRecord
    BY DEF TypeOK, WriterRecord
  <1>2. newPc \in {"down", "idle", "name", "register", "construct", "mark", "copyLo", "copyHi", "commit"}
    BY <1>1 DEF TypeOK, WriterRecord
  <1>3. wr.pc = "register" /\ wr' = [wr EXCEPT !.pc = newPc]
    BY DEF Register
  <1> HIDE DEF newPc
  <1> QED
    BY <1>1, <1>2, <1>3 DEF WriterRecord, newPc

(* Refused, the writer is down.                                            *)
LEMMA RefusedFields ==
  ASSUME TypeOK, Refused
  PROVE  /\ wr' \in WriterRecord
         /\ wr.pc = "register"
         /\ wr'.pc = "down"
         /\ wr'.pid = wr.pid /\ wr'.epoch = wr.epoch /\ wr'.ring = wr.ring
         /\ wr'.seen = wr.seen /\ wr'.target = wr.target /\ wr'.label = wr.label
         /\ wr'.next = wr.next /\ wr'.slot = wr.slot /\ wr'.gen = wr.gen
         /\ wr'.frame = wr.frame
  <1> DEFINE newPc == "down"
  <1>1. wr \in WriterRecord
    BY DEF TypeOK, WriterRecord
  <1>2. newPc \in {"down", "idle", "name", "register", "construct", "mark", "copyLo", "copyHi", "commit"}
    BY <1>1 DEF TypeOK, WriterRecord
  <1>3. wr.pc = "register" /\ wr' = [wr EXCEPT !.pc = newPc]
    BY DEF Refused
  <1> HIDE DEF newPc
  <1> QED
    BY <1>1, <1>2, <1>3 DEF WriterRecord, newPc

(* The constructed ring is the writer's, with the label the ring had then. *)
LEMMA ConstructFields ==
  ASSUME TypeOK, Construct
  PROVE  /\ wr' \in WriterRecord
         /\ wr.pc = "construct"
         /\ wr'.pc = IF wr.epoch = 0 THEN "idle" ELSE "mark"
         /\ wr'.epoch = wr.seen
         /\ wr'.ring = wr.target
         /\ wr'.label = ringEpoch[wr.target]
         /\ wr'.next = 1
         /\ wr'.pid = wr.pid /\ wr'.seen = wr.seen /\ wr'.target = wr.target
         /\ wr'.slot = wr.slot /\ wr'.gen = wr.gen /\ wr'.frame = wr.frame
  <1> DEFINE newPc == IF wr.epoch = 0 THEN "idle" ELSE "mark"
             newEpoch == wr.seen
             newRing == wr.target
             newLabel == ringEpoch[wr.target]
             newNext == 1
  <1>1. wr \in WriterRecord
    BY DEF TypeOK, WriterRecord
  <1>2. /\ newPc \in {"down", "idle", "name", "register", "construct", "mark", "copyLo", "copyHi", "commit"}
        /\ newEpoch \in Nat
        /\ newRing \in Rings
        /\ newLabel \in Nat
        /\ newNext \in Nat
    BY <1>1 DEF TypeOK, WriterRecord
  <1>3. wr.pc = "construct" /\ wr' = [wr EXCEPT !.pc = newPc, !.epoch = newEpoch, !.ring = newRing, !.label = newLabel, !.next = newNext]
    BY DEF Construct
  <1> HIDE DEF newPc, newEpoch, newRing, newLabel, newNext
  <1> QED
    BY <1>1, <1>2, <1>3 DEF WriterRecord, newPc, newEpoch, newRing, newLabel, newNext

(* The slot is marked under the writer's next generation.                  *)
LEMMA WriteMarkFields ==
  ASSUME TypeOK, NEW s \in Slots, WriteMark(s)
  PROVE  /\ wr' \in WriterRecord
         /\ wr.pc = "mark"
         /\ wr'.pc = "copyLo"
         /\ wr'.slot = s
         /\ wr'.gen = wr.next
         /\ wr'.next = wr.next + 1
         /\ wr'.frame = frames + 1
         /\ wr'.pid = wr.pid /\ wr'.epoch = wr.epoch /\ wr'.ring = wr.ring
         /\ wr'.seen = wr.seen /\ wr'.target = wr.target /\ wr'.label = wr.label
  <1> DEFINE newPc == "copyLo"
             newSlot == s
             newGen == wr.next
             newNext == wr.next + 1
             newFrame == frames + 1
  <1>1. wr \in WriterRecord
    BY DEF TypeOK, WriterRecord
  <1>2. /\ newPc \in {"down", "idle", "name", "register", "construct", "mark", "copyLo", "copyHi", "commit"}
        /\ newSlot \in Slots
        /\ newGen \in Nat
        /\ newNext \in Nat
        /\ newFrame \in Nat
    BY <1>1 DEF TypeOK, WriterRecord
  <1>3. wr.pc = "mark" /\ wr' = [wr EXCEPT !.pc = newPc, !.slot = newSlot, !.gen = newGen, !.next = newNext, !.frame = newFrame]
    BY DEF WriteMark
  <1> HIDE DEF newPc, newSlot, newGen, newNext, newFrame
  <1> QED
    BY <1>1, <1>2, <1>3 DEF WriterRecord, newPc, newSlot, newGen, newNext, newFrame

(* No slot: the call ends.                                                 *)
LEMMA WriteBusyFields ==
  ASSUME TypeOK, NEW s \in Slots, WriteBusy(s)
  PROVE  /\ wr' \in WriterRecord
         /\ wr.pc = "mark"
         /\ wr'.pc = "idle"
         /\ wr'.pid = wr.pid /\ wr'.epoch = wr.epoch /\ wr'.ring = wr.ring
         /\ wr'.seen = wr.seen /\ wr'.target = wr.target /\ wr'.label = wr.label
         /\ wr'.next = wr.next /\ wr'.slot = wr.slot /\ wr'.gen = wr.gen
         /\ wr'.frame = wr.frame
  <1> DEFINE newPc == "idle"
  <1>1. wr \in WriterRecord
    BY DEF TypeOK, WriterRecord
  <1>2. newPc \in {"down", "idle", "name", "register", "construct", "mark", "copyLo", "copyHi", "commit"}
    BY <1>1 DEF TypeOK, WriterRecord
  <1>3. wr.pc = "mark" /\ wr' = [wr EXCEPT !.pc = newPc]
    BY DEF WriteBusy
  <1> HIDE DEF newPc
  <1> QED
    BY <1>1, <1>2, <1>3 DEF WriterRecord, newPc

(* The first half of the frame is written, nothing else of the writer      *)
(* changes.                                                                *)
LEMMA WriteCopyLoFields ==
  ASSUME TypeOK, WriteCopyLo
  PROVE  /\ wr' \in WriterRecord
         /\ wr.pc = "copyLo"
         /\ wr'.pc = "copyHi"
         /\ wr'.pid = wr.pid /\ wr'.epoch = wr.epoch /\ wr'.ring = wr.ring
         /\ wr'.seen = wr.seen /\ wr'.target = wr.target /\ wr'.label = wr.label
         /\ wr'.next = wr.next /\ wr'.slot = wr.slot /\ wr'.gen = wr.gen
         /\ wr'.frame = wr.frame
  <1> DEFINE newPc == "copyHi"
  <1>1. wr \in WriterRecord
    BY DEF TypeOK, WriterRecord
  <1>2. newPc \in {"down", "idle", "name", "register", "construct", "mark", "copyLo", "copyHi", "commit"}
    BY <1>1 DEF TypeOK, WriterRecord
  <1>3. wr.pc = "copyLo" /\ wr' = [wr EXCEPT !.pc = newPc]
    BY DEF WriteCopyLo
  <1> HIDE DEF newPc
  <1> QED
    BY <1>1, <1>2, <1>3 DEF WriterRecord, newPc

(* The second half of the frame is written.                                *)
LEMMA WriteCopyHiFields ==
  ASSUME TypeOK, WriteCopyHi
  PROVE  /\ wr' \in WriterRecord
         /\ wr.pc = "copyHi"
         /\ wr'.pc = "commit"
         /\ wr'.pid = wr.pid /\ wr'.epoch = wr.epoch /\ wr'.ring = wr.ring
         /\ wr'.seen = wr.seen /\ wr'.target = wr.target /\ wr'.label = wr.label
         /\ wr'.next = wr.next /\ wr'.slot = wr.slot /\ wr'.gen = wr.gen
         /\ wr'.frame = wr.frame
  <1> DEFINE newPc == "commit"
  <1>1. wr \in WriterRecord
    BY DEF TypeOK, WriterRecord
  <1>2. newPc \in {"down", "idle", "name", "register", "construct", "mark", "copyLo", "copyHi", "commit"}
    BY <1>1 DEF TypeOK, WriterRecord
  <1>3. wr.pc = "copyHi" /\ wr' = [wr EXCEPT !.pc = newPc]
    BY DEF WriteCopyHi
  <1> HIDE DEF newPc
  <1> QED
    BY <1>1, <1>2, <1>3 DEF WriterRecord, newPc

(* The commit ends the call.                                               *)
LEMMA WriteCommitFields ==
  ASSUME TypeOK, WriteCommit
  PROVE  /\ wr' \in WriterRecord
         /\ wr.pc = "commit"
         /\ wr'.pc = "idle"
         /\ wr'.pid = wr.pid /\ wr'.epoch = wr.epoch /\ wr'.ring = wr.ring
         /\ wr'.seen = wr.seen /\ wr'.target = wr.target /\ wr'.label = wr.label
         /\ wr'.next = wr.next /\ wr'.slot = wr.slot /\ wr'.gen = wr.gen
         /\ wr'.frame = wr.frame
  <1> DEFINE newPc == "idle"
  <1>1. wr \in WriterRecord
    BY DEF TypeOK, WriterRecord
  <1>2. newPc \in {"down", "idle", "name", "register", "construct", "mark", "copyLo", "copyHi", "commit"}
    BY <1>1 DEF TypeOK, WriterRecord
  <1>3. wr.pc = "commit" /\ wr' = [wr EXCEPT !.pc = newPc]
    BY DEF WriteCommit
  <1> HIDE DEF newPc
  <1> QED
    BY <1>1, <1>2, <1>3 DEF WriterRecord, newPc

(* A crash takes the writer down wherever it is.                           *)
LEMMA WriterCrashFields ==
  ASSUME TypeOK, WriterCrash
  PROVE  /\ wr' \in WriterRecord
         /\ wr'.pc = "down"
         /\ wr'.pid = wr.pid /\ wr'.epoch = wr.epoch /\ wr'.ring = wr.ring
         /\ wr'.seen = wr.seen /\ wr'.target = wr.target /\ wr'.label = wr.label
         /\ wr'.next = wr.next /\ wr'.slot = wr.slot /\ wr'.gen = wr.gen
         /\ wr'.frame = wr.frame
  <1> DEFINE newPc == "down"
  <1>1. wr \in WriterRecord
    BY DEF TypeOK, WriterRecord
  <1>2. newPc \in {"down", "idle", "name", "register", "construct", "mark", "copyLo", "copyHi", "commit"}
    BY <1>1 DEF TypeOK, WriterRecord
  <1>3. wr' = [wr EXCEPT !.pc = newPc]
    BY DEF WriterCrash
  <1> HIDE DEF newPc
  <1> QED
    BY <1>1, <1>2, <1>3 DEF WriterRecord, newPc

(* The steps on the slots.                                                 *)
LEMMA ClearCells ==
  ASSUME TypeOK, Clear
  PROVE  /\ CellSet(SlotState, state', state, RingFor(sup.new), sup.slot, "FREE")
         /\ CellSet(Nat, gen', gen, RingFor(sup.new), sup.slot, 0)
         /\ CellSet(SUBSET Readers, pins', pins, RingFor(sup.new), sup.slot, {})
  <1>1. RingFor(sup.new) \in Rings /\ sup.slot \in Slots
    BY RingForType DEF TypeOK, Refs
  <1>2. state \in [Rings -> [Slots -> SlotState]] /\ "FREE" \in SlotState
    BY <1>1 DEF TypeOK, SlotState
  <1>3. gen \in [Rings -> [Slots -> Nat]] /\ 0 \in Nat
    BY <1>1 DEF TypeOK, SlotState
  <1>4. pins \in [Rings -> [Slots -> SUBSET Readers]] /\ {} \in SUBSET Readers
    BY <1>1 DEF TypeOK, SlotState
  <1>5. state' = [state EXCEPT ![RingFor(sup.new)][sup.slot] = "FREE"] /\ gen' = [gen EXCEPT ![RingFor(sup.new)][sup.slot] = 0] /\ pins' = [pins EXCEPT ![RingFor(sup.new)][sup.slot] = {}]
    BY DEF Clear
  <1> QED
    BY <1>1, <1>2, <1>3, <1>4, <1>5, CellUpdate

(* The mark changes one slot of the writer's ring.                         *)
LEMMA WriteMarkCells ==
  ASSUME TypeOK, NEW s \in Slots, WriteMark(s)
  PROVE  /\ CellSet(SlotState, state', state, wr.ring, s, "WRITING")
         /\ CellSet(Nat, gen', gen, wr.ring, s, wr.next)
  <1>1. wr.ring \in Rings /\ s \in Slots
    BY RingForType DEF TypeOK, Refs
  <1>2. state \in [Rings -> [Slots -> SlotState]] /\ "WRITING" \in SlotState
    BY <1>1 DEF TypeOK, SlotState
  <1>3. gen \in [Rings -> [Slots -> Nat]] /\ wr.next \in Nat
    BY <1>1 DEF TypeOK, SlotState
  <1>4. state' = [state EXCEPT ![wr.ring][s] = "WRITING"] /\ gen' = [gen EXCEPT ![wr.ring][s] = wr.next]
    BY DEF WriteMark
  <1> QED
    BY <1>1, <1>2, <1>3, <1>4, CellUpdate

(* The copy of the first half changes one slot of the writer's ring.       *)
LEMMA WriteCopyLoCells ==
  ASSUME TypeOK, WriteCopyLo
  PROVE  CellSet(Nat, lo', lo, wr.ring, wr.slot, wr.frame)
  <1>1. wr.ring \in Rings /\ wr.slot \in Slots
    BY RingForType DEF TypeOK, Refs
  <1>2. lo \in [Rings -> [Slots -> Nat]] /\ wr.frame \in Nat
    BY <1>1 DEF TypeOK, SlotState
  <1>3. lo' = [lo EXCEPT ![wr.ring][wr.slot] = wr.frame]
    BY DEF WriteCopyLo
  <1> QED
    BY <1>1, <1>2, <1>3, CellUpdate

(* The copy of the second half changes one slot of the writer's ring.      *)
LEMMA WriteCopyHiCells ==
  ASSUME TypeOK, WriteCopyHi
  PROVE  CellSet(Nat, hi', hi, wr.ring, wr.slot, wr.frame)
  <1>1. wr.ring \in Rings /\ wr.slot \in Slots
    BY RingForType DEF TypeOK, Refs
  <1>2. hi \in [Rings -> [Slots -> Nat]] /\ wr.frame \in Nat
    BY <1>1 DEF TypeOK, SlotState
  <1>3. hi' = [hi EXCEPT ![wr.ring][wr.slot] = wr.frame]
    BY DEF WriteCopyHi
  <1> QED
    BY <1>1, <1>2, <1>3, CellUpdate

(* The commit changes one slot of the writer's ring.                       *)
LEMMA WriteCommitCells ==
  ASSUME TypeOK, WriteCommit
  PROVE  /\ CellSet(SlotState, state', state, wr.ring, wr.slot, "READY")
         /\ CellSet(Nat, gen', gen, wr.ring, wr.slot, wr.gen)
  <1>1. wr.ring \in Rings /\ wr.slot \in Slots
    BY RingForType DEF TypeOK, Refs
  <1>2. state \in [Rings -> [Slots -> SlotState]] /\ "READY" \in SlotState
    BY <1>1 DEF TypeOK, SlotState
  <1>3. gen \in [Rings -> [Slots -> Nat]] /\ wr.gen \in Nat
    BY <1>1 DEF TypeOK, SlotState
  <1>4. state' = [state EXCEPT ![wr.ring][wr.slot] = "READY"] /\ gen' = [gen EXCEPT ![wr.ring][wr.slot] = wr.gen]
    BY DEF WriteCommit
  <1> QED
    BY <1>1, <1>2, <1>3, <1>4, CellUpdate

(* A quarantine takes one slot of the ring the control plane names.        *)
LEMMA QuarantineCells ==
  ASSUME TypeOK, NEW s \in Slots, Quarantine(s)
  PROVE  CellSet(SlotState, state', state, cpName, s, "QUARANTINED")
  <1>1. cpName \in Rings /\ s \in Slots
    BY RingForType DEF TypeOK, Refs
  <1>2. state \in [Rings -> [Slots -> SlotState]] /\ "QUARANTINED" \in SlotState
    BY <1>1 DEF TypeOK, SlotState
  <1>3. state' = [state EXCEPT ![cpName][s] = "QUARANTINED"]
    BY DEF Quarantine
  <1> QED
    BY <1>1, <1>2, <1>3, CellUpdate

(* A pin changes one slot of the reader's ring.                            *)
LEMMA ReadPinCells ==
  ASSUME TypeOK, NEW r \in Readers, ReadPin(r)
  PROVE  /\ CellSet(SlotState, state', state, rd[r].ring, rd[r].ref.slot, "READING")
         /\ CellSet(SUBSET Readers, pins', pins, rd[r].ring, rd[r].ref.slot, pins[rd[r].ring][rd[r].ref.slot] \cup {r})
  <1>1. rd[r].ring \in Rings /\ rd[r].ref.slot \in Slots
    BY RingForType DEF TypeOK, Refs
  <1>2. state \in [Rings -> [Slots -> SlotState]] /\ "READING" \in SlotState
    BY <1>1 DEF TypeOK, SlotState
  <1>3. pins \in [Rings -> [Slots -> SUBSET Readers]] /\ pins[rd[r].ring][rd[r].ref.slot] \cup {r} \in SUBSET Readers
    BY <1>1 DEF TypeOK, SlotState
  <1>4. state' = [state EXCEPT ![rd[r].ring][rd[r].ref.slot] = "READING"] /\ pins' = [pins EXCEPT ![rd[r].ring][rd[r].ref.slot] = pins[rd[r].ring][rd[r].ref.slot] \cup {r}]
    BY DEF ReadPin
  <1> QED
    BY <1>1, <1>2, <1>3, <1>4, CellUpdate

(* The unpin takes the reader off its slot; the last one marks it DONE.    *)
LEMMA ReadUnpinCells ==
  ASSUME TypeOK, NEW r \in Readers, ReadUnpin(r)
  PROVE  LET k == rd[r].ring  s == rd[r].ref.slot IN
         /\ CellSet(SUBSET Readers, pins', pins, k, s, pins[k][s] \ {r})
         /\ state' = state \/ CellSet(SlotState, state', state, k, s, "DONE")
  <1> DEFINE k == rd[r].ring
             s == rd[r].ref.slot
  <1>1. k \in Rings /\ s \in Slots
    BY DEF TypeOK, Refs
  <1>2. /\ state \in [Rings -> [Slots -> SlotState]] /\ "DONE" \in SlotState
        /\ pins \in [Rings -> [Slots -> SUBSET Readers]]
    BY DEF TypeOK, SlotState
  <1>3. /\ pins' = [pins EXCEPT ![k][s] = pins[k][s] \ {r}]
        /\ state' = state \/ state' = [state EXCEPT ![k][s] = "DONE"]
    BY DEF ReadUnpin
  <1> HIDE DEF k, s
  <1>4. pins[k][s] \ {r} \in SUBSET Readers
    BY <1>1, <1>2
  <1>5. CellSet(SUBSET Readers, pins', pins, k, s, pins[k][s] \ {r})
    BY <1>1, <1>2, <1>3, <1>4, CellUpdate
  <1>6. state' = state \/ CellSet(SlotState, state', state, k, s, "DONE")
    BY <1>1, <1>2, <1>3, CellUpdate
  <1> QED
    BY <1>5, <1>6 DEF k, s

(* The supervisor's steps.                                                 *)
LEMMA SwitchStartFields ==
  ASSUME TypeOK, SwitchStart
  PROVE  /\ sup' \in SupRecord
         /\ sup.pc = "idle" /\ sup'.pc = "guard"
         /\ sup'.new = cpEpoch + 1 /\ sup'.slot = 0
         /\ sup'.settled = (sup.settled /\ Settled(cpEpoch + 1))
  <1> DEFINE newSettled == sup.settled /\ Settled(cpEpoch + 1)
             newNew == cpEpoch + 1
  <1>1. newSettled \in BOOLEAN /\ newNew \in Nat /\ 0 \in Slots
    BY PoolFacts DEF TypeOK
  <1>2. sup.pc = "idle" /\ sup' = [pc |-> "guard", new |-> newNew, slot |-> 0, settled |-> newSettled]
    BY DEF SwitchStart
  <1> HIDE DEF newSettled, newNew
  <1>3. /\ sup' \in SupRecord
        /\ sup'.pc = "guard" /\ sup'.new = newNew /\ sup'.slot = 0 /\ sup'.settled = newSettled
    BY <1>1, <1>2 DEF SupRecord
  <1> QED
    BY <1>2, <1>3 DEF newSettled, newNew

(* Guarded off, the supervisor is idle again.                              *)
LEMMA DeferFields ==
  ASSUME TypeOK, Defer
  PROVE  /\ sup' \in SupRecord
         /\ sup.pc = "guard" /\ sup'.pc = "idle"
         /\ sup'.new = sup.new /\ sup'.slot = sup.slot /\ sup'.settled = sup.settled
  <1>1. sup \in SupRecord
    BY DEF TypeOK, SupRecord
  <1>2. sup.pc = "guard" /\ sup' = [sup EXCEPT !.pc = "idle"]
    BY DEF Defer
  <1> QED
    BY <1>1, <1>2 DEF SupRecord

(* After the ring is unregistered comes the bump of its epoch.             *)
LEMMA UnregisterFields ==
  ASSUME TypeOK, Unregister
  PROVE  /\ sup' \in SupRecord
         /\ sup.pc = "unregister" /\ sup'.pc = "bump"
         /\ sup'.new = sup.new /\ sup'.slot = sup.slot /\ sup'.settled = sup.settled
  <1>1. sup \in SupRecord
    BY DEF TypeOK, SupRecord
  <1>2. sup.pc = "unregister" /\ sup' = [sup EXCEPT !.pc = "bump"]
    BY DEF Unregister
  <1> QED
    BY <1>1, <1>2 DEF SupRecord

(* After the bump the name is published.                                   *)
LEMMA BumpFields ==
  ASSUME TypeOK, Bump
  PROVE  /\ sup' \in SupRecord
         /\ sup.pc = "bump" /\ sup'.pc = "name"
         /\ sup'.new = sup.new /\ sup'.slot = sup.slot /\ sup'.settled = sup.settled
  <1>1. sup \in SupRecord
    BY DEF TypeOK, SupRecord
  <1>2. sup.pc = "bump" /\ sup' = [sup EXCEPT !.pc = "name"]
    BY DEF Bump
  <1> QED
    BY <1>1, <1>2 DEF SupRecord

(* After the name the epoch is published.                                  *)
LEMMA PublishNameFields ==
  ASSUME TypeOK, PublishName
  PROVE  /\ sup' \in SupRecord
         /\ sup.pc = "name" /\ sup'.pc = "epoch"
         /\ sup'.new = sup.new /\ sup'.slot = sup.slot /\ sup'.settled = sup.settled
  <1>1. sup \in SupRecord
    BY DEF TypeOK, SupRecord
  <1>2. sup.pc = "name" /\ sup' = [sup EXCEPT !.pc = "epoch"]
    BY DEF PublishName
  <1> QED
    BY <1>1, <1>2 DEF SupRecord

(* With the epoch published the supervisor is idle again.                  *)
LEMMA PublishEpochFields ==
  ASSUME TypeOK, PublishEpoch
  PROVE  /\ sup' \in SupRecord
         /\ sup.pc = "epoch" /\ sup'.pc = "idle"
         /\ sup'.new = sup.new /\ sup'.slot = sup.slot /\ sup'.settled = sup.settled
  <1>1. sup \in SupRecord
    BY DEF TypeOK, SupRecord
  <1>2. sup.pc = "epoch" /\ sup' = [sup EXCEPT !.pc = "idle"]
    BY DEF PublishEpoch
  <1> QED
    BY <1>1, <1>2 DEF SupRecord

(* A pass goes from slot to slot and then to the next phase.               *)
LEMMA NextPassFields ==
  ASSUME TypeOK, NEW phase \in {"clear", "unregister"}, NextPass(phase)
  PROVE  /\ sup' \in SupRecord
         /\ sup'.new = sup.new /\ sup'.settled = sup.settled
         /\ \/ sup'.pc = sup.pc /\ sup'.slot = sup.slot + 1
            \/ sup'.pc = phase /\ sup'.slot = 0 /\ sup.slot + 1 >= NSlots
  <1>1. /\ sup \in SupRecord /\ sup.slot \in Slots /\ sup.slot \in Nat /\ 0 \in Slots
        /\ NSlots \in Nat
    BY PoolFacts DEF TypeOK, SupRecord, Slots
  <1>2. CASE sup.slot + 1 < NSlots
    <2> DEFINE next == sup.slot + 1
    <2>1. next \in Slots
      BY <1>1, <1>2 DEF Slots
    <2>2. sup' = [sup EXCEPT !.slot = next]
      BY <1>2 DEF NextPass
    <2> HIDE DEF next
    <2>3. /\ sup' \in SupRecord
          /\ sup'.new = sup.new /\ sup'.settled = sup.settled
          /\ sup'.pc = sup.pc /\ sup'.slot = next
      BY <1>1, <2>1, <2>2 DEF SupRecord
    <2> QED
      BY <2>3 DEF next
  <1>3. CASE ~(sup.slot + 1 < NSlots)
    <2>1. sup' = [sup EXCEPT !.slot = 0, !.pc = phase]
      BY <1>3 DEF NextPass
    <2>2. /\ sup' \in SupRecord
          /\ sup'.new = sup.new /\ sup'.settled = sup.settled
          /\ sup'.pc = phase /\ sup'.slot = 0
      BY <1>1, <2>1 DEF SupRecord
    <2> QED
      BY <1>1, <1>3, <2>2
  <1> QED
    BY <1>2, <1>3

(***************************************************************************)
(* Type correctness.                                                       *)
(***************************************************************************)
(* Every step keeps the types.                                             *)
LEMMA EpochTyped == TypeOK /\ [Next]_vars => TypeOK'
  <1> SUFFICES ASSUME TypeOK, [Next]_vars
               PROVE  TypeOK'
    OBVIOUS
  <1> USE DEF rings, slots, cp
  <1>1. CASE SwitchStart
    <2>1. sup' \in SupRecord
      BY <1>1, SwitchStartFields
    <2> QED
      BY <1>1, <2>1 DEF TypeOK, SupRecord, SwitchStart
  <1>2. CASE Drained
    <2>1. sup' \in SupRecord
      BY <1>2, NextPassFields DEF Drained
    <2> QED
      BY <1>2, <2>1 DEF Drained, TypeOK, SupRecord
  <1>3. CASE Defer
    <2>1. sup' \in SupRecord
      BY <1>3, DeferFields
    <2> QED
      BY <1>3, <2>1 DEF TypeOK, SupRecord, Defer
  <1>4. CASE Clear
    <2>1. sup' \in SupRecord
      BY <1>4, NextPassFields DEF Clear
    <2> QED
      BY <1>4, <2>1, ClearCells DEF Clear, CellSet, TypeOK, SupRecord
  <1>5. CASE Unregister \/ Bump
    <2>1. sup' \in SupRecord
      BY <1>5, UnregisterFields, BumpFields
    <2>2. RingFor(sup.new) \in Rings /\ sup.new \in Nat
      BY RingForType DEF TypeOK
    <2>3. ringEpoch \in [Rings -> Nat] /\ registered \in [Rings -> Nat]
      BY DEF TypeOK
    <2>4. ringEpoch' \in [Rings -> Nat] /\ registered' \in [Rings -> Nat]
      BY <1>5, <2>2, <2>3 DEF Unregister, Bump
    <2> QED
      BY <1>5, <2>1, <2>4 DEF TypeOK, SupRecord, Unregister, Bump
  <1>6. CASE PublishName \/ PublishEpoch
    <2>1. sup' \in SupRecord
      BY <1>6, PublishNameFields, PublishEpochFields
    <2>2. RingFor(sup.new) \in Rings /\ sup.new \in Nat
      BY RingForType DEF TypeOK
    <2> QED
      BY <1>6, <2>1, <2>2 DEF TypeOK, SupRecord, PublishName, PublishEpoch
  <1>7. CASE WriterSpawn
    <2>1. wr' \in WriterRecord
      BY <1>7, WriterSpawnFields
    <2> QED
      BY <1>7, <2>1 DEF TypeOK, WriterRecord, WriterSpawn
  <1>8. CASE WriteCall
    <2>1. wr' \in WriterRecord
      BY <1>8, WriteCallFields
    <2> QED
      BY <1>8, <2>1 DEF TypeOK, WriterRecord, WriteCall
  <1>9. CASE WriterReadName
    <2>1. wr' \in WriterRecord
      BY <1>9, WriterReadNameFields
    <2> QED
      BY <1>9, <2>1 DEF TypeOK, WriterRecord, WriterReadName
  <1>10. CASE Register
    <2>1. wr' \in WriterRecord
      BY <1>10, RegisterFields
    <2> QED
      BY <1>10, <2>1 DEF TypeOK, WriterRecord, Register
  <1>11. CASE Refused
    <2>1. wr' \in WriterRecord
      BY <1>11, RefusedFields
    <2> QED
      BY <1>11, <2>1 DEF TypeOK, WriterRecord, Refused
  <1>12. CASE Construct
    <2>1. wr' \in WriterRecord
      BY <1>12, ConstructFields
    <2> QED
      BY <1>12, <2>1 DEF TypeOK, WriterRecord, Construct
  <1>13. CASE WriterCrash
    <2>1. wr' \in WriterRecord
      BY <1>13, WriterCrashFields
    <2> QED
      BY <1>13, <2>1 DEF TypeOK, WriterRecord, WriterCrash
  <1>14. CASE WriteCopyLo
    <2>1. wr' \in WriterRecord
      BY <1>14, WriteCopyLoFields
    <2> QED
      BY <1>14, <2>1, WriteCopyLoCells DEF TypeOK, WriterRecord, WriteCopyLo, CellSet
  <1>15. CASE WriteCopyHi
    <2>1. wr' \in WriterRecord
      BY <1>15, WriteCopyHiFields
    <2> QED
      BY <1>15, <2>1, WriteCopyHiCells DEF TypeOK, WriterRecord, WriteCopyHi, CellSet
  <1>16. CASE WriteCommit
    <2>1. wr' \in WriterRecord
      BY <1>16, WriteCommitFields
    <2>2. [slot |-> wr.slot, gen |-> wr.gen, epoch |-> wr.label, frame |-> wr.frame] \in Refs
      BY DEF TypeOK, Refs
    <2>3. refs' \in SUBSET Refs
      BY <1>16, <2>2 DEF TypeOK, WriteCommit
    <2> QED
      BY <1>16, <2>1, <2>3, WriteCommitCells DEF TypeOK, WriterRecord, WriteCommit, CellSet
  <1>17. ASSUME NEW s \in Slots, WriteMark(s)
         PROVE  TypeOK'
    <2>1. wr' \in WriterRecord
      BY <1>17, WriteMarkFields
    <2>2. frames' \in Nat
      BY <1>17 DEF TypeOK, WriteMark
    <2> QED
      BY <1>17, <2>1, <2>2, WriteMarkCells DEF TypeOK, WriterRecord, WriteMark, CellSet
  <1>18. ASSUME NEW s \in Slots, WriteBusy(s)
         PROVE  TypeOK'
    BY <1>18, WriteBusyFields DEF TypeOK, WriterRecord, WriteBusy
  <1>19. ASSUME NEW s \in Slots, Quarantine(s)
         PROVE  TypeOK'
    BY <1>19, QuarantineCells DEF TypeOK, Quarantine, CellSet
  <1>20. ASSUME NEW r \in Readers, ReaderSpawn(r)
         PROVE  TypeOK'
    <2>1. rd' \in [Readers -> ReaderRecord]
      BY <1>20, ReaderSpawnFields
    <2> QED
      BY <1>20, <2>1 DEF TypeOK, ReaderRecord, ReaderSpawn
  <1>21. ASSUME NEW r \in Readers, ReaderReadName(r)
         PROVE  TypeOK'
    <2>1. rd' \in [Readers -> ReaderRecord]
      BY <1>21, ReaderReadNameFields
    <2> QED
      BY <1>21, <2>1 DEF TypeOK, ReaderRecord, ReaderReadName
  <1>22. ASSUME NEW r \in Readers, ReadCheck(r)
         PROVE  TypeOK'
    <2>1. rd' \in [Readers -> ReaderRecord]
      BY <1>22, ReadCheckFields
    <2> QED
      BY <1>22, <2>1 DEF TypeOK, ReaderRecord, ReadCheck
  <1>23. ASSUME NEW r \in Readers, ReadPin(r)
         PROVE  TypeOK'
    <2>1. rd' \in [Readers -> ReaderRecord]
      BY <1>23, ReadPinFields
    <2> QED
      BY <1>23, <2>1, ReadPinCells DEF TypeOK, ReaderRecord, ReadPin, CellSet
  <1>24. ASSUME NEW r \in Readers, ReadStale(r)
         PROVE  TypeOK'
    <2>1. rd' \in [Readers -> ReaderRecord]
      BY <1>24, ReadStaleFields
    <2> QED
      BY <1>24, <2>1 DEF TypeOK, ReaderRecord, ReadStale
  <1>25. ASSUME NEW r \in Readers, ReadCopyLo(r)
         PROVE  TypeOK'
    <2>1. rd' \in [Readers -> ReaderRecord]
      BY <1>25, ReadCopyLoFields
    <2> QED
      BY <1>25, <2>1 DEF TypeOK, ReaderRecord, ReadCopyLo
  <1>26. ASSUME NEW r \in Readers, ReadCopyHi(r)
         PROVE  TypeOK'
    <2>1. rd' \in [Readers -> ReaderRecord]
      BY <1>26, ReadCopyHiFields
    <2> QED
      BY <1>26, <2>1 DEF TypeOK, ReaderRecord, ReadCopyHi
  <1>27. ASSUME NEW r \in Readers, ReadUnpin(r)
         PROVE  TypeOK'
    <2>1. rd' \in [Readers -> ReaderRecord]
      BY <1>27, ReadUnpinFields
    <2> QED
      BY <1>27, <2>1, ReadUnpinCells DEF TypeOK, ReaderRecord, ReadUnpin, CellSet
  <1>28. ASSUME NEW r \in Readers, NEW ref \in refs, ReadCall(r, ref)
         PROVE  TypeOK'
    <2>1. rd' \in [Readers -> ReaderRecord]
      BY <1>28, ReadCallFields
    <2> QED
      BY <1>28, <2>1 DEF TypeOK, ReaderRecord, ReadCall
  <1>29. CASE UNCHANGED vars
    BY <1>29 DEF vars, TypeOK
  <1> QED
    BY <1>1, <1>2, <1>3, <1>4, <1>5, <1>6, <1>7, <1>8, <1>9, <1>10, <1>11, <1>12, <1>13, <1>14,
       <1>15, <1>16, <1>17, <1>18, <1>19, <1>20, <1>21, <1>22, <1>23, <1>24, <1>25, <1>26, <1>27, <1>28, <1>29
    DEF Next, Supervise, WriteStep, ReadStep

(***************************************************************************)
(* The epochs: what is activated and published only grows.                 *)
(***************************************************************************)

(* A step of anyone but the supervisor.                                    *)
Bystander == UNCHANGED <<sup, ringEpoch, cpEpoch, cpName>>

(* Only the supervisor changes epochs and names.                           *)
LEMMA Bystanders ==
  ASSUME [Next]_vars
  PROVE  SwitchStart \/ Supervise \/ Bystander
  <1>1. CASE WriterSpawn \/ WriteCall \/ WriterCrash
    BY <1>1 DEF Bystander, cp, rings, WriterSpawn, WriteCall, WriterCrash
  <1>2. CASE WriteStep
    <2>1. CASE WriterReadName \/ Register \/ Refused \/ Construct
      BY <2>1 DEF Bystander, cp, rings, WriterReadName, Register, Refused, Construct
    <2>2. CASE \E s \in Slots : WriteMark(s) \/ WriteBusy(s)
      BY <2>2 DEF Bystander, cp, rings, WriteMark, WriteBusy
    <2>3. CASE WriteCopyLo \/ WriteCopyHi \/ WriteCommit
      BY <2>3 DEF Bystander, cp, rings, WriteCopyLo, WriteCopyHi, WriteCommit
    <2> QED
      BY <1>2, <2>1, <2>2, <2>3 DEF WriteStep
  <1>3. ASSUME NEW r \in Readers, ReaderSpawn(r) \/ \E ref \in refs : ReadCall(r, ref) PROVE Bystander
    BY <1>3 DEF Bystander, cp, rings, ReaderSpawn, ReadCall
  <1>4. ASSUME NEW r \in Readers, ReadStep(r) PROVE Bystander
    BY <1>4 DEF Bystander, cp, rings, ReadStep, ReaderReadName, ReadCheck, ReadPin, ReadStale,
       ReadCopyLo, ReadCopyHi, ReadUnpin
  <1>5. ASSUME NEW s \in Slots, Quarantine(s) PROVE Bystander
    BY <1>5 DEF Bystander, cp, rings, Quarantine
  <1>6. CASE UNCHANGED vars
    BY <1>6 DEF Bystander, vars, cp, rings
  <1> QED
    BY <1>1, <1>2, <1>3, <1>4, <1>5, <1>6 DEF Next

(* A step of the supervisor heads for the next epoch, gives up, activates  *)
(* it, names it or publishes it.                                           *)
LEMMA EpochSteps ==
  ASSUME TypeOK, EpochsInv, SwitchStart \/ Supervise
  PROVE  cpEpoch' >= cpEpoch /\ Published' >= Published /\ Activated' >= Activated
  <1> USE DEF rings, slots, cp
  <1>0. cpEpoch \in Nat /\ sup.new \in Nat /\ (sup.pc # "idle" => sup.new = cpEpoch + 1)
    BY DEF TypeOK, EpochsInv
  <1>1. CASE SwitchStart
    <2>1. sup.pc = "idle" /\ sup'.pc = "guard" /\ cpEpoch' = cpEpoch
      BY <1>1, SwitchStartFields DEF SwitchStart
    <2> QED
      BY <1>0, <2>1 DEF Activated, Published
  <1>2. CASE Drained \/ Clear \/ Defer \/ Unregister
    <2>1. /\ sup'.pc \in {"idle", "guard", "clear", "unregister", "bump"}
          /\ sup.pc \in {"guard", "clear", "unregister"} /\ cpEpoch' = cpEpoch
      BY <1>2, NextPassFields, DeferFields, UnregisterFields DEF Drained, Clear, Defer, Unregister
    <2> QED
      BY <1>0, <2>1 DEF Activated, Published
  <1>3. CASE Bump
    <2>1. sup.pc = "bump" /\ sup'.pc = "name" /\ sup'.new = sup.new /\ cpEpoch' = cpEpoch
      BY <1>3, BumpFields DEF Bump
    <2> QED
      BY <1>0, <2>1 DEF Activated, Published
  <1>4. CASE PublishName
    <2>1. sup.pc = "name" /\ sup'.pc = "epoch" /\ sup'.new = sup.new /\ cpEpoch' = cpEpoch
      BY <1>4, PublishNameFields DEF PublishName
    <2> QED
      BY <1>0, <2>1 DEF Activated, Published
  <1>5. CASE PublishEpoch
    <2>1. sup.pc = "epoch" /\ sup'.pc = "idle" /\ cpEpoch' = sup.new
      BY <1>5, PublishEpochFields DEF PublishEpoch
    <2> QED
      BY <1>0, <2>1 DEF Activated, Published
  <1> QED
    BY <1>1, <1>2, <1>3, <1>4, <1>5 DEF Supervise

(* The epochs' invariant is kept.                                          *)
LEMMA EpochsStep ==
  ASSUME TypeOK, EpochsInv, [Next]_vars
  PROVE  EpochsInv'
  <1> USE DEF rings, slots, cp
  <1>0. /\ cpEpoch \in Nat /\ sup.new \in Nat /\ (sup.pc # "idle" => sup.new = cpEpoch + 1)
        /\ cpEpoch >= 1 /\ cpName = RingFor(Published)
        /\ PoolSize \in Nat /\ PoolSize >= 2
        /\ ringEpoch \in [Rings -> Nat]
    BY PoolFacts DEF TypeOK, EpochsInv
  <1>1. CASE SwitchStart
    <2>1. Activated' = Activated /\ Published' = Published
      BY <1>1, SwitchStartFields DEF SwitchStart, Activated, Published
    <2>2. sup'.new = cpEpoch' + 1 /\ UNCHANGED <<cpEpoch, cpName, ringEpoch>>
      BY <1>1, SwitchStartFields DEF SwitchStart
    <2> QED
      BY <1>0, <2>1, <2>2 DEF EpochsInv
  <1>2. CASE Drained \/ Clear \/ Defer \/ Unregister
    <2>1. /\ sup'.pc \in {"idle", "guard", "clear", "unregister", "bump"} /\ sup'.new = sup.new
          /\ sup.pc \in {"guard", "clear", "unregister"}
          /\ UNCHANGED <<cpEpoch, cpName, ringEpoch>>
      BY <1>2, NextPassFields, DeferFields, UnregisterFields DEF Drained, Clear, Defer, Unregister
    <2>2. Activated' = Activated /\ Published' = Published
      BY <2>1 DEF Activated, Published
    <2> QED
      BY <1>0, <2>1, <2>2 DEF EpochsInv
  <1>3. CASE Bump
    <2> DEFINE n == sup.new
    <2>1. /\ sup.pc = "bump" /\ sup'.pc = "name" /\ sup'.new = n /\ n = cpEpoch + 1
          /\ UNCHANGED <<cpEpoch, cpName>>
      BY <1>0, <1>3, BumpFields DEF Bump
    <2>2. Activated = cpEpoch /\ Activated' = n /\ Published' = Published
      BY <2>1 DEF Activated, Published
    <2>3. n \in Nat /\ RingFor(n) \in Rings
      BY <1>0, RingForType
    <2>4. ringEpoch' = [ringEpoch EXCEPT ![RingFor(n)] = n]
      BY <1>3 DEF Bump
    <2> HIDE DEF n
    <2>5. \A k \in Rings : ringEpoch'[k] = IF k = RingFor(n) THEN n ELSE ringEpoch[k]
      BY <1>0, <2>3, <2>4
    <2>6. ASSUME NEW e \in 1 .. n
          PROVE  ringEpoch'[RingFor(e)] >= e
      <3>1. e \in Nat /\ RingFor(e) \in Rings
        BY <2>3, RingForType
      <3>2. CASE RingFor(e) = RingFor(n)
        BY <2>3, <2>5, <3>1, <3>2
      <3>3. CASE RingFor(e) # RingFor(n)
        <4>1. e # n /\ e \in 1 .. Activated
          BY <2>1, <2>2, <3>3, <1>0
        <4> QED
          BY <2>5, <3>1, <3>3, <4>1 DEF EpochsInv
      <3> QED
        BY <3>2, <3>3
    <2>7. ASSUME NEW e \in 1 .. n, e + PoolSize > n
          PROVE  ringEpoch'[RingFor(e)] = e
      <3>1. e \in Nat /\ RingFor(e) \in Rings
        BY <2>3, RingForType
      <3>2. CASE e = n
        BY <2>3, <2>5, <3>2
      <3>3. CASE e # n
        <4>1. e < n /\ n < e + PoolSize /\ e \in 1 .. Activated /\ e + PoolSize > Activated
          BY <1>0, <2>1, <2>2, <2>3, <2>7, <3>1, <3>3
        <4>2. RingFor(e) # RingFor(n)
          BY <2>3, <3>1, <4>1, RingForNear
        <4>3. ringEpoch[RingFor(e)] = e
          BY <4>1 DEF EpochsInv
        <4> QED
          BY <2>5, <3>1, <4>2, <4>3
      <3> QED
        BY <3>2, <3>3
    <2>8. ASSUME NEW k \in Rings
          PROVE  ringEpoch'[k] <= n /\ (ringEpoch'[k] > 0 => RingFor(ringEpoch'[k]) = k)
      <3>1. ringEpoch[k] \in Nat /\ ringEpoch[k] <= cpEpoch /\ (ringEpoch[k] > 0 => RingFor(ringEpoch[k]) = k)
        BY <1>0, <2>2 DEF EpochsInv
      <3> QED
        BY <1>0, <2>1, <2>3, <2>5, <3>1
    <2> QED
      BY <1>0, <2>1, <2>2, <2>6, <2>7, <2>8 DEF EpochsInv
  <1>4. CASE PublishName
    <2>1. /\ sup.pc = "name" /\ sup'.pc = "epoch" /\ sup'.new = sup.new
          /\ cpName' = RingFor(sup.new) /\ UNCHANGED <<cpEpoch, ringEpoch>>
      BY <1>4, PublishNameFields DEF PublishName
    <2>2. Activated' = Activated /\ Published' = sup.new
      BY <2>1 DEF Activated, Published
    <2> QED
      BY <1>0, <2>1, <2>2 DEF EpochsInv
  <1>5. CASE PublishEpoch
    <2>1. /\ sup.pc = "epoch" /\ sup'.pc = "idle" /\ sup'.new = sup.new
          /\ cpEpoch' = sup.new /\ UNCHANGED <<cpName, ringEpoch>>
      BY <1>5, PublishEpochFields DEF PublishEpoch
    <2>2. Activated' = Activated /\ Published' = Published
      BY <2>1 DEF Activated, Published
    <2> QED
      BY <1>0, <2>1, <2>2 DEF EpochsInv
  <1>6. CASE Bystander
    BY <1>6 DEF Bystander, EpochsInv, Activated, Published
  <1> QED
    BY <1>1, <1>2, <1>3, <1>4, <1>5, <1>6, Bystanders DEF Supervise

(* A ring the control plane has led to stays one it has led to.            *)
LEMMA EpochsGrow ==
  ASSUME TypeOK, EpochsInv, [Next]_vars
  PROVE  /\ cpEpoch' \in Nat /\ Published' \in Nat /\ Activated' \in Nat
         /\ cpEpoch \in Nat /\ Published \in Nat /\ Activated \in Nat
         /\ cpEpoch' >= cpEpoch /\ Published' >= Published /\ Activated' >= Activated
         /\ \A k, e : LedBy(k, e) => Led(k, e, Published')
  <1>1. TypeOK'
    BY EpochTyped
  <1>2. /\ cpEpoch' \in Nat /\ Published' \in Nat /\ Activated' \in Nat
        /\ cpEpoch \in Nat /\ Published \in Nat /\ Activated \in Nat
    BY <1>1 DEF TypeOK, Published, Activated
  <1>3. cpEpoch' >= cpEpoch /\ Published' >= Published /\ Activated' >= Activated
    <2>1. CASE Bystander
      BY <1>2, <2>1 DEF Bystander, Published, Activated
    <2> QED
      BY <2>1, Bystanders, EpochSteps
  <1>4. ASSUME NEW k, NEW e, LedBy(k, e)
        PROVE  Led(k, e, Published')
    <2>1. PICK f \in e .. Published : k = RingFor(f)
      BY <1>4 DEF LedBy, Led
    <2>2. f \in e .. Published'
      BY <1>2, <1>3, <2>1
    <2> QED
      BY <2>1, <2>2 DEF Led
  <1> QED
    BY <1>2, <1>3, <1>4
(***************************************************************************)
(* The writer, the readers and the refs.                                   *)
(***************************************************************************)

(* A ring that was led to from epoch e on has not an older epoch.          *)
LEMMA LedByFloor ==
  ASSUME TypeOK, EpochsInv, NEW k, NEW e \in Nat, e >= 1, LedBy(k, e)
  PROVE  /\ k \in Rings /\ ringEpoch[k] \in Nat
         /\ ringEpoch[k] >= e /\ ringEpoch[k] <= Activated /\ RingFor(ringEpoch[k]) = k
  <1>0. Published \in Nat /\ Activated \in Nat /\ Published <= Activated
    BY DEF TypeOK, EpochsInv, Published, Activated
  <1>1. PICK f \in e .. Published : k = RingFor(f)
    BY DEF LedBy, Led
  <1>2. f \in Nat /\ f \in 1 .. Activated /\ f >= e
    BY <1>0, <1>1
  <1>3. k \in Rings
    BY <1>1, <1>2, RingForType
  <1>4. ringEpoch[k] \in Nat /\ ringEpoch[k] >= f
    BY <1>1, <1>2, <1>3 DEF EpochsInv, TypeOK
  <1> QED
    BY <1>2, <1>3, <1>4 DEF EpochsInv

(* Which variables the steps of the others leave alone.                    *)
LEMMA Movers ==
  ASSUME TypeOK, [Next]_vars
  PROVE  /\ WriterSpawn \/ WriteCall \/ WriteStep \/ WriterCrash \/ wr' = wr
         /\ \A r \in Readers : \/ ReaderSpawn(r) \/ ReadStep(r) \/ \E ref \in refs : ReadCall(r, ref)
                              \/ rd'[r] = rd[r]
         /\ WriteCommit \/ refs' = refs
  <1> USE DEF rings, slots, cp
  <1>1. WriterSpawn \/ WriteCall \/ WriteStep \/ WriterCrash \/ wr' = wr
    BY DEF Next, vars, Supervise, SwitchStart, Drained, Defer, Clear, Unregister, Bump,
       PublishName, PublishEpoch, ReadStep, ReaderSpawn, ReadCall, ReaderReadName, ReadCheck,
       ReadPin, ReadStale, ReadCopyLo, ReadCopyHi, ReadUnpin, Quarantine
  <1>2. WriteCommit \/ refs' = refs
    BY DEF Next, vars, Supervise, SwitchStart, Drained, Defer, Clear, Unregister, Bump,
       PublishName, PublishEpoch, ReadStep, ReaderSpawn, ReadCall, ReaderReadName, ReadCheck,
       ReadPin, ReadStale, ReadCopyLo, ReadCopyHi, ReadUnpin, Quarantine, WriteStep,
       WriterSpawn, WriteCall, WriterReadName, Register, Refused, Construct, WriteMark, WriteBusy,
       WriteCopyLo, WriteCopyHi, WriterCrash
  <1>3. \/ \E q \in Readers : ReaderSpawn(q) \/ ReadStep(q) \/ \E ref \in refs : ReadCall(q, ref)
        \/ rd' = rd
    BY DEF Next, vars, Supervise, SwitchStart, Drained, Defer, Clear, Unregister, Bump,
       PublishName, PublishEpoch, Quarantine, WriteStep,
       WriterSpawn, WriteCall, WriterReadName, Register, Refused, Construct, WriteMark, WriteBusy,
       WriteCopyLo, WriteCopyHi, WriteCommit, WriterCrash
  <1>4. ASSUME NEW q \in Readers,
               ReaderSpawn(q) \/ ReadStep(q) \/ \E ref \in refs : ReadCall(q, ref)
        PROVE  OthersKeep(q)
    BY <1>4, ReaderSpawnFields, ReadCallFields, ReaderReadNameFields, ReadCheckFields, ReadPinFields,
       ReadStaleFields, ReadCopyLoFields, ReadCopyHiFields, ReadUnpinFields DEF ReadStep
  <1>5. ASSUME NEW r \in Readers
        PROVE  \/ ReaderSpawn(r) \/ ReadStep(r) \/ \E ref \in refs : ReadCall(r, ref)
               \/ rd'[r] = rd[r]
    BY <1>3, <1>4 DEF OthersKeep
  <1> QED
    BY <1>1, <1>2, <1>5

(* The writer's invariant is kept.                                         *)
LEMMA WriterInvStep ==
  ASSUME TypeOK, EpochsInv, WriterInv, [Next]_vars
  PROVE  WriterInv'
  <1> USE DEF rings, slots, cp
  <1>0. /\ wr.seen \in Nat /\ wr.pid \in Nat /\ wr.epoch \in Nat /\ wr.label \in Nat
        /\ cpEpoch >= 1
    BY DEF TypeOK, EpochsInv
  <1>1. /\ cpEpoch' \in Nat /\ Published' \in Nat /\ Activated' \in Nat
        /\ cpEpoch \in Nat /\ Published \in Nat /\ Activated \in Nat
        /\ cpEpoch' >= cpEpoch /\ Published' >= Published /\ Activated' >= Activated
        /\ \A k, f : LedBy(k, f) => Led(k, f, Published')
    BY EpochsGrow
  <1>2. CASE wr' = wr
    <2>1. wr.seen <= cpEpoch'
      BY <1>0, <1>1 DEF WriterInv
    <2>2. wr.pc \in {"register", "construct"} => Led(wr.target, wr.seen, Published')
      BY <1>1 DEF WriterInv
    <2>3. wr.pc # "down" /\ wr.epoch > 0 =>
            /\ Led(wr.ring, wr.epoch, Published')
            /\ RingFor(wr.label) = wr.ring /\ wr.epoch <= wr.label /\ wr.label <= Activated'
      BY <1>0, <1>1 DEF WriterInv
    <2> QED
      BY <1>2, <2>1, <2>2, <2>3 DEF WriterInv, WriterInRing, LedBy
  <1>3. CASE WriterSpawn
    BY <1>0, <1>1, <1>3, WriterSpawnFields DEF WriterSpawn, WriterInv, WriterInRing
  <1>4. CASE WriteCall
    <2>1. /\ wr.pc = "idle" /\ wr.epoch > 0 /\ UNCHANGED <<cpEpoch, sup>>
          /\ LedBy(wr.ring, wr.epoch) /\ RingFor(wr.label) = wr.ring
          /\ wr.epoch <= wr.label /\ wr.label <= Activated
      BY <1>4 DEF WriteCall, WriterInv
    <2>2. Led(wr.ring, wr.epoch, Published')
      BY <1>1, <2>1
    <2>3. Activated' = Activated
      BY <2>1 DEF Activated
    <2> QED
      BY <1>0, <1>1, <1>4, <2>1, <2>2, <2>3, WriteCallFields DEF WriterInv, WriterInRing, LedBy
  <1>5. CASE WriterReadName
    <2>1. cpName = RingFor(Published) /\ Published \in cpEpoch .. Published /\ UNCHANGED <<cpEpoch, sup>>
      BY <1>5 DEF WriterReadName, EpochsInv, Published, TypeOK
    <2>2. LedBy(cpName, wr.seen)
      BY <1>0, <1>1, <2>1 DEF LedBy, Led, WriterInv
    <2>3. Led(cpName, wr.seen, Published')
      BY <1>1, <2>2
    <2> QED
    BY <1>0, <1>1, <1>5, <2>1, <2>3, WriterReadNameFields
    DEF WriterInv, WriterInRing, LedBy, Activated, Published
  <1>6. CASE Construct
    <2>1. /\ wr.pc = "construct" /\ LedBy(wr.target, wr.seen) /\ wr.seen >= 1
          /\ UNCHANGED <<cpEpoch, sup>>
      BY <1>6 DEF Construct, WriterInv
    <2>2. /\ ringEpoch[wr.target] >= wr.seen /\ ringEpoch[wr.target] <= Activated
          /\ RingFor(ringEpoch[wr.target]) = wr.target
      BY <1>0, <2>1, LedByFloor
    <2> QED
      BY <1>0, <1>1, <1>6, <2>1, <2>2, ConstructFields
      DEF WriterInv, WriterInRing, LedBy, Activated, Published
  <1>7. ASSUME Register \/ Refused \/ WriterCrash \/ WriteCopyLo \/ WriteCopyHi \/ WriteCommit
                 \/ (\E s \in Slots : WriteMark(s) \/ WriteBusy(s))
        PROVE  WriterInv'
    <2>1. /\ wr'.pid = wr.pid /\ wr'.epoch = wr.epoch /\ wr'.ring = wr.ring
          /\ wr'.seen = wr.seen /\ wr'.target = wr.target /\ wr'.label = wr.label
      BY <1>7, RegisterFields, RefusedFields, WriterCrashFields, WriteCopyLoFields, WriteCopyHiFields,
         WriteCommitFields, WriteMarkFields, WriteBusyFields
    <2>2. UNCHANGED <<cpEpoch, sup>>
      BY <1>7 DEF Register, Refused, WriterCrash, WriteCopyLo, WriteCopyHi, WriteCommit, WriteMark, WriteBusy
    <2>3. \/ wr'.pc = "down"
          \/ wr.pc = "register" /\ wr'.pc = "construct"
          \/ WriterInRing /\ (wr'.pc = "idle" \/ WriterInRing')
      BY <1>7, RegisterFields, RefusedFields, WriterCrashFields, WriteCopyLoFields, WriteCopyHiFields,
         WriteCommitFields, WriteMarkFields, WriteBusyFields DEF WriterInRing
    <2> QED
      BY <1>0, <1>1, <2>1, <2>2, <2>3 DEF WriterInv, WriterInRing, LedBy, Activated, Published
  <1> QED
    BY <1>2, <1>3, <1>4, <1>5, <1>6, <1>7, Movers DEF WriteStep

(* Every reader's invariant is kept.                                       *)
LEMMA ReaderInvStep ==
  ASSUME TypeOK, EpochsInv, NEW r \in Readers, ReaderInv(r), [Next]_vars
  PROVE  ReaderInv(r)'
  <1> USE DEF rings, slots, cp
  <1>0. rd[r].seen \in Nat /\ rd[r].epoch \in Nat /\ rd[r].ref.epoch \in Nat /\ cpEpoch >= 1
    BY DEF TypeOK, EpochsInv, Refs
  <1>1. /\ cpEpoch' \in Nat /\ Published' \in Nat /\ Activated' \in Nat
        /\ cpEpoch \in Nat /\ Published \in Nat /\ Activated \in Nat
        /\ cpEpoch' >= cpEpoch /\ Published' >= Published /\ Activated' >= Activated
        /\ \A k, f : LedBy(k, f) => Led(k, f, Published')
    BY EpochsGrow
  <1>2. CASE rd'[r] = rd[r]
    <2>1. refs \subseteq refs'
      BY Movers DEF WriteCommit
    <2>2. rd[r].seen <= cpEpoch'
      BY <1>0, <1>1 DEF ReaderInv
    <2>3. rd[r].epoch > 0 => Led(rd[r].ring, rd[r].epoch, Published')
      BY <1>1 DEF ReaderInv
    <2> QED
      BY <1>2, <2>1, <2>2, <2>3 DEF ReaderInv, InRing, Checked, LedBy
  <1>3. CASE ReaderSpawn(r)
    <2>1. rd[r].pc = "down" /\ rd[r].epoch = 0 /\ UNCHANGED <<cpEpoch, sup, refs>>
      BY <1>3, ReaderSpawnFields DEF ReaderSpawn, ReaderInv
    <2>2. rd'[r].pc = "name" /\ rd'[r].epoch = 0 /\ rd'[r].seen = cpEpoch
      BY <1>3, <2>1, ReaderSpawnFields
    <2> QED
      BY <1>0, <1>1, <2>1, <2>2 DEF ReaderInv, InRing, Checked
  <1>4. ASSUME NEW ref \in refs, ReadCall(r, ref)
        PROVE  ReaderInv(r)'
    <2>1. UNCHANGED <<cpEpoch, sup, refs>>
      BY <1>4 DEF ReadCall
    <2> QED
      BY <1>0, <1>1, <1>4, <2>1, ReadCallFields
      DEF ReaderInv, InRing, Checked, LedBy, Activated, Published
  <1>5. CASE ReaderReadName(r)
    <2>1. cpName = RingFor(Published) /\ Published \in cpEpoch .. Published /\ UNCHANGED <<cpEpoch, sup, refs>>
      BY <1>5 DEF ReaderReadName, EpochsInv, Published, TypeOK
    <2>2. LedBy(cpName, rd[r].seen)
      BY <1>0, <1>1, <2>1 DEF LedBy, Led, ReaderInv
    <2> QED
      BY <1>0, <1>1, <1>5, <2>1, <2>2, ReaderReadNameFields
      DEF ReaderInv, InRing, Checked, LedBy, Activated, Published
  <1>6. CASE ReadCheck(r)
    <2>1. UNCHANGED <<cpEpoch, sup, refs>>
      BY <1>6 DEF ReadCheck
    <2>2. /\ rd[r].pc = "check" /\ rd[r].epoch = rd[r].seen /\ rd[r].seen >= 1
          /\ LedBy(rd[r].ring, rd[r].seen)
      BY <1>0, <1>6, ReadCheckFields DEF ReaderInv, InRing
    <2>3. ringEpoch[rd[r].ring] >= rd[r].seen
      BY <1>0, <2>2, LedByFloor
    <2> QED
      BY <1>0, <1>1, <1>6, <2>1, <2>2, <2>3, ReadCheckFields
      DEF ReaderInv, InRing, Checked, LedBy, Activated, Published
  <1>7. ASSUME ReadPin(r) \/ ReadStale(r) \/ ReadCopyLo(r) \/ ReadCopyHi(r) \/ ReadUnpin(r)
        PROVE  ReaderInv(r)'
    <2>1. /\ rd'[r].epoch = rd[r].epoch /\ rd'[r].ring = rd[r].ring
          /\ rd'[r].seen = rd[r].seen /\ rd'[r].ref = rd[r].ref
      BY <1>7, ReadPinFields, ReadStaleFields, ReadCopyLoFields, ReadCopyHiFields, ReadUnpinFields
    <2>2. UNCHANGED <<cpEpoch, sup, refs>>
      BY <1>7 DEF ReadPin, ReadStale, ReadCopyLo, ReadCopyHi, ReadUnpin
    <2>3. Checked(r) /\ (rd'[r].pc = "idle" \/ Checked(r)')
      BY <1>7, ReadPinFields, ReadStaleFields, ReadCopyLoFields, ReadCopyHiFields, ReadUnpinFields
      DEF Checked
    <2> QED
      BY <1>0, <1>1, <2>1, <2>2, <2>3 DEF ReaderInv, InRing, Checked, LedBy, Activated, Published
  <1> QED
    BY <1>2, <1>3, <1>4, <1>5, <1>6, <1>7, Movers DEF ReadStep

(* A ref that write() returned is of an epoch some ring was activated for. *)
LEMMA RefsInvStep ==
  ASSUME TypeOK, EpochsInv, WriterInv, RefsInv, [Next]_vars
  PROVE  RefsInv'
  <1>1. Activated' \in Nat /\ Activated \in Nat /\ Activated' >= Activated
    BY EpochsGrow
  <1>2. \A ref \in refs : ref.epoch \in Nat
    BY DEF TypeOK, Refs
  <1>3. CASE refs' = refs
    BY <1>1, <1>2, <1>3 DEF RefsInv
  <1>4. CASE WriteCommit
    <2>1. /\ wr.label \in Nat /\ wr.epoch \in Nat /\ wr.epoch > 0
          /\ wr.epoch <= wr.label /\ wr.label <= Activated
      BY <1>4, WriteCommitFields DEF WriterInv, WriterInRing, TypeOK
    <2>2. \A ref \in refs' : ref \in refs \/ ref.epoch = wr.label
      BY <1>4 DEF WriteCommit
    <2> QED
      BY <1>1, <1>2, <2>1, <2>2 DEF RefsInv
  <1> QED
    BY <1>3, <1>4, Movers

(* One step of anyone keeps the invariant.                                 *)
LEMMA CoreStep == CoreInv /\ [Next]_vars => CoreInv'
  BY EpochTyped, EpochsStep, WriterInvStep, ReaderInvStep, RefsInvStep DEF CoreInv

(* It holds of the pool as it is created.                                  *)
LEMMA CoreInit == Init => CoreInv
  <1> SUFFICES ASSUME Init
               PROVE  CoreInv
    OBVIOUS
  <1>0. PoolSize \in Nat /\ PoolSize >= 2 /\ 0 \in Rings /\ 0 \in Slots /\ RingFor(1) \in Rings
    BY PoolFacts, RingForType
  <1>1. TypeOK
    BY <1>0 DEF Init, TypeOK, NoRef, Refs, SlotState
  <1>2. Activated = 1 /\ Published = 1
    BY DEF Init, Activated, Published
  <1>3. \A k \in Rings : ringEpoch[k] = IF k = RingFor(1) THEN 1 ELSE 0
    BY DEF Init
  <1>4. EpochsInv
    BY <1>0, <1>2, <1>3 DEF Init, EpochsInv
  <1>5. WriterInv /\ RefsInv
    BY DEF Init, WriterInv, WriterInRing, RefsInv
  <1>6. ASSUME NEW r \in Readers
        PROVE  ReaderInv(r)
    BY DEF Init, ReaderInv, InRing, Checked
  <1> QED
    BY <1>1, <1>4, <1>5, <1>6 DEF CoreInv
(***************************************************************************)
(* The theorems that hold however the switchovers are paced.               *)
(***************************************************************************)

(* In every reachable state the last PoolSize epochs have rings of their   *)
(* own, and writer and readers are in rings that were published for the    *)
(* epoch their coordinator noted or for a later one.                       *)
THEOREM CoreInvariant == Spec => []CoreInv
  <1>1. Init => CoreInv
    BY CoreInit
  <1>2. CoreInv /\ [Next]_vars => CoreInv'
    BY CoreStep
  <1> QED
    BY <1>1, <1>2, PTL DEF Spec

(* The variables keep their types.                                         *)
THEOREM EpochTypeCorrect == Spec => []TypeOK
  <1>1. CoreInv => TypeOK
    BY DEF CoreInv
  <1> QED
    BY <1>1, CoreInvariant, PTL

(* Req 1.2: a read_ref() that began after epoch N+1 was published does not *)
(* come to pin a slot for a ref of epoch N, whatever the supervisor does   *)
(* while it runs and however late it is.                                   *)
THEOREM NoStaleFrame == Spec => []StaleAfterSwitchover
  <1>1. CoreInv => StaleAfterSwitchover
    BY DEF CoreInv, ReaderInv, Checked, StaleAfterSwitchover
  <1> QED
    BY <1>1, CoreInvariant, PTL

(* By the epochs alone: the ring that is reset has an epoch PoolSize after *)
(* that of the one it was, and is not the one published.                   *)
LEMMA PublishedInv ==
  ASSUME CoreInv
  PROVE  /\ Resetting \/ sup.pc = "name" => RingFor(sup.new) # cpName
         /\ PublishedRingReady
  <1>0. /\ cpEpoch \in Nat /\ cpEpoch >= 1 /\ sup.new \in Nat /\ PoolSize \in Nat /\ PoolSize >= 2
        /\ (sup.pc # "idle" => sup.new = cpEpoch + 1) /\ cpName = RingFor(Published)
    BY PoolFacts DEF CoreInv, TypeOK, EpochsInv
  <1>1. ASSUME Resetting \/ sup.pc = "name"
        PROVE  RingFor(sup.new) # cpName
    <2>1. Published = cpEpoch /\ sup.new = cpEpoch + 1
      BY <1>0, <1>1 DEF Resetting, Published
    <2> QED
      BY <1>0, <2>1, RingForNear
  <1>2. ASSUME sup.pc # "epoch"
        PROVE  ringEpoch[cpName] = cpEpoch
    <2>1. Published = cpEpoch /\ cpEpoch \in 1 .. Activated /\ cpEpoch + PoolSize > Activated
      BY <1>0, <1>2 DEF Published, Activated
    <2> QED
      BY <1>0, <2>1 DEF CoreInv, EpochsInv
  <1> QED
    BY <1>1, <1>2 DEF PublishedRingReady

(* The control plane never leads to the ring that is being reset, and the  *)
(* ring it leads to has been activated for the epoch it publishes.         *)
THEOREM PublishedIsReady == Spec => [](ResetSparesPublished /\ PublishedRingReady)
  <1>1. CoreInv => ResetSparesPublished /\ PublishedRingReady
    BY PublishedInv DEF ResetSparesPublished
  <1> QED
    BY <1>1, CoreInvariant, PTL

--------------------------------------------------------------------------------
(***************************************************************************)
(* While switchovers are paced (sup.settled: no ring is taken back while a *)
(* call is under way that began when one of its epochs was current), the   *)
(* writer never writes under an epoch it has left, a reader returns the    *)
(* frame of the ref and nothing else, and a ring is published with all its *)
(* slots.                                                                  *)
(***************************************************************************)

(* A ring comes back only when no call is under way that may be using it.  *)
Paced ==
  /\ InCall(wr) => wr.seen + PoolSize > Latest
  /\ \A r \in Readers : InCall(rd[r]) => rd[r].seen + PoolSize > Latest

(* The slots that were cleared stay FREE and unpinned.                     *)
Cleared(s) == state[RingFor(sup.new)][s] = "FREE" /\ pins[RingFor(sup.new)][s] = {}

ClearedSoFar ==
  /\ sup.pc = "clear" => \A s \in Slots : s < sup.slot => Cleared(s)
  /\ sup.pc \in {"unregister", "bump", "name"} => \A s \in Slots : Cleared(s)

(* Between unregister and bump a ring is nobody's.                         *)
Vacant(k) == sup.pc = "bump" /\ k = RingFor(sup.new)

(* Nobody was given a ref of the epoch.                                    *)
NoRefs(e) == \A ref \in refs : ref.epoch # e

(* A ring without a registered writer has no refs of its epoch yet, nor    *)
(* has one whose writer is about to begin, and the ring the writer is at   *)
(* home in knows it.                                                       *)
VacantOrOwned == \A k \in Rings : registered[k] = 0 /\ ~Vacant(k) => NoRefs(ringEpoch[k])
ConstructFresh == wr.pc = "construct" => registered[wr.target] # 0 /\ NoRefs(ringEpoch[wr.target])
OwnRing ==
  wr.pc # "down" /\ wr.epoch > 0 /\ wr.label = ringEpoch[wr.ring] /\ ~Vacant(wr.ring) =>
    registered[wr.ring] # 0

Registration == VacantOrOwned /\ ConstructFresh /\ OwnRing

(* The generations the writer gives out under its label are new ones, ...  *)
FreshGenerations ==
  /\ wr.pc # "down" /\ wr.epoch > 0 =>
       \A ref \in refs : ref.epoch = wr.label =>
         ref.gen < wr.next /\ (Writing => ref.gen < wr.gen)
  /\ Writing => wr.gen < wr.next

(* ... so that a ref is a name for one frame.                              *)
OneFramePerRef ==
  \A a, b \in refs :
    a.slot = b.slot /\ a.gen = b.gen /\ a.epoch = b.epoch => a.frame = b.frame

Generations == FreshGenerations /\ OneFramePerRef

(* The slot that is being written is no reader's, and what has been copied *)
(* into it is the frame.                                                   *)
SlotOfWriter ==
  Writing =>
    /\ state[wr.ring][wr.slot] \in {"WRITING", "QUARANTINED"} /\ pins[wr.ring][wr.slot] = {}
    /\ wr.pc \in {"copyHi", "commit"} => lo[wr.ring][wr.slot] = wr.frame
    /\ wr.pc = "commit" => hi[wr.ring][wr.slot] = wr.frame

(* A slot that can be read holds the whole frame of a ref of its           *)
(* generation and of the ring's epoch.                                     *)
SlotsHoldRefs ==
  \A k \in Rings, s \in Slots :
    state[k][s] \in {"READY", "READING"} =>
      /\ hi[k][s] = lo[k][s]
      /\ [slot |-> s, gen |-> gen[k][s], epoch |-> ringEpoch[k], frame |-> lo[k][s]] \in refs

(* A reader that has checked the epoch stays at that epoch; while it is    *)
(* pinning a slot, the slot holds the frame of its ref, and so does what   *)
(* it has copied.                                                          *)
SlotOfReader(r) ==
  /\ Checked(r) => rd[r].ref.epoch = ringEpoch[rd[r].ring]
  /\ Pinning(r) =>
       /\ r \in pins[rd[r].ring][rd[r].ref.slot]
       /\ lo[rd[r].ring][rd[r].ref.slot] = rd[r].ref.frame
       /\ hi[rd[r].ring][rd[r].ref.slot] = rd[r].ref.frame
  /\ rd[r].pc \in {"copyHi", "unpin"} => rd[r].copy[1] = rd[r].ref.frame
  /\ rd[r].pc = "unpin" => rd[r].copy[2] = rd[r].ref.frame

PacedInv ==
  /\ Paced
  /\ ClearedSoFar
  /\ Registration
  /\ Generations
  /\ SlotOfWriter
  /\ SlotsHoldRefs
  /\ \A r \in Readers : SlotOfReader(r)

RingEpochInv == CoreInv /\ (sup.settled => PacedInv)

(***************************************************************************)
(* The ring of a call under way is not the one that is being reset.        *)
(***************************************************************************)
(* A ring that led from the epoch a call has seen, in a paced system, is   *)
(* not the one being reset, and is at the last epoch the call can mean.    *)
LEMMA RingOfCall ==
  ASSUME TypeOK, EpochsInv, NEW k, NEW e \in Nat, e >= 1, LedBy(k, e), e + PoolSize > Latest
  PROVE  /\ k \in Rings
         /\ Resetting \/ sup.pc = "name" => k # RingFor(sup.new)
         /\ \A l \in Nat : RingFor(l) = k /\ e <= l /\ l <= Activated => l = ringEpoch[k]
  <1>0. /\ cpEpoch \in Nat /\ sup.new \in Nat /\ PoolSize \in Nat /\ PoolSize >= 2
        /\ (sup.pc # "idle" => sup.new = cpEpoch + 1)
        /\ Published \in Nat /\ Activated \in Nat /\ Latest \in Nat
    BY PoolFacts DEF TypeOK, EpochsInv, Published, Activated, Latest
  <1>1. k \in Rings
    BY LedByFloor
  <1>2. ASSUME Resetting \/ sup.pc = "name"
        PROVE  k # RingFor(sup.new)
    <2>1. Published = cpEpoch /\ Latest = sup.new /\ sup.new = cpEpoch + 1
      BY <1>0, <1>2 DEF Resetting, Published, Latest
    <2>2. PICK f \in e .. Published : k = RingFor(f)
      BY DEF LedBy, Led
    <2>3. f \in Nat /\ f < sup.new /\ sup.new < f + PoolSize
      BY <1>0, <2>1, <2>2
    <2> QED
      BY <1>0, <2>2, <2>3, RingForNear
  <1>3. ASSUME NEW l \in Nat, RingFor(l) = k, e <= l, l <= Activated
        PROVE  l = ringEpoch[k]
    <2>1. Activated <= Latest
      BY <1>0 DEF Activated, Latest
    <2>2. l \in 1 .. Activated /\ l + PoolSize > Activated
      BY <1>0, <1>3, <2>1
    <2> QED
      BY <1>3, <2>2 DEF EpochsInv
  <1> QED
    BY <1>1, <1>2, <1>3

(* A ring the supervisor leaves alone.                                     *)
Spared(k) == Resetting \/ sup.pc = "name" => k # RingFor(sup.new)

(* The writer's ring is at the epoch of the writer's label.                *)
LEMMA RingOfWriter ==
  ASSUME CoreInv, Paced
  PROVE  /\ WriterInRing => /\ wr.ring \in Rings /\ Spared(wr.ring)
                            /\ wr.label = ringEpoch[wr.ring] /\ wr.label >= 1
         /\ wr.pc \in {"register", "construct"} => wr.target \in Rings /\ Spared(wr.target)
  <1>0. /\ TypeOK /\ EpochsInv /\ WriterInv
        /\ wr.seen \in Nat /\ wr.label \in Nat /\ wr.epoch \in Nat
    BY DEF CoreInv, TypeOK
  <1>1. ASSUME WriterInRing
        PROVE  /\ wr.ring \in Rings /\ Spared(wr.ring)
               /\ wr.label = ringEpoch[wr.ring] /\ wr.label >= 1
    <2>1. /\ wr.seen >= 1 /\ LedBy(wr.ring, wr.seen) /\ wr.seen + PoolSize > Latest
          /\ RingFor(wr.label) = wr.ring /\ wr.seen <= wr.label /\ wr.label <= Activated
      BY <1>0, <1>1 DEF WriterInv, WriterInRing, Paced, InCall
    <2> QED
      BY <1>0, <2>1, RingOfCall DEF Spared
  <1>2. ASSUME wr.pc \in {"register", "construct"}
        PROVE  wr.target \in Rings /\ Spared(wr.target)
    <2>1. wr.seen >= 1 /\ LedBy(wr.target, wr.seen) /\ wr.seen + PoolSize > Latest
      BY <1>0, <1>2 DEF WriterInv, Paced, InCall
    <2> QED
      BY <1>0, <2>1, RingOfCall DEF Spared
  <1> QED
    BY <1>1, <1>2

(* A reader's ring is spared while it reads.                               *)
LEMMA RingOfReader ==
  ASSUME CoreInv, Paced, NEW r \in Readers, InRing(r)
  PROVE  /\ rd[r].ring \in Rings /\ Spared(rd[r].ring) /\ rd[r].ref \in refs
         /\ rd[r].ref.slot \in Slots
  <1>0. /\ TypeOK /\ EpochsInv /\ ReaderInv(r)
        /\ rd[r].seen \in Nat /\ rd[r].ref \in Refs
    BY DEF CoreInv, TypeOK
  <1>1. /\ rd[r].seen >= 1 /\ LedBy(rd[r].ring, rd[r].seen) /\ rd[r].seen + PoolSize > Latest
        /\ rd[r].ref \in refs
    BY <1>0 DEF ReaderInv, InRing, Paced, InCall
  <1> QED
    BY <1>0, <1>1, RingOfCall DEF Spared, Refs

(* What the supervisor's steps leave alone.                                *)
LEMMA SparedKeeps ==
  ASSUME CoreInv, SwitchStart \/ Supervise, NEW k \in Rings, Spared(k)
  PROVE  /\ state'[k] = state[k] /\ gen'[k] = gen[k] /\ pins'[k] = pins[k]
         /\ registered'[k] = registered[k] /\ ringEpoch'[k] = ringEpoch[k]
  <1> USE DEF rings, slots, cp
  <1>1. /\ state \in [Rings -> [Slots -> SlotState]] /\ gen \in [Rings -> [Slots -> Nat]]
        /\ pins \in [Rings -> [Slots -> SUBSET Readers]]
        /\ registered \in [Rings -> Nat] /\ ringEpoch \in [Rings -> Nat]
    BY DEF CoreInv, TypeOK
  <1>2. CASE Clear
    <2>1. k # RingFor(sup.new)
      BY <1>2 DEF Clear, Spared, Resetting
    <2> QED
      BY <1>1, <1>2, <2>1 DEF Clear
  <1>3. CASE Unregister \/ Bump
    <2>1. k # RingFor(sup.new)
      BY <1>3 DEF Unregister, Bump, Spared, Resetting
    <2> QED
      BY <1>1, <1>3, <2>1 DEF Unregister, Bump
  <1> QED
    BY <1>2, <1>3 DEF Supervise, SwitchStart, Drained, Defer, PublishName, PublishEpoch

(* The switchovers have been paced as long as sup.settled says so.         *)
LEMMA SettledBefore ==
  ASSUME TypeOK, [Next]_vars, sup'.settled
  PROVE  sup.settled /\ (SwitchStart => Settled(cpEpoch + 1))
  <1>1. CASE Bystander
    BY <1>1, SwitchStartFields DEF Bystander
  <1>2. CASE SwitchStart
    BY <1>2, SwitchStartFields
  <1>3. CASE Supervise
    <2>1. sup'.settled = sup.settled
      BY <1>3, NextPassFields, DeferFields, UnregisterFields, BumpFields, PublishNameFields,
         PublishEpochFields DEF Supervise, Drained, Clear
    <2> QED
      BY <1>3, <2>1, SwitchStartFields
  <1> QED
    BY <1>1, <1>2, <1>3, Bystanders

(***************************************************************************)
(* Paced.                                                                  *)
(***************************************************************************)

(* Nobody is late for the epoch a switchover heads for.                    *)
LEMMA LatestSteps ==
  ASSUME TypeOK, EpochsInv, [Next]_vars
  PROVE  /\ Latest \in Nat /\ Latest' \in Nat /\ Latest <= cpEpoch + 1
         /\ SwitchStart => Latest' = cpEpoch + 1
         /\ ~SwitchStart => Latest' <= Latest
  <1> USE DEF rings, slots, cp
  <1>0. /\ cpEpoch \in Nat /\ sup.new \in Nat /\ (sup.pc # "idle" => sup.new = cpEpoch + 1)
        /\ cpEpoch' \in Nat /\ sup'.new \in Nat
    BY EpochTyped DEF TypeOK, EpochsInv
  <1>1. Latest \in Nat /\ Latest' \in Nat /\ Latest <= cpEpoch + 1
    BY <1>0 DEF Latest
  <1>2. CASE SwitchStart
    <2>1. sup'.pc = "guard" /\ sup'.new = cpEpoch + 1
      BY <1>2, SwitchStartFields
    <2> QED
      BY <1>1, <1>2, <2>1 DEF Latest
  <1>3. CASE Drained \/ Clear \/ Unregister \/ Bump \/ PublishName
    <2>1. sup.pc # "idle" /\ sup'.pc # "idle" /\ sup'.new = sup.new
      BY <1>3, NextPassFields, UnregisterFields, BumpFields, PublishNameFields DEF Drained, Clear
    <2>2. Latest' = Latest
      BY <2>1 DEF Latest
    <2>3. ~SwitchStart
      BY <2>1 DEF SwitchStart
    <2> QED
      BY <1>1, <2>2, <2>3
  <1>4. CASE Defer \/ PublishEpoch
    <2>1. /\ sup.pc # "idle" /\ sup'.pc = "idle"
          /\ cpEpoch' = cpEpoch \/ cpEpoch' = sup.new
      BY <1>4, DeferFields, PublishEpochFields DEF Defer, PublishEpoch
    <2>2. Latest' <= Latest
      BY <1>0, <2>1 DEF Latest
    <2>3. ~SwitchStart
      BY <2>1 DEF SwitchStart
    <2> QED
      BY <1>1, <2>2, <2>3
  <1>5. CASE Bystander
    <2>1. Latest' = Latest
      BY <1>5 DEF Bystander, Latest
    <2>2. ~SwitchStart
      BY <1>5, SwitchStartFields DEF Bystander
    <2> QED
      BY <1>1, <2>1, <2>2
  <1> QED
    BY <1>2, <1>3, <1>4, <1>5, Bystanders DEF Supervise

(* A call in a new state was in the call before, or has just begun.        *)
LEMMA CallsBegin ==
  ASSUME TypeOK, [Next]_vars
  PROVE  /\ InCall(wr') => (InCall(wr) /\ wr'.seen = wr.seen) \/ (wr'.seen = cpEpoch /\ ~SwitchStart)
         /\ \A r \in Readers : InCall(rd'[r]) =>
              (InCall(rd[r]) /\ rd'[r].seen = rd[r].seen) \/ (rd'[r].seen = cpEpoch /\ ~SwitchStart)
  <1> USE DEF rings, slots, cp
  <1>4. ASSUME InCall(wr')
        PROVE  (InCall(wr) /\ wr'.seen = wr.seen) \/ (wr'.seen = cpEpoch /\ ~SwitchStart)
    <2>1. CASE wr' = wr
      BY <1>4, <2>1 DEF InCall
    <2>2. CASE WriterSpawn \/ WriteCall
      BY <2>2, WriterSpawnFields, WriteCallFields, SwitchStartFields DEF WriterSpawn, WriteCall
    <2>3. CASE WriterReadName \/ Register \/ Refused \/ Construct
      BY <2>3, WriterReadNameFields, RegisterFields, RefusedFields, ConstructFields DEF InCall
    <2>4. CASE WriteCopyLo \/ WriteCopyHi \/ WriteCommit
      BY <2>4, WriteCopyLoFields, WriteCopyHiFields, WriteCommitFields DEF InCall
    <2>5. CASE WriterCrash
      BY <1>4, <2>5, WriterCrashFields DEF InCall
    <2>6. CASE \E s \in Slots : WriteMark(s) \/ WriteBusy(s)
      BY <2>6, WriteMarkFields, WriteBusyFields DEF InCall
    <2> QED
      BY <2>1, <2>2, <2>3, <2>4, <2>5, <2>6, Movers DEF WriteStep
  <1>5. ASSUME NEW r \in Readers, InCall(rd'[r])
        PROVE  (InCall(rd[r]) /\ rd'[r].seen = rd[r].seen) \/ (rd'[r].seen = cpEpoch /\ ~SwitchStart)
    <2>1. CASE rd'[r] = rd[r]
      BY <1>5, <2>1
    <2>2. CASE ReaderSpawn(r) \/ \E ref \in refs : ReadCall(r, ref)
      <3>1. rd'[r].seen = cpEpoch
        BY <2>2, ReaderSpawnFields, ReadCallFields
      <3>2. sup' = sup
        BY <2>2 DEF ReaderSpawn, ReadCall
      <3>3. ~SwitchStart
        BY <3>2, SwitchStartFields
      <3> QED
        BY <3>1, <3>3
    <2>3. CASE ReadStep(r)
      BY <1>5, <2>3, ReaderReadNameFields, ReadCheckFields, ReadPinFields, ReadStaleFields,
         ReadCopyLoFields, ReadCopyHiFields, ReadUnpinFields DEF ReadStep, InCall
    <2> QED
      BY <2>1, <2>2, <2>3, Movers
  <1> QED
    BY <1>4, <1>5

(* A call under way stays within PoolSize epochs of the latest.            *)
LEMMA PacedStep ==
  ASSUME CoreInv, Paced, [Next]_vars, sup'.settled
  PROVE  Paced'
  <1>0. TypeOK /\ EpochsInv /\ PoolSize \in Nat /\ PoolSize >= 2 /\ cpEpoch \in Nat
    BY PoolFacts DEF CoreInv, TypeOK
  <1>1. /\ Latest \in Nat /\ Latest' \in Nat /\ Latest <= cpEpoch + 1
        /\ SwitchStart => Latest' = cpEpoch + 1
        /\ ~SwitchStart => Latest' <= Latest
    BY <1>0, LatestSteps
  <1>2. SwitchStart => Settled(cpEpoch + 1)
    BY <1>0, SettledBefore
  <1>3. ASSUME InCall(wr')
        PROVE  wr'.seen + PoolSize > Latest'
    <2>1. wr.seen \in Nat
      BY <1>0 DEF TypeOK
    <2>2. (InCall(wr) /\ wr'.seen = wr.seen) \/ (wr'.seen = cpEpoch /\ ~SwitchStart)
      BY <1>0, <1>3, CallsBegin
    <2> QED
      BY <1>0, <1>1, <1>2, <2>1, <2>2 DEF Paced, Settled
  <1>4. ASSUME NEW r \in Readers, InCall(rd'[r])
        PROVE  rd'[r].seen + PoolSize > Latest'
    <2>1. rd[r].seen \in Nat
      BY <1>0 DEF TypeOK
    <2>2. (InCall(rd[r]) /\ rd'[r].seen = rd[r].seen) \/ (rd'[r].seen = cpEpoch /\ ~SwitchStart)
      BY <1>0, <1>4, CallsBegin
    <2> QED
      BY <1>0, <1>1, <1>2, <2>1, <2>2 DEF Paced, Settled
  <1> QED
    BY <1>3, <1>4 DEF Paced, InCall
(***************************************************************************)
(* Who touches what.                                                       *)
(***************************************************************************)
WriterActs == WriterSpawn \/ WriteCall \/ WriteStep \/ WriterCrash
ReaderActs(r) == ReaderSpawn(r) \/ ReadStep(r) \/ \E ref \in refs : ReadCall(r, ref)

(* A step is the supervisor's, the writer's, a reader's or a quarantine.   *)
LEMMA Actors ==
  ASSUME [Next]_vars
  PROVE  \/ SwitchStart \/ Supervise \/ WriterActs
         \/ \E r \in Readers : ReaderActs(r)
         \/ \E s \in Slots : Quarantine(s)
         \/ UNCHANGED vars
  BY DEF Next, WriterActs, ReaderActs

(* What a step of the writer leaves alone.                                 *)
LEMMA WriterLeaves ==
  ASSUME WriterActs
  PROVE  UNCHANGED <<sup, ringEpoch, cpEpoch, cpName, pins, rd>>
  BY DEF WriterActs, WriteStep, rings, slots, cp, WriterSpawn, WriteCall, WriterReadName,
     Register, Refused, Construct, WriteMark, WriteBusy, WriteCopyLo, WriteCopyHi, WriteCommit,
     WriterCrash

(* What a step of a reader leaves alone.                                   *)
LEMMA ReaderLeaves ==
  ASSUME NEW r \in Readers, ReaderActs(r)
  PROVE  UNCHANGED <<sup, ringEpoch, registered, cpEpoch, cpName, gen, lo, hi, wr, refs, frames>>
  BY DEF ReaderActs, ReadStep, rings, slots, cp, ReaderSpawn, ReadCall, ReaderReadName, ReadCheck,
     ReadPin, ReadStale, ReadCopyLo, ReadCopyHi, ReadUnpin

(* What a quarantine leaves alone.                                         *)
LEMMA QuarantineLeaves ==
  ASSUME NEW s \in Slots, Quarantine(s)
  PROVE  /\ UNCHANGED <<sup, ringEpoch, registered, cpEpoch, cpName, gen, pins, lo, hi>>
         /\ UNCHANGED <<wr, rd, refs, frames>>
  BY DEF Quarantine, rings, cp

(* The writer marks and commits slots of its ring.                         *)
LEMMA WriterCells ==
  ASSUME TypeOK, WriterActs, NEW k \in Rings, NEW s \in Slots,
         state'[k][s] # state[k][s] \/ gen'[k][s] # gen[k][s]
  PROVE  WriterInRing /\ k = wr.ring /\ (WriteMark(s) \/ (WriteCommit /\ s = wr.slot))
  <1>1. ASSUME NEW x \in Slots, WriteMark(x)
        PROVE  WriterInRing /\ k = wr.ring /\ x = s
    BY <1>1, WriteMarkCells, WriteMarkFields DEF CellSet, WriterInRing
  <1>2. CASE WriteCommit
    <2>1. k = wr.ring /\ s = wr.slot
      BY <1>2, WriteCommitCells DEF CellSet
    <2> QED
      BY <1>2, <2>1, WriteCommitFields DEF WriterInRing
  <1>3. ASSUME WriterSpawn \/ WriteCall \/ WriterReadName \/ Register \/ Refused \/ Construct
                 \/ (\E x \in Slots : WriteBusy(x)) \/ WriteCopyLo \/ WriteCopyHi \/ WriterCrash
        PROVE  state' = state /\ gen' = gen
    BY <1>3 DEF slots, WriterSpawn, WriteCall, WriterReadName, Register, Refused, Construct,
       WriteBusy, WriteCopyLo, WriteCopyHi, WriterCrash
  <1> QED
    BY <1>1, <1>2, <1>3 DEF WriterActs, WriteStep

(* A reader pins and unpins the slot of its ref.                           *)
LEMMA ReaderCells ==
  ASSUME TypeOK, NEW r \in Readers, ReaderActs(r), NEW k \in Rings, NEW s \in Slots,
         state'[k][s] # state[k][s] \/ pins'[k][s] # pins[k][s]
  PROVE  (ReadPin(r) \/ ReadUnpin(r)) /\ k = rd[r].ring /\ s = rd[r].ref.slot
  <1>1. CASE ReadPin(r)
    BY <1>1, ReadPinCells DEF CellSet
  <1>2. CASE ReadUnpin(r)
    BY <1>2, ReadUnpinCells DEF CellSet
  <1>3. ASSUME ReaderSpawn(r) \/ (\E ref \in refs : ReadCall(r, ref)) \/ ReaderReadName(r)
                 \/ ReadCheck(r) \/ ReadStale(r) \/ ReadCopyLo(r) \/ ReadCopyHi(r)
        PROVE  state' = state /\ pins' = pins
    BY <1>3 DEF slots, ReaderSpawn, ReadCall, ReaderReadName, ReadCheck, ReadStale, ReadCopyLo,
       ReadCopyHi
  <1> QED
    BY <1>1, <1>2, <1>3 DEF ReaderActs, ReadStep

(* A quarantine changes one slot of the ring the control plane names.      *)
LEMMA QuarantineCell ==
  ASSUME TypeOK, NEW x \in Slots, Quarantine(x), NEW k \in Rings, NEW s \in Slots,
         state'[k][s] # state[k][s]
  PROVE  k = cpName /\ s = x /\ state'[k][s] = "QUARANTINED"
  BY QuarantineCells DEF CellSet

(***************************************************************************)
(* The ring that is reset stays as the passes leave it.                    *)
(***************************************************************************)
(* No call and no quarantine touches the ring that is being reset.         *)
LEMMA QuietRing ==
  ASSUME CoreInv, Paced, Resetting \/ sup.pc = "name", NEW s \in Slots,
         \/ WriterActs
         \/ \E r \in Readers : ReaderActs(r)
         \/ \E x \in Slots : Quarantine(x)
         \/ UNCHANGED vars
  PROVE  /\ sup' = sup
         /\ state'[RingFor(sup.new)][s] = state[RingFor(sup.new)][s]
         /\ pins'[RingFor(sup.new)][s] = pins[RingFor(sup.new)][s]
  <1> DEFINE k == RingFor(sup.new)
  <1>0. TypeOK /\ k \in Rings /\ k # cpName
    BY RingForType, PublishedInv DEF CoreInv, TypeOK
  <1> HIDE DEF k
  <1>1. CASE WriterActs
    <2>1. WriterInRing => k # wr.ring
      BY RingOfWriter DEF Spared, k
    <2>2. state'[k][s] = state[k][s]
      BY <1>0, <1>1, <2>1, WriterCells
    <2> QED
      BY <1>1, <2>2, WriterLeaves DEF k
  <1>2. ASSUME NEW r \in Readers, ReaderActs(r)
        PROVE  sup' = sup /\ state'[k][s] = state[k][s] /\ pins'[k][s] = pins[k][s]
    <2>1. InRing(r) => k # rd[r].ring
      BY RingOfReader DEF Spared, k
    <2>2. ReadPin(r) \/ ReadUnpin(r) => InRing(r)
      BY <1>0, ReadPinFields, ReadUnpinFields DEF InRing
    <2> QED
      BY <1>0, <1>2, <2>1, <2>2, ReaderCells, ReaderLeaves
  <1>3. ASSUME NEW x \in Slots, Quarantine(x)
        PROVE  sup' = sup /\ state'[k][s] = state[k][s] /\ pins'[k][s] = pins[k][s]
    BY <1>0, <1>3, QuarantineCell, QuarantineLeaves
  <1>4. CASE UNCHANGED vars
    BY <1>4 DEF vars, slots, k
  <1> QED
    BY <1>1, <1>2, <1>3, <1>4 DEF k

(* What the passes have cleared stays so until the ring is published.      *)
LEMMA ClearedStep ==
  ASSUME CoreInv, Paced, ClearedSoFar, [Next]_vars
  PROVE  ClearedSoFar'
  <1> USE DEF rings, slots, cp
  <1>a. TypeOK /\ RingFor(sup.new) \in Rings
    BY RingForType DEF CoreInv, TypeOK
  <1>b. NSlots \in Nat /\ \A s \in Slots : s \in Nat /\ s < NSlots
    BY PoolFacts DEF Slots
  <1>0. /\ TypeOK /\ RingFor(sup.new) \in Rings /\ sup.slot \in Nat /\ NSlots \in Nat
        /\ \A s \in Slots : s \in Nat /\ s < NSlots
    BY <1>a, <1>b DEF TypeOK
  <1>1. CASE SwitchStart \/ Defer \/ PublishName \/ PublishEpoch
    <2>1. sup'.pc \in {"guard", "idle", "epoch"}
      BY <1>0, <1>1, SwitchStartFields, DeferFields, PublishNameFields, PublishEpochFields
    <2> QED
      BY <2>1 DEF ClearedSoFar
  <1>2. CASE Drained
    <2>1. sup'.pc = "guard" \/ (sup'.pc = "clear" /\ sup'.slot = 0)
      BY <1>0, <1>2, NextPassFields DEF Drained
    <2>2. \A s \in Slots : ~(s < 0)
      BY <1>0
    <2> QED
      BY <2>1, <2>2 DEF ClearedSoFar
  <1>3. CASE Clear
    <2> DEFINE k == RingFor(sup.new)
    <2>1. /\ sup.pc = "clear" /\ sup'.new = sup.new
          /\ \/ sup'.pc = "clear" /\ sup'.slot = sup.slot + 1
             \/ sup'.pc = "unregister" /\ sup.slot + 1 >= NSlots
      BY <1>0, <1>3, NextPassFields DEF Clear
    <2>2. \A s \in Slots : s < sup.slot + 1 => state'[k][s] = "FREE" /\ pins'[k][s] = {}
      <3> SUFFICES ASSUME NEW s \in Slots, s < sup.slot + 1
                   PROVE  state'[k][s] = "FREE" /\ pins'[k][s] = {}
        OBVIOUS
      <3>1. CASE s = sup.slot
        BY <1>0, <1>3, <3>1, ClearCells DEF CellSet
      <3>2. CASE s # sup.slot
        <4>1. s < sup.slot
          BY <1>0, <3>2
        <4>2. Cleared(s)
          BY <2>1, <4>1 DEF ClearedSoFar
        <4> QED
          BY <1>0, <1>3, <3>2, <4>2, ClearCells DEF CellSet, Cleared
      <3> QED
        BY <3>1, <3>2
    <2>3. ASSUME NEW s \in Slots, sup'.pc = "clear" => s < sup'.slot
          PROVE  Cleared(s)'
      <3>1. s < sup.slot + 1
        BY <1>0, <2>1, <2>3
      <3> QED
        BY <2>1, <2>2, <3>1 DEF Cleared
    <2> QED
      BY <2>3, <2>1 DEF ClearedSoFar
  <1>4. CASE Unregister \/ Bump
    <2>1. /\ sup.pc \in {"unregister", "bump"} /\ sup'.pc \in {"bump", "name"} /\ sup'.new = sup.new
          /\ state' = state /\ pins' = pins
      BY <1>0, <1>4, UnregisterFields, BumpFields DEF Unregister, Bump
    <2> QED
      BY <2>1 DEF ClearedSoFar, Cleared
  <1>5. CASE WriterActs \/ (\E r \in Readers : ReaderActs(r)) \/ (\E x \in Slots : Quarantine(x))
               \/ UNCHANGED vars
    <2>1. ASSUME NEW s \in Slots, sup.pc \in {"clear", "unregister", "bump", "name"}, Cleared(s)
          PROVE  Cleared(s)'
      <3>1. Resetting \/ sup.pc = "name"
        BY <2>1 DEF Resetting
      <3> QED
        BY <1>5, <2>1, <3>1, QuietRing DEF Cleared
    <2>2. sup' = sup
      BY <1>5, WriterLeaves, ReaderLeaves, QuarantineLeaves DEF vars
    <2> QED
      BY <2>1, <2>2 DEF ClearedSoFar
  <1> QED
    BY <1>1, <1>2, <1>3, <1>4, <1>5, Actors DEF Supervise
(***************************************************************************)
(* Registration and generations.                                           *)
(***************************************************************************)

(* A ring becomes vacant, and stops being so, by the supervisor's hand     *)
(* only.                                                                   *)
LEMMA VacantSteps ==
  ASSUME TypeOK, [Next]_vars, ~Unregister, ~Bump, NEW k
  PROVE  Vacant(k)' = Vacant(k) /\ ringEpoch' = ringEpoch
  <1> USE DEF rings, slots, cp
  <1>1. CASE SwitchStart \/ Defer \/ PublishName \/ PublishEpoch
    <2>1. sup'.pc # "bump" /\ sup.pc # "bump" /\ ringEpoch' = ringEpoch
      BY <1>1, SwitchStartFields, DeferFields, PublishNameFields, PublishEpochFields
      DEF SwitchStart, Defer, PublishName, PublishEpoch
    <2> QED
      BY <2>1 DEF Vacant
  <1>2. CASE Drained \/ Clear
    <2>1. sup'.pc # "bump" /\ sup.pc # "bump" /\ ringEpoch' = ringEpoch
      BY <1>2, NextPassFields DEF Drained, Clear
    <2> QED
      BY <2>1 DEF Vacant
  <1>3. CASE WriterActs \/ (\E r \in Readers : ReaderActs(r)) \/ (\E x \in Slots : Quarantine(x))
               \/ UNCHANGED vars
    <2>1. sup' = sup /\ ringEpoch' = ringEpoch
      BY <1>3, WriterLeaves, ReaderLeaves, QuarantineLeaves DEF vars
    <2> QED
      BY <2>1 DEF Vacant
  <1> QED
    BY <1>1, <1>2, <1>3, Actors DEF Supervise

(* The registration changes when a writer registers or the ring is reset.  *)
LEMMA RegisteredSteps ==
  ASSUME [Next]_vars
  PROVE  registered' = registered \/ Register \/ Unregister
  BY DEF Next, vars, rings, slots, cp, Supervise, SwitchStart, Drained, Defer, Clear, Bump,
     PublishName, PublishEpoch, WriterSpawn, WriteCall, WriteStep, WriterReadName, Refused,
     Construct, WriteMark, WriteBusy, WriteCopyLo, WriteCopyHi, WriteCommit, WriterCrash,
     ReaderSpawn, ReadCall, ReadStep, ReaderReadName, ReadCheck, ReadPin, ReadStale, ReadCopyLo,
     ReadCopyHi, ReadUnpin, Quarantine

(* What a registration writes.                                             *)
LEMMA RegisterEffect ==
  ASSUME CoreInv, Register
  PROVE  /\ wr.target \in Rings /\ registered[wr.target] = 0
         /\ \A k \in Rings : registered'[k] = IF k = wr.target THEN wr.pid ELSE registered[k]
         /\ wr.pid \in Nat /\ wr.pid # 0
         /\ \A k \in Rings : registered[k] # 0 => registered'[k] # 0
  <1>1. registered \in [Rings -> Nat] /\ wr.target \in Rings /\ wr.pid \in Nat
    BY DEF CoreInv, TypeOK
  <1>2. wr.pid >= 1
    BY DEF CoreInv, WriterInv, Register
  <1> QED
    BY <1>1, <1>2 DEF Register

(* Unregister makes a ring nobody's and changes nothing else, Bump gives   *)
(* it an epoch no ref can be of.                                           *)
LEMMA UnregisterEffect ==
  ASSUME CoreInv, Unregister
  PROVE  /\ RingFor(sup.new) \in Rings /\ sup'.pc = "bump" /\ sup'.new = sup.new
         /\ UNCHANGED <<ringEpoch, wr, refs>>
         /\ \A k \in Rings : k # RingFor(sup.new) => registered'[k] = registered[k]
         /\ \A k : ~Vacant(k)
  <1>1. TypeOK /\ registered \in [Rings -> Nat] /\ RingFor(sup.new) \in Rings
    BY RingForType DEF CoreInv, TypeOK
  <1>2. sup.pc = "unregister" /\ sup'.pc = "bump" /\ sup'.new = sup.new
    BY <1>1, UnregisterFields
  <1> QED
    BY <1>1, <1>2 DEF Unregister, Vacant, slots, cp

(* The bump gives one ring an epoch there are no refs of.                  *)
LEMMA BumpEffect ==
  ASSUME CoreInv, Bump
  PROVE  /\ RingFor(sup.new) \in Rings /\ Vacant(RingFor(sup.new))
         /\ UNCHANGED <<registered, wr, refs>>
         /\ \A k \in Rings : k # RingFor(sup.new) => ringEpoch'[k] = ringEpoch[k] /\ ~Vacant(k)
         /\ ringEpoch'[RingFor(sup.new)] = sup.new
         /\ sup.new \in Nat /\ Activated \in Nat /\ sup.new > Activated
         /\ \A k : ~Vacant(k)'
  <1>1. TypeOK /\ ringEpoch \in [Rings -> Nat] /\ RingFor(sup.new) \in Rings /\ sup.new \in Nat /\ cpEpoch \in Nat
    BY RingForType DEF CoreInv, TypeOK
  <1>2. sup.pc = "bump" /\ sup'.pc = "name" /\ sup'.new = sup.new
    BY <1>1, BumpFields
  <1>3. Activated = cpEpoch /\ sup.new = cpEpoch + 1
    BY <1>2 DEF CoreInv, EpochsInv, Activated
  <1> QED
    BY <1>1, <1>2, <1>3 DEF Bump, Vacant, slots, cp

(* Every step keeps what is known of registrations.                        *)
LEMMA RegistrationStep ==
  ASSUME CoreInv, Paced, Registration, [Next]_vars
  PROVE  Registration'
  <1>0. /\ TypeOK /\ VacantOrOwned /\ ConstructFresh /\ OwnRing
        /\ wr.label \in Nat /\ wr.ring \in Rings /\ wr.target \in Rings /\ wr.epoch \in Nat
    BY DEF Registration, CoreInv, TypeOK
  <1>1. CASE Unregister
    <2>1. wr.pc = "construct" => Spared(wr.target) /\ wr.target # RingFor(sup.new)
      BY <1>1, RingOfWriter DEF Spared, Resetting, Unregister
    <2>2. VacantOrOwned'
      BY <1>0, <1>1, UnregisterEffect DEF VacantOrOwned, NoRefs, Vacant
    <2>3. ConstructFresh'
      BY <1>0, <1>1, <2>1, UnregisterEffect DEF ConstructFresh, NoRefs
    <2>4. OwnRing'
      BY <1>0, <1>1, UnregisterEffect DEF OwnRing, Vacant
    <2> QED
      BY <2>2, <2>3, <2>4 DEF Registration
  <1>2. CASE Bump
    <2>0. \A ref \in refs : ref.epoch \in Nat /\ ref.epoch <= Activated
      BY DEF CoreInv, RefsInv, TypeOK, Refs
    <2>1. wr.pc = "construct" => wr.target # RingFor(sup.new)
      BY <1>2, RingOfWriter DEF Spared, Resetting, Bump
    <2>2. VacantOrOwned'
      BY <1>0, <1>2, <2>0, BumpEffect DEF VacantOrOwned, NoRefs
    <2>3. ConstructFresh'
      BY <1>0, <1>2, <2>1, BumpEffect DEF ConstructFresh, NoRefs
    <2>4. wr.pc # "down" /\ wr.epoch > 0 => wr.label <= Activated
      BY DEF CoreInv, WriterInv
    <2>5. OwnRing'
      BY <1>0, <1>2, <2>4, BumpEffect DEF OwnRing
    <2> QED
      BY <2>2, <2>3, <2>5 DEF Registration
  <1>3. CASE ~Unregister /\ ~Bump
    <2>0. ringEpoch' = ringEpoch /\ \A k : Vacant(k)' = Vacant(k)
      BY <1>0, <1>3, VacantSteps
    <2>1. \A k \in Rings : registered[k] # 0 => registered'[k] # 0
      BY <1>3, RegisteredSteps, RegisterEffect
    <2>2. VacantOrOwned'
      <3> SUFFICES ASSUME NEW k \in Rings, registered'[k] = 0, ~Vacant(k)
                   PROVE  NoRefs(ringEpoch[k])'
        BY <2>0 DEF VacantOrOwned
      <3>1. registered[k] = 0 /\ NoRefs(ringEpoch[k])
        BY <1>0, <2>1 DEF VacantOrOwned
      <3>2. CASE refs' = refs
        BY <2>0, <3>1, <3>2 DEF NoRefs
      <3>3. CASE WriteCommit
        <4>1. WriterInRing /\ wr.pc # "down" /\ wr.epoch > 0
          BY <1>0, <3>3, WriteCommitFields DEF WriterInRing, CoreInv, WriterInv
        <4>2. wr.label = ringEpoch[wr.ring] /\ RingFor(wr.label) = wr.ring /\ wr.label >= 1
          BY <4>1, RingOfWriter DEF CoreInv, WriterInv
        <4>3. ringEpoch[k] = wr.label => k = wr.ring
          BY <1>0, <4>2 DEF CoreInv, EpochsInv
        <4>4. k # wr.ring
          BY <1>0, <3>1, <4>1, <4>2 DEF OwnRing
        <4>5. \A ref \in refs' : ref \in refs \/ ref.epoch = wr.label
          BY <3>3 DEF WriteCommit
        <4> QED
          BY <2>0, <3>1, <4>3, <4>4, <4>5 DEF NoRefs
      <3> QED
        BY <1>0, <3>2, <3>3, Movers
    <2>3. ConstructFresh'
      <3> SUFFICES ASSUME wr'.pc = "construct"
                   PROVE  registered'[wr'.target] # 0 /\ (\A ref \in refs' : ref.epoch # ringEpoch[wr'.target])
        BY <2>0 DEF ConstructFresh, NoRefs
      <3>1. CASE Register
        <4>1. registered[wr.target] = 0 /\ registered'[wr.target] # 0 /\ wr.target \in Rings
          BY <3>1, RegisterEffect
        <4>2. Spared(wr.target)
          BY <3>1, RingOfWriter DEF Register
        <4>3. ~Vacant(wr.target)
          BY <4>2 DEF Spared, Resetting, Vacant
        <4>4. NoRefs(ringEpoch[wr.target])
          BY <1>0, <4>1, <4>3 DEF VacantOrOwned
        <4>5. wr'.target = wr.target /\ refs' = refs
          BY <1>0, <3>1, RegisterFields DEF Register
        <4> QED
          BY <2>0, <4>1, <4>4, <4>5 DEF NoRefs
      <3>2. CASE wr' = wr
        <4>1. refs' = refs /\ wr.pc = "construct"
          BY <1>0, <3>2, WriteCommitFields, Movers
        <4> QED
          BY <1>0, <2>0, <2>1, <3>2, <4>1 DEF ConstructFresh, NoRefs
      <3>3. ASSUME WriterActs, ~Register
            PROVE  wr'.pc # "construct"
        <4>1. CASE WriterSpawn \/ WriteCall \/ WriterCrash \/ WriterReadName \/ Refused \/ Construct
          BY <1>0, <4>1, WriterSpawnFields, WriteCallFields, WriterCrashFields, WriterReadNameFields,
             RefusedFields, ConstructFields
        <4>2. CASE WriteCopyLo \/ WriteCopyHi \/ WriteCommit \/ (\E s \in Slots : WriteMark(s) \/ WriteBusy(s))
          BY <1>0, <4>2, WriteCopyLoFields, WriteCopyHiFields, WriteCommitFields, WriteMarkFields,
             WriteBusyFields
        <4> QED
          BY <3>3, <4>1, <4>2 DEF WriterActs, WriteStep
      <3> QED
        BY <1>0, <3>1, <3>2, <3>3, Movers DEF WriterActs
    <2>4. OwnRing'
      <3> SUFFICES ASSUME wr'.pc # "down", wr'.epoch > 0, wr'.label = ringEpoch[wr'.ring], ~Vacant(wr'.ring)
                   PROVE  registered'[wr'.ring] # 0
        BY <2>0 DEF OwnRing, Vacant
      <3>1. CASE Construct
        <4>1. wr'.ring = wr.target /\ wr.pc = "construct"
          BY <1>0, <3>1, ConstructFields
        <4> QED
          BY <1>0, <2>1, <4>1 DEF ConstructFresh
      <3>2. CASE wr.pc # "down" /\ wr'.ring = wr.ring /\ wr'.label = wr.label /\ wr'.epoch = wr.epoch
        BY <1>0, <2>1, <3>2 DEF OwnRing
      <3>3. WriterActs /\ ~Construct =>
              wr.pc # "down" /\ wr'.ring = wr.ring /\ wr'.label = wr.label /\ wr'.epoch = wr.epoch
        <4>1. CASE WriteCall \/ WriterReadName \/ Register
          BY <1>0, <4>1, WriteCallFields, WriterReadNameFields, RegisterFields
        <4>2. CASE WriterSpawn \/ WriterCrash \/ Refused
          BY <1>0, <4>2, WriterSpawnFields, WriterCrashFields, RefusedFields
        <4>3. CASE WriteCopyLo \/ WriteCopyHi \/ WriteCommit \/ (\E s \in Slots : WriteMark(s) \/ WriteBusy(s))
          BY <1>0, <4>3, WriteCopyLoFields, WriteCopyHiFields, WriteCommitFields, WriteMarkFields,
             WriteBusyFields
        <4> QED
          BY <4>1, <4>2, <4>3 DEF WriterActs, WriteStep
      <3>4. CASE wr' = wr
        BY <3>2, <3>4
      <3> QED
        BY <1>0, <3>1, <3>2, <3>3, <3>4, Movers DEF WriterActs
    <2> QED
      BY <2>2, <2>3, <2>4 DEF Registration
  <1> QED
    BY <1>1, <1>2, <1>3
(* The writer's own steps keep its ring and its label, but for Construct.  *)
LEMMA WriterKeeps ==
  ASSUME TypeOK, [Next]_vars, ~Construct, wr'.pc # "down", wr'.epoch > 0
  PROVE  /\ wr.pc # "down" /\ wr.epoch > 0
         /\ wr'.ring = wr.ring /\ wr'.label = wr.label /\ wr'.epoch = wr.epoch
  <1>1. CASE WriteCall \/ WriterReadName \/ Register
    BY <1>1, WriteCallFields, WriterReadNameFields, RegisterFields
  <1>2. CASE WriterSpawn \/ WriterCrash \/ Refused
    BY <1>2, WriterSpawnFields, WriterCrashFields, RefusedFields
  <1>3. CASE WriteCopyLo \/ WriteCopyHi \/ WriteCommit \/ (\E s \in Slots : WriteMark(s) \/ WriteBusy(s))
    BY <1>3, WriteCopyLoFields, WriteCopyHiFields, WriteCommitFields, WriteMarkFields, WriteBusyFields
  <1>4. CASE wr' = wr
    BY <1>4
  <1> QED
    BY <1>1, <1>2, <1>3, <1>4, Movers DEF WriterActs, WriteStep

(* The steps of a write.                                                   *)
LEMMA WritingSteps ==
  ASSUME TypeOK, [Next]_vars, Writing'
  PROVE  \/ \E s \in Slots : WriteMark(s)
         \/ /\ WriteCopyLo \/ WriteCopyHi \/ wr' = wr
            /\ Writing /\ wr'.ring = wr.ring /\ wr'.slot = wr.slot /\ wr'.gen = wr.gen
            /\ wr'.next = wr.next /\ wr'.frame = wr.frame
  <1>1. CASE WriterSpawn \/ WriteCall \/ WriterCrash \/ WriterReadName \/ Refused \/ Construct
    BY <1>1, WriterSpawnFields, WriteCallFields, WriterCrashFields, WriterReadNameFields,
       RefusedFields, ConstructFields DEF Writing
  <1>2. CASE Register \/ WriteCommit \/ (\E s \in Slots : WriteBusy(s))
    BY <1>2, RegisterFields, WriteCommitFields, WriteBusyFields DEF Writing
  <1>3. CASE WriteCopyLo \/ WriteCopyHi
    BY <1>3, WriteCopyLoFields, WriteCopyHiFields DEF Writing
  <1>4. CASE wr' = wr
    BY <1>4 DEF Writing
  <1> QED
    BY <1>1, <1>2, <1>3, <1>4, Movers DEF WriterActs, WriteStep

(* Every step keeps the generations new.                                   *)
LEMMA FreshStep ==
  ASSUME CoreInv, Paced, Registration, FreshGenerations, [Next]_vars
  PROVE  FreshGenerations'
  <1>0. /\ TypeOK /\ wr.next \in Nat /\ wr.gen \in Nat /\ wr.label \in Nat /\ refs \subseteq Refs
        /\ \A ref \in refs : ref.gen \in Nat
    BY DEF CoreInv, TypeOK, Refs
  <1>1. CASE Construct
    <2>1. /\ wr'.label = ringEpoch[wr.target] /\ wr.pc = "construct" /\ refs' = refs
          /\ ~Writing'
      BY <1>0, <1>1, ConstructFields DEF Construct, Writing
    <2>2. NoRefs(ringEpoch[wr.target])
      BY <2>1 DEF Registration, ConstructFresh
    <2> QED
      BY <2>1, <2>2 DEF FreshGenerations, NoRefs
  <1>2. ASSUME NEW s \in Slots, WriteMark(s)
        PROVE  FreshGenerations'
    <2>1. /\ wr'.next = wr.next + 1 /\ wr'.gen = wr.next /\ wr'.label = wr.label /\ refs' = refs
          /\ wr.pc # "down" /\ wr.epoch > 0
      BY <1>0, <1>2, WriteMarkFields DEF WriteMark, CoreInv, WriterInv, WriterInRing
    <2>2. \A ref \in refs : ref.epoch = wr.label => ref.gen < wr.next
      BY <2>1 DEF FreshGenerations
    <2> QED
      BY <1>0, <2>1, <2>2 DEF FreshGenerations
  <1>3. CASE WriteCommit
    <2>1. /\ wr.pc = "commit" /\ wr'.next = wr.next /\ wr'.label = wr.label /\ ~Writing'
          /\ refs' = refs \cup
               {[slot |-> wr.slot, gen |-> wr.gen, epoch |-> wr.label, frame |-> wr.frame]}
          /\ wr.epoch > 0
      BY <1>0, <1>3, WriteCommitFields DEF WriteCommit, Writing, CoreInv, WriterInv, WriterInRing
    <2>2. /\ wr.gen < wr.next
          /\ \A ref \in refs : ref.epoch = wr.label => ref.gen < wr.next
      BY <2>1 DEF FreshGenerations, Writing
    <2> QED
      BY <2>1, <2>2 DEF FreshGenerations
  <1>4. CASE ~Construct /\ ~WriteCommit /\ ~(\E s \in Slots : WriteMark(s))
    <2>1. refs' = refs
      BY <1>0, <1>4, Movers
    <2>2. wr'.pc # "down" /\ wr'.epoch > 0 =>
            wr.pc # "down" /\ wr.epoch > 0 /\ wr'.label = wr.label /\ wr'.next = wr.next
      <3> SUFFICES ASSUME wr'.pc # "down", wr'.epoch > 0
                   PROVE  wr'.next = wr.next
        BY <1>0, <1>4, WriterKeeps
      <3>1. CASE WriterSpawn \/ WriteCall \/ WriterCrash \/ WriterReadName \/ Refused \/ Register
        BY <1>0, <3>1, WriterSpawnFields, WriteCallFields, WriterCrashFields, WriterReadNameFields,
           RefusedFields, RegisterFields
      <3>2. CASE WriteCopyLo \/ WriteCopyHi \/ (\E s \in Slots : WriteBusy(s)) \/ wr' = wr
        BY <1>0, <3>2, WriteCopyLoFields, WriteCopyHiFields, WriteBusyFields
      <3> QED
        BY <1>0, <1>4, <3>1, <3>2, Movers DEF WriterActs, WriteStep
    <2>3. Writing' => Writing /\ wr'.gen = wr.gen /\ wr'.next = wr.next
      BY <1>0, <1>4, WritingSteps
    <2> QED
      BY <2>1, <2>2, <2>3 DEF FreshGenerations
  <1> QED
    BY <1>1, <1>2, <1>3, <1>4

(* A commit names its frame by a generation no earlier ref of the slot     *)
(* has.                                                                    *)
LEMMA OneFrameStep ==
  ASSUME CoreInv, FreshGenerations, OneFramePerRef, [Next]_vars
  PROVE  OneFramePerRef'
  <1>0. TypeOK /\ wr.gen \in Nat /\ \A ref \in refs : ref.gen \in Nat
    BY DEF CoreInv, TypeOK, Refs
  <1>1. CASE refs' = refs
    BY <1>1 DEF OneFramePerRef
  <1>2. CASE WriteCommit
    <2> DEFINE new == [slot |-> wr.slot, gen |-> wr.gen, epoch |-> wr.label, frame |-> wr.frame]
    <2>1. wr.pc = "commit" /\ wr.epoch > 0 /\ refs' = refs \cup {new}
      BY <1>0, <1>2, WriteCommitFields DEF WriteCommit, CoreInv, WriterInv, WriterInRing
    <2>2. \A ref \in refs : ref.epoch = wr.label => ref.gen < wr.gen
      BY <2>1 DEF FreshGenerations, Writing
    <2>3. \A ref \in refs : ~(ref.gen = new.gen /\ ref.epoch = new.epoch)
      BY <1>0, <2>2
    <2> HIDE DEF new
    <2> QED
      BY <2>1, <2>3 DEF OneFramePerRef
  <1> QED
    BY <1>0, <1>1, <1>2, Movers

(***************************************************************************)
(* The slots.                                                              *)
(***************************************************************************)

(* Only the copies change the data of a slot, the one that is written.     *)
LEMMA DataSteps ==
  ASSUME TypeOK, [Next]_vars, NEW k \in Rings, NEW s \in Slots
  PROVE  /\ lo'[k][s] = lo[k][s] \/ (WriteCopyLo /\ k = wr.ring /\ s = wr.slot)
         /\ hi'[k][s] = hi[k][s] \/ (WriteCopyHi /\ k = wr.ring /\ s = wr.slot)
  <1>1. WriteCopyLo \/ lo' = lo
    BY DEF Next, vars, rings, slots, cp, Supervise, SwitchStart, Drained, Defer, Clear, Unregister,
       Bump, PublishName, PublishEpoch, WriterSpawn, WriteCall, WriteStep, WriterReadName, Register,
       Refused, Construct, WriteMark, WriteBusy, WriteCopyHi, WriteCommit, WriterCrash,
       ReaderSpawn, ReadCall, ReadStep, ReaderReadName, ReadCheck, ReadPin, ReadStale, ReadCopyLo,
       ReadCopyHi, ReadUnpin, Quarantine
  <1>2. WriteCopyHi \/ hi' = hi
    BY DEF Next, vars, rings, slots, cp, Supervise, SwitchStart, Drained, Defer, Clear, Unregister,
       Bump, PublishName, PublishEpoch, WriterSpawn, WriteCall, WriteStep, WriterReadName, Register,
       Refused, Construct, WriteMark, WriteBusy, WriteCopyLo, WriteCommit, WriterCrash,
       ReaderSpawn, ReadCall, ReadStep, ReaderReadName, ReadCheck, ReadPin, ReadStale, ReadCopyLo,
       ReadCopyHi, ReadUnpin, Quarantine
  <1> QED
    BY <1>1, <1>2, WriteCopyLoCells, WriteCopyHiCells DEF CellSet

(* The slot that is written is pinned by nobody and not readable: no       *)
(* reader's step is on it.                                                 *)
LEMMA WrittenCell ==
  ASSUME CoreInv, Paced, SlotOfWriter, \A r \in Readers : SlotOfReader(r), Writing, [Next]_vars,
         ~WriteCommit, ~(\E s \in Slots : WriteMark(s))
  PROVE  /\ state'[wr.ring][wr.slot] \in {"WRITING", "QUARANTINED"}
         /\ pins'[wr.ring][wr.slot] = {}
  <1> DEFINE k == wr.ring
             s == wr.slot
  <1>0. /\ TypeOK /\ k \in Rings /\ s \in Slots /\ Spared(k)
        /\ state[k][s] \in {"WRITING", "QUARANTINED"} /\ pins[k][s] = {}
    BY RingOfWriter DEF CoreInv, TypeOK, SlotOfWriter, Writing, WriterInRing
  <1> HIDE DEF k, s
  <1>1. CASE SwitchStart \/ Supervise
    BY <1>0, <1>1, SparedKeeps DEF k, s
  <1>2. CASE WriterActs
    <2>1. state'[k][s] = state[k][s]
      BY <1>0, <1>2, WriterCells
    <2> QED
      BY <1>0, <1>2, <2>1, WriterLeaves DEF k, s
  <1>3. ASSUME NEW r \in Readers, ReaderActs(r)
        PROVE  state'[k][s] = state[k][s] /\ pins'[k][s] = pins[k][s]
    <2>1. CASE ReadPin(r)
      <3>1. ~(k = rd[r].ring /\ s = rd[r].ref.slot)
        BY <1>0, <2>1 DEF ReadPin, Readable
      <3> QED
        BY <1>0, <1>3, <3>1, ReaderCells
    <2>2. CASE ReadUnpin(r)
      <3>1. r \in pins[rd[r].ring][rd[r].ref.slot]
        BY <1>0, <2>2, ReadUnpinFields DEF SlotOfReader, Pinning
      <3>2. ~(k = rd[r].ring /\ s = rd[r].ref.slot)
        BY <1>0, <3>1
      <3> QED
        BY <1>0, <1>3, <3>2, ReaderCells
    <2> QED
      BY <1>0, <1>3, <2>1, <2>2, ReaderCells
  <1>4. ASSUME NEW x \in Slots, Quarantine(x)
        PROVE  state'[k][s] \in {"WRITING", "QUARANTINED"} /\ pins'[k][s] = pins[k][s]
    BY <1>0, <1>4, QuarantineCell, QuarantineLeaves
  <1>5. CASE UNCHANGED vars
    BY <1>0, <1>5 DEF vars, slots, k, s
  <1> QED
    BY <1>0, <1>1, <1>2, <1>3, <1>4, <1>5, Actors DEF k, s

(* The slot being written stays the writer's.                              *)
LEMMA SlotOfWriterStep ==
  ASSUME CoreInv, Paced, SlotOfWriter, \A r \in Readers : SlotOfReader(r), [Next]_vars
  PROVE  SlotOfWriter'
  <1> SUFFICES ASSUME Writing'
               PROVE  SlotOfWriter'
    BY DEF SlotOfWriter
  <1>0. TypeOK
    BY DEF CoreInv
  <1>1. ASSUME NEW s \in Slots, WriteMark(s)
        PROVE  SlotOfWriter'
    <2>1. wr'.pc = "copyLo" /\ wr'.ring = wr.ring /\ wr'.slot = s /\ wr.ring \in Rings
      BY <1>0, <1>1, WriteMarkFields DEF TypeOK
    <2>2. state'[wr.ring][s] = "WRITING"
      BY <1>0, <1>1, WriteMarkCells DEF CellSet
    <2>3. pins'[wr.ring][s] = {}
      BY <1>1 DEF WriteMark, Available
    <2> QED
      BY <2>1, <2>2, <2>3 DEF SlotOfWriter
  <1>2. CASE ~(\E s \in Slots : WriteMark(s))
    <2>1. /\ WriteCopyLo \/ WriteCopyHi \/ wr' = wr
          /\ Writing /\ wr'.ring = wr.ring /\ wr'.slot = wr.slot /\ wr'.frame = wr.frame
      BY <1>0, <1>2, WritingSteps
    <2>2. ~WriteCommit
      BY <1>0, WriteCommitFields DEF Writing
    <2>3. /\ state'[wr.ring][wr.slot] \in {"WRITING", "QUARANTINED"}
          /\ pins'[wr.ring][wr.slot] = {}
      BY <1>2, <2>1, <2>2, WrittenCell
    <2>4. wr.ring \in Rings /\ wr.slot \in Slots
      BY <1>0 DEF TypeOK
    <2>5. CASE WriteCopyLo
      <3>1. wr'.pc = "copyHi" /\ lo'[wr.ring][wr.slot] = wr.frame
        BY <1>0, <2>4, <2>5, WriteCopyLoFields, WriteCopyLoCells DEF CellSet
      <3> QED
        BY <2>1, <2>3, <3>1 DEF SlotOfWriter
    <2>6. CASE WriteCopyHi
      <3>1. /\ wr'.pc = "commit" /\ hi'[wr.ring][wr.slot] = wr.frame
            /\ wr.pc = "copyHi" /\ lo' = lo
        BY <1>0, <2>4, <2>6, WriteCopyHiFields, WriteCopyHiCells DEF CellSet, WriteCopyHi
      <3> QED
        BY <2>1, <2>3, <3>1 DEF SlotOfWriter
    <2>7. CASE wr' = wr
      <3>1. ~WriteCopyLo /\ ~WriteCopyHi
        BY <1>0, <2>7, WriteCopyLoFields, WriteCopyHiFields
      <3>2. lo'[wr.ring][wr.slot] = lo[wr.ring][wr.slot] /\ hi'[wr.ring][wr.slot] = hi[wr.ring][wr.slot]
        BY <1>0, <2>4, <3>1, DataSteps
      <3> QED
        BY <2>1, <2>3, <2>7, <3>2 DEF SlotOfWriter
    <2> QED
      BY <2>1, <2>5, <2>6, <2>7
  <1> QED
    BY <1>1, <1>2
(* A slot that can be read holds the frame of a ref.                       *)
Holds(k, s) ==
  /\ hi[k][s] = lo[k][s]
  /\ [slot |-> s, gen |-> gen[k][s], epoch |-> ringEpoch[k], frame |-> lo[k][s]] \in refs

(* A readable slot goes on holding the frame of a ref.                     *)
LEMMA SlotsHoldRefsStep ==
  ASSUME CoreInv, Paced, ClearedSoFar, SlotOfWriter, SlotsHoldRefs, [Next]_vars
  PROVE  SlotsHoldRefs'
  <1>0. TypeOK /\ wr.ring \in Rings /\ wr.slot \in Slots /\ RingFor(sup.new) \in Rings
    BY RingForType DEF CoreInv, TypeOK
  <1>1. refs \subseteq refs'
    BY <1>0, Movers DEF WriteCommit
  <1> SUFFICES ASSUME NEW k \in Rings, NEW s \in Slots, state'[k][s] \in {"READY", "READING"}
               PROVE  /\ hi'[k][s] = lo'[k][s]
                      /\ [slot |-> s, gen |-> gen'[k][s], epoch |-> ringEpoch'[k],
                          frame |-> lo'[k][s]] \in refs'
    BY DEF SlotsHoldRefs
  <1>2. state[k][s] \in {"READY", "READING"} => Holds(k, s)
    BY DEF SlotsHoldRefs, Holds
  <1>3. ASSUME state'[k][s] = state[k][s] \/ state[k][s] \in {"READY", "READING"},
               gen'[k][s] = gen[k][s], ringEpoch'[k] = ringEpoch[k],
               lo'[k][s] = lo[k][s], hi'[k][s] = hi[k][s]
        PROVE  /\ hi'[k][s] = lo'[k][s]
               /\ [slot |-> s, gen |-> gen'[k][s], epoch |-> ringEpoch'[k],
                   frame |-> lo'[k][s]] \in refs'
    BY <1>1, <1>2, <1>3 DEF Holds
  <1>4. CASE Bump
    <2>1. k # RingFor(sup.new)
      <3>1. state' = state
        BY <1>4 DEF Bump, slots
      <3>2. \A x \in Slots : Cleared(x)
        BY <1>4 DEF Bump, ClearedSoFar
      <3> QED
        BY <3>1, <3>2 DEF Cleared
    <2> QED
      BY <1>3, <1>4, <2>1, BumpEffect DEF Bump, slots
  <1>5. CASE Clear
    <2>1. ~(k = RingFor(sup.new) /\ s = sup.slot)
      BY <1>0, <1>5, ClearCells DEF CellSet
    <2>2. state'[k][s] = state[k][s] /\ gen'[k][s] = gen[k][s]
      BY <1>0, <1>5, <2>1, ClearCells DEF CellSet
    <2> QED
      BY <1>3, <1>5, <2>2 DEF Clear, rings
  <1>6. ASSUME SwitchStart \/ Drained \/ Defer \/ Unregister \/ PublishName \/ PublishEpoch
        PROVE  UNCHANGED <<state, gen, lo, hi, ringEpoch>>
    BY <1>6 DEF SwitchStart, Drained, Defer, Unregister, PublishName, PublishEpoch, rings, slots, cp
  <1>7. CASE WriteCommit
    <2>0. wr.pc = "commit" /\ Writing /\ WriterInRing
      BY <1>0, <1>7, WriteCommitFields DEF Writing, WriterInRing
    <2>1. CASE k = wr.ring /\ s = wr.slot
      <3>1. lo[k][s] = wr.frame /\ hi[k][s] = wr.frame /\ ringEpoch[k] = wr.label
        BY <2>0, <2>1, RingOfWriter DEF SlotOfWriter
      <3>2. gen'[k][s] = wr.gen
        BY <1>0, <1>7, <2>1, WriteCommitCells DEF CellSet
      <3> QED
        BY <1>7, <2>1, <3>1, <3>2 DEF WriteCommit, rings
    <2>2. CASE ~(k = wr.ring /\ s = wr.slot)
      <3>1. state'[k][s] = state[k][s] /\ gen'[k][s] = gen[k][s]
        BY <1>0, <1>7, <2>2, WriteCommitCells DEF CellSet
      <3> QED
        BY <1>3, <1>7, <3>1 DEF WriteCommit, rings
    <2> QED
      BY <2>1, <2>2
  <1>8. ASSUME NEW x \in Slots, WriteMark(x)
        PROVE  /\ state'[k][s] = state[k][s] /\ gen'[k][s] = gen[k][s]
               /\ UNCHANGED <<lo, hi, ringEpoch>>
    <2>1. ~(k = wr.ring /\ s = x)
      BY <1>0, <1>8, WriteMarkCells DEF CellSet
    <2> QED
      <3>1. state'[k][s] = state[k][s] /\ gen'[k][s] = gen[k][s]
        BY <1>0, <1>8, <2>1, WriteMarkCells DEF CellSet
      <3> QED
        BY <1>8, <3>1 DEF WriteMark, rings
  <1>9. ASSUME WriteCopyLo \/ WriteCopyHi
        PROVE  /\ UNCHANGED <<state, gen, ringEpoch>>
               /\ lo'[k][s] = lo[k][s] /\ hi'[k][s] = hi[k][s]
    <2>1. UNCHANGED <<state, gen, ringEpoch>>
      BY <1>9 DEF WriteCopyLo, WriteCopyHi, rings
    <2>2. Writing
      BY <1>0, <1>9, WriteCopyLoFields, WriteCopyHiFields DEF Writing
    <2>3. ~(k = wr.ring /\ s = wr.slot)
      BY <2>1, <2>2 DEF SlotOfWriter
    <2> QED
      BY <1>0, <2>1, <2>3, DataSteps
  <1>10. ASSUME WriterSpawn \/ WriteCall \/ WriterReadName \/ Register \/ Refused \/ Construct
                  \/ (\E x \in Slots : WriteBusy(x)) \/ WriterCrash
         PROVE  UNCHANGED <<state, gen, lo, hi, ringEpoch>>
    BY <1>10 DEF slots, rings, WriterSpawn, WriteCall, WriterReadName, Register, Refused, Construct,
       WriteBusy, WriterCrash
  <1>11. ASSUME NEW r \in Readers, ReaderActs(r)
         PROVE  state'[k][s] = state[k][s] \/ state[k][s] \in {"READY", "READING"}
    <2>1. CASE ReadPin(r)
      <3>1. state[rd[r].ring][rd[r].ref.slot] \in {"READY", "READING"}
        BY <2>1 DEF ReadPin, Readable
      <3> QED
        BY <1>0, <1>11, <3>1, ReaderCells
    <2>2. CASE ReadUnpin(r)
      <3>1. state' = state \/ CellSet(SlotState, state', state, rd[r].ring, rd[r].ref.slot, "DONE")
        BY <1>0, <2>2, ReadUnpinCells
      <3> QED
        BY <3>1 DEF CellSet
    <2> QED
      BY <1>0, <1>11, <2>1, <2>2, ReaderCells
  <1>12. ASSUME NEW x \in Slots, Quarantine(x)
         PROVE  state'[k][s] = state[k][s]
    BY <1>0, <1>12, QuarantineCell
  <1>13. CASE UNCHANGED vars
    BY <1>3, <1>13 DEF vars, slots, rings
  <1>14. CASE WriterActs
    BY <1>3, <1>7, <1>8, <1>9, <1>10, <1>14 DEF WriterActs, WriteStep
  <1>15. CASE \E r \in Readers : ReaderActs(r)
    BY <1>3, <1>11, <1>15, ReaderLeaves
  <1>16. CASE \E x \in Slots : Quarantine(x)
    BY <1>3, <1>12, <1>16, QuarantineLeaves
  <1>17. CASE SwitchStart \/ Supervise
    BY <1>3, <1>4, <1>5, <1>6, <1>17 DEF Supervise
  <1> QED
    BY <1>13, <1>14, <1>15, <1>16, <1>17, Actors

(* A reader that does nothing keeps its slot and what is in it.            *)
LEMMA PinnedCell ==
  ASSUME CoreInv, Paced, SlotOfWriter, NEW r \in Readers, SlotOfReader(r), Pinning(r), [Next]_vars,
         ~ReadUnpin(r)
  PROVE  LET k == rd[r].ring  s == rd[r].ref.slot IN
         r \in pins'[k][s] /\ lo'[k][s] = lo[k][s] /\ hi'[k][s] = hi[k][s]
  <1> DEFINE k == rd[r].ring
             s == rd[r].ref.slot
  <1>0. /\ TypeOK /\ InRing(r) /\ k \in Rings /\ s \in Slots /\ Spared(k)
        /\ r \in pins[k][s]
    BY RingOfReader DEF CoreInv, SlotOfReader, Pinning, InRing
  <1> HIDE DEF k, s
  <1>1. r \in pins'[k][s]
    <2>1. CASE SwitchStart \/ Supervise
      BY <1>0, <2>1, SparedKeeps
    <2>2. CASE WriterActs \/ (\E x \in Slots : Quarantine(x)) \/ UNCHANGED vars
      <3>1. pins' = pins
        BY <2>2, WriterLeaves, QuarantineLeaves DEF vars, slots
      <3> QED
        BY <1>0, <3>1
    <2>3. ASSUME NEW q \in Readers, ReaderActs(q)
          PROVE  r \in pins'[k][s]
      <3>1. CASE ReadPin(q)
        BY <1>0, <3>1, ReadPinCells DEF CellSet
      <3>2. CASE ReadUnpin(q)
        <4>1. q # r
          BY <3>2
        <4>2. CellSet(SUBSET Readers, pins', pins, rd[q].ring, rd[q].ref.slot,
                      pins[rd[q].ring][rd[q].ref.slot] \ {q})
          BY <1>0, <3>2, ReadUnpinCells
        <4> QED
          BY <1>0, <4>1, <4>2 DEF CellSet
      <3>3. CASE ~ReadPin(q) /\ ~ReadUnpin(q)
        BY <1>0, <2>3, <3>3, ReaderCells
      <3> QED
        BY <3>1, <3>2, <3>3
    <2> QED
      BY <2>1, <2>2, <2>3, Actors
  <1>2. Writing => ~(k = wr.ring /\ s = wr.slot)
    BY <1>0 DEF SlotOfWriter
  <1>3. WriteCopyLo \/ WriteCopyHi => Writing
    BY <1>0, WriteCopyLoFields, WriteCopyHiFields DEF Writing
  <1>4. lo'[k][s] = lo[k][s] /\ hi'[k][s] = hi[k][s]
    BY <1>0, <1>2, <1>3, DataSteps
  <1> QED
    BY <1>1, <1>4 DEF k, s

(* The epoch of the ring of a call does not change under it.               *)
LEMMA EpochOfCall ==
  ASSUME CoreInv, Paced, NEW r \in Readers, InRing(r), [Next]_vars
  PROVE  ringEpoch'[rd[r].ring] = ringEpoch[rd[r].ring]
  <1>0. TypeOK /\ rd[r].ring \in Rings /\ Spared(rd[r].ring)
    BY RingOfReader DEF CoreInv
  <1>1. CASE SwitchStart \/ Supervise
    BY <1>0, <1>1, SparedKeeps
  <1>2. CASE WriterActs \/ (\E q \in Readers : ReaderActs(q)) \/ (\E x \in Slots : Quarantine(x))
               \/ UNCHANGED vars
    BY <1>2, WriterLeaves, ReaderLeaves, QuarantineLeaves DEF vars, rings
  <1> QED
    BY <1>1, <1>2, Actors

(* A reader goes on reading the frame of its ref.                          *)
LEMMA SlotOfReaderStep ==
  ASSUME CoreInv, Paced, OneFramePerRef, SlotsHoldRefs, SlotOfWriter,
         NEW r \in Readers, SlotOfReader(r), [Next]_vars
  PROVE  SlotOfReader(r)'
  <1> DEFINE k == rd[r].ring
             s == rd[r].ref.slot
  <1>0. TypeOK /\ ReaderInv(r) /\ rd[r].ref \in Refs
    BY DEF CoreInv, TypeOK
  <1>a. InRing(r) => k \in Rings /\ s \in Slots /\ rd[r].ref \in refs /\ ringEpoch'[k] = ringEpoch[k]
    BY RingOfReader, EpochOfCall
  <1>b. Checked(r) => InRing(r) /\ rd[r].ref.epoch = ringEpoch[k]
    BY DEF Checked, InRing, SlotOfReader
  <1>c. Pinning(r) => Checked(r) /\ lo[k][s] = rd[r].ref.frame /\ hi[k][s] = rd[r].ref.frame
    BY DEF Pinning, Checked, SlotOfReader
  <1>d. Pinning(r) /\ ~ReadUnpin(r) => r \in pins'[k][s] /\ lo'[k][s] = lo[k][s] /\ hi'[k][s] = hi[k][s]
    BY PinnedCell
  <1>e. /\ rd[r].pc \in {"copyHi", "unpin"} => rd[r].copy[1] = rd[r].ref.frame
        /\ rd[r].pc = "unpin" => rd[r].copy[2] = rd[r].ref.frame
    BY DEF SlotOfReader
  <1>1. CASE rd'[r] = rd[r]
    <2>1. ~ReadUnpin(r)
      BY <1>0, <1>1, ReadUnpinFields
    <2> QED
      BY <1>1, <1>a, <1>b, <1>c, <1>d, <1>e, <2>1 DEF SlotOfReader, Checked, Pinning
  <1>2. CASE ReadPin(r)
    <2>1. /\ rd[r].pc = "pin" /\ rd'[r].pc = "copyLo" /\ rd'[r].ring = k /\ rd'[r].ref = rd[r].ref
          /\ Checked(r)
      BY <1>0, <1>2, ReadPinFields DEF Checked
    <2>2. /\ state[k][s] \in {"READY", "READING"} /\ gen[k][s] = rd[r].ref.gen
          /\ rd[r].ref.epoch = ringEpoch[k] /\ rd[r].ref \in refs
      BY <1>2, <1>a, <1>b, <2>1 DEF ReadPin, Readable
    <2>3. /\ hi[k][s] = lo[k][s]
          /\ [slot |-> s, gen |-> gen[k][s], epoch |-> ringEpoch[k], frame |-> lo[k][s]] \in refs
      BY <1>a, <1>b, <2>1, <2>2 DEF SlotsHoldRefs
    <2> DEFINE held == [slot |-> s, gen |-> gen[k][s], epoch |-> ringEpoch[k], frame |-> lo[k][s]]
    <2>4. held.slot = rd[r].ref.slot /\ held.gen = rd[r].ref.gen /\ held.epoch = rd[r].ref.epoch
      BY <2>2
    <2>5. held.frame = rd[r].ref.frame
      <3>1. held \in refs /\ rd[r].ref \in refs
        BY <2>2, <2>3
      <3> HIDE DEF held
      <3> QED
        BY <2>4, <3>1 DEF OneFramePerRef
    <2>6. lo[k][s] = rd[r].ref.frame /\ hi[k][s] = rd[r].ref.frame
      BY <2>3, <2>5
    <2>7. r \in pins'[k][s] /\ lo' = lo /\ hi' = hi
      <3>1. CellSet(SUBSET Readers, pins', pins, k, s, pins[k][s] \cup {r})
        BY <1>0, <1>2, ReadPinCells
      <3>2. lo' = lo /\ hi' = hi
        BY <1>2 DEF ReadPin
      <3> QED
        BY <3>1, <3>2 DEF CellSet
    <2> QED
      BY <1>a, <1>b, <2>1, <2>2, <2>6, <2>7 DEF SlotOfReader, Checked, Pinning
  <1>3. CASE ReadCopyLo(r)
    <2>1. /\ rd[r].pc = "copyLo" /\ rd'[r].pc = "copyHi" /\ rd'[r].ring = k /\ rd'[r].ref = rd[r].ref
          /\ rd'[r].copy = <<lo[k][s], 0>> /\ Pinning(r) /\ ~ReadUnpin(r)
      BY <1>0, <1>3, ReadCopyLoFields, ReadUnpinFields DEF Pinning
    <2> QED
      BY <1>a, <1>b, <1>c, <1>d, <2>1 DEF SlotOfReader, Checked, Pinning
  <1>4. CASE ReadCopyHi(r)
    <2>1. /\ rd[r].pc = "copyHi" /\ rd'[r].pc = "unpin" /\ rd'[r].ring = k /\ rd'[r].ref = rd[r].ref
          /\ rd'[r].copy = <<rd[r].copy[1], hi[k][s]>> /\ Pinning(r) /\ ~ReadUnpin(r)
      BY <1>0, <1>4, ReadCopyHiFields, ReadUnpinFields DEF Pinning
    <2> QED
      BY <1>a, <1>b, <1>c, <1>d, <1>e, <2>1 DEF SlotOfReader, Checked, Pinning
  <1>5. CASE ReadCheck(r)
    <2>1. /\ rd[r].pc = "check" /\ rd'[r].ring = k /\ rd'[r].ref = rd[r].ref
          /\ \/ rd'[r].pc = "pin" /\ rd[r].ref.epoch = ringEpoch[k]
             \/ rd'[r].pc = "idle"
      BY <1>0, <1>5, ReadCheckFields
    <2> QED
      BY <1>a, <2>1 DEF SlotOfReader, Checked, Pinning, InRing
  <1>6. ASSUME \/ ReaderSpawn(r) \/ ReaderReadName(r) \/ ReadStale(r) \/ ReadUnpin(r)
               \/ \E ref \in refs : ReadCall(r, ref)
        PROVE  SlotOfReader(r)'
    <2>1. rd'[r].pc \in {"name", "idle", "check"}
      BY <1>0, <1>6, ReaderSpawnFields, ReaderReadNameFields, ReadStaleFields, ReadUnpinFields,
         ReadCallFields
    <2> QED
      BY <2>1 DEF SlotOfReader, Checked, Pinning
  <1> QED
    BY <1>0, <1>1, <1>2, <1>3, <1>4, <1>5, <1>6, Movers DEF ReadStep

(***************************************************************************)
(* The theorems.                                                           *)
(***************************************************************************)
(* One step of anyone keeps the invariant.                                 *)
LEMMA PacingStep == RingEpochInv /\ [Next]_vars => RingEpochInv'
  <1> SUFFICES ASSUME RingEpochInv, [Next]_vars
               PROVE  RingEpochInv'
    OBVIOUS
  <1>1. CoreInv /\ CoreInv' /\ TypeOK
    BY CoreStep DEF RingEpochInv, CoreInv
  <1>2. ASSUME sup'.settled
        PROVE  PacedInv'
    <2>1. PacedInv
      BY <1>1, <1>2, SettledBefore DEF RingEpochInv
    <2>2. /\ Paced /\ ClearedSoFar /\ Registration /\ FreshGenerations /\ OneFramePerRef
          /\ SlotOfWriter /\ SlotsHoldRefs /\ \A r \in Readers : SlotOfReader(r)
      BY <2>1 DEF PacedInv, Generations
    <2>3. Paced' /\ ClearedSoFar' /\ Registration'
      BY <1>1, <1>2, <2>2, PacedStep, ClearedStep, RegistrationStep
    <2>4. FreshGenerations' /\ OneFramePerRef'
      BY <1>1, <2>2, FreshStep, OneFrameStep
    <2>5. SlotOfWriter' /\ SlotsHoldRefs'
      BY <1>1, <2>2, SlotOfWriterStep, SlotsHoldRefsStep
    <2>6. \A r \in Readers : SlotOfReader(r)'
      BY <1>1, <2>2, SlotOfReaderStep
    <2> QED
      BY <2>3, <2>4, <2>5, <2>6 DEF PacedInv, Generations
  <1> QED
    BY <1>1, <1>2 DEF RingEpochInv

(* It holds of the pool as it is created.                                  *)
LEMMA PacingInit == Init => RingEpochInv
  <1> SUFFICES ASSUME Init
               PROVE  RingEpochInv
    OBVIOUS
  <1>1. Paced /\ ClearedSoFar /\ Generations /\ SlotOfWriter
    BY DEF Init, Paced, InCall, ClearedSoFar, Generations, FreshGenerations, OneFramePerRef,
       SlotOfWriter, Writing
  <1>2. Registration
    BY DEF Init, Registration, VacantOrOwned, ConstructFresh, OwnRing, NoRefs
  <1>3. SlotsHoldRefs
    BY DEF Init, SlotsHoldRefs
  <1>4. ASSUME NEW r \in Readers
        PROVE  SlotOfReader(r)
    BY DEF Init, SlotOfReader, Checked, Pinning
  <1> QED
    BY <1>1, <1>2, <1>3, <1>4, CoreInit DEF RingEpochInv, PacedInv

(* The invariant of a bus whose switchovers are paced.                     *)
THEOREM PacingInvariant == Spec => []RingEpochInv
  <1>1. RingEpochInv /\ [Next]_vars => RingEpochInv'
    BY PacingStep
  <1> QED
    BY <1>1, PacingInit, PTL DEF Spec

(* While the switchovers are paced, the writer writes only under the epoch *)
(* of the ring it writes to.                                               *)
THEOREM WritesAreOfTheirEpoch == Spec => []WriteOfEpoch
  <1>1. RingEpochInv => WriteOfEpoch
    BY RingOfWriter DEF RingEpochInv, PacedInv, WriteOfEpoch, Writing, WriterInRing
  <1> QED
    BY <1>1, PacingInvariant, PTL

(* While the switchovers are paced, a frame that read_ref() returns is the *)
(* frame of the ref, both halves of it.                                    *)
THEOREM FramesAreOfTheirRef == Spec => []FrameOfRef
  <1>1. RingEpochInv => FrameOfRef
    <2> SUFFICES ASSUME RingEpochInv, sup.settled, NEW r \in Readers, rd[r].pc = "unpin"
                 PROVE  rd[r].copy = <<rd[r].ref.frame, rd[r].ref.frame>>
      BY DEF FrameOfRef
    <2>1. rd[r].copy \in Nat \X Nat
      BY DEF RingEpochInv, CoreInv, TypeOK
    <2>2. rd[r].copy[1] = rd[r].ref.frame /\ rd[r].copy[2] = rd[r].ref.frame
      BY DEF RingEpochInv, PacedInv, SlotOfReader
    <2> QED
      BY <2>1, <2>2
  <1> QED
    BY <1>1, PacingInvariant, PTL

(* A switchover leads to a ring that is ready: not the one being reset,    *)
(* not before it is activated, and, while the switchovers are paced, with  *)
(* every slot FREE and unpinned (Req 5.2).                                 *)
THEOREM SwitchoversAreSound == Spec => []SwitchoverSound
  <1>1. RingEpochInv => SwitchoverSound
    <2> SUFFICES ASSUME RingEpochInv
                 PROVE  SwitchoverSound
      OBVIOUS
    <2>1. ResetSparesPublished /\ PublishedRingReady
      BY PublishedInv DEF RingEpochInv, ResetSparesPublished
    <2>2. FullCapacity
      BY DEF RingEpochInv, PacedInv, ClearedSoFar, Cleared, FullCapacity
    <2> QED
      BY <2>1, <2>2 DEF SwitchoverSound
  <1> QED
    BY <1>1, PacingInvariant, PTL

================================================================================
