--------------------------- MODULE FullStackProofs ---------------------------
(***************************************************************************)
(* Theorems about FullStack: types, and where every slot is, for every     *)
(* size of ring, window and queue and any number of crashes.               *)
(*                                                                         *)
(* The argument takes the slots the requests name as a set, cut in three:  *)
(* what waits in the queue, what is in the pipe, what the server holds.    *)
(* Requests only move from one part to the next, so that the evicted slots *)
(* (Leaked) grow in one step only, CamWrite on a full queue, and then the  *)
(* queue is full of QueueMax other slots.                                  *)
(***************************************************************************)
EXTENDS FullStack, FiniteSetTheorems, SequenceTheorems, TLAPS

Held == IF srv.pc = "read" THEN {srv.req} ELSE {}

(* No two requests are for the same slot, part by part.                    *)
Apart ==
  /\ IsInjective(queue) /\ IsInjective(pipe)
  /\ ToSet(queue) \cap ToSet(pipe) = {}
  /\ Held \cap (ToSet(queue) \cup ToSet(pipe)) = {}

Requested == ToSet(queue) \cup ToSet(pipe) \cup Held

Unserved == \A s \in Requested : slot[s] = "ready"

(* What the server holds, and in which state.                              *)
Pinned ==
  /\ srv \in [pc : {"up", "read", "copy", "dead", "gone"}, req : Slots \cup {None}]
  /\ IF srv.pc \in {"read", "copy"} THEN srv.req \in Slots ELSE srv.req = None
  /\ srv.pc = "copy" => slot[srv.req] = "reading"

(* A worker that was restarted too often is never started again.           *)
Counted ==
  /\ cam # "gone" => restarts["camera"] <= MaxRestarts
  /\ srv.pc # "gone" => restarts["inference"] <= MaxRestarts

FullStackInv ==
  TypeOK /\ Pinned /\ Counted /\ Apart /\ Unserved /\ EvictionLeavesRoom

--------------------------------------------------------------------------------
(* Sequences that repeat nothing.                                          *)

(* What is appended to a sequence without repetitions, and is new in it,   *)
(* leaves it without repetitions.                                          *)
LEMMA AppendSet ==
  ASSUME NEW S, NEW q \in Seq(S), NEW e \in S, IsInjective(q), e \notin ToSet(q)
  PROVE  /\ Append(q, e) \in Seq(S)
         /\ Len(Append(q, e)) = Len(q) + 1
         /\ ToSet(Append(q, e)) = ToSet(q) \cup {e}
         /\ IsInjective(Append(q, e))
<1> DEFINE a == Append(q, e)
<1>1. /\ a \in Seq(S) /\ Len(a) = Len(q) + 1 /\ a[Len(q) + 1] = e
      /\ \A i \in 1 .. Len(q) : a[i] = q[i]
  BY AppendProperties
<1>2. Len(q) \in Nat /\ DOMAIN q = 1 .. Len(q) /\ DOMAIN a = 1 .. Len(a)
  BY <1>1, LenProperties
<1> HIDE DEF a
<1>3. ToSet(a) = ToSet(q) \cup {e}
  BY <1>1, <1>2 DEF ToSet
<1>4. IsInjective(a)
  <2> SUFFICES ASSUME NEW i \in DOMAIN a, NEW j \in DOMAIN a, a[i] = a[j]
               PROVE  i = j
    BY DEF IsInjective
  <2>1. \A k \in 1 .. Len(q) : q[k] # e
    BY <1>2 DEF ToSet
  <2>2. CASE i \in 1 .. Len(q) /\ j \in 1 .. Len(q)
    BY <2>2, <1>1, <1>2 DEF IsInjective
  <2>3. CASE ~(i \in 1 .. Len(q) /\ j \in 1 .. Len(q))
    BY <2>1, <2>3, <1>1, <1>2
  <2> QED BY <2>2, <2>3
<1> QED BY <1>1, <1>3, <1>4 DEF a

(* The tail of a sequence without repetitions has all but its head.        *)
LEMMA TailSet ==
  ASSUME NEW S, NEW q \in Seq(S), q # <<>>, IsInjective(q)
  PROVE  /\ Head(q) \in ToSet(q) /\ Head(q) \in S
         /\ Tail(q) \in Seq(S)
         /\ Len(Tail(q)) = Len(q) - 1 /\ Len(q) > 0
         /\ ToSet(Tail(q)) = ToSet(q) \ {Head(q)}
         /\ IsInjective(Tail(q))
<1> DEFINE t == Tail(q)
<1>1. /\ Head(q) \in S /\ t \in Seq(S) /\ Len(t) = Len(q) - 1
      /\ \A i \in 1 .. Len(t) : t[i] = q[i + 1]
  BY HeadTailProperties
<1>2. /\ Len(q) \in Nat \ {0} /\ DOMAIN q = 1 .. Len(q) /\ DOMAIN t = 1 .. Len(t)
      /\ Head(q) = q[1]
  BY <1>1, LenProperties, EmptySeq
<1> HIDE DEF t
<1>3. Head(q) \in ToSet(q)
  BY <1>2 DEF ToSet
<1>4. \A i \in 1 .. Len(t) : i + 1 \in 1 .. Len(q)
  BY <1>1, <1>2
<1>5. ToSet(t) \subseteq ToSet(q) \ {Head(q)}
  BY <1>1, <1>2, <1>4 DEF ToSet, IsInjective
<1>6. ASSUME NEW x \in ToSet(q), x # Head(q) PROVE x \in ToSet(t)
  <2>1. PICK i \in 1 .. Len(q) : x = q[i]
    BY <1>2 DEF ToSet
  <2>2. i # 1
    BY <2>1, <1>6, <1>2
  <2>3. i - 1 \in 1 .. Len(t) /\ t[i - 1] = q[i - 1 + 1]
    BY <2>2, <1>1, <1>2
  <2> QED BY <2>1, <2>3, <1>2 DEF ToSet
<1>7. ASSUME NEW i \in DOMAIN t, NEW j \in DOMAIN t, t[i] = t[j] PROVE i = j
  <2>1. i + 1 = j + 1
    BY <1>1, <1>2, <1>4, <1>7 DEF IsInjective
  <2> QED BY <2>1, <1>1, <1>2
<1> QED BY <1>1, <1>2, <1>3, <1>5, <1>6, <1>7 DEF t, IsInjective

(* A part of a sequence repeats nothing the sequence does not repeat.      *)
LEMMA PartSet ==
  ASSUME NEW S, NEW q \in Seq(S), IsInjective(q),
         NEW m \in Nat, NEW n \in Nat, 1 <= m, n <= Len(q)
  PROVE  /\ SubSeq(q, m, n) \in Seq(S)
         /\ ToSet(SubSeq(q, m, n)) \subseteq ToSet(q)
         /\ IsInjective(SubSeq(q, m, n))
<1> DEFINE p == SubSeq(q, m, n)
<1>1. Len(q) \in Nat /\ DOMAIN q = 1 .. Len(q) /\ \A i \in 1 .. Len(q) : q[i] \in S
  BY LenProperties, ElementOfSeq
<1>2. \A i \in m .. n : q[i] \in S
  BY <1>1
<1>3. /\ p \in Seq(S) /\ Len(p) = (IF m <= n THEN n - m + 1 ELSE 0)
      /\ \A i \in 1 .. n - m + 1 : p[i] = q[m + i - 1]
  BY <1>2, SubSeqProperties
<1>4. DOMAIN p = 1 .. Len(p)
  BY <1>3, LenProperties
<1> HIDE DEF p
<1>5. \A i \in DOMAIN p : i \in Nat /\ m + i - 1 \in DOMAIN q /\ p[i] = q[m + i - 1]
  BY <1>1, <1>3, <1>4
<1>6. ToSet(p) \subseteq ToSet(q)
  BY <1>5 DEF ToSet
<1>7. IsInjective(p)
  BY <1>5 DEF IsInjective
<1> QED BY <1>3, <1>6, <1>7 DEF p

(* Two sequences one after the other: the elements of both, and without    *)
(* repetitions if neither repeats anything of its own or of the other's.   *)
LEMMA JoinSet ==
  ASSUME NEW S, NEW p \in Seq(S), NEW q \in Seq(S)
  PROVE  /\ p \o q \in Seq(S)
         /\ ToSet(p \o q) = ToSet(p) \cup ToSet(q)
         /\ IsInjective(p) /\ IsInjective(q) /\ ToSet(p) \cap ToSet(q) = {}
              => IsInjective(p \o q)
<1> DEFINE c == p \o q
<1>1. /\ c \in Seq(S) /\ Len(c) = Len(p) + Len(q)
      /\ \A i \in 1 .. Len(p) + Len(q) : c[i] = IF i <= Len(p) THEN p[i] ELSE q[i - Len(p)]
  BY ConcatProperties
<1>2. /\ Len(p) \in Nat /\ DOMAIN p = 1 .. Len(p) /\ Len(q) \in Nat /\ DOMAIN q = 1 .. Len(q)
      /\ DOMAIN c = 1 .. Len(c)
  BY <1>1, LenProperties
<1> HIDE DEF c
<1>3. /\ \A i \in DOMAIN p : i \in DOMAIN c /\ c[i] = p[i]
      /\ \A i \in DOMAIN q : Len(p) + i \in DOMAIN c /\ c[Len(p) + i] = q[Len(p) + i - Len(p)]
                             /\ Len(p) + i - Len(p) = i
      /\ \A i \in DOMAIN c : \/ i \in DOMAIN p /\ c[i] = p[i]
                             \/ /\ i > Len(p) /\ i - Len(p) \in DOMAIN q
                                /\ c[i] = q[i - Len(p)]
  BY <1>1, <1>2
<1>4. ToSet(c) \subseteq ToSet(p) \cup ToSet(q)
  BY <1>3 DEF ToSet
<1>5. ToSet(p) \subseteq ToSet(c)
  BY <1>3 DEF ToSet
<1>6. ASSUME NEW x \in ToSet(q) PROVE x \in ToSet(c)
  <2>1. PICK i \in DOMAIN q : x = q[i]
    BY DEF ToSet
  <2>2. Len(p) + i \in DOMAIN c /\ c[Len(p) + i] = x
    BY <2>1, <1>3
  <2> QED BY <2>2 DEF ToSet
<1>7. ASSUME IsInjective(p), IsInjective(q), ToSet(p) \cap ToSet(q) = {}
      PROVE  IsInjective(c)
  <2> SUFFICES ASSUME NEW i \in DOMAIN c, NEW j \in DOMAIN c, c[i] = c[j]
               PROVE  i = j
    BY DEF IsInjective
  <2>1. \A k \in DOMAIN p, l \in DOMAIN q : p[k] # q[l]
    BY <1>7 DEF ToSet
  <2>2. i \in Nat /\ j \in Nat
    BY <1>1, <1>2
  <2>3. CASE i \in DOMAIN p /\ c[i] = p[i]
    <3>1. j \in DOMAIN p /\ c[j] = p[j]
      BY <1>3, <2>1, <2>3
    <3> QED BY <1>7, <2>3, <3>1 DEF IsInjective
  <2>4. CASE i > Len(p) /\ i - Len(p) \in DOMAIN q /\ c[i] = q[i - Len(p)]
    <3>1. j > Len(p) /\ j - Len(p) \in DOMAIN q /\ c[j] = q[j - Len(p)]
      BY <1>3, <2>1, <2>4
    <3>2. i - Len(p) = j - Len(p)
      BY <1>7, <2>4, <3>1 DEF IsInjective
    <3> QED BY <3>2, <2>2, <1>2
  <2> QED BY <1>3, <2>3, <2>4
<1> QED BY <1>1, <1>4, <1>5, <1>6, <1>7 DEF c

(* A sequence without repetitions has as many elements as it is long.      *)
LEMMA CountSet ==
  ASSUME NEW S, NEW q \in Seq(S), IsInjective(q)
  PROVE  IsFiniteSet(ToSet(q)) /\ Cardinality(ToSet(q)) = Len(q)
<1>1. Len(q) \in Nat /\ DOMAIN q = 1 .. Len(q) /\ q \in [1 .. Len(q) -> S]
  BY LenProperties
<1>2. q \in [1 .. Len(q) -> ToSet(q)] /\ \A x \in ToSet(q) : \E i \in 1 .. Len(q) : q[i] = x
  BY <1>1 DEF ToSet
<1>3. q \in Bijection(1 .. Len(q), ToSet(q))
  BY <1>1, <1>2 DEF Bijection, Injection, Surjection, IsInjective
<1>4. ExistsBijection(1 .. Len(q), ToSet(q))
  BY <1>3 DEF ExistsBijection
<1> QED BY <1>1, <1>4, FS_CountingElements, FS_NatBijection

(* What RequestsReadable says of the sequence of requests, the invariant   *)
(* says of its three parts.                                                *)
LEMMA Readable ==
  ASSUME TypeOK, Pinned
  PROVE  /\ ToSet(Unread) = Requested
         /\ Apart => IsInjective(Unread)
         /\ Held \subseteq Slots /\ Requested \subseteq Slots
<1> DEFINE h == IF srv.pc = "read" THEN <<srv.req>> ELSE <<>>
<1>1. h \in Seq(Slots) /\ ToSet(h) = Held /\ IsInjective(h) /\ Held \subseteq Slots
  <2>1. CASE srv.pc = "read"
    <3>1. srv.req \in Slots /\ h = <<srv.req>>
      BY <2>1 DEF Pinned
    <3>2. DOMAIN <<srv.req>> = {1} /\ <<srv.req>>[1] = srv.req
      OBVIOUS
    <3>3. <<srv.req>> \in Seq(Slots)
      BY <3>1
    <3> QED BY <2>1, <3>1, <3>2, <3>3 DEF ToSet, IsInjective, Held
  <2>2. CASE srv.pc # "read"
    BY <2>2 DEF ToSet, IsInjective, Held
  <2> QED BY <2>1, <2>2
<1> HIDE DEF h
<1>2. queue \in Seq(Slots) /\ pipe \in Seq(Slots)
  BY DEF TypeOK
<1>3. /\ queue \o pipe \in Seq(Slots)
      /\ ToSet(queue \o pipe) = ToSet(queue) \cup ToSet(pipe)
      /\ Apart => IsInjective(queue \o pipe)
  BY <1>2, JoinSet DEF Apart
<1>4. /\ ToSet((queue \o pipe) \o h) = ToSet(queue \o pipe) \cup ToSet(h)
      /\ Apart => IsInjective((queue \o pipe) \o h)
  <2> DEFINE a == queue \o pipe
  <2>1. a \in Seq(Slots) /\ (Apart => IsInjective(a) /\ ToSet(a) \cap ToSet(h) = {})
    BY <1>1, <1>3 DEF Apart
  <2> HIDE DEF a
  <2>2. ToSet(a \o h) = ToSet(a) \cup ToSet(h) /\ (Apart => IsInjective(a \o h))
    BY <1>1, <2>1, JoinSet
  <2> QED BY <2>2 DEF a
<1>5. Unread = (queue \o pipe) \o h
  BY <1>2, <1>1, ConcatAssociative DEF Unread, h
<1>6. ToSet(queue) \subseteq Slots /\ ToSet(pipe) \subseteq Slots
  BY <1>2, ElementOfSeq, LenProperties DEF ToSet
<1> QED BY <1>1, <1>3, <1>4, <1>5, <1>6 DEF Requested

(* The slots evictions took, by the parts of the invariant.                *)
LEMMA LeakedIs ==
  TypeOK /\ Pinned => Leaked = {s \in Slots : slot[s] # "free"} \ (Requested \cup {srv.req})
BY Readable DEF Leaked, Available

(* The same, after a step.                                                 *)
LEMMA LeakedBecomes ==
  TypeOK' /\ Pinned' =>
    Leaked' = {s \in Slots : slot'[s] # "free"} \ (Requested' \cup {srv'.req})
<1>1. (TypeOK /\ Pinned => Leaked = {s \in Slots : slot[s] # "free"} \ (Requested \cup {srv.req}))'
  BY LeakedIs, PTL
<1> QED BY <1>1

(* Slots which no request of a full queue is for: all but QueueMax.        *)
LEMMA RoomLeft ==
  ASSUME NEW q \in Seq(Slots), IsInjective(q), Len(q) = QueueMax,
         NEW L \in SUBSET Slots, L \cap ToSet(q) = {}
  PROVE  Cardinality(L) <= (IF NSlots > QueueMax THEN NSlots - QueueMax ELSE 0)
<1>1. NSlots \in Nat /\ QueueMax \in Nat
  BY FullStackAssumption
<1>2. IsFiniteSet(Slots) /\ Cardinality(Slots) = NSlots
  BY <1>1, FS_Interval DEF Slots
<1>3. ToSet(q) \subseteq Slots
  BY ElementOfSeq, LenProperties DEF ToSet
<1>4. IsFiniteSet(ToSet(q)) /\ Cardinality(ToSet(q)) = QueueMax
  BY CountSet
<1>5. IsFiniteSet(L) /\ Cardinality(L) \in Nat
  BY <1>2, FS_Subset, FS_CardinalityType
<1>6. /\ IsFiniteSet(L \cup ToSet(q))
      /\ Cardinality(L \cup ToSet(q)) = Cardinality(L) + QueueMax
  <2>1. Cardinality(L \cap ToSet(q)) = 0
    BY FS_EmptySet
  <2>2. /\ IsFiniteSet(L \cup ToSet(q))
        /\ Cardinality(L \cup ToSet(q))
             = Cardinality(L) + Cardinality(ToSet(q)) - Cardinality(L \cap ToSet(q))
    BY <1>4, <1>5, FS_Union
  <2> QED BY <1>1, <1>4, <1>5, <2>1, <2>2
<1>7. Cardinality(L \cup ToSet(q)) <= NSlots
  BY <1>2, <1>3, FS_Subset
<1> QED BY <1>1, <1>5, <1>6, <1>7

--------------------------------------------------------------------------------
(* Types.                                                                  *)

(* Every step keeps the types, what the server holds, and the restarts.    *)
LEMMA Typed ==
  ASSUME TypeOK, Pinned, Counted, Unserved, Apart, [Next]_vars
  PROVE  TypeOK' /\ Pinned' /\ Counted'
<1> USE FullStackAssumption
<1> USE DEF TypeOK, Pinned, Counted
<1>1. CASE CamRegister \/ CamRefused
  BY <1>1 DEF CamRegister, CamRefused
<1>2. ASSUME NEW s \in Slots, CamWrite(s) PROVE TypeOK' /\ Pinned' /\ Counted'
  <2> DEFINE q == IF Len(queue) >= QueueMax THEN Tail(queue) ELSE queue
  <2>1. q \in Seq(Slots) /\ Len(q) + 1 <= QueueMax /\ Len(q) \in Nat
    BY LenProperties, TailSet, EmptySeq DEF Apart
  <2>2. queue' = Append(q, s)
    BY <1>2 DEF CamWrite
  <2> HIDE DEF q
  <2>3. queue' \in Seq(Slots) /\ Len(queue') <= QueueMax
    BY <2>1, <2>2, AppendProperties
  <2>4. slot' = [slot EXCEPT ![s] = "ready"] /\ slot[s] = "free"
        /\ UNCHANGED <<writer, cam, inFlight, pipe, srv, restarts, crashes>>
    BY <1>2 DEF CamWrite, Available
  <2> QED BY <2>3, <2>4
<1>3. CASE CamSend
  <2>1. Tail(queue) \in Seq(Slots) /\ Len(Tail(queue)) = Len(queue) - 1 /\ Len(queue) \in Nat
        /\ Head(queue) \in Slots
    BY <1>3, TailSet, LenProperties DEF CamSend, Apart
  <2>2. Append(pipe, Head(queue)) \in Seq(Slots)
    BY <2>1, AppendProperties
  <2> QED BY <1>3, <2>1, <2>2, SMTT(30) DEF CamSend
<1>4. CASE CamResolve
  BY <1>4 DEF CamResolve
<1>5. CASE CamCrash
  <2>1. PICK n \in 0 .. Len(pipe) : pipe' = SubSeq(pipe, 1, n)
    BY <1>5 DEF CamCrash
  <2>2. n \in Nat /\ n <= Len(pipe)
    BY <2>1, LenProperties
  <2>3. pipe' \in Seq(Slots)
    BY <2>1, <2>2, PartSet DEF Apart
  <2>4. queue' \in Seq(Slots) /\ Len(queue') = 0
    BY <1>5, EmptySeq DEF CamCrash
  <2>5. crashes' \in [Processes -> Nat]
    BY <1>5, SMTT(30) DEF CamCrash, Processes
  <2> QED BY <1>5, <2>3, <2>4, <2>5, SMTT(30) DEF CamCrash
<1>6. CASE SrvTake
  <2>1. Tail(pipe) \in Seq(Slots) /\ Head(pipe) \in Slots
    BY <1>6, TailSet DEF SrvTake, Apart
  <2> QED BY <1>6, <2>1 DEF SrvTake
<1>7. CASE SrvPin
  <2>1. /\ srv.pc = "read" /\ srv.req \in Slots /\ slot[srv.req] = "ready"
        /\ slot' = [slot EXCEPT ![srv.req] = "reading"] /\ srv' = [srv EXCEPT !.pc = "copy"]
    BY <1>7 DEF SrvPin, Unserved, Requested, Held
  <2>2. slot' \in [Slots -> {"free", "ready", "reading"}] /\ slot'[srv.req] = "reading"
    BY <2>1
  <2>3. srv'.pc = "copy" /\ srv'.req = srv.req
        /\ srv' \in [pc : {"up", "read", "copy", "dead", "gone"}, req : Slots \cup {None}]
    BY <2>1
  <2> QED BY <1>7, <2>1, <2>2, <2>3 DEF SrvPin
<1>8. CASE SrvUnpin
  BY <1>8 DEF SrvUnpin
<1>9. CASE SrvCrash
  <2>1. PICK n \in 0 .. Len(pipe) : pipe' = SubSeq(pipe, n + 1, Len(pipe))
    BY <1>9 DEF SrvCrash
  <2>2. n + 1 \in Nat /\ 1 <= n + 1 /\ Len(pipe) \in Nat
    BY <2>1, LenProperties
  <2>3. pipe' \in Seq(Slots)
    BY <2>1, <2>2, PartSet DEF Apart
  <2>5. crashes' \in [Processes -> Nat]
    BY <1>9, SMTT(30) DEF SrvCrash, Processes
  <2> QED BY <1>9, <2>3, <2>5 DEF SrvCrash
<1>10. CASE CamRestart
  BY <1>10 DEF CamRestart, Restart, Replacement, Processes
<1>11. CASE SrvRestart
  BY <1>11, SMTT(30) DEF SrvRestart, Restart, Replacement, Processes
<1>12. CASE UNCHANGED vars
  BY <1>12 DEF vars
<1> QED
  BY <1>1, <1>2, <1>3, <1>4, <1>5, <1>6, <1>7, <1>8, <1>9, <1>10, <1>11, <1>12
  DEF Next, CamStep, Client, Server

--------------------------------------------------------------------------------
(* Requests.                                                               *)

(* What a step does to the requests, of any part of the system.  Either it *)
(* drops requests of a crashed process and leaves the slots as they are,   *)
(* or it moves them on.                                                    *)
LEMMA RequestsStep ==
  ASSUME TypeOK, Pinned, Apart, Unserved, [Next]_vars
  PROVE  Apart' /\ Unserved'
<1> USE DEF Requested, Held
<1>q. queue \in Seq(Slots) /\ pipe \in Seq(Slots)
  BY DEF TypeOK
<1>1. ASSUME NEW s \in Slots, CamWrite(s) PROVE Apart' /\ Unserved'
  <2> DEFINE q == IF Len(queue) >= QueueMax THEN Tail(queue) ELSE queue
  <2>1. /\ slot' = [slot EXCEPT ![s] = "ready"] /\ slot[s] = "free"
        /\ queue' = Append(q, s) /\ pipe' = pipe /\ srv' = srv
    BY <1>1 DEF CamWrite, Available
  <2>2. s \notin Requested
    BY <2>1 DEF Unserved
  <2>3. q \in Seq(Slots) /\ IsInjective(q) /\ ToSet(q) \subseteq ToSet(queue)
    BY <1>q, TailSet, EmptySeq, FullStackAssumption, LenProperties DEF Apart
  <2> HIDE DEF q
  <2>4. ToSet(queue') = ToSet(q) \cup {s} /\ IsInjective(queue')
    BY <2>1, <2>2, <2>3, AppendSet
  <2>5. Apart'
    BY <2>1, <2>2, <2>3, <2>4 DEF Apart
  <2>6. Requested' \subseteq Requested \cup {s}
    BY <2>1, <2>3, <2>4
  <2>7. Unserved'
    BY <2>1, <2>6 DEF Unserved, TypeOK
  <2> QED BY <2>5, <2>7
<1>2. CASE CamSend
  <2>1. /\ queue # <<>> /\ queue' = Tail(queue) /\ pipe' = Append(pipe, Head(queue))
        /\ slot' = slot /\ srv' = srv
    BY <1>2 DEF CamSend
  <2>2. /\ Head(queue) \in ToSet(queue) /\ Head(queue) \in Slots
        /\ ToSet(queue') = ToSet(queue) \ {Head(queue)} /\ IsInjective(queue')
    BY <1>q, <2>1, TailSet DEF Apart
  <2>3. ToSet(pipe') = ToSet(pipe) \cup {Head(queue)} /\ IsInjective(pipe')
    <3>1. Head(queue) \notin ToSet(pipe)
      BY <2>2 DEF Apart
    <3> QED BY <1>q, <2>1, <2>2, <3>1, AppendSet DEF Apart
  <2> QED BY <2>1, <2>2, <2>3 DEF Apart, Unserved
<1>3. CASE CamCrash
  <2>1. PICK n \in 0 .. Len(pipe) : pipe' = SubSeq(pipe, 1, n)
    BY <1>3 DEF CamCrash
  <2>2. n \in Nat /\ n <= Len(pipe)
    BY <1>q, <2>1, LenProperties
  <2>3. ToSet(pipe') \subseteq ToSet(pipe) /\ IsInjective(pipe')
    BY <1>q, <2>1, <2>2, PartSet DEF Apart
  <2>4. queue' = <<>> /\ slot' = slot /\ srv' = srv
    BY <1>3 DEF CamCrash
  <2>5. ToSet(queue') = {} /\ IsInjective(queue')
    BY <2>4 DEF ToSet, IsInjective
  <2> QED BY <2>3, <2>4, <2>5 DEF Apart, Unserved
<1>4. CASE SrvTake
  <2>1. /\ pipe # <<>> /\ pipe' = Tail(pipe) /\ srv' = [pc |-> "read", req |-> Head(pipe)]
        /\ srv.pc = "up" /\ slot' = slot /\ queue' = queue
    BY <1>4 DEF SrvTake
  <2>2. /\ Head(pipe) \in ToSet(pipe)
        /\ ToSet(pipe') = ToSet(pipe) \ {Head(pipe)} /\ IsInjective(pipe')
    BY <1>q, <2>1, TailSet DEF Apart
  <2>3. Held' = {Head(pipe)}
    BY <2>1
  <2> QED BY <2>1, <2>2, <2>3 DEF Apart, Unserved
<1>5. CASE SrvPin
  <2>1. /\ srv.pc = "read" /\ srv.req \in Held /\ slot[srv.req] = "ready"
        /\ slot' = [slot EXCEPT ![srv.req] = "reading"]
        /\ srv'.pc = "copy" /\ queue' = queue /\ pipe' = pipe
    BY <1>5 DEF SrvPin, Unserved, Pinned
  <2>2. Held' = {}
    BY <2>1
  <2>3. Requested' \subseteq Requested \ {srv.req}
    BY <2>1, <2>2 DEF Apart
  <2>4. Unserved'
    BY <2>1, <2>3 DEF Unserved
  <2> QED BY <2>1, <2>2, <2>4 DEF Apart
<1>6. CASE SrvUnpin
  <2>1. /\ slot' = [slot EXCEPT ![srv.req] = "free"] /\ slot[srv.req] = "reading"
        /\ srv.pc = "copy" /\ srv'.pc = "up" /\ queue' = queue /\ pipe' = pipe
    BY <1>6 DEF SrvUnpin, Pinned
  <2>2. srv.req \notin Requested
    BY <2>1 DEF Unserved
  <2> QED BY <2>1, <2>2 DEF Apart, Unserved
<1>7. CASE SrvCrash
  <2>1. PICK n \in 0 .. Len(pipe) : pipe' = SubSeq(pipe, n + 1, Len(pipe))
    BY <1>7 DEF SrvCrash
  <2>2. n + 1 \in Nat /\ 1 <= n + 1 /\ Len(pipe) \in Nat
    BY <1>q, <2>1, LenProperties
  <2>3. ToSet(pipe') \subseteq ToSet(pipe) /\ IsInjective(pipe')
    BY <1>q, <2>1, <2>2, PartSet DEF Apart
  <2>4. queue' = queue /\ slot' = slot /\ srv'.pc = "dead"
    BY <1>7 DEF SrvCrash
  <2> QED BY <2>3, <2>4 DEF Apart, Unserved
<1>8. CASE CamRegister \/ CamRefused \/ CamResolve \/ CamRestart \/ SrvRestart \/ UNCHANGED vars
  <2>1. queue' = queue /\ pipe' = pipe /\ slot' = slot
    BY <1>8 DEF CamRegister, CamRefused, CamResolve, CamRestart, SrvRestart, vars
  <2>2. Held' = Held
    BY <1>8
    DEF CamRegister, CamRefused, CamResolve, CamRestart, SrvRestart, vars, Replacement, Pinned
  <2> QED BY <2>1, <2>2 DEF Apart, Unserved
<1> QED BY <1>1, <1>2, <1>3, <1>4, <1>5, <1>6, <1>7, <1>8
        DEF Next, CamStep, Client, Server

--------------------------------------------------------------------------------
(* Evictions.                                                              *)

(* Once something has crashed it stays so.                                 *)
LEMMA CrashesStay ==
  ASSUME TypeOK, [Next]_vars, Uncrashed'
  PROVE  Uncrashed /\ ~CamCrash /\ ~SrvCrash
<1> USE DEF Uncrashed, Processes, TypeOK
<1>1. ASSUME CamCrash \/ SrvCrash PROVE FALSE
  BY <1>1 DEF CamCrash, SrvCrash
<1>2. CASE crashes' = crashes
  BY <1>1, <1>2
<1>3. crashes' = crashes \/ CamCrash \/ SrvCrash
  BY DEF Next, CamStep, Client, Server, vars, CamRegister, CamRefused, CamWrite, CamSend,
     CamResolve, SrvTake, SrvPin, SrvUnpin, CamRestart, SrvRestart
<1> QED BY <1>1, <1>2, <1>3

(* A step in which nothing crashes evicts nothing, or fills the queue with *)
(* requests for QueueMax other slots.                                      *)
LEMMA LeakedStep ==
  ASSUME TypeOK, Pinned, Apart, Unserved, TypeOK', Pinned', Apart',
         [Next]_vars, ~CamCrash, ~SrvCrash
  PROVE  Leaked' \subseteq Leaked \/ Len(queue') = QueueMax
<1> USE DEF Held
<1>q. /\ queue \in Seq(Slots) /\ pipe \in Seq(Slots)
      /\ None \notin Slots
  BY DEF TypeOK, None, Slots
<1>s. /\ Leaked = {s \in Slots : slot[s] # "free"} \ (Requested \cup {srv.req})
      /\ Leaked' = {s \in Slots : slot'[s] # "free"} \ (Requested' \cup {srv'.req})
  BY LeakedIs, LeakedBecomes
<1> DEFINE Still ==
      {s \in Slots : slot'[s] # "free"} \ (Requested' \cup {srv'.req})
        \subseteq {s \in Slots : slot[s] # "free"} \ (Requested \cup {srv.req})
<1>1. ASSUME NEW s \in Slots, CamWrite(s) PROVE Still \/ Len(queue') = QueueMax
  <2>1. /\ slot' = [slot EXCEPT ![s] = "ready"] /\ slot[s] = "free"
        /\ queue' = Append(IF Len(queue) >= QueueMax THEN Tail(queue) ELSE queue, s)
        /\ pipe' = pipe /\ srv' = srv
    BY <1>1 DEF CamWrite, Available
  <2>2. s \notin Requested
    BY <2>1 DEF Unserved
  <2>3. CASE Len(queue) >= QueueMax
    <3>1. Len(queue) = QueueMax /\ QueueMax \in Nat \ {0}
      BY <2>3, <1>q, LenProperties, FullStackAssumption DEF TypeOK
    <3>2. Tail(queue) \in Seq(Slots) /\ Len(Tail(queue)) = QueueMax - 1
      BY <1>q, <3>1, TailSet, EmptySeq DEF Apart
    <3> QED BY <2>1, <2>3, <3>1, <3>2, AppendProperties
  <2>4. CASE ~(Len(queue) >= QueueMax)
    <3>1. ToSet(queue') = ToSet(queue) \cup {s}
      BY <1>q, <2>1, <2>2, <2>4, AppendSet DEF Apart, Requested
    <3>2. Requested' = Requested \cup {s}
      BY <2>1, <3>1 DEF Requested
    <3> QED BY <2>1, <3>2 DEF TypeOK
  <2> QED BY <2>3, <2>4
<1>2. CASE CamSend
  <2>1. /\ queue # <<>> /\ queue' = Tail(queue) /\ pipe' = Append(pipe, Head(queue))
        /\ slot' = slot /\ srv' = srv
    BY <1>2 DEF CamSend
  <2>2. /\ Head(queue) \in ToSet(queue) /\ Head(queue) \in Slots
        /\ ToSet(queue') = ToSet(queue) \ {Head(queue)}
    BY <1>q, <2>1, TailSet DEF Apart
  <2>3. ToSet(pipe') = ToSet(pipe) \cup {Head(queue)}
    <3>1. Head(queue) \notin ToSet(pipe)
      BY <2>2 DEF Apart
    <3> QED BY <1>q, <2>1, <2>2, <3>1, AppendSet DEF Apart
  <2>4. Requested' = Requested
    BY <2>1, <2>2, <2>3 DEF Requested
  <2> QED BY <1>s, <2>1, <2>4
<1>3. CASE SrvTake
  <2>1. /\ pipe # <<>> /\ pipe' = Tail(pipe) /\ srv' = [pc |-> "read", req |-> Head(pipe)]
        /\ srv.pc = "up" /\ slot' = slot /\ queue' = queue
    BY <1>3 DEF SrvTake
  <2>2. Head(pipe) \in ToSet(pipe) /\ ToSet(pipe') = ToSet(pipe) \ {Head(pipe)}
    BY <1>q, <2>1, TailSet DEF Apart
  <2>3. Requested' = Requested /\ srv.req = None /\ srv'.req \in Requested
    BY <2>1, <2>2 DEF Requested, Pinned
  <2> QED BY <1>s, <1>q, <2>1, <2>3
<1>4. CASE SrvPin
  <2>1. /\ srv.pc = "read" /\ srv.req \in Held /\ slot[srv.req] = "ready"
        /\ slot' = [slot EXCEPT ![srv.req] = "reading"]
        /\ srv'.pc = "copy" /\ srv'.req = srv.req /\ queue' = queue /\ pipe' = pipe
    BY <1>4 DEF SrvPin, Unserved, Pinned, Requested
  <2>2. Requested \subseteq Requested' \cup {srv.req}
    BY <2>1 DEF Requested
  <2> QED BY <1>s, <2>1, <2>2 DEF TypeOK
<1>5. CASE SrvUnpin
  <2>1. /\ slot' = [slot EXCEPT ![srv.req] = "free"] /\ srv.req \in Slots
        /\ srv.pc = "copy" /\ srv'.pc = "up" /\ queue' = queue /\ pipe' = pipe
    BY <1>5 DEF SrvUnpin, Pinned
  <2>2. Requested' = Requested
    BY <2>1 DEF Requested
  <2> QED BY <1>s, <2>1, <2>2 DEF TypeOK
<1>6. CASE CamRegister \/ CamRefused \/ CamResolve \/ CamRestart \/ SrvRestart \/ UNCHANGED vars
  <2>1. queue' = queue /\ pipe' = pipe /\ slot' = slot /\ srv'.req = srv.req
    BY <1>6
    DEF CamRegister, CamRefused, CamResolve, CamRestart, SrvRestart, vars, Pinned
  <2>2. Held' = Held
    BY <1>6
    DEF CamRegister, CamRefused, CamResolve, CamRestart, SrvRestart, vars, Replacement, Pinned
  <2> QED BY <1>s, <2>1, <2>2 DEF Requested
<1> QED BY <1>1, <1>2, <1>3, <1>4, <1>5, <1>6, <1>s
        DEF Next, CamStep, Client, Server

(* What evictions have taken leaves room for a queue, after any step.      *)
LEMMA RoomStep ==
  ASSUME FullStackInv, [Next]_vars, TypeOK', Pinned', Apart', Unserved'
  PROVE  EvictionLeavesRoom'
<1> SUFFICES ASSUME Uncrashed'
             PROVE  Cardinality(Leaked') <= (IF NSlots > QueueMax THEN NSlots - QueueMax ELSE 0)
  BY DEF EvictionLeavesRoom
<1>1. Uncrashed /\ ~CamCrash /\ ~SrvCrash
  BY CrashesStay DEF FullStackInv
<1>2. Cardinality(Leaked) <= (IF NSlots > QueueMax THEN NSlots - QueueMax ELSE 0)
  BY <1>1 DEF FullStackInv, EvictionLeavesRoom
<1>3. NSlots \in Nat /\ QueueMax \in Nat /\ IsFiniteSet(Slots)
  BY FullStackAssumption, FS_Interval DEF Slots
<1>4. CASE Leaked' \subseteq Leaked
  <2>1. Leaked \subseteq Slots
    BY DEF Leaked
  <2>2. IsFiniteSet(Leaked) /\ Cardinality(Leaked) \in Nat
    BY <1>3, <2>1, FS_Subset, FS_CardinalityType
  <2>3. Cardinality(Leaked') <= Cardinality(Leaked) /\ Cardinality(Leaked') \in Nat
    BY <1>4, <2>2, FS_Subset, FS_CardinalityType
  <2> QED BY <1>2, <1>3, <2>2, <2>3
<1>5. CASE Len(queue') = QueueMax
  <2>1. /\ Leaked' \subseteq Slots
        /\ Leaked' \cap ToSet(queue') = {}
    BY LeakedBecomes DEF Requested
  <2>2. queue' \in Seq(Slots) /\ IsInjective(queue')
    BY DEF TypeOK, Apart
  <2> QED BY <1>5, <2>1, <2>2, RoomLeft
<1> QED BY <1>1, <1>4, <1>5, LeakedStep DEF FullStackInv

--------------------------------------------------------------------------------
(* The theorems.                                                           *)

(* Nothing is requested and nothing evicted at the start.                  *)
LEMMA FullStackInit == Init => FullStackInv
<1> SUFFICES ASSUME Init PROVE FullStackInv
  OBVIOUS
<1> USE FullStackAssumption DEF Init, Processes, None
<1>1. <<>> \in Seq(Slots) /\ Len(<<>>) = 0 /\ ToSet(<<>>) = {} /\ IsInjective(<<>>)
  BY EmptySeq DEF ToSet, IsInjective
<1>2. TypeOK /\ Pinned /\ Counted
  <2>1. /\ slot \in [Slots -> {"free", "ready", "reading"}]
        /\ restarts \in [Processes -> 0 .. MaxRestarts + 1] /\ crashes \in [Processes -> Nat]
        /\ inFlight \in 0 .. Window /\ Len(queue) <= QueueMax
    BY <1>1
  <2>2. Pinned /\ Counted
    BY DEF Pinned, Counted
  <2>3. queue \in Seq(Slots) /\ pipe \in Seq(Slots) /\ writer \in BOOLEAN
    BY <1>1
  <2> QED BY <2>1, <2>2, <2>3 DEF TypeOK
<1>3. Held = {} /\ Requested = {}
  BY <1>1 DEF Held, Requested
<1>4. Apart /\ Unserved
  BY <1>1, <1>3 DEF Apart, Unserved
<1>5. Leaked = {}
  BY <1>2, LeakedIs
<1>6. EvictionLeavesRoom
  BY <1>5, FS_EmptySet DEF EvictionLeavesRoom
<1> QED BY <1>2, <1>4, <1>6 DEF FullStackInv

(* One step of any process keeps the invariant.                            *)
LEMMA FullStackStep == FullStackInv /\ [Next]_vars => FullStackInv'
<1> SUFFICES ASSUME FullStackInv, [Next]_vars PROVE FullStackInv'
  OBVIOUS
<1>1. TypeOK' /\ Pinned' /\ Counted'
  BY Typed DEF FullStackInv
<1>2. Apart' /\ Unserved'
  BY RequestsStep DEF FullStackInv
<1>3. EvictionLeavesRoom'
  BY <1>1, <1>2, RoomStep
<1> QED BY <1>1, <1>2, <1>3 DEF FullStackInv

(* The inductive invariant holds in every run of the two processes.        *)
THEOREM FullStackInvariant == Spec => []FullStackInv
BY FullStackInit, FullStackStep, PTL DEF Spec

(* A ring without a free slot in which nothing is on its way would be all  *)
(* evicted, and evictions leave QueueMax slots at least.                   *)
LEMMA FullMeansBusy ==
  ASSUME FullStackInv
  PROVE  RingFullMeansBusy
<1> SUFFICES ASSUME Uncrashed, \A s \in Slots : ~Available(s), Unread = <<>>, srv.pc # "copy"
             PROVE  FALSE
  BY DEF RingFullMeansBusy
<1> USE DEF FullStackInv
<1>1. Requested = {}
  BY Readable DEF ToSet
<1>2. srv.req = None
  BY <1>1 DEF Requested, Held, Pinned
<1>3. Leaked = Slots
  <2>1. Leaked = {s \in Slots : slot[s] # "free"} \ (Requested \cup {srv.req})
    BY LeakedIs
  <2>2. None \notin Slots
    BY DEF None, Slots
  <2> QED BY <1>1, <1>2, <2>1, <2>2 DEF Available
<1>4. Cardinality(Slots) = NSlots
  BY FullStackAssumption, FS_Interval DEF Slots
<1> QED BY <1>3, <1>4, FullStackAssumption DEF EvictionLeavesRoom

(* Every slot of the ring is free, or READY for one request that will be   *)
(* served, or in the server's hands; while nothing crashes the only others *)
(* are those DROP_OLDEST evicted, and they leave room for a queue.  For    *)
(* any n_slots, window_size, queue_maxsize and max_restarts, any number of *)
(* crashes of either process, at any moment.                               *)
THEOREM SlotsAlwaysAccounted == Spec => []SlotsAccounted
<1>1. FullStackInv => SlotsAccounted
  <2> SUFFICES ASSUME FullStackInv PROVE SlotsAccounted
    OBVIOUS
  <2>1. RequestsReadable
    BY Readable DEF FullStackInv, RequestsReadable, Unserved
  <2> QED BY <2>1, FullMeansBusy DEF SlotsAccounted, FullStackInv
<1> QED BY <1>1, FullStackInvariant, PTL

(* The queue never holds more than queue_maxsize requests, no more than    *)
(* window_size are in flight, and a worker's restarts are counted up to    *)
(* max_restarts and one more, the one that was refused.                    *)
THEOREM FullStackTyped == Spec => []TypeOK
<1>1. FullStackInv => TypeOK
  BY DEF FullStackInv
<1> QED BY <1>1, FullStackInvariant, PTL

================================================================================
