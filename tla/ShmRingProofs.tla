----------------------------- MODULE ShmRingProofs -----------------------------
(***************************************************************************)
(* Proofs about ShmRing for every number of slots, registry entries and    *)
(* readers, and for any set of mortal processes: its invariants, and that  *)
(* it implements FrameChannel.                                             *)
(***************************************************************************)
EXTENDS ShmRing, WellFoundedInduction, FiniteSetTheorems, TLAPS

(* The steps of Next, one by one. *)
LEMMA NextCases ==
  ASSUME Next
  PROVE  \/ WriteStart \/ WritePeek \/ WriteAcquire \/ WriteTimeout \/ WriteMark
         \/ WriteSkipBusy \/ WriteCopyLo \/ WriteCopyHi \/ WriteCommitAcquire \/ WriteCommitTimeout \/ WriteCommit
         \/ \E r \in Readers :
              \/ ReadAny(r)
              \/ ReadPeek(r) \/ ReadAcquire(r) \/ ReadTimeout(r) \/ ReadStale(r)
              \/ ReadPin(r) \/ ReadRegistryFull(r) \/ ReadPinned(r) \/ ReadCopyLo(r)
              \/ ReadCopyHi(r) \/ UnpinAcquire(r) \/ UnpinTimeout(r) \/ UnpinClear(r)
              \/ UnpinDone(r) \/ UnpinRelease(r)
         \/ \E p \in Proc : \/ Suspect(p) \/ Condemn(p) \/ Spare(p) \/ Quarantine(p)
                            \/ CountSlot(p) \/ Report(p) \/ Crash(p)
  BY DEF Next, WriteStep, ReadStep, Recover, Proc

(* Round robin stays within the ring.                                      *)
LEMMA NextSlotType == \A s \in Slots : NextSlot(s) \in Slots
  BY RingAssumption DEF RingAssumption, Slots, NextSlot

(* Where SkipSlot, the end of every unsuccessful attempt at a slot, may     *)
(* lead write().                                                           *)
LEMMA SkipSlotType ==
  ASSUME TypeOK, SkipSlot
  PROVE  /\ pc' \in [Proc -> WriterPc \cup ReaderPc]
         /\ pc'[Writer] \in {"idle", "peek"} /\ \A r \in Readers : pc'[r] = pc[r]
         /\ at' \in [Proc -> Slots] /\ \A r \in Readers : at'[r] = at[r]
         /\ tried' \in 0 .. NSlots - 1
  <1> USE RingAssumption DEF RingAssumption, TypeOK, Proc, Slots, WriterPc, ReaderPc
  <1>1. CASE tried + 1 = NSlots
    <2>1. pc' = [pc EXCEPT ![Writer] = "idle"] /\ UNCHANGED <<at, tried>>
      BY <1>1 DEF SkipSlot
    <2> QED
      BY <2>1
  <1>2. CASE tried + 1 # NSlots
    <2>1. /\ pc' = [pc EXCEPT ![Writer] = "peek"]
          /\ at' = [at EXCEPT ![Writer] = NextSlot(@)]
          /\ tried' = tried + 1
      BY <1>2 DEF SkipSlot
    <2>2. NextSlot(at[Writer]) \in Slots
      BY NextSlotType
    <2>3. at' \in [Proc -> Slots] /\ \A r \in Readers : at'[r] = at[r]
      BY <2>1, <2>2
    <2>4. tried' \in 0 .. NSlots - 1
      BY <1>2, <2>1
    <2> QED
      BY <2>1, <2>3, <2>4
  <1> QED
    BY <1>1, <1>2

(* The same of a process that gave up on recovering a slot.                *)
LEMMA GiveUpSlotType ==
  ASSUME TypeOK, NEW p \in Proc, GiveUpSlot(p)
  PROVE  /\ pc' \in [Proc -> WriterPc \cup ReaderPc]
         /\ pc'[Writer] \in WriterPc /\ \A r \in Readers : pc'[r] \in ReaderPc
         /\ pc'[p] \in {"idle", "peek"} /\ \A q \in Proc \ {p} : pc'[q] = pc[q]
         /\ at' \in [Proc -> Slots] /\ \A q \in Proc \ {p} : at'[q] = at[q]
         /\ tried' \in 0 .. NSlots - 1
  <1>1. CASE p = Writer
    BY <1>1, SkipSlotType, RingAssumption DEF RingAssumption, GiveUpSlot, TypeOK, Proc, WriterPc
  <1>2. CASE p # Writer
    <2>1. pc' = [pc EXCEPT ![p] = "idle"] /\ UNCHANGED <<at, tried>>
      BY <1>2 DEF GiveUpSlot
    <2> QED
      BY <1>2, <2>1, RingAssumption DEF RingAssumption, TypeOK, Proc, WriterPc, ReaderPc
  <1> QED
    BY <1>1, <1>2

(* Moving a process from one label to another.                             *)
LEMMA GotoType ==
  ASSUME TypeOK, NEW p \in Proc, NEW from, NEW to, Goto(p, from, to),
         p = Writer => to \in WriterPc, p # Writer => to \in ReaderPc
  PROVE  /\ pc' \in [Proc -> WriterPc \cup ReaderPc]
         /\ pc'[Writer] \in WriterPc /\ \A r \in Readers : pc'[r] \in ReaderPc
  BY RingAssumption DEF RingAssumption, Goto, TypeOK, Proc

(* Reaping only empties registry entries, and never a live reader's.       *)
LEMMA ReapedType ==
  ASSUME TypeOK, NEW s \in Slots, NEW expired \in SUBSET Readers
  PROVE  /\ Reaped(s, expired) \in [Entries -> Readers \cup {NoProc}]
         /\ \A r \in Readers, i \in Entries :
              alive[r] /\ registry[s][i] = r => Reaped(s, expired)[i] = r
  BY RingAssumption DEF RingAssumption, TypeOK, Reaped, Proc

(* A nonempty set of registry indexes has a least one.                     *)
LEMMA LeastEntry ==
  ASSUME NEW S \in SUBSET Entries, S # {}
  PROVE  \E i \in S : \A j \in S : i <= j
  <1>1. S \subseteq Nat
    BY RingAssumption DEF RingAssumption, Entries
  <1>2. PICK i \in S : \A j \in S : ~ (<<j, i>> \in OpToRel(<, Nat))
    BY <1>1, NatLessThanWellFounded, WFMin, Zenon
  <1>3. \A j \in S : ~ (j < i)
    BY <1>1, <1>2 DEF OpToRel
  <1> QED
    BY <1>1, <1>3

(* The first free entry is an entry, and it is free.                       *)
LEMMA FirstFreeEntry ==
  ASSUME NEW reg, \E i \in Entries : reg[i] = NoProc
  PROVE  FirstFree(reg) \in Entries /\ reg[FirstFree(reg)] = NoProc
  <1> DEFINE F == {i \in Entries : reg[i] = NoProc}
  <1>1. PICK i \in F : \A j \in F : i <= j
    <2>1. F \in SUBSET Entries /\ F # {}
      OBVIOUS
    <2> HIDE DEF F
    <2> QED
      BY <2>1, LeastEntry
  <1> QED
    BY <1>1 DEF FirstFree

(* The first entry of a reader is an entry, and it is the reader's.        *)
LEMMA FirstOfEntry ==
  ASSUME NEW reg, NEW r, \E i \in Entries : reg[i] = r
  PROVE  FirstOf(reg, r) \in Entries /\ reg[FirstOf(reg, r)] = r
  <1> DEFINE F == {i \in Entries : reg[i] = r}
  <1>1. PICK i \in F : \A j \in F : i <= j
    <2>1. F \in SUBSET Entries /\ F # {}
      OBVIOUS
    <2> HIDE DEF F
    <2> QED
      BY <2>1, LeastEntry
  <1> QED
    BY <1>1 DEF FirstOf

(* The types hold initially.                                               *)
LEMMA TypeInit == Init => TypeOK
  <1> SUFFICES ASSUME Init PROVE TypeOK
    OBVIOUS
  <1> USE RingAssumption DEF RingAssumption, Init, Proc
  <1>1. /\ state \in [Slots -> SlotState] /\ gen \in [Slots -> Nat]
        /\ owner \in [Slots -> {Writer, NoProc}] /\ lock \in [Slots -> Proc \cup {NoProc}]
        /\ lo \in [Slots -> Nat] /\ hi \in [Slots -> Nat]
    BY DEF SlotState
  <1>2. registry \in [Slots -> [Entries -> Readers \cup {NoProc}]]
    OBVIOUS
  <1>3. /\ pc \in [Proc -> WriterPc \cup ReaderPc]
        /\ pc[Writer] \in WriterPc /\ \A r \in Readers : pc[r] \in ReaderPc
    BY DEF WriterPc, ReaderPc
  <1>4. 0 \in Slots /\ 0 \in 0 .. NSlots - 1
    BY DEF Slots
  <1>5. at \in [Proc -> Slots] /\ nextSlot \in Slots /\ tried \in 0 .. NSlots - 1
    BY <1>4
  <1>6. alive \in [Proc -> BOOLEAN] /\ want \in [Proc -> Nat] /\ nextGen \in Nat \ {0}
    OBVIOUS
  <1>7. refs \in SUBSET (Slots \X Nat) /\ pinned \in SUBSET (Slots \X Nat) /\ rebuild \in BOOLEAN
    OBVIOUS
  <1>10. tally \in [Proc -> [next : 0 .. NSlots, found : Nat]]
    BY DEF NoTally
  <1>8. <<0, 0>> \in Nat \X Nat
    OBVIOUS
  <1>9. copy \in [Readers -> Nat \X Nat]
    BY <1>8
  <1> QED
    BY <1>1, <1>2, <1>3, <1>5, <1>6, <1>7, <1>9, <1>10 DEF TypeOK

(* Counting moves nothing but the count; a report ends the attempt.        *)
LEMMA CountStill ==
  ASSUME TypeOK, NEW p \in Proc, CountSlot(p)
  PROVE  /\ UNCHANGED <<state, gen, owner, registry, lo, hi, lock, alive, pc, at, want>>
         /\ UNCHANGED <<tried, nextSlot, nextGen, copy, refs, pinned, rebuild>>
  BY DEF CountSlot, Goto, TypeOK, header, data, writerVars

LEMMA ReportStill ==
  ASSUME NEW p \in Proc, Report(p)
  PROVE  /\ UNCHANGED <<state, gen, owner, registry, lo, hi, lock, alive, want>>
         /\ UNCHANGED <<nextSlot, nextGen, copy, refs, pinned>>
         /\ GiveUpSlot(p) /\ pc[p] = "counting"
  BY DEF Report, header, data

(* Every step preserves the types.                                         *)
LEMMA TypeStep == TypeOK /\ [Next]_vars => TypeOK'
  <1> SUFFICES ASSUME TypeOK, [Next]_vars PROVE TypeOK'
    OBVIOUS
  <1> USE RingAssumption DEF RingAssumption, Proc, header, data, writerVars, history, recovery
  <1>w. Writer \in Proc /\ Readers \subseteq Proc /\ \A r \in Readers : r # Writer
    OBVIOUS
  <1>0. ASSUME NEW p \in Proc, Suspect(p) PROVE TypeOK'
    <2>1. /\ pc' \in [Proc -> WriterPc \cup ReaderPc]
          /\ pc'[Writer] \in WriterPc /\ \A q \in Readers : pc'[q] \in ReaderPc
      BY <1>0, <1>w, GotoType DEF Suspect, WriterPc, ReaderPc
    <2> QED
      BY <1>0, <2>1 DEF Suspect, TypeOK
  <1>1. CASE WriteStart
    <2>1. /\ pc' \in [Proc -> WriterPc \cup ReaderPc]
          /\ pc'[Writer] \in WriterPc /\ \A q \in Readers : pc'[q] \in ReaderPc
      BY <1>1, <1>w, GotoType DEF WriteStart, WriterPc, ReaderPc
    <2>2. at' \in [Proc -> Slots]
      BY <1>1 DEF WriteStart, TypeOK
    <2>3. tried' \in 0 .. NSlots - 1
      BY <1>1 DEF WriteStart
    <2> QED
      BY <1>1, <2>1, <2>2, <2>3 DEF WriteStart, TypeOK
  <1>2. CASE WritePeek
    <2>1. CASE state[at[Writer]] = "QUARANTINED"
      <3>1. SkipSlot
        BY <1>2, <2>1 DEF WritePeek
      <3>2. /\ pc' \in [Proc -> WriterPc \cup ReaderPc]
            /\ pc'[Writer] \in WriterPc /\ \A q \in Readers : pc'[q] \in ReaderPc
        BY <3>1, SkipSlotType DEF TypeOK, WriterPc
      <3> QED
        BY <1>2, <3>1, <3>2, SkipSlotType DEF WritePeek, TypeOK
    <2>2. CASE state[at[Writer]] # "QUARANTINED"
      <3>1. pc' = [pc EXCEPT ![Writer] = "acquire"] /\ UNCHANGED <<at, tried>>
        BY <1>2, <2>2 DEF WritePeek
      <3>2. /\ pc' \in [Proc -> WriterPc \cup ReaderPc]
            /\ pc'[Writer] \in WriterPc /\ \A q \in Readers : pc'[q] \in ReaderPc
        BY <3>1, <1>w DEF TypeOK, WriterPc
      <3> QED
        BY <1>2, <3>1, <3>2 DEF WritePeek, TypeOK
    <2> QED
      BY <2>1, <2>2
  <1>3. CASE WriteAcquire
    <2>1. /\ pc' \in [Proc -> WriterPc \cup ReaderPc]
          /\ pc'[Writer] \in WriterPc /\ \A q \in Readers : pc'[q] \in ReaderPc
      BY <1>3, <1>w, GotoType DEF WriteAcquire, WriterPc, ReaderPc
    <2> QED
      BY <1>3, <2>1, <1>w DEF WriteAcquire, TypeOK, Acquire
  <1>4. CASE WriteTimeout
    <2>1. /\ pc' \in [Proc -> WriterPc \cup ReaderPc]
          /\ pc'[Writer] \in WriterPc /\ \A q \in Readers : pc'[q] \in ReaderPc
      BY <1>4, <1>w, GotoType DEF WriteTimeout, WriterPc, ReaderPc
    <2> QED
      BY <1>4, <2>1 DEF WriteTimeout, TypeOK
  <1>5. CASE WriteMark
    <2>1. /\ pc' \in [Proc -> WriterPc \cup ReaderPc]
          /\ pc'[Writer] \in WriterPc /\ \A q \in Readers : pc'[q] \in ReaderPc
      BY <1>5, <1>w, GotoType DEF WriteMark, WriterPc, ReaderPc
    <2>2. /\ state' \in [Slots -> SlotState] /\ gen' \in [Slots -> Nat]
          /\ owner' \in [Slots -> {Writer, NoProc}]
      BY <1>5 DEF WriteMark, TypeOK, SlotState
    <2>3. want' \in [Proc -> Nat] /\ nextGen' \in Nat \ {0}
      BY <1>5 DEF WriteMark, TypeOK
    <2>4. lock' \in [Slots -> Proc \cup {NoProc}]
      BY <1>5 DEF WriteMark, TypeOK, Release
    <2> QED
      BY <1>5, <2>1, <2>2, <2>3, <2>4 DEF WriteMark, TypeOK
  <1>6. CASE WriteSkipBusy
    <2>1. /\ pc' \in [Proc -> WriterPc \cup ReaderPc]
          /\ pc'[Writer] \in WriterPc /\ \A q \in Readers : pc'[q] \in ReaderPc
      BY <1>6, SkipSlotType DEF WriteSkipBusy, TypeOK, WriterPc
    <2>2. at' \in [Proc -> Slots] /\ tried' \in 0 .. NSlots - 1
      BY <1>6, SkipSlotType DEF WriteSkipBusy
    <2>3. lock' \in [Slots -> Proc \cup {NoProc}]
      BY <1>6 DEF WriteSkipBusy, TypeOK, Release
    <2> QED
      BY <1>6, <2>1, <2>2, <2>3 DEF WriteSkipBusy, TypeOK
  <1>7. CASE WriteCopyLo
    <2>1. /\ pc' \in [Proc -> WriterPc \cup ReaderPc]
          /\ pc'[Writer] \in WriterPc /\ \A q \in Readers : pc'[q] \in ReaderPc
      BY <1>7, <1>w, GotoType DEF WriteCopyLo, WriterPc, ReaderPc
    <2> QED
      BY <1>7, <2>1 DEF WriteCopyLo, TypeOK
  <1>8. CASE WriteCopyHi
    <2>1. /\ pc' \in [Proc -> WriterPc \cup ReaderPc]
          /\ pc'[Writer] \in WriterPc /\ \A q \in Readers : pc'[q] \in ReaderPc
      BY <1>8, <1>w, GotoType DEF WriteCopyHi, WriterPc, ReaderPc
    <2> QED
      BY <1>8, <2>1 DEF WriteCopyHi, TypeOK
  <1>9. CASE WriteCommitAcquire
    <2>1. /\ pc' \in [Proc -> WriterPc \cup ReaderPc]
          /\ pc'[Writer] \in WriterPc /\ \A q \in Readers : pc'[q] \in ReaderPc
      BY <1>9, <1>w, GotoType DEF WriteCommitAcquire, WriterPc, ReaderPc
    <2> QED
      BY <1>9, <2>1, <1>w DEF WriteCommitAcquire, TypeOK, Acquire
  <1>10. CASE WriteCommitTimeout
    <2>1. /\ pc' \in [Proc -> WriterPc \cup ReaderPc]
          /\ pc'[Writer] \in WriterPc /\ \A q \in Readers : pc'[q] \in ReaderPc
      BY <1>10, <1>w, GotoType DEF WriteCommitTimeout, WriterPc, ReaderPc
    <2> QED
      BY <1>10, <2>1 DEF WriteCommitTimeout, TypeOK
  <1>11. CASE WriteCommit
    <2>1. /\ pc' \in [Proc -> WriterPc \cup ReaderPc]
          /\ pc'[Writer] \in WriterPc /\ \A q \in Readers : pc'[q] \in ReaderPc
      BY <1>11, <1>w, GotoType DEF WriteCommit, WriterPc, ReaderPc
    <2>2. /\ state' \in [Slots -> SlotState] /\ gen' \in [Slots -> Nat]
          /\ owner' \in [Slots -> {Writer, NoProc}]
      BY <1>11 DEF WriteCommit, TypeOK, SlotState
    <2>3. nextSlot' \in Slots /\ refs' \in SUBSET (Slots \X Nat)
      BY <1>11, NextSlotType DEF WriteCommit, TypeOK
    <2>4. lock' \in [Slots -> Proc \cup {NoProc}]
      BY <1>11 DEF WriteCommit, TypeOK, Release
    <2> QED
      BY <1>11, <2>1, <2>2, <2>3, <2>4 DEF WriteCommit, TypeOK
  <1>12. ASSUME NEW r \in Readers, ReadAny(r) PROVE TypeOK'
    <2>1. PICK ref \in refs : ReadStart(r, ref)
      BY <1>12 DEF ReadAny
    <2>2. ref[1] \in Slots /\ ref[2] \in Nat
      BY <2>1 DEF TypeOK
    <2>3. /\ pc' \in [Proc -> WriterPc \cup ReaderPc]
          /\ pc'[Writer] \in WriterPc /\ \A q \in Readers : pc'[q] \in ReaderPc
      BY <2>1, <1>w, GotoType DEF ReadStart, ReaderPc
    <2>4. at' \in [Proc -> Slots] /\ want' \in [Proc -> Nat]
      BY <2>1, <2>2 DEF ReadStart, TypeOK
    <2> QED
      BY <2>1, <2>3, <2>4 DEF ReadStart, TypeOK
  <1>13. ASSUME NEW r \in Readers, ReadPeek(r) PROVE TypeOK'
    <2>1. /\ pc' \in [Proc -> WriterPc \cup ReaderPc]
          /\ pc'[Writer] \in WriterPc /\ \A q \in Readers : pc'[q] \in ReaderPc
      BY <1>13, <1>w DEF ReadPeek, TypeOK, ReaderPc
    <2> QED
      BY <1>13, <2>1 DEF ReadPeek, TypeOK
  <1>14. ASSUME NEW r \in Readers, ReadAcquire(r) PROVE TypeOK'
    <2>1. /\ pc' \in [Proc -> WriterPc \cup ReaderPc]
          /\ pc'[Writer] \in WriterPc /\ \A q \in Readers : pc'[q] \in ReaderPc
      BY <1>14, <1>w, GotoType DEF ReadAcquire, WriterPc, ReaderPc
    <2> QED
      BY <1>14, <2>1, <1>w DEF ReadAcquire, TypeOK, Acquire
  <1>15. ASSUME NEW r \in Readers, ReadTimeout(r) PROVE TypeOK'
    <2>1. /\ pc' \in [Proc -> WriterPc \cup ReaderPc]
          /\ pc'[Writer] \in WriterPc /\ \A q \in Readers : pc'[q] \in ReaderPc
      BY <1>15, <1>w, GotoType DEF ReadTimeout, WriterPc, ReaderPc
    <2> QED
      BY <1>15, <2>1 DEF ReadTimeout, TypeOK
  <1>16. ASSUME NEW r \in Readers, ReadStale(r) PROVE TypeOK'
    <2>1. /\ pc' \in [Proc -> WriterPc \cup ReaderPc]
          /\ pc'[Writer] \in WriterPc /\ \A q \in Readers : pc'[q] \in ReaderPc
      BY <1>16, <1>w, GotoType DEF ReadStale, WriterPc, ReaderPc
    <2> QED
      BY <1>16, <2>1 DEF ReadStale, TypeOK, Release
  <1>17. ASSUME NEW r \in Readers, ReadPin(r) PROVE TypeOK'
    <2>1. /\ pc' \in [Proc -> WriterPc \cup ReaderPc]
          /\ pc'[Writer] \in WriterPc /\ \A q \in Readers : pc'[q] \in ReaderPc
      BY <1>17, <1>w, GotoType DEF ReadPin, WriterPc, ReaderPc
    <2>2. PICK expired \in SUBSET Readers :
             /\ \E i \in Entries : Reaped(at[r], expired)[i] = NoProc
             /\ registry' = [registry EXCEPT ![at[r]] =
                  [Reaped(at[r], expired) EXCEPT ![FirstFree(Reaped(at[r], expired))] = r]]
      BY <1>17 DEF ReadPin
    <2>3. at[r] \in Slots
      BY <1>w DEF TypeOK
    <2>4. [Reaped(at[r], expired) EXCEPT ![FirstFree(Reaped(at[r], expired))] = r]
            \in [Entries -> Readers \cup {NoProc}]
      BY <2>3, ReapedType
    <2>5. registry' \in [Slots -> [Entries -> Readers \cup {NoProc}]]
      BY <2>2, <2>4 DEF TypeOK
    <2> QED
      BY <1>17, <2>1, <2>5 DEF ReadPin, TypeOK
  <1>18. ASSUME NEW r \in Readers, ReadRegistryFull(r) PROVE TypeOK'
    <2>1. /\ pc' \in [Proc -> WriterPc \cup ReaderPc]
          /\ pc'[Writer] \in WriterPc /\ \A q \in Readers : pc'[q] \in ReaderPc
      BY <1>18, <1>w, GotoType DEF ReadRegistryFull, WriterPc, ReaderPc
    <2>2. PICK expired \in SUBSET Readers :
             registry' = [registry EXCEPT ![at[r]] = Reaped(at[r], expired)]
      BY <1>18 DEF ReadRegistryFull
    <2>3. at[r] \in Slots
      BY <1>w DEF TypeOK
    <2>4. registry' \in [Slots -> [Entries -> Readers \cup {NoProc}]]
      BY <2>2, <2>3, ReapedType DEF TypeOK
    <2>5. lock' \in [Slots -> Proc \cup {NoProc}]
      BY <1>18 DEF ReadRegistryFull, TypeOK, Release
    <2> QED
      BY <1>18, <2>1, <2>4, <2>5 DEF ReadRegistryFull, TypeOK
  <1>19. ASSUME NEW r \in Readers, ReadPinned(r) PROVE TypeOK'
    <2>1. /\ pc' \in [Proc -> WriterPc \cup ReaderPc]
          /\ pc'[Writer] \in WriterPc /\ \A q \in Readers : pc'[q] \in ReaderPc
      BY <1>19, <1>w, GotoType DEF ReadPinned, WriterPc, ReaderPc
    <2>2. at[r] \in Slots /\ want[r] \in Nat
      BY <1>w DEF TypeOK
    <2>3. pinned' \in SUBSET (Slots \X Nat)
      BY <1>19, <2>2 DEF ReadPinned, TypeOK
    <2>4. state' \in [Slots -> SlotState]
      BY <1>19 DEF ReadPinned, TypeOK, SlotState
    <2>5. lock' \in [Slots -> Proc \cup {NoProc}]
      BY <1>19 DEF ReadPinned, TypeOK, Release
    <2> QED
      BY <1>19, <2>1, <2>3, <2>4, <2>5 DEF ReadPinned, TypeOK
  <1>20. ASSUME NEW r \in Readers, ReadCopyLo(r) PROVE TypeOK'
    <2>1. /\ pc' \in [Proc -> WriterPc \cup ReaderPc]
          /\ pc'[Writer] \in WriterPc /\ \A q \in Readers : pc'[q] \in ReaderPc
      BY <1>20, <1>w, GotoType DEF ReadCopyLo, WriterPc, ReaderPc
    <2> QED
      BY <1>20, <2>1, <1>w DEF ReadCopyLo, TypeOK
  <1>21. ASSUME NEW r \in Readers, ReadCopyHi(r) PROVE TypeOK'
    <2>1. /\ pc' \in [Proc -> WriterPc \cup ReaderPc]
          /\ pc'[Writer] \in WriterPc /\ \A q \in Readers : pc'[q] \in ReaderPc
      BY <1>21, <1>w, GotoType DEF ReadCopyHi, WriterPc, ReaderPc
    <2> QED
      BY <1>21, <2>1, <1>w DEF ReadCopyHi, TypeOK
  <1>22. ASSUME NEW r \in Readers, UnpinAcquire(r) PROVE TypeOK'
    <2>1. /\ pc' \in [Proc -> WriterPc \cup ReaderPc]
          /\ pc'[Writer] \in WriterPc /\ \A q \in Readers : pc'[q] \in ReaderPc
      BY <1>22, <1>w, GotoType DEF UnpinAcquire, WriterPc, ReaderPc
    <2> QED
      BY <1>22, <2>1, <1>w DEF UnpinAcquire, TypeOK, Acquire
  <1>23. ASSUME NEW r \in Readers, UnpinTimeout(r) PROVE TypeOK'
    <2>1. /\ pc' \in [Proc -> WriterPc \cup ReaderPc]
          /\ pc'[Writer] \in WriterPc /\ \A q \in Readers : pc'[q] \in ReaderPc
      BY <1>23, <1>w, GotoType DEF UnpinTimeout, WriterPc, ReaderPc
    <2> QED
      BY <1>23, <2>1 DEF UnpinTimeout, TypeOK
  <1>24. ASSUME NEW r \in Readers, UnpinClear(r) PROVE TypeOK'
    <2>1. /\ pc' \in [Proc -> WriterPc \cup ReaderPc]
          /\ pc'[Writer] \in WriterPc /\ \A q \in Readers : pc'[q] \in ReaderPc
      BY <1>24, <1>w, GotoType DEF UnpinClear, WriterPc, ReaderPc
    <2>2. registry' \in [Slots -> [Entries -> Readers \cup {NoProc}]]
      BY <1>24, <1>w DEF UnpinClear, TypeOK
    <2> QED
      BY <1>24, <2>1, <2>2 DEF UnpinClear, TypeOK
  <1>25. ASSUME NEW r \in Readers, UnpinDone(r) PROVE TypeOK'
    <2>1. /\ pc' \in [Proc -> WriterPc \cup ReaderPc]
          /\ pc'[Writer] \in WriterPc /\ \A q \in Readers : pc'[q] \in ReaderPc
      BY <1>25, <1>w, GotoType DEF UnpinDone, WriterPc, ReaderPc
    <2>2. state' \in [Slots -> SlotState] /\ owner' \in [Slots -> {Writer, NoProc}]
      BY <1>25 DEF UnpinDone, TypeOK, SlotState
    <2> QED
      BY <1>25, <2>1, <2>2 DEF UnpinDone, TypeOK
  <1>26. ASSUME NEW r \in Readers, UnpinRelease(r) PROVE TypeOK'
    <2>1. /\ pc' \in [Proc -> WriterPc \cup ReaderPc]
          /\ pc'[Writer] \in WriterPc /\ \A q \in Readers : pc'[q] \in ReaderPc
      BY <1>26, <1>w, GotoType DEF UnpinRelease, WriterPc, ReaderPc
    <2> QED
      BY <1>26, <2>1 DEF UnpinRelease, TypeOK, Release
  <1>27. ASSUME NEW p \in Proc, Condemn(p) PROVE TypeOK'
    <2>1. /\ pc' \in [Proc -> WriterPc \cup ReaderPc]
          /\ pc'[Writer] \in WriterPc /\ \A q \in Readers : pc'[q] \in ReaderPc
      BY <1>27, <1>w, GotoType DEF Condemn, WriterPc, ReaderPc
    <2> QED
      BY <1>27, <2>1 DEF Condemn, TypeOK
  <1>28. ASSUME NEW p \in Proc, Spare(p) PROVE TypeOK'
    <2>1. /\ pc' \in [Proc -> WriterPc \cup ReaderPc]
          /\ pc'[Writer] \in WriterPc /\ \A q \in Readers : pc'[q] \in ReaderPc
          /\ at' \in [Proc -> Slots] /\ tried' \in 0 .. NSlots - 1
      BY <1>28, GiveUpSlotType DEF Spare
    <2> QED
      BY <1>28, <2>1 DEF Spare, TypeOK
  <1>29. ASSUME NEW p \in Proc, Quarantine(p) PROVE TypeOK'
    <2>1. /\ pc' \in [Proc -> WriterPc \cup ReaderPc]
          /\ pc'[Writer] \in WriterPc /\ \A q \in Readers : pc'[q] \in ReaderPc
      BY <1>29, <1>w, GotoType DEF Quarantine, WriterPc, ReaderPc
    <2>2. state' \in [Slots -> SlotState]
      BY <1>29 DEF Quarantine, TypeOK, SlotState
    <2>3. tally' \in [Proc -> [next : 0 .. NSlots, found : Nat]]
      BY <1>29 DEF Quarantine, TypeOK, NoTally
    <2> QED
      BY <1>29, <2>1, <2>2, <2>3 DEF Quarantine, TypeOK
  <1>33. ASSUME NEW p \in Proc, CountSlot(p) PROVE TypeOK'
    <2>1. tally[p] \in [next : 0 .. NSlots, found : Nat] /\ tally[p].next < NSlots
      BY <1>33 DEF CountSlot, TypeOK
    <2>2. PICK t \in [next : 0 .. NSlots, found : Nat] : tally' = [tally EXCEPT ![p] = t]
      <3>1. CASE state[tally[p].next] = "QUARANTINED"
        <4>1. /\ [next |-> tally[p].next + 1, found |-> tally[p].found + 1]
                    \in [next : 0 .. NSlots, found : Nat]
              /\ tally' = [tally EXCEPT ![p] =
                   [next |-> tally[p].next + 1, found |-> tally[p].found + 1]]
          BY <1>33, <2>1, <3>1 DEF CountSlot, TypeOK
        <4> QED
          BY <4>1
      <3>2. CASE state[tally[p].next] # "QUARANTINED"
        <4>1. /\ [next |-> tally[p].next + 1, found |-> tally[p].found]
                    \in [next : 0 .. NSlots, found : Nat]
              /\ tally' = [tally EXCEPT ![p] =
                   [next |-> tally[p].next + 1, found |-> tally[p].found]]
          BY <1>33, <2>1, <3>2 DEF CountSlot, TypeOK
        <4> QED
          BY <4>1
      <3> QED
        BY <3>1, <3>2
    <2> QED
      BY <1>33, <2>2, CountStill DEF TypeOK
  <1>34. ASSUME NEW p \in Proc, Report(p) PROVE TypeOK'
    <2>1. /\ pc' \in [Proc -> WriterPc \cup ReaderPc]
          /\ pc'[Writer] \in WriterPc /\ \A q \in Readers : pc'[q] \in ReaderPc
          /\ at' \in [Proc -> Slots] /\ tried' \in 0 .. NSlots - 1
      BY <1>34, GiveUpSlotType DEF Report
    <2>2. rebuild' \in BOOLEAN /\ tally' \in [Proc -> [next : 0 .. NSlots, found : Nat]]
      BY <1>34 DEF Report, TypeOK, NoTally
    <2> QED
      BY <1>34, <2>1, <2>2, ReportStill DEF TypeOK
  <1>30. ASSUME NEW p \in Proc, Crash(p) PROVE TypeOK'
    BY <1>30 DEF Crash, TypeOK
  <1>31. CASE UNCHANGED vars
    BY <1>31 DEF vars, TypeOK
  <1> HIDE DEF RingAssumption, Proc, header, data, writerVars, history, recovery
  <1>32. CASE Next
    BY <1>32, NextCases, <1>0, <1>1, <1>2, <1>3, <1>4, <1>5, <1>6, <1>7, <1>8, <1>9, <1>10, <1>11, <1>12, <1>13, <1>14, <1>15, <1>16, <1>17, <1>18, <1>19, <1>20, <1>21, <1>22, <1>23, <1>24, <1>25, <1>26, <1>27, <1>28, <1>29, <1>30, <1>33, <1>34
  <1> QED
    BY <1>31, <1>32

--------------------------------------------------------------------------------
(* Locks: LockInv, whoever is inside a critical section holds the lock.    *)

(* A step that leaves the locks alone and takes nobody into a section.     *)
LEMMA LockQuiet ==
  ASSUME TypeOK, LockInv, NEW q \in Proc, UNCHANGED lock,
         \A p \in Proc \ {q} : pc'[p] = pc[p] /\ at'[p] = at[p],
         pc'[q] \in LockPc => pc[q] \in LockPc /\ at'[q] = at[q]
  PROVE  LockInv'
  BY DEF LockInv

(* A step that takes a process into a section by acquiring the lock.       *)
LEMMA LockAcquired ==
  ASSUME TypeOK, LockInv, NEW q \in Proc, Acquire(q), UNCHANGED at,
         \A p \in Proc \ {q} : pc'[p] = pc[p]
  PROVE  LockInv'
  BY RingAssumption DEF RingAssumption, TypeOK, LockInv, Acquire, Proc

(* A step that takes a process out of a section by releasing the lock.     *)
LEMMA LockReleased ==
  ASSUME TypeOK, LockInv, NEW q \in Proc, Release(q), pc[q] \in LockPc, pc'[q] \notin LockPc,
         \A p \in Proc \ {q} : pc'[p] = pc[p] /\ at'[p] = at[p]
  PROVE  LockInv'
  BY DEF TypeOK, LockInv, Release

(* Every step preserves LockInv.                                           *)
LEMMA LockStep == TypeOK /\ LockInv /\ [Next]_vars => LockInv'
  <1> SUFFICES ASSUME TypeOK, LockInv, [Next]_vars PROVE LockInv'
    OBVIOUS
  <1>w. Writer \in Proc /\ Readers \subseteq Proc /\ \A r \in Readers : r # Writer
    BY RingAssumption DEF RingAssumption, Proc
  <1>s. SkipSlot => /\ pc'[Writer] \notin LockPc
                    /\ \A p \in Proc \ {Writer} : pc'[p] = pc[p] /\ at'[p] = at[p]
    BY SkipSlotType DEF LockPc, Proc
  <1>0. ASSUME NEW p \in Proc, Suspect(p) PROVE LockInv'
    BY <1>0, <1>w, LockQuiet DEF Suspect, Goto, TypeOK, LockPc
  <1>1. CASE WriteStart
    BY <1>1, <1>w, LockQuiet DEF WriteStart, Goto, TypeOK, LockPc
  <1>2. CASE WritePeek
    <2>1. /\ pc'[Writer] \notin LockPc
          /\ \A p \in Proc \ {Writer} : pc'[p] = pc[p] /\ at'[p] = at[p]
      BY <1>2, <1>w, <1>s DEF WritePeek, TypeOK, LockPc
    <2> QED
      BY <1>2, <2>1, <1>w, LockQuiet DEF WritePeek
  <1>3. CASE WriteAcquire
    BY <1>3, <1>w, LockAcquired DEF WriteAcquire, Goto, TypeOK
  <1>4. CASE WriteTimeout
    BY <1>4, <1>w, LockQuiet DEF WriteTimeout, Goto, TypeOK, LockPc
  <1>5. CASE WriteMark
    BY <1>5, <1>w, LockReleased DEF WriteMark, Goto, TypeOK, LockPc
  <1>6. CASE WriteSkipBusy
    BY <1>6, <1>w, <1>s, LockReleased DEF WriteSkipBusy, LockPc
  <1>7. CASE WriteCopyLo
    BY <1>7, <1>w, LockQuiet DEF WriteCopyLo, Goto, TypeOK, LockPc
  <1>8. CASE WriteCopyHi
    BY <1>8, <1>w, LockQuiet DEF WriteCopyHi, Goto, TypeOK, LockPc
  <1>9. CASE WriteCommitAcquire
    BY <1>9, <1>w, LockAcquired DEF WriteCommitAcquire, Goto, TypeOK
  <1>10. CASE WriteCommitTimeout
    BY <1>10, <1>w, LockQuiet DEF WriteCommitTimeout, Goto, TypeOK, LockPc
  <1>11. CASE WriteCommit
    BY <1>11, <1>w, LockReleased DEF WriteCommit, Goto, TypeOK, LockPc
  <1>12. ASSUME NEW r \in Readers, ReadAny(r) PROVE LockInv'
    BY <1>12, <1>w, LockQuiet DEF ReadAny, ReadStart, Goto, TypeOK, LockPc
  <1>13. ASSUME NEW r \in Readers, ReadPeek(r) PROVE LockInv'
    BY <1>13, <1>w, LockQuiet DEF ReadPeek, Goto, TypeOK, LockPc
  <1>14. ASSUME NEW r \in Readers, ReadAcquire(r) PROVE LockInv'
    BY <1>14, <1>w, LockAcquired DEF ReadAcquire, Goto, TypeOK
  <1>15. ASSUME NEW r \in Readers, ReadTimeout(r) PROVE LockInv'
    BY <1>15, <1>w, LockQuiet DEF ReadTimeout, Goto, TypeOK, LockPc
  <1>16. ASSUME NEW r \in Readers, ReadStale(r) PROVE LockInv'
    BY <1>16, <1>w, LockReleased DEF ReadStale, Goto, TypeOK, LockPc
  <1>17. ASSUME NEW r \in Readers, ReadPin(r) PROVE LockInv'
    BY <1>17, <1>w, LockQuiet DEF ReadPin, Goto, TypeOK, LockPc
  <1>18. ASSUME NEW r \in Readers, ReadRegistryFull(r) PROVE LockInv'
    BY <1>18, <1>w, LockReleased DEF ReadRegistryFull, Goto, TypeOK, LockPc
  <1>19. ASSUME NEW r \in Readers, ReadPinned(r) PROVE LockInv'
    BY <1>19, <1>w, LockReleased DEF ReadPinned, Goto, TypeOK, LockPc
  <1>20. ASSUME NEW r \in Readers, ReadCopyLo(r) PROVE LockInv'
    BY <1>20, <1>w, LockQuiet DEF ReadCopyLo, Goto, TypeOK, LockPc
  <1>21. ASSUME NEW r \in Readers, ReadCopyHi(r) PROVE LockInv'
    BY <1>21, <1>w, LockQuiet DEF ReadCopyHi, Goto, TypeOK, LockPc
  <1>22. ASSUME NEW r \in Readers, UnpinAcquire(r) PROVE LockInv'
    BY <1>22, <1>w, LockAcquired DEF UnpinAcquire, Goto, TypeOK
  <1>23. ASSUME NEW r \in Readers, UnpinTimeout(r) PROVE LockInv'
    BY <1>23, <1>w, LockQuiet DEF UnpinTimeout, Goto, TypeOK, LockPc
  <1>24. ASSUME NEW r \in Readers, UnpinClear(r) PROVE LockInv'
    BY <1>24, <1>w, LockQuiet DEF UnpinClear, Goto, TypeOK, LockPc
  <1>25. ASSUME NEW r \in Readers, UnpinDone(r) PROVE LockInv'
    BY <1>25, <1>w, LockQuiet DEF UnpinDone, Goto, TypeOK, LockPc
  <1>26. ASSUME NEW r \in Readers, UnpinRelease(r) PROVE LockInv'
    BY <1>26, <1>w, LockReleased DEF UnpinRelease, Goto, TypeOK, LockPc
  <1>27. ASSUME NEW p \in Proc, Condemn(p) PROVE LockInv'
    BY <1>27, <1>w, LockQuiet DEF Condemn, Goto, TypeOK, LockPc
  <1>28. ASSUME NEW p \in Proc, Spare(p) PROVE LockInv'
    <2>1. /\ pc'[p] \notin LockPc
          /\ \A q \in Proc \ {p} : pc'[q] = pc[q] /\ at'[q] = at[q]
      BY <1>28, GiveUpSlotType DEF Spare, LockPc
    <2> QED
      BY <1>28, <2>1, LockQuiet DEF Spare
  <1>29. ASSUME NEW p \in Proc, Quarantine(p) PROVE LockInv'
    BY <1>29, <1>w, LockQuiet DEF Quarantine, Goto, TypeOK, LockPc
  <1>33. ASSUME NEW p \in Proc, CountSlot(p) PROVE LockInv'
    BY <1>33, CountStill, LockQuiet
  <1>34. ASSUME NEW p \in Proc, Report(p) PROVE LockInv'
    <2>1. /\ pc'[p] \notin LockPc
          /\ \A q \in Proc \ {p} : pc'[q] = pc[q] /\ at'[q] = at[q]
      BY <1>34, GiveUpSlotType, ReportStill DEF LockPc
    <2> QED
      BY <1>34, <2>1, LockQuiet, ReportStill
  <1>30. ASSUME NEW p \in Proc, Crash(p) PROVE LockInv'
    BY <1>30, LockQuiet DEF Crash
  <1>31. CASE UNCHANGED vars
    BY <1>31, <1>w, LockQuiet DEF vars
  <1>32. CASE Next
    BY <1>32, NextCases, <1>0, <1>1, <1>2, <1>3, <1>4, <1>5, <1>6, <1>7, <1>8, <1>9, <1>10, <1>11, <1>12, <1>13, <1>14, <1>15, <1>16, <1>17, <1>18, <1>19, <1>20, <1>21, <1>22, <1>23, <1>24, <1>25, <1>26, <1>27, <1>28, <1>29, <1>30, <1>33, <1>34
  <1> QED
    BY <1>31, <1>32

--------------------------------------------------------------------------------
(* The inductive invariant.                                                *)

(* write() marks a slot WRITING only when no live reader pins it and none  *)
(* is about to declare it DONE.                                            *)
LEMMA MarkAlone ==
  ASSUME TypeOK, LockInv, PinInv, WriteMark
  PROVE  \A r \in Readers :
           alive[r] /\ at[r] = at[Writer] => pc[r] \notin PinPc \cup {"unpinned"}
  <1> SUFFICES ASSUME NEW r \in Readers, alive[r], at[r] = at[Writer],
                      pc[r] \in PinPc \cup {"unpinned"}
               PROVE  FALSE
    OBVIOUS
  <1>1. r \in Proc /\ Writer \in Proc /\ r # Writer /\ r # NoProc
    BY RingAssumption DEF RingAssumption, Proc
  <1>2. CASE pc[r] \in PinPc
    <2>1. \E i \in Entries : registry[at[Writer]][i] = r
      BY <1>2 DEF PinInv, Pins
    <2> QED
      BY <1>1, <2>1 DEF WriteMark, Available, NoReader
  <1>3. CASE pc[r] = "unpinned"
    <2>1. lock[at[Writer]] = r
      BY <1>1, <1>3 DEF LockInv, LockPc
    <2>2. lock[at[Writer]] = Writer
      BY <1>1 DEF WriteMark, Goto, LockInv, LockPc
    <2> QED
      BY <1>1, <2>1, <2>2
  <1> QED
    BY <1>2, <1>3

(* A live reader's registry entries survive everything but its own unpin.  *)
LEMMA EntriesKept ==
  ASSUME TypeOK, NEW r \in Readers, ReadPin(r) \/ ReadRegistryFull(r)
  PROVE  /\ \A s \in Slots, q \in Readers :
              alive[q] /\ (\E i \in Entries : registry[s][i] = q)
                => \E i \in Entries : registry'[s][i] = q
         /\ ReadPin(r) => \E i \in Entries : registry'[at[r]][i] = r
  <1>1. at[r] \in Slots /\ \A q \in Readers : q # NoProc
    BY RingAssumption DEF RingAssumption, TypeOK, Proc
  <1>2. CASE ReadPin(r)
    <2>1. PICK expired \in SUBSET Readers :
             /\ \E i \in Entries : Reaped(at[r], expired)[i] = NoProc
             /\ registry' = [registry EXCEPT ![at[r]] =
                  [Reaped(at[r], expired) EXCEPT ![FirstFree(Reaped(at[r], expired))] = r]]
      BY <1>2 DEF ReadPin
    <2> DEFINE reg == Reaped(at[r], expired)
    <2>2. /\ reg \in [Entries -> Readers \cup {NoProc}]
          /\ \A q \in Readers, i \in Entries : alive[q] /\ registry[at[r]][i] = q => reg[i] = q
      BY <1>1, ReapedType
    <2>3. FirstFree(reg) \in Entries /\ reg[FirstFree(reg)] = NoProc
      BY <2>1, FirstFreeEntry
    <2>4. registry' = [registry EXCEPT ![at[r]] = [reg EXCEPT ![FirstFree(reg)] = r]]
      BY <2>1
    <2> HIDE DEF reg
    <2>5. registry \in [Slots -> [Entries -> Readers \cup {NoProc}]]
      BY DEF TypeOK
    <2> QED
      BY <1>1, <2>2, <2>3, <2>4, <2>5
  <1>3. CASE ReadRegistryFull(r)
    <2>1. PICK expired \in SUBSET Readers :
             /\ \A i \in Entries : Reaped(at[r], expired)[i] # NoProc
             /\ registry' = [registry EXCEPT ![at[r]] = Reaped(at[r], expired)]
      BY <1>3 DEF ReadRegistryFull
    <2>2. \A q \in Readers, i \in Entries :
            alive[q] /\ registry[at[r]][i] = q => Reaped(at[r], expired)[i] = q
      BY <1>1, ReapedType
    <2>3. ~ReadPin(r)
      BY <1>3, <1>1 DEF ReadPin, ReadRegistryFull, Goto, TypeOK, Proc
    <2> QED
      BY <1>1, <2>1, <2>2, <2>3 DEF TypeOK
  <1> QED
    BY <1>2, <1>3

(* Unpinning clears no other reader's entry.                               *)
LEMMA UnpinKeeps ==
  ASSUME TypeOK, NEW r \in Readers, UnpinClear(r)
  PROVE  \A s \in Slots, q \in Readers \ {r} :
           (\E i \in Entries : registry[s][i] = q) => \E i \in Entries : registry'[s][i] = q
  <1>1. at[r] \in Slots /\ registry \in [Slots -> [Entries -> Readers \cup {NoProc}]]
    BY DEF TypeOK, Proc
  <1>2. CASE \E i \in Entries : registry[at[r]][i] = r
    <2>1. registry' = [registry EXCEPT ![at[r]][FirstOf(registry[at[r]], r)] = NoProc]
      BY <1>2 DEF UnpinClear
    <2>2. registry[at[r]][FirstOf(registry[at[r]], r)] = r
      BY <1>2, FirstOfEntry
    <2> QED
      BY <1>1, <2>1, <2>2
  <1>3. CASE ~ \E i \in Entries : registry[at[r]][i] = r
    BY <1>3 DEF UnpinClear
  <1> QED
    BY <1>2, <1>3

(* Every step preserves PinInv.                                            *)
LEMMA PinStep == TypeOK /\ LockInv /\ PinInv /\ WriterAlone /\ DataInv /\ [Next]_vars => PinInv'
  <1> SUFFICES ASSUME TypeOK, LockInv, PinInv, WriterAlone, DataInv, [Next]_vars PROVE PinInv'
    OBVIOUS
  <1>w. Writer \in Proc /\ Readers \subseteq Proc /\ \A r \in Readers : r # Writer
    BY RingAssumption DEF RingAssumption, Proc
  <1>0. ASSUME NEW p \in Proc, Suspect(p) PROVE PinInv'
    <2>1. UNCHANGED <<alive, registry, gen, lo, hi, at, want>>
      BY <1>0 DEF Suspect, header, data
    <2>2. /\ pc'[p] \notin PinPc \cup {"unpinned"}
          /\ \A q \in Proc \ {p} : pc'[q] = pc[q]
      BY <1>0 DEF Suspect, Goto, TypeOK, PinPc
    <2> QED
      BY <1>w, <2>1, <2>2 DEF PinInv, Pins
  <1>1. CASE WriteStart
    BY <1>1, <1>w DEF WriteStart, Goto, TypeOK, header, data, PinInv, Pins, PinPc
  <1>2. CASE WritePeek
    BY <1>2, <1>w, SkipSlotType DEF WritePeek, TypeOK, header, data, PinInv, Pins, PinPc
  <1>3. CASE WriteAcquire
    BY <1>3, <1>w DEF WriteAcquire, Goto, TypeOK, header, data, PinInv, Pins, PinPc
  <1>4. CASE WriteTimeout
    BY <1>4, <1>w DEF WriteTimeout, Goto, TypeOK, header, data, PinInv, Pins, PinPc
  <1>5. CASE WriteMark
    <2> SUFFICES ASSUME NEW q \in Readers
                 PROVE  /\ Pins(q)' => \E i \in Entries : registry'[at'[q]][i] = q
                        /\ Pins(q)' \/ (alive'[q] /\ pc'[q] = "unpinned") =>
                             gen'[at'[q]] = want'[q] /\ lo'[at'[q]] = want'[q] /\ hi'[at'[q]] = want'[q]
      BY DEF PinInv
    <2>1. /\ UNCHANGED <<alive, at, registry, lo, hi>> /\ pc'[q] = pc[q] /\ want'[q] = want[q]
          /\ \A s \in Slots \ {at[Writer]} : gen'[s] = gen[s]
      BY <1>5, <1>w DEF WriteMark, Goto, TypeOK, data
    <2>2. Pins(q)' = Pins(q) /\ at[q] \in Slots
      BY <2>1, <1>w DEF Pins, TypeOK
    <2>3. Pins(q) \/ (alive[q] /\ pc[q] = "unpinned") => at[q] # at[Writer]
      BY <1>5, MarkAlone DEF Pins
    <2> QED
      BY <2>1, <2>2, <2>3 DEF PinInv
  <1>6. CASE WriteSkipBusy
    BY <1>6, <1>w, SkipSlotType DEF WriteSkipBusy, TypeOK, header, data, PinInv, Pins, PinPc
  <1>7. CASE WriteCopyLo
    <2>1. \A q \in Readers : alive[q] /\ at[q] = at[Writer] => pc[q] \notin PinPc \cup {"unpinned"}
      BY <1>7 DEF WriteCopyLo, Goto, WriterAlone, WritePc
    <2> QED
      BY <1>7, <1>w, <2>1 DEF WriteCopyLo, Goto, TypeOK, header, history, PinInv, Pins, PinPc
  <1>8. CASE WriteCopyHi
    <2>1. \A q \in Readers : alive[q] /\ at[q] = at[Writer] => pc[q] \notin PinPc \cup {"unpinned"}
      BY <1>8 DEF WriteCopyHi, Goto, WriterAlone, WritePc
    <2> QED
      BY <1>8, <1>w, <2>1 DEF WriteCopyHi, Goto, TypeOK, header, history, PinInv, Pins, PinPc
  <1>9. CASE WriteCommitAcquire
    BY <1>9, <1>w DEF WriteCommitAcquire, Goto, TypeOK, header, data, PinInv, Pins, PinPc
  <1>10. CASE WriteCommitTimeout
    BY <1>10, <1>w DEF WriteCommitTimeout, Goto, TypeOK, header, data, PinInv, Pins, PinPc
  <1>11. CASE WriteCommit
    <2> SUFFICES ASSUME NEW q \in Readers
                 PROVE  /\ Pins(q)' => \E i \in Entries : registry'[at'[q]][i] = q
                        /\ Pins(q)' \/ (alive'[q] /\ pc'[q] = "unpinned") =>
                             gen'[at'[q]] = want'[q] /\ lo'[at'[q]] = want'[q] /\ hi'[at'[q]] = want'[q]
      BY DEF PinInv
    <2>1. /\ UNCHANGED <<alive, at, registry, lo, hi, want>> /\ pc'[q] = pc[q]
      BY <1>11, <1>w DEF WriteCommit, Goto, TypeOK, data
    <2>2. gen[at[Writer]] = want[Writer]
      BY <1>11 DEF WriteCommit, Goto, WriterAlone, WritePc
    <2>3. gen' = gen
      BY <1>11, <2>2 DEF WriteCommit, TypeOK
    <2>4. Pins(q)' = Pins(q)
      BY <2>1 DEF Pins
    <2> QED
      BY <2>1, <2>3, <2>4 DEF PinInv
  <1>12. ASSUME NEW r \in Readers, ReadAny(r) PROVE PinInv'
    BY <1>12, <1>w DEF ReadAny, ReadStart, Goto, TypeOK, header, data, PinInv, Pins, PinPc
  <1>13. ASSUME NEW r \in Readers, ReadPeek(r) PROVE PinInv'
    BY <1>13, <1>w DEF ReadPeek, TypeOK, header, data, PinInv, Pins, PinPc
  <1>14. ASSUME NEW r \in Readers, ReadAcquire(r) PROVE PinInv'
    BY <1>14, <1>w DEF ReadAcquire, Goto, TypeOK, header, data, PinInv, Pins, PinPc
  <1>15. ASSUME NEW r \in Readers, ReadTimeout(r) PROVE PinInv'
    BY <1>15, <1>w DEF ReadTimeout, Goto, TypeOK, header, data, PinInv, Pins, PinPc
  <1>16. ASSUME NEW r \in Readers, ReadStale(r) PROVE PinInv'
    BY <1>16, <1>w DEF ReadStale, Goto, TypeOK, header, data, PinInv, Pins, PinPc
  <1>17. ASSUME NEW r \in Readers, ReadPin(r) PROVE PinInv'
    <2> SUFFICES ASSUME NEW q \in Readers
                 PROVE  /\ Pins(q)' => \E i \in Entries : registry'[at'[q]][i] = q
                        /\ Pins(q)' \/ (alive'[q] /\ pc'[q] = "unpinned") =>
                             gen'[at'[q]] = want'[q] /\ lo'[at'[q]] = want'[q] /\ hi'[at'[q]] = want'[q]
      BY DEF PinInv
    <2>1. /\ \A v \in Proc \ {r} : pc'[v] = pc[v]
          /\ pc[r] = "held" /\ pc'[r] = "pinned"
          /\ UNCHANGED <<alive, at, gen, lo, hi, want>>
      BY <1>17, <1>w DEF ReadPin, Goto, TypeOK, data
    <2>2. CASE q = r
      <3>1. gen[at[r]] = want[r] /\ lo[at[r]] = want[r] /\ hi[at[r]] = want[r]
        BY <1>17, <1>w DEF ReadPin, Readable, DataInv, TypeOK
      <3>2. \E i \in Entries : registry'[at[r]][i] = r
        BY <1>17, EntriesKept
      <3> QED
        BY <2>1, <2>2, <3>1, <3>2
    <2>3. CASE q # r
      <3>1. pc'[q] = pc[q] /\ Pins(q)' = Pins(q) /\ at[q] \in Slots
        BY <1>w, <2>1, <2>3 DEF Pins, TypeOK
      <3>2. Pins(q) => \E i \in Entries : registry'[at[q]][i] = q
        BY <1>17, <3>1, EntriesKept DEF PinInv, Pins
      <3> QED
        BY <2>1, <3>1, <3>2 DEF PinInv
    <2> QED
      BY <2>2, <2>3
  <1>18. ASSUME NEW r \in Readers, ReadRegistryFull(r) PROVE PinInv'
    <2> SUFFICES ASSUME NEW q \in Readers
                 PROVE  /\ Pins(q)' => \E i \in Entries : registry'[at'[q]][i] = q
                        /\ Pins(q)' \/ (alive'[q] /\ pc'[q] = "unpinned") =>
                             gen'[at'[q]] = want'[q] /\ lo'[at'[q]] = want'[q] /\ hi'[at'[q]] = want'[q]
      BY DEF PinInv
    <2>1. /\ \A v \in Proc \ {r} : pc'[v] = pc[v]
          /\ pc[r] = "held" /\ pc'[r] = "idle"
          /\ UNCHANGED <<alive, at, gen, lo, hi, want>>
      BY <1>18, <1>w DEF ReadRegistryFull, Goto, TypeOK, data
    <2>2. CASE q = r
      BY <2>1, <2>2 DEF Pins, PinPc
    <2>3. CASE q # r
      <3>1. pc'[q] = pc[q] /\ Pins(q)' = Pins(q) /\ at[q] \in Slots
        BY <1>w, <2>1, <2>3 DEF Pins, TypeOK
      <3>2. Pins(q) => \E i \in Entries : registry'[at[q]][i] = q
        BY <1>18, <3>1, EntriesKept DEF PinInv, Pins
      <3> QED
        BY <2>1, <3>1, <3>2 DEF PinInv
    <2> QED
      BY <2>2, <2>3
  <1>19. ASSUME NEW r \in Readers, ReadPinned(r) PROVE PinInv'
    BY <1>19, <1>w DEF ReadPinned, Goto, TypeOK, data, PinInv, Pins, PinPc
  <1>20. ASSUME NEW r \in Readers, ReadCopyLo(r) PROVE PinInv'
    BY <1>20, <1>w DEF ReadCopyLo, Goto, TypeOK, header, data, PinInv, Pins, PinPc
  <1>21. ASSUME NEW r \in Readers, ReadCopyHi(r) PROVE PinInv'
    BY <1>21, <1>w DEF ReadCopyHi, Goto, TypeOK, header, data, PinInv, Pins, PinPc
  <1>22. ASSUME NEW r \in Readers, UnpinAcquire(r) PROVE PinInv'
    BY <1>22, <1>w DEF UnpinAcquire, Goto, TypeOK, header, data, PinInv, Pins, PinPc
  <1>23. ASSUME NEW r \in Readers, UnpinTimeout(r) PROVE PinInv'
    BY <1>23, <1>w DEF UnpinTimeout, Goto, TypeOK, header, data, PinInv, Pins, PinPc
  <1>24. ASSUME NEW r \in Readers, UnpinClear(r) PROVE PinInv'
    <2> SUFFICES ASSUME NEW q \in Readers
                 PROVE  /\ Pins(q)' => \E i \in Entries : registry'[at'[q]][i] = q
                        /\ Pins(q)' \/ (alive'[q] /\ pc'[q] = "unpinned") =>
                             gen'[at'[q]] = want'[q] /\ lo'[at'[q]] = want'[q] /\ hi'[at'[q]] = want'[q]
      BY DEF PinInv
    <2>1. /\ \A v \in Proc \ {r} : pc'[v] = pc[v]
          /\ pc[r] = "unpinHeld" /\ pc'[r] = "unpinned"
          /\ UNCHANGED <<alive, at, gen, lo, hi, want>>
      BY <1>24, <1>w DEF UnpinClear, Goto, TypeOK, data
    <2>2. CASE q = r
      BY <2>1, <2>2 DEF PinInv, Pins, PinPc
    <2>3. CASE q # r
      <3>1. pc'[q] = pc[q] /\ Pins(q)' = Pins(q) /\ at[q] \in Slots
        BY <1>w, <2>1, <2>3 DEF Pins, TypeOK
      <3>2. Pins(q) => \E i \in Entries : registry'[at[q]][i] = q
        BY <1>24, <2>3, <3>1, UnpinKeeps DEF PinInv
      <3> QED
        BY <2>1, <3>1, <3>2 DEF PinInv
    <2> QED
      BY <2>2, <2>3
  <1>25. ASSUME NEW r \in Readers, UnpinDone(r) PROVE PinInv'
    BY <1>25, <1>w DEF UnpinDone, Goto, TypeOK, data, PinInv, Pins, PinPc
  <1>26. ASSUME NEW r \in Readers, UnpinRelease(r) PROVE PinInv'
    BY <1>26, <1>w DEF UnpinRelease, Goto, TypeOK, header, data, PinInv, Pins, PinPc
  <1>27. ASSUME NEW p \in Proc, Condemn(p) PROVE PinInv'
    <2>1. UNCHANGED <<alive, registry, gen, lo, hi, at, want>>
      BY <1>27 DEF Condemn, header, data
    <2>2. /\ pc'[p] \notin PinPc \cup {"unpinned"}
          /\ \A q \in Proc \ {p} : pc'[q] = pc[q]
      BY <1>27 DEF Condemn, Goto, TypeOK, PinPc
    <2> QED
      BY <1>w, <2>1, <2>2 DEF PinInv, Pins
  <1>28. ASSUME NEW p \in Proc, Spare(p) PROVE PinInv'
    <2>1. /\ pc'[p] \notin PinPc \cup {"unpinned"}
          /\ \A v \in Proc \ {p} : pc'[v] = pc[v] /\ at'[v] = at[v]
          /\ UNCHANGED <<alive, registry, gen, lo, hi, want>>
      BY <1>28, GiveUpSlotType DEF Spare, header, data, PinPc
    <2> QED
      BY <1>28, <1>w, <2>1 DEF PinInv, Pins
  <1>29. ASSUME NEW p \in Proc, Quarantine(p) PROVE PinInv'
    BY <1>29, <1>w DEF Quarantine, Goto, TypeOK, data, PinInv, Pins, PinPc
  <1>33. ASSUME NEW p \in Proc, CountSlot(p) PROVE PinInv'
    BY <1>33, CountStill DEF PinInv, Pins
  <1>34. ASSUME NEW p \in Proc, Report(p) PROVE PinInv'
    <2>1. /\ pc'[p] \notin PinPc \cup {"unpinned"}
          /\ \A v \in Proc \ {p} : pc'[v] = pc[v] /\ at'[v] = at[v]
      BY <1>34, GiveUpSlotType, ReportStill DEF PinPc
    <2> QED
      BY <1>34, <1>w, <2>1, ReportStill DEF PinInv, Pins
  <1>30. ASSUME NEW p \in Proc, Crash(p) PROVE PinInv'
    BY <1>30, <1>w DEF Crash, TypeOK, header, data, PinInv, Pins, PinPc
  <1>31. CASE UNCHANGED vars
    BY <1>31 DEF vars, header, data,  PinInv, Pins, PinPc
  <1>32. CASE Next
    BY <1>32, NextCases, <1>0, <1>1, <1>2, <1>3, <1>4, <1>5, <1>6, <1>7, <1>8, <1>9, <1>10, <1>11, <1>12, <1>13, <1>14, <1>15, <1>16, <1>17, <1>18, <1>19, <1>20, <1>21, <1>22, <1>23, <1>24, <1>25, <1>26, <1>27, <1>28, <1>29, <1>30, <1>33, <1>34
  <1> QED
    BY <1>31, <1>32

(* Every step preserves WriterAlone.                                       *)
LEMMA AloneStep == TypeOK /\ LockInv /\ PinInv /\ WriterAlone /\ DataInv /\ [Next]_vars => WriterAlone'
  <1> SUFFICES ASSUME TypeOK, LockInv, PinInv, WriterAlone, DataInv, [Next]_vars PROVE WriterAlone'
    OBVIOUS
  <1>w. Writer \in Proc /\ Readers \subseteq Proc /\ \A r \in Readers : r # Writer
    BY RingAssumption DEF RingAssumption, Proc
  <1>0. ASSUME NEW p \in Proc, Suspect(p) PROVE WriterAlone'
    BY <1>0, <1>w DEF Suspect, Goto, TypeOK, header, WriterAlone, PinPc, WritePc
  <1>1. CASE WriteStart
    BY <1>1, <1>w DEF WriteStart, Goto, TypeOK, header, WriterAlone, PinPc, WritePc
  <1>2. CASE WritePeek
    BY <1>2, <1>w, SkipSlotType DEF WritePeek, TypeOK, header, WriterAlone, PinPc, WritePc
  <1>3. CASE WriteAcquire
    BY <1>3, <1>w DEF WriteAcquire, Goto, TypeOK, header, WriterAlone, PinPc, WritePc
  <1>4. CASE WriteTimeout
    BY <1>4, <1>w DEF WriteTimeout, Goto, TypeOK, header, WriterAlone, PinPc, WritePc
  <1>5. CASE WriteMark
    BY <1>5, <1>w, MarkAlone DEF WriteMark, Goto, TypeOK, WriterAlone, PinPc, WritePc
  <1>6. CASE WriteSkipBusy
    BY <1>6, <1>w, SkipSlotType DEF WriteSkipBusy, TypeOK, header, WriterAlone, PinPc, WritePc
  <1>7. CASE WriteCopyLo
    BY <1>7, <1>w DEF WriteCopyLo, Goto, TypeOK, header, WriterAlone, PinPc, WritePc
  <1>8. CASE WriteCopyHi
    BY <1>8, <1>w DEF WriteCopyHi, Goto, TypeOK, header, WriterAlone, PinPc, WritePc
  <1>9. CASE WriteCommitAcquire
    BY <1>9, <1>w DEF WriteCommitAcquire, Goto, TypeOK, header, WriterAlone, PinPc, WritePc
  <1>10. CASE WriteCommitTimeout
    BY <1>10, <1>w DEF WriteCommitTimeout, Goto, TypeOK, header, WriterAlone, PinPc, WritePc
  <1>11. CASE WriteCommit
    BY <1>11, <1>w DEF WriteCommit, Goto, TypeOK, WriterAlone, PinPc, WritePc
  <1>12. ASSUME NEW r \in Readers, ReadAny(r) PROVE WriterAlone'
    BY <1>12, <1>w DEF ReadAny, ReadStart, Goto, TypeOK, header, WriterAlone, PinPc, WritePc
  <1>13. ASSUME NEW r \in Readers, ReadPeek(r) PROVE WriterAlone'
    BY <1>13, <1>w DEF ReadPeek, TypeOK, header, WriterAlone, PinPc, WritePc
  <1>14. ASSUME NEW r \in Readers, ReadAcquire(r) PROVE WriterAlone'
    BY <1>14, <1>w DEF ReadAcquire, Goto, TypeOK, header, WriterAlone, PinPc, WritePc
  <1>15. ASSUME NEW r \in Readers, ReadTimeout(r) PROVE WriterAlone'
    BY <1>15, <1>w DEF ReadTimeout, Goto, TypeOK, header, WriterAlone, PinPc, WritePc
  <1>16. ASSUME NEW r \in Readers, ReadStale(r) PROVE WriterAlone'
    BY <1>16, <1>w DEF ReadStale, Goto, TypeOK, header, WriterAlone, PinPc, WritePc
  <1>17. ASSUME NEW r \in Readers, ReadPin(r) PROVE WriterAlone'
    <2>1. ~(pc[Writer] \in WritePc /\ at[Writer] = at[r])
      BY <1>17 DEF ReadPin, Readable, WriterAlone
    <2> QED
      BY <1>17, <1>w, <2>1 DEF ReadPin, Goto, TypeOK, WriterAlone, PinPc, WritePc
  <1>18. ASSUME NEW r \in Readers, ReadRegistryFull(r) PROVE WriterAlone'
    BY <1>18, <1>w DEF ReadRegistryFull, Goto, TypeOK, WriterAlone, PinPc, WritePc
  <1>19. ASSUME NEW r \in Readers, ReadPinned(r) PROVE WriterAlone'
    BY <1>19, <1>w DEF ReadPinned, Goto, TypeOK, WriterAlone, PinPc, WritePc
  <1>20. ASSUME NEW r \in Readers, ReadCopyLo(r) PROVE WriterAlone'
    BY <1>20, <1>w DEF ReadCopyLo, Goto, TypeOK, header, WriterAlone, PinPc, WritePc
  <1>21. ASSUME NEW r \in Readers, ReadCopyHi(r) PROVE WriterAlone'
    BY <1>21, <1>w DEF ReadCopyHi, Goto, TypeOK, header, WriterAlone, PinPc, WritePc
  <1>22. ASSUME NEW r \in Readers, UnpinAcquire(r) PROVE WriterAlone'
    BY <1>22, <1>w DEF UnpinAcquire, Goto, TypeOK, header, WriterAlone, PinPc, WritePc
  <1>23. ASSUME NEW r \in Readers, UnpinTimeout(r) PROVE WriterAlone'
    BY <1>23, <1>w DEF UnpinTimeout, Goto, TypeOK, header, WriterAlone, PinPc, WritePc
  <1>24. ASSUME NEW r \in Readers, UnpinClear(r) PROVE WriterAlone'
    BY <1>24, <1>w DEF UnpinClear, Goto, TypeOK, WriterAlone, PinPc, WritePc
  <1>25. ASSUME NEW r \in Readers, UnpinDone(r) PROVE WriterAlone'
    BY <1>25, <1>w DEF UnpinDone, Goto, TypeOK, WriterAlone, PinPc, WritePc
  <1>26. ASSUME NEW r \in Readers, UnpinRelease(r) PROVE WriterAlone'
    BY <1>26, <1>w DEF UnpinRelease, Goto, TypeOK, header, WriterAlone, PinPc, WritePc
  <1>27. ASSUME NEW p \in Proc, Condemn(p) PROVE WriterAlone'
    BY <1>27, <1>w DEF Condemn, Goto, TypeOK, header, WriterAlone, PinPc, WritePc
  <1>28. ASSUME NEW p \in Proc, Spare(p) PROVE WriterAlone'
    <2>1. /\ pc'[p] \in {"idle", "peek"}
          /\ \A q \in Proc \ {p} : pc'[q] = pc[q] /\ at'[q] = at[q]
      BY <1>28, GiveUpSlotType DEF Spare
    <2>2. /\ \A s \in Slots : state'[s] = state[s] \/ state'[s] = "QUARANTINED"
          /\ UNCHANGED <<gen, want, alive>>
      BY <1>28 DEF Spare, TypeOK, header
    <2>3. CASE p = Writer
      BY <2>1, <2>3 DEF WriterAlone, WritePc
    <2>4. CASE p # Writer
      <3>1. /\ pc'[Writer] = pc[Writer] /\ at'[Writer] = at[Writer] /\ at[Writer] \in Slots
            /\ pc'[p] \notin PinPc \cup {"unpinned"}
        BY <1>w, <2>1, <2>4 DEF TypeOK, PinPc
      <3> QED
        BY <1>w, <2>1, <2>2, <3>1 DEF WriterAlone
    <2> QED
      BY <2>3, <2>4
  <1>29. ASSUME NEW p \in Proc, Quarantine(p) PROVE WriterAlone'
    <2>1. /\ pc[p] = "doom" /\ pc'[p] = "counting" /\ at' = at
          /\ \A q \in Proc \ {p} : pc'[q] = pc[q]
          /\ \A s \in Slots : state'[s] = state[s] \/ state'[s] = "QUARANTINED"
          /\ UNCHANGED <<gen, want, alive>>
      BY <1>29 DEF Quarantine, Goto, TypeOK
    <2> QED
      BY <1>w, <2>1 DEF WriterAlone, WritePc, PinPc, TypeOK
  <1>33. ASSUME NEW p \in Proc, CountSlot(p) PROVE WriterAlone'
    BY <1>33, CountStill DEF WriterAlone
  <1>34. ASSUME NEW p \in Proc, Report(p) PROVE WriterAlone'
    <2>1. /\ pc'[p] \in {"idle", "peek"}
          /\ \A q \in Proc \ {p} : pc'[q] = pc[q] /\ at'[q] = at[q]
      BY <1>34, GiveUpSlotType, ReportStill
    <2>2. UNCHANGED <<state, gen, want, alive>>
      BY <1>34, ReportStill
    <2>3. CASE p = Writer
      BY <2>1, <2>3 DEF WriterAlone, WritePc
    <2>4. CASE p # Writer
      <3>1. /\ pc'[Writer] = pc[Writer] /\ at'[Writer] = at[Writer] /\ at[Writer] \in Slots
            /\ pc'[p] \notin PinPc \cup {"unpinned"}
        BY <1>w, <2>1, <2>4 DEF TypeOK, PinPc
      <3> QED
        BY <1>w, <2>1, <2>2, <3>1 DEF WriterAlone
    <2> QED
      BY <2>3, <2>4
  <1>30. ASSUME NEW p \in Proc, Crash(p) PROVE WriterAlone'
    BY <1>30, <1>w DEF Crash, TypeOK, header, WriterAlone, PinPc, WritePc
  <1>31. CASE UNCHANGED vars
    BY <1>31 DEF vars, header,  WriterAlone, PinPc, WritePc
  <1>32. CASE Next
    BY <1>32, NextCases, <1>0, <1>1, <1>2, <1>3, <1>4, <1>5, <1>6, <1>7, <1>8, <1>9, <1>10, <1>11, <1>12, <1>13, <1>14, <1>15, <1>16, <1>17, <1>18, <1>19, <1>20, <1>21, <1>22, <1>23, <1>24, <1>25, <1>26, <1>27, <1>28, <1>29, <1>30, <1>33, <1>34
  <1> QED
    BY <1>31, <1>32

(* Every step preserves DataInv.                                           *)
LEMMA DataStep == TypeOK /\ LockInv /\ PinInv /\ WriterAlone /\ DataInv /\ [Next]_vars => DataInv'
  <1> SUFFICES ASSUME TypeOK, LockInv, PinInv, WriterAlone, DataInv, [Next]_vars PROVE DataInv'
    OBVIOUS
  <1>w. Writer \in Proc /\ Readers \subseteq Proc /\ \A r \in Readers : r # Writer
    BY RingAssumption DEF RingAssumption, Proc
  <1>0. ASSUME NEW p \in Proc, Suspect(p) PROVE DataInv'
    BY <1>0, <1>w DEF Suspect, Goto, TypeOK, header, data, DataInv
  <1>1. CASE WriteStart
    BY <1>1, <1>w DEF WriteStart, Goto, TypeOK, header, data, DataInv
  <1>2. CASE WritePeek
    BY <1>2, <1>w, SkipSlotType DEF WritePeek, TypeOK, header, data, DataInv
  <1>3. CASE WriteAcquire
    BY <1>3, <1>w DEF WriteAcquire, Goto, TypeOK, header, data, DataInv
  <1>4. CASE WriteTimeout
    BY <1>4, <1>w DEF WriteTimeout, Goto, TypeOK, header, data, DataInv
  <1>5. CASE WriteMark
    BY <1>5, <1>w DEF WriteMark, Goto, TypeOK, data, DataInv
  <1>6. CASE WriteSkipBusy
    BY <1>6, <1>w, SkipSlotType DEF WriteSkipBusy, TypeOK, header, data, DataInv
  <1>7. CASE WriteCopyLo
    <2>1. state[at[Writer]] \in {"WRITING", "QUARANTINED"} /\ UNCHANGED <<state, gen, at, want, hi>>
      BY <1>7 DEF WriteCopyLo, Goto, WriterAlone, WritePc, header
    <2>2. /\ lo' = [lo EXCEPT ![at[Writer]] = want[Writer]] /\ at[Writer] \in Slots
          /\ pc'[Writer] = "copyHi"
      BY <1>7, <1>w DEF WriteCopyLo, Goto, TypeOK
    <2> QED
      BY <2>1, <2>2 DEF DataInv, TypeOK
  <1>8. CASE WriteCopyHi
    BY <1>8, <1>w DEF WriteCopyHi, Goto, TypeOK, header, DataInv
  <1>9. CASE WriteCommitAcquire
    BY <1>9, <1>w DEF WriteCommitAcquire, Goto, TypeOK, header, data, DataInv
  <1>10. CASE WriteCommitTimeout
    BY <1>10, <1>w DEF WriteCommitTimeout, Goto, TypeOK, header, data, DataInv
  <1>11. CASE WriteCommit
    BY <1>11, <1>w DEF WriteCommit, Goto, TypeOK, data, DataInv
  <1>12. ASSUME NEW r \in Readers, ReadAny(r) PROVE DataInv'
    BY <1>12, <1>w DEF ReadAny, ReadStart, Goto, TypeOK, header, data, DataInv
  <1>13. ASSUME NEW r \in Readers, ReadPeek(r) PROVE DataInv'
    BY <1>13, <1>w DEF ReadPeek, TypeOK, header, data, DataInv
  <1>14. ASSUME NEW r \in Readers, ReadAcquire(r) PROVE DataInv'
    BY <1>14, <1>w DEF ReadAcquire, Goto, TypeOK, header, data, DataInv
  <1>15. ASSUME NEW r \in Readers, ReadTimeout(r) PROVE DataInv'
    BY <1>15, <1>w DEF ReadTimeout, Goto, TypeOK, header, data, DataInv
  <1>16. ASSUME NEW r \in Readers, ReadStale(r) PROVE DataInv'
    BY <1>16, <1>w DEF ReadStale, Goto, TypeOK, header, data, DataInv
  <1>17. ASSUME NEW r \in Readers, ReadPin(r) PROVE DataInv'
    BY <1>17, <1>w DEF ReadPin, Goto, TypeOK, data, DataInv
  <1>18. ASSUME NEW r \in Readers, ReadRegistryFull(r) PROVE DataInv'
    BY <1>18, <1>w DEF ReadRegistryFull, Goto, TypeOK, data, DataInv
  <1>19. ASSUME NEW r \in Readers, ReadPinned(r) PROVE DataInv'
    <2>1. lo[at[r]] = gen[at[r]] /\ hi[at[r]] = gen[at[r]]
      BY <1>19 DEF ReadPinned, Goto, PinInv, Pins, PinPc
    <2> QED
      BY <1>19, <1>w, <2>1 DEF ReadPinned, Goto, TypeOK, data, DataInv
  <1>20. ASSUME NEW r \in Readers, ReadCopyLo(r) PROVE DataInv'
    BY <1>20, <1>w DEF ReadCopyLo, Goto, TypeOK, header, data, DataInv
  <1>21. ASSUME NEW r \in Readers, ReadCopyHi(r) PROVE DataInv'
    BY <1>21, <1>w DEF ReadCopyHi, Goto, TypeOK, header, data, DataInv
  <1>22. ASSUME NEW r \in Readers, UnpinAcquire(r) PROVE DataInv'
    BY <1>22, <1>w DEF UnpinAcquire, Goto, TypeOK, header, data, DataInv
  <1>23. ASSUME NEW r \in Readers, UnpinTimeout(r) PROVE DataInv'
    BY <1>23, <1>w DEF UnpinTimeout, Goto, TypeOK, header, data, DataInv
  <1>24. ASSUME NEW r \in Readers, UnpinClear(r) PROVE DataInv'
    BY <1>24, <1>w DEF UnpinClear, Goto, TypeOK, data, DataInv
  <1>25. ASSUME NEW r \in Readers, UnpinDone(r) PROVE DataInv'
    BY <1>25, <1>w DEF UnpinDone, Goto, TypeOK, data, DataInv
  <1>26. ASSUME NEW r \in Readers, UnpinRelease(r) PROVE DataInv'
    BY <1>26, <1>w DEF UnpinRelease, Goto, TypeOK, header, data, DataInv
  <1>27. ASSUME NEW p \in Proc, Condemn(p) PROVE DataInv'
    BY <1>27, <1>w DEF Condemn, Goto, TypeOK, header, data, DataInv
  <1>28. ASSUME NEW p \in Proc, Spare(p) PROVE DataInv'
    BY <1>28, <1>w, GiveUpSlotType DEF Spare, TypeOK, header, data, DataInv
  <1>29. ASSUME NEW p \in Proc, Quarantine(p) PROVE DataInv'
    BY <1>29, <1>w DEF Quarantine, Goto, TypeOK, data, DataInv
  <1>33. ASSUME NEW p \in Proc, CountSlot(p) PROVE DataInv'
    BY <1>33, CountStill DEF DataInv
  <1>34. ASSUME NEW p \in Proc, Report(p) PROVE DataInv'
    BY <1>34, <1>w, GiveUpSlotType, ReportStill DEF TypeOK, DataInv
  <1>30. ASSUME NEW p \in Proc, Crash(p) PROVE DataInv'
    BY <1>30, <1>w DEF Crash, TypeOK, header, data, DataInv
  <1>31. CASE UNCHANGED vars
    BY <1>31 DEF vars, header, data,  DataInv
  <1>32. CASE Next
    BY <1>32, NextCases, <1>0, <1>1, <1>2, <1>3, <1>4, <1>5, <1>6, <1>7, <1>8, <1>9, <1>10, <1>11, <1>12, <1>13, <1>14, <1>15, <1>16, <1>17, <1>18, <1>19, <1>20, <1>21, <1>22, <1>23, <1>24, <1>25, <1>26, <1>27, <1>28, <1>29, <1>30, <1>33, <1>34
  <1> QED
    BY <1>31, <1>32

(* Every step preserves CopyInv.                                           *)
LEMMA CopyStep == TypeOK /\ PinInv /\ CopyInv /\ [Next]_vars => CopyInv'
  <1> SUFFICES ASSUME TypeOK, PinInv, CopyInv, [Next]_vars PROVE CopyInv'
    OBVIOUS
  <1>w. Writer \in Proc /\ Readers \subseteq Proc /\ \A r \in Readers : r # Writer
    BY RingAssumption DEF RingAssumption, Proc
  <1>0. ASSUME NEW p \in Proc, Suspect(p) PROVE CopyInv'
    BY <1>0, <1>w DEF Suspect, Goto, TypeOK, CopyInv
  <1>1. CASE WriteStart
    BY <1>1, <1>w DEF WriteStart, Goto, TypeOK, CopyInv
  <1>2. CASE WritePeek
    BY <1>2, <1>w, SkipSlotType DEF WritePeek, TypeOK, CopyInv
  <1>3. CASE WriteAcquire
    BY <1>3, <1>w DEF WriteAcquire, Goto, TypeOK, CopyInv
  <1>4. CASE WriteTimeout
    BY <1>4, <1>w DEF WriteTimeout, Goto, TypeOK, CopyInv
  <1>5. CASE WriteMark
    BY <1>5, <1>w DEF WriteMark, Goto, TypeOK, CopyInv
  <1>6. CASE WriteSkipBusy
    BY <1>6, <1>w, SkipSlotType DEF WriteSkipBusy, TypeOK, CopyInv
  <1>7. CASE WriteCopyLo
    BY <1>7, <1>w DEF WriteCopyLo, Goto, TypeOK, CopyInv
  <1>8. CASE WriteCopyHi
    BY <1>8, <1>w DEF WriteCopyHi, Goto, TypeOK, CopyInv
  <1>9. CASE WriteCommitAcquire
    BY <1>9, <1>w DEF WriteCommitAcquire, Goto, TypeOK, CopyInv
  <1>10. CASE WriteCommitTimeout
    BY <1>10, <1>w DEF WriteCommitTimeout, Goto, TypeOK, CopyInv
  <1>11. CASE WriteCommit
    BY <1>11, <1>w DEF WriteCommit, Goto, TypeOK, CopyInv
  <1>12. ASSUME NEW r \in Readers, ReadAny(r) PROVE CopyInv'
    BY <1>12, <1>w DEF ReadAny, ReadStart, Goto, TypeOK, CopyInv
  <1>13. ASSUME NEW r \in Readers, ReadPeek(r) PROVE CopyInv'
    BY <1>13, <1>w DEF ReadPeek, TypeOK, CopyInv
  <1>14. ASSUME NEW r \in Readers, ReadAcquire(r) PROVE CopyInv'
    BY <1>14, <1>w DEF ReadAcquire, Goto, TypeOK, CopyInv
  <1>15. ASSUME NEW r \in Readers, ReadTimeout(r) PROVE CopyInv'
    BY <1>15, <1>w DEF ReadTimeout, Goto, TypeOK, CopyInv
  <1>16. ASSUME NEW r \in Readers, ReadStale(r) PROVE CopyInv'
    BY <1>16, <1>w DEF ReadStale, Goto, TypeOK, CopyInv
  <1>17. ASSUME NEW r \in Readers, ReadPin(r) PROVE CopyInv'
    BY <1>17, <1>w DEF ReadPin, Goto, TypeOK, CopyInv
  <1>18. ASSUME NEW r \in Readers, ReadRegistryFull(r) PROVE CopyInv'
    BY <1>18, <1>w DEF ReadRegistryFull, Goto, TypeOK, CopyInv
  <1>19. ASSUME NEW r \in Readers, ReadPinned(r) PROVE CopyInv'
    BY <1>19, <1>w DEF ReadPinned, Goto, TypeOK, CopyInv
  <1>20. ASSUME NEW r \in Readers, ReadCopyLo(r) PROVE CopyInv'
    <2>1. lo[at[r]] = want[r] /\ hi[at[r]] = want[r]
      BY <1>20 DEF ReadCopyLo, Goto, PinInv, Pins, PinPc
    <2>2. /\ copy'[r] = <<want[r], 0>>
          /\ \A q \in Readers \ {r} : copy'[q] = copy[q]
      BY <1>20, <2>1 DEF ReadCopyLo, TypeOK
    <2>3. /\ pc'[r] = "copyHi"
          /\ \A q \in Readers \ {r} : pc'[q] = pc[q]
          /\ UNCHANGED <<alive, want>>
      BY <1>20, <1>w DEF ReadCopyLo, Goto, TypeOK
    <2> QED
      BY <2>2, <2>3 DEF CopyInv
  <1>21. ASSUME NEW r \in Readers, ReadCopyHi(r) PROVE CopyInv'
    <2>1. lo[at[r]] = want[r] /\ hi[at[r]] = want[r]
      BY <1>21 DEF ReadCopyHi, Goto, PinInv, Pins, PinPc
    <2>2. /\ copy'[r] = <<want[r], want[r]>>
          /\ \A q \in Readers \ {r} : copy'[q] = copy[q]
      BY <1>21, <2>1 DEF ReadCopyHi, Goto, CopyInv, TypeOK
    <2>3. /\ pc'[r] = "unpin"
          /\ \A q \in Readers \ {r} : pc'[q] = pc[q]
          /\ UNCHANGED <<alive, want>>
      BY <1>21, <1>w DEF ReadCopyHi, Goto, TypeOK
    <2> QED
      BY <2>2, <2>3 DEF CopyInv
  <1>22. ASSUME NEW r \in Readers, UnpinAcquire(r) PROVE CopyInv'
    BY <1>22, <1>w DEF UnpinAcquire, Goto, TypeOK, CopyInv
  <1>23. ASSUME NEW r \in Readers, UnpinTimeout(r) PROVE CopyInv'
    BY <1>23, <1>w DEF UnpinTimeout, Goto, TypeOK, CopyInv
  <1>24. ASSUME NEW r \in Readers, UnpinClear(r) PROVE CopyInv'
    BY <1>24, <1>w DEF UnpinClear, Goto, TypeOK, CopyInv
  <1>25. ASSUME NEW r \in Readers, UnpinDone(r) PROVE CopyInv'
    BY <1>25, <1>w DEF UnpinDone, Goto, TypeOK, CopyInv
  <1>26. ASSUME NEW r \in Readers, UnpinRelease(r) PROVE CopyInv'
    BY <1>26, <1>w DEF UnpinRelease, Goto, TypeOK, CopyInv
  <1>27. ASSUME NEW p \in Proc, Condemn(p) PROVE CopyInv'
    BY <1>27, <1>w DEF Condemn, Goto, TypeOK, CopyInv
  <1>28. ASSUME NEW p \in Proc, Spare(p) PROVE CopyInv'
    <2>1. /\ pc'[p] \in {"idle", "peek"}
          /\ \A q \in Proc \ {p} : pc'[q] = pc[q]
      BY <1>28, GiveUpSlotType DEF Spare
    <2>2. UNCHANGED <<copy, want, alive>>
      BY <1>28 DEF Spare
    <2> QED
      BY <1>w, <2>1, <2>2 DEF CopyInv
  <1>29. ASSUME NEW p \in Proc, Quarantine(p) PROVE CopyInv'
    BY <1>29, <1>w DEF Quarantine, Goto, TypeOK, CopyInv
  <1>33. ASSUME NEW p \in Proc, CountSlot(p) PROVE CopyInv'
    BY <1>33, CountStill DEF CopyInv
  <1>34. ASSUME NEW p \in Proc, Report(p) PROVE CopyInv'
    <2>1. /\ pc'[p] \in {"idle", "peek"}
          /\ \A q \in Proc \ {p} : pc'[q] = pc[q]
      BY <1>34, GiveUpSlotType, ReportStill
    <2> QED
      BY <1>34, <1>w, <2>1, ReportStill DEF CopyInv
  <1>30. ASSUME NEW p \in Proc, Crash(p) PROVE CopyInv'
    BY <1>30, <1>w DEF Crash, TypeOK, CopyInv
  <1>31. CASE UNCHANGED vars
    BY <1>31 DEF vars,  CopyInv
  <1>32. CASE Next
    BY <1>32, NextCases, <1>0, <1>1, <1>2, <1>3, <1>4, <1>5, <1>6, <1>7, <1>8, <1>9, <1>10, <1>11, <1>12, <1>13, <1>14, <1>15, <1>16, <1>17, <1>18, <1>19, <1>20, <1>21, <1>22, <1>23, <1>24, <1>25, <1>26, <1>27, <1>28, <1>29, <1>30, <1>33, <1>34
  <1> QED
    BY <1>31, <1>32

(* Every step preserves HistoryInv.                                        *)
LEMMA HistoryStep == TypeOK /\ PinInv /\ HistoryInv /\ [Next]_vars => HistoryInv'
  <1> SUFFICES ASSUME TypeOK, PinInv, HistoryInv, [Next]_vars PROVE HistoryInv'
    OBVIOUS
  <1>w. Writer \in Proc /\ Readers \subseteq Proc /\ \A r \in Readers : r # Writer
    BY RingAssumption DEF RingAssumption, Proc
  <1>0. ASSUME NEW p \in Proc, Suspect(p) PROVE HistoryInv'
    BY <1>0, <1>w DEF Suspect, Goto, TypeOK, header, history, HistoryInv
  <1>1. CASE WriteStart
    BY <1>1, <1>w DEF WriteStart, Goto, TypeOK, header, history, HistoryInv
  <1>2. CASE WritePeek
    BY <1>2, <1>w, SkipSlotType DEF WritePeek, TypeOK, header, history, HistoryInv
  <1>3. CASE WriteAcquire
    BY <1>3, <1>w DEF WriteAcquire, Goto, TypeOK, header, history, HistoryInv
  <1>4. CASE WriteTimeout
    BY <1>4, <1>w DEF WriteTimeout, Goto, TypeOK, header, history, HistoryInv
  <1>5. CASE WriteMark
    BY <1>5, <1>w DEF WriteMark, Goto, TypeOK, history, HistoryInv
  <1>6. CASE WriteSkipBusy
    BY <1>6, <1>w, SkipSlotType DEF WriteSkipBusy, TypeOK, header, history, HistoryInv
  <1>7. CASE WriteCopyLo
    BY <1>7, <1>w DEF WriteCopyLo, Goto, TypeOK, header, history, HistoryInv
  <1>8. CASE WriteCopyHi
    BY <1>8, <1>w DEF WriteCopyHi, Goto, TypeOK, header, history, HistoryInv
  <1>9. CASE WriteCommitAcquire
    BY <1>9, <1>w DEF WriteCommitAcquire, Goto, TypeOK, header, history, HistoryInv
  <1>10. CASE WriteCommitTimeout
    BY <1>10, <1>w DEF WriteCommitTimeout, Goto, TypeOK, header, history, HistoryInv
  <1>11. CASE WriteCommit
    BY <1>11, <1>w DEF WriteCommit, Goto, TypeOK, HistoryInv
  <1>12. ASSUME NEW r \in Readers, ReadAny(r) PROVE HistoryInv'
    BY <1>12, <1>w DEF ReadAny, ReadStart, Goto, TypeOK, header, history, HistoryInv
  <1>13. ASSUME NEW r \in Readers, ReadPeek(r) PROVE HistoryInv'
    BY <1>13, <1>w DEF ReadPeek, TypeOK, header, history, HistoryInv
  <1>14. ASSUME NEW r \in Readers, ReadAcquire(r) PROVE HistoryInv'
    BY <1>14, <1>w DEF ReadAcquire, Goto, TypeOK, header, history, HistoryInv
  <1>15. ASSUME NEW r \in Readers, ReadTimeout(r) PROVE HistoryInv'
    BY <1>15, <1>w DEF ReadTimeout, Goto, TypeOK, header, history, HistoryInv
  <1>16. ASSUME NEW r \in Readers, ReadStale(r) PROVE HistoryInv'
    BY <1>16, <1>w DEF ReadStale, Goto, TypeOK, header, history, HistoryInv
  <1>17. ASSUME NEW r \in Readers, ReadPin(r) PROVE HistoryInv'
    BY <1>17, <1>w DEF ReadPin, Goto, TypeOK, history, HistoryInv
  <1>18. ASSUME NEW r \in Readers, ReadRegistryFull(r) PROVE HistoryInv'
    BY <1>18, <1>w DEF ReadRegistryFull, Goto, TypeOK, history, HistoryInv
  <1>19. ASSUME NEW r \in Readers, ReadPinned(r) PROVE HistoryInv'
    BY <1>19, <1>w DEF ReadPinned, Goto, TypeOK, HistoryInv
  <1>20. ASSUME NEW r \in Readers, ReadCopyLo(r) PROVE HistoryInv'
    BY <1>20, <1>w DEF ReadCopyLo, Goto, TypeOK, header, history, HistoryInv
  <1>21. ASSUME NEW r \in Readers, ReadCopyHi(r) PROVE HistoryInv'
    BY <1>21, <1>w DEF ReadCopyHi, Goto, TypeOK, header, history, HistoryInv
  <1>22. ASSUME NEW r \in Readers, UnpinAcquire(r) PROVE HistoryInv'
    BY <1>22, <1>w DEF UnpinAcquire, Goto, TypeOK, header, history, HistoryInv
  <1>23. ASSUME NEW r \in Readers, UnpinTimeout(r) PROVE HistoryInv'
    BY <1>23, <1>w DEF UnpinTimeout, Goto, TypeOK, header, history, HistoryInv
  <1>24. ASSUME NEW r \in Readers, UnpinClear(r) PROVE HistoryInv'
    BY <1>24, <1>w DEF UnpinClear, Goto, TypeOK, history, HistoryInv
  <1>25. ASSUME NEW r \in Readers, UnpinDone(r) PROVE HistoryInv'
    <2>1. gen[at[r]] = want[r] /\ <<at[r], want[r]>> \in pinned
      BY <1>25 DEF UnpinDone, Goto, PinInv, HistoryInv
    <2> QED
      BY <1>25, <1>w, <2>1 DEF UnpinDone, Goto, TypeOK, history, HistoryInv
  <1>26. ASSUME NEW r \in Readers, UnpinRelease(r) PROVE HistoryInv'
    BY <1>26, <1>w DEF UnpinRelease, Goto, TypeOK, header, history, HistoryInv
  <1>27. ASSUME NEW p \in Proc, Condemn(p) PROVE HistoryInv'
    BY <1>27, <1>w DEF Condemn, Goto, TypeOK, header, history, HistoryInv
  <1>28. ASSUME NEW p \in Proc, Spare(p) PROVE HistoryInv'
    BY <1>28, <1>w, GiveUpSlotType DEF Spare, TypeOK, header, history, HistoryInv
  <1>29. ASSUME NEW p \in Proc, Quarantine(p) PROVE HistoryInv'
    BY <1>29, <1>w DEF Quarantine, Goto, TypeOK, HistoryInv
  <1>33. ASSUME NEW p \in Proc, CountSlot(p) PROVE HistoryInv'
    BY <1>33, CountStill DEF HistoryInv
  <1>34. ASSUME NEW p \in Proc, Report(p) PROVE HistoryInv'
    BY <1>34, <1>w, GiveUpSlotType, ReportStill DEF TypeOK, HistoryInv
  <1>30. ASSUME NEW p \in Proc, Crash(p) PROVE HistoryInv'
    BY <1>30, <1>w DEF Crash, TypeOK, header, history, HistoryInv
  <1>31. CASE UNCHANGED vars
    BY <1>31 DEF vars, header, history,  HistoryInv
  <1>32. CASE Next
    BY <1>32, NextCases, <1>0, <1>1, <1>2, <1>3, <1>4, <1>5, <1>6, <1>7, <1>8, <1>9, <1>10, <1>11, <1>12, <1>13, <1>14, <1>15, <1>16, <1>17, <1>18, <1>19, <1>20, <1>21, <1>22, <1>23, <1>24, <1>25, <1>26, <1>27, <1>28, <1>29, <1>30, <1>33, <1>34
  <1> QED
    BY <1>31, <1>32

(* Every step preserves NoSilentOverwrite.                                 *)
LEMMA SilentStep == TypeOK /\ WriterAlone /\ HistoryInv /\ NoSilentOverwrite /\ [Next]_vars => NoSilentOverwrite'
  <1> SUFFICES ASSUME TypeOK, WriterAlone, HistoryInv, NoSilentOverwrite, [Next]_vars PROVE NoSilentOverwrite'
    OBVIOUS
  <1>w. Writer \in Proc /\ Readers \subseteq Proc /\ \A r \in Readers : r # Writer
    BY RingAssumption DEF RingAssumption, Proc
  <1>0. ASSUME NEW p \in Proc, Suspect(p) PROVE NoSilentOverwrite'
    BY <1>0, <1>w DEF Suspect, Goto, TypeOK, header, history, NoSilentOverwrite
  <1>1. CASE WriteStart
    BY <1>1, <1>w DEF WriteStart, Goto, TypeOK, header, history, NoSilentOverwrite
  <1>2. CASE WritePeek
    BY <1>2, <1>w, SkipSlotType DEF WritePeek, TypeOK, header, history, NoSilentOverwrite
  <1>3. CASE WriteAcquire
    BY <1>3, <1>w DEF WriteAcquire, Goto, TypeOK, header, history, NoSilentOverwrite
  <1>4. CASE WriteTimeout
    BY <1>4, <1>w DEF WriteTimeout, Goto, TypeOK, header, history, NoSilentOverwrite
  <1>5. CASE WriteMark
    <2>1. UNCHANGED <<refs, pinned>> /\ at[Writer] \in Slots
          /\ gen' = [gen EXCEPT ![at[Writer]] = nextGen]
          /\ state[at[Writer]] \in {"FREE", "DONE"}
      BY <1>5, <1>w DEF WriteMark, Available, history, TypeOK
    <2> SUFFICES ASSUME NEW ref \in refs, gen'[ref[1]] # ref[2] PROVE ref \in pinned
      BY <2>1 DEF NoSilentOverwrite
    <2>2. ref \in Slots \X Nat /\ ref = <<ref[1], ref[2]>>
      BY DEF TypeOK
    <2>3. CASE gen[ref[1]] # ref[2]
      BY <2>3 DEF NoSilentOverwrite
    <2>4. CASE gen[ref[1]] = ref[2]
      <3>1. ref[1] = at[Writer]
        BY <2>1, <2>2, <2>4 DEF TypeOK
      <3>2. ref = <<at[Writer], gen[at[Writer]]>>
        BY <2>2, <2>4, <3>1
      <3> QED
        BY <2>1, <3>2 DEF HistoryInv
    <2> QED
      BY <2>3, <2>4
  <1>6. CASE WriteSkipBusy
    BY <1>6, <1>w, SkipSlotType DEF WriteSkipBusy, TypeOK, header, history, NoSilentOverwrite
  <1>7. CASE WriteCopyLo
    BY <1>7, <1>w DEF WriteCopyLo, Goto, TypeOK, header, history, NoSilentOverwrite
  <1>8. CASE WriteCopyHi
    BY <1>8, <1>w DEF WriteCopyHi, Goto, TypeOK, header, history, NoSilentOverwrite
  <1>9. CASE WriteCommitAcquire
    BY <1>9, <1>w DEF WriteCommitAcquire, Goto, TypeOK, header, history, NoSilentOverwrite
  <1>10. CASE WriteCommitTimeout
    BY <1>10, <1>w DEF WriteCommitTimeout, Goto, TypeOK, header, history, NoSilentOverwrite
  <1>11. CASE WriteCommit
    <2>1. gen[at[Writer]] = want[Writer] /\ at[Writer] \in Slots
      BY <1>11, <1>w DEF WriteCommit, Goto, WriterAlone, WritePc, TypeOK
    <2>2. gen' = gen
      BY <1>11, <2>1 DEF WriteCommit, TypeOK
    <2>3. refs' = refs \cup {<<at[Writer], want[Writer]>>} /\ pinned' = pinned
      BY <1>11 DEF WriteCommit
    <2> QED
      BY <2>1, <2>2, <2>3 DEF NoSilentOverwrite
  <1>12. ASSUME NEW r \in Readers, ReadAny(r) PROVE NoSilentOverwrite'
    BY <1>12, <1>w DEF ReadAny, ReadStart, Goto, TypeOK, header, history, NoSilentOverwrite
  <1>13. ASSUME NEW r \in Readers, ReadPeek(r) PROVE NoSilentOverwrite'
    BY <1>13, <1>w DEF ReadPeek, TypeOK, header, history, NoSilentOverwrite
  <1>14. ASSUME NEW r \in Readers, ReadAcquire(r) PROVE NoSilentOverwrite'
    BY <1>14, <1>w DEF ReadAcquire, Goto, TypeOK, header, history, NoSilentOverwrite
  <1>15. ASSUME NEW r \in Readers, ReadTimeout(r) PROVE NoSilentOverwrite'
    BY <1>15, <1>w DEF ReadTimeout, Goto, TypeOK, header, history, NoSilentOverwrite
  <1>16. ASSUME NEW r \in Readers, ReadStale(r) PROVE NoSilentOverwrite'
    BY <1>16, <1>w DEF ReadStale, Goto, TypeOK, header, history, NoSilentOverwrite
  <1>17. ASSUME NEW r \in Readers, ReadPin(r) PROVE NoSilentOverwrite'
    BY <1>17, <1>w DEF ReadPin, Goto, TypeOK, history, NoSilentOverwrite
  <1>18. ASSUME NEW r \in Readers, ReadRegistryFull(r) PROVE NoSilentOverwrite'
    BY <1>18, <1>w DEF ReadRegistryFull, Goto, TypeOK, history, NoSilentOverwrite
  <1>19. ASSUME NEW r \in Readers, ReadPinned(r) PROVE NoSilentOverwrite'
    BY <1>19, <1>w DEF ReadPinned, Goto, TypeOK, NoSilentOverwrite
  <1>20. ASSUME NEW r \in Readers, ReadCopyLo(r) PROVE NoSilentOverwrite'
    BY <1>20, <1>w DEF ReadCopyLo, Goto, TypeOK, header, history, NoSilentOverwrite
  <1>21. ASSUME NEW r \in Readers, ReadCopyHi(r) PROVE NoSilentOverwrite'
    BY <1>21, <1>w DEF ReadCopyHi, Goto, TypeOK, header, history, NoSilentOverwrite
  <1>22. ASSUME NEW r \in Readers, UnpinAcquire(r) PROVE NoSilentOverwrite'
    BY <1>22, <1>w DEF UnpinAcquire, Goto, TypeOK, header, history, NoSilentOverwrite
  <1>23. ASSUME NEW r \in Readers, UnpinTimeout(r) PROVE NoSilentOverwrite'
    BY <1>23, <1>w DEF UnpinTimeout, Goto, TypeOK, header, history, NoSilentOverwrite
  <1>24. ASSUME NEW r \in Readers, UnpinClear(r) PROVE NoSilentOverwrite'
    BY <1>24, <1>w DEF UnpinClear, Goto, TypeOK, history, NoSilentOverwrite
  <1>25. ASSUME NEW r \in Readers, UnpinDone(r) PROVE NoSilentOverwrite'
    BY <1>25, <1>w DEF UnpinDone, Goto, TypeOK, history, NoSilentOverwrite
  <1>26. ASSUME NEW r \in Readers, UnpinRelease(r) PROVE NoSilentOverwrite'
    BY <1>26, <1>w DEF UnpinRelease, Goto, TypeOK, header, history, NoSilentOverwrite
  <1>27. ASSUME NEW p \in Proc, Condemn(p) PROVE NoSilentOverwrite'
    BY <1>27, <1>w DEF Condemn, Goto, TypeOK, header, history, NoSilentOverwrite
  <1>28. ASSUME NEW p \in Proc, Spare(p) PROVE NoSilentOverwrite'
    BY <1>28, <1>w, GiveUpSlotType DEF Spare, TypeOK, header, history, NoSilentOverwrite
  <1>29. ASSUME NEW p \in Proc, Quarantine(p) PROVE NoSilentOverwrite'
    BY <1>29, <1>w DEF Quarantine, Goto, TypeOK, NoSilentOverwrite
  <1>33. ASSUME NEW p \in Proc, CountSlot(p) PROVE NoSilentOverwrite'
    BY <1>33, CountStill DEF NoSilentOverwrite
  <1>34. ASSUME NEW p \in Proc, Report(p) PROVE NoSilentOverwrite'
    BY <1>34, <1>w, GiveUpSlotType, ReportStill DEF TypeOK, NoSilentOverwrite
  <1>30. ASSUME NEW p \in Proc, Crash(p) PROVE NoSilentOverwrite'
    BY <1>30, <1>w DEF Crash, TypeOK, header, history, NoSilentOverwrite
  <1>31. CASE UNCHANGED vars
    BY <1>31 DEF vars, header, history,  NoSilentOverwrite
  <1>32. CASE Next
    BY <1>32, NextCases, <1>0, <1>1, <1>2, <1>3, <1>4, <1>5, <1>6, <1>7, <1>8, <1>9, <1>10, <1>11, <1>12, <1>13, <1>14, <1>15, <1>16, <1>17, <1>18, <1>19, <1>20, <1>21, <1>22, <1>23, <1>24, <1>25, <1>26, <1>27, <1>28, <1>29, <1>30, <1>33, <1>34
  <1> QED
    BY <1>31, <1>32

(* IInv holds initially.                                                   *)
LEMMA IInvInit == Init => IInv
  <1> SUFFICES ASSUME Init PROVE IInv
    OBVIOUS
  <1>1. TypeOK
    BY TypeInit
  <1>2. \A p \in Proc : pc[p] = "idle"
    BY DEF Init
  <1>3. pc[Writer] = "idle" /\ \A r \in Readers : pc[r] = "idle"
    BY <1>2 DEF Proc
  <1>4. LockInv /\ PinInv /\ WriterAlone /\ CopyInv
    BY <1>2, <1>3 DEF LockInv, LockPc, PinInv, Pins, PinPc, WriterAlone, WritePc, CopyInv
  <1>5. DataInv /\ HistoryInv /\ NoSilentOverwrite
    BY <1>3 DEF Init, DataInv, HistoryInv, NoSilentOverwrite
  <1> QED
    BY <1>1, <1>4, <1>5 DEF IInv

(* IInv is inductive.                                                      *)
LEMMA IInvStep == IInv /\ [Next]_vars => IInv'
  BY TypeStep, LockStep, PinStep, AloneStep, DataStep, CopyStep, HistoryStep, SilentStep DEF IInv

(* The strengthened invariant holds in every reachable state.              *)
THEOREM Inductive == Spec => []IInv
  BY IInvInit, IInvStep, PTL DEF Spec

(* Every variable keeps its type.                                          *)
THEOREM TypeCorrect == Spec => []TypeOK
  <1>1. IInv => TypeOK
    BY DEF IInv
  <1> QED
    BY <1>1, Inductive, PTL

(* No frame that read() returns is torn or of another generation than the  *)
(* ref it was asked for: the copies need no lock.                          *)
THEOREM FramesWhole == Spec => []NoTornFrame
  <1>1. IInv => NoTornFrame
    BY DEF IInv, CopyInv, NoTornFrame
  <1> QED
    BY <1>1, Inductive, PTL

(* The writer and a live reader never copy the same slot at once, whoever  *)
(* crashes, times out, reaps or quarantines.                               *)
THEOREM CopiesExclude == Spec => []CopyExclusion
  <1>1. IInv => CopyExclusion
    BY DEF IInv, WriterAlone, WritePc, PinPc, CopyExclusion, WriterCopying, ReaderCopying
  <1> QED
    BY <1>1, Inductive, PTL

(* Reaping never takes the entry of a live reader that is still copying.   *)
THEOREM PinsKept == Spec => []LivePinKept
  <1>1. IInv => LivePinKept
    BY DEF IInv, PinInv, Pins, PinPc, LivePinKept, ReaderCopying
  <1> QED
    BY <1>1, Inductive, PTL

(* No frame is overwritten before a reader has pinned it.                  *)
THEOREM NoFrameDropped == Spec => []NoSilentOverwrite
  <1>1. IInv => NoSilentOverwrite
    BY DEF IInv
  <1> QED
    BY <1>1, Inductive, PTL

(* Half of the slots, rounded up, is a slot at least.                      *)
LEMMA ThresholdPositive == RebuildThreshold \in Nat /\ RebuildThreshold >= 1
  <1>1. NSlots \in Nat /\ NSlots >= 1
    BY RingAssumption DEF RingAssumption
  <1> QED
    BY <1>1, SMTT(30) DEF RebuildThreshold

(* The slots of a set below an index: what a count has looked at.          *)
Below(Q, n) == {s \in Q : s < n}

LEMMA SlotsFinite == IsFiniteSet(Slots)
  BY FS_Interval, RingAssumption DEF RingAssumption, Slots

(* Fewer slots, fewer below any index.                                     *)
LEMMA BelowShrinks ==
  ASSUME NEW Q \in SUBSET Slots, NEW R \in SUBSET Q, NEW n
  PROVE  /\ Cardinality(Below(R, n)) \in Nat /\ Cardinality(Below(Q, n)) \in Nat
         /\ Cardinality(Below(R, n)) <= Cardinality(Below(Q, n))
         /\ Cardinality(R) \in Nat /\ Cardinality(Q) \in Nat
         /\ Cardinality(R) <= Cardinality(Q)
  <1>1. IsFiniteSet(Q)
    BY SlotsFinite, FS_Subset
  <1>2. Below(R, n) \subseteq Below(Q, n) /\ Below(Q, n) \subseteq Q
    BY DEF Below
  <1>3. IsFiniteSet(Below(Q, n))
    BY <1>1, <1>2, FS_Subset
  <1>4. IsFiniteSet(Below(R, n)) /\ Cardinality(Below(R, n)) <= Cardinality(Below(Q, n))
    BY <1>2, <1>3, FS_Subset
  <1>5. IsFiniteSet(R) /\ Cardinality(R) <= Cardinality(Q)
    BY <1>1, FS_Subset
  <1> QED
    BY <1>1, <1>3, <1>4, <1>5, FS_CardinalityType

(* The next slot is one more, if it is in the set.                         *)
LEMMA BelowNext ==
  ASSUME NEW Q \in SUBSET Slots, NEW n \in Slots
  PROVE  /\ n \in Q => Cardinality(Below(Q, n + 1)) = Cardinality(Below(Q, n)) + 1
         /\ n \notin Q => Cardinality(Below(Q, n + 1)) = Cardinality(Below(Q, n))
  <1>1. n \in Int /\ \A x \in Q : x \in Int
    BY DEF Slots
  <1>4. \A x \in Q : x < n + 1 <=> x < n \/ x = n
    BY <1>1
  <1>5. ~(n < n)
    BY <1>1
  <1>2. CASE n \in Q
    <2>1. Below(Q, n + 1) = Below(Q, n) \cup {n} /\ n \notin Below(Q, n)
      BY <1>2, <1>4, <1>5, Zenon DEF Below
    <2>2. IsFiniteSet(Below(Q, n))
      BY SlotsFinite, FS_Subset DEF Below
    <2> QED
      BY <1>2, <2>1, <2>2, FS_AddElement
  <1>3. CASE n \notin Q
    <2>1. Below(Q, n + 1) = Below(Q, n)
      BY <1>3, <1>4, Zenon DEF Below
    <2> QED
      BY <1>3, <2>1
  <1> QED
    BY <1>2, <1>3

(* Below 0 there is no slot, and below NSlots there are all.               *)
LEMMA BelowEnds ==
  ASSUME NEW Q \in SUBSET Slots
  PROVE  Cardinality(Below(Q, 0)) = 0 /\ Below(Q, NSlots) = Q
  <1>1. \A x \in Q : ~(x < 0) /\ x < NSlots
    BY RingAssumption DEF RingAssumption, Slots
  <1>2. Below(Q, 0) = {} /\ Below(Q, NSlots) = Q
    BY <1>1, Zenon DEF Below
  <1> QED
    BY <1>2, FS_EmptySet

(* No step but Quarantine adds to the quarantined slots, and none but the  *)
(* counting itself touches a count or takes a process out of it.           *)
LEMMA QuarantinedShrinks ==
  ASSUME TypeOK, [Next]_vars, \A p \in Proc : ~Quarantine(p) /\ ~CountSlot(p) /\ ~Report(p)
  PROVE  /\ Quarantined' \subseteq Quarantined /\ rebuild' = rebuild /\ tally' = tally
         /\ \A p \in Proc : pc[p] = "counting" => pc'[p] = "counting"
  <1> DEFINE Less == \A s \in Slots : state'[s] = "QUARANTINED" => state[s] = "QUARANTINED"
             Still == /\ rebuild' = rebuild /\ tally' = tally
                      /\ \A p \in Proc : pc[p] = "counting" => pc'[p] = "counting"
  <1> SUFFICES Less /\ Still
    BY DEF Quarantined
  <1> USE DEF header, data, writerVars, history, recovery
  <1>w. Writer \in Proc /\ Readers \subseteq Proc /\ \A r \in Readers : r # Writer
    BY RingAssumption DEF RingAssumption, Proc
  <1>s. SkipSlot /\ pc[Writer] # "counting" =>
          \A p \in Proc : pc[p] = "counting" => pc'[p] = "counting"
    BY SkipSlotType DEF Proc
  <1>1. CASE WriteMark \/ WriteCommit
    <2>1. Less
      BY <1>1, <1>w DEF WriteMark, WriteCommit, TypeOK
    <2>2. Still
      BY <1>1, <1>w DEF WriteMark, WriteCommit, Goto, TypeOK
    <2> QED
      BY <2>1, <2>2
  <1>2. ASSUME NEW r \in Readers, ReadPinned(r) \/ UnpinDone(r)
        PROVE  Less /\ Still
    <2>1. Less
      BY <1>2, <1>w DEF ReadPinned, UnpinDone, TypeOK
    <2>2. Still
      BY <1>2, <1>w DEF ReadPinned, UnpinDone, Goto, TypeOK
    <2> QED
      BY <2>1, <2>2
  <1>3. CASE \/ WriteStart \/ WriteAcquire \/ WriteTimeout
             \/ WriteCopyLo \/ WriteCopyHi \/ WriteCommitAcquire \/ WriteCommitTimeout
    <2>1. state' = state /\ Still
      BY <1>3, <1>w DEF WriteStart, WriteAcquire, WriteTimeout, WriteCopyLo,
         WriteCopyHi, WriteCommitAcquire, WriteCommitTimeout, Goto, TypeOK
    <2> QED
      BY <2>1
  <1>7. CASE WritePeek \/ WriteSkipBusy
    <2>1. /\ state' = state /\ rebuild' = rebuild /\ tally' = tally
          /\ pc[Writer] # "counting"
          /\ SkipSlot \/ pc' = [pc EXCEPT ![Writer] = "acquire"]
      BY <1>7 DEF WritePeek, WriteSkipBusy
    <2> QED
      BY <1>s, <1>w, <2>1 DEF TypeOK
  <1>4. ASSUME NEW r \in Readers,
               \/ ReadAny(r) \/ ReadPeek(r) \/ ReadAcquire(r) \/ ReadTimeout(r) \/ ReadStale(r)
               \/ ReadPin(r) \/ ReadRegistryFull(r)
        PROVE  state' = state /\ Still
    BY <1>4, <1>w DEF ReadAny, ReadStart, ReadPeek, ReadAcquire, ReadTimeout, ReadStale, ReadPin,
       ReadRegistryFull, Goto, TypeOK
  <1>8. ASSUME NEW r \in Readers,
               \/ ReadCopyLo(r) \/ ReadCopyHi(r)
               \/ UnpinAcquire(r) \/ UnpinTimeout(r) \/ UnpinClear(r) \/ UnpinRelease(r)
        PROVE  state' = state /\ Still
    BY <1>8, <1>w DEF ReadCopyLo, ReadCopyHi, UnpinAcquire, UnpinTimeout, UnpinClear,
       UnpinRelease, Goto, TypeOK
  <1>5. ASSUME NEW p \in Proc, Suspect(p) \/ Condemn(p) \/ Crash(p)
        PROVE  state' = state /\ Still
    BY <1>5 DEF Suspect, Condemn, Crash, Goto, TypeOK
  <1>9. ASSUME NEW p \in Proc, Spare(p)
        PROVE  state' = state /\ Still
    <2>1. /\ state' = state /\ rebuild' = rebuild /\ tally' = tally
          /\ pc[p] # "counting" /\ GiveUpSlot(p)
      BY <1>9 DEF Spare
    <2>2. \A q \in Proc \ {p} : pc'[q] = pc[q]
      BY <2>1, GiveUpSlotType
    <2> QED
      BY <2>1, <2>2
  <1>6. CASE UNCHANGED vars
    BY <1>6 DEF vars
  <1> HIDE DEF Less, Still
  <1>10. state' = state => Less
    BY DEF Less
  <1> QED
    BY <1>1, <1>2, <1>3, <1>4, <1>5, <1>6, <1>7, <1>8, <1>9, <1>10, NextCases

(* As long as a ring is degraded, it has asked for a rebuild or a process  *)
(* that counts has missed none of its quarantined slots: the process that  *)
(* stored the last of them starts from the first slot, a store by a lock   *)
(* holder over QUARANTINED only makes a count too high, and a count that   *)
(* ends asks.  The request is lost only if every such process dies before. *)
THEOREM DegradedRingAsks == Spec => []DegradedRingAsksRebuild
  <1>q. Quarantined \in SUBSET Slots /\ Quarantined' \in SUBSET Slots
    BY DEF Quarantined
  <1>c. \A p \in Proc : CountsAll(p) <=>
          pc[p] = "counting" /\ Cardinality(Below(Quarantined, tally[p].next)) <= tally[p].found
    BY DEF CountsAll, Below
  <1>d. \A p \in Proc : CountsAll(p)' <=>
          pc'[p] = "counting" /\ Cardinality(Below(Quarantined', tally'[p].next)) <= tally'[p].found
    BY DEF CountsAll, Below
  <1>1. Init => DegradedRingAsksRebuild
    <2> SUFFICES ASSUME Init
                 PROVE  DegradedRingAsksRebuild
      OBVIOUS
    <2>1. Quarantined = {}
      BY DEF Init, Quarantined
    <2>2. Cardinality(Quarantined) = 0
      BY <2>1, FS_EmptySet
    <2> QED
      BY <2>2, ThresholdPositive DEF DegradedRingAsksRebuild, Degraded
  <1>2. TypeOK /\ DegradedRingAsksRebuild /\ [Next]_vars => DegradedRingAsksRebuild'
    <2> SUFFICES ASSUME TypeOK, DegradedRingAsksRebuild, [Next]_vars,
                        (Cardinality(Quarantined) >= RebuildThreshold)'
                 PROVE  rebuild' \/ \E q \in Proc : CountsAll(q)'
      BY DEF DegradedRingAsksRebuild, Degraded
    <2>1. CASE \E p \in Proc : Quarantine(p)
      <3>1. PICK p \in Proc : Quarantine(p)
        BY <2>1
      <3>2. pc'[p] = "counting" /\ tally'[p].next = 0 /\ tally'[p].found = 0
        BY <3>1 DEF Quarantine, Goto, TypeOK, NoTally
      <3> QED
        BY <1>d, <1>q, <3>2, BelowEnds
    <2>3. ASSUME NEW p \in Proc, CountSlot(p)
          PROVE  rebuild' \/ \E q \in Proc : CountsAll(q)'
      <3>1. /\ Quarantined' = Quarantined /\ rebuild' = rebuild /\ pc' = pc
            /\ \A q \in Proc \ {p} : tally'[q] = tally[q]
        BY <2>3, CountStill DEF Quarantined, CountSlot, TypeOK
      <3>2. rebuild \/ \E q \in Proc : CountsAll(q)
        BY <3>1 DEF DegradedRingAsksRebuild, Degraded
      <3>3. ASSUME NEW q \in Proc \ {p}, CountsAll(q)
            PROVE  CountsAll(q)'
        BY <1>c, <1>d, <3>1, <3>3
      <3>4. ASSUME CountsAll(p)
            PROVE  CountsAll(p)'
        <4>1. PICK n \in Slots : n = tally[p].next
          BY <2>3, RingAssumption DEF CountSlot, TypeOK, Slots, RingAssumption
        <4>2. PICK f \in Nat : f = tally[p].found
          BY DEF TypeOK
        <4>3. /\ tally'[p].next = n + 1
              /\ tally'[p].found = IF n \in Quarantined THEN f + 1 ELSE f
          BY <2>3, <4>1, <4>2 DEF CountSlot, TypeOK, Quarantined
        <4>4. PICK c \in Nat : c = Cardinality(Below(Quarantined, n))
          BY <1>q, BelowShrinks
        <4>5. pc[p] = "counting" /\ c <= f
          BY <1>c, <3>4, <4>1, <4>2, <4>4
        <4>6. Cardinality(Below(Quarantined, n + 1)) <= tally'[p].found
          BY <1>q, <4>1, <4>3, <4>4, <4>5, BelowNext
        <4> QED
          BY <1>d, <3>1, <4>3, <4>5, <4>6
      <3> QED
        BY <3>1, <3>2, <3>3, <3>4
    <2>4. ASSUME NEW p \in Proc, Report(p)
          PROVE  rebuild' \/ \E q \in Proc : CountsAll(q)'
      <3>1. /\ Quarantined' = Quarantined /\ pc[p] = "counting" /\ GiveUpSlot(p)
            /\ \A q \in Proc \ {p} : tally'[q] = tally[q]
        BY <2>4, ReportStill DEF Quarantined, Report, TypeOK
      <3>2. \A q \in Proc \ {p} : pc'[q] = pc[q]
        BY <3>1, GiveUpSlotType
      <3>3. rebuild \/ \E q \in Proc : CountsAll(q)
        BY <3>1 DEF DegradedRingAsksRebuild, Degraded
      <3>4. ASSUME NEW q \in Proc \ {p}, CountsAll(q)
            PROVE  CountsAll(q)'
        BY <1>c, <1>d, <3>1, <3>2, <3>4
      <3>5. ASSUME CountsAll(p)
            PROVE  rebuild'
        <4>1. tally[p].next = NSlots /\ tally[p].found \in Nat
          BY <2>4 DEF Report, TypeOK
        <4>2. Cardinality(Quarantined) <= tally[p].found
          BY <1>c, <1>q, <3>5, <4>1, BelowEnds
        <4>3. Cardinality(Quarantined) >= RebuildThreshold /\ Cardinality(Quarantined) \in Nat
          BY <1>q, <3>1, BelowShrinks
        <4>4. tally[p].found >= RebuildThreshold
          BY <4>1, <4>2, <4>3, ThresholdPositive
        <4> QED
          BY <2>4, <4>4 DEF Report
      <3>6. rebuild => rebuild'
        BY <2>4 DEF Report
      <3> QED
        BY <3>3, <3>4, <3>5, <3>6
    <2>5. CASE \A p \in Proc : ~Quarantine(p) /\ ~CountSlot(p) /\ ~Report(p)
      <3>1. /\ Quarantined' \subseteq Quarantined /\ rebuild' = rebuild /\ tally' = tally
            /\ \A p \in Proc : pc[p] = "counting" => pc'[p] = "counting"
        BY <2>5, QuarantinedShrinks
      <3>2. /\ Cardinality(Quarantined') \in Nat /\ Cardinality(Quarantined) \in Nat
            /\ Cardinality(Quarantined') <= Cardinality(Quarantined)
        BY <1>q, <3>1, BelowShrinks
      <3>3. Cardinality(Quarantined) >= RebuildThreshold
        BY <3>2, ThresholdPositive
      <3>4. rebuild \/ \E q \in Proc : CountsAll(q)
        BY <3>3 DEF DegradedRingAsksRebuild, Degraded
      <3>5. ASSUME NEW q \in Proc, CountsAll(q)
            PROVE  CountsAll(q)'
        <4>1. PICK f \in Nat : f = tally[q].found
          BY DEF TypeOK
        <4>2. PICK n : n = tally[q].next
          OBVIOUS
        <4>3. PICK c \in Nat, d \in Nat : /\ c = Cardinality(Below(Quarantined, n))
                                          /\ d = Cardinality(Below(Quarantined', n)) /\ d <= c
          BY <1>q, <3>1, BelowShrinks
        <4>4. pc[q] = "counting" /\ c <= f
          BY <1>c, <3>5, <4>1, <4>2, <4>3
        <4> QED
          BY <1>d, <3>1, <4>1, <4>2, <4>3, <4>4
      <3> QED
        BY <3>1, <3>4, <3>5
    <2> QED
      BY <2>1, <2>3, <2>4, <2>5
  <1> QED
    BY <1>1, <1>2, TypeCorrect, PTL DEF Spec

--------------------------------------------------------------------------------
(***************************************************************************)
(* The ring implements the channel of frames (FrameChannel): each step of  *)
(* a writer, a reader or a recovery is a step of the channel or changes    *)
(* nothing of it.                                                          *)
(***************************************************************************)

(* Generations are given out in order, and never more than MaxGen of them: *)
(* what is being written is newer than all that was published.             *)
GenInv ==
  /\ \A q \in refs : q[2] < nextGen /\ q[2] <= gen[q[1]]
  /\ pc[Writer] \notin WritePc \cup {"idle"} => nextGen <= MaxGen
  /\ pc[Writer] \in WritePc =>
       /\ want[Writer] \in 1 .. MaxGen /\ want[Writer] < nextGen
       /\ \A q \in refs : q[2] < want[Writer]

LEMMA GenInit == Init => GenInv
  <1> SUFFICES ASSUME Init PROVE GenInv
    OBVIOUS
  <1>1. refs = {} /\ pc[Writer] = "idle"
    BY DEF Init, Proc
  <1> QED
    BY <1>1 DEF GenInv, WritePc

(* Where the generations and the writer's place in write() stand, nothing  *)
(* can go wrong with their order.                                          *)
LEMMA GenQuiet ==
  ASSUME GenInv, UNCHANGED <<gen, refs, nextGen>>,
         \/ UNCHANGED <<pc[Writer], want[Writer]>>
         \/ pc'[Writer] = "idle"
         \/ /\ pc[Writer] \notin WritePc \cup {"idle"}
            /\ pc'[Writer] \notin WritePc
         \/ /\ pc[Writer] \in WritePc /\ pc'[Writer] \in WritePc
            /\ want'[Writer] = want[Writer]
  PROVE  GenInv'
  BY DEF GenInv, WritePc

(* Every step preserves GenInv.                                            *)
LEMMA GenStep == IInv /\ GenInv /\ [Next]_vars => GenInv'
  <1> SUFFICES ASSUME IInv, GenInv, [Next]_vars PROVE GenInv'
    OBVIOUS
  <1> TypeOK
    BY DEF IInv
  <1>w. Writer \in Proc /\ Readers \subseteq Proc /\ \A r \in Readers : r # Writer
    BY RingAssumption DEF RingAssumption, Proc
  <1>1. CASE WriteStart
    <2>1. /\ UNCHANGED <<gen, refs, nextGen>> /\ nextGen <= MaxGen
          /\ pc'[Writer] = "peek"
      BY <1>1, <1>w DEF WriteStart, Goto, header, history, TypeOK
    <2> QED
      BY <2>1 DEF GenInv, WritePc
  <1>2. CASE WriteMark
    <2>1. /\ at[Writer] \in Slots /\ pc[Writer] = "held" /\ pc'[Writer] = "copyLo"
          /\ gen' = [gen EXCEPT ![at[Writer]] = nextGen]
          /\ want'[Writer] = nextGen /\ nextGen' = nextGen + 1 /\ refs' = refs
          /\ nextGen \in Nat \ {0} /\ gen \in [Slots -> Nat] /\ MaxGen \in Nat
      BY <1>2, <1>w, RingAssumption DEF WriteMark, Goto, history, TypeOK, RingAssumption
    <2>2. nextGen <= MaxGen /\ \A q \in refs : q[2] < nextGen /\ q[2] <= gen[q[1]]
      BY <2>1 DEF GenInv, WritePc
    <2>3. \A q \in refs : q[1] \in Slots /\ q[2] \in Nat
      BY DEF TypeOK
    <2> QED
      BY <2>1, <2>2, <2>3 DEF GenInv, WritePc
  <1>3. CASE WriteCommit
    <2>1. /\ at[Writer] \in Slots /\ pc[Writer] = "committing" /\ pc'[Writer] = "idle"
          /\ gen' = [gen EXCEPT ![at[Writer]] = want[Writer]]
          /\ refs' = refs \cup {<<at[Writer], want[Writer]>>} /\ nextGen' = nextGen
          /\ gen \in [Slots -> Nat] /\ want[Writer] \in Nat
      BY <1>3, <1>w DEF WriteCommit, Goto, TypeOK
    <2>2. gen' = gen /\ gen[at[Writer]] = want[Writer]
      BY <2>1 DEF IInv, WriterAlone, WritePc
    <2>3. want[Writer] < nextGen /\ \A q \in refs : q[2] < nextGen /\ q[2] <= gen[q[1]]
      BY <2>1 DEF GenInv, WritePc
    <2> QED
      BY <2>1, <2>2, <2>3 DEF GenInv, WritePc
  <1>4. CASE WritePeek \/ WriteSkipBusy
    <2>1. /\ UNCHANGED <<gen, refs, nextGen>>
          /\ pc[Writer] \in {"peek", "held"} /\ pc'[Writer] \in {"idle", "peek", "acquire"}
      BY <1>4, <1>w, SkipSlotType DEF WritePeek, WriteSkipBusy, header, history, TypeOK
    <2> QED
      BY <2>1, GenQuiet DEF WritePc
  <1>5. CASE WriteAcquire \/ WriteTimeout \/ WriteCopyLo \/ WriteCopyHi \/ WriteCommitAcquire \/ WriteCommitTimeout
    <2>1. /\ UNCHANGED <<gen, refs, nextGen>>
          /\ \/ pc[Writer] = "acquire" /\ pc'[Writer] \in {"held", "suspect"}
             \/ pc'[Writer] = "idle"
             \/ /\ pc[Writer] \in {"copyLo", "copyHi", "commit"} /\ want'[Writer] = want[Writer]
                /\ pc'[Writer] \in {"copyHi", "commit", "committing"}
      BY <1>5, <1>w DEF WriteAcquire, WriteTimeout, WriteCopyLo, WriteCopyHi,
        WriteCommitAcquire, WriteCommitTimeout, Goto, header, history, writerVars, TypeOK
    <2> QED
      BY <2>1, GenQuiet DEF WritePc
  <1>6. ASSUME NEW r \in Readers,
               \/ ReadAny(r) \/ ReadPeek(r) \/ ReadAcquire(r) \/ ReadTimeout(r) \/ ReadStale(r)
               \/ ReadPin(r) \/ ReadRegistryFull(r) \/ ReadPinned(r)
        PROVE  GenInv'
    <2>1. UNCHANGED <<gen, refs, nextGen, pc[Writer], want[Writer]>>
      BY <1>6, <1>w DEF ReadAny, ReadStart, ReadPeek, ReadAcquire, ReadTimeout, ReadStale, ReadPin,
        ReadRegistryFull, ReadPinned, Goto, header, history, writerVars, TypeOK
    <2> QED
      BY <2>1, GenQuiet
  <1>7. ASSUME NEW r \in Readers,
               \/ ReadCopyLo(r) \/ ReadCopyHi(r) \/ UnpinAcquire(r) \/ UnpinTimeout(r)
               \/ UnpinClear(r) \/ UnpinDone(r) \/ UnpinRelease(r)
        PROVE  GenInv'
    <2>1. UNCHANGED <<gen, refs, nextGen, pc[Writer], want[Writer]>>
      BY <1>7, <1>w DEF ReadCopyLo, ReadCopyHi, UnpinAcquire, UnpinTimeout, UnpinClear, UnpinDone,
        UnpinRelease, Goto, header, history, writerVars, TypeOK
    <2> QED
      BY <2>1, GenQuiet
  <1>8. ASSUME NEW p \in Proc, Suspect(p) \/ Condemn(p) \/ Quarantine(p) \/ Crash(p) PROVE GenInv'
    <2>1. /\ UNCHANGED <<gen, refs, nextGen, want>>
          /\ \/ pc'[Writer] = pc[Writer]
             \/ /\ pc[Writer] \in {"suspect", "judgeOwner", "judgeReaders", "doom"}
                /\ pc'[Writer] \in {"judgeOwner", "judgeReaders", "doom", "counting"}
      BY <1>8, <1>w DEF Suspect, Condemn, Quarantine, Crash, Goto, header, history, writerVars, TypeOK
    <2> QED
      BY <2>1, GenQuiet DEF WritePc
  <1>9. ASSUME NEW p \in Proc, Spare(p) \/ Report(p) PROVE GenInv'
    <2>1. UNCHANGED <<gen, refs, nextGen, want>> /\ GiveUpSlot(p)
          /\ pc[p] \in {"suspect", "judgeOwner", "judgeReaders", "counting"}
      BY <1>9, ReportStill DEF Spare, header, history
    <2>2. CASE p = Writer
      <3>1. pc'[Writer] \in {"idle", "peek"}
        BY <2>1, <2>2, SkipSlotType DEF GiveUpSlot
      <3> QED
        BY <2>1, <2>2, <3>1, GenQuiet DEF WritePc
    <2>3. CASE p # Writer
      <3>1. pc'[Writer] = pc[Writer]
        BY <2>1, <2>3, <1>w DEF GiveUpSlot, TypeOK
      <3> QED
        BY <2>1, <3>1, GenQuiet
    <2> QED
      BY <2>2, <2>3
  <1>10. CASE UNCHANGED vars
    BY <1>10, GenQuiet DEF vars, header, history, writerVars
  <1>12. ASSUME NEW p \in Proc, CountSlot(p) PROVE GenInv'
    BY <1>12, CountStill, GenQuiet
  <1>11. CASE Next
    BY <1>11, NextCases, <1>1, <1>2, <1>3, <1>4, <1>5, <1>6, <1>7, <1>8, <1>9, <1>12
  <1> QED
    BY <1>10, <1>11

(***************************************************************************)
(* The calls of the channel.  A step of one process leaves the others'     *)
(* calls alone, so each lemma below speaks of one reader.                  *)
(***************************************************************************)
Seen(r) == <<alive[r], pc[r], at[r], want[r], copy[r]>>

LEMMA SameCall ==
  ASSUME NEW r \in Readers, UNCHANGED Seen(r)
  PROVE  CallOf(r)' = CallOf(r)
  BY DEF Seen, CallOf, CallPhase

(* A step that is none of the channel's. *)
LEMMA Stutter ==
  ASSUME UNCHANGED <<refs, pinned>>, \A r \in Readers : CallOf(r)' = CallOf(r)
  PROVE  UNCHANGED Channel!vars
  BY DEF Channel!vars

LEMMA CallEnds ==
  ASSUME NEW r \in Readers, UNCHANGED <<refs, pinned>>,
         CallPhase(r) # "idle", CallPhase(r)' = "idle",
         \A q \in Readers \ {r} : CallOf(q)' = CallOf(q)
  PROVE  Channel!End(r)
  <1>1. CallOf(r)' = Channel!NoCall
    BY DEF CallOf, Channel!NoCall
  <1>2. CallOf(r).phase # "idle"
    BY DEF CallOf
  <1> QED
    BY <1>1, <1>2 DEF Channel!End

(* read() begins with a ref some write() has returned.                     *)
LEMMA AskStep ==
  ASSUME TypeOK, NEW r \in Readers, ReadAny(r)
  PROVE  Channel!Next
  <1>w. Readers \subseteq Proc
    BY DEF Proc
  <1>1. PICK ref \in refs : ReadStart(r, ref)
    BY DEF ReadAny
  <1>2. ref = <<ref[1], ref[2]>>
    BY DEF TypeOK
  <1>3. /\ alive[r] /\ pc[r] = "idle" /\ alive'[r] = alive[r] /\ pc'[r] = "peek"
        /\ at'[r] = ref[1] /\ want'[r] = ref[2] /\ UNCHANGED <<refs, pinned>>
    BY <1>1, <1>w DEF ReadStart, Goto, history, TypeOK
  <1>4. \A q \in Readers \ {r} : UNCHANGED Seen(q)
    BY <1>1, <1>w DEF ReadStart, Goto, Seen, TypeOK
  <1>5. CallOf(r) = Channel!NoCall
    BY <1>3 DEF CallOf, CallPhase, Channel!NoCall
  <1>6. CallOf(r)' = [phase |-> "asked", ref |-> ref, frame |-> <<>>]
    BY <1>2, <1>3 DEF CallOf, CallPhase
  <1>7. Channel!Ask(r, ref)
    BY <1>3, <1>4, <1>5, <1>6, SameCall DEF Channel!Ask
  <1> QED
    BY <1>7 DEF Channel!Next

(* The slot still holds the generation of the ref when it is pinned, so no *)
(* newer frame was published in it.                                        *)
LEMMA TakeStep ==
  ASSUME IInv, GenInv, NEW r \in Readers, ReadPinned(r)
  PROVE  Channel!Next
  <1> TypeOK
    BY DEF IInv
  <1>w. Readers \subseteq Proc
    BY DEF Proc
  <1>1. /\ alive[r] /\ pc[r] = "pinned" /\ alive'[r] = alive[r] /\ pc'[r] = "copyLo"
        /\ at'[r] = at[r] /\ want'[r] = want[r] /\ refs' = refs
        /\ pinned' = pinned \cup {<<at[r], want[r]>>}
    BY <1>w DEF ReadPinned, Goto, TypeOK
  <1>2. \A q \in Readers \ {r} : UNCHANGED Seen(q)
    BY <1>w DEF ReadPinned, Goto, Seen, TypeOK
  <1>3. gen[at[r]] = want[r]
    BY <1>1 DEF IInv, PinInv, Pins, PinPc
  <1>4. \A q \in refs : q[1] = at[r] => q[2] <= want[r]
    BY <1>3 DEF GenInv
  <1>5. CallOf(r) = [phase |-> "asked", ref |-> <<at[r], want[r]>>, frame |-> <<>>]
    BY <1>1 DEF CallOf, CallPhase
  <1>6. CallOf(r)' = [phase |-> "taking", ref |-> <<at[r], want[r]>>, frame |-> <<>>]
    BY <1>1 DEF CallOf, CallPhase
  <1>7. [q \in Readers |-> CallOf(q)]'
          = [[q \in Readers |-> CallOf(q)] EXCEPT ![r].phase = "taking"]
    <2>1. [CallOf(r) EXCEPT !.phase = "taking"] = CallOf(r)'
      BY <1>5, <1>6
    <2>2. \A q \in Readers \ {r} : CallOf(q)' = CallOf(q)
      BY <1>2, SameCall
    <2> QED
      BY <2>1, <2>2
  <1>8. CallOf(r).phase = "asked" /\ CallOf(r).ref = <<at[r], want[r]>>
    BY <1>5
  <1>9. Channel!Take(r)
    BY <1>1, <1>4, <1>7, <1>8 DEF Channel!Take
  <1> QED
    BY <1>9 DEF Channel!Next

(* What was copied is the frame of the ref, whole.                         *)
LEMMA DeliverStep ==
  ASSUME IInv, NEW r \in Readers, ReadCopyHi(r)
  PROVE  Channel!Next
  <1> TypeOK
    BY DEF IInv
  <1>w. Readers \subseteq Proc
    BY DEF Proc
  <1>1. /\ alive[r] /\ pc[r] = "copyHi" /\ alive'[r] = alive[r] /\ pc'[r] = "unpin"
        /\ at'[r] = at[r] /\ want'[r] = want[r] /\ UNCHANGED <<refs, pinned>>
        /\ copy'[r] = <<copy[r][1], hi[at[r]]>>
    BY <1>w DEF ReadCopyHi, Goto, history, TypeOK
  <1>2. \A q \in Readers \ {r} : UNCHANGED Seen(q)
    BY <1>w DEF ReadCopyHi, Goto, Seen, TypeOK
  <1>3. copy'[r] = <<want[r], want[r]>>
    BY <1>1 DEF IInv, PinInv, Pins, PinPc, CopyInv
  <1>4. CallOf(r) = [phase |-> "taking", ref |-> <<at[r], want[r]>>, frame |-> <<>>]
    BY <1>1 DEF CallOf, CallPhase
  <1>5. CallOf(r)' = [phase |-> "got", ref |-> <<at[r], want[r]>>, frame |-> <<want[r], want[r]>>]
    BY <1>1, <1>3 DEF CallOf, CallPhase
  <1>6. CallOf(r).phase = "taking" /\ CallOf(r).ref = <<at[r], want[r]>>
    BY <1>4
  <1>7. CallOf(r)' = [phase |-> "got", ref |-> CallOf(r).ref,
                      frame |-> Channel!Whole(CallOf(r).ref)]
    BY <1>5, <1>6 DEF Channel!Whole
  <1>8. \A q \in Readers \ {r} : CallOf(q)' = CallOf(q)
    BY <1>2, SameCall
  <1>9. Channel!Deliver(r)
    BY <1>1, <1>6, <1>7, <1>8 DEF Channel!Deliver
  <1> QED
    BY <1>9 DEF Channel!Next

(* The writer publishes the newest generation, in a slot whose last frame  *)
(* somebody has taken and nobody is taking now.                            *)
LEMMA PublishStep ==
  ASSUME IInv, GenInv, WriteCommit
  PROVE  Channel!Next
  <1> DEFINE s == at[Writer]
             g == want[Writer]
  <1> TypeOK
    BY DEF IInv
  <1>w. Writer \in Proc /\ Readers \subseteq Proc /\ \A r \in Readers : r # Writer
    BY RingAssumption DEF RingAssumption, Proc
  <1>1. /\ s \in Slots /\ pc[Writer] = "committing" /\ pinned' = pinned
        /\ refs' = refs \cup {<<s, g>>}
    BY <1>w DEF WriteCommit, Goto, TypeOK
  <1>2. \A r \in Readers : UNCHANGED Seen(r)
    BY <1>w DEF WriteCommit, Goto, Seen, TypeOK
  <1>3. g \in 1 .. MaxGen /\ \A q \in refs : q[2] < g
    BY <1>1 DEF GenInv, WritePc
  <1>4. gen[s] = g /\ \A r \in Readers : alive[r] /\ at[r] = s => pc[r] \notin PinPc
    BY <1>1 DEF IInv, WriterAlone, WritePc
  <1>5. ASSUME NEW q \in refs, q[1] = s PROVE q \in pinned
    <2>1. q[2] \in Nat /\ g \in Nat /\ q[2] < g
      BY <1>3, <1>w DEF TypeOK
    <2> QED
      BY <1>4, <1>5, <2>1 DEF IInv, NoSilentOverwrite
  <1>6. ASSUME NEW r \in Readers, CallOf(r).phase = "taking" PROVE CallOf(r).ref[1] # s
    <2>1. alive[r] /\ pc[r] \in {"copyLo", "copyHi"}
      BY <1>6, <1>w DEF CallOf, CallPhase, TypeOK, ReaderPc
    <2>2. CallOf(r).ref = <<at[r], want[r]>>
      BY <1>6 DEF CallOf
    <2> QED
      BY <1>4, <2>1, <2>2 DEF PinPc
  <1>7. Channel!Publish(s, g)
    BY <1>1, <1>2, <1>3, <1>5, <1>6, SameCall DEF Channel!Publish
  <1> QED
    BY <1>1, <1>3, <1>7 DEF Channel!Next

(* A reader that goes on within a phase of its call.                       *)
LEMMA WithinStep ==
  ASSUME TypeOK, NEW r \in Readers, UNCHANGED <<refs, pinned>>,
         CallOf(r)' = CallOf(r), \A q \in Readers \ {r} : UNCHANGED Seen(q)
  PROVE  UNCHANGED Channel!vars
  BY SameCall, Stutter

(* A reader's call that ends, or a process that dies between its calls.    *)
LEMMA EndStep ==
  ASSUME TypeOK, NEW r \in Readers, UNCHANGED <<refs, pinned>>,
         CallPhase(r)' = "idle", \A q \in Readers \ {r} : UNCHANGED Seen(q)
  PROVE  Channel!Next \/ UNCHANGED Channel!vars
  <1>1. \A q \in Readers \ {r} : CallOf(q)' = CallOf(q)
    BY SameCall
  <1>2. CASE CallPhase(r) = "idle"
    <2>1. CallOf(r)' = CallOf(r)
      BY <1>2 DEF CallOf
    <2> QED
      BY <1>1, <2>1, Stutter
  <1>3. CASE CallPhase(r) # "idle"
    BY <1>1, <1>3, CallEnds DEF Channel!Next
  <1> QED
    BY <1>2, <1>3

(* The writer's steps before the commit, and all of its recoveries.        *)
LEMMA WriterStep ==
  ASSUME TypeOK,
         UNCHANGED <<refs, pinned, copy>>,
         \A r \in Readers : UNCHANGED <<alive[r], pc[r], at[r], want[r]>>
  PROVE  UNCHANGED Channel!vars
  <1>1. \A r \in Readers : UNCHANGED Seen(r)
    BY DEF Seen, TypeOK
  <1> QED
    BY <1>1, SameCall, Stutter

(* Each step of the ring is a step of the channel or a stutter.            *)
LEMMA ChannelStep == IInv /\ GenInv /\ [Next]_vars => [Channel!Next]_(Channel!vars)
  <1> SUFFICES ASSUME IInv, GenInv, [Next]_vars
               PROVE  Channel!Next \/ UNCHANGED Channel!vars
    OBVIOUS
  <1> TypeOK
    BY DEF IInv
  <1>w. Writer \in Proc /\ Readers \subseteq Proc /\ \A r \in Readers : r # Writer
    BY RingAssumption DEF RingAssumption, Proc
  <1> DEFINE Goal == Channel!Next \/ UNCHANGED Channel!vars
  <1>1. CASE WriteStart \/ WriteAcquire \/ WriteTimeout \/ WriteMark
    <2>1. /\ UNCHANGED <<refs, pinned, copy>>
          /\ \A r \in Readers : UNCHANGED <<alive[r], pc[r], at[r], want[r]>>
      BY <1>1, <1>w DEF WriteStart, WriteAcquire, WriteTimeout, WriteMark, Goto, history, TypeOK
    <2> QED
      BY <2>1, WriterStep
  <1>2. CASE WriteCopyLo \/ WriteCopyHi \/ WriteCommitAcquire \/ WriteCommitTimeout
    <2>1. /\ UNCHANGED <<refs, pinned, copy>>
          /\ \A r \in Readers : UNCHANGED <<alive[r], pc[r], at[r], want[r]>>
      BY <1>2, <1>w DEF WriteCopyLo, WriteCopyHi, WriteCommitAcquire, WriteCommitTimeout, Goto,
        history, TypeOK
    <2> QED
      BY <2>1, WriterStep
  <1>3. CASE WritePeek \/ WriteSkipBusy
    <2>1. /\ UNCHANGED <<refs, pinned, copy>>
          /\ \A r \in Readers : UNCHANGED <<alive[r], pc[r], at[r], want[r]>>
      BY <1>3, <1>w, SkipSlotType DEF WritePeek, WriteSkipBusy, history, TypeOK
    <2> QED
      BY <2>1, WriterStep
  <1>4. CASE WriteCommit
    BY <1>4, PublishStep
  <1>5. ASSUME NEW r \in Readers, ReadAny(r) PROVE Goal
    BY <1>5, AskStep
  <1>6. ASSUME NEW r \in Readers, ReadPinned(r) PROVE Goal
    BY <1>6, TakeStep
  <1>7. ASSUME NEW r \in Readers, ReadCopyHi(r) PROVE Goal
    BY <1>7, DeliverStep
  <1>8. ASSUME NEW r \in Readers, ReadPeek(r) PROVE Goal
    <2>1. /\ UNCHANGED <<refs, pinned>> /\ UNCHANGED <<alive[r], at[r], want[r], copy[r]>>
          /\ pc[r] = "peek" /\ pc'[r] \in {"idle", "acquire"}
          /\ \A q \in Readers \ {r} : UNCHANGED Seen(q)
      BY <1>8, <1>w DEF ReadPeek, Seen, history, TypeOK
    <2>2. CASE pc'[r] = "idle"
      BY <2>1, <2>2, EndStep DEF CallPhase
    <2>3. CASE pc'[r] = "acquire"
      <3>1. CallOf(r)' = CallOf(r)
        BY <2>1, <2>3 DEF CallOf, CallPhase
      <3> QED
        BY <2>1, <3>1, WithinStep
    <2> QED
      BY <2>1, <2>2, <2>3
  <1>9. ASSUME NEW r \in Readers, ReadAcquire(r) \/ ReadTimeout(r) \/ ReadPin(r) PROVE Goal
    <2>1. /\ UNCHANGED <<refs, pinned>> /\ UNCHANGED <<alive[r], at[r], want[r], copy[r]>>
          /\ pc[r] \in {"acquire", "held"} /\ pc'[r] \in {"held", "suspect", "pinned"}
          /\ \A q \in Readers \ {r} : UNCHANGED Seen(q)
      BY <1>9, <1>w DEF ReadAcquire, ReadTimeout, ReadPin, Goto, Seen, history, TypeOK
    <2>2. CallOf(r)' = CallOf(r)
      BY <2>1 DEF CallOf, CallPhase
    <2> QED
      BY <2>1, <2>2, WithinStep
  <1>10. ASSUME NEW r \in Readers, ReadStale(r) \/ ReadRegistryFull(r) PROVE Goal
    <2>1. /\ UNCHANGED <<refs, pinned>> /\ pc'[r] = "idle"
          /\ \A q \in Readers \ {r} : UNCHANGED Seen(q)
      BY <1>10, <1>w DEF ReadStale, ReadRegistryFull, Goto, Seen, history, TypeOK
    <2> QED
      BY <2>1, EndStep DEF CallPhase
  <1>11. ASSUME NEW r \in Readers, UnpinTimeout(r) \/ UnpinRelease(r) PROVE Goal
    <2>1. /\ UNCHANGED <<refs, pinned>> /\ pc'[r] = "idle"
          /\ \A q \in Readers \ {r} : UNCHANGED Seen(q)
      BY <1>11, <1>w DEF UnpinTimeout, UnpinRelease, Goto, Seen, history, TypeOK
    <2> QED
      BY <2>1, EndStep DEF CallPhase
  <1>12. ASSUME NEW r \in Readers, ReadCopyLo(r) PROVE Goal
    <2>1. /\ UNCHANGED <<refs, pinned>> /\ UNCHANGED <<alive[r], at[r], want[r]>>
          /\ pc[r] = "copyLo" /\ pc'[r] = "copyHi"
          /\ \A q \in Readers \ {r} : UNCHANGED Seen(q)
      BY <1>12, <1>w DEF ReadCopyLo, Goto, Seen, history, TypeOK
    <2>2. CallOf(r)' = CallOf(r)
      BY <2>1 DEF CallOf, CallPhase
    <2> QED
      BY <2>1, <2>2, WithinStep
  <1>13. ASSUME NEW r \in Readers, UnpinAcquire(r) \/ UnpinClear(r) \/ UnpinDone(r) PROVE Goal
    <2>1. /\ UNCHANGED <<refs, pinned>> /\ UNCHANGED <<alive[r], at[r], want[r], copy[r]>>
          /\ pc[r] \in {"unpin", "unpinHeld", "unpinned"}
          /\ pc'[r] \in {"unpinHeld", "unpinned", "release"}
          /\ \A q \in Readers \ {r} : UNCHANGED Seen(q)
      BY <1>13, <1>w DEF UnpinAcquire, UnpinClear, UnpinDone, Goto, Seen, history, TypeOK
    <2>2. CallOf(r)' = CallOf(r)
      BY <2>1 DEF CallOf, CallPhase
    <2> QED
      BY <2>1, <2>2, WithinStep
  <1>14. ASSUME NEW p \in Proc, Suspect(p) \/ Condemn(p) \/ Quarantine(p) PROVE Goal
    <2>1. /\ UNCHANGED <<refs, pinned>> /\ UNCHANGED <<alive, at, want, copy>>
          /\ pc[p] \in {"suspect", "judgeOwner", "judgeReaders", "doom"}
          /\ pc' = [pc EXCEPT ![p] = pc'[p]]
          /\ pc'[p] \in {"judgeOwner", "judgeReaders", "doom", "counting"}
      BY <1>14, <1>w DEF Suspect, Condemn, Quarantine, Goto, history, TypeOK
    <2>2. ASSUME NEW r \in Readers PROVE CallOf(r)' = CallOf(r)
      <3>1. \/ pc'[r] = pc[r]
            \/ /\ pc[r] \in {"suspect", "judgeOwner", "judgeReaders", "doom"}
               /\ pc'[r] \in {"judgeOwner", "judgeReaders", "doom", "counting"}
        BY <2>1, <1>w DEF TypeOK
      <3> QED
        BY <2>1, <3>1 DEF CallOf, CallPhase
    <2> QED
      BY <2>1, <2>2, Stutter
  <1>15. ASSUME NEW p \in Proc, Spare(p) \/ Report(p) PROVE Goal
    <2>1. /\ UNCHANGED <<refs, pinned>> /\ UNCHANGED <<alive, want, copy>> /\ GiveUpSlot(p)
      BY <1>15, ReportStill DEF Spare, history
    <2>2. CASE p = Writer
      <3>1. \A r \in Readers : UNCHANGED <<alive[r], pc[r], at[r], want[r]>>
        BY <2>1, <2>2, SkipSlotType DEF GiveUpSlot
      <3> QED
        BY <2>1, <3>1, WriterStep
    <2>3. CASE p # Writer
      <3>1. p \in Readers /\ pc'[p] = "idle" /\ \A q \in Readers \ {p} : UNCHANGED Seen(q)
        BY <2>1, <2>3, <1>w DEF GiveUpSlot, Seen, Proc, TypeOK
      <3> QED
        BY <2>1, <3>1, EndStep DEF CallPhase
    <2> QED
      BY <2>2, <2>3
  <1>16. ASSUME NEW p \in Proc, Crash(p) PROVE Goal
    <2>1. /\ UNCHANGED <<refs, pinned>> /\ UNCHANGED <<pc, at, want, copy>>
          /\ alive' = [alive EXCEPT ![p] = FALSE]
      BY <1>16 DEF Crash, history
    <2>2. CASE p = Writer
      <3>1. \A r \in Readers : UNCHANGED <<alive[r], pc[r], at[r], want[r]>>
        BY <2>1, <2>2, <1>w DEF TypeOK
      <3> QED
        BY <2>1, <3>1, WriterStep
    <2>3. CASE p # Writer
      <3>1. p \in Readers /\ ~alive'[p] /\ \A q \in Readers \ {p} : UNCHANGED Seen(q)
        BY <2>1, <2>3, <1>w DEF Seen, Proc, TypeOK
      <3> QED
        BY <2>1, <3>1, EndStep DEF CallPhase
    <2> QED
      BY <2>2, <2>3
  <1>19. ASSUME NEW p \in Proc, CountSlot(p) PROVE Goal
    <2>1. /\ UNCHANGED <<refs, pinned, copy>>
          /\ \A r \in Readers : UNCHANGED <<alive[r], pc[r], at[r], want[r]>>
      BY <1>19, CountStill
    <2> QED
      BY <2>1, WriterStep
  <1>17. CASE UNCHANGED vars
    <2>1. /\ UNCHANGED <<refs, pinned, copy>>
          /\ \A r \in Readers : UNCHANGED <<alive[r], pc[r], at[r], want[r]>>
      BY <1>17 DEF vars, history
    <2> QED
      BY <2>1, WriterStep
  <1>18. CASE Next
    BY <1>18, NextCases, <1>1, <1>2, <1>3, <1>4, <1>5, <1>6, <1>7, <1>8, <1>9, <1>10, <1>11,
      <1>12, <1>13, <1>14, <1>15, <1>16, <1>19
  <1> QED
    BY <1>17, <1>18

(* The empty ring is an empty channel.                                     *)
LEMMA ChannelInit == Init => Channel!Init
  <1> SUFFICES ASSUME Init PROVE Channel!Init
    OBVIOUS
  <1>1. \A r \in Readers : CallOf(r) = Channel!NoCall
    BY DEF Init, Proc, CallOf, CallPhase, Channel!NoCall
  <1> QED
    BY <1>1 DEF Init, Channel!Init

(* The ring implements the channel: whatever dies, times out, is reaped or *)
(* quarantined, read() gives the frame of its ref, whole, or nothing, and  *)
(* write() replaces a frame only when it was taken and nobody is taking it. *)
THEOREM RingIsChannel == Spec => ImplementsChannel
  <1>1. Init => IInv /\ GenInv /\ Channel!Init
    BY IInvInit, GenInit, ChannelInit
  <1>2. IInv /\ GenInv /\ [Next]_vars => (IInv /\ GenInv)'
    BY IInvStep, GenStep
  <1>3. IInv /\ GenInv /\ [Next]_vars => [Channel!Next]_(Channel!vars)
    BY ChannelStep
  <1> QED
    BY <1>1, <1>2, <1>3, PTL DEF Spec, ImplementsChannel, Channel!Spec

================================================================================
