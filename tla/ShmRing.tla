-------------------------------- MODULE ShmRing --------------------------------
(***************************************************************************)
(* One shared-memory frame ring (runtime/ipc/shm_frame_ring.py): N slots,  *)
(* each a header, a frame buffer and a lock; one writer process and any    *)
(* number of reader processes.                                             *)
(*                                                                         *)
(* A slot's lock is held only while its header is examined or changed; the *)
(* frame itself is copied in and out without it.  Any process may stop for *)
(* arbitrarily long, and the mortal ones may die, between any two steps; a *)
(* process that dies inside a critical section leaves its lock held        *)
(* forever (multiprocessing.Lock is not robust).  A process that cannot    *)
(* get a lock within LOCK_ACQUIRE_TIMEOUT_S suspects that and may          *)
(* quarantine the slot, reading and writing the header WITHOUT the lock.   *)
(*                                                                         *)
(* Abstractions.                                                           *)
(*  - A frame is the generation it was written under; it is copied in two  *)
(*    halves, so that a copy overlapping a write is visibly torn.          *)
(*  - A lease only ever delays recovery of a process that is already dead: *)
(*    every test of a deadline is conjoined with liveness DEAD.  Nothing   *)
(*    bounds when such a test is made, so its outcome for a dead process   *)
(*    is a choice (the set `expired' below) and deadlines are not state.   *)
(*  - reader_count is rewritten from the registry in every critical        *)
(*    section that changes it and read only under the lock, so it is the   *)
(*    registry (NoReader); a slot whose lock holder died in between is     *)
(*    never looked at under the lock again.                                *)
(*  - An identity (pid, create_time_ns) is never reused, so a restarted    *)
(*    process is another member of Readers.                                *)
(***************************************************************************)
EXTENDS Integers, FiniteSets

CONSTANTS
  NSlots,      \* number of slots
  MaxReaders,  \* entries of a slot's reader registry
  Writer,      \* the registered writer of the ring
  Readers,     \* the reader processes
  NoProc,      \* pid 0: no owner, empty registry entry, free lock
  Mortal,      \* the processes that may die
  MaxGen       \* bound: no write is started after this generation

ASSUME RingAssumption ==
  /\ NSlots \in Nat \ {0}
  /\ MaxReaders \in Nat \ {0}
  /\ MaxGen \in Nat
  /\ Writer \notin Readers
  /\ NoProc \notin Readers \cup {Writer}
  /\ Mortal \subseteq Readers \cup {Writer}

Proc    == Readers \cup {Writer}
Slots   == 0 .. NSlots - 1
Entries == 1 .. MaxReaders

SlotState == {"FREE", "WRITING", "READY", "READING", "DONE", "QUARANTINED"}

(* Default of rebuild_threshold: half of the slots, rounded up, at least 1. *)
RebuildThreshold == (NSlots + 1) \div 2

VARIABLES
  state,     \* slot header: state
  gen,       \* slot header: generation
  owner,     \* slot header: owner identity
  registry,  \* slot header: reader registry
  lo, hi,    \* slot data: the two halves of the frame, as generations
  lock,      \* holder of the slot's lock
  alive,     \* is the process alive?
  pc,        \* what the process does next
  at,        \* the slot the process is working on
  want,      \* Writer: new_gen; reader: expected_gen
  tried,     \* Writer: slots skipped so far in this write()
  nextSlot,  \* Writer: _next_slot
  nextGen,   \* Writer: _next_generation
  copy,      \* the frame a reader copied out, half by half
  refs,      \* the refs <<slot, generation>> write() has returned
  pinned,    \* history: the refs some reader has pinned
  tally,     \* count of quarantined slots: the slot to look at next, those found
  rebuild    \* history: shm_ring_rebuild_requested was emitted

header     == <<state, gen, owner, registry>>
data       == <<lo, hi>>
writerVars == <<tried, nextSlot, nextGen>>
recovery   == <<tally, rebuild>>
history    == <<refs, pinned, recovery>>
vars == <<header, data, lock, alive, pc, at, want, writerVars, copy, history>>

WriterPc == {"idle", "peek", "acquire", "held", "copyLo", "copyHi",
             "commit", "committing",
             "suspect", "judgeOwner", "judgeReaders", "doom", "counting"}
ReaderPc == {"idle", "peek", "acquire", "held", "pinned", "copyLo", "copyHi",
             "unpin", "unpinHeld", "unpinned", "release",
             "suspect", "judgeOwner", "judgeReaders", "doom", "counting"}

NoTally == [next |-> 0, found |-> 0]

Init ==
  /\ state = [s \in Slots |-> "FREE"]
  /\ gen = [s \in Slots |-> 0]
  /\ owner = [s \in Slots |-> NoProc]
  /\ registry = [s \in Slots |-> [i \in Entries |-> NoProc]]
  /\ lo = [s \in Slots |-> 0]
  /\ hi = [s \in Slots |-> 0]
  /\ lock = [s \in Slots |-> NoProc]
  /\ alive = [p \in Proc |-> TRUE]
  /\ pc = [p \in Proc |-> "idle"]
  /\ at = [p \in Proc |-> 0]
  /\ want = [p \in Proc |-> 0]
  /\ tried = 0
  /\ nextSlot = 0
  /\ nextGen = 1
  /\ copy = [r \in Readers |-> <<0, 0>>]
  /\ refs = {}
  /\ pinned = {}
  /\ tally = [p \in Proc |-> NoTally]
  /\ rebuild = FALSE

--------------------------------------------------------------------------------
(* Process control and locks.                                              *)

Goto(p, from, to) ==
  /\ alive[p]
  /\ pc[p] = from
  /\ pc' = [pc EXCEPT ![p] = to]

Acquire(p) ==
  /\ lock[at[p]] = NoProc
  /\ lock' = [lock EXCEPT ![at[p]] = p]

Release(p) == lock' = [lock EXCEPT ![at[p]] = NoProc]

(* Seeded fault: the lock is acquired without a timeout.                   *)
TimesOutNever(p) == FALSE

(* Only a lock somebody holds can keep lock.acquire(timeout=...) waiting.  *)
TimesOut(p) == lock[at[p]] # NoProc

NoReader(s) == \A i \in Entries : registry[s][i] = NoProc

(* Seeded fault: the round robin does not wrap.                            *)
NextSlotNoWrap(s) == s + 1

NextSlot(s) == IF s + 1 = NSlots THEN 0 ELSE s + 1

--------------------------------------------------------------------------------
(* ShmFrameWriter.write                                                    *)

(* Round robin: go on with the slot after this one, or give up (return     *)
(* None) once every slot has been tried.                                   *)
SkipSlot ==
  IF tried + 1 = NSlots
  THEN /\ pc' = [pc EXCEPT ![Writer] = "idle"]
       /\ UNCHANGED <<at, tried>>
  ELSE /\ pc' = [pc EXCEPT ![Writer] = "peek"]
       /\ at' = [at EXCEPT ![Writer] = NextSlot(@)]
       /\ tried' = tried + 1

WriteStart ==
  /\ nextGen <= MaxGen
  /\ Goto(Writer, "idle", "peek")
  /\ at' = [at EXCEPT ![Writer] = nextSlot]
  /\ tried' = 0
  /\ UNCHANGED <<header, data, lock, alive, want, nextSlot, nextGen, copy, history>>

(* The state is peeked without the lock; QUARANTINED is skipped.           *)
WritePeek ==
  /\ alive[Writer]
  /\ pc[Writer] = "peek"
  /\ IF state[at[Writer]] = "QUARANTINED"
     THEN SkipSlot
     ELSE /\ pc' = [pc EXCEPT ![Writer] = "acquire"]
          /\ UNCHANGED <<at, tried>>
  /\ UNCHANGED <<header, data, lock, alive, want, nextSlot, nextGen, copy, history>>

WriteAcquire ==
  /\ Goto(Writer, "acquire", "held")
  /\ Acquire(Writer)
  /\ UNCHANGED <<header, data, alive, at, want, writerVars, copy, history>>

WriteTimeout ==
  /\ Goto(Writer, "acquire", "suspect")
  /\ TimesOut(Writer)
  /\ UNCHANGED <<header, data, lock, alive, at, want, writerVars, copy, history>>

(* Seeded fault: a published slot counts as available.                     *)
AvailableReady(s) == state[s] \in {"FREE", "READY", "DONE"} /\ NoReader(s)

(* Only a FREE or DONE slot that no reader pins may be overwritten.        *)
Available(s) == state[s] \in {"FREE", "DONE"} /\ NoReader(s)

WriteMark ==
  LET s == at[Writer] IN
  /\ Available(s)
  /\ Goto(Writer, "held", "copyLo")
  /\ state' = [state EXCEPT ![s] = "WRITING"]
  /\ gen' = [gen EXCEPT ![s] = nextGen]
  /\ owner' = [owner EXCEPT ![s] = Writer]
  /\ want' = [want EXCEPT ![Writer] = nextGen]
  /\ nextGen' = nextGen + 1
  /\ Release(Writer)
  /\ UNCHANGED <<registry, data, alive, at, tried, nextSlot, copy, history>>

WriteSkipBusy ==
  /\ alive[Writer]
  /\ pc[Writer] = "held"
  /\ ~Available(at[Writer])
  /\ Release(Writer)
  /\ SkipSlot
  /\ UNCHANGED <<header, data, alive, want, nextSlot, nextGen, copy, history>>

WriteCopyLo ==
  /\ Goto(Writer, "copyLo", "copyHi")
  /\ lo' = [lo EXCEPT ![at[Writer]] = want[Writer]]
  /\ UNCHANGED <<header, hi, lock, alive, at, want, writerVars, copy, history>>

WriteCopyHi ==
  /\ Goto(Writer, "copyHi", "commit")
  /\ hi' = [hi EXCEPT ![at[Writer]] = want[Writer]]
  /\ UNCHANGED <<header, lo, lock, alive, at, want, writerVars, copy, history>>

WriteCommitAcquire ==
  /\ Goto(Writer, "commit", "committing")
  /\ Acquire(Writer)
  /\ UNCHANGED <<header, data, alive, at, want, writerVars, copy, history>>

(* The second acquire timed out: return None, the slot stays WRITING and   *)
(* _next_slot is not advanced.                                             *)
WriteCommitTimeout ==
  /\ Goto(Writer, "commit", "idle")
  /\ TimesOut(Writer)
  /\ UNCHANGED <<header, data, lock, alive, at, want, writerVars, copy, history>>

(* Seeded fault: the commit re-reads the counter it has already advanced.  *)
WriteCommitNextGen ==
  LET s == at[Writer] IN
  /\ Goto(Writer, "committing", "idle")
  /\ state' = [state EXCEPT ![s] = "READY"]
  /\ gen' = [gen EXCEPT ![s] = nextGen]
  /\ owner' = [owner EXCEPT ![s] = Writer]
  /\ Release(Writer)
  /\ nextSlot' = NextSlot(s)
  /\ refs' = refs \cup {<<s, nextGen>>}
  /\ UNCHANGED <<registry, data, alive, at, want, tried, nextGen, copy, pinned, recovery>>

(* READY is written whatever the state has become meanwhile.               *)
WriteCommit ==
  LET s == at[Writer] IN
  /\ Goto(Writer, "committing", "idle")
  /\ state' = [state EXCEPT ![s] = "READY"]
  /\ gen' = [gen EXCEPT ![s] = want[Writer]]
  /\ owner' = [owner EXCEPT ![s] = Writer]
  /\ Release(Writer)
  /\ nextSlot' = NextSlot(s)
  /\ refs' = refs \cup {<<s, want[Writer]>>}
  /\ UNCHANGED <<registry, data, alive, at, want, tried, nextGen, copy, pinned, recovery>>

--------------------------------------------------------------------------------
(* ShmFrameReader.read: any reader may be handed any ref ever returned, at *)
(* any time and more than once.                                            *)

ReadStart(r, ref) ==
  /\ Goto(r, "idle", "peek")
  /\ at' = [at EXCEPT ![r] = ref[1]]
  /\ want' = [want EXCEPT ![r] = ref[2]]
  /\ UNCHANGED <<header, data, lock, alive, writerVars, copy, history>>

ReadPeek(r) ==
  /\ alive[r]
  /\ pc[r] = "peek"
  /\ pc' = [pc EXCEPT ![r] = IF state[at[r]] = "QUARANTINED" THEN "idle" ELSE "acquire"]
  /\ UNCHANGED <<header, data, lock, alive, at, want, writerVars, copy, history>>

ReadAcquire(r) ==
  /\ Goto(r, "acquire", "held")
  /\ Acquire(r)
  /\ UNCHANGED <<header, data, alive, at, want, writerVars, copy, history>>

ReadTimeout(r) ==
  /\ Goto(r, "acquire", "suspect")
  /\ TimesOut(r)
  /\ UNCHANGED <<header, data, lock, alive, at, want, writerVars, copy, history>>

(* Seeded fault: the generation of the ref is not compared.                *)
ReadableAnyGen(r) == state[at[r]] \in {"READY", "READING"}

Readable(r) == gen[at[r]] = want[r] /\ state[at[r]] \in {"READY", "READING"}

(* Generation mismatch or wrong state: release and return None.            *)
ReadStale(r) ==
  /\ ~Readable(r)
  /\ Goto(r, "held", "idle")
  /\ Release(r)
  /\ UNCHANGED <<header, data, alive, at, want, writerVars, copy, history>>

(* Seeded fault: an expired lease is enough to be reaped.                  *)
ReapedAlive(s, expired) ==
  [i \in Entries |-> IF registry[s][i] \in expired THEN NoProc ELSE registry[s][i]]

(* _reap_dead_readers: the registry without the entries of dead readers    *)
(* whose lease has expired.                                                *)
Reaped(s, expired) ==
  [i \in Entries |-> IF registry[s][i] \in expired /\ ~alive[registry[s][i]]
                     THEN NoProc ELSE registry[s][i]]

FirstFree(reg) ==
  CHOOSE i \in Entries : reg[i] = NoProc /\ \A j \in Entries : reg[j] = NoProc => i <= j

(* Reap, then take the first free registry entry ...                       *)
ReadPin(r) ==
  LET s == at[r] IN
  /\ Readable(r)
  /\ Goto(r, "held", "pinned")
  /\ \E expired \in SUBSET Readers :
       /\ \E i \in Entries : Reaped(s, expired)[i] = NoProc
       /\ registry' = [registry EXCEPT ![s] =
            [Reaped(s, expired) EXCEPT ![FirstFree(Reaped(s, expired))] = r]]
  /\ UNCHANGED <<state, gen, owner, data, lock, alive, at, want, writerVars, copy, history>>

(* ... or fail with ReaderRegistryFull (what was reaped stays reaped).     *)
ReadRegistryFull(r) ==
  /\ Readable(r)
  /\ Goto(r, "held", "idle")
  /\ \E expired \in SUBSET Readers :
       /\ \A i \in Entries : Reaped(at[r], expired)[i] # NoProc
       /\ registry' = [registry EXCEPT ![at[r]] = Reaped(at[r], expired)]
  /\ Release(r)
  /\ UNCHANGED <<state, gen, owner, data, alive, at, want, writerVars, copy, history>>

(* READING is written last, then the lock is released.                     *)
ReadPinned(r) ==
  /\ Goto(r, "pinned", "copyLo")
  /\ state' = [state EXCEPT ![at[r]] = "READING"]
  /\ pinned' = pinned \cup {<<at[r], want[r]>>}
  /\ Release(r)
  /\ UNCHANGED <<gen, owner, registry, data, alive, at, want, writerVars, copy, refs, recovery>>

ReadCopyLo(r) ==
  /\ Goto(r, "copyLo", "copyHi")
  /\ copy' = [copy EXCEPT ![r] = <<lo[at[r]], 0>>]
  /\ UNCHANGED <<header, data, lock, alive, at, want, writerVars, history>>

ReadCopyHi(r) ==
  /\ Goto(r, "copyHi", "unpin")
  /\ copy' = [copy EXCEPT ![r] = <<@[1], hi[at[r]]>>]
  /\ UNCHANGED <<header, data, lock, alive, at, want, writerVars, history>>

UnpinAcquire(r) ==
  /\ Goto(r, "unpin", "unpinHeld")
  /\ Acquire(r)
  /\ UNCHANGED <<header, data, alive, at, want, writerVars, copy, history>>

(* The copy is returned all the same; the registry entry stays behind.     *)
UnpinTimeout(r) ==
  /\ Goto(r, "unpin", "idle")
  /\ TimesOut(r)
  /\ UNCHANGED <<header, data, lock, alive, at, want, writerVars, copy, history>>

(* Seeded fault: the first occupied entry is taken for one's own.          *)
FirstOccupied(reg, r) ==
  CHOOSE i \in Entries : reg[i] # NoProc /\ \A j \in Entries : reg[j] # NoProc => i <= j

(* The first entry holding the reader's identity is cleared.               *)
FirstOf(reg, r) ==
  CHOOSE i \in Entries : reg[i] = r /\ \A j \in Entries : reg[j] = r => i <= j

UnpinClear(r) ==
  LET s == at[r] IN
  /\ Goto(r, "unpinHeld", "unpinned")
  /\ registry' = IF \E i \in Entries : registry[s][i] = r
                 THEN [registry EXCEPT ![s][FirstOf(registry[s], r)] = NoProc]
                 ELSE registry
  /\ UNCHANGED <<state, gen, owner, data, lock, alive, at, want, writerVars, copy, history>>

(* The last reader out makes the slot DONE, whatever its state was.        *)
UnpinDone(r) ==
  LET s == at[r] IN
  /\ Goto(r, "unpinned", "release")
  /\ IF NoReader(s)
     THEN /\ state' = [state EXCEPT ![s] = "DONE"]
          /\ owner' = [owner EXCEPT ![s] = NoProc]
     ELSE UNCHANGED <<state, owner>>
  /\ UNCHANGED <<gen, registry, data, lock, alive, at, want, writerVars, copy, history>>

UnpinRelease(r) ==
  /\ Goto(r, "release", "idle")
  /\ Release(r)
  /\ UNCHANGED <<header, data, alive, at, want, writerVars, copy, history>>

--------------------------------------------------------------------------------
(* ShmRingBuffer.quarantine_poisoned_slot, entered after a lock timeout    *)
(* and run without the lock.  The two header snapshots must agree before   *)
(* anything is decided, but what is decided on is read after them: they    *)
(* can only turn a decision into a refusal (Spare).  The state is read     *)
(* first; owner or registry, read later, may be of another time.           *)

(* Seeded fault: a slot being read is not considered.                      *)
SuspectOwned(p) ==
  /\ state[at[p]] \in {"WRITING", "READY"}
  /\ Goto(p, "suspect", "judgeOwner")
  /\ UNCHANGED <<header, data, lock, alive, at, want, writerVars, copy, history>>

Suspect(p) ==
  \/ /\ state[at[p]] \in {"WRITING", "READY"}
     /\ Goto(p, "suspect", "judgeOwner")
     /\ UNCHANGED <<header, data, lock, alive, at, want, writerVars, copy, history>>
  \/ /\ state[at[p]] = "READING"
     /\ Goto(p, "suspect", "judgeReaders")
     /\ UNCHANGED <<header, data, lock, alive, at, want, writerVars, copy, history>>

(* Nobody (pid 0) counts as dead.                                          *)
Dead(p) == p # NoProc => ~alive[p]

(* The owner, or every registered reader, is dead and its lease expired.   *)
Condemn(p) ==
  \/ /\ Dead(owner[at[p]])
     /\ Goto(p, "judgeOwner", "doom")
     /\ UNCHANGED <<header, data, lock, alive, at, want, writerVars, copy, history>>
  \/ /\ \A i \in Entries : Dead(registry[at[p]][i])
     /\ Goto(p, "judgeReaders", "doom")
     /\ UNCHANGED <<header, data, lock, alive, at, want, writerVars, copy, history>>

(* What the caller does after the recovery attempt, whatever its outcome.  *)
GiveUpSlot(p) ==
  IF p = Writer
  THEN SkipSlot
  ELSE pc' = [pc EXCEPT ![p] = "idle"] /\ UNCHANGED <<at, tried>>

(* Torn snapshot, lease still running, owner alive or UNKNOWN, nothing to  *)
(* recover.                                                                *)
Spare(p) ==
  /\ alive[p]
  /\ pc[p] \in {"suspect", "judgeOwner", "judgeReaders"}
  /\ GiveUpSlot(p)
  /\ UNCHANGED <<header, data, lock, alive, want, nextSlot, nextGen, copy, history>>

(* The verdict is stored without the lock ...                              *)
Quarantine(p) ==
  /\ Goto(p, "doom", "counting")
  /\ state' = [state EXCEPT ![at[p]] = "QUARANTINED"]
  /\ tally' = [tally EXCEPT ![p] = NoTally]
  /\ UNCHANGED <<gen, owner, registry, data, lock, alive, at, want, writerVars, copy,
                 refs, pinned, rebuild>>

(* ... then the slots are looked at one by one, without their locks ...    *)
CountSlot(p) ==
  LET s == tally[p].next IN
  /\ s < NSlots
  /\ Goto(p, "counting", "counting")
  /\ tally' = [tally EXCEPT ![p] =
       [next |-> s + 1, found |-> IF state[s] = "QUARANTINED" THEN @.found + 1 ELSE @.found]]
  /\ UNCHANGED <<header, data, lock, alive, at, want, writerVars, copy, refs, pinned, rebuild>>

(* Seeded fault: the threshold itself is not enough.                       *)
ReportAbove(p) ==
  /\ alive[p]
  /\ pc[p] = "counting" /\ tally[p].next = NSlots
  /\ rebuild' = (rebuild \/ tally[p].found > RebuildThreshold)
  /\ tally' = [tally EXCEPT ![p] = NoTally]
  /\ GiveUpSlot(p)
  /\ UNCHANGED <<header, data, lock, alive, want, nextSlot, nextGen, copy, refs, pinned>>

(* ... and the rebuild is asked for if enough of them were quarantined.    *)
Report(p) ==
  /\ alive[p]
  /\ pc[p] = "counting" /\ tally[p].next = NSlots
  /\ rebuild' = (rebuild \/ tally[p].found >= RebuildThreshold)
  /\ tally' = [tally EXCEPT ![p] = NoTally]
  /\ GiveUpSlot(p)
  /\ UNCHANGED <<header, data, lock, alive, want, nextSlot, nextGen, copy, refs, pinned>>

--------------------------------------------------------------------------------
(* A process dies where it stands; the locks it holds stay held.           *)
Crash(p) ==
  /\ p \in Mortal
  /\ alive[p]
  /\ alive' = [alive EXCEPT ![p] = FALSE]
  /\ UNCHANGED <<header, data, lock, pc, at, want, writerVars, copy, history>>

Recover(p) == Suspect(p) \/ Condemn(p) \/ Spare(p) \/ Quarantine(p) \/ CountSlot(p) \/ Report(p)

WriteStep ==
  \/ WritePeek \/ WriteAcquire \/ WriteTimeout \/ WriteMark \/ WriteSkipBusy
  \/ WriteCopyLo \/ WriteCopyHi
  \/ WriteCommitAcquire \/ WriteCommitTimeout \/ WriteCommit
  \/ Recover(Writer)

ReadStep(r) ==
  \/ ReadPeek(r) \/ ReadAcquire(r) \/ ReadTimeout(r) \/ ReadStale(r)
  \/ ReadPin(r) \/ ReadRegistryFull(r) \/ ReadPinned(r)
  \/ ReadCopyLo(r) \/ ReadCopyHi(r)
  \/ UnpinAcquire(r) \/ UnpinTimeout(r) \/ UnpinClear(r) \/ UnpinDone(r) \/ UnpinRelease(r)
  \/ Recover(r)

ReadAny(r) == \E ref \in refs : ReadStart(r, ref)

Next ==
  \/ WriteStart
  \/ WriteStep
  \/ \E r \in Readers : ReadAny(r) \/ ReadStep(r)
  \/ \E p \in Proc : Crash(p)

Spec == Init /\ [][Next]_vars

(* A call in progress keeps running while its process lives: no step waits *)
(* for anything but a lock, and every acquire has a timeout.               *)
CallFairness == WF_vars(WriteStep) /\ \A r \in Readers : WF_vars(ReadStep(r))

FairSpec == Spec /\ CallFairness

(* The camera loop and the readers also keep making calls, and a recovery  *)
(* that is attempted again and again meets an expired lease and two equal  *)
(* snapshots in the end.                                                   *)
Busy ==
  /\ WF_vars(WriteStart) /\ \A r \in Readers : WF_vars(ReadAny(r))
  /\ \A p \in Proc : SF_vars(Suspect(p)) /\ SF_vars(Condemn(p))

BusySpec == FairSpec /\ Busy

--------------------------------------------------------------------------------
(* Properties.                                                             *)

TypeOK ==
  /\ state \in [Slots -> SlotState]
  /\ gen \in [Slots -> Nat]
  /\ owner \in [Slots -> {Writer, NoProc}]
  /\ registry \in [Slots -> [Entries -> Readers \cup {NoProc}]]
  /\ lo \in [Slots -> Nat] /\ hi \in [Slots -> Nat]
  /\ lock \in [Slots -> Proc \cup {NoProc}]
  /\ alive \in [Proc -> BOOLEAN]
  /\ pc \in [Proc -> WriterPc \cup ReaderPc]
  /\ pc[Writer] \in WriterPc /\ \A r \in Readers : pc[r] \in ReaderPc
  /\ at \in [Proc -> Slots]
  /\ want \in [Proc -> Nat]
  /\ tried \in 0 .. NSlots - 1 /\ nextSlot \in Slots /\ nextGen \in Nat \ {0}
  /\ copy \in [Readers -> Nat \X Nat]
  /\ refs \in SUBSET (Slots \X Nat) /\ pinned \in SUBSET (Slots \X Nat)
  /\ tally \in [Proc -> [next : 0 .. NSlots, found : Nat]] /\ rebuild \in BOOLEAN

WriterCopying(s) ==
  alive[Writer] /\ at[Writer] = s /\ pc[Writer] \in {"copyLo", "copyHi", "commit", "committing"}

ReaderCopying(r, s) ==
  alive[r] /\ at[r] = s /\ pc[r] \in {"copyLo", "copyHi"}

(* A frame that read() hands back is whole and is the frame of the ref it  *)
(* was asked for, although both sides copy without the lock.               *)
NoTornFrame ==
  \A r \in Readers :
    alive[r] /\ pc[r] \in {"unpin", "unpinHeld", "unpinned", "release"}
      => copy[r] = <<want[r], want[r]>>

(* A slot is never copied out of while it is being copied into, whatever   *)
(* dies, is reaped or is quarantined meanwhile.                            *)
CopyExclusion ==
  \A s \in Slots, r \in Readers : ~(WriterCopying(s) /\ ReaderCopying(r, s))

(* The registry entry that protects a slot is not reaped while the reader  *)
(* it stands for is alive and still copying, however late it is (R-2.2).   *)
LivePinKept ==
  \A s \in Slots, r \in Readers :
    ReaderCopying(r, s) => \E i \in Entries : registry[s][i] = r

(* A published frame is overwritten only after some reader has pinned it:  *)
(* "NEVER overwrites READY (would silently drop)".                         *)
NoSilentOverwrite ==
  \A ref \in refs : gen[ref[1]] # ref[2] => ref \in pinned

Quarantined == {s \in Slots : state[s] = "QUARANTINED"}

Degraded == Cardinality(Quarantined) >= RebuildThreshold

(* The process is counting, and none of the slots that are quarantined now *)
(* is missing from what it has counted so far.                             *)
CountsAll(p) ==
  /\ pc[p] = "counting"
  /\ Cardinality({s \in Quarantined : s < tally[p].next}) <= tally[p].found

(* A ring that is down to half of its slots has asked for a rebuild, or is *)
(* about to: slots may be quarantined, and lock holders may store over     *)
(* QUARANTINED, while others count, and yet some process counts them all.  *)
(* That process may have died counting: then nobody asks.                  *)
DegradedRingAsksRebuild ==
  Degraded => rebuild \/ \E p \in Proc : CountsAll(p)

(* Documented, and not true of the code: the threshold triggers a request, *)
(* unless the ring recovers first.  A process that dies between its store  *)
(* and its request leaves a ring that stays degraded and never asks ...    *)
DegradedRingAsked == Degraded ~> rebuild \/ ~Degraded

(* ... and that is the only way to leave one.                              *)
DegradedRingRebuilt ==
  [](\A p \in Proc : pc[p] = "counting" => alive[p]) => DegradedRingAsked

(* Every write() and every read() returns, even with a lock poisoned.      *)
CallsReturn ==
  \A p \in Proc : pc[p] # "idle" ~> (pc[p] = "idle" \/ ~alive[p])

(* Documented, and not true of the code: QUARANTINED is terminal.          *)
QuarantineIsTerminal ==
  [][\A s \in Slots : state[s] = "QUARANTINED" => state'[s] = "QUARANTINED"]_vars

(* Documented, and not true of the code: a slot whose owner is alive and   *)
(* writing is not quarantined.                                             *)
LiveOwnerSpared ==
  \A s \in Slots : WriterCopying(s) => state[s] = "WRITING"

(* A slot whose lock died with a reader, and which no live reader pins, is *)
(* taken out of service as long as the writer lives to trip over it and    *)
(* calls keep being made (until the bound on generations ends them).       *)
PoisonedReadQuarantined ==
  Busy => \A s \in Slots, r \in Readers :
    (/\ lock[s] = r /\ ~alive[r] /\ state[s] = "READING"
     /\ \A i \in Entries : Dead(registry[s][i]))
      ~> (state[s] = "QUARANTINED" \/ ~alive[Writer] \/ nextGen > MaxGen)

(* Documented, and not true of the code: the registry entry of a dead      *)
(* reader whose lease has expired is reaped (its slot's lock being sound). *)
DeadReaderReaped ==
  \A s \in Slots, i \in Entries, r \in Readers :
    (registry[s][i] = r /\ ~alive[r] /\ lock[s] # r) ~> registry[s][i] # r

(* Documented, and not true of the code: a slot whose lock died with a     *)
(* reader becomes terminal.                                                *)
PoisonedSlotTerminal ==
  \A s \in Slots, r \in Readers :
    (lock[s] = r /\ ~alive[r]) ~> state[s] = "QUARANTINED"

--------------------------------------------------------------------------------
(* The inductive invariant behind CopyExclusion, LivePinKept, NoTornFrame  *)
(* and NoSilentOverwrite.  QUARANTINED is written without the lock, so no  *)
(* part may rely on the state of a slot staying what its lock holder saw.  *)

LockPc == {"held", "committing", "pinned", "unpinHeld", "unpinned", "release"}

(* Whoever is inside a critical section holds the lock.                    *)
LockInv == \A p \in Proc : pc[p] \in LockPc => lock[at[p]] = p

PinPc == {"pinned", "copyLo", "copyHi", "unpin", "unpinHeld"}

Pins(r) == alive[r] /\ pc[r] \in PinPc

(* While a live reader pins a slot its entry stands, and the slot still    *)
(* holds, whole, the generation the reader came for.                       *)
PinInv ==
  \A r \in Readers :
    LET s == at[r] IN
    /\ Pins(r) => \E i \in Entries : registry[s][i] = r
    /\ Pins(r) \/ (alive[r] /\ pc[r] = "unpinned") =>
         gen[s] = want[r] /\ lo[s] = want[r] /\ hi[s] = want[r]

WritePc == {"copyLo", "copyHi", "commit", "committing"}

(* The slot being written is WRITING or has been quarantined meanwhile,    *)
(* and no live reader pins it or is about to declare it DONE.              *)
WriterAlone ==
  LET s == at[Writer] IN
  pc[Writer] \in WritePc =>
    /\ state[s] \in {"WRITING", "QUARANTINED"}
    /\ gen[s] = want[Writer]
    /\ \A r \in Readers : alive[r] /\ at[r] = s => pc[r] \notin PinPc \cup {"unpinned"}

(* A readable slot is whole.                                               *)
DataInv ==
  /\ \A s \in Slots : state[s] \in {"READY", "READING"} => lo[s] = gen[s] /\ hi[s] = gen[s]
  /\ pc[Writer] \in {"copyHi", "commit", "committing"} => lo[at[Writer]] = want[Writer]
  /\ pc[Writer] \in {"commit", "committing"} => hi[at[Writer]] = want[Writer]

CopyInv ==
  \A r \in Readers :
    /\ alive[r] /\ pc[r] = "copyHi" => copy[r][1] = want[r]
    /\ alive[r] /\ pc[r] \in {"unpin", "unpinHeld", "unpinned", "release"} =>
         copy[r] = <<want[r], want[r]>>

(* A slot falls back to DONE only after its frame was pinned.              *)
HistoryInv ==
  /\ \A r \in Readers :
       alive[r] /\ pc[r] \in {"copyLo", "copyHi", "unpin", "unpinHeld", "unpinned"} =>
         <<at[r], want[r]>> \in pinned
  /\ \A s \in Slots :
       /\ state[s] = "FREE" => <<s, gen[s]>> \notin refs
       /\ state[s] = "DONE" => <<s, gen[s]>> \in pinned

IInv ==
  /\ TypeOK /\ LockInv /\ PinInv /\ WriterAlone
  /\ DataInv /\ CopyInv /\ HistoryInv /\ NoSilentOverwrite

--------------------------------------------------------------------------------
(* The ring as a channel of frames: a call is what the reader's program     *)
(* counter says of it, over when its process is dead.                      *)

CallPhase(r) ==
  CASE ~alive[r] \/ pc[r] = "idle" -> "idle"
    [] alive[r] /\ pc[r] \in {"peek", "acquire", "held", "pinned", "suspect",
                              "judgeOwner", "judgeReaders", "doom", "counting"} -> "asked"
    [] alive[r] /\ pc[r] \in {"copyLo", "copyHi"} -> "taking"
    [] alive[r] /\ pc[r] \in {"unpin", "unpinHeld", "unpinned", "release"} -> "got"

CallOf(r) ==
  [phase |-> CallPhase(r),
   ref   |-> IF CallPhase(r) = "idle" THEN <<>> ELSE <<at[r], want[r]>>,
   frame |-> IF CallPhase(r) = "got" THEN copy[r] ELSE <<>>]

Channel == INSTANCE FrameChannel WITH
  Places <- Slots, Generations <- 1 .. MaxGen, NoRef <- <<>>, NoFrame <- <<>>,
  published <- refs, taken <- pinned, call <- [r \in Readers |-> CallOf(r)]

(* The ring implements the channel: every frame that comes out is the one   *)
(* asked for and whole, none is overwritten untaken or while it is taken.   *)
ImplementsChannel == Channel!Spec

================================================================================
