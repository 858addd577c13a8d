--------------------------- MODULE SupervisorProofs ---------------------------
(***************************************************************************)
(* Proofs about Supervisor for every number of workers, every choice of    *)
(* cooperative, beating and postponed ones and every cap on the restarts,  *)
(* whether or not a worker may die inside an access to shared memory: a    *)
(* worker has one process at a time, and the shutdown is orderly.          *)
(***************************************************************************)
EXTENDS Supervisor, TLAPS

(***************************************************************************)
(* The inductive invariant.                                                *)
(***************************************************************************)

(* Between two rounds of its loop run() is at the first worker.            *)
AtFirst == sup.pc \in {"top", "event"} => sup.w = 1

(* Only a worker that run() keeps track of has a live process.             *)
UntrackedDown == \A w \in Workers : Alive(w) => w \in tracked

(* While the workers are started, those that are still to come are not     *)
(* tracked, none has failed and none waits.                                *)
StartFresh ==
  At("start") =>
    /\ \A w \in Workers : w >= sup.w => w \notin tracked
    /\ count = [w \in Workers |-> 0]
    /\ pending = {}

(* The worker that is being terminated is tracked; once it has failed, it  *)
(* is down until it is spawned again.                                      *)
FailedDown ==
  /\ sup.pc \in {"beat", "terminate", "kill", "failed", "respawn"} => sup.w \in tracked
  /\ sup.pc \in {"failed", "respawn"} => ~Alive(sup.w)

(* What is tracked or waits to be has not used up its restarts.            *)
WithinCap == \A w \in tracked \cup pending : count[w] <= MaxRestarts

(* The event is set exactly when the shutdown has begun.                   *)
EventSet == event <=> sup.pc \in {"join", "term", "straggler", "done"}

CooperativeDown(w) == w \in Cooperative => ~Alive(w) \/ w \notin tracked

(* The workers that have been joined are down, or the grace is over.       *)
Joined ==
  /\ At("join") => graceOver \/ \A w \in Workers : w < sup.w => CooperativeDown(w)
  /\ sup.pc \in {"term", "straggler", "done"} =>
       graceOver \/ \A w \in Workers : CooperativeDown(w)

(* The stragglers that have been dealt with are down.                      *)
StragglersDown ==
  /\ At("straggler") => \A w \in Workers : w < sup.w => ~Alive(w)
  /\ At("done") => \A w \in Workers : ~Alive(w)

SupervisorInv ==
  /\ TypeOK
  /\ stray = 0
  /\ AtFirst
  /\ UntrackedDown
  /\ StartFresh
  /\ FailedDown
  /\ WithinCap
  /\ EventSet
  /\ Joined
  /\ StragglersDown

(***************************************************************************)
(* What the helpers of run() do.                                           *)
(***************************************************************************)

(* On to the next worker, or to the first one of what comes after.         *)
LEMMA AdvanceSound ==
  ASSUME TypeOK, NEW pc, NEW after, Advance(pc, after)
  PROVE  /\ sup' = [pc |-> sup'.pc, w |-> sup'.w]
         /\ sup'.w \in Workers
         /\ \/ sup'.pc = pc /\ sup'.w = sup.w + 1
            \/ sup'.pc = after /\ sup.w = N /\ sup'.w = 1
  <1>1. N \in Nat /\ N >= 1 /\ sup.w \in 1 .. N
    BY SupervisorAssumption DEF SupervisorAssumption, TypeOK, Workers
  <1>2. CASE sup.w < N
    BY <1>1, <1>2 DEF Advance, Workers
  <1>3. CASE ~(sup.w < N)
    BY <1>1, <1>3 DEF Advance, Workers
  <1> QED
    BY <1>2, <1>3

(* A worker that is down gets its one process; the others keep theirs.     *)
LEMMA SpawnSound ==
  ASSUME TypeOK, NEW w \in Workers, ~Alive(w), Spawn(w)
  PROVE  /\ child' \in [Workers -> {"none", "work", "beat", "poll", "hung", "exited", "killed"}]
         /\ stray' = stray
         /\ tracked' = tracked \cup {w} /\ tracked' \subseteq Workers
         /\ late' \subseteq Beating /\ hbHeld' \subseteq Beating
         /\ \A v \in Workers : Alive(v)' <=> Alive(v) \/ v = w
  <1>1. stray' = stray
    BY DEF Spawn, TypeOK
  <1>2. child' = [child EXCEPT ![w] = "work"]
    BY DEF Spawn
  <1>3. \A v \in Workers : Alive(v)' <=> Alive(v) \/ v = w
    BY <1>2 DEF Alive, TypeOK
  <1>4. tracked' = tracked \cup {w} /\ tracked' \subseteq Workers
    BY DEF Spawn, TypeOK
  <1> QED
    BY <1>1, <1>2, <1>3, <1>4 DEF Spawn, TypeOK

(* A signal ends the process of one worker, or nobody's.                   *)
LEMMA SignalSound ==
  ASSUME TypeOK, NEW w \in Workers, Sigterm(w) \/ Sigkill(w) \/ UNCHANGED child
  PROVE  /\ child' \in [Workers -> {"none", "work", "beat", "poll", "hung", "exited", "killed"}]
         /\ \A v \in Workers : Alive(v)' => Alive(v)
         /\ Sigkill(w) => ~Alive(w)'
  <1>1. child \in [Workers -> {"none", "work", "beat", "poll", "hung", "exited", "killed"}]
    BY DEF TypeOK
  <1>2. CASE Sigterm(w)
    <2>1. child' = [child EXCEPT ![w] = "killed"] \/ child' = child
      BY <1>2 DEF Sigterm
    <2>2. child' = child /\ Sigkill(w) => ~Alive(w)'
      BY <1>1 DEF Sigkill, Alive
    <2> QED
      BY <1>1, <2>1, <2>2 DEF Alive
  <1>3. CASE Sigkill(w)
    BY <1>1, <1>3 DEF Sigkill, Alive
  <1>4. CASE UNCHANGED child
    BY <1>1, <1>4 DEF Sigkill, Alive
  <1> QED
    BY <1>2, <1>3, <1>4

(* In the initial state no worker has been started.                        *)
LEMMA SupervisorInit == Init => SupervisorInv
  <1> USE SupervisorAssumption
      DEF Init, SupervisorInv, TypeOK, AtFirst, UntrackedDown, StartFresh, FailedDown, WithinCap, EventSet,
      Joined, StragglersDown, CooperativeDown, At, Alive, Workers
  <1> SUFFICES ASSUME Init PROVE SupervisorInv
    OBVIOUS
  <1>1. TypeOK
    <2>1. sup \in [pc : {"start", "top", "look", "beat", "terminate", "kill", "failed", "respawn",
                        "event", "join", "term", "straggler", "done"},
                  w : Workers]
      OBVIOUS
    <2>2. count \in [Workers -> 0 .. MaxRestarts + 1]
      OBVIOUS
    <2> QED
      BY <2>1, <2>2
  <1>2. UntrackedDown /\ StartFresh /\ FailedDown /\ WithinCap /\ EventSet
    OBVIOUS
  <1>3. Joined /\ StragglersDown /\ AtFirst
    OBVIOUS
  <1> QED
    BY <1>1, <1>2, <1>3

(* Every step of run(), of a worker or of the clocks preserves it.         *)
LEMMA SupervisorStep == SupervisorInv /\ [Next]_vars => SupervisorInv'
  <1> SUFFICES ASSUME SupervisorInv, [Next]_vars
               PROVE  SupervisorInv'
    OBVIOUS
  <1> USE SupervisorAssumption
      DEF SupervisorInv, TypeOK, AtFirst, UntrackedDown, StartFresh, FailedDown, WithinCap,
          EventSet, Joined, StragglersDown, CooperativeDown, At, Alive, Workers, books, procs, down
  <1>1. CASE Start
    <2>1. sup.w \in Workers /\ ~Alive(sup.w)
      BY <1>1 DEF Start
    <2>2. Spawn(sup.w) /\ Advance("start", "top")
      BY <1>1 DEF Start
    <2>3. /\ child' \in [Workers -> {"none", "work", "beat", "poll", "hung", "exited", "killed"}]
          /\ stray' = 0
          /\ tracked' = tracked \cup {sup.w} /\ tracked' \subseteq Workers
          /\ late' \subseteq Beating /\ hbHeld' \subseteq Beating
          /\ \A v \in Workers : Alive(v)' <=> Alive(v) \/ v = sup.w
      <3> HIDE DEF Alive, Workers
      <3> QED
        BY <2>1, <2>2, SpawnSound
    <2>4. /\ sup' = [pc |-> sup'.pc, w |-> sup'.w] /\ sup'.w \in Workers
          /\ \/ sup'.pc = "start" /\ sup'.w = sup.w + 1
             \/ sup'.pc = "top" /\ sup'.w = 1
      <3> HIDE DEF TypeOK, Workers
      <3> QED
        BY <2>2, AdvanceSound
    <2>5. TypeOK'
      BY <1>1, <2>3, <2>4 DEF Start
    <2>6. (StartFresh /\ AtFirst /\ FailedDown)'
      BY <1>1, <2>3, <2>4 DEF Start
    <2>7. (UntrackedDown /\ WithinCap)'
      BY <1>1, <2>3, <2>4 DEF Start
    <2>8. (EventSet /\ Joined /\ StragglersDown)'
      BY <1>1, <2>3, <2>4 DEF Start
    <2> QED
      BY <2>3, <2>5, <2>6, <2>7, <2>8
  <1>2. CASE Top
    <2> USE <1>2 DEF Top, Goto
    <2>1. TypeOK' /\ stray' = 0
      OBVIOUS
    <2>2. (UntrackedDown /\ StartFresh /\ WithinCap)'
      OBVIOUS
    <2>3. (AtFirst /\ FailedDown /\ EventSet)'
      OBVIOUS
    <2>4. (Joined /\ StragglersDown)'
      OBVIOUS
    <2> QED
      BY <2>1, <2>2, <2>3, <2>4
  <1>3. CASE LookUntracked
    BY <1>3, SMTT(30) DEF LookUntracked, Advance
  <1>4. CASE LookDue
    <2>1. sup.w \in Workers /\ ~Alive(sup.w)
      BY <1>4 DEF LookDue
    <2>2. Spawn(sup.w) /\ Advance("look", "top")
      BY <1>4 DEF LookDue
    <2>3. /\ child' \in [Workers -> {"none", "work", "beat", "poll", "hung", "exited", "killed"}]
          /\ stray' = 0
          /\ tracked' = tracked \cup {sup.w} /\ tracked' \subseteq Workers
          /\ late' \subseteq Beating /\ hbHeld' \subseteq Beating
          /\ \A v \in Workers : Alive(v)' <=> Alive(v) \/ v = sup.w
      <3> HIDE DEF Alive, Workers
      <3> QED
        BY <2>1, <2>2, SpawnSound
    <2>4. /\ sup' = [pc |-> sup'.pc, w |-> sup'.w] /\ sup'.w \in Workers
          /\ \/ sup'.pc = "look" /\ sup'.w = sup.w + 1
             \/ sup'.pc = "top" /\ sup'.w = 1
      <3> HIDE DEF TypeOK, Workers
      <3> QED
        BY <2>2, AdvanceSound
    <2>5. TypeOK'
      BY <1>4, <2>3, <2>4 DEF LookDue
    <2>6. (StartFresh /\ AtFirst /\ FailedDown)'
      BY <1>4, <2>3, <2>4 DEF LookDue
    <2>7. (UntrackedDown /\ WithinCap)'
      BY <1>4, <2>3, <2>4 DEF LookDue
    <2>8. (EventSet /\ Joined /\ StragglersDown)'
      BY <1>4, <2>3, <2>4 DEF LookDue
    <2> QED
      BY <2>3, <2>5, <2>6, <2>7, <2>8
  <1>5. CASE LookCrashed
    BY <1>5, SMTT(30) DEF LookCrashed, Goto
  <1>6. CASE LookAlive
    BY <1>6, SMTT(30) DEF LookAlive, Goto, Advance
  <1>7. CASE BeatSeen
    BY <1>7, SMTT(30) DEF BeatSeen, Advance
  <1>8. CASE BeatMissed
    BY <1>8, SMTT(30) DEF BeatMissed, Goto
  <1>9. CASE Terminate
    <2>1. UNCHANGED <<stop, tracked, count, pending, due, stray, late, hbHeld, event, evHeld, graceOver>>
      BY <1>9 DEF Terminate
    <2>2. /\ sup' = [pc |-> "kill", w |-> sup.w] /\ sup'.w \in Workers /\ sup.w \in Workers
          /\ sup.pc = "terminate" /\ sup'.pc = "kill" /\ sup'.w = sup.w
      BY <1>9 DEF Terminate, Goto
    <2>3. /\ child' \in [Workers -> {"none", "work", "beat", "poll", "hung", "exited", "killed"}]
          /\ \A v \in Workers : Alive(v)' => Alive(v)
      <3>1. Sigterm(sup.w)
        BY <1>9 DEF Terminate
      <3> HIDE DEF TypeOK, Workers, Alive
      <3>2. sup.w \in Workers
        BY DEF TypeOK
      <3> QED
        BY <3>1, <3>2, SignalSound
    <2>4. TypeOK'
      BY <2>1, <2>2, <2>3
    <2> HIDE DEF TypeOK, Alive, Workers
    <2>5. (AtFirst /\ UntrackedDown /\ StartFresh /\ FailedDown)'
      BY <2>1, <2>2, <2>3
    <2>6. (WithinCap /\ EventSet /\ stray = 0)'
      BY <2>1, <2>2
    <2>7. (Joined /\ StragglersDown)'
      BY <2>1, <2>2, <2>3 DEF Workers
    <2> QED
      BY <2>4, <2>5, <2>6, <2>7
  <1>10. CASE Kill
    <2>1. UNCHANGED <<stop, tracked, count, pending, due, stray, late, hbHeld, event, evHeld, graceOver>>
      BY <1>10 DEF Kill
    <2>2. /\ sup' = [pc |-> "failed", w |-> sup.w] /\ sup'.w \in Workers /\ sup.w \in Workers
          /\ sup.pc = "kill" /\ sup'.pc = "failed" /\ sup'.w = sup.w
      BY <1>10 DEF Kill, Goto
    <2>0. PICK w \in Workers : w = sup.w
      BY <2>2
    <2>3. /\ child' \in [Workers -> {"none", "work", "beat", "poll", "hung", "exited", "killed"}]
          /\ \A v \in Workers : Alive(v)' => Alive(v)
          /\ ~Alive(w)'
      <3>1. Sigkill(w)
        BY <1>10, <2>0 DEF Kill
      <3> HIDE DEF TypeOK, Workers, Alive
      <3> QED
        BY <3>1, SignalSound
    <2>4. TypeOK'
      BY <2>1, <2>2, <2>3
    <2> HIDE DEF TypeOK, Alive, Workers
    <2>5. (AtFirst /\ UntrackedDown /\ StartFresh /\ FailedDown)'
      <3>1. sup'.w = w
        BY <2>0, <2>2
      <3>2. ~Alive(sup.w)'
        BY <2>3, <3>1
      <3> QED
        BY <2>1, <2>2, <2>3, <3>2
    <2>6. (WithinCap /\ EventSet /\ stray = 0)'
      BY <2>1, <2>2
    <2>7. (Joined /\ StragglersDown)'
      BY <2>1, <2>2, <2>3 DEF Workers
    <2> QED
      BY <2>4, <2>5, <2>6, <2>7
  <1>11. CASE GiveUp
    <2>1. /\ sup' = [pc |-> sup'.pc, w |-> sup'.w] /\ sup'.w \in Workers
          /\ \/ sup'.pc = "look" /\ sup'.w = sup.w + 1
             \/ sup'.pc = "top" /\ sup'.w = 1
      <3>1. Advance("look", "top")
        BY <1>11 DEF GiveUp
      <3> HIDE DEF TypeOK, Workers
      <3> QED
        BY <3>1, AdvanceSound
    <2>2. count' \in [Workers -> 0 .. MaxRestarts + 1]
      BY <1>11 DEF GiveUp
    <2>3. tracked' \subseteq Workers /\ pending' \subseteq Workers /\ due' \subseteq Workers
      <3> HIDE SupervisorAssumption DEF Workers
      <3>1. sup.w \in Workers
        OBVIOUS
      <3> QED
        BY <1>11, <3>1 DEF GiveUp
    <2>4. TypeOK'
      BY <1>11, <2>1, <2>2, <2>3 DEF GiveUp
    <2>5. (StartFresh /\ AtFirst /\ FailedDown)'
      BY <1>11, <2>1 DEF GiveUp
    <2>6. (UntrackedDown /\ WithinCap)'
      BY <1>11, <2>1 DEF GiveUp, TooOften
    <2>7. (EventSet /\ Joined /\ StragglersDown)'
      BY <1>11, <2>1 DEF GiveUp
    <2> QED
      BY <1>11, <2>4, <2>5, <2>6, <2>7 DEF GiveUp
  <1>12. CASE Restart
    BY <1>12, SMTT(30) DEF Restart, Goto, TooOften
  <1>13. CASE Respawn
    <2>1. sup.w \in Workers /\ ~Alive(sup.w)
      BY <1>13 DEF Respawn
    <2>2. Spawn(sup.w) /\ Advance("look", "top")
      BY <1>13 DEF Respawn
    <2>3. /\ child' \in [Workers -> {"none", "work", "beat", "poll", "hung", "exited", "killed"}]
          /\ stray' = 0
          /\ tracked' = tracked \cup {sup.w} /\ tracked' \subseteq Workers
          /\ late' \subseteq Beating /\ hbHeld' \subseteq Beating
          /\ \A v \in Workers : Alive(v)' <=> Alive(v) \/ v = sup.w
      <3> HIDE DEF Alive, Workers
      <3> QED
        BY <2>1, <2>2, SpawnSound
    <2>4. /\ sup' = [pc |-> sup'.pc, w |-> sup'.w] /\ sup'.w \in Workers
          /\ \/ sup'.pc = "look" /\ sup'.w = sup.w + 1
             \/ sup'.pc = "top" /\ sup'.w = 1
      <3> HIDE DEF TypeOK, Workers
      <3> QED
        BY <2>2, AdvanceSound
    <2>5. TypeOK'
      BY <1>13, <2>3, <2>4 DEF Respawn
    <2>6. (StartFresh /\ AtFirst /\ FailedDown)'
      BY <1>13, <2>3, <2>4 DEF Respawn
    <2>7. (UntrackedDown /\ WithinCap)'
      BY <1>13, <2>3, <2>4 DEF Respawn
    <2>8. (EventSet /\ Joined /\ StragglersDown)'
      BY <1>13, <2>3, <2>4 DEF Respawn
    <2> QED
      BY <2>3, <2>5, <2>6, <2>7, <2>8
  <1>14. CASE Postpone
    <2>1. /\ sup' = [pc |-> sup'.pc, w |-> sup'.w] /\ sup'.w \in Workers
          /\ \/ sup'.pc = "look" /\ sup'.w = sup.w + 1
             \/ sup'.pc = "top" /\ sup'.w = 1
      <3>1. Advance("look", "top")
        BY <1>14 DEF Postpone
      <3> HIDE DEF TypeOK, Workers
      <3> QED
        BY <3>1, AdvanceSound
    <2>2. count' \in [Workers -> 0 .. MaxRestarts + 1]
      BY <1>14 DEF Postpone
    <2>3. tracked' \subseteq Workers /\ pending' \subseteq Workers /\ due' \subseteq Workers
      <3> HIDE SupervisorAssumption DEF Workers
      <3>1. sup.w \in Workers
        OBVIOUS
      <3> QED
        BY <1>14, <3>1 DEF Postpone
    <2>4. TypeOK'
      BY <1>14, <2>1, <2>2, <2>3 DEF Postpone
    <2>5. (StartFresh /\ AtFirst /\ FailedDown)'
      BY <1>14, <2>1 DEF Postpone
    <2>6. (UntrackedDown /\ WithinCap)'
      BY <1>14, <2>1 DEF Postpone, TooOften
    <2>7. (EventSet /\ Joined /\ StragglersDown)'
      BY <1>14, <2>1 DEF Postpone
    <2> QED
      BY <1>14, <2>4, <2>5, <2>6, <2>7 DEF Postpone
  <1>15. CASE SetEvent
    <2> USE <1>15 DEF SetEvent, Goto
    <2>1. TypeOK' /\ stray' = 0
      OBVIOUS
    <2>2. (AtFirst /\ UntrackedDown /\ StartFresh /\ FailedDown /\ WithinCap)'
      OBVIOUS
    <2>3. (EventSet /\ Joined /\ StragglersDown)'
      OBVIOUS
    <2> QED
      BY <2>1, <2>2, <2>3
  <1>16. CASE Join
    BY <1>16, SMTT(30) DEF Join, Advance, MustWait
  <1>17. CASE CascadeTerm
    <2>1. UNCHANGED <<stop, tracked, count, pending, due, stray, late, hbHeld, event, evHeld, graceOver>>
      BY <1>17 DEF CascadeTerm
    <2>2. /\ sup' = [pc |-> sup'.pc, w |-> sup'.w] /\ sup'.w \in Workers /\ sup.w \in Workers
          /\ sup.pc = "term"
          /\ \/ sup'.pc = "term" /\ sup'.w = sup.w + 1
             \/ sup'.pc = "straggler" /\ sup.w = N /\ sup'.w = 1
      <3>1. Advance("term", "straggler") /\ sup.pc = "term"
        BY <1>17 DEF CascadeTerm
      <3> HIDE DEF TypeOK, Workers
      <3>2. sup.w \in Workers
        BY DEF TypeOK
      <3> QED
        BY <3>1, <3>2, AdvanceSound
    <2>3. /\ child' \in [Workers -> {"none", "work", "beat", "poll", "hung", "exited", "killed"}]
          /\ \A v \in Workers : Alive(v)' => Alive(v)
      <3>1. Sigterm(sup.w) \/ UNCHANGED child
        BY <1>17 DEF CascadeTerm
      <3> HIDE DEF TypeOK, Workers, Alive
      <3>2. sup.w \in Workers
        BY DEF TypeOK
      <3> QED
        BY <3>1, <3>2, SignalSound
    <2>4. TypeOK'
      BY <2>1, <2>2, <2>3
    <2> HIDE DEF TypeOK, Alive, Workers
    <2>5. (AtFirst /\ UntrackedDown /\ StartFresh /\ FailedDown)'
      BY <2>1, <2>2, <2>3
    <2>6. (WithinCap /\ EventSet /\ stray = 0)'
      BY <2>1, <2>2
    <2>7. (Joined /\ StragglersDown)'
      BY <2>1, <2>2, <2>3 DEF Workers
    <2> QED
      BY <2>4, <2>5, <2>6, <2>7
  <1>18. CASE CascadeKill
    <2>1. UNCHANGED <<stop, tracked, count, pending, due, stray, late, hbHeld, event, evHeld, graceOver>>
      BY <1>18 DEF CascadeKill
    <2>2. /\ sup' = [pc |-> sup'.pc, w |-> sup'.w] /\ sup'.w \in Workers /\ sup.w \in Workers
          /\ sup.pc = "straggler"
          /\ \/ sup'.pc = "straggler" /\ sup'.w = sup.w + 1
             \/ sup'.pc = "done" /\ sup.w = N /\ sup'.w = 1
      <3>1. Advance("straggler", "done") /\ sup.pc = "straggler"
        BY <1>18 DEF CascadeKill
      <3> HIDE DEF TypeOK, Workers
      <3>2. sup.w \in Workers
        BY DEF TypeOK
      <3> QED
        BY <3>1, <3>2, AdvanceSound
    <2>0. PICK w \in Workers : w = sup.w
      BY <2>2
    <2>3. /\ child' \in [Workers -> {"none", "work", "beat", "poll", "hung", "exited", "killed"}]
          /\ \A v \in Workers : Alive(v)' => Alive(v)
          /\ ~Alive(w)'
      <3>1. Sigkill(w) \/ (UNCHANGED child /\ ~Alive(w))
        <4> HIDE DEF TypeOK, Workers, Alive
        <4> QED
          BY <1>18, <2>0 DEF CascadeKill
      <3>2. UNCHANGED child => child' \in [Workers -> {"none", "work", "beat", "poll", "hung", "exited", "killed"}]
                               /\ \A v \in Workers : Alive(v)' <=> Alive(v)
        OBVIOUS
      <3> HIDE DEF TypeOK, Workers, Alive
      <3> QED
        BY <3>1, <3>2, SignalSound
    <2>4. TypeOK'
      BY <2>1, <2>2, <2>3
    <2> HIDE DEF TypeOK, Alive, Workers
    <2>5. (AtFirst /\ UntrackedDown /\ StartFresh /\ FailedDown)'
      BY <2>1, <2>2, <2>3
    <2>6. (WithinCap /\ EventSet /\ stray = 0)'
      BY <2>1, <2>2
    <2>7. Joined'
      BY <2>1, <2>2, <2>3
    <2>8. \A v \in Workers : v =< w => ~Alive(v)'
      <3>1. \A v \in Workers : v =< w => v < w \/ v = w
        BY DEF Workers
      <3>2. \A v \in Workers : v < w => ~Alive(v)
        BY <2>0, <2>2
      <3> QED
        BY <2>3, <3>1, <3>2
    <2>9. StragglersDown'
      <3>1. \A v \in Workers : (v < w + 1 => v =< w) /\ v =< N
        BY DEF Workers
      <3> QED
        BY <2>0, <2>2, <2>8, <3>1
    <2> QED
      BY <2>4, <2>5, <2>6, <2>7, <2>9
  <1>19. CASE RequestStop
    BY <1>19, SMTT(30) DEF RequestStop
  <1>20. CASE GraceOver
    BY <1>20, SMTT(30) DEF GraceOver
  <1>21. ASSUME NEW w \in Workers, Elapse(w)
         PROVE  SupervisorInv'
    BY <1>21, SMTT(30) DEF Elapse
  <1>22. ASSUME NEW w \in Workers, BackoffOver(w)
         PROVE  SupervisorInv'
    BY <1>22, SMTT(30) DEF BackoffOver
  <1>23. ASSUME NEW w \in Workers, BeatBegin(w)
         PROVE  SupervisorInv'
    BY <1>23, SMTT(30) DEF BeatBegin, ChildGoto
  <1>24. ASSUME NEW w \in Workers, BeatEnd(w)
         PROVE  SupervisorInv'
    BY <1>24, SMTT(30) DEF BeatEnd, ChildGoto
  <1>25. ASSUME NEW w \in Workers, PollBegin(w)
         PROVE  SupervisorInv'
    BY <1>25, SMTT(30) DEF PollBegin, ChildGoto
  <1>26. ASSUME NEW w \in Workers, PollEnd(w)
         PROVE  SupervisorInv'
    <2>1. PICK s \in {"exited", "work"} : child' = [child EXCEPT ![w] = s]
      BY <1>26 DEF PollEnd, ChildGoto
    <2>2. /\ UNCHANGED <<sup, stop, books, stray, late, hbHeld, event, graceOver>>
          /\ evHeld' = FALSE /\ child[w] = "poll"
      BY <1>26 DEF PollEnd, ChildGoto
    <2>3. child' \in [Workers -> {"none", "work", "beat", "poll", "hung", "exited", "killed"}]
      BY <2>1
    <2>4. TypeOK' /\ stray' = 0
      BY <2>2, <2>3
    <2>5. (UntrackedDown /\ StartFresh /\ FailedDown /\ AtFirst)'
      BY <2>1, <2>2, SMTT(30)
    <2>6. (WithinCap /\ EventSet)'
      BY <2>1, <2>2, SMTT(30)
    <2>7. (Joined /\ StragglersDown)'
      BY <2>1, <2>2, SMTT(30)
    <2> QED
      BY <2>4, <2>5, <2>6, <2>7
  <1>27. ASSUME NEW w \in Workers, Hang(w)
         PROVE  SupervisorInv'
    BY <1>27, SMTT(30) DEF Hang, ChildGoto
  <1>28. ASSUME NEW w \in Workers, Crash(w)
         PROVE  SupervisorInv'
    BY <1>28, SMTT(30) DEF Crash
  <1>29. CASE UNCHANGED vars
    BY <1>29 DEF vars
  <1> QED
    BY <1>1, <1>2, <1>3, <1>4, <1>5, <1>6, <1>7, <1>8, <1>9, <1>10, <1>11, <1>12, <1>13, <1>14, <1>15,
       <1>16, <1>17, <1>18, <1>19, <1>20, <1>21, <1>22, <1>23, <1>24, <1>25, <1>26, <1>27, <1>28, <1>29
    DEF Next, Run, Cascade, WorkerStep

(* The invariant holds in every reachable state.                           *)
THEOREM SupervisorInvariant == Spec => []SupervisorInv
  BY SupervisorInit, SupervisorStep, PTL DEF Spec

(* A worker never has two processes, and none is left when run() returns.  *)
THEOREM OneProcessAlways == Spec => []OneProcess
  <1>1. SupervisorInv => OneProcess
    BY DEF SupervisorInv, StragglersDown, OneProcess
  <1> QED
    BY <1>1, SupervisorInvariant, PTL

(* The variables are of their types.                                       *)
THEOREM SupervisorTyped == Spec => []TypeOK
  <1>1. SupervisorInv => TypeOK
    BY DEF SupervisorInv
  <1> QED
    BY <1>1, SupervisorInvariant, PTL

(* A process is killed in the shutdown only when the grace is over or      *)
(* every cooperative worker that is tracked is down.                       *)
LEMMA KilledInOrder ==
  ASSUME SupervisorInv, [Next]_vars,
         NEW w \in Workers, event, child[w] # "killed", child'[w] = "killed"
  PROVE  graceOver \/ \A v \in Cooperative : ~Alive(v) \/ v \notin tracked
  <1> USE DEF SupervisorInv, TypeOK
  <1>1. CASE CascadeTerm \/ CascadeKill
    <2>1. sup.pc \in {"term", "straggler", "done"}
      BY <1>1 DEF CascadeTerm, CascadeKill, At
    <2>2. Cooperative \subseteq Workers
      BY SupervisorAssumption DEF SupervisorAssumption
    <2> QED
      BY <2>1, <2>2 DEF Joined, CooperativeDown
  <1>2. CASE Terminate \/ Kill
    BY <1>2 DEF Terminate, Kill, At, EventSet
  <1>3. CASE Start \/ LookDue \/ Respawn
    BY <1>3 DEF Start, LookDue, Respawn, At, EventSet
  <1>4. CASE child' = child
    BY <1>4
  <1>5. ASSUME NEW v \in Workers, WorkerStep(v)
        PROVE  child' = child \/ \E s \in {"work", "beat", "poll", "hung", "exited"} :
                                   child' = [child EXCEPT ![v] = s]
    BY <1>5 DEF WorkerStep, BeatBegin, BeatEnd, PollBegin, PollEnd, Hang, Crash, ChildGoto
  <1>6. CASE \E v \in Workers : WorkerStep(v)
    BY <1>5, <1>6
  <1> QED
    BY <1>1, <1>2, <1>3, <1>4, <1>6
    DEF Next, Run, Cascade, vars, procs, Top, LookUntracked, LookCrashed, LookAlive, BeatSeen,
        BeatMissed, GiveUp, Restart, Postpone, SetEvent, Join, RequestStop, GraceOver,
        Elapse, BackoffOver

(* Only a worker that is within its restarts is spawned, and none once the *)
(* shutdown has begun.                                                     *)
LEMMA SpawnedInOrder ==
  ASSUME SupervisorInv, [Next]_vars, NEW w \in Workers, ~Alive(w), Alive(w)'
  PROVE  count[w] <= MaxRestarts /\ ~event
  <1> USE DEF SupervisorInv, TypeOK
  <1>1. CASE Start \/ LookDue \/ Respawn
    <2>1. w = sup.w
      BY <1>1 DEF Start, LookDue, Respawn, Spawn, Alive
    <2>2. ~event
      BY <1>1 DEF Start, LookDue, Respawn, At, EventSet
    <2>3. CASE Start
      <3>1. count = [v \in Workers |-> 0]
        BY <2>3 DEF Start, StartFresh
      <3> QED
        BY <2>2, <3>1, SupervisorAssumption DEF SupervisorAssumption
    <2>4. CASE LookDue \/ Respawn
      <3>1. sup.w \in tracked \cup pending
        BY <2>4 DEF LookDue, Respawn, FailedDown, At
      <3> QED
        BY <2>1, <2>2, <3>1 DEF WithinCap
    <2> QED
      BY <1>1, <2>2, <2>3, <2>4
  <1>2. CASE child' = child
    BY <1>2 DEF Alive
  <1>3. CASE \E v \in Workers : child' = [child EXCEPT ![v] = "killed"]
    BY <1>3 DEF Alive
  <1>4. ASSUME NEW v \in Workers, WorkerStep(v)
        PROVE  \E s \in STRING : Alive(v) /\ child' = [child EXCEPT ![v] = s]
    BY <1>4 DEF WorkerStep, BeatBegin, BeatEnd, PollBegin, PollEnd, Hang, Crash, ChildGoto, Alive
  <1>5. CASE \E v \in Workers : WorkerStep(v)
    BY <1>4, <1>5 DEF Alive
  <1>6. CASE Terminate \/ Kill \/ CascadeTerm \/ CascadeKill
    BY <1>2, <1>3, <1>6 DEF Terminate, Kill, CascadeTerm, CascadeKill, Sigterm, Sigkill
  <1> QED
    BY <1>1, <1>2, <1>5, <1>6
    DEF Next, Run, Cascade, vars, procs, Top, LookUntracked, LookCrashed, LookAlive, BeatSeen,
        BeatMissed, GiveUp, Restart, Postpone, SetEvent, Join, RequestStop, GraceOver,
        Elapse, BackoffOver

(* The shutdown is orderly, and a worker that was given up stays down.     *)
THEOREM ShutdownIsOrderly == Spec => ShutdownOrderly
  <1>1. SupervisorInv /\ [Next]_vars =>
          [\A w \in Workers :
             /\ event /\ child[w] # "killed" /\ child'[w] = "killed"
                  => graceOver \/ \A v \in Cooperative : ~Alive(v) \/ v \notin tracked
             /\ ~Alive(w) /\ Alive(w)' => count[w] <= MaxRestarts /\ ~event]_vars
    BY KilledInOrder, SpawnedInOrder
  <1> QED
    BY <1>1, SupervisorInvariant, PTL DEF Spec, ShutdownOrderly
================================================================================
