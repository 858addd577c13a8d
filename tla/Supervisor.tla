------------------------------ MODULE Supervisor ------------------------------
(***************************************************************************)
(* Supervisor.run() (application/supervisor.py) and its worker processes:  *)
(* it spawns them, finds the ones that crashed and the ones that have      *)
(* stopped beating, restarts them with a cap and a backoff, and on a stop  *)
(* shuts them down, the cooperative ones first.                            *)
(*                                                                         *)
(* Abstractions.                                                           *)
(*  - Clocks are predicates: late (no beat for heartbeat_timeout_s, or     *)
(*    since the spawn), due (the backoff is over), graceOver.              *)
(*  - A signal, request_stop() and the end of duration_s all set stop.     *)
(*  - SIGTERM ends a process or is ignored; SIGKILL ends it, within the    *)
(*    join that follows it.                                                *)
(*  - mp.Value and mp.Event take a lock around every access.  The          *)
(*    supervisor's own accesses are single steps that need the lock free;  *)
(*    a worker that dies in the middle of an access never gives it back.   *)
(***************************************************************************)
EXTENDS Integers

CONSTANTS
  N,            \* workers, in the order of the list
  Cooperative,  \* the workers with uses_shutdown_event
  Beating,      \* the workers with uses_heartbeat
  MaxRestarts,  \* max_restarts
  Backoff,      \* the workers whose restart_backoff_base_s > 0
  DieLocked     \* may a worker die inside an access to an mp.Value or mp.Event?

Workers == 1 .. N

ASSUME SupervisorAssumption ==
  /\ N \in Nat \ {0}
  /\ {Cooperative, Beating, Backoff} \subseteq SUBSET Workers
  /\ MaxRestarts \in Nat
  /\ DieLocked \in BOOLEAN

VARIABLES
  sup,       \* run(): what it does next, and with which worker
  stop,      \* _shutdown_requested, or duration_s is over
  tracked,   \* the keys of _procs
  count,     \* _restart_counts
  pending,   \* _pending_respawn
  due,       \* has _next_spawn_ok come?
  child,     \* the newest process of each worker
  stray,     \* older processes of it that were alive when it was spawned
  late,      \* is its last beat too old?
  hbHeld,    \* is the lock of its heartbeat held by a worker, dead or alive?
  event,     \* _shutdown_event
  evHeld,    \* is the event's lock held by a worker, dead or alive?
  graceOver  \* has shutdown_grace_s passed?

books == <<tracked, count, pending, due>>
procs == <<child, stray, late, hbHeld>>
down  == <<event, evHeld, graceOver>>
vars  == <<sup, stop, books, procs, down>>

Init ==
  /\ sup = [pc |-> "start", w |-> 1]
  /\ stop = FALSE
  /\ tracked = {} /\ count = [w \in Workers |-> 0]
  /\ pending = {} /\ due = {}
  /\ child = [w \in Workers |-> "none"] /\ stray = 0
  /\ late = {} /\ hbHeld = {}
  /\ event = FALSE /\ evHeld = FALSE /\ graceOver = FALSE

Alive(w) == child[w] \in {"work", "beat", "poll", "hung"}

--------------------------------------------------------------------------------
(* run()                                                                   *)

At(pc) == sup.pc = pc

Goto(pc) == sup' = [sup EXCEPT !.pc = pc]

(* On to the next worker of the list, or out of the loop over it.          *)
Advance(pc, after) ==
  sup' = IF sup.w < N THEN [pc |-> pc, w |-> sup.w + 1] ELSE [pc |-> after, w |-> 1]

(* _spawn: the heartbeat of an earlier instance is reset, under its lock.  *)
Spawn(w) ==
  /\ w \notin hbHeld
  /\ tracked' = tracked \cup {w}
  /\ child' = [child EXCEPT ![w] = "work"]
  /\ stray' = stray + (IF Alive(w) THEN 1 ELSE 0)
  /\ late' = late \ {w}
  /\ UNCHANGED hbHeld

Start ==
  /\ At("start")
  /\ Advance("start", "top")
  /\ Spawn(sup.w)
  /\ UNCHANGED <<stop, count, pending, due, down>>

Top ==
  /\ At("top")
  /\ Goto(IF stop THEN "event" ELSE "look")
  /\ UNCHANGED <<stop, books, procs, down>>

(* A worker that was given up, or whose backoff is not over.               *)
LookUntracked ==
  /\ At("look")
  /\ sup.w \notin tracked /\ sup.w \notin pending \cap due
  /\ Advance("look", "top")
  /\ UNCHANGED <<stop, books, procs, down>>

LookDue ==
  /\ At("look")
  /\ sup.w \notin tracked /\ sup.w \in pending \cap due
  /\ pending' = pending \ {sup.w}
  /\ Advance("look", "top")
  /\ Spawn(sup.w)
  /\ UNCHANGED <<stop, count, due, down>>

LookCrashed ==
  /\ At("look")
  /\ sup.w \in tracked /\ ~Alive(sup.w)
  /\ Goto("failed")
  /\ UNCHANGED <<stop, books, procs, down>>

(* Mutant: is_alive() is taken for health.                                 *)
LookAliveOnly ==
  /\ At("look")
  /\ sup.w \in tracked /\ Alive(sup.w)
  /\ Advance("look", "top")
  /\ UNCHANGED <<stop, books, procs, down>>

LookAlive ==
  /\ At("look")
  /\ sup.w \in tracked /\ Alive(sup.w)
  /\ IF sup.w \in Beating THEN Goto("beat") ELSE Advance("look", "top")
  /\ UNCHANGED <<stop, books, procs, down>>

(* _is_hung reads the heartbeat, under its lock.                           *)
BeatSeen ==
  /\ At("beat")
  /\ sup.w \notin hbHeld /\ sup.w \notin late
  /\ Advance("look", "top")
  /\ UNCHANGED <<stop, books, procs, down>>

BeatMissed ==
  /\ At("beat")
  /\ sup.w \notin hbHeld /\ sup.w \in late
  /\ Goto("terminate")
  /\ UNCHANGED <<stop, books, procs, down>>

(* Where a process may come to its end.                                    *)
Mortal(w) == DieLocked \/ child[w] \notin {"beat", "poll"}

(* SIGTERM: the process ends, or ignores it.                               *)
Sigterm(w) ==
  \/ /\ Alive(w) /\ Mortal(w)
     /\ child' = [child EXCEPT ![w] = "killed"]
  \/ UNCHANGED child

Sigkill(w) ==
  /\ Alive(w) => Mortal(w)
  /\ child' = [child EXCEPT ![w] = IF Alive(w) THEN "killed" ELSE @]

(* _terminate_proc, both halves.                                           *)
Terminate ==
  /\ At("terminate")
  /\ Goto("kill")
  /\ Sigterm(sup.w)
  /\ UNCHANGED <<stop, books, stray, late, hbHeld, down>>

(* Mutant: SIGTERM is thought to be enough.                                *)
KillNever ==
  /\ At("kill")
  /\ Goto("failed")
  /\ UNCHANGED <<stop, books, procs, down>>

Kill ==
  /\ At("kill")
  /\ Goto("failed")
  /\ Sigkill(sup.w)
  /\ UNCHANGED <<stop, books, stray, late, hbHeld, down>>

(* Mutant: one restart too many.                                           *)
TooOftenByOne(w) == count[w] > MaxRestarts

TooOften(w) == count[w] + 1 > MaxRestarts

(* The failure is counted: the worker is given up, ...                     *)
GiveUp ==
  /\ At("failed")
  /\ TooOften(sup.w)
  /\ count' = [count EXCEPT ![sup.w] = @ + 1]
  /\ tracked' = tracked \ {sup.w}
  /\ pending' = pending \ {sup.w}
  /\ Advance("look", "top")
  /\ UNCHANGED <<stop, due, procs, down>>

(* ... or spawned again at once, ...                                       *)
Restart ==
  /\ At("failed")
  /\ ~TooOften(sup.w) /\ sup.w \notin Backoff
  /\ count' = [count EXCEPT ![sup.w] = @ + 1]
  /\ Goto("respawn")
  /\ UNCHANGED <<stop, tracked, pending, due, procs, down>>

Respawn ==
  /\ At("respawn")
  /\ Advance("look", "top")
  /\ Spawn(sup.w)
  /\ UNCHANGED <<stop, count, pending, due, down>>

(* Mutant: nobody remembers that the worker waits.                         *)
PostponeForgotten ==
  /\ At("failed")
  /\ ~TooOften(sup.w) /\ sup.w \in Backoff
  /\ count' = [count EXCEPT ![sup.w] = @ + 1]
  /\ tracked' = tracked \ {sup.w}
  /\ Advance("look", "top")
  /\ UNCHANGED <<stop, pending, due, procs, down>>

(* ... or after the backoff.                                               *)
Postpone ==
  /\ At("failed")
  /\ ~TooOften(sup.w) /\ sup.w \in Backoff
  /\ count' = [count EXCEPT ![sup.w] = @ + 1]
  /\ tracked' = tracked \ {sup.w}
  /\ pending' = pending \cup {sup.w}
  /\ due' = due \ {sup.w}
  /\ Advance("look", "top")
  /\ UNCHANGED <<stop, procs, down>>

--------------------------------------------------------------------------------
(* _cascade_shutdown                                                       *)

SetEvent ==
  /\ At("event")
  /\ ~evHeld
  /\ event' = TRUE
  /\ Goto("join")
  /\ UNCHANGED <<stop, books, procs, evHeld, graceOver>>

(* Mutants: no join before SIGTERM; a join without a deadline.             *)
MustWaitNever(w) == w \notin Workers
MustWaitForever(w) == w \in tracked \cap Cooperative /\ Alive(w)

(* A cooperative worker is waited for, until the grace is over for all.    *)
MustWait(w) == w \in tracked \cap Cooperative /\ Alive(w) /\ ~graceOver

Join ==
  /\ At("join")
  /\ ~MustWait(sup.w)
  /\ Advance("join", "term")
  /\ UNCHANGED <<stop, books, procs, down>>

CascadeTerm ==
  /\ At("term")
  /\ Advance("term", "straggler")
  /\ IF sup.w \in tracked THEN Sigterm(sup.w) ELSE UNCHANGED child
  /\ UNCHANGED <<stop, books, stray, late, hbHeld, down>>

(* Mutant: stragglers are left alone.                                      *)
CascadeKillNever ==
  /\ At("straggler")
  /\ Advance("straggler", "done")
  /\ UNCHANGED <<stop, books, procs, down>>

CascadeKill ==
  /\ At("straggler")
  /\ Advance("straggler", "done")
  /\ IF sup.w \in tracked THEN Sigkill(sup.w) ELSE UNCHANGED child
  /\ UNCHANGED <<stop, books, stray, late, hbHeld, down>>

Cascade == SetEvent \/ Join \/ CascadeTerm \/ CascadeKill

Run ==
  \/ Start \/ Top \/ LookUntracked \/ LookDue \/ LookCrashed \/ LookAlive
  \/ BeatSeen \/ BeatMissed \/ Terminate \/ Kill
  \/ GiveUp \/ Restart \/ Respawn \/ Postpone
  \/ Cascade

--------------------------------------------------------------------------------
(* The surroundings: a stop, the passage of time, the workers.             *)

RequestStop ==
  /\ ~stop
  /\ stop' = TRUE
  /\ UNCHANGED <<sup, books, procs, down>>

Elapse(w) ==
  /\ w \in Beating /\ Alive(w)
  /\ late' = late \cup {w}
  /\ UNCHANGED <<sup, stop, books, child, stray, hbHeld, down>>

BackoffOver(w) ==
  /\ w \in pending
  /\ due' = due \cup {w}
  /\ UNCHANGED <<sup, stop, tracked, count, pending, procs, down>>

GraceOver ==
  /\ event
  /\ graceOver' = TRUE
  /\ UNCHANGED <<sup, stop, books, procs, event, evHeld>>

ChildGoto(w, from, to) ==
  /\ child[w] = from
  /\ child' = [child EXCEPT ![w] = to]

(* heartbeat.value = time.time()                                           *)
BeatBegin(w) ==
  /\ w \in Beating \ hbHeld
  /\ ChildGoto(w, "work", "beat")
  /\ hbHeld' = hbHeld \cup {w}
  /\ UNCHANGED <<sup, stop, books, stray, late, down>>

BeatEnd(w) ==
  /\ ChildGoto(w, "beat", "work")
  /\ late' = late \ {w}
  /\ hbHeld' = hbHeld \ {w}
  /\ UNCHANGED <<sup, stop, books, stray, down>>

(* shutdown_event.is_set()                                                 *)
PollBegin(w) ==
  /\ w \in Cooperative /\ ~evHeld
  /\ ChildGoto(w, "work", "poll")
  /\ evHeld' = TRUE
  /\ UNCHANGED <<sup, stop, books, stray, late, hbHeld, event, graceOver>>

PollEnd(w) ==
  /\ ChildGoto(w, "poll", IF event THEN "exited" ELSE "work")
  /\ evHeld' = FALSE
  /\ UNCHANGED <<sup, stop, books, stray, late, hbHeld, event, graceOver>>

Hang(w) ==
  /\ ChildGoto(w, "work", "hung")
  /\ UNCHANGED <<sup, stop, books, stray, late, hbHeld, down>>

(* An exit of its own, for any reason: run() takes it for a crash.         *)
Crash(w) ==
  /\ Alive(w) /\ Mortal(w) /\ child[w] # "hung"
  /\ child' = [child EXCEPT ![w] = "exited"]
  /\ UNCHANGED <<sup, stop, books, stray, late, hbHeld, down>>

WorkerStep(w) ==
  \/ BeatBegin(w) \/ BeatEnd(w) \/ PollBegin(w) \/ PollEnd(w) \/ Hang(w) \/ Crash(w)

Next ==
  \/ Run
  \/ RequestStop \/ GraceOver
  \/ \E w \in Workers : Elapse(w) \/ BackoffOver(w) \/ WorkerStep(w)

Spec == Init /\ [][Next]_vars

(* run() and the clocks go on, an access to shared memory ends, and a lock  *)
(* that comes free again and again is obtained.                            *)
FairSpec ==
  /\ Spec
  /\ SF_vars(Run) /\ WF_vars(GraceOver)
  /\ \A w \in Workers :
       WF_vars(BackoffOver(w)) /\ WF_vars(BeatEnd(w)) /\ WF_vars(PollEnd(w))
       /\ WF_vars(child[w] = "hung" /\ Elapse(w))

--------------------------------------------------------------------------------
(* Properties.                                                             *)

TypeOK ==
  /\ sup \in [pc : {"start", "top", "look", "beat", "terminate", "kill", "failed", "respawn",
                    "event", "join", "term", "straggler", "done"},
              w : Workers]
  /\ stop \in BOOLEAN
  /\ tracked \subseteq Workers /\ pending \subseteq Workers /\ due \subseteq Workers
  /\ count \in [Workers -> 0 .. MaxRestarts + 1]
  /\ child \in [Workers -> {"none", "work", "beat", "poll", "hung", "exited", "killed"}]
  /\ stray \in Nat
  /\ late \subseteq Beating /\ hbHeld \subseteq Beating
  /\ event \in BOOLEAN /\ evHeld \in BOOLEAN /\ graceOver \in BOOLEAN

(* A worker never has two processes: a hung one is dead before the next is *)
(* spawned (two camera processes would be two writers of one ring); and    *)
(* when run() returns none is left, neither one that was hung or ignores   *)
(* SIGTERM nor one that was given up or waited to restart.                 *)
OneProcess == stray = 0 /\ (At("done") => \A w \in Workers : ~Alive(w))

(* Cooperative first (ERRATA E-10): in the shutdown a process is killed    *)
(* only when the grace is over or every cooperative worker has ended.  A   *)
(* worker that was given up stays down, and nothing is spawned once the    *)
(* shutdown has begun.                                                     *)
ShutdownOrderly ==
  [][\A w \in Workers :
       /\ event /\ child[w] # "killed" /\ child'[w] = "killed"
            => graceOver \/ \A v \in Cooperative : ~Alive(v) \/ v \notin tracked
       /\ ~Alive(w) /\ Alive(w)' => count[w] <= MaxRestarts /\ ~event]_vars

(* Every failure is dealt with (supervisor-liveness Req 1.4, 4.1): a dead  *)
(* worker runs again, unless it is given up or the shutdown has begun, and *)
(* a process that is alive and does nothing is found (K-020).              *)
FailureHandled ==
  /\ \A w \in Workers :
       w \in tracked /\ ~Alive(w) /\ ~stop
         ~> Alive(w) \/ (w \notin tracked /\ count[w] > MaxRestarts) \/ stop
  /\ \A w \in Beating : child[w] = "hung" ~> child[w] # "hung"

(* A stop is honoured: run() returns, whatever the workers do.             *)
StopHonoured == stop ~> At("done")

================================================================================
