---------------------------- MODULE FrameChannel ----------------------------
(***************************************************************************)
(* What the shared-memory ring promises its users, without slots' headers,  *)
(* locks, registries or copies: frames are published one after the other,   *)
(* each in a place; a reader asks for a frame by its ref, gets that very     *)
(* frame, whole, or nothing; the frame of a place gives way to the next one *)
(* only after somebody took it, and never while somebody is taking it.      *)
(* A call may end with nothing at any time (a timeout, a stale ref, a full  *)
(* registry, the death of its process).                                    *)
(***************************************************************************)
EXTENDS Integers

CONSTANTS Places, Generations, Readers, NoRef, NoFrame

VARIABLES published,  \* the refs <<place, generation>> handed out
          taken,      \* those some reader has begun to take
          call        \* call[r]: [phase, ref, frame]
vars == <<published, taken, call>>

NoCall == [phase |-> "idle", ref |-> NoRef, frame |-> NoFrame]

Init ==
  /\ published = {}
  /\ taken = {}
  /\ call = [r \in Readers |-> NoCall]

\* A frame is a pair of halves, each named by the generation it belongs to.
Whole(ref) == <<ref[2], ref[2]>>

Publish(p, g) ==
  /\ \A q \in published : q[2] < g
  /\ \A q \in published : q[1] = p => q \in taken
  /\ \A r \in Readers : call[r].phase = "taking" => call[r].ref[1] # p
  /\ published' = published \cup {<<p, g>>}
  /\ UNCHANGED <<taken, call>>

Ask(r, ref) ==
  /\ call[r] = NoCall
  /\ ref \in published
  /\ call' = [call EXCEPT ![r] = [phase |-> "asked", ref |-> ref, frame |-> NoFrame]]
  /\ UNCHANGED <<published, taken>>

\* Only the newest frame of its place can be taken.
Take(r) ==
  /\ call[r].phase = "asked"
  /\ \A q \in published : q[1] = call[r].ref[1] => q[2] <= call[r].ref[2]
  /\ call' = [call EXCEPT ![r].phase = "taking"]
  /\ taken' = taken \cup {call[r].ref}
  /\ UNCHANGED published

Deliver(r) ==
  /\ call[r].phase = "taking"
  /\ call' = [call EXCEPT ![r] = [phase |-> "got", ref |-> @.ref, frame |-> Whole(@.ref)]]
  /\ UNCHANGED <<published, taken>>

End(r) ==
  /\ call[r].phase # "idle"
  /\ call' = [call EXCEPT ![r] = NoCall]
  /\ UNCHANGED <<published, taken>>

Next ==
  \/ \E p \in Places, g \in Generations : Publish(p, g)
  \/ \E r \in Readers : \/ \E ref \in published : Ask(r, ref)
                        \/ Take(r) \/ Deliver(r) \/ End(r)

Spec == Init /\ [][Next]_vars
=============================================================================
