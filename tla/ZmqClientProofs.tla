---------------------------- MODULE ZmqClientProofs ----------------------------
(***************************************************************************)
(* Proofs about ZmqClient for every window, queue, buffer, set of callers  *)
(* and number of frames and crashes: a request gets one response, the      *)
(* window is respected, and the counters account for every frame.          *)
(***************************************************************************)
EXTENDS ZmqClient, FiniteSetTheorems, TLAPS

(***************************************************************************)
(* The inductive invariant.                                                *)
(***************************************************************************)

(* The frames are handed to the queue in the order of their capture: this  *)
(* is the last one that has been, or has been dropped on the way.          *)
Submitted == IF cam.pc \in {"write", "submit"} THEN captured - 1 ELSE captured

FrameInHand == cam.pc \in {"write", "submit"} => captured >= 1

Ascends(q) == \A i, j \in 1 .. Len(q) : i < j => q[i] < q[j]

Ahead(f) == \A i \in 1 .. Len(queue) : f < queue[i]

(* The queue is in the order of capture, ...                               *)
QueueInOrder ==
  /\ Ascends(queue)
  /\ \A i \in 1 .. Len(queue) : queue[i] <= Submitted

(* ... the request the io thread has taken is ahead of it, and there is    *)
(* room for it in the window, ...                                          *)
TakenAhead ==
  io.pc = "taken" =>
    io.req \in Frames /\ io.req <= Submitted /\ inFlight < Window /\ Ahead(io.req)

(* ... and what was sent, answered or not, is ahead of both.               *)
SentAhead ==
  \A f \in Frames :
    f \in pending \/ answers[f] > 0 =>
      f <= Submitted /\ Ahead(f) /\ (io.pc = "taken" => f < io.req)

(* Whoever is about to send has a request in its hands.                    *)
SenderHasRequest == io.pc \in {"send", "syncSend"} => io.req \in Requests

(* A request that waits for its answer has none; none has two.             *)
AnsweredOnce ==
  \A f \in Frames : answers[f] <= 1 /\ (f \in pending => answers[f] = 0)

(* The frames that the counters, the queue and the hands of the two        *)
(* threads account for.                                                    *)
Account ==
  sent + dropped + fullRing + Len(queue)
    + (IF io.pc = "taken" THEN 1 ELSE 0) + (IF cam.pc \in {"write", "submit"} THEN 1 ELSE 0)

(* No frame is counted twice; none is lost but the one write() raised on   *)
(* and those a BLOCK queue had no room for.                                *)
Accounted ==
  /\ Account <= captured
  /\ ~cam.failed /\ policy # "BLOCK" => Account = captured

(* The io thread has ended, or is in a send() it never leaves.             *)
IoGone == io.pc \in {"stopped", "stuck"}

(* The io thread is gone before the last responses are taken.              *)
IoJoined ==
  /\ cam.pc \in {"final", "done"} => IoGone
  /\ cam.pc = "done" => polled = answers

ClientInv ==
  /\ TypeOK
  /\ WindowRespected
  /\ FrameInHand
  /\ QueueInOrder
  /\ SenderHasRequest
  /\ TakenAhead
  /\ SentAhead
  /\ AnsweredOnce
  /\ Accounted
  /\ IoJoined

(***************************************************************************)
(* What the operators do.                                                  *)
(***************************************************************************)

(* A sequence that ascends still does when a larger frame is appended.     *)
LEMMA AppendAscends ==
  ASSUME NEW q \in Seq(Frames), NEW f \in Frames, Ascends(q),
         \A i \in 1 .. Len(q) : q[i] < f
  PROVE  /\ Append(q, f) \in Seq(Frames) /\ Len(Append(q, f)) = Len(q) + 1
         /\ Ascends(Append(q, f))
         /\ \A i \in 1 .. Len(Append(q, f)) : Append(q, f)[i] <= f
         /\ \A g \in Frames : (\A i \in 1 .. Len(q) : g < q[i]) /\ g < f
                               => \A i \in 1 .. Len(Append(q, f)) : g < Append(q, f)[i]
  <1> DEFINE r == Append(q, f)
             n == Len(q)
  <1>1. /\ r \in Seq(Frames) /\ Len(r) = n + 1 /\ n \in Nat
        /\ \A i \in 1 .. n : r[i] = q[i]
        /\ r[n + 1] = f
    OBVIOUS
  <1>2. Frames \subseteq Nat /\ f \in Nat /\ \A i \in 1 .. n : q[i] \in Nat
    BY ClientAssumption DEF ClientAssumption, Frames
  <1>3. \A i, j \in 1 .. n : i < j => q[i] < q[j]
    BY DEF Ascends
  <1>4. \A i \in 1 .. n : q[i] < f
    OBVIOUS
  <1> HIDE DEF r, n
  <1>5. \A i \in 1 .. n + 1 : i \in 1 .. n \/ i = n + 1
    BY <1>1
  <1>6. \A i, j \in 1 .. n + 1 : i < j => r[i] < r[j]
    <2> SUFFICES ASSUME NEW i \in 1 .. n + 1, NEW j \in 1 .. n + 1, i < j
                 PROVE  r[i] < r[j]
      OBVIOUS
    <2>1. i \in 1 .. n
      BY <1>1
    <2>2. CASE j \in 1 .. n
      BY <1>1, <1>3, <2>1, <2>2
    <2>3. CASE j = n + 1
      BY <1>1, <1>4, <2>1, <2>3
    <2> QED
      BY <1>5, <2>2, <2>3
  <1>7. \A i \in 1 .. n + 1 : r[i] <= f
    BY <1>1, <1>2, <1>4, <1>5
  <1>8. \A g \in Frames : (\A i \in 1 .. n : g < q[i]) /\ g < f
                          => \A i \in 1 .. n + 1 : g < r[i]
    BY <1>1, <1>5
  <1>9. Len(r) = n + 1
    BY <1>1
  <1> QED
    BY <1>1, <1>6, <1>7, <1>8, <1>9 DEF r, n, Ascends

(* So does what is left when the first one is taken.                       *)
LEMMA TailAscends ==
  ASSUME NEW q \in Seq(Frames), Ascends(q), q # <<>>
  PROVE  /\ Len(q) >= 1 /\ Head(q) = q[1] /\ Head(q) \in Frames
         /\ Tail(q) \in Seq(Frames) /\ Len(Tail(q)) = Len(q) - 1
         /\ \A i \in 1 .. Len(Tail(q)) : i + 1 \in 1 .. Len(q) /\ Tail(q)[i] = q[i + 1]
         /\ Ascends(Tail(q))
         /\ \A i \in 1 .. Len(Tail(q)) : Head(q) < Tail(q)[i]
  <1> DEFINE t == Tail(q)
             n == Len(q)
  <1>1. /\ n \in Nat /\ n >= 1 /\ Head(q) = q[1] /\ Head(q) \in Frames
        /\ t \in Seq(Frames) /\ Len(t) = n - 1
        /\ \A i \in 1 .. n - 1 : t[i] = q[i + 1]
    OBVIOUS
  <1>2. \A i, j \in 1 .. n : i < j => q[i] < q[j]
    BY DEF Ascends
  <1> HIDE DEF t, n
  <1>3. \A i \in 1 .. n - 1 : i + 1 \in 1 .. n /\ 1 \in 1 .. n /\ 1 < i + 1
    BY <1>1
  <1>4. \A i, j \in 1 .. n - 1 : i < j => t[i] < t[j]
    BY <1>1, <1>2, <1>3
  <1>5. \A i \in 1 .. n - 1 : q[1] < t[i]
    BY <1>1, <1>2, <1>3
  <1>6. Len(t) = n - 1
    BY <1>1
  <1> QED
    BY <1>1, <1>3, <1>4, <1>5, <1>6 DEF t, n, Ascends

(* The captured frame joins the back of the queue, or is dropped; what was *)
(* ahead of the queue and of the frame is ahead of what it becomes.        *)
LEMMA PutSound ==
  ASSUME TypeOK, Ascends(queue), Len(queue) <= QueueMax, NEW f \in Frames, Put(f),
         \A i \in 1 .. Len(queue) : queue[i] < f
  PROVE  /\ queue' \in Seq(Frames) /\ dropped' \in Nat
         /\ Len(queue') <= QueueMax
         /\ dropped' + Len(queue') = dropped + Len(queue) + 1
         /\ Ascends(queue')
         /\ \A i \in 1 .. Len(queue') : queue'[i] <= f
         /\ \A g \in Frames : Ahead(g) /\ g < f => Ahead(g)'
  <1>q. /\ QueueMax \in Nat /\ QueueMax >= 1 /\ Frames \subseteq Nat
        /\ queue \in Seq(Frames) /\ dropped \in Nat /\ Len(queue) \in Nat
        /\ \A i \in 1 .. Len(queue) : queue[i] \in Nat
    <2>1. QueueMax \in Nat /\ QueueMax >= 1 /\ Frames \subseteq Nat
      BY ClientAssumption DEF ClientAssumption, Frames
    <2>2. queue \in Seq(Frames) /\ dropped \in Nat /\ Len(queue) \in Nat
      BY DEF TypeOK
    <2>3. \A i \in 1 .. Len(queue) : queue[i] \in Frames
      BY <2>2
    <2> QED
      BY <2>1, <2>2, <2>3
  <1>1. CASE ~Full /\ queue' = Append(queue, f) /\ dropped' = dropped
    BY <1>q, <1>1, AppendAscends DEF Full, Ahead
  <1>2. CASE Full /\ queue' = Append(Tail(queue), f) /\ dropped' = dropped + 1
    <2> DEFINE t == Tail(queue)
    <2>1. /\ Len(queue) >= 1 /\ t \in Seq(Frames) /\ Len(t) = Len(queue) - 1
          /\ Ascends(t)
          /\ \A i \in 1 .. Len(t) : i + 1 \in 1 .. Len(queue) /\ t[i] = queue[i + 1]
      BY <1>q, <1>2, TailAscends DEF Full
    <2> HIDE DEF t
    <2>2. \A i \in 1 .. Len(t) : t[i] < f
      BY <2>1
    <2>3. /\ Append(t, f) \in Seq(Frames) /\ Len(Append(t, f)) = Len(t) + 1
          /\ Ascends(Append(t, f))
          /\ \A i \in 1 .. Len(Append(t, f)) : Append(t, f)[i] <= f
          /\ \A g \in Frames : (\A i \in 1 .. Len(t) : g < t[i]) /\ g < f
                                => \A i \in 1 .. Len(Append(t, f)) : g < Append(t, f)[i]
      BY <2>1, <2>2, AppendAscends
    <2>4. queue' = Append(t, f)
      BY <1>2 DEF t
    <2>5. \A g \in Frames : Ahead(g) => \A i \in 1 .. Len(t) : g < t[i]
      BY <2>1 DEF Ahead
    <2>6. \A g \in Frames : Ahead(g) /\ g < f => Ahead(g)'
      BY <2>3, <2>4, <2>5 DEF Ahead
    <2>7. Len(queue') = Len(queue) /\ dropped' = dropped + 1
      BY <1>q, <1>2, <2>1, <2>3, <2>4
    <2>8. \A i \in 1 .. Len(queue') : queue'[i] <= f
      BY <2>3, <2>4
    <2>9. queue' \in Seq(Frames) /\ Ascends(queue')
      BY <2>3, <2>4
    <2> QED
      BY <1>q, <2>6, <2>7, <2>8, <2>9
  <1>3. CASE queue' = queue /\ dropped' = dropped + 1
    <2>1. \A i \in 1 .. Len(queue) : queue[i] <= f
      BY <1>q
    <2> QED
      BY <1>q, <1>3, <2>1 DEF Ahead
  <1> QED
    BY <1>1, <1>2, <1>3 DEF Put

(* The requests in flight are at least as many as those that are pending,  *)
(* and those that are overdue are among them.                              *)
LEMMA PendingFinite ==
  ASSUME TypeOK
  PROVE  /\ IsFiniteSet(pending) /\ IsFiniteSet(overdue)
         /\ Cardinality(pending) \in Nat /\ Cardinality(overdue) \in Nat
         /\ Cardinality(pending \ overdue) = Cardinality(pending) - Cardinality(overdue)
         /\ Cardinality(overdue) <= Cardinality(pending)
  <1>1. IsFiniteSet(Frames)
    BY ClientAssumption, FS_Interval DEF ClientAssumption, Frames
  <1>2. IsFiniteSet(pending) /\ IsFiniteSet(overdue)
    BY <1>1, FS_Subset DEF TypeOK
  <1>3. Cardinality(pending) \in Nat /\ Cardinality(overdue) \in Nat
    BY <1>2, FS_CardinalityType
  <1>4. Cardinality(overdue) <= Cardinality(pending)
    BY <1>2, FS_Subset DEF TypeOK
  <1>5. pending \cap overdue = overdue
    BY DEF TypeOK
  <1>6. Cardinality(pending \ overdue) = Cardinality(pending) - Cardinality(pending \cap overdue)
    BY <1>2, FS_Difference
  <1> QED
    BY <1>2, <1>3, <1>4, <1>5, <1>6

(* The types of the head and the tail.                                     *)
LEMMA HeadTail ==
  ASSUME NEW S, NEW q \in Seq(S), q # <<>>
  PROVE  Head(q) \in S /\ Tail(q) \in Seq(S)
  OBVIOUS

(* A request that is pending is in flight.                                 *)
LEMMA PendingCounted ==
  ASSUME TypeOK, NEW f \in pending
  PROVE  Cardinality(pending) >= 1 /\ Cardinality(pending \ {f}) = Cardinality(pending) - 1
  <1>1. IsFiniteSet(pending) /\ IsFiniteSet(pending \ {f})
    BY PendingFinite, FS_Subset
  <1>2. Cardinality(pending) \in Nat /\ Cardinality(pending \ {f}) \in Nat
    BY <1>1, FS_CardinalityType
  <1>3. Cardinality(pending \ {f}) = Cardinality(pending) - 1
    BY <1>1, FS_RemoveElement
  <1> QED
    BY <1>2, <1>3

(* A frame that is being submitted comes after every frame in the queue.   *)
LEMMA QueueBehind ==
  ASSUME TypeOK, QueueInOrder, cam.pc = "submit"
  PROVE  \A i \in 1 .. Len(queue) : queue[i] < captured
  <1>1. \A i \in 1 .. Len(queue) : queue[i] \in Frames /\ queue[i] <= captured - 1
    BY DEF TypeOK, QueueInOrder, Submitted
  <1> QED
    BY <1>1, ClientAssumption, SMTT(30) DEF TypeOK, Frames, ClientAssumption

(***************************************************************************)
(* Type correctness.                                                       *)
(***************************************************************************)
LEMMA ClientTyped == ClientInv /\ [Next]_vars => TypeOK'
  <1> SUFFICES ASSUME ClientInv, [Next]_vars
               PROVE  TypeOK'
    OBVIOUS
  <1> USE ClientAssumption
      DEF TypeOK, camera, inbound, async, sync, transport, service, Nothing, ClientInv
  <1>1. CASE CamCapture
    <2>1. captured' \in 0 .. MaxFrames
      BY <1>1 DEF CamCapture
    <2>2. cam' \in [pc : {"write"}, failed : BOOLEAN, cut : BOOLEAN]
      BY <1>1 DEF CamCapture, CamGoto
    <2> QED
      BY <1>1, <2>1, <2>2 DEF CamCapture
  <1>2. CASE CamWritten
    BY <1>2 DEF CamWritten, CamGoto, Poll
  <1>3. CASE CamRingFull
    <2>1. fullRing' \in Nat
      BY <1>3 DEF CamRingFull
    <2>2. cam' \in [pc : {"consume"}, failed : BOOLEAN, cut : BOOLEAN]
      BY <1>3 DEF CamRingFull, CamGoto
    <2> QED
      BY <1>3, <2>1, <2>2 DEF CamRingFull
  <1>4. CASE CamRefused
    BY <1>4 DEF CamRefused, CamGoto, Poll
  <1>5. CASE CamSubmitTimeout
    BY <1>5 DEF CamSubmitTimeout, CamGoto, Poll
  <1>6. CASE CamConsume
    BY <1>6 DEF CamConsume, CamGoto, Poll
  <1>7. CASE CamStop
    BY <1>7 DEF CamStop, CamGoto, Poll
  <1>8. CASE CamDrainQueue
    BY <1>8 DEF CamDrainQueue, CamGoto, Poll
  <1>9. CASE CamDrainFlight
    BY <1>9 DEF CamDrainFlight, CamGoto, Poll
  <1>10. CASE CamDrainWait
    BY <1>10 DEF CamDrainWait, CamGoto, Poll
  <1>11. CASE CamDrainCut
    BY <1>11 DEF CamDrainCut, CamGoto, Poll
  <1>12. CASE CamCollect
    BY <1>12 DEF CamCollect, CamGoto, Poll
  <1>13. CASE CamTeardown
    BY <1>13 DEF CamTeardown, CamGoto, Poll
  <1>14. CASE CamJoin
    BY <1>14 DEF CamJoin, CamGoto, Poll
  <1>15. CASE CamJoinTimeout
    <2>1. PICK outcome \in {"final", "hung", "aborted"} : CamGoto("join", outcome)
      BY <1>15 DEF CamJoinTimeout
    <2>2. PICK left \in {"stopped", "stuck"} : io' = [pc |-> left, req |-> Nothing]
      BY <1>15 DEF CamJoinTimeout
    <2> QED
      BY <1>15, <2>1, <2>2 DEF CamJoinTimeout, CamGoto
  <1>16. CASE CamFinal
    BY <1>16 DEF CamFinal, CamGoto, Poll
  <1>17. CASE IoTop
    BY <1>17 DEF IoTop, IoGoto, Send, Arrived, Known, Forget
  <1>18. CASE IoSyncTake
    <2>1. outbound' \in Seq(Callers) /\ Head(outbound) \in Callers
      BY <1>18, HeadTail DEF IoSyncTake
    <2>2. io' \in [pc : {"syncSend"}, req : Requests]
      BY <1>18, <2>1 DEF IoSyncTake, Requests
    <2> QED
      BY <1>18, <2>1, <2>2 DEF IoSyncTake
  <1>19. CASE IoSyncNone
    BY <1>19 DEF IoSyncNone, IoGoto, Send, Arrived, Known, Forget
  <1>20. CASE IoSyncSend
    <2>1. io' \in [pc : {"sync"}, req : {Nothing}] /\ io.req \in Requests
      BY <1>20 DEF IoSyncSend, IoGoto, SenderHasRequest
    <2>2. pipe' \in Seq(Requests)
      BY <1>20, <2>1 DEF IoSyncSend, Send
    <2> QED
      BY <1>20, <2>1, <2>2 DEF IoSyncSend
  <1>21. CASE IoTake
    <2>1. queue' \in Seq(Frames) /\ Head(queue) \in Frames
      BY <1>21, HeadTail DEF IoTake
    <2>2. io' \in [pc : {"taken"}, req : Requests]
      BY <1>21, <2>1 DEF IoTake, Requests
    <2> QED
      BY <1>21, <2>1, <2>2 DEF IoTake
  <1>22. CASE IoNone
    BY <1>22 DEF IoNone, IoGoto, Send, Arrived, Known, Forget
  <1>23. CASE IoMark
    <2>1. io' \in [pc : {"send"}, req : Requests \cup {Nothing}] /\ io.req \in Frames
      BY <1>23 DEF IoMark, TakenAhead
    <2>2. pending' \subseteq Frames /\ overdue' \subseteq pending'
      BY <1>23, <2>1 DEF IoMark
    <2>3. inFlight' \in Nat /\ sent' \in Nat
      BY <1>23, SMTT(30) DEF IoMark
    <2> QED
      BY <1>23, <2>1, <2>2, <2>3 DEF IoMark
  <1>24. CASE IoSend
    <2>1. io' \in [pc : {"async"}, req : {Nothing}] /\ io.req \in Requests
      BY <1>24 DEF IoSend, IoGoto, SenderHasRequest
    <2>2. pipe' \in Seq(Requests)
      BY <1>24, <2>1 DEF IoSend, Send
    <2> QED
      BY <1>24, <2>1, <2>2 DEF IoSend
  <1>25. CASE IoQuiet
    BY <1>25 DEF IoQuiet, IoGoto, Send, Arrived, Known, Forget
  <1>26. CASE IoRecvGarbage
    BY <1>26, SMTT(30) DEF IoRecvGarbage, IoGoto, Send, Arrived, Known, Forget
  <1>27. CASE IoRecvSync
    BY <1>27 DEF IoRecvSync, IoGoto, Send, Arrived, Known, Forget
  <1>28. CASE IoRecvAnswer
    <2> DEFINE f == Head(replies).id
    <2>1. f \in Frames /\ f \in pending
      BY <1>28 DEF IoRecvAnswer, Known
    <2>2. replies' \in Seq(Message)
      BY <1>28, HeadTail DEF IoRecvAnswer, Arrived
    <2>3. io' \in [pc : {"scan"}, req : {Nothing}]
      BY <1>28 DEF IoRecvAnswer, IoGoto
    <2> HIDE DEF f
    <2>4. /\ pending' = pending \ {f} /\ overdue' = overdue \ {f}
          /\ answers' = [answers EXCEPT ![f] = @ + 1] /\ inFlight' = inFlight - 1
      BY <1>28 DEF IoRecvAnswer, Forget, f
    <2>5. Cardinality(pending) >= 1 /\ Cardinality(pending) \in Nat
      <3> HIDE DEF TypeOK
      <3> QED
        BY <2>1, PendingCounted, PendingFinite
    <2>6. inFlight' \in Nat
      BY <2>4, <2>5 DEF WindowRespected
    <2>7. answers' \in [Frames -> Nat]
      BY <2>1, <2>4
    <2>8. pending' \subseteq Frames /\ overdue' \subseteq pending'
      BY <2>4
    <2> QED
      BY <1>28, <2>2, <2>3, <2>6, <2>7, <2>8 DEF IoRecvAnswer
  <1>29. CASE IoRecvSkewed
    BY <1>29, SMTT(30) DEF IoRecvSkewed, IoGoto, Send, Arrived, Known, Forget
  <1>30. CASE IoRecvLate
    BY <1>30 DEF IoRecvLate, IoGoto, Send, Arrived, Known, Forget
  <1>31. CASE IoScan
    <2>0. /\ Cardinality(overdue) \in Nat /\ Cardinality(pending) \in Nat
          /\ Cardinality(overdue) <= Cardinality(pending)
      <3> HIDE DEF TypeOK
      <3> QED
        BY PendingFinite
    <2>1. inFlight' \in Nat
      BY <1>31, <2>0 DEF IoScan, WindowRespected
    <2>2. answers' \in [Frames -> Nat]
      BY <1>31, SMTT(30) DEF IoScan
    <2>3. pending' \subseteq Frames /\ overdue' = {}
      BY <1>31 DEF IoScan, Forget
    <2>4. io' \in [pc : {"top"}, req : {Nothing}]
      BY <1>31 DEF IoScan, IoGoto
    <2> QED
      BY <1>31, <2>1, <2>2, <2>3, <2>4 DEF IoScan
  <1>32. CASE ServerTake
    <2>1. pipe' \in Seq(Requests) /\ Head(pipe) \in Requests
      BY <1>32, HeadTail DEF ServerTake
    <2>2. server' \in [up : BOOLEAN, req : Requests]
      BY <1>32, <2>1 DEF ServerTake
    <2>3. UNCHANGED <<cam, captured, fullRing, queue, dropped, io, running, inFlight, pending, overdue, sent,
                    answers, polled, outbound, waiting, slot, caller, replies, crashes, policy>>
          /\ pipe' = Tail(pipe)
      BY <1>32 DEF ServerTake
    <2> QED
      BY <2>1, <2>2, <2>3
  <1>33. CASE ServerReply
    <2>1. PICK kind \in {"answer"} \cup BadReplies :
            replies' = Append(replies, [id |-> server.req, kind |-> kind])
      BY <1>33 DEF ServerReply
    <2>2. [id |-> server.req, kind |-> kind] \in Message
      BY <1>33, <2>1 DEF ServerReply, Message
    <2>3. replies' \in Seq(Message)
      BY <2>1, <2>2
    <2>4. server' \in [up : BOOLEAN, req : {Nothing}]
      BY <1>33 DEF ServerReply
    <2>5. UNCHANGED <<cam, captured, fullRing, queue, dropped, io, running, inFlight, pending, overdue, sent,
                    answers, polled, outbound, waiting, slot, caller, pipe, crashes, policy>>
      BY <1>33 DEF ServerReply
    <2> QED
      BY <2>3, <2>4, <2>5
  <1>34. CASE ServerDrop
    <2>1. server' \in [up : BOOLEAN, req : {Nothing}]
      BY <1>34 DEF ServerDrop
    <2>2. UNCHANGED <<cam, captured, fullRing, queue, dropped, io, running, inFlight, pending, overdue, sent,
                    answers, polled, outbound, waiting, slot, caller, pipe, replies, crashes, policy>>
      BY <1>34 DEF ServerDrop
    <2> QED
      BY <2>1, <2>2
  <1>35. CASE ServerCrash
    <2>1. PICK n \in 0 .. Len(pipe) : pipe' = SubSeq(pipe, n + 1, Len(pipe))
      BY <1>35 DEF ServerCrash
    <2>2. pipe' \in Seq(Requests)
      BY <2>1
    <2>3. crashes' \in 0 .. MaxCrashes /\ server' \in [up : BOOLEAN, req : Requests \cup {Nothing}]
      BY <1>35 DEF ServerCrash
    <2>4. UNCHANGED <<cam, captured, fullRing, queue, dropped, io, running, inFlight, pending, overdue, sent,
                    answers, polled, outbound, waiting, slot, caller, replies, policy>>
      BY <1>35 DEF ServerCrash
    <2> QED
      BY <2>2, <2>3, <2>4, SMTT(30)
  <1>36. CASE ServerRestart
    BY <1>36 DEF ServerRestart
  <1>37. ASSUME NEW c \in Callers, InferRegister(c)
         PROVE  TypeOK'
    BY <1>37 DEF InferRegister, CallerGoto
  <1>38. ASSUME NEW c \in Callers, InferPut(c)
         PROVE  TypeOK'
    BY <1>38 DEF InferPut, CallerGoto
  <1>39. ASSUME NEW c \in Callers, InferAnswered(c)
         PROVE  TypeOK'
    BY <1>39 DEF InferAnswered, CallerGoto
  <1>40. ASSUME NEW c \in Callers, InferTimeout(c)
         PROVE  TypeOK'
    BY <1>40 DEF InferTimeout, CallerGoto
  <1>41. ASSUME NEW c \in Callers, InferExpire(c)
         PROVE  TypeOK'
    BY <1>41 DEF InferExpire, CallerGoto
  <1>42. ASSUME NEW f \in Frames, Elapse(f)
         PROVE  TypeOK'
    BY <1>42, SMTT(30) DEF Elapse
  <1>43. CASE CamSubmit
    <2>1. captured \in Frames /\ Put(captured)
      BY <1>43 DEF CamSubmit, CamGoto, FrameInHand, Frames
    <2>2. \A i \in 1 .. Len(queue) : queue[i] < captured
      BY <1>43, QueueBehind DEF CamSubmit, CamGoto
    <2>3. queue' \in Seq(Frames) /\ dropped' \in Nat
      <3> HIDE DEF TypeOK
      <3> QED
        BY <2>1, <2>2, PutSound DEF QueueInOrder, WindowRespected
    <2>4. cam' \in [pc : {"consume"}, failed : BOOLEAN, cut : BOOLEAN]
      BY <1>43 DEF CamSubmit, CamGoto
    <2> QED
      BY <1>43, <2>3, <2>4 DEF CamSubmit
  <1>44. CASE UNCHANGED vars
    BY <1>44 DEF vars
  <1> QED
    BY <1>1, <1>2, <1>3, <1>4, <1>5, <1>6, <1>7, <1>8, <1>9, <1>10, <1>11, <1>12, <1>13, <1>14, <1>15, <1>16, <1>17, <1>18, <1>19, <1>20, <1>21, <1>22, <1>23, <1>24, <1>25, <1>26, <1>27, <1>28, <1>29, <1>30, <1>31, <1>32, <1>33, <1>34, <1>35, <1>36, <1>37, <1>38, <1>39, <1>40, <1>41, <1>42, <1>43, <1>44
    DEF Next, CamStep, CamShutdown, IoStep, InferStep, ServerStep

(***************************************************************************)
(* The other parts of the invariant.                                       *)
(***************************************************************************)
Counters ==
  /\ WindowRespected /\ FrameInHand /\ QueueInOrder /\ TakenAhead /\ SentAhead
  /\ AnsweredOnce /\ Accounted

WithCamera == cam.pc \in {"write", "submit"}
WithIo == io.pc = "taken"

(* Most steps move no request and answer none.                             *)
Quiet ==
  /\ UNCHANGED <<captured, queue, dropped, fullRing, inFlight, pending, sent, answers, policy>>
  /\ cam'.failed = cam.failed
  /\ WithCamera' <=> WithCamera
  /\ WithIo' <=> WithIo
  /\ WithIo' => io'.req = io.req

(* A step that moves nothing the counters count keeps what they say.       *)
LEMMA QuietStep ==
  ASSUME ClientInv, Quiet
  PROVE  Counters'
  <1> USE DEF ClientInv, Quiet, Counters, WithCamera, WithIo
  <1>1. Submitted' = Submitted /\ \A f : Ahead(f)' <=> Ahead(f)
    BY DEF Submitted, Ahead
  <1>2. (WindowRespected /\ FrameInHand /\ AnsweredOnce)'
    BY DEF WindowRespected, FrameInHand, AnsweredOnce
  <1>3. (QueueInOrder /\ TakenAhead /\ SentAhead)'
    BY <1>1 DEF QueueInOrder, TakenAhead, SentAhead, Ascends
  <1>4. Account' = Account
    BY DEF Account
  <1>5. Accounted'
    BY <1>4 DEF Accounted
  <1> QED
    BY <1>2, <1>3, <1>5

(* The steps of the camera, of the io thread, and of the others that are.  *)
LEMMA QuietCamera ==
  ASSUME TypeOK,
         \/ CamWritten \/ CamConsume \/ CamStop \/ CamDrainQueue \/ CamDrainFlight
         \/ CamDrainWait \/ CamDrainCut \/ CamCollect \/ CamTeardown \/ CamJoin
         \/ CamJoinTimeout \/ CamFinal
  PROVE  Quiet
  <1> USE DEF TypeOK, Quiet, WithCamera, WithIo, CamGoto, camera, inbound, async, sync, transport,
              service, Poll
  <1>1. CASE CamWritten
    BY <1>1 DEF CamWritten
  <1>2. CASE CamConsume
    BY <1>2 DEF CamConsume
  <1>3. CASE CamStop
    BY <1>3 DEF CamStop
  <1>4. CASE CamDrainQueue
    BY <1>4 DEF CamDrainQueue
  <1>5. CASE CamDrainFlight
    BY <1>5 DEF CamDrainFlight
  <1>6. CASE CamDrainWait
    BY <1>6 DEF CamDrainWait
  <1>7. CASE CamDrainCut
    BY <1>7 DEF CamDrainCut
  <1>8. CASE CamCollect
    BY <1>8 DEF CamCollect
  <1>9. CASE CamTeardown
    BY <1>9 DEF CamTeardown
  <1>10. CASE CamJoin
    BY <1>10 DEF CamJoin
  <1>11. CASE CamJoinTimeout
    BY <1>11 DEF CamJoinTimeout, SendBlocked
  <1>12. CASE CamFinal
    BY <1>12 DEF CamFinal
  <1> QED
    BY <1>1, <1>2, <1>3, <1>4, <1>5, <1>6, <1>7, <1>8, <1>9, <1>10, <1>11, <1>12

(* Most steps of the io thread move a request from hand to hand and count  *)
(* nothing.                                                                *)
LEMMA QuietIo ==
  ASSUME TypeOK,
         \/ IoTop \/ IoSyncTake \/ IoSyncNone \/ IoSyncSend \/ IoNone \/ IoSend
         \/ IoQuiet \/ IoRecvGarbage \/ IoRecvSync \/ IoRecvLate
  PROVE  Quiet
  <1> USE DEF TypeOK, Quiet, WithCamera, WithIo, IoGoto, camera, inbound, async, sync, transport,
              service
  <1>1. CASE IoTop
    BY <1>1 DEF IoTop
  <1>2. CASE IoSyncTake
    BY <1>2 DEF IoSyncTake
  <1>3. CASE IoSyncNone
    BY <1>3 DEF IoSyncNone
  <1>4. CASE IoSyncSend
    BY <1>4 DEF IoSyncSend
  <1>5. CASE IoNone
    BY <1>5 DEF IoNone
  <1>6. CASE IoSend
    BY <1>6 DEF IoSend
  <1>7. CASE IoQuiet
    BY <1>7 DEF IoQuiet
  <1>8. CASE IoRecvGarbage
    BY <1>8 DEF IoRecvGarbage
  <1>9. CASE IoRecvSync
    BY <1>9 DEF IoRecvSync
  <1>10. CASE IoRecvLate
    BY <1>10 DEF IoRecvLate
  <1> QED
    BY <1>1, <1>2, <1>3, <1>4, <1>5, <1>6, <1>7, <1>8, <1>9, <1>10

(* So do the server, the clock and the synchronous callers.                *)
LEMMA QuietOthers ==
  ASSUME TypeOK,
         \/ ServerStep
         \/ \E f \in Frames : Elapse(f)
         \/ \E c \in Callers : InferStep(c)
         \/ UNCHANGED vars
  PROVE  Quiet
  <1> USE DEF TypeOK, Quiet, WithCamera, WithIo, camera, inbound, async, sync, transport, service
  <1>1. CASE ServerStep
    BY <1>1 DEF ServerStep, ServerTake, ServerReply, ServerDrop, ServerCrash, ServerRestart
  <1>2. CASE \E f \in Frames : Elapse(f)
    BY <1>2 DEF Elapse
  <1>3. CASE \E c \in Callers : InferStep(c)
    BY <1>3 DEF InferStep, InferRegister, InferPut, InferAnswered, InferTimeout, InferExpire
  <1>4. CASE UNCHANGED vars
    BY <1>4 DEF vars
  <1> QED
    BY <1>1, <1>2, <1>3, <1>4

(* The steps that move requests.  The ones of the camera: the frame it     *)
(* captured is on its way to the queue, or dropped.                        *)
LEMMA CameraMovesOn ==
  ASSUME ClientInv, Submitted' \in Int, Submitted' >= Submitted,
         UNCHANGED <<queue, inFlight, pending, answers, io>>
  PROVE  (WindowRespected /\ QueueInOrder /\ TakenAhead /\ SentAhead /\ AnsweredOnce)'
  <1> USE DEF ClientInv
  <1>1. Submitted \in Int /\ Frames \subseteq Int
    BY ClientAssumption DEF Submitted, TypeOK, ClientAssumption, Frames
  <1>2. \A i \in 1 .. Len(queue) : queue[i] \in Frames
    BY DEF TypeOK
  <1>3. (WindowRespected /\ AnsweredOnce)'
    BY DEF WindowRespected, AnsweredOnce
  <1>4. \A f : Ahead(f)' <=> Ahead(f)
    BY DEF Ahead
  <1>5. \A f \in Frames : f <= Submitted => f <= Submitted'
    BY <1>1
  <1>6. QueueInOrder'
    BY <1>2, <1>5 DEF QueueInOrder, Ascends
  <1>7. TakenAhead'
    BY <1>4, <1>5 DEF TakenAhead
  <1>8. SentAhead'
    BY <1>4, <1>5 DEF SentAhead
  <1> QED
    BY <1>3, <1>6, <1>7, <1>8

(* A frame captured, dropped or refused is counted where it goes.          *)
LEMMA CameraStep ==
  ASSUME ClientInv, CamCapture \/ CamRingFull \/ CamRefused \/ CamSubmitTimeout
  PROVE  Counters'
  <1> USE DEF ClientInv
  <1>1. /\ captured \in Nat /\ sent \in Nat /\ dropped \in Nat /\ fullRing \in Nat
        /\ Len(queue) \in Nat
        /\ cam.failed \in BOOLEAN
    BY DEF TypeOK
  <1>2. UNCHANGED <<queue, inFlight, pending, answers, io, sent, dropped, policy>>
    BY DEF CamCapture, CamRingFull, CamRefused, CamSubmitTimeout, async, inbound, service
  <1>3. \/ /\ cam.pc = "loop" /\ cam'.pc = "write" /\ cam'.failed = cam.failed
           /\ captured' = captured + 1 /\ fullRing' = fullRing
        \/ /\ cam.pc = "write" /\ cam'.pc = "consume" /\ cam'.failed = cam.failed
           /\ captured' = captured /\ fullRing' = fullRing + 1
        \/ /\ cam.pc = "write" /\ cam'.pc = "teardown" /\ cam'.failed = TRUE
           /\ captured' = captured /\ fullRing' = fullRing
        \/ /\ cam.pc = "submit" /\ cam'.pc = "consume" /\ cam'.failed = cam.failed
           /\ captured' = captured /\ fullRing' = fullRing /\ policy = "BLOCK"
    BY DEF CamCapture, CamRingFull, CamRefused, CamSubmitTimeout, CamGoto, TypeOK
  <1>4. FrameInHand' /\ Submitted' \in Int /\ Submitted' >= Submitted
    BY <1>1, <1>3 DEF Submitted, FrameInHand
  <1>5. Accounted'
    <2> DEFINE known == sent + dropped + Len(queue) + (IF io.pc = "taken" THEN 1 ELSE 0)
    <2>1. known \in Nat /\ known' = known
      BY <1>1, <1>2
    <2>2. /\ Account = known + fullRing + (IF cam.pc \in {"write", "submit"} THEN 1 ELSE 0)
          /\ Account' = known + fullRing' + (IF cam'.pc \in {"write", "submit"} THEN 1 ELSE 0)
      BY <1>1, <1>2, <1>3, SMTT(30) DEF Account
    <2> HIDE DEF known
    <2> QED
      BY <1>1, <1>2, <1>3, <2>1, <2>2 DEF Accounted
  <1>6. (WindowRespected /\ QueueInOrder /\ TakenAhead /\ SentAhead /\ AnsweredOnce)'
    BY <1>2, <1>4, CameraMovesOn
  <1> QED
    BY <1>4, <1>5, <1>6 DEF Counters

(* A frame submitted is in the queue, behind every other, or counted as    *)
(* dropped.                                                                *)
LEMMA SubmitStep ==
  ASSUME ClientInv, CamSubmit
  PROVE  Counters'
  <1> USE DEF ClientInv
  <1>1. /\ captured \in Frames /\ Put(captured)
        /\ \A i \in 1 .. Len(queue) : queue[i] < captured
    BY QueueBehind, SMTT(30) DEF CamSubmit, CamGoto, FrameInHand, Frames, TypeOK
  <1>2. /\ queue' \in Seq(Frames) /\ dropped' \in Nat
        /\ Len(queue') <= QueueMax
        /\ dropped' + Len(queue') = dropped + Len(queue) + 1
        /\ Ascends(queue')
        /\ \A i \in 1 .. Len(queue') : queue'[i] <= captured
        /\ \A g \in Frames : Ahead(g) /\ g < captured => Ahead(g)'
    BY <1>1, PutSound DEF QueueInOrder, WindowRespected
  <1>3. /\ UNCHANGED <<captured, fullRing, io, inFlight, pending, sent, answers, policy>>
        /\ cam.pc = "submit" /\ cam'.pc = "consume" /\ cam'.failed = cam.failed
    BY DEF CamSubmit, CamGoto, async, inbound, service, TypeOK
  <1>4. /\ Submitted = captured - 1 /\ Submitted' = captured /\ captured \in Nat
        /\ Frames \subseteq Nat
    BY <1>3, ClientAssumption DEF Submitted, TypeOK, ClientAssumption, Frames
  <1>5. (WindowRespected /\ FrameInHand /\ AnsweredOnce)'
    BY <1>2, <1>3 DEF WindowRespected, FrameInHand, AnsweredOnce
  <1>6. QueueInOrder'
    BY <1>2, <1>3, <1>4 DEF QueueInOrder, Ascends
  <1>7. TakenAhead'
    <2> SUFFICES ASSUME io.pc = "taken"
                 PROVE  io.req \in Frames /\ io.req <= captured /\ inFlight < Window /\ Ahead(io.req)'
      BY <1>3, <1>4 DEF TakenAhead
    <2>1. io.req \in Frames /\ io.req <= captured - 1 /\ inFlight < Window /\ Ahead(io.req)
      BY <1>4 DEF TakenAhead
    <2>2. io.req <= captured
      <3>1. io.req \in Nat
        BY <1>4, <2>1
      <3> QED
        BY <1>4, <2>1, <3>1
    <2>3. Ahead(io.req)'
      <3>1. io.req \in Nat
        BY <1>4, <2>1
      <3>2. io.req < captured
        BY <1>4, <2>1, <3>1
      <3> QED
        BY <1>2, <1>3, <2>1, <3>2 DEF Ahead
    <2> QED
      BY <2>1, <2>2, <2>3
  <1>8. SentAhead'
    BY <1>2, <1>3, <1>4 DEF SentAhead
  <1>9. Account' = Account
    <2> DEFINE taken == IF io.pc = "taken" THEN 1 ELSE 0
               n == Len(queue)
               m == Len(queue')
    <2>1. taken \in Nat /\ n \in Nat /\ m \in Nat /\ dropped' \in Nat /\ dropped' + m = dropped + n + 1
      BY <1>2 DEF TypeOK
    <2>2. sent \in Nat /\ fullRing \in Nat /\ dropped \in Nat
      BY DEF TypeOK
    <2>3. /\ Account = sent + dropped + fullRing + n + taken + 1
          /\ Account' = sent + dropped' + fullRing + m + taken + 0
      BY <1>3 DEF Account
    <2> HIDE DEF taken, n, m
    <2>4. PICK d \in Nat : d = dropped'
      BY <2>1
    <2>5. d + m = dropped + n + 1
      BY <2>1, <2>4
    <2>6. sent + d + fullRing + m + taken + 0 = sent + dropped + fullRing + n + taken + 1
      BY <2>1, <2>2, <2>5
    <2> QED
      BY <2>3, <2>4, <2>6
  <1>10. Accounted'
    BY <1>3, <1>9 DEF Accounted
  <1> QED
    BY <1>5, <1>6, <1>7, <1>8, <1>10 DEF Counters

(* The io thread takes a request out of the queue ...                      *)
LEMMA TakeStep ==
  ASSUME ClientInv, IoTake
  PROVE  Counters'
  <1> USE DEF ClientInv
  <1>1. /\ queue \in Seq(Frames) /\ Ascends(queue) /\ queue # <<>>
        /\ queue' = Tail(queue) /\ Len(queue) \in Nat
    BY DEF IoTake, TypeOK, QueueInOrder
  <1>2. /\ UNCHANGED <<captured, fullRing, cam, dropped, inFlight, pending, sent, answers, policy>>
        /\ io.pc = "async" /\ io' = [pc |-> "taken", req |-> Head(queue)] /\ inFlight < Window
    BY DEF IoTake, WindowOpen, camera, async, inbound, service
  <1>3. /\ Len(queue) >= 1 /\ Head(queue) = queue[1] /\ Head(queue) \in Frames
        /\ queue' \in Seq(Frames) /\ Len(queue') = Len(queue) - 1
        /\ \A i \in 1 .. Len(queue') : i + 1 \in 1 .. Len(queue) /\ queue'[i] = queue[i + 1]
        /\ Ascends(queue')
        /\ \A i \in 1 .. Len(queue') : Head(queue) < queue'[i]
    BY <1>1, TailAscends
  <1>4. Submitted' = Submitted
    BY <1>2 DEF Submitted
  <1>5. \A f : Ahead(f) => Ahead(f)' /\ f < Head(queue)
    BY <1>1, <1>3 DEF Ahead
  <1>6. (WindowRespected /\ FrameInHand /\ AnsweredOnce)'
    <2>1. Len(queue') <= QueueMax
      BY <1>1, <1>3, ClientAssumption DEF WindowRespected, ClientAssumption
    <2> QED
      BY <1>2, <2>1 DEF WindowRespected, FrameInHand, AnsweredOnce
  <1>7. QueueInOrder'
    BY <1>3, <1>4 DEF QueueInOrder, Ascends
  <1>8. TakenAhead'
    BY <1>1, <1>2, <1>3, <1>4 DEF TakenAhead, Ahead, QueueInOrder
  <1>9. SentAhead'
    BY <1>2, <1>4, <1>5 DEF SentAhead
  <1>10. Account' = Account
    BY <1>1, <1>2, <1>3 DEF Account, TypeOK
  <1>11. Accounted'
    BY <1>2, <1>10 DEF Accounted
  <1> QED
    BY <1>6, <1>7, <1>8, <1>9, <1>11 DEF Counters

(* ... and accounts for it before it is sent.                              *)
LEMMA MarkStep ==
  ASSUME ClientInv, IoMark
  PROVE  Counters'
  <1> USE DEF ClientInv
  <1>1. /\ UNCHANGED <<cam, captured, fullRing, queue, dropped, answers, policy>>
        /\ io.pc = "taken" /\ io'.pc = "send"
        /\ pending' = pending \cup {io.req} /\ inFlight' = inFlight + 1 /\ sent' = sent + 1
    BY DEF IoMark, TypeOK, camera, inbound, service
  <1>2. io.req \in Frames /\ io.req <= Submitted /\ inFlight < Window /\ Ahead(io.req)
    BY <1>1 DEF TakenAhead
  <1>3. Submitted' = Submitted /\ \A f : Ahead(f)' <=> Ahead(f)
    BY <1>1 DEF Submitted, Ahead
  <1>4. /\ Frames \subseteq Nat /\ Window \in Nat /\ inFlight \in Nat
        /\ answers \in [Frames -> Nat]
    BY ClientAssumption DEF ClientAssumption, Frames, TypeOK
  <1>5. io.req \notin pending /\ answers[io.req] = 0
    <2>0. io.req \in Nat /\ answers[io.req] \in Nat
      BY <1>2, <1>4
    <2>1. ~(io.req < io.req) /\ answers[io.req] \in Nat
      BY <2>0
    <2>2. ~(io.req \in pending \/ answers[io.req] > 0)
      BY <1>1, <1>2, <2>1 DEF SentAhead
    <2> QED
      BY <2>1, <2>2
  <1>6. WindowRespected'
    <2>1. Cardinality(pending') = Cardinality(pending) + 1
      BY <1>1, <1>5, PendingFinite, FS_AddElement
    <2>2. Cardinality(pending) \in Nat
      BY PendingFinite
    <2> QED
      BY <1>1, <1>2, <1>4, <2>1, <2>2 DEF WindowRespected
  <1>7. AnsweredOnce'
    BY <1>1, <1>5 DEF AnsweredOnce
  <1>8. (QueueInOrder /\ TakenAhead /\ FrameInHand)'
    BY <1>1, <1>3 DEF QueueInOrder, TakenAhead, FrameInHand, Ascends
  <1>9. SentAhead'
    BY <1>1, <1>2, <1>3 DEF SentAhead
  <1>10. Account' = Account
    BY <1>1 DEF Account, TypeOK
  <1>11. Accounted'
    BY <1>1, <1>10 DEF Accounted
  <1> QED
    BY <1>6, <1>7, <1>8, <1>9, <1>11 DEF Counters

(* Requests are answered, by the server or by the scan, or forgotten: what *)
(* is no longer pending gets one response at most, and leaves the window.  *)
LEMMA AnswerStep ==
  ASSUME ClientInv, NEW set \in SUBSET pending,
         UNCHANGED <<cam, captured, fullRing, queue, dropped, sent, policy>>,
         io.pc # "taken", io'.pc # "taken",
         pending' = pending \ set,
         inFlight' \in Nat, inFlight' <= inFlight, Cardinality(pending') <= inFlight',
         \A f \in Frames : answers'[f] = answers[f] \/ (f \in set /\ answers'[f] = answers[f] + 1)
  PROVE  Counters'
  <1> USE DEF ClientInv
  <1>1. Submitted' = Submitted /\ \A f : Ahead(f)' <=> Ahead(f)
    BY DEF Submitted, Ahead
  <1>2. answers \in [Frames -> Nat] /\ pending \subseteq Frames /\ inFlight \in Nat
    BY DEF TypeOK
  <1>3. WindowRespected'
    BY <1>2, ClientAssumption DEF WindowRespected, ClientAssumption
  <1>4. AnsweredOnce'
    BY <1>2 DEF AnsweredOnce
  <1>5. (QueueInOrder /\ TakenAhead /\ FrameInHand)'
    BY <1>1 DEF QueueInOrder, TakenAhead, FrameInHand, Ascends
  <1>6. SentAhead'
    BY <1>1, <1>2 DEF SentAhead
  <1>7. Account' = Account
    BY DEF Account
  <1>8. Accounted'
    BY <1>7 DEF Accounted
  <1> QED
    BY <1>3, <1>4, <1>5, <1>6, <1>8 DEF Counters

(* An answer to a pending request is its only response.                    *)
LEMMA ReceiveStep ==
  ASSUME ClientInv, TypeOK', IoRecvAnswer \/ IoRecvSkewed
  PROVE  Counters'
  <1> USE DEF ClientInv
  <1> DEFINE f == Head(replies).id
  <1>1. /\ f \in pending /\ pending' = pending \ {f}
        /\ UNCHANGED <<cam, captured, fullRing, queue, dropped, sent, policy>>
        /\ io.pc # "taken" /\ io'.pc # "taken"
    BY DEF IoRecvAnswer, IoRecvSkewed, Known, Forget, IoGoto, camera, service
  <1>2. \A g \in Frames : answers'[g] = answers[g] \/ (g \in {f} /\ answers'[g] = answers[g] + 1)
    <2>1. answers' = [answers EXCEPT ![f] = @ + 1] \/ answers' = answers
      BY DEF IoRecvAnswer, IoRecvSkewed, inbound
    <2>2. answers \in [Frames -> Nat]
      BY DEF TypeOK
    <2> HIDE DEF f
    <2> QED
      BY <2>1, <2>2
  <1>3. inFlight' = inFlight - 1 \/ inFlight' = inFlight
    BY DEF IoRecvAnswer, IoRecvSkewed
  <1>4. inFlight \in Nat /\ inFlight' \in Nat
    BY DEF TypeOK
  <1> HIDE DEF f
  <1>5. Cardinality(pending') = Cardinality(pending) - 1 /\ Cardinality(pending) \in Nat
    BY <1>1, PendingCounted, PendingFinite
  <1>6. inFlight' <= inFlight /\ Cardinality(pending') <= inFlight'
    BY <1>3, <1>4, <1>5 DEF WindowRespected
  <1> QED
    BY <1>1, <1>2, <1>4, <1>6, AnswerStep

(* So is a Timeout: what is overdue is pending, and pending no more        *)
(* afterwards.                                                             *)
LEMMA ScanStep ==
  ASSUME ClientInv, TypeOK', IoScan
  PROVE  Counters'
  <1> USE DEF ClientInv
  <1>1. /\ overdue \subseteq pending /\ pending' = pending \ overdue
        /\ UNCHANGED <<cam, captured, fullRing, queue, dropped, sent, policy>>
        /\ io.pc # "taken" /\ io'.pc # "taken"
        /\ inFlight' = inFlight - Cardinality(overdue)
    BY DEF IoScan, Forget, IoGoto, camera, service, TypeOK
  <1>2. \A g \in Frames : answers'[g] = answers[g] \/ (g \in overdue /\ answers'[g] = answers[g] + 1)
    BY DEF IoScan
  <1>3. inFlight \in Nat /\ inFlight' \in Nat
    BY DEF TypeOK
  <1>4. /\ Cardinality(pending') = Cardinality(pending) - Cardinality(overdue)
        /\ Cardinality(pending) \in Nat /\ Cardinality(overdue) \in Nat
    BY <1>1, PendingFinite
  <1>5. inFlight' <= inFlight /\ Cardinality(pending') <= inFlight'
    BY <1>1, <1>3, <1>4 DEF WindowRespected
  <1> QED
    BY <1>1, <1>2, <1>3, <1>5, AnswerStep

(***************************************************************************)
(* The threads' places.                                                    *)
(***************************************************************************)
(* Where the io thread and the synchronous callers are stays consistent.   *)
LEMMA PlacesStep ==
  ASSUME ClientInv, TypeOK', [Next]_vars
  PROVE  (SenderHasRequest /\ IoJoined)'
  <1> USE DEF ClientInv
  <1>1. CASE CamStep
    <2>0. CamJoinTimeout => IoGone'
      <3> SUFFICES ASSUME CamJoinTimeout
                   PROVE  IoGone'
        OBVIOUS
      <3>1. PICK left \in {"stopped", "stuck"} : io' = [pc |-> left, req |-> Nothing]
        BY DEF CamJoinTimeout
      <3> QED
        BY <3>1 DEF IoGone
    <2>1. io' = io \/ IoGone'
      BY <1>1, <2>0
      DEF CamStep, CamShutdown, CamCapture, CamWritten, CamRingFull, CamRefused, CamSubmit,
          CamSubmitTimeout, CamConsume, CamStop, CamDrainQueue, CamDrainFlight, CamDrainWait,
          CamDrainCut, CamCollect, CamTeardown, CamJoin, CamFinal
    <2>2. \A from, to : CamGoto(from, to) => cam'.pc = to
      BY DEF CamGoto, TypeOK
    <2>3. /\ cam'.pc \in {"final", "done"} => IoGone'
          /\ cam'.pc = "done" => polled' = answers'
      <3>1. CASE CamJoin \/ CamJoinTimeout \/ CamFinal
        <4>1. cam.pc = "final" => IoGone
          BY DEF IoJoined
        <4>2. CASE CamJoin
          BY <2>2, <4>2 DEF CamJoin, IoGone
        <4>3. CASE CamJoinTimeout
          <5>1. PICK outcome \in {"final", "hung", "aborted"} : CamGoto("join", outcome)
            BY <4>3 DEF CamJoinTimeout
          <5> QED
            BY <2>0, <2>2, <4>3, <5>1
        <4>4. CASE CamFinal
          BY <2>2, <4>1, <4>4 DEF CamFinal, CamGoto, Poll, IoGone
        <4> QED
          BY <3>1, <4>2, <4>3, <4>4
      <3>2. CASE ~(CamJoin \/ CamJoinTimeout \/ CamFinal)
        <4> HIDE DEF ClientInv
        <4>1. CASE CamRefused \/ CamDrainQueue \/ CamDrainFlight \/ CamDrainCut
          <5>1. \/ cam' = [cam EXCEPT !.pc = "teardown", !.failed = TRUE]
                \/ cam' = [cam EXCEPT !.pc = "collect", !.cut = TRUE]
                \/ \E pc \in {"drainWait", "drainFlight", "collect"} : cam' = [cam EXCEPT !.pc = pc]
            BY <4>1 DEF CamRefused, CamDrainQueue, CamDrainFlight, CamDrainCut
          <5>2. cam'.pc \in {"teardown", "drainWait", "drainFlight", "collect"}
            BY <5>1 DEF ClientInv, TypeOK
          <5> QED
            BY <5>2
        <4>2. CASE ~(CamRefused \/ CamDrainQueue \/ CamDrainFlight \/ CamDrainCut)
          <5>1. cam'.pc \notin {"final", "done"}
            BY <1>1, <2>2, <3>2, <4>2, SMTT(30)
            DEF CamStep, CamShutdown, CamCapture, CamWritten, CamRingFull, CamSubmit,
                CamSubmitTimeout, CamConsume, CamStop, CamDrainWait, CamCollect, CamTeardown
          <5> QED
            BY <5>1
        <4> QED
          BY <4>1, <4>2
      <3> QED
        BY <3>1, <3>2
    <2> QED
      BY <2>1, <2>3 DEF SenderHasRequest, IoJoined, IoGone
  <1>2. CASE IoStep
    <2>1. cam' = cam /\ ~IoGone
      BY <1>2
      DEF IoGone, IoStep, IoTop, IoSyncTake, IoSyncNone, IoSyncSend, IoTake, IoNone, IoMark, IoSend,
          IoQuiet, IoRecvGarbage, IoRecvSync, IoRecvAnswer, IoRecvSkewed, IoRecvLate, IoScan,
          IoGoto, camera
    <2>2. IoSyncTake => SenderHasRequest'
      <3> SUFFICES ASSUME IoSyncTake
                   PROVE  SenderHasRequest'
        OBVIOUS
      <3>1. Head(outbound) \in Callers /\ io' = [pc |-> "syncSend", req |-> Head(outbound)]
        BY HeadTail DEF IoSyncTake, TypeOK
      <3> QED
        BY <3>1 DEF SenderHasRequest, Requests
    <2>3. IoMark => SenderHasRequest'
      <3> SUFFICES ASSUME IoMark
                   PROVE  SenderHasRequest'
        OBVIOUS
      <3>1. io.req \in Frames /\ io'.req = io.req
        BY DEF IoMark, TakenAhead, TypeOK
      <3> QED
        BY <3>1 DEF SenderHasRequest, Requests
    <2>4. ~(IoSyncTake \/ IoMark) => SenderHasRequest'
      <3> SUFFICES ASSUME ~(IoSyncTake \/ IoMark)
                   PROVE  SenderHasRequest'
        OBVIOUS
      <3>1. io'.pc \notin {"send", "syncSend"}
        BY <1>2
        DEF IoStep, IoTop, IoSyncNone, IoSyncSend, IoTake, IoNone, IoSend, IoQuiet, IoRecvGarbage,
            IoRecvSync, IoRecvAnswer, IoRecvSkewed, IoRecvLate, IoScan, IoGoto
      <3> QED
        BY <3>1 DEF SenderHasRequest
    <2> QED
      BY <2>1, <2>2, <2>3, <2>4 DEF IoJoined
  <1>3. CASE UNCHANGED <<cam, io, answers, polled>>
    BY <1>3 DEF SenderHasRequest, IoJoined, IoGone
  <1> QED
    BY <1>1, <1>2, <1>3
    DEF Next, vars, camera, inbound, ServerStep, ServerTake, ServerReply, ServerDrop, ServerCrash,
        ServerRestart, Elapse, InferStep, InferRegister, InferPut, InferAnswered, InferTimeout,
        InferExpire

(***************************************************************************)
(* The theorems.                                                           *)
(***************************************************************************)
(* The invariant holds at the start.                                       *)
LEMMA ClientInit == Init => ClientInv
  <1> SUFFICES ASSUME Init
               PROVE  ClientInv
    OBVIOUS
  <1> USE DEF Init, Nothing
  <1>1. TypeOK
    BY ClientAssumption DEF TypeOK, ClientAssumption
  <1>2. WindowRespected
    BY ClientAssumption, FS_EmptySet DEF WindowRespected, ClientAssumption
  <1>3. FrameInHand /\ QueueInOrder /\ SenderHasRequest /\ TakenAhead
    BY DEF FrameInHand, QueueInOrder, SenderHasRequest, TakenAhead, Ascends
  <1>4. SentAhead /\ AnsweredOnce /\ Accounted /\ IoJoined
    BY DEF SentAhead, AnsweredOnce, Accounted, Account, IoJoined
  <1> QED
    BY <1>1, <1>2, <1>3, <1>4 DEF ClientInv

(* One step of any thread keeps it.                                        *)
LEMMA ClientStep == ClientInv /\ [Next]_vars => ClientInv'
  <1> SUFFICES ASSUME ClientInv, [Next]_vars
               PROVE  ClientInv'
    OBVIOUS
  <1>1. TypeOK /\ TypeOK'
    BY ClientTyped DEF ClientInv
  <1>2. (SenderHasRequest /\ IoJoined)'
    BY <1>1, PlacesStep
  <1>3. Counters'
    BY <1>1, QuietStep, QuietCamera, QuietIo, QuietOthers, CameraStep, SubmitStep, TakeStep,
       MarkStep, ReceiveStep, ScanStep
    DEF Next, CamStep, CamShutdown, IoStep
  <1> QED
    BY <1>1, <1>2, <1>3 DEF ClientInv, Counters

(* The invariant holds in every reachable state.                           *)
THEOREM ClientInvariant == Spec => []ClientInv
  BY ClientInit, ClientStep, PTL DEF Spec

(* A request gets one response at most, the answer or the Timeout.         *)
THEOREM OneResponseAlways == Spec => []OneResponse
  <1>1. ClientInv => OneResponse
    BY DEF ClientInv, AnsweredOnce, OneResponse
  <1> QED
    BY <1>1, ClientInvariant, PTL

(* Whatever the policy of the queue, the window is respected and the       *)
(* counters never account for a frame twice: their sum is at most what was *)
(* captured.                                                               *)
THEOREM NothingInvented ==
  Spec => [](WindowRespected /\ sent + dropped + fullRing + Len(queue) <= captured)
  <1>1. ClientInv => WindowRespected /\ sent + dropped + fullRing + Len(queue) <= captured
    BY DEF ClientInv, Accounted, Account, TypeOK
  <1> QED
    BY <1>1, ClientInvariant, PTL

(* With a queue that drops (DROP_OLDEST, DROP_NEWEST, REJECT) the counters *)
(* account for every captured frame when they are written out, and the     *)
(* camera has taken every response.                                        *)
THEOREM CountersConserved ==
  ASSUME "BLOCK" \notin Policies
  PROVE  Spec => []Conserved
  <1>1. ClientInv => Conserved
    <2> SUFFICES ASSUME ClientInv, cam.pc = "done"
                 PROVE  (~cam.failed => Balanced) /\ polled = answers
      BY DEF ClientInv, Conserved
    <2>1. IoGone /\ polled = answers
      BY DEF ClientInv, IoJoined
    <2>2. Account = sent + dropped + fullRing + Len(queue)
      <3>1. io.pc # "taken" /\ cam.pc \notin {"write", "submit"}
        BY <2>1 DEF IoGone
      <3>2. {sent, dropped, fullRing, Len(queue)} \subseteq Nat
        BY DEF ClientInv, TypeOK
      <3> QED
        BY <3>1, <3>2 DEF Account
    <2>3. policy # "BLOCK"
      BY DEF ClientInv, TypeOK
    <2> QED
      BY <2>1, <2>2, <2>3 DEF ClientInv, Accounted, Balanced
  <1> QED
    BY <1>1, ClientInvariant, PTL

================================================================================
