------------------------------ MODULE WebProofs ------------------------------
(***************************************************************************)
(* Proofs about the two halves of the web application, which share no       *)
(* state.  WebStreams, for every number of windows, threads and places: the *)
(* bulkhead is sound.  WebLoops, for every set of command lines and every   *)
(* timing: detections are spaced as the options say, and an error stands    *)
(* until a detection succeeds.                                              *)
(***************************************************************************)
EXTENDS WebStreams, WebLoops, FiniteSetTheorems, TLAPS

(***************************************************************************)
(* Arithmetic of the counters, which are kept modulo Wrap.                 *)
(***************************************************************************)
LEMMA ModUnique ==
  ASSUME NEW x \in Int, NEW q \in Int, NEW r \in 0 .. Wrap - 1, x = Wrap * q + r
  PROVE  x % Wrap = r
  BY PoolAssumption, SMTT(30) DEF PoolAssumption

LEMMA ModSplit ==
  ASSUME NEW x \in Int
  PROVE  /\ x \div Wrap \in Int /\ x % Wrap \in 0 .. Wrap - 1
         /\ x = Wrap * (x \div Wrap) + (x % Wrap)
  BY PoolAssumption, SMTT(30) DEF PoolAssumption

LEMMA ModAdd ==
  ASSUME NEW a \in Int, NEW b \in Int
  PROVE  (a + (b % Wrap)) % Wrap = (a + b) % Wrap
  <1> DEFINE s == a + (b % Wrap)
             q == s \div Wrap
             r == s % Wrap
             k == b \div Wrap
  <1>w. Wrap \in Int /\ b % Wrap \in Int
    BY PoolAssumption, ModSplit DEF PoolAssumption
  <1>1. s \in Int
    BY <1>w
  <1>2. q \in Int /\ r \in 0 .. Wrap - 1 /\ s = Wrap * q + r
    BY <1>1, ModSplit
  <1>3. k \in Int /\ b = Wrap * k + (b % Wrap)
    BY ModSplit
  <1>4. s = a + (b % Wrap)
    OBVIOUS
  <1> HIDE DEF s, q, r, k
  <1>5. a + b = Wrap * q + r + Wrap * k
    BY <1>2, <1>3, <1>4, <1>w
  <1>6. a + b = Wrap * (q + k) + r
    BY <1>2, <1>3, <1>5, <1>w, SMTT(30)
  <1>7. (a + b) % Wrap = r
    BY <1>2, <1>3, <1>6, ModUnique
  <1> QED
    BY <1>7 DEF r, s

(***************************************************************************)
(* The account of the refusals.                                            *)
(***************************************************************************)
LogType(l) ==
  l \in [refused : Nat, owed : Nat, told : Nat, suppressed : Nat, inside : BOOLEAN]

Told(l) == l.refused = (l.told + l.suppressed + l.owed) % Wrap

(* A refusal that is counted is owed.                                      *)
LEMMA RefusalOwed ==
  ASSUME LogType(log), Told(log), Refuse
  PROVE  LogType(log') /\ Told(log')
  <1> USE DEF LogType, Told
  <1> DEFINE n == (log.refused + 1) % Wrap
             m == log.told + log.suppressed + log.owed
  <1>1. n \in Nat
    BY ModSplit, PoolAssumption DEF PoolAssumption
  <1>2. (1 + (m % Wrap)) % Wrap = (1 + m) % Wrap
    BY ModAdd
  <1>3. log' = [log EXCEPT !.refused = n, !.owed = log.owed + 1]
    BY DEF Refuse
  <1>6. n = (1 + m) % Wrap
    BY <1>2
  <1> HIDE DEF n
  <1>4. log' \in [refused : Nat, owed : Nat, told : Nat, suppressed : Nat, inside : BOOLEAN]
    <2>1. n \in Nat /\ log.owed + 1 \in Nat
      BY <1>1
    <2> HIDE DEF m
    <2> QED
      BY <1>3, <2>1
  <1>5. /\ log'.refused = n /\ log'.owed = log.owed + 1
        /\ log'.told = log.told /\ log'.suppressed = log.suppressed
    BY <1>3
  <1>7. log'.told + log'.suppressed + log'.owed = 1 + m
    BY <1>5
  <1> QED
    BY <1>4, <1>5, <1>6, <1>7

(* A refusal that is owed is told now, or added to what is to be told.     *)
LEMMA RefusalTold ==
  ASSUME LogType(log), Told(log), LogRefusal
  PROVE  LogType(log') /\ Told(log')
  <1> USE DEF LogType, Told
  <1>w. \A x \in Int : x % Wrap \in Nat
    BY ModSplit, PoolAssumption DEF PoolAssumption
  <1>o. log.owed \in Nat /\ log.owed > 0
    BY DEF LogRefusal
  <1>2. CASE log.inside
    <2> DEFINE s == (log.suppressed + 1) % Wrap
    <2>1. log' = [log EXCEPT !.owed = log.owed - 1, !.suppressed = s]
      BY <1>2 DEF LogRefusal, Tick
    <2>2. /\ log'.refused = log.refused /\ log'.told = log.told
          /\ log'.owed = log.owed - 1 /\ log'.suppressed = s
      BY <2>1
    <2>3. (log.told + log.owed - 1 + s) % Wrap = (log.told + log.owed - 1 + (log.suppressed + 1)) % Wrap
      BY ModAdd
    <2>4. log' \in [refused : Nat, owed : Nat, told : Nat, suppressed : Nat, inside : BOOLEAN]
      <3>1. s \in Nat /\ log.owed - 1 \in Nat
        BY <1>w, <1>o
      <3> QED
        BY <2>1, <3>1
    <2>5. s \in Nat
      BY <1>w
    <2> HIDE DEF s
    <2>6. log'.told + log'.suppressed + log'.owed = log.told + log.owed - 1 + s
      BY <1>o, <2>2, <2>5
    <2>7. log.told + log.owed - 1 + (log.suppressed + 1) = log.told + log.suppressed + log.owed
      BY <1>o
    <2> QED
      BY <2>2, <2>3, <2>4, <2>6, <2>7
  <1>3. CASE ~log.inside
    <2> DEFINE u == (log.told + 1 + log.suppressed) % Wrap
    <2>1. log' = [log EXCEPT !.owed = log.owed - 1, !.told = u, !.inside = TRUE, !.suppressed = 0]
      BY <1>3 DEF LogRefusal, Tick
    <2>2. /\ log'.refused = log.refused /\ log'.told = u
          /\ log'.owed = log.owed - 1 /\ log'.suppressed = 0
      BY <2>1
    <2>3. (log.owed - 1 + u) % Wrap = (log.owed - 1 + (log.told + 1 + log.suppressed)) % Wrap
      BY ModAdd
    <2>4. log' \in [refused : Nat, owed : Nat, told : Nat, suppressed : Nat, inside : BOOLEAN]
      <3>1. u \in Nat /\ log.owed - 1 \in Nat
        BY <1>w, <1>o
      <3> QED
        BY <2>1, <3>1
    <2>5. u \in Nat
      BY <1>w
    <2> HIDE DEF u
    <2>6. log'.told + log'.suppressed + log'.owed = log.owed - 1 + u
      BY <1>o, <2>2, <2>5
    <2>7. log.owed - 1 + (log.told + 1 + log.suppressed) = log.told + log.suppressed + log.owed
      BY <1>o
    <2> QED
      BY <2>2, <2>3, <2>4, <2>6, <2>7
  <1> QED
    BY <1>2, <1>3

(***************************************************************************)
(* The responses that stream.                                              *)
(***************************************************************************)
One(b) == IF b THEN 1 ELSE 0

\* What the page in a window holds of the places.
Held(p) == One(p.img = "playing") + One(p.es = "open")

\* One element more or less in a subset of the windows.
LEMMA SetStep ==
  ASSUME NEW S \in SUBSET Viewers, NEW T \in SUBSET Viewers, NEW v \in Viewers,
         \A w \in Viewers \ {v} : w \in S <=> w \in T
  PROVE  /\ Cardinality(S) \in Nat /\ Cardinality(T) \in Nat
         /\ Cardinality(T) = Cardinality(S) - One(v \in S) + One(v \in T)
  <1>1. IsFiniteSet(S) /\ IsFiniteSet(T)
    BY PoolAssumption, FS_Subset DEF PoolAssumption
  <1>2. Cardinality(S) \in Nat /\ Cardinality(T) \in Nat
    BY <1>1, FS_CardinalityType
  <1>3. CASE v \in S <=> v \in T
    <2>1. S = T
      BY <1>3
    <2> QED
      BY <1>2, <2>1 DEF One
  <1>4. CASE v \in S /\ v \notin T
    <2>1. T = S \ {v}
      BY <1>4
    <2> QED
      BY <1>1, <1>2, <1>4, <2>1, FS_RemoveElement DEF One
  <1>5. CASE v \notin S /\ v \in T
    <2>1. T = S \cup {v}
      BY <1>5
    <2> QED
      BY <1>1, <1>2, <1>5, <2>1, FS_AddElement DEF One
  <1> QED
    BY <1>3, <1>4, <1>5

Watching == Cardinality(Playing) + Cardinality(Listening)

LEMMA WatchingType ==
  ASSUME view \in [Viewers -> Pages]
  PROVE  Watching \in Nat
  <1>1. Playing \subseteq Viewers /\ Listening \subseteq Viewers
    BY DEF Playing, Listening
  <1>2. Cardinality(Playing) \in Nat /\ Cardinality(Listening) \in Nat
    BY <1>1, PoolAssumption, FS_Subset, FS_CardinalityType DEF PoolAssumption
  <1> QED
    BY <1>2 DEF Watching

\* What changes in one window changes the count by what the window holds.
LEMMA ViewStep ==
  ASSUME view \in [Viewers -> Pages], NEW v \in Viewers, NEW p \in Pages,
         view' = [view EXCEPT ![v] = p]
  PROVE  /\ view' \in [Viewers -> Pages]
         /\ Watching' = Watching - Held(view[v]) + Held(p)
  <1>1. view' \in [Viewers -> Pages] /\ view'[v] = p /\ \A w \in Viewers \ {v} : view'[w] = view[w]
    OBVIOUS
  <1>2. /\ Playing \in SUBSET Viewers /\ Playing' \in SUBSET Viewers
        /\ Listening \in SUBSET Viewers /\ Listening' \in SUBSET Viewers
    BY DEF Playing, Listening
  <1>3. /\ v \in Playing <=> view[v].img = "playing"
        /\ v \in Playing' <=> p.img = "playing"
        /\ \A w \in Viewers \ {v} : w \in Playing <=> w \in Playing'
    BY <1>1 DEF Playing
  <1>4. /\ v \in Listening <=> view[v].es = "open"
        /\ v \in Listening' <=> p.es = "open"
        /\ \A w \in Viewers \ {v} : w \in Listening <=> w \in Listening'
    BY <1>1 DEF Listening
  <1>5. /\ Cardinality(Playing) \in Nat
        /\ Cardinality(Playing') = Cardinality(Playing) - One(v \in Playing) + One(v \in Playing')
    BY <1>2, <1>3, SetStep
  <1>6. /\ Cardinality(Listening) \in Nat
        /\ Cardinality(Listening')
             = Cardinality(Listening) - One(v \in Listening) + One(v \in Listening')
    BY <1>2, <1>4, SetStep
  <1>7. /\ One(v \in Playing) = One(view[v].img = "playing")
        /\ One(v \in Playing') = One(p.img = "playing")
        /\ One(v \in Listening) = One(view[v].es = "open")
        /\ One(v \in Listening') = One(p.es = "open")
    BY <1>3, <1>4 DEF One
  <1>8. /\ One(view[v].img = "playing") \in Int /\ One(p.img = "playing") \in Int
        /\ One(view[v].es = "open") \in Int /\ One(p.es = "open") \in Int
    BY DEF One
  <1>9. Cardinality(Playing') + Cardinality(Listening')
          = (Cardinality(Playing) + Cardinality(Listening))
              - (One(view[v].img = "playing") + One(view[v].es = "open"))
              + (One(p.img = "playing") + One(p.es = "open"))
    BY <1>5, <1>6, <1>7, <1>8
  <1> QED
    BY <1>1, <1>9 DEF Watching, Held

(***************************************************************************)
(* The inductive invariant: the bulkhead counts what streams, a window     *)
(* nobody sits at holds nothing, and the refusals add up.                  *)
(***************************************************************************)
Ghosts == ghosts["stream"] + ghosts["events"]

Inv ==
    /\ TypeOK
    /\ \A v \in Viewers : view[v].here \/ view[v] = Away
    /\ active = Watching + Ghosts
    /\ active <= MaxStreams
    /\ Told(log)

LEMMA MaxStreamsType == MaxStreams \in Nat
  BY PoolAssumption DEF PoolAssumption, MaxStreams, NotGiven, CapacityFromThreads

\* A step that changes one window keeps the invariant when the places and the
\* responses to gone clients change by what the window holds more or less.
LEMMA Move ==
  ASSUME Inv, NEW v \in Viewers, NEW p \in Pages, view' = [view EXCEPT ![v] = p],
         p.here \/ p = Away,
         active' \in Nat, ghosts' \in [Kinds -> Nat], abandoned' \in [Kinds -> Nat],
         jpeg' \in BOOLEAN, moves' \in 0 .. Disturbances, LogType(log'), Told(log'),
         active' - Ghosts' = active - Ghosts - Held(view[v]) + Held(p),
         active' <= MaxStreams
  PROVE  Inv'
  <1>1. /\ view \in [Viewers -> Pages] /\ ghosts \in [Kinds -> Nat]
        /\ Watching \in Nat /\ active = Watching + Ghosts
    BY WatchingType DEF Inv, TypeOK
  <1>2. view' \in [Viewers -> Pages] /\ Watching' = Watching - Held(view[v]) + Held(p)
    BY <1>1, ViewStep
  <1>3. Ghosts \in Nat /\ Ghosts' \in Nat
    BY <1>1 DEF Ghosts, Kinds
  <1>4. Held(view[v]) \in Int /\ Held(p) \in Int
    BY DEF Held, One
  <1>5. active' = Watching' + Ghosts'
    BY <1>1, <1>2, <1>3, <1>4
  <1>6. TypeOK'
    BY <1>2 DEF TypeOK, LogType
  <1>7. \A w \in Viewers : view'[w].here \/ view'[w] = Away
    BY <1>1 DEF Inv
  <1>8. (active <= MaxStreams)' /\ (Told(log))'
    BY DEF MaxStreams, Told
  <1> QED
    BY <1>5, <1>6, <1>7, <1>8 DEF Inv

\* A step that changes no window.
LEMMA Rest ==
  ASSUME Inv, view' = view,
         active' \in Nat, ghosts' \in [Kinds -> Nat], abandoned' \in [Kinds -> Nat],
         jpeg' \in BOOLEAN, moves' \in 0 .. Disturbances, LogType(log'), Told(log'),
         active' = active - Ghosts + Ghosts', active' <= MaxStreams
  PROVE  Inv'
  <1>1. /\ view \in [Viewers -> Pages] /\ ghosts \in [Kinds -> Nat]
        /\ Watching \in Nat /\ active = Watching + Ghosts
    BY WatchingType DEF Inv, TypeOK
  <1>2. Watching' = Watching
    BY DEF Watching, Playing, Listening
  <1>3. Ghosts \in Nat /\ Ghosts' \in Nat
    BY <1>1 DEF Ghosts, Kinds
  <1>4. active' = Watching' + Ghosts'
    BY <1>1, <1>2, <1>3
  <1>5. TypeOK'
    BY <1>1 DEF TypeOK, LogType
  <1>6. (active <= MaxStreams)' /\ (Told(log))'
    BY DEF MaxStreams, Told
  <1> QED
    BY <1>4, <1>5, <1>6 DEF Inv

\* What the page lets go.
LEMMA LetGoCounts ==
  ASSUME ghosts \in [Kinds -> Nat], abandoned \in [Kinds -> Nat],
         NEW gone, NEW queued, LetGo(gone, queued)
  PROVE  /\ ghosts' \in [Kinds -> Nat] /\ abandoned' \in [Kinds -> Nat]
         /\ Ghosts' = Ghosts + One("stream" \in gone) + One("events" \in gone)
  BY DEF LetGo, Kinds, Ghosts, One

\* The page after an error of its event source.
LEMMA DegradedPage ==
  ASSUME NEW p \in Pages
  PROVE  /\ DegradeToPoll(p) \in Pages /\ DegradeToPoll(p).img = p.img
         /\ DegradeToPoll(p).here = p.here /\ DegradeToPoll(p).es = "closed"
  <1>1. p.polls + 1 \in Nat
    BY DEF Pages
  <1>2. DegradeToPoll(p) = [p EXCEPT !.es = "closed", !.polls = p.polls + 1]
    BY DEF DegradeToPoll
  <1> QED
    BY <1>1, <1>2 DEF Pages

LEMMA OnErrorPage ==
  ASSUME NEW p \in Pages, NEW closed \in BOOLEAN
  PROVE  /\ OnError(p, closed) \in Pages
         /\ OnError(p, closed).img = p.img /\ OnError(p, closed).here = p.here
         /\ OnError(p, closed).es # "open"
  <1> DEFINE e == IF closed THEN "closed" ELSE "asking"
             q == [p EXCEPT !.hurt = TRUE, !.fails = p.fails + 1, !.es = e]
  <1>1. p.fails + 1 \in Nat /\ e \in {"closed", "asking"}
    BY DEF Pages
  <1>2. OnError(p, closed) \in {q, DegradeToPoll(q)}
    BY DEF OnError
  <1> HIDE DEF e
  <1>3. q \in Pages /\ q.img = p.img /\ q.here = p.here /\ q.es = e
    BY <1>1 DEF Pages
  <1> HIDE DEF q
  <1>4. /\ DegradeToPoll(q) \in Pages /\ DegradeToPoll(q).img = q.img
        /\ DegradeToPoll(q).here = q.here /\ DegradeToPoll(q).es = "closed"
    BY <1>3, DegradedPage
  <1>5. q.es # "open"
    BY <1>1, <1>3
  <1> QED
    BY <1>2, <1>3, <1>4, <1>5

\* The parts of the invariant, typed one by one.
LEMMA Parts ==
  ASSUME Inv
  PROVE  /\ view \in [Viewers -> Pages] /\ active \in Nat
         /\ ghosts \in [Kinds -> Nat] /\ abandoned \in [Kinds -> Nat]
         /\ jpeg \in BOOLEAN /\ moves \in 0 .. Disturbances /\ LogType(log) /\ Told(log)
         /\ Watching \in Nat /\ Ghosts \in Nat /\ active = Watching + Ghosts
         /\ active <= MaxStreams /\ MaxStreams \in Nat
  <1>1. Ghosts \in Nat
    BY DEF Inv, TypeOK, Ghosts, Kinds
  <1> QED
    BY <1>1, WatchingType, MaxStreamsType DEF Inv, TypeOK, LogType

\* What a response to a client that is gone adds.
LEMMA GhostStep ==
  ASSUME ghosts \in [Kinds -> Nat], NEW k \in Kinds, NEW n \in Nat,
         ghosts' = [ghosts EXCEPT ![k] = n]
  PROVE  ghosts' \in [Kinds -> Nat] /\ Ghosts' = Ghosts - ghosts[k] + n
  BY DEF Kinds, Ghosts

\* A page that asks for its image anew.
LEMMA Reloaded ==
  ASSUME Inv, NEW v \in Viewers, NEW p \in Pages, p.here, p.img = view[v].img,
         p.es = view[v].es, ReloadStream(v, p),
         UNCHANGED <<active, jpeg, log>>, moves' \in 0 .. Disturbances
  PROVE  Inv'
  <1> DEFINE q == [p EXCEPT !.img = "asking"]
             gone == IF p.img = "playing" THEN {"stream"} ELSE {}
             queued == IF p.img = "asking" THEN {"stream"} ELSE {}
  <1>1. q \in Pages /\ q.here /\ q.img = "asking" /\ q.es = view[v].es
    BY DEF Pages
  <1>2. view' = [view EXCEPT ![v] = q] /\ LetGo(gone, queued)
    BY DEF ReloadStream
  <1>3. /\ ghosts' \in [Kinds -> Nat] /\ abandoned' \in [Kinds -> Nat]
        /\ Ghosts' = Ghosts + One("stream" \in gone) + One("events" \in gone)
    <2> HIDE DEF gone, queued
    <2> QED
      BY <1>2, Parts, LetGoCounts
  <1>4. One("stream" \in gone) = One(view[v].img = "playing") /\ One("events" \in gone) = 0
    BY DEF One
  <1>5. Held(q) = Held(view[v]) - One(view[v].img = "playing")
    BY <1>1 DEF Held, One
  <1>6. Held(q) \in Int /\ Held(view[v]) \in Int /\ One(view[v].img = "playing") \in Int
    BY DEF Held, One
  <1> HIDE DEF q, gone
  <1>7. active' - Ghosts' = active - Ghosts - Held(view[v]) + Held(q)
    BY <1>3, <1>4, <1>5, <1>6, Parts
  <1>8. LogType(log') /\ Told(log')
    BY Parts DEF LogType, Told
  <1> QED
    BY <1>1, <1>2, <1>3, <1>7, <1>8, Parts, Move

\* A page that loses some of its connections.
LEMMA Lost ==
  ASSUME Inv, NEW v \in Viewers, NEW p \in Pages, p.here \/ p = Away,
         view' = [view EXCEPT ![v] = p], NEW gone, NEW queued, LetGo(gone, queued),
         Held(p) = Held(view[v]) - One("stream" \in gone) - One("events" \in gone),
         UNCHANGED <<active, jpeg, log>>, moves' \in 0 .. Disturbances
  PROVE  Inv'
  <1>1. /\ ghosts' \in [Kinds -> Nat] /\ abandoned' \in [Kinds -> Nat]
        /\ Ghosts' = Ghosts + One("stream" \in gone) + One("events" \in gone)
    BY Parts, LetGoCounts
  <1>2. /\ Held(p) \in Int /\ Held(view[v]) \in Int
        /\ One("stream" \in gone) \in Int /\ One("events" \in gone) \in Int
    BY DEF Held, One
  <1>3. active' - Ghosts' = active - Ghosts - Held(view[v]) + Held(p)
    BY <1>1, <1>2, Parts
  <1>4. LogType(log') /\ Told(log')
    BY Parts DEF LogType, Told
  <1> QED
    BY <1>1, <1>3, <1>4, Parts, Move

\* The page after an error of its image.
LEMMA ImgErrorPage ==
  ASSUME NEW p \in Pages
  PROVE  /\ ImgError(p) \in Pages /\ ImgError(p).here = p.here
         /\ ImgError(p).img = "failed" /\ ImgError(p).es = p.es
  <1>1. p.timers + 1 \in Nat
    BY DEF Pages
  <1>2. ImgError(p) = [p EXCEPT !.img = "failed", !.timers = p.timers + 1]
    BY DEF ImgError
  <1> QED
    BY <1>1, <1>2 DEF Pages

\* A refusal is counted and owed.
LEMMA Refused ==
  ASSUME Inv, Refuse
  PROVE  LogType(log') /\ Told(log')
  BY Parts, RefusalOwed

\* The bound on the disturbances.
LEMMA Disturbed ==
  ASSUME Inv, Disturb
  PROVE  moves' \in 0 .. Disturbances
  BY Parts, PoolAssumption DEF Disturb, PoolAssumption

(***************************************************************************)
(* Every action keeps the invariant.                                       *)
(***************************************************************************)
LEMMA ArriveStep ==
  ASSUME Inv, NEW v \in Viewers, Arrive(v)
  PROVE  Inv'
  <1> DEFINE e == IF v \in Plain THEN "none" ELSE "asking"
             n == IF v \in Plain THEN 1 ELSE 0
             p == [Away EXCEPT !.here = TRUE, !.img = "asking", !.es = e, !.polls = n]
  <1>1. e \in {"none", "asking"} /\ n \in Nat
    OBVIOUS
  <1>2. view' = [view EXCEPT ![v] = p]
    BY DEF Arrive
  <1> HIDE DEF e, n
  <1>3. p \in Pages /\ p.here /\ p.img = "asking" /\ p.es = e
    BY <1>1 DEF Pages, Away
  <1> HIDE DEF p
  <1>4. view[v] = Away
    BY DEF Arrive, Inv
  <1>5. Held(p) = 0 /\ Held(view[v]) = 0
    BY <1>1, <1>3, <1>4 DEF Held, One, Away
  <1>6. UNCHANGED <<active, ghosts, abandoned, jpeg, log>> /\ moves' \in 0 .. Disturbances
    BY Disturbed DEF Arrive
  <1>7. LogType(log') /\ Told(log') /\ Ghosts' = Ghosts
    BY <1>6, Parts DEF LogType, Told, Ghosts
  <1>8. active' - Ghosts' = active - Ghosts - Held(view[v]) + Held(p)
    BY <1>5, <1>6, <1>7, Parts
  <1> QED
    BY <1>2, <1>3, <1>6, <1>7, <1>8, Parts, Move

LEMMA ServeStreamStep ==
  ASSUME Inv, NEW v \in Viewers, ServeStream(v)
  PROVE  Inv'
  <1>1. /\ view[v] \in Pages /\ view[v].img = "asking" /\ view[v].here
        /\ UNCHANGED <<ghosts, abandoned, jpeg, moves>> /\ Ghosts' = Ghosts
    BY Parts DEF ServeStream, Inv, Away, Ghosts
  <1>2. CASE TryAcquire
    <2> DEFINE p == [view[v] EXCEPT !.img = "playing"]
    <2>1. active' = active + 1 /\ log' = log /\ view' = [view EXCEPT ![v] = p]
      BY <1>2 DEF ServeStream
    <2>2. p \in Pages /\ p.here /\ p.img = "playing" /\ p.es = view[v].es
      BY <1>1 DEF Pages
    <2> HIDE DEF p
    <2>3. Held(p) = Held(view[v]) + 1 /\ Held(p) \in Int /\ Held(view[v]) \in Int
      BY <1>1, <2>2 DEF Held, One
    <2>4. active' \in Nat /\ active' <= MaxStreams
      BY <1>2, <2>1, Parts DEF TryAcquire
    <2>5. active' - Ghosts' = active - Ghosts - Held(view[v]) + Held(p)
      BY <1>1, <2>1, <2>3, Parts
    <2>6. LogType(log') /\ Told(log')
      BY <2>1, Parts DEF LogType, Told
    <2> QED
      BY <1>1, <2>1, <2>2, <2>4, <2>5, <2>6, Parts, Move
  <1>3. CASE ~TryAcquire
    <2> DEFINE p == ImgError(view[v])
    <2>1. Refuse /\ active' = active /\ view' = [view EXCEPT ![v] = p]
      BY <1>3 DEF ServeStream
    <2>2. p \in Pages /\ p.here /\ p.img = "failed" /\ p.es = view[v].es
      BY <1>1, ImgErrorPage
    <2> HIDE DEF p
    <2>3. Held(p) = Held(view[v]) /\ Held(view[v]) \in Int
      BY <1>1, <2>2 DEF Held, One
    <2>4. active' - Ghosts' = active - Ghosts - Held(view[v]) + Held(p)
      BY <1>1, <2>1, <2>3, Parts
    <2> QED
      BY <1>1, <2>1, <2>2, <2>4, Parts, Refused, Move
  <1> QED
    BY <1>2, <1>3

LEMMA ServeEventsStep ==
  ASSUME Inv, NEW v \in Viewers, ServeEvents(v)
  PROVE  Inv'
  <1>1. /\ view[v] \in Pages /\ view[v].es = "asking" /\ view[v].here
        /\ UNCHANGED <<ghosts, abandoned, jpeg, moves>> /\ Ghosts' = Ghosts
    BY Parts DEF ServeEvents, Inv, Away, Ghosts
  <1>2. CASE TryAcquire
    <2> DEFINE p == OnOpen(view[v])
    <2>1. active' = active + 1 /\ log' = log /\ view' = [view EXCEPT ![v] = p]
      BY <1>2 DEF ServeEvents
    <2>2. p \in Pages /\ p.here /\ p.es = "open" /\ p.img = view[v].img
      BY <1>1 DEF Pages, OnOpen
    <2> HIDE DEF p
    <2>3. Held(p) = Held(view[v]) + 1 /\ Held(p) \in Int /\ Held(view[v]) \in Int
      BY <1>1, <2>2 DEF Held, One
    <2>4. active' \in Nat /\ active' <= MaxStreams
      BY <1>2, <2>1, Parts DEF TryAcquire
    <2>5. active' - Ghosts' = active - Ghosts - Held(view[v]) + Held(p)
      BY <1>1, <2>1, <2>3, Parts
    <2>6. LogType(log') /\ Told(log')
      BY <2>1, Parts DEF LogType, Told
    <2> QED
      BY <1>1, <2>1, <2>2, <2>4, <2>5, <2>6, Parts, Move
  <1>3. CASE ~TryAcquire
    <2> DEFINE p == OnError(view[v], TRUE)
    <2>1. Refuse /\ active' = active /\ view' = [view EXCEPT ![v] = p]
      BY <1>3 DEF ServeEvents
    <2>2. p \in Pages /\ p.here /\ p.es # "open" /\ p.img = view[v].img
      BY <1>1, OnErrorPage
    <2> HIDE DEF p
    <2>3. Held(p) = Held(view[v]) /\ Held(view[v]) \in Int
      BY <1>1, <2>2 DEF Held, One
    <2>4. active' - Ghosts' = active - Ghosts - Held(view[v]) + Held(p)
      BY <1>1, <2>1, <2>3, Parts
    <2> QED
      BY <1>1, <2>1, <2>2, <2>4, Parts, Refused, Move
  <1> QED
    BY <1>2, <1>3

LEMMA ServeAbandonedStep ==
  ASSUME Inv, NEW k \in Kinds, ServeAbandoned(k)
  PROVE  Inv'
  <1>1. view' = view /\ UNCHANGED <<jpeg, moves>> /\ abandoned' \in [Kinds -> Nat]
    <2>1. abandoned[k] > 0 /\ abandoned' = [abandoned EXCEPT ![k] = abandoned[k] - 1]
      BY DEF ServeAbandoned
    <2> QED
      BY <2>1, Parts DEF ServeAbandoned
  <1>2. CASE TryAcquire
    <2>1. /\ active' = active + 1 /\ log' = log
          /\ ghosts' = [ghosts EXCEPT ![k] = ghosts[k] + 1]
      BY <1>2 DEF ServeAbandoned
    <2>2. ghosts[k] \in Nat /\ ghosts[k] + 1 \in Nat
      BY Parts
    <2>3. ghosts' \in [Kinds -> Nat] /\ Ghosts' = Ghosts + 1
      <3>1. ghosts' \in [Kinds -> Nat] /\ Ghosts' = Ghosts - ghosts[k] + (ghosts[k] + 1)
        BY <2>1, <2>2, Parts, GhostStep
      <3>2. Ghosts \in Nat
        BY Parts
      <3> QED
        BY <2>2, <3>1, <3>2
    <2>4. active' \in Nat /\ active' <= MaxStreams /\ active' = active - Ghosts + Ghosts'
      BY <1>2, <2>1, <2>3, Parts DEF TryAcquire
    <2>5. LogType(log') /\ Told(log')
      BY <2>1, Parts DEF LogType, Told
    <2> QED
      BY <1>1, <2>3, <2>4, <2>5, Parts, Rest
  <1>3. CASE ~TryAcquire
    <2>1. Refuse /\ active' = active /\ ghosts' = ghosts
      BY <1>3 DEF ServeAbandoned
    <2>2. Ghosts' = Ghosts
      BY <2>1 DEF Ghosts
    <2>3. active' = active - Ghosts + Ghosts'
      BY <2>1, <2>2, Parts
    <2> QED
      BY <1>1, <2>1, <2>3, Parts, Refused, Rest
  <1> QED
    BY <1>2, <1>3

\* A response that ends had a place, so Release gives one back.
LEMMA NoticeStep ==
  ASSUME Inv, NEW k \in Kinds, Notice(k)
  PROVE  Inv'
  <1>1. /\ ghosts[k] \in Nat /\ ghosts[k] > 0 /\ ghosts' = [ghosts EXCEPT ![k] = ghosts[k] - 1]
        /\ UNCHANGED <<abandoned, jpeg, log, moves>> /\ view' = view /\ active' = Release
    BY Parts DEF Notice
  <1>2. ghosts[k] - 1 \in Nat
    BY <1>1
  <1>3. ghosts' \in [Kinds -> Nat] /\ Ghosts' = Ghosts - 1
    <2>1. ghosts' \in [Kinds -> Nat] /\ Ghosts' = Ghosts - ghosts[k] + (ghosts[k] - 1)
      BY <1>1, <1>2, Parts, GhostStep
    <2>2. Ghosts \in Nat
      BY Parts
    <2> QED
      BY <1>1, <2>1, <2>2
  <1>4. Ghosts > 0
    BY <1>1, Parts DEF Ghosts, Kinds
  <1>5. active' = active - 1
    BY <1>1, <1>4, Parts DEF Release
  <1>6. active' \in Nat /\ active' <= MaxStreams /\ active' = active - Ghosts + Ghosts'
    BY <1>3, <1>4, <1>5, Parts
  <1>7. LogType(log') /\ Told(log')
    BY <1>1, Parts DEF LogType, Told
  <1> QED
    BY <1>1, <1>3, <1>6, <1>7, Parts, Rest

LEMMA PollStep ==
  ASSUME Inv, NEW v \in Viewers, Poll(v)
  PROVE  Inv'
  <1> DEFINE p == [view[v] EXCEPT !.hurt = FALSE]
  <1>1. view[v] \in Pages /\ view[v].here
    BY Parts DEF Poll, Inv, Away
  <1>2. p \in Pages /\ p.here /\ p.img = view[v].img /\ p.es = view[v].es
    BY <1>1 DEF Pages
  <1>3. ReloadStream(v, p) /\ UNCHANGED <<active, jpeg, log, moves>>
    BY DEF Poll
  <1> HIDE DEF p
  <1> QED
    BY <1>2, <1>3, Parts, Reloaded

LEMMA RetryImageStep ==
  ASSUME Inv, NEW v \in Viewers, RetryImage(v)
  PROVE  Inv'
  <1> DEFINE n == view[v].timers - 1
             p == [view[v] EXCEPT !.timers = n]
  <1>1. view[v] \in Pages /\ view[v].timers > 0
    BY Parts DEF RetryImage
  <1>2. n \in Nat /\ view[v].here
    BY <1>1 DEF Pages, Inv, Away
  <1>3. ReloadStream(v, p) /\ UNCHANGED <<active, jpeg, log, moves>>
    BY DEF RetryImage
  <1> HIDE DEF n
  <1>4. p \in Pages /\ p.here /\ p.img = view[v].img /\ p.es = view[v].es
    BY <1>1, <1>2 DEF Pages
  <1> HIDE DEF p
  <1> QED
    BY <1>3, <1>4, Parts, Reloaded

LEMMA TabVisibleStep ==
  ASSUME Inv, NEW v \in Viewers, TabVisible(v)
  PROVE  Inv'
  <1>1. view[v] \in Pages /\ view[v].here
    BY Parts DEF TabVisible
  <1>2. ReloadStream(v, view[v]) /\ UNCHANGED <<active, jpeg, log>>
    BY DEF TabVisible
  <1>3. moves' \in 0 .. Disturbances
    BY Disturbed DEF TabVisible
  <1> QED
    BY <1>1, <1>2, <1>3, Reloaded

LEMMA LoseStreamStep ==
  ASSUME Inv, NEW v \in Viewers, LoseStream(v)
  PROVE  Inv'
  <1> DEFINE p == ImgError(view[v])
             gone == IF view[v].img = "playing" THEN {"stream"} ELSE {}
  <1>1. view[v] \in Pages /\ view[v].img \in {"asking", "playing"} /\ view[v].here
    BY Parts DEF LoseStream, Inv, Away
  <1>2. p \in Pages /\ p.here /\ p.img = "failed" /\ p.es = view[v].es
    BY <1>1, ImgErrorPage
  <1>3. view' = [view EXCEPT ![v] = p] /\ LetGo(gone, {}) /\ UNCHANGED <<active, jpeg, log>>
    BY DEF LoseStream
  <1>4. One("stream" \in gone) = One(view[v].img = "playing") /\ One("events" \in gone) = 0
    BY DEF One
  <1> HIDE DEF p, gone
  <1>5. Held(p) = Held(view[v]) - One("stream" \in gone) - One("events" \in gone)
    BY <1>2, <1>4 DEF Held, One
  <1>6. moves' \in 0 .. Disturbances
    BY Disturbed DEF LoseStream
  <1> QED
    BY <1>2, <1>3, <1>5, <1>6, Lost

LEMMA LoseEventsStep ==
  ASSUME Inv, NEW v \in Viewers, LoseEvents(v)
  PROVE  Inv'
  <1> DEFINE p == OnError(view[v], FALSE)
             gone == IF view[v].es = "open" THEN {"events"} ELSE {}
  <1>1. view[v] \in Pages /\ view[v].es \in {"asking", "open"} /\ view[v].here
    BY Parts DEF LoseEvents, Inv, Away
  <1>2. p \in Pages /\ p.here /\ p.es # "open" /\ p.img = view[v].img
    BY <1>1, OnErrorPage
  <1>3. view' = [view EXCEPT ![v] = p] /\ LetGo(gone, {}) /\ UNCHANGED <<active, jpeg, log>>
    BY DEF LoseEvents
  <1>4. One("stream" \in gone) = 0 /\ One("events" \in gone) = One(view[v].es = "open")
    BY DEF One
  <1> HIDE DEF p, gone
  <1>5. Held(p) = Held(view[v]) - One("stream" \in gone) - One("events" \in gone)
    BY <1>2, <1>4 DEF Held, One
  <1>6. moves' \in 0 .. Disturbances
    BY Disturbed DEF LoseEvents
  <1> QED
    BY <1>2, <1>3, <1>5, <1>6, Lost

LEMMA PollFailsStep ==
  ASSUME Inv, NEW v \in Viewers, PollFails(v)
  PROVE  Inv'
  <1> DEFINE p == [view[v] EXCEPT !.hurt = TRUE]
  <1>1. view[v] \in Pages /\ view[v].here
    BY Parts DEF PollFails, Inv, Away
  <1>2. p \in Pages /\ p.here /\ p.img = view[v].img /\ p.es = view[v].es
    BY <1>1 DEF Pages
  <1>3. view' = [view EXCEPT ![v] = p] /\ UNCHANGED <<active, ghosts, abandoned, jpeg, log>>
    BY DEF PollFails
  <1> HIDE DEF p
  <1>4. moves' \in 0 .. Disturbances
    BY Disturbed DEF PollFails
  <1>5. LogType(log') /\ Told(log') /\ Ghosts' = Ghosts
    BY <1>3, Parts DEF LogType, Told, Ghosts
  <1>6. Held(p) = Held(view[v]) /\ Held(p) \in Int
    BY <1>2 DEF Held, One
  <1>7. active' - Ghosts' = active - Ghosts - Held(view[v]) + Held(p)
    BY <1>3, <1>5, <1>6, Parts
  <1> QED
    BY <1>2, <1>3, <1>4, <1>5, <1>7, Parts, Move

LEMMA LeaveStep ==
  ASSUME Inv, NEW v \in Viewers, Leave(v)
  PROVE  Inv'
  <1> DEFINE gone == (IF view[v].img = "playing" THEN {"stream"} ELSE {})
                       \cup (IF view[v].es = "open" THEN {"events"} ELSE {})
             queued == (IF view[v].img = "asking" THEN {"stream"} ELSE {})
                       \cup (IF view[v].es = "asking" THEN {"events"} ELSE {})
  <1>1. /\ view' = [view EXCEPT ![v] = Away] /\ LetGo(gone, queued)
        /\ UNCHANGED <<active, jpeg, log>>
    BY DEF Leave
  <1>2. Away \in Pages
    BY DEF Away, Pages
  <1>3. /\ One("stream" \in gone) = One(view[v].img = "playing")
        /\ One("events" \in gone) = One(view[v].es = "open")
    BY DEF One
  <1> HIDE DEF gone, queued
  <1>4. Held(Away) = Held(view[v]) - One("stream" \in gone) - One("events" \in gone)
    BY <1>3 DEF Held, One, Away
  <1>5. moves' \in 0 .. Disturbances
    BY Disturbed DEF Leave
  <1> QED
    BY <1>1, <1>2, <1>4, <1>5, Lost

\* Steps that touch neither the windows nor the places.
LEMMA OtherStep ==
  ASSUME Inv, Frame \/ LogRefusal \/ WindowEnds \/ UNCHANGED vars
  PROVE  Inv'
  <1>1. UNCHANGED <<view, active, ghosts, abandoned, moves>> /\ jpeg' \in BOOLEAN
    BY Parts DEF Frame, LogRefusal, WindowEnds, vars
  <1>2. LogType(log') /\ Told(log')
    <2>1. CASE LogRefusal
      BY <2>1, Parts, RefusalTold
    <2>2. CASE log' = log \/ log' = [log EXCEPT !.inside = FALSE]
      BY <2>2, Parts DEF LogType, Told
    <2> QED
      BY <2>1, <2>2 DEF Frame, WindowEnds, vars
  <1>3. Ghosts' = Ghosts
    BY <1>1 DEF Ghosts
  <1>4. active' = active - Ghosts + Ghosts' /\ active' \in Nat /\ active' <= MaxStreams
    BY <1>1, <1>3, Parts
  <1> QED
    BY <1>1, <1>2, <1>4, Parts, Rest

\* The invariant is inductive, whatever the page, the network and the viewers do.
THEOREM PlacesInductive == Spec => []Inv
  <1>1. Init => Inv
    <2> SUFFICES ASSUME Init PROVE Inv
      OBVIOUS
    <2>1. TypeOK
      <3>1. Away \in Pages
        BY DEF Away, Pages
      <3>2. view \in [Viewers -> Pages] /\ moves \in 0 .. Disturbances
        BY <3>1, PoolAssumption DEF Init, PoolAssumption
      <3> QED
        BY <3>2 DEF Init, TypeOK
    <2>2. Playing = {} /\ Listening = {} /\ \A v \in Viewers : view[v] = Away
      BY DEF Init, Playing, Listening, Away
    <2>3. Watching = 0 /\ Ghosts = 0
      BY <2>2, FS_EmptySet DEF Init, Watching, Ghosts, Kinds
    <2>4. 0 % Wrap = 0
      <3>1. 0 = Wrap * 0 + 0 /\ 0 \in 0 .. Wrap - 1
        BY PoolAssumption DEF PoolAssumption
      <3> QED
        BY <3>1, ModUnique
    <2>5. Told(log)
      <3>1. log.refused = 0 /\ log.told = 0 /\ log.suppressed = 0 /\ log.owed = 0
        BY DEF Init
      <3> QED
        BY <2>4, <3>1 DEF Told
    <2> QED
      BY <2>1, <2>2, <2>3, <2>5, MaxStreamsType DEF Init, Inv
  <1>2. Inv /\ [Next]_vars => Inv'
    <2> SUFFICES ASSUME Inv, [Next]_vars PROVE Inv'
      OBVIOUS
    <2>1. CASE \E v \in Viewers : ServeStream(v) \/ ServeEvents(v) \/ Poll(v) \/ RetryImage(v)
      BY <2>1, ServeStreamStep, ServeEventsStep, PollStep, RetryImageStep
    <2>2. CASE \E k \in Kinds : ServeAbandoned(k) \/ Notice(k)
      BY <2>2, ServeAbandonedStep, NoticeStep
    <2>3. CASE \E v \in Viewers : \/ Arrive(v) \/ TabVisible(v) \/ LoseStream(v)
                                  \/ LoseEvents(v) \/ PollFails(v) \/ Leave(v)
      BY <2>3, ArriveStep, TabVisibleStep, LoseStreamStep, LoseEventsStep, PollFailsStep, LeaveStep
    <2>4. CASE Frame \/ LogRefusal \/ WindowEnds \/ UNCHANGED vars
      BY <2>4, OtherStep
    <2> QED
      BY <2>1, <2>2, <2>3, <2>4 DEF Next, Serve
  <1> QED
    BY <1>1, <1>2, PTL DEF Spec

\* The bulkhead is sound for every number of windows, threads and places: it
\* counts what streams and is never exceeded, with a reserve a thread is always
\* free for a short request, and every refusal is told or waits to be.
THEOREM BulkheadHolds == Spec => []BulkheadSound
  <1>1. Inv => BulkheadSound
    <2> SUFFICES ASSUME Inv PROVE BulkheadSound
      OBVIOUS
    <2>1. Running = active
      <3>1. /\ Cardinality(Playing) \in Nat /\ Cardinality(Listening) \in Nat
            /\ ghosts["stream"] \in Nat /\ ghosts["events"] \in Nat
        <4>1. Playing \subseteq Viewers /\ Listening \subseteq Viewers
          BY DEF Playing, Listening
        <4>2. IsFiniteSet(Playing) /\ IsFiniteSet(Listening)
          BY <4>1, PoolAssumption, FS_Subset DEF PoolAssumption
        <4> QED
          BY <4>2, Parts, FS_CardinalityType DEF Kinds
      <3> QED
        BY <3>1, Parts DEF Running, Watching, Ghosts
    <2>2. PlacesCounted
      BY <2>1, Parts DEF PlacesCounted, MetricsSamples
    <2>3. ThreadLeft
      <3> SUFFICES ASSUME MaxStreamConns = NotGiven, 0 < Reserve, Reserve < Threads
                   PROVE  Running < Threads
        BY DEF ThreadLeft
      <3>1. MaxStreams = Threads - Reserve
        BY PoolAssumption DEF PoolAssumption, MaxStreams, CapacityFromThreads
      <3> QED
        BY <2>1, <3>1, Parts, PoolAssumption DEF PoolAssumption
    <2>4. RefusalsTold
      BY Parts DEF Told, RefusalsTold, MetricsSamples
    <2> QED
      BY <2>2, <2>3, <2>4 DEF BulkheadSound
  <1> QED
    BY <1>1, PlacesInductive, PTL

(***************************************************************************)
(* The loops.  Their inductive invariant LoopsInv says how old the last    *)
(* detection can be in each place of the detection loop (Beating), which    *)
(* needs to know how old a frame is there (CalmFresh), and that without a   *)
(* gate the frame after an error is one the cadence runs on (ErrorDue).     *)
(***************************************************************************)

Ages == Nat \cup {Never}

LoopsTyped ==
  /\ age \in [read : Ages, held : Ages, taken : Ages, detect : Ages, calm : Nat]
  /\ versions \in [detect : Nat, taken : Nat]
  /\ DOMAIN raw = {"scene", "fresh"} /\ raw.fresh \in BOOLEAN
  /\ DOMAIN loop = {"state", "scene", "errors", "works"}
  /\ loop.state \in {"idle", "busy", "pause"}

(* The options that the loops run with are those that were merged, and fit. *)
ConfMerged ==
  /\ conf.lease \in Nat
  /\ \A f \in {"min", "max", "every"} : conf.cadence[f] \in Nat
  /\ conf.typed.min # Unset => conf.cadence.min = conf.typed.min
  /\ conf.cadence.max > 0 => conf.cadence.min <= conf.cadence.max
  /\ conf.cadence.min <= conf.lease /\ conf.cadence.max <= conf.lease

(* A frame that is taken or waits was read.                                 *)
FrameRead ==
  raw.fresh \/ loop.state # "idle" \/ age.detect # Never => age.read # Never

(* Nothing has gone wrong for a while: frames are fresh.                    *)
CalmFresh ==
  /\ age.calm > 0 => age.read # Never /\ age.read <= FramePeriod
  /\ loop.state = "pause" => age.calm = 0
  /\ loop.state = "busy" => age.taken \in 0 .. DetectTime

(* Nothing has gone wrong since the last frame was read or taken, or the    *)
(* last detection is no older than the heartbeat and what came since.       *)
Beating ==
  conf.cadence.max > 0 /\ age.detect # Never =>
    /\ loop.state = "idle" /\ ~raw.fresh =>
          age.calm <= age.read \/ age.detect <= conf.cadence.max + age.read
    /\ loop.state = "idle" /\ raw.fresh =>
          age.calm <= FramePeriod \/ age.detect <= conf.cadence.max + FramePeriod
    /\ loop.state = "busy" =>
          \/ age.calm <= FramePeriod + age.taken
          \/ age.detect <= conf.cadence.max + FramePeriod + age.taken

(* Without a gate, from the frame that was taken up to the next detection   *)
(* the cadence asks for one.                                                *)
Due ==
  \/ age.detect = Never
  \/ conf.cadence.max > 0 /\ age.detect >= conf.cadence.max
  \/ age.detect >= conf.cadence.min /\ versions.detect >= conf.cadence.every

ErrorDue ==
  ~conf.cadence.gate /\ (loop.state # "idle" \/ health.detector = "ERROR") => Due

LoopsInv == LoopsTyped /\ ConfMerged /\ FrameRead /\ CalmFresh /\ Beating /\ ErrorDue

(* What should_detect answers, and why, in each of its three cases.         *)
LEMMA ShouldDetectIs ==
  ASSUME NEW c, NEW a \in Nat \cup {Never}, NEW v, c.max \in Nat
  PROVE  LET d == ShouldDetect(c, a, v)
         IN  /\ a = Never => d = [run |-> TRUE, reason |-> "FIRST"]
             /\ a # Never /\ c.max > 0 /\ a >= c.max => d = [run |-> TRUE, reason |-> "MAX_INTERVAL"]
             /\ a # Never /\ (c.max = 0 \/ a < c.max) =>
                   d = [run |-> a >= c.min /\ v >= c.every, reason |-> "GATED"]
  <1>1. CASE a = Never
    BY <1>1, Zenon DEF ShouldDetect
  <1>2. CASE a # Never /\ c.max > 0 /\ a >= c.max
    <2>1. ShouldDetect(c, a, v) = [run |-> TRUE, reason |-> "MAX_INTERVAL"]
      <3>1. ~(c.max = 0 \/ a < c.max)
        BY <1>2 DEF Never
      <3> QED
        BY <1>2, <3>1, Zenon DEF ShouldDetect
    <2> QED
      BY <1>2, <2>1 DEF Never
  <1>3. CASE a # Never /\ (c.max = 0 \/ a < c.max)
    <2>1. ShouldDetect(c, a, v) = [run |-> a >= c.min /\ v >= c.every, reason |-> "GATED"]
      <3>1. ~(c.max > 0 /\ a >= c.max)
        BY <1>3 DEF Never
      <3> QED
        BY <1>3, <3>1, Zenon DEF ShouldDetect
    <2> QED
      BY <1>3, <2>1 DEF Never
  <1> QED
    BY <1>1, <1>2, <1>3 DEF Never

(* The health of a detection that was made, and of one that failed.         *)
LEMMA HealthIs ==
  ASSUME NEW a
  PROVE  /\ DeriveHealth(a, 0, FALSE, Stale).detector = "LIVE"
         /\ DeriveHealth(a, Never, TRUE, Stale).detector = "ERROR"
  <1> DEFINE D(b, f) == CASE f -> "ERROR"
                          [] ~f /\ b = Never -> "INITIALIZING"
                          [] ~f /\ b > Stale.detector -> "STALE"
                          [] ~f /\ b \in 0 .. Stale.detector -> "LIVE"
             S == CASE a = Never -> "INITIALIZING"
                    [] a # Never /\ a > Stale.source -> "STALE"
                    [] a \in 0 .. Stale.source -> "LIVE"
  <1>1. \A b, f : DeriveHealth(a, b, f, Stale) = [source |-> S, detector |-> D(b, f)]
    BY Zenon DEF DeriveHealth
  <1>2. D(Never, TRUE) = "ERROR"
    BY Zenon
  <1>3. D(0, FALSE) = "LIVE"
    <2>1. 0 # Never /\ ~(0 > Stale.detector) /\ 0 \in 0 .. Stale.detector
      BY LoopAssumption DEF LoopAssumption, Never
    <2>2. D(0, FALSE) = CASE FALSE -> "ERROR"
                          [] ~FALSE /\ 0 = Never -> "INITIALIZING"
                          [] ~FALSE /\ 0 > Stale.detector -> "STALE"
                          [] ~FALSE /\ 0 \in 0 .. Stale.detector -> "LIVE"
      OBVIOUS
    <2> HIDE DEF D
    <2> QED
      BY <2>1, <2>2, Zenon
  <1> HIDE DEF D, S
  <1>4. DeriveHealth(a, 0, FALSE, Stale) = [source |-> S, detector |-> "LIVE"]
    BY <1>1, <1>3, Zenon
  <1>5. DeriveHealth(a, Never, TRUE, Stale) = [source |-> S, detector |-> "ERROR"]
    BY <1>1, <1>2, Zenon
  <1> DEFINE well == DeriveHealth(a, 0, FALSE, Stale)
             failed == DeriveHealth(a, Never, TRUE, Stale)
  <1> HIDE DEF well, failed
  <1>6. well.detector = "LIVE" /\ failed.detector = "ERROR"
    <2>1. well = [source |-> S, detector |-> "LIVE"] /\ failed = [source |-> S, detector |-> "ERROR"]
      BY <1>4, <1>5, Zenon DEF well, failed
    <2> QED
      BY <2>1
  <1> QED
    BY <1>6, Zenon DEF well, failed

(* An age grows by at most one, and does grow up to its top.               *)
LEMMA OlderIs ==
  ASSUME NEW a \in Nat \cup {Never}, NEW top \in Nat
  PROVE  /\ Older(a, top) \in Nat \cup {Never} /\ (a = Never <=> Older(a, top) = Never)
         /\ a # Never => Older(a, top) \in a .. a + 1
         /\ a # Never /\ a <= top => Older(a, top) = a + 1
  BY DEF Older, Never

(* The bound on the age of a detection is a time.                          *)
LEMMA BoundType ==
  ASSUME ConfMerged
  PROVE  Bound \in Nat /\ Bound = conf.lease + FramePeriod + DetectTime
  BY LoopAssumption DEF LoopAssumption, ConfMerged, Bound

(* The invariant is kept, part by part.                                     *)
LEMMA LoopsTypedStep ==
  ASSUME LoopsInv, [LoopsNext]_loopVars
  PROVE  LoopsTyped' /\ ConfMerged'
  <1> USE DEF LoopsInv, Ages
  <1>1. conf' = conf
    BY DEF LoopsNext, Read, Outage, Return, Take, Detect, Fail, Resume, Elapse, loopVars
  <1>2. ConfMerged'
    BY <1>1 DEF ConfMerged
  <1>3. \A v \in Nat : More(v) \in Nat
    BY DEF More
  <1>4. CASE Read
    <2>1. UNCHANGED <<loop, health>>
      BY <1>4 DEF Read
    <2>2. \/ UNCHANGED <<raw, age, versions>>
          \/ \E s \in Scenes : Publish(s)
      BY <1>4 DEF Read
    <2>3. CASE UNCHANGED <<raw, age, versions>>
      BY <1>2, <2>1, <2>3 DEF LoopsTyped
    <2>4. CASE \E s \in Scenes : Publish(s)
      BY <1>2, <1>3, <2>1, <2>4 DEF LoopsTyped, Publish
    <2> QED
      BY <1>2, <2>2, <2>3, <2>4
  <1>5. CASE Take
    <2>1. /\ raw' = [raw EXCEPT !.fresh = FALSE]
          /\ \/ /\ loop' = [loop EXCEPT !.state = "busy", !.scene = raw.scene]
                /\ age' = [age EXCEPT !.taken = 0, !.held = age.read]
                /\ versions' = [versions EXCEPT !.taken = 0]
                /\ UNCHANGED health
             \/ /\ health' = DeriveHealth(age.read, 0, FALSE, Stale)
                /\ UNCHANGED <<loop, age, versions>>
      BY <1>5 DEF Take
    <2>2. DOMAIN raw' = {"scene", "fresh"} /\ raw'.fresh \in BOOLEAN
      BY <2>1 DEF LoopsTyped
    <2>3. /\ age' \in [read : Ages, held : Ages, taken : Ages, detect : Ages, calm : Nat]
          /\ versions' \in [detect : Nat, taken : Nat]
      <3>1. [age EXCEPT !.taken = 0, !.held = age.read]
              \in [read : Ages, held : Ages, taken : Ages, detect : Ages, calm : Nat]
        BY DEF LoopsTyped
      <3>2. [versions EXCEPT !.taken = 0] \in [detect : Nat, taken : Nat]
        BY DEF LoopsTyped
      <3> QED
        BY <2>1, <3>1, <3>2, Zenon DEF LoopsTyped
    <2>4. /\ DOMAIN loop' = {"state", "scene", "errors", "works"}
          /\ loop'.state \in {"idle", "busy", "pause"}
      BY <2>1 DEF LoopsTyped
    <2> QED
      BY <1>2, <2>2, <2>3, <2>4 DEF LoopsTyped
  <1>6. CASE Detect
    BY <1>2, <1>6 DEF Detect, LoopsTyped
  <1>7. CASE Fail
    <2>1. /\ \E works \in BOOLEAN :
                loop' = [loop EXCEPT !.state = "pause", !.scene = NoScene, !.works = works,
                                     !.errors = IF @ < 4 THEN @ + 1 ELSE @]
          /\ age' = [age EXCEPT !.taken = Never, !.held = Never, !.calm = 0]
          /\ versions' = [versions EXCEPT !.taken = 0]
          /\ raw' = raw
      BY <1>7 DEF Fail, Failed
    <2> QED
      BY <1>2, <2>1 DEF LoopsTyped
  <1>8. CASE Resume
    BY <1>2, <1>8 DEF Resume, LoopsTyped
  <1>9. CASE Elapse
    <2>1. Stale.source \in Nat /\ DetectTime \in Nat /\ Bound \in Nat
      BY BoundType, LoopAssumption DEF LoopAssumption
    <2>2. /\ Older(age.read, Stale.source) \in Nat \cup {Never}
          /\ Older(age.held, Stale.source) \in Nat \cup {Never}
          /\ Older(age.taken, DetectTime) \in Nat \cup {Never}
          /\ Older(age.detect, Bound) \in Nat \cup {Never}
      BY <2>1, OlderIs DEF LoopsTyped
    <2>3. Older(age.calm, Bound) \in Nat
      BY <2>1 DEF LoopsTyped, Older
    <2> QED
      BY <1>2, <1>9, <2>2, <2>3 DEF Elapse, LoopsTyped
  <1>10. CASE Outage \/ Return \/ UNCHANGED loopVars
    BY <1>2, <1>10 DEF Outage, Return, loopVars, LoopsTyped
  <1> QED
    BY <1>4, <1>5, <1>6, <1>7, <1>8, <1>9, <1>10 DEF LoopsNext

LEMMA FrameReadStep ==
  ASSUME LoopsInv, [LoopsNext]_loopVars
  PROVE  FrameRead'
  <1> USE DEF LoopsInv, LoopsTyped, FrameRead, Ages, Never
  <1>1. CASE Read
    <2>1. /\ loop' = loop
          /\ UNCHANGED <<raw, age>> \/ \E s \in Scenes : Publish(s)
      BY <1>1 DEF Read
    <2> QED
      BY <2>1 DEF Publish
  <1>2. CASE Take
    <2>1. /\ raw.fresh
          /\ \/ age' = [age EXCEPT !.taken = 0, !.held = age.read]
             \/ age' = age
      BY <1>2 DEF Take
    <2>2. age'.read = age.read
      BY <2>1
    <2> QED
      BY <2>1, <2>2
  <1>3. CASE Detect \/ Fail
    <2>1. loop.state = "busy" /\ age'.read = age.read
      BY <1>3 DEF Detect, Fail, Failed
    <2> QED
      BY <2>1
  <1>4. CASE Resume
    <2>1. loop.state = "pause" /\ age' = age
      BY <1>4 DEF Resume
    <2> QED
      BY <2>1
  <1>5. CASE Elapse
    <2>1. age'.read = Older(age.read, Stale.source) /\ age'.detect = Older(age.detect, Bound)
          /\ UNCHANGED <<raw, loop>>
      BY <1>5 DEF Elapse
    <2>2. Bound \in Nat /\ Stale.source \in Nat
      BY BoundType, LoopAssumption DEF LoopAssumption
    <2>3. age'.detect # Never => age.detect # Never
      BY <2>1 DEF Older
    <2>4. age.read # Never => age'.read # Never
      BY <2>1, <2>2 DEF Older
    <2> QED
      BY <2>1, <2>3, <2>4
  <1>6. CASE Outage \/ Return \/ UNCHANGED loopVars
    BY <1>6 DEF Outage, Return, loopVars
  <1> QED
    BY <1>1, <1>2, <1>3, <1>4, <1>5, <1>6 DEF LoopsNext

LEMMA CalmFreshStep ==
  ASSUME LoopsInv, [LoopsNext]_loopVars
  PROVE  CalmFresh'
  <1> USE DEF LoopsInv, LoopsTyped, CalmFresh, Ages, Never
  <1>f. FramePeriod \in Nat /\ DetectTime \in Nat
    BY LoopAssumption DEF LoopAssumption
  <1>1. CASE Read
    <2>1. /\ loop' = loop
          /\ \/ age' = age
             \/ age' = [age EXCEPT !.read = 0]
      BY <1>1 DEF Read, Publish
    <2> QED
      BY <1>f, <2>1
  <1>2. CASE Take
    <2>1. /\ loop.state = "idle"
          /\ \/ age'.taken = 0 /\ age'.read = age.read /\ age'.calm = age.calm /\ loop'.state = "busy"
             \/ age' = age /\ loop' = loop
      BY <1>2 DEF Take
    <2> QED
      BY <1>f, <2>1
  <1>3. CASE Detect
    <2>1. loop'.state = "idle" /\ age'.read = age.read /\ age'.calm = age.calm
      BY <1>3 DEF Detect
    <2> QED
      BY <2>1
  <1>4. CASE Fail
    <2>1. loop'.state = "pause" /\ age'.calm = 0
      BY <1>4 DEF Fail, Failed
    <2> QED
      BY <2>1
  <1>5. CASE Resume
    <2>1. loop'.state = "idle" /\ age' = age
      BY <1>5 DEF Resume
    <2> QED
      BY <2>1
  <1>6. CASE Elapse
    <2>1. /\ age'.read = Older(age.read, Stale.source) /\ age'.taken = Older(age.taken, DetectTime)
          /\ loop' = loop
          /\ age'.calm = IF Flows /\ loop.works /\ loop.state # "pause" THEN Older(age.calm, Bound) ELSE 0
          /\ loop.state = "busy" => age.taken < DetectTime
          /\ Flows => age.read # Never /\ age.read < FramePeriod
      BY <1>6, <1>f DEF Elapse, Urgent
    <2>2. Bound \in Nat /\ Stale.source \in Nat /\ FramePeriod <= Stale.source + 1
      BY BoundType, LoopAssumption DEF LoopAssumption
    <2>3. age'.calm > 0 => age'.read # Never /\ age'.read <= FramePeriod
      BY <1>f, <2>1, <2>2 DEF Older
    <2>4. loop'.state = "busy" => age'.taken \in 0 .. DetectTime
      BY <1>f, <2>1, <2>2 DEF Older
    <2> QED
      BY <2>1, <2>3, <2>4
  <1>7. CASE Outage \/ Return \/ UNCHANGED loopVars
    BY <1>7 DEF Outage, Return, loopVars
  <1> QED
    BY <1>1, <1>2, <1>3, <1>4, <1>5, <1>6, <1>7 DEF LoopsNext

(* Taking a frame is not turning it down when a detection is due.           *)
LEMMA TakeDoes ==
  ASSUME LoopsInv, Take
  PROVE  /\ loop.state = "idle" /\ raw.fresh /\ ~raw'.fresh
         /\ UNCHANGED <<conf, video, seen, faults>>
         /\ \/ /\ loop'.state = "busy" /\ health' = health
               /\ age'.taken = 0 /\ age'.read = age.read /\ age'.detect = age.detect
               /\ age'.calm = age.calm /\ versions'.detect = versions.detect
               /\ age.detect # Never => age.detect >= conf.cadence.min
               /\ ~conf.cadence.gate => Due
            \/ /\ UNCHANGED <<loop, age, versions>>
               /\ age.detect # Never /\ conf.cadence.max > 0 => age.detect < conf.cadence.max
               /\ ~conf.cadence.gate => ~Due
  <1> DEFINE c == ShouldDetect(conf.cadence, age.detect, versions.detect)
             m == conf.cadence
  <1>1. /\ loop.state = "idle" /\ raw.fresh /\ raw' = [raw EXCEPT !.fresh = FALSE]
        /\ UNCHANGED <<conf, video, seen, faults>>
    BY Zenon DEF Take
  <1>2. ~raw'.fresh
    BY <1>1 DEF LoopsInv, LoopsTyped
  <1>3. PICK d : /\ ~conf.cadence.gate => d.run = TRUE
                 /\ \/ /\ Runs(d.run, c)
                       /\ loop' = [loop EXCEPT !.state = "busy", !.scene = raw.scene]
                       /\ age' = [age EXCEPT !.taken = 0, !.held = age.read]
                       /\ versions' = [versions EXCEPT !.taken = 0]
                       /\ UNCHANGED health
                    \/ ~Runs(d.run, c) /\ UNCHANGED <<loop, age, versions>>
    BY DEF Take
  <1>4. age.detect \in Nat \cup {Never} /\ m.max \in Nat /\ m.min \in Nat /\ m.every \in Nat
    BY DEF LoopsInv, LoopsTyped, ConfMerged, Ages
  <1>5. /\ age.detect = Never => c = [run |-> TRUE, reason |-> "FIRST"]
        /\ age.detect # Never /\ m.max > 0 /\ age.detect >= m.max => c = [run |-> TRUE, reason |-> "MAX_INTERVAL"]
        /\ age.detect # Never /\ (m.max = 0 \/ age.detect < m.max) =>
              c = [run |-> age.detect >= m.min /\ versions.detect >= m.every, reason |-> "GATED"]
    BY <1>4, ShouldDetectIs
  <1> HIDE DEF c
  <1>6. /\ c.reason = "MAX_INTERVAL" <=> age.detect # Never /\ m.max > 0 /\ age.detect >= m.max
        /\ c.run <=> Due
    <2>1. CASE age.detect = Never
      <3>1. c = [run |-> TRUE, reason |-> "FIRST"] /\ Due
        BY <1>5, <2>1 DEF Due
      <3>2. c.run = TRUE /\ c.reason # "MAX_INTERVAL"
        BY <3>1
      <3> QED
        BY <2>1, <3>1, <3>2
    <2>2. CASE age.detect # Never /\ m.max > 0 /\ age.detect >= m.max
      <3>1. c = [run |-> TRUE, reason |-> "MAX_INTERVAL"] /\ Due
        BY <1>5, <2>2 DEF Due
      <3>2. c.run = TRUE /\ c.reason = "MAX_INTERVAL"
        BY <3>1
      <3> QED
        BY <2>2, <3>1, <3>2
    <2>3. CASE age.detect # Never /\ (m.max = 0 \/ age.detect < m.max)
      <3> DEFINE due == age.detect >= m.min /\ versions.detect >= m.every
      <3>1. c = [run |-> due, reason |-> "GATED"]
        BY <1>5, <2>3
      <3>2. due <=> Due
        BY <1>4, <2>3 DEF Due, Never
      <3> HIDE DEF due
      <3>3. c.run = due /\ c.reason = "GATED"
        BY <3>1
      <3> QED
        BY <1>4, <2>3, <3>2, <3>3 DEF Never
    <2> QED
      BY <1>4, <2>1, <2>2, <2>3 DEF Never
  <1>7. CASE Runs(d.run, c)
    <2>1. /\ loop'.state = "busy" /\ health' = health
          /\ age'.taken = 0 /\ age'.read = age.read /\ age'.detect = age.detect
          /\ age'.calm = age.calm /\ versions'.detect = versions.detect
      BY <1>3, <1>7 DEF LoopsInv, LoopsTyped
    <2>2. Due
      BY <1>6, <1>7 DEF Runs, Due
    <2>3. age.detect # Never => age.detect >= m.min
      BY <1>4, <2>2 DEF Due, LoopsInv, ConfMerged, Never
    <2> QED
      BY <1>1, <1>2, <2>1, <2>2, <2>3
  <1>8. CASE ~Runs(d.run, c)
    <2>1. UNCHANGED <<loop, age, versions>>
      BY <1>3, <1>8
    <2>2. age.detect # Never /\ m.max > 0 => age.detect < m.max
      BY <1>4, <1>6, <1>8 DEF Runs, Never
    <2>3. ~m.gate => ~Due
      BY <1>3, <1>6, <1>8 DEF Runs
    <2> QED
      BY <1>1, <1>2, <2>1, <2>2, <2>3
  <1> QED
    BY <1>7, <1>8

LEMMA BeatingStep ==
  ASSUME LoopsInv, [LoopsNext]_loopVars
  PROVE  Beating'
  <1> USE DEF Never
  <1>c. conf' = conf
    BY DEF LoopsNext, Read, Outage, Return, Take, Detect, Fail, Resume, Elapse, loopVars
  <1>t. /\ FramePeriod \in Nat /\ DetectTime \in Nat /\ Bound \in Nat /\ conf.cadence.max \in Nat
        /\ Stale.source \in Nat /\ FramePeriod <= Stale.source + 1
        /\ age.read \in Ages /\ age.taken \in Ages /\ age.detect \in Ages /\ age.calm \in Nat
        /\ loop.state \in {"idle", "busy", "pause"} /\ raw.fresh \in BOOLEAN
    BY BoundType, LoopAssumption DEF LoopAssumption, LoopsInv, LoopsTyped, ConfMerged
  <1>i. Beating /\ CalmFresh /\ FrameRead
    BY DEF LoopsInv
  <1> USE <1>t DEF Ages
  <1>1. CASE Read
    <2>1. \/ UNCHANGED <<loop, raw, age>>
          \/ /\ loop' = loop /\ raw'.fresh = TRUE /\ age'.read = 0 /\ age'.taken = age.taken
             /\ age'.detect = age.detect /\ age'.calm = age.calm
      BY <1>1 DEF Read, Publish, LoopsInv, LoopsTyped
    <2> QED
      BY <1>c, <1>i, <2>1 DEF Beating, CalmFresh, FrameRead
  <1>2. CASE Take
    BY <1>c, <1>i, <1>2, TakeDoes DEF Beating, CalmFresh, FrameRead
  <1>3. CASE Detect
    <2>1. loop'.state = "idle" /\ age'.detect = 0 /\ age'.read = age.read /\ raw' = raw
          /\ loop.state = "busy"
      BY <1>3 DEF Detect, LoopsInv, LoopsTyped
    <2> QED
      BY <1>c, <1>i, <2>1 DEF Beating, FrameRead
  <1>4. CASE Fail
    <2>1. loop'.state = "pause"
      BY <1>4 DEF Fail, LoopsInv, LoopsTyped
    <2> QED
      BY <2>1 DEF Beating
  <1>5. CASE Resume
    <2>1. loop.state = "pause" /\ loop'.state = "idle" /\ UNCHANGED <<raw, age>>
      BY <1>5 DEF Resume, LoopsInv, LoopsTyped
    <2> QED
      BY <1>c, <1>i, <2>1 DEF Beating, CalmFresh, FrameRead
  <1>6. CASE Elapse
    <2>1. /\ age'.read = Older(age.read, Stale.source) /\ age'.taken = Older(age.taken, DetectTime)
          /\ age'.detect = Older(age.detect, Bound) /\ UNCHANGED <<loop, raw>>
          /\ age'.calm = IF Flows /\ loop.works /\ loop.state # "pause" THEN Older(age.calm, Bound) ELSE 0
          /\ loop.state = "busy" => age.taken < DetectTime
          /\ Flows => age.read # Never /\ age.read < FramePeriod
          /\ ~(loop.state = "idle" /\ raw.fresh)
      BY <1>6 DEF Elapse, Urgent
    <2>2. CASE age'.calm = 0
      BY <1>c, <1>i, <2>1, <2>2 DEF Beating, CalmFresh, FrameRead, Older
    <2>3. CASE age'.calm # 0
      <3>1. /\ age'.read = age.read + 1 /\ age.read \in Nat
            /\ age'.calm \in age.calm .. age.calm + 1
            /\ age'.detect = Never \/ (age.detect # Never /\ age'.detect \in age.detect .. age.detect + 1)
            /\ age'.detect # Never => age.detect # Never
        BY <2>1, <2>3 DEF Older
      <3>2. loop.state = "busy" => age'.taken = age.taken + 1 /\ age.taken \in Nat
        BY <1>i, <2>1 DEF CalmFresh, Older
      <3> QED
        BY <1>c, <1>i, <2>1, <3>1, <3>2 DEF Beating
    <2> QED
      BY <2>2, <2>3
  <1>7. CASE Outage \/ Return \/ UNCHANGED loopVars
    BY <1>c, <1>i, <1>7 DEF Outage, Return, loopVars, Beating
  <1> QED
    BY <1>1, <1>2, <1>3, <1>4, <1>5, <1>6, <1>7 DEF LoopsNext

LEMMA ErrorDueStep ==
  ASSUME LoopsInv, [LoopsNext]_loopVars
  PROVE  ErrorDue'
  <1> USE DEF Never
  <1>c. conf' = conf
    BY DEF LoopsNext, Read, Outage, Return, Take, Detect, Fail, Resume, Elapse, loopVars
  <1>t. /\ Bound \in Nat /\ conf.cadence.max \in Nat /\ conf.cadence.min \in Nat /\ conf.cadence.every \in Nat
        /\ conf.cadence.min <= Bound /\ conf.cadence.max <= Bound
        /\ age.detect \in Ages /\ versions.detect \in Nat
    BY BoundType, LoopAssumption DEF LoopAssumption, LoopsInv, LoopsTyped, ConfMerged
  <1>i. ErrorDue
    BY DEF LoopsInv
  <1> USE <1>t DEF Ages
  <1>1. CASE Read
    <2>1. /\ UNCHANGED <<loop, health>> /\ age'.detect = age.detect
          /\ versions'.detect \in {versions.detect, More(versions.detect)}
      BY <1>1 DEF Read, Publish, LoopsInv, LoopsTyped
    <2> QED
      BY <1>c, <1>i, <2>1 DEF ErrorDue, Due, More
  <1>2. CASE Take
    <2>1. CASE loop'.state = "busy"
      BY <1>c, <1>2, <2>1, TakeDoes DEF ErrorDue, Due
    <2>2. CASE UNCHANGED <<loop, age, versions>> /\ (~conf.cadence.gate => ~Due)
      <3>1. ~conf.cadence.gate => health.detector # "ERROR"
        BY <1>i, <2>2 DEF ErrorDue
      <3>2. loop.state = "idle" /\ health' \in {health, DeriveHealth(age.read, 0, FALSE, Stale)}
        BY <1>2 DEF Take
      <3> QED
        BY <1>c, <2>2, <3>1, <3>2, HealthIs DEF ErrorDue, Due
    <2> QED
      BY <1>2, <2>1, <2>2, TakeDoes
  <1>3. CASE Detect
    <2>1. loop'.state = "idle" /\ health'.detector = "LIVE"
      BY <1>3, HealthIs DEF Detect, LoopsInv, LoopsTyped
    <2> QED
      BY <2>1 DEF ErrorDue
  <1>4. CASE Fail
    <2>1. loop.state = "busy" /\ age'.detect = age.detect /\ versions'.detect = versions.detect
      BY <1>4 DEF Fail, Failed, LoopsInv, LoopsTyped
    <2> QED
      BY <1>c, <1>i, <2>1 DEF ErrorDue, Due
  <1>5. CASE Resume
    <2>1. loop.state = "pause" /\ UNCHANGED <<age, versions>>
      BY <1>5 DEF Resume
    <2> QED
      BY <1>c, <1>i, <2>1 DEF ErrorDue, Due
  <1>6. CASE Elapse
    <2>1. age'.detect = Older(age.detect, Bound) /\ UNCHANGED <<loop, versions, health>>
      BY <1>6 DEF Elapse
    <2> QED
      BY <1>c, <1>i, <2>1 DEF ErrorDue, Due, Older
  <1>7. CASE Outage \/ Return \/ UNCHANGED loopVars
    BY <1>c, <1>i, <1>7 DEF Outage, Return, loopVars, ErrorDue, Due
  <1> QED
    BY <1>1, <1>2, <1>3, <1>4, <1>5, <1>6, <1>7 DEF LoopsNext


(* Options that were accepted fit each other and the lease.                *)
LEMMA LoopsStart ==
  ASSUME LoopsInit
  PROVE  LoopsInv
  <1>1. PICK s \in {t \in Starts : Accepted(t)} :
          conf = [cadence |-> MergeDetection(s.cli, s.toml), typed |-> s.cli,
                  lease |-> s.overlay.display, source |-> s.source]
    BY DEF LoopsInit
  <1> DEFINE m == MergeDetection(s.cli, s.toml)
  <1>2. /\ m.min = (IF s.cli.min = Unset THEN s.toml.min ELSE s.cli.min)
        /\ m.max = (IF s.cli.max = Unset THEN s.toml.max ELSE s.cli.max)
        /\ m.every = (IF s.cli.every = Unset THEN s.toml.every ELSE s.cli.every)
    BY DEF MergeDetection
  <1>3. /\ m.min \in Int /\ m.max \in Int /\ m.every \in Int
        /\ s.overlay.display \in Int
    BY <1>2, LoopAssumption DEF LoopAssumption
  <1>4. ValidCadence(m) /\ CadenceFitsLease(m, s.overlay.display)
    BY Zenon DEF Accepted
  <1> HIDE DEF m
  <1>5. /\ conf.cadence = m /\ conf.typed = s.cli /\ conf.lease = s.overlay.display
    BY <1>1 DEF m
  <1>6. ConfMerged
    <2>1. /\ m.min \in Nat /\ m.max \in Nat /\ m.every \in Nat
          /\ m.min <= s.overlay.display /\ m.max <= s.overlay.display
          /\ m.max > 0 => m.min <= m.max
      BY <1>3, <1>4 DEF ValidCadence, CadenceFitsLease
    <2>2. s.overlay.display \in Nat
      BY <1>3, <2>1
    <2>3. s.cli.min # Unset => m.min = s.cli.min
      BY <1>2
    <2> QED
      BY <1>5, <2>1, <2>2, <2>3 DEF ConfMerged
  <1>7. LoopsTyped /\ FrameRead /\ CalmFresh /\ Beating /\ ErrorDue
    BY DEF LoopsInit, LoopsTyped, FrameRead, CalmFresh, Beating, ErrorDue, Due, Ages, Never
  <1> QED
    BY <1>6, <1>7 DEF LoopsInv

LEMMA LoopsStep ==
  ASSUME LoopsInv, [LoopsNext]_loopVars
  PROVE  LoopsInv'
  BY LoopsTypedStep, FrameReadStep, CalmFreshStep, BeatingStep, ErrorDueStep DEF LoopsInv

(* The inductive invariant of the two loops.                                *)
THEOREM LoopsInvariant == LoopsSpec => []LoopsInv
  <1>1. LoopsInit => LoopsInv
    BY LoopsStart
  <1>2. LoopsInv /\ [LoopsNext]_loopVars => LoopsInv'
    BY LoopsStep
  <1> QED
    BY <1>1, <1>2, PTL DEF LoopsSpec

(* What the heartbeat owes while all is well: a detection within the lease  *)
(* of a box, the wait for a frame and one detection.                        *)
LEMMA HeartbeatKept ==
  ASSUME LoopsInv
  PROVE  HeartbeatHeld
  <1> USE DEF Never
  <1>1. /\ FramePeriod \in Nat /\ DetectTime \in Nat /\ Bound = conf.lease + FramePeriod + DetectTime
        /\ conf.cadence.max \in Nat /\ conf.lease \in Nat /\ conf.cadence.max <= conf.lease
        /\ age.read \in Ages /\ age.taken \in Ages /\ age.detect \in Ages /\ age.calm \in Nat
        /\ loop.state \in {"idle", "busy", "pause"} /\ raw.fresh \in BOOLEAN
    BY BoundType, LoopAssumption DEF LoopAssumption, LoopsInv, LoopsTyped, ConfMerged
  <1> USE <1>1 DEF Ages
  <1>2. SUFFICES ASSUME conf.cadence.max > 0, age.detect # Never, age.calm > Bound
                 PROVE  age.detect <= Bound
    BY DEF HeartbeatHeld
  <1>3. age.read \in 0 .. FramePeriod
    BY <1>2 DEF LoopsInv, CalmFresh
  <1>4. Beating /\ CalmFresh
    BY DEF LoopsInv
  <1> QED
    BY <1>2, <1>3, <1>4 DEF Beating, CalmFresh

(* Detections are no closer than the throttle that was typed, whatever the  *)
(* file says and the heartbeat forces, and with a heartbeat, once frames    *)
(* come and the detector works, no further apart than Bound.                *)
THEOREM SpacedDetections == LoopsSpec => DetectionsSpaced
  <1>1. LoopsInv => HeartbeatHeld
    BY HeartbeatKept
  <1>2. LoopsInv /\ [LoopsNext]_loopVars =>
          (loop.state = "idle" /\ loop'.state = "busy" /\ conf.typed.min # Unset
             /\ age.detect # Never => age.detect >= conf.typed.min)
    <2> SUFFICES ASSUME LoopsInv, [LoopsNext]_loopVars, loop.state = "idle", loop'.state = "busy",
                        conf.typed.min # Unset, age.detect # Never
                 PROVE  age.detect >= conf.typed.min
      OBVIOUS
    <2>1. Take
      BY DEF LoopsNext, Read, Publish, Outage, Return, Detect, Fail, Resume, Elapse, loopVars
    <2>2. age.detect >= conf.cadence.min
      BY <2>1, TakeDoes
    <2> QED
      BY <2>2 DEF LoopsInv, ConfMerged
  <1> QED
    BY <1>1, <1>2, LoopsInvariant, PTL DEF LoopsSpec, DetectionsSpaced

(* Without a gate no frame that is passed by reports a detector well that   *)
(* is in error: only a detection that succeeds does.                        *)
THEOREM ErrorsStand == LoopsSpec => ErrorStands
  <1>1. LoopsInv /\ [LoopsNext]_loopVars =>
          (health.detector = "ERROR" /\ health'.detector # "ERROR" /\ ~conf.cadence.gate
             => age'.detect = 0 /\ loop.state = "busy")
    <2> SUFFICES ASSUME LoopsInv, [LoopsNext]_loopVars, health.detector = "ERROR",
                        health'.detector # "ERROR", ~conf.cadence.gate
                 PROVE  age'.detect = 0 /\ loop.state = "busy"
      OBVIOUS
    <2>1. CASE Take
      <3>1. Due
        BY DEF LoopsInv, ErrorDue
      <3>2. health' = health
        BY <2>1, <3>1, TakeDoes
      <3> QED
        BY <3>2
    <2>2. CASE Fail
      <3>1. health'.detector = "ERROR"
        BY <2>2, HealthIs DEF Fail
      <3> QED
        BY <3>1
    <2>3. CASE Detect
      BY <2>3 DEF Detect, LoopsInv, LoopsTyped
    <2>4. CASE Read \/ Outage \/ Return \/ Resume \/ Elapse \/ UNCHANGED loopVars
      BY <2>4 DEF Read, Outage, Return, Resume, Elapse, loopVars
    <2> QED
      BY <2>1, <2>2, <2>3, <2>4 DEF LoopsNext
  <1> QED
    BY <1>1, LoopsInvariant, PTL DEF LoopsSpec, ErrorStands
=============================================================================
