-------------------------- MODULE TimerWheelProofs --------------------------
(***************************************************************************)
(* Proofs about TimerWheel, for every number of timers and every size of   *)
(* the wheels: each timer that waits has one node, and the slot of that    *)
(* node, with the seconds it has left, says at which tick it runs.  That   *)
(* tick never changes while the node moves to the front or to a finer      *)
(* wheel, which is why no short timer is late or forgotten.                *)
(***************************************************************************)
EXTENDS TimerWheel, SequenceTheorems, FiniteSetTheorems, TLAPS

\* The seconds of a minute, an hour and a day.
M == secondsPerMinute
H == secondsPerHour
D == secondsPerDay

-----------------------------------------------------------------------------
(* Arithmetic.                                                             *)

\* Division with remainder.
LEMMA DivMod ==
  ASSUME NEW b \in Nat \ {0}, NEW a \in Nat
  PROVE  /\ a \div b \in Nat /\ a % b \in 0 .. b - 1
         /\ a = (a \div b) * b + (a % b)
<1> DEFINE q == a \div b
           r == a % b
<1>1. q \in Nat
  OBVIOUS
<1>2. r \in 0 .. b - 1
  OBVIOUS
<1>3. r = a - b * q
  OBVIOUS
<1> HIDE DEF q, r
<1>4. a = q * b + r
  BY <1>1, <1>2, <1>3
<1> QED
  BY <1>1, <1>2, <1>4 DEF q, r

\* The quotient counts how often the divisor fits.
LEMMA QuotientBelow ==
  ASSUME NEW b \in Nat \ {0}, NEW a \in Nat, NEW c \in Nat, c % b = 0, a < c
  PROVE  a \div b < c \div b
<1> DEFINE p == a \div b
           q == c \div b
<1>1. p \in Nat /\ q \in Nat /\ c = q * b /\ p * b <= a
  <2>1. p \in Nat /\ q \in Nat /\ c = q * b + (c % b) /\ a = p * b + (a % b) /\ a % b \in 0 .. b - 1
    BY DivMod
  <2> HIDE DEF p, q
  <2> QED
    BY <2>1
<1> HIDE DEF p, q
<1>2. ASSUME p >= q PROVE FALSE
  <2>1. p * b >= q * b
    BY <1>1, <1>2
  <2> QED
    BY <1>1, <2>1
<1> QED
  BY <1>1, <1>2 DEF p, q

\* A number that reaches the divisor is divided at least once.
LEMMA QuotientPositive ==
  ASSUME NEW b \in Nat \ {0}, NEW a \in Nat, a >= b
  PROVE  a \div b >= 1
<1> DEFINE p == a \div b
<1>1. p \in Nat /\ a = p * b + (a % b) /\ a % b \in 0 .. b - 1
  BY DivMod
<1> HIDE DEF p
<1>2. p = 0 => p * b = 0
  OBVIOUS
<1> QED
  BY <1>1, <1>2 DEF p

\* The remainder of the next number.
LEMMA NextRemainder ==
  ASSUME NEW b \in Nat \ {0}, NEW a \in Nat
  PROVE  (a + 1) % b = IF a % b = b - 1 THEN 0 ELSE (a % b) + 1
<1> DEFINE p == a \div b
           r == a % b
           q == (a + 1) \div b
           s == (a + 1) % b
<1>1. p \in Nat /\ r \in 0 .. b - 1 /\ a = p * b + r
  BY DivMod
<1>2. q \in Nat /\ s \in 0 .. b - 1 /\ a + 1 = q * b + s
  <2> DEFINE c == a + 1
  <2>1. c \in Nat
    OBVIOUS
  <2> HIDE DEF c
  <2>2. c \div b \in Nat /\ c % b \in 0 .. b - 1 /\ c = (c \div b) * b + (c % b)
    BY <2>1, DivMod
  <2> QED
    BY <2>2 DEF c, q, s
<1> HIDE DEF p, q, r, s
<1>3. (q - p) * b = r + 1 - s
  BY <1>1, <1>2
<1>4. q - p >= 2 => (q - p) * b >= 2 * b
  BY <1>1, <1>2
<1>5. q - p <= -1 => (q - p) * b <= -b
  BY <1>1, <1>2
<1>6. q - p = 0 \/ q - p = 1
  BY <1>1, <1>2, <1>3, <1>4, <1>5
<1>7. (q - p = 0 => s = r + 1) /\ (q - p = 1 => s = r + 1 - b)
  BY <1>1, <1>2, <1>3
<1>8. s = IF r = b - 1 THEN 0 ELSE r + 1
  BY <1>1, <1>2, <1>6, <1>7
<1> QED
  BY <1>8 DEF r, s

\* A multiple is no smaller than the number it is a multiple of.
LEMMA MultipleAtLeast ==
  ASSUME NEW b \in Nat \ {0}, NEW c \in Nat \ {0}, c % b = 0
  PROVE  b <= c /\ c \div b \in Nat \ {0}
<1> DEFINE q == c \div b
<1>1. q \in Nat /\ c = q * b + (c % b)
  BY DivMod
<1> HIDE DEF q
<1>2. c = q * b
  BY <1>1
<1>3. q # 0
  BY <1>1, <1>2
<1>4. q * b >= 1 * b
  BY <1>1, <1>3
<1> QED
  BY <1>1, <1>2, <1>3, <1>4 DEF q

\* What is below the divisor is divided zero times.
LEMMA QuotientZero ==
  ASSUME NEW b \in Nat \ {0}, NEW a \in Nat, a < b
  PROVE  a \div b = 0
  OBVIOUS

\* The sizes of the wheels, as far as the proofs need them.
LEMMA Sizes ==
  /\ M \in Nat \ {0} /\ H \in Nat \ {0} /\ D \in Nat \ {0} /\ MaxDays \in Nat \ {0}
  /\ M <= H /\ H <= D
  /\ H % M = 0 /\ D % H = 0
  /\ WheelSize["second"] = M /\ WheelSize["minute"] = H \div M
  /\ WheelSize["hour"] = D \div H /\ WheelSize["day"] = MaxDays
  /\ \A w \in Wheels : WheelSize[w] \in Nat \ {0}
<1>1. /\ M \in Nat \ {0} /\ H \in Nat \ {0} /\ D \in Nat \ {0} /\ MaxDays \in Nat \ {0}
      /\ H % M = 0 /\ D % H = 0
  BY TimerWheelAssumption DEF M, H, D
<1>2. M <= H /\ H \div M \in Nat \ {0}
  BY <1>1, MultipleAtLeast
<1>3. H <= D /\ D \div H \in Nat \ {0}
  BY <1>1, MultipleAtLeast
<1>4. /\ WheelSize["second"] = M /\ WheelSize["minute"] = H \div M
      /\ WheelSize["hour"] = D \div H /\ WheelSize["day"] = MaxDays
  BY DEF WheelSize, M, H, D
<1> QED
  BY <1>1, <1>2, <1>3, <1>4 DEF Wheels

-----------------------------------------------------------------------------
(* The inductive invariant.                                                *)

\* A node and the seconds it has left.
Nodes == [id : Timers, rest : 0 .. D - 1]

\* A place of a node: slot i of wheel w, or the slot being destroyed.
Spot(w, i) == (w \in Wheels /\ i \in 1 .. WheelSize[w]) \/ (w = "tmp" /\ i = 0)

\* The nodes there.
At(w, i) == IF w = "tmp" THEN tmp ELSE m_wheels[w][i]

\* The tick of the last pop of the minute wheel, or 0 before the first: in the phase
\* "second" of a full minute that pop is still to come.
Turn == m_tick - (m_tick % M) - (IF pc = "second" /\ m_tick % M = 0 THEN M ELSE 0)

\* The same when the timer was started.
StartTurn(id) ==
  LET t == timer[id]
  IN  t.start - (t.start % M) - (IF t.ahead /\ t.start % M = 0 THEN M ELSE 0)

\* The tick at which a timer of less than an hour runs: its seconds count from its
\* start, its minutes from the pop before it.
RunTick(id) ==
  (IF timer[id].interval < M THEN timer[id].start ELSE StartTurn(id)) + timer[id].interval

\* The tick at which a node in slot i of wheel w, or in tmp, runs.
NodeTick(w, i, n) ==
  CASE w = "second" -> m_tick + i
    [] w = "minute" -> Turn + i * M + n.rest
    [] w = "tmp"    -> m_tick + n.rest

\* The node of a short timer is in a place from which it runs at the timer's tick.
\* The nodes of the second wheel have no seconds left.
OnTrack(w, i, n) ==
  /\ w = "second" => n.rest = 0
  /\ w = "tmp" /\ pc = "second" => n.rest = 0
  /\ pc # "overflow" /\ UpToAnHour(n.id) =>
       w \in {"second", "minute", "tmp"} /\ n.rest < M /\ NodeTick(w, i, n) = RunTick(n.id)

\* The wheels keep their slots, which are sets of nodes.
WheelsInv ==
  /\ m_wheels = [w \in Wheels |-> m_wheels[w]]
  /\ \A w \in Wheels : m_wheels[w] \in [1 .. WheelSize[w] -> SUBSET Nodes]
  /\ tmp \in SUBSET Nodes

\* Tasks run, and nodes are in tmp, within a tick only.
PhaseInv ==
  /\ inTask => pc \in {"second", "coarse", "overflow"}
  /\ pc \in {"idle", "destroyed", "undefined"} => tmp = {}

\* A node is of a timer that waits, was stored and is on track.
NodesInv ==
  \A w, i : Spot(w, i) => \A n \in At(w, i) :
    Waiting(n.id) /\ ~RunsAtOnce(timer[n.id].interval) /\ OnTrack(w, i, n)

\* A timer has one node, in one place.
UniqueInv ==
  \A v, w, i, j : Spot(v, i) /\ Spot(w, j) =>
    \A n \in At(v, i), o \in At(w, j) : n.id = o.id => v = w /\ i = j /\ n = o

\* A timer that waits and was stored has a node.
ExistsInv ==
  \A id \in Timers : Waiting(id) /\ ~RunsAtOnce(timer[id].interval) =>
    \E w, i : Spot(w, i) /\ \E n \in At(w, i) : n.id = id

\* A timer that was not stored waits only if runEvery overflowed; a repeating timer
\* always waits, and one of runAfter has run once when it is done.
TimersInv ==
  \A id \in Timers :
    /\ Waiting(id) /\ RunsAtOnce(timer[id].interval) => pc = "overflow"
    /\ timer[id].every => Waiting(id)
    /\ ~timer[id].every => runs[id] = (IF timer[id].state = "done" THEN 1 ELSE 0)

\* What is recorded of a timer.
TimerType ==
  [state : {"new", "waiting", "done"}, interval : Delays \cup {0}, every : BOOLEAN,
   start : 0 .. MaxTick, ahead : BOOLEAN]

\* The types of the other variables.
ValuesInv ==
  /\ m_tick \in 0 .. MaxTick
  /\ pc \in {"idle", "second", "coarse", "overflow", "destroyed", "undefined"}
  /\ inTask \in BOOLEAN
  /\ timer \in [Timers -> TimerType]
  /\ runs \in [Timers -> Nat]

\* The inductive invariant.
WheelInv == ValuesInv /\ WheelsInv /\ PhaseInv /\ NodesInv /\ UniqueInv /\ ExistsInv /\ TimersInv

-----------------------------------------------------------------------------
(* The wheels.                                                             *)

\* Where insertNode puts a delay it stores, and with how many seconds left: below
\* an hour the slot and those seconds add up to the delay.
LEMMA InsertPuts ==
  ASSUME NEW id \in Timers, NEW delay \in Nat \ {0}, delay \div D <= MaxDays
  PROVE  \E w \in Wheels : \E i \in 1 .. WheelSize[w] : \E n \in Nodes :
           /\ insertNode(delay, id) = Put(w, i, n)
           /\ n.id = id
           /\ w = "second" => n.rest = 0
           /\ delay < H =>
                \/ w = "second" /\ delay < M /\ i = delay
                \/ w = "minute" /\ delay >= M /\ n.rest < M /\ i * M + n.rest = delay
<1>1. /\ M \in Nat \ {0} /\ H \in Nat \ {0} /\ D \in Nat \ {0}
      /\ M <= H /\ H <= D /\ H % M = 0 /\ D % H = 0
  BY Sizes
<1> DEFINE node(r) == [id |-> id, rest |-> r]
<1>2. \A r \in 0 .. D - 1 : node(r) \in Nodes /\ node(r).id = id /\ node(r).rest = r
  BY DEF Nodes
<1>3. CASE delay < M
  <2>1. insertNode(delay, id) = Put("second", delay, node(0))
    BY <1>1, <1>3 DEF insertNode, insertSecondNode, M, H, D
  <2>2. delay \in 1 .. WheelSize["second"] /\ 0 \in 0 .. D - 1
    BY <1>1, <1>3, Sizes
  <2> HIDE DEF node
  <2> QED
    BY <1>2, <1>3, <2>1, <2>2 DEF Wheels
<1>4. CASE ~(delay < M) /\ delay < H
  <2> DEFINE q == delay \div M
             r == delay % M
  <2>1. insertNode(delay, id) = Put("minute", q, node(r))
    BY <1>1, <1>4 DEF insertNode, insertMinuteNode, M, H
  <2>2. q < H \div M /\ q >= 1
    BY <1>1, <1>4, QuotientBelow, QuotientPositive
  <2>3. q \in Nat /\ r \in 0 .. M - 1 /\ delay = q * M + r
    BY <1>1, DivMod
  <2> HIDE DEF node, q, r
  <2>4. q \in 1 .. WheelSize["minute"] /\ r \in 0 .. D - 1 /\ r < M
    BY <1>1, <2>2, <2>3, Sizes
  <2> QED
    BY <1>1, <1>2, <1>4, <2>1, <2>3, <2>4 DEF Wheels
<1>5. CASE ~(delay < M) /\ ~(delay < H) /\ delay < D
  <2> DEFINE q == delay \div H
             r == delay % H
  <2>1. insertNode(delay, id) = Put("hour", q, node(r))
    BY <1>1, <1>5 DEF insertNode, insertHourNode, M, H, D
  <2>2. q < D \div H /\ q >= 1
    BY <1>1, <1>5, QuotientBelow, QuotientPositive
  <2>3. q \in Nat /\ r \in 0 .. H - 1
    BY <1>1, DivMod
  <2> HIDE DEF node, q, r
  <2>4. q \in 1 .. WheelSize["hour"] /\ r \in 0 .. D - 1
    BY <1>1, <2>2, <2>3, Sizes
  <2> QED
    BY <1>2, <1>5, <2>1, <2>4 DEF Wheels
<1>6. CASE ~(delay < M) /\ ~(delay < H) /\ ~(delay < D)
  <2> DEFINE q == delay \div D
             r == delay % D
  <2>1. insertNode(delay, id) = Put("day", q, node(r))
    BY <1>1, <1>6 DEF insertNode, insertDayNode, M, H, D
  <2>2. q >= 1
    BY <1>1, <1>6, QuotientPositive
  <2>3. q \in Nat /\ r \in 0 .. D - 1
    BY <1>1, DivMod
  <2> HIDE DEF node, q, r
  <2>4. q \in 1 .. WheelSize["day"]
    BY <2>2, <2>3, Sizes DEF q
  <2> QED
    BY <1>2, <1>6, <2>1, <2>3, <2>4 DEF Wheels
<1> QED
  BY <1>3, <1>4, <1>5, <1>6

\* What a put changes: the node joins one slot, and the wheels keep their slots.
LEMMA PutIs ==
  ASSUME WheelsInv, NEW w \in Wheels, NEW i \in 1 .. WheelSize[w], NEW n \in Nodes
  PROVE  /\ Put(w, i, n) = [v \in Wheels |-> Put(w, i, n)[v]]
         /\ \A v \in Wheels : Put(w, i, n)[v] \in [1 .. WheelSize[v] -> SUBSET Nodes]
         /\ \A v \in Wheels : \A j \in 1 .. WheelSize[v] : \A o :
              o \in Put(w, i, n)[v][j] <=> o \in m_wheels[v][j] \/ (v = w /\ j = i /\ o = n)
<1> DEFINE s == m_wheels[w]
           t == [s EXCEPT ![i] = @ \cup {n}]
           p == Put(w, i, n)
<1>1. s \in [1 .. WheelSize[w] -> SUBSET Nodes]
  BY DEF WheelsInv
<1>2. p = [m_wheels EXCEPT ![w] = t]
  BY DEF Put
<1> HIDE DEF s
<1>3. /\ t \in [1 .. WheelSize[w] -> SUBSET Nodes]
      /\ \A j \in 1 .. WheelSize[w] : t[j] = IF j = i THEN s[j] \cup {n} ELSE s[j]
  BY <1>1
<1> HIDE DEF t, p
<1>4. \A v \in Wheels : p[v] = IF v = w THEN t ELSE m_wheels[v]
  BY <1>2 DEF WheelsInv
<1>5. p = [v \in Wheels |-> p[v]]
  BY <1>2, <1>4 DEF WheelsInv
<1>6. \A v \in Wheels : p[v] \in [1 .. WheelSize[v] -> SUBSET Nodes]
  BY <1>3, <1>4 DEF WheelsInv
<1>7. \A v \in Wheels : \A j \in 1 .. WheelSize[v] : \A o :
        o \in p[v][j] <=> o \in m_wheels[v][j] \/ (v = w /\ j = i /\ o = n)
  BY <1>3, <1>4 DEF s
<1> QED
  BY <1>5, <1>6, <1>7 DEF p

\* What a pop changes.
LEMMA PoppedIs ==
  ASSUME WheelsInv, NEW w \in Wheels
  PROVE  /\ Popped(w) = [v \in Wheels |-> Popped(w)[v]]
         /\ \A v \in Wheels : Popped(w)[v] \in [1 .. WheelSize[v] -> SUBSET Nodes]
         /\ Head(m_wheels[w]) = m_wheels[w][1] /\ Head(m_wheels[w]) \in SUBSET Nodes
         /\ \A v \in Wheels : \A j \in 1 .. WheelSize[v] :
              Popped(w)[v][j] = IF v # w THEN m_wheels[v][j]
                                ELSE IF j < WheelSize[v] THEN m_wheels[v][j + 1] ELSE {}
<1> DEFINE s == m_wheels[w]
           k == WheelSize[w]
           t == Append(Tail(s), {})
           p == Popped(w)
<1>1. s \in [1 .. k -> SUBSET Nodes] /\ k \in Nat \ {0} /\ {} \in SUBSET Nodes
  BY Sizes DEF WheelsInv
<1>2. p = [m_wheels EXCEPT ![w] = t]
  BY DEF Popped
<1> HIDE DEF s, k
<1>3. /\ Head(s) = s[1] /\ t \in [1 .. k -> SUBSET Nodes]
      /\ \A i \in 1 .. k : t[i] = IF i < k THEN s[i + 1] ELSE {}
  <2> DEFINE S == SUBSET Nodes
             e == {}
             u == Tail(s)
             a == Append(u, e)
  <2>1. s \in [1 .. k -> S] /\ k \in Nat \ {0} /\ e \in S
    BY <1>1
  <2> HIDE DEF S, e, u
  <2>2. s \in Seq(S) /\ Len(s) = k /\ s # <<>>
    BY <2>1
  <2>3. u \in Seq(S) /\ Len(u) = k - 1 /\ Head(s) = s[1] /\ \A i \in 1 .. k - 1 : u[i] = s[i + 1]
    BY <2>1, <2>2, HeadTailProperties DEF u
  <2>4. a \in Seq(S) /\ Len(a) = k /\ \A i \in 1 .. k : a[i] = IF i < k THEN u[i] ELSE e
    BY <2>1, <2>3, AppendProperties
  <2> HIDE DEF a
  <2>5. a \in [1 .. k -> S] /\ \A i \in 1 .. k : a[i] = IF i < k THEN s[i + 1] ELSE e
    BY <2>1, <2>3, <2>4, LenProperties
  <2> QED
    BY <2>3, <2>5 DEF S, e, u, a
<1>4. Head(s) \in SUBSET Nodes
  BY <1>1, <1>3
<1> HIDE DEF t, p
<1>5. \A v \in Wheels : p[v] = IF v = w THEN t ELSE m_wheels[v]
  BY <1>2 DEF WheelsInv
<1>6. p = [v \in Wheels |-> p[v]]
  BY <1>2, <1>5 DEF WheelsInv
<1>7. \A v \in Wheels : p[v] \in [1 .. WheelSize[v] -> SUBSET Nodes]
  BY <1>3, <1>5 DEF WheelsInv, k
<1>8. \A v \in Wheels : \A j \in 1 .. WheelSize[v] :
        p[v][j] = IF v # w THEN m_wheels[v][j]
                  ELSE IF j < WheelSize[v] THEN m_wheels[v][j + 1] ELSE {}
  BY <1>3, <1>5 DEF s, k
<1> QED
  BY <1>3, <1>4, <1>6, <1>7, <1>8 DEF p, s

-----------------------------------------------------------------------------
(* Insertion keeps every node where it belongs.                            *)

\* The node that timer id may have leaves tmp; no other timer is concerned.
Detaches(id) ==
  /\ tmp' \subseteq tmp
  /\ \A n \in tmp \ tmp' : n.id = id
  /\ \A w, i : Spot(w, i) => \A n \in At(w, i) : n.id = id => w = "tmp" /\ n \notin tmp'
  /\ m_tick' = m_tick
  /\ \A j \in Timers \ {id} : timer'[j] = timer[j]

\* A node of timer id joins the wheels for delay seconds.
Inserts(id, delay) ==
  /\ Detaches(id)
  /\ delay \in Nat \ {0} /\ delay \div D <= MaxDays
  /\ m_wheels' = insertNode(delay, id)
  /\ pc' = pc
  /\ Waiting(id)' /\ ~RunsAtOnce(timer'[id].interval)
  /\ UpToAnHour(id)' =>
       /\ delay < H
       /\ RunTick(id)' = (IF delay < M THEN m_tick ELSE Turn) + delay

\* What the invariant says of a timer's nodes depends on the timer, the tick and
\* the phase only.
LEMMA SameTimerSameTrack ==
  ASSUME NEW j \in Timers, timer'[j] = timer[j], m_tick' = m_tick, pc' = pc
  PROVE  /\ Waiting(j)' = Waiting(j)
         /\ UpToAnHour(j)' = UpToAnHour(j)
         /\ RunTick(j)' = RunTick(j)
         /\ Turn' = Turn
         /\ \A w, i, n : n.id = j => OnTrack(w, i, n)' = OnTrack(w, i, n)
<1>1. /\ Waiting(j)' = Waiting(j) /\ UpToAnHour(j)' = UpToAnHour(j)
      /\ RunTick(j)' = RunTick(j) /\ Turn' = Turn
  BY DEF Waiting, UpToAnHour, RunTick, StartTurn, Turn
<1>2. \A w, i, n : NodeTick(w, i, n)' = NodeTick(w, i, n)
  BY <1>1 DEF NodeTick
<1>3. ASSUME NEW w, NEW i, NEW n, n.id = j
      PROVE  OnTrack(w, i, n)' = OnTrack(w, i, n)
  BY <1>1, <1>2, <1>3 DEF OnTrack
<1> QED
  BY <1>1, <1>3

\* A node that is inserted is on track in its new slot, is its timer's only one, and
\* disturbs no other.
LEMMA InsertionKeeps ==
  ASSUME WheelInv, NEW id \in Timers, NEW delay, Inserts(id, delay)
  PROVE  WheelsInv' /\ NodesInv' /\ UniqueInv' /\ ExistsInv'
<1>1. PICK w \in Wheels, i \in Nat, n \in Nodes :
        /\ i \in 1 .. WheelSize[w]
        /\ m_wheels' = Put(w, i, n)
        /\ n.id = id
        /\ w = "second" => n.rest = 0
        /\ delay < H =>
             \/ w = "second" /\ delay < M /\ i = delay
             \/ w = "minute" /\ delay >= M /\ n.rest < M /\ i * M + n.rest = delay
  BY InsertPuts DEF Inserts
<1>2. /\ m_wheels' = [v \in Wheels |-> m_wheels'[v]]
      /\ \A v \in Wheels : m_wheels'[v] \in [1 .. WheelSize[v] -> SUBSET Nodes]
      /\ \A v \in Wheels : \A j \in 1 .. WheelSize[v] : \A o :
           o \in m_wheels'[v][j] <=> o \in m_wheels[v][j] \/ (v = w /\ j = i /\ o = n)
  <2>1. WheelsInv
    BY DEF WheelInv
  <2> DEFINE p == Put(w, i, n)
  <2>2. /\ p = [v \in Wheels |-> p[v]]
        /\ \A v \in Wheels : p[v] \in [1 .. WheelSize[v] -> SUBSET Nodes]
        /\ \A v \in Wheels : \A j \in 1 .. WheelSize[v] : \A o :
             o \in p[v][j] <=> o \in m_wheels[v][j] \/ (v = w /\ j = i /\ o = n)
    BY <1>1, <2>1, PutIs
  <2>3. m_wheels' = p
    BY <1>1
  <2> HIDE DEF p
  <2> QED
    BY <2>2, <2>3
<1>3. WheelsInv'
  BY <1>2 DEF WheelsInv, WheelInv, Inserts, Detaches
<1>4. ASSUME NEW v, NEW j, Spot(v, j), NEW o
      PROVE  o \in At(v, j)' <=> \/ v = w /\ j = i /\ o = n
                                 \/ o \in At(v, j) /\ o.id # id
  <2>1. CASE v \in Wheels /\ j \in 1 .. WheelSize[v]
    <3>1. v # "tmp" /\ w # "tmp"
      BY <2>1 DEF Wheels
    <3>2. At(v, j)' = m_wheels'[v][j] /\ At(v, j) = m_wheels[v][j]
      BY <3>1 DEF At
    <3>3. o \in At(v, j) => o.id # id
      BY <1>4, <3>1 DEF Inserts, Detaches
    <3>4. o \in m_wheels'[v][j] <=> o \in m_wheels[v][j] \/ (v = w /\ j = i /\ o = n)
      BY <1>2, <2>1
    <3> QED
      BY <2>1, <3>2, <3>3, <3>4
  <2>2. CASE v = "tmp" /\ j = 0
    <3>1. v # w
      BY <2>2 DEF Wheels
    <3>2. At(v, j)' = tmp' /\ At(v, j) = tmp
      BY <2>2 DEF At
    <3>3. o \in tmp /\ o.id = id => o \notin tmp'
      BY <1>4, <3>2 DEF Inserts, Detaches
    <3> QED
      BY <3>1, <3>2, <3>3 DEF Inserts, Detaches
  <2> QED
    BY <1>4, <2>1, <2>2 DEF Spot
<1>5. ASSUME NEW v, NEW j, Spot(v, j), NEW o \in At(v, j)
      PROVE  o.id \in Timers
  <2>1. o \in Nodes
    BY <1>5 DEF Spot, At, Wheels, WheelInv, WheelsInv
  <2> QED
    BY <2>1 DEF Nodes
<1>6. NodesInv'
  <2> SUFFICES ASSUME NEW v, NEW j, Spot(v, j), NEW o \in At(v, j)'
               PROVE  (Waiting(o.id) /\ ~RunsAtOnce(timer[o.id].interval) /\ OnTrack(v, j, o))'
    BY DEF NodesInv, Spot
  <2>1. CASE v = w /\ j = i /\ o = n
    <3>1. Waiting(id)' /\ ~RunsAtOnce(timer'[id].interval) /\ n.id = id
      BY <1>1 DEF Inserts
    <3>2. OnTrack(w, i, n)'
      <4>1. w # "tmp"
        BY DEF Wheels
      <4>2. ASSUME UpToAnHour(id)'
            PROVE  /\ w \in {"second", "minute", "tmp"} /\ n.rest < M
                   /\ NodeTick(w, i, n)' = RunTick(id)'
        <5>1. /\ RunTick(id)' = (IF delay < M THEN m_tick ELSE Turn) + delay
              /\ \/ w = "second" /\ delay < M /\ i = delay
                 \/ w = "minute" /\ delay >= M /\ n.rest < M /\ i * M + n.rest = delay
          BY <1>1, <4>2 DEF Inserts
        <5>2. m_tick' = m_tick /\ Turn' = Turn /\ m_tick \in Int /\ Turn \in Int
          <6>1. m_tick' = m_tick /\ Turn' = Turn /\ m_tick \in Nat /\ M \in Nat \ {0}
            BY Sizes, TimerWheelAssumption DEF Inserts, Detaches, Turn, WheelInv, ValuesInv
          <6> QED
            BY <6>1 DEF Turn
        <5>3. M \in Nat \ {0} /\ n.rest \in Int /\ i \in Int /\ i * M \in Int /\ delay \in Nat
          BY Sizes DEF Nodes, Inserts
        <5>4. CASE w = "second" /\ delay < M /\ i = delay
          <6>1. NodeTick(w, i, n)' = m_tick + i
            BY <5>2, <5>4 DEF NodeTick
          <6> QED
            BY <1>1, <5>1, <5>3, <5>4, <6>1
        <5>5. CASE w = "minute" /\ delay >= M /\ n.rest < M /\ i * M + n.rest = delay
          <6>1. NodeTick(w, i, n)' = Turn + i * M + n.rest
            BY <5>2, <5>5 DEF NodeTick
          <6> QED
            BY <5>1, <5>2, <5>3, <5>5, <6>1
        <5> QED
          BY <5>1, <5>4, <5>5
      <4> QED
        BY <1>1, <4>1, <4>2 DEF OnTrack
    <3> QED
      BY <2>1, <3>1, <3>2
  <2>2. CASE o \in At(v, j) /\ o.id # id
    <3>1. o.id \in Timers /\ timer'[o.id] = timer[o.id] /\ m_tick' = m_tick /\ pc' = pc
      BY <1>5, <2>2 DEF Inserts, Detaches
    <3>2. Waiting(o.id) /\ ~RunsAtOnce(timer[o.id].interval) /\ OnTrack(v, j, o)
      BY <2>2 DEF WheelInv, NodesInv
    <3> QED
      BY <3>1, <3>2, SameTimerSameTrack
  <2> QED
    BY <1>4, <2>1, <2>2
<1>7. UniqueInv'
  <2> SUFFICES ASSUME NEW u, NEW v, NEW k, NEW j, Spot(u, k), Spot(v, j),
                      NEW m \in At(u, k)', NEW o \in At(v, j)', m.id = o.id
               PROVE  u = v /\ k = j /\ m = o
    BY DEF UniqueInv, Spot
  <2>1. \/ u = w /\ k = i /\ m = n
        \/ m \in At(u, k) /\ m.id # id
    BY <1>4
  <2>2. \/ v = w /\ j = i /\ o = n
        \/ o \in At(v, j) /\ o.id # id
    BY <1>4
  <2>3. m \in At(u, k) /\ o \in At(v, j) => u = v /\ k = j /\ m = o
    BY DEF WheelInv, UniqueInv
  <2> QED
    BY <1>1, <2>1, <2>2, <2>3
<1>8. ExistsInv'
  <2> SUFFICES ASSUME NEW j \in Timers, Waiting(j)', ~RunsAtOnce(timer'[j].interval)
               PROVE  \E v, k : Spot(v, k) /\ \E o \in At(v, k)' : o.id = j
    BY DEF ExistsInv, Spot, RunsAtOnce, Uint
  <2>1. CASE j = id
    <3>1. Spot(w, i)
      BY <1>1 DEF Spot
    <3> QED
      BY <1>1, <1>4, <2>1, <3>1
  <2>2. CASE j # id
    <3>1. timer'[j] = timer[j] /\ Waiting(j)
      BY <2>2 DEF Inserts, Detaches, Waiting
    <3>2. PICK v, k : Spot(v, k) /\ \E o \in At(v, k) : o.id = j
      BY <3>1 DEF WheelInv, ExistsInv
    <3> QED
      BY <1>4, <2>2, <3>2
  <2> QED
    BY <2>1, <2>2
<1> QED
  BY <1>3, <1>6, <1>7, <1>8

\* The timer's node is gone, and it has no more to wait for.
Leaves(id) ==
  /\ Detaches(id)
  /\ m_wheels' = m_wheels
  /\ pc' \in {pc, "overflow"}
  /\ ~Waiting(id)' \/ RunsAtOnce(timer'[id].interval)

\* A timer that leaves disturbs no node of the others.
LEMMA LeavingKeeps ==
  ASSUME WheelInv, NEW id \in Timers, Leaves(id)
  PROVE  WheelsInv' /\ NodesInv' /\ UniqueInv' /\ ExistsInv'
<1>1. WheelsInv'
  BY DEF WheelsInv, WheelInv, Leaves, Detaches
<1>2. ASSUME NEW v, NEW j, Spot(v, j), NEW o
      PROVE  o \in At(v, j)' <=> o \in At(v, j) /\ o.id # id
  <2>1. CASE v = "tmp"
    <3>1. At(v, j)' = tmp' /\ At(v, j) = tmp
      BY <2>1 DEF At
    <3>2. o \in tmp /\ o.id = id => o \notin tmp'
      BY <1>2, <3>1 DEF Leaves, Detaches
    <3> QED
      BY <3>1, <3>2 DEF Leaves, Detaches
  <2>2. CASE v # "tmp"
    <3>1. At(v, j)' = At(v, j)
      BY <2>2 DEF At, Leaves
    <3>2. o \in At(v, j) => o.id # id
      BY <1>2, <2>2 DEF Leaves, Detaches
    <3> QED
      BY <3>1, <3>2
  <2> QED
    BY <2>1, <2>2
<1>3. ASSUME NEW v, NEW j, Spot(v, j), NEW o \in At(v, j)
      PROVE  o.id \in Timers
  <2>1. o \in Nodes
    BY <1>3 DEF Spot, At, Wheels, WheelInv, WheelsInv
  <2> QED
    BY <2>1 DEF Nodes
<1>4. NodesInv'
  <2> SUFFICES ASSUME NEW v, NEW j, Spot(v, j), NEW o \in At(v, j)'
               PROVE  (Waiting(o.id) /\ ~RunsAtOnce(timer[o.id].interval) /\ OnTrack(v, j, o))'
    BY DEF NodesInv, Spot
  <2>1. o \in At(v, j) /\ o.id \in Timers /\ timer'[o.id] = timer[o.id] /\ m_tick' = m_tick
    BY <1>2, <1>3 DEF Leaves, Detaches
  <2>2. Waiting(o.id) /\ ~RunsAtOnce(timer[o.id].interval) /\ OnTrack(v, j, o)
    BY <2>1 DEF WheelInv, NodesInv
  <2>3. CASE pc' = pc
    BY <2>1, <2>2, <2>3, SameTimerSameTrack
  <2>4. CASE pc' = "overflow"
    BY <2>1, <2>2, <2>4 DEF Waiting, OnTrack
  <2> QED
    BY <2>3, <2>4 DEF Leaves
<1>5. UniqueInv'
  <2> SUFFICES ASSUME NEW u, NEW v, NEW k, NEW j, Spot(u, k), Spot(v, j),
                      NEW m \in At(u, k)', NEW o \in At(v, j)', m.id = o.id
               PROVE  u = v /\ k = j /\ m = o
    BY DEF UniqueInv, Spot
  <2> QED
    BY <1>2 DEF WheelInv, UniqueInv
<1>6. ExistsInv'
  <2> SUFFICES ASSUME NEW j \in Timers, Waiting(j)', ~RunsAtOnce(timer'[j].interval)
               PROVE  \E v, k : Spot(v, k) /\ \E o \in At(v, k)' : o.id = j
    BY DEF ExistsInv, Spot, RunsAtOnce, Uint
  <2>1. j # id /\ timer'[j] = timer[j] /\ Waiting(j)
    BY DEF Leaves, Detaches, Waiting
  <2>2. PICK v, k : Spot(v, k) /\ \E o \in At(v, k) : o.id = j
    BY <2>1 DEF WheelInv, ExistsInv
  <2> QED
    BY <1>2, <2>1, <2>2
<1> QED
  BY <1>1, <1>4, <1>5, <1>6

-----------------------------------------------------------------------------
(* A pop keeps every node.                                                 *)

\* Where the pop of wheel w takes a node in slot k of wheel u.
Moves(w, u, k, v, j) ==
  IF v = "tmp" THEN u = w /\ k = 1
               ELSE u = v /\ k = (IF v = w THEN j + 1 ELSE j)

\* The nodes of the front slot go to tmp and the others of that wheel one slot to
\* the front: none is lost and none is doubled.
LEMMA PopKeeps ==
  ASSUME WheelInv, tmp = {}, NEW w \in Wheels,
         m_wheels' = Popped(w), tmp' = Head(m_wheels[w]), timer' = timer
  PROVE  /\ WheelsInv' /\ UniqueInv' /\ ExistsInv'
         /\ \A v, j : Spot(v, j) => \A o \in At(v, j)' :
              \E u, k : Spot(u, k) /\ o \in At(u, k) /\ Moves(w, u, k, v, j)
<1> DEFINE p == Popped(w)
<1>1. /\ p = [v \in Wheels |-> p[v]]
      /\ \A v \in Wheels : p[v] \in [1 .. WheelSize[v] -> SUBSET Nodes]
      /\ Head(m_wheels[w]) = m_wheels[w][1] /\ Head(m_wheels[w]) \in SUBSET Nodes
      /\ \A v \in Wheels : \A j \in 1 .. WheelSize[v] :
           p[v][j] = IF v # w THEN m_wheels[v][j]
                     ELSE IF j < WheelSize[v] THEN m_wheels[v][j + 1] ELSE {}
  <2>1. WheelsInv
    BY DEF WheelInv
  <2> QED
    BY <2>1, PoppedIs
<1>2. m_wheels' = p
  OBVIOUS
<1> HIDE DEF p
<1>3. WheelsInv'
  BY <1>1, <1>2 DEF WheelsInv
<1>4. "tmp" \notin Wheels /\ \A v \in Wheels : WheelSize[v] \in Nat \ {0}
  BY Sizes DEF Wheels
<1>5. /\ \A v \in Wheels : \A j : At(v, j) = m_wheels[v][j] /\ At(v, j)' = p[v][j]
      /\ \A j : At("tmp", j) = {} /\ At("tmp", j)' = m_wheels[w][1]
  BY <1>1, <1>2, <1>4 DEF At
<1>6. ASSUME NEW v, NEW j, Spot(v, j), NEW o \in At(v, j)'
      PROVE  \E u, k : Spot(u, k) /\ o \in At(u, k) /\ Moves(w, u, k, v, j)
  <2>1. CASE v = "tmp"
    <3>1. Spot(w, 1) /\ o \in At(w, 1) /\ Moves(w, w, 1, v, j)
      BY <1>4, <1>5, <1>6, <2>1 DEF Spot, Moves
    <3> QED
      BY <3>1
  <2>2. CASE v \in Wheels /\ j \in 1 .. WheelSize[v] /\ v # w
    <3>1. o \in At(v, j) /\ Moves(w, v, j, v, j)
      BY <1>1, <1>4, <1>5, <1>6, <2>2 DEF Moves
    <3> QED
      BY <1>6, <3>1
  <2>3. CASE v = w /\ j \in 1 .. WheelSize[w]
    <3>1. j < WheelSize[w]
      BY <1>1, <1>4, <1>5, <1>6, <2>3
    <3>2. o \in At(w, j + 1)
      BY <1>1, <1>4, <1>5, <1>6, <2>3, <3>1
    <3>3. Spot(w, j + 1) /\ Moves(w, w, j + 1, v, j)
      BY <1>4, <2>3, <3>1 DEF Spot, Moves
    <3> QED
      BY <3>2, <3>3
  <2> QED
    BY <1>6, <2>1, <2>2, <2>3 DEF Spot
<1>7. UniqueInv'
  <2> SUFFICES ASSUME NEW a, NEW v, NEW i, NEW j, Spot(a, i), Spot(v, j),
                      NEW m \in At(a, i)', NEW o \in At(v, j)', m.id = o.id
               PROVE  a = v /\ i = j /\ m = o
    BY DEF UniqueInv, Spot
  <2>1. PICK u, k : Spot(u, k) /\ m \in At(u, k) /\ Moves(w, u, k, a, i)
    BY <1>6
  <2>2. PICK x, l : Spot(x, l) /\ o \in At(x, l) /\ Moves(w, x, l, v, j)
    BY <1>6
  <2>3. u = x /\ k = l /\ m = o
    BY <2>1, <2>2 DEF WheelInv, UniqueInv
  <2>4. /\ a = "tmp" => i = 0
        /\ v = "tmp" => j = 0
        /\ a # "tmp" => i \in Nat \ {0}
        /\ v # "tmp" => j \in Nat \ {0}
    BY <1>4 DEF Spot
  <2> QED
    BY <1>4, <2>1, <2>2, <2>3, <2>4 DEF Moves
<1>8. ExistsInv'
  <2> SUFFICES ASSUME NEW id \in Timers, Waiting(id)', ~RunsAtOnce(timer'[id].interval)
               PROVE  \E v, j : Spot(v, j) /\ \E o \in At(v, j)' : o.id = id
    BY DEF ExistsInv, Spot, RunsAtOnce, Uint
  <2>1. PICK u, k : Spot(u, k) /\ \E o \in At(u, k) : o.id = id
    BY DEF WheelInv, ExistsInv, Waiting
  <2>2. u \in Wheels /\ k \in 1 .. WheelSize[u]
    BY <1>5, <2>1 DEF Spot
  <2>3. CASE u # w
    <3>1. At(u, k)' = At(u, k)
      BY <1>1, <1>5, <2>2, <2>3
    <3> QED
      BY <2>1, <3>1
  <2>4. CASE u = w /\ k = 1
    <3>1. Spot("tmp", 0) /\ At("tmp", 0)' = At(u, k)
      BY <1>5, <2>2, <2>4 DEF Spot
    <3> QED
      BY <2>1, <3>1
  <2>5. CASE u = w /\ k # 1
    <3>1. Spot(w, k - 1) /\ At(w, k - 1)' = At(w, k)
      <4>1. k - 1 \in 1 .. WheelSize[w] /\ k - 1 < WheelSize[w] /\ (k - 1) + 1 = k
        BY <1>4, <2>2, <2>5
      <4>2. p[w][k - 1] = m_wheels[w][k]
        BY <1>1, <4>1
      <4> QED
        BY <1>5, <4>1, <4>2 DEF Spot
    <3> QED
      BY <2>1, <2>5, <3>1
  <2> QED
    BY <2>3, <2>4, <2>5
<1> QED
  BY <1>3, <1>6, <1>7, <1>8

-----------------------------------------------------------------------------
(* Intervals.                                                              *)

\* The conversion to uint32_t: an interval of less than an hour is not changed by
\* it, and no negative one becomes so short.
LEMMA UintIs ==
  ASSUME NEW d \in Delays \cup {0}
  PROVE  /\ d \in Int /\ Uint(d) \in Nat
         /\ Uint(d) < H => Uint(d) = d
<1>1. /\ UintRange \in Nat /\ H <= UintRange \div 2 /\ H \in Nat \ {0}
      /\ d \in -(UintRange \div 2) .. UintRange \div 2 - 1 \/ d = 0
  BY TimerWheelAssumption, Sizes DEF H
<1> DEFINE h == UintRange \div 2
<1>2. h \in Nat /\ 2 * h <= UintRange /\ d \in Int
  BY <1>1
<1> HIDE DEF h
<1>3. H <= h /\ ((-h <= d /\ d < h) \/ d = 0)
  BY <1>1, <1>2 DEF h
<1>4. UintRange \in Nat \ {0}
  BY <1>1, <1>2, <1>3
<1>5. CASE d >= 0
  <2>1. d \in Nat /\ d < UintRange
    BY <1>1, <1>2, <1>3, <1>4, <1>5
  <2>2. d % UintRange = d
    BY <1>4, <2>1
  <2> QED
    BY <1>2, <2>1, <2>2 DEF Uint
<1>6. CASE d < 0
  <2>1. -UintRange <= d /\ h <= d + UintRange
    BY <1>1, <1>2, <1>3, <1>6
  <2>2. d % UintRange = d + UintRange
    BY <1>2, <1>4, <1>6, <2>1
  <2> QED
    BY <1>1, <1>2, <1>3, <2>1, <2>2 DEF Uint
<1> QED
  BY <1>2, <1>5, <1>6

\* insertNode stores every interval that is not refused.
LEMMA StoredIs ==
  ASSUME NEW d \in Delays \cup {0}, ~RunsAtOnce(d)
  PROVE  Uint(d) \in Nat \ {0} /\ Uint(d) \div D <= MaxDays
<1>1. Uint(d) \in Nat /\ Uint(d) # 0 /\ ~(Uint(d) \div D > MaxDays)
  BY UintIs DEF RunsAtOnce, D
<1>2. Uint(d) \div D \in Nat /\ MaxDays \in Nat
  BY <1>1, Sizes, DivMod
<1> QED
  BY <1>1, <1>2

\* An interval of less than an hour is stored.
LEMMA ShortIsStored ==
  ASSUME NEW d \in Delays \cup {0}, Uint(d) \in 1 .. H - 1
  PROVE  ~RunsAtOnce(d) /\ Uint(d) = d
<1>1. Uint(d) \in Nat /\ Uint(d) # 0 /\ Uint(d) < H /\ Uint(d) < D
  BY Sizes, UintIs
<1>2. Uint(d) \div D = 0
  BY <1>1, Sizes, QuotientZero
<1> QED
  BY <1>1, <1>2, Sizes, UintIs DEF RunsAtOnce, D

\* The remainder and the turn are numbers.
LEMMA TurnIs ==
  ASSUME NEW t \in Nat
  PROVE  t % M \in 0 .. M - 1 /\ M \in Nat \ {0}
  BY Sizes, DivMod

-----------------------------------------------------------------------------
(* The steps.                                                              *)

\* A timer that has no node and is started with an interval that is stored.
LEMMA StartInserts ==
  ASSUME WheelInv, NEW id \in Timers, NEW d \in Delays \cup {0}, NEW every \in BOOLEAN,
         ~RunsAtOnce(d), Detaches(id), pc' = pc,
         m_wheels' = insertNode(Uint(d), id),
         timer' = [timer EXCEPT ![id] = Started(d, every)]
  PROVE  Inserts(id, Uint(d))
<1>1. timer'[id] = Started(d, every)
  BY DEF WheelInv, ValuesInv
<1>2. Waiting(id)' /\ timer'[id].interval = d
  BY <1>1 DEF Started, Waiting
<1>3. Uint(d) \in Nat \ {0} /\ Uint(d) \div D <= MaxDays
  BY StoredIs
<1>4. ASSUME UpToAnHour(id)'
      PROVE  /\ Uint(d) < H
             /\ RunTick(id)' = (IF Uint(d) < M THEN m_tick ELSE Turn) + Uint(d)
  <2>1. Uint(d) \in 1 .. H - 1
    BY <1>2, <1>4 DEF UpToAnHour, H
  <2>2. Uint(d) = d /\ Uint(d) < H
    BY <2>1, ShortIsStored, Sizes
  <2>3. timer'[id].start = m_tick /\ timer'[id].ahead = (pc = "second")
    BY <1>1 DEF Started
  <2>4. StartTurn(id)' = Turn
    BY <2>3 DEF StartTurn, Turn
  <2>5. RunTick(id)' = (IF d < M THEN m_tick ELSE Turn) + d
    BY <1>2, <2>3, <2>4 DEF RunTick
  <2> QED
    BY <2>2, <2>5
<1> QED
  BY <1>2, <1>3, <1>4 DEF Inserts

\* A new timer has no node.
LEMMA NewHasNoNode ==
  ASSUME WheelInv, NEW id \in Timers, New(id), tmp' = tmp, m_tick' = m_tick,
         \A j \in Timers \ {id} : timer'[j] = timer[j]
  PROVE  Detaches(id)
<1>1. ASSUME NEW w, NEW i, Spot(w, i), NEW n \in At(w, i), n.id = id PROVE FALSE
  <2>1. Waiting(n.id)
    BY <1>1 DEF WheelInv, NodesInv
  <2> QED
    BY <1>1, <2>1 DEF New, Waiting
<1> QED
  BY <1>1 DEF Detaches

\* A node of tmp is its timer's only one.
LEMMA TakenFromTmp ==
  ASSUME WheelInv, NEW node \in tmp, tmp' = tmp \ {node}, m_tick' = m_tick,
         \A j \in Timers \ {node.id} : timer'[j] = timer[j]
  PROVE  Detaches(node.id)
<1>1. Spot("tmp", 0) /\ node \in At("tmp", 0)
  BY DEF Spot, At
<1>2. ASSUME NEW w, NEW i, Spot(w, i), NEW n \in At(w, i), n.id = node.id
      PROVE  w = "tmp" /\ n \notin tmp'
  BY <1>1, <1>2 DEF WheelInv, UniqueInv
<1> QED
  BY <1>2 DEF Detaches

\* A node of tmp is of a timer that waits.
LEMMA TmpNode ==
  ASSUME WheelInv, NEW node \in tmp
  PROVE  /\ node \in Nodes /\ node.id \in Timers
         /\ Waiting(node.id) /\ ~RunsAtOnce(timer[node.id].interval)
         /\ OnTrack("tmp", 0, node)
<1>1. Spot("tmp", 0) /\ node \in At("tmp", 0)
  BY DEF Spot, At
<1>2. node \in Nodes /\ node.id \in Timers
  BY DEF WheelInv, WheelsInv, Nodes
<1> QED
  BY <1>1, <1>2 DEF WheelInv, NodesInv

\* runAfter: the timer's node is stored, or destroyed on the spot with its one run.
LEMMA RunAfterKeeps ==
  ASSUME WheelInv, NEW id \in Timers, NEW d \in Delays, pc # "overflow", runAfter(id, d)
  PROVE  WheelInv'
<1>1. Started(d, FALSE) \in TimerType /\ [Started(d, FALSE) EXCEPT !.state = "done"] \in TimerType
  BY DEF Started, TimerType, WheelInv, ValuesInv
<1>2. timer[id].state = "new" /\ timer[id].every = FALSE /\ runs[id] = 0
  <2>1. timer[id] \in TimerType
    BY DEF WheelInv, ValuesInv
  <2> QED
    BY <2>1 DEF runAfter, New, WheelInv, TimersInv, Waiting, TimerType
<1>3. PhaseInv'
  BY DEF runAfter, WheelInv, PhaseInv
<1>4. CASE RunsAtOnce(d)
  <2> DEFINE t == [Started(d, FALSE) EXCEPT !.state = "done"]
  <2>1. /\ timer' = [timer EXCEPT ![id] = t] /\ runs' = [runs EXCEPT ![id] = @ + 1]
        /\ UNCHANGED <<m_wheels, m_tick, pc, tmp, inTask>>
    BY <1>4 DEF runAfter
  <2>2. t.state = "done" /\ t.every = FALSE
    BY DEF Started
  <2>3. t \in TimerType
    BY <1>1
  <2> HIDE DEF t
  <2>4. timer'[id] = t /\ \A j \in Timers \ {id} : timer'[j] = timer[j] /\ runs'[j] = runs[j]
    BY <2>1 DEF WheelInv, ValuesInv
  <2>5. runs'[id] = 1
    BY <1>2, <2>1 DEF WheelInv, ValuesInv
  <2>6. ValuesInv'
    BY <2>1, <2>3 DEF WheelInv, ValuesInv
  <2>7. Leaves(id)
    <3>1. Detaches(id)
      BY <2>1, <2>4, NewHasNoNode DEF runAfter
    <3> QED
      BY <2>1, <2>2, <2>4, <3>1 DEF Leaves, Waiting
  <2>8. TimersInv'
    <3> SUFFICES ASSUME NEW j \in Timers
                 PROVE  /\ Waiting(j)' /\ RunsAtOnce(timer'[j].interval) => pc' = "overflow"
                        /\ timer'[j].every => Waiting(j)'
                        /\ ~timer'[j].every => runs'[j] = (IF timer'[j].state = "done" THEN 1 ELSE 0)
      BY DEF TimersInv, RunsAtOnce, Uint
    <3>1. CASE j = id
      BY <2>2, <2>4, <2>5, <3>1 DEF Waiting
    <3>2. CASE j # id
      BY <2>1, <2>4, <3>2 DEF WheelInv, TimersInv, Waiting
    <3> QED
      BY <3>1, <3>2
  <2> QED
    BY <1>3, <2>6, <2>7, <2>8, LeavingKeeps DEF WheelInv
<1>5. CASE ~RunsAtOnce(d)
  <2> DEFINE t == Started(d, FALSE)
  <2>1. /\ timer' = [timer EXCEPT ![id] = Started(d, FALSE)] /\ m_wheels' = insertNode(Uint(d), id)
        /\ UNCHANGED <<m_tick, pc, tmp, inTask, runs>>
    BY <1>5 DEF runAfter
  <2>2. t.state = "waiting" /\ t.every = FALSE /\ t.interval = d
    BY DEF Started
  <2>3. t \in TimerType
    BY <1>1
  <2> HIDE DEF t
  <2>4. timer'[id] = t /\ \A j \in Timers \ {id} : timer'[j] = timer[j]
    BY <2>1 DEF WheelInv, ValuesInv, t
  <2>5. ValuesInv'
    BY <2>1, <2>3 DEF WheelInv, ValuesInv, t
  <2>6. Inserts(id, Uint(d))
    <3>1. Detaches(id)
      BY <2>1, <2>4, NewHasNoNode DEF runAfter
    <3> QED
      BY <1>5, <2>1, <3>1, StartInserts
  <2>7. TimersInv'
    <3> SUFFICES ASSUME NEW j \in Timers
                 PROVE  /\ Waiting(j)' /\ RunsAtOnce(timer'[j].interval) => pc' = "overflow"
                        /\ timer'[j].every => Waiting(j)'
                        /\ ~timer'[j].every => runs'[j] = (IF timer'[j].state = "done" THEN 1 ELSE 0)
      BY DEF TimersInv, RunsAtOnce, Uint
    <3>1. CASE j = id
      BY <1>2, <1>5, <2>1, <2>2, <2>4, <3>1 DEF Waiting
    <3>2. CASE j # id
      BY <2>1, <2>4, <3>2 DEF WheelInv, TimersInv, Waiting
    <3> QED
      BY <3>1, <3>2
  <2> QED
    BY <1>3, <2>5, <2>6, <2>7, InsertionKeeps DEF WheelInv
<1> QED
  BY <1>4, <1>5

\* runEvery: the timer's node is stored, or the program is over.
LEMMA RunEveryKeeps ==
  ASSUME WheelInv, NEW id \in Timers, NEW d \in Delays, pc # "overflow", runEvery(id, d)
  PROVE  WheelInv'
<1> DEFINE t == Started(d, TRUE)
<1>1. t \in TimerType /\ t.state = "waiting" /\ t.every = TRUE /\ t.interval = d
  BY DEF Started, TimerType, WheelInv, ValuesInv
<1>2. timer' = [timer EXCEPT ![id] = t] /\ UNCHANGED <<m_tick, tmp, inTask, runs>>
  BY DEF runEvery
<1> HIDE DEF t
<1>3. timer'[id] = t /\ \A j \in Timers \ {id} : timer'[j] = timer[j]
  BY <1>2 DEF WheelInv, ValuesInv
<1>4. Detaches(id)
  BY <1>2, <1>3, NewHasNoNode DEF runEvery
<1>5. pc' \in {pc, "overflow"} /\ (RunsAtOnce(d) => pc' = "overflow")
  BY DEF runEvery
<1>6. ValuesInv'
  BY <1>1, <1>2, <1>5 DEF WheelInv, ValuesInv
<1>7. PhaseInv'
  BY <1>2, <1>5 DEF WheelInv, PhaseInv
<1>8. TimersInv'
  <2> SUFFICES ASSUME NEW j \in Timers
               PROVE  /\ Waiting(j)' /\ RunsAtOnce(timer'[j].interval) => pc' = "overflow"
                      /\ timer'[j].every => Waiting(j)'
                      /\ ~timer'[j].every => runs'[j] = (IF timer'[j].state = "done" THEN 1 ELSE 0)
    BY DEF TimersInv, RunsAtOnce, Uint
  <2>1. CASE j = id
    BY <1>1, <1>3, <1>5, <2>1 DEF Waiting
  <2>2. CASE j # id
    BY <1>2, <1>3, <1>5, <2>2 DEF WheelInv, TimersInv, Waiting
  <2> QED
    BY <2>1, <2>2
<1>9. CASE RunsAtOnce(d)
  <2>1. Leaves(id)
    BY <1>1, <1>3, <1>4, <1>5, <1>9 DEF Leaves, runEvery
  <2> QED
    BY <1>6, <1>7, <1>8, <2>1, LeavingKeeps DEF WheelInv
<1>10. CASE ~RunsAtOnce(d)
  <2>1. m_wheels' = insertNode(Uint(d), id) /\ pc' = pc
    BY <1>10 DEF runEvery
  <2>2. Inserts(id, Uint(d))
    BY <1>2, <1>4, <1>10, <2>1, StartInserts DEF t
  <2> QED
    BY <1>6, <1>7, <1>8, <2>2, InsertionKeeps DEF WheelInv
<1> QED
  BY <1>9, <1>10

\* The invariant of the timers speaks of timers, runs and phase only.
LEMMA TimersKeep ==
  ASSUME WheelInv, timer' = timer, runs' = runs, pc # "overflow"
  PROVE  TimersInv'
  BY DEF WheelInv, TimersInv, Waiting, RunsAtOnce, Uint

\* Between the pops no minute passes.
LEMMA TickKeeps ==
  ASSUME WheelInv, Tick
  PROVE  WheelInv'
<1>1. /\ pc = "idle" /\ pc' = "second" /\ m_tick < MaxTick /\ m_tick' = m_tick + 1 /\ tmp = {}
      /\ m_wheels' = Popped("second") /\ tmp' = Head(m_wheels["second"]) /\ timer' = timer
      /\ UNCHANGED <<inTask, runs>>
  BY DEF Tick, WheelInv, PhaseInv
<1>2. ValuesInv' /\ PhaseInv' /\ TimersInv'
  <2>1. m_tick' \in 0 .. MaxTick
    BY <1>1, TimerWheelAssumption DEF WheelInv, ValuesInv
  <2> QED
    BY <1>1, <2>1, TimersKeep DEF WheelInv, ValuesInv, PhaseInv
<1>3. /\ WheelsInv' /\ UniqueInv' /\ ExistsInv'
      /\ \A v, j : Spot(v, j) => \A o \in At(v, j)' :
           \E u, k : Spot(u, k) /\ o \in At(u, k) /\ Moves("second", u, k, v, j)
  BY <1>1, PopKeeps DEF Wheels
<1>4. Turn' = Turn
  <2>1. m_tick \in Nat /\ M \in Nat \ {0}
    BY Sizes, TimerWheelAssumption DEF WheelInv, ValuesInv
  <2> DEFINE r == m_tick % M
             s == (m_tick + 1) % M
  <2>2. r \in 0 .. M - 1 /\ s = IF r = M - 1 THEN 0 ELSE r + 1
    BY <2>1, TurnIs, NextRemainder
  <2>3. Turn = m_tick - r /\ Turn' = (m_tick + 1) - s - (IF s = 0 THEN M ELSE 0)
    BY <1>1, <2>1, <2>2 DEF Turn
  <2> HIDE DEF r, s
  <2> QED
    BY <2>1, <2>2, <2>3
<1>5. NodesInv'
  <2> SUFFICES ASSUME NEW v, NEW j, Spot(v, j), NEW o \in At(v, j)'
               PROVE  (Waiting(o.id) /\ ~RunsAtOnce(timer[o.id].interval) /\ OnTrack(v, j, o))'
    BY DEF NodesInv, Spot
  <2>1. PICK u, k : Spot(u, k) /\ o \in At(u, k) /\ Moves("second", u, k, v, j)
    BY <1>3
  <2>2. Waiting(o.id) /\ ~RunsAtOnce(timer[o.id].interval) /\ OnTrack(u, k, o)
    BY <2>1 DEF WheelInv, NodesInv
  <2>3. /\ Waiting(o.id)' /\ ~RunsAtOnce(timer'[o.id].interval)
        /\ UpToAnHour(o.id)' = UpToAnHour(o.id) /\ RunTick(o.id)' = RunTick(o.id)
    BY <1>1, <2>2 DEF Waiting, UpToAnHour, RunTick, StartTurn
  <2>4. m_tick \in Nat /\ M \in Nat \ {0}
    BY Sizes, TimerWheelAssumption DEF WheelInv, ValuesInv
  <2>5. CASE v = "tmp"
    <3>1. u = "second" /\ k = 1 /\ j = 0
      BY <2>1, <2>5 DEF Moves, Spot, Wheels
    <3>2. o.rest = 0
      BY <2>2, <3>1 DEF OnTrack
    <3>3. UpToAnHour(o.id) => m_tick + 1 = RunTick(o.id)
      BY <1>1, <2>2, <3>1 DEF OnTrack, NodeTick
    <3>4. NodeTick(v, j, o)' = m_tick + 1
      BY <1>1, <2>4, <2>5, <3>2 DEF NodeTick
    <3> QED
      BY <2>3, <2>4, <2>5, <3>2, <3>3, <3>4 DEF OnTrack
  <2>6. CASE v = "second"
    <3>1. u = "second" /\ k = j + 1 /\ j \in Nat
      BY <2>1, <2>6, Sizes DEF Moves, Spot
    <3>2. o.rest = 0
      BY <2>2, <3>1 DEF OnTrack
    <3>3. UpToAnHour(o.id) => m_tick + (j + 1) = RunTick(o.id)
      BY <1>1, <2>2, <3>1 DEF OnTrack, NodeTick
    <3>4. NodeTick(v, j, o)' = (m_tick + 1) + j
      BY <1>1, <2>6 DEF NodeTick
    <3> QED
      BY <2>3, <2>4, <2>6, <3>1, <3>2, <3>3, <3>4 DEF OnTrack
  <2>7. CASE v \in Wheels /\ v # "second"
    <3>1. u = v /\ k = j /\ v # "tmp"
      BY <2>1, <2>7 DEF Moves, Wheels
    <3>2. NodeTick("minute", j, o)' = NodeTick("minute", j, o)
      BY <1>4 DEF NodeTick
    <3>3. UpToAnHour(o.id) => v = "minute" /\ o.rest < M /\ NodeTick("minute", j, o) = RunTick(o.id)
      BY <1>1, <2>2, <2>7, <3>1 DEF OnTrack, Wheels
    <3> QED
      BY <2>3, <2>7, <3>1, <3>2, <3>3 DEF OnTrack
  <2> QED
    BY <2>5, <2>6, <2>7 DEF Spot
<1> QED
  BY <1>2, <1>3, <1>5 DEF WheelInv

\* A step that changes the phase but no node, timer or turn.
LEMMA PhaseKeeps ==
  ASSUME WheelInv, UNCHANGED <<m_wheels, m_tick, tmp, timer, runs>>, Turn' = Turn,
         pc # "overflow", pc' # "second", ValuesInv', PhaseInv'
  PROVE  WheelInv'
<1>1. \A w, i : At(w, i)' = At(w, i)
  BY DEF At
<1>2. WheelsInv'
  BY DEF WheelInv, WheelsInv
<1>3. UniqueInv'
  <2> SUFFICES ASSUME NEW u, NEW v, NEW k, NEW j, Spot(u, k), Spot(v, j),
                      NEW m \in At(u, k)', NEW o \in At(v, j)', m.id = o.id
               PROVE  u = v /\ k = j /\ m = o
    BY DEF UniqueInv, Spot
  <2> QED
    BY <1>1 DEF WheelInv, UniqueInv
<1>4. ExistsInv'
  <2> SUFFICES ASSUME NEW j \in Timers, Waiting(j)', ~RunsAtOnce(timer'[j].interval)
               PROVE  \E v, k : Spot(v, k) /\ \E o \in At(v, k)' : o.id = j
    BY DEF ExistsInv, Spot, RunsAtOnce, Uint
  <2> QED
    BY <1>1 DEF WheelInv, ExistsInv, Waiting
<1>5. NodesInv'
  <2> SUFFICES ASSUME NEW v, NEW j, Spot(v, j), NEW o \in At(v, j)'
               PROVE  (Waiting(o.id) /\ ~RunsAtOnce(timer[o.id].interval) /\ OnTrack(v, j, o))'
    BY DEF NodesInv, Spot
  <2>1. Waiting(o.id) /\ ~RunsAtOnce(timer[o.id].interval) /\ OnTrack(v, j, o)
    BY <1>1 DEF WheelInv, NodesInv
  <2>2. /\ Waiting(o.id)' /\ ~RunsAtOnce(timer'[o.id].interval)
        /\ UpToAnHour(o.id)' = UpToAnHour(o.id) /\ RunTick(o.id)' = RunTick(o.id)
    BY <2>1 DEF Waiting, UpToAnHour, RunTick, StartTurn
  <2>3. NodeTick(v, j, o)' = NodeTick(v, j, o)
    BY DEF NodeTick
  <2> QED
    BY <2>1, <2>2, <2>3 DEF OnTrack
<1> QED
  BY <1>2, <1>3, <1>4, <1>5, TimersKeep DEF WheelInv

\* At a full minute the turn passes to this tick.
LEMMA PopCoarseKeeps ==
  ASSUME WheelInv, PopCoarse
  PROVE  WheelInv'
<1>1. /\ pc = "second" /\ tmp = {} /\ pc' \in {"idle", "coarse"} /\ inTask' = FALSE
      /\ UNCHANGED <<m_tick, timer, runs>>
  BY DEF PopCoarse
<1> DEFINE r == m_tick % M
<1>2. m_tick \in Nat /\ M \in Nat \ {0} /\ r \in 0 .. M - 1
  BY TurnIs, TimerWheelAssumption DEF WheelInv, ValuesInv
<1>3. /\ Turn = m_tick - r - (IF r = 0 THEN M ELSE 0)
      /\ Turn' = m_tick - r
  BY <1>1, <1>2 DEF Turn
<1>4. ValuesInv'
  BY <1>1 DEF WheelInv, ValuesInv
<1>5. CoarseWheel = "minute" <=> r = 0
  BY <1>2 DEF CoarseWheel, M
<1>6. CASE CoarseWheel = "none"
  <2>1. pc' = "idle" /\ UNCHANGED <<tmp, m_wheels>>
    BY <1>6 DEF PopCoarse
  <2>2. Turn' = Turn
    <3> HIDE DEF r
    <3> QED
      BY <1>2, <1>3, <1>5, <1>6
  <2>3. PhaseInv'
    BY <1>1, <2>1 DEF PhaseInv
  <2> QED
    BY <1>1, <1>4, <2>1, <2>2, <2>3, PhaseKeeps
<1>7. CASE CoarseWheel # "none"
  <2> DEFINE w == CoarseWheel
  <2>1. pc' = "coarse" /\ tmp' = Head(m_wheels[w]) /\ m_wheels' = Popped(w)
    BY <1>7 DEF PopCoarse
  <2>2. w \in {"minute", "hour", "day"}
    BY <1>7 DEF CoarseWheel
  <2>3. w = "minute" <=> r = 0
    BY <1>5
  <2> HIDE DEF w, r
  <2>4. /\ WheelsInv' /\ UniqueInv' /\ ExistsInv'
        /\ \A v, j : Spot(v, j) => \A o \in At(v, j)' :
             \E u, k : Spot(u, k) /\ o \in At(u, k) /\ Moves(w, u, k, v, j)
    BY <1>1, <2>1, <2>2, PopKeeps DEF Wheels
  <2>5. PhaseInv' /\ TimersInv'
    BY <1>1, <2>1, TimersKeep DEF PhaseInv
  <2>6. NodesInv'
    <3> SUFFICES ASSUME NEW v, NEW j, Spot(v, j), NEW o \in At(v, j)'
                 PROVE  (Waiting(o.id) /\ ~RunsAtOnce(timer[o.id].interval) /\ OnTrack(v, j, o))'
      BY DEF NodesInv, Spot
    <3>1. PICK u, k : Spot(u, k) /\ o \in At(u, k) /\ Moves(w, u, k, v, j)
      BY <2>4
    <3>2. Waiting(o.id) /\ ~RunsAtOnce(timer[o.id].interval) /\ OnTrack(u, k, o)
      BY <3>1 DEF WheelInv, NodesInv
    <3>3. /\ Waiting(o.id)' /\ ~RunsAtOnce(timer'[o.id].interval)
          /\ UpToAnHour(o.id)' = UpToAnHour(o.id) /\ RunTick(o.id)' = RunTick(o.id)
      BY <1>1, <3>2 DEF Waiting, UpToAnHour, RunTick, StartTurn
    <3>4. o \in Nodes /\ o.rest \in Nat
      <4>1. o \in Nodes
        BY <3>1 DEF Spot, At, Wheels, WheelInv, WheelsInv
      <4> QED
        BY <4>1, Sizes DEF Nodes
    <3>5. v = "second" => o.rest = 0
      BY <2>2, <3>1, <3>2 DEF OnTrack, Moves
    <3>6. ASSUME UpToAnHour(o.id)
          PROVE  /\ v \in {"second", "minute", "tmp"} /\ o.rest < M
                 /\ NodeTick(v, j, o)' = RunTick(o.id)
      <4>1. u \in {"second", "minute", "tmp"} /\ o.rest < M /\ NodeTick(u, k, o) = RunTick(o.id)
        BY <1>1, <3>2, <3>6 DEF OnTrack
      <4>2. u # "tmp"
        BY <1>1, <3>1 DEF At
      <4>3. CASE u = "second"
        <5>1. v = "second" /\ k = j
          BY <2>2, <3>1, <4>3 DEF Moves, Spot
        <5>2. NodeTick(v, j, o)' = m_tick + j /\ NodeTick(u, k, o) = m_tick + j
          BY <1>1, <4>3, <5>1 DEF NodeTick
        <5> QED
          BY <4>1, <5>1, <5>2
      <4>4. CASE u = "minute" /\ w = "minute" /\ v = "tmp"
        <5>1. k = 1 /\ r = 0
          BY <2>3, <3>1, <4>4 DEF Moves
        <5>2. NodeTick(v, j, o)' = m_tick + o.rest /\ NodeTick(u, k, o) = Turn + 1 * M + o.rest
          BY <1>1, <4>4, <5>1 DEF NodeTick
        <5>3. Turn = m_tick - M
          BY <1>2, <1>3, <5>1
        <5> QED
          BY <1>2, <3>4, <4>1, <4>4, <5>2, <5>3
      <4>5. CASE u = "minute" /\ w = "minute" /\ v # "tmp"
        <5>1. v = "minute" /\ k = j + 1 /\ r = 0 /\ j \in Nat
          BY <2>3, <3>1, <4>5, Sizes DEF Moves, Spot
        <5>2. NodeTick(v, j, o)' = Turn' + j * M + o.rest /\ NodeTick(u, k, o) = Turn + (j + 1) * M + o.rest
          BY <4>5, <5>1 DEF NodeTick
        <5>3. Turn = m_tick - M /\ Turn' = m_tick
          BY <1>2, <1>3, <5>1
        <5>4. (j + 1) * M = j * M + M /\ j * M \in Nat
          BY <1>2, <5>1
        <5> QED
          BY <1>2, <3>4, <4>1, <5>1, <5>2, <5>3, <5>4
      <4>6. CASE u = "minute" /\ w # "minute"
        <5>1. v = "minute" /\ k = j
          BY <2>2, <3>1, <4>6 DEF Moves
        <5>2. Turn' = Turn
          BY <1>2, <1>3, <2>3, <4>6
        <5>3. NodeTick(v, j, o)' = NodeTick(u, k, o)
          BY <4>6, <5>1, <5>2 DEF NodeTick
        <5> QED
          BY <4>1, <5>1, <5>3
      <4> QED
        BY <4>1, <4>2, <4>3, <4>4, <4>5, <4>6
    <3> QED
      BY <2>1, <3>3, <3>5, <3>6 DEF OnTrack
  <2> QED
    BY <1>4, <2>4, <2>5, <2>6 DEF WheelInv
<1> QED
  BY <1>6, <1>7

\* onTime returns with its coarse slot destroyed.
LEMMA TickReturnsKeeps ==
  ASSUME WheelInv, TickReturns
  PROVE  WheelInv'
<1>1. /\ pc = "coarse" /\ tmp = {} /\ pc' = "idle" /\ inTask' = FALSE
      /\ UNCHANGED <<m_wheels, m_tick, tmp, timer, runs>>
  BY DEF TickReturns
<1>2. Turn' = Turn
  BY <1>1 DEF Turn
<1>3. ValuesInv' /\ PhaseInv'
  BY <1>1 DEF WheelInv, ValuesInv, PhaseInv
<1> QED
  BY <1>1, <1>2, <1>3, PhaseKeeps

\* Only in the coarse phase do nodes have seconds left; those go to the second
\* wheel if the timer is short.
LEMMA CascadeKeeps ==
  ASSUME WheelInv, pc # "overflow", NEW node \in tmp, Cascade(node)
  PROVE  WheelInv'
<1> DEFINE id == node.id
           rest == node.rest
<1>1. /\ node \in Nodes /\ id \in Timers /\ Waiting(id) /\ ~RunsAtOnce(timer[id].interval)
      /\ OnTrack("tmp", 0, node)
  BY TmpNode
<1>2. /\ rest # 0 /\ tmp' = tmp \ {node} /\ m_wheels' = insertNode(rest, id) /\ inTask' = FALSE
      /\ UNCHANGED <<m_tick, pc, timer, runs>>
  BY DEF Cascade
<1>3. rest \in Nat \ {0} /\ rest < D /\ D \in Nat \ {0}
  BY <1>1, <1>2, Sizes DEF Nodes
<1>4. rest \div D <= MaxDays
  <2>1. rest \div D = 0
    BY <1>3, QuotientZero
  <2> QED
    BY <2>1, Sizes
<1>5. Detaches(id)
  BY <1>2, TakenFromTmp
<1>6. ASSUME UpToAnHour(id)'
      PROVE  rest < H /\ RunTick(id)' = (IF rest < M THEN m_tick ELSE Turn) + rest
  <2>1. UpToAnHour(id) /\ RunTick(id)' = RunTick(id)
    BY <1>2, <1>6 DEF UpToAnHour, RunTick, StartTurn
  <2>2. rest < M /\ m_tick + rest = RunTick(id)
    BY <1>1, <2>1 DEF OnTrack, NodeTick
  <2> HIDE DEF id, rest
  <2> QED
    BY <1>3, <2>1, <2>2, Sizes
<1>7. Inserts(id, rest)
  <2>1. Waiting(id)' /\ ~RunsAtOnce(timer'[id].interval)
    BY <1>1, <1>2 DEF Waiting
  <2> HIDE DEF id, rest
  <2> QED
    BY <1>2, <1>3, <1>4, <1>5, <1>6, <2>1 DEF Inserts
<1>8. ValuesInv' /\ PhaseInv' /\ TimersInv'
  <2>1. pc \in {"second", "coarse"}
    BY DEF WheelInv, ValuesInv, PhaseInv
  <2> QED
    BY <1>2, <2>1, TimersKeep DEF WheelInv, ValuesInv, PhaseInv
<1> HIDE DEF id, rest
<1> QED
  BY <1>1, <1>7, <1>8, InsertionKeeps DEF WheelInv

\* The task of a node runs: a repeating timer is inserted again, any other leaves.
LEMMA FireKeeps ==
  ASSUME WheelInv, pc # "overflow", NEW node \in tmp, Fire(node)
  PROVE  WheelInv'
<1> DEFINE id == node.id
           d == timer[id].interval
<1>1. id \in Timers /\ Waiting(id) /\ ~RunsAtOnce(d)
  BY TmpNode
<1>2. /\ tmp' = tmp \ {node} /\ inTask' = TRUE /\ runs' = [runs EXCEPT ![id] = @ + 1]
      /\ UNCHANGED <<m_tick, pc>>
  BY DEF Fire
<1>3. timer[id] \in TimerType /\ runs[id] \in Nat
  BY <1>1 DEF WheelInv, ValuesInv
<1>4. pc \in {"second", "coarse"}
  BY DEF WheelInv, ValuesInv, PhaseInv
<1>5. PhaseInv'
  BY <1>2, <1>4 DEF PhaseInv
<1>6. /\ \A j \in Timers \ {id} : runs'[j] = runs[j]
      /\ runs'[id] = runs[id] + 1 /\ runs' \in [Timers -> Nat]
  BY <1>1, <1>2, <1>3 DEF WheelInv, ValuesInv
<1>7. CASE timer[id].every
  <2> DEFINE t == Started(d, TRUE)
  <2>1. m_wheels' = insertNode(Uint(d), id) /\ timer' = [timer EXCEPT ![id] = Started(d, TRUE)]
    BY <1>7 DEF Fire
  <2>2. d \in Delays \cup {0}
    BY <1>3 DEF TimerType
  <2>3. t \in TimerType /\ t.state = "waiting" /\ t.every = TRUE /\ t.interval = d
    BY <2>2 DEF Started, TimerType, WheelInv, ValuesInv
  <2> HIDE DEF id, d
  <2>4. timer'[id] = t /\ \A j \in Timers \ {id} : timer'[j] = timer[j]
    BY <1>1, <2>1 DEF WheelInv, ValuesInv
  <2>5. timer' \in [Timers -> TimerType]
    BY <1>1, <2>1, <2>3 DEF WheelInv, ValuesInv
  <2> HIDE DEF t
  <2>6. Detaches(id)
    BY <1>2, <2>4, TakenFromTmp DEF id
  <2>7. Inserts(id, Uint(d))
    BY <1>1, <1>2, <2>1, <2>2, <2>6, StartInserts
  <2>8. TimersInv'
    <3> SUFFICES ASSUME NEW j \in Timers
                 PROVE  /\ Waiting(j)' /\ RunsAtOnce(timer'[j].interval) => pc' = "overflow"
                        /\ timer'[j].every => Waiting(j)'
                        /\ ~timer'[j].every => runs'[j] = (IF timer'[j].state = "done" THEN 1 ELSE 0)
      BY DEF TimersInv, RunsAtOnce, Uint
    <3>1. CASE j = id
      BY <1>1, <2>3, <2>4, <3>1 DEF Waiting
    <3>2. CASE j # id
      BY <1>2, <1>6, <2>4, <3>2 DEF WheelInv, TimersInv, Waiting
    <3> QED
      BY <3>1, <3>2
  <2>9. ValuesInv'
    BY <1>2, <1>6, <2>5 DEF WheelInv, ValuesInv
  <2> QED
    BY <1>1, <1>5, <2>7, <2>8, <2>9, InsertionKeeps DEF WheelInv
<1>8. CASE ~timer[id].every
  <2> DEFINE t == [timer[id] EXCEPT !.state = "done"]
  <2>1. m_wheels' = m_wheels /\ timer' = [timer EXCEPT ![id] = t]
    BY <1>8 DEF Fire
  <2>2. t \in TimerType /\ t.state = "done" /\ t.every = FALSE
    BY <1>3, <1>8 DEF TimerType
  <2> HIDE DEF id, d, t
  <2>3. timer'[id] = t /\ \A j \in Timers \ {id} : timer'[j] = timer[j]
    BY <1>1, <2>1 DEF WheelInv, ValuesInv
  <2>4. timer' \in [Timers -> TimerType]
    BY <1>1, <2>1, <2>2 DEF WheelInv, ValuesInv
  <2>5. Detaches(id)
    BY <1>2, <2>3, TakenFromTmp DEF id
  <2>6. Leaves(id)
    BY <1>2, <2>1, <2>2, <2>3, <2>5 DEF Leaves, Waiting
  <2>7. runs[id] = 0
    BY <1>1, <1>8 DEF WheelInv, TimersInv, Waiting
  <2>8. TimersInv'
    <3> SUFFICES ASSUME NEW j \in Timers
                 PROVE  /\ Waiting(j)' /\ RunsAtOnce(timer'[j].interval) => pc' = "overflow"
                        /\ timer'[j].every => Waiting(j)'
                        /\ ~timer'[j].every => runs'[j] = (IF timer'[j].state = "done" THEN 1 ELSE 0)
      BY DEF TimersInv, RunsAtOnce, Uint
    <3>1. CASE j = id
      BY <1>6, <2>2, <2>3, <2>7, <3>1 DEF Waiting
    <3>2. CASE j # id
      BY <1>2, <1>6, <2>3, <3>2 DEF WheelInv, TimersInv, Waiting
    <3> QED
      BY <3>1, <3>2
  <2>9. ValuesInv'
    BY <1>2, <1>6, <2>4 DEF WheelInv, ValuesInv
  <2> QED
    BY <1>1, <1>5, <2>6, <2>8, <2>9, LeavingKeeps DEF WheelInv
<1> QED
  BY <1>7, <1>8

\* A wheel without nodes keeps the invariant of the places.
LEMMA EmptyWheels ==
  ASSUME NEW ws, ws = [w \in Wheels |-> [i \in 1 .. WheelSize[w] |-> {}]]
  PROVE  /\ ws = [w \in Wheels |-> ws[w]]
         /\ \A w \in Wheels : ws[w] \in [1 .. WheelSize[w] -> SUBSET Nodes]
         /\ \A w \in Wheels : \A i \in 1 .. WheelSize[w] : ws[w][i] = {}
  OBVIOUS

\* The destruction of the wheels is undefined as long as a repeating timer waits, so
\* that none of them is ever done.
LEMMA DestroyKeeps ==
  ASSUME WheelInv, Destroy
  PROVE  WheelInv'
<1>1. pc = "idle" /\ tmp = {} /\ UNCHANGED <<m_tick, tmp, inTask>>
  BY DEF Destroy, WheelInv, PhaseInv
<1> DEFINE Used == \E w \in Wheels : \E i \in 1 .. WheelSize[w] : \E n \in m_wheels[w][i] : UsesWheels(n)
<1>2. CASE Used
  <2>1. pc' = "undefined" /\ UNCHANGED <<m_wheels, timer, runs>>
    BY <1>2 DEF Destroy
  <2>2. Turn' = Turn
    BY <1>1, <2>1 DEF Turn
  <2>3. ValuesInv' /\ PhaseInv'
    BY <1>1, <2>1 DEF WheelInv, ValuesInv, PhaseInv
  <2> QED
    BY <1>1, <2>1, <2>2, <2>3, PhaseKeeps
<1>3. CASE ~Used
  <2>1. /\ pc' = "destroyed"
        /\ m_wheels' = [w \in Wheels |-> [i \in 1 .. WheelSize[w] |-> {}]]
        /\ runs' = [id \in Timers |-> IF Waiting(id) THEN runs[id] + 1 ELSE runs[id]]
        /\ timer' = [id \in Timers |-> IF Waiting(id) THEN [timer[id] EXCEPT !.state = "done"]
                                                      ELSE timer[id]]
    BY <1>3 DEF Destroy
  <2>2. ASSUME NEW id \in Timers
        PROVE  /\ timer[id] \in TimerType /\ runs[id] \in Nat
               /\ timer'[id] = IF Waiting(id) THEN [timer[id] EXCEPT !.state = "done"] ELSE timer[id]
               /\ runs'[id] = IF Waiting(id) THEN runs[id] + 1 ELSE runs[id]
    BY <2>1 DEF WheelInv, ValuesInv
  <2>3. ASSUME NEW id \in Timers, Waiting(id)
        PROVE  ~timer[id].every /\ runs[id] = 0
    <3>1. ~RunsAtOnce(timer[id].interval)
      BY <1>1, <2>3 DEF WheelInv, TimersInv
    <3>2. PICK w, i : Spot(w, i) /\ \E n \in At(w, i) : n.id = id
      BY <2>3, <3>1 DEF WheelInv, ExistsInv
    <3>3. w \in Wheels /\ i \in 1 .. WheelSize[w] /\ At(w, i) = m_wheels[w][i]
      BY <1>1, <3>2 DEF Spot, At, Wheels
    <3>4. ~timer[id].every
      BY <1>3, <3>2, <3>3 DEF UsesWheels
    <3> QED
      BY <2>3, <3>4 DEF WheelInv, TimersInv, Waiting
  <2>4. ASSUME NEW id \in Timers
        PROVE  /\ timer'[id] \in TimerType /\ runs'[id] \in Nat
               /\ ~Waiting(id)'
               /\ timer'[id].every => FALSE
               /\ ~timer'[id].every => runs'[id] = (IF timer'[id].state = "done" THEN 1 ELSE 0)
    <3>1. CASE Waiting(id)
      <4> DEFINE t == [timer[id] EXCEPT !.state = "done"]
      <4>1. timer'[id] = t /\ runs'[id] = 1
        BY <2>2, <2>3, <3>1
      <4>2. t \in TimerType /\ t.state = "done" /\ t.every = FALSE
        BY <2>2, <2>3, <3>1 DEF TimerType
      <4> HIDE DEF t
      <4> QED
        BY <4>1, <4>2 DEF Waiting
    <3>2. CASE ~Waiting(id)
      BY <2>2, <3>2 DEF WheelInv, TimersInv, Waiting
    <3> QED
      BY <3>1, <3>2
  <2>5. timer' = [id \in Timers |-> timer'[id]] /\ runs' = [id \in Timers |-> runs'[id]]
    BY <2>1
  <2>6. timer' \in [Timers -> TimerType] /\ runs' \in [Timers -> Nat]
    BY <2>4, <2>5
  <2>7. ValuesInv' /\ PhaseInv'
    BY <1>1, <2>1, <2>6 DEF WheelInv, ValuesInv, PhaseInv
  <2>8. TimersInv'
    BY <2>4 DEF TimersInv, Waiting
  <2>9. /\ WheelsInv'
        /\ \A w, i : Spot(w, i) => At(w, i)' = {}
    <3>1. /\ m_wheels' = [w \in Wheels |-> m_wheels'[w]]
          /\ \A w \in Wheels : m_wheels'[w] \in [1 .. WheelSize[w] -> SUBSET Nodes]
          /\ \A w \in Wheels : \A i \in 1 .. WheelSize[w] : m_wheels'[w][i] = {}
      BY <2>1, EmptyWheels
    <3> QED
      BY <1>1, <3>1 DEF WheelsInv, Spot, At
  <2>10. NodesInv'
    <3> SUFFICES ASSUME NEW v, NEW j, Spot(v, j), NEW o \in At(v, j)' PROVE FALSE
      BY DEF NodesInv, Spot
    <3> QED
      BY <2>9
  <2>11. UniqueInv'
    <3> SUFFICES ASSUME NEW v, NEW j, Spot(v, j), NEW o \in At(v, j)' PROVE FALSE
      BY DEF UniqueInv, Spot
    <3> QED
      BY <2>9
  <2>12. ExistsInv'
    <3> SUFFICES ASSUME NEW j \in Timers, Waiting(j)' PROVE FALSE
      BY DEF ExistsInv
    <3> QED
      BY <2>4
  <2> QED
    BY <2>7, <2>8, <2>9, <2>10, <2>11, <2>12 DEF WheelInv
<1> QED
  BY <1>2, <1>3

\* The invariant holds of empty wheels.
LEMMA InitWheelInv == Init => WheelInv
<1> SUFFICES ASSUME Init PROVE WheelInv
  OBVIOUS
<1>1. ValuesInv
  <2> DEFINE t == [state |-> "new", interval |-> 0, every |-> FALSE, start |-> 0, ahead |-> FALSE]
  <2>1. t \in TimerType
    BY TimerWheelAssumption DEF TimerType
  <2>2. timer = [id \in Timers |-> t]
    BY DEF Init
  <2> HIDE DEF t
  <2>3. timer \in [Timers -> TimerType] /\ runs \in [Timers -> Nat]
    BY <2>1, <2>2 DEF Init
  <2>4. /\ m_tick = 0 /\ 0 \in 0 .. MaxTick
        /\ pc = "idle" /\ inTask = FALSE
    BY TimerWheelAssumption DEF Init
  <2> QED
    BY <2>3, <2>4 DEF ValuesInv
<1>2. PhaseInv
  BY DEF Init, PhaseInv
<1>3. TimersInv
  BY DEF Init, TimersInv, Waiting
<1>4. WheelsInv /\ \A w, i : Spot(w, i) => At(w, i) = {}
  <2>1. /\ m_wheels = [w \in Wheels |-> m_wheels[w]]
        /\ \A w \in Wheels : m_wheels[w] \in [1 .. WheelSize[w] -> SUBSET Nodes]
        /\ \A w \in Wheels : \A i \in 1 .. WheelSize[w] : m_wheels[w][i] = {}
    BY EmptyWheels DEF Init
  <2> QED
    BY <2>1 DEF Init, WheelsInv, Spot, At
<1>5. NodesInv /\ UniqueInv
  BY <1>4 DEF NodesInv, UniqueInv
<1>6. ExistsInv
  BY DEF Init, ExistsInv, Waiting
<1> QED
  BY <1>1, <1>2, <1>3, <1>4, <1>5, <1>6 DEF WheelInv

\* Every step preserves the invariant.
LEMMA NextWheelInv == WheelInv /\ [Next]_vars => WheelInv'
<1> SUFFICES ASSUME WheelInv, [Next]_vars PROVE WheelInv'
  OBVIOUS
<1>1. CASE Next
  <2>1. pc # "overflow"
    BY <1>1 DEF Next
  <2>2. CASE Tick
    BY <2>2, TickKeeps
  <2>3. CASE PopCoarse
    BY <2>3, PopCoarseKeeps
  <2>4. CASE TickReturns
    BY <2>4, TickReturnsKeeps
  <2>5. CASE Destroy
    BY <2>5, DestroyKeeps
  <2>6. ASSUME NEW node \in tmp, Cascade(node) PROVE WheelInv'
    BY <2>1, <2>6, CascadeKeeps
  <2>7. ASSUME NEW node \in tmp, Fire(node) PROVE WheelInv'
    BY <2>1, <2>7, FireKeeps
  <2>8. ASSUME NEW id \in Timers, NEW d \in Delays, runAfter(id, d) PROVE WheelInv'
    BY <2>1, <2>8, RunAfterKeeps
  <2>9. ASSUME NEW id \in Timers, NEW d \in Delays, runEvery(id, d) PROVE WheelInv'
    BY <2>1, <2>9, RunEveryKeeps
  <2> QED
    BY <1>1, <2>2, <2>3, <2>4, <2>5, <2>6, <2>7, <2>8, <2>9 DEF Next, OnTime
<1>2. CASE UNCHANGED vars
  <2>1. ValuesInv' /\ WheelsInv' /\ PhaseInv' /\ TimersInv'
    BY <1>2 DEF vars, WheelInv, ValuesInv, WheelsInv, PhaseInv, TimersInv, Waiting,
                RunsAtOnce, Uint
  <2>2. UniqueInv' /\ ExistsInv'
    BY <1>2 DEF vars, WheelInv, UniqueInv, ExistsInv, At, Waiting, RunsAtOnce, Uint
  <2>3. \A w, i, n : OnTrack(w, i, n)' = OnTrack(w, i, n)
    <3>1. Turn' = Turn /\ \A id : RunTick(id)' = RunTick(id) /\ UpToAnHour(id)' = UpToAnHour(id)
      BY <1>2 DEF vars, Turn, RunTick, StartTurn, UpToAnHour
    <3>2. \A w, i, n : NodeTick(w, i, n)' = NodeTick(w, i, n)
      BY <1>2, <3>1 DEF vars, NodeTick
    <3> QED
      BY <1>2, <3>1, <3>2 DEF vars, OnTrack
  <2>4. NodesInv'
    <3> SUFFICES ASSUME NEW v, NEW j, Spot(v, j), NEW o \in At(v, j)'
                 PROVE  (Waiting(o.id) /\ ~RunsAtOnce(timer[o.id].interval) /\ OnTrack(v, j, o))'
      BY DEF NodesInv, Spot
    <3>1. o \in At(v, j) /\ Waiting(o.id)' = Waiting(o.id) /\ timer' = timer
      BY <1>2 DEF vars, At, Waiting
    <3>2. Waiting(o.id) /\ ~RunsAtOnce(timer[o.id].interval) /\ OnTrack(v, j, o)
      BY <3>1 DEF WheelInv, NodesInv
    <3> QED
      BY <2>3, <3>1, <3>2
  <2> QED
    BY <2>1, <2>2, <2>4 DEF WheelInv
<1> QED
  BY <1>1, <1>2

\* The invariant holds in every reachable state.
LEMMA WheelInvariant == Spec => []WheelInv
<1> QED
  BY InitWheelInv, NextWheelInv, PTL DEF Spec

-----------------------------------------------------------------------------
(* The theorems.                                                           *)

\* The wheels keep their slots and hold nodes only, for every size of the wheels.
THEOREM WheelTypeCorrect == Spec => []TypeOK
<1>1. ASSUME WheelInv PROVE TypeOK
  <2>1. \A w \in Wheels : m_wheels[w] \in [1 .. WheelSize[w] -> SUBSET Nodes] /\ WheelSize[w] \in Nat
    BY <1>1, Sizes DEF WheelInv, WheelsInv
  <2>2. \A n \in Nodes : IsNode(n)
    BY DEF Nodes, IsNode, D
  <2>3. ASSUME NEW w \in Wheels
        PROVE  /\ Len(m_wheels[w]) = WheelSize[w]
               /\ \A i \in 1 .. WheelSize[w] : \A n \in m_wheels[w][i] : IsNode(n)
    BY <2>1, <2>2
  <2>4. DOMAIN m_wheels = Wheels /\ \A n \in tmp : IsNode(n)
    BY <1>1, <2>2 DEF WheelInv, WheelsInv
  <2> QED
    BY <1>1, <2>3, <2>4 DEF TypeOK, WheelInv, ValuesInv, TimerType
<1> QED
  BY <1>1, WheelInvariant, PTL

\* A place in the sense of the property is a spot of the invariant.
LEMMA PlacesAre ==
  ASSUME NEW id, NEW x
  PROVE  x \in Places(id) <=>
           \E w, i : /\ Spot(w, i)
                     /\ \E n \in At(w, i) : n.id = id /\ x = <<<<w, i>>, n>>
<1>1. ASSUME NEW p
      PROVE  p \in Slots <=> \E w, i : Spot(w, i) /\ p = <<w, i>>
  <2>1. p \in Slots <=> \/ \E w \in Wheels : \E i \in 1 .. WheelSize[w] : p = <<w, i>>
                        \/ p = <<"tmp", 0>>
    <3>1. p \in Slots <=> (\E w \in Wheels : p \in {w} \X (1 .. WheelSize[w])) \/ p = <<"tmp", 0>>
      <4> DEFINE Box(w) == {w} \X (1 .. WheelSize[w])
                 S == UNION {Box(w) : w \in Wheels}
      <4>1. Slots = {<<"tmp", 0>>} \cup S
        BY DEF Slots, TmpSlot
      <4> HIDE DEF Box
      <4>2. p \in S <=> \E w \in Wheels : p \in Box(w)
        OBVIOUS
      <4> HIDE DEF S
      <4> QED
        BY <4>1, <4>2 DEF Box
    <3>2. \A w : p \in {w} \X (1 .. WheelSize[w]) <=> \E i \in 1 .. WheelSize[w] : p = <<w, i>>
      OBVIOUS
    <3> QED
      BY <3>1, <3>2
  <2> QED
    BY <2>1 DEF Spot
<1>2. ASSUME NEW w, NEW i, Spot(w, i)
      PROVE  NodesIn(<<w, i>>) = At(w, i)
  <2>1. <<w, i>> = TmpSlot <=> w = "tmp"
    BY <1>2 DEF Spot, TmpSlot, Wheels
  <2> QED
    BY <2>1 DEF NodesIn, At
<1>3. x \in Places(id) <=> \E p \in Slots : \E n \in NodesIn(p) : n.id = id /\ x = <<p, n>>
  BY DEF Places
<1> QED
  BY <1>1, <1>2, <1>3

\* Whatever cascades and user calls interleave, a timer that waits has exactly one
\* node, one that does not wait has none, and a timer of runAfter runs once: for
\* every number of timers and every size of the wheels.
THEOREM TimersAreConserved == Spec => []TimersConserved
<1>1. ASSUME WheelInv PROVE TimersConserved
  <2> SUFFICES ASSUME NEW id \in Timers
               PROVE  /\ Waiting(id) /\ ~RunsAtOnce(timer[id].interval) => Cardinality(Places(id)) = 1
                      /\ ~Waiting(id) => Places(id) = {}
    BY <1>1 DEF TimersConserved, WheelInv, TimersInv, Waiting
  <2>1. ASSUME Waiting(id), ~RunsAtOnce(timer[id].interval)
        PROVE  Cardinality(Places(id)) = 1
    <3>1. PICK w, i : Spot(w, i) /\ \E n \in At(w, i) : n.id = id
      BY <1>1, <2>1 DEF WheelInv, ExistsInv
    <3>2. PICK n \in At(w, i) : n.id = id
      BY <3>1
    <3> DEFINE x == <<<<w, i>>, n>>
    <3>3. x \in Places(id)
      BY <3>1, <3>2, PlacesAre
    <3>4. ASSUME NEW y \in Places(id) PROVE y = x
      <4>1. PICK v, j : /\ Spot(v, j)
                        /\ \E m \in At(v, j) : m.id = id /\ y = <<<<v, j>>, m>>
        BY <3>4, PlacesAre
      <4> QED
        BY <1>1, <3>1, <3>2, <4>1 DEF WheelInv, UniqueInv
    <3>5. Places(id) = {x}
      BY <3>3, <3>4
    <3> QED
      BY <3>5, FS_Singleton
  <2>2. ASSUME ~Waiting(id) PROVE Places(id) = {}
    <3>1. ASSUME NEW y \in Places(id) PROVE FALSE
      <4>1. PICK v, j : Spot(v, j) /\ \E m \in At(v, j) : m.id = id
        BY <3>1, PlacesAre
      <4> QED
        BY <1>1, <2>2, <4>1 DEF WheelInv, NodesInv
    <3> QED
      BY <3>1
  <2> QED
    BY <2>1, <2>2
<1> QED
  BY <1>1, WheelInvariant, PTL

\* When a timer of less than an hour runs: its tick by the invariant is at most its
\* due time and less than a minute, or in one case a whole one, before it.
LEMMA RunTickIs ==
  ASSUME WheelInv, NEW id \in Timers, UpToAnHour(id)
  PROVE  LET t == timer[id]
             due == Due(id)
         IN  /\ due \in Int /\ RunTick(id) \in Int
             /\ RunTick(id) <= due
             /\ \/ RunTick(id) = due
                \/ t.interval >= M /\ RunTick(id) \in due - M + 1 .. due - 1
                \/ t.interval >= M /\ t.ahead /\ t.start % M = 0 /\ RunTick(id) = due - M
<1> DEFINE t == timer[id]
           d == t.interval
           s == t.start
           r == s % M
<1>1. t \in TimerType
  BY DEF WheelInv, ValuesInv
<1>2. d \in Delays \cup {0} /\ s \in Nat
  BY <1>1, TimerWheelAssumption DEF TimerType
<1>3. d \in Int /\ M \in Nat \ {0} /\ r \in 0 .. M - 1
  BY <1>2, UintIs, TurnIs
<1>4. RunTick(id) = (IF d < M THEN s ELSE s - r - (IF t.ahead /\ r = 0 THEN M ELSE 0)) + d
  BY DEF RunTick, StartTurn
<1>5. Due(id) = s + d
  BY DEF Due
<1> HIDE DEF d, s, r
<1>6. CASE d < M
  BY <1>2, <1>3, <1>4, <1>5, <1>6
<1>7. CASE ~(d < M)
  BY <1>2, <1>3, <1>4, <1>5, <1>7 DEF d, s, r
<1> QED
  BY <1>6, <1>7

\* No timer of less than an hour is forgotten: between two ticks, none that waits
\* is due, for every size of the wheels.
THEOREM NoneIsOverdue == Spec => []NoneOverdue
<1>1. ASSUME WheelInv, NEW id \in Timers, pc = "idle", Waiting(id), UpToAnHour(id)
      PROVE  m_tick < Due(id)
  <2>1. ~RunsAtOnce(timer[id].interval)
    <3>1. timer[id].interval \in Delays \cup {0} /\ Uint(timer[id].interval) \in 1 .. H - 1
      BY <1>1 DEF WheelInv, ValuesInv, TimerType, UpToAnHour, H
    <3> QED
      BY <3>1, ShortIsStored
  <2>2. PICK w, i : Spot(w, i) /\ \E n \in At(w, i) : n.id = id
    BY <1>1, <2>1 DEF WheelInv, ExistsInv
  <2>3. PICK n \in At(w, i) : n.id = id
    BY <2>2
  <2>4. w \in {"second", "minute", "tmp"} /\ NodeTick(w, i, n) = RunTick(id)
    BY <1>1, <2>2, <2>3 DEF WheelInv, NodesInv, OnTrack
  <2>5. w # "tmp"
    BY <1>1, <2>3 DEF At, WheelInv, PhaseInv
  <2>6. m_tick \in Nat /\ M \in Nat \ {0} /\ m_tick % M \in 0 .. M - 1
    BY <1>1, TurnIs, TimerWheelAssumption DEF WheelInv, ValuesInv
  <2>7. i \in Nat \ {0} /\ n.rest \in Nat
    <3>1. n \in Nodes
      BY <1>1, <2>2, <2>3 DEF Spot, At, Wheels, WheelInv, WheelsInv
    <3> QED
      BY <2>2, <2>5, <3>1, Sizes DEF Nodes, Spot
  <2>8. m_tick < NodeTick(w, i, n)
    <3>1. CASE w = "second"
      BY <2>6, <2>7, <3>1 DEF NodeTick
    <3>2. CASE w = "minute"
      <4>1. Turn = m_tick - (m_tick % M)
        BY <1>1, <2>6 DEF Turn
      <4>2. NodeTick(w, i, n) = Turn + i * M + n.rest
        BY <3>2 DEF NodeTick
      <4>3. i * M >= M
        BY <2>6, <2>7
      <4> QED
        BY <2>6, <2>7, <4>1, <4>2, <4>3
    <3> QED
      BY <2>4, <2>5, <3>1, <3>2
  <2> QED
    BY <1>1, <2>4, <2>6, <2>8, RunTickIs
<1>2. WheelInv => NoneOverdue
  BY <1>1 DEF NoneOverdue
<1> QED
  BY <1>2, WheelInvariant, PTL

\* A timer of less than an hour runs at its tick, or early by what the wheel of
\* minutes rounds off: for every size of the wheels and every interleaving.
THEOREM TimersRunOnTime == Spec => RunsOnTime
<1> DEFINE OnTimeStep ==
      \A id \in Timers :
       Waiting(id) /\ runs'[id] # runs[id] /\ UpToAnHour(id) =>
         \/ pc' = "destroyed"
         \/ m_tick = Due(id)
         \/ /\ timer[id].interval >= secondsPerMinute
            /\ m_tick \in Due(id) - secondsPerMinute + 1 .. Due(id) - 1
         \/ /\ timer[id].interval >= secondsPerMinute
            /\ timer[id].ahead /\ timer[id].start % secondsPerMinute = 0
            /\ m_tick = Due(id) - secondsPerMinute
<1>1. ASSUME WheelInv, [Next]_vars, NEW id \in Timers,
             Waiting(id), runs'[id] # runs[id], UpToAnHour(id), pc' # "destroyed"
      PROVE  pc # "overflow" /\ \E node \in tmp : node.id = id /\ node.rest = 0
  <2>1. Next
    BY <1>1 DEF vars
  <2>2. CASE Tick \/ PopCoarse \/ TickReturns
    BY <1>1, <2>2 DEF Tick, PopCoarse, TickReturns
  <2>3. CASE Destroy
    BY <1>1, <2>3 DEF Destroy
  <2>4. ASSUME NEW node \in tmp, Cascade(node) PROVE FALSE
    BY <1>1, <2>4 DEF Cascade
  <2>5. ASSUME NEW node \in tmp, Fire(node) PROVE node.id = id /\ node.rest = 0
    BY <1>1, <2>5 DEF Fire, WheelInv, ValuesInv
  <2>6. ASSUME NEW j \in Timers, NEW d \in Delays, runAfter(j, d) PROVE FALSE
    <3>1. j # id
      BY <1>1, <2>6 DEF runAfter, New, Waiting
    <3> QED
      BY <1>1, <2>6, <3>1 DEF runAfter, WheelInv, ValuesInv
  <2>7. ASSUME NEW j \in Timers, NEW d \in Delays, runEvery(j, d) PROVE FALSE
    BY <1>1, <2>7 DEF runEvery
  <2> QED
    BY <2>1, <2>2, <2>3, <2>4, <2>5, <2>6, <2>7 DEF Next, OnTime
<1>2. ASSUME WheelInv, [Next]_vars PROVE OnTimeStep
  <2> SUFFICES ASSUME NEW id \in Timers, Waiting(id), runs'[id] # runs[id], UpToAnHour(id),
                      pc' # "destroyed"
               PROVE  \/ m_tick = Due(id)
                      \/ /\ timer[id].interval >= M
                         /\ m_tick \in Due(id) - M + 1 .. Due(id) - 1
                      \/ /\ timer[id].interval >= M
                         /\ timer[id].ahead /\ timer[id].start % M = 0
                         /\ m_tick = Due(id) - M
    BY DEF M
  <2>1. PICK node \in tmp : pc # "overflow" /\ node.id = id /\ node.rest = 0
    BY <1>1, <1>2
  <2>2. NodeTick("tmp", 0, node) = RunTick(id)
    BY <1>2, <2>1, TmpNode DEF OnTrack
  <2>3. m_tick = RunTick(id)
    <3>1. m_tick \in Nat
      BY <1>2, TimerWheelAssumption DEF WheelInv, ValuesInv
    <3> QED
      BY <2>1, <2>2, <3>1 DEF NodeTick
  <2> QED
    BY <1>2, <2>3, RunTickIs
<1>3. WheelInv /\ [Next]_vars => [OnTimeStep]_vars
  BY <1>2
<1> QED
  BY <1>3, WheelInvariant, PTL DEF Spec, RunsOnTime
=============================================================================
