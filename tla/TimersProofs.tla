---------------------------- MODULE TimersProofs ----------------------------
(***************************************************************************)
(* Proofs about Timers: for any number of timers, descriptors, delays and  *)
(* threads, an id names its timer and no other, and the loop uses no timer *)
(* that is gone, unless it was told to in one of the two ways of misuse.   *)
(***************************************************************************)
EXTENDS Timers, SequenceTheorems, FiniteSetTheorems, WellFoundedInduction, TLAPS

TimerType ==
  [channel : {"none", "live", "deleted"}, every : BOOLEAN, promised : BOOLEAN,
   clock : {"off", "set", "expired"}, fd : Fds \cup {None}]

TypeInv ==
  /\ timer \in [Timers -> TimerType]
  /\ m_timerChannels \in [Fds -> Timers \cup {None}]
  /\ m_activeChannels \in Seq(Timers) /\ (pc = "task" => m_activeChannels # <<>>)
  /\ storing \in Timers \cup {None}

\* The timerfds that are open have numbers of their own.  That of a timer which another
\* thread has registered may have been closed, and given again, before it is stored.
FdInv ==
  /\ \A i \in Timers : Live(i) => timer[i].fd \in Fds
  /\ \A i, j \in Timers : Live(i) /\ Live(j) /\ timer[i].fd = timer[j].fd => i = j
  /\ storing # None => timer[storing].fd \in Fds /\ timer[storing].channel # "none"

\* The map has the live timers, each under its number, but for one that is being stored.
MapInv ==
  /\ \A i \in Timers : Live(i) => i = storing \/ m_timerChannels[timer[i].fd] = i
  /\ \A f \in Fds : m_timerChannels[f] # None =>
       Live(m_timerChannels[f]) /\ timer[m_timerChannels[f]].fd = f

\* What the loop has still to call is there, and called once: the task that runs deletes
\* its timer, so a second mention of it would be of a channel that is gone.
ReportInv ==
  /\ \A a \in 1 .. Len(m_activeChannels) : Live(m_activeChannels[a])
  /\ \A a, b \in 1 .. Len(m_activeChannels) : m_activeChannels[a] = m_activeChannels[b] => a = b

TimerInv ==
  /\ TypeInv /\ FdInv
  /\ misuse = {} => ~undefined /\ MapInv /\ ReportInv

\* timerfd_create finds the lowest descriptor.
LEMMA LowestIsFree ==
  ASSUME FreeFds # {}
  PROVE  (CHOOSE f \in FreeFds : \A g \in FreeFds : f <= g) \in FreeFds
<1> DEFINE S == FreeFds
<1>1. S \subseteq Nat
  BY TimersAssumption DEF FreeFds
<1>2. PICK f \in S : \A g \in S : <<g, f>> \notin OpToRel(<, Nat)
  BY <1>1, NatLessThanWellFounded, WFMin, Zenon
<1>3. \A g \in S : ~ (g < f)
  BY <1>1, <1>2, Zenon DEF OpToRel
<1>4. \A g \in S : f <= g
  BY <1>1, <1>3
<1> QED
  BY <1>4

\* A timer that is started gets a number that no other has.
LEMMA Registered ==
  ASSUME TimerInv, NEW i \in Timers, NEW every \in BOOLEAN, NEW delayMs, NEW wait,
         Registers(i, every, delayMs, wait)
  PROVE  /\ timer' \in [Timers -> TimerType]
         /\ timer'[i].fd \in Fds /\ ~Live(i) /\ Live(i)'
         /\ \A j \in Timers : Live(j) => timer[j].fd # timer'[i].fd
         /\ \A j \in Timers : j # i => timer'[j] = timer[j]
         /\ timer[i].channel = "none"
<1> DEFINE f == CHOOSE f \in FreeFds : \A g \in FreeFds : f <= g
           t == [channel |-> "live", every |-> every, promised |-> Promised(wait),
                 clock |-> createTimerFd(delayMs), fd |-> f]
<1>1. f \in FreeFds
  BY LowestIsFree DEF Registers
<1>2. f \in Fds /\ \A j \in Timers : Live(j) => timer[j].fd # f
  BY <1>1 DEF FreeFds
<1>3. timer' = [timer EXCEPT ![i] = t] /\ timer[i].channel = "none"
  BY DEF Registers
<1> HIDE DEF f
<1>4. t \in TimerType /\ t.fd = f /\ t.channel = "live"
  <2>1. createTimerFd(delayMs) \in {"off", "set"} /\ Promised(wait) \in BOOLEAN
    BY DEF createTimerFd, Promised
  <2> QED
    BY <1>2, <2>1 DEF TimerType
<1> HIDE DEF t
<1> QED
  BY <1>2, <1>3, <1>4 DEF TimerInv, TypeInv, Live

\* A timer that ends takes its number out of the map.
LEMMA Ended ==
  ASSUME TimerInv, NEW i \in Timers, Live(i), Deleted(i), storing' = storing
  PROVE  /\ timer' \in [Timers -> TimerType] /\ m_timerChannels' \in [Fds -> Timers \cup {None}]
         /\ FdInv' /\ (MapInv => MapInv')
         /\ \A j \in Timers : Live(j)' <=> Live(j) /\ j # i
<1>1. /\ timer' \in [Timers -> TimerType]
      /\ \A j \in Timers : timer'[j].fd = timer[j].fd
      /\ \A j \in Timers : timer'[j].channel = IF j = i THEN "deleted" ELSE timer[j].channel
  BY ZenonT(30) DEF Deleted, TimerInv, TypeInv, TimerType
<1>2. /\ m_timerChannels' \in [Fds -> Timers \cup {None}]
      /\ \A f \in Fds : m_timerChannels'[f] = IF f = timer[i].fd THEN None ELSE m_timerChannels[f]
  BY DEF Deleted, TimerInv, TypeInv
<1>3. \A j \in Timers : Live(j)' <=> Live(j) /\ j # i
  BY <1>1 DEF Live
<1>4. FdInv'
  BY <1>1, <1>3 DEF TimerInv, TypeInv, FdInv
<1>5. ASSUME MapInv PROVE MapInv'
  <2>1. ASSUME NEW j \in Timers, Live(j)' PROVE j = storing' \/ m_timerChannels'[timer'[j].fd] = j
    BY <1>1, <1>2, <1>3, <1>5, <2>1 DEF TimerInv, FdInv, MapInv
  <2>2. ASSUME NEW f \in Fds, m_timerChannels'[f] # None
        PROVE  Live(m_timerChannels[f])' /\ timer'[m_timerChannels'[f]].fd = f
               /\ m_timerChannels'[f] = m_timerChannels[f]
    <3>1. m_timerChannels'[f] = m_timerChannels[f] /\ f # timer[i].fd /\ m_timerChannels[f] \in Timers
      BY <1>2, <2>2 DEF TimerInv, TypeInv
    <3> QED
      BY <1>1, <1>3, <1>5, <2>2, <3>1 DEF MapInv, Live
  <2> QED
    BY <2>1, <2>2 DEF MapInv, Live
<1> QED
  BY <1>1, <1>2, <1>3, <1>4, <1>5

\* Timers that stay where they are.
LEMMA TimersStay ==
  ASSUME TimerInv, timer' \in [Timers -> TimerType],
         \A i \in Timers : timer'[i].channel = timer[i].channel /\ timer'[i].fd = timer[i].fd,
         UNCHANGED <<m_timerChannels, storing>>
  PROVE  FdInv' /\ (MapInv => MapInv')
<1>1. \A i \in Timers : Live(i)' <=> Live(i)
  BY DEF Live
<1>2. FdInv'
  BY <1>1 DEF TimerInv, TypeInv, FdInv
<1>3. ASSUME MapInv PROVE MapInv'
  BY <1>1, <1>3 DEF TimerInv, TypeInv, MapInv, Live
<1> QED
  BY <1>2, <1>3

\* The steps that start a timer, by the loop's thread or by another one.
LEMMA StartStep ==
  ASSUME TimerInv, ~undefined, NEW i \in Timers, Start(i)
  PROVE  TimerInv'
<1>1. PICK every \in BOOLEAN : \E delayMs, wait : Registers(i, every, delayMs, wait)
  BY DEF Start, RunAfter, RunEvery, RunAt, ThreadRegister
<1>2. /\ timer' \in [Timers -> TimerType]
      /\ timer'[i].fd \in Fds /\ ~Live(i) /\ Live(i)'
      /\ \A j \in Timers : Live(j) => timer[j].fd # timer'[i].fd
      /\ \A j \in Timers : j # i => timer'[j] = timer[j]
      /\ timer[i].channel = "none"
  BY <1>1, Registered
<1>3. UNCHANGED <<m_activeChannels, pc, undefined, misuse>>
  BY DEF Start, RunAfter, RunEvery, RunAt, ThreadRegister, StoresNow
<1>4. \/ m_timerChannels' = [m_timerChannels EXCEPT ![timer'[i].fd] = i] /\ storing' = storing
      \/ storing = None /\ storing' = i /\ m_timerChannels' = m_timerChannels
  BY DEF Start, RunAfter, RunEvery, RunAt, ThreadRegister, StoresNow
<1>5. \A j \in Timers : Live(j)' <=> Live(j) \/ j = i
  BY <1>2 DEF Live
<1>6. storing # i /\ i # None
  BY <1>2 DEF TimerInv, FdInv, None, Timers
<1>7. TypeInv'
  BY <1>2, <1>3, <1>4 DEF TimerInv, TypeInv
<1>8. FdInv'
  <2>1. storing' # None => timer'[storing'].fd \in Fds /\ timer'[storing'].channel # "none"
    BY <1>2, <1>4, <1>6 DEF TimerInv, TypeInv, FdInv, Live
  <2> QED
    BY <1>2, <1>5, <2>1 DEF TimerInv, FdInv
<1>9. ASSUME misuse' = {} PROVE ~undefined' /\ MapInv' /\ ReportInv'
  <2>1. ~undefined /\ MapInv /\ ReportInv
    BY <1>3, <1>9 DEF TimerInv
  <2>2. \A f \in Fds : m_timerChannels[f] # None => m_timerChannels[f] \in Timers \ {i} /\ f # timer'[i].fd
    BY <1>2, <2>1 DEF TimerInv, TypeInv, MapInv
  <2>3. MapInv'
    <3>1. ASSUME NEW j \in Timers, Live(j)' PROVE j = storing' \/ m_timerChannels'[timer'[j].fd] = j
      BY <1>2, <1>4, <1>5, <2>1, <3>1 DEF TimerInv, TypeInv, FdInv, MapInv
    <3>2. ASSUME NEW f \in Fds, m_timerChannels'[f] # None
          PROVE  timer'[m_timerChannels'[f]].channel = "live" /\ timer'[m_timerChannels'[f]].fd = f
      <4>1. CASE m_timerChannels'[f] = m_timerChannels[f]
        BY <1>2, <2>1, <2>2, <3>2, <4>1 DEF MapInv, Live
      <4>2. CASE f = timer'[i].fd /\ m_timerChannels'[f] = i
        BY <1>2, <4>2 DEF Live
      <4> QED
        BY <1>2, <1>4, <4>1, <4>2 DEF TimerInv, TypeInv
    <3> QED
      BY <3>1, <3>2 DEF MapInv, Live
  <2>4. ReportInv'
    BY <1>3, <1>5, <2>1 DEF ReportInv, TimerInv, TypeInv, Live
  <2> QED
    BY <1>3, <2>1, <2>3, <2>4
<1> QED
  BY <1>7, <1>8, <1>9 DEF TimerInv

\* The store that another thread's call ends with: of a timer that is still there, or too late.
LEMMA StoreStep ==
  ASSUME TimerInv, ~undefined, ThreadStore
  PROVE  TimerInv'
<1>1. /\ storing # None /\ storing' = None
      /\ m_timerChannels' = [m_timerChannels EXCEPT ![timer[storing].fd] = storing]
      /\ misuse' = IF Live(storing) THEN misuse ELSE misuse \cup {"storedLate"}
      /\ UNCHANGED <<timer, m_activeChannels, pc, undefined>>
  BY DEF ThreadStore
<1>2. \A i \in Timers : Live(i)' <=> Live(i)
  BY <1>1 DEF Live
<1>3. TypeInv' /\ FdInv'
  BY <1>1, <1>2 DEF TimerInv, TypeInv, FdInv
<1>4. ASSUME misuse' = {} PROVE ~undefined' /\ MapInv' /\ ReportInv'
  <2>1. ~undefined /\ MapInv /\ ReportInv /\ Live(storing) /\ storing \in Timers
    BY <1>1, <1>4 DEF TimerInv, TypeInv
  <2>2. /\ m_timerChannels'[timer[storing].fd] = storing
        /\ \A f \in Fds : f # timer[storing].fd => m_timerChannels'[f] = m_timerChannels[f]
    BY <1>1, <2>1 DEF TimerInv, TypeInv, FdInv
  <2>3. ASSUME NEW i \in Timers, Live(i) PROVE m_timerChannels'[timer[i].fd] = i
    BY <2>1, <2>2, <2>3 DEF TimerInv, FdInv, MapInv
  <2>4. ASSUME NEW f \in Fds, m_timerChannels'[f] # None
        PROVE  Live(m_timerChannels'[f]) /\ timer[m_timerChannels'[f]].fd = f
    BY <2>1, <2>2, <2>4 DEF MapInv
  <2>5. MapInv'
    BY <1>1, <1>2, <2>3, <2>4 DEF MapInv, Live
  <2>6. ReportInv'
    BY <1>1, <2>1 DEF ReportInv, Live
  <2> QED
    BY <1>1, <2>1, <2>5, <2>6
<1> QED
  BY <1>3, <1>4 DEF TimerInv

\* cancel: it deletes the timer that has the id, which the last poll may have reported.
LEMMA CancelStep ==
  ASSUME TimerInv, ~undefined, NEW f \in Fds, Cancel(f)
  PROVE  TimerInv'
<1> DEFINE i == m_timerChannels[f]
<1>1. i \in Timers /\ UNCHANGED <<m_activeChannels, pc, storing>>
  BY DEF Cancel, TimerInv, TypeInv
<1>2. CASE Live(i)
  <2>1. /\ Deleted(i) /\ undefined' = undefined
        /\ misuse' = IF i \in Range(m_activeChannels)
                       THEN misuse \cup {"cancelledReported"} ELSE misuse
    BY <1>2 DEF Cancel
  <2> HIDE DEF i
  <2>2. /\ timer' \in [Timers -> TimerType] /\ m_timerChannels' \in [Fds -> Timers \cup {None}]
        /\ FdInv' /\ (MapInv => MapInv')
        /\ \A j \in Timers : Live(j)' <=> Live(j) /\ j # i
    BY <1>1, <1>2, <2>1, Ended
  <2>3. ASSUME misuse' = {} PROVE ~undefined' /\ MapInv' /\ ReportInv'
    <3>1. ~undefined /\ MapInv /\ ReportInv /\ i \notin Range(m_activeChannels)
      BY <2>1, <2>3 DEF TimerInv
    <3>2. \A a \in 1 .. Len(m_activeChannels) : m_activeChannels[a] \in Timers \ {i}
      BY <3>1 DEF TimerInv, TypeInv, Range
    <3>3. ReportInv'
      BY <1>1, <2>2, <3>1, <3>2 DEF ReportInv, Live
    <3> QED
      BY <2>1, <2>2, <3>1, <3>3
  <2>4. TypeInv'
    BY <1>1, <2>2 DEF TimerInv, TypeInv
  <2> QED
    BY <2>2, <2>3, <2>4 DEF TimerInv
<1>3. CASE ~Live(i)
  <2>1. UNCHANGED <<timer, m_timerChannels, misuse>>
    BY <1>3 DEF Cancel
  <2>2. misuse # {}
    BY <1>1, <1>3 DEF Cancel, TimerInv, MapInv
  <2> QED
    BY <1>1, <2>1, <2>2 DEF TimerInv, TypeInv, FdInv, Live
<1> QED
  BY <1>2, <1>3

\* Time passes for a timer.
LEMMA ExpireStep ==
  ASSUME TimerInv, ~undefined, NEW i \in Timers, Expire(i)
  PROVE  TimerInv'
<1>1. /\ timer' \in [Timers -> TimerType]
      /\ \A j \in Timers : timer'[j].channel = timer[j].channel /\ timer'[j].fd = timer[j].fd
  BY DEF Expire, TimerInv, TypeInv, TimerType
<1>2. UNCHANGED <<m_timerChannels, m_activeChannels, pc, storing, undefined, misuse>>
  BY DEF Expire
<1>3. FdInv' /\ (MapInv => MapInv') /\ TypeInv'
  BY <1>1, <1>2, TimersStay DEF TimerInv, TypeInv
<1>4. ReportInv => ReportInv'
  BY <1>1, <1>2 DEF ReportInv, Live, TimerInv, TypeInv
<1> QED
  BY <1>2, <1>3, <1>4 DEF TimerInv

\* A poll reports each expired timer once.
LEMMA PollStep ==
  ASSUME TimerInv, ~undefined, Poll
  PROVE  TimerInv'
<1> DEFINE n == Cardinality(Expired)
<1>1. n \in Nat
  <2>1. IsFiniteSet(Timers) /\ Expired \subseteq Timers
    BY TimersAssumption, FS_Interval DEF Timers, Expired
  <2> QED
    BY <2>1, FS_Subset, FS_CardinalityType
<1> HIDE DEF n
<1>2. /\ m_activeChannels' \in [1 .. n -> Expired]
      /\ \A a, b \in 1 .. n : a # b => m_activeChannels'[a] # m_activeChannels'[b]
  BY DEF Poll, SetToSeqs, n
<1>3. m_activeChannels' \in Seq(Expired) /\ Len(m_activeChannels') = n
  BY <1>1, <1>2
<1>4. \A a \in 1 .. n : m_activeChannels'[a] \in Timers /\ Live(m_activeChannels'[a])
  BY <1>2 DEF Expired
<1>5. m_activeChannels' \in Seq(Timers)
  BY <1>1, <1>2, <1>3, <1>4
<1>6. UNCHANGED <<timer, m_timerChannels, storing, undefined, misuse>> /\ pc' = "dispatch"
  BY DEF Poll
<1>7. TypeInv' /\ FdInv' /\ (MapInv => MapInv')
  BY <1>5, <1>6 DEF TimerInv, TypeInv, FdInv, MapInv, Live
<1>8. ReportInv'
  BY <1>2, <1>3, <1>4, <1>6 DEF ReportInv, Live
<1> QED
  BY <1>6, <1>7, <1>8 DEF TimerInv

\* The loop calls the first task that is left.
LEMMA HandleStep ==
  ASSUME TimerInv, ~undefined, HandleTimer
  PROVE  TimerInv'
<1> DEFINE i == Head(m_activeChannels)
<1>1. m_activeChannels # <<>> /\ UNCHANGED <<m_timerChannels, m_activeChannels, storing, misuse>>
  BY DEF HandleTimer
<1>2. i = m_activeChannels[1] /\ 1 \in 1 .. Len(m_activeChannels) /\ i \in Timers
  BY <1>1, HeadTailProperties, EmptySeq DEF TimerInv, TypeInv
<1>3. CASE Live(i)
  <2>1. /\ pc' = "task" /\ undefined' = undefined
        /\ timer' = [timer EXCEPT ![i].clock = IF timer[i].every THEN "set" ELSE "off"]
    BY <1>3 DEF HandleTimer
  <2> HIDE DEF i
  <2>2. /\ timer' \in [Timers -> TimerType]
        /\ \A j \in Timers : timer'[j].channel = timer[j].channel /\ timer'[j].fd = timer[j].fd
    BY <1>2, <2>1 DEF TimerInv, TypeInv, TimerType
  <2>3. FdInv' /\ (MapInv => MapInv') /\ TypeInv'
    BY <1>1, <2>2, TimersStay DEF TimerInv, TypeInv
  <2>4. ReportInv => ReportInv'
    BY <1>1, <2>1, <2>2 DEF ReportInv, Live, TimerInv, TypeInv
  <2> QED
    BY <1>1, <2>1, <2>3, <2>4 DEF TimerInv
<1>4. CASE ~Live(i)
  <2>1. timer' = timer /\ pc' = pc
    BY <1>4 DEF HandleTimer
  <2>2. misuse # {}
    BY <1>2, <1>4 DEF TimerInv, ReportInv
  <2> QED
    BY <1>1, <2>1, <2>2 DEF TimerInv, TypeInv, FdInv, Live
<1> QED
  BY <1>3, <1>4

\* A task returns: its timer ends with it, or waits for the next time.
LEMMA ReturnStep ==
  ASSUME TimerInv, ~undefined, TaskReturns
  PROVE  TimerInv'
<1> DEFINE i == Head(m_activeChannels)
           n == Len(m_activeChannels)
           rest == Tail(m_activeChannels)
<1>1. /\ pc' = "dispatch" /\ m_activeChannels' = rest /\ UNCHANGED <<storing, misuse>> /\ pc = "task"
  BY DEF TaskReturns
<1>2. m_activeChannels # <<>> /\ m_activeChannels \in Seq(Timers)
  BY <1>1 DEF TimerInv, TypeInv
<1>3. /\ i = m_activeChannels[1] /\ n \in Nat \ {0} /\ i \in Timers
      /\ rest \in Seq(Timers) /\ Len(rest) = n - 1
      /\ \A a \in 1 .. n - 1 : rest[a] = m_activeChannels[a + 1]
  BY <1>2, HeadTailProperties, EmptySeq, LenProperties
<1>4. ReportInv => /\ Live(i)
                   /\ \A a \in 1 .. n - 1 : rest[a] \in Timers \ {i} /\ Live(rest[a])
                   /\ \A a, b \in 1 .. n - 1 : rest[a] = rest[b] => a = b
  <2>1. \A a \in 1 .. n - 1 : /\ a + 1 \in 1 .. n /\ 1 \in 1 .. n
                              /\ rest[a] = m_activeChannels[a + 1] /\ m_activeChannels[a + 1] \in Timers
    BY <1>2, <1>3
  <2>2. ReportInv => /\ \A a \in 1 .. n : Live(m_activeChannels[a])
                     /\ \A a, b \in 1 .. n : m_activeChannels[a] = m_activeChannels[b] => a = b
    BY DEF ReportInv
  <2>3. i = m_activeChannels[1] /\ n \in Nat \ {0}
    BY <1>3
  <2> HIDE DEF rest, n, i
  <2>4. ASSUME ReportInv, NEW a \in 1 .. n - 1 PROVE rest[a] \in Timers \ {i} /\ Live(rest[a])
    <3>1. a + 1 # 1
      BY <2>3
    <3> QED
      BY <2>1, <2>2, <2>3, <2>4, <3>1
  <2>5. ASSUME ReportInv, NEW a \in 1 .. n - 1, NEW b \in 1 .. n - 1, rest[a] = rest[b] PROVE a = b
    <3>1. a + 1 = b + 1
      BY <2>1, <2>2, <2>5
    <3> QED
      BY <2>3, <3>1
  <2>6. ReportInv => Live(i)
    BY <2>2, <2>3
  <2> QED
    BY <2>4, <2>5, <2>6
<1>5. Len(rest) = n - 1
  BY <1>3
<1> HIDE DEF rest, n, i
<1>6. CASE Live(i)
  <2>1. /\ IF timer[i].every THEN UNCHANGED <<timer, m_timerChannels>> ELSE Deleted(i)
        /\ undefined' = undefined
    BY <1>6 DEF TaskReturns, i
  <2>2. /\ timer' \in [Timers -> TimerType] /\ m_timerChannels' \in [Fds -> Timers \cup {None}]
        /\ FdInv' /\ (MapInv => MapInv') /\ \A j \in Timers : j # i => (Live(j)' <=> Live(j))
    <3>1. CASE timer[i].every
      BY <1>1, <2>1, <3>1 DEF TimerInv, TypeInv, FdInv, MapInv, Live
    <3>2. CASE ~timer[i].every
      BY <1>1, <1>3, <1>6, <2>1, <3>2, Ended
    <3> QED
      BY <3>1, <3>2
  <2>3. TypeInv'
    BY <1>1, <1>3, <2>2 DEF TimerInv, TypeInv
  <2>4. ReportInv => ReportInv'
    BY <1>1, <1>4, <1>5, <2>2 DEF ReportInv, Live
  <2> QED
    BY <1>1, <2>1, <2>2, <2>3, <2>4 DEF TimerInv
<1>7. CASE ~Live(i)
  <2>1. timer' = timer /\ m_timerChannels' = m_timerChannels
    BY <1>7 DEF TaskReturns, i
  <2>2. misuse # {}
    BY <1>4, <1>7 DEF TimerInv
  <2> QED
    BY <1>1, <1>3, <2>1, <2>2 DEF TimerInv, TypeInv, FdInv, Live
<1> QED
  BY <1>6, <1>7

\* Every step keeps the invariant.
LEMMA TimerStep ==
  ASSUME TimerInv, [Next]_vars
  PROVE  TimerInv'
<1>1. CASE UNCHANGED vars
  BY <1>1 DEF vars, TimerInv, TypeInv, FdInv, MapInv, ReportInv, Live
<1>2. CASE ~undefined /\ EndDispatch
  BY <1>2 DEF EndDispatch, TimerInv, TypeInv, FdInv, MapInv, ReportInv, Live
<1> QED
  BY <1>1, <1>2, StartStep, StoreStep, CancelStep, ExpireStep, PollStep, HandleStep, ReturnStep
  DEF Next, LoopStep

\* However often a number is given again, an id leads to the timer it was given for as long
\* as that is there, and the loop uses no timer that was deleted, unless a timer that the
\* last poll has reported is cancelled or a thread stores one that has already ended.
THEOREM IdsAreTheirTimers == Spec => []IdsNameTheirTimers
<1>1. Init => TimerInv
  <2> SUFFICES ASSUME Init PROVE TimerInv
    OBVIOUS
  <2>1. TypeInv
    BY DEF Init, TypeInv, TimerType, None
  <2> QED
    BY <2>1 DEF Init, TimerInv, FdInv, MapInv, ReportInv, Live, None
<1>2. TimerInv /\ [Next]_vars => TimerInv'
  BY TimerStep
<1>3. TimerInv => IdsNameTheirTimers
  BY DEF TimerInv, MapInv, IdsNameTheirTimers
<1> QED
  BY <1>1, <1>2, <1>3, PTL DEF Spec
=============================================================================
