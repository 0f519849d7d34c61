----------------------------- MODULE TimerWheel -----------------------------
(***************************************************************************)
(* The hierarchical timer wheel of src/src/net/TimerWheel.cpp: four wheels *)
(* of slots, a tick (onTime) every second, and nodes whose destruction     *)
(* runs their task or inserts them into a finer wheel.                     *)
(*                                                                         *)
(* A node is a record: the timer it belongs to and the seconds it still    *)
(* has to wait when its slot is popped (the argument of the insertNode its *)
(* task calls; 0 for a node whose task is the user's).  A tick takes       *)
(* several steps because the tasks of a popped slot are user code, which   *)
(* may start timers while the wheels are half way through the tick:        *)
(*   "idle"    between two calls of onTime                                 *)
(*   "second"  the nodes of the popped second slot are being destroyed     *)
(*   "coarse"  the nodes of the popped minute, hour or day slot are        *)
(*   "overflow" an insertion recursed without end (see runEvery)           *)
(*   "destroyed" the wheel is gone, "undefined" it was used while it went  *)
(***************************************************************************)
EXTENDS Integers, Sequences, FiniteSets, SequencesExt

CONSTANTS
  Timers,                    \* the calls of runAfter and runEvery
  Delays,                    \* their int arguments, in seconds
  secondsPerMinute, secondsPerHour, secondsPerDay,
  MaxDays,                   \* the slots of the day wheel, and the 30 of insertNode
  UintRange,                 \* 2^32: an int argument is converted to uint32_t
  MaxTick                    \* bound: the ticks explored

ASSUME TimerWheelAssumption ==
  /\ Delays \subseteq Int
  /\ secondsPerMinute \in Nat \ {0}
  /\ secondsPerHour \in Nat \ {0} /\ secondsPerHour % secondsPerMinute = 0
  /\ secondsPerDay \in Nat \ {0} /\ secondsPerDay % secondsPerHour = 0
  /\ MaxDays \in Nat \ {0}
  /\ UintRange \in Nat /\ secondsPerHour <= UintRange \div 2
  /\ \A d \in Delays : d \in -(UintRange \div 2) .. UintRange \div 2 - 1
  /\ MaxTick \in Nat

VARIABLES
  m_wheels,   \* for each wheel its deque of slots, a slot being a set of nodes
  m_tick,
  pc,         \* the phase of onTime
  tmp,        \* the nodes of the popped slot not destroyed yet (tmp of popUp)
  inTask,     \* whether a user task is running
  timer,      \* of each timer: its interval, whether it repeats, when it was started
  runs        \* history: how often each timer's task ran

vars == <<m_wheels, m_tick, pc, tmp, inTask, timer, runs>>

Wheels == {"second", "minute", "hour", "day"}

WheelSize == [second |-> secondsPerMinute,
              minute |-> secondsPerHour \div secondsPerMinute,
              hour   |-> secondsPerDay \div secondsPerHour,
              day    |-> MaxDays]

\* The conversion of an int to the uint32_t that insertNode takes.
Uint(d) == d % UintRange

\* An interval insertNode stores nowhere (0, negative or above the maximum): the
\* node is destroyed on the spot, and its task runs.
RunsAtOnce(d) ==
  Uint(d) = 0 \/ Uint(d) \div secondsPerDay > MaxDays

-----------------------------------------------------------------------------
(* Insertion.                                                              *)

Put(w, i, node) == [m_wheels EXCEPT ![w][i] = @ \cup {node}]

\* Mutant: the slot index is not shifted by one.
insertSecondNodeShifted(delay, id) == Put("second", delay + 1, [id |-> id, rest |-> 0])

insertSecondNode(delay, id) == Put("second", delay, [id |-> id, rest |-> 0])

\* Mutant: the seconds left over after the last full minute are dropped.
insertMinuteNodeTruncated(delay, id) ==
  Put("minute", delay \div secondsPerMinute, [id |-> id, rest |-> 0])

insertMinuteNode(delay, id) ==
  Put("minute", delay \div secondsPerMinute,
      [id |-> id, rest |-> delay % secondsPerMinute])

insertHourNode(delay, id) ==
  Put("hour", delay \div secondsPerHour, [id |-> id, rest |-> delay % secondsPerHour])

insertDayNode(delay, id) ==
  Put("day", delay \div secondsPerDay, [id |-> id, rest |-> delay % secondsPerDay])

\* insertNode for a delay it stores: the wheels afterwards.
insertNode(delay, id) ==
  CASE delay < secondsPerMinute -> insertSecondNode(delay, id)
    [] delay \in secondsPerMinute .. secondsPerHour - 1 -> insertMinuteNode(delay, id)
    [] delay \in secondsPerHour .. secondsPerDay - 1 -> insertHourNode(delay, id)
    [] OTHER -> insertDayNode(delay, id)

-----------------------------------------------------------------------------
(* Calls of the user, between two ticks or from a task.                    *)

MayCall == pc = "idle" \/ inTask

New(id) == timer[id].state = "new"

\* Where an interval starts: at which tick, and whether the minute wheel of this
\* very tick is still to be popped.
Started(d, every) ==
  [state |-> "waiting", interval |-> d, every |-> every, start |-> m_tick,
   ahead |-> pc = "second"]

runAfter(id, d) ==
  /\ MayCall
  /\ New(id)
  /\ IF RunsAtOnce(d)
       THEN /\ runs' = [runs EXCEPT ![id] = @ + 1]
            /\ timer' = [timer EXCEPT ![id] = [Started(d, FALSE) EXCEPT !.state = "done"]]
            /\ UNCHANGED m_wheels
       ELSE /\ m_wheels' = insertNode(Uint(d), id)
            /\ timer' = [timer EXCEPT ![id] = Started(d, FALSE)]
            /\ UNCHANGED runs
  /\ UNCHANGED <<m_tick, pc, tmp, inTask>>

\* A repeating timer whose node is destroyed at once runs its task and inserts
\* itself again, in the same call and without end.
runEvery(id, d) ==
  /\ MayCall
  /\ New(id)
  /\ timer' = [timer EXCEPT ![id] = Started(d, TRUE)]
  /\ IF RunsAtOnce(d)
       THEN pc' = "overflow" /\ UNCHANGED m_wheels
       ELSE m_wheels' = insertNode(Uint(d), id) /\ UNCHANGED pc
  /\ UNCHANGED <<m_tick, tmp, inTask, runs>>

-----------------------------------------------------------------------------
(* onTime.                                                                 *)

\* popUp: the front slot is taken and an empty one joins at the back.
Popped(w) == [m_wheels EXCEPT ![w] = Append(Tail(@), {})]

Tick ==
  /\ pc = "idle"
  /\ m_tick < MaxTick
  /\ m_tick' = m_tick + 1
  /\ pc' = "second"
  /\ tmp' = Head(m_wheels["second"])
  /\ m_wheels' = Popped("second")
  /\ UNCHANGED <<inTask, timer, runs>>

\* The else-if chain of onTime.  Its second and third branch are never taken: a
\* tick that is a multiple of an hour or a day is one of a minute too.
CoarseWheel ==
  CASE m_tick % secondsPerMinute = 0 -> "minute"
    [] m_tick % secondsPerMinute # 0 /\ m_tick % secondsPerHour = 0 -> "hour"
    [] m_tick % secondsPerMinute # 0 /\ m_tick % secondsPerHour # 0
         /\ m_tick % secondsPerDay = 0 -> "day"
    [] OTHER -> "none"

\* The second slot is done: pop the wheel whose turn it is, or return.
PopCoarse ==
  /\ pc = "second"
  /\ tmp = {}
  /\ inTask' = FALSE
  /\ IF CoarseWheel = "none"
       THEN pc' = "idle" /\ UNCHANGED <<tmp, m_wheels>>
       ELSE /\ pc' = "coarse"
            /\ tmp' = Head(m_wheels[CoarseWheel])
            /\ m_wheels' = Popped(CoarseWheel)
  /\ UNCHANGED <<m_tick, timer, runs>>

TickReturns ==
  /\ pc = "coarse"
  /\ tmp = {}
  /\ pc' = "idle"
  /\ inTask' = FALSE
  /\ UNCHANGED <<m_wheels, m_tick, tmp, timer, runs>>

\* A node with seconds left goes into a finer wheel.
Cascade(node) ==
  /\ node \in tmp
  /\ node.rest # 0
  /\ tmp' = tmp \ {node}
  /\ m_wheels' = insertNode(node.rest, node.id)
  /\ inTask' = FALSE
  /\ UNCHANGED <<m_tick, pc, timer, runs>>

\* Mutant: the task of runEvery does not call runEvery again.
FireOnce(node) ==
  /\ node \in tmp
  /\ node.rest = 0
  /\ tmp' = tmp \ {node}
  /\ inTask' = TRUE
  /\ runs' = [runs EXCEPT ![node.id] = @ + 1]
  /\ timer' = [timer EXCEPT ![node.id].state = "done"]
  /\ UNCHANGED <<m_tick, pc, m_wheels>>

\* A node with none left runs the user's task; a repeating timer is then inserted
\* again with its whole interval.
Fire(node) ==
  /\ node \in tmp
  /\ node.rest = 0
  /\ tmp' = tmp \ {node}
  /\ inTask' = TRUE
  /\ runs' = [runs EXCEPT ![node.id] = @ + 1]
  /\ LET d == timer[node.id].interval
     IN  IF timer[node.id].every
           THEN /\ m_wheels' = insertNode(Uint(d), node.id)
                /\ timer' = [timer EXCEPT ![node.id] = Started(d, TRUE)]
           ELSE /\ timer' = [timer EXCEPT ![node.id].state = "done"]
                /\ UNCHANGED m_wheels
  /\ UNCHANGED <<m_tick, pc>>

-----------------------------------------------------------------------------
(* ~TimerWheel, between two ticks.                                         *)

Waiting(id) == timer[id].state = "waiting"

\* A node whose destruction inserts into the wheels that are being destroyed.
UsesWheels(node) == node.rest # 0 \/ timer[node.id].every

\* The wheels destroy their nodes, and each node left runs its task.
Destroy ==
  /\ pc = "idle"
  /\ IF \E w \in Wheels : \E i \in 1 .. WheelSize[w] : \E n \in m_wheels[w][i] : UsesWheels(n)
       THEN pc' = "undefined" /\ UNCHANGED <<m_wheels, timer, runs>>
       ELSE /\ pc' = "destroyed"
            /\ m_wheels' = [w \in Wheels |-> [i \in 1 .. WheelSize[w] |-> {}]]
            /\ runs' = [id \in Timers |-> IF Waiting(id) THEN runs[id] + 1 ELSE runs[id]]
            /\ timer' = [id \in Timers |-> IF Waiting(id) THEN [timer[id] EXCEPT !.state = "done"]
                                                          ELSE timer[id]]
  /\ UNCHANGED <<m_tick, tmp, inTask>>

-----------------------------------------------------------------------------
Init ==
  /\ m_wheels = [w \in Wheels |-> [i \in 1 .. WheelSize[w] |-> {}]]
  /\ m_tick = 0
  /\ pc = "idle"
  /\ tmp = {}
  /\ inTask = FALSE
  /\ timer = [id \in Timers |-> [state |-> "new", interval |-> 0, every |-> FALSE,
                                 start |-> 0, ahead |-> FALSE]]
  /\ runs = [id \in Timers |-> 0]

OnTime ==
  \/ Tick \/ PopCoarse \/ TickReturns
  \/ \E node \in tmp : Cascade(node) \/ Fire(node)

\* An overflow of the stack ends the program.
Next ==
  /\ pc # "overflow"
  /\ \/ OnTime \/ Destroy
     \/ \E id \in Timers, d \in Delays : runAfter(id, d) \/ runEvery(id, d)

Spec == Init /\ [][Next]_vars

-----------------------------------------------------------------------------
(* Properties.                                                             *)

IsNode(n) == n.id \in Timers /\ n.rest \in 0 .. secondsPerDay - 1

\* The wheels keep their number of slots, and only nodes are in them.
TypeOK ==
  /\ DOMAIN m_wheels = Wheels
  /\ \A w \in Wheels :
       /\ Len(m_wheels[w]) = WheelSize[w]
       /\ \A i \in 1 .. WheelSize[w] : \A n \in m_wheels[w][i] : IsNode(n)
  /\ m_tick \in 0 .. MaxTick
  /\ pc \in {"idle", "second", "coarse", "overflow", "destroyed", "undefined"}
  /\ \A n \in tmp : IsNode(n)
  /\ inTask \in BOOLEAN
  /\ timer \in [Timers -> [state : {"new", "waiting", "done"}, interval : Delays \cup {0},
                           every : BOOLEAN, start : 0 .. MaxTick, ahead : BOOLEAN]]
  /\ runs \in [Timers -> Nat]

\* Where nodes can be: a slot of a wheel, or the slot being destroyed.
TmpSlot == <<"tmp", 0>>
Slots == {TmpSlot} \cup UNION {{w} \X (1 .. WheelSize[w]) : w \in Wheels}
NodesIn(p) == IF p = TmpSlot THEN tmp ELSE m_wheels[p[1]][p[2]]

Places(id) == UNION {{<<p, n>> : n \in {m \in NodesIn(p) : m.id = id}} : p \in Slots}

\* Each timer is in one place: a timer that waits has exactly one node, in one
\* slot of one wheel or in the slot being destroyed, whatever cascades and user
\* calls interleave; a timer that does not wait has none.  One started by runAfter
\* has run once when it is done, be it at the destruction of the wheel; one started
\* by runEvery is never done.
TimersConserved ==
  \A id \in Timers :
    /\ Waiting(id) /\ ~RunsAtOnce(timer[id].interval) => Cardinality(Places(id)) = 1
    /\ ~Waiting(id) => Places(id) = {}
    /\ ~timer[id].every => runs[id] = (IF timer[id].state = "done" THEN 1 ELSE 0)
    /\ timer[id].every => timer[id].state = "waiting"

Due(id) == timer[id].start + timer[id].interval

UpToAnHour(id) == Uint(timer[id].interval) \in 1 .. secondsPerHour - 1

\* A timer of less than an hour is never forgotten: between two ticks, none that
\* waits is due, although a minute timer changes wheels on its way.
NoneOverdue ==
  \A id \in Timers : pc = "idle" /\ Waiting(id) /\ UpToAnHour(id) => m_tick < Due(id)

\* When such a timer runs before the wheel is destroyed, it runs on time: at its very tick if the interval is
\* below a minute, and otherwise less than a minute early, or a whole minute if a
\* task of the second slot started it just before the minute wheel was popped.
RunsOnTime ==
  [][\A id \in Timers :
       Waiting(id) /\ runs'[id] # runs[id] /\ UpToAnHour(id) =>
         \/ pc' = "destroyed"
         \/ m_tick = Due(id)
         \/ /\ timer[id].interval >= secondsPerMinute
            /\ m_tick \in Due(id) - secondsPerMinute + 1 .. Due(id) - 1
         \/ /\ timer[id].interval >= secondsPerMinute
            /\ timer[id].ahead /\ timer[id].start % secondsPerMinute = 0
            /\ m_tick = Due(id) - secondsPerMinute]_vars

\* What insertNode says when it refuses an interval, max timer interval is 30 days:
\* up to that maximum a timer runs by the time it is due.
MaximumIntervalServed ==
  \A id \in Timers :
    /\ pc = "idle"
    /\ Waiting(id)
    /\ timer[id].interval \in 1 .. MaxDays * secondsPerDay
    => m_tick < Due(id)
=============================================================================
