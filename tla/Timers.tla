------------------------------- MODULE Timers -------------------------------
(***************************************************************************)
(* The timers of src/src/net/EventLoop.cpp: runAt, runAfter, runEvery and  *)
(* cancel.  A timer is a Channel of its own on a timerfd; the number of    *)
(* the timerfd is the id that cancel takes, and m_timerChannels the map    *)
(* from it to the Channel.  ~Channel closes the timerfd, so that the next  *)
(* timer may get the same id.                                              *)
(*                                                                         *)
(* The loop thread is at                                                   *)
(*   "idle"      between two polls                                         *)
(*   "dispatch"  in loop(), among the channels the last poll reported      *)
(*   "task"      in the task of the first of them that is left             *)
(* User code runs at all three: in functors, in callbacks of channels that *)
(* are not timers, and in tasks.  Nothing keeps other threads from calling *)
(* these functions, and src/src/test/TcpClientTest.cpp does.  That two     *)
(* threads inside the same map at once may break it is left out.           *)
(***************************************************************************)
EXTENDS Integers, Sequences, FiniteSets, SequencesExt

CONSTANTS
  Fds,            \* the numbers timerfds may have
  MaxTimers,      \* bound: timers started
  Delays,         \* delays given to runAfter and runEvery, in milliseconds
  Waits,          \* of runAt: the time given less the time now, in microseconds
  MicrosPerMilli, \* 1000 in the code
  IntMax          \* the largest int

ASSUME TimersAssumption ==
  /\ Fds \subseteq Nat \ {0}
  /\ MaxTimers \in Nat /\ MicrosPerMilli \in Nat \ {0} /\ IntMax \in Nat
  /\ Delays \subseteq -(IntMax + 1) .. IntMax
  /\ Waits \subseteq Int

VARIABLES
  timer,            \* of each timer: its Channel, descriptor, timerfd and what was asked
  m_timerChannels,
  m_activeChannels,
  pc,
  storing,          \* another thread: the timer it has registered and not stored yet, or None
  undefined,        \* history: a Channel was used after its destruction
  misuse            \* history: see the properties

vars == <<timer, m_timerChannels, m_activeChannels, pc, storing, undefined, misuse>>

None == 0
Timers == 1 .. MaxTimers
Live(i) == timer[i].channel = "live"

-----------------------------------------------------------------------------
(* The delay.                                                              *)

\* timerfd_settime disarms the timer for a delay of 0 and fails for a negative one,
\* which is only logged.  clock is "set", "expired" or "off".
createTimerFd(delayMs) == IF delayMs > 0 THEN "set" ELSE "off"

\* Division of C++, towards 0, and the conversion of an int64_t to int.
Truncated(a, b) == IF a < 0 THEN -((-a) \div b) ELSE a \div b
ToInt(n) == ((n + IntMax + 1) % (2 * (IntMax + 1))) - (IntMax + 1)

\* Mutant: the microseconds are converted before the division.
NarrowDelay(wait) == Truncated(ToInt(wait), MicrosPerMilli)

\* runAt: the delay it gives runAfter.
RunAtDelay(wait) == ToInt(Truncated(wait, MicrosPerMilli))

\* What a caller may expect: a wait of a millisecond at least that fits into an int.
Promised(wait) == wait >= MicrosPerMilli /\ wait \div MicrosPerMilli <= IntMax

-----------------------------------------------------------------------------
(* Starting a timer.                                                       *)

FreeFds == {f \in Fds : \A i \in Timers : Live(i) => timer[i].fd # f}

\* The next timer, with the lowest descriptor that is free: timerfd_create failing
\* ends the program.
Registers(i, every, delayMs, wait) ==
  /\ timer[i].channel = "none"
  /\ \A j \in 1 .. i - 1 : timer[j].channel # "none"
  /\ FreeFds # {}
  /\ timer' = [timer EXCEPT ![i] =
       [channel |-> "live", every |-> every, promised |-> Promised(wait),
        clock |-> createTimerFd(delayMs),
        fd |-> CHOOSE f \in FreeFds : \A g \in FreeFds : f <= g]]

StoresNow(i) ==
  /\ m_timerChannels' = [m_timerChannels EXCEPT ![timer'[i].fd] = i]
  /\ UNCHANGED <<m_activeChannels, pc, storing, undefined, misuse>>

\* Mutant: the timer is registered, but not stored.
RunEveryUnstored(i, delayMs) ==
  /\ Registers(i, TRUE, delayMs, delayMs * MicrosPerMilli)
  /\ UNCHANGED <<m_timerChannels, m_activeChannels, pc, storing, undefined, misuse>>

RunAfter(i, delayMs) ==
  Registers(i, FALSE, delayMs, delayMs * MicrosPerMilli) /\ StoresNow(i)

RunEvery(i, delayMs) ==
  Registers(i, TRUE, delayMs, delayMs * MicrosPerMilli) /\ StoresNow(i)

RunAt(i, wait) == Registers(i, FALSE, RunAtDelay(wait), wait) /\ StoresNow(i)

\* The same calls by another thread, which the loop may overtake: enableReading ...
ThreadRegister(i, every, delayMs) ==
  /\ storing = None
  /\ Registers(i, every, delayMs, delayMs * MicrosPerMilli)
  /\ storing' = i
  /\ UNCHANGED <<m_timerChannels, m_activeChannels, pc, undefined, misuse>>

\* ... and m_timerChannels[tfd] = pChannel.
ThreadStore ==
  /\ storing # None
  /\ m_timerChannels' = [m_timerChannels EXCEPT ![timer[storing].fd] = storing]
  /\ misuse' = IF Live(storing) THEN misuse ELSE misuse \cup {"storedLate"}
  /\ storing' = None
  /\ UNCHANGED <<timer, m_activeChannels, pc, undefined>>

-----------------------------------------------------------------------------
(* Ending a timer.                                                         *)

\* disableAll, remove, erase and delete.
Deleted(i) ==
  /\ timer' = [timer EXCEPT ![i].channel = "deleted", ![i].clock = "off"]
  /\ m_timerChannels' = [m_timerChannels EXCEPT ![timer[i].fd] = None]

\* cancel of an id, by any thread at any time.  An id that is not in the map gets a
\* null entry, which is as good as none.
Cancel(f) ==
  /\ m_timerChannels[f] # None
  /\ LET i == m_timerChannels[f]
     IN  IF Live(i)
           THEN /\ Deleted(i)
                /\ misuse' = IF i \in Range(m_activeChannels)
                               THEN misuse \cup {"cancelledReported"} ELSE misuse
                /\ UNCHANGED undefined
           ELSE undefined' = TRUE /\ UNCHANGED <<timer, m_timerChannels, misuse>>
  /\ UNCHANGED <<m_activeChannels, pc, storing>>

-----------------------------------------------------------------------------
(* The loop.                                                               *)

Expire(i) ==
  /\ Live(i) /\ timer[i].clock = "set"
  /\ timer' = [timer EXCEPT ![i].clock = "expired"]
  /\ UNCHANGED <<m_timerChannels, m_activeChannels, pc, storing, undefined, misuse>>

Expired == {i \in Timers : Live(i) /\ timer[i].clock = "expired"}

Poll ==
  /\ pc = "idle" /\ Expired # {}
  /\ pc' = "dispatch"
  /\ m_activeChannels' \in SetToSeqs(Expired)
  /\ UNCHANGED <<timer, m_timerChannels, storing, undefined, misuse>>

\* handleEvent, and handleTimerEvent up to the call of the task.
HandleTimer ==
  /\ pc = "dispatch" /\ m_activeChannels # <<>>
  /\ LET i == Head(m_activeChannels)
     IN  IF Live(i)
           THEN /\ pc' = "task"
                /\ timer' = [timer EXCEPT ![i].clock = IF timer[i].every THEN "set" ELSE "off"]
                /\ UNCHANGED undefined
           ELSE undefined' = TRUE /\ UNCHANGED <<pc, timer>>
  /\ UNCHANGED <<m_timerChannels, m_activeChannels, storing, misuse>>

TaskReturns ==
  /\ pc = "task"
  /\ LET i == Head(m_activeChannels)
     IN  IF ~Live(i)
           THEN undefined' = TRUE /\ UNCHANGED <<timer, m_timerChannels>>
           ELSE /\ IF timer[i].every THEN UNCHANGED <<timer, m_timerChannels>> ELSE Deleted(i)
                /\ UNCHANGED undefined
  /\ pc' = "dispatch" /\ m_activeChannels' = Tail(m_activeChannels)
  /\ UNCHANGED <<storing, misuse>>

EndDispatch ==
  /\ pc = "dispatch" /\ m_activeChannels = <<>>
  /\ pc' = "idle"
  /\ UNCHANGED <<timer, m_timerChannels, m_activeChannels, storing, undefined, misuse>>

-----------------------------------------------------------------------------
Init ==
  /\ timer = [i \in Timers |-> [channel |-> "none", fd |-> None, every |-> FALSE,
                                clock |-> "off", promised |-> FALSE]]
  /\ m_timerChannels = [f \in Fds |-> None]
  /\ m_activeChannels = <<>> /\ pc = "idle" /\ storing = None
  /\ undefined = FALSE /\ misuse = {}

LoopStep == Poll \/ HandleTimer \/ TaskReturns \/ EndDispatch

Start(i) ==
  \/ \E d \in Delays : RunAfter(i, d) \/ RunEvery(i, d)
  \/ \E w \in Waits : RunAt(i, w)
  \/ \E d \in Delays, every \in BOOLEAN : ThreadRegister(i, every, d)

\* After a use of a Channel that is gone nothing is known any more.
Next ==
  /\ ~undefined
  /\ \/ LoopStep
     \/ \E i \in Timers : Start(i) \/ Expire(i)
     \/ ThreadStore
     \/ \E f \in Fds : Cancel(f)

Spec == Init /\ [][Next]_vars

\* The loop goes on, tasks return, time passes.
FairSpec ==
  /\ Spec
  /\ WF_vars(~undefined /\ LoopStep)
  /\ \A i \in Timers : WF_vars(~undefined /\ Expire(i))

-----------------------------------------------------------------------------
(* Properties.                                                             *)

\* Unless someone cancels a timer that is running or that the same poll has reported,
\* its own task included, or starts one from a thread that the loop overtakes, the loop
\* never uses a timer's Channel after its destruction; and the id a caller holds cancels
\* its timer and no other as long as that timer is there, however often its number was
\* given before: the map has exactly the live timers, each under a number of its own.
IdsNameTheirTimers ==
  misuse = {} =>
    /\ ~undefined
    /\ \A i \in Timers : Live(i) => i = storing \/ m_timerChannels[timer[i].fd] = i
    /\ \A f \in Fds : m_timerChannels[f] # None =>
         Live(m_timerChannels[f]) /\ timer[m_timerChannels[f]].fd = f

\* A timer asked to wait a millisecond or more, up to the largest int, runs, again
\* and again if it repeats, unless it is cancelled.  (A shorter wait, or one that
\* leaves an int below 1, disarms it: it never runs.)
TimersRun ==
  \A i \in Timers :
    (Live(i) /\ timer[i].promised) ~>
      (~Live(i) \/ undefined \/ (pc = "task" /\ Head(m_activeChannels) = i))
=============================================================================
