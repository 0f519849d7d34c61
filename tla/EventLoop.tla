------------------------------ MODULE EventLoop ------------------------------
(***************************************************************************)
(* The reactor of src/src/net/EventLoop.cpp: the loop thread (loop, poll,  *)
(* dispatch, doPendingFunctors), the threads that call queueInLoop,        *)
(* runInLoop and quit on it, and the eventfd that wakes it up.             *)
(*                                                                         *)
(* The loop thread is a program counter:                                   *)
(*   "init"      constructed, loop() not entered yet                       *)
(*   "check"     at  while (!m_quit)                                       *)
(*   "poll"      in  m_poller->poll                                        *)
(*   "dispatch"  at  for (Channel *channel: m_activeChannels)              *)
(*   "callback"  in the read or write callback of an active channel        *)
(*   "run"       at  for (const auto &functor: functors)                   *)
(*   "functor"   in one of these functors                                  *)
(*   "stopped"   loop() has returned                                       *)
(* User code runs on the loop thread at "init" (between the constructor    *)
(* and loop()), in a "callback" and in a "functor".                        *)
(***************************************************************************)
EXTENDS Naturals, Sequences, SequencesExt

CONSTANTS
  Functors,       \* the functors handed in, each at most once
  Threads,        \* the threads other than the loop's
  Channels,       \* the I/O channels registered with the poller
  WakeupChannel,  \* the channel of the eventfd, m_wakeUpChannel
  MaxEvents       \* kInitEventListSize: the most events one epoll_wait reports

ASSUME EventLoopAssumption ==
  /\ WakeupChannel \notin Channels
  /\ MaxEvents \in Nat \ {0}

VARIABLES
  pc,                        \* where the loop thread is
  m_quit,
  m_callingPendingFunctors,
  m_pendingFunctors,         \* guarded by m_mutex
  functors,                  \* the local batch of doPendingFunctors
  m_activeChannels,          \* what the last poll returned, not handled yet
  ready,                     \* the kernel's ready list of the epoll instance
  tpc,                       \* the other threads: in no call, or about to write the eventfd
  ran,                       \* history: the functors executed, in order
  early                      \* history: those the loop thread queued before loop()

vars == <<pc, m_quit, m_callingPendingFunctors, m_pendingFunctors, functors,
          m_activeChannels, ready, tpc, ran, early>>

queueVars == <<m_pendingFunctors, functors, ran, early>>

AllChannels == Channels \cup {WakeupChannel}

PCs == {"init", "check", "poll", "dispatch", "callback", "run", "functor", "stopped"}

Fresh(f) ==
  f \notin Range(ran) \cup Range(functors) \cup Range(m_pendingFunctors)

-----------------------------------------------------------------------------
(* The epoll instance.  A channel that becomes readable is linked at the   *)
(* tail of the ready list; epoll_wait takes entries from the head and,     *)
(* the registration being level triggered, links them again at the tail.   *)

Arrived(rl, c) == IF c \in Range(rl) THEN rl ELSE Append(rl, c)

Drained(rl, c) ==
  IF c \in Range(rl) THEN RemoveAt(rl, CHOOSE i \in DOMAIN rl : rl[i] = c) ELSE rl

BatchSize == IF Len(ready) < MaxEvents THEN Len(ready) ELSE MaxEvents

\* Level triggered, the entries reported go to the end of the list.
Rotated == SubSeq(ready, BatchSize + 1, Len(ready)) \o SubSeq(ready, 1, BatchSize)

\* Mutant: the loop over m_events ends one entry early.
BatchLessLast == SubSeq(ready, 1, BatchSize - 1)

\* fillActiveChannels: what epoll_wait has reported, in its order.
Batch == SubSeq(ready, 1, BatchSize)

\* The peer of an I/O channel makes it readable.
Arrive(c) ==
  /\ c \notin Range(ready)
  /\ ready' = Append(ready, c)
  /\ UNCHANGED <<pc, m_quit, m_callingPendingFunctors, m_activeChannels, tpc>>
  /\ UNCHANGED queueVars

-----------------------------------------------------------------------------
(* The loop thread: loop() and doPendingFunctors().                        *)

StartLoop ==
  /\ pc = "init"
  /\ pc' = "check"
  /\ m_quit' = FALSE
  /\ UNCHANGED <<m_callingPendingFunctors, m_activeChannels, ready, tpc>>
  /\ UNCHANGED queueVars

CheckQuit ==
  /\ pc = "check"
  /\ IF m_quit
       THEN pc' = "stopped" /\ UNCHANGED m_activeChannels
       ELSE pc' = "poll" /\ m_activeChannels' = <<>>
  /\ UNCHANGED <<m_quit, m_callingPendingFunctors, ready, tpc>>
  /\ UNCHANGED queueVars

Poll ==
  /\ pc = "poll"
  /\ ready # <<>>
  /\ pc' = "dispatch"
  /\ m_activeChannels' = Batch
  /\ ready' = Rotated
  /\ UNCHANGED <<m_quit, m_callingPendingFunctors, tpc>>
  /\ UNCHANGED queueVars

\* A signal ends an epoll_wait that has nothing to report (EINTR).
PollInterrupted ==
  /\ pc = "poll"
  /\ ready = <<>>
  /\ pc' = "dispatch"
  /\ UNCHANGED <<m_quit, m_callingPendingFunctors, m_activeChannels, ready, tpc>>
  /\ UNCHANGED queueVars

\* handleEvent of the wakeup channel: readEventFd takes the whole counter.
HandleWakeup ==
  /\ pc = "dispatch"
  /\ m_activeChannels # <<>>
  /\ Head(m_activeChannels) = WakeupChannel
  /\ m_activeChannels' = Tail(m_activeChannels)
  /\ ready' = Drained(ready, WakeupChannel)
  /\ UNCHANGED <<pc, m_quit, m_callingPendingFunctors, tpc>>
  /\ UNCHANGED queueVars

\* handleEvent of an I/O channel enters its callback ...
HandleChannel ==
  /\ pc = "dispatch"
  /\ m_activeChannels # <<>>
  /\ Head(m_activeChannels) # WakeupChannel
  /\ pc' = "callback"
  /\ UNCHANGED <<m_quit, m_callingPendingFunctors, m_activeChannels, ready, tpc>>
  /\ UNCHANGED queueVars

\* ... and leaves it, having read everything or only a part.
CallbackReturns ==
  /\ pc = "callback"
  /\ pc' = "dispatch"
  /\ m_activeChannels' = Tail(m_activeChannels)
  /\ ready' \in {ready, Drained(ready, Head(m_activeChannels))}
  /\ UNCHANGED <<m_quit, m_callingPendingFunctors, tpc>>
  /\ UNCHANGED queueVars

\* Mutant: the pending functors are copied and not taken.
SwapPendingCopies ==
  /\ pc = "dispatch"
  /\ m_activeChannels = <<>>
  /\ pc' = "run"
  /\ m_callingPendingFunctors' = TRUE
  /\ functors' = m_pendingFunctors
  /\ UNCHANGED <<m_quit, m_pendingFunctors, m_activeChannels, ready, tpc, ran, early>>

\* doPendingFunctors: the swap under the mutex.
SwapPending ==
  /\ pc = "dispatch"
  /\ m_activeChannels = <<>>
  /\ pc' = "run"
  /\ m_callingPendingFunctors' = TRUE
  /\ functors' = m_pendingFunctors
  /\ m_pendingFunctors' = <<>>
  /\ UNCHANGED <<m_quit, m_activeChannels, ready, tpc, ran, early>>

RunFunctor ==
  /\ pc = "run"
  /\ functors # <<>>
  /\ pc' = "functor"
  /\ ran' = Append(ran, Head(functors))
  /\ functors' = Tail(functors)
  /\ UNCHANGED <<m_quit, m_callingPendingFunctors, m_pendingFunctors,
                 m_activeChannels, ready, tpc, early>>

FunctorReturns ==
  /\ pc = "functor"
  /\ pc' = "run"
  /\ UNCHANGED <<m_quit, m_callingPendingFunctors, m_activeChannels, ready, tpc>>
  /\ UNCHANGED queueVars

\* Mutant: a quit() ends the loop over the batch.
EndPendingEarly ==
  /\ pc = "run"
  /\ functors = <<>> \/ m_quit
  /\ pc' = "check"
  /\ m_callingPendingFunctors' = FALSE
  /\ UNCHANGED <<m_quit, m_activeChannels, ready, tpc>>
  /\ UNCHANGED queueVars

EndPending ==
  /\ pc = "run"
  /\ functors = <<>>
  /\ pc' = "check"
  /\ m_callingPendingFunctors' = FALSE
  /\ UNCHANGED <<m_quit, m_activeChannels, ready, tpc>>
  /\ UNCHANGED queueVars

-----------------------------------------------------------------------------
(* Calls made by user code on the loop thread.                             *)

InUserCode == pc \in {"init", "callback", "functor"}

\* Mutant: queueInLoop without  || m_callingPendingFunctors.
LoopQueueInLoopSilent(f) ==
  /\ InUserCode
  /\ Fresh(f)
  /\ m_pendingFunctors' = Append(m_pendingFunctors, f)
  /\ early' = IF pc = "init" THEN early \cup {f} ELSE early
  /\ UNCHANGED <<pc, m_quit, m_callingPendingFunctors, functors, m_activeChannels,
                 ready, tpc, ran>>

\* queueInLoop with inLoopThread(): the eventfd is written only while
\* doPendingFunctors runs.
LoopQueueInLoop(f) ==
  /\ InUserCode
  /\ Fresh(f)
  /\ m_pendingFunctors' = Append(m_pendingFunctors, f)
  /\ ready' = IF m_callingPendingFunctors THEN Arrived(ready, WakeupChannel) ELSE ready
  /\ early' = IF pc = "init" THEN early \cup {f} ELSE early
  /\ UNCHANGED <<pc, m_quit, m_callingPendingFunctors, functors, m_activeChannels, tpc, ran>>

\* runInLoop with inLoopThread(): the functor is called at once.
LoopRunInLoop(f) ==
  /\ InUserCode
  /\ Fresh(f)
  /\ ran' = Append(ran, f)
  /\ UNCHANGED <<pc, m_quit, m_callingPendingFunctors, m_pendingFunctors, functors,
                 m_activeChannels, ready, tpc, early>>

LoopQuit ==
  /\ InUserCode
  /\ m_quit' = TRUE
  /\ UNCHANGED <<pc, m_callingPendingFunctors, m_activeChannels, ready, tpc>>
  /\ UNCHANGED queueVars

-----------------------------------------------------------------------------
(* Calls made by other threads.  The push (or the store of m_quit) and the *)
(* write of the eventfd are two steps.                                     *)

QueueInLoop(t, f) ==
  /\ tpc[t] = "idle"
  /\ Fresh(f)
  /\ m_pendingFunctors' = Append(m_pendingFunctors, f)
  /\ tpc' = [tpc EXCEPT ![t] = "wakeup"]
  /\ UNCHANGED <<pc, m_quit, m_callingPendingFunctors, functors, m_activeChannels,
                 ready, ran, early>>

\* Mutant: quit() without the wakeup.
QuitSilent(t) ==
  /\ tpc[t] = "idle"
  /\ m_quit' = TRUE
  /\ UNCHANGED <<pc, m_callingPendingFunctors, m_activeChannels, ready, tpc>>
  /\ UNCHANGED queueVars

Quit(t) ==
  /\ tpc[t] = "idle"
  /\ m_quit' = TRUE
  /\ tpc' = [tpc EXCEPT ![t] = "wakeup"]
  /\ UNCHANGED <<pc, m_callingPendingFunctors, m_activeChannels, ready>>
  /\ UNCHANGED queueVars

Wakeup(t) ==
  /\ tpc[t] = "wakeup"
  /\ ready' = Arrived(ready, WakeupChannel)
  /\ tpc' = [tpc EXCEPT ![t] = "idle"]
  /\ UNCHANGED <<pc, m_quit, m_callingPendingFunctors, m_activeChannels>>
  /\ UNCHANGED queueVars

-----------------------------------------------------------------------------
Init ==
  /\ pc = "init"
  /\ m_quit = FALSE
  /\ m_callingPendingFunctors = FALSE
  /\ m_pendingFunctors = <<>>
  /\ functors = <<>>
  /\ m_activeChannels = <<>>
  /\ ready = <<>>
  /\ tpc = [t \in Threads |-> "idle"]
  /\ ran = <<>>
  /\ early = {}

\* The steps the loop thread takes by itself, none of which waits for user code
\* other than for the return of a callback or a functor.
LoopStep ==
  \/ StartLoop \/ CheckQuit \/ Poll
  \/ HandleWakeup \/ HandleChannel \/ CallbackReturns
  \/ SwapPending \/ RunFunctor \/ FunctorReturns \/ EndPending

Next ==
  \/ LoopStep
  \/ PollInterrupted
  \/ \E c \in Channels : Arrive(c)
  \/ \E f \in Functors : LoopQueueInLoop(f) \/ LoopRunInLoop(f)
  \/ LoopQuit
  \/ \E t \in Threads :
       \/ \E f \in Functors : QueueInLoop(t, f)
       \/ Quit(t)
       \/ Wakeup(t)

Spec == Init /\ [][Next]_vars

\* The loop thread is scheduled and the callbacks return; a thread that has
\* pushed a functor gets to its write of the eventfd.
Fairness ==
  /\ WF_vars(LoopStep)
  /\ \A t \in Threads : WF_vars(Wakeup(t))

FairSpec == Spec /\ Fairness

-----------------------------------------------------------------------------
(* Properties.                                                             *)

\* Every variable stays in the set its declaration in EventLoop.h allows, and no
\* channel is twice on the ready list.
TypeOK ==
  /\ pc \in PCs
  /\ m_quit \in BOOLEAN
  /\ m_callingPendingFunctors \in BOOLEAN
  /\ m_pendingFunctors \in Seq(Functors)
  /\ functors \in Seq(Functors)
  /\ m_activeChannels \in Seq(AllChannels)
  /\ ready \in Seq(AllChannels)
  /\ tpc \in [Threads -> {"idle", "wakeup"}]
  /\ ran \in Seq(Functors)
  /\ early \subseteq Functors
  /\ pc = "callback" => m_activeChannels # <<>>

WakeupPending ==
  \/ WakeupChannel \in Range(ready)
  \/ \E t \in Threads : tpc[t] = "wakeup"

\* The functors some poll has to be woken up for: all that are queued, but those
\* the loop thread itself queued before it entered loop().
Awaited == Range(m_pendingFunctors) \ early

\* The loop never sleeps on work: whenever it is about to block, or blocked, in
\* epoll_wait with a functor queued, the eventfd is readable or the thread that
\* queued a functor is about to write it.  It is the reason for the condition
\* of queueInLoop (!inLoopThread() || m_callingPendingFunctors).
NoLostWakeup ==
  pc \in {"check", "poll"} /\ Awaited # {} => WakeupPending

\* A quit() that finds the loop running is not slept on either: a loop that is
\* about to block although m_quit is set will find the eventfd readable.
NoLostQuit ==
  pc = "poll" /\ m_quit => WakeupPending

\* A batch once swapped is executed to its end: quit() never makes the loop drop
\* what doPendingFunctors has taken out of the queue.
BatchCompletes ==
  pc \in {"check", "poll", "stopped"} => functors = <<>> /\ ~m_callingPendingFunctors

FQ == INSTANCE FunctorQueue WITH
        queue <- functors \o m_pendingFunctors, done <- ran

\* Seen from outside the loop is a FIFO queue of functors that executes each one
\* once: the swap in doPendingFunctors neither loses, repeats nor reorders any.
ImplementsFunctorQueue == FQ!Spec

\* Every functor queued before the loop stops is executed, unless the loop stops
\* first; no timer or I/O event is needed for it.
FunctorsEventuallyRun ==
  \A f \in Functors :
    (f \in Awaited) ~> (f \in Range(ran) \/ pc = "stopped")

\* A quit() that comes after loop() was entered makes it return.
QuitStopsLoop == (m_quit /\ pc # "init") ~> (pc = "stopped")

\* No channel starves: with more channels ready than m_events holds (it never
\* grows), each of them still gets its callback: epoll_wait rotates, and the loop
\* dispatches the whole of each batch.
NoStarvation ==
  \A c \in Channels :
    (c \in Range(ready)) ~>
      (pc = "stopped" \/ (pc = "callback" /\ Head(m_activeChannels) = c))
=============================================================================
