--------------------------- MODULE EventLoopProofs ---------------------------
(***************************************************************************)
(* Proofs about EventLoop, for every set of functors, threads and channels *)
(* and every size of the event list: type correctness, no lost wakeup, and *)
(* the refinement of the FIFO queue of FunctorQueue.                       *)
(*                                                                         *)
(* Then proofs about EventLoopThread, for every loop and whether or not    *)
(* the application quits it: the thread uses its loop as EventLoop allows, *)
(* so that what is proved of EventLoop carries over, and what the owner    *)
(* may rely on.                                                            *)
(***************************************************************************)
EXTENDS EventLoopThread, SequenceTheorems, TLAPS

-----------------------------------------------------------------------------
(* Lemmas on sequences.                                                     *)

\* Appending to a sequence adds the element to its range.
LEMMA AppendRange ==
  ASSUME NEW S, NEW s \in Seq(S), NEW e \in S
  PROVE  Range(Append(s, e)) = Range(s) \cup {e}
<1>1. Append(s, e) = s \o <<e>>
  BY AppendIsConcat
<1>2. <<e>> \in Seq(S) /\ Range(<<e>>) = {e}
  BY DEF Range
<1>3. Range(s \o <<e>>) = Range(s) \cup Range(<<e>>)
  BY <1>2, RangeConcatenation
<1> QED
  BY <1>1, <1>2, <1>3

\* Removing the element at a position of a sequence leaves a sequence.
LEMMA RemoveAtType ==
  ASSUME NEW S, NEW s \in Seq(S), NEW i \in DOMAIN s
  PROVE  RemoveAt(s, i) \in Seq(S)
<1>1. i \in 1 .. Len(s) /\ Len(s) \in Nat
  BY LenProperties
<1>2. SubSeq(s, 1, i - 1) \in Seq(S)
  <2>1. \A j \in 1 .. i - 1 : s[j] \in S
    BY <1>1, ElementOfSeq
  <2> QED
    BY <1>1, <2>1, SubSeqProperties
<1>3. SubSeq(s, i + 1, Len(s)) \in Seq(S)
  <2>1. \A j \in i + 1 .. Len(s) : s[j] \in S
    BY <1>1, ElementOfSeq
  <2> QED
    BY <1>1, <2>1, SubSeqProperties
<1> QED
  BY <1>2, <1>3, ConcatProperties DEF RemoveAt

\* Linking a channel, unlinking it and rotating the list keep a ready list one.
LEMMA ReadyListType ==
  ASSUME ready \in Seq(AllChannels), NEW c \in AllChannels
  PROVE  /\ Arrived(ready, c) \in Seq(AllChannels)
         /\ Drained(ready, c) \in Seq(AllChannels)
         /\ Batch \in Seq(AllChannels)
         /\ Rotated \in Seq(AllChannels)
<1>1. Arrived(ready, c) \in Seq(AllChannels)
  BY AppendProperties DEF Arrived
<1>2. Drained(ready, c) \in Seq(AllChannels)
  <2>1. CASE c \in Range(ready)
    <3>1. (CHOOSE i \in DOMAIN ready : ready[i] = c) \in DOMAIN ready
      BY <2>1 DEF Range
    <3> QED
      BY <2>1, <3>1, RemoveAtType DEF Drained
  <2>2. CASE c \notin Range(ready)
    BY <2>2 DEF Drained
  <2> QED
    BY <2>1, <2>2
<1>3. BatchSize \in 0 .. Len(ready) /\ Len(ready) \in Nat
  BY EventLoopAssumption, LenProperties DEF BatchSize
<1>4. Batch \in Seq(AllChannels)
  <2>1. \A j \in 1 .. BatchSize : ready[j] \in AllChannels
    BY <1>3, ElementOfSeq
  <2> QED
    BY <1>3, <2>1, SubSeqProperties DEF Batch
<1>5. SubSeq(ready, BatchSize + 1, Len(ready)) \in Seq(AllChannels)
  <2>1. \A j \in BatchSize + 1 .. Len(ready) : ready[j] \in AllChannels
    BY <1>3, ElementOfSeq
  <2> QED
    BY <1>3, <2>1, SubSeqProperties
<1>6. Rotated \in Seq(AllChannels)
  BY <1>4, <1>5, ConcatProperties DEF Rotated, Batch
<1> QED
  BY <1>1, <1>2, <1>4, <1>6

\* A channel linked stays or becomes a member of the ready list.
LEMMA ArrivedRange ==
  ASSUME ready \in Seq(AllChannels), NEW c \in AllChannels
  PROVE  Range(Arrived(ready, c)) = Range(ready) \cup {c}
BY AppendRange DEF Arrived

-----------------------------------------------------------------------------
(* Type correctness.                                                        *)

\* Every reachable state is well typed; in particular a callback is only entered
\* for a channel the last poll returned.
THEOREM TypeCorrect == Spec => []TypeOK
<1>1. Init => TypeOK
  BY EmptySeq DEF Init, TypeOK, PCs
<1>2. TypeOK /\ [Next]_vars => TypeOK'
  <2> SUFFICES ASSUME TypeOK, [Next]_vars PROVE TypeOK'
    OBVIOUS
  <2> USE DEF TypeOK, PCs, queueVars
  <2>1. CASE StartLoop
    BY <2>1 DEF StartLoop
  <2>2. CASE CheckQuit
    <3>1. CASE m_quit
      BY <2>2, <3>1 DEF CheckQuit
    <3>2. CASE ~m_quit
      BY <2>2, <3>2, EmptySeq DEF CheckQuit
    <3> QED
      BY <3>1, <3>2
  <2>3. CASE Poll
    <3>1. WakeupChannel \in AllChannels
      BY DEF AllChannels
    <3> QED
      BY <2>3, <3>1, ReadyListType DEF Poll
  <2>4. CASE PollInterrupted
    BY <2>4 DEF PollInterrupted
  <2>5. CASE HandleWakeup
    BY <2>5, ReadyListType, HeadTailProperties DEF HandleWakeup, AllChannels
  <2>6. CASE HandleChannel
    BY <2>6 DEF HandleChannel
  <2>7. CASE CallbackReturns
    <3>1. Head(m_activeChannels) \in AllChannels /\ Tail(m_activeChannels) \in Seq(AllChannels)
      BY <2>7, HeadTailProperties DEF CallbackReturns
    <3>2. ready' \in Seq(AllChannels)
      BY <2>7, <3>1, ReadyListType DEF CallbackReturns
    <3> QED
      BY <2>7, <3>1, <3>2 DEF CallbackReturns
  <2>8. CASE SwapPending
    BY <2>8 DEF SwapPending
  <2>9. CASE RunFunctor
    BY <2>9, HeadTailProperties, AppendProperties DEF RunFunctor
  <2>10. CASE FunctorReturns
    BY <2>10 DEF FunctorReturns
  <2>11. CASE EndPending
    BY <2>11 DEF EndPending
  <2>12. ASSUME NEW c \in Channels, Arrive(c) PROVE TypeOK'
    BY <2>12, AppendProperties DEF Arrive, AllChannels
  <2>13. ASSUME NEW f \in Functors, LoopQueueInLoop(f) PROVE TypeOK'
    BY <2>13, AppendProperties, ReadyListType DEF LoopQueueInLoop, AllChannels
  <2>14. ASSUME NEW f \in Functors, LoopRunInLoop(f) PROVE TypeOK'
    BY <2>14, AppendProperties DEF LoopRunInLoop
  <2>15. CASE LoopQuit
    BY <2>15 DEF LoopQuit
  <2>16. ASSUME NEW t \in Threads, NEW f \in Functors, QueueInLoop(t, f) PROVE TypeOK'
    BY <2>16, AppendProperties DEF QueueInLoop
  <2>17. ASSUME NEW t \in Threads, Quit(t) PROVE TypeOK'
    BY <2>17 DEF Quit
  <2>18. ASSUME NEW t \in Threads, Wakeup(t) PROVE TypeOK'
    BY <2>18, ReadyListType DEF Wakeup, AllChannels
  <2>19. CASE UNCHANGED vars
    BY <2>19 DEF vars
  <2> QED
    BY <2>1, <2>2, <2>3, <2>4, <2>5, <2>6, <2>7, <2>8, <2>9, <2>10, <2>11, <2>12,
       <2>13, <2>14, <2>15, <2>16, <2>17, <2>18, <2>19 DEF Next, LoopStep
<1> QED
  BY <1>1, <1>2, PTL DEF Spec
-----------------------------------------------------------------------------
(* No lost wakeup.                                                          *)

\* From the swap of doPendingFunctors on and until the next poll returns, an
\* awaited functor has its wakeup: while the batch runs because the loop thread's
\* own queueInLoop writes the eventfd too (m_callingPendingFunctors).
WakeupOwed ==
  pc \notin {"dispatch", "callback"} /\ Awaited # {} => WakeupPending

\* m_callingPendingFunctors is set exactly while the batch runs.
CallingWhileRunning ==
  m_callingPendingFunctors <=> pc \in {"run", "functor"}

\* Outside doPendingFunctors the batch is empty.
NoBatchOutside ==
  pc \notin {"run", "functor"} => functors = <<>>

\* The inductive invariant behind NoLostWakeup, NoLostQuit and BatchCompletes.
LoopInv == WakeupOwed /\ CallingWhileRunning /\ NoBatchOutside /\ NoLostQuit

\* An append to the pending functors awaits at most the functor appended.
LEMMA AwaitedAppend ==
  ASSUME TypeOK, NEW f \in Functors,
         m_pendingFunctors' = Append(m_pendingFunctors, f), early \subseteq early'
  PROVE  Awaited' \subseteq Awaited \cup {f}
<1>1. Range(m_pendingFunctors)' = Range(m_pendingFunctors) \cup {f}
  BY AppendRange DEF TypeOK
<1> QED
  BY <1>1 DEF Awaited

\* Writing the eventfd makes a wakeup pending.
LEMMA ArrivedWakeup ==
  ASSUME TypeOK, ready' = Arrived(ready, WakeupChannel)
  PROVE  WakeupPending'
<1>1. Range(ready') = Range(ready) \cup {WakeupChannel}
  BY ArrivedRange DEF TypeOK, AllChannels
<1> QED
  BY <1>1 DEF WakeupPending

\* LoopInv is an invariant.
THEOREM LoopInvariant == Spec => []LoopInv
<1>1. Init => LoopInv
  <2> SUFFICES ASSUME Init PROVE LoopInv
    OBVIOUS
  <2>1. Range(m_pendingFunctors) = {}
    BY DEF Init, Range
  <2> QED
    BY <2>1 DEF Init, LoopInv, WakeupOwed, Awaited, CallingWhileRunning,
                NoBatchOutside, NoLostQuit
<1>2. TypeOK /\ LoopInv /\ [Next]_vars => LoopInv'
  <2> SUFFICES ASSUME TypeOK, LoopInv, [Next]_vars PROVE LoopInv'
    OBVIOUS
  <2> USE DEF LoopInv, WakeupOwed, CallingWhileRunning, NoBatchOutside, NoLostQuit,
              queueVars
  <2>1. CASE StartLoop
    BY <2>1 DEF StartLoop, Awaited, WakeupPending
  <2>2. CASE CheckQuit
    BY <2>2 DEF CheckQuit, Awaited, WakeupPending
  <2>3. CASE Poll
    BY <2>3 DEF Poll
  <2>4. CASE PollInterrupted
    BY <2>4 DEF PollInterrupted
  <2>5. CASE HandleWakeup
    BY <2>5 DEF HandleWakeup
  <2>6. CASE HandleChannel
    BY <2>6 DEF HandleChannel
  <2>7. CASE CallbackReturns
    BY <2>7 DEF CallbackReturns
  <2>8. CASE SwapPending
    <3>1. Range(m_pendingFunctors') = {}
      BY <2>8 DEF SwapPending, Range
    <3> QED
      BY <2>8, <3>1 DEF SwapPending, Awaited
  <2>9. CASE RunFunctor
    BY <2>9 DEF RunFunctor, Awaited, WakeupPending
  <2>10. CASE FunctorReturns
    BY <2>10 DEF FunctorReturns, Awaited, WakeupPending
  <2>11. CASE EndPending
    BY <2>11 DEF EndPending, Awaited, WakeupPending
  <2>12. ASSUME NEW c \in Channels, Arrive(c) PROVE LoopInv'
    <3>1. Range(ready) \subseteq Range(ready')
      BY <2>12, AppendRange DEF Arrive, TypeOK, AllChannels
    <3>2. WakeupPending => WakeupPending'
      BY <2>12, <3>1 DEF Arrive, WakeupPending
    <3> QED
      BY <2>12, <3>2 DEF Arrive, Awaited
  <2>13. ASSUME NEW f \in Functors, LoopQueueInLoop(f) PROVE LoopInv'
    <3>1. CASE pc = "init"
      <4>1. Awaited' \subseteq Awaited
        BY <2>13, <3>1, AwaitedAppend DEF LoopQueueInLoop, Awaited
      <4> QED
        BY <2>13, <3>1, <4>1 DEF LoopQueueInLoop, WakeupPending
    <3>2. CASE pc = "callback"
      BY <2>13, <3>2 DEF LoopQueueInLoop
    <3>3. CASE pc = "functor"
      <4>1. WakeupPending'
        BY <2>13, <3>3, ArrivedWakeup DEF LoopQueueInLoop
      <4> QED
        BY <2>13, <3>3, <4>1 DEF LoopQueueInLoop
    <3> QED
      BY <2>13, <3>1, <3>2, <3>3 DEF LoopQueueInLoop, InUserCode
  <2>14. ASSUME NEW f \in Functors, LoopRunInLoop(f) PROVE LoopInv'
    BY <2>14 DEF LoopRunInLoop, Awaited, WakeupPending
  <2>15. CASE LoopQuit
    BY <2>15 DEF LoopQuit, InUserCode, Awaited, WakeupPending
  <2>16. ASSUME NEW t \in Threads, NEW f \in Functors, QueueInLoop(t, f) PROVE LoopInv'
    <3>1. WakeupPending'
      BY <2>16 DEF QueueInLoop, WakeupPending, TypeOK
    <3> QED
      BY <2>16, <3>1 DEF QueueInLoop
  <2>17. ASSUME NEW t \in Threads, Quit(t) PROVE LoopInv'
    <3>1. WakeupPending'
      BY <2>17 DEF Quit, WakeupPending, TypeOK
    <3> QED
      BY <2>17, <3>1 DEF Quit, Awaited
  <2>18. ASSUME NEW t \in Threads, Wakeup(t) PROVE LoopInv'
    <3>1. WakeupPending'
      BY <2>18, ArrivedWakeup DEF Wakeup
    <3> QED
      BY <2>18, <3>1 DEF Wakeup, Awaited
  <2>19. CASE UNCHANGED vars
    BY <2>19 DEF vars, Awaited, WakeupPending
  <2> QED
    BY <2>1, <2>2, <2>3, <2>4, <2>5, <2>6, <2>7, <2>8, <2>9, <2>10, <2>11, <2>12,
       <2>13, <2>14, <2>15, <2>16, <2>17, <2>18, <2>19 DEF Next, LoopStep
<1> QED
  BY <1>1, <1>2, TypeCorrect, PTL DEF Spec

\* The loop never blocks in epoll_wait on a functor that nobody will wake it for.
THEOREM NoWakeupIsLost == Spec => []NoLostWakeup
<1>1. LoopInv => NoLostWakeup
  BY DEF LoopInv, WakeupOwed, NoLostWakeup
<1> QED
  BY <1>1, LoopInvariant, PTL

\* The loop never blocks in epoll_wait after a quit() that nobody will wake it for.
THEOREM NoQuitIsLost == Spec => []NoLostQuit
<1>1. LoopInv => NoLostQuit
  BY DEF LoopInv
<1> QED
  BY <1>1, LoopInvariant, PTL

\* A swapped batch is executed to its end before the loop polls again or stops.
THEOREM BatchesComplete == Spec => []BatchCompletes
<1>1. LoopInv => BatchCompletes
  BY DEF LoopInv, CallingWhileRunning, NoBatchOutside, BatchCompletes
<1> QED
  BY <1>1, LoopInvariant, PTL

-----------------------------------------------------------------------------
(* The refinement: queue is the batch followed by the pending functors.     *)

\* Fresh means the same in both specifications.
LEMMA SameFresh ==
  ASSUME TypeOK, NEW f
  PROVE  Fresh(f) <=> FQ!Fresh(f)
<1>1. Range(functors \o m_pendingFunctors) = Range(functors) \cup Range(m_pendingFunctors)
  BY RangeConcatenation DEF TypeOK
<1> QED
  BY <1>1 DEF Fresh, FQ!Fresh, Range, FQ!Range

\* A push at the end of m_pendingFunctors is a submission.
LEMMA PushIsSubmit ==
  ASSUME TypeOK, NEW f \in Functors, Fresh(f),
         m_pendingFunctors' = Append(m_pendingFunctors, f),
         UNCHANGED <<functors, ran>>
  PROVE  FQ!Next
<1>1. FQ!Fresh(f)
  BY SameFresh
<1>2. functors \o Append(m_pendingFunctors, f) = Append(functors \o m_pendingFunctors, f)
  <2>1. /\ <<f>> \in Seq(Functors)
        /\ functors \o m_pendingFunctors \in Seq(Functors)
    BY ConcatProperties DEF TypeOK
  <2>2. Append(m_pendingFunctors, f) = m_pendingFunctors \o <<f>>
    BY AppendIsConcat DEF TypeOK
  <2>3. Append(functors \o m_pendingFunctors, f) = (functors \o m_pendingFunctors) \o <<f>>
    BY <2>1, AppendIsConcat
  <2> QED
    BY <2>1, <2>2, <2>3, ConcatAssociative, SMTT(30) DEF TypeOK
<1> QED
  BY <1>1, <1>2 DEF FQ!Next, FQ!Submit

\* The head of the batch is the head of the queue.
LEMMA RunIsExecuteHead ==
  ASSUME TypeOK, functors # <<>>, functors' = Tail(functors),
         ran' = Append(ran, Head(functors)), UNCHANGED m_pendingFunctors
  PROVE  FQ!Next
<1>1. /\ functors \o m_pendingFunctors # <<>>
      /\ Head(functors \o m_pendingFunctors) = Head(functors)
      /\ Tail(functors \o m_pendingFunctors) = Tail(functors) \o m_pendingFunctors
  BY DEF TypeOK
<1> QED
  BY <1>1 DEF FQ!Next, FQ!ExecuteHead

\* Every behaviour of EventLoop is one of FunctorQueue: no functor is lost,
\* executed twice or overtaken by one queued after it.
THEOREM RefinesFunctorQueue == Spec => ImplementsFunctorQueue
<1>1. Init => FQ!Init
  BY DEF Init, FQ!Init
<1>2. TypeOK /\ LoopInv /\ [Next]_vars => [FQ!Next]_FQ!vars
  <2> SUFFICES ASSUME TypeOK, LoopInv, [Next]_vars
               PROVE  FQ!Next \/ UNCHANGED <<m_pendingFunctors, functors, ran>>
                                \/ UNCHANGED FQ!vars
    BY DEF FQ!vars
  <2>1. CASE SwapPending
    <3>1. functors = <<>>
      BY <2>1 DEF LoopInv, NoBatchOutside, SwapPending
    <3>2. functors' \o m_pendingFunctors' = functors \o m_pendingFunctors
      BY <2>1, <3>1, ConcatEmptySeq DEF SwapPending, TypeOK
    <3> QED
      BY <2>1, <3>2 DEF SwapPending, FQ!vars
  <2>2. CASE RunFunctor
    BY <2>2, RunIsExecuteHead DEF RunFunctor
  <2>3. CASE StartLoop \/ CheckQuit \/ Poll \/ PollInterrupted \/ HandleWakeup
             \/ HandleChannel \/ CallbackReturns \/ FunctorReturns \/ EndPending \/ LoopQuit
    BY <2>3 DEF StartLoop, CheckQuit, Poll, PollInterrupted, HandleWakeup, HandleChannel,
                CallbackReturns, FunctorReturns, EndPending, LoopQuit, queueVars
  <2>4. ASSUME NEW c \in Channels, Arrive(c)
        PROVE  UNCHANGED <<m_pendingFunctors, functors, ran>>
    BY <2>4 DEF Arrive, queueVars
  <2>5. ASSUME NEW f \in Functors, LoopQueueInLoop(f) PROVE FQ!Next
    BY <2>5, PushIsSubmit DEF LoopQueueInLoop
  <2>6. ASSUME NEW f \in Functors, LoopRunInLoop(f) PROVE FQ!Next
    BY <2>6, SameFresh DEF LoopRunInLoop, FQ!Next, FQ!ExecuteNow
  <2>7. ASSUME NEW t \in Threads, NEW f \in Functors, QueueInLoop(t, f) PROVE FQ!Next
    BY <2>7, PushIsSubmit DEF QueueInLoop
  <2>8. ASSUME NEW t \in Threads, Quit(t) \/ Wakeup(t)
        PROVE  UNCHANGED <<m_pendingFunctors, functors, ran>>
    BY <2>8 DEF Quit, Wakeup, queueVars
  <2>9. CASE UNCHANGED vars
    BY <2>9 DEF vars
  <2> QED
    BY <2>1, <2>2, <2>3, <2>4, <2>5, <2>6, <2>7, <2>8, <2>9 DEF Next, LoopStep
<1> QED
  BY <1>1, <1>2, TypeCorrect, LoopInvariant, PTL
    DEF Spec, ImplementsFunctorQueue, FQ!Spec

-----------------------------------------------------------------------------
(* The composition only takes steps of EventLoop.                          *)

\* Whatever the thread and its owner do is a step of the event loop's
\* specification, or does not touch the loop.
LEMMA ThreadStepsAreLoopSteps ==
  ThreadNext => Next \/ UNCHANGED vars
<1> USE EventLoopThreadAssumption
<1>1. ASSUME StartThread PROVE UNCHANGED vars
  BY <1>1 DEF StartThread
<1>2. ASSUME OwnerProgress PROVE Next \/ UNCHANGED vars
  <2>1. CASE SemWaitReturns \/ FindsLoop \/ FindsNoLoop \/ Joins
    BY <2>1 DEF SemWaitReturns, FindsLoop, FindsNoLoop, Joins
  <2>2. CASE OwnerWakesUp
    BY <2>2 DEF OwnerWakesUp, Next
  <2>3. CASE DestructorQuits
    BY <2>3 DEF DestructorQuits, Next
  <2> QED
    BY <1>2, <2>1, <2>2, <2>3 DEF OwnerProgress
<1>3. ASSUME WaitReturns \/ BeginDestruction PROVE UNCHANGED vars
  BY <1>3 DEF WaitReturns, BeginDestruction
<1>4. ASSUME OwnerCalls PROVE Next
  BY <1>4 DEF OwnerCalls, Next
<1>5. ASSUME ThreadProgress PROVE Next \/ UNCHANGED vars
  <2>1. CASE Posts \/ InitReturns \/ Publishes \/ ClearsLoop \/ Ends
    BY <2>1 DEF Posts, InitReturns, Publishes, ClearsLoop, Ends, ThreadStep
  <2>2. CASE Loops
    BY <2>2 DEF Loops, Next
  <2> QED
    BY <1>5, <2>1, <2>2 DEF ThreadProgress
<1>6. ASSUME ThreadCalls PROVE Next
  BY <1>6 DEF ThreadCalls, Next
<1>7. ASSUME Interrupted \/ EventArrives PROVE Next
  BY <1>7 DEF Interrupted, EventArrives, Next
<1> QED
  BY <1>1, <1>2, <1>3, <1>4, <1>5, <1>6, <1>7 DEF ThreadNext

\* An EventLoopThread is a correct client of its EventLoop: it constructs it,
\* hands it out and destroys it without a step EventLoop does not know.
THEOREM ThreadImplementsLoop == ThreadSpec => Spec
<1>1. ThreadInit => Init
  BY DEF ThreadInit
<1>2. [ThreadNext]_allVars => [Next]_vars
  BY ThreadStepsAreLoopSteps DEF allVars
<1> QED
  BY <1>1, <1>2, PTL DEF ThreadSpec, Spec

\* The loop of an EventLoopThread loses no wakeup either, from the functors that
\* m_threadInit queues to those of the owner.
COROLLARY ThreadLosesNoWakeup == ThreadSpec => [](TypeOK /\ NoLostWakeup)
  BY ThreadImplementsLoop, TypeCorrect, NoWakeupIsLost, PTL

-----------------------------------------------------------------------------
(* The life of the loop as its owner sees it.                              *)

\* The places of the two threads fit together.
PlacesFit ==
  /\ m_eventLoop = (lpc = "loop")
  /\ lpc \in {"none", "posting", "init", "publishing"} => pc = "init"
  /\ lpc \in {"unlocking", "ended"} => pc = "stopped"
  /\ opc = "new" => lpc = "none"
  /\ lpc = "posting" => opc = "starting"
  /\ opc \in {"starting", "locking", "waiting"} => lpc # "none"
  /\ opc \in {"quitting", "joining"} => lpc \in {"loop", "unlocking", "ended"}

\* A destructor that waits for a running loop has set m_quit, and only the start
\* of loop() has cleared it.
QuitIsSet == opc = "joining" /\ lpc = "loop" /\ ~m_quit => quitLost

\* The loop's program counter and m_quit in one step of its thread.
LEMMA LoopStepEffect ==
  ASSUME LoopStep
  PROVE  /\ pc # "stopped" /\ pc' # "init"
         /\ pc = "init" => ~m_quit' /\ pc' # "stopped"
         /\ pc # "init" => m_quit' = m_quit
         /\ pc' = "stopped" => m_quit'
BY DEF LoopStep, StartLoop, CheckQuit, Poll, HandleWakeup, HandleChannel,
       CallbackReturns, SwapPending, RunFunctor, FunctorReturns, EndPending

ThreadInv == PlacesFit /\ QuitIsSet

\* Every step keeps them.
LEMMA ThreadInvStep == ThreadInv /\ [ThreadNext]_allVars => ThreadInv'
<1> SUFFICES ASSUME ThreadInv, [ThreadNext]_allVars PROVE ThreadInv'
  OBVIOUS
<1> USE DEF ThreadInv, PlacesFit, QuitIsSet
<1>1. CASE StartThread
  BY <1>1 DEF StartThread, vars
<1>2. CASE SemWaitReturns \/ FindsLoop \/ FindsNoLoop \/ Joins \/ WaitReturns
  BY <1>2 DEF SemWaitReturns, FindsLoop, FindsNoLoop, Joins, WaitReturns, OwnerStep, vars
<1>3. CASE OwnerWakesUp
  BY <1>3 DEF OwnerWakesUp, Wakeup, UsesLoop
<1>4. CASE DestructorQuits
  BY <1>4 DEF DestructorQuits, Quit, vars
<1>5. CASE OwnerCalls
  BY <1>5 DEF OwnerCalls, QueueInLoop, Quit, UsesLoop
<1>6. CASE BeginDestruction
  BY <1>6 DEF BeginDestruction, vars
<1>7. CASE Posts \/ InitReturns \/ Publishes \/ ClearsLoop \/ Ends
  BY <1>7 DEF Posts, InitReturns, Publishes, ClearsLoop, Ends, ThreadStep, vars
<1>8. CASE Loops
  BY <1>8, LoopStepEffect DEF Loops
<1>9. CASE ThreadCalls
  BY <1>9 DEF ThreadCalls, LoopQueueInLoop, LoopRunInLoop, LoopQuit, InUserCode, threadVars
<1>10. CASE Interrupted \/ EventArrives
  BY <1>10 DEF Interrupted, EventArrives, PollInterrupted, Arrive, threadVars
<1>11. CASE UNCHANGED allVars
  BY <1>11 DEF allVars, vars, threadVars
<1> QED
  BY <1>1, <1>2, <1>3, <1>4, <1>5, <1>6, <1>7, <1>8, <1>9, <1>10, <1>11
  DEF ThreadNext, OwnerProgress, ThreadProgress

\* A destructor waits in vain only for a loop that was entered after its quit().
THEOREM OnlyALostQuitBlocks == ThreadSpec => []JoinBlocksOnLostQuit
<1>1. ThreadInit => ThreadInv
  BY DEF ThreadInit, Init, ThreadInv, PlacesFit, QuitIsSet
<1>2. ThreadInv => JoinBlocksOnLostQuit
  BY DEF ThreadInv, QuitIsSet, JoinBlocksOnLostQuit
<1> QED
  BY <1>1, <1>2, ThreadInvStep, PTL DEF ThreadSpec

-----------------------------------------------------------------------------
(* When only the destructor makes the loop quit.                           *)

\* m_quit is set by nobody but the destructor, which finds the loop running, and
\* is the only one to end it.
OwnerDecides ==
  ~appQuit =>
    /\ m_quit => opc \in {"joining", "gone", "undefined"}
    /\ pc = "stopped" => m_quit
    /\ opc \in {"started", "quitting"} => lpc = "loop"
    /\ opc = "gone" => lpc \in {"none", "ended"}

\* Every step keeps this, too.
LEMMA OwnerDecidesStep ==
  ThreadInv /\ OwnerDecides /\ [ThreadNext]_allVars => OwnerDecides'
<1> SUFFICES ASSUME ThreadInv, OwnerDecides, [ThreadNext]_allVars, ~appQuit'
             PROVE  OwnerDecides'
  BY DEF OwnerDecides
<1> USE DEF ThreadInv, PlacesFit, OwnerDecides
<1>1. CASE StartThread
  BY <1>1 DEF StartThread, vars
<1>2. CASE SemWaitReturns \/ FindsLoop \/ FindsNoLoop \/ Joins \/ WaitReturns
  <2>1. CASE FindsLoop
    <3>1. lpc = "loop" /\ opc = "locking" /\ opc' = "started"
      BY <2>1 DEF FindsLoop, OwnerStep
    <3> QED
      BY <2>1, <3>1 DEF FindsLoop, OwnerStep, vars
  <2>2. CASE SemWaitReturns \/ FindsNoLoop \/ WaitReturns
    BY <2>2 DEF SemWaitReturns, FindsNoLoop, WaitReturns, OwnerStep, vars
  <2>3. CASE Joins
    BY <2>3 DEF Joins, OwnerStep, vars
  <2> QED
    BY <1>2, <2>1, <2>2, <2>3
<1>3. CASE OwnerWakesUp
  BY <1>3 DEF OwnerWakesUp, Wakeup, UsesLoop
<1>4. CASE DestructorQuits
  BY <1>4 DEF DestructorQuits, Quit, vars
<1>5. CASE OwnerCalls
  BY <1>5 DEF OwnerCalls, QueueInLoop, UsesLoop
<1>6. CASE BeginDestruction
  BY <1>6 DEF BeginDestruction, vars
<1>7. CASE Posts \/ InitReturns \/ Publishes \/ ClearsLoop \/ Ends
  BY <1>7 DEF Posts, InitReturns, Publishes, ClearsLoop, Ends, ThreadStep, vars
<1>8. CASE Loops
  BY <1>8, LoopStepEffect DEF Loops
<1>9. CASE ThreadCalls
  BY <1>9 DEF ThreadCalls, LoopQueueInLoop, LoopRunInLoop, threadVars
<1>10. CASE Interrupted \/ EventArrives
  BY <1>10 DEF Interrupted, EventArrives, PollInterrupted, Arrive, threadVars
<1>11. CASE UNCHANGED allVars
  BY <1>11 DEF allVars, vars, threadVars
<1> QED
  BY <1>1, <1>2, <1>3, <1>4, <1>5, <1>6, <1>7, <1>8, <1>9, <1>10, <1>11
  DEF ThreadNext, OwnerProgress, ThreadProgress

\* If the application leaves quit() to the destructor, startLoop returns a loop
\* that is initialized and running, and no member the thread uses is destroyed
\* before the thread has ended.
THEOREM OwnerIsSafe == ThreadSpec => [](StartedLoopIsReady /\ ObjectOutlivesThread)
<1>1. ThreadInit => ThreadInv /\ OwnerDecides
  BY DEF ThreadInit, Init, ThreadInv, PlacesFit, QuitIsSet, OwnerDecides
<1>2. ThreadInv /\ OwnerDecides /\ [ThreadNext]_allVars => (ThreadInv /\ OwnerDecides)'
  BY ThreadInvStep, OwnerDecidesStep
<1>3. ThreadInv /\ OwnerDecides => StartedLoopIsReady /\ ObjectOutlivesThread
  BY DEF OwnerDecides, StartedLoopIsReady, ObjectOutlivesThread
<1> QED
  BY <1>1, <1>2, <1>3, PTL DEF ThreadSpec
=============================================================================
