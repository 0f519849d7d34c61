--------------------------- MODULE EventLoopThread ---------------------------
(***************************************************************************)
(* An EventLoopThread of src/src/net/EventLoopThread.cpp: the thread that  *)
(* constructs an EventLoop on its stack, hands it to the thread that       *)
(* called startLoop, runs it and destroys it; and ~EventLoopThread, which  *)
(* makes it quit and joins it.  The loop itself is module EventLoop, whose *)
(* thread `owner' is the one that owns the EventLoopThread.                *)
(*                                                                         *)
(* The owner is at                                                         *)
(*   "new"        constructed                                              *)
(*   "starting"   in Thread::start, at sem_wait                            *)
(*   "locking"    in startLoop, about to look at m_eventLoop               *)
(*   "waiting"    in m_condition.wait                                      *)
(*   "started"    startLoop has returned                                   *)
(*   "quitting"   in ~EventLoopThread, m_eventLoop found not null          *)
(*   "joining"    in quit() after its store, then in m_thread.join()       *)
(*   "gone"       the EventLoopThread is destroyed                         *)
(*   "undefined"  it used the loop after its destruction                   *)
(* and the thread is at                                                    *)
(*   "none"       not created                                              *)
(*   "posting"    in the lambda of Thread::start, before sem_post          *)
(*   "init"       in threadFunc, the loop constructed, in m_threadInit     *)
(*   "publishing" about to store m_eventLoop                               *)
(*   "loop"       in loop.loop()                                           *)
(*   "unlocking"  m_eventLoop is null again, m_mutex still held            *)
(*   "ended"      the loop is destroyed, the thread has ended              *)
(***************************************************************************)
EXTENDS EventLoop

CONSTANT owner  \* the thread that owns the EventLoopThread

ASSUME EventLoopThreadAssumption == owner \in Threads

VARIABLES
  opc,          \* where the owner is
  lpc,          \* where the thread is
  m_eventLoop,  \* whether the pointer is set
  appQuit,      \* history: the application has called quit() itself
  quitLost      \* history: loop() was entered after the destructor's quit(), and cleared m_quit

threadVars == <<opc, lpc, m_eventLoop, appQuit, quitLost>>

allVars == <<vars, threadVars>>

OwnerStep(from, to) ==
  /\ opc = from /\ opc' = to
  /\ UNCHANGED <<lpc, m_eventLoop, appQuit, quitLost>>

ThreadStep(from, to) ==
  /\ lpc = from /\ lpc' = to
  /\ UNCHANGED <<appQuit, quitLost, vars>>

-----------------------------------------------------------------------------
(* The owner: startLoop and Thread::start.                                 *)

StartThread ==
  /\ opc = "new" /\ opc' = "starting"
  /\ lpc' = "posting"
  /\ UNCHANGED <<m_eventLoop, appQuit, quitLost, vars>>

SemWaitReturns ==
  /\ lpc # "posting"
  /\ OwnerStep("starting", "locking")
  /\ UNCHANGED vars

\* Mutant: if instead of while around m_condition.wait.
ChecksOnce == OwnerStep("waiting", "started") /\ UNCHANGED vars

\* while (!m_eventLoop), under m_mutex.
FindsLoop ==
  /\ m_eventLoop
  /\ OwnerStep("locking", "started")
  /\ UNCHANGED vars

FindsNoLoop ==
  /\ ~m_eventLoop
  /\ OwnerStep("locking", "waiting")
  /\ UNCHANGED vars

\* A spurious wakeup of the condition variable.
WaitReturns == OwnerStep("waiting", "locking") /\ UNCHANGED vars

-----------------------------------------------------------------------------
(* The owner: calls on the loop it was given, and ~EventLoopThread.        *)

\* Using a loop that has been destroyed is undefined: nobody sees the effect, or
\* anything happens.
UsesLoop == opc' \in IF lpc = "ended" THEN {opc, "undefined"} ELSE {opc}

OwnerCalls ==
  /\ opc = "started"
  /\ \/ (\E f \in Functors : QueueInLoop(owner, f)) /\ UNCHANGED appQuit
     \/ Quit(owner) /\ appQuit' = TRUE
  /\ UsesLoop
  /\ UNCHANGED <<lpc, m_eventLoop, quitLost>>

\* The write of the eventfd that ends queueInLoop and quit.
OwnerWakesUp ==
  /\ Wakeup(owner)
  /\ UsesLoop
  /\ UNCHANGED <<lpc, m_eventLoop, appQuit, quitLost>>

\* ~EventLoopThread reads m_eventLoop without the lock.
BeginDestruction ==
  /\ opc \in {"new", "started"}
  /\ tpc[owner] = "idle"
  /\ opc' = IF m_eventLoop THEN "quitting" ELSE "gone"
  /\ UNCHANGED <<lpc, m_eventLoop, appQuit, quitLost, vars>>

\* Mutant: the destructor only wakes the loop up.
DestructorOnlyWakes ==
  /\ opc = "quitting" /\ opc' = "joining"
  /\ tpc' = [tpc EXCEPT ![owner] = "wakeup"]
  /\ UNCHANGED <<pc, m_quit, m_callingPendingFunctors, m_activeChannels, ready>>
  /\ UNCHANGED queueVars
  /\ UNCHANGED <<lpc, m_eventLoop, appQuit, quitLost>>

\* m_eventLoop->quit() reads the pointer again.  If it is null by now, or the loop
\* destroyed, the call is undefined: it does something, nothing, or anything.
DestructorQuits ==
  /\ opc = "quitting"
  /\ \/ Quit(owner) /\ opc' = "joining"
     \/ /\ ~m_eventLoop
        /\ opc' \in {"joining", "undefined"}
        /\ UNCHANGED vars
  /\ UNCHANGED <<lpc, m_eventLoop, appQuit, quitLost>>

\* Mutant: the destructor does not join.
DestroysWithoutJoining ==
  /\ tpc[owner] = "idle"
  /\ OwnerStep("joining", "gone")
  /\ UNCHANGED vars

Joins ==
  /\ tpc[owner] = "idle"
  /\ lpc = "ended"
  /\ OwnerStep("joining", "gone")
  /\ UNCHANGED vars

-----------------------------------------------------------------------------
(* The thread: threadFunc.                                                 *)

Posts ==
  /\ ThreadStep("posting", "init")
  /\ UNCHANGED <<opc, m_eventLoop>>

\* User code in m_threadInit and, later, in callbacks and functors.
ThreadCalls ==
  /\ lpc = "init" \/ (lpc = "loop" /\ pc # "init")
  /\ \/ (\E f \in Functors : LoopQueueInLoop(f) \/ LoopRunInLoop(f)) /\ UNCHANGED appQuit
     \/ LoopQuit /\ appQuit' = TRUE
  /\ UNCHANGED <<opc, lpc, m_eventLoop, quitLost>>

InitReturns ==
  /\ ThreadStep("init", "publishing")
  /\ UNCHANGED <<opc, m_eventLoop>>

\* Mutant: without notify_one.
PublishesSilently ==
  /\ ThreadStep("publishing", "loop")
  /\ m_eventLoop' = TRUE
  /\ UNCHANGED opc

\* m_eventLoop = &loop and notify_one, under m_mutex.
Publishes ==
  /\ ThreadStep("publishing", "loop")
  /\ m_eventLoop' = TRUE
  /\ opc' = IF opc = "waiting" THEN "locking" ELSE opc

\* loop.loop(), whose first statements clear m_quit.
Loops ==
  /\ lpc = "loop"
  /\ LoopStep
  /\ quitLost' = (quitLost \/ (pc = "init" /\ m_quit /\ opc = "joining"))
  /\ UNCHANGED <<opc, lpc, m_eventLoop, appQuit>>

Interrupted ==
  /\ lpc = "loop"
  /\ PollInterrupted
  /\ UNCHANGED threadVars

EventArrives ==
  /\ lpc = "loop"
  /\ \E c \in Channels : Arrive(c)
  /\ UNCHANGED threadVars

ClearsLoop ==
  /\ pc = "stopped"
  /\ ThreadStep("loop", "unlocking")
  /\ m_eventLoop' = FALSE
  /\ UNCHANGED opc

\* m_mutex is unlocked and the loop destroyed.
Ends ==
  /\ ThreadStep("unlocking", "ended")
  /\ UNCHANGED <<opc, m_eventLoop>>

-----------------------------------------------------------------------------
ThreadInit ==
  /\ Init
  /\ opc = "new" /\ lpc = "none"
  /\ m_eventLoop = FALSE
  /\ appQuit = FALSE /\ quitLost = FALSE

OwnerProgress ==
  \/ SemWaitReturns \/ FindsLoop \/ FindsNoLoop
  \/ OwnerWakesUp \/ DestructorQuits \/ Joins

ThreadProgress ==
  Posts \/ InitReturns \/ Publishes \/ Loops \/ ClearsLoop \/ Ends

ThreadNext ==
  \/ StartThread \/ OwnerProgress \/ WaitReturns \/ OwnerCalls \/ BeginDestruction
  \/ ThreadProgress \/ ThreadCalls \/ Interrupted \/ EventArrives

ThreadSpec == ThreadInit /\ [][ThreadNext]_allVars

\* Both threads are scheduled; m_threadInit, the callbacks and the functors return.
ThreadFairSpec ==
  ThreadSpec /\ WF_allVars(OwnerProgress) /\ WF_allVars(ThreadProgress)

-----------------------------------------------------------------------------
(* Properties.                                                             *)

\* Both program counters stay among the places above, with the loop's own types;
\* m_eventLoop is set exactly while the thread is in, or about to leave, loop().
ThreadTypeOK ==
  /\ TypeOK
  /\ opc \in {"new", "starting", "locking", "waiting", "started", "quitting",
              "joining", "gone", "undefined"}
  /\ lpc \in {"none", "posting", "init", "publishing", "loop", "unlocking", "ended"}
  /\ appQuit \in BOOLEAN /\ quitLost \in BOOLEAN
  /\ m_eventLoop = (lpc = "loop")

\* startLoop returns a loop whose initialization callback has returned and which
\* lives as long as nobody but the destructor makes it quit.
StartedLoopIsReady ==
  ~appQuit /\ opc \in {"started", "quitting"} => lpc = "loop" /\ pc # "stopped"

\* The members of an EventLoopThread that its thread uses (m_mutex, m_func) are
\* destroyed only when there is no thread, or it has ended; unless the application
\* has made the loop quit, and the destructor found it gone.
ObjectOutlivesThread ==
  ~appQuit /\ opc = "gone" => lpc \in {"none", "ended"}

\* The only way to a join that waits in vain, for a loop that goes on and is not
\* told to quit, is a destructor's quit() that came before loop() and was cleared by it.
JoinBlocksOnLostQuit ==
  opc = "joining" /\ lpc = "loop" /\ pc # "init" /\ ~m_quit => quitLost

\* startLoop returns: the notification is not lost between the test of m_eventLoop
\* and the wait.  A loop that the application ends may be gone before the owner looks.
StartLoopReturns == (opc = "starting") ~> (opc = "started" \/ appQuit)

\* A destructor that has called quit() comes to its end, or the quit was lost, or
\* the loop was destroyed while quit() was using it.
DestructorReturns == (opc = "joining") ~> (opc \in {"gone", "undefined"} \/ quitLost)
=============================================================================
