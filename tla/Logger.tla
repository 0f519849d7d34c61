------------------------------- MODULE Logger -------------------------------
(***************************************************************************)
(* The log of src/src/base/Logger.cpp: threads hand messages to the        *)
(* bounded queue of a thread pool, whose one worker writes them, while the *)
(* main thread configures the Logger and destroys it in the end (the       *)
(* singleton is static).  Queue, pool and asynchronous logger are those of *)
(* the vendored spdlog as Logger.cpp uses them: block on a full queue.     *)
(*                                                                         *)
(* The shared_ptr mLogger is copied by LOG_* and replaced by the setters   *)
(* without a lock.  The setters are taken to be called while no other      *)
(* thread is inside that copy; both are single steps here.                 *)
(***************************************************************************)
EXTENDS CircularQ

CONSTANTS
  Messages,  \* what is logged, and requests to flush, each once
  Threads,   \* the threads beside the main one
  Main,
  Capacity,  \* of the queue (8192 in the code)
  MaxLoggers \* bound: loggers made by initLogger

Flush == "flush"         \* the request of ~Logger
Terminate == "terminate" \* the request of ~thread_pool

\* What the pool's queue holds: a message or a request, and the logger it is for.
Items == [kind : {"log", "flush", Terminate}, id : Messages \cup {Flush, Terminate},
          level : Nat, logger : Nat]

ASSUME LoggerAssumption ==
  /\ Main \notin Threads /\ Capacity \in Nat \ {0} /\ MaxLoggers \in Nat \ {0}
  /\ Flush \notin Messages /\ Terminate \notin Messages /\ NoItem \notin Items

Callers == Threads \cup {Main}
Levels == {0, 1} \* trace and debug

VARIABLES
  mLevel,
  loggers,   \* every logger made so far, the last one is mLogger's
  q,         \* q_ of the pool
  pc, item,  \* of each caller: where it is in enqueue or ~thread_pool, and with what
  worker,    \* where the worker is: "dequeue", "wait", "notify", "handle" or "gone"
  hand,      \* incoming_async_msg of the worker
  registry,  \* the registry of spdlog holds the pool
  main,      \* the life of the Logger
  handled,   \* history: what was handled, in order
  written    \* history: what reached the sinks

vars == <<mLevel, loggers, q, pc, item, worker, hand, registry, main, handled, written>>

Item(kind, id, level) == [kind |-> kind, id |-> id, level |-> level, logger |-> Len(loggers)]

mLogger == loggers[Len(loggers)]

\* mLogger is destroyed after the body of ~Logger; its use after that is not modelled.
\* The Logger is a static object: the process is ending then, and its threads with it.
Alive == main # "gone"

\* A caller has a shared pointer to the pool from the lock of its weak_ptr to its return
\* from enqueue, and the one that dropped the last pointer is in ~thread_pool.
Destroying(t) == item[t] # NoItem /\ item[t].kind = Terminate
Holds(t) == pc[t] # "idle" /\ ~Destroying(t)
PoolAlive == registry \/ \E t \in Callers : Holds(t)

Used == {item[t].id : t \in {c \in Callers : item[c] # NoItem}}
Logged == {handled[i] : i \in DOMAIN handled} \cup Used
            \cup {Contents(q)[i].id : i \in DOMAIN Contents(q)}
            \cup (IF hand = NoItem THEN {} ELSE {hand.id})

-----------------------------------------------------------------------------
(* The configuration, by the main thread.                                  *)

\* initLogger: new sinks and a new logger, of the level stored by then.
AsyncLogger == [level |-> mLevel, sinks |-> mLevel, async |-> TRUE]

\* The logger initLogger falls back on if a file cannot be opened: written by the
\* caller itself.
FallbackLogger == [level |-> 1, sinks |-> 0, async |-> FALSE]

\* setConsoleOutput, setFileOutput, setLogNamePrefix, setMaxFileSize, setMaxFiles.
Reconfigure ==
  /\ main = "running" /\ pc[Main] = "idle"
  /\ Len(loggers) < MaxLoggers
  /\ \E new \in {AsyncLogger, FallbackLogger} : loggers' = Append(loggers, new)
  /\ UNCHANGED <<mLevel, q, pc, item, worker, hand, registry, main, handled, written>>

\* The sinks keep the level they were made with.
setLogLevel(level) ==
  /\ main = "running" /\ pc[Main] = "idle"
  /\ mLevel' = level
  /\ loggers' = [loggers EXCEPT ![Len(loggers)].level = level]
  /\ UNCHANGED <<q, pc, item, worker, hand, registry, main, handled, written>>

-----------------------------------------------------------------------------
(* The callers.                                                            *)

\* sink_it_ and flush_ of the asynchronous logger: without a pool the message is lost
\* (an error is reported).
Post(t, it) ==
  IF PoolAlive
    THEN pc' = [pc EXCEPT ![t] = "post"] /\ item' = [item EXCEPT ![t] = it]
    ELSE UNCHANGED <<pc, item>>

Log(t, m, level) ==
  /\ Alive /\ pc[t] = "idle" /\ (t = Main => main = "running")
  /\ m \notin Logged
  /\ level >= mLogger.level
  /\ IF mLogger.async
       THEN Post(t, Item("log", m, level)) /\ UNCHANGED <<handled, written>>
       ELSE /\ handled' = Append(handled, m)
            /\ written' = written \cup {m}
            /\ UNCHANGED <<pc, item>>
  /\ UNCHANGED <<mLevel, loggers, q, worker, hand, registry, main>>

\* flush(), m being the request: a logger without a pool flushes at once.
flush(t, m) ==
  /\ Alive /\ pc[t] = "idle" /\ (t = Main => main = "running")
  /\ m \notin Logged
  /\ mLogger.async
  /\ Post(t, Item("flush", m, 1))
  /\ UNCHANGED <<mLevel, loggers, q, worker, hand, registry, main, handled, written>>

\* Mutant: the queue is not tested, and the oldest item overrun.
EnqueueOverrun(t) ==
  /\ pc[t] = "post"
  /\ q' = PushBack(q, item[t]) /\ pc' = [pc EXCEPT ![t] = "notify"]
  /\ UNCHANGED <<mLevel, loggers, item, worker, hand, registry, main, handled, written>>

\* enqueue, with the lock: the wait on pop_cv_, or the push.
Enqueue(t) ==
  /\ pc[t] = "post"
  /\ IF Full(q)
       THEN pc' = [pc EXCEPT ![t] = "wait"] /\ UNCHANGED q
       ELSE q' = PushBack(q, item[t]) /\ pc' = [pc EXCEPT ![t] = "notify"]
  /\ UNCHANGED <<mLevel, loggers, item, worker, hand, registry, main, handled, written>>

\* push_cv_ is notified; the pointer to the pool goes, and with the last one
\* ~thread_pool begins in this very thread.
EnqueueReturns(t) ==
  LET last == ~registry /\ \A c \in Callers \ {t} : ~Holds(c)
  IN  /\ pc[t] = "notify"
      /\ worker' = IF worker = "wait" THEN "dequeue" ELSE worker
      /\ IF Destroying(t)
           THEN pc' = [pc EXCEPT ![t] = "join"] /\ UNCHANGED item
           ELSE IF last
             THEN /\ pc' = [pc EXCEPT ![t] = "post"]
                  /\ item' = [item EXCEPT ![t] = Item(Terminate, Terminate, 0)]
             ELSE pc' = [pc EXCEPT ![t] = "idle"] /\ item' = [item EXCEPT ![t] = NoItem]
      /\ UNCHANGED <<mLevel, loggers, q, hand, registry, main, handled, written>>

\* Mutant: ~thread_pool does not wait for the worker.
JoinNot(t) ==
  /\ pc[t] = "join"
  /\ pc' = [pc EXCEPT ![t] = "idle"] /\ item' = [item EXCEPT ![t] = NoItem]
  /\ UNCHANGED <<mLevel, loggers, q, worker, hand, registry, main, handled, written>>

Join(t) ==
  /\ pc[t] = "join" /\ worker = "gone"
  /\ pc' = [pc EXCEPT ![t] = "idle"] /\ item' = [item EXCEPT ![t] = NoItem]
  /\ UNCHANGED <<mLevel, loggers, q, worker, hand, registry, main, handled, written>>

SpuriousWakeup(t) ==
  /\ pc[t] = "wait"
  /\ pc' = [pc EXCEPT ![t] = "post"]
  /\ UNCHANGED <<mLevel, loggers, q, item, worker, hand, registry, main, handled, written>>

-----------------------------------------------------------------------------
(* ~Logger, by the main thread.                                            *)

\* mLogger->flush().
BeginDestroy ==
  /\ main = "running" /\ pc[Main] = "idle"
  /\ main' = "flushing"
  /\ IF mLogger.async THEN Post(Main, Item("flush", Flush, 1)) ELSE UNCHANGED <<pc, item>>
  /\ UNCHANGED <<mLevel, loggers, q, worker, hand, registry, handled, written>>

\* spdlog::shutdown(): the registry drops the loggers and the pool.
Shutdown ==
  /\ main = "flushing" /\ pc[Main] = "idle"
  /\ main' = "shutdown"
  /\ registry' = FALSE
  /\ IF \E t \in Callers : Holds(t)
       THEN UNCHANGED <<pc, item>>
       ELSE /\ pc' = [pc EXCEPT ![Main] = "post"]
            /\ item' = [item EXCEPT ![Main] = Item(Terminate, Terminate, 0)]
  /\ UNCHANGED <<mLevel, loggers, q, worker, hand, handled, written>>

EndDestroy ==
  /\ main = "shutdown" /\ pc[Main] = "idle"
  /\ main' = "gone"
  /\ UNCHANGED <<mLevel, loggers, q, pc, item, worker, hand, registry, handled, written>>

-----------------------------------------------------------------------------
(* The worker.                                                             *)

\* dequeue, with the lock: the wait on push_cv_, or the pop.
Dequeue ==
  /\ worker = "dequeue"
  /\ IF Empty(q)
       THEN worker' = "wait" /\ UNCHANGED <<q, hand>>
       ELSE worker' = "notify" /\ hand' = Front(q) /\ q' = PopFront(q)
  /\ UNCHANGED <<mLevel, loggers, pc, item, registry, main, handled, written>>

\* Mutant: pop_cv_ is not notified.
DequeueReturnsSilently ==
  /\ worker = "notify"
  /\ worker' = "handle"
  /\ UNCHANGED <<mLevel, loggers, q, pc, item, hand, registry, main, handled, written>>

\* pop_cv_.notify_one() wakes one caller that waits, if there is one.
DequeueReturns ==
  /\ worker = "notify"
  /\ worker' = "handle"
  /\ \/ \E t \in Callers : pc[t] = "wait" /\ pc' = [pc EXCEPT ![t] = "post"]
     \/ (\A t \in Callers : pc[t] # "wait") /\ UNCHANGED pc
  /\ UNCHANGED <<mLevel, loggers, q, item, hand, registry, main, handled, written>>

\* process_next_msg_: backend_sink_it_, where each sink tests the level again.
Handle ==
  /\ worker = "handle"
  /\ worker' = IF hand.kind = Terminate THEN "gone" ELSE "dequeue"
  /\ handled' = Append(handled, hand.id)
  /\ written' = IF hand.kind = "log" /\ hand.level >= loggers[hand.logger].sinks
                  THEN written \cup {hand.id} ELSE written
  /\ hand' = NoItem
  /\ UNCHANGED <<mLevel, loggers, q, pc, item, registry, main>>

-----------------------------------------------------------------------------
\* Logger::Logger.
Init ==
  /\ mLevel = 1
  /\ loggers = <<[level |-> 1, sinks |-> 1, async |-> TRUE]>>
  /\ q = NewQ(Capacity)
  /\ pc = [t \in Callers |-> "idle"] /\ item = [t \in Callers |-> NoItem]
  /\ worker = "dequeue" /\ hand = NoItem
  /\ registry = TRUE /\ main = "running"
  /\ handled = <<>> /\ written = {}

EnqueueStep(t) == Enqueue(t) \/ EnqueueReturns(t) \/ Join(t)

DestroyStep == Shutdown \/ EndDestroy

WorkerStep == Dequeue \/ DequeueReturns \/ Handle

Next ==
  \/ Reconfigure \/ \E level \in Levels : setLogLevel(level)
  \/ \E t \in Callers :
       \/ \E m \in Messages, level \in Levels : Log(t, m, level)
       \/ \E m \in Messages : flush(t, m)
       \/ EnqueueStep(t) \/ SpuriousWakeup(t)
  \/ BeginDestroy \/ DestroyStep
  \/ WorkerStep

Spec == Init /\ [][Next]_vars

\* Threads that can run do run while the process lives; nobody has to log or to end it.
FairSpec ==
  /\ Spec /\ WF_vars(Alive /\ WorkerStep) /\ WF_vars(DestroyStep)
  /\ \A t \in Callers : WF_vars(Alive /\ EnqueueStep(t))

-----------------------------------------------------------------------------
(* Properties.                                                             *)

Pushed == (IF hand = NoItem THEN <<>> ELSE <<hand>>) \o Contents(q)

\* The pool is the FIFO queue that FunctorQueue specifies: whatever thread queued it,
\* each message is handled once and in the order of the pushes, flushes and the
\* termination included; messages of a fallback logger overtake them.
LogQueue == INSTANCE FunctorQueue
  WITH Functors <- Messages \cup {Flush, Terminate},
       queue <- [i \in DOMAIN Pushed |-> Pushed[i].id], done <- handled

LogsInOrder == LogQueue!Spec

\* When the Logger is destroyed, everything that was queued has been written; unless
\* another thread was inside a LOG_* call then and has kept the pool alive.  The
\* process ends soon after that.
ShutdownDrains ==
  main = "gone" => Pushed = <<>> \/ \E t \in Threads : pc[t] # "idle"

\* Every message a thread has begun to queue reaches the sinks, even if it had to wait
\* at a full queue while the Logger is being destroyed; unless setLogLevel has let it
\* through to sinks that were made for a higher level, or ~Logger has returned while
\* some thread was inside a LOG_* call: the pool is left to that thread then, and the
\* process may end before the worker gets to the message.
LoggedIsWritten ==
  \A m \in Messages :
    (\E t \in Callers : item[t] # NoItem /\ item[t].id = m /\ item[t].kind = "log"
                          /\ item[t].level >= loggers[item[t].logger].sinks)
      ~> (m \in written \/ (~Alive /\ \E t \in Threads : pc[t] # "idle"))
=============================================================================
