---------------------------- MODULE FunctorQueue ----------------------------
(***************************************************************************)
(* What EventLoop promises to the threads that hand it functors: one FIFO  *)
(* queue, from which the loop thread executes one functor at a time, each  *)
(* functor at most once.  A call of runInLoop made by the loop thread      *)
(* itself executes its functor at once, ahead of the queue.                *)
(*                                                                         *)
(* The module knows nothing of mutexes, batches, eventfds or epoll.        *)
(***************************************************************************)
EXTENDS Naturals, Sequences, Functions

CONSTANT Functors  \* the functors the callers may hand in, each at most once

VARIABLES queue,   \* handed in and not executed yet, oldest first
          done     \* executed, in the order of execution

vars == <<queue, done>>

Fresh(f) == f \notin Range(queue) \cup Range(done)

Init == queue = <<>> /\ done = <<>>

\* A functor is handed in behind all the others.
Submit(f) ==
  /\ Fresh(f)
  /\ queue' = Append(queue, f)
  /\ UNCHANGED done

\* The loop thread executes the oldest functor.
ExecuteHead ==
  /\ queue # <<>>
  /\ done' = Append(done, Head(queue))
  /\ queue' = Tail(queue)

\* The loop thread executes a functor of its own without queueing it.
ExecuteNow(f) ==
  /\ Fresh(f)
  /\ done' = Append(done, f)
  /\ UNCHANGED queue

Next ==
  \/ \E f \in Functors : Submit(f) \/ ExecuteNow(f)
  \/ ExecuteHead

Spec == Init /\ [][Next]_vars
=============================================================================
