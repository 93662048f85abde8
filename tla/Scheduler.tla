------------------------------ MODULE Scheduler ------------------------------
(***************************************************************************)
(* The ready queue of the coroutine library: round_robin_scheduler         *)
(* (coroutine/src/scheduler.hpp) together with the global `current` of     *)
(* coroutine.cpp.  Every component that switches coroutines extends this   *)
(* module: the library itself (Coroutine), its abstract specification      *)
(* (PrivateStacks) and the event loop (EventLoop).                         *)
(*                                                                         *)
(* A coroutine is its address.  An address may be reused by a later        *)
(* co_create, as `new` reuses memory.                                      *)
(***************************************************************************)
EXTENDS Integers, Sequences, Functions

CONSTANTS
    Coroutine,      \* the coroutine objects, the one of co_init included
    Main            \* the coroutine co_init makes of the thread that calls it

ASSUME MainAssumption == Main \in Coroutine

VARIABLES
    current,        \* coroutine *current
    queue_          \* std::list<T> queue_ of the scheduler

(* Mistaken variant: push_front.                                           *)
enqueueFront(q, co) == <<co>> \o q

(* enqueue(t) as a function of the queue: push_back.                       *)
enqueue(q, co) == Append(q, co)

(* dequeue(): front, then pop_front.  On an empty list front() is undefined*)
(* and co_sched aborts on a null pointer: the model has no step there.     *)
dequeue(q, co) ==
    /\ q # << >>
    /\ co = Head(q)
    /\ queue_' = Tail(q)

(* num(), which co_num_ready() returns.                                    *)
num == Len(queue_)

(* A coroutine that no co_sched can reach before somebody posts it.        *)
Suspended(co) == co # current /\ co \notin Range(queue_)

(* The abort() of co_sched is never reached: while another coroutine runs, *)
(* Main is ready, so dequeue finds somebody.                               *)
MainReady == current # Main => Main \in Range(queue_)

=============================================================================
