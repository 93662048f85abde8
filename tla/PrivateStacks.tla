---------------------------- MODULE PrivateStacks ----------------------------
(***************************************************************************)
(* What coroutine.h promises, whatever stack a coroutine runs on: every    *)
(* coroutine has frames of its own.  They change only while it runs, the   *)
(* switching calls hand control to the coroutine that has waited longest,  *)
(* and a resumed coroutine finds the frames it left.  Where the frames are *)
(* kept, copied or shared is not part of the promise.                      *)
(***************************************************************************)
EXTENDS Scheduler

CONSTANTS
    Frame,          \* the frame contents the properties tell apart
    Guard,          \* those of a new coroutine: the return address co_exit
    NULL

VARIABLE view       \* view[co]: the frames of co, NULL when there is no co

vars == <<current, queue_, view>>

Init ==
    /\ current = Main
    /\ queue_ = << >>
    /\ view = [co \in Coroutine |-> IF co = Main THEN Guard ELSE NULL]

(* Control goes to the head of q.                                          *)
SwitchTo(q) == \E next \in Coroutine : dequeue(q, next) /\ current' = next

(* The running coroutine calls and returns: its own frames change.         *)
Run == \E f \in Frame :
    /\ view' = [view EXCEPT ![current] = f]
    /\ UNCHANGED <<current, queue_>>

(* co_create or co_create_shared.                                          *)
Create(co) ==
    /\ view[co] = NULL
    /\ view' = [view EXCEPT ![co] = Guard]
    /\ UNCHANGED <<current, queue_>>

(* co_destroy of a coroutine that does not run and is not about to.        *)
Destroy(co) ==
    /\ view[co] # NULL /\ Suspended(co)
    /\ view' = [view EXCEPT ![co] = NULL]
    /\ UNCHANGED <<current, queue_>>

(* co_post: put the coroutine to run later.                                *)
Post(co) ==
    /\ view[co] # NULL /\ Suspended(co)
    /\ queue_' = enqueue(queue_, co)
    /\ UNCHANGED <<current, view>>

(* co_resched: pick another coroutine to run, the caller stays ready.      *)
Resched == SwitchTo(enqueue(queue_, current)) /\ UNCHANGED view

(* co_yield: the caller waits to be posted.                                *)
Yield == current # Main /\ SwitchTo(queue_) /\ UNCHANGED view

(* co_exit: destroy the current coroutine.                                 *)
Exit ==
    /\ current # Main
    /\ view' = [view EXCEPT ![current] = NULL]
    /\ SwitchTo(queue_)

Next ==
    \/ Run \/ Resched \/ Yield \/ Exit
    \/ \E co \in Coroutine : Create(co) \/ Destroy(co) \/ Post(co)

Spec == Init /\ [][Next]_vars

=============================================================================
