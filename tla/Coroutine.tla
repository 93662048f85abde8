------------------------------ MODULE Coroutine ------------------------------
(***************************************************************************)
(* The coroutine library (coroutine/src/coroutine.{h,cpp}, asm/swapper.s). *)
(*                                                                         *)
(* A coroutine made by co_create runs on a stack of its own.  One made by  *)
(* co_create_shared runs on a stack of the pool, which it shares with      *)
(* others: co_swap_in copies the frames of the previous user out, into its *)
(* stack_copy_, and copies those of the next one in.                       *)
(*                                                                         *)
(* Frames and registers.  What lies between RSP and stack_top is one value:*)
(* whose frames they are and what is in them.  A saved context is the      *)
(* value its RSP and callee-saved registers belong to.  A context loaded   *)
(* over other frames than its own runs into garbage, so copying with an    *)
(* RSP that belongs to other frames yields NoFrames.                       *)
(***************************************************************************)
EXTENDS Scheduler

CONSTANTS
    Shared,         \* the coroutines co_create_shared makes
    PoolSize,       \* shared_stack_pool_size, 1 in coroutine.cpp
    Frame,          \* the frame contents the properties tell apart
    Guard,          \* those of a new coroutine: the return address co_exit
    NULL            \* the null pointer

ASSUME SharedAssumption == Shared \subseteq Coroutine \ {Main}
ASSUME PoolAssumption == PoolSize \in Nat \ {0}
ASSUME FrameAssumption == Guard \in Frame /\ NULL \notin Frame
ASSUME NullAssumption == NULL \notin Coroutine

Pool == 0 .. PoolSize - 1

Image == [of : Coroutine, frame : Frame]

NoFrames == [of |-> NULL, frame |-> NULL]

VARIABLES
    live,           \* the coroutines that exist
    cpu,            \* the coroutine whose code the processor executes
    saved_ctx,      \* saved_ctx[co]: the context of co, as saved
    stack,          \* stack[co]: the pool stack of a shared co
    stack_copy_,    \* stack_copy_[co]: the frames copied out, NoFrames if null
    used_by,        \* used_by[s]: whose frames pool stack s holds, or NULL
    pool_mem,       \* pool_mem[s]: what is in pool stack s
    own_mem,        \* own_mem[co]: what is in the private stack of co
    shared_stack_alloc_count    \* modulo PoolSize, all it is used for

stackVars == <<saved_ctx, stack, stack_copy_, used_by, pool_mem, own_mem,
               shared_stack_alloc_count>>
vars == <<current, queue_, live, cpu, stackVars>>

use_shared_stack(co) == co \in Shared

TypeOK ==
    /\ current \in Coroutine
    /\ queue_ \in Seq(Coroutine)
    /\ live \subseteq Coroutine
    /\ cpu \in Coroutine \cup {NULL}
    /\ saved_ctx \in [Coroutine -> Image \cup {NoFrames}]
    /\ stack \in [Shared -> Pool]
    /\ stack_copy_ \in [Coroutine -> Image \cup {NoFrames}]
    /\ used_by \in [Pool -> Coroutine \cup {NULL}]
    /\ pool_mem \in [Pool -> Image \cup {NoFrames}]
    /\ own_mem \in [Coroutine -> Image \cup {NoFrames}]
    /\ shared_stack_alloc_count \in Pool

Fresh(co) == [of |-> co, frame |-> Guard]

(* co_init: the caller becomes the coroutine Main, on the thread's stack.  *)
co_init ==
    /\ current = Main /\ cpu = Main
    /\ queue_ = << >>
    /\ live = {Main}
    /\ saved_ctx = [co \in Coroutine |-> NoFrames]
    /\ stack = [co \in Shared |-> 0]
    /\ stack_copy_ = [co \in Coroutine |-> NoFrames]
    /\ used_by = [s \in Pool |-> NULL]
    /\ pool_mem = [s \in Pool |-> NoFrames]
    /\ own_mem = [co \in Coroutine |-> IF co = Main THEN Fresh(Main) ELSE NoFrames]
    /\ shared_stack_alloc_count = 0

-----------------------------------------------------------------------------
(* The frames the processor works on: those on the stack of the code that  *)
(* runs.                                                                   *)
Frames(co) == IF use_shared_stack(co) THEN pool_mem[stack[co]] ELSE own_mem[co]

(* Mistaken variant: somebody uses the stack, whoever it is.               *)
in_stackOfAnybody(co, users) == ~use_shared_stack(co) \/ users[stack[co]] # NULL

in_stack(co, users) == ~use_shared_stack(co) \/ users[stack[co]] = co

(* The bytes from the RSP of ctx to stack_top, when mem is on the stack.   *)
Slice(mem, ctx) == IF mem = ctx THEN mem ELSE NoFrames

save_stack(co, copies) ==
    [copies EXCEPT ![co] = Slice(pool_mem[stack[co]], saved_ctx'[co])]

restore_stack(co, users, copies) ==
    /\ pool_mem' = [pool_mem EXCEPT ![stack[co]] = copies[co]]
    /\ stack_copy_' = [copies EXCEPT ![co] = NoFrames]
    /\ used_by' = [users EXCEPT ![stack[co]] = co]

(* Mistaken variant: the frames of the previous user are not copied out.   *)
co_swap_inNoSave(co, users, copies) ==
    IF in_stack(co, users)
    THEN /\ used_by' = users /\ stack_copy_' = copies /\ UNCHANGED pool_mem
    ELSE restore_stack(co, users, copies)

(* co_swap_in(co), with the used_by and stack_copy_ it finds.              *)
co_swap_in(co, users, copies) ==
    IF in_stack(co, users)
    THEN /\ used_by' = users /\ stack_copy_' = copies /\ UNCHANGED pool_mem
    ELSE LET user == users[stack[co]] IN
         restore_stack(co, users,
             IF user # NULL THEN save_stack(user, copies) ELSE copies)

(* co_sched(): run the first coroutine of q.  The queue, used_by and       *)
(* stack_copy_ are those the caller leaves; saved_ctx' is already saved.   *)
co_sched(q, users, copies) == \E next \in Coroutine :
    /\ dequeue(q, next)
    /\ current' = next
    /\ co_swap_in(next, users, copies)
    /\ cpu' = saved_ctx'[next].of

(* save_context: the registers of the code that runs go to the saved_ctx   *)
(* of co, which is `current` at every call.                                *)
save_context(co) == saved_ctx' = [saved_ctx EXCEPT ![co] = Frames(cpu)]

(* Mistaken variant: the destructor leaves used_by alone.                  *)
UsersWithoutReset(co) == used_by

(* What ~coroutine leaves of the pool and of the copies.  The fields of the*)
(* freed object get the values they have before co_create.                 *)
UsersWithout(co) == [s \in Pool |->
    IF use_shared_stack(co) /\ s = stack[co] /\ used_by[s] = co
    THEN NULL ELSE used_by[s]]

CopiesWithout(co) == [stack_copy_ EXCEPT ![co] = NoFrames]

delete(co) ==
    /\ live' = live \ {co}
    /\ stack' = [c \in Shared |-> IF c = co THEN 0 ELSE stack[c]]
    /\ saved_ctx' = [saved_ctx EXCEPT ![co] = NoFrames]
    /\ own_mem' = [own_mem EXCEPT ![co] = NoFrames]

-----------------------------------------------------------------------------
(* The code of the running coroutine calls and returns.                    *)
Run == \E f \in Frame :
    LET image == [of |-> cpu, frame |-> f] IN
    /\ IF use_shared_stack(cpu)
       THEN pool_mem' = [pool_mem EXCEPT ![stack[cpu]] = image] /\ UNCHANGED own_mem
       ELSE own_mem' = [own_mem EXCEPT ![cpu] = image] /\ UNCHANGED pool_mem
    /\ UNCHANGED <<current, queue_, live, cpu, saved_ctx, stack, stack_copy_,
                   used_by, shared_stack_alloc_count>>

(* co_create, co_create_cxx.                                               *)
co_create(co) ==
    /\ co \notin live /\ ~use_shared_stack(co)
    /\ live' = live \cup {co}
    /\ own_mem' = [own_mem EXCEPT ![co] = Fresh(co)]
    /\ saved_ctx' = [saved_ctx EXCEPT ![co] = Fresh(co)]
    /\ UNCHANGED <<current, queue_, cpu, stack, stack_copy_, used_by, pool_mem,
                   shared_stack_alloc_count>>

(* Mistaken variant: the count does not wrap.                              *)
co_alloc_shared_stackNoWrap(s) ==
    /\ s = shared_stack_alloc_count
    /\ shared_stack_alloc_count' = shared_stack_alloc_count + 1

(* The index co_alloc_shared_stack takes and the count it leaves.          *)
co_alloc_shared_stack(s) ==
    /\ s = shared_stack_alloc_count
    /\ shared_stack_alloc_count' = (shared_stack_alloc_count + 1) % PoolSize

(* co_create_shared, co_create_cxx_shared: the copy holds the return guard.*)
co_create_shared(co) ==
    /\ co \notin live /\ use_shared_stack(co)
    /\ live' = live \cup {co}
    /\ \E s \in Pool : co_alloc_shared_stack(s) /\ stack' = [stack EXCEPT ![co] = s]
    /\ stack_copy_' = [stack_copy_ EXCEPT ![co] = Fresh(co)]
    /\ saved_ctx' = [saved_ctx EXCEPT ![co] = Fresh(co)]
    /\ UNCHANGED <<current, queue_, cpu, used_by, pool_mem, own_mem>>

(* co_destroy(co), as documented for a coroutine that is not running: it   *)
(* stays in the ready queue if it is there.                                *)
co_destroy(co) ==
    /\ co \in live \ {Main} /\ co # current
    /\ delete(co)
    /\ used_by' = UsersWithout(co) /\ stack_copy_' = CopiesWithout(co)
    /\ UNCHANGED <<current, queue_, cpu, pool_mem, shared_stack_alloc_count>>

(* co_post(co).  Its callers post a coroutine that is suspended: a second  *)
(* entry would run it when it does not expect to run.                      *)
co_post(co) ==
    /\ co \in live /\ Suspended(co)
    /\ queue_' = enqueue(queue_, co)
    /\ UNCHANGED <<current, live, cpu, stackVars>>

(* Mistaken variant: the caller does not enter the ready queue.            *)
co_reschedNoEnqueue ==
    /\ save_context(current)
    /\ co_sched(queue_, used_by, stack_copy_)
    /\ UNCHANGED <<live, stack, own_mem, shared_stack_alloc_count>>

co_resched ==
    /\ save_context(current)
    /\ co_sched(enqueue(queue_, current), used_by, stack_copy_)
    /\ UNCHANGED <<live, stack, own_mem, shared_stack_alloc_count>>

(* co_yield: called by every coroutine but Main, whose loop only           *)
(* reschedules.                                                            *)
co_yield ==
    /\ current # Main
    /\ save_context(current)
    /\ co_sched(queue_, used_by, stack_copy_)
    /\ UNCHANGED <<live, stack, own_mem, shared_stack_alloc_count>>

(* Mistaken variant: a coroutine that exits is posted like one that yields.*)
co_exitEnqueues ==
    /\ current # Main
    /\ delete(current)
    /\ co_sched(enqueue(queue_, current), UsersWithout(current), CopiesWithout(current))
    /\ UNCHANGED shared_stack_alloc_count

(* co_exit, also reached through the return guard.                         *)
co_exit ==
    /\ current # Main
    /\ delete(current)
    /\ co_sched(queue_, UsersWithout(current), CopiesWithout(current))
    /\ UNCHANGED shared_stack_alloc_count

(* co_dispath(co): `current` is already co when the context is saved, so   *)
(* the caller's registers overwrite the context of co and load_context     *)
(* returns to the caller.                                                  *)
co_dispath(co) ==
    /\ co \in live /\ Suspended(co)
    /\ queue_' = enqueue(queue_, current)
    /\ current' = co
    /\ save_context(co)
    /\ cpu' = saved_ctx'[co].of
    /\ UNCHANGED <<live, stack, stack_copy_, used_by, pool_mem, own_mem,
                   shared_stack_alloc_count>>

-----------------------------------------------------------------------------
Init == co_init

Switch == co_resched \/ co_yield \/ co_exit

(* A coroutine is only destroyed when nothing will run it any more.        *)
DestroySuspended(co) == co_destroy(co) /\ Suspended(co)

Next ==
    \/ Run \/ Switch
    \/ \E co \in Coroutine :
        co_create(co) \/ co_create_shared(co) \/ co_post(co) \/ DestroySuspended(co)

Spec == Init /\ [][Next]_vars

(* Cooperative scheduling: no coroutine computes forever without calling   *)
(* one of the switching functions.                                         *)
FairSpec == Spec /\ WF_vars(Switch)

(* The uses the header documents and the rest of the repository avoids.    *)
SpecDispath == Init /\ [][Next \/ \E co \in Coroutine : co_dispath(co)]_vars
SpecDestroy == Init /\ [][Next \/ \E co \in Coroutine : co_destroy(co)]_vars

-----------------------------------------------------------------------------
(* Where the frames of a coroutine are: in its stack_copy_ while another   *)
(* one uses its pool stack, else on its stack.                             *)
Kept(co, users, copies) == IF in_stack(co, users) THEN Frames(co) ELSE copies[co]

Resolved(co) == Kept(co, used_by, stack_copy_)

(* The ready queue holds each coroutine once, never the running one, and   *)
(* nothing that was deleted.                                               *)
ReadyOnce ==
    /\ IsInjective(queue_)
    /\ current \notin Range(queue_)
    /\ Range(queue_) \cup {current} \subseteq live

(* The frames a suspended coroutine will be resumed on are, byte for byte, *)
(* those its saved registers belong to; the running code runs on frames of *)
(* its own and `current` names it.                                         *)
StackIntact ==
    /\ cpu = current /\ in_stack(current, used_by) /\ Frames(current).of = current
    /\ \A co \in live \ {current} : Resolved(co) = saved_ctx[co] /\ saved_ctx[co].of = co

(* The frames of a shared coroutine are in one place: it owns a stack_copy_*)
(* exactly when it does not use its pool stack, and a pool stack is only   *)
(* ever used by a coroutine that exists and was given that stack.          *)
SingleHome ==
    /\ \A co \in live \cap Shared : (stack_copy_[co] = NoFrames) <=> in_stack(co, used_by)
    /\ \A s \in Pool : used_by[s] # NULL =>
        used_by[s] \in live \cap Shared /\ stack[used_by[s]] = s

(* The frames each coroutine has of its own, as far as it has them.        *)
View == [co \in Coroutine |->
    IF co \in live /\ Resolved(co).of = co THEN Resolved(co).frame ELSE NULL]

(* Sharing stacks is invisible: the library implements PrivateStacks.      *)
Abstract == INSTANCE PrivateStacks WITH current <- cpu, view <- View

ImplementsPrivateStacks == Abstract!Spec

(* Round robin starves nobody: a posted coroutine runs or is destroyed.    *)
ReadyEventuallyRuns ==
    \A co \in Coroutine : co \in Range(queue_) ~> cpu = co

(* Nobody is overtaken: with each switch every ready coroutine comes one   *)
(* place nearer to the processor, and nothing else moves it, whoever is    *)
(* posted, ends or is destroyed meanwhile.                                 *)
TurnsComeInOrder == [][\A i \in DOMAIN queue_ :
    IF Switch
    THEN IF i = 1 THEN current' = queue_[i] /\ cpu' = queue_[i] ELSE queue_'[i - 1] = queue_[i]
    ELSE i \in DOMAIN queue_' /\ queue_'[i] = queue_[i]]_vars

(* "run the coroutine immedately" (coroutine.h:179).                       *)
DispatchRunsImmediately ==
    [][\A co \in Coroutine : co_dispath(co) => cpu' = co]_vars

(* "destroy coroutine which isn't running" (coroutine.h:180): what is left *)
(* in the ready queue exists.                                              *)
QueuedAreLive == Range(queue_) \subseteq live

=============================================================================
