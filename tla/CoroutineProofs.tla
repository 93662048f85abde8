-------------------------- MODULE CoroutineProofs --------------------------
(***************************************************************************)
(* Proofs about Coroutine, for any coroutines, any frame contents and any  *)
(* number of pool stacks.                                                  *)
(***************************************************************************)
EXTENDS Coroutine, SchedulerProofs

(* The inductive invariant: the named parts need each other.  The stacks   *)
(* are intact only because each shared coroutine has one home and what is  *)
(* ready exists; there is always somebody to switch to because Main is     *)
(* ready; and no entry is lost because none occurs twice.                  *)
IInv == TypeOK /\ MainReady /\ ReadyOnce /\ StackIntact /\ SingleHome

-----------------------------------------------------------------------------
(* Switching stacks.                                                       *)

(* What a caller of co_sched must have established for the stacks it leaves*)
(* behind: every coroutine that will exist is suspended in frames its saved*)
(* context belongs to, in one place.                                       *)
AllSuspended(users, copies) ==
    /\ \A co \in live' :
        /\ Kept(co, users, copies) = saved_ctx'[co] /\ saved_ctx'[co].of = co
        /\ own_mem'[co] = own_mem[co]
    /\ \A co \in live' \cap Shared :
        /\ stack'[co] = stack[co]
        /\ (copies[co] = NoFrames) <=> in_stack(co, users)
    /\ \A s \in Pool : users[s] # NULL =>
        users[s] \in live' \cap Shared /\ stack[users[s]] = s

(* Every coroutine, the running one too, is just as its context was saved. *)
AsSaved == \A co \in live : Resolved(co) = saved_ctx[co] /\ saved_ctx[co].of = co

(* co_sched resumes the next coroutine on its own frames and keeps those of*)
(* every other one: the step that makes sharing a stack sound.             *)
LEMMA SwitchFacts ==
    ASSUME TypeOK,
           live' \subseteq Coroutine,
           saved_ctx' \in [Coroutine -> Image \cup {NoFrames}],
           NEW q \in Seq(Coroutine), Range(q) \subseteq live',
           NEW users \in [Pool -> Coroutine \cup {NULL}],
           NEW copies \in [Coroutine -> Image \cup {NoFrames}],
           AllSuspended(users, copies),
           co_sched(q, users, copies)
    PROVE  /\ cpu' = current' /\ current' \in Coroutine
           /\ q # << >> /\ current' = Head(q) /\ queue_' = Tail(q)
           /\ used_by' \in [Pool -> Coroutine \cup {NULL}]
           /\ stack_copy_' \in [Coroutine -> Image \cup {NoFrames}]
           /\ pool_mem' \in [Pool -> Image \cup {NoFrames}]
           /\ StackIntact' /\ SingleHome' /\ AsSaved'
<1>. DEFINE next == Head(q)
<1>1. /\ q # << >> /\ current' = next /\ queue_' = Tail(q)
      /\ next \in live' /\ next \in Coroutine
      /\ co_swap_in(next, users, copies)
      /\ cpu' = saved_ctx'[next].of
    BY DequeueFacts DEF co_sched, dequeue
<1>2. cpu' = current'
    BY <1>1 DEF AllSuspended
<1>. HIDE DEF next
<1>3. CASE in_stack(next, users)
    <2>1. used_by' = users /\ stack_copy_' = copies /\ pool_mem' = pool_mem
        BY <1>1, <1>3 DEF co_swap_in
    <2>2. \A co \in live' : Resolved(co)' = saved_ctx'[co] /\ saved_ctx'[co].of = co
        BY <2>1 DEF AllSuspended, Resolved, Kept, in_stack, Frames, use_shared_stack
    <2>3. StackIntact'
        BY <1>1, <1>2, <1>3, <2>1, <2>2
        DEF StackIntact, Resolved, Kept, in_stack, use_shared_stack, AllSuspended
    <2>4. SingleHome'
        BY <2>1 DEF SingleHome, AllSuspended, in_stack, use_shared_stack
    <2>. QED
        BY <1>1, <1>2, <2>1, <2>2, <2>3, <2>4 DEF TypeOK, next, AsSaved
<1>4. CASE ~in_stack(next, users)
    <2>. DEFINE s == stack[next]
                user == users[s]
                saved == IF user # NULL THEN save_stack(user, copies) ELSE copies
    <2>1. next \in Shared /\ s \in Pool /\ user # next /\ stack'[next] = s
        BY <1>1, <1>4 DEF in_stack, use_shared_stack, TypeOK, AllSuspended
    <2>2. /\ pool_mem' = [pool_mem EXCEPT ![s] = saved[next]]
          /\ stack_copy_' = [saved EXCEPT ![next] = NoFrames]
          /\ used_by' = [users EXCEPT ![s] = next]
        BY <1>1, <1>4 DEF co_swap_in, restore_stack
    <2>3. user # NULL =>
            /\ user \in live' \cap Shared /\ user \in Coroutine /\ stack[user] = s
            /\ in_stack(user, users)
            /\ pool_mem[s] = saved_ctx'[user] /\ saved_ctx'[user].of = user
            /\ save_stack(user, copies) = [copies EXCEPT ![user] = saved_ctx'[user]]
        <3>1. SUFFICES ASSUME user # NULL PROVE
                /\ user \in live' \cap Shared /\ user \in Coroutine /\ stack[user] = s
                /\ in_stack(user, users)
                /\ pool_mem[s] = saved_ctx'[user] /\ saved_ctx'[user].of = user
                /\ save_stack(user, copies) = [copies EXCEPT ![user] = saved_ctx'[user]]
            OBVIOUS
        <3>2. user \in live' \cap Shared /\ user \in Coroutine /\ stack[user] = s
            BY <2>1, <3>1 DEF AllSuspended
        <3>. HIDE DEF user, s
        <3>3. users[stack[user]] = user
            BY <3>2 DEF user
        <3>4. in_stack(user, users) /\ Frames(user) = pool_mem[s]
            BY <3>2, <3>3 DEF in_stack, Frames, use_shared_stack
        <3>5. Kept(user, users, copies) = saved_ctx'[user] /\ saved_ctx'[user].of = user
            BY <3>2 DEF AllSuspended
        <3>6. pool_mem[s] = saved_ctx'[user] /\ saved_ctx'[user].of = user
            BY <3>4, <3>5 DEF Kept
        <3>. QED
            BY <3>2, <3>4, <3>6 DEF save_stack, Slice
    <2>4. saved \in [Coroutine -> Image \cup {NoFrames}]
        BY <2>3
    <2>5. /\ saved[next] = saved_ctx'[next]
          /\ \A co \in Coroutine \ {next, user} : saved[co] = copies[co]
          /\ user # NULL => saved[user] = saved_ctx'[user]
        BY <1>1, <1>4, <2>1, <2>3 DEF AllSuspended, Kept
    <2>. HIDE DEF s, user, saved
    <2>6. /\ used_by' \in [Pool -> Coroutine \cup {NULL}]
          /\ stack_copy_' \in [Coroutine -> Image \cup {NoFrames}]
          /\ pool_mem' \in [Pool -> Image \cup {NoFrames}]
        BY <1>1, <2>1, <2>2, <2>4 DEF TypeOK
    <2>7. ASSUME NEW co \in live'
          PROVE  Resolved(co)' = saved_ctx'[co] /\ saved_ctx'[co].of = co
        <3>1. saved_ctx'[co].of = co /\ co \in Coroutine
            BY DEF AllSuspended
        <3>2. CASE co = next
            BY <1>1, <2>1, <2>2, <2>5, <3>1, <3>2
            DEF Resolved, Kept, in_stack, Frames, use_shared_stack, TypeOK
        <3>3. CASE co = user /\ co # next
            <4>1. stack'[co] = s /\ co \in Shared
                BY <2>3, <3>3, NullAssumption DEF AllSuspended, user
            <4>. QED
                BY <2>1, <2>2, <2>3, <2>4, <2>5, <3>1, <3>3, <4>1, NullAssumption
                DEF Resolved, Kept, in_stack, use_shared_stack
        <3>4. CASE co # user /\ co # next /\ co \in Shared
            <4>1. stack'[co] = stack[co] /\ stack[co] \in Pool
                BY <3>4 DEF AllSuspended, TypeOK
            <4>2. in_stack(co, users) => stack[co] # s
                BY <3>4, <4>1 DEF in_stack, use_shared_stack, user
            <4>3. in_stack(co, used_by)' <=> in_stack(co, users)
                BY <2>1, <2>2, <3>4, <4>1, <4>2 DEF in_stack, use_shared_stack
            <4>4. Kept(co, users, copies) = saved_ctx'[co]
                BY DEF AllSuspended
            <4>5. stack_copy_'[co] = copies[co]
                BY <2>2, <2>4, <2>5, <3>1, <3>4
            <4>6. in_stack(co, users) => Frames(co)' = Frames(co)
                BY <2>2, <3>4, <4>1, <4>2 DEF Frames, use_shared_stack, TypeOK
            <4>. QED
                BY <3>1, <4>3, <4>4, <4>5, <4>6 DEF Resolved, Kept
        <3>5. CASE co \notin Shared
            BY <3>1, <3>5
            DEF AllSuspended, Resolved, Kept, in_stack, Frames, use_shared_stack
        <3>. QED
            BY <3>2, <3>3, <3>4, <3>5
    <2>8. in_stack(next, used_by)'
        BY <2>1, <2>2, <1>1 DEF in_stack, use_shared_stack
    <2>9. StackIntact'
        BY <1>1, <1>2, <2>7, <2>8 DEF StackIntact, Resolved, Kept
    <2>10. SingleHome'
        <3>1. ASSUME NEW co \in live', co \in Shared
              PROVE  (stack_copy_'[co] = NoFrames) <=> in_stack(co, used_by)'
            <4>1. co \in Coroutine /\ stack'[co] = stack[co] /\ stack[co] \in Pool
                BY <3>1 DEF AllSuspended, TypeOK
            <4>2. CASE co = next
                BY <2>2, <2>4, <2>8, <4>1, <4>2
            <4>3. CASE co = user /\ co # next
                <5>1. stack_copy_'[co] = saved_ctx'[co] /\ saved_ctx'[co].of = co
                    BY <2>2, <2>3, <2>4, <2>5, <4>1, <4>3, NullAssumption
                <5>2. stack_copy_'[co] # NoFrames
                    BY <4>1, <5>1, NullAssumption DEF NoFrames
                <5>3. ~in_stack(co, used_by)'
                    BY <2>1, <2>2, <2>3, <3>1, <4>1, <4>3, NullAssumption
                    DEF in_stack, use_shared_stack
                <5>. QED
                    BY <5>2, <5>3
            <4>4. CASE co # user /\ co # next
                <5>1. stack_copy_'[co] = copies[co]
                    BY <2>2, <2>4, <2>5, <4>1, <4>4
                <5>2. in_stack(co, used_by)' <=> in_stack(co, users)
                    BY <2>1, <2>2, <3>1, <4>1, <4>4
                    DEF in_stack, use_shared_stack, user
                <5>. QED
                    BY <3>1, <5>1, <5>2 DEF AllSuspended
            <4>. QED
                BY <4>2, <4>3, <4>4
        <3>2. ASSUME NEW t \in Pool, used_by'[t] # NULL
              PROVE  used_by'[t] \in live' \cap Shared /\ stack'[used_by'[t]] = t
            BY <1>1, <2>1, <2>2, <3>2 DEF AllSuspended
        <3>. QED
            BY <3>1, <3>2 DEF SingleHome
    <2>. QED
        BY <1>1, <1>2, <2>6, <2>7, <2>9, <2>10 DEF next, AsSaved
<1>. QED
    BY <1>3, <1>4

-----------------------------------------------------------------------------
(* The invariant holds initially and every action keeps it.                *)

LEMMA InitInv == Init => IInv
<1>. SUFFICES ASSUME Init PROVE IInv
    OBVIOUS
<1>1. TypeOK
    BY MainAssumption, SharedAssumption, PoolAssumption, FrameAssumption
    DEF Init, co_init, TypeOK, Fresh, Image, NoFrames, Pool
<1>2. Range(queue_) = {}
    BY DEF Init, co_init, Range
<1>3. MainReady /\ ReadyOnce
    BY <1>2 DEF Init, co_init, MainReady, ReadyOnce, IsInjective
<1>4. StackIntact
    BY MainAssumption, SharedAssumption
    DEF Init, co_init, StackIntact, in_stack, use_shared_stack, Frames, Fresh
<1>5. SingleHome
    BY SharedAssumption DEF Init, co_init, SingleHome
<1>. QED
    BY <1>1, <1>3, <1>4, <1>5 DEF IInv

LEMMA RunInv == ASSUME IInv, Run PROVE IInv'
<1>. USE DEF IInv
<1>1. PICK f \in Frame : LET image == [of |-> cpu, frame |-> f] IN
        IF use_shared_stack(cpu)
        THEN pool_mem' = [pool_mem EXCEPT ![stack[cpu]] = image] /\ UNCHANGED own_mem
        ELSE own_mem' = [own_mem EXCEPT ![cpu] = image] /\ UNCHANGED pool_mem
    BY DEF Run
<1>2. cpu = current /\ cpu \in Coroutine /\ UNCHANGED <<current, queue_, live, cpu,
        saved_ctx, stack, stack_copy_, used_by, shared_stack_alloc_count>>
    BY DEF Run, StackIntact, TypeOK
<1>3. TypeOK'
    BY <1>1, <1>2 DEF TypeOK, Image
<1>4. MainReady' /\ ReadyOnce'
    BY <1>2 DEF MainReady, ReadyOnce, Range
<1>5. SingleHome'
    BY <1>2 DEF SingleHome, in_stack
<1>6. in_stack(current, used_by)' /\ Frames(current)'.of = current'
    BY <1>1, <1>2 DEF TypeOK, StackIntact, in_stack, Frames, use_shared_stack
<1>7. ASSUME NEW co \in live, co # current
      PROVE  Resolved(co)' = Resolved(co)
    <2>1. CASE co \in Shared /\ used_by[stack[co]] = co
        <3>1. ~(current \in Shared /\ stack[current] = stack[co])
            BY <1>7, <2>1 DEF StackIntact, in_stack, use_shared_stack
        <3>. QED
            BY <1>1, <1>2, <1>7, <2>1, <3>1
            DEF Resolved, Kept, in_stack, Frames, use_shared_stack, TypeOK
    <2>2. CASE co \in Shared /\ used_by[stack[co]] # co
        BY <1>2, <2>2 DEF Resolved, Kept, in_stack, use_shared_stack
    <2>3. CASE co \notin Shared
        BY <1>1, <1>2, <1>7, <2>3
        DEF Resolved, Kept, in_stack, Frames, use_shared_stack, TypeOK
    <2>. QED
        BY <2>1, <2>2, <2>3
<1>8. StackIntact'
    BY <1>2, <1>6, <1>7 DEF StackIntact
<1>. QED
    BY <1>3, <1>4, <1>5, <1>8

(* Saving the context of the running coroutine leaves everybody suspended. *)
LEMMA SaveFacts ==
    ASSUME IInv, save_context(current), UNCHANGED <<live, stack, own_mem>>
    PROVE  /\ saved_ctx' \in [Coroutine -> Image \cup {NoFrames}]
           /\ AllSuspended(used_by, stack_copy_)
<1>. USE DEF IInv
<1>1. /\ saved_ctx' = [saved_ctx EXCEPT ![current] = Frames(current)]
      /\ current \in Coroutine /\ in_stack(current, used_by)
    BY DEF save_context, StackIntact, TypeOK
<1>2. Frames(current) \in Image \cup {NoFrames} /\ Frames(current).of = current
    BY <1>1 DEF Frames, TypeOK, use_shared_stack, StackIntact
<1>3. ASSUME NEW co \in live
      PROVE  /\ Kept(co, used_by, stack_copy_) = saved_ctx'[co]
             /\ saved_ctx'[co].of = co
    BY <1>1, <1>2 DEF StackIntact, Resolved, Kept, TypeOK
<1>. QED
    BY <1>1, <1>2, <1>3 DEF AllSuspended, SingleHome, TypeOK

LEMMA ReschedInv == ASSUME IInv, co_resched PROVE IInv' /\ AsSaved'
<1>. USE DEF IInv
<1>. DEFINE q == enqueue(queue_, current)
<1>1. /\ co_sched(q, used_by, stack_copy_) /\ save_context(current)
      /\ UNCHANGED <<live, stack, own_mem, shared_stack_alloc_count>>
    BY DEF co_resched
<1>2. q \in Seq(Coroutine) /\ q # << >> /\ Range(q) = Range(queue_) \cup {current} /\ IsInjective(q)
    <2>1. queue_ \in Seq(Coroutine) /\ current \in Coroutine
        BY DEF TypeOK
    <2>2. IsInjective(queue_) /\ current \notin Range(queue_)
        BY DEF ReadyOnce
    <2>. HIDE DEF IInv
    <2>. QED
        BY <2>1, <2>2, EnqueueFacts
<1>. HIDE DEF q
<1>3. /\ saved_ctx' \in [Coroutine -> Image \cup {NoFrames}]
      /\ AllSuspended(used_by, stack_copy_)
    BY <1>1, SaveFacts
<1>4. /\ current' \in Coroutine /\ cpu' = current'
      /\ current' = Head(q) /\ queue_' = Tail(q)
      /\ used_by' \in [Pool -> Coroutine \cup {NULL}]
      /\ stack_copy_' \in [Coroutine -> Image \cup {NoFrames}]
      /\ pool_mem' \in [Pool -> Image \cup {NoFrames}]
      /\ StackIntact' /\ SingleHome' /\ AsSaved'
    BY <1>1, <1>2, <1>3, SwitchFacts DEF TypeOK, ReadyOnce
<1>5. /\ queue_' \in Seq(Coroutine) /\ IsInjective(queue_') /\ current' \notin Range(queue_')
      /\ Range(q) = Range(queue_') \cup {current'}
    BY <1>2, <1>4, DequeueFacts
<1>6. TypeOK'
    BY <1>1, <1>3, <1>4, <1>5 DEF TypeOK
<1>7. ReadyOnce' /\ MainReady'
    BY <1>1, <1>2, <1>5 DEF ReadyOnce, MainReady, IsInjective
<1>. QED
    BY <1>4, <1>6, <1>7

LEMMA YieldInv == ASSUME IInv, co_yield PROVE IInv' /\ AsSaved'
<1>. USE DEF IInv
<1>1. /\ co_sched(queue_, used_by, stack_copy_) /\ save_context(current)
      /\ UNCHANGED <<live, stack, own_mem, shared_stack_alloc_count>>
      /\ current # Main
    BY DEF co_yield
<1>2. queue_ \in Seq(Coroutine) /\ IsInjective(queue_) /\ Range(queue_) \subseteq live
    BY DEF TypeOK, ReadyOnce, IsInjective
<1>3. /\ saved_ctx' \in [Coroutine -> Image \cup {NoFrames}]
      /\ AllSuspended(used_by, stack_copy_)
    BY <1>1, SaveFacts
<1>4. /\ current' \in Coroutine /\ cpu' = current'
      /\ queue_ # << >> /\ current' = Head(queue_) /\ queue_' = Tail(queue_)
      /\ used_by' \in [Pool -> Coroutine \cup {NULL}]
      /\ stack_copy_' \in [Coroutine -> Image \cup {NoFrames}]
      /\ pool_mem' \in [Pool -> Image \cup {NoFrames}]
      /\ StackIntact' /\ SingleHome' /\ AsSaved'
    BY <1>1, <1>2, <1>3, SwitchFacts DEF TypeOK
<1>5. /\ queue_' \in Seq(Coroutine) /\ IsInjective(queue_') /\ current' \notin Range(queue_')
      /\ Range(queue_) = Range(queue_') \cup {current'}
    BY <1>2, <1>4, DequeueFacts
<1>6. TypeOK'
    BY <1>1, <1>3, <1>4, <1>5 DEF TypeOK
<1>7. ReadyOnce' /\ MainReady'
    BY <1>1, <1>2, <1>5 DEF ReadyOnce, MainReady, IsInjective
<1>. QED
    BY <1>4, <1>6, <1>7

LEMMA ExitInv == ASSUME IInv, co_exit PROVE IInv' /\ AsSaved'
<1>. USE DEF IInv
<1>. DEFINE users == UsersWithout(current)
            copies == CopiesWithout(current)
<1>1. /\ co_sched(queue_, users, copies) /\ current # Main
      /\ live' = live \ {current}
      /\ stack' = [c \in Shared |-> IF c = current THEN 0 ELSE stack[c]]
      /\ saved_ctx' = [saved_ctx EXCEPT ![current] = NoFrames]
      /\ own_mem' = [own_mem EXCEPT ![current] = NoFrames]
      /\ UNCHANGED shared_stack_alloc_count
    BY DEF co_exit, delete
<1>2. queue_ \in Seq(Coroutine) /\ IsInjective(queue_) /\ Range(queue_) \subseteq live'
    BY <1>1 DEF TypeOK, ReadyOnce, IsInjective
<1>3. /\ users \in [Pool -> Coroutine \cup {NULL}]
      /\ copies \in [Coroutine -> Image \cup {NoFrames}]
      /\ saved_ctx' \in [Coroutine -> Image \cup {NoFrames}]
    BY <1>1 DEF TypeOK, UsersWithout, CopiesWithout
<1>4. \A co \in live' : co # current /\ co \in Coroutine
    BY <1>1 DEF TypeOK
<1>5. ASSUME NEW co \in live', co \in Shared
      PROVE  /\ users[stack[co]] = co <=> used_by[stack[co]] = co
             /\ stack[co] \in Pool
    BY <1>4, <1>5, NullAssumption DEF UsersWithout, TypeOK
<1>6. \A co \in live' : copies[co] = stack_copy_[co]
    BY <1>4 DEF CopiesWithout, TypeOK
<1>7. ASSUME NEW co \in live'
      PROVE  Kept(co, users, copies) = Resolved(co)
    BY <1>5, <1>6 DEF Kept, Resolved, in_stack, use_shared_stack
<1>8. AllSuspended(users, copies)
    <2>1. \A co \in live' : /\ saved_ctx'[co] = saved_ctx[co]
                            /\ own_mem'[co] = own_mem[co]
        BY <1>1, <1>4 DEF TypeOK
    <2>2. \A co \in live' : /\ Kept(co, users, copies) = saved_ctx'[co]
                            /\ saved_ctx'[co].of = co
        BY <1>1, <1>4, <1>7, <2>1 DEF StackIntact
    <2>3. \A co \in live' \cap Shared :
            /\ stack'[co] = stack[co]
            /\ (copies[co] = NoFrames) <=> in_stack(co, users)
        <3>1. ASSUME NEW co \in live' \cap Shared
              PROVE  /\ stack'[co] = stack[co]
                     /\ in_stack(co, users) <=> in_stack(co, used_by)
            BY <1>1, <1>4, <1>5 DEF in_stack, use_shared_stack
        <3>2. \A co \in live' \cap Shared : copies[co] = stack_copy_[co] /\ co \in live
            BY <1>1, <1>6
        <3>. QED
            BY <3>1, <3>2 DEF SingleHome
    <2>4. ASSUME NEW s \in Pool, users[s] # NULL
          PROVE  users[s] \in live' \cap Shared /\ stack[users[s]] = s
        <3>1. /\ users[s] = used_by[s]
              /\ used_by[s] \in live \cap Shared /\ stack[used_by[s]] = s
            BY <2>4 DEF UsersWithout, SingleHome
        <3>2. used_by[s] # current
            BY <2>4, <3>1 DEF UsersWithout, use_shared_stack
        <3>. QED
            BY <1>1, <3>1, <3>2
    <2>. HIDE DEF users, copies
    <2>. QED
        BY <2>1, <2>2, <2>3, <2>4 DEF AllSuspended
<1>. HIDE DEF users, copies
<1>9. live' \subseteq Coroutine
    BY <1>4
<1>10. /\ current' \in Coroutine /\ cpu' = current'
       /\ queue_ # << >> /\ current' = Head(queue_) /\ queue_' = Tail(queue_)
       /\ used_by' \in [Pool -> Coroutine \cup {NULL}]
       /\ stack_copy_' \in [Coroutine -> Image \cup {NoFrames}]
       /\ pool_mem' \in [Pool -> Image \cup {NoFrames}]
       /\ StackIntact' /\ SingleHome' /\ AsSaved'
    BY <1>1, <1>2, <1>3, <1>8, <1>9, SwitchFacts
<1>11. /\ queue_' \in Seq(Coroutine) /\ IsInjective(queue_') /\ current' \notin Range(queue_')
       /\ Range(queue_) = Range(queue_') \cup {current'}
    BY <1>2, <1>10, DequeueFacts
<1>12. TypeOK'
    <2>1. 0 \in Pool
        BY PoolAssumption DEF Pool
    <2>. QED
        BY <1>1, <1>3, <1>9, <1>10, <1>11, <2>1 DEF TypeOK
<1>13. ReadyOnce' /\ MainReady'
    BY <1>1, <1>2, <1>11 DEF ReadyOnce, MainReady, IsInjective
<1>. QED
    BY <1>10, <1>12, <1>13

LEMMA CreateInv == ASSUME IInv, NEW co \in Coroutine, co_create(co) PROVE IInv'
<1>. USE DEF IInv
<1>1. /\ co \notin live /\ co \notin Shared
      /\ live' = live \cup {co}
      /\ own_mem' = [own_mem EXCEPT ![co] = Fresh(co)]
      /\ saved_ctx' = [saved_ctx EXCEPT ![co] = Fresh(co)]
      /\ UNCHANGED <<current, queue_, cpu, stack, stack_copy_, used_by, pool_mem,
                     shared_stack_alloc_count>>
    BY DEF co_create, use_shared_stack
<1>2. Fresh(co) \in Image /\ Fresh(co).of = co
    BY FrameAssumption DEF Fresh, Image
<1>3. TypeOK'
    BY <1>1, <1>2 DEF TypeOK
<1>4. MainReady' /\ ReadyOnce'
    BY <1>1 DEF MainReady, ReadyOnce, Range
<1>5. SingleHome'
    BY <1>1 DEF SingleHome, in_stack
<1>6. ASSUME NEW c \in live'
      PROVE  /\ c # co => Resolved(c)' = Resolved(c) /\ saved_ctx'[c] = saved_ctx[c]
             /\ c = co => Resolved(c)' = Fresh(co) /\ saved_ctx'[c] = Fresh(co)
    BY <1>1 DEF Resolved, Kept, in_stack, Frames, use_shared_stack, TypeOK
<1>7. /\ cpu' = current' /\ in_stack(current, used_by)'
      /\ Frames(current)'.of = current'
    BY <1>1 DEF StackIntact, in_stack, Frames, ReadyOnce, TypeOK, use_shared_stack
<1>8. StackIntact'
    BY <1>1, <1>2, <1>6, <1>7 DEF StackIntact
<1>. QED
    BY <1>3, <1>4, <1>5, <1>8

LEMMA CreateSharedInv ==
    ASSUME IInv, NEW co \in Coroutine, co_create_shared(co) PROVE IInv'
<1>. USE DEF IInv
<1>1. PICK s \in Pool : co_alloc_shared_stack(s) /\ stack' = [stack EXCEPT ![co] = s]
    BY DEF co_create_shared
<1>2. /\ co \notin live /\ co \in Shared
      /\ live' = live \cup {co}
      /\ stack_copy_' = [stack_copy_ EXCEPT ![co] = Fresh(co)]
      /\ saved_ctx' = [saved_ctx EXCEPT ![co] = Fresh(co)]
      /\ UNCHANGED <<current, queue_, cpu, used_by, pool_mem, own_mem>>
    BY DEF co_create_shared, use_shared_stack
<1>3. Fresh(co) \in Image /\ Fresh(co).of = co /\ Fresh(co) # NoFrames
    BY FrameAssumption, NullAssumption DEF Fresh, Image, NoFrames
<1>4. shared_stack_alloc_count' \in Pool
    BY <1>1, PoolAssumption DEF co_alloc_shared_stack, Pool
<1>5. TypeOK'
    BY <1>1, <1>2, <1>3, <1>4 DEF TypeOK
<1>6. MainReady' /\ ReadyOnce'
    BY <1>2 DEF MainReady, ReadyOnce, Range
<1>7. ~in_stack(co, used_by)'
    BY <1>1, <1>2, NullAssumption DEF SingleHome, in_stack, use_shared_stack, TypeOK
<1>8. ASSUME NEW c \in live', c # co
      PROVE  /\ c \in live /\ in_stack(c, used_by)' = in_stack(c, used_by)
             /\ Frames(c)' = Frames(c)
             /\ stack_copy_'[c] = stack_copy_[c] /\ saved_ctx'[c] = saved_ctx[c]
             /\ c \in Shared => stack'[c] = stack[c]
    BY <1>1, <1>2, <1>8 DEF in_stack, Frames, use_shared_stack, TypeOK
<1>9. SingleHome'
    <2>1. ASSUME NEW c \in live' \cap Shared
          PROVE  (stack_copy_'[c] = NoFrames) <=> in_stack(c, used_by)'
        BY <1>2, <1>3, <1>7, <1>8 DEF SingleHome, TypeOK
    <2>2. ASSUME NEW t \in Pool, used_by'[t] # NULL
          PROVE  used_by'[t] \in live' \cap Shared /\ stack'[used_by'[t]] = t
        BY <1>2, <1>8, <2>2 DEF SingleHome
    <2>. QED
        BY <2>1, <2>2 DEF SingleHome
<1>10. Resolved(co)' = Fresh(co) /\ saved_ctx'[co] = Fresh(co)
    BY <1>2, <1>7 DEF Resolved, Kept, TypeOK
<1>11. current \in live /\ current # co
    BY <1>2 DEF ReadyOnce
<1>12. \A c \in live' \ {co} : Resolved(c)' = Resolved(c)
    BY <1>8 DEF Resolved, Kept
<1>13. StackIntact'
    BY <1>2, <1>3, <1>8, <1>10, <1>11, <1>12 DEF StackIntact
<1>. QED
    BY <1>5, <1>6, <1>9, <1>13

LEMMA PostInv == ASSUME IInv, NEW co \in Coroutine, co_post(co) PROVE IInv'
<1>. USE DEF IInv
<1>1. /\ co \in live /\ co # current /\ co \notin Range(queue_)
      /\ queue_' = enqueue(queue_, co)
      /\ UNCHANGED <<current, live, cpu, saved_ctx, stack, stack_copy_, used_by,
                     pool_mem, own_mem, shared_stack_alloc_count>>
    BY DEF co_post, Suspended, stackVars
<1>2. /\ queue_' \in Seq(Coroutine) /\ Range(queue_') = Range(queue_) \cup {co}
      /\ IsInjective(queue_')
    <2>1. queue_ \in Seq(Coroutine)
        BY DEF TypeOK
    <2>2. IsInjective(queue_)
        BY DEF ReadyOnce, IsInjective
    <2>. HIDE DEF IInv
    <2>3. /\ enqueue(queue_, co) \in Seq(Coroutine)
          /\ Range(enqueue(queue_, co)) = Range(queue_) \cup {co}
        BY <2>1, EnqueueFacts
    <2>4. IsInjective(enqueue(queue_, co))
        BY <1>1, <2>1, <2>2, EnqueueFacts
    <2>. QED
        BY <1>1, <2>3, <2>4
<1>3. TypeOK'
    BY <1>1, <1>2 DEF TypeOK
<1>4. MainReady' /\ ReadyOnce'
    BY <1>1, <1>2 DEF MainReady, ReadyOnce, IsInjective
<1>5. StackIntact' /\ SingleHome'
    BY <1>1 DEF StackIntact, SingleHome, Resolved, Kept, in_stack, Frames
<1>. QED
    BY <1>3, <1>4, <1>5

LEMMA DestroyInv == ASSUME IInv, NEW co \in Coroutine, DestroySuspended(co) PROVE IInv'
<1>. USE DEF IInv
<1>1. /\ co \in live \ {Main} /\ co # current /\ co \notin Range(queue_)
      /\ live' = live \ {co}
      /\ stack' = [c \in Shared |-> IF c = co THEN 0 ELSE stack[c]]
      /\ saved_ctx' = [saved_ctx EXCEPT ![co] = NoFrames]
      /\ own_mem' = [own_mem EXCEPT ![co] = NoFrames]
      /\ used_by' = UsersWithout(co) /\ stack_copy_' = CopiesWithout(co)
      /\ UNCHANGED <<current, queue_, cpu, pool_mem, shared_stack_alloc_count>>
    BY DEF DestroySuspended, co_destroy, Suspended, delete
<1>2. TypeOK'
    <2>1. 0 \in Pool
        BY PoolAssumption DEF Pool
    <2>. QED
        BY <1>1, <2>1 DEF TypeOK, UsersWithout, CopiesWithout
<1>3. MainReady' /\ ReadyOnce'
    BY <1>1 DEF MainReady, ReadyOnce, Range
<1>4. ASSUME NEW c \in live'
      PROVE  /\ c \in live /\ c # co /\ c \in Coroutine
             /\ c \in Shared => stack'[c] = stack[c]
             /\ in_stack(c, used_by)' <=> in_stack(c, used_by)
             /\ Frames(c)' = Frames(c)
             /\ stack_copy_'[c] = stack_copy_[c] /\ saved_ctx'[c] = saved_ctx[c]
    <2>1. c \in live /\ c # co /\ c \in Coroutine
        BY <1>1 DEF TypeOK
    <2>2. c \in Shared => stack'[c] = stack[c] /\ stack[c] \in Pool
        BY <1>1, <2>1 DEF TypeOK
    <2>3. in_stack(c, used_by)' <=> in_stack(c, used_by)
        BY <1>1, <2>1, <2>2, NullAssumption DEF in_stack, use_shared_stack, UsersWithout
    <2>4. Frames(c)' = Frames(c)
        BY <1>1, <2>1, <2>2 DEF Frames, use_shared_stack, TypeOK
    <2>5. stack_copy_'[c] = stack_copy_[c] /\ saved_ctx'[c] = saved_ctx[c]
        BY <1>1, <2>1 DEF CopiesWithout, TypeOK
    <2>. QED
        BY <2>1, <2>2, <2>3, <2>4, <2>5
<1>5. SingleHome'
    <2>1. ASSUME NEW c \in live' \cap Shared
          PROVE  (stack_copy_'[c] = NoFrames) <=> in_stack(c, used_by)'
        BY <1>4 DEF SingleHome
    <2>2. ASSUME NEW s \in Pool, used_by'[s] # NULL
          PROVE  used_by'[s] \in live' \cap Shared /\ stack'[used_by'[s]] = s
        <3>1. used_by'[s] = used_by[s]
            BY <1>1, <2>2 DEF UsersWithout
        <3>2. used_by[s] \in live \cap Shared /\ stack[used_by[s]] = s
            BY <2>2, <3>1 DEF SingleHome
        <3>3. used_by[s] # co
            BY <1>1, <2>2, <3>1, <3>2 DEF UsersWithout, use_shared_stack
        <3>. QED
            BY <1>1, <3>1, <3>2, <3>3
    <2>. QED
        BY <2>1, <2>2 DEF SingleHome
<1>6. \A c \in live' : Resolved(c)' = Resolved(c)
    BY <1>4 DEF Resolved, Kept
<1>7. current \in live'
    BY <1>1 DEF ReadyOnce
<1>8. StackIntact'
    BY <1>1, <1>4, <1>6, <1>7 DEF StackIntact
<1>. QED
    BY <1>2, <1>3, <1>5, <1>8

LEMMA NextInv == IInv /\ [Next]_vars => IInv'
<1>. SUFFICES ASSUME IInv, [Next]_vars PROVE IInv'
    OBVIOUS
<1>1. CASE Run
    BY <1>1, RunInv
<1>2. CASE co_resched
    BY <1>2, ReschedInv
<1>3. CASE co_yield
    BY <1>3, YieldInv
<1>4. CASE co_exit
    BY <1>4, ExitInv
<1>5. ASSUME NEW co \in Coroutine, co_create(co) PROVE IInv'
    BY <1>5, CreateInv
<1>6. ASSUME NEW co \in Coroutine, co_create_shared(co) PROVE IInv'
    BY <1>6, CreateSharedInv
<1>7. ASSUME NEW co \in Coroutine, co_post(co) PROVE IInv'
    BY <1>7, PostInv
<1>8. ASSUME NEW co \in Coroutine, DestroySuspended(co) PROVE IInv'
    BY <1>8, DestroyInv
<1>9. CASE UNCHANGED vars
    <2>. USE <1>9 DEF vars, stackVars
    <2>1. TypeOK'
        BY DEF IInv, TypeOK
    <2>2. MainReady' /\ ReadyOnce'
        BY DEF IInv, MainReady, ReadyOnce
    <2>3. StackIntact' /\ SingleHome'
        BY DEF IInv, StackIntact, SingleHome, Resolved, Kept, in_stack, Frames
    <2>. QED
        BY <2>1, <2>2, <2>3 DEF IInv
<1>. QED
    BY <1>1, <1>2, <1>3, <1>4, <1>5, <1>6, <1>7, <1>8, <1>9 DEF Next, Switch

(* The inductive invariant holds in every reachable state.                 *)
THEOREM Invariance == Spec => []IInv
    BY InitInv, NextInv, PTL DEF Spec

(* Every variable keeps its type: no index leaves the pool of stacks, and  *)
(* nothing but a coroutine is ever scheduled.                              *)
THEOREM TypeCorrect == Spec => []TypeOK
<1>1. IInv => TypeOK
    BY DEF IInv
<1>. QED
    BY <1>1, Invariance, PTL

(* The ready queue holds each coroutine once, never the one that runs, and *)
(* nothing that was deleted.                                               *)
THEOREM ReadyQueueIsSound == Spec => []ReadyOnce
<1>1. IInv => ReadyOnce
    BY DEF IInv
<1>. QED
    BY <1>1, Invariance, PTL

(* A coroutine resumed by co_sched finds the frames its registers belong   *)
(* to, however many coroutines have used its stack meanwhile.              *)
THEOREM StacksStayIntact == Spec => []StackIntact
<1>1. IInv => StackIntact
    BY DEF IInv
<1>. QED
    BY <1>1, Invariance, PTL

(* The frames of a shared coroutine are in one place, and a pool stack is  *)
(* never attributed to a deleted coroutine, even if its address is reused. *)
THEOREM FramesHaveOneHome == Spec => []SingleHome
<1>1. IInv => SingleHome
    BY DEF IInv
<1>. QED
    BY <1>1, Invariance, PTL

(* The abort() of co_sched is unreachable: Main is ready whenever another  *)
(* coroutine runs.                                                         *)
THEOREM NeverAborts == Spec => []MainReady
<1>1. IInv => MainReady
    BY DEF IInv
<1>. QED
    BY <1>1, Invariance, PTL

(* Where dequeue takes from and enqueue puts to.                           *)
LEMMA TurnFacts ==
    ASSUME NEW q \in Seq(Coroutine), NEW co \in Coroutine, NEW i \in DOMAIN q
    PROVE  /\ i \in DOMAIN enqueue(q, co) /\ enqueue(q, co)[i] = q[i]
           /\ i = 1 => Head(q) = q[i] /\ Head(enqueue(q, co)) = q[i]
           /\ i # 1 => Tail(q)[i - 1] = q[i] /\ Tail(enqueue(q, co))[i - 1] = q[i]
BY DEF enqueue

LEMMA StepKeepsTurns ==
    IInv /\ [Next]_vars =>
        [\A i \in DOMAIN queue_ :
            IF Switch
            THEN IF i = 1 THEN current' = queue_[i] /\ cpu' = queue_[i]
                 ELSE queue_'[i - 1] = queue_[i]
            ELSE i \in DOMAIN queue_' /\ queue_'[i] = queue_[i]]_vars
<1>. SUFFICES ASSUME IInv, [Next]_vars, NEW i \in DOMAIN queue_
              PROVE  IF Switch
                     THEN IF i = 1 THEN current' = queue_[i] /\ cpu' = queue_[i]
                          ELSE queue_'[i - 1] = queue_[i]
                     ELSE i \in DOMAIN queue_' /\ queue_'[i] = queue_[i]
    OBVIOUS
<1>1. queue_ \in Seq(Coroutine) /\ current \in Coroutine
    BY DEF IInv, TypeOK
<1>2. cpu' = current'
    BY NextInv DEF IInv, StackIntact
<1>3. CASE Switch
    <2>. DEFINE q == enqueue(queue_, current)
    <2>1. \/ current' = Head(queue_) /\ queue_' = Tail(queue_)
          \/ current' = Head(q) /\ queue_' = Tail(q)
        BY <1>3 DEF Switch, co_resched, co_yield, co_exit, co_sched, dequeue
    <2>2. /\ i = 1 => Head(queue_) = queue_[i] /\ Head(q) = queue_[i]
          /\ i # 1 => Tail(queue_)[i - 1] = queue_[i] /\ Tail(q)[i - 1] = queue_[i]
        <3>. HIDE DEF IInv
        <3>. QED
            BY <1>1, TurnFacts
    <2>. HIDE DEF q
    <2>. QED
        BY <1>2, <1>3, <2>1, <2>2
<1>4. CASE ~Switch
    <2>1. queue_' = queue_ \/ \E co \in Coroutine : queue_' = enqueue(queue_, co)
        BY <1>4 DEF Next, Run, co_create, co_create_shared, co_post, DestroySuspended,
            co_destroy, delete, vars
    <2>. QED
        BY <1>1, <1>4, <2>1, TurnFacts
<1>. QED
    BY <1>3, <1>4

(* Nobody is overtaken in the ready queue: the safety part of              *)
(* ReadyEventuallyRuns.  A coroutine at place i runs after i switches,     *)
(* whatever is posted, ended or destroyed before that.                     *)
THEOREM NobodyIsOvertaken == Spec => TurnsComeInOrder
<1>. QED
    BY StepKeepsTurns, Invariance, PTL DEF Spec, TurnsComeInOrder

-----------------------------------------------------------------------------
(* Refinement.                                                             *)

(* Under the invariant, what a coroutine sees as its frames is on the stack*)
(* of the running one, and for the others what their saved context names.  *)
LEMMA ViewFacts ==
    ASSUME IInv
    PROVE  View = [co \in Coroutine |->
                IF co = current THEN Frames(co).frame
                ELSE IF co \in live THEN saved_ctx[co].frame ELSE NULL]
<1>1. current \in live
    BY DEF IInv, ReadyOnce
<1>2. Resolved(current) = Frames(current) /\ Frames(current).of = current
    BY DEF IInv, StackIntact, Resolved, Kept
<1>3. \A co \in live \ {current} :
        Resolved(co).frame = saved_ctx[co].frame /\ Resolved(co).of = co
    BY DEF IInv, StackIntact
<1>. QED
    BY <1>1, <1>2, <1>3 DEF View

LEMMA InitRefines == Init => Abstract!Init
<1>. SUFFICES ASSUME Init PROVE Abstract!Init
    OBVIOUS
<1>1. View = [co \in Coroutine |-> IF co = Main THEN Guard ELSE NULL]
    <2>1. Resolved(Main) = Fresh(Main)
        BY MainAssumption, SharedAssumption
        DEF Init, co_init, Resolved, Kept, in_stack, Frames, use_shared_stack
    <2>2. live = {Main} /\ Fresh(Main).of = Main /\ Fresh(Main).frame = Guard
        BY DEF Init, co_init, Fresh
    <2>. QED
        BY <2>1, <2>2, MainAssumption DEF View
<1>. QED
    BY <1>1 DEF Init, co_init, Abstract!Init

(* A switch changes the frames of no coroutine that goes on existing.      *)
LEMMA SwitchKeepsView ==
    ASSUME IInv, AsSaved', live' \subseteq live,
           \A co \in live' :
               saved_ctx'[co] = IF co = current THEN Frames(co) ELSE saved_ctx[co]
    PROVE  View' = [co \in Coroutine |-> IF co \in live' THEN View[co] ELSE NULL]
<1>1. View' = [co \in Coroutine |-> IF co \in live' THEN saved_ctx'[co].frame ELSE NULL]
    BY DEF View, AsSaved
<1>2. ASSUME NEW co \in Coroutine, co \in live'
      PROVE  View[co] = saved_ctx'[co].frame
    BY <1>2, ViewFacts
<1>. QED
    BY <1>1, <1>2

(* co_sched(q) is the abstract switch to the head of q.                    *)
LEMMA SwitchRefines ==
    ASSUME NEW q, NEW users, NEW copies, co_sched(q, users, copies), cpu' = current'
    PROVE  Abstract!SwitchTo(q)
BY DEF co_sched, dequeue, Abstract!SwitchTo, Abstract!dequeue

LEMMA StepRefines == IInv /\ IInv' /\ [Next]_vars => [Abstract!Next]_(Abstract!vars)
<1>. SUFFICES ASSUME IInv, IInv', [Next]_vars
              PROVE  [Abstract!Next]_(Abstract!vars)
    OBVIOUS
<1>0. /\ cpu = current /\ current \in live /\ live \subseteq Coroutine
      /\ cpu' = current' /\ current' \in live' /\ live' \subseteq Coroutine
    BY DEF IInv, StackIntact, ReadyOnce, TypeOK
<1>v. /\ View = [co \in Coroutine |->
            IF co = current THEN Frames(co).frame
            ELSE IF co \in live THEN saved_ctx[co].frame ELSE NULL]
      /\ View' = [co \in Coroutine |->
            IF co = current' THEN Frames(co)'.frame
            ELSE IF co \in live' THEN saved_ctx'[co].frame ELSE NULL]
    <2>1. View' = [co \in Coroutine |->
            IF co = current' THEN Frames(co)'.frame
            ELSE IF co \in live' THEN saved_ctx'[co].frame ELSE NULL]
        <3>1. Resolved(current)' = Frames(current)' /\ Frames(current)'.of = current'
            BY DEF IInv, StackIntact, Resolved, Kept
        <3>2. \A co \in live' \ {current'} :
                Resolved(co)'.frame = saved_ctx'[co].frame /\ Resolved(co)'.of = co
            BY DEF IInv, StackIntact
        <3>. QED
            BY <1>0, <3>1, <3>2 DEF View
    <2>. QED
        BY <2>1, ViewFacts
<1>w. /\ \A co \in live : View[co] # NULL
      /\ \A co \in Coroutine \ live : View[co] = NULL
    <2>1. \A co \in live : Resolved(co) \in Image \cup {NoFrames} /\ Resolved(co).of = co
        BY <1>0 DEF IInv, TypeOK, StackIntact, Resolved, Kept, Frames, use_shared_stack
    <2>2. \A co \in live : Resolved(co).frame \in Frame
        BY <1>0, <2>1, NullAssumption DEF Image, NoFrames
    <2>. QED
        BY <1>0, <2>1, <2>2, FrameAssumption DEF View
<1>1. CASE Run
    <2>1. PICK f \in Frame : LET image == [of |-> cpu, frame |-> f] IN
            IF use_shared_stack(cpu)
            THEN pool_mem' = [pool_mem EXCEPT ![stack[cpu]] = image] /\ UNCHANGED own_mem
            ELSE own_mem' = [own_mem EXCEPT ![cpu] = image] /\ UNCHANGED pool_mem
        BY <1>1 DEF Run
    <2>2. UNCHANGED <<current, queue_, live, cpu, saved_ctx, stack>>
        BY <1>1 DEF Run
    <2>3. Frames(current)'.frame = f
        BY <1>0, <2>1, <2>2 DEF Frames, use_shared_stack, IInv, TypeOK
    <2>4. View' = [View EXCEPT ![cpu] = f]
        BY <1>0, <1>v, <2>2, <2>3
    <2>. QED
        BY <2>2, <2>4 DEF Abstract!Next, Abstract!Run
<1>2. CASE co_resched
    <2>1. AsSaved'
        BY <1>2, ReschedInv
    <2>2. View' = View
        BY <1>0, <1>2, <1>v, <2>1, SwitchKeepsView DEF co_resched, save_context, IInv, TypeOK
    <2>3. Abstract!SwitchTo(enqueue(queue_, current))
        BY <1>0, <1>2, SwitchRefines DEF co_resched
    <2>. QED
        BY <1>0, <2>2, <2>3
        DEF Abstract!Next, Abstract!Resched, Abstract!enqueue, enqueue
<1>3. CASE co_yield
    <2>1. AsSaved'
        BY <1>3, YieldInv
    <2>2. View' = View
        BY <1>0, <1>3, <1>v, <2>1, SwitchKeepsView DEF co_yield, save_context, IInv, TypeOK
    <2>3. Abstract!SwitchTo(queue_) /\ cpu # Main
        BY <1>0, <1>3, SwitchRefines DEF co_yield
    <2>. QED
        BY <2>2, <2>3 DEF Abstract!Next, Abstract!Yield
<1>4. CASE co_exit
    <2>1. AsSaved'
        BY <1>4, ExitInv
    <2>2. live' = live \ {current} /\ saved_ctx' = [saved_ctx EXCEPT ![current] = NoFrames]
        BY <1>4 DEF co_exit, delete
    <2>3. View' = [co \in Coroutine |-> IF co \in live' THEN View[co] ELSE NULL]
        BY <1>0, <2>1, <2>2, SwitchKeepsView DEF IInv, TypeOK
    <2>4. View' = [View EXCEPT ![cpu] = NULL]
        BY <1>0, <1>v, <1>w, <2>2, <2>3
    <2>5. Abstract!SwitchTo(queue_) /\ cpu # Main
        BY <1>0, <1>4, SwitchRefines DEF co_exit
    <2>. QED
        BY <2>4, <2>5 DEF Abstract!Next, Abstract!Exit
<1>5. ASSUME NEW co \in Coroutine, co_create(co) \/ co_create_shared(co)
      PROVE  Abstract!Next
    <2>1. /\ co \notin live /\ live' = live \cup {co}
          /\ saved_ctx' = [saved_ctx EXCEPT ![co] = Fresh(co)]
          /\ UNCHANGED <<current, queue_, cpu, pool_mem>>
        BY <1>5 DEF co_create, co_create_shared
    <2>2. Frames(current)' = Frames(current)
        BY <1>0, <1>5, <2>1 DEF co_create, co_create_shared, Frames, use_shared_stack,
            IInv, TypeOK
    <2>3. View' = [View EXCEPT ![co] = Guard]
        <3>1. saved_ctx'[co].frame = Guard
            BY <2>1 DEF IInv, TypeOK, Fresh
        <3>2. \A c \in Coroutine \ {co} : saved_ctx'[c] = saved_ctx[c]
            BY <2>1 DEF IInv, TypeOK
        <3>. QED
            BY <1>0, <1>v, <2>1, <2>2, <3>1, <3>2
    <2>. QED
        BY <1>w, <2>1, <2>3 DEF Abstract!Next, Abstract!Create
<1>6. ASSUME NEW co \in Coroutine, co_post(co)
      PROVE  Abstract!Next
    <2>1. /\ co \in live /\ Suspended(co) /\ queue_' = enqueue(queue_, co)
          /\ UNCHANGED <<current, live, cpu, stackVars>>
        BY <1>6 DEF co_post
    <2>2. View' = View
        BY <2>1 DEF View, Resolved, Kept, in_stack, Frames, stackVars
    <2>. QED
        <3>1. Abstract!Suspended(co) /\ View[co] # NULL
            BY <1>0, <1>w, <2>1 DEF Abstract!Suspended, Suspended, Abstract!Range, Range
        <3>2. Abstract!Post(co)
            BY <1>0, <2>1, <2>2, <3>1 DEF Abstract!Post, Abstract!enqueue, enqueue
        <3>. QED
            BY <3>2 DEF Abstract!Next
<1>7. ASSUME NEW co \in Coroutine, DestroySuspended(co)
      PROVE  Abstract!Next
    <2>1. /\ co \in live /\ Suspended(co) /\ live' = live \ {co}
          /\ saved_ctx' = [saved_ctx EXCEPT ![co] = NoFrames]
          /\ own_mem' = [own_mem EXCEPT ![co] = NoFrames]
          /\ stack' = [c \in Shared |-> IF c = co THEN 0 ELSE stack[c]]
          /\ UNCHANGED <<current, queue_, cpu, pool_mem>>
        BY <1>7 DEF DestroySuspended, co_destroy, delete
    <2>2. Frames(current)' = Frames(current)
        BY <1>0, <2>1 DEF Frames, use_shared_stack, IInv, TypeOK, Suspended
    <2>3. View' = [View EXCEPT ![co] = NULL]
        <3>1. \A c \in Coroutine \ {co} : saved_ctx'[c] = saved_ctx[c]
            BY <2>1 DEF IInv, TypeOK
        <3>. QED
            BY <1>0, <1>v, <2>1, <2>2, <3>1 DEF Suspended
    <2>. QED
        <3>1. Abstract!Suspended(co) /\ View[co] # NULL
            BY <1>0, <1>w, <2>1 DEF Abstract!Suspended, Suspended, Abstract!Range, Range
        <3>2. Abstract!Destroy(co)
            BY <1>0, <2>1, <2>3, <3>1 DEF Abstract!Destroy
        <3>. QED
            BY <3>2 DEF Abstract!Next
<1>8. CASE UNCHANGED vars
    BY <1>8 DEF vars, stackVars, Abstract!vars, View, Resolved, Kept, in_stack, Frames
<1>. QED
    BY <1>1, <1>2, <1>3, <1>4, <1>5, <1>6, <1>7, <1>8 DEF Next, Switch

(* Sharing stacks is invisible: whatever a program does with the library,  *)
(* it does with coroutines that have a stack each.                         *)
THEOREM SharingIsInvisible == Spec => ImplementsPrivateStacks
<1>. QED
    BY InitRefines, StepRefines, Invariance, PTL DEF Spec, ImplementsPrivateStacks, Abstract!Spec

=============================================================================
