--------------------------- MODULE EventLoopWakeups ---------------------------
(***************************************************************************)
(* Proofs about the wake-ups of EventLoop, whoever uses which descriptor:  *)
(* how a coroutine can lose the slot that names it, that it then sleeps    *)
(* for good, that nobody else loses a wake-up, and that nothing at all is  *)
(* lost where no two workers make the same call on one descriptor.  The    *)
(* calls implement blocking calls in any case.                             *)
(***************************************************************************)
EXTENDS EventLoopProofs

Listed == Range(rdllist) \cup Range(events)

(* Worker d disturbs worker c: it is inside the same call on the same      *)
(* descriptor.                                                             *)
Disturbs(d, c) == d # c /\ Work(d) /\ op[d].call = op[c].call /\ op[d].fd = op[c].fd

LEMMA CallCases ==
    ASSUME BaseInv, NEW c \in Worker
    PROVE  op[c].call \in {"wait", "read", "write"} /\ op[c].fd \in Fd
BY DEF BaseInv, TypeOK, Call

-----------------------------------------------------------------------------
(* How a step changes what a sleeping worker c waits for.                  *)

(* Nobody gives a sleeper its name back, and only who makes the same call  *)
(* takes it away.                                                          *)
KeepsNames == \A c \in yielded \cap yielded' :
    /\ op'[c] = op[c]
    /\ Named(c)' => Named(c)
    /\ Named(c) => Named(c)' \/ \E d \in Worker : Disturbs(d, c)

(* Who is posted was named; who is not posted stays suspended.             *)
KeepsAsleep == \A c \in yielded :
    /\ Blocked(c)' => Blocked(c)
    /\ Blocked(c) /\ ~Named(c) => Blocked(c)'

(* async_wait yields without a system call: what it does not know of, the  *)
(* loop has still to report.                                               *)
EdgePending == \A fd \in Fd : CAN_READ \notin event_[fd] /\ Level(fd) => fd \in Listed

(* Who falls asleep is named, and waits for what has still to be reported. *)
FallsAsleep == \A c \in yielded' \ yielded :
    /\ Named(c)'
    /\ EdgePending => (Possible(c)' => op'[c].fd \in Listed')

(* A step that leaves the slots alone, and who is inside which call.       *)
LEMMA SameSlots ==
    ASSUME BaseInv,
           UNCHANGED <<waited_, waited_mask_, co_read, co_write, co_wait, op, yielded>>
    PROVE  KeepsNames /\ FallsAsleep
BY DEF KeepsNames, FallsAsleep, Named

LEMMA SameQueue ==
    ASSUME BaseInv, UNCHANGED <<current, queue_, yielded>>
    PROVE  KeepsAsleep
BY DEF KeepsAsleep, Blocked, Suspended

(* Main goes to the end of the queue; no worker does.                      *)
LEMMA ReschedSleep == ASSUME BaseInv, resched PROVE KeepsNames /\ KeepsAsleep /\ FallsAsleep
<1>. DEFINE q == enqueue(queue_, Main)
<1>1. /\ q # << >> /\ current' = Head(q) /\ queue_' = Tail(q) /\ current = Main
      /\ UNCHANGED <<slots, op, yielded>>
    BY DEF resched, dequeue
<1>2. Range(queue_) \cup {Main} = Range(queue_') \cup {current'}
    <2>1. q \in Seq(Coroutine) /\ Range(q) = Range(queue_) \cup {Main}
        BY EnqueueFacts, MainAssumption DEF BaseInv, TypeOK
    <2>. HIDE DEF q
    <2>. QED
        BY <1>1, <2>1, DequeueFacts
<1>3. KeepsNames /\ FallsAsleep
    BY <1>1, SameSlots DEF slots
<1>4. KeepsAsleep
    <2>1. \A c \in yielded : c \in Worker /\ c # Main
        BY DEF BaseInv, TypeOK, Worker
    <2>. QED
        BY <1>1, <1>2, <2>1 DEF KeepsAsleep, Blocked, Suspended
<1>. QED
    BY <1>3, <1>4

(* What trigger does to the queue.                                         *)
LEMMA TriggerFacts ==
    ASSUME BaseInv, trigger
    PROVE  LET fd == Head(events) posted == Posted(fd, Event) IN
           /\ fd \in Fd /\ Listed \subseteq Listed' \cup {fd}
           /\ event_' = [event_ EXCEPT ![fd] = Event]
           /\ Range(queue_') = Range(queue_) \cup Range(posted)
           /\ \A c \in Range(posted) : c \in yielded /\ Named(c)
           /\ \A c \in yielded : Named(c) /\ op[c].fd = fd => c \in Range(posted)
           /\ UNCHANGED <<current, inq, room, eof, waited_, waited_mask_, co_read,
                          co_write, co_wait, op, yielded>>
<1>. DEFINE fd == Head(events)
            seen == event_[fd] \cup Reported(fd)
            posted == Posted(fd, seen)
<1>1. /\ events # << >> /\ events' = Tail(events)
      /\ event_' = [event_ EXCEPT ![fd] = seen]
      /\ queue_' = queue_ \o posted
      /\ UNCHANGED <<current, rdllist, inq, room, eof, waited_, waited_mask_,
                     co_read, co_write, co_wait, op, yielded>>
    BY DEF trigger, device
<1>2. fd \in Fd /\ Listed \subseteq Listed' \cup {fd}
    BY <1>1, DequeueFacts DEF BaseInv, TypeOK, Listed
<1>3. seen = Event
    BY <1>2 DEF BaseInv, TypeOK, Reported, Event
<1>. HIDE DEF fd, seen
<1>4. /\ posted \in Seq(Coroutine)
      /\ \A c \in Range(posted) : c \in yielded /\ Named(c)
      /\ CAN_WRITE \in waited_[fd] => co_write[fd] \in Range(posted)
      /\ CAN_READ \in waited_[fd] => co_read[fd] \in Range(posted)
      /\ waited_mask_[fd] \cap Event # {} => co_wait[fd] \in Range(posted)
    BY <1>2, <1>3, PostedFacts DEF Event
<1>. HIDE DEF posted
<1>5. ASSUME NEW c \in yielded, Named(c), op[c].fd = fd PROVE c \in Range(posted)
    <2>1. op[c].call \in {"wait", "read", "write"}
        BY CallCases DEF BaseInv, TypeOK
    <2>. QED
        BY <1>4, <1>5, <2>1 DEF Named, Event
<1>6. Range(queue_') = Range(queue_) \cup Range(posted)
    BY <1>1, <1>4, ConcatFacts DEF BaseInv, TypeOK
<1>7. posted = Posted(Head(events), Event) /\ fd = Head(events)
    BY <1>3 DEF posted, fd
<1>. QED
    BY <1>1, <1>2, <1>3, <1>4, <1>5, <1>6, <1>7

LEMMA TriggerSleep == ASSUME BaseInv, trigger PROVE KeepsNames /\ KeepsAsleep /\ FallsAsleep
<1>1. KeepsNames /\ FallsAsleep
    BY TriggerFacts, SameSlots
<1>2. KeepsAsleep
    BY TriggerFacts DEF KeepsAsleep, Blocked, Suspended
<1>. QED
    BY <1>1, <1>2

-----------------------------------------------------------------------------
(* A worker that yields takes at most the name of one that makes the same  *)
(* call on the same descriptor.                                            *)
LEMMA YieldSleep ==
    ASSUME BaseInv, NEW d \in Worker, Work(d), d \notin yielded, co_yield(d),
           UNCHANGED event_, Named(d)',
           EdgePending => (Possible(d) => op[d].fd \in Listed),
           \A c \in yielded : /\ op[c].call = op[d].call /\ op[c].fd = op[d].fd => ~Named(c)'
                              /\ op[c].call # op[d].call \/ op[c].fd # op[d].fd
                                    => (Named(c)' <=> Named(c))
    PROVE  KeepsNames /\ KeepsAsleep /\ FallsAsleep
<1>1. /\ current = d /\ yielded' = yielded \cup {d}
      /\ UNCHANGED <<events, rdllist, inq, room, eof, op>>
      /\ Range(queue_) = Range(queue_') \cup {current'}
    BY YieldFacts DEF Work
<1>2. KeepsNames
    BY <1>1 DEF KeepsNames, Disturbs
<1>3. KeepsAsleep
    BY <1>1 DEF KeepsAsleep, Blocked, Suspended
<1>4. FallsAsleep
    BY <1>1 DEF FallsAsleep, Possible, Readable, Writable, Listed
<1>. QED
    BY <1>2, <1>3, <1>4

(* A worker that moves data, or goes on without, leaves the others alone.  *)
LEMMA MoveSleep ==
    ASSUME BaseInv, NEW d \in Worker, d \notin yielded, NEW next \in Call,
           op' = [op EXCEPT ![d] = next],
           UNCHANGED <<current, queue_, slots, yielded>>
    PROVE  KeepsNames /\ KeepsAsleep /\ FallsAsleep
<1>1. KeepsNames
    <2>1. \A c \in yielded : c \in Worker /\ c # d /\ op'[c] = op[c]
        BY DEF BaseInv, TypeOK
    <2>. QED
        BY <2>1 DEF KeepsNames, Named, slots
<1>2. KeepsAsleep
    BY SameQueue
<1>3. FallsAsleep
    BY DEF FallsAsleep
<1>. QED
    BY <1>1, <1>2, <1>3

LEMMA WaitSleep ==
    ASSUME BaseInv, NEW d \in Worker, current = d, async_wait(d)
    PROVE  KeepsNames /\ KeepsAsleep /\ FallsAsleep
<1>. DEFINE fd == op[d].fd
<1>1. fd \in Fd /\ op[d].call = "wait" /\ d \notin yielded /\ Work(d)
    BY CallCases DEF async_wait, Pending, Work
<1>2. CASE /\ op' = [op EXCEPT ![d] = Abstract!Read(d)]
           /\ UNCHANGED <<current, queue_, slots, yielded>>
    BY <1>1, <1>2, CallTypes, MoveSleep
<1>3. CASE /\ CAN_READ \notin event_[fd]
           /\ waited_mask_' = [waited_mask_ EXCEPT ![fd] = {CAN_READ}]
           /\ co_wait' = [co_wait EXCEPT ![fd] = d]
           /\ co_yield(d)
           /\ UNCHANGED <<event_, waited_, co_read, co_write>>
    <2>1. UNCHANGED op /\ yielded \subseteq Worker
        BY <1>3, YieldFacts DEF BaseInv, TypeOK
    <2>2. Named(d)'
        BY <1>1, <1>3, <2>1 DEF Named, BaseInv, TypeOK
    <2>3. \A c \in yielded :
            /\ op[c].call = "wait" /\ op[c].fd = fd => ~Named(c)'
            /\ op[c].call # "wait" \/ op[c].fd # fd => (Named(c)' <=> Named(c))
        BY <1>1, <1>3, <2>1 DEF Named, BaseInv, TypeOK
    <2>4. EdgePending => (Possible(d) => fd \in Listed)
        BY <1>1, <1>3 DEF EdgePending, Possible, Level
    <2>. QED
        BY <1>1, <1>3, <2>2, <2>3, <2>4, YieldSleep
<1>. QED
    BY <1>2, <1>3 DEF async_wait

LEMMA ReadSleep ==
    ASSUME BaseInv, NEW d \in Worker, current = d, async_read(d)
    PROVE  KeepsNames /\ KeepsAsleep /\ FallsAsleep
<1>. DEFINE fd == op[d].fd
            n == Abstract!Lesser(inq[fd], op[d].left)
<1>1. fd \in Fd /\ op[d].call = "read" /\ d \notin yielded /\ Work(d) /\ n \in Nat
    BY CallCases, WorkerRuns, LesserFacts DEF async_read, Pending, Work
<1>. HIDE DEF n
<1>2. CASE Goes(d, n) /\ UNCHANGED <<current, queue_, slots, yielded>>
    <2>1. PICK next \in Abstract!After(d, op[d], n) : op' = [op EXCEPT ![d] = next]
        BY <1>2 DEF Goes
    <2>2. next \in Call
        BY <1>1, AfterTypes, WorkerRuns
    <2>. QED
        BY <1>1, <1>2, <2>1, <2>2, MoveSleep
<1>3. CASE /\ inq[fd] = 0 /\ ~eof[fd]
           /\ waited_' = [waited_ EXCEPT ![fd] = waited_[fd] \cup {CAN_READ}]
           /\ co_read' = [co_read EXCEPT ![fd] = d]
           /\ co_yield(d)
           /\ UNCHANGED <<event_, waited_mask_, co_write, co_wait>>
    <2>1. UNCHANGED op /\ yielded \subseteq Worker
        BY <1>3, YieldFacts DEF BaseInv, TypeOK
    <2>2. Named(d)'
        BY <1>1, <1>3, <2>1 DEF Named, BaseInv, TypeOK
    <2>3. \A c \in yielded :
            /\ op[c].call = "read" /\ op[c].fd = fd => ~Named(c)'
            /\ op[c].call # "read" \/ op[c].fd # fd => (Named(c)' <=> Named(c))
        BY <1>1, <1>3, <2>1 DEF Named, BaseInv, TypeOK, CAN_READ, CAN_WRITE
    <2>4. ~Possible(d)
        BY <1>1, <1>3 DEF Possible, Readable
    <2>. QED
        BY <1>1, <1>3, <2>2, <2>3, <2>4, YieldSleep
<1>. QED
    BY <1>2, <1>3 DEF async_read, n

LEMMA WriteSleep ==
    ASSUME BaseInv, NEW d \in Worker, current = d, async_write(d)
    PROVE  KeepsNames /\ KeepsAsleep /\ FallsAsleep
<1>. DEFINE fd == op[d].fd
            n == Abstract!Lesser(room[fd], op[d].left)
<1>1. fd \in Fd /\ op[d].call = "write" /\ d \notin yielded /\ Work(d) /\ n \in Nat
    BY CallCases, WorkerRuns, LesserFacts DEF async_write, Pending, Work
<1>. HIDE DEF n
<1>2. CASE Goes(d, n) /\ UNCHANGED <<current, queue_, slots, yielded>>
    <2>1. PICK next \in Abstract!After(d, op[d], n) : op' = [op EXCEPT ![d] = next]
        BY <1>2 DEF Goes
    <2>2. next \in Call
        BY <1>1, AfterTypes, WorkerRuns
    <2>. QED
        BY <1>1, <1>2, <2>1, <2>2, MoveSleep
<1>3. CASE /\ room[fd] = 0
           /\ waited_' = [waited_ EXCEPT ![fd] = waited_[fd] \cup {CAN_WRITE}]
           /\ co_write' = [co_write EXCEPT ![fd] = d]
           /\ co_yield(d)
           /\ UNCHANGED <<event_, waited_mask_, co_read, co_wait>>
    <2>1. UNCHANGED op /\ yielded \subseteq Worker
        BY <1>3, YieldFacts DEF BaseInv, TypeOK
    <2>2. Named(d)'
        BY <1>1, <1>3, <2>1 DEF Named, BaseInv, TypeOK
    <2>3. \A c \in yielded :
            /\ op[c].call = "write" /\ op[c].fd = fd => ~Named(c)'
            /\ op[c].call # "write" \/ op[c].fd # fd => (Named(c)' <=> Named(c))
        BY <1>1, <1>3, <2>1 DEF Named, BaseInv, TypeOK, CAN_READ, CAN_WRITE
    <2>4. ~Possible(d)
        BY <1>1, <1>3 DEF Possible, Writable
    <2>. QED
        BY <1>1, <1>3, <2>2, <2>3, <2>4, YieldSleep
<1>4. CASE /\ \E next \in Abstract!Following(d, op[d]) : op' = [op EXCEPT ![d] = next]
           /\ UNCHANGED <<current, queue_, slots, yielded>>
    BY <1>1, <1>4, FollowingTypes, MoveSleep
<1>. QED
    BY <1>2, <1>3, <1>4 DEF async_write, n

(* Who resumes clears its slot, whomever the slot names.                   *)
LEMMA ResumedSleep ==
    ASSUME BaseInv, NEW d \in Worker, current = d, resumed(d)
    PROVE  KeepsNames /\ KeepsAsleep /\ FallsAsleep
<1>. DEFINE fd == op[d].fd
<1>1. /\ fd \in Fd /\ yielded' = yielded \ {d} /\ yielded \subseteq Worker /\ Work(d)
      /\ UNCHANGED <<current, queue_>>
    BY CallCases DEF resumed, BaseInv, TypeOK, Work
<1>2. ASSUME NEW c \in yielded' 
      PROVE  /\ op'[c] = op[c]
             /\ Named(c)' => Named(c)
             /\ op[c].call # op[d].call \/ op[c].fd # fd => (Named(c) => Named(c)')
    <2>1. /\ c \in Worker /\ c # d /\ op'[c] = op[c]
          /\ op[c].call \in {"wait", "read", "write"}
          /\ c # NULL
        BY <1>1, <1>2, CallCases, NullAssumption
           DEF resumed, read_resumes, write_resumes, wait_resumes, BaseInv, TypeOK, Worker
    <2>2. CASE /\ op[d].call = "read"
               /\ co_read' = Cleared(co_read, fd)
               /\ waited_' = [waited_ EXCEPT ![fd] = waited_[fd] \ {CAN_READ}]
               /\ UNCHANGED <<waited_mask_, co_write, co_wait, op>>
        BY <1>1, <2>1, <2>2 DEF Named, Cleared, BaseInv, TypeOK, CAN_READ, CAN_WRITE
    <2>3. CASE /\ op[d].call = "write"
               /\ co_write' = Cleared(co_write, fd)
               /\ waited_' = [waited_ EXCEPT ![fd] = waited_[fd] \ {CAN_WRITE}]
               /\ UNCHANGED <<waited_mask_, co_read, co_wait, op>>
        BY <1>1, <2>1, <2>3 DEF Named, Cleared, BaseInv, TypeOK, CAN_READ, CAN_WRITE
    <2>4. CASE /\ op[d].call = "wait"
               /\ co_wait' = [co_wait EXCEPT ![fd] = NULL]
               /\ waited_mask_' = [waited_mask_ EXCEPT ![fd] = {}]
               /\ UNCHANGED <<waited_, co_read, co_write>>
        BY <1>1, <2>1, <2>4 DEF Named, BaseInv, TypeOK
    <2>. QED
        BY <2>1, <2>2, <2>3, <2>4 DEF resumed, read_resumes, write_resumes, wait_resumes
<1>3. KeepsNames
    BY <1>1, <1>2 DEF KeepsNames, Disturbs
<1>4. KeepsAsleep
    BY <1>1 DEF KeepsAsleep, Blocked, Suspended
<1>5. FallsAsleep
    BY <1>1 DEF FallsAsleep
<1>. QED
    BY <1>3, <1>4, <1>5

LEMMA StepSleep == ASSUME BaseInv, [Next]_vars PROVE KeepsNames /\ KeepsAsleep /\ FallsAsleep
<1>1. CASE \/ epoll_wait \/ epoll_drop \/ UNCHANGED vars
           \/ \E fd \in Fd : arrive(fd) \/ drain(fd) \/ peer_close(fd)
    <2>1. UNCHANGED <<current, queue_, slots, op, yielded>>
        BY <1>1 DEF epoll_wait, epoll_drop, vars, arrive, drain, peer_close
    <2>. QED
        BY <2>1, SameSlots, SameQueue DEF slots
<1>2. ASSUME NEW d \in Worker, Work(d), ~(UNCHANGED vars)
      PROVE  KeepsNames /\ KeepsAsleep /\ FallsAsleep
    BY <1>2, WaitSleep, ReadSleep, WriteSleep, ResumedSleep DEF Work, read_zero
<1>. QED
    BY <1>1, <1>2, ReschedSleep, TriggerSleep DEF Next, Process, poll_forever

-----------------------------------------------------------------------------
(* How a step changes the edges: one disappears when it is handled, or     *)
(* when the kernel finds nothing possible, and what becomes possible comes *)
(* with one.                                                               *)
KeepsEdges == \A fd \in Fd :
    /\ fd \in Listed =>
        fd \in Listed' \/ (trigger /\ fd = Head(events)) \/ (~Level(fd) /\ ~Level(fd)')
    /\ Readable(fd)' /\ ~Readable(fd) => fd \in Listed'
    /\ Writable(fd)' /\ ~Writable(fd) => fd \in Listed'
    /\ event_[fd] \subseteq event_'[fd]
    /\ trigger /\ fd = Head(events) => CAN_READ \in event_'[fd]

LEMMA DeviceEdges ==
    ASSUME BaseInv, NEW fd \in Fd, arrive(fd) \/ drain(fd) \/ peer_close(fd)
    PROVE  KeepsEdges
<1>1. UNCHANGED <<current, queue_, events, slots, op, yielded>>
    BY DEF arrive, drain, peer_close
<1>2. Listed \subseteq Listed'
    BY <1>1, EdgeFacts DEF arrive, drain, peer_close, Listed
<1>3. \A g \in Fd : /\ Readable(g)' /\ ~Readable(g) => g \in Listed'
                    /\ Writable(g)' /\ ~Writable(g) => g \in Listed'
    <2>1. inq \in [Fd -> 0 .. Cap] /\ room \in [Fd -> 0 .. Cap] /\ eof \in [Fd -> BOOLEAN]
        BY DEF BaseInv, TypeOK
    <2>2. CASE arrive(fd)
        BY <2>1, <2>2, EdgeFacts DEF arrive, Readable, Writable, Listed
    <2>3. CASE drain(fd)
        <3>1. room[fd] > 0 \/ room[fd] = 0
            BY <2>1, BoundsAssumption
        <3>. QED
            BY <2>1, <2>3, <3>1, EdgeFacts DEF drain, Readable, Writable, Listed
    <2>4. CASE peer_close(fd)
        BY <2>1, <2>4, EdgeFacts DEF peer_close, Readable, Writable, Listed
    <2>. QED
        BY <2>2, <2>3, <2>4
<1>4. ~trigger
    BY <1>1 DEF trigger, BaseInv, TypeOK
<1>. QED
    BY <1>1, <1>2, <1>3, <1>4 DEF KeepsEdges, slots

(* Whoever works moves data but lists or handles nothing.                  *)
LEMMA WorkEdges == ASSUME BaseInv, NEW d \in Worker, Work(d) PROVE KeepsEdges
<1>. DEFINE fd == op[d].fd
<1>1. current = d /\ fd \in Fd /\ d # Main
    BY WorkerRuns DEF Work, Worker
<1>2. /\ inq \in [Fd -> 0 .. Cap] /\ room \in [Fd -> 0 .. Cap]
      /\ Abstract!Lesser(inq[fd], op[d].left) \in Nat
      /\ Abstract!Lesser(room[fd], op[d].left) \in Nat
    BY <1>1, WorkerRuns, LesserFacts DEF BaseInv, TypeOK
<1>3. UNCHANGED <<events, rdllist, eof, event_>>
    BY DEF Work, async_wait, async_read, async_write, read_zero, resumed, read_resumes,
        write_resumes, wait_resumes, vars, device, slots, co_yield
<1>4. /\ \/ UNCHANGED inq
         \/ inq' = [inq EXCEPT ![fd] = inq[fd] - Abstract!Lesser(inq[fd], op[d].left)]
      /\ \/ UNCHANGED room
         \/ room' = [room EXCEPT ![fd] = room[fd] - Abstract!Lesser(room[fd], op[d].left)]
    BY DEF Work, async_wait, async_read, async_write, read_zero, resumed, read_resumes,
        write_resumes, wait_resumes, vars, device, slots, co_yield
<1>5. \A g \in Fd : (Readable(g)' => Readable(g)) /\ (Writable(g)' => Writable(g))
    BY <1>1, <1>2, <1>3, <1>4 DEF Readable, Writable
<1>6. ~trigger
    BY <1>1 DEF trigger
<1>. QED
    BY <1>3, <1>5, <1>6 DEF KeepsEdges, Listed

LEMMA StepEdges == ASSUME BaseInv, [Next]_vars PROVE KeepsEdges
<1>1. CASE UNCHANGED vars \/ resched
    <2>1. UNCHANGED <<events, rdllist, inq, room, eof, event_>>
        BY <1>1 DEF vars, resched, device, slots
    <2>2. ~trigger
        <3>1. ASSUME trigger PROVE FALSE
            BY <1>1, <2>1, <3>1, DequeueFacts DEF trigger, BaseInv, TypeOK
        <3>. QED
            BY <3>1
    <2>. QED
        BY <2>1, <2>2 DEF KeepsEdges, Listed, Readable, Writable
<1>2. CASE epoll_drop
    <2>1. events = << >> /\ UNCHANGED <<events, inq, room, eof, event_>>
        BY <1>2 DEF epoll_drop, slots
    <2>2. PICK fd \in Fd : ~Level(fd) /\ Range(rdllist) \subseteq Range(rdllist') \cup {fd}
        BY <1>2, DropFacts
    <2>3. Listed \subseteq Listed' \cup {fd} /\ ~Level(fd)'
        BY <2>1, <2>2 DEF Listed, Level, Readable, Writable
    <2>. QED
        BY <2>1, <2>2, <2>3 DEF KeepsEdges, Readable, Writable, trigger
<1>3. CASE epoll_wait
    <2>1. PICK n \in 1 .. Len(rdllist) :
            /\ events' = SubSeq(rdllist, 1, n)
            /\ rdllist' = SubSeq(rdllist, n + 1, Len(rdllist))
        BY <1>3 DEF epoll_wait
    <2>2. events = << >> /\ UNCHANGED <<inq, room, eof, event_>>
        BY <1>3 DEF epoll_wait, slots
    <2>3. Range(rdllist) = Range(events') \cup Range(rdllist')
        BY <2>1, SplitFacts DEF BaseInv, TypeOK
    <2>4. Range(events) = {}
        BY <2>2 DEF Range
    <2>5. Listed = Listed'
        BY <2>3, <2>4 DEF Listed
    <2>. QED
        BY <2>2, <2>5 DEF KeepsEdges, Readable, Writable, trigger
<1>4. CASE trigger
    <2>1. event_ \in [Fd -> SUBSET Event]
        BY DEF BaseInv, TypeOK
    <2>. QED
        BY <1>4, <2>1, TriggerFacts DEF KeepsEdges, Readable, Writable, Event
<1>. QED
    BY <1>1, <1>2, <1>3, <1>4, DeviceEdges, WorkEdges DEF Next, Process, poll_forever

-----------------------------------------------------------------------------
(* The inductive invariant behind the wake-ups, whoever uses a descriptor. *)
WakeInv == EdgePending /\ NamedAreWoken

LEMMA InitWake == Init => WakeInv
<1>. SUFFICES ASSUME Init PROVE WakeInv
    OBVIOUS
<1>1. NamedAreWoken
    BY DEF Init, NamedAreWoken, Blocked
<1>2. EdgePending
    BY RegisteredAssumption DEF Init, EdgePending, Listed
<1>. QED
    BY <1>1, <1>2 DEF WakeInv

LEMMA NextWake == BaseInv /\ WakeInv /\ [Next]_vars => WakeInv'
<1>. SUFFICES ASSUME BaseInv, WakeInv, [Next]_vars PROVE WakeInv'
    OBVIOUS
<1>1. KeepsNames /\ KeepsAsleep /\ FallsAsleep /\ KeepsEdges
    BY StepSleep, StepEdges
<1>2. EdgePending'
    <2>1. SUFFICES ASSUME NEW fd \in Fd, CAN_READ \notin event_'[fd], Level(fd)'
                   PROVE  fd \in Listed'
        BY DEF EdgePending
    <2>2. CASE Level(fd)
        BY <1>1, <2>1, <2>2 DEF KeepsEdges, WakeInv, EdgePending
    <2>3. CASE ~Level(fd)
        BY <1>1, <2>1, <2>3 DEF KeepsEdges, Level
    <2>. QED
        BY <2>2, <2>3
<1>3. NamedAreWoken'
    <2>1. SUFFICES ASSUME NEW c \in Worker, Blocked(c)', Named(c)', Possible(c)'
                   PROVE  op'[c].fd \in Listed'
        BY DEF NamedAreWoken, Listed
    <2>2. CASE c \notin yielded
        BY <1>1, <2>1, <2>2 DEF FallsAsleep, Blocked, WakeInv
    <2>3. CASE c \in yielded
        <3>1. op'[c] = op[c] /\ Named(c) /\ Blocked(c) /\ op[c].fd \in Fd
            BY <1>1, <2>1, <2>3, CallCases DEF KeepsNames, KeepsAsleep, Blocked
        <3>2. CASE Possible(c)
            <4>1. op[c].fd \in Listed
                BY <3>1, <3>2 DEF WakeInv, NamedAreWoken, Listed
            <4>2. Level(op[c].fd)
                BY <3>2 DEF Possible, Level
            <4>3. ~(trigger /\ op[c].fd = Head(events))
                BY <2>1, <2>3, <3>1, TriggerFacts DEF Blocked, Suspended
            <4>. QED
                BY <1>1, <3>1, <4>1, <4>2, <4>3 DEF KeepsEdges
        <3>3. CASE ~Possible(c)
            <4>1. IF op[c].call = "write" THEN Writable(op[c].fd)' ELSE Readable(op[c].fd)'
                BY <2>1, <3>1 DEF Possible, Readable, Writable
            <4>. QED
                BY <1>1, <3>1, <3>3, <4>1 DEF KeepsEdges, Possible
        <3>. QED
            BY <3>2, <3>3
    <2>. QED
        BY <2>2, <2>3
<1>. QED
    BY <1>2, <1>3 DEF WakeInv

LEMMA WakeInvariance == Spec => []WakeInv
<1>. QED
    BY InitWake, InitBase, NextWake, NextBase, PTL DEF Spec

(* Whoever shares a descriptor with whom: while a suspended call could go  *)
(* on and its slot names the caller, the kernel or the loop still has an   *)
(* event of the descriptor to handle.                                      *)
THEOREM NamedWakeupsArePending == Spec => []NamedAreWoken
<1>1. WakeInv => NamedAreWoken
    BY DEF WakeInv
<1>. QED
    BY <1>1, WakeInvariance, PTL

(* The two ways to lose a slot, on the server of the bridge: both of its   *)
(* coroutines are inside a write to one descriptor, and one yields or      *)
(* resumes.                                                                *)
THEOREM SlotsAreLostBySharing == Spec => StrandedBySharing
<1>1. BaseInv /\ [Next]_vars =>
        [\A c \in Worker : Stranded(c)' /\ ~Stranded(c) =>
            \E d \in Worker \ {c} :
                Work(d) /\ op[d].call = op[c].call /\ op[d].fd = op[c].fd]_vars
    <2>1. SUFFICES ASSUME BaseInv, [Next]_vars, NEW c \in Worker,
                          Stranded(c)', ~Stranded(c)
                   PROVE  \E d \in Worker \ {c} :
                            Work(d) /\ op[d].call = op[c].call /\ op[d].fd = op[c].fd
        OBVIOUS
    <2>2. c \in yielded' /\ Blocked(c)' /\ ~Named(c)'
        BY <2>1 DEF Stranded, Blocked
    <2>3. KeepsNames /\ KeepsAsleep /\ FallsAsleep
        BY <2>1, StepSleep
    <2>4. c \in yielded /\ Named(c)
        BY <2>1, <2>2, <2>3 DEF FallsAsleep, KeepsAsleep, Stranded
    <2>. QED
        BY <2>2, <2>3, <2>4 DEF KeepsNames, Disturbs
<1>. QED
    BY <1>1, BaseInvariance, PTL DEF Spec, StrandedBySharing

(* Who lost its slot is never posted again: no event, no handler and no    *)
(* call of another worker gives the slot back.                             *)
THEOREM TheStrandedSleepForGood == Spec => StrandedForGood
<1>1. BaseInv /\ [Next]_vars => [\A c \in Worker : Stranded(c) => Stranded(c)']_vars
    <2>1. SUFFICES ASSUME BaseInv, [Next]_vars, NEW c \in Worker, Stranded(c)
                   PROVE  Stranded(c)'
        OBVIOUS
    <2>2. KeepsNames /\ KeepsAsleep
        BY <2>1, StepSleep
    <2>3. Blocked(c)' /\ c \in yielded \cap yielded'
        BY <2>1, <2>2 DEF Stranded, KeepsAsleep, Blocked
    <2>. QED
        BY <2>1, <2>2, <2>3 DEF Stranded, KeepsNames
<1>. QED
    BY <1>1, BaseInvariance, PTL DEF Spec, StrandedForGood

-----------------------------------------------------------------------------
(* Which slots are shared is a matter of who reads and writes what.        *)

(* A worker reads and waits at its source and writes to its sinks.         *)
OpsAtHome == \A c \in Worker :
    IF op[c].call = "write" THEN op[c].fd \in Sinks[c] ELSE op[c].fd = Source[c]

(* Some other worker may make the call of c on the descriptor of c.        *)
Shared(c) == \E d \in Worker \ {c} :
    IF op[c].call = "write" THEN op[c].fd \in Sinks[d] ELSE op[c].fd = Source[d]

(* Where nobody else may wait, a sleeper keeps its name until it resumes.  *)
HomeInv == OpsAtHome /\ \A c \in yielded : Named(c) \/ Shared(c)

(* The next call of a worker is made at home.                              *)
LEMMA FollowingAtHome ==
    ASSUME NEW c \in Worker, NEW o, NEW next \in Abstract!Following(c, o)
    PROVE  IF next.call = "write" THEN next.fd \in Sinks[c] ELSE next.fd = Source[c]
<1>1. CASE next = Abstract!First(c)
    BY <1>1 DEF Abstract!First, Abstract!Wait, Abstract!Read
<1>2. CASE \E fd \in Sinks[c] : next = Abstract!Write(fd)
    BY <1>2 DEF Abstract!Write
<1>. QED
    BY <1>1, <1>2 DEF Abstract!Following

LEMMA AfterAtHome ==
    ASSUME BaseInv, OpsAtHome, NEW c \in Worker, NEW n \in Nat,
           NEW next \in Abstract!After(c, op[c], n)
    PROVE  IF next.call = "write" THEN next.fd \in Sinks[c] ELSE next.fd = Source[c]
<1>1. CASE next = [op[c] EXCEPT !.left = op[c].left - n]
    <2>1. op[c] \in Call
        BY DEF BaseInv, TypeOK
    <2>2. next.call = op[c].call /\ next.fd = op[c].fd
        BY <1>1, <2>1 DEF Call
    <2>. QED
        BY <2>2 DEF OpsAtHome
<1>2. CASE next \in Abstract!Following(c, op[c])
    BY <1>2, FollowingAtHome
<1>. QED
    BY <1>1, <1>2 DEF Abstract!After

LEMMA WorkAtHome == ASSUME BaseInv, OpsAtHome, NEW d \in Worker, Work(d) PROVE OpsAtHome'
<1>. DEFINE AtHome(next) ==
        IF next.call = "write" THEN next.fd \in Sinks[d] ELSE next.fd = Source[d]
<1>1. /\ Abstract!Lesser(inq[op[d].fd], op[d].left) \in Nat
      /\ Abstract!Lesser(room[op[d].fd], op[d].left) \in Nat
    BY WorkerRuns, LesserFacts DEF Work
<1>2. \A n \in Nat : Goes(d, n) => \E next : AtHome(next) /\ op' = [op EXCEPT ![d] = next]
    BY AfterAtHome DEF Goes
<1>3. AtHome(Abstract!Read(d)) /\ \A next \in Abstract!Following(d, op[d]) : AtHome(next)
    BY FollowingAtHome DEF Abstract!Read
<1>4. UNCHANGED op \/ \E next : AtHome(next) /\ op' = [op EXCEPT ![d] = next]
    <2>1. CASE async_wait(d)
        BY <1>3, <2>1 DEF async_wait, co_yield
    <2>2. CASE async_read(d)
        BY <1>1, <1>2, <2>2 DEF async_read, co_yield
    <2>3. CASE async_write(d)
        BY <1>1, <1>2, <1>3, <2>3 DEF async_write, co_yield
    <2>4. CASE read_zero(d) \/ resumed(d)
        BY <1>3, <2>4 DEF read_zero, resumed, read_resumes, write_resumes, wait_resumes, vars
    <2>. QED
        BY <2>1, <2>2, <2>3, <2>4 DEF Work
<1>. QED
    BY <1>4 DEF OpsAtHome, BaseInv, TypeOK

LEMMA InitHome == Init => HomeInv
BY DEF Init, HomeInv, OpsAtHome, Abstract!Init, Abstract!First, Abstract!Wait, Abstract!Read

LEMMA NextHome == BaseInv /\ HomeInv /\ [Next]_vars => HomeInv'
<1>. SUFFICES ASSUME BaseInv, HomeInv, [Next]_vars PROVE HomeInv'
    OBVIOUS
<1>1. OpsAtHome'
    <2>1. CASE \E d \in Worker : Work(d)
        BY <2>1, WorkAtHome DEF HomeInv
    <2>2. CASE ~ \E d \in Worker : Work(d)
        <3>1. UNCHANGED op
            BY <2>2 DEF Next, Process, poll_forever, epoll_wait, resched, trigger,
                epoll_drop, arrive, drain, peer_close, vars
        <3>. QED
            BY <3>1 DEF HomeInv, OpsAtHome
    <2>. QED
        BY <2>1, <2>2
<1>2. ASSUME NEW c \in yielded' PROVE Named(c)' \/ Shared(c)'
    <2>1. KeepsNames /\ FallsAsleep
        BY StepSleep
    <2>2. CASE c \notin yielded
        BY <1>2, <2>1, <2>2 DEF FallsAsleep
    <2>3. CASE c \in yielded
        <3>1. op'[c] = op[c] /\ (Shared(c) => Shared(c)')
            BY <1>2, <2>1, <2>3 DEF KeepsNames, Shared
        <3>2. ASSUME NEW d \in Worker, Disturbs(d, c) PROVE Shared(c)
            BY <3>2 DEF HomeInv, OpsAtHome, Disturbs, Shared
        <3>. QED
            BY <1>2, <2>1, <2>3, <3>1, <3>2 DEF KeepsNames, HomeInv
    <2>. QED
        BY <2>2, <2>3
<1>. QED
    BY <1>1, <1>2 DEF HomeInv

LEMMA HomeInvariance == Spec => []HomeInv
<1>. QED
    BY InitHome, InitBase, NextHome, NextBase, PTL DEF Spec

(* How all the programs use their descriptors: each has one reader.        *)
OneReader == \A c, d \in Worker : c # d => Source[c] # Source[d]

(* How the client uses them: each has one writer, too.                     *)
OneUserPerSlot == OneReader /\ \A c, d \in Worker : c # d => Sinks[c] \cap Sinks[d] = {}

ReadersCanBePosted == \A c \in Worker : Blocked(c) /\ op[c].call # "write" => Named(c)

(* Readers are safe even on the server, whose coroutines both write to     *)
(* both descriptors: who sleeps in a read or a wait can always be posted.  *)
THEOREM ReadersAreNamed == OneReader /\ Spec => []ReadersCanBePosted
<1>1. OneReader => (HomeInv => ReadersCanBePosted)
    BY DEF OneReader, HomeInv, OpsAtHome, Shared, ReadersCanBePosted, Blocked
<1>2. OneReader => OneReader'
    BY DEF OneReader
<1>. QED
    BY <1>1, <1>2, HomeInvariance, PTL

(* Whoever yields is named by the slot of its descriptor until it resumes. *)
THEOREM SleepersAreNamed == OneUserPerSlot /\ Spec => []YieldedCanBePosted
<1>1. OneUserPerSlot => (HomeInv => YieldedCanBePosted)
    BY DEF OneUserPerSlot, OneReader, HomeInv, OpsAtHome, Shared, YieldedCanBePosted, Blocked
<1>2. OneUserPerSlot => OneUserPerSlot'
    BY DEF OneUserPerSlot, OneReader
<1>. QED
    BY <1>1, <1>2, HomeInvariance, PTL

(* No wake-up is lost: while a suspended call could go on, the kernel or   *)
(* the loop still has an event of its descriptor to handle.                *)
THEOREM WakeupsArePending == OneUserPerSlot /\ Spec => []NoLostWakeup
<1>1. NamedAreWoken /\ YieldedCanBePosted => NoLostWakeup
    BY DEF NamedAreWoken, YieldedCanBePosted, NoLostWakeup
<1>. QED
    BY <1>1, NamedWakeupsArePending, SleepersAreNamed, PTL

-----------------------------------------------------------------------------
(* A step of the loop, of a worker or of a device is a step of the blocking*)
(* calls, or moves nothing.                                                *)
LEMMA StepImplements == BaseInv /\ [Next]_vars => [Abstract!Next]_(Abstract!vars)
<1>. SUFFICES ASSUME BaseInv, [Next]_vars PROVE [Abstract!Next]_(Abstract!vars)
    OBVIOUS
<1>1. CASE poll_forever \/ epoll_drop \/ UNCHANGED vars
    BY <1>1 DEF poll_forever, epoll_wait, resched, trigger, epoll_drop, vars, device,
        Abstract!vars
<1>2. ASSUME NEW fd \in Fd, arrive(fd) \/ drain(fd) \/ peer_close(fd)
      PROVE  Abstract!Device(fd)
    BY <1>2 DEF arrive, drain, peer_close, Abstract!Device
<1>3. ASSUME NEW c \in Worker, Work(c)
      PROVE  Abstract!Take(c) \/ Abstract!Put(c) \/ Abstract!Fail(c) \/ Abstract!Waited(c)
             \/ UNCHANGED Abstract!vars
    <2>1. CASE async_wait(c)
        <3>1. CASE /\ op[c].call = "wait"
                   /\ op' = [op EXCEPT ![c] = Abstract!Read(c)]
                   /\ UNCHANGED device
            BY <3>1 DEF device, Abstract!Waited
        <3>2. CASE co_yield(c)
            BY <3>2 DEF co_yield, device, Abstract!vars
        <3>. QED
            BY <2>1, <3>1, <3>2 DEF async_wait, Pending
    <2>2. CASE async_read(c)
        <3>1. CASE co_yield(c)
            BY <3>1 DEF co_yield, device, Abstract!vars
        <3>2. CASE ~co_yield(c)
            BY <2>2, <3>2 DEF async_read, Pending, Goes, Abstract!Take
        <3>. QED
            BY <3>1, <3>2
    <2>3. CASE async_write(c)
        <3>1. CASE co_yield(c)
            BY <3>1 DEF co_yield, device, Abstract!vars
        <3>2. CASE /\ op[c].call = "write" /\ op[c].fd \in Failing
                   /\ \E next \in Abstract!Following(c, op[c]) : op' = [op EXCEPT ![c] = next]
                   /\ UNCHANGED device
            BY <3>2 DEF device, Abstract!Fail
        <3>3. CASE LET n == Abstract!Lesser(room[op[c].fd], op[c].left) IN
                   /\ op[c].call = "write" /\ n > 0
                   /\ room' = [room EXCEPT ![op[c].fd] = @ - n]
                   /\ Goes(c, n)
                   /\ UNCHANGED <<inq, eof>>
            BY <3>3 DEF Goes, Abstract!Put
        <3>. QED
            BY <2>3, <3>1, <3>2, <3>3 DEF async_write, Pending
    <2>4. CASE read_zero(c)
        BY <2>4 DEF read_zero, vars, device, Abstract!vars
    <2>5. CASE resumed(c)
        BY <2>5 DEF resumed, read_resumes, write_resumes, wait_resumes, device, Abstract!vars,
            Abstract!Waited
    <2>. QED
        BY <1>3, <2>1, <2>2, <2>3, <2>4, <2>5 DEF Work
<1>. QED
    BY <1>1, <1>2, <1>3 DEF Next, Process, Abstract!Next

(* The asynchronous calls are blocking calls to the coroutine that makes   *)
(* them: no unit is read twice, lost or made up, and the calls of a worker *)
(* follow each other, whoever shares a descriptor and in whatever order    *)
(* edges, wake-ups and the ready queue come.                               *)
THEOREM CallsBehaveAsBlocking == Spec => ImplementsBlockingCalls
<1>1. Init => Abstract!Init
    BY DEF Init
<1>2. BaseInv /\ [Next]_vars => [Abstract!Next]_(Abstract!vars)
    BY StepImplements
<1>. QED
    BY <1>1, <1>2, BaseInvariance, PTL DEF Spec, ImplementsBlockingCalls, Abstract!Spec

=============================================================================
