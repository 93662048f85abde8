------------------------------ MODULE EventLoop ------------------------------
(***************************************************************************)
(* epoll_event_pool and async_file_event (network/epoll/epoll.hpp): the    *)
(* coroutine Main waits for edge-triggered events and posts the coroutines *)
(* that yielded in async_read, async_write and async_wait.                 *)
(*                                                                         *)
(* The workers are the coroutines of the bridge programs: each reads one   *)
(* descriptor, then writes what it read to one of its sinks or drops it; a *)
(* broadcast is written to several sinks, one after the other.             *)
(* A descriptor outside Stream carries datagrams and is used with          *)
(* async_read_some / async_write_some / async_read_from / async_send_to;   *)
(* one in Stream carries messages of Size units for async_read/async_write.*)
(* Coroutines are not preempted, so a step here is all a worker does from  *)
(* one system call up to the next one; the devices act in between.         *)
(***************************************************************************)
EXTENDS Scheduler

CONSTANTS
    Fd,             \* the file descriptors
    Registered,     \* the order in which their add_event was called
    Udp,            \* those of udp_socket
    Source,         \* Source[c]: the descriptor worker c reads
    Sinks,          \* Sinks[c]: those it may write what it read to
    Stream,         \* descriptors read and written whole, piece by piece
    Waiters,        \* workers that call async_wait before they read
    Broadcasters,   \* workers that may write what they read to several sinks
    Failing,        \* descriptors a write to which may fail
    Size,           \* units of a message on a Stream
    Startup,        \* the order in which Main posts the workers
    MAX_EVENTS,     \* events of one epoll_wait, 10 in epoll.hpp
    Cap,            \* bound: units a descriptor holds in each direction
    Closable,       \* descriptors whose stream may end
    NULL

Worker == Coroutine \ {Main}

ASSUME NullAssumption == NULL \notin Coroutine
ASSUME SourceAssumption == Source \in [Worker -> Fd]
ASSUME SinksAssumption == Sinks \in [Worker -> SUBSET Fd]
ASSUME SetsAssumption == Stream \subseteq Fd /\ Udp \subseteq Fd \ Stream
                         /\ Closable \subseteq Fd \ Udp /\ Waiters \subseteq Worker
                         /\ Failing \subseteq Fd /\ Broadcasters \subseteq Worker
ASSUME BoundsAssumption ==
    Size \in Nat \ {0} /\ MAX_EVENTS \in Nat \ {0} /\ Cap \in Nat \ {0}
ASSUME RegisteredAssumption ==
    Registered \in Seq(Fd) /\ IsInjective(Registered) /\ Range(Registered) = Fd
ASSUME StartupAssumption ==
    Startup \in Seq(Worker) /\ IsInjective(Startup) /\ Range(Startup) = Worker

CAN_READ == "CAN_READ"
CAN_WRITE == "CAN_WRITE"
Event == {CAN_READ, CAN_WRITE}

VARIABLES
    events,         \* what epoll_wait returned and the loop has not handled
    rdllist,        \* the kernel's list of descriptors with a new edge
    inq, room, eof, \* the kernel's buffers, as in BlockingCalls
    event_,         \* event_[fd]: the events seen so far, never cleared
    waited_,        \* waited_[fd]: what co_read and co_write wait for
    waited_mask_,   \* waited_mask_[fd]: what co_wait waits for
    co_read, co_write, co_wait,  \* per fd, the coroutine that waits, or NULL
    op,             \* op[c]: the call of worker c and the units left to move
    yielded         \* the workers inside the co_yield of their call

device == <<rdllist, inq, room, eof>>
slots == <<event_, waited_, waited_mask_, co_read, co_write, co_wait>>
vars == <<current, queue_, events, device, slots, op, yielded>>

(* The calls of a worker and their order are those of the abstraction.     *)
Abstract == INSTANCE BlockingCalls

Call == [call : {"wait", "read", "write"}, fd : Fd, left : 0 .. Size]

TypeOK ==
    /\ current \in Coroutine /\ queue_ \in Seq(Coroutine)
    /\ events \in Seq(Fd) /\ rdllist \in Seq(Fd)
    /\ inq \in [Fd -> 0 .. Cap] /\ room \in [Fd -> 0 .. Cap] /\ eof \in [Fd -> BOOLEAN]
    /\ event_ \in [Fd -> SUBSET Event] /\ waited_ \in [Fd -> SUBSET Event]
    /\ waited_mask_ \in [Fd -> SUBSET Event]
    /\ co_read \in [Fd -> Worker \cup {NULL}]
    /\ co_write \in [Fd -> Worker \cup {NULL}]
    /\ co_wait \in [Fd -> Worker \cup {NULL}]
    /\ op \in [Worker -> Call]
    /\ yielded \subseteq Worker

(* poll_forever is entered; add_event found every descriptor writable.  The*)
(* coroutines of the server call add_event themselves, all of them before  *)
(* the first epoll_wait: until then the list is only appended to.          *)
Init ==
    /\ current = Main /\ queue_ = Startup
    /\ events = << >> /\ rdllist = Registered
    /\ Abstract!Init
    /\ event_ = [fd \in Fd |-> {}] /\ waited_ = [fd \in Fd |-> {}]
    /\ waited_mask_ = [fd \in Fd |-> {}]
    /\ co_read = [fd \in Fd |-> NULL]
    /\ co_write = [fd \in Fd |-> NULL]
    /\ co_wait = [fd \in Fd |-> NULL]
    /\ yielded = {}

-----------------------------------------------------------------------------
(* The kernel.  A descriptor that gains data, gains room after it was full *)
(* or reaches its end has an edge; it is on the list at most once.         *)
edge(fd) ==
    rdllist' = IF fd \in Range(rdllist) THEN rdllist ELSE Append(rdllist, fd)

arrive(fd) ==
    /\ inq[fd] < Cap /\ ~eof[fd]
    /\ inq' = [inq EXCEPT ![fd] = @ + 1]
    /\ edge(fd)
    /\ UNCHANGED <<current, queue_, events, room, eof, slots, op, yielded>>

drain(fd) ==
    /\ room[fd] < Cap
    /\ room' = [room EXCEPT ![fd] = @ + 1]
    /\ IF room[fd] = 0 THEN edge(fd) ELSE UNCHANGED rdllist
    /\ UNCHANGED <<current, queue_, events, inq, eof, slots, op, yielded>>

peer_close(fd) ==
    /\ fd \in Closable /\ ~eof[fd]
    /\ eof' = [eof EXCEPT ![fd] = TRUE]
    /\ edge(fd)
    /\ UNCHANGED <<current, queue_, events, inq, room, slots, op, yielded>>

Readable(fd) == inq[fd] > 0 \/ eof[fd]
Writable(fd) == room[fd] > 0
Level(fd) == Readable(fd) \/ Writable(fd)

(* A list without its entry i.                                             *)
Without(q, i) == SubSeq(q, 1, i - 1) \o SubSeq(q, i + 1, Len(q))

(* epoll_wait takes the edges in order, up to MAX_EVENTS; on its way it    *)
(* drops those whose level has gone, and while there are none it blocks.   *)
Scanned == 1 .. Abstract!Lesser(Len(rdllist), MAX_EVENTS)

epoll_drop ==
    /\ current = Main /\ num = 0 /\ events = << >>
    /\ \E i \in Scanned :
        ~Level(rdllist[i]) /\ rdllist' = Without(rdllist, i)
    /\ UNCHANGED <<current, queue_, events, inq, room, eof, slots, op, yielded>>

Returned(n) == Scanned = 1 .. n /\ \A i \in Scanned : Level(rdllist[i])

(* Mistaken variant: `if (co_num_ready())' instead of `while'.             *)
epoll_waitWhileReady ==
    /\ current = Main /\ events = << >>
    /\ \E n \in 1 .. Len(rdllist) :
        /\ Returned(n)
        /\ events' = SubSeq(rdllist, 1, n)
        /\ rdllist' = SubSeq(rdllist, n + 1, Len(rdllist))
    /\ UNCHANGED <<current, queue_, inq, room, eof, slots, op, yielded>>

(* poll_forever once nobody is ready: nfds = epoll_wait(...).              *)
epoll_wait ==
    /\ current = Main /\ num = 0 /\ events = << >>
    /\ \E n \in 1 .. Len(rdllist) :
        /\ Returned(n)
        /\ events' = SubSeq(rdllist, 1, n)
        /\ rdllist' = SubSeq(rdllist, n + 1, Len(rdllist))
    /\ UNCHANGED <<current, queue_, inq, room, eof, slots, op, yielded>>

(* poll_forever while somebody is ready: co_resched().                     *)
resched ==
    /\ current = Main /\ num > 0 /\ events = << >>
    /\ \E next \in Coroutine : dequeue(enqueue(queue_, Main), next) /\ current' = next
    /\ UNCHANGED <<events, device, slots, op, yielded>>

(* The events of an epoll_event as the loop computes them: `events | EPOLLIN'*)
(* and `events | EPOLLOUT' are never zero, so an event always means both.  *)
Reported(fd) == {CAN_READ, CAN_WRITE}

(* What trigger posts, in its order: the writer, the reader, the waiter.   *)
when(flag, co) == IF flag THEN <<co>> ELSE << >>

(* Mistaken variants: the slots are not guarded by waited_; only one of the*)
(* writer and the reader is posted; the waiter is forgotten.               *)
PostedUnasked(fd, seen) ==
    <<co_write[fd]>> \o when(CAN_READ \in waited_[fd] \cap seen, co_read[fd])

PostedElseIf(fd, seen) ==
    IF CAN_WRITE \in waited_[fd] \cap seen THEN <<co_write[fd]>>
    ELSE when(CAN_READ \in waited_[fd] \cap seen, co_read[fd])

PostedNoWaiter(fd, seen) ==
    when(CAN_WRITE \in waited_[fd] \cap seen, co_write[fd])
        \o when(CAN_READ \in waited_[fd] \cap seen, co_read[fd])

Posted(fd, seen) ==
    when(CAN_WRITE \in waited_[fd] \cap seen, co_write[fd])
        \o when(CAN_READ \in waited_[fd] \cap seen, co_read[fd])
        \o when(waited_mask_[fd] \cap seen # {}, co_wait[fd])

(* The body of the dispatch loop of poll_forever for the next event: the   *)
(* handler of its descriptor is async_file_event::trigger.                 *)
trigger == LET fd == Head(events) IN
    /\ current = Main /\ events # << >>
    /\ events' = Tail(events)
    /\ LET seen == event_[fd] \cup Reported(fd) IN
        /\ event_' = [event_ EXCEPT ![fd] = seen]
        /\ queue_' = queue_ \o Posted(fd, seen)
    /\ UNCHANGED <<current, device, waited_, waited_mask_, co_read, co_write,
                   co_wait, op, yielded>>

-----------------------------------------------------------------------------
(* co_yield(&slot): the slot itself is set by the caller.                  *)
co_yield(c) ==
    /\ yielded' = yielded \cup {c}
    /\ \E next \in Coroutine : dequeue(queue_, next) /\ current' = next
    /\ UNCHANGED <<events, device, op>>

Pending(c, call) == op[c].call = call /\ c \notin yielded

(* Mistaken variant: a partial transfer counts as a whole one.             *)
GoesOnEarly(c, n) ==
    \E next \in Abstract!After(c, op[c], op[c].left) : op' = [op EXCEPT ![c] = next]

(* Worker c goes on after call op[c] has moved n units.                    *)
Goes(c, n) == \E next \in Abstract!After(c, op[c], n) : op' = [op EXCEPT ![c] = next]

(* async_wait: any event ever seen answers it at once.                     *)
async_wait(c) == LET fd == op[c].fd IN
    /\ Pending(c, "wait")
    /\ \/ /\ CAN_READ \in event_[fd]
          /\ op' = [op EXCEPT ![c] = Abstract!Read(c)]
          /\ UNCHANGED <<current, queue_, events, device, slots, yielded>>
       \/ /\ CAN_READ \notin event_[fd]
          /\ waited_mask_' = [waited_mask_ EXCEPT ![fd] = {CAN_READ}]
          /\ co_wait' = [co_wait EXCEPT ![fd] = c]
          /\ co_yield(c)
          /\ UNCHANGED <<event_, waited_, co_read, co_write>>

(* Mistaken variants: waited_ is assigned, not or-ed; EAGAIN is retried.   *)
async_readAssigns(c) == LET fd == op[c].fd IN
    /\ Pending(c, "read")
    /\ \/ LET n == Abstract!Lesser(inq[fd], op[c].left) IN
          /\ n > 0
          /\ inq' = [inq EXCEPT ![fd] = @ - n]
          /\ Goes(c, n)
          /\ UNCHANGED <<current, queue_, events, rdllist, room, eof, slots, yielded>>
       \/ /\ inq[fd] = 0 /\ ~eof[fd]
          /\ waited_' = [waited_ EXCEPT ![fd] = {CAN_READ}]
          /\ co_read' = [co_read EXCEPT ![fd] = c]
          /\ co_yield(c)
          /\ UNCHANGED <<event_, waited_mask_, co_write, co_wait>>

async_readRetries(c) == LET fd == op[c].fd IN
    /\ Pending(c, "read")
    /\ LET n == Abstract!Lesser(inq[fd], op[c].left) IN
       /\ n > 0
       /\ inq' = [inq EXCEPT ![fd] = @ - n]
       /\ Goes(c, n)
       /\ UNCHANGED <<current, queue_, events, rdllist, room, eof, slots, yielded>>

(* read() and its EAGAIN in async_read_some, async_read, async_read_from   *)
(* and accept.  After another error read_udp calls again, which changes    *)
(* nothing, and read_tap aborts, which ends the program.                   *)
async_read(c) == LET fd == op[c].fd IN
    /\ Pending(c, "read")
    /\ \/ LET n == Abstract!Lesser(inq[fd], op[c].left) IN
          /\ n > 0
          /\ inq' = [inq EXCEPT ![fd] = @ - n]
          /\ Goes(c, n)
          /\ UNCHANGED <<current, queue_, events, rdllist, room, eof, slots, yielded>>
       \/ /\ inq[fd] = 0 /\ ~eof[fd]
          /\ waited_' = [waited_ EXCEPT ![fd] = @ \cup {CAN_READ}]
          /\ co_read' = [co_read EXCEPT ![fd] = c]
          /\ co_yield(c)
          /\ UNCHANGED <<event_, waited_mask_, co_write, co_wait>>

(* read() returns 0 at the end of a stream: neither > 0 nor -1, so the loop*)
(* reads again, and the coroutine never yields.                            *)
Spinning(c) ==
    current = c /\ Pending(c, "read") /\ inq[op[c].fd] = 0 /\ eof[op[c].fd]

read_zero(c) == Spinning(c) /\ UNCHANGED vars

(* write() and its EAGAIN in async_write_some, async_write, async_send_to. *)
(* Any other error ends the call; the workers do not look at the result.   *)
async_write(c) == LET fd == op[c].fd IN
    /\ Pending(c, "write")
    /\ \/ LET n == Abstract!Lesser(room[fd], op[c].left) IN
          /\ n > 0
          /\ room' = [room EXCEPT ![fd] = @ - n]
          /\ Goes(c, n)
          /\ UNCHANGED <<current, queue_, events, rdllist, inq, eof, slots, yielded>>
       \/ /\ room[fd] = 0
          /\ waited_' = [waited_ EXCEPT ![fd] = @ \cup {CAN_WRITE}]
          /\ co_write' = [co_write EXCEPT ![fd] = c]
          /\ co_yield(c)
          /\ UNCHANGED <<event_, waited_mask_, co_read, co_wait>>
       \/ /\ fd \in Failing
          /\ \E next \in Abstract!Following(c, op[c]) : op' = [op EXCEPT ![c] = next]
          /\ UNCHANGED <<current, queue_, events, device, slots, yielded>>

(* What follows the co_yield of a call when it returns.  A udp_socket      *)
(* leaves the slot as it is; async_wait has its result.                    *)
Cleared(slot, fd) == IF fd \in Udp THEN slot ELSE [slot EXCEPT ![fd] = NULL]

(* Mistaken variant: every flag of the descriptor is lowered.              *)
resumedLowersAll(c) == LET fd == op[c].fd IN
    /\ c \in yielded
    /\ yielded' = yielded \ {c}
    /\ co_read' = IF op[c].call = "read" THEN Cleared(co_read, fd) ELSE co_read
    /\ co_write' = IF op[c].call = "write" THEN Cleared(co_write, fd) ELSE co_write
    /\ waited_' = [waited_ EXCEPT ![fd] = {}]
    /\ UNCHANGED <<current, queue_, events, device, event_, waited_mask_, co_wait, op>>

(* What the co_yield of async_read, async_write and async_wait is followed *)
(* by: the slot and the flag of that call are cleared.                     *)
read_resumes(c) == LET fd == op[c].fd IN
    /\ op[c].call = "read"
    /\ co_read' = Cleared(co_read, fd)
    /\ waited_' = [waited_ EXCEPT ![fd] = @ \ {CAN_READ}]
    /\ UNCHANGED <<waited_mask_, co_write, co_wait, op>>

write_resumes(c) == LET fd == op[c].fd IN
    /\ op[c].call = "write"
    /\ co_write' = Cleared(co_write, fd)
    /\ waited_' = [waited_ EXCEPT ![fd] = @ \ {CAN_WRITE}]
    /\ UNCHANGED <<waited_mask_, co_read, co_wait, op>>

wait_resumes(c) == LET fd == op[c].fd IN
    /\ op[c].call = "wait"
    /\ co_wait' = [co_wait EXCEPT ![fd] = NULL]
    /\ waited_mask_' = [waited_mask_ EXCEPT ![fd] = {}]
    /\ op' = [op EXCEPT ![c] = Abstract!Read(c)]
    /\ UNCHANGED <<waited_, co_read, co_write>>

(* co_yield returns to a worker that has been posted and is scheduled.     *)
resumed(c) ==
    /\ c \in yielded
    /\ yielded' = yielded \ {c}
    /\ read_resumes(c) \/ write_resumes(c) \/ wait_resumes(c)
    /\ UNCHANGED <<current, queue_, events, device, event_>>

-----------------------------------------------------------------------------
poll_forever == epoll_wait \/ resched \/ trigger

Work(c) ==
    /\ current = c
    /\ async_wait(c) \/ async_read(c) \/ async_write(c) \/ read_zero(c) \/ resumed(c)

Process == poll_forever \/ \E c \in Worker : Work(c)

Next ==
    \/ Process \/ epoll_drop
    \/ \E fd \in Fd : arrive(fd) \/ drain(fd) \/ peer_close(fd)

Spec == Init /\ [][Next]_vars

(* The process is scheduled and the kernel works through its list; nothing *)
(* is assumed of the devices.                                              *)
FairSpec == Spec /\ WF_vars(Process) /\ WF_vars(epoll_drop)

-----------------------------------------------------------------------------
Blocked(c) == c \in yielded /\ Suspended(c)

(* What Blocked(c) waits for can be had.                                   *)
Possible(c) ==
    IF op[c].call = "write" THEN Writable(op[c].fd) ELSE Readable(op[c].fd)

(* No wake-up is lost between the EAGAIN and the epoll_wait, or by taking  *)
(* an edge: while a suspended call could go on, an edge of its descriptor  *)
(* is still listed by the kernel or waits to be handled by the loop.       *)
NoLostWakeup == \A c \in Worker :
    Blocked(c) /\ Possible(c) => op[c].fd \in Range(rdllist) \cup Range(events)

(* The loop keeps the contract of co_post: a coroutine is posted once,     *)
(* while it is suspended, and never through an empty slot.                 *)
PostedOnce ==
    /\ IsInjective(queue_) /\ current \notin Range(queue_)
    /\ Range(queue_) \subseteq Coroutine

(* The slot of the descriptor a worker waits for names it, and the flag    *)
(* that makes trigger look at the slot is raised.                          *)
Named(c) == LET fd == op[c].fd IN
    /\ op[c].call = "read" => co_read[fd] = c /\ CAN_READ \in waited_[fd]
    /\ op[c].call = "write" => co_write[fd] = c /\ CAN_WRITE \in waited_[fd]
    /\ op[c].call = "wait" => co_wait[fd] = c /\ CAN_READ \in waited_mask_[fd]

(* "save current context and wait to be post/dispatch" (coroutine.h:177):  *)
(* a coroutine that yielded can be posted, the slot of its descriptor      *)
(* still names it.                                                         *)
YieldedCanBePosted == \A c \in Worker : Blocked(c) => Named(c)

(* A coroutine that yielded and that nothing can post.                     *)
Stranded(c) == Blocked(c) /\ ~Named(c)

(* A slot is lost in one way only: another worker that makes the same call *)
(* on the same descriptor yields into the slot, or resumes from the call   *)
(* and clears it.  A reader and a writer do not disturb each other.        *)
StrandedBySharing == [][\A c \in Worker : Stranded(c)' /\ ~Stranded(c) =>
    \E d \in Worker \ {c} :
        Work(d) /\ op[d].call = op[c].call /\ op[d].fd = op[c].fd]_vars

(* No later event, handler or call helps who has lost its slot.            *)
StrandedForGood == [][\A c \in Worker : Stranded(c) => Stranded(c)']_vars

(* Sharing costs nobody else a wake-up: whoever the slot still names has   *)
(* an edge listed or unhandled as soon as its call can go on.              *)
NamedAreWoken == \A c \in Worker :
    Blocked(c) /\ Named(c) /\ Possible(c) =>
        op[c].fd \in Range(rdllist) \cup Range(events)

(* A call returns what a blocking call would.                              *)
ImplementsBlockingCalls == Abstract!Spec

(* Once no more data comes in, every call that can move data does so: no   *)
(* coroutine is forgotten, whatever the order of edges and wake-ups.       *)
TrafficIsServed ==
    <>[][~ \E fd \in Fd : arrive(fd)]_vars => Abstract!CallsReturn

(* A coroutine keeps the processor for good only in two ways: it spins at  *)
(* the end of a stream, or its source never runs dry.                      *)
KeepsProcessorOnlyAtEof == \A c \in Worker :
    (<>[][~ \E fd \in Fd : arrive(fd)]_vars /\ <>[](current = c)) => <>[]Spinning(c)

=============================================================================
