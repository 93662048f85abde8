---------------------------- MODULE BlockingCalls ----------------------------
(***************************************************************************)
(* What the asynchronous calls of network/epoll/epoll.hpp promise to the   *)
(* coroutine that makes them: each behaves like a blocking call of a       *)
(* thread of its own.  There is no ready queue, no event loop, no slot and *)
(* no edge: a call moves data as soon as the file descriptor allows it.    *)
(***************************************************************************)
EXTENDS Integers

CONSTANTS
    Worker,         \* the coroutines that make calls, one at a time
    Fd,             \* the file descriptors
    Source,         \* Source[c]: the descriptor worker c reads
    Sinks,          \* Sinks[c]: those it may write what it read to
    Stream,         \* descriptors read and written whole, piece by piece
    Waiters,        \* workers that call async_wait before they read
    Broadcasters,   \* workers that may write what they read to several sinks
    Failing,        \* descriptors a write to which may fail
    Size,           \* units of a message on a Stream; a datagram is one
    Cap             \* bound: units a descriptor holds in each direction

VARIABLES
    inq,            \* inq[fd]: units that can be read
    room,           \* room[fd]: units that can be written
    eof,            \* eof[fd]: no more units will come
    op              \* op[c]: the pending call and the units still to move

vars == <<inq, room, eof, op>>

Count(fd) == IF fd \in Stream THEN Size ELSE 1

Wait(c) == [call |-> "wait", fd |-> Source[c], left |-> 0]
Read(c) == [call |-> "read", fd |-> Source[c], left |-> Count(Source[c])]
Write(fd) == [call |-> "write", fd |-> fd, left |-> Count(fd)]

(* Where a worker starts over.                                             *)
First(c) == IF c \in Waiters THEN Wait(c) ELSE Read(c)

(* The calls worker c may make once call o is over: after a read a write to*)
(* some sink, and while it broadcasts another one; or the next round.      *)
Following(c, o) ==
    {First(c)} \cup
    {Write(fd) : fd \in IF o.call = "read" \/ c \in Broadcasters THEN Sinks[c] ELSE {}}

(* Its calls after o has moved n units: first the rest of o.               *)
After(c, o, n) ==
    IF o.left > n THEN {[o EXCEPT !.left = o.left - n]} ELSE Following(c, o)

Lesser(m, n) == IF m < n THEN m ELSE n

Init ==
    /\ inq = [fd \in Fd |-> 0]
    /\ room = [fd \in Fd |-> Cap]
    /\ eof = [fd \in Fd |-> FALSE]
    /\ op = [c \in Worker |-> First(c)]

(* The other end of fd: data comes in, data goes out, the peer closes.     *)
Device(fd) ==
    \/ inq[fd] < Cap /\ inq' = [inq EXCEPT ![fd] = @ + 1] /\ UNCHANGED <<room, eof, op>>
    \/ room[fd] < Cap /\ room' = [room EXCEPT ![fd] = @ + 1] /\ UNCHANGED <<inq, eof, op>>
    \/ eof' = [eof EXCEPT ![fd] = TRUE] /\ UNCHANGED <<inq, room, op>>

(* A read takes as much of its message as there is.                        *)
Take(c) == LET fd == op[c].fd  n == Lesser(inq[op[c].fd], op[c].left) IN
    /\ op[c].call = "read" /\ n > 0
    /\ inq' = [inq EXCEPT ![fd] = @ - n]
    /\ \E next \in After(c, op[c], n) : op' = [op EXCEPT ![c] = next]
    /\ UNCHANGED <<room, eof>>

(* A write moves as much of its message as there is room for.              *)
Put(c) == LET fd == op[c].fd  n == Lesser(room[op[c].fd], op[c].left) IN
    /\ op[c].call = "write" /\ n > 0
    /\ room' = [room EXCEPT ![fd] = @ - n]
    /\ \E next \in After(c, op[c], n) : op' = [op EXCEPT ![c] = next]
    /\ UNCHANGED <<inq, eof>>

(* A write that fails moves nothing, and the worker does not try again.    *)
Fail(c) ==
    /\ op[c].call = "write" /\ op[c].fd \in Failing
    /\ \E next \in Following(c, op[c]) : op' = [op EXCEPT ![c] = next]
    /\ UNCHANGED <<inq, room, eof>>

(* async_wait returns; that something can be read now is not promised.     *)
Waited(c) ==
    /\ op[c].call = "wait"
    /\ op' = [op EXCEPT ![c] = Read(c)]
    /\ UNCHANGED <<inq, room, eof>>

Next ==
    \/ \E fd \in Fd : Device(fd)
    \/ \E c \in Worker : Take(c) \/ Put(c) \/ Fail(c) \/ Waited(c)

Spec == Init /\ [][Next]_vars

(* A call that can move data does so.                                      *)
CallsReturn == \A c \in Worker : WF_vars(Take(c) \/ Put(c))

=============================================================================
