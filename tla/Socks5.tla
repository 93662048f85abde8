-------------------------------- MODULE Socks5 --------------------------------
(***************************************************************************)
(* The SOCKS5 proxy of the server program (bridge/ether_bridge_server.cpp):*)
(* socks5_server accepts, one socks5_handler per connection serves it, and *)
(* one piping coroutine per connection carries what the remote host sends. *)
(*                                                                         *)
(* They share the thread with the bridge, and reads and writes of an       *)
(* accepted connection block: while one is under way no coroutine runs.    *)
(* Each step goes from one system call that may wait to the next.          *)
(***************************************************************************)
EXTENDS Sockets, Scheduler

Server == <<"socks5_server", NULL>>
Handler(c) == <<"socks5_handler", c>>
Piping(c) == <<"piping", c>>

ASSUME CoroutineAssumption ==
    /\ Coroutine = {Main, Server} \cup {Handler(c) : c \in Conn} \cup {Piping(c) : c \in Conn}
    /\ Main # Server /\ \A c \in Conn : Main # Handler(c) /\ Main # Piping(c)

CAN_READ == "CAN_READ"
CAN_WRITE == "CAN_WRITE"

VARIABLES
    events,         \* what epoll_wait returned and the loop has not handled
    waited_,        \* waited_[o]: what the coroutines that use o wait for
    stage,          \* stage[c]: where socks5_handler is
    pipe,           \* pipe[c]: where piping is
    ended           \* why the process has ended, or "no"

vars == <<current, queue_, kernel, events, waited_, stage, pipe, ended>>

TypeOK ==
    /\ SocketsTypeOK
    /\ current \in Coroutine /\ queue_ \in Seq(Coroutine)
    /\ events \subseteq Fd
    /\ waited_ \in [Socket -> SUBSET {CAN_READ, CAN_WRITE}]
    /\ stage \in [Conn -> {"none", "greeting", "request", "read", "write", "returned"}]
    /\ pipe \in [Conn -> {"none", "read", "write"}]
    /\ ended \in {"no", "descriptors", "null", "SIGPIPE", "undefined"}

(* Main has called poll_forever and socks5_server has reached its loop.    *)
Init ==
    /\ SocketsInit
    /\ current = Server /\ queue_ = <<Main>>
    /\ events = {}
    /\ waited_ = [o \in Socket |-> {}]
    /\ stage = [c \in Conn |-> "none"] /\ pipe = [c \in Conn |-> "none"]
    /\ ended = "no"

-----------------------------------------------------------------------------
(* The process ends: an exception nobody catches, exit, a signal; or what  *)
(* it does is undefined, and nothing is claimed from then on.              *)
Ends(why) ==
    /\ ended' = why
    /\ UNCHANGED <<current, queue_, kernel, events, waited_, stage, pipe>>

(* Mistaken variant: the loop asks for events while coroutines are ready.  *)
epoll_waitEagerly ==
    /\ current = Main /\ events = {}
    /\ events' = {n \in rdllist : Level(n)} /\ events' # {}
    /\ rdllist' = {}
    /\ UNCHANGED <<current, queue_, numbers, backlog, streams, waited_, stage, pipe, ended>>

(* poll_forever.  All numbers fit one call: MAX_EVENTS is not reached.     *)
epoll_wait ==
    /\ current = Main /\ num = 0 /\ events = {}
    /\ events' = {n \in rdllist : Level(n)} /\ events' # {}
    /\ rdllist' = {}
    /\ UNCHANGED <<current, queue_, numbers, backlog, streams, waited_, stage, pipe, ended>>

resched ==
    /\ current = Main /\ num > 0 /\ events = {}
    /\ \E next \in Coroutine : dequeue(enqueue(queue_, Main), next) /\ current' = next
    /\ UNCHANGED <<kernel, events, waited_, stage, pipe, ended>>

when(flag, co) == IF flag THEN <<co>> ELSE << >>

(* Mistaken variants: the slots are not guarded by waited_; only one of    *)
(* the writer and the reader is posted.                                    *)
PostedUnasked(o) ==
    IF o = Listening THEN when(CAN_READ \in waited_[o], Server)
    ELSE IF o \notin Socket THEN <<NULL>>
    ELSE <<Handler(o[2]), Piping(o[2])>>

PostedElseIf(o) ==
    IF o = Listening THEN when(CAN_READ \in waited_[o], Server)
    ELSE IF o \notin Socket THEN << >>
    ELSE IF CAN_WRITE \in waited_[o] THEN <<Handler(o[2])>>
    ELSE when(CAN_READ \in waited_[o], Piping(o[2]))

(* The coroutines that wait on object o, the writer first.  Both bits of   *)
(* event_ are set by any event; the local object of an accept waited for   *)
(* nothing as long as it was there.                                        *)
Posted(o) ==
    IF o = Listening THEN when(CAN_READ \in waited_[o], Server)
    ELSE IF o \notin Socket THEN << >>
    ELSE when(CAN_WRITE \in waited_[o], Handler(o[2]))
         \o when(CAN_READ \in waited_[o], Piping(o[2]))

(* Its number's handler is async_file_event::trigger of that object.       *)
trigger == \E n \in events :
    /\ current = Main
    /\ events' = events \ {n}
    /\ queue_' = queue_ \o Posted(handle_map[n])
    /\ UNCHANGED <<current, kernel, waited_, stage, pipe, ended>>

(* The local object is gone by then: when its place on the stack has been  *)
(* used anew, trigger changes and posts whatever is there.                 *)
trigger_gone == \E n \in events, c \in Conn :
    /\ current = Main
    /\ handle_map[n] = Temp(c)
    /\ Ends("undefined")

-----------------------------------------------------------------------------
Runs(co) == current = co /\ ended = "no"

Goes == UNCHANGED <<current, queue_, events>>

(* co_yield in a call on object o, after EAGAIN; and what follows when the *)
(* coroutine is resumed and its call succeeds or fails.                    *)
Waits(o, flag) ==
    /\ waited_' = [waited_ EXCEPT ![o] = @ \cup {flag}]
    /\ \E next \in Coroutine : dequeue(queue_, next) /\ current' = next
    /\ UNCHANGED <<kernel, events, stage, pipe, ended>>

Resumes(o, flag) == waited_' = [waited_ EXCEPT ![o] = @ \ {flag}]

(* accept has a connection, and a handler is made and posted for it.       *)
Serves(c) ==
    /\ backlog # << >> /\ c = Head(backlog) /\ backlog' = Tail(backlog)
    /\ accepted(c)
    /\ Resumes(Listening, CAN_READ)
    /\ queue_' = enqueue(queue_, Handler(c))
    /\ stage' = [stage EXCEPT ![c] = "greeting"]
    /\ UNCHANGED <<current, events, streams, pipe, ended>>

(* Mistaken variant: one connection is accepted for each event.            *)
acceptOnce ==
    /\ Runs(Server) /\ ~CannotAccept
    /\ \/ CAN_READ \notin waited_[Listening] /\ Waits(Listening, CAN_READ)
       \/ CAN_READ \in waited_[Listening] /\ \E c \in Conn : Serves(c)

(* The loop of socks5_server.                                              *)
accept ==
    /\ Runs(Server)
    /\ \/ CannotAccept /\ Ends("descriptors")
       \/ ~CannotAccept /\ backlog = << >> /\ Waits(Listening, CAN_READ)
       \/ ~CannotAccept /\ \E c \in Conn : Serves(c)

-----------------------------------------------------------------------------
(* read of the accepted connection: a unit; or, once the stream was reset, *)
(* -1.  Until then it waits, in the kernel; and a read that returns 0 at   *)
(* the end is made again and again.                                        *)
Receives(c) == inq[c] > 0 /\ inq' = [inq EXCEPT ![c] = @ - 1] /\ UNCHANGED client

Fails(c) ==
    /\ inq[c] = 0 /\ client[c] = "reset"
    /\ client' = [client EXCEPT ![c] = "closed"]
    /\ UNCHANGED inq

(* A few bytes are written to the client, who may have left: then they are *)
(* dropped, or the write fails, which nobody looks at.                     *)
Replies(c, state) ==
    client' = [state EXCEPT ![c] = IF @ = "reset" THEN "closed" ELSE @]

(* A write to a client who has closed may be answered with SIGPIPE.        *)
Pipe(c) == client[c] = "closed" /\ Ends("SIGPIPE")

(* The handler reads the methods and answers.  When the read fails it goes *)
(* on with what is in its buffer: it waits for more, or it answers.        *)
greeting(c) ==
    /\ Runs(Handler(c)) /\ stage[c] = "greeting"
    /\ \/ /\ inq[c] > 0
          /\ inq' = [inq EXCEPT ![c] = @ - 1]
          /\ Replies(c, client)
          /\ stage' = [stage EXCEPT ![c] = "request"]
          /\ Goes
          /\ UNCHANGED <<numbers, rdllist, backlog, outq, remote, rinq, routq,
                         waited_, pipe, ended>>
       \/ /\ Fails(c) /\ Goes
          /\ UNCHANGED <<numbers, rdllist, backlog, outq, remote, rinq, routq,
                         waited_, stage, pipe, ended>>
       \/ inq[c] > 0 /\ Pipe(c)
       \/ inq[c] = 0 /\ client[c] = "reset" /\ Ends("SIGPIPE")

(* socks5_handler returns: its connection is closed, co_exit.              *)
exits(c) ==
    /\ stage' = [stage EXCEPT ![c] = "returned"]
    /\ released(Sock(c))
    /\ \E next \in Coroutine : dequeue(queue_, next) /\ current' = next
    /\ UNCHANGED <<events, rdllist, backlog, outq, remote, rinq, routq, waited_, pipe, ended>>

returns(c) == exits(c) /\ UNCHANGED handle_map

(* Mistaken variant: the result of connect, which is -1, is looked at.     *)
requestChecked(c) ==
    /\ Runs(Handler(c)) /\ stage[c] = "request"
    /\ Receives(c) /\ exits(c)
    /\ \E fd \in Fd : Lowest(fd, file) /\ handle_map' = add_event(fd, Rsock(c))

(* The handler reads the request.  An IPv6 address and a command that is   *)
(* not CONNECT make it return; an address type it does not know leaves the *)
(* address null, which CONNECT dereferences; else it connects, answers and *)
(* makes the piping coroutine.  A read that fails leaves it with what is   *)
(* in its buffer: it waits for more, or takes that for a request.          *)
request(c) ==
    /\ Runs(Handler(c)) /\ stage[c] = "request"
    /\ \/ (Receives(c) \/ Fails(c)) /\ returns(c)
       \/ /\ Fails(c) /\ Goes
          /\ UNCHANGED <<numbers, rdllist, backlog, outq, remote, rinq, routq,
                         waited_, stage, pipe, ended>>
       \/ inq[c] > 0 /\ ~CannotOpen /\ Ends("null")
       \/ inq[c] > 0 /\ CannotOpen /\ Ends("descriptors")
       \/ inq[c] > 0 /\ ~CannotOpen /\ Pipe(c)
       \/ /\ inq[c] = 0 /\ client[c] = "reset"
          /\ \E why \in {"null", "descriptors", "SIGPIPE"} :
                (why = "descriptors" <=> CannotOpen) /\ Ends(why)
       \/ /\ inq[c] > 0
          /\ inq' = [inq EXCEPT ![c] = @ - 1]
          /\ connect(c)
          /\ Replies(c, client)
          /\ queue_' = enqueue(queue_, Piping(c))
          /\ stage' = [stage EXCEPT ![c] = "read"] /\ pipe' = [pipe EXCEPT ![c] = "read"]
          /\ UNCHANGED <<current, events, backlog, outq, rinq, routq, waited_, ended>>

(* Mistaken variant: the read yields, as it would if the connection did not*)
(* block.                                                                  *)
read_localYields(c) ==
    /\ Runs(Handler(c)) /\ stage[c] = "read"
    /\ \/ /\ Receives(c) /\ stage' = [stage EXCEPT ![c] = "write"]
          /\ Goes
          /\ UNCHANGED <<numbers, rdllist, backlog, outq, remote, rinq, routq,
                         waited_, pipe, ended>>
       \/ inq[c] = 0 /\ Waits(Sock(c), CAN_READ)

(* The loop of socks5_handler: a unit from the client.  A failed read is   *)
(* -1 in a size_t, a write of which the kernel refuses.                    *)
read_local(c) ==
    /\ Runs(Handler(c)) /\ stage[c] = "read"
    /\ \/ Receives(c) /\ stage' = [stage EXCEPT ![c] = "write"]
       \/ Fails(c) /\ UNCHANGED stage
    /\ Goes
    /\ UNCHANGED <<numbers, rdllist, backlog, outq, remote, rinq, routq, waited_, pipe, ended>>

(* The unit goes to the remote host, once it is connected and has room.    *)
write_remote(c) ==
    /\ Runs(Handler(c)) /\ stage[c] = "write"
    /\ \/ /\ remote[c] = "up" /\ routq[c] < Cap
          /\ routq' = [routq EXCEPT ![c] = @ + 1]
          /\ Resumes(Rsock(c), CAN_WRITE)
          /\ stage' = [stage EXCEPT ![c] = "read"]
          /\ Goes
          /\ UNCHANGED <<numbers, rdllist, backlog, client, inq, outq, remote, rinq, pipe, ended>>
       \/ /\ remote[c] = "connecting" \/ (remote[c] = "up" /\ routq[c] = Cap)
          /\ Waits(Rsock(c), CAN_WRITE)
       \/ /\ remote[c] = "down"
          /\ Resumes(Rsock(c), CAN_WRITE)
          /\ stage' = [stage EXCEPT ![c] = "read"]
          /\ Goes
          /\ UNCHANGED <<kernel, pipe, ended>>
       \/ remote[c] = "down" /\ Ends("SIGPIPE")

(* Mistaken variant: EAGAIN is retried.                                    *)
read_remoteRetries(c) ==
    /\ Runs(Piping(c)) /\ pipe[c] = "read"
    /\ rinq[c] > 0
    /\ rinq' = [rinq EXCEPT ![c] = @ - 1]
    /\ Resumes(Rsock(c), CAN_READ)
    /\ pipe' = [pipe EXCEPT ![c] = "write"]
    /\ Goes
    /\ UNCHANGED <<numbers, rdllist, backlog, client, inq, outq, remote, routq, stage, ended>>

(* The loop of piping: a unit from the remote host.  One that is gone is   *)
(* read for ever: 0 is not returned and -1 is taken for data, as above.    *)
read_remote(c) ==
    /\ Runs(Piping(c)) /\ pipe[c] = "read"
    /\ \/ /\ rinq[c] > 0
          /\ rinq' = [rinq EXCEPT ![c] = @ - 1]
          /\ Resumes(Rsock(c), CAN_READ)
          /\ pipe' = [pipe EXCEPT ![c] = "write"]
          /\ Goes
          /\ UNCHANGED <<numbers, rdllist, backlog, client, inq, outq, remote, routq, stage, ended>>
       \/ rinq[c] = 0 /\ remote[c] # "down" /\ Waits(Rsock(c), CAN_READ)

(* The unit goes to the client, once it has room: till then the thread     *)
(* waits in write.                                                         *)
write_local(c) ==
    /\ Runs(Piping(c)) /\ pipe[c] = "write"
    /\ \/ /\ client[c] = "open" /\ outq[c] < Cap
          /\ outq' = [outq EXCEPT ![c] = @ + 1]
          /\ pipe' = [pipe EXCEPT ![c] = "read"]
          /\ Goes
          /\ UNCHANGED <<numbers, rdllist, backlog, client, inq, remote, rinq, routq,
                         waited_, stage, ended>>
       \/ /\ client[c] # "open"
          /\ Replies(c, client)
          /\ pipe' = [pipe EXCEPT ![c] = "read"]
          /\ Goes
          /\ UNCHANGED <<numbers, rdllist, backlog, inq, outq, remote, rinq, routq,
                         waited_, stage, ended>>
       \/ Pipe(c)

-----------------------------------------------------------------------------
Process ==
    \/ ended = "no" /\ (epoll_wait \/ resched \/ trigger \/ trigger_gone)
    \/ accept
    \/ \E c \in Conn :
        \/ greeting(c) \/ request(c) \/ read_local(c) \/ write_remote(c)
        \/ read_remote(c) \/ write_local(c)

Environment ==
    /\ ended = "no" /\ Peers
    /\ UNCHANGED <<current, queue_, events, waited_, stage, pipe, ended>>

Next == Process \/ Environment

Spec == Init /\ [][Next]_vars

(* The process is scheduled; nothing is assumed of the peers.              *)
FairSpec == Spec /\ WF_vars(Process)

-----------------------------------------------------------------------------
(* The handler of c is inside a read of its client.                        *)
Reading(c) == current = Handler(c) /\ stage[c] \in {"greeting", "request", "read"} /\ inq[c] = 0

(* The thread waits in the kernel for the client of c.                     *)
Blocking(c) ==
    \/ Reading(c) /\ client[c] = "open"
    \/ current = Piping(c) /\ pipe[c] = "write" /\ client[c] = "open" /\ outq[c] = Cap

(* A coroutine reads at the end of a stream for ever.                      *)
Spinning(c) ==
    \/ Reading(c) /\ client[c] = "closed"
    \/ current = Piping(c) /\ pipe[c] = "read" /\ rinq[c] = 0 /\ remote[c] = "down"

Stalled == ended # "no" \/ \E c \in Conn : Blocking(c) \/ Spinning(c)

CanWrite(c) ==
    stage[c] = "write" /\ (remote[c] = "down" \/ (remote[c] = "up" /\ routq[c] < Cap))

CanRead(c) == pipe[c] = "read" /\ (rinq[c] > 0 \/ remote[c] = "down")

Quiet == <>[][~ \E c \in Conn : client_sends(c) \/ remote_sends(c)]_vars

(* A client that has connected is accepted, in whatever order clients come *)
(* and edges are reported, unless the process is stuck with another one.   *)
ClientsAreAccepted == \A c \in Conn :
    (c \in Range(backlog) ~> c \notin Range(backlog)) \/ <>[]Stalled \/ ~Quiet

(* A call that waits on the remote connection goes on once it can: the one *)
(* edge both share wakes the reader and the writer, under the same proviso.*)
RelayGoesOn == \A c \in Conn :
    \/ (rinq[c] > 0 ~> rinq[c] = 0) /\ (CanWrite(c) ~> ~CanWrite(c))
    \/ <>[]Stalled \/ ~Quiet

(* Once the peers are quiet the loop gets the processor again and again    *)
(* unless the thread waits for one client, spins at the end of a stream or *)
(* has ended: there is no other way for the proxy to starve the bridge.    *)
LoopRunsUnlessStalled == Quiet => []<>(current = Main) \/ <>[]Stalled

(* No handler ever waits for its client in the loop: when the loop is about*)
(* to wait for events, every connection still served waits for room to its *)
(* remote host.  What a host sends is only carried while its client's own  *)
(* data is held up; a client that waits for an answer stops everything.    *)
LoopWaitsOnlyBehindUploads ==
    current = Main /\ num = 0 =>
        \A c \in Conn : stage[c] \in {"none", "write", "returned"}

(* An edge wakes everybody who waits on its object, and only them: nobody  *)
(* is posted who is ready already, who has returned or who was not made    *)
(* yet, although two coroutines share the one number of a remote host.     *)
PostedOnce ==
    /\ IsInjective(queue_) /\ current \notin Range(queue_)
    /\ \A c \in Conn :
        /\ Handler(c) \in Range(queue_) => stage[c] \notin {"none", "returned"}
        /\ Piping(c) \in Range(queue_) => pipe[c] # "none"

(* Whoever is suspended in a call that could go on has an event on its way:*)
(* the edge that was missed is the last one a peer owes.                   *)
NoLostWakeup ==
    /\ Suspended(Server) /\ backlog # << >> => handle_[Listening] \in rdllist \cup events
    /\ \A c \in Conn :
        (Suspended(Handler(c)) /\ CanWrite(c)) \/ (Suspended(Piping(c)) /\ CanRead(c))
            => handle_[Rsock(c)] \in rdllist \cup events

(* Every connection costs a number for good: the socket that accept makes  *)
(* stays open after the connection is closed.                              *)
AcceptLeaks == \A c \in Conn :
    stage[c] # "none" => \E n \in Fd : file[n] = Temp(c)

=============================================================================
