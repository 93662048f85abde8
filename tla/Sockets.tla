------------------------------- MODULE Sockets -------------------------------
(***************************************************************************)
(* tcp_socket (network/socket.hpp) and the kernel under it: descriptor     *)
(* numbers, the listening socket, the clients' connections accepted from   *)
(* it and the connections made for them to remote hosts.                   *)
(*                                                                         *)
(* accept registers a new, unconnected socket in the epoll instance and    *)
(* then puts the accepted number over its number: what it returns is a     *)
(* connection that blocks and that epoll does not know, and the other      *)
(* number is never closed.                                                 *)
(***************************************************************************)
EXTENDS Integers, Sequences, Functions

CONSTANTS
    Conn,           \* the connections clients may make
    MaxFd,          \* descriptor numbers the process has left, RLIMIT_NOFILE
    Cap,            \* bound: units the kernel buffers in each direction
    NULL

Fd == 0 .. MaxFd - 1

ASSUME BoundsAssumption == MaxFd \in Nat \ {0} /\ Cap \in Nat \ {0}

(* The files a number may stand for, which are also the names of the       *)
(* objects made for them; Temp(c) is the local object of accept.           *)
Listening == <<"listening", NULL>>
Sock(c) == <<"sock", c>>
Rsock(c) == <<"rsock", c>>
Temp(c) == <<"temp", c>>

(* The tcp_sockets that outlive the call that made them.                   *)
Socket == {Listening} \cup {Sock(c) : c \in Conn} \cup {Rsock(c) : c \in Conn}

(* Those that async_file_event's constructor registers.                    *)
Event == {Listening} \cup {Temp(c) : c \in Conn} \cup {Rsock(c) : c \in Conn}

ASSUME NullAssumption == NULL \notin Socket \cup Event

VARIABLES
    file,           \* file[n]: the open file of number n, or NULL
    handle_,        \* handle_[o]: the number in a tcp_socket, -1 for none
    handle_map,     \* handle_map[n]: the object whose trigger is called for n
    rdllist,        \* numbers with a new edge; their order is left out
    backlog,        \* connections listen has queued
    client,         \* client[c]: what the client of c has done last
    inq, outq,      \* inq[c], outq[c]: units from and to the client
    remote,         \* remote[c]: the state of the connection to its host
    rinq, routq     \* rinq[c], routq[c]: units from and to the host

numbers == <<file, handle_, handle_map>>
streams == <<client, inq, outq, remote, rinq, routq>>
kernel == <<numbers, rdllist, backlog, streams>>

SocketsTypeOK ==
    /\ file \in [Fd -> Socket \cup Event \cup {NULL}]
    /\ handle_ \in [Socket -> Fd \cup {-1}]
    /\ handle_map \in [Fd -> Event \cup {NULL}]
    /\ rdllist \subseteq Fd /\ backlog \in Seq(Conn)
    /\ client \in [Conn -> {"absent", "open", "closed", "reset"}]
    /\ remote \in [Conn -> {"none", "connecting", "up", "down"}]
    /\ inq \in [Conn -> 0 .. Cap] /\ outq \in [Conn -> 0 .. Cap]
    /\ rinq \in [Conn -> 0 .. Cap] /\ routq \in [Conn -> 0 .. Cap]

(* tcp_socket sock(pool), bind and listen have been called.                *)
SocketsInit ==
    /\ file = [n \in Fd |-> IF n = 0 THEN Listening ELSE NULL]
    /\ handle_ = [o \in Socket |-> IF o = Listening THEN 0 ELSE -1]
    /\ handle_map = [n \in Fd |-> IF n = 0 THEN Listening ELSE NULL]
    /\ rdllist = {0} /\ backlog = << >>
    /\ client = [c \in Conn |-> "absent"] /\ remote = [c \in Conn |-> "none"]
    /\ inq = [c \in Conn |-> 0] /\ outq = [c \in Conn |-> 0]
    /\ rinq = [c \in Conn |-> 0] /\ routq = [c \in Conn |-> 0]

-----------------------------------------------------------------------------
Free(files) == {n \in Fd : files[n] = NULL}

(* The kernel gives out the lowest number that is free.                    *)
Lowest(n, files) == n \in Free(files) /\ \A k \in Free(files) : n <= k

(* add_event: emplace does not replace the handler of a number.            *)
add_event(n, o) == IF handle_map[n] = NULL THEN [handle_map EXCEPT ![n] = o] ELSE handle_map

(* Mistaken variant: the move constructor does not set handle_.fd_ to -1.  *)
MovedKeeps(n) == n

(* What the move constructor leaves in the tcp_socket it moved from.       *)
Moved(n) == -1

(* ~tcp_socket, for number n; del_event is not called.                     *)
Destroyed(files, n) == IF n = -1 THEN files ELSE [files EXCEPT ![n] = NULL]

(* Mistaken variant: the number of the local object is closed.             *)
acceptedCloses(c) == \E fd \in Fd :
    /\ Lowest(fd, file)
    /\ file' = [file EXCEPT ![fd] = Sock(c)]
    /\ handle_' = [handle_ EXCEPT ![Sock(c)] = fd]
    /\ UNCHANGED <<handle_map, rdllist>>

(* accept, for connection c: `tcp_socket sock(pool_)' takes a number of    *)
(* its own, then `sock.handle_.fd_ = fd'; the result is moved and what was *)
(* moved from is destroyed.                                                *)
accepted(c) == \E fd \in Fd, other \in Fd :
    /\ Lowest(fd, file) /\ Lowest(other, [file EXCEPT ![fd] = Sock(c)])
    /\ file' = Destroyed([file EXCEPT ![fd] = Sock(c), ![other] = Temp(c)], Moved(fd))
    /\ handle_' = [handle_ EXCEPT ![Sock(c)] = fd]
    /\ handle_map' = add_event(other, Temp(c))
    /\ rdllist' = rdllist \cup {other}

(* Neither accept nor socket has a number left: the one throws, the other  *)
(* lets epoll_ctl fail on -1, and add_event exits.                         *)
CannotAccept == Free(file) = {} \/ (backlog # << >> /\ \E n \in Fd : Free(file) = {n})
CannotOpen == Free(file) = {}

(* tcp_socket(pool) and connect for c.  `ret = ::connect(...) < 0' is 0 or *)
(* 1, so connect never waits and always returns -1.                        *)
connect(c) == \E fd \in Fd :
    /\ Lowest(fd, file)
    /\ file' = [file EXCEPT ![fd] = Rsock(c)]
    /\ handle_' = [handle_ EXCEPT ![Rsock(c)] = fd]
    /\ handle_map' = add_event(fd, Rsock(c))
    /\ rdllist' = rdllist \cup {fd}
    /\ remote' = [remote EXCEPT ![c] = "connecting"]

(* The last reference to tcp_socket o is gone.                             *)
released(o) ==
    /\ file' = Destroyed(file, handle_[o])
    /\ handle_' = [handle_ EXCEPT ![o] = -1]

-----------------------------------------------------------------------------
(* The kernel and the peers.  A registered number gets an edge when its    *)
(* file gains data, a connection or room after none, or changes state.     *)
edge(o) == rdllist' = rdllist \cup {n \in Fd : file[n] = o}

Level(n) ==
    \/ file[n] = Listening /\ backlog # << >>
    \/ \E c \in Conn :
        \/ file[n] = Temp(c)
        \/ file[n] = Rsock(c) /\ remote[c] = "down"
        \/ file[n] = Rsock(c) /\ remote[c] = "up" /\ (rinq[c] > 0 \/ routq[c] < Cap)

client_connects(c) ==
    /\ client[c] = "absent"
    /\ client' = [client EXCEPT ![c] = "open"]
    /\ backlog' = Append(backlog, c)
    /\ edge(Listening)
    /\ UNCHANGED <<numbers, inq, outq, remote, rinq, routq>>

client_sends(c) ==
    /\ client[c] = "open" /\ inq[c] < Cap
    /\ inq' = [inq EXCEPT ![c] = @ + 1]
    /\ UNCHANGED <<numbers, rdllist, backlog, client, outq, remote, rinq, routq>>

client_takes(c) ==
    /\ client[c] = "open" /\ outq[c] > 0
    /\ outq' = [outq EXCEPT ![c] = @ - 1]
    /\ UNCHANGED <<numbers, rdllist, backlog, client, inq, remote, rinq, routq>>

(* The stream ends, or is reset: the next call reports that, once.         *)
client_leaves(c) ==
    /\ client[c] = "open"
    /\ \E how \in {"closed", "reset"} : client' = [client EXCEPT ![c] = how]
    /\ outq' = [outq EXCEPT ![c] = 0]
    /\ UNCHANGED <<numbers, rdllist, backlog, inq, remote, rinq, routq>>

(* The host answers, refuses, closes or resets.                            *)
remote_changes(c) ==
    /\ \/ remote[c] = "connecting" /\ remote' = [remote EXCEPT ![c] = "up"]
       \/ remote[c] \in {"connecting", "up"} /\ remote' = [remote EXCEPT ![c] = "down"]
    /\ edge(Rsock(c))
    /\ UNCHANGED <<numbers, backlog, client, inq, outq, rinq, routq>>

remote_sends(c) ==
    /\ remote[c] = "up" /\ rinq[c] < Cap
    /\ rinq' = [rinq EXCEPT ![c] = @ + 1]
    /\ edge(Rsock(c))
    /\ UNCHANGED <<numbers, backlog, client, inq, outq, remote, routq>>

remote_takes(c) ==
    /\ remote[c] = "up" /\ routq[c] > 0
    /\ routq' = [routq EXCEPT ![c] = @ - 1]
    /\ IF routq[c] = Cap THEN edge(Rsock(c)) ELSE UNCHANGED rdllist
    /\ UNCHANGED <<numbers, backlog, client, inq, outq, remote, rinq>>

Peers == \E c \in Conn :
    \/ client_connects(c) \/ client_sends(c) \/ client_takes(c) \/ client_leaves(c)
    \/ remote_changes(c) \/ remote_sends(c) \/ remote_takes(c)

-----------------------------------------------------------------------------
(* Whatever is opened, moved and closed, a tcp_socket that holds a number  *)
(* holds the number of its own file: no two share one, and none uses a     *)
(* number that was closed or that the kernel has given to something else.  *)
OneOwner == \A o \in Socket : handle_[o] # -1 => file[handle_[o]] = o

(* An event of a number goes to the object that was made for the file the  *)
(* number stands for now, never to one left from an earlier file: emplace  *)
(* would keep that one, and nobody calls del_event.  A moved tcp_socket,   *)
(* whose slots the move constructor leaves unset, is never reached; what   *)
(* accept leaks belongs to an object that is gone (Socks5!trigger_gone).   *)
EventReachesOwner == \A n \in Fd :
    /\ handle_map[n] # NULL => file[n] = handle_map[n]
    /\ file[n] \in Event => handle_map[n] = file[n]

=============================================================================
