----------------------------- MODULE Socks5Proofs -----------------------------
(***************************************************************************)
(* Proofs about Sockets and Socks5, for any clients and any limit on the   *)
(* descriptor numbers.                                                     *)
(***************************************************************************)
EXTENDS Socks5, SchedulerProofs

NumbersInv == OneOwner /\ EventReachesOwner /\ AcceptLeaks

Inv == TypeOK /\ NumbersInv

-----------------------------------------------------------------------------
(* The names of the objects tell them apart.                               *)
LEMMA Names ==
    /\ NULL \notin Socket /\ NULL \notin Event
    /\ Listening \in Socket /\ Listening \in Event
    /\ \A c \in Conn :
        /\ Sock(c) \in Socket /\ Rsock(c) \in Socket
        /\ Temp(c) \in Event /\ Rsock(c) \in Event
        /\ Sock(c) \notin Event /\ Temp(c) \notin Socket
        /\ Sock(c) # Temp(c)
<1>1. \A c, d \in Conn : /\ Sock(c) # Listening /\ Sock(c) # Temp(d) /\ Sock(c) # Rsock(d)
                         /\ Temp(c) # Listening /\ Temp(c) # Rsock(d)
    BY DEF Sock, Temp, Rsock, Listening
<1>. QED
    BY <1>1, NullAssumption DEF Socket, Event

(* The coroutines that somebody will switch to.                            *)
Ready == {current} \cup Range(queue_)

Distinct == IsInjective(queue_) /\ current \notin Range(queue_)

(* A coroutine that yields, or returns, is the only one no longer ready.   *)
LEMMA SwitchFacts ==
    ASSUME queue_ \in Seq(Coroutine),
           \E next \in Coroutine : dequeue(queue_, next) /\ current' = next
    PROVE  /\ current' \in Coroutine /\ queue_' \in Seq(Coroutine)
           /\ Range(queue_') \subseteq Range(queue_)
           /\ Distinct => Distinct' /\ Ready' = Ready \ {current}
<1>1. /\ queue_ # << >> /\ current' = Head(queue_) /\ queue_' = Tail(queue_)
      /\ current' \in Coroutine
    BY DEF dequeue
<1>2. /\ Tail(queue_) \in Seq(Coroutine)
      /\ Range(queue_) = Range(Tail(queue_)) \cup {Head(queue_)}
      /\ IsInjective(queue_) => IsInjective(Tail(queue_)) /\ Head(queue_) \notin Range(Tail(queue_))
    BY <1>1, DequeueFacts
<1>. QED
    BY <1>1, <1>2 DEF Distinct, Ready

(* co_post of a coroutine that was not ready.                              *)
LEMMA PostFacts ==
    ASSUME queue_ \in Seq(Coroutine), NEW co \in Coroutine,
           queue_' = enqueue(queue_, co), current' = current
    PROVE  /\ queue_' \in Seq(Coroutine)
           /\ Range(queue_') = Range(queue_) \cup {co} /\ Ready' = Ready \cup {co}
           /\ Distinct /\ co \notin Ready => Distinct'
<1>. DEFINE q == enqueue(queue_, co)
<1>0. ASSUME NEW old \in Seq(Coroutine)
      PROVE  /\ enqueue(old, co) \in Seq(Coroutine) /\ Range(enqueue(old, co)) = Range(old) \cup {co}
             /\ IsInjective(old) /\ co \notin Range(old) => IsInjective(enqueue(old, co))
    BY EnqueueFacts
<1>1. q \in Seq(Coroutine) /\ Range(q) = Range(queue_) \cup {co} /\ queue_' = q
      /\ (IsInjective(queue_) /\ co \notin Range(queue_) => IsInjective(q))
    BY <1>0
<1>. HIDE DEF q
<1>2. /\ Range(queue_') = Range(queue_) \cup {co} /\ queue_' \in Seq(Coroutine)
      /\ IsInjective(queue_) /\ co \notin Range(queue_) => IsInjective(queue_')
    BY <1>1
<1>3. Ready' = Ready \cup {co}
    BY <1>2 DEF Ready
<1>4. Distinct /\ co \notin Ready => Distinct'
    BY <1>2 DEF Distinct, Ready
<1>. QED
    BY <1>2, <1>3, <1>4

-----------------------------------------------------------------------------
(* Nobody uses a number that is free, and it has no handler.               *)
LEMMA FreeFacts ==
    ASSUME SocketsTypeOK, OneOwner, EventReachesOwner, NEW n \in Fd, file[n] = NULL
    PROVE  /\ handle_map[n] = NULL
           /\ \A o \in Socket : handle_[o] # n
<1>1. handle_map[n] = NULL
    BY Names DEF SocketsTypeOK, EventReachesOwner
<1>2. ASSUME NEW o \in Socket, handle_[o] = n PROVE FALSE
    <2>1. n # -1
        BY BoundsAssumption DEF Fd
    <2>2. file[n] = o
        BY <1>2, <2>1 DEF OneOwner
    <2>. QED
        BY <2>2, Names
<1>. QED
    BY <1>1, <1>2

LEMMA AcceptedNumbers ==
    ASSUME SocketsTypeOK, OneOwner, EventReachesOwner, NEW c \in Conn, accepted(c)
    PROVE  /\ OneOwner' /\ EventReachesOwner'
           /\ file' \in [Fd -> Socket \cup Event \cup {NULL}]
           /\ handle_' \in [Socket -> Fd \cup {-1}]
           /\ handle_map' \in [Fd -> Event \cup {NULL}] /\ rdllist' \subseteq Fd
           /\ \E n \in Fd : file'[n] = Temp(c)
           /\ \A n \in Fd : file[n] # NULL => file'[n] = file[n]
<1>1. PICK fd \in Fd, other \in Fd :
        /\ Lowest(fd, file) /\ Lowest(other, [file EXCEPT ![fd] = Sock(c)])
        /\ file' = Destroyed([file EXCEPT ![fd] = Sock(c), ![other] = Temp(c)], Moved(fd))
        /\ handle_' = [handle_ EXCEPT ![Sock(c)] = fd]
        /\ handle_map' = add_event(other, Temp(c))
        /\ rdllist' = rdllist \cup {other}
    BY DEF accepted
<1>2. /\ file \in [Fd -> Socket \cup Event \cup {NULL}]
      /\ handle_ \in [Socket -> Fd \cup {-1}]
      /\ handle_map \in [Fd -> Event \cup {NULL}] /\ rdllist \subseteq Fd
    BY DEF SocketsTypeOK
<1>3. file[fd] = NULL /\ [file EXCEPT ![fd] = Sock(c)][other] = NULL
    BY <1>1 DEF Lowest, Free
<1>4. other # fd /\ file[other] = NULL
    BY <1>2, <1>3, Names
<1>5. file' = [file EXCEPT ![fd] = Sock(c), ![other] = Temp(c)]
    BY <1>1 DEF Destroyed, Moved
<1>6. /\ handle_map[fd] = NULL /\ handle_map[other] = NULL
      /\ \A o \in Socket : handle_[o] # fd /\ handle_[o] # other
    BY <1>3, <1>4, FreeFacts
<1>7. handle_map' = [handle_map EXCEPT ![other] = Temp(c)]
    BY <1>1, <1>6 DEF add_event
<1>8. /\ file'[fd] = Sock(c) /\ file'[other] = Temp(c)
      /\ \A n \in Fd \ {fd, other} : file'[n] = file[n]
    BY <1>2, <1>4, <1>5
<1>9. OneOwner'
    <2>1. ASSUME NEW o \in Socket, o # Sock(c), handle_[o] # -1 PROVE file'[handle_[o]] = o
        BY <1>2, <1>6, <1>8, <2>1 DEF OneOwner
    <2>. QED
        BY <1>1, <1>2, <1>8, <2>1, Names DEF OneOwner
<1>10. EventReachesOwner'
    <2>1. Sock(c) \notin Event /\ Temp(c) \in Event /\ Temp(c) # NULL
        BY Names
    <2>2. handle_map' \in [Fd -> Event \cup {NULL}] /\ handle_map'[other] = Temp(c)
          /\ \A n \in Fd \ {other} : handle_map'[n] = handle_map[n]
        BY <1>4, <1>7, <2>1 DEF SocketsTypeOK
    <2>3. handle_map[fd] = NULL
        BY <1>6
    <2>. QED
        BY <1>4, <1>8, <2>1, <2>2, <2>3 DEF EventReachesOwner
<1>. QED
    <2>1. /\ file' \in [Fd -> Socket \cup Event \cup {NULL}]
          /\ handle_' \in [Socket -> Fd \cup {-1}]
        BY <1>1, <1>2, <1>5, Names
    <2>2. handle_map' \in [Fd -> Event \cup {NULL}] /\ rdllist' \subseteq Fd
        BY <1>1, <1>2, <1>7, Names
    <2>3. \A n \in Fd : file[n] # NULL => file'[n] = file[n]
        BY <1>3, <1>4, <1>8
    <2>. QED
        BY <1>8, <1>9, <1>10, <2>1, <2>2, <2>3

LEMMA ConnectNumbers ==
    ASSUME SocketsTypeOK, OneOwner, EventReachesOwner, NEW c \in Conn, connect(c)
    PROVE  /\ OneOwner' /\ EventReachesOwner'
           /\ file' \in [Fd -> Socket \cup Event \cup {NULL}]
           /\ handle_' \in [Socket -> Fd \cup {-1}]
           /\ handle_map' \in [Fd -> Event \cup {NULL}] /\ rdllist' \subseteq Fd
           /\ \A n \in Fd : file[n] # NULL => file'[n] = file[n]
<1>1. PICK fd \in Fd :
        /\ Lowest(fd, file)
        /\ file' = [file EXCEPT ![fd] = Rsock(c)]
        /\ handle_' = [handle_ EXCEPT ![Rsock(c)] = fd]
        /\ handle_map' = add_event(fd, Rsock(c))
        /\ rdllist' = rdllist \cup {fd}
    BY DEF connect
<1>2. /\ file \in [Fd -> Socket \cup Event \cup {NULL}]
      /\ handle_ \in [Socket -> Fd \cup {-1}]
      /\ handle_map \in [Fd -> Event \cup {NULL}] /\ rdllist \subseteq Fd
    BY DEF SocketsTypeOK
<1>3. file[fd] = NULL
    BY <1>1 DEF Lowest, Free
<1>4. handle_map[fd] = NULL /\ \A o \in Socket : handle_[o] # fd
    BY <1>3, FreeFacts
<1>5. handle_map' = [handle_map EXCEPT ![fd] = Rsock(c)]
    BY <1>1, <1>4 DEF add_event
<1>6. OneOwner'
    BY <1>1, <1>2, <1>4, Names DEF OneOwner
<1>7. EventReachesOwner'
    BY <1>1, <1>2, <1>5, Names DEF EventReachesOwner
<1>. QED
    BY <1>1, <1>2, <1>3, <1>5, <1>6, <1>7, Names

(* Closing an accepted connection frees a number that has no handler.      *)
LEMMA ReleasedNumbers ==
    ASSUME SocketsTypeOK, OneOwner, EventReachesOwner, NEW c \in Conn,
           released(Sock(c)), handle_map' = handle_map
    PROVE  /\ OneOwner' /\ EventReachesOwner'
           /\ file' \in [Fd -> Socket \cup Event \cup {NULL}]
           /\ handle_' \in [Socket -> Fd \cup {-1}]
           /\ \A n \in Fd : file[n] \in Event => file'[n] = file[n]
<1>1. /\ file' = Destroyed(file, handle_[Sock(c)])
      /\ handle_' = [handle_ EXCEPT ![Sock(c)] = -1]
    BY DEF released
<1>2. /\ file \in [Fd -> Socket \cup Event \cup {NULL}]
      /\ handle_ \in [Socket -> Fd \cup {-1}] /\ handle_map \in [Fd -> Event \cup {NULL}]
      /\ Sock(c) \in Socket
    BY Names DEF SocketsTypeOK
<1>3. CASE handle_[Sock(c)] = -1
    BY <1>1, <1>2, <1>3 DEF Destroyed, OneOwner, EventReachesOwner
<1>4. CASE handle_[Sock(c)] # -1
    <2>. DEFINE n == handle_[Sock(c)]
    <2>1. n \in Fd /\ file[n] = Sock(c) /\ file' = [file EXCEPT ![n] = NULL]
        BY <1>1, <1>2, <1>4 DEF Destroyed, OneOwner
    <2>2. handle_map[n] = NULL
        BY <1>2, <2>1, Names DEF EventReachesOwner
    <2>. HIDE DEF n
    <2>3. OneOwner'
        <3>1. ASSUME NEW o \in Socket, o # Sock(c), handle_[o] # -1 PROVE file'[handle_[o]] = o
            BY <1>2, <2>1, <3>1 DEF OneOwner
        <3>. QED
            BY <1>1, <1>2, <3>1 DEF OneOwner
    <2>4. EventReachesOwner'
        BY <1>2, <2>1, <2>2, Names DEF EventReachesOwner
    <2>. QED
        BY <1>1, <1>2, <2>1, <2>3, <2>4, Names
<1>. QED
    BY <1>3, <1>4

-----------------------------------------------------------------------------
LEMMA InitInv == Init => Inv
<1>. SUFFICES ASSUME Init PROVE Inv
    OBVIOUS
<1>1. 0 \in Fd /\ 0 \in 0 .. Cap
    BY BoundsAssumption DEF Fd
<1>2. Main \in Coroutine /\ Server \in Coroutine
    BY CoroutineAssumption
<1>3. TypeOK
    BY <1>1, <1>2, Names DEF Init, SocketsInit, TypeOK, SocketsTypeOK
<1>4. NumbersInv
    BY <1>1, Names DEF Init, SocketsInit, NumbersInv, OneOwner, EventReachesOwner, AcceptLeaks
<1>. QED
    BY <1>3, <1>4 DEF Inv

(* What only moves data and coroutines leaves the numbers as they are.     *)
LEMMA NumbersSame ==
    ASSUME NumbersInv, UNCHANGED numbers,
           \A c \in Conn : stage'[c] # "none" => stage[c] # "none"
    PROVE  NumbersInv'
BY DEF NumbersInv, numbers, OneOwner, EventReachesOwner, AcceptLeaks

LEMMA CoroutineFacts ==
    /\ Main \in Coroutine /\ Server \in Coroutine
    /\ Main # Server
    /\ \A c \in Conn : /\ Handler(c) \in Coroutine /\ Piping(c) \in Coroutine
                       /\ Handler(c) # Server /\ Handler(c) # Main
                       /\ Piping(c) # Server /\ Piping(c) # Main
    /\ \A c, d \in Conn : /\ Handler(c) # Piping(d)
                          /\ Handler(c) = Handler(d) => c = d
                          /\ Piping(c) = Piping(d) => c = d
BY CoroutineAssumption DEF Handler, Piping, Server

(* co_yield in a coroutine that waits for an object.                       *)
LEMMA WaitsInv ==
    ASSUME Inv, NEW o \in Socket, NEW flag \in {CAN_READ, CAN_WRITE}, Waits(o, flag)
    PROVE  Inv'
<1>1. /\ waited_' = [waited_ EXCEPT ![o] = @ \cup {flag}]
      /\ UNCHANGED <<kernel, events, stage, pipe, ended>>
    BY DEF Waits
<1>2. current' \in Coroutine /\ queue_' \in Seq(Coroutine)
    BY SwitchFacts DEF Waits, Inv, TypeOK
<1>3. TypeOK'
    BY <1>1, <1>2 DEF Inv, TypeOK, SocketsTypeOK, kernel, numbers, streams
<1>4. NumbersInv'
    BY <1>1, NumbersSame DEF Inv, kernel
<1>. QED
    BY <1>3, <1>4 DEF Inv

LEMMA EndsInv ==
    ASSUME Inv, NEW why \in {"descriptors", "null", "SIGPIPE", "undefined"}, Ends(why)
    PROVE  Inv'
<1>1. UNCHANGED <<current, queue_, kernel, events, waited_, stage, pipe>> /\ ended' = why
    BY DEF Ends
<1>2. TypeOK'
    BY <1>1 DEF Inv, TypeOK, SocketsTypeOK, kernel, numbers, streams
<1>3. NumbersInv'
    BY <1>1, NumbersSame DEF Inv, kernel
<1>. QED
    BY <1>2, <1>3 DEF Inv

-----------------------------------------------------------------------------
(* The loop.                                                               *)
LEMMA PollInv ==
    ASSUME Inv, epoll_wait PROVE Inv'
<1>1. /\ UNCHANGED <<current, queue_, numbers, backlog, streams, waited_, stage, pipe, ended>>
      /\ rdllist' = {} /\ events' \subseteq Fd
    BY DEF epoll_wait, Inv, TypeOK, SocketsTypeOK
<1>2. TypeOK'
    BY <1>1 DEF Inv, TypeOK, SocketsTypeOK, numbers, streams
<1>3. NumbersInv'
    BY <1>1, NumbersSame DEF Inv
<1>. QED
    BY <1>2, <1>3 DEF Inv

(* The loop goes to the end of the queue: nobody is less ready than before.*)
LEMMA ReschedFacts ==
    ASSUME Inv, resched
    PROVE  /\ current' \in Coroutine /\ queue_' \in Seq(Coroutine)
           /\ Distinct => Distinct' /\ Ready' = Ready
<1>. DEFINE q == enqueue(queue_, Main)
<1>1. PICK next \in Coroutine : dequeue(q, next) /\ current' = next
    BY DEF resched
<1>2. /\ q \in Seq(Coroutine) /\ q # << >> /\ Range(q) = Range(queue_) \cup {Main}
      /\ IsInjective(queue_) /\ Main \notin Range(queue_) => IsInjective(q)
    BY EnqueueFacts, CoroutineFacts DEF Inv, TypeOK
<1>. HIDE DEF q
<1>3. current' = Head(q) /\ queue_' = Tail(q) /\ current = Main /\ current' \in Coroutine
    BY <1>1 DEF dequeue, resched
<1>4. /\ Tail(q) \in Seq(Coroutine) /\ Range(q) = Range(Tail(q)) \cup {Head(q)}
      /\ IsInjective(q) => IsInjective(Tail(q)) /\ Head(q) \notin Range(Tail(q))
    BY <1>2, DequeueFacts
<1>. QED
    BY <1>2, <1>3, <1>4 DEF Distinct, Ready

LEMMA ReschedInv ==
    ASSUME Inv, resched PROVE Inv'
<1>1. UNCHANGED <<kernel, events, waited_, stage, pipe, ended>>
    BY DEF resched
<1>2. TypeOK'
    BY <1>1, ReschedFacts DEF Inv, TypeOK, SocketsTypeOK, kernel, numbers, streams
<1>3. NumbersInv'
    BY <1>1, NumbersSame DEF Inv, kernel
<1>. QED
    BY <1>2, <1>3 DEF Inv

LEMMA PostedFacts ==
    ASSUME NEW o \in Event \cup {NULL}
    PROVE  Posted(o) \in Seq(Coroutine)
<1>1. o \in Socket /\ o # Listening => \E c \in Conn : o[2] = c
    BY Names DEF Event, Rsock, Sock, Temp
<1>2. o \in Socket /\ o # Listening => Handler(o[2]) \in Coroutine /\ Piping(o[2]) \in Coroutine
    BY <1>1, CoroutineFacts
<1>3. when(CAN_READ \in waited_[o], Server) \in Seq(Coroutine)
    BY CoroutineFacts DEF when
<1>4. ASSUME o \in Socket, o # Listening
      PROVE  /\ when(CAN_WRITE \in waited_[o], Handler(o[2])) \in Seq(Coroutine)
             /\ when(CAN_READ \in waited_[o], Piping(o[2])) \in Seq(Coroutine)
    BY <1>2, <1>4 DEF when
<1>5. \A s, t \in Seq(Coroutine) : s \o t \in Seq(Coroutine)
    OBVIOUS
<1>. QED
    BY <1>3, <1>4, <1>5 DEF Posted

LEMMA TriggerInv ==
    ASSUME Inv, trigger PROVE Inv'
<1>1. PICK n \in events : /\ events' = events \ {n}
                         /\ queue_' = queue_ \o Posted(handle_map[n])
    BY DEF trigger
<1>2. UNCHANGED <<current, kernel, waited_, stage, pipe, ended>>
    BY DEF trigger
<1>3. Posted(handle_map[n]) \in Seq(Coroutine) /\ queue_ \in Seq(Coroutine)
    <2>1. handle_map[n] \in Event \cup {NULL}
        BY DEF Inv, TypeOK, SocketsTypeOK
    <2>. QED
        BY <2>1, PostedFacts DEF Inv, TypeOK
<1>4. queue_' \in Seq(Coroutine)
    BY <1>1, <1>3, ConcatFacts
<1>5. TypeOK'
    BY <1>1, <1>2, <1>4 DEF Inv, TypeOK, SocketsTypeOK, kernel, numbers, streams
<1>6. NumbersInv'
    BY <1>2, NumbersSame DEF Inv, kernel
<1>. QED
    BY <1>5, <1>6 DEF Inv

-----------------------------------------------------------------------------
(* socks5_server.                                                          *)
LEMMA AcceptInv ==
    ASSUME Inv, accept PROVE Inv'
<1>1. CASE CannotAccept /\ Ends("descriptors")
    BY <1>1, EndsInv
<1>2. CASE Waits(Listening, CAN_READ)
    BY <1>2, WaitsInv, Names
<1>3. ASSUME NEW c \in Conn, Serves(c) PROVE Inv'
    <2>1. /\ backlog # << >> /\ backlog' = Tail(backlog) /\ accepted(c)
          /\ waited_' = [waited_ EXCEPT ![Listening] = @ \ {CAN_READ}]
          /\ queue_' = enqueue(queue_, Handler(c))
          /\ stage' = [stage EXCEPT ![c] = "greeting"]
          /\ UNCHANGED <<current, events, streams, pipe, ended>>
        BY <1>3 DEF Serves, Resumes
    <2>2. /\ OneOwner' /\ EventReachesOwner'
          /\ file' \in [Fd -> Socket \cup Event \cup {NULL}]
          /\ handle_' \in [Socket -> Fd \cup {-1}]
          /\ handle_map' \in [Fd -> Event \cup {NULL}] /\ rdllist' \subseteq Fd
          /\ \E n \in Fd : file'[n] = Temp(c)
          /\ \A n \in Fd : file[n] # NULL => file'[n] = file[n]
        BY <2>1, AcceptedNumbers DEF Inv, TypeOK, NumbersInv
    <2>3. /\ queue_' \in Seq(Coroutine) /\ backlog' \in Seq(Conn)
          /\ waited_' \in [Socket -> SUBSET {CAN_READ, CAN_WRITE}]
        <3>1. queue_ \in Seq(Coroutine) /\ backlog \in Seq(Conn)
            BY DEF Inv, TypeOK, SocketsTypeOK
        <3>2. queue_' \in Seq(Coroutine)
            BY <2>1, <3>1, PostFacts, CoroutineFacts
        <3>3. backlog' \in Seq(Conn)
            BY <2>1, <3>1
        <3>. QED
            BY <2>1, <3>2, <3>3 DEF Inv, TypeOK
    <2>4. TypeOK'
        BY <2>1, <2>2, <2>3 DEF Inv, TypeOK, SocketsTypeOK, streams
    <2>5. AcceptLeaks'
        <3>1. ASSUME NEW d \in Conn, d # c, stage'[d] # "none"
              PROVE  \E n \in Fd : file'[n] = Temp(d)
            <4>1. PICK n \in Fd : file[n] = Temp(d)
                BY <2>1, <3>1 DEF Inv, TypeOK, NumbersInv, AcceptLeaks
            <4>2. file[n] # NULL
                BY <4>1, Names
            <4>. QED
                BY <2>2, <4>1, <4>2
        <3>. QED
            BY <2>2, <3>1 DEF AcceptLeaks
    <2>. QED
        BY <2>2, <2>4, <2>5 DEF Inv, NumbersInv
<1>. QED
    BY <1>1, <1>2, <1>3 DEF accept

(* A step of a coroutine that goes on and leaves the numbers alone.        *)
LEMMA GoesInv ==
    ASSUME Inv, UNCHANGED numbers,
           \A d \in Conn : stage'[d] # "none" => stage[d] # "none",
           TypeOK'
    PROVE  Inv'
BY NumbersSame DEF Inv

LEMMA UnitsFacts ==
    ASSUME SocketsTypeOK, NEW c \in Conn
    PROVE  /\ inq[c] > 0 => [inq EXCEPT ![c] = @ - 1] \in [Conn -> 0 .. Cap]
           /\ rinq[c] > 0 => [rinq EXCEPT ![c] = @ - 1] \in [Conn -> 0 .. Cap]
           /\ outq[c] < Cap => [outq EXCEPT ![c] = @ + 1] \in [Conn -> 0 .. Cap]
           /\ routq[c] < Cap => [routq EXCEPT ![c] = @ + 1] \in [Conn -> 0 .. Cap]
           /\ inq[c] < Cap => [inq EXCEPT ![c] = @ + 1] \in [Conn -> 0 .. Cap]
           /\ rinq[c] < Cap => [rinq EXCEPT ![c] = @ + 1] \in [Conn -> 0 .. Cap]
           /\ outq[c] > 0 => [outq EXCEPT ![c] = @ - 1] \in [Conn -> 0 .. Cap]
           /\ routq[c] > 0 => [routq EXCEPT ![c] = @ - 1] \in [Conn -> 0 .. Cap]
<1>1. /\ Cap \in Nat /\ inq[c] \in 0 .. Cap /\ outq[c] \in 0 .. Cap
      /\ rinq[c] \in 0 .. Cap /\ routq[c] \in 0 .. Cap
    BY BoundsAssumption DEF SocketsTypeOK
<1>2. \A k \in 0 .. Cap : (k > 0 => k - 1 \in 0 .. Cap) /\ (k < Cap => k + 1 \in 0 .. Cap)
    BY <1>1
<1>3. \A q \in [Conn -> 0 .. Cap] :
        /\ q[c] > 0 => [q EXCEPT ![c] = @ - 1] \in [Conn -> 0 .. Cap]
        /\ q[c] < Cap => [q EXCEPT ![c] = @ + 1] \in [Conn -> 0 .. Cap]
    <2>1. ASSUME NEW q \in [Conn -> 0 .. Cap], NEW k \in 0 .. Cap
          PROVE  [q EXCEPT ![c] = k] \in [Conn -> 0 .. Cap]
        OBVIOUS
    <2>. QED
        BY <1>2, <2>1
<1>4. /\ inq \in [Conn -> 0 .. Cap] /\ outq \in [Conn -> 0 .. Cap]
      /\ rinq \in [Conn -> 0 .. Cap] /\ routq \in [Conn -> 0 .. Cap]
    BY DEF SocketsTypeOK
<1>. QED
    BY <1>3, <1>4

LEMMA ReceivesFacts ==
    ASSUME SocketsTypeOK, NEW c \in Conn, Receives(c) \/ Fails(c)
    PROVE  /\ inq' \in [Conn -> 0 .. Cap]
           /\ client' \in [Conn -> {"absent", "open", "closed", "reset"}]
<1>1. /\ inq \in [Conn -> 0 .. Cap]
      /\ client \in [Conn -> {"absent", "open", "closed", "reset"}]
    BY DEF SocketsTypeOK
<1>2. CASE Receives(c)
    <2>1. inq[c] > 0 /\ inq' = [inq EXCEPT ![c] = @ - 1] /\ client' = client
        BY <1>2 DEF Receives
    <2>. QED
        BY <1>1, <2>1, UnitsFacts
<1>3. CASE Fails(c)
    BY <1>1, <1>3 DEF Fails
<1>. QED
    BY <1>2, <1>3

LEMMA RepliesFacts ==
    ASSUME SocketsTypeOK, NEW c \in Conn, Replies(c, client)
    PROVE  client' \in [Conn -> {"absent", "open", "closed", "reset"}]
BY DEF Replies, SocketsTypeOK

LEMMA GreetingInv ==
    ASSUME Inv, NEW c \in Conn, greeting(c) PROVE Inv'
<1>1. current = Handler(c) /\ stage[c] = "greeting"
    BY DEF greeting, Runs
<1>2. ASSUME Pipe(c) \/ Ends("SIGPIPE") PROVE Inv'
    BY <1>2, EndsInv DEF Pipe
<1>3. CASE /\ inq[c] > 0 /\ inq' = [inq EXCEPT ![c] = @ - 1]
           /\ Replies(c, client) /\ stage' = [stage EXCEPT ![c] = "request"] /\ Goes
           /\ UNCHANGED <<numbers, rdllist, backlog, outq, remote, rinq, routq,
                          waited_, pipe, ended>>
    <2>1. inq' \in [Conn -> 0 .. Cap] /\ client' \in [Conn -> {"absent", "open", "closed", "reset"}]
        BY <1>3, UnitsFacts, RepliesFacts DEF Inv, TypeOK
    <2>2. TypeOK'
        BY <1>3, <2>1 DEF Inv, TypeOK, SocketsTypeOK, numbers, Goes
    <2>3. \A d \in Conn : d # c => stage'[d] = stage[d]
        BY <1>3 DEF Inv, TypeOK
    <2>. QED
        BY <1>1, <1>3, <2>2, <2>3, GoesInv
<1>4. CASE /\ Fails(c) /\ Goes
           /\ UNCHANGED <<numbers, rdllist, backlog, outq, remote, rinq, routq,
                          waited_, stage, pipe, ended>>
    <2>1. inq' \in [Conn -> 0 .. Cap] /\ client' \in [Conn -> {"absent", "open", "closed", "reset"}]
        BY <1>4, ReceivesFacts DEF Inv, TypeOK
    <2>2. TypeOK'
        BY <1>4, <2>1 DEF Inv, TypeOK, SocketsTypeOK, numbers, Goes
    <2>. QED
        BY <1>4, <2>2, GoesInv
<1>. QED
    BY <1>2, <1>3, <1>4 DEF greeting

LEMMA ReturnsInv ==
    ASSUME Inv, NEW c \in Conn, current = Handler(c), stage[c] # "none",
           Receives(c) \/ Fails(c), returns(c)
    PROVE  Inv'
<1>1. /\ stage' = [stage EXCEPT ![c] = "returned"] /\ released(Sock(c))
      /\ UNCHANGED <<events, rdllist, backlog, outq, remote, rinq, routq, waited_, pipe,
                     ended, handle_map>>
    BY DEF returns, exits
<1>4. current' \in Coroutine /\ queue_' \in Seq(Coroutine)
    BY SwitchFacts DEF returns, exits, Inv, TypeOK
<1>5. /\ OneOwner' /\ EventReachesOwner'
      /\ file' \in [Fd -> Socket \cup Event \cup {NULL}]
      /\ handle_' \in [Socket -> Fd \cup {-1}]
      /\ \A n \in Fd : file[n] \in Event => file'[n] = file[n]
    BY <1>1, ReleasedNumbers DEF Inv, TypeOK, NumbersInv
<1>6. inq' \in [Conn -> 0 .. Cap] /\ client' \in [Conn -> {"absent", "open", "closed", "reset"}]
    BY ReceivesFacts DEF Inv, TypeOK
<1>7. TypeOK'
    BY <1>1, <1>4, <1>5, <1>6 DEF Inv, TypeOK, SocketsTypeOK
<1>8. AcceptLeaks'
    <2>1. \A d \in Conn : stage'[d] # "none" => stage[d] # "none"
        BY <1>1 DEF Inv, TypeOK
    <2>. QED
        BY <1>5, <2>1, Names DEF Inv, NumbersInv, AcceptLeaks
<1>. QED
    BY <1>5, <1>7, <1>8 DEF Inv, NumbersInv

LEMMA ConnectsInv ==
    ASSUME Inv, NEW c \in Conn, current = Handler(c), stage[c] # "none",
           inq[c] > 0, inq' = [inq EXCEPT ![c] = @ - 1],
           connect(c), Replies(c, client), queue_' = enqueue(queue_, Piping(c)),
           stage' = [stage EXCEPT ![c] = "read"], pipe' = [pipe EXCEPT ![c] = "read"],
           UNCHANGED <<current, events, backlog, outq, rinq, routq, waited_, ended>>
    PROVE  Inv'
<1>1. /\ OneOwner' /\ EventReachesOwner'
      /\ file' \in [Fd -> Socket \cup Event \cup {NULL}]
      /\ handle_' \in [Socket -> Fd \cup {-1}]
      /\ handle_map' \in [Fd -> Event \cup {NULL}] /\ rdllist' \subseteq Fd
      /\ \A n \in Fd : file[n] # NULL => file'[n] = file[n]
    BY ConnectNumbers DEF Inv, TypeOK, NumbersInv
<1>2. inq' \in [Conn -> 0 .. Cap] /\ client' \in [Conn -> {"absent", "open", "closed", "reset"}]
    BY UnitsFacts, RepliesFacts DEF Inv, TypeOK
<1>3. remote' \in [Conn -> {"none", "connecting", "up", "down"}]
    BY DEF connect, Inv, TypeOK, SocketsTypeOK
<1>4. queue_ \in Seq(Coroutine) /\ Piping(c) \in Coroutine
    BY CoroutineFacts DEF Inv, TypeOK
<1>5. queue_' \in Seq(Coroutine)
    BY <1>4, PostFacts
<1>6. TypeOK'
    BY <1>1, <1>2, <1>3, <1>5 DEF Inv, TypeOK, SocketsTypeOK
<1>7. \A d \in Conn : d # c => stage'[d] = stage[d]
    BY DEF Inv, TypeOK
<1>8. AcceptLeaks'
    BY <1>1, <1>7, Names DEF Inv, NumbersInv, AcceptLeaks
<1>. QED
    BY <1>1, <1>6, <1>8 DEF Inv, NumbersInv

LEMMA RequestInv ==
    ASSUME Inv, NEW c \in Conn, request(c) PROVE Inv'
<1>1. current = Handler(c) /\ stage[c] = "request"
    BY DEF request, Runs
<1>2. CASE (Receives(c) \/ Fails(c)) /\ returns(c)
    BY <1>1, <1>2, ReturnsInv
<1>3. CASE /\ Fails(c) /\ Goes
           /\ UNCHANGED <<numbers, rdllist, backlog, outq, remote, rinq, routq,
                          waited_, stage, pipe, ended>>
    <2>1. inq' \in [Conn -> 0 .. Cap] /\ client' \in [Conn -> {"absent", "open", "closed", "reset"}]
        BY <1>3, ReceivesFacts DEF Inv, TypeOK
    <2>2. TypeOK'
        BY <1>3, <2>1 DEF Inv, TypeOK, SocketsTypeOK, numbers, Goes
    <2>. QED
        BY <1>3, <2>2, GoesInv
<1>4. CASE \E why \in {"null", "descriptors", "SIGPIPE"} : Ends(why)
    BY <1>4, EndsInv
<1>5. CASE /\ inq[c] > 0 /\ inq' = [inq EXCEPT ![c] = @ - 1]
           /\ connect(c) /\ Replies(c, client) /\ queue_' = enqueue(queue_, Piping(c))
           /\ stage' = [stage EXCEPT ![c] = "read"] /\ pipe' = [pipe EXCEPT ![c] = "read"]
           /\ UNCHANGED <<current, events, backlog, outq, rinq, routq, waited_, ended>>
    BY <1>1, <1>5, ConnectsInv
<1>. QED
    BY <1>2, <1>3, <1>4, <1>5 DEF request, Pipe

LEMMA ReadLocalInv ==
    ASSUME Inv, NEW c \in Conn, read_local(c) PROVE Inv'
<1>1. /\ current = Handler(c) /\ stage[c] = "read" /\ Goes /\ (Receives(c) \/ Fails(c))
      /\ stage' = [stage EXCEPT ![c] = "write"] \/ UNCHANGED stage
      /\ UNCHANGED <<numbers, rdllist, backlog, outq, remote, rinq, routq, waited_, pipe, ended>>
    BY DEF read_local, Runs
<1>2. inq' \in [Conn -> 0 .. Cap] /\ client' \in [Conn -> {"absent", "open", "closed", "reset"}]
    BY <1>1, ReceivesFacts DEF Inv, TypeOK
<1>3. TypeOK'
    BY <1>1, <1>2 DEF Inv, TypeOK, SocketsTypeOK, numbers, Goes
<1>4. \A d \in Conn : d # c => stage'[d] = stage[d]
    BY <1>1 DEF Inv, TypeOK
<1>. QED
    BY <1>1, <1>3, <1>4, GoesInv

LEMMA WriteRemoteInv ==
    ASSUME Inv, NEW c \in Conn, write_remote(c) PROVE Inv'
<1>1. current = Handler(c) /\ stage[c] = "write" /\ Rsock(c) \in Socket
    BY Names DEF write_remote, Runs
<1>2. CASE Waits(Rsock(c), CAN_WRITE)
    <2>1. \A d \in Conn : current = Handler(d) => stage[d] = "write"
        BY <1>1, CoroutineFacts
    <2>. QED
        BY <1>1, <1>2, <2>1, WaitsInv
<1>3. CASE Ends("SIGPIPE")
    BY <1>3, EndsInv
<1>4. CASE /\ stage' = [stage EXCEPT ![c] = "read"] /\ Goes /\ Resumes(Rsock(c), CAN_WRITE)
           /\ UNCHANGED <<numbers, rdllist, backlog, client, inq, outq, remote, rinq, pipe, ended>>
           /\ UNCHANGED routq \/ (routq[c] < Cap /\ routq' = [routq EXCEPT ![c] = @ + 1])
    <2>0. SocketsTypeOK
        BY DEF Inv, TypeOK
    <2>1. routq' \in [Conn -> 0 .. Cap]
        <3>1. CASE UNCHANGED routq
            BY <2>0, <3>1 DEF SocketsTypeOK
        <3>2. CASE routq[c] < Cap /\ routq' = [routq EXCEPT ![c] = @ + 1]
            BY <2>0, <3>2, UnitsFacts
        <3>. QED
            BY <1>4, <3>1, <3>2
    <2>2. waited_' \in [Socket -> SUBSET {CAN_READ, CAN_WRITE}]
        BY <1>1, <1>4 DEF Resumes, Inv, TypeOK
    <2>3. TypeOK'
        BY <1>4, <2>1, <2>2 DEF Inv, TypeOK, SocketsTypeOK, numbers, Goes
    <2>4. \A d \in Conn : d # c => stage'[d] = stage[d]
        BY <1>4 DEF Inv, TypeOK
    <2>. QED
        BY <1>1, <1>4, <2>3, <2>4, GoesInv
<1>. QED
    BY <1>2, <1>3, <1>4 DEF write_remote, kernel, streams

LEMMA ReadRemoteInv ==
    ASSUME Inv, NEW c \in Conn, read_remote(c) PROVE Inv'
<1>1. current = Piping(c) /\ Rsock(c) \in Socket
    BY Names DEF read_remote, Runs
<1>2. CASE Waits(Rsock(c), CAN_READ)
    <2>1. \A d \in Conn : current # Handler(d)
        BY <1>1, CoroutineFacts
    <2>. QED
        BY <1>1, <1>2, <2>1, WaitsInv
<1>3. CASE /\ rinq[c] > 0 /\ rinq' = [rinq EXCEPT ![c] = @ - 1]
           /\ Resumes(Rsock(c), CAN_READ) /\ pipe' = [pipe EXCEPT ![c] = "write"] /\ Goes
           /\ UNCHANGED <<numbers, rdllist, backlog, client, inq, outq, remote, routq, stage, ended>>
    <2>1. rinq' \in [Conn -> 0 .. Cap]
        BY <1>3, UnitsFacts DEF Inv, TypeOK
    <2>2. waited_' \in [Socket -> SUBSET {CAN_READ, CAN_WRITE}]
        BY <1>1, <1>3 DEF Resumes, Inv, TypeOK
    <2>3. TypeOK'
        BY <1>3, <2>1, <2>2 DEF Inv, TypeOK, SocketsTypeOK, numbers, Goes
    <2>. QED
        BY <1>3, <2>3, GoesInv
<1>. QED
    BY <1>2, <1>3 DEF read_remote

LEMMA WriteLocalInv ==
    ASSUME Inv, NEW c \in Conn, write_local(c) PROVE Inv'
<1>1. CASE Pipe(c)
    BY <1>1, EndsInv DEF Pipe
<1>2. CASE /\ pipe' = [pipe EXCEPT ![c] = "read"] /\ Goes
           /\ UNCHANGED <<numbers, rdllist, backlog, inq, remote, rinq, routq, waited_, stage, ended>>
           /\ \/ outq[c] < Cap /\ outq' = [outq EXCEPT ![c] = @ + 1] /\ UNCHANGED client
              \/ Replies(c, client) /\ UNCHANGED outq
    <2>0. SocketsTypeOK
        BY DEF Inv, TypeOK
    <2>1. outq' \in [Conn -> 0 .. Cap]
        <3>1. CASE outq[c] < Cap /\ outq' = [outq EXCEPT ![c] = @ + 1]
            BY <2>0, <3>1, UnitsFacts
        <3>2. CASE UNCHANGED outq
            BY <2>0, <3>2 DEF SocketsTypeOK
        <3>. QED
            BY <1>2, <3>1, <3>2
    <2>2. client' \in [Conn -> {"absent", "open", "closed", "reset"}]
        <3>1. CASE Replies(c, client)
            BY <2>0, <3>1, RepliesFacts
        <3>2. CASE UNCHANGED client
            BY <2>0, <3>2 DEF SocketsTypeOK
        <3>. QED
            BY <1>2, <3>1, <3>2
    <2>3. TypeOK'
        BY <1>2, <2>1, <2>2 DEF Inv, TypeOK, SocketsTypeOK, numbers, Goes
    <2>. QED
        BY <1>2, <2>3, GoesInv
<1>. QED
    BY <1>1, <1>2 DEF write_local

(* The kernel and the peers change no number.                              *)
LEMMA EnvironmentInv ==
    ASSUME Inv, Environment PROVE Inv'
<1>1. UNCHANGED <<current, queue_, events, waited_, stage, pipe, ended>>
    BY DEF Environment
<1>2. PICK c \in Conn :
        \/ client_connects(c) \/ client_sends(c) \/ client_takes(c) \/ client_leaves(c)
        \/ remote_changes(c) \/ remote_sends(c) \/ remote_takes(c)
    BY DEF Environment, Peers
<1>3. UNCHANGED numbers
    BY <1>2 DEF client_connects, client_sends, client_takes, client_leaves,
                remote_changes, remote_sends, remote_takes
<1>4. rdllist' \subseteq Fd
    BY <1>2 DEF client_connects, client_sends, client_takes, client_leaves,
                remote_changes, remote_sends, remote_takes, edge, Inv, TypeOK, SocketsTypeOK
<1>5. /\ inq' \in [Conn -> 0 .. Cap] /\ outq' \in [Conn -> 0 .. Cap]
      /\ rinq' \in [Conn -> 0 .. Cap] /\ routq' \in [Conn -> 0 .. Cap]
    <2>1. 0 \in 0 .. Cap
        BY BoundsAssumption
    <2>2. SocketsTypeOK
        BY DEF Inv, TypeOK
    <2>3. /\ inq[c] < Cap => [inq EXCEPT ![c] = @ + 1] \in [Conn -> 0 .. Cap]
          /\ rinq[c] < Cap => [rinq EXCEPT ![c] = @ + 1] \in [Conn -> 0 .. Cap]
          /\ outq[c] > 0 => [outq EXCEPT ![c] = @ - 1] \in [Conn -> 0 .. Cap]
          /\ routq[c] > 0 => [routq EXCEPT ![c] = @ - 1] \in [Conn -> 0 .. Cap]
        BY <2>2, UnitsFacts
    <2>4. CASE client_sends(c)
        BY <2>2, <2>3, <2>4 DEF client_sends, SocketsTypeOK
    <2>5. CASE client_takes(c)
        BY <2>2, <2>3, <2>5 DEF client_takes, SocketsTypeOK
    <2>6. CASE client_leaves(c)
        BY <2>1, <2>2, <2>6 DEF client_leaves, SocketsTypeOK
    <2>7. CASE remote_sends(c)
        BY <2>2, <2>3, <2>7 DEF remote_sends, SocketsTypeOK
    <2>8. CASE remote_takes(c)
        BY <2>2, <2>3, <2>8 DEF remote_takes, SocketsTypeOK
    <2>9. CASE client_connects(c) \/ remote_changes(c)
        BY <2>2, <2>9 DEF client_connects, remote_changes, SocketsTypeOK
    <2>. QED
        BY <1>2, <2>4, <2>5, <2>6, <2>7, <2>8, <2>9
<1>6. /\ client' \in [Conn -> {"absent", "open", "closed", "reset"}]
      /\ remote' \in [Conn -> {"none", "connecting", "up", "down"}]
      /\ backlog' \in Seq(Conn)
    <2>0. /\ client \in [Conn -> {"absent", "open", "closed", "reset"}]
          /\ remote \in [Conn -> {"none", "connecting", "up", "down"}]
          /\ backlog \in Seq(Conn) /\ Append(backlog, c) \in Seq(Conn)
        BY DEF Inv, TypeOK, SocketsTypeOK
    <2>1. CASE client_connects(c)
        BY <2>0, <2>1 DEF client_connects
    <2>2. CASE client_leaves(c)
        BY <2>0, <2>2 DEF client_leaves
    <2>3. CASE remote_changes(c)
        BY <2>0, <2>3 DEF remote_changes
    <2>4. CASE client_sends(c) \/ client_takes(c) \/ remote_sends(c) \/ remote_takes(c)
        BY <2>0, <2>4 DEF client_sends, client_takes, remote_sends, remote_takes
    <2>. QED
        BY <1>2, <2>1, <2>2, <2>3, <2>4
<1>7. TypeOK'
    BY <1>1, <1>3, <1>4, <1>5, <1>6 DEF Inv, TypeOK, SocketsTypeOK, numbers
<1>8. NumbersInv'
    BY <1>1, <1>3, NumbersSame DEF Inv
<1>. QED
    BY <1>7, <1>8 DEF Inv

LEMMA NextInv == Inv /\ [Next]_vars => Inv'
<1>. SUFFICES ASSUME Inv, [Next]_vars PROVE Inv'
    OBVIOUS
<1>1. ASSUME NEW c \in Conn,
             \/ greeting(c) \/ request(c) \/ read_local(c) \/ write_remote(c)
             \/ read_remote(c) \/ write_local(c)
      PROVE  Inv'
    BY <1>1, GreetingInv, RequestInv, ReadLocalInv, WriteRemoteInv, ReadRemoteInv, WriteLocalInv
<1>2. CASE epoll_wait \/ resched \/ trigger \/ trigger_gone \/ accept \/ Environment
    <2>1. trigger_gone => Ends("undefined")
        BY DEF trigger_gone
    <2>. QED
        BY <1>2, <2>1, PollInv, ReschedInv, TriggerInv, EndsInv, AcceptInv, EnvironmentInv
<1>3. CASE UNCHANGED vars
    <2>1. TypeOK'
        BY <1>3 DEF vars, Inv, TypeOK, SocketsTypeOK, kernel, numbers, streams
    <2>2. NumbersInv'
        BY <1>3, NumbersSame DEF vars, kernel, Inv
    <2>. QED
        BY <2>1, <2>2 DEF Inv
<1>. QED
    BY <1>1, <1>2, <1>3 DEF Next, Process

LEMMA Invariance == Spec => []Inv
    BY InitInv, NextInv, PTL DEF Spec

-----------------------------------------------------------------------------
(* Every variable keeps its type.                                          *)
THEOREM TypeCorrect == Spec => []TypeOK
<1>1. Inv => TypeOK
    BY DEF Inv
<1>. QED
    BY <1>1, Invariance, PTL

(* No two live sockets hold one number, and none holds a closed one.       *)
THEOREM NumbersAreOwned == Spec => []OneOwner
<1>1. Inv => OneOwner
    BY DEF Inv, NumbersInv
<1>. QED
    BY <1>1, Invariance, PTL

(* Since only numbers that epoll does not know are ever closed, no event   *)
(* reaches an object that was made for an earlier use of its number.       *)
THEOREM EventsReachTheirOwner == Spec => []EventReachesOwner
<1>1. Inv => EventReachesOwner
    BY DEF Inv, NumbersInv
<1>. QED
    BY <1>1, Invariance, PTL

(* The number that accept takes beside the connection's is never given     *)
(* back.                                                                   *)
THEOREM NumbersLeak == Spec => []AcceptLeaks
<1>1. Inv => AcceptLeaks
    BY DEF Inv, NumbersInv
<1>. QED
    BY <1>1, Invariance, PTL

-----------------------------------------------------------------------------
(* Why no wake-up is lost and nobody is posted twice.  Each object has one *)
(* number; each coroutine that waits does so for its own object, in a call *)
(* that names it; and whom a batch of events has posted uses none of the   *)
(* numbers the batch still holds, since the queue was empty when it began. *)
Uses(co, o) ==
    \/ o = Listening /\ co = Server
    \/ \E c \in Conn : o = Rsock(c) /\ co \in {Handler(c), Piping(c)}

SingleNumber == \A n \in Fd : file[n] \in Socket => handle_[file[n]] = n

BatchInv ==
    /\ events # {} => current = Main
    /\ \A n \in events, co \in Range(queue_) : ~Uses(co, handle_map[n])

BacklogInv ==
    /\ IsInjective(backlog)
    /\ \A c \in Range(backlog) : stage[c] = "none"
    /\ \A c \in Conn : client[c] = "absent" => stage[c] = "none" /\ c \notin Range(backlog)

ServerInv ==
    /\ Main \in Ready
    /\ Server \in Ready \/ CAN_READ \in waited_[Listening]
    /\ handle_[Listening] # -1
    /\ Server \notin Ready /\ backlog # << >> => handle_[Listening] \in rdllist \cup events

NumberInv(c) ==
    /\ stage[c] = "none" => handle_[Sock(c)] = -1
    /\ stage[c] \in {"none", "greeting", "request"} =>
        handle_[Rsock(c)] = -1 /\ pipe[c] = "none" /\ remote[c] = "none"
    /\ stage[c] \in {"read", "write"} \/ pipe[c] # "none" => handle_[Rsock(c)] # -1
    /\ rinq[c] > 0 => remote[c] \in {"up", "down"}

HandlerInv(c) ==
    /\ Handler(c) \in Ready => stage[c] \notin {"none", "returned"}
    /\ CAN_WRITE \in waited_[Rsock(c)] => stage[c] = "write"
    /\ Handler(c) \notin Ready /\ stage[c] \notin {"none", "returned"} =>
        CAN_WRITE \in waited_[Rsock(c)]
    /\ Handler(c) \notin Ready /\ CanWrite(c) => handle_[Rsock(c)] \in rdllist \cup events

PipingInv(c) ==
    /\ Piping(c) \in Ready => pipe[c] # "none"
    /\ CAN_READ \in waited_[Rsock(c)] => pipe[c] = "read"
    /\ Piping(c) \notin Ready /\ pipe[c] # "none" => CAN_READ \in waited_[Rsock(c)]
    /\ Piping(c) \notin Ready /\ CanRead(c) => handle_[Rsock(c)] \in rdllist \cup events

ConnInv(c) == NumberInv(c) /\ HandlerInv(c) /\ PipingInv(c)

LoopInv ==
    /\ SingleNumber /\ Distinct /\ BatchInv /\ BacklogInv /\ ServerInv
    /\ \A c \in Conn : ConnInv(c)

(* A step that does not touch connection d.                                *)
LEMMA OthersInv ==
    ASSUME NEW d \in Conn, ConnInv(d),
           stage'[d] = stage[d], pipe'[d] = pipe[d], remote'[d] = remote[d],
           rinq'[d] = rinq[d], routq'[d] = routq[d],
           waited_'[Rsock(d)] = waited_[Rsock(d)],
           handle_'[Rsock(d)] = handle_[Rsock(d)], handle_'[Sock(d)] = handle_[Sock(d)],
           Handler(d) \in Ready' <=> Handler(d) \in Ready,
           Piping(d) \in Ready' <=> Piping(d) \in Ready,
           rdllist \cup events \subseteq rdllist' \cup events'
    PROVE  ConnInv(d)'
<1>1. NumberInv(d)'
    BY DEF ConnInv, NumberInv
<1>2. HandlerInv(d)'
    BY DEF ConnInv, HandlerInv, CanWrite
<1>3. PipingInv(d)'
    BY DEF ConnInv, PipingInv, CanRead
<1>. QED
    BY <1>1, <1>2, <1>3 DEF ConnInv

LEMMA InitLoopInv == Init => LoopInv
<1>. SUFFICES ASSUME Init PROVE LoopInv
    OBVIOUS
<1>1. Ready = {Main, Server} /\ Distinct
    <2>1. Range(<<Main>>) = {Main} /\ IsInjective(<<Main>>)
        BY DEF Range, IsInjective
    <2>. QED
        BY <2>1, CoroutineFacts DEF Init, Ready, Distinct
<1>2. SingleNumber /\ BatchInv /\ ServerInv
    BY <1>1, Names DEF Init, SocketsInit, SingleNumber, BatchInv, ServerInv
<1>3. BacklogInv
    <2>1. Range(<< >>) = {} /\ IsInjective(<< >>)
        BY DEF Range, IsInjective
    <2>. QED
        BY <2>1 DEF Init, SocketsInit, BacklogInv
<1>4. ASSUME NEW c \in Conn PROVE ConnInv(c)
    <2>1. Handler(c) \notin Ready /\ Piping(c) \notin Ready
        BY <1>1, CoroutineFacts
    <2>2. handle_[Sock(c)] = -1 /\ handle_[Rsock(c)] = -1 /\ waited_[Rsock(c)] = {}
        <3>1. Sock(c) # Listening /\ Rsock(c) # Listening
            BY DEF Sock, Rsock, Listening
        <3>. QED
            BY <3>1, Names DEF Init, SocketsInit
    <2>3. stage[c] = "none" /\ pipe[c] = "none" /\ rinq[c] = 0 /\ remote[c] = "none"
        BY DEF Init, SocketsInit
    <2>. QED
        BY <2>1, <2>2, <2>3 DEF ConnInv, NumberInv, HandlerInv, PipingInv, CanWrite, CanRead
<1>. QED
    BY <1>1, <1>2, <1>3, <1>4 DEF LoopInv

(* Nothing that the invariant speaks of changes.                           *)
LEMMA SameLoopInv ==
    ASSUME LoopInv, UNCHANGED <<current, queue_, kernel, events, waited_, stage, pipe>>
    PROVE  LoopInv'
<1>1. Ready' = Ready
    BY DEF Ready
<1>2. SingleNumber' /\ Distinct' /\ BatchInv' /\ BacklogInv' /\ ServerInv'
    BY <1>1 DEF LoopInv, SingleNumber, Distinct, BatchInv, BacklogInv, ServerInv,
                kernel, numbers, streams
<1>3. ASSUME NEW c \in Conn PROVE ConnInv(c)'
    BY <1>1, OthersInv DEF LoopInv, kernel, numbers, streams
<1>. QED
    BY <1>2, <1>3 DEF LoopInv

-----------------------------------------------------------------------------
(* The loop's own steps.                                                   *)
LEMMA PollLoopInv ==
    ASSUME Inv, LoopInv, epoll_wait PROVE LoopInv'
<1>1. /\ UNCHANGED <<current, queue_, numbers, backlog, streams, waited_, stage, pipe>>
      /\ events = {} /\ events' = {n \in rdllist : Level(n)} /\ current = Main /\ num = 0
    BY DEF epoll_wait
<1>2. Ready' = Ready /\ Range(queue_) = {}
    <2>1. queue_ \in Seq(Coroutine) /\ Len(queue_) = 0
        BY <1>1 DEF Inv, TypeOK, num
    <2>2. Range(queue_) = {}
        BY <2>1 DEF Range
    <2>. QED
        BY <1>1, <2>2 DEF Ready
<1>3. SingleNumber' /\ Distinct' /\ BacklogInv' /\ BatchInv'
    BY <1>1, <1>2 DEF LoopInv, SingleNumber, Distinct, BatchInv, BacklogInv, numbers, streams
<1>4. ServerInv'
    <2>1. ASSUME Server \notin Ready, backlog # << >> PROVE handle_[Listening] \in events'
        <3>1. handle_[Listening] \in rdllist /\ file[handle_[Listening]] = Listening
            BY <1>1, <2>1, Names DEF LoopInv, ServerInv, Inv, NumbersInv, OneOwner
        <3>. QED
            BY <1>1, <2>1, <3>1 DEF Level
    <2>. QED
        BY <1>1, <1>2, <2>1 DEF LoopInv, ServerInv, numbers
<1>5. ASSUME NEW c \in Conn PROVE ConnInv(c)'
    <2>1. ConnInv(c)
        BY DEF LoopInv
    <2>2. NumberInv(c)'
        BY <1>1, <2>1 DEF ConnInv, NumberInv, numbers, streams
    <2>3. ASSUME CanWrite(c) \/ CanRead(c), handle_[Rsock(c)] \in rdllist
          PROVE  handle_[Rsock(c)] \in events'
        <3>1. handle_[Rsock(c)] # -1
            BY <2>1, <2>3 DEF ConnInv, NumberInv, CanWrite, CanRead
        <3>2. file[handle_[Rsock(c)]] = Rsock(c)
            BY <3>1, Names DEF Inv, NumbersInv, OneOwner
        <3>3. \/ remote[c] = "down"
              \/ remote[c] = "up" /\ (rinq[c] > 0 \/ routq[c] < Cap)
            BY <2>1, <2>3 DEF ConnInv, NumberInv, CanWrite, CanRead
        <3>. QED
            BY <1>1, <2>3, <3>2, <3>3 DEF Level
    <2>4. HandlerInv(c)'
        BY <1>1, <1>2, <2>1, <2>3 DEF ConnInv, HandlerInv, CanWrite, numbers, streams
    <2>5. PipingInv(c)'
        BY <1>1, <1>2, <2>1, <2>3 DEF ConnInv, PipingInv, CanRead, numbers, streams
    <2>. QED
        BY <2>2, <2>4, <2>5 DEF ConnInv
<1>. QED
    BY <1>3, <1>4, <1>5 DEF LoopInv

LEMMA ReschedLoopInv ==
    ASSUME Inv, LoopInv, resched PROVE LoopInv'
<1>1. UNCHANGED <<kernel, events, waited_, stage, pipe>> /\ events = {}
    BY DEF resched
<1>2. Distinct' /\ Ready' = Ready
    BY ReschedFacts DEF LoopInv
<1>3. SingleNumber' /\ BatchInv' /\ BacklogInv' /\ ServerInv'
    BY <1>1, <1>2 DEF LoopInv, SingleNumber, BatchInv, BacklogInv, ServerInv,
                      kernel, numbers, streams
<1>4. ASSUME NEW c \in Conn PROVE ConnInv(c)'
    BY <1>1, <1>2, OthersInv DEF LoopInv, kernel, numbers, streams
<1>. QED
    BY <1>2, <1>3, <1>4 DEF LoopInv

(* Whom an object's trigger posts: each once, and users of that object.    *)
LEMMA PostedUsers ==
    ASSUME Inv, NEW o \in Event \cup {NULL}
    PROVE  /\ IsInjective(Posted(o)) /\ Range(Posted(o)) \subseteq Coroutine
           /\ \A co \in Range(Posted(o)) : Uses(co, o)
           /\ o = Listening /\ CAN_READ \in waited_[o] => Server \in Range(Posted(o))
           /\ \A c \in Conn : o = Rsock(c) =>
                /\ Handler(c) \in Range(Posted(o)) <=> CAN_WRITE \in waited_[o]
                /\ Piping(c) \in Range(Posted(o)) <=> CAN_READ \in waited_[o]
<1>1. /\ << >> \in Seq(Coroutine) /\ IsInjective(<< >>) /\ Range(<< >>) = {}
      /\ \A co \in Coroutine :
            <<co>> \in Seq(Coroutine) /\ IsInjective(<<co>>) /\ Range(<<co>>) = {co}
    BY DEF IsInjective, Range
<1>2. CASE o = Listening
    <2>1. Posted(o) = when(CAN_READ \in waited_[o], Server)
        BY <1>2 DEF Posted
    <2>2. \A c \in Conn : o # Rsock(c)
        BY <1>2 DEF Listening, Rsock
    <2>. QED
        BY <1>1, <1>2, <2>1, <2>2, CoroutineFacts DEF Uses, when
<1>3. ASSUME NEW c \in Conn, o = Rsock(c)
      PROVE  /\ IsInjective(Posted(o)) /\ Range(Posted(o)) \subseteq {Handler(c), Piping(c)}
             /\ Handler(c) \in Range(Posted(o)) <=> CAN_WRITE \in waited_[o]
             /\ Piping(c) \in Range(Posted(o)) <=> CAN_READ \in waited_[o]
    <2>. DEFINE w == when(CAN_WRITE \in waited_[o], Handler(c))
                r == when(CAN_READ \in waited_[o], Piping(c))
    <2>1. o # Listening /\ o \in Socket /\ o[2] = c
        BY <1>3, Names DEF Listening, Rsock
    <2>2. Posted(o) = w \o r
        BY <2>1 DEF Posted
    <2>3. Handler(c) \in Coroutine /\ Piping(c) \in Coroutine /\ Handler(c) # Piping(c)
        BY CoroutineFacts
    <2>4. /\ w \in Seq(Coroutine) /\ r \in Seq(Coroutine) /\ IsInjective(w) /\ IsInjective(r)
          /\ Range(w) = IF CAN_WRITE \in waited_[o] THEN {Handler(c)} ELSE {}
          /\ Range(r) = IF CAN_READ \in waited_[o] THEN {Piping(c)} ELSE {}
        BY <1>1, <2>3 DEF when
    <2>. HIDE DEF w, r
    <2>5. Range(w \o r) = Range(w) \cup Range(r) /\ IsInjective(w \o r)
        BY <2>3, <2>4, ConcatFacts
    <2>. QED
        BY <2>2, <2>3, <2>4, <2>5
<1>4. CASE o \notin Socket
    <2>1. Posted(o) = << >> /\ o # Listening /\ \A c \in Conn : o # Rsock(c)
        BY <1>4, Names DEF Posted
    <2>. QED
        BY <1>1, <2>1
<1>5. \/ o = Listening \/ o \notin Socket \/ \E c \in Conn : o = Rsock(c)
    BY Names DEF Event
<1>6. ASSUME NEW c \in Conn, o = Rsock(c)
      PROVE  /\ Range(Posted(o)) \subseteq Coroutine
             /\ \A co \in Range(Posted(o)) : Uses(co, o)
             /\ o # Listening
             /\ \A d \in Conn : o = Rsock(d) => d = c
    BY <1>3, <1>6, CoroutineFacts DEF Uses, Rsock, Listening
<1>. QED
    <2>1. CASE \E c \in Conn : o = Rsock(c)
        BY <1>3, <1>6, <2>1
    <2>. QED
        BY <1>2, <1>4, <1>5, <2>1

LEMMA TriggerLoopInv ==
    ASSUME Inv, LoopInv, trigger PROVE LoopInv'
<1>1. PICK n \in events : /\ events' = events \ {n}
                         /\ queue_' = queue_ \o Posted(handle_map[n])
    BY DEF trigger
<1>2. UNCHANGED <<current, kernel, waited_, stage, pipe>> /\ current = Main
    BY DEF trigger
<1>. DEFINE o == handle_map[n]
<1>3. /\ n \in Fd /\ o \in Event \cup {NULL} /\ queue_ \in Seq(Coroutine)
      /\ o # NULL => file[n] = o
      /\ \A m \in events : m \in Fd
      /\ \A m \in Fd : handle_map[m] # NULL => file[m] = handle_map[m]
      /\ \A m \in Fd : file[m] \in Event => handle_map[m] = file[m]
    BY DEF Inv, TypeOK, SocketsTypeOK, NumbersInv, EventReachesOwner
<1>4. /\ IsInjective(Posted(o)) /\ Range(Posted(o)) \subseteq Coroutine
      /\ \A co \in Range(Posted(o)) : Uses(co, o)
      /\ o = Listening /\ CAN_READ \in waited_[o] => Server \in Range(Posted(o))
      /\ \A c \in Conn : o = Rsock(c) =>
            /\ Handler(c) \in Range(Posted(o)) <=> CAN_WRITE \in waited_[o]
            /\ Piping(c) \in Range(Posted(o)) <=> CAN_READ \in waited_[o]
    BY <1>3, PostedUsers
<1>5. Posted(o) \in Seq(Coroutine)
    BY <1>3, PostedFacts
<1>. HIDE DEF o
<1>6. Range(Posted(o)) \cap Range(queue_) = {} /\ Main \notin Range(Posted(o))
    <2>1. \A co \in Range(queue_) : ~Uses(co, o)
        BY DEF o, LoopInv, BatchInv
    <2>2. ~Uses(Main, o)
        BY CoroutineFacts DEF Uses
    <2>. QED
        BY <1>4, <2>1, <2>2
<1>7. /\ Range(queue_') = Range(queue_) \cup Range(Posted(o))
      /\ Ready' = Ready \cup Range(Posted(o)) /\ Distinct'
    <2>1. queue_' = queue_ \o Posted(o) /\ IsInjective(queue_) /\ current \notin Range(queue_)
        BY <1>1 DEF o, LoopInv, Distinct
    <2>2. /\ Range(queue_ \o Posted(o)) = Range(queue_) \cup Range(Posted(o))
          /\ IsInjective(queue_ \o Posted(o))
        BY <1>3, <1>4, <1>5, <1>6, <2>1, ConcatFacts
    <2>. QED
        BY <1>2, <1>6, <2>1, <2>2 DEF Ready, Distinct
<1>8. SingleNumber' /\ BacklogInv'
    BY <1>2 DEF LoopInv, SingleNumber, BacklogInv, kernel, numbers, streams
<1>9. BatchInv'
    <2>1. ASSUME NEW m \in events, m # n, NEW co \in Range(Posted(o)) PROVE ~Uses(co, handle_map[m])
        <3>1. SUFFICES ASSUME Uses(co, handle_map[m]) PROVE FALSE
            OBVIOUS
        <3>2. Uses(co, o)
            BY <1>4
        <3>3. o = handle_map[m] /\ o \in Socket /\ o # NULL
            <4>1. \A c, d \in Conn : Handler(c) # Piping(d) /\ (Handler(c) = Handler(d) => c = d)
                    /\ (Piping(c) = Piping(d) => c = d) /\ Handler(c) # Server /\ Piping(c) # Server
                BY CoroutineFacts
            <4>. QED
                BY <3>1, <3>2, <4>1, Names DEF Uses
        <3>4. file[m] = o /\ file[n] = o
            BY <1>3, <3>3 DEF o
        <3>5. m = handle_[o] /\ n = handle_[o]
            BY <1>3, <3>3, <3>4 DEF LoopInv, SingleNumber
        <3>. QED
            BY <2>1, <3>5
    <2>2. \A m \in events, co \in Range(queue_) : ~Uses(co, handle_map[m])
        BY DEF LoopInv, BatchInv
    <2>3. handle_map' = handle_map
        BY <1>2 DEF kernel, numbers
    <2>. QED
        BY <1>1, <1>2, <1>7, <2>1, <2>2, <2>3 DEF BatchInv
<1>10. ServerInv'
    <2>1. ASSUME Server \notin Ready', backlog # << >>
          PROVE  handle_[Listening] \in rdllist \cup events'
        <3>1. /\ handle_[Listening] \in rdllist \cup events /\ CAN_READ \in waited_[Listening]
              /\ file[handle_[Listening]] = Listening
            BY <1>7, <2>1, Names DEF LoopInv, ServerInv, Inv, NumbersInv, OneOwner
        <3>2. handle_[Listening] # n
            <4>1. SUFFICES ASSUME handle_[Listening] = n PROVE FALSE
                OBVIOUS
            <4>2. o = Listening
                BY <1>3, <3>1, <4>1, Names DEF o
            <4>. QED
                BY <1>4, <1>7, <2>1, <3>1, <4>2
        <3>. QED
            BY <1>1, <3>1, <3>2
    <2>. QED
        BY <1>2, <1>7, <2>1 DEF LoopInv, ServerInv, kernel, numbers
<1>11. ASSUME NEW c \in Conn PROVE ConnInv(c)'
    <2>1. ConnInv(c)
        BY DEF LoopInv
    <2>2. NumberInv(c)'
        BY <1>2, <2>1 DEF ConnInv, NumberInv, kernel, numbers, streams
    <2>3. /\ Handler(c) \in Range(Posted(o)) => o = Rsock(c) /\ CAN_WRITE \in waited_[Rsock(c)]
          /\ Piping(c) \in Range(Posted(o)) => o = Rsock(c) /\ CAN_READ \in waited_[Rsock(c)]
        <3>1. Uses(Handler(c), o) \/ Uses(Piping(c), o) => o = Rsock(c)
            BY CoroutineFacts DEF Uses
        <3>. QED
            BY <1>4, <3>1
    <2>4. ASSUME handle_[Rsock(c)] = n
          PROVE  /\ CAN_WRITE \in waited_[Rsock(c)] => Handler(c) \in Range(Posted(o))
                 /\ CAN_READ \in waited_[Rsock(c)] => Piping(c) \in Range(Posted(o))
        <3>1. n # -1
            BY <1>3, BoundsAssumption DEF Fd
        <3>2. file[n] = Rsock(c)
            BY <2>4, <3>1, Names DEF Inv, NumbersInv, OneOwner
        <3>3. o = Rsock(c)
            BY <1>3, <3>2, Names DEF o
        <3>. QED
            BY <1>4, <3>3
    <2>5. HandlerInv(c)'
        BY <1>1, <1>2, <1>7, <2>1, <2>3, <2>4
           DEF ConnInv, HandlerInv, CanWrite, kernel, numbers, streams
    <2>6. PipingInv(c)'
        BY <1>1, <1>2, <1>7, <2>1, <2>3, <2>4
           DEF ConnInv, PipingInv, CanRead, kernel, numbers, streams
    <2>. QED
        BY <2>2, <2>5, <2>6 DEF ConnInv
<1>. QED
    BY <1>7, <1>8, <1>9, <1>10, <1>11 DEF LoopInv

-----------------------------------------------------------------------------
(* The coroutines' steps.  While one of them runs no batch is under way.   *)
LEMMA RunsFacts ==
    ASSUME Inv, LoopInv
    PROVE  /\ current # Main => events = {}
           /\ current \in Ready
           /\ \A c \in Conn :
                /\ current = Handler(c) => current # Main /\ stage[c] \notin {"none", "returned"}
                /\ current = Piping(c) => current # Main /\ pipe[c] # "none"
BY CoroutineFacts DEF LoopInv, BatchInv, ConnInv, HandlerInv, PipingInv, Ready

(* A step of the coroutines of c that goes on and leaves the numbers alone.*)
LEMMA GoesLoopInv ==
    ASSUME Inv, LoopInv, NEW c \in Conn, current # Main,
           Goes, UNCHANGED <<numbers, rdllist, backlog>>,
           \A d \in Conn \ {c} :
                /\ stage'[d] = stage[d] /\ pipe'[d] = pipe[d] /\ remote'[d] = remote[d]
                /\ rinq'[d] = rinq[d] /\ routq'[d] = routq[d]
                /\ waited_'[Rsock(d)] = waited_[Rsock(d)],
           \A d \in Conn : /\ stage'[d] = "none" <=> stage[d] = "none"
                           /\ client'[d] = "absent" <=> client[d] = "absent",
           waited_'[Listening] = waited_[Listening],
           NumberInv(c)', HandlerInv(c)', PipingInv(c)'
    PROVE  LoopInv'
<1>1. Ready' = Ready /\ Distinct' /\ events' = {}
    BY RunsFacts DEF Goes, Ready, LoopInv, Distinct
<1>2. SingleNumber' /\ BatchInv' /\ ServerInv'
    BY <1>1 DEF LoopInv, SingleNumber, BatchInv, ServerInv, Goes, numbers
<1>3. BacklogInv'
    <2>1. backlog \in Seq(Conn) /\ Range(backlog) \subseteq Conn
        BY DEF Inv, TypeOK, SocketsTypeOK, Range
    <2>. QED
        BY <2>1 DEF LoopInv, BacklogInv
<1>4. ASSUME NEW d \in Conn, d # c PROVE ConnInv(d)'
    BY <1>1, <1>4, OthersInv DEF LoopInv, Goes, numbers
<1>. QED
    BY <1>1, <1>2, <1>3, <1>4 DEF LoopInv, ConnInv

LEMMA WaitsFacts ==
    ASSUME Inv, LoopInv, current # Main, NEW o \in Socket, NEW flag, Waits(o, flag)
    PROVE  /\ UNCHANGED <<kernel, events, stage, pipe>>
           /\ waited_'[o] = waited_[o] \cup {flag}
           /\ \A p \in Socket : p # o => waited_'[p] = waited_[p]
           /\ Ready' = Ready \ {current}
           /\ SingleNumber' /\ Distinct' /\ BatchInv' /\ BacklogInv'
<1>1. UNCHANGED <<kernel, events, stage, pipe>> /\ events = {}
    BY RunsFacts DEF Waits
<1>2. Ready' = Ready \ {current} /\ Distinct'
    BY SwitchFacts DEF Waits, Inv, TypeOK, LoopInv
<1>3. /\ waited_'[o] = waited_[o] \cup {flag}
      /\ \A p \in Socket : p # o => waited_'[p] = waited_[p]
    BY DEF Waits, Inv, TypeOK
<1>4. SingleNumber' /\ BatchInv' /\ BacklogInv'
    BY <1>1 DEF LoopInv, SingleNumber, BatchInv, BacklogInv, kernel, numbers, streams
<1>. QED
    BY <1>1, <1>2, <1>3, <1>4

(* A call of a coroutine of c waits: it cannot go on.                      *)
LEMMA WaitsLoopInv ==
    ASSUME Inv, LoopInv, NEW c \in Conn,
           \/ /\ current = Handler(c) /\ stage[c] = "write" /\ ~CanWrite(c)
              /\ Waits(Rsock(c), CAN_WRITE)
           \/ /\ current = Piping(c) /\ pipe[c] = "read" /\ ~CanRead(c)
              /\ Waits(Rsock(c), CAN_READ)
    PROVE  LoopInv'
<1>1. PICK flag \in {CAN_READ, CAN_WRITE} :
        /\ Waits(Rsock(c), flag)
        /\ \/ current = Handler(c) /\ stage[c] = "write" /\ ~CanWrite(c) /\ flag = CAN_WRITE
           \/ current = Piping(c) /\ pipe[c] = "read" /\ ~CanRead(c) /\ flag = CAN_READ
    OBVIOUS
<1>2. current # Main /\ current # Server /\ Rsock(c) \in Socket /\ Rsock(c) # Listening
    BY RunsFacts, CoroutineFacts, Names DEF Rsock, Listening
<1>3. /\ UNCHANGED <<kernel, events, stage, pipe>>
      /\ waited_'[Rsock(c)] = waited_[Rsock(c)] \cup {flag}
      /\ \A p \in Socket : p # Rsock(c) => waited_'[p] = waited_[p]
      /\ Ready' = Ready \ {current}
      /\ SingleNumber' /\ Distinct' /\ BatchInv' /\ BacklogInv'
    BY <1>1, <1>2, WaitsFacts
<1>4. ServerInv'
    BY <1>2, <1>3, Names DEF LoopInv, ServerInv, kernel, numbers
<1>5. ASSUME NEW d \in Conn, d # c PROVE ConnInv(d)'
    <2>1. Rsock(d) \in Socket /\ Rsock(d) # Rsock(c) /\ Handler(d) # current /\ Piping(d) # current
        BY <1>1, <1>5, Names, CoroutineFacts DEF Rsock
    <2>. QED
        BY <1>3, <2>1, OthersInv DEF LoopInv, kernel, numbers, streams
<1>6. ConnInv(c)'
    <2>1. ConnInv(c) /\ Handler(c) # Piping(c) /\ CAN_READ # CAN_WRITE
        BY CoroutineFacts DEF LoopInv, CAN_READ, CAN_WRITE
    <2>2. NumberInv(c)'
        BY <1>3, <2>1 DEF ConnInv, NumberInv, kernel, numbers, streams
    <2>3. HandlerInv(c)'
        BY <1>1, <1>3, <2>1 DEF ConnInv, HandlerInv, CanWrite, kernel, numbers, streams
    <2>4. PipingInv(c)'
        BY <1>1, <1>3, <2>1 DEF ConnInv, PipingInv, CanRead, kernel, numbers, streams
    <2>. QED
        BY <2>2, <2>3, <2>4 DEF ConnInv
<1>. QED
    BY <1>3, <1>4, <1>5, <1>6 DEF LoopInv

(* accept uses two numbers nobody had.                                     *)
LEMMA AcceptedKeeps ==
    ASSUME Inv, SingleNumber, NEW c \in Conn, handle_[Sock(c)] = -1, accepted(c)
    PROVE  /\ SingleNumber' /\ rdllist \subseteq rdllist'
           /\ \A o \in Socket : o # Sock(c) => handle_'[o] = handle_[o]
<1>1. PICK fd \in Fd, other \in Fd :
        /\ file' = [file EXCEPT ![fd] = Sock(c), ![other] = Temp(c)]
        /\ handle_' = [handle_ EXCEPT ![Sock(c)] = fd]
        /\ rdllist' = rdllist \cup {other}
    BY DEF accepted, Destroyed, Moved
<1>2. /\ file \in [Fd -> Socket \cup Event \cup {NULL}] /\ handle_ \in [Socket -> Fd \cup {-1}]
      /\ Sock(c) \in Socket /\ Temp(c) \notin Socket
    BY Names DEF Inv, TypeOK, SocketsTypeOK
<1>3. ASSUME NEW n \in Fd, file'[n] \in Socket PROVE handle_'[file'[n]] = n
    <2>1. CASE file'[n] = Sock(c) /\ n = fd
        BY <1>1, <1>2, <2>1
    <2>2. CASE ~(file'[n] = Sock(c) /\ n = fd)
        <3>1. file'[n] = file[n] /\ handle_[file[n]] = n
            BY <1>1, <1>2, <1>3, <2>2 DEF SingleNumber
        <3>2. n # -1
            BY BoundsAssumption DEF Fd
        <3>. QED
            BY <1>1, <1>2, <3>1, <3>2
    <2>. QED
        BY <2>1, <2>2
<1>. QED
    BY <1>1, <1>2, <1>3 DEF SingleNumber

LEMMA ServesLoopInv ==
    ASSUME Inv, LoopInv, NEW c \in Conn, current = Server, Serves(c) PROVE LoopInv'
<1>1. /\ backlog # << >> /\ c = Head(backlog) /\ backlog' = Tail(backlog) /\ accepted(c)
      /\ waited_' = [waited_ EXCEPT ![Listening] = @ \ {CAN_READ}]
      /\ queue_' = enqueue(queue_, Handler(c))
      /\ stage' = [stage EXCEPT ![c] = "greeting"]
      /\ UNCHANGED <<current, events, streams, pipe>>
    BY DEF Serves, Resumes
<1>2. /\ backlog \in Seq(Conn) /\ IsInjective(backlog)
      /\ Range(backlog) = Range(backlog') \cup {c}
      /\ IsInjective(backlog') /\ c \notin Range(backlog')
    <2>1. backlog \in Seq(Conn) /\ IsInjective(backlog)
        BY DEF Inv, TypeOK, SocketsTypeOK, LoopInv, BacklogInv
    <2>. QED
        BY <1>1, <2>1, DequeueFacts
<1>3. stage[c] = "none" /\ client[c] # "absent"
    BY <1>2 DEF LoopInv, BacklogInv
<1>4. ConnInv(c)
    BY DEF LoopInv
<1>5. Handler(c) \notin Ready /\ handle_[Sock(c)] = -1
    BY <1>3, <1>4 DEF ConnInv, HandlerInv, NumberInv
<1>6. Ready' = Ready \cup {Handler(c)} /\ Distinct'
    BY <1>1, <1>5, PostFacts, CoroutineFacts DEF Inv, TypeOK, LoopInv
<1>7. /\ SingleNumber' /\ rdllist \subseteq rdllist'
      /\ \A o \in Socket : o # Sock(c) => handle_'[o] = handle_[o]
    BY <1>1, <1>5, AcceptedKeeps DEF LoopInv
<1>8. /\ stage'[c] = "greeting" /\ \A d \in Conn : d # c => stage'[d] = stage[d]
      /\ \A o \in Socket : o # Listening => waited_'[o] = waited_[o]
    BY <1>1 DEF Inv, TypeOK
<1>9. BatchInv'
    BY <1>1, RunsFacts, CoroutineFacts DEF BatchInv
<1>10. BacklogInv'
    <2>1. client' = client
        BY <1>1 DEF streams
    <2>2. \A d \in Range(backlog') : d \in Conn /\ d # c
        BY <1>2 DEF Range
    <2>. QED
        BY <1>2, <1>3, <1>8, <2>1, <2>2 DEF LoopInv, BacklogInv
<1>11. ServerInv'
    <2>1. Server \in Ready' /\ Main \in Ready'
        BY <1>6, RunsFacts DEF LoopInv, ServerInv
    <2>2. handle_'[Listening] = handle_[Listening]
        BY <1>7, Names DEF Sock, Listening
    <2>. QED
        BY <2>1, <2>2 DEF LoopInv, ServerInv
<1>12. ASSUME NEW d \in Conn PROVE ConnInv(d)'
    <2>1. /\ Rsock(d) \in Socket /\ Rsock(d) # Sock(c) /\ Rsock(d) # Listening
          /\ d # c => Sock(d) # Sock(c) /\ Sock(d) \in Socket
          /\ Piping(d) # Handler(c) /\ (d # c => Handler(d) # Handler(c))
        BY Names, CoroutineFacts DEF Sock, Rsock, Listening
    <2>2. /\ handle_'[Rsock(d)] = handle_[Rsock(d)] /\ waited_'[Rsock(d)] = waited_[Rsock(d)]
          /\ Piping(d) \in Ready' <=> Piping(d) \in Ready
        BY <1>6, <1>7, <1>8, <2>1
    <2>3. CASE d # c
        BY <1>1, <1>6, <1>7, <1>8, <2>1, <2>2, <2>3, OthersInv DEF LoopInv, streams
    <2>4. CASE d = c
        <3>1. NumberInv(c)'
            BY <1>1, <1>3, <1>4, <1>8, <2>2, <2>4 DEF ConnInv, NumberInv, streams
        <3>2. HandlerInv(c)'
            BY <1>3, <1>4, <1>6, <1>8, <2>2, <2>4 DEF ConnInv, HandlerInv, CanWrite
        <3>3. PipingInv(c)'
            BY <1>1, <1>4, <1>7, <2>2, <2>4 DEF ConnInv, PipingInv, CanRead, streams
        <3>. QED
            BY <2>4, <3>1, <3>2, <3>3 DEF ConnInv
    <2>. QED
        BY <2>3, <2>4
<1>. QED
    BY <1>6, <1>7, <1>9, <1>10, <1>11, <1>12 DEF LoopInv

LEMMA AcceptLoopInv ==
    ASSUME Inv, LoopInv, accept PROVE LoopInv'
<1>1. current = Server /\ current # Main
    BY CoroutineFacts DEF accept, Runs
<1>2. CASE Ends("descriptors")
    BY <1>2, SameLoopInv DEF Ends
<1>3. CASE backlog = << >> /\ Waits(Listening, CAN_READ)
    <2>1. /\ UNCHANGED <<kernel, events, stage, pipe>>
          /\ waited_'[Listening] = waited_[Listening] \cup {CAN_READ}
          /\ \A p \in Socket : p # Listening => waited_'[p] = waited_[p]
          /\ Ready' = Ready \ {current}
          /\ SingleNumber' /\ Distinct' /\ BatchInv' /\ BacklogInv'
        BY <1>1, <1>3, WaitsFacts, Names
    <2>2. ServerInv'
        BY <1>1, <1>3, <2>1 DEF LoopInv, ServerInv, kernel, numbers
    <2>3. ASSUME NEW c \in Conn PROVE ConnInv(c)'
        <3>1. /\ Handler(c) # current /\ Piping(c) # current
              /\ Rsock(c) \in Socket /\ Rsock(c) # Listening
            BY <1>1, CoroutineFacts, Names DEF Rsock, Listening
        <3>. QED
            BY <2>1, <3>1, OthersInv DEF LoopInv, kernel, numbers, streams
    <2>. QED
        BY <2>1, <2>2, <2>3 DEF LoopInv
<1>. QED
    BY <1>1, <1>2, <1>3, ServesLoopInv DEF accept

-----------------------------------------------------------------------------
(* socks5_handler and piping.                                              *)
LEMMA UnitReceived ==
    ASSUME SocketsTypeOK, NEW c \in Conn, Receives(c) \/ Fails(c)
    PROVE  \A d \in Conn : client'[d] = "absent" <=> client[d] = "absent"
BY DEF Receives, Fails, SocketsTypeOK

LEMMA ReplySent ==
    ASSUME SocketsTypeOK, NEW c \in Conn, Replies(c, client)
    PROVE  \A d \in Conn : client'[d] = "absent" <=> client[d] = "absent"
BY DEF Replies, SocketsTypeOK

LEMMA GreetingLoopInv ==
    ASSUME Inv, LoopInv, NEW c \in Conn, greeting(c) PROVE LoopInv'
<1>1. current = Handler(c) /\ stage[c] = "greeting" /\ current # Main /\ ConnInv(c)
    BY RunsFacts DEF greeting, Runs, LoopInv
<1>2. CASE Ends("SIGPIPE")
    BY <1>2, SameLoopInv DEF Ends
<1>3. CASE /\ Replies(c, client) \/ Fails(c)
           /\ stage' = [stage EXCEPT ![c] = "request"] \/ UNCHANGED stage
           /\ Goes
           /\ UNCHANGED <<numbers, rdllist, backlog, remote, rinq, routq, waited_, pipe>>
    <2>1. \A d \in Conn : client'[d] = "absent" <=> client[d] = "absent"
        BY <1>3, ReplySent, UnitReceived DEF Inv, TypeOK
    <2>2. /\ stage'[c] \in {"greeting", "request"} /\ \A d \in Conn : d # c => stage'[d] = stage[d]
          /\ Ready' = Ready
        BY <1>1, <1>3 DEF Inv, TypeOK, Goes, Ready
    <2>3. NumberInv(c)' /\ HandlerInv(c)' /\ PipingInv(c)'
        <3>1. NumberInv(c)'
            BY <1>1, <1>3, <2>2 DEF ConnInv, NumberInv, numbers
        <3>2. HandlerInv(c)'
            BY <1>1, <1>3, <2>2 DEF ConnInv, HandlerInv, CanWrite, numbers, Ready
        <3>3. PipingInv(c)'
            BY <1>1, <1>3, <2>2 DEF ConnInv, PipingInv, CanRead, numbers, Goes
        <3>. QED
            BY <3>1, <3>2, <3>3
    <2>. QED
        BY <1>1, <1>3, <2>1, <2>2, <2>3, GoesLoopInv
<1>. QED
    BY <1>2, <1>3 DEF greeting, Pipe

LEMMA ReleasedKeeps ==
    ASSUME Inv, SingleNumber, NEW c \in Conn, released(Sock(c))
    PROVE  SingleNumber' /\ \A o \in Socket : o # Sock(c) => handle_'[o] = handle_[o]
<1>1. /\ file' = Destroyed(file, handle_[Sock(c)])
      /\ handle_' = [handle_ EXCEPT ![Sock(c)] = -1]
    BY DEF released
<1>2. /\ file \in [Fd -> Socket \cup Event \cup {NULL}] /\ handle_ \in [Socket -> Fd \cup {-1}]
      /\ Sock(c) \in Socket /\ NULL \notin Socket
    BY Names DEF Inv, TypeOK, SocketsTypeOK
<1>3. ASSUME NEW n \in Fd, file'[n] \in Socket PROVE handle_'[file'[n]] = n
    <2>1. file'[n] = file[n] /\ n # handle_[Sock(c)]
        <3>1. n # -1
            BY BoundsAssumption DEF Fd
        <3>. QED
            BY <1>1, <1>2, <1>3, <3>1 DEF Destroyed
    <2>2. handle_[file[n]] = n
        BY <1>3, <2>1 DEF SingleNumber
    <2>. QED
        BY <1>1, <1>2, <1>3, <2>1, <2>2
<1>. QED
    BY <1>1, <1>2, <1>3 DEF SingleNumber

LEMMA ReturnsLoopInv ==
    ASSUME Inv, LoopInv, NEW c \in Conn, current = Handler(c), stage[c] = "request",
           Receives(c) \/ Fails(c), returns(c)
    PROVE  LoopInv'
<1>1. /\ stage' = [stage EXCEPT ![c] = "returned"] /\ released(Sock(c))
      /\ UNCHANGED <<events, rdllist, backlog, remote, rinq, routq, waited_, pipe>>
      /\ \E next \in Coroutine : dequeue(queue_, next) /\ current' = next
    BY DEF returns, exits
<1>2. current # Main /\ current # Server /\ events = {} /\ ConnInv(c)
    BY RunsFacts, CoroutineFacts DEF LoopInv
<1>3. Ready' = Ready \ {current} /\ Distinct'
    BY <1>1, SwitchFacts DEF Inv, TypeOK, LoopInv
<1>4. SingleNumber' /\ \A o \in Socket : o # Sock(c) => handle_'[o] = handle_[o]
    BY <1>1, ReleasedKeeps DEF LoopInv
<1>5. stage'[c] = "returned" /\ \A d \in Conn : d # c => stage'[d] = stage[d]
    BY <1>1 DEF Inv, TypeOK
<1>6. BatchInv'
    BY <1>1, <1>2 DEF BatchInv
<1>7. BacklogInv'
    <2>1. \A d \in Conn : client'[d] = "absent" <=> client[d] = "absent"
        BY UnitReceived DEF Inv, TypeOK
    <2>2. \A d \in Range(backlog) : d \in Conn
        BY DEF Inv, TypeOK, SocketsTypeOK, Range
    <2>3. c \notin Range(backlog) /\ client[c] # "absent"
        BY DEF LoopInv, BacklogInv
    <2>. QED
        BY <1>1, <1>5, <2>1, <2>2, <2>3 DEF LoopInv, BacklogInv
<1>8. ServerInv'
    <2>1. handle_'[Listening] = handle_[Listening]
        BY <1>4, Names DEF Sock, Listening
    <2>. QED
        BY <1>1, <1>2, <1>3, <2>1 DEF LoopInv, ServerInv
<1>9. ASSUME NEW d \in Conn PROVE ConnInv(d)'
    <2>1. /\ Rsock(d) \in Socket /\ Rsock(d) # Sock(c)
          /\ d # c => Sock(d) # Sock(c) /\ Sock(d) \in Socket
          /\ Piping(d) # current /\ (d # c => Handler(d) # current)
        BY Names, CoroutineFacts DEF Sock, Rsock
    <2>2. /\ handle_'[Rsock(d)] = handle_[Rsock(d)]
          /\ Piping(d) \in Ready' <=> Piping(d) \in Ready
        BY <1>3, <1>4, <2>1
    <2>3. CASE d # c
        BY <1>1, <1>3, <1>4, <1>5, <2>1, <2>2, <2>3, OthersInv DEF LoopInv
    <2>4. CASE d = c
        <3>1. NumberInv(c)'
            BY <1>1, <1>2, <1>5, <2>2, <2>4 DEF ConnInv, NumberInv
        <3>2. HandlerInv(c)'
            BY <1>1, <1>2, <1>3, <1>5 DEF ConnInv, HandlerInv, CanWrite
        <3>3. PipingInv(c)'
            BY <1>1, <1>2, <2>2, <2>4 DEF ConnInv, PipingInv, CanRead
        <3>. QED
            BY <2>4, <3>1, <3>2, <3>3 DEF ConnInv
    <2>. QED
        BY <2>3, <2>4
<1>. QED
    BY <1>3, <1>4, <1>6, <1>7, <1>8, <1>9 DEF LoopInv

LEMMA ConnectKeeps ==
    ASSUME Inv, SingleNumber, NEW c \in Conn, handle_[Rsock(c)] = -1, connect(c)
    PROVE  /\ SingleNumber' /\ rdllist \subseteq rdllist' /\ handle_'[Rsock(c)] # -1
           /\ remote'[c] = "connecting" /\ \A d \in Conn : d # c => remote'[d] = remote[d]
           /\ \A o \in Socket : o # Rsock(c) => handle_'[o] = handle_[o]
<1>1. PICK fd \in Fd :
        /\ file' = [file EXCEPT ![fd] = Rsock(c)]
        /\ handle_' = [handle_ EXCEPT ![Rsock(c)] = fd]
        /\ rdllist' = rdllist \cup {fd}
        /\ remote' = [remote EXCEPT ![c] = "connecting"]
    BY DEF connect
<1>2. /\ file \in [Fd -> Socket \cup Event \cup {NULL}] /\ handle_ \in [Socket -> Fd \cup {-1}]
      /\ Rsock(c) \in Socket /\ \A n \in Fd : n # -1
    BY Names, BoundsAssumption DEF Inv, TypeOK, SocketsTypeOK, Fd
<1>3. ASSUME NEW n \in Fd, file'[n] \in Socket PROVE handle_'[file'[n]] = n
    <2>1. CASE n = fd
        BY <1>1, <1>2, <2>1
    <2>2. CASE n # fd
        <3>1. file'[n] = file[n] /\ handle_[file[n]] = n
            BY <1>1, <1>2, <1>3, <2>2 DEF SingleNumber
        <3>. QED
            BY <1>1, <1>2, <3>1
    <2>. QED
        BY <2>1, <2>2
<1>4. handle_'[Rsock(c)] # -1 /\ \A o \in Socket : o # Rsock(c) => handle_'[o] = handle_[o]
    BY <1>1, <1>2
<1>5. remote'[c] = "connecting" /\ \A d \in Conn : d # c => remote'[d] = remote[d]
    BY <1>1 DEF Inv, TypeOK, SocketsTypeOK
<1>. QED
    BY <1>1, <1>3, <1>4, <1>5 DEF SingleNumber

LEMMA ConnectsLoopInv ==
    ASSUME Inv, LoopInv, NEW c \in Conn, current = Handler(c), stage[c] = "request",
           connect(c), Replies(c, client), queue_' = enqueue(queue_, Piping(c)),
           stage' = [stage EXCEPT ![c] = "read"], pipe' = [pipe EXCEPT ![c] = "read"],
           UNCHANGED <<current, events, backlog, rinq, routq, waited_>>
    PROVE  LoopInv'
<1>1. current # Main /\ current # Server /\ events = {} /\ ConnInv(c) /\ current \in Ready
    BY RunsFacts, CoroutineFacts DEF LoopInv
<1>2. handle_[Rsock(c)] = -1 /\ pipe[c] = "none" /\ Piping(c) \notin Ready
    BY <1>1 DEF ConnInv, NumberInv, PipingInv
<1>3. Ready' = Ready \cup {Piping(c)} /\ Distinct'
    BY <1>2, PostFacts, CoroutineFacts DEF Inv, TypeOK, LoopInv
<1>4. /\ SingleNumber' /\ rdllist \subseteq rdllist' /\ handle_'[Rsock(c)] # -1
      /\ remote'[c] = "connecting" /\ \A d \in Conn : d # c => remote'[d] = remote[d]
      /\ \A o \in Socket : o # Rsock(c) => handle_'[o] = handle_[o]
    BY <1>2, ConnectKeeps DEF LoopInv
<1>5. /\ stage'[c] = "read" /\ pipe'[c] = "read"
      /\ \A d \in Conn : d # c => stage'[d] = stage[d] /\ pipe'[d] = pipe[d]
    BY DEF Inv, TypeOK
<1>6. ~(rinq[c] > 0)
    BY <1>1 DEF ConnInv, NumberInv
<1>7. BatchInv'
    BY <1>1 DEF BatchInv
<1>8. BacklogInv'
    <2>1. \A d \in Conn : client'[d] = "absent" <=> client[d] = "absent"
        BY ReplySent DEF Inv, TypeOK
    <2>2. \A d \in Range(backlog) : d \in Conn
        BY DEF Inv, TypeOK, SocketsTypeOK, Range
    <2>3. c \notin Range(backlog) /\ client[c] # "absent"
        BY DEF LoopInv, BacklogInv
    <2>. QED
        BY <1>5, <2>1, <2>2, <2>3 DEF LoopInv, BacklogInv
<1>9. ServerInv'
    <2>1. handle_'[Listening] = handle_[Listening]
        BY <1>4, Names DEF Rsock, Listening
    <2>2. Piping(c) # Server
        BY CoroutineFacts
    <2>. QED
        BY <1>1, <1>3, <1>4, <2>1, <2>2 DEF LoopInv, ServerInv
<1>10. ASSUME NEW d \in Conn, d # c PROVE ConnInv(d)'
    <2>1. /\ Rsock(d) \in Socket /\ Rsock(d) # Rsock(c) /\ Sock(d) \in Socket /\ Sock(d) # Rsock(c)
          /\ Piping(d) # Piping(c) /\ Handler(d) # Piping(c)
        BY <1>10, Names, CoroutineFacts DEF Sock, Rsock
    <2>. QED
        BY <1>3, <1>4, <1>5, <1>10, <2>1, OthersInv DEF LoopInv
<1>11. ConnInv(c)'
    <2>1. NumberInv(c)'
        BY <1>4, <1>5, <1>6 DEF NumberInv
    <2>2. HandlerInv(c)'
        <3>1. CAN_WRITE \notin waited_[Rsock(c)] /\ Handler(c) \in Ready'
            BY <1>1, <1>3 DEF ConnInv, HandlerInv
        <3>. QED
            BY <1>5, <3>1 DEF HandlerInv
    <2>3. PipingInv(c)'
        BY <1>3, <1>5 DEF PipingInv
    <2>. QED
        BY <2>1, <2>2, <2>3 DEF ConnInv
<1>. QED
    BY <1>3, <1>4, <1>7, <1>8, <1>9, <1>10, <1>11 DEF LoopInv

LEMMA RequestLoopInv ==
    ASSUME Inv, LoopInv, NEW c \in Conn, request(c) PROVE LoopInv'
<1>1. current = Handler(c) /\ stage[c] = "request" /\ current # Main /\ ConnInv(c)
    BY RunsFacts DEF request, Runs, LoopInv
<1>2. CASE (Receives(c) \/ Fails(c)) /\ returns(c)
    BY <1>1, <1>2, ReturnsLoopInv
<1>3. CASE /\ Fails(c) /\ Goes
           /\ UNCHANGED <<numbers, rdllist, backlog, remote, rinq, routq, waited_, stage, pipe>>
    <2>1. \A d \in Conn : client'[d] = "absent" <=> client[d] = "absent"
        BY <1>3, UnitReceived DEF Inv, TypeOK
    <2>2. Ready' = Ready
        BY <1>3 DEF Goes, Ready
    <2>3. ConnInv(c)'
        BY <1>1, <1>3, <2>2, OthersInv DEF Goes, numbers
    <2>. QED
        BY <1>1, <1>3, <2>1, <2>3, GoesLoopInv DEF ConnInv
<1>4. CASE \E why \in {"null", "descriptors", "SIGPIPE"} : Ends(why)
    BY <1>4, SameLoopInv DEF Ends
<1>5. CASE /\ connect(c) /\ Replies(c, client) /\ queue_' = enqueue(queue_, Piping(c))
           /\ stage' = [stage EXCEPT ![c] = "read"] /\ pipe' = [pipe EXCEPT ![c] = "read"]
           /\ UNCHANGED <<current, events, backlog, rinq, routq, waited_>>
    BY <1>1, <1>5, ConnectsLoopInv
<1>. QED
    BY <1>2, <1>3, <1>4, <1>5 DEF request, Pipe

LEMMA ReadLocalLoopInv ==
    ASSUME Inv, LoopInv, NEW c \in Conn, read_local(c) PROVE LoopInv'
<1>1. /\ current = Handler(c) /\ stage[c] = "read" /\ Goes /\ (Receives(c) \/ Fails(c))
      /\ stage' = [stage EXCEPT ![c] = "write"] \/ UNCHANGED stage
      /\ UNCHANGED <<numbers, rdllist, backlog, remote, rinq, routq, waited_, pipe>>
    BY DEF read_local, Runs
<1>2. current # Main /\ ConnInv(c) /\ current \in Ready
    BY <1>1, RunsFacts DEF LoopInv
<1>3. /\ \A d \in Conn : client'[d] = "absent" <=> client[d] = "absent"
      /\ stage'[c] \in {"read", "write"} /\ \A d \in Conn : d # c => stage'[d] = stage[d]
      /\ Ready' = Ready
    BY <1>1, UnitReceived DEF Inv, TypeOK, Goes, Ready
<1>4. NumberInv(c)'
    BY <1>1, <1>2, <1>3 DEF ConnInv, NumberInv, numbers
<1>5. HandlerInv(c)'
    BY <1>1, <1>2, <1>3 DEF ConnInv, HandlerInv
<1>6. PipingInv(c)'
    BY <1>1, <1>2, <1>3 DEF ConnInv, PipingInv, CanRead, numbers, Goes
<1>. QED
    BY <1>1, <1>2, <1>3, <1>4, <1>5, <1>6, GoesLoopInv

LEMMA WriteRemoteLoopInv ==
    ASSUME Inv, LoopInv, NEW c \in Conn, write_remote(c) PROVE LoopInv'
<1>1. /\ current = Handler(c) /\ stage[c] = "write" /\ current # Main /\ current \in Ready
      /\ ConnInv(c) /\ Rsock(c) \in Socket /\ Rsock(c) # Listening
    BY RunsFacts, Names DEF write_remote, Runs, LoopInv, Rsock, Listening
<1>2. CASE /\ remote[c] = "connecting" \/ (remote[c] = "up" /\ routq[c] = Cap)
           /\ Waits(Rsock(c), CAN_WRITE)
    <2>1. ~CanWrite(c)
        BY <1>2, BoundsAssumption DEF CanWrite
    <2>. QED
        BY <1>1, <1>2, <2>1, WaitsLoopInv
<1>3. CASE Ends("SIGPIPE")
    BY <1>3, SameLoopInv DEF Ends
<1>4. CASE /\ stage' = [stage EXCEPT ![c] = "read"] /\ Goes /\ Resumes(Rsock(c), CAN_WRITE)
           /\ UNCHANGED <<numbers, rdllist, backlog, client, remote, rinq, pipe>>
           /\ UNCHANGED routq \/ routq' = [routq EXCEPT ![c] = @ + 1]
    <2>1. /\ stage'[c] = "read" /\ \A d \in Conn : d # c => stage'[d] = stage[d]
          /\ waited_'[Rsock(c)] = waited_[Rsock(c)] \ {CAN_WRITE}
          /\ \A p \in Socket : p # Rsock(c) => waited_'[p] = waited_[p]
          /\ \A d \in Conn : d # c => routq'[d] = routq[d]
          /\ Ready' = Ready /\ CAN_READ # CAN_WRITE
        BY <1>1, <1>4 DEF Inv, TypeOK, SocketsTypeOK, Goes, Ready, Resumes, CAN_READ, CAN_WRITE
    <2>2. NumberInv(c)'
        BY <1>1, <1>4, <2>1 DEF ConnInv, NumberInv, numbers
    <2>3. HandlerInv(c)'
        BY <1>1, <2>1 DEF HandlerInv
    <2>4. PipingInv(c)'
        BY <1>1, <1>4, <2>1 DEF ConnInv, PipingInv, CanRead, numbers, Goes
    <2>5. \A d \in Conn : d # c => Rsock(d) # Rsock(c) /\ Rsock(d) \in Socket
        BY Names DEF Rsock
    <2>. QED
        BY <1>1, <1>4, <2>1, <2>2, <2>3, <2>4, <2>5, Names, GoesLoopInv
<1>. QED
    BY <1>2, <1>3, <1>4 DEF write_remote, kernel, streams

LEMMA ReadRemoteLoopInv ==
    ASSUME Inv, LoopInv, NEW c \in Conn, read_remote(c) PROVE LoopInv'
<1>1. /\ current = Piping(c) /\ pipe[c] = "read" /\ current # Main /\ current \in Ready
      /\ ConnInv(c) /\ Rsock(c) \in Socket /\ Rsock(c) # Listening
    BY RunsFacts, Names DEF read_remote, Runs, LoopInv, Rsock, Listening
<1>2. CASE rinq[c] = 0 /\ remote[c] # "down" /\ Waits(Rsock(c), CAN_READ)
    <2>1. ~CanRead(c)
        BY <1>2 DEF CanRead
    <2>. QED
        BY <1>1, <1>2, <2>1, WaitsLoopInv
<1>3. CASE /\ rinq[c] > 0 /\ rinq' = [rinq EXCEPT ![c] = @ - 1]
           /\ Resumes(Rsock(c), CAN_READ) /\ pipe' = [pipe EXCEPT ![c] = "write"] /\ Goes
           /\ UNCHANGED <<numbers, rdllist, backlog, client, remote, routq, stage>>
    <2>1. /\ pipe'[c] = "write" /\ \A d \in Conn : d # c => pipe'[d] = pipe[d]
          /\ waited_'[Rsock(c)] = waited_[Rsock(c)] \ {CAN_READ}
          /\ \A p \in Socket : p # Rsock(c) => waited_'[p] = waited_[p]
          /\ \A d \in Conn : d # c => rinq'[d] = rinq[d]
          /\ Ready' = Ready /\ CAN_READ # CAN_WRITE
        BY <1>1, <1>3 DEF Inv, TypeOK, SocketsTypeOK, Goes, Ready, Resumes, CAN_READ, CAN_WRITE
    <2>2. NumberInv(c)'
        BY <1>1, <1>3, <2>1 DEF ConnInv, NumberInv, numbers
    <2>3. HandlerInv(c)'
        BY <1>1, <1>3, <2>1 DEF ConnInv, HandlerInv, CanWrite, numbers, Goes
    <2>4. PipingInv(c)'
        BY <1>1, <2>1 DEF PipingInv
    <2>5. \A d \in Conn : d # c => Rsock(d) # Rsock(c) /\ Rsock(d) \in Socket
        BY Names DEF Rsock
    <2>. QED
        BY <1>1, <1>3, <2>1, <2>2, <2>3, <2>4, <2>5, Names, GoesLoopInv
<1>. QED
    BY <1>2, <1>3 DEF read_remote

LEMMA WriteLocalLoopInv ==
    ASSUME Inv, LoopInv, NEW c \in Conn, write_local(c) PROVE LoopInv'
<1>1. /\ current = Piping(c) /\ pipe[c] = "write" /\ current # Main /\ current \in Ready
      /\ ConnInv(c)
    BY RunsFacts DEF write_local, Runs, LoopInv
<1>2. CASE Ends("SIGPIPE")
    BY <1>2, SameLoopInv DEF Ends
<1>3. CASE /\ pipe' = [pipe EXCEPT ![c] = "read"] /\ Goes
           /\ UNCHANGED <<numbers, rdllist, backlog, remote, rinq, routq, waited_, stage>>
           /\ UNCHANGED client \/ Replies(c, client)
    <2>1. \A d \in Conn : client'[d] = "absent" <=> client[d] = "absent"
        BY <1>3, ReplySent DEF Inv, TypeOK
    <2>2. /\ pipe'[c] = "read" /\ \A d \in Conn : d # c => pipe'[d] = pipe[d]
          /\ Ready' = Ready
        BY <1>3 DEF Inv, TypeOK, Goes, Ready
    <2>3. NumberInv(c)'
        BY <1>1, <1>3, <2>2 DEF ConnInv, NumberInv, numbers
    <2>4. HandlerInv(c)'
        BY <1>1, <1>3, <2>2 DEF ConnInv, HandlerInv, CanWrite, numbers, Goes
    <2>5. PipingInv(c)'
        BY <1>1, <2>2 DEF PipingInv
    <2>. QED
        BY <1>1, <1>3, <2>1, <2>2, <2>3, <2>4, <2>5, GoesLoopInv
<1>. QED
    BY <1>2, <1>3 DEF write_local, Pipe

(* What a peer does that lets a suspended call go on comes with an edge of *)
(* the object the call was made on.                                        *)
LEMMA EdgeFacts ==
    ASSUME Inv, NEW o \in Socket, handle_[o] # -1, edge(o)
    PROVE  rdllist \subseteq rdllist' /\ handle_[o] \in rdllist'
<1>1. handle_[o] \in Fd /\ file[handle_[o]] = o
    BY DEF Inv, TypeOK, SocketsTypeOK, NumbersInv, OneOwner
<1>. QED
    BY <1>1 DEF edge

LEMMA ConnectsBacklog ==
    ASSUME Inv, LoopInv, NEW c \in Conn, client_connects(c), UNCHANGED stage
    PROVE  BacklogInv'
<1>1. /\ client[c] = "absent" /\ client' = [client EXCEPT ![c] = "open"]
      /\ backlog' = Append(backlog, c)
    BY DEF client_connects
<1>2. backlog \in Seq(Conn) /\ IsInjective(backlog) /\ c \notin Range(backlog) /\ stage[c] = "none"
    BY <1>1 DEF Inv, TypeOK, SocketsTypeOK, LoopInv, BacklogInv
<1>3. Range(backlog') = Range(backlog) \cup {c} /\ IsInjective(backlog')
    <2>1. /\ Range(enqueue(backlog, c)) = Range(backlog) \cup {c}
          /\ IsInjective(enqueue(backlog, c))
        BY <1>2, EnqueueFacts
    <2>. QED
        BY <1>1, <2>1 DEF enqueue
<1>4. client'[c] = "open" /\ \A d \in Conn : d # c => client'[d] = client[d]
    BY <1>1 DEF Inv, TypeOK, SocketsTypeOK
<1>. QED
    BY <1>2, <1>3, <1>4 DEF LoopInv, BacklogInv

LEMMA EnvironmentLoopInv ==
    ASSUME Inv, LoopInv, Environment PROVE LoopInv'
<1>1. UNCHANGED <<current, queue_, events, waited_, stage, pipe>>
    BY DEF Environment
<1>2. PICK c \in Conn :
        \/ client_connects(c) \/ client_sends(c) \/ client_takes(c) \/ client_leaves(c)
        \/ remote_changes(c) \/ remote_sends(c) \/ remote_takes(c)
    BY DEF Environment, Peers
<1>3. /\ UNCHANGED numbers /\ rdllist \subseteq rdllist' /\ Ready' = Ready
      /\ UNCHANGED <<handle_, handle_map, file>>
    BY <1>1, <1>2 DEF client_connects, client_sends, client_takes, client_leaves,
                      remote_changes, remote_sends, remote_takes, edge, Ready, numbers
<1>4. SingleNumber' /\ Distinct' /\ BatchInv'
    BY <1>1, <1>3 DEF LoopInv, SingleNumber, Distinct, BatchInv
<1>5. BacklogInv'
    <2>1. CASE client_connects(c)
        BY <1>1, <2>1, ConnectsBacklog
    <2>2. CASE backlog' = backlog /\ \A d \in Conn : client'[d] = "absent" <=> client[d] = "absent"
        <3>1. \A d \in Range(backlog) : d \in Conn
            BY DEF Inv, TypeOK, SocketsTypeOK, Range
        <3>. QED
            BY <1>1, <2>2, <3>1 DEF LoopInv, BacklogInv
    <2>3. CASE client_leaves(c)
        <3>1. \A d \in Conn : client'[d] = "absent" <=> client[d] = "absent"
            BY <2>3 DEF client_leaves, Inv, TypeOK, SocketsTypeOK
        <3>. QED
            BY <2>2, <2>3, <3>1 DEF client_leaves
    <2>. QED
        BY <1>2, <2>1, <2>2, <2>3 DEF client_sends, client_takes, remote_changes, remote_sends,
                                      remote_takes
<1>6. ServerInv'
    <2>1. CASE client_connects(c)
        <3>1. handle_[Listening] \in rdllist'
            BY <2>1, EdgeFacts, Names DEF client_connects, LoopInv, ServerInv
        <3>. QED
            BY <1>1, <1>3, <3>1 DEF LoopInv, ServerInv
    <2>2. CASE backlog' = backlog
        BY <1>1, <1>3, <2>2 DEF LoopInv, ServerInv
    <2>. QED
        BY <1>2, <2>1, <2>2 DEF client_sends, client_takes, client_leaves, remote_changes,
                                remote_sends, remote_takes
<1>7. ASSUME NEW d \in Conn PROVE ConnInv(d)'
    <2>1. CASE remote'[d] = remote[d] /\ rinq'[d] = rinq[d] /\ routq'[d] = routq[d]
        BY <1>1, <1>3, <2>1, OthersInv DEF LoopInv
    <2>2. CASE d = c /\ (remote_changes(c) \/ remote_sends(c) \/ remote_takes(c))
        <3>1. ConnInv(c)
            BY DEF LoopInv
        <3>2. remote[c] # "none"
            BY <2>2 DEF remote_changes, remote_sends, remote_takes
        <3>3. stage[c] \notin {"none", "greeting", "request"}
            BY <3>1, <3>2 DEF ConnInv, NumberInv
        <3>4. NumberInv(c)'
            BY <1>1, <1>3, <2>2, <3>1, <3>3
               DEF ConnInv, NumberInv, remote_changes, remote_sends, remote_takes,
                   Inv, TypeOK, SocketsTypeOK
        <3>5. ASSUME stage[c] = "write" \/ pipe[c] = "read", edge(Rsock(c))
              PROVE  handle_[Rsock(c)] \in rdllist'
            BY <3>1, <3>5, EdgeFacts, Names DEF ConnInv, NumberInv
        <3>6. ASSUME remote_takes(c), routq[c] # Cap PROVE CanWrite(c)' => CanWrite(c)
            <4>1. routq[c] < Cap
                BY <3>6, BoundsAssumption DEF Inv, TypeOK, SocketsTypeOK
            <4>. QED
                BY <1>1, <3>6, <4>1 DEF remote_takes, CanWrite
        <3>7. HandlerInv(c)'
            <4>1. CASE edge(Rsock(c))
                BY <1>1, <1>3, <3>1, <3>5, <4>1 DEF ConnInv, HandlerInv, CanWrite
            <4>2. CASE remote_takes(c) /\ routq[c] # Cap
                BY <1>1, <1>3, <3>1, <3>6, <4>2 DEF ConnInv, HandlerInv
            <4>. QED
                BY <2>2, <4>1, <4>2 DEF remote_changes, remote_sends, remote_takes
        <3>8. PipingInv(c)'
            <4>1. CASE edge(Rsock(c))
                BY <1>1, <1>3, <3>1, <3>5, <4>1 DEF ConnInv, PipingInv, CanRead
            <4>2. CASE remote_takes(c)
                BY <1>1, <1>3, <3>1, <4>2 DEF ConnInv, PipingInv, CanRead, remote_takes
            <4>. QED
                BY <2>2, <4>1, <4>2 DEF remote_changes, remote_sends
        <3>. QED
            BY <2>2, <3>4, <3>7, <3>8 DEF ConnInv
    <2>3. \/ remote'[d] = remote[d] /\ rinq'[d] = rinq[d] /\ routq'[d] = routq[d]
          \/ d = c /\ (remote_changes(c) \/ remote_sends(c) \/ remote_takes(c))
        BY <1>2 DEF client_connects, client_sends, client_takes, client_leaves,
                    remote_changes, remote_sends, remote_takes, Inv, TypeOK, SocketsTypeOK
    <2>. QED
        BY <2>1, <2>2, <2>3
<1>. QED
    BY <1>4, <1>5, <1>6, <1>7 DEF LoopInv

LEMMA NextLoopInv == Inv /\ LoopInv /\ [Next]_vars => LoopInv'
<1>. SUFFICES ASSUME Inv, LoopInv, [Next]_vars PROVE LoopInv'
    OBVIOUS
<1>1. ASSUME NEW c \in Conn,
             \/ greeting(c) \/ request(c) \/ read_local(c) \/ write_remote(c)
             \/ read_remote(c) \/ write_local(c)
      PROVE  LoopInv'
    BY <1>1, GreetingLoopInv, RequestLoopInv, ReadLocalLoopInv, WriteRemoteLoopInv,
       ReadRemoteLoopInv, WriteLocalLoopInv
<1>2. CASE epoll_wait \/ resched \/ trigger \/ accept \/ Environment
    BY <1>2, PollLoopInv, ReschedLoopInv, TriggerLoopInv, AcceptLoopInv, EnvironmentLoopInv
<1>3. CASE trigger_gone \/ UNCHANGED vars
    BY <1>3, SameLoopInv DEF trigger_gone, Ends, vars
<1>. QED
    BY <1>1, <1>2, <1>3 DEF Next, Process

LEMMA LoopInvariance == Spec => [](Inv /\ LoopInv)
<1>1. Init => Inv /\ LoopInv
    BY InitInv, InitLoopInv
<1>2. Inv /\ LoopInv /\ [Next]_vars => (Inv /\ LoopInv)'
    BY NextInv, NextLoopInv
<1>. QED
    BY <1>1, <1>2, PTL DEF Spec

(* An edge posts each coroutine that waits on its object once, and never   *)
(* one that is ready, has returned or does not exist: two that share the   *)
(* number of a remote host are told apart by what each waits for, and the  *)
(* loop asks for events only when everybody else is suspended.             *)
THEOREM EdgesPostOnce == Spec => []PostedOnce
<1>1. LoopInv => PostedOnce
    BY DEF LoopInv, Distinct, ConnInv, HandlerInv, PipingInv, Ready, PostedOnce
<1>. QED
    BY <1>1, LoopInvariance, PTL

(* A call that could go on while its coroutine is suspended has an event   *)
(* waiting in epoll or in the batch under way.                             *)
THEOREM EdgesAreNotLost == Spec => []NoLostWakeup
<1>1. LoopInv => NoLostWakeup
    BY DEF LoopInv, ConnInv, HandlerInv, PipingInv, ServerInv, Ready, NoLostWakeup, Suspended
<1>. QED
    BY <1>1, LoopInvariance, PTL

(* When the loop waits, every connection still served waits for its remote *)
(* host: a handler whose read has nothing to return never lets it.         *)
THEOREM HandlersNeverWaitInTheLoop == Spec => []LoopWaitsOnlyBehindUploads
<1>1. Inv /\ LoopInv => LoopWaitsOnlyBehindUploads
    <2>. SUFFICES ASSUME Inv, LoopInv, current = Main, num = 0, NEW c \in Conn
                  PROVE  stage[c] \in {"none", "write", "returned"}
        BY DEF LoopWaitsOnlyBehindUploads
    <2>1. queue_ \in Seq(Coroutine) /\ Len(queue_) = 0 /\ current # Handler(c)
        BY CoroutineFacts DEF num, Inv, TypeOK
    <2>2. Handler(c) \notin Ready
        BY <2>1 DEF Ready, Range
    <2>. QED
        BY <2>2 DEF Inv, TypeOK, LoopInv, ConnInv, HandlerInv
<1>. QED
    BY <1>1, LoopInvariance, PTL

(* The proxy never reaches the abort() of co_sched: the loop is ready      *)
(* whenever the server, a handler or a piping coroutine runs.              *)
THEOREM SomebodyIsReady == Spec => []MainReady
<1>1. LoopInv => MainReady
    BY DEF LoopInv, ServerInv, Ready, MainReady
<1>. QED
    BY <1>1, LoopInvariance, PTL

=============================================================================
