--------------------------- MODULE EventLoopProofs ---------------------------
(***************************************************************************)
(* Proofs about EventLoop, for any workers, descriptors and bounds.        *)
(***************************************************************************)
EXTENDS EventLoop, SchedulerProofs

(* A raised flag of a descriptor comes with a slot that names a coroutine  *)
(* inside the co_yield of that call.                                       *)
SlotsNameWaiters == \A fd \in Fd :
    /\ CAN_READ \in waited_[fd] =>
        co_read[fd] \in yielded /\ op[co_read[fd]].call = "read" /\ op[co_read[fd]].fd = fd
    /\ CAN_WRITE \in waited_[fd] =>
        co_write[fd] \in yielded /\ op[co_write[fd]].call = "write" /\ op[co_write[fd]].fd = fd
    /\ waited_mask_[fd] # {} =>
        /\ waited_mask_[fd] = {CAN_READ}
        /\ co_wait[fd] \in yielded /\ op[co_wait[fd]].call = "wait" /\ op[co_wait[fd]].fd = fd

(* While the loop handles a batch, Main runs, and who is ready was posted  *)
(* for a descriptor the loop is done with.                                 *)
BatchInOrder ==
    /\ IsInjective(events) /\ IsInjective(rdllist)
    /\ events # << >> =>
        /\ current = Main
        /\ \A c \in Range(queue_) : c \in yielded /\ op[c].fd \notin Range(events)

(* The inductive invariant behind PostedOnce, whoever uses a descriptor.   *)
BaseInv == TypeOK /\ PostedOnce /\ SlotsNameWaiters /\ BatchInOrder

-----------------------------------------------------------------------------
LEMMA CallTypes ==
    ASSUME NEW c \in Worker
    PROVE  /\ Abstract!Wait(c) \in Call /\ Abstract!Read(c) \in Call
           /\ Abstract!First(c) \in Call
           /\ \A fd \in Fd : Abstract!Write(fd) \in Call
<1>1. Source[c] \in Fd
    BY SourceAssumption
<1>2. \A fd \in Fd : Abstract!Count(fd) \in 1 .. Size /\ 0 \in 0 .. Size
    BY BoundsAssumption DEF Abstract!Count
<1>3. \A n \in 1 .. Size : n \in 0 .. Size
    BY BoundsAssumption
<1>4. Abstract!Wait(c) \in Call /\ Abstract!Read(c) \in Call
    BY <1>1, <1>2, <1>3 DEF Abstract!Wait, Abstract!Read, Call
<1>5. \A fd \in Fd : Abstract!Write(fd) \in Call
    BY <1>2, <1>3 DEF Abstract!Write, Call
<1>. QED
    BY <1>4, <1>5 DEF Abstract!First

(* What a worker does after a call, or after moving n units, is a call.    *)
LEMMA FollowingTypes ==
    ASSUME NEW c \in Worker, NEW o PROVE Abstract!Following(c, o) \subseteq Call
BY CallTypes, SinksAssumption DEF Abstract!Following

LEMMA AfterTypes ==
    ASSUME NEW c \in Worker, NEW o \in Call, NEW n \in Nat
    PROVE  Abstract!After(c, o, n) \subseteq Call
<1>1. CASE o.left > n
    <2>1. o.left - n \in 0 .. Size
        BY <1>1, BoundsAssumption DEF Call
    <2>. QED
        BY <1>1, <2>1 DEF Abstract!After, Call
<1>2. CASE ~(o.left > n)
    BY <1>2, FollowingTypes DEF Abstract!After
<1>. QED
    BY <1>1, <1>2

LEMMA LesserFacts ==
    ASSUME NEW m \in Nat, NEW n \in Nat
    PROVE  /\ Abstract!Lesser(m, n) \in Nat
           /\ Abstract!Lesser(m, n) <= m /\ Abstract!Lesser(m, n) <= n
BY DEF Abstract!Lesser

LEMMA WhenFacts ==
    ASSUME NEW S, NEW flag \in BOOLEAN, NEW co, flag => co \in S
    PROVE  /\ when(flag, co) \in Seq(S)
           /\ Range(when(flag, co)) = IF flag THEN {co} ELSE {}
           /\ IsInjective(when(flag, co))
BY DEF when, Range, IsInjective

(* trigger posts exactly the coroutines that wait for its descriptor, each *)
(* once.                                                                   *)
LEMMA PostedFacts ==
    ASSUME BaseInv, NEW fd \in Fd, NEW seen \in SUBSET Event
    PROVE  /\ Posted(fd, seen) \in Seq(Coroutine)
           /\ IsInjective(Posted(fd, seen))
           /\ \A c \in Range(Posted(fd, seen)) : c \in yielded /\ Named(c) /\ op[c].fd = fd
           /\ CAN_WRITE \in waited_[fd] \cap seen => co_write[fd] \in Range(Posted(fd, seen))
           /\ CAN_READ \in waited_[fd] \cap seen => co_read[fd] \in Range(Posted(fd, seen))
           /\ waited_mask_[fd] \cap seen # {} => co_wait[fd] \in Range(Posted(fd, seen))
<1>. DEFINE w == CAN_WRITE \in waited_[fd] \cap seen
            r == CAN_READ \in waited_[fd] \cap seen
            m == waited_mask_[fd] \cap seen # {}
            qw == when(w, co_write[fd])
            qr == when(r, co_read[fd])
            qm == when(m, co_wait[fd])
<1>1. /\ w => /\ co_write[fd] \in yielded /\ co_write[fd] \in Coroutine
              /\ op[co_write[fd]].call = "write" /\ op[co_write[fd]].fd = fd
      /\ r => /\ co_read[fd] \in yielded /\ co_read[fd] \in Coroutine
              /\ op[co_read[fd]].call = "read" /\ op[co_read[fd]].fd = fd
      /\ m => /\ co_wait[fd] \in yielded /\ co_wait[fd] \in Coroutine
              /\ op[co_wait[fd]].call = "wait" /\ op[co_wait[fd]].fd = fd
              /\ waited_mask_[fd] = {CAN_READ}
    BY DEF BaseInv, SlotsNameWaiters, TypeOK, Worker
<1>8. /\ w => Named(co_write[fd])
      /\ r => Named(co_read[fd])
      /\ m => Named(co_wait[fd])
    BY <1>1 DEF Named
<1>2. w \in BOOLEAN /\ r \in BOOLEAN /\ m \in BOOLEAN
    OBVIOUS
<1>. HIDE DEF w, r, m
<1>3. /\ qw \in Seq(Coroutine) /\ qr \in Seq(Coroutine) /\ qm \in Seq(Coroutine)
      /\ IsInjective(qw) /\ IsInjective(qr) /\ IsInjective(qm)
      /\ Range(qw) = IF w THEN {co_write[fd]} ELSE {}
      /\ Range(qr) = IF r THEN {co_read[fd]} ELSE {}
      /\ Range(qm) = IF m THEN {co_wait[fd]} ELSE {}
    BY <1>1, <1>2, WhenFacts
<1>. HIDE DEF qw, qr, qm
<1>4. Range(qw) \cap Range(qr) = {} /\ (Range(qw) \cup Range(qr)) \cap Range(qm) = {}
    BY <1>1, <1>3
<1>5. /\ qw \o qr \in Seq(Coroutine) /\ IsInjective(qw \o qr)
      /\ Range(qw \o qr) = Range(qw) \cup Range(qr)
    BY <1>3, <1>4, ConcatFacts
<1>6. /\ (qw \o qr) \o qm \in Seq(Coroutine) /\ IsInjective((qw \o qr) \o qm)
      /\ Range((qw \o qr) \o qm) = Range(qw) \cup Range(qr) \cup Range(qm)
    <2>. DEFINE qwr == qw \o qr
    <2>1. qwr \in Seq(Coroutine) /\ IsInjective(qwr) /\ Range(qwr) = Range(qw) \cup Range(qr)
        BY <1>5
    <2>. HIDE DEF qwr
    <2>2. /\ qwr \o qm \in Seq(Coroutine) /\ IsInjective(qwr \o qm)
          /\ Range(qwr \o qm) = Range(qw) \cup Range(qr) \cup Range(qm)
        BY <1>3, <1>4, <2>1, ConcatFacts
    <2>. QED
        BY <2>2 DEF qwr
<1>7. Posted(fd, seen) = (qw \o qr) \o qm
    BY DEF Posted, qw, qr, qm, w, r, m
<1>. QED
    BY <1>1, <1>3, <1>6, <1>7, <1>8 DEF w, r, m

-----------------------------------------------------------------------------
(* The base invariant holds initially and every action keeps it.           *)

LEMMA InitBase == Init => BaseInv
<1>. SUFFICES ASSUME Init PROVE BaseInv
    OBVIOUS
<1>1. queue_ \in Seq(Coroutine) /\ IsInjective(queue_) /\ Range(queue_) = Worker
    BY StartupAssumption DEF Init, Worker
<1>2. /\ inq \in [Fd -> 0 .. Cap] /\ room \in [Fd -> 0 .. Cap] /\ eof \in [Fd -> BOOLEAN]
      /\ op \in [Worker -> Call]
    <2>1. 0 \in 0 .. Cap /\ Cap \in 0 .. Cap
        BY BoundsAssumption
    <2>2. \A c \in Worker : Abstract!First(c) \in Call
        BY CallTypes
    <2>. QED
        BY <2>1, <2>2 DEF Init, Abstract!Init
<1>3. TypeOK
    BY <1>1, <1>2, MainAssumption, RegisteredAssumption DEF Init, TypeOK
<1>4. PostedOnce
    BY <1>1 DEF Init, PostedOnce, Worker
<1>5. SlotsNameWaiters
    BY DEF Init, SlotsNameWaiters
<1>6. BatchInOrder
    BY RegisteredAssumption DEF Init, BatchInOrder, IsInjective
<1>. QED
    BY <1>3, <1>4, <1>5, <1>6 DEF BaseInv

(* The kernel's list keeps its type and its entries stay distinct.         *)
LEMMA EdgeFacts ==
    ASSUME BaseInv, NEW fd \in Fd, edge(fd)
    PROVE  /\ rdllist' \in Seq(Fd) /\ IsInjective(rdllist')
           /\ Range(rdllist') = Range(rdllist) \cup {fd}
<1>1. rdllist \in Seq(Fd) /\ IsInjective(rdllist)
    BY DEF BaseInv, TypeOK, BatchInOrder
<1>2. CASE fd \in Range(rdllist)
    BY <1>1, <1>2 DEF edge
<1>3. CASE fd \notin Range(rdllist)
    BY <1>1, <1>3, EnqueueFacts DEF edge, enqueue
<1>. QED
    BY <1>2, <1>3

(* What the devices do leaves the process alone.                           *)
LEMMA DeviceBase ==
    ASSUME BaseInv, NEW fd \in Fd, arrive(fd) \/ drain(fd) \/ peer_close(fd)
    PROVE  BaseInv'
<1>1. UNCHANGED <<current, queue_, events, slots, op, yielded>>
    BY DEF arrive, drain, peer_close
<1>2. /\ rdllist' \in Seq(Fd) /\ IsInjective(rdllist')
    BY EdgeFacts DEF arrive, drain, peer_close, BaseInv, TypeOK, BatchInOrder
<1>3. /\ inq' \in [Fd -> 0 .. Cap] /\ room' \in [Fd -> 0 .. Cap] /\ eof' \in [Fd -> BOOLEAN]
    <2>1. /\ inq \in [Fd -> 0 .. Cap] /\ room \in [Fd -> 0 .. Cap]
          /\ eof \in [Fd -> BOOLEAN] /\ Cap \in Nat
        BY BoundsAssumption DEF BaseInv, TypeOK
    <2>2. CASE arrive(fd)
        <3>1. inq[fd] + 1 \in 0 .. Cap
            BY <2>1, <2>2 DEF arrive
        <3>. QED
            BY <2>1, <2>2, <3>1 DEF arrive
    <2>3. CASE drain(fd)
        <3>1. room[fd] + 1 \in 0 .. Cap
            BY <2>1, <2>3 DEF drain
        <3>. QED
            BY <2>1, <2>3, <3>1 DEF drain
    <2>4. CASE peer_close(fd)
        BY <2>1, <2>4 DEF peer_close
    <2>. QED
        BY <2>2, <2>3, <2>4
<1>4. TypeOK'
    BY <1>1, <1>2, <1>3 DEF BaseInv, TypeOK, slots
<1>5. PostedOnce' /\ SlotsNameWaiters' /\ BatchInOrder'
    BY <1>1, <1>2 DEF BaseInv, PostedOnce, SlotsNameWaiters, BatchInOrder, slots
<1>. QED
    BY <1>4, <1>5 DEF BaseInv

(* Taking one entry out of a queue keeps the other ones.                   *)
LEMMA RemoveFacts ==
    ASSUME NEW S, NEW q \in Seq(S), NEW i \in 1 .. Len(q)
    PROVE  /\ Without(q, i) \in Seq(S)
           /\ Range(q) \subseteq Range(Without(q, i)) \cup {q[i]}
           /\ IsInjective(q) => IsInjective(Without(q, i))
<1>. DEFINE r == Without(q, i)
            n == Len(q)  m == n - 1
            a == SubSeq(q, 1, i - 1)  b == SubSeq(q, i + 1, n)
<1>1. n \in Nat /\ m \in Nat /\ i \in Nat /\ 1 <= i /\ i <= n /\ m + 1 = n
    OBVIOUS
<1>2. /\ a \in Seq(S) /\ Len(a) = i - 1
      /\ \A j \in 1 .. (i - 1) : a[j] = q[j]
    OBVIOUS
<1>3. /\ b \in Seq(S) /\ Len(b) = n - i
      /\ \A j \in 1 .. (n - i) : b[j] = q[j + i]
    OBVIOUS
<1>4. r = a \o b
    BY DEF Without
<1>5. DOMAIN q = 1 .. n
    OBVIOUS
<1>. HIDE DEF r, n, m, a, b
<1>6. /\ r \in Seq(S) /\ DOMAIN r = 1 .. m
      /\ \A j \in 1 .. m : r[j] = IF j <= i - 1 THEN a[j] ELSE b[j - (i - 1)]
    <2>1. Len(a) + Len(b) = m
        BY <1>1, <1>2, <1>3
    <2>2. /\ a \o b \in Seq(S) /\ DOMAIN (a \o b) = 1 .. (Len(a) + Len(b))
          /\ \A j \in 1 .. (Len(a) + Len(b)) :
                (a \o b)[j] = IF j <= Len(a) THEN a[j] ELSE b[j - Len(a)]
        BY <1>2, <1>3, ConcatElements
    <2>. QED
        BY <1>2, <1>4, <2>1, <2>2
<1>7. r \in Seq(S) /\ DOMAIN r = 1 .. m
    BY <1>6
<1>8. ASSUME NEW j \in 1 .. m, j < i PROVE r[j] = q[j] /\ j \in 1 .. n
    <2>1. j <= i - 1 /\ j \in 1 .. (i - 1) /\ j \in 1 .. n
        BY <1>1, <1>8
    <2>. QED
        BY <1>2, <1>6, <2>1
<1>9. ASSUME NEW j \in 1 .. m, ~(j < i) PROVE r[j] = q[j + 1] /\ j + 1 \in 1 .. n
    <2>1. ~(j <= i - 1) /\ j + 1 \in 1 .. n
        BY <1>1, <1>9
    <2>2. j - (i - 1) \in 1 .. (n - i) /\ (j - (i - 1)) + i = j + 1
        BY <1>1, <1>9
    <2>3. r[j] = b[j - (i - 1)]
        BY <1>6, <2>1
    <2>4. b[j - (i - 1)] = q[(j - (i - 1)) + i]
        BY <1>3, <2>2
    <2>. QED
        BY <2>1, <2>2, <2>3, <2>4
<1>10. Range(q) \subseteq Range(r) \cup {q[i]}
    <2>1. SUFFICES ASSUME NEW k \in 1 .. n, k # i PROVE q[k] \in Range(r)
        BY <1>5 DEF Range
    <2>2. CASE k < i
        <3>1. k \in 1 .. m
            BY <1>1, <2>2
        <3>. QED
            BY <1>7, <1>8, <2>2, <3>1 DEF Range
    <2>3. CASE k > i
        <3>1. k - 1 \in 1 .. m /\ ~(k - 1 < i) /\ (k - 1) + 1 = k
            BY <1>1, <2>3
        <3>2. r[k - 1] = q[k]
            BY <1>9, <3>1
        <3>. QED
            BY <1>7, <3>1, <3>2 DEF Range
    <2>. QED
        BY <1>1, <2>1, <2>2, <2>3
<1>11. ASSUME IsInjective(q), NEW j \in 1 .. m, NEW k \in 1 .. m, r[j] = r[k] PROVE j = k
    <2>1. \A x \in 1 .. n, y \in 1 .. n : q[x] = q[y] => x = y
        BY <1>5, <1>11 DEF IsInjective
    <2>2. \A l \in 1 .. m : l < i => r[l] = q[l] /\ l \in 1 .. n
        BY <1>8
    <2>3. \A l \in 1 .. m : ~(l < i) => r[l] = q[l + 1] /\ l + 1 \in 1 .. n
        BY <1>9
    <2>4. CASE j < i /\ k < i
        BY <1>11, <2>1, <2>2, <2>4
    <2>5. CASE ~(j < i) /\ ~(k < i)
        <3>1. j + 1 = k + 1
            BY <1>11, <2>1, <2>3, <2>5
        <3>. QED
            BY <3>1
    <2>6. CASE j < i /\ ~(k < i)
        <3>1. j = k + 1
            <4>1. /\ j \in 1 .. n /\ r[j] = q[j]
                  /\ k + 1 \in 1 .. n /\ r[k] = q[k + 1]
                BY <2>2, <2>3, <2>6
            <4>. QED
                BY <1>11, <2>1, <4>1
        <3>. QED
            BY <1>1, <2>6, <3>1
    <2>7. CASE ~(j < i) /\ k < i
        <3>1. j + 1 = k
            <4>1. /\ j + 1 \in 1 .. n /\ r[j] = q[j + 1]
                  /\ k \in 1 .. n /\ r[k] = q[k]
                BY <2>2, <2>3, <2>7
            <4>. QED
                BY <1>11, <2>1, <4>1
        <3>. QED
            BY <1>1, <2>7, <3>1
    <2>. QED
        BY <2>4, <2>5, <2>6, <2>7
<1>. QED
    BY <1>7, <1>10, <1>11 DEF IsInjective, r

(* The kernel drops one entry of its list, whose level has gone.           *)
LEMMA DropFacts ==
    ASSUME BaseInv, epoll_drop
    PROVE  /\ rdllist' \in Seq(Fd) /\ IsInjective(rdllist')
           /\ \E fd \in Fd : ~Level(fd) /\ Range(rdllist) \subseteq Range(rdllist') \cup {fd}
<1>1. rdllist \in Seq(Fd) /\ IsInjective(rdllist) /\ Len(rdllist) \in Nat
    BY DEF BaseInv, TypeOK, BatchInOrder
<1>2. Scanned \subseteq 1 .. Len(rdllist)
    <2>1. /\ Abstract!Lesser(Len(rdllist), MAX_EVENTS) \in Nat
          /\ Abstract!Lesser(Len(rdllist), MAX_EVENTS) <= Len(rdllist)
        BY <1>1, BoundsAssumption, LesserFacts
    <2>. QED
        BY <1>1, <2>1 DEF Scanned
<1>3. PICK i \in 1 .. Len(rdllist) :
        ~Level(rdllist[i]) /\ rdllist' = Without(rdllist, i)
    BY <1>2 DEF epoll_drop
<1>4. rdllist[i] \in Fd
    BY <1>1, <1>3
<1>. QED
    BY <1>1, <1>3, <1>4, RemoveFacts

LEMMA DropBase == ASSUME BaseInv, epoll_drop PROVE BaseInv'
<1>1. UNCHANGED <<current, queue_, events, inq, room, eof, slots, op, yielded>>
    BY DEF epoll_drop
<1>2. rdllist' \in Seq(Fd) /\ IsInjective(rdllist')
    BY DropFacts
<1>3. TypeOK'
    BY <1>1, <1>2 DEF BaseInv, TypeOK, slots
<1>4. PostedOnce' /\ SlotsNameWaiters' /\ BatchInOrder'
    BY <1>1, <1>2 DEF BaseInv, PostedOnce, SlotsNameWaiters, BatchInOrder, slots
<1>. QED
    BY <1>3, <1>4 DEF BaseInv

(* epoll_wait is only called when nobody is ready.                         *)
LEMMA EpollWaitBase == ASSUME BaseInv, epoll_wait PROVE BaseInv'
<1>1. PICK n \in 1 .. Len(rdllist) :
        /\ events' = SubSeq(rdllist, 1, n)
        /\ rdllist' = SubSeq(rdllist, n + 1, Len(rdllist))
    BY DEF epoll_wait
<1>2. /\ current = Main /\ Len(queue_) = 0
      /\ UNCHANGED <<current, queue_, inq, room, eof, slots, op, yielded>>
    BY DEF epoll_wait, num
<1>3. /\ events' \in Seq(Fd) /\ rdllist' \in Seq(Fd)
      /\ IsInjective(events') /\ IsInjective(rdllist')
    BY <1>1, SplitFacts DEF BaseInv, TypeOK, BatchInOrder
<1>4. Range(queue_) = {}
    <2>1. queue_ \in Seq(Coroutine)
        BY DEF BaseInv, TypeOK
    <2>2. DOMAIN queue_ = {}
        BY <1>2, <2>1
    <2>. QED
        BY <2>2 DEF Range
<1>5. TypeOK'
    BY <1>2, <1>3 DEF BaseInv, TypeOK, slots
<1>6. PostedOnce' /\ SlotsNameWaiters'
    BY <1>2 DEF BaseInv, PostedOnce, SlotsNameWaiters, slots
<1>7. BatchInOrder'
    BY <1>2, <1>3, <1>4 DEF BatchInOrder
<1>. QED
    BY <1>5, <1>6, <1>7 DEF BaseInv

LEMMA ReschedBase == ASSUME BaseInv, resched PROVE BaseInv'
<1>. DEFINE q == enqueue(queue_, Main)
<1>1. /\ q # << >> /\ current' = Head(q) /\ queue_' = Tail(q)
      /\ current = Main /\ events = << >>
      /\ UNCHANGED <<events, device, slots, op, yielded>>
    BY DEF resched, dequeue
<1>2. q \in Seq(Coroutine) /\ IsInjective(q) /\ Range(q) \subseteq Coroutine
    BY <1>1, EnqueueFacts, MainAssumption DEF BaseInv, TypeOK, PostedOnce
<1>. HIDE DEF q
<1>3. /\ current' \in Coroutine /\ queue_' \in Seq(Coroutine)
      /\ IsInjective(queue_') /\ current' \notin Range(queue_')
      /\ Range(queue_') \subseteq Coroutine
    BY <1>1, <1>2, DequeueFacts
<1>4. TypeOK'
    BY <1>1, <1>3 DEF BaseInv, TypeOK, device, slots
<1>5. PostedOnce' /\ SlotsNameWaiters' /\ BatchInOrder'
    BY <1>1, <1>3 DEF BaseInv, PostedOnce, SlotsNameWaiters, BatchInOrder, device, slots
<1>. QED
    BY <1>4, <1>5 DEF BaseInv

(* The handler posts coroutines that are suspended: they wait for a        *)
(* descriptor the batch has not handled before.                            *)
LEMMA TriggerBase == ASSUME BaseInv, trigger PROVE BaseInv'
<1>. DEFINE fd == Head(events)
            seen == event_[fd] \cup Reported(fd)
            posted == Posted(fd, seen)
<1>1. /\ current = Main /\ events # << >>
      /\ events' = Tail(events)
      /\ event_' = [event_ EXCEPT ![fd] = seen]
      /\ queue_' = queue_ \o posted
      /\ UNCHANGED <<current, device, waited_, waited_mask_, co_read, co_write,
                     co_wait, op, yielded>>
    BY DEF trigger
<1>2. /\ fd \in Fd /\ events' \in Seq(Fd) /\ IsInjective(events')
      /\ Range(events) = Range(events') \cup {fd} /\ fd \notin Range(events')
    BY <1>1, DequeueFacts DEF BaseInv, TypeOK, BatchInOrder
<1>3. seen \in SUBSET Event
    BY <1>2 DEF BaseInv, TypeOK, Reported, Event
<1>. HIDE DEF fd, seen
<1>4. /\ posted \in Seq(Coroutine) /\ IsInjective(posted)
      /\ \A c \in Range(posted) : c \in yielded /\ op[c].fd = fd
    BY <1>2, <1>3, PostedFacts
<1>. HIDE DEF posted
<1>5. Range(queue_) \cap Range(posted) = {} /\ Main \notin Range(posted)
    BY <1>1, <1>2, <1>4 DEF BaseInv, BatchInOrder, TypeOK, Worker
<1>6. /\ queue_' \in Seq(Coroutine) /\ IsInjective(queue_')
      /\ Range(queue_') = Range(queue_) \cup Range(posted)
    BY <1>1, <1>4, <1>5, ConcatFacts DEF BaseInv, TypeOK, PostedOnce
<1>7. TypeOK'
    BY <1>1, <1>2, <1>3, <1>6 DEF BaseInv, TypeOK, device
<1>8. PostedOnce'
    <2>1. Range(queue_') \subseteq Coroutine
        BY <1>4, <1>6 DEF BaseInv, PostedOnce, TypeOK, Worker
    <2>. QED
        BY <1>1, <1>5, <1>6, <2>1 DEF BaseInv, PostedOnce
<1>9. SlotsNameWaiters'
    BY <1>1 DEF BaseInv, SlotsNameWaiters
<1>10. BatchInOrder'
    BY <1>1, <1>2, <1>4, <1>6 DEF BaseInv, BatchInOrder, device
<1>. QED
    BY <1>7, <1>8, <1>9, <1>10 DEF BaseInv

(* A worker only runs between two batches.                                 *)
LEMMA WorkerRuns ==
    ASSUME BaseInv, NEW c \in Worker, current = c
    PROVE  /\ events = << >> /\ op[c] \in Call /\ op[c].fd \in Fd
           /\ op[c].left \in Nat
           /\ inq[op[c].fd] \in Nat /\ room[op[c].fd] \in Nat
<1>1. events = << >>
    BY DEF BaseInv, BatchInOrder, Worker
<1>2. op[c] \in Call /\ op[c].fd \in Fd /\ op[c].left \in Nat
    BY BoundsAssumption DEF BaseInv, TypeOK, Call
<1>3. inq[op[c].fd] \in 0 .. Cap /\ room[op[c].fd] \in 0 .. Cap
    BY <1>2 DEF BaseInv, TypeOK
<1>. QED
    BY <1>1, <1>2, <1>3

(* co_yield hands control to the head of the queue.                        *)
LEMMA YieldFacts ==
    ASSUME BaseInv, NEW c \in Worker, current = c, co_yield(c)
    PROVE  /\ yielded' = yielded \cup {c}
           /\ UNCHANGED <<events, rdllist, inq, room, eof, op>>
           /\ current' \in Coroutine /\ queue_' \in Seq(Coroutine)
           /\ Range(queue_) = Range(queue_') \cup {current'}
           /\ PostedOnce'
<1>1. /\ queue_ # << >> /\ current' = Head(queue_) /\ queue_' = Tail(queue_)
      /\ yielded' = yielded \cup {c}
      /\ UNCHANGED <<events, rdllist, inq, room, eof, op>>
    BY DEF co_yield, dequeue, device
<1>2. queue_ \in Seq(Coroutine) /\ IsInjective(queue_) /\ Range(queue_) \subseteq Coroutine
    BY DEF BaseInv, TypeOK, PostedOnce
<1>3. /\ current' \in Coroutine /\ queue_' \in Seq(Coroutine)
      /\ Range(queue_) = Range(queue_') \cup {current'}
      /\ IsInjective(queue_') /\ current' \notin Range(queue_')
    BY <1>1, <1>2, DequeueFacts
<1>. QED
    BY <1>1, <1>2, <1>3 DEF PostedOnce

LEMMA WaitBase ==
    ASSUME BaseInv, NEW c \in Worker, current = c, async_wait(c) PROVE BaseInv'
<1>. DEFINE fd == op[c].fd
<1>1. events = << >> /\ fd \in Fd /\ op[c].call = "wait" /\ c \notin yielded
    BY WorkerRuns DEF async_wait, Pending
<1>. HIDE DEF fd
<1>2. CASE /\ op' = [op EXCEPT ![c] = Abstract!Read(c)]
           /\ UNCHANGED <<current, queue_, events, device, slots, yielded>>
    <2>1. TypeOK'
        BY <1>2, CallTypes DEF BaseInv, TypeOK, device, slots
    <2>2. SlotsNameWaiters'
        BY <1>1, <1>2 DEF BaseInv, TypeOK, SlotsNameWaiters, slots
    <2>3. PostedOnce' /\ BatchInOrder'
        BY <1>1, <1>2 DEF BaseInv, PostedOnce, BatchInOrder, device
    <2>. QED
        BY <2>1, <2>2, <2>3 DEF BaseInv
<1>3. CASE /\ waited_mask_' = [waited_mask_ EXCEPT ![fd] = {CAN_READ}]
           /\ co_wait' = [co_wait EXCEPT ![fd] = c]
           /\ co_yield(c)
           /\ UNCHANGED <<event_, waited_, co_read, co_write>>
    <2>1. /\ yielded' = yielded \cup {c}
          /\ UNCHANGED <<events, rdllist, inq, room, eof, op>>
          /\ current' \in Coroutine /\ queue_' \in Seq(Coroutine)
          /\ PostedOnce'
        BY <1>3, YieldFacts
    <2>2. TypeOK'
        BY <1>1, <1>3, <2>1 DEF BaseInv, TypeOK, Event
    <2>3. SlotsNameWaiters'
        BY <1>1, <1>3, <2>1 DEF BaseInv, TypeOK, SlotsNameWaiters, fd
    <2>4. BatchInOrder'
        BY <1>1, <2>1 DEF BaseInv, BatchInOrder
    <2>. QED
        BY <2>1, <2>2, <2>3, <2>4 DEF BaseInv
<1>. QED
    BY <1>2, <1>3 DEF async_wait, fd

LEMMA ReadBase ==
    ASSUME BaseInv, NEW c \in Worker, current = c, async_read(c) PROVE BaseInv'
<1>. DEFINE fd == op[c].fd
            n == Abstract!Lesser(inq[fd], op[c].left)
<1>1. events = << >> /\ fd \in Fd /\ op[c].call = "read" /\ c \notin yielded
    BY WorkerRuns DEF async_read, Pending
<1>2. n \in Nat /\ inq[fd] \in 0 .. Cap /\ inq[fd] - n \in 0 .. Cap
    <2>1. inq[fd] \in Nat /\ op[c].left \in Nat
        BY WorkerRuns
    <2>2. inq[fd] \in 0 .. Cap
        BY <1>1 DEF BaseInv, TypeOK
    <2>3. n \in Nat /\ n <= inq[fd]
        BY <2>1, LesserFacts
    <2>. QED
        BY <2>2, <2>3, BoundsAssumption
<1>. HIDE DEF fd, n
<1>3. CASE /\ inq' = [inq EXCEPT ![fd] = inq[fd] - n]
           /\ Goes(c, n)
           /\ UNCHANGED <<current, queue_, events, rdllist, room, eof, slots, yielded>>
    <2>1. PICK next \in Call : op' = [op EXCEPT ![c] = next]
        BY <1>2, <1>3, AfterTypes DEF Goes, BaseInv, TypeOK
    <2>2. TypeOK'
        BY <1>1, <1>2, <1>3, <2>1 DEF BaseInv, TypeOK, slots
    <2>3. SlotsNameWaiters'
        BY <1>1, <1>3, <2>1 DEF BaseInv, TypeOK, SlotsNameWaiters, slots
    <2>4. PostedOnce' /\ BatchInOrder'
        BY <1>1, <1>3 DEF BaseInv, PostedOnce, BatchInOrder
    <2>. QED
        BY <2>2, <2>3, <2>4 DEF BaseInv
<1>4. CASE /\ waited_' = [waited_ EXCEPT ![fd] = waited_[fd] \cup {CAN_READ}]
           /\ co_read' = [co_read EXCEPT ![fd] = c]
           /\ co_yield(c)
           /\ UNCHANGED <<event_, waited_mask_, co_write, co_wait>>
    <2>1. /\ yielded' = yielded \cup {c}
          /\ UNCHANGED <<events, rdllist, inq, room, eof, op>>
          /\ current' \in Coroutine /\ queue_' \in Seq(Coroutine)
          /\ PostedOnce'
        BY <1>4, YieldFacts
    <2>2. TypeOK'
        BY <1>1, <1>4, <2>1 DEF BaseInv, TypeOK, Event
    <2>3. SlotsNameWaiters'
        BY <1>1, <1>4, <2>1 DEF BaseInv, TypeOK, SlotsNameWaiters, fd, CAN_READ, CAN_WRITE
    <2>4. BatchInOrder'
        BY <1>1, <2>1 DEF BaseInv, BatchInOrder
    <2>. QED
        BY <2>1, <2>2, <2>3, <2>4 DEF BaseInv
<1>. QED
    BY <1>3, <1>4 DEF async_read, fd, n

LEMMA WriteBase ==
    ASSUME BaseInv, NEW c \in Worker, current = c, async_write(c) PROVE BaseInv'
<1>. DEFINE fd == op[c].fd
            n == Abstract!Lesser(room[fd], op[c].left)
<1>1. events = << >> /\ fd \in Fd /\ op[c].call = "write" /\ c \notin yielded
    BY WorkerRuns DEF async_write, Pending
<1>2. n \in Nat /\ room[fd] \in 0 .. Cap /\ room[fd] - n \in 0 .. Cap
    <2>1. room[fd] \in Nat /\ op[c].left \in Nat
        BY WorkerRuns
    <2>2. room[fd] \in 0 .. Cap
        BY <1>1 DEF BaseInv, TypeOK
    <2>3. n \in Nat /\ n <= room[fd]
        BY <2>1, LesserFacts
    <2>. QED
        BY <2>2, <2>3, BoundsAssumption
<1>. HIDE DEF fd, n
<1>3. CASE /\ room' = [room EXCEPT ![fd] = room[fd] - n]
           /\ Goes(c, n)
           /\ UNCHANGED <<current, queue_, events, rdllist, inq, eof, slots, yielded>>
    <2>1. PICK next \in Call : op' = [op EXCEPT ![c] = next]
        BY <1>2, <1>3, AfterTypes DEF Goes, BaseInv, TypeOK
    <2>2. TypeOK'
        BY <1>1, <1>2, <1>3, <2>1 DEF BaseInv, TypeOK, slots
    <2>3. SlotsNameWaiters'
        BY <1>1, <1>3, <2>1 DEF BaseInv, TypeOK, SlotsNameWaiters, slots
    <2>4. PostedOnce' /\ BatchInOrder'
        BY <1>1, <1>3 DEF BaseInv, PostedOnce, BatchInOrder
    <2>. QED
        BY <2>2, <2>3, <2>4 DEF BaseInv
<1>4. CASE /\ waited_' = [waited_ EXCEPT ![fd] = waited_[fd] \cup {CAN_WRITE}]
           /\ co_write' = [co_write EXCEPT ![fd] = c]
           /\ co_yield(c)
           /\ UNCHANGED <<event_, waited_mask_, co_read, co_wait>>
    <2>1. /\ yielded' = yielded \cup {c}
          /\ UNCHANGED <<events, rdllist, inq, room, eof, op>>
          /\ current' \in Coroutine /\ queue_' \in Seq(Coroutine)
          /\ PostedOnce'
        BY <1>4, YieldFacts
    <2>2. TypeOK'
        BY <1>1, <1>4, <2>1 DEF BaseInv, TypeOK, Event
    <2>3. SlotsNameWaiters'
        BY <1>1, <1>4, <2>1 DEF BaseInv, TypeOK, SlotsNameWaiters, fd, CAN_READ, CAN_WRITE
    <2>4. BatchInOrder'
        BY <1>1, <2>1 DEF BaseInv, BatchInOrder
    <2>. QED
        BY <2>1, <2>2, <2>3, <2>4 DEF BaseInv
<1>5. CASE /\ \E next \in Abstract!Following(c, op[c]) : op' = [op EXCEPT ![c] = next]
           /\ UNCHANGED <<current, queue_, events, device, slots, yielded>>
    <2>1. TypeOK'
        BY <1>5, FollowingTypes DEF BaseInv, TypeOK, device, slots
    <2>2. SlotsNameWaiters'
        BY <1>1, <1>5 DEF BaseInv, TypeOK, SlotsNameWaiters, slots
    <2>3. PostedOnce' /\ BatchInOrder'
        BY <1>1, <1>5 DEF BaseInv, PostedOnce, BatchInOrder, device
    <2>. QED
        BY <2>1, <2>2, <2>3 DEF BaseInv
<1>. QED
    BY <1>3, <1>4, <1>5 DEF async_write, fd, n

(* Whoever resumes lowers the flag it raised: another flag of the same     *)
(* descriptor keeps its own slot.                                          *)
LEMMA ResumedBase ==
    ASSUME BaseInv, NEW c \in Worker, current = c, resumed(c) PROVE BaseInv'
<1>. DEFINE fd == op[c].fd
<1>1. /\ events = << >> /\ fd \in Fd /\ c \in yielded /\ yielded' = yielded \ {c}
      /\ UNCHANGED <<current, queue_, events, rdllist, inq, room, eof, event_>>
    BY WorkerRuns DEF resumed, device
<1>. HIDE DEF fd
<1>2. PostedOnce' /\ BatchInOrder'
    BY <1>1 DEF BaseInv, PostedOnce, BatchInOrder
<1>3. CASE /\ op[c].call = "read"
           /\ co_read' = Cleared(co_read, fd)
           /\ waited_' = [waited_ EXCEPT ![fd] = waited_[fd] \ {CAN_READ}]
           /\ UNCHANGED <<waited_mask_, co_write, co_wait, op>>
    <2>1. TypeOK'
        BY <1>1, <1>3 DEF BaseInv, TypeOK, Cleared
    <2>2. SlotsNameWaiters'
        BY <1>1, <1>3 DEF BaseInv, TypeOK, SlotsNameWaiters, Cleared, fd, CAN_READ, CAN_WRITE
    <2>. QED
        BY <1>2, <2>1, <2>2 DEF BaseInv
<1>4. CASE /\ op[c].call = "write"
           /\ co_write' = Cleared(co_write, fd)
           /\ waited_' = [waited_ EXCEPT ![fd] = waited_[fd] \ {CAN_WRITE}]
           /\ UNCHANGED <<waited_mask_, co_read, co_wait, op>>
    <2>1. TypeOK'
        BY <1>1, <1>4 DEF BaseInv, TypeOK, Cleared
    <2>2. SlotsNameWaiters'
        BY <1>1, <1>4 DEF BaseInv, TypeOK, SlotsNameWaiters, Cleared, fd, CAN_READ, CAN_WRITE
    <2>. QED
        BY <1>2, <2>1, <2>2 DEF BaseInv
<1>5. CASE /\ op[c].call = "wait"
           /\ co_wait' = [co_wait EXCEPT ![fd] = NULL]
           /\ waited_mask_' = [waited_mask_ EXCEPT ![fd] = {}]
           /\ op' = [op EXCEPT ![c] = Abstract!Read(c)]
           /\ UNCHANGED <<waited_, co_read, co_write>>
    <2>1. TypeOK'
        BY <1>1, <1>5, CallTypes DEF BaseInv, TypeOK
    <2>2. SlotsNameWaiters'
        BY <1>1, <1>5 DEF BaseInv, TypeOK, SlotsNameWaiters, fd, CAN_READ, CAN_WRITE
    <2>3. BatchInOrder'
        BY <1>1 DEF BaseInv, BatchInOrder
    <2>. QED
        BY <1>2, <2>1, <2>2, <2>3 DEF BaseInv
<1>. QED
    BY <1>3, <1>4, <1>5 DEF resumed, read_resumes, write_resumes, wait_resumes, fd

LEMMA NextBase == BaseInv /\ [Next]_vars => BaseInv'
<1>. SUFFICES ASSUME BaseInv, [Next]_vars PROVE BaseInv'
    OBVIOUS
<1>1. CASE epoll_wait
    BY <1>1, EpollWaitBase
<1>2. CASE resched
    BY <1>2, ReschedBase
<1>3. CASE trigger
    BY <1>3, TriggerBase
<1>4. CASE epoll_drop
    BY <1>4, DropBase
<1>5. ASSUME NEW fd \in Fd, arrive(fd) \/ drain(fd) \/ peer_close(fd) PROVE BaseInv'
    BY <1>5, DeviceBase
<1>6. ASSUME NEW c \in Worker, Work(c) PROVE BaseInv'
    <2>1. CASE read_zero(c)
        BY <2>1 DEF read_zero, vars, device, slots, BaseInv, TypeOK, PostedOnce,
            SlotsNameWaiters, BatchInOrder
    <2>. QED
        BY <1>6, <2>1, WaitBase, ReadBase, WriteBase, ResumedBase DEF Work
<1>7. CASE UNCHANGED vars
    BY <1>7 DEF vars, device, slots, BaseInv, TypeOK, PostedOnce, SlotsNameWaiters,
        BatchInOrder
<1>. QED
    BY <1>1, <1>2, <1>3, <1>4, <1>5, <1>6, <1>7 DEF Next, Process, poll_forever

(* The inductive invariant holds, whoever uses which descriptor.           *)
THEOREM BaseInvariance == Spec => []BaseInv
    BY InitBase, NextBase, PTL DEF Spec

(* Every variable keeps its type.                                          *)
THEOREM TypeCorrect == Spec => []TypeOK
<1>1. BaseInv => TypeOK
    BY DEF BaseInv
<1>. QED
    BY <1>1, BaseInvariance, PTL

(* The loop keeps the contract of co_post, even when several coroutines use*)
(* the same descriptor.                                                    *)
THEOREM PostsOnlySuspended == Spec => []PostedOnce
<1>1. BaseInv => PostedOnce
    BY DEF BaseInv
<1>. QED
    BY <1>1, BaseInvariance, PTL

(* Main, which never yields, is ready whenever a worker runs: co_yield     *)
(* always finds somebody to switch to.                                     *)
LEMMA NextMain == BaseInv /\ MainReady /\ [Next]_vars => MainReady'
<1>. SUFFICES ASSUME BaseInv, MainReady, [Next]_vars PROVE MainReady'
    OBVIOUS
<1>1. queue_ \in Seq(Coroutine)
    BY DEF BaseInv, TypeOK
<1>2. CASE resched
    <2>. DEFINE q == enqueue(queue_, Main)
    <2>1. q \in Seq(Coroutine) /\ Main \in Range(q)
        BY <1>1, EnqueueFacts, MainAssumption
    <2>2. q # << >> /\ current' = Head(q) /\ queue_' = Tail(q)
        BY <1>2 DEF resched, dequeue
    <2>. HIDE DEF q
    <2>. QED
        BY <2>1, <2>2, DequeueFacts DEF MainReady
<1>3. ASSUME NEW c \in Worker, current = c, co_yield(c) PROVE MainReady'
    BY <1>3, YieldFacts DEF MainReady, Worker
<1>4. CASE current' = current /\ (queue_' = queue_ \/ current = Main)
    BY <1>4 DEF MainReady
<1>. QED
    BY <1>2, <1>3, <1>4 DEF Next, Process, poll_forever, Work, epoll_wait, trigger, epoll_drop,
        arrive, drain, peer_close, async_wait, async_read, async_write, read_zero, resumed, vars

THEOREM SomebodyIsReady == Spec => []MainReady
<1>1. Init => MainReady
    BY DEF Init, MainReady
<1>. QED
    BY <1>1, NextMain, BaseInvariance, PTL DEF Spec

=============================================================================
