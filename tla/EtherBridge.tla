----------------------------- MODULE EtherBridge -----------------------------
(***************************************************************************)
(* The learning bridge of the server (bridge/ether_bridge.hpp): one table  *)
(* of stations, used by both coroutines of ether_bridge_server.cpp.        *)
(*                                                                         *)
(* forward calls handlers that write to a descriptor and may suspend the   *)
(* caller there (EventLoop), and then the other coroutine may forward a    *)
(* frame of its own.  So a step of a worker goes from one handler call to  *)
(* the next; the broadcast loop holds its iterator across them.            *)
(***************************************************************************)
EXTENDS Integers

CONSTANTS
    Mac,            \* station addresses, numbered in the order of memcmp
    timeout,        \* seconds an entry lives without a frame, 600
    MaxTime,        \* bound: what the clock goes up to
    Peer,           \* the clients' UDP addresses, what recvfrom fills in
    NULL            \* no station; as a destination, the broadcast address;
                    \* as an address, the zeroes of address()

ASSUME MacAssumption == Mac \subseteq Nat /\ NULL \notin Mac
ASSUME TimeAssumption == timeout \in Nat /\ MaxTime \in Nat
ASSUME PeerAssumption == NULL \notin Peer

(* Each worker passes its own reply_handler, which is what an entry holds. *)
Worker == {"read_tap", "read_udp"}

VARIABLES
    now,            \* time(NULL)
    table_,         \* table_[m]: when and by whom station m was last heard;
                    \* peer, a history: whom the frame came from
    addr,           \* the addr of read_udp's turn, which its handlers refer to
    call,           \* call[c]: what forward does for c, "none" when not called
    src,            \* src[c]: the station the frame came from
    at,             \* at[c]: the entry whose handler runs; the iterator
    dangling,       \* the workers whose iterator points to an erased entry
    undefined,      \* such an iterator has been used: anything may follow
    sent,           \* history: the entries the loop of c has called
    stayed,         \* history: those in the table since the loop of c began
    began           \* history: when the forward that c is in began, or 0

loop == <<call, src, at, sent>>
turn == <<addr, began>>
vars == <<now, table_, dangling, undefined, stayed, loop, turn>>

(* Whom a frame of worker c may come from: the tap device has no peers.    *)
From(c) == IF c = "read_udp" THEN Peer ELSE {NULL}

Record == [last_active : 0 .. MaxTime, t : Worker, peer : Peer \cup {NULL}]

TypeOK ==
    /\ now \in 0 .. MaxTime
    /\ DOMAIN table_ \subseteq Mac
    /\ \A m \in DOMAIN table_ : table_[m] \in Record
    /\ call \in [Worker -> {"none", "unicast", "broadcast"}]
    /\ src \in [Worker -> Mac \cup {NULL}] /\ at \in [Worker -> Mac \cup {NULL}]
    /\ dangling \subseteq Worker /\ undefined \in BOOLEAN
    /\ sent \in [Worker -> SUBSET Mac] /\ stayed \in [Worker -> SUBSET Mac]
    /\ addr \in Peer \cup {NULL} /\ began \in [Worker -> 0 .. MaxTime]

Init ==
    /\ now = 0 /\ table_ = << >>
    /\ call = [c \in Worker |-> "none"]
    /\ src = [c \in Worker |-> NULL] /\ at = [c \in Worker |-> NULL]
    /\ dangling = {} /\ undefined = FALSE
    /\ sent = [c \in Worker |-> {}] /\ stayed = [c \in Worker |-> {}]
    /\ addr = NULL /\ began = [c \in Worker |-> 0]

-----------------------------------------------------------------------------
(* Mistaken variant: nothing is ever too old.                              *)
ActiveForever == DOMAIN table_

(* check_timeout: the entries that stay.                                   *)
Active == {m \in DOMAIN table_ : ~(now - table_[m].last_active > timeout)}

(* Erasing an entry invalidates the iterators that point to it.            *)
clean_up ==
    dangling' = dangling \cup
        {c \in Worker : call[c] = "broadcast" /\ at[c] \notin Active}

(* Mistaken variants: the record holds when it expires; the entries that   *)
(* are too old are still there.                                            *)
updateExpiry(s, c, from) == [m \in Active \cup {s} |->
    IF m = s THEN [last_active |-> now + timeout, t |-> c, peer |-> from] ELSE table_[m]]

updateUncleaned(s, c, from) == [m \in DOMAIN table_ \cup {s} |->
    IF m = s THEN [last_active |-> now, t |-> c, peer |-> from] ELSE table_[m]]

(* The table after clean_up and update(s, handler of c).                   *)
update(s, c, from) == [m \in Active \cup {s} |->
    IF m = s THEN [last_active |-> now, t |-> c, peer |-> from] ELSE table_[m]]

(* Mistaken variants: the loop breaks at the entry of the source; it does  *)
(* not compare with the source.                                            *)
RestBreaks(entries, m, s) == {n \in entries : n > m /\ (s > m => n < s)}

RestEchoes(entries, m, s) == {n \in entries : n > m}

(* The entries a loop for a frame from s still has to call, after entry m. *)
Rest(entries, m, s) == {n \in entries : n > m /\ n # s}

(* The loop calls the first of these handlers, or ends.                    *)
Advance(c, rest, called) ==
    \/ \E n \in rest :
        /\ \A k \in rest : n <= k
        /\ at' = [at EXCEPT ![c] = n]
        /\ sent' = [sent EXCEPT ![c] = called \cup {n}]
        /\ call' = [call EXCEPT ![c] = "broadcast"]
    \/ /\ rest = {}
       /\ at' = [at EXCEPT ![c] = NULL]
       /\ sent' = [sent EXCEPT ![c] = {}]
       /\ call' = [call EXCEPT ![c] = "none"]

(* query(d): the handler is copied and called, if there is one.            *)
Query(c, d) ==
    /\ call' = [call EXCEPT ![c] = IF d \in DOMAIN table_' THEN "unicast" ELSE "none"]
    /\ at' = [at EXCEPT ![c] = IF d \in DOMAIN table_' THEN d ELSE NULL]
    /\ UNCHANGED sent

Idle(c) == call[c] = "none" /\ ~undefined

(* The turn of the worker's loop in which forward is called, from `heard': *)
(* when it is over, read_udp makes a new, zeroed addr at the same place of *)
(* its stack and waits in async_read_from.                                 *)
Turn(c, heard, since) ==
    /\ began' = [began EXCEPT ![c] = IF call'[c] = "none" THEN 0 ELSE since]
    /\ addr' = IF c = "read_tap" THEN addr
               ELSE IF call'[c] = "none" THEN NULL ELSE heard

(* forward, up to the first handler call, for a frame from s to d that     *)
(* came from peer `from'.                                                  *)
forward(c, s, d, from) ==
    /\ Idle(c)
    /\ clean_up
    /\ table_' = update(s, c, from)
    /\ src' = [src EXCEPT ![c] = s]
    /\ \/ d # NULL /\ Query(c, d)
       \/ d = NULL /\ Advance(c, Rest(DOMAIN table_', -1, s), {})
    /\ stayed' = [w \in Worker |->
        IF w = c THEN DOMAIN table_' ELSE stayed[w] \cap Active]
    /\ Turn(c, from, now)
    /\ UNCHANGED <<now, undefined>>

(* forward of a frame without a whole header only cleans up.               *)
forward_runt(c) ==
    /\ Idle(c)
    /\ clean_up
    /\ table_' = [m \in Active |-> table_[m]]
    /\ stayed' = [w \in Worker |-> stayed[w] \cap Active]
    /\ UNCHANGED <<now, undefined, loop, turn>>

(* A handler returns.  A broadcast goes on with ++it; what that does when  *)
(* the entry is gone is not defined.                                       *)
unicast_returns(c) ==
    /\ call[c] = "unicast" /\ ~undefined
    /\ call' = [call EXCEPT ![c] = "none"]
    /\ at' = [at EXCEPT ![c] = NULL]
    /\ Turn(c, addr, began[c])
    /\ UNCHANGED <<now, table_, dangling, undefined, stayed, src, sent>>

broadcast_returns(c) ==
    /\ call[c] = "broadcast" /\ ~undefined
    /\ \/ /\ c \notin dangling
          /\ Advance(c, Rest(DOMAIN table_, at[c], src[c]), sent[c])
          /\ UNCHANGED undefined
       \/ /\ c \in dangling
          /\ undefined' = TRUE
          /\ UNCHANGED <<call, at, sent>>
    /\ Turn(c, addr, began[c])
    /\ UNCHANGED <<now, table_, dangling, stayed, src>>

tick ==
    /\ now < MaxTime /\ ~undefined
    /\ now' = now + 1
    /\ UNCHANGED <<table_, dangling, undefined, stayed, loop, turn>>

anything == undefined /\ UNCHANGED vars

-----------------------------------------------------------------------------
Next ==
    \/ \E c \in Worker :
        \/ \E s \in Mac, d \in Mac \cup {NULL}, from \in From(c) : forward(c, s, d, from)
        \/ forward_runt(c) \/ unicast_returns(c) \/ broadcast_returns(c)
    \/ tick \/ anything

Spec == Init /\ [][Next]_vars

-----------------------------------------------------------------------------
(* Whatever the other coroutine learns or forgets meanwhile, a broadcast   *)
(* that ends has been sent to every other station that stayed in the table.*)
BroadcastReachesAll == [][\A c \in Worker :
    call[c] = "broadcast" /\ call'[c] = "none" =>
        stayed[c] \ {src[c]} \subseteq sent[c]]_vars

(* It is sent to a station at most once, to a station of the table, and    *)
(* not back to the one it came from.                                       *)
BroadcastOnce == [][\A c \in Worker :
    call'[c] = "broadcast" /\ at'[c] # at[c] =>
        at'[c] \notin sent[c] \cup {src'[c]} /\ at'[c] \in DOMAIN table_']_vars

(* No frame is sent to where a station was heard longer ago than timeout.  *)
UnicastIsFresh == [][\A c \in Worker :
    call[c] = "none" /\ call'[c] = "unicast" =>
        now - table_'[at'[c]].last_active <= timeout]_vars

(* An entry at which a broadcast stands is erased only when the clock has  *)
(* moved on since that broadcast began, however recently its station was   *)
(* heard before: without a suspension across a second nothing dangles.     *)
DanglesOnlyAcrossTicks == \A c \in dangling : began[c] < now

(* Worker c calls a handler in this step.                                  *)
Calls(c) == call'[c] # "none" /\ (call[c] = "none" \/ at'[c] # at[c])

(* The handler that is stored is a reply_handler (ether_bridge.hpp:172):   *)
(* when read_udp's is called, the frame goes to the peer behind which the  *)
(* station was heard, whoever calls it.                                    *)
RepliesReachTheirPeer == [][\A c \in Worker :
    Calls(c) /\ table_'[at'[c]].t = "read_udp" => addr' = table_'[at'[c]].peer]_vars

=============================================================================
