------------------------------ MODULE UdpBridge ------------------------------
(***************************************************************************)
(* udp_bridge (bridge/udp_bridge.hpp): peers are entered when they are     *)
(* first heard, messages are passed on to the peer they name, and a peer   *)
(* that was silent for a minute is swept.                                  *)
(*                                                                         *)
(* The dispatcher that would call foward is commented out, so who calls it *)
(* is a parameter.  async_send_to may suspend the caller (EventLoop): a    *)
(* call is one step up to its send and one step from there to its return.  *)
(***************************************************************************)
EXTENDS Integers

CONSTANTS
    Address,        \* the addresses datagrams come from
    Caller,         \* coroutines that call foward on the one bridge
    timeout,        \* seconds a silent peer stays, 60
    MaxTime,        \* bound: what the clock goes up to
    NULL

ASSUME NullAssumption == NULL \notin Address /\ NULL \notin Int
ASSUME TimeAssumption == timeout \in Nat /\ MaxTime \in Nat

(* What the memory of last_active_ may hold before keep_alive: a time long *)
(* past, or one that is not over for the length of a run.                  *)
Uninitialised == {-timeout - 1, MaxTime}

VARIABLES
    now,            \* time(NULL)
    peer_map_,      \* peer_map_[a]: last_active_ of the peer at address a
    call,           \* call[c]: the send that foward waits in, or "none"
    from,           \* from[c]: where the message of c came from
    it,             \* it[c]: the peer whose addr_ the send of c refers to
    dangling,       \* the callers whose send refers to an erased peer
    undefined,      \* such a peer, or end(), was used: anything may follow
    heard,          \* history: when a call for a message from a last returned
    swept           \* history: the callers during whose send a peer was erased

vars == <<now, peer_map_, call, from, it, dangling, undefined, heard, swept>>

TypeOK ==
    /\ now \in 0 .. MaxTime
    /\ DOMAIN peer_map_ \subseteq Address
    /\ \A a \in DOMAIN peer_map_ : peer_map_[a] \in 0 .. MaxTime \cup Uninitialised
    /\ call \in [Caller -> {"none", "info", "data"}]
    /\ from \in [Caller -> Address \cup {NULL}] /\ it \in [Caller -> Address \cup {NULL}]
    /\ dangling \subseteq Caller /\ undefined \in BOOLEAN
    /\ heard \in [Address -> 0 .. MaxTime \cup {NULL}] /\ swept \subseteq Caller

Init ==
    /\ now = 0 /\ peer_map_ = << >>
    /\ call = [c \in Caller |-> "none"]
    /\ from = [c \in Caller |-> NULL] /\ it = [c \in Caller |-> NULL]
    /\ dangling = {} /\ undefined = FALSE
    /\ heard = [a \in Address |-> NULL] /\ swept = {}

-----------------------------------------------------------------------------
(* Mistaken variant: only known peers have an entry.                       *)
enteredNot(a, garbage) == peer_map_

(* The map once a message from a is being handled: a new peer has whatever *)
(* time its memory holds.                                                  *)
entered(a, garbage) == [b \in DOMAIN peer_map_ \cup {a} |->
    IF b \in DOMAIN peer_map_ THEN peer_map_[b] ELSE garbage]

(* Mistaken variant: silence for a second is too long.                     *)
SilentSecond(map) == {a \in DOMAIN map : map[a] < now}

(* The peers that the loop at the end of foward erases.                    *)
Silent(map) == {a \in DOMAIN map : map[a] + timeout < now}

(* Mistaken variant: keep_alive notes when the peer will be silent.        *)
KeptExpiry(map, a) == [b \in DOMAIN map |-> IF b = a THEN now + timeout ELSE map[b]]

(* The map after keep_alive of the peer at a.                              *)
Kept(map, a) == [b \in DOMAIN map |-> IF b = a THEN now ELSE map[b]]

(* The end of foward for c and its message from a, with the map as it is   *)
(* now: find(a) is end() if the peer was erased meanwhile.                 *)
finish(c, a, map) ==
    \/ /\ a \notin DOMAIN map
       /\ undefined' = TRUE
       /\ peer_map_' = map
       /\ UNCHANGED <<call, from, it, dangling, heard, swept>>
    \/ LET gone == Silent(Kept(map, a)) IN
       /\ a \in DOMAIN map
       /\ peer_map_' = [b \in DOMAIN map \ gone |-> Kept(map, a)[b]]
       /\ call' = [call EXCEPT ![c] = "none"]
       /\ from' = [from EXCEPT ![c] = NULL] /\ it' = [it EXCEPT ![c] = NULL]
       /\ dangling' = dangling \cup {d \in Caller \ {c} : call[d] = "data" /\ it[d] \in gone}
       /\ swept' = {d \in Caller \ {c} :
                        d \in swept \/ (call[d] # "none" /\ gone # {})}
       /\ heard' = [heard EXCEPT ![a] = now]
       /\ UNCHANGED undefined

Idle(c) == call[c] = "none" /\ ~undefined

(* PING and PONG.                                                          *)
foward_ping(c, a, garbage) ==
    /\ Idle(c)
    /\ finish(c, a, entered(a, garbage))
    /\ UNCHANGED now

(* DATA that is too short or names no peer, or another type: foward leaves *)
(* without keep_alive and without a sweep.                                 *)
foward_dropped(c, a, garbage) ==
    /\ Idle(c)
    /\ peer_map_' = entered(a, garbage)
    /\ UNCHANGED <<now, call, from, it, dangling, undefined, heard, swept>>

(* INFO is answered to its sender, DATA is passed on to the peer it names, *)
(* by reference to the address in the map.                                 *)
foward_sends(c, a, garbage) ==
    /\ Idle(c)
    /\ peer_map_' = entered(a, garbage)
    /\ from' = [from EXCEPT ![c] = a]
    /\ \/ call' = [call EXCEPT ![c] = "info"] /\ UNCHANGED it
       \/ \E b \in DOMAIN peer_map_' :
            call' = [call EXCEPT ![c] = "data"] /\ it' = [it EXCEPT ![c] = b]
    /\ UNCHANGED <<now, dangling, undefined, heard, swept>>

(* The send is made again after it was suspended, and the call goes on.    *)
send_returns(c) ==
    /\ call[c] # "none" /\ ~undefined
    /\ \/ c \notin dangling /\ finish(c, from[c], peer_map_)
       \/ /\ c \in dangling
          /\ undefined' = TRUE
          /\ UNCHANGED <<peer_map_, call, from, it, dangling, heard, swept>>
    /\ UNCHANGED now

tick ==
    /\ now < MaxTime /\ ~undefined
    /\ now' = now + 1
    /\ UNCHANGED <<peer_map_, call, from, it, dangling, undefined, heard, swept>>

anything == undefined /\ UNCHANGED vars

-----------------------------------------------------------------------------
Next ==
    \/ \E c \in Caller :
        \/ send_returns(c)
        \/ \E a \in Address, garbage \in Uninitialised :
            foward_ping(c, a, garbage) \/ foward_dropped(c, a, garbage)
                \/ foward_sends(c, a, garbage)
    \/ tick \/ anything

Spec == Init /\ [][Next]_vars

-----------------------------------------------------------------------------
(* A peer one of whose messages was handled to its end no longer than      *)
(* timeout ago is known, whoever has swept the map since.                  *)
HeardPeersStay == ~undefined => \A a \in Address :
    heard[a] # NULL /\ now - heard[a] <= timeout => a \in DOMAIN peer_map_

(* foward uses an erased peer, or end(), only when another call swept the  *)
(* map while its own send was suspended: with one caller it never does.    *)
UndefinedOnlyIfSwept == undefined => \E c \in Caller : call[c] # "none" /\ c \in swept

=============================================================================
