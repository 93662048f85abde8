--------------------------- MODULE UdpBridgeProofs ---------------------------
(***************************************************************************)
(* Proofs about UdpBridge, for any peers, any number of callers and any    *)
(* timeout.                                                                *)
(***************************************************************************)
EXTENDS UdpBridge, TLAPS

Times == 0 .. MaxTime \cup Uninitialised

(* What a map of peers is.                                                 *)
IsMap(map) == DOMAIN map \subseteq Address /\ \A a \in DOMAIN map : map[a] \in Times

(* A call that waits in its send can go on where it was, unless the map    *)
(* has been swept since.                                                   *)
CallsGoOn == \A c \in Caller :
    /\ call[c] # "none" => from[c] \in Address
    /\ call[c] # "none" /\ c \notin swept => from[c] \in DOMAIN peer_map_
    /\ c \in dangling => call[c] # "none" /\ c \in swept

(* A peer that was heard is entered with that time, or was silent since.   *)
HeardIsNoted == \A a \in Address : heard[a] # NULL =>
    \/ heard[a] + timeout < now
    \/ a \in DOMAIN peer_map_ /\ peer_map_[a] = heard[a]

Inv ==
    /\ TypeOK /\ UndefinedOnlyIfSwept
    /\ ~undefined => CallsGoOn /\ HeardIsNoted

LEMMA InitInv == Init => Inv
<1>. SUFFICES ASSUME Init PROVE Inv
    OBVIOUS
<1>1. DOMAIN peer_map_ = {}
    BY DEF Init
<1>2. TypeOK
    <2>1. now \in 0 .. MaxTime
        BY TimeAssumption DEF Init
    <2>2. heard \in [Address -> 0 .. MaxTime \cup {NULL}]
        BY DEF Init
    <2>3. call \in [Caller -> {"none", "info", "data"}]
        BY DEF Init
    <2>4. from \in [Caller -> Address \cup {NULL}] /\ it \in [Caller -> Address \cup {NULL}]
        BY DEF Init
    <2>5. dangling \subseteq Caller /\ undefined \in BOOLEAN /\ swept \subseteq Caller
        BY DEF Init
    <2>. QED
        BY <1>1, <2>1, <2>2, <2>3, <2>4, <2>5 DEF TypeOK
<1>3. CallsGoOn /\ HeardIsNoted
    BY DEF Init, CallsGoOn, HeardIsNoted
<1>. QED
    BY <1>2, <1>3 DEF Init, Inv, UndefinedOnlyIfSwept

-----------------------------------------------------------------------------
(* Entering a peer changes no other.                                       *)
LEMMA EnteredFacts ==
    ASSUME TypeOK, NEW a \in Address, NEW garbage \in Uninitialised
    PROVE  /\ IsMap(entered(a, garbage))
           /\ DOMAIN entered(a, garbage) = DOMAIN peer_map_ \cup {a}
           /\ \A b \in DOMAIN peer_map_ : entered(a, garbage)[b] = peer_map_[b]
<1>1. DOMAIN entered(a, garbage) = DOMAIN peer_map_ \cup {a}
    BY DEF entered
<1>2. \A b \in DOMAIN peer_map_ \cup {a} : entered(a, garbage)[b] =
          IF b \in DOMAIN peer_map_ THEN peer_map_[b] ELSE garbage
    BY DEF entered
<1>3. \A b \in DOMAIN peer_map_ : peer_map_[b] \in Times
    BY DEF TypeOK, Times
<1>4. DOMAIN peer_map_ \subseteq Address /\ garbage \in Times
    BY DEF TypeOK, Times
<1>. QED
    BY <1>1, <1>2, <1>3, <1>4 DEF IsMap

(* What the end of foward leaves of a map, and what it makes of the calls. *)
LEMMA FinishFacts ==
    ASSUME Inv, ~undefined, NEW c \in Caller, NEW a \in Address, NEW map,
           IsMap(map), DOMAIN peer_map_ \subseteq DOMAIN map,
           \A b \in DOMAIN peer_map_ : map[b] = peer_map_[b],
           a \in DOMAIN map \/ (call[c] # "none" /\ c \in swept),
           c \notin dangling, finish(c, a, map), UNCHANGED now
    PROVE  Inv'
<1>1. CASE undefined'
    <2>1. a \notin DOMAIN map /\ peer_map_' = map
        BY <1>1 DEF finish
    <2>2. UNCHANGED <<call, from, it, dangling, heard, swept>>
        BY <2>1 DEF finish
    <2>3. call'[c] # "none" /\ c \in swept'
        BY <2>1, <2>2
    <2>4. DOMAIN peer_map_' \subseteq Address /\ \A b \in DOMAIN peer_map_' : peer_map_'[b] \in Times
        BY <2>1 DEF IsMap
    <2>. QED
        BY <1>1, <2>2, <2>3, <2>4 DEF Inv, TypeOK, Times, Uninitialised, UndefinedOnlyIfSwept
<1>2. CASE ~undefined'
    <2>. DEFINE gone == Silent(Kept(map, a))
    <2>1. /\ a \in DOMAIN map
          /\ peer_map_' = [b \in DOMAIN map \ gone |-> Kept(map, a)[b]]
          /\ call' = [call EXCEPT ![c] = "none"]
          /\ from' = [from EXCEPT ![c] = NULL] /\ it' = [it EXCEPT ![c] = NULL]
          /\ dangling' = dangling \cup
                {d \in Caller \ {c} : call[d] = "data" /\ it[d] \in gone}
          /\ swept' = {d \in Caller \ {c} :
                          d \in swept \/ (call[d] # "none" /\ gone # {})}
          /\ heard' = [heard EXCEPT ![a] = now] /\ undefined' = undefined
        BY <1>2 DEF finish
    <2>2. /\ DOMAIN Kept(map, a) = DOMAIN map
          /\ Kept(map, a)[a] = now
          /\ \A b \in DOMAIN map \ {a} : Kept(map, a)[b] = map[b]
        BY <2>1 DEF Kept
    <2>3. now \in 0 .. MaxTime /\ timeout \in Nat /\ MaxTime \in Nat
        BY TimeAssumption DEF Inv, TypeOK
    <2>4. gone = {b \in DOMAIN map : Kept(map, a)[b] + timeout < now}
        BY <2>2 DEF Silent
    <2>5. a \notin gone
        BY <2>2, <2>3, <2>4
    <2>6. \A b \in DOMAIN map : Kept(map, a)[b] \in Times
        BY <2>2, <2>3 DEF IsMap, Times
    <2>. HIDE DEF gone
    <2>7. TypeOK'
        <3>1. DOMAIN peer_map_' \subseteq Address
            BY <2>1 DEF IsMap
        <3>2. \A b \in DOMAIN peer_map_' :
                 peer_map_'[b] \in 0 .. MaxTime \cup Uninitialised
            BY <2>1, <2>6 DEF Times
        <3>3. \A b \in DOMAIN peer_map_' :
                 peer_map_'[b] \in (0 .. MaxTime \cup Uninitialised)'
            BY <3>2 DEF Uninitialised
        <3>. HIDE DEF Uninitialised
        <3>4. /\ call' \in [Caller -> {"none", "info", "data"}]
              /\ from' \in [Caller -> Address \cup {NULL}]
              /\ it' \in [Caller -> Address \cup {NULL}]
            BY <2>1 DEF Inv, TypeOK
        <3>5. dangling' \subseteq Caller /\ swept' \subseteq Caller
            BY <2>1 DEF Inv, TypeOK
        <3>6. heard' \in [Address -> 0 .. MaxTime \cup {NULL}]
            BY <2>1, <2>3 DEF Inv, TypeOK
        <3>7. now' \in 0 .. MaxTime /\ undefined' \in BOOLEAN
            BY <2>1, <2>3 DEF Inv, TypeOK
        <3>. QED
            BY <3>1, <3>3, <3>4, <3>5, <3>6, <3>7 DEF TypeOK
    <2>8. CallsGoOn'
        <3>. SUFFICES ASSUME NEW d \in Caller
                      PROVE  /\ call'[d] # "none" => from'[d] \in Address
                             /\ call'[d] # "none" /\ d \notin swept' =>
                                    from'[d] \in DOMAIN peer_map_'
                             /\ d \in dangling' => call'[d] # "none" /\ d \in swept'
            BY DEF CallsGoOn
        <3>0. /\ call \in [Caller -> {"none", "info", "data"}]
              /\ from \in [Caller -> Address \cup {NULL}]
            BY DEF Inv, TypeOK
        <3>1. CASE d = c
            BY <2>1, <3>0, <3>1
        <3>2. CASE d # c
            <4>1. call'[d] = call[d] /\ from'[d] = from[d]
                BY <2>1, <3>0, <3>2
            <4>2. /\ call[d] # "none" => from[d] \in Address
                  /\ call[d] # "none" /\ d \notin swept => from[d] \in DOMAIN map
                  /\ d \in dangling => call[d] # "none" /\ d \in swept
                BY DEF Inv, CallsGoOn
            <4>3. d \in swept' <=> d \in swept \/ (call[d] # "none" /\ gone # {})
                BY <2>1, <3>2
            <4>4. d \in dangling' => d \in dangling \/ (call[d] = "data" /\ gone # {})
                BY <2>1, <3>2
            <4>5. DOMAIN peer_map_' = DOMAIN map \ gone
                BY <2>1
            <4>. QED
                BY <4>1, <4>2, <4>3, <4>4, <4>5
        <3>. QED
            BY <3>1, <3>2
    <2>9. HeardIsNoted'
        <3>. SUFFICES ASSUME NEW b \in Address, heard'[b] # NULL
                      PROVE  \/ heard'[b] + timeout < now
                             \/ b \in DOMAIN peer_map_' /\ peer_map_'[b] = heard'[b]
            BY TimeAssumption DEF HeardIsNoted
        <3>1. CASE b = a
            <4>1. heard'[b] = now
                BY <2>1, <3>1 DEF Inv, TypeOK
            <4>. QED
                BY <2>1, <2>2, <2>5, <3>1, <4>1
        <3>2. CASE b # a
            <4>1. heard'[b] = heard[b]
                BY <2>1, <3>2 DEF Inv, TypeOK
            <4>2. \/ heard[b] + timeout < now
                  \/ b \in DOMAIN peer_map_ /\ peer_map_[b] = heard[b]
                BY <4>1 DEF Inv, HeardIsNoted
            <4>3. CASE b \in DOMAIN peer_map_ /\ peer_map_[b] = heard[b]
                <5>1. b \in DOMAIN map /\ Kept(map, a)[b] = heard[b]
                    BY <2>2, <3>2, <4>3
                <5>. QED
                    BY <2>1, <2>4, <4>1, <5>1
            <4>. QED
                BY <4>1, <4>2, <4>3
        <3>. QED
            BY <3>1, <3>2
    <2>. QED
        BY <1>2, <2>7, <2>8, <2>9 DEF Inv, UndefinedOnlyIfSwept
<1>. QED
    BY <1>1, <1>2

-----------------------------------------------------------------------------
LEMMA PingInv ==
    ASSUME Inv, NEW c \in Caller, NEW a \in Address, NEW garbage \in Uninitialised,
           foward_ping(c, a, garbage)
    PROVE  Inv'
<1>1. ~undefined /\ call[c] = "none" /\ UNCHANGED now /\ finish(c, a, entered(a, garbage))
    BY DEF foward_ping, Idle
<1>2. c \notin dangling
    BY <1>1 DEF Inv, CallsGoOn
<1>. QED
    BY <1>1, <1>2, EnteredFacts, FinishFacts DEF Inv

(* Entering a peer keeps what is known of the others.                      *)
LEMMA EnterKeeps ==
    ASSUME Inv, ~undefined, NEW a \in Address, NEW garbage \in Uninitialised,
           peer_map_' = entered(a, garbage), UNCHANGED <<now, heard>>
    PROVE  /\ DOMAIN peer_map_' \subseteq Address
           /\ \A b \in DOMAIN peer_map_' : peer_map_'[b] \in 0 .. MaxTime \cup Uninitialised
           /\ DOMAIN peer_map_ \subseteq DOMAIN peer_map_' /\ a \in DOMAIN peer_map_'
           /\ HeardIsNoted'
<1>1. /\ IsMap(peer_map_') /\ DOMAIN peer_map_' = DOMAIN peer_map_ \cup {a}
      /\ \A b \in DOMAIN peer_map_ : peer_map_'[b] = peer_map_[b]
    BY EnteredFacts DEF Inv
<1>2. HeardIsNoted'
    BY <1>1 DEF Inv, HeardIsNoted
<1>. QED
    BY <1>1, <1>2 DEF IsMap, Times

LEMMA DroppedInv ==
    ASSUME Inv, NEW c \in Caller, NEW a \in Address, NEW garbage \in Uninitialised,
           foward_dropped(c, a, garbage)
    PROVE  Inv'
<1>1. /\ ~undefined /\ peer_map_' = entered(a, garbage)
      /\ UNCHANGED <<now, call, from, it, dangling, undefined, heard, swept>>
    BY DEF foward_dropped, Idle
<1>2. /\ DOMAIN peer_map_' \subseteq Address
      /\ \A b \in DOMAIN peer_map_' : peer_map_'[b] \in 0 .. MaxTime \cup Uninitialised
      /\ DOMAIN peer_map_ \subseteq DOMAIN peer_map_' /\ HeardIsNoted'
    BY <1>1, EnterKeeps
<1>3. TypeOK'
    BY <1>1, <1>2 DEF Inv, TypeOK, Uninitialised
<1>4. CallsGoOn'
    BY <1>1, <1>2 DEF Inv, CallsGoOn
<1>. QED
    BY <1>1, <1>2, <1>3, <1>4 DEF Inv, UndefinedOnlyIfSwept

LEMMA SendsInv ==
    ASSUME Inv, NEW c \in Caller, NEW a \in Address, NEW garbage \in Uninitialised,
           foward_sends(c, a, garbage)
    PROVE  Inv'
<1>1. /\ ~undefined /\ call[c] = "none" /\ peer_map_' = entered(a, garbage)
      /\ from' = [from EXCEPT ![c] = a]
      /\ UNCHANGED <<now, dangling, undefined, heard, swept>>
    BY DEF foward_sends, Idle
<1>2. /\ DOMAIN peer_map_' \subseteq Address
      /\ \A b \in DOMAIN peer_map_' : peer_map_'[b] \in 0 .. MaxTime \cup Uninitialised
      /\ DOMAIN peer_map_ \subseteq DOMAIN peer_map_' /\ a \in DOMAIN peer_map_'
      /\ HeardIsNoted'
    BY <1>1, EnterKeeps
<1>3. \/ call' = [call EXCEPT ![c] = "info"] /\ UNCHANGED it
      \/ \E b \in Address : /\ call' = [call EXCEPT ![c] = "data"]
                            /\ it' = [it EXCEPT ![c] = b]
    BY <1>2 DEF foward_sends
<1>4. /\ call' \in [Caller -> {"none", "info", "data"}]
      /\ it' \in [Caller -> Address \cup {NULL}]
      /\ call'[c] # "none" /\ \A d \in Caller \ {c} : call'[d] = call[d]
    BY <1>3 DEF Inv, TypeOK
<1>5. /\ from' \in [Caller -> Address \cup {NULL}]
      /\ from'[c] = a /\ \A d \in Caller \ {c} : from'[d] = from[d]
    BY <1>1 DEF Inv, TypeOK
<1>6. TypeOK'
    BY <1>1, <1>2, <1>4, <1>5 DEF Inv, TypeOK, Uninitialised
<1>7. CallsGoOn'
    <2>1. c \notin dangling
        BY <1>1 DEF Inv, CallsGoOn
    <2>. QED
        BY <1>1, <1>2, <1>4, <1>5, <2>1 DEF Inv, CallsGoOn
<1>. QED
    BY <1>1, <1>2, <1>6, <1>7 DEF Inv, UndefinedOnlyIfSwept

LEMMA ReturnsInv ==
    ASSUME Inv, NEW c \in Caller, send_returns(c)
    PROVE  Inv'
<1>1. call[c] # "none" /\ ~undefined /\ UNCHANGED now
    BY DEF send_returns
<1>2. CASE c \notin dangling /\ finish(c, from[c], peer_map_)
    <2>1. from[c] \in Address /\ (c \notin swept => from[c] \in DOMAIN peer_map_)
        BY <1>1 DEF Inv, CallsGoOn
    <2>2. IsMap(peer_map_)
        BY DEF Inv, TypeOK, IsMap, Times
    <2>. QED
        BY <1>1, <1>2, <2>1, <2>2, FinishFacts
<1>3. CASE /\ c \in dangling /\ undefined' = TRUE
           /\ UNCHANGED <<peer_map_, call, from, it, dangling, heard, swept>>
    <2>1. c \in swept
        BY <1>1, <1>3 DEF Inv, CallsGoOn
    <2>. QED
        BY <1>1, <1>3, <2>1 DEF Inv, TypeOK, Uninitialised, UndefinedOnlyIfSwept
<1>. QED
    BY <1>2, <1>3 DEF send_returns

LEMMA TickInv == ASSUME Inv, tick PROVE Inv'
<1>1. /\ ~undefined /\ now' = now + 1 /\ now < MaxTime
      /\ UNCHANGED <<peer_map_, call, from, it, dangling, undefined, heard, swept>>
    BY DEF tick
<1>2. now' \in 0 .. MaxTime
    BY <1>1, TimeAssumption DEF Inv, TypeOK
<1>3. HeardIsNoted'
    <2>. SUFFICES ASSUME NEW a \in Address, heard[a] # NULL
                  PROVE  \/ heard[a] + timeout < now + 1
                         \/ a \in DOMAIN peer_map_ /\ peer_map_[a] = heard[a]
        BY <1>1 DEF HeardIsNoted
    <2>1. heard[a] \in 0 .. MaxTime /\ now \in 0 .. MaxTime
        BY DEF Inv, TypeOK
    <2>. QED
        BY <1>1, <2>1, TimeAssumption DEF Inv, HeardIsNoted
<1>. QED
    BY <1>1, <1>2, <1>3 DEF Inv, TypeOK, Uninitialised, UndefinedOnlyIfSwept, CallsGoOn

LEMMA NextInv == Inv /\ [Next]_vars => Inv'
<1>. SUFFICES ASSUME Inv, [Next]_vars PROVE Inv'
    OBVIOUS
<1>1. CASE \E c \in Caller : send_returns(c)
    BY <1>1, ReturnsInv
<1>2. CASE \E c \in Caller, a \in Address, garbage \in Uninitialised :
              foward_ping(c, a, garbage) \/ foward_dropped(c, a, garbage)
                  \/ foward_sends(c, a, garbage)
    BY <1>2, PingInv, DroppedInv, SendsInv
<1>3. CASE tick
    BY <1>3, TickInv
<1>4. CASE UNCHANGED vars
    BY <1>4 DEF vars, Inv, TypeOK, Uninitialised, UndefinedOnlyIfSwept, CallsGoOn, HeardIsNoted
<1>. QED
    BY <1>1, <1>2, <1>3, <1>4 DEF Next, anything

LEMMA Invariance == Spec => []Inv
    BY InitInv, NextInv, PTL DEF Spec

(* Every variable keeps its type.                                          *)
THEOREM TypeCorrect == Spec => []TypeOK
<1>1. Inv => TypeOK
    BY DEF Inv
<1>. QED
    BY <1>1, Invariance, PTL

(* A peer that was heard no longer than timeout ago has its entry, however *)
(* many calls sweep the map, and whatever time a new entry begins with.    *)
THEOREM HeardPeersAreKnown == Spec => []HeardPeersStay
<1>1. Inv => HeardPeersStay
    <2>. SUFFICES ASSUME Inv, ~undefined, NEW a \in Address, heard[a] # NULL,
                         now - heard[a] <= timeout
                  PROVE  a \in DOMAIN peer_map_
        BY DEF HeardPeersStay
    <2>1. heard[a] \in 0 .. MaxTime /\ now \in 0 .. MaxTime
        BY DEF Inv, TypeOK
    <2>. QED
        BY <2>1, TimeAssumption DEF Inv, HeardIsNoted
<1>. QED
    BY <1>1, Invariance, PTL

(* What is undefined in foward needs a second call that sweeps during the  *)
(* send of the first.                                                      *)
THEOREM OneCallerIsSafe == Spec => []UndefinedOnlyIfSwept
<1>1. Inv => UndefinedOnlyIfSwept
    BY DEF Inv
<1>. QED
    BY <1>1, Invariance, PTL

=============================================================================
