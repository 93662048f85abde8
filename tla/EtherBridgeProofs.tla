-------------------------- MODULE EtherBridgeProofs --------------------------
(***************************************************************************)
(* Proofs about EtherBridge, for any stations and any timeout.             *)
(***************************************************************************)
EXTENDS EtherBridge, TLAPS

(* Where a loop stands: it has called the entries up to its iterator that  *)
(* stayed, and nothing beyond.  Who learns or forgets a station does not   *)
(* touch that, because the map is ordered.                                 *)
LoopInv == \A c \in Worker :
    /\ stayed[c] \subseteq DOMAIN table_
    /\ call[c] # "broadcast" => sent[c] = {}
    /\ call[c] = "broadcast" =>
        /\ at[c] \in Mac
        /\ \A m \in sent[c] : m <= at[c] /\ m # src[c]
        /\ \A m \in stayed[c] : m <= at[c] => m \in sent[c] \cup {src[c]}

Inv == TypeOK /\ LoopInv

(* A time stamp of an entry is a time stamp after another frame.           *)
LEMMA UpdateFacts ==
    ASSUME TypeOK, NEW s \in Mac, NEW c \in Worker, NEW from \in From(c)
    PROVE  /\ DOMAIN update(s, c, from) = Active \cup {s} /\ Active \subseteq DOMAIN table_
           /\ Active \cup {s} \subseteq Mac
           /\ \A m \in Active \cup {s} : update(s, c, from)[m] \in Record
BY DEF TypeOK, update, Active, Record, From

(* The variables of the turn keep their types.                             *)
LEMMA TurnFacts ==
    ASSUME TypeOK, NEW c \in Worker, NEW heard \in Peer \cup {NULL},
           NEW since \in 0 .. MaxTime, Turn(c, heard, since)
    PROVE  /\ addr' \in Peer \cup {NULL} /\ began' \in [Worker -> 0 .. MaxTime]
           /\ \A w \in Worker \ {c} : began'[w] = began[w]
           /\ call'[c] = "none" => began'[c] = 0
           /\ call'[c] # "none" => began'[c] = since
<1>1. 0 \in 0 .. MaxTime
    BY TimeAssumption
<1>. QED
    BY <1>1 DEF TypeOK, Turn

(* The first of the entries that remain keeps a loop's place, and none     *)
(* remains only when all that it has to call are called.                   *)
LEMMA RestFacts ==
    ASSUME NEW entries \in SUBSET Mac, NEW m \in Mac \cup {-1}, NEW s,
           NEW called, NEW keep \in SUBSET entries,
           \A k \in called : k <= m /\ k # s,
           \A k \in keep : k <= m => k \in called \cup {s},
           called \subseteq Mac
    PROVE  /\ Rest(entries, m, s) = {} => keep \subseteq called \cup {s}
           /\ \A n \in Rest(entries, m, s) : (\A k \in Rest(entries, m, s) : n <= k) =>
                /\ n \in entries /\ n \notin called \cup {s}
                /\ \A k \in called \cup {n} : k <= n /\ k # s
                /\ \A k \in keep : k <= n => k \in called \cup {n, s}
<1>1. Mac \subseteq Nat
    BY MacAssumption
<1>2. ASSUME Rest(entries, m, s) = {}, NEW k \in keep, k # s PROVE k \in called
    <2>1. k \in Nat /\ ~(k > m)
        BY <1>1, <1>2 DEF Rest
    <2>. QED
        BY <1>1, <1>2, <2>1
<1>3. ASSUME NEW n \in Rest(entries, m, s), \A k \in Rest(entries, m, s) : n <= k
      PROVE  /\ n \in entries /\ n \notin called \cup {s}
             /\ \A k \in called \cup {n} : k <= n /\ k # s
             /\ \A k \in keep : k <= n => k \in called \cup {n, s}
    <2>1. /\ n \in entries /\ n \in Nat /\ n > m /\ n # s
          /\ \A k \in entries : k > m /\ k # s => n <= k
        BY <1>1, <1>3 DEF Rest
    <2>2. \A k \in called \cup {n} : k <= n /\ k # s
        BY <1>1, <2>1
    <2>3. ASSUME NEW k \in keep, k <= n, k # s, k # n PROVE k \in called
        <3>1. k \in Nat /\ ~(k > m)
            BY <1>1, <2>1, <2>3
        <3>. QED
            BY <1>1, <2>3, <3>1
    <2>4. n \notin called
        BY <1>1, <2>1
    <2>. QED
        BY <2>1, <2>2, <2>3, <2>4
<1>. QED
    BY <1>2, <1>3

LEMMA InitInv == Init => Inv
<1>. SUFFICES ASSUME Init PROVE Inv
    OBVIOUS
<1>1. DOMAIN table_ = {}
    BY DEF Init
<1>2. 0 \in 0 .. MaxTime
    BY TimeAssumption
<1>. QED
    BY <1>1, <1>2 DEF Init, Inv, TypeOK, LoopInv

(* forward: the worker that calls it begins a loop at the front; a loop of *)
(* the other keeps its place while entries come and go.                    *)
LEMMA ForwardInv ==
    ASSUME Inv, NEW c \in Worker, NEW s \in Mac, NEW d \in Mac \cup {NULL},
           NEW from \in From(c), forward(c, s, d, from)
    PROVE  /\ Inv'
           /\ \A w \in Worker : call[w] = "broadcast" => call'[w] = "broadcast" /\ at'[w] = at[w]
           /\ \A w \in Worker : call'[w] = "broadcast" /\ at'[w] # at[w] =>
                at'[w] \notin sent[w] \cup {src'[w]} /\ at'[w] \in DOMAIN table_'
           /\ call'[c] = "broadcast" => at'[c] \in DOMAIN table_'
<1>. DEFINE tab == update(s, c, from)
<1>1. /\ table_' = tab /\ DOMAIN tab = Active \cup {s}
      /\ Active \subseteq DOMAIN table_ /\ Active \cup {s} \subseteq Mac
      /\ \A m \in Active \cup {s} : tab[m] \in Record
    BY UpdateFacts DEF Inv, forward
<1>. HIDE DEF tab
<1>2. /\ call[c] = "none" /\ now' = now /\ undefined' = undefined
      /\ dangling' \subseteq Worker /\ s \in Mac
      /\ src' = [src EXCEPT ![c] = s]
      /\ stayed' = [w \in Worker |-> IF w = c THEN DOMAIN table_' ELSE stayed[w] \cap Active]
      /\ addr' \in Peer \cup {NULL} /\ began' \in [Worker -> 0 .. MaxTime]
    <2>1. from \in Peer \cup {NULL} /\ now \in 0 .. MaxTime
        BY DEF From, Inv, TypeOK
    <2>. QED
        BY <2>1, TurnFacts DEF forward, Idle, clean_up, Inv, TypeOK
<1>3. /\ call \in [Worker -> {"none", "unicast", "broadcast"}]
      /\ at \in [Worker -> Mac \cup {NULL}] /\ sent \in [Worker -> SUBSET Mac]
      /\ src \in [Worker -> Mac \cup {NULL}]
    BY DEF Inv, TypeOK
<1>4. /\ call' \in [Worker -> {"none", "unicast", "broadcast"}]
      /\ at' \in [Worker -> Mac \cup {NULL}] /\ sent' \in [Worker -> SUBSET Mac]
      /\ \A w \in Worker \ {c} : UNCHANGED <<call[w], at[w], sent[w]>>
      /\ call'[c] # "broadcast" => sent'[c] = {}
      /\ call'[c] = "broadcast" =>
            /\ at'[c] \in Mac
            /\ \A k \in sent'[c] : k <= at'[c] /\ k # s
            /\ \A k \in DOMAIN tab : k <= at'[c] => k \in sent'[c] \cup {s}
            /\ at'[c] \in DOMAIN tab /\ at'[c] # s
    <2>1. CASE Query(c, d) /\ d # NULL
        BY <1>2, <1>3, <2>1 DEF Query, Inv, LoopInv
    <2>2. CASE Advance(c, Rest(DOMAIN table_', -1, s), {})
        <3>. DEFINE rest == Rest(DOMAIN tab, -1, s)
        <3>1. DOMAIN tab \in SUBSET Mac /\ DOMAIN table_' = DOMAIN tab
            BY <1>1
        <3>2. rest = DOMAIN tab \ {s}
            <4>1. \A k \in Nat : k > -1
                OBVIOUS
            <4>. QED
                BY <3>1, <4>1, MacAssumption DEF Rest
        <3>3. \A n \in rest : (\A k \in rest : n <= k) =>
                /\ n \in DOMAIN tab /\ n # s
                /\ \A k \in {} \cup {n} : k <= n /\ k # s
                /\ \A k \in DOMAIN tab : k <= n => k \in {} \cup {n, s}
            <4>1. \A k \in Nat : k <= k
                OBVIOUS
            <4>2. DOMAIN tab \subseteq Nat
                BY <3>1, MacAssumption
            <4>. HIDE DEF rest
            <4>. QED
                BY <3>2, <4>1, <4>2
        <3>. HIDE DEF rest
        <3>4. Advance(c, rest, {})
            BY <2>2, <3>1 DEF rest
        <3>5. CASE rest = {} /\ at' = [at EXCEPT ![c] = NULL] /\ sent' = [sent EXCEPT ![c] = {}]
                   /\ call' = [call EXCEPT ![c] = "none"]
            BY <1>3, <3>5
        <3>6. ASSUME NEW n \in rest, \A k \in rest : n <= k,
                     at' = [at EXCEPT ![c] = n], sent' = [sent EXCEPT ![c] = {} \cup {n}],
                     call' = [call EXCEPT ![c] = "broadcast"]
              PROVE  at'[c] = n /\ sent'[c] = {n} /\ call'[c] = "broadcast" /\ n \in Mac
            BY <1>3, <3>1, <3>3, <3>6
        <3>. QED
            BY <1>1, <1>3, <3>1, <3>3, <3>4, <3>5, <3>6 DEF Advance
    <2>. QED
        BY <2>1, <2>2 DEF forward
<1>5. TypeOK'
    <2>1. now' \in 0 .. MaxTime /\ undefined' \in BOOLEAN
        BY <1>2 DEF Inv, TypeOK
    <2>2. /\ DOMAIN table_' \subseteq Mac
          /\ \A m \in DOMAIN table_' : table_'[m] \in Record
        BY <1>1
    <2>3. src' \in [Worker -> Mac \cup {NULL}]
        BY <1>2, <1>3
    <2>4. stayed' \in [Worker -> SUBSET Mac]
        BY <1>1, <1>2, <2>2 DEF Inv, TypeOK
    <2>. QED
        BY <1>2, <1>4, <2>1, <2>2, <2>3, <2>4 DEF TypeOK, Record
<1>6. LoopInv'
    <2>1. SUFFICES ASSUME NEW w \in Worker
          PROVE  /\ stayed'[w] \subseteq DOMAIN table_'
                 /\ call'[w] # "broadcast" => sent'[w] = {}
                 /\ call'[w] = "broadcast" =>
                     /\ at'[w] \in Mac
                     /\ \A m \in sent'[w] : m <= at'[w] /\ m # src'[w]
                     /\ \A m \in stayed'[w] : m <= at'[w] => m \in sent'[w] \cup {src'[w]}
        BY DEF LoopInv
    <2>2. CASE w = c
        BY <1>1, <1>2, <1>3, <1>4, <2>2
    <2>3. CASE w # c
        BY <1>1, <1>2, <1>3, <1>4, <2>3 DEF Inv, LoopInv
    <2>. QED
        BY <2>2, <2>3
<1>7. sent[c] = {} /\ src'[c] = s
    BY <1>2, <1>3 DEF Inv, LoopInv
<1>. QED
    BY <1>1, <1>2, <1>4, <1>5, <1>6, <1>7 DEF Inv

LEMMA RuntInv ==
    ASSUME Inv, NEW c \in Worker, forward_runt(c) PROVE Inv'
<1>1. /\ table_' = [m \in Active |-> table_[m]]
      /\ stayed' = [w \in Worker |-> stayed[w] \cap Active]
      /\ dangling' \subseteq Worker
      /\ UNCHANGED <<now, undefined, call, src, at, sent, addr, began>>
    BY DEF forward_runt, clean_up, loop, turn, Inv, TypeOK
<1>2. Active \subseteq DOMAIN table_
    BY DEF Active
<1>3. TypeOK'
    BY <1>1, <1>2 DEF Inv, TypeOK, Record
<1>4. LoopInv'
    BY <1>1, <1>2 DEF Inv, LoopInv
<1>. QED
    BY <1>3, <1>4 DEF Inv

(* ++it goes to the next entry there is now.                               *)
LEMMA BroadcastInv ==
    ASSUME Inv, NEW c \in Worker, broadcast_returns(c)
    PROVE  /\ Inv'
           /\ call'[c] = "none" => stayed[c] \ {src[c]} \subseteq sent[c]
           /\ at'[c] # at[c] /\ call'[c] = "broadcast" =>
                at'[c] \notin sent[c] \cup {src[c]} /\ at'[c] \in DOMAIN table_
           /\ \A w \in Worker \ {c} : UNCHANGED <<call[w], at[w]>>
<1>1. /\ call[c] = "broadcast" /\ UNCHANGED <<now, table_, dangling, stayed, src>>
      /\ addr' \in Peer \cup {NULL} /\ began' \in [Worker -> 0 .. MaxTime]
    <2>1. addr \in Peer \cup {NULL} /\ began[c] \in 0 .. MaxTime
        BY DEF Inv, TypeOK
    <2>. QED
        BY <2>1, TurnFacts DEF broadcast_returns, Inv
<1>2. /\ call \in [Worker -> {"none", "unicast", "broadcast"}]
      /\ at \in [Worker -> Mac \cup {NULL}] /\ sent \in [Worker -> SUBSET Mac]
      /\ src \in [Worker -> Mac \cup {NULL}] /\ DOMAIN table_ \subseteq Mac
    BY DEF Inv, TypeOK
<1>3. /\ at[c] \in Mac /\ stayed[c] \subseteq DOMAIN table_
      /\ \A m \in sent[c] : m <= at[c] /\ m # src[c]
      /\ \A m \in stayed[c] : m <= at[c] => m \in sent[c] \cup {src[c]}
    BY <1>1 DEF Inv, LoopInv
<1>4. CASE UNCHANGED <<call, at, sent>> /\ undefined' = TRUE
    BY <1>1, <1>4 DEF Inv, TypeOK, LoopInv, Record
<1>5. CASE /\ Advance(c, Rest(DOMAIN table_, at[c], src[c]), sent[c])
           /\ UNCHANGED undefined
    <2>. DEFINE keep == stayed[c]
    <2>1. /\ call' \in [Worker -> {"none", "unicast", "broadcast"}]
          /\ at' \in [Worker -> Mac \cup {NULL}] /\ sent' \in [Worker -> SUBSET Mac]
          /\ \A w \in Worker \ {c} : UNCHANGED <<call[w], at[w], sent[w]>>
          /\ call'[c] \in {"none", "broadcast"}
          /\ call'[c] = "none" => sent'[c] = {} /\ keep \subseteq sent[c] \cup {src[c]}
          /\ call'[c] = "broadcast" =>
               /\ at'[c] \in DOMAIN table_ /\ at'[c] \notin sent[c] \cup {src[c]}
               /\ \A k \in sent'[c] : k <= at'[c] /\ k # src[c]
               /\ \A k \in keep : k <= at'[c] => k \in sent'[c] \cup {src[c]}
        <3>. DEFINE rest == Rest(DOMAIN table_, at[c], src[c])
        <3>1. /\ rest = {} => keep \subseteq sent[c] \cup {src[c]}
              /\ \A n \in rest : (\A k \in rest : n <= k) =>
                    /\ n \in DOMAIN table_ /\ n \notin sent[c] \cup {src[c]}
                    /\ \A k \in sent[c] \cup {n} : k <= n /\ k # src[c]
                    /\ \A k \in keep : k <= n => k \in sent[c] \cup {n, src[c]}
            <4>. DEFINE entries == DOMAIN table_
                        m == at[c]
                        s == src[c]
                        called == sent[c]
            <4>1. /\ entries \in SUBSET Mac /\ m \in Mac \cup {-1}
                  /\ keep \in SUBSET entries /\ called \subseteq Mac
                  /\ \A k \in called : k <= m /\ k # s
                  /\ \A k \in keep : k <= m => k \in called \cup {s}
                BY <1>2, <1>3
            <4>. HIDE DEF entries, m, s, called, keep
            <4>2. /\ Rest(entries, m, s) = {} => keep \subseteq called \cup {s}
                  /\ \A n \in Rest(entries, m, s) : (\A k \in Rest(entries, m, s) : n <= k) =>
                        /\ n \in entries /\ n \notin called \cup {s}
                        /\ \A k \in called \cup {n} : k <= n /\ k # s
                        /\ \A k \in keep : k <= n => k \in called \cup {n, s}
                BY ONLY <4>1, RestFacts
            <4>. QED
                BY <4>2 DEF entries, m, s, called
        <3>. HIDE DEF rest
        <3>2. Advance(c, rest, sent[c])
            BY <1>5 DEF rest
        <3>3. CASE rest = {} /\ at' = [at EXCEPT ![c] = NULL] /\ sent' = [sent EXCEPT ![c] = {}]
                   /\ call' = [call EXCEPT ![c] = "none"]
            BY <1>2, <3>1, <3>3
        <3>4. ASSUME NEW n \in rest, \A k \in rest : n <= k,
                     at' = [at EXCEPT ![c] = n], sent' = [sent EXCEPT ![c] = sent[c] \cup {n}],
                     call' = [call EXCEPT ![c] = "broadcast"]
              PROVE  /\ at'[c] = n /\ sent'[c] = sent[c] \cup {n} /\ call'[c] = "broadcast"
                     /\ n \in Mac /\ sent[c] \cup {n} \in SUBSET Mac
            BY <1>2, <3>1, <3>4
        <3>. QED
            BY <1>2, <3>1, <3>2, <3>3, <3>4 DEF Advance
    <2>2. TypeOK'
        BY <1>1, <1>5, <2>1 DEF Inv, TypeOK, Record
    <2>3. LoopInv'
        <3>1. SUFFICES ASSUME NEW w \in Worker
              PROVE  /\ stayed'[w] \subseteq DOMAIN table_'
                     /\ call'[w] # "broadcast" => sent'[w] = {}
                     /\ call'[w] = "broadcast" =>
                         /\ at'[w] \in Mac
                         /\ \A m \in sent'[w] : m <= at'[w] /\ m # src'[w]
                         /\ \A m \in stayed'[w] : m <= at'[w] => m \in sent'[w] \cup {src'[w]}
            BY DEF LoopInv
        <3>2. CASE w = c
            BY <1>1, <1>2, <1>3, <2>1, <3>2
        <3>3. CASE w # c
            BY <1>1, <2>1, <3>3 DEF Inv, LoopInv
        <3>. QED
            BY <3>2, <3>3
    <2>. QED
        BY <2>1, <2>2, <2>3 DEF Inv
<1>. QED
    BY <1>4, <1>5 DEF broadcast_returns

LEMMA NextInv == Inv /\ [Next]_vars => Inv'
<1>. SUFFICES ASSUME Inv, [Next]_vars PROVE Inv'
    OBVIOUS
<1>1. ASSUME NEW c \in Worker, NEW s \in Mac, NEW d \in Mac \cup {NULL},
           NEW from \in From(c), forward(c, s, d, from)
      PROVE  Inv'
    BY <1>1, ForwardInv
<1>2. ASSUME NEW c \in Worker, forward_runt(c) \/ broadcast_returns(c) PROVE Inv'
    BY <1>2, RuntInv, BroadcastInv
<1>3. ASSUME NEW c \in Worker, unicast_returns(c) PROVE Inv'
    <2>1. addr \in Peer \cup {NULL} /\ began[c] \in 0 .. MaxTime
        BY DEF Inv, TypeOK
    <2>2. addr' \in Peer \cup {NULL} /\ began' \in [Worker -> 0 .. MaxTime]
        BY <1>3, <2>1, TurnFacts DEF unicast_returns, Inv
    <2>. QED
        BY <1>3, <2>2 DEF unicast_returns, Inv, TypeOK, LoopInv, Record
<1>4. CASE tick
    <2>1. now' \in 0 .. MaxTime
        BY <1>4, TimeAssumption DEF tick, Inv, TypeOK
    <2>. QED
        BY <1>4, <2>1 DEF tick, loop, turn, Inv, TypeOK, LoopInv, Record
<1>5. CASE UNCHANGED vars
    BY <1>5 DEF vars, loop, turn, Inv, TypeOK, LoopInv, Record
<1>. QED
    BY <1>1, <1>2, <1>3, <1>4, <1>5 DEF Next, anything

LEMMA Invariance == Spec => []Inv
    BY InitInv, NextInv, PTL DEF Spec

(* Every variable keeps its type.                                          *)
THEOREM TypeCorrect == Spec => []TypeOK
<1>1. Inv => TypeOK
    BY DEF Inv
<1>. QED
    BY <1>1, Invariance, PTL

-----------------------------------------------------------------------------
(* What each step does to the loop of a worker.                            *)
LEMMA StepOfLoop ==
    ASSUME Inv, [Next]_vars, NEW c \in Worker
    PROVE  /\ call[c] = "broadcast" /\ call'[c] = "none" =>
                stayed[c] \ {src[c]} \subseteq sent[c]
           /\ call'[c] = "broadcast" /\ at'[c] # at[c] =>
                at'[c] \notin sent[c] \cup {src'[c]} /\ at'[c] \in DOMAIN table_'
<1>. DEFINE Same(w) == /\ call[w] = "broadcast" => call'[w] = "broadcast"
                       /\ call'[w] = "broadcast" => at'[w] = at[w]
<1>1. ASSUME NEW w \in Worker, NEW s \in Mac, NEW d \in Mac \cup {NULL},
             NEW from \in From(w), forward(w, s, d, from)
      PROVE  /\ call[c] = "broadcast" => call'[c] = "broadcast" /\ at'[c] = at[c]
             /\ call'[c] = "broadcast" /\ at'[c] # at[c] =>
                    at'[c] \notin sent[c] \cup {src'[c]} /\ at'[c] \in DOMAIN table_'
    BY <1>1, ForwardInv
<1>2. ASSUME NEW w \in Worker, broadcast_returns(w)
      PROVE  /\ call[c] = "broadcast" /\ call'[c] = "none" =>
                    stayed[c] \ {src[c]} \subseteq sent[c]
             /\ call'[c] = "broadcast" /\ at'[c] # at[c] =>
                    at'[c] \notin sent[c] \cup {src'[c]} /\ at'[c] \in DOMAIN table_'
    <2>1. UNCHANGED <<table_, src>>
        BY <1>2 DEF broadcast_returns
    <2>. QED
        BY <1>2, <2>1, BroadcastInv
<1>3. ASSUME NEW w \in Worker, unicast_returns(w) PROVE Same(c)
    BY <1>3 DEF unicast_returns, Inv, TypeOK
<1>4. ASSUME \/ \E w \in Worker : forward_runt(w)
             \/ tick \/ anything \/ UNCHANGED vars
      PROVE  Same(c)
    BY <1>4 DEF forward_runt, tick, anything, vars, loop
<1>. QED
    BY <1>1, <1>2, <1>3, <1>4 DEF Next

(* Whatever the other worker learns or forgets between two handler calls,  *)
(* a broadcast that ends has been sent to every other station that stayed. *)
THEOREM NoStationIsMissed == Spec => BroadcastReachesAll
<1>1. Inv /\ [Next]_vars => [\A c \in Worker :
        call[c] = "broadcast" /\ call'[c] = "none" =>
            stayed[c] \ {src[c]} \subseteq sent[c]]_vars
    BY StepOfLoop
<1>. QED
    BY <1>1, Invariance, PTL DEF Spec, BroadcastReachesAll

(* And to none twice, to none that is unknown, and not back to its source. *)
THEOREM NoStationIsServedTwice == Spec => BroadcastOnce
<1>1. Inv /\ [Next]_vars => [\A c \in Worker :
        call'[c] = "broadcast" /\ at'[c] # at[c] =>
            at'[c] \notin sent[c] \cup {src'[c]} /\ at'[c] \in DOMAIN table_']_vars
    BY StepOfLoop
<1>. QED
    BY <1>1, Invariance, PTL DEF Spec, BroadcastOnce

-----------------------------------------------------------------------------
(* clean_up leaves no entry that is too old, and update makes a new one.   *)
LEMMA FreshFacts ==
    ASSUME TypeOK, NEW s \in Mac, NEW c \in Worker, NEW from \in From(c),
           NEW m \in DOMAIN update(s, c, from)
    PROVE  now - update(s, c, from)[m].last_active <= timeout
<1>1. now \in Nat /\ timeout \in Nat
    BY TimeAssumption DEF TypeOK
<1>2. CASE m = s
    BY <1>1, <1>2 DEF update
<1>3. CASE m # s
    <2>1. m \in Active /\ m \in DOMAIN table_ /\ update(s, c, from)[m] = table_[m]
        BY <1>3 DEF update, Active
    <2>2. table_[m].last_active \in Nat
        BY <2>1, TimeAssumption DEF TypeOK, Record
    <2>3. ~(now - table_[m].last_active > timeout)
        BY <2>1 DEF Active
    <2>. QED
        BY <1>1, <2>1, <2>2, <2>3
<1>. QED
    BY <1>2, <1>3

(* Only forward begins a unicast, and only to an entry of its new table.   *)
LEMMA UnicastStep ==
    ASSUME Inv, [Next]_vars, NEW c \in Worker, call[c] = "none", call'[c] = "unicast"
    PROVE  now - table_'[at'[c]].last_active <= timeout
<1>. USE DEF Inv, TypeOK
<1>1. ASSUME NEW w \in Worker, NEW s \in Mac, NEW d \in Mac \cup {NULL},
             NEW from \in From(w), forward(w, s, d, from)
      PROVE  now - table_'[at'[c]].last_active <= timeout
    <2>1. table_' = update(s, w, from)
        BY <1>1 DEF forward
    <2>2. ~Advance(w, Rest(DOMAIN table_', -1, s), {})
        BY DEF Advance
    <2>3. Query(w, d)
        BY <1>1, <2>2 DEF forward
    <2>4. w = c /\ at'[c] = d /\ d \in DOMAIN table_'
        BY <2>3 DEF Query
    <2>. QED
        BY <2>1, <2>4, FreshFacts
<1>2. ASSUME NEW w \in Worker, forward_runt(w) \/ unicast_returns(w) \/ broadcast_returns(w)
      PROVE  FALSE
    BY <1>2 DEF forward_runt, loop, unicast_returns, broadcast_returns, Advance
<1>3. CASE tick \/ anything \/ UNCHANGED vars
    BY <1>3 DEF tick, anything, vars, loop
<1>. QED
    BY <1>1, <1>2, <1>3 DEF Next

(* No frame is sent to where its destination was heard too long ago, since *)
(* every forward cleans the table up before it looks anything up.          *)
THEOREM OldPlacesAreForgotten == Spec => UnicastIsFresh
<1>1. Inv /\ [Next]_vars => [\A c \in Worker :
        call[c] = "none" /\ call'[c] = "unicast" =>
            now - table_'[at'[c]].last_active <= timeout]_vars
    BY UnicastStep
<1>. QED
    BY <1>1, Invariance, PTL DEF Spec, UnicastIsFresh

-----------------------------------------------------------------------------
(* While the clock has not moved on since a broadcast began, every entry   *)
(* is too young for clean_up, so the one it stands at is still there.      *)
FreshInv == \A c \in Worker :
    /\ began[c] <= now
    /\ c \in dangling => call[c] = "broadcast"
    /\ call[c] = "broadcast" /\ began[c] = now =>
        /\ c \notin dangling /\ at[c] \in DOMAIN table_
        /\ \A m \in DOMAIN table_ : now - table_[m].last_active <= timeout

(* A clean_up erases nothing under a loop that began in the same second.   *)
LEMMA CleanUpFresh ==
    ASSUME TypeOK, FreshInv, clean_up, NEW c \in Worker
    PROVE  /\ c \in dangling' => call[c] = "broadcast"
           /\ call[c] = "broadcast" /\ began[c] = now =>
                /\ c \notin dangling' /\ at[c] \in Active
                /\ \A m \in Active : now - table_[m].last_active <= timeout
<1>1. ASSUME NEW m \in DOMAIN table_, now - table_[m].last_active <= timeout
      PROVE  ~(now - table_[m].last_active > timeout)
    <2>1. now \in Nat /\ timeout \in Nat /\ table_[m].last_active \in Nat
        BY TimeAssumption DEF TypeOK, Record
    <2>. QED
        BY <1>1, <2>1
<1>. QED
    BY <1>1 DEF FreshInv, clean_up, Active

LEMMA ForwardFresh ==
    ASSUME Inv, FreshInv, NEW w \in Worker, NEW s \in Mac, NEW d \in Mac \cup {NULL},
           NEW from \in From(w), forward(w, s, d, from)
    PROVE  FreshInv'
<1>1. /\ clean_up /\ now' = now /\ call[w] = "none" /\ table_' = update(s, w, from)
      /\ Turn(w, from, now) /\ now \in 0 .. MaxTime /\ from \in Peer \cup {NULL}
    BY DEF forward, Idle, From, Inv, TypeOK
<1>2. /\ DOMAIN table_' = Active \cup {s}
      /\ \A m \in DOMAIN table_' : now - table_'[m].last_active <= timeout
    BY <1>1, UpdateFacts, FreshFacts DEF Inv
<1>3. /\ \A c \in Worker \ {w} : began'[c] = began[c] /\ call'[c] = call[c] /\ at'[c] = at[c]
      /\ call'[w] = "broadcast" => began'[w] = now /\ at'[w] \in DOMAIN table_'
      /\ began'[w] <= now
    <2>1. 0 <= now /\ now <= now
        BY <1>1
    <2>2. \A c \in Worker \ {w} : call'[c] = call[c] /\ at'[c] = at[c]
        BY DEF forward, Query, Advance, Inv, TypeOK
    <2>. QED
        BY <1>1, <2>1, <2>2, TurnFacts, ForwardInv DEF Inv
<1>4. ASSUME NEW c \in Worker
      PROVE  /\ began'[c] <= now'
             /\ c \in dangling' => call'[c] = "broadcast"
             /\ call'[c] = "broadcast" /\ began'[c] = now' =>
                    c \notin dangling' /\ at'[c] \in DOMAIN table_'
    <2>1. CASE c = w
        BY <1>1, <1>3, <2>1, CleanUpFresh DEF Inv
    <2>2. CASE c # w
        BY <1>1, <1>2, <1>3, <2>2, CleanUpFresh DEF Inv, FreshInv
    <2>. QED
        BY <2>1, <2>2
<1>. QED
    BY <1>1, <1>2, <1>4 DEF FreshInv

LEMMA ReturnsFresh ==
    ASSUME Inv, FreshInv, NEW w \in Worker, unicast_returns(w) \/ broadcast_returns(w)
    PROVE  FreshInv'
<1>1. /\ UNCHANGED <<now, table_, dangling>> /\ Turn(w, addr, began[w])
      /\ addr \in Peer \cup {NULL} /\ began[w] \in 0 .. MaxTime /\ now \in Nat
      /\ \A c \in Worker \ {w} : call'[c] = call[c] /\ at'[c] = at[c]
    BY DEF unicast_returns, broadcast_returns, Advance, Inv, TypeOK
<1>2. \A c \in Worker \ {w} : began'[c] = began[c]
    BY <1>1, TurnFacts DEF Inv
<1>3. began'[w] <= now
    <2>1. 0 <= now /\ began[w] <= now
        BY <1>1 DEF FreshInv
    <2>. QED
        BY <1>1, <2>1, TurnFacts DEF Inv
<1>4. CASE unicast_returns(w)
    <2>1. call[w] = "unicast" /\ call'[w] = "none"
        BY <1>4 DEF unicast_returns, Inv, TypeOK
    <2>. QED
        BY <1>1, <1>2, <1>3, <2>1 DEF FreshInv
<1>5. CASE broadcast_returns(w)
    <2>1. call[w] = "broadcast"
        BY <1>5 DEF broadcast_returns
    <2>2. call'[w] = "broadcast" => began'[w] = began[w]
        BY <1>1, TurnFacts DEF Inv
    <2>3. w \in dangling => call'[w] = "broadcast"
        BY <1>5, <2>1 DEF broadcast_returns
    <2>4. call'[w] = "broadcast" => at'[w] = at[w] \/ at'[w] \in DOMAIN table_
        BY <1>5, BroadcastInv
    <2>. QED
        BY <1>1, <1>2, <1>3, <2>1, <2>2, <2>3, <2>4 DEF FreshInv
<1>. QED
    BY <1>4, <1>5

LEMMA NextFresh == Inv /\ FreshInv /\ [Next]_vars => FreshInv'
<1>. SUFFICES ASSUME Inv, FreshInv, [Next]_vars PROVE FreshInv'
    OBVIOUS
<1>1. ASSUME NEW w \in Worker, forward_runt(w) PROVE FreshInv'
    <2>1. /\ clean_up /\ table_' = [m \in Active |-> table_[m]]
          /\ UNCHANGED <<now, call, at, began>>
        BY <1>1 DEF forward_runt, loop, turn
    <2>. QED
        BY <2>1, CleanUpFresh DEF Inv, FreshInv
<1>2. CASE tick
    <2>1. \A c \in Worker : began[c] \in Nat /\ now \in Nat
        BY DEF Inv, TypeOK
    <2>2. \A c \in Worker : began[c] <= now + 1 /\ began[c] # now + 1
        BY <2>1 DEF FreshInv
    <2>. QED
        BY <1>2, <2>2 DEF tick, loop, turn, FreshInv
<1>3. CASE anything \/ UNCHANGED vars
    BY <1>3 DEF anything, vars, loop, turn, FreshInv
<1>. QED
    BY <1>1, <1>2, <1>3, ForwardFresh, ReturnsFresh DEF Next

(* Without a suspension across a second no iterator of a broadcast is left *)
(* pointing to an erased entry, however old the entries were.              *)
THEOREM NothingDanglesWithinASecond == Spec => []DanglesOnlyAcrossTicks
<1>1. Init => FreshInv
    <2>1. 0 <= 0
        OBVIOUS
    <2>. QED
        BY <2>1 DEF Init, FreshInv
<1>2. Inv /\ FreshInv => DanglesOnlyAcrossTicks
    <2>1. ASSUME Inv, NEW c \in Worker, began[c] <= now, began[c] # now PROVE began[c] < now
        BY <2>1 DEF Inv, TypeOK
    <2>. QED
        BY <2>1 DEF Inv, TypeOK, FreshInv, DanglesOnlyAcrossTicks
<1>. QED
    BY <1>1, <1>2, NextFresh, Invariance, PTL DEF Spec

=============================================================================
