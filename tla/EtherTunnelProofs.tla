-------------------------- MODULE EtherTunnelProofs --------------------------
(***************************************************************************)
(* Proofs about EtherTunnel, for frames of any length and any clients.     *)
(***************************************************************************)
EXTENDS EtherTunnel, TLAPS

(* AES_encrypt writes into what it allocated, for every length.            *)
LEMMA CipherFits ==
    ASSUME NEW n \in Nat
    PROVE  /\ ciphertext_len(n) \in Nat /\ cipher_room(n) \in Nat
           /\ HEADER + ciphertext_len(n) <= cipher_room(n)
<1>. DEFINE q == n \div 16
<1>1. q \in Nat /\ 16 * q <= n
    OBVIOUS
<1>. HIDE DEF q
<1>2. ciphertext_len(n) = 16 * q + 16 /\ cipher_room(n) = n + 36 /\ HEADER = 20
    BY DEF ciphertext_len, cipher_room, HEADER, AES_BLOCK_SIZE, q
<1>. QED
    BY <1>1, <1>2

(* The datagram of a frame of up to 1471 bytes is read whole; one of up to *)
(* bridge_mtu bytes that is not read whole is not cut at a block.          *)
LEMMA CutIsNoticed ==
    ASSUME NEW n \in Nat
    PROVE  /\ n <= 1471 => HEADER + ciphertext_len(n) <= bridge_mtu
           /\ HEADER + ciphertext_len(n) <= bridge_mtu => n <= 1471
           /\ (bridge_mtu - HEADER) % AES_BLOCK_SIZE # 0
<1>. DEFINE q == n \div 16
<1>1. q \in Nat /\ 16 * q <= n /\ n < 16 * q + 16
    OBVIOUS
<1>. HIDE DEF q
<1>2. ciphertext_len(n) = 16 * q + 16 /\ HEADER = 20 /\ bridge_mtu = 1500
    BY DEF ciphertext_len, HEADER, AES_BLOCK_SIZE, bridge_mtu, q
<1>3. (1500 - 20) % 16 # 0
    OBVIOUS
<1>4. n <= 1471 => 20 + (16 * q + 16) <= 1500
    <2>1. n <= 1471 => q < 92
        BY <1>1
    <2>. QED
        BY <1>1, <2>1
<1>5. 20 + (16 * q + 16) <= 1500 => n <= 1471
    BY <1>1
<1>. QED
    BY <1>2, <1>3, <1>4, <1>5 DEF AES_BLOCK_SIZE

(* What is sealed: the same bytes, in a buffer as large as they are.       *)
LEMMA SealFacts ==
    ASSUME NEW p \in Plain
    PROVE  Seal(p) = [frame |-> p.frame, valid |-> p.valid, plaintext_len |-> p.size,
                      whole |-> HEADER + ciphertext_len(p.size), xored |-> TRUE,
                      size |-> HEADER + ciphertext_len(p.size),
                      room |-> HEADER + ciphertext_len(p.size)]
BY DEF Seal, xor_mess, AES_encrypt

(* A frame as the bridge read it: its first bridge_mtu bytes.              *)
IsRead(p) ==
    /\ p.frame \in Frame
    /\ p.size = Smaller(Length[p.frame], bridge_mtu) /\ p.valid = p.size
    /\ p \in Plain /\ p.size <= p.room

(* Such a frame, sealed.                                                   *)
IsSealed(d) ==
    /\ d \in Sealed /\ d.frame \in Frame
    /\ d.plaintext_len = Smaller(Length[d.frame], bridge_mtu)
    /\ d.valid = d.plaintext_len /\ d.xored
    /\ d.whole = HEADER + ciphertext_len(d.plaintext_len)
    /\ d.size = d.whole /\ d.size <= d.room

LEMMA ReadTapFacts ==
    ASSUME NEW f \in Frame PROVE IsRead(ReadTap(f)) /\ ReadTap(f).frame = f
<1>. DEFINE n == Smaller(Length[f], bridge_mtu)
<1>1. n \in Nat /\ n <= bridge_mtu /\ bridge_mtu \in Nat
    BY LengthAssumption DEF Smaller, bridge_mtu
<1>2. ReadTap(f) = [frame |-> f, valid |-> n, size |-> n, room |-> bridge_mtu]
    <2>1. resize(bridge_mtu, bridge_mtu, n) = bridge_mtu
        BY <1>1 DEF resize
    <2>. HIDE DEF n
    <2>. QED
        BY <2>1 DEF ReadTap, n
<1>. QED
    BY <1>1, <1>2 DEF IsRead, Plain

LEMMA SealIsSealed ==
    ASSUME NEW p, IsRead(p)
    PROVE  /\ IsSealed(Seal(p)) /\ Seal(p).frame = p.frame /\ ~EncryptOverruns(p)
<1>1. p \in Plain /\ p.size \in Nat /\ p.frame \in Frame /\ p.valid = p.size
    BY DEF IsRead, Plain
<1>2. /\ ciphertext_len(p.size) \in Nat /\ cipher_room(p.size) \in Nat
      /\ HEADER + ciphertext_len(p.size) <= cipher_room(p.size)
    BY <1>1, CipherFits
<1>3. HEADER + ciphertext_len(p.size) \in Nat
    BY <1>2 DEF HEADER, AES_BLOCK_SIZE
<1>4. Seal(p) \in Sealed
    <2>. DEFINE n == HEADER + ciphertext_len(p.size)
    <2>1. n \in Nat /\ p.valid \in Nat
        BY <1>1, <1>3
    <2>2. Seal(p) = [frame |-> p.frame, valid |-> p.valid, plaintext_len |-> p.size,
                     whole |-> n, xored |-> TRUE, size |-> n, room |-> n]
        BY <1>1, SealFacts
    <2>. HIDE DEF n
    <2>. QED
        BY <1>1, <2>1, <2>2 DEF Sealed
<1>5. ~EncryptOverruns(p)
    BY <1>2, <1>3 DEF EncryptOverruns
<1>6. IsSealed(Seal(p)) /\ Seal(p).frame = p.frame
    <2>. DEFINE n == HEADER + ciphertext_len(p.size)
    <2>1. n \in Nat /\ n <= n
        BY <1>3
    <2>2. Seal(p) = [frame |-> p.frame, valid |-> p.valid, plaintext_len |-> p.size,
                     whole |-> n, xored |-> TRUE, size |-> n, room |-> n]
        BY <1>1, SealFacts
    <2>3. Seal(p).plaintext_len = p.size /\ Seal(p).whole = n
        BY <2>2
    <2>. HIDE DEF n
    <2>. QED
        BY <1>1, <1>4, <2>1, <2>2, <2>3 DEF IsSealed, IsRead, n
<1>. QED
    BY <1>5, <1>6

(* Opening a datagram gives the frame that was sealed, or throws; it gives *)
(* it for frames of up to 1471 bytes, for which it does not throw.         *)
LEMMA OpenFacts ==
    ASSUME NEW d, IsSealed(d)
    PROVE  /\ \A p \in Opened(Received(d)) :
                IsRead(p) /\ p.frame = d.frame /\ Length[d.frame] <= 1471
           /\ ~OpenOverruns(Received(d))
           /\ MayThrow(Received(d)) => Long(d.frame)
<1>. DEFINE n == d.plaintext_len
            r == Received(d)
            cut == Smaller(d.size, bridge_mtu)
<1>1. /\ n \in Nat /\ d.size \in Nat /\ d.size = HEADER + ciphertext_len(n)
      /\ ciphertext_len(n) \in Nat /\ d.valid = n /\ d.whole = d.size
      /\ d.frame \in Frame /\ Length[d.frame] \in Nat /\ d \in Sealed
      /\ n = Smaller(Length[d.frame], bridge_mtu)
    BY CipherFits, LengthAssumption DEF IsSealed, Sealed
<1>2. cut \in Nat /\ cut <= bridge_mtu /\ bridge_mtu = 1500 /\ bridge_mtu \in Nat
    BY <1>1 DEF Smaller, bridge_mtu
<1>3. r = [frame |-> d.frame, valid |-> n, plaintext_len |-> n, whole |-> d.size,
           xored |-> FALSE, size |-> cut, room |-> bridge_mtu]
    <2>1. resize(bridge_mtu, bridge_mtu, cut) = bridge_mtu
        BY <1>2 DEF resize
    <2>2. d.xored = TRUE
        BY DEF IsSealed, Sealed
    <2>. HIDE DEF cut
    <2>. QED
        BY <1>1, <2>1, <2>2 DEF Received, xor_mess, cut
<1>4. CASE n <= 1471
    <2>1. cut = d.size /\ HEADER + ciphertext_len(n) <= 1500
        BY <1>1, <1>2, <1>4, CutIsNoticed DEF Smaller
    <2>2. Length[d.frame] <= 1471 /\ n = Length[d.frame]
        BY <1>1, <1>2, <1>4 DEF Smaller
    <2>3. cipher_size(r) = ciphertext_len(n)
        BY <1>1, <1>3, <2>1 DEF cipher_size, HEADER, AES_BLOCK_SIZE
    <2>4. ciphertext_len(n) > 0 /\ ciphertext_len(n) % 16 = 0 /\ n < d.size
        <3>. DEFINE q == n \div 16
        <3>1. q \in Nat /\ n < 16 * q + 16
            BY <1>1
        <3>. HIDE DEF q
        <3>2. ciphertext_len(n) = 16 * q + 16
            BY DEF ciphertext_len, AES_BLOCK_SIZE, q
        <3>3. (16 * q + 16) % 16 = 0
            BY <3>1
        <3>. QED
            BY <1>1, <3>1, <3>2, <3>3 DEF HEADER, AES_BLOCK_SIZE
    <2>5. PlainLengths(r) = {n} /\ MayDecrypt(r) /\ ~MayThrow(r)
        BY <1>3, <2>1, <2>3, <2>4 DEF PlainLengths, MayDecrypt, MayThrow, AES_BLOCK_SIZE
    <2>6. Opened(r) = {AES_decrypt(r, n)}
        BY <2>5 DEF Opened
    <2>7. AES_decrypt(r, n) = [frame |-> d.frame, valid |-> n, size |-> n, room |-> cut]
        <3>1. Smaller(n, n) = n /\ Smaller(n, cut) = n /\ resize(cut, cut, n) = cut
            BY <1>1, <2>1, <2>4 DEF Smaller, resize
        <3>. HIDE DEF cut, n
        <3>. QED
            BY <1>3, <3>1 DEF AES_decrypt, n
    <2>8. ~OpenOverruns(r)
        <3>1. r.size = d.size
            BY <1>3, <2>1
        <3>. HIDE DEF r, n
        <3>. QED
            BY <1>1, <2>4, <2>5, <3>1 DEF OpenOverruns, DecryptOverruns
    <2>9. n <= cut /\ cut \in Nat
        BY <1>1, <2>1, <2>4
    <2>10. IsRead(AES_decrypt(r, n)) /\ AES_decrypt(r, n).frame = d.frame
        <3>. HIDE DEF cut, n, r
        <3>. QED
            BY <1>1, <2>7, <2>9 DEF IsRead, Plain, n
    <2>. QED
        BY <2>2, <2>5, <2>6, <2>8, <2>10
<1>5. CASE ~(n <= 1471)
    <2>1. d.size > 1500
        BY <1>1, <1>2, <1>5, CutIsNoticed
    <2>2. cut = 1500
        BY <1>1, <1>2, <2>1 DEF Smaller
    <2>3. ~MayDecrypt(r)
        BY <1>3, <2>2, CutIsNoticed DEF MayDecrypt, cipher_size, bridge_mtu
    <2>4. Long(d.frame)
        BY <1>1, <1>2, <1>5 DEF Long, Smaller
    <2>. QED
        BY <2>3, <2>4 DEF Opened, OpenOverruns
<1>. QED
    BY <1>1, <1>4, <1>5

-----------------------------------------------------------------------------
(* Every datagram is a frame sealed whole, that was read at the other end, *)
(* or elsewhere if it is short enough to have come through the server.     *)
WireInv == \A h \in Host : \A d \in wire[h] :
    /\ IsSealed(d)
    /\ h = Server => \E c \in Client : d.frame \in taken[c]
    /\ h # Server => \/ d.frame \in taken[Server]
                     \/ ~Long(d.frame) /\ \E g \in Host : d.frame \in taken[g]

WrittenInv == \A p \in written : IsRead(p) /\ \E h \in Host : p.frame \in taken[h]

Inv ==
    /\ TypeOK /\ WireInv /\ WrittenInv /\ EndedByLongFramesOnly
    /\ overrun => <<Server, "udp">> \in failed

LEMMA InitInv == Init => Inv
BY HostAssumption
   DEF Init, Inv, TypeOK, WireInv, WrittenInv, EndedByLongFramesOnly, Host

(* Sending a frame that was read keeps the datagrams as they should be.    *)
LEMMA SendFacts ==
    ASSUME Inv, NEW to \in SUBSET Host, NEW p, IsRead(p), SendTo(to, p),
           taken' \in [Host -> SUBSET Frame],
           \A h \in Host : taken[h] \subseteq taken'[h],
           Server \in to => \E c \in Client : p.frame \in taken'[c],
           to \subseteq {Server} \/ p.frame \in taken'[Server]
                \/ (~Long(p.frame) /\ \E g \in Host : p.frame \in taken'[g])
    PROVE  wire' \in [Host -> SUBSET Sealed] /\ WireInv'
<1>1. /\ wire \in [Host -> SUBSET Sealed]
      /\ wire' = [h \in Host |-> IF h \in to THEN wire[h] \cup {Seal(p)} ELSE wire[h]]
    BY DEF Inv, TypeOK, SendTo
<1>2. IsSealed(Seal(p)) /\ Seal(p) \in Sealed /\ Seal(p).frame = p.frame
    BY SealIsSealed DEF IsSealed
<1>3. wire' \in [Host -> SUBSET Sealed]
    BY <1>1, <1>2
<1>4. ASSUME NEW h \in Host, NEW d \in wire'[h]
      PROVE  /\ IsSealed(d)
             /\ h = Server => \E c \in Client : d.frame \in taken'[c]
             /\ h # Server => \/ d.frame \in taken'[Server]
                              \/ ~Long(d.frame) /\ \E g \in Host : d.frame \in taken'[g]
    <2>1. CASE d \in wire[h]
        BY <2>1 DEF Inv, WireInv, Host
    <2>2. CASE h \in to /\ d = Seal(p)
        BY <1>2, <2>2
    <2>. QED
        BY <1>1, <1>4, <2>1, <2>2
<1>. QED
    BY <1>3, <1>4 DEF WireInv

LEMMA TakenFacts ==
    ASSUME TypeOK, NEW h \in Host, NEW f \in Frame,
           taken' = [taken EXCEPT ![h] = taken[h] \cup {f}]
    PROVE  /\ taken' \in [Host -> SUBSET Frame] /\ f \in taken'[h]
           /\ \A g \in Host : taken[g] \subseteq taken'[g]
BY DEF TypeOK

(* What is true of the frames taken so far stays true of more, of which one*)
(* may come out of a tap.                                                  *)
LEMMA MoreTaken ==
    ASSUME Inv, \A h \in Host : taken[h] \subseteq taken'[h],
           NEW p, IsRead(p), \E h \in Host : p.frame \in taken'[h],
           written' \in {written, {p}},
           UNCHANGED <<stopped, failed>>
    PROVE  written' \in SUBSET Plain /\ WrittenInv' /\ EndedByLongFramesOnly'
<1>1. written' \in SUBSET Plain /\ WrittenInv'
    BY DEF Inv, TypeOK, WrittenInv, IsRead
<1>2. EndedByLongFramesOnly'
    BY DEF Inv, EndedByLongFramesOnly, Host
<1>. QED
    BY <1>1, <1>2

LEMMA ReadTapInv ==
    ASSUME Inv, NEW h \in Host, NEW f \in Frame, NEW to \in SUBSET Host,
           taken' = [taken EXCEPT ![h] = taken[h] \cup {f}],
           SendTo(to, ReadTap(f)),
           h \in Client => to = {Server}, h = Server => Server \notin to,
           written' \in {written, {ReadTap(f)}},
           overrun' = (overrun \/ EncryptOverruns(ReadTap(f))) \/ overrun' = overrun,
           UNCHANGED <<stopped, failed>>
    PROVE  Inv'
<1>1. IsRead(ReadTap(f)) /\ ReadTap(f).frame = f
    BY ReadTapFacts
<1>2. ~EncryptOverruns(ReadTap(f))
    BY <1>1, SealIsSealed
<1>3. /\ taken' \in [Host -> SUBSET Frame] /\ f \in taken'[h]
      /\ \A g \in Host : taken[g] \subseteq taken'[g]
    BY TakenFacts DEF Inv
<1>4. written' \in SUBSET Plain /\ WrittenInv' /\ EndedByLongFramesOnly'
    BY <1>1, <1>3, MoreTaken
<1>5. wire' \in [Host -> SUBSET Sealed] /\ WireInv'
    BY <1>1, <1>3, SendFacts, HostAssumption DEF Host
<1>6. overrun' = overrun
    BY <1>2 DEF Inv, TypeOK
<1>. QED
    BY <1>3, <1>4, <1>5, <1>6 DEF Inv, TypeOK

LEMMA NextInv == Inv /\ [Next]_vars => Inv'
<1>. SUFFICES ASSUME Inv, [Next]_vars PROVE Inv'
    OBVIOUS
<1>1. ASSUME NEW c \in Client, NEW f \in Frame, client_read_tap(c, f) PROVE Inv'
    <2>1. /\ taken' = [taken EXCEPT ![c] = taken[c] \cup {f}]
          /\ SendTo({Server}, ReadTap(f)) /\ UNCHANGED <<written, stopped, failed>>
          /\ overrun' = (overrun \/ EncryptOverruns(ReadTap(f)))
        BY <1>1 DEF client_read_tap
    <2>2. c \in Host /\ {Server} \in SUBSET Host /\ c # Server
        BY HostAssumption DEF Host
    <2>. QED
        BY <2>1, <2>2, ReadTapInv
<1>2. ASSUME NEW to \in SUBSET Client, NEW f \in Frame, server_read_tap(f, to) PROVE Inv'
    <2>1. /\ taken' = [taken EXCEPT ![Server] = taken[Server] \cup {f}]
          /\ SendTo(to, ReadTap(f)) /\ UNCHANGED <<stopped, failed>>
          /\ written' \in {written, {ReadTap(f)}}
          /\ overrun' = (overrun \/ (to # {} /\ EncryptOverruns(ReadTap(f))))
        BY <1>2 DEF server_read_tap
    <2>2. Server \in Host /\ to \in SUBSET Host /\ Server \notin to /\ Server \notin Client
        BY HostAssumption DEF Host
    <2>3. ~EncryptOverruns(ReadTap(f))
        BY ReadTapFacts, SealIsSealed
    <2>4. overrun' = overrun
        BY <2>1, <2>3 DEF Inv, TypeOK
    <2>. QED
        BY <2>1, <2>2, <2>4, ReadTapInv
<1>3. ASSUME NEW c \in Client, NEW d \in wire[c], client_read_udp(c, d) PROVE Inv'
    <2>1. PICK p \in Opened(Received(d)) : written' = {p}
        BY <1>3 DEF client_read_udp
    <2>2. /\ UNCHANGED <<taken, wire, stopped, failed>>
          /\ overrun' = (overrun \/ OpenOverruns(Received(d)))
        BY <1>3 DEF client_read_udp
    <2>3. IsSealed(d) /\ \E g \in Host : d.frame \in taken[g]
        BY <1>3 DEF Inv, WireInv, Host
    <2>4. IsRead(p) /\ p.frame = d.frame /\ ~OpenOverruns(Received(d))
        BY <2>1, <2>3, OpenFacts
    <2>5. WrittenInv'
        BY <2>1, <2>2, <2>3, <2>4 DEF Inv, WrittenInv
    <2>6. written' \in SUBSET Plain
        BY <2>1, <2>4 DEF Inv, TypeOK, IsRead
    <2>. QED
        BY <2>2, <2>4, <2>5, <2>6 DEF Inv, TypeOK, WireInv, EndedByLongFramesOnly
<1>4. ASSUME NEW to \in SUBSET Client, NEW d \in wire[Server], server_read_udp(d, to)
      PROVE  Inv'
    <2>1. PICK p \in Opened(Received(d)) :
            /\ written' \in {written, {p}}
            /\ SendTo(to, p)
            /\ overrun' = (overrun \/ OpenOverruns(Received(d)) \/ (to # {} /\ EncryptOverruns(p)))
        BY <1>4 DEF server_read_udp
    <2>2. UNCHANGED <<taken, stopped, failed>>
        BY <1>4 DEF server_read_udp
    <2>3. IsSealed(d) /\ \E c \in Client : d.frame \in taken[c]
        BY <1>4 DEF Inv, WireInv, Host
    <2>4. /\ IsRead(p) /\ p.frame = d.frame /\ ~OpenOverruns(Received(d))
          /\ Length[p.frame] <= 1471
        BY <2>1, <2>3, OpenFacts
    <2>5. ~EncryptOverruns(p)
        BY <2>4, SealIsSealed
    <2>6. ~Long(p.frame) /\ \E g \in Host : p.frame \in taken[g]
        <3>1. Length[p.frame] \in Nat
            BY <2>4, LengthAssumption DEF IsRead
        <3>. QED
            BY <2>3, <2>4, <3>1 DEF Long, Host
    <2>7. wire' \in [Host -> SUBSET Sealed] /\ WireInv'
        <3>1. /\ to \in SUBSET Host /\ Server \notin to
              /\ taken' \in [Host -> SUBSET Frame] /\ \A h \in Host : taken[h] \subseteq taken'[h]
            BY <2>2, HostAssumption DEF Host, Inv, TypeOK
        <3>2. ~Long(p.frame) /\ \E g \in Host : p.frame \in taken'[g]
            BY <2>2, <2>6
        <3>. QED
            BY <2>1, <2>4, <3>1, <3>2, SendFacts
    <2>8. WrittenInv'
        BY <2>1, <2>2, <2>4, <2>6 DEF Inv, WrittenInv
    <2>9. written' \in SUBSET Plain
        BY <2>1, <2>4 DEF Inv, TypeOK, IsRead
    <2>10. overrun' = overrun
        BY <2>1, <2>4, <2>5 DEF Inv, TypeOK
    <2>. QED
        BY <2>2, <2>7, <2>8, <2>9, <2>10 DEF Inv, TypeOK, EndedByLongFramesOnly
<1>5. ASSUME NEW h \in Host, NEW d \in wire[h], decrypt_throws(h, d) PROVE Inv'
    <2>1. stopped' = stopped \cup {h} /\ UNCHANGED <<taken, wire, written, overrun, failed>>
        BY <1>5 DEF decrypt_throws
    <2>2. Long(d.frame)
        BY <1>5, OpenFacts DEF decrypt_throws, Inv, WireInv
    <2>3. /\ h = Server => \E c \in Client : \E f \in taken[c] : Long(f)
          /\ h # Server => \E f \in taken[Server] : Long(f)
        BY <1>5, <2>2 DEF Inv, WireInv
    <2>4. EndedByLongFramesOnly'
        BY <2>1, <2>3 DEF Inv, EndedByLongFramesOnly, Long
    <2>. QED
        BY <2>1, <2>4 DEF Inv, TypeOK, WireInv, WrittenInv
<1>6. ASSUME NEW h \in Host, read_fails(h) PROVE Inv'
    <2>1. /\ stopped' = stopped \cup {h} /\ failed' = failed \cup {<<h, "tap">>}
          /\ UNCHANGED <<taken, wire, written, overrun>>
        BY <1>6 DEF read_fails
    <2>. QED
        BY <2>1 DEF Inv, TypeOK, WireInv, WrittenInv, EndedByLongFramesOnly
<1>7. ASSUME NEW h \in Host, receive_fails(h) PROVE Inv'
    <2>1. /\ stopped' = stopped \cup ({h} \cap {Server})
          /\ failed' = failed \cup {<<h, "udp">>}
          /\ overrun' = (overrun \/ h = Server)
          /\ UNCHANGED <<taken, wire, written>>
        BY <1>7 DEF receive_fails
    <2>2. EndedByLongFramesOnly'
        BY <2>1 DEF Inv, EndedByLongFramesOnly
    <2>. QED
        BY <2>1, <2>2 DEF Inv, TypeOK, WireInv, WrittenInv
<1>8. CASE UNCHANGED vars
    BY <1>8 DEF vars, Inv, TypeOK, WireInv, WrittenInv, EndedByLongFramesOnly
<1>. QED
    BY <1>1, <1>2, <1>3, <1>4, <1>5, <1>6, <1>7, <1>8 DEF Next

LEMMA Invariance == Spec => []Inv
    BY InitInv, NextInv, PTL DEF Spec

(* Every variable keeps its type.                                          *)
THEOREM TypeCorrect == Spec => []TypeOK
<1>1. Inv => TypeOK
    BY DEF Inv
<1>. QED
    BY <1>1, Invariance, PTL

(* For frames of every length: what comes out of a tap is what was read    *)
(* from one, whole; no cut datagram opens.                                 *)
THEOREM FramesArriveWhole == Spec => []DeliversWhole
<1>1. Inv => DeliversWhole
    BY DEF Inv, WrittenInv, DeliversWhole, IsRead
<1>. QED
    BY <1>1, Invariance, PTL

(* For frames of every length, sealing and opening stay in their buffers;  *)
(* only a failed receive of the server leads beyond one.                   *)
THEOREM BuffersAreLargeEnough == Spec => []NoOverrun
<1>1. Inv => NoOverrun
    BY DEF Inv, WireInv, WrittenInv, NoOverrun, IsRead, IsSealed
<1>. QED
    BY <1>1, Invariance, PTL

(* A host ends only when a frame of more than 1471 bytes was read at the   *)
(* other end of its hop, or its own reads fail.                            *)
THEOREM ShortFramesEndNobody == Spec => []EndedByLongFramesOnly
<1>1. Inv => EndedByLongFramesOnly
    BY DEF Inv
<1>. QED
    BY <1>1, Invariance, PTL

=============================================================================
