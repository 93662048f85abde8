----------------------------- MODULE EtherTunnel -----------------------------
(***************************************************************************)
(* The path of a frame through the ether bridge: read from a tap, sealed,  *)
(* sent as a datagram, opened, and written to another tap or sealed again  *)
(* (bridge/ether_bridge_client.cpp, bridge/ether_bridge_server.cpp).       *)
(*                                                                         *)
(* UDP may lose, repeat and reorder datagrams, so a datagram once sent     *)
(* stays on the wire and may be received at any time or never.  To whom    *)
(* the server forwards a frame is EtherBridge's subject: here, to any.     *)
(***************************************************************************)
EXTENDS CipherBuffer

CONSTANTS
    Client,         \* the clients
    Server,         \* their server
    Frame,          \* frames
    Length          \* Length[f]: bytes of f, header included

ASSUME HostAssumption == Server \notin Client
ASSUME LengthAssumption == Length \in [Frame -> Nat]

Host == Client \cup {Server}

(* Mistaken variant: as many bytes as a frame of 1487 bytes needs.         *)
bridge_mtuOfBlocks == 1508

bridge_mtu == 1500

VARIABLES
    taken,          \* history, taken[h]: the frames read from the tap of h
    wire,           \* wire[h]: the datagrams sent to h
    written,        \* the buffer last written to a tap, {} before the first
    stopped,        \* the hosts that have ended
    overrun,        \* a buffer has been written to beyond its end
    failed          \* history: <<h, "tap">> if a read of h from its tap has
                    \* failed, <<h, "udp">> if a receive of h has

vars == <<taken, wire, written, stopped, overrun, failed>>

Init ==
    /\ taken = [h \in Host |-> {}]
    /\ wire = [h \in Host |-> {}]
    /\ written = {} /\ stopped = {} /\ overrun = FALSE /\ failed = {}

-----------------------------------------------------------------------------
(* read(2) of a tap into a buffer cuts the frame; buffer.resize(ret).      *)
ReadTap(f) ==
    LET n == Smaller(Length[f], bridge_mtu)
    IN  [frame |-> f, valid |-> n, size |-> n, room |-> resize(bridge_mtu, bridge_mtu, n)]

(* xor_mess applied twice is nothing.                                      *)
xor_mess(b) == [frame |-> b.frame, valid |-> b.valid, plaintext_len |-> b.plaintext_len,
                whole |-> b.whole, xored |-> ~b.xored, size |-> b.size, room |-> b.room]

Seal(p) == xor_mess(AES_encrypt(p))

(* recvfrom cuts the datagram; buffer.resize(ret), xor_mess.               *)
Received(d) ==
    LET n == Smaller(d.size, bridge_mtu)
    IN  xor_mess([frame |-> d.frame, valid |-> d.valid, plaintext_len |-> d.plaintext_len,
                  whole |-> d.whole, xored |-> d.xored, size |-> n,
                  room |-> resize(bridge_mtu, bridge_mtu, n)])

(* The buffers AES_decrypt may return for b.                               *)
Opened(b) == {AES_decrypt(b, n) : n \in IF MayDecrypt(b) THEN PlainLengths(b) ELSE {}}

OpenOverruns(b) == MayDecrypt(b) /\ \E n \in PlainLengths(b) : DecryptOverruns(b, n)

(* Mistaken variant: what is sent is buffer, not encrypt_buffer.           *)
SendToUnsealed(to, p) ==
    wire' = [h \in Host |-> IF h \in to THEN wire[h] \cup {p} ELSE wire[h]]

SendTo(to, p) ==
    wire' = [h \in Host |-> IF h \in to THEN wire[h] \cup {Seal(p)} ELSE wire[h]]

-----------------------------------------------------------------------------
(* read_tap of a client sends to the server.                               *)
client_read_tap(c, f) ==
    /\ c \notin stopped
    /\ taken' = [taken EXCEPT ![c] = @ \cup {f}]
    /\ SendTo({Server}, ReadTap(f))
    /\ overrun' = (overrun \/ EncryptOverruns(ReadTap(f)))
    /\ UNCHANGED <<written, stopped, failed>>

(* read_tap of the server forwards to the clients in "to" and, if the      *)
(* bridge has learnt so, back to its tap.                                  *)
server_read_tap(f, to) ==
    /\ Server \notin stopped
    /\ taken' = [taken EXCEPT ![Server] = @ \cup {f}]
    /\ SendTo(to, ReadTap(f))
    /\ written' \in {written, {ReadTap(f)}}
    /\ overrun' = (overrun \/ (to # {} /\ EncryptOverruns(ReadTap(f))))
    /\ UNCHANGED <<stopped, failed>>

(* read_udp of a client writes to its tap.                                 *)
client_read_udp(c, d) ==
    /\ c \notin stopped
    /\ \E p \in Opened(Received(d)) : written' = {p}
    /\ overrun' = (overrun \/ OpenOverruns(Received(d)))
    /\ UNCHANGED <<taken, wire, stopped, failed>>

(* read_udp of the server forwards to its tap, perhaps, and to clients.    *)
server_read_udp(d, to) ==
    /\ Server \notin stopped
    /\ \E p \in Opened(Received(d)) :
        /\ written' \in {written, {p}}
        /\ SendTo(to, p)
        /\ overrun' = (overrun \/ OpenOverruns(Received(d)) \/ (to # {} /\ EncryptOverruns(p)))
    /\ UNCHANGED <<taken, stopped, failed>>

(* Nobody catches what AES_decrypt throws.                                 *)
decrypt_throws(h, d) ==
    /\ h \notin stopped
    /\ MayThrow(Received(d))
    /\ stopped' = stopped \cup {h}
    /\ UNCHANGED <<taken, wire, written, overrun, failed>>

(* A tap that cannot be read makes its host abort.                         *)
read_fails(h) ==
    /\ h \notin stopped
    /\ stopped' = stopped \cup {h}
    /\ failed' = failed \cup {<<h, "tap">>}
    /\ UNCHANGED <<taken, wire, written, overrun>>

(* Mistaken variant: a client goes on like the server.                     *)
receive_failsGoesOn(h) ==
    /\ h \notin stopped
    /\ failed' = failed \cup {<<h, "udp">>}
    /\ stopped' = stopped \cup {h} /\ overrun' = TRUE
    /\ UNCHANGED <<taken, wire, written>>

(* A client receives again; the server resizes its buffer to -1 bytes, and *)
(* xor_mess writes through the heap until the process ends.                *)
receive_fails(h) ==
    /\ h \notin stopped
    /\ failed' = failed \cup {<<h, "udp">>}
    /\ stopped' = stopped \cup ({h} \cap {Server})
    /\ overrun' = (overrun \/ h = Server)
    /\ UNCHANGED <<taken, wire, written>>

Next ==
    \/ \E c \in Client :
        \/ \E f \in Frame : client_read_tap(c, f)
        \/ \E d \in wire[c] : client_read_udp(c, d)
    \/ \E to \in SUBSET Client :
        \/ \E f \in Frame : server_read_tap(f, to)
        \/ \E d \in wire[Server] : server_read_udp(d, to)
    \/ \E h \in Host :
        \/ \E d \in wire[h] : decrypt_throws(h, d)
        \/ read_fails(h) \/ receive_fails(h)

Spec == Init /\ [][Next]_vars

-----------------------------------------------------------------------------
Plain == [frame : Frame, valid : Nat, size : Nat, room : Nat]

Sealed == [frame : Frame, valid : Nat, size : Nat, room : Nat,
           plaintext_len : Nat, whole : Nat, xored : BOOLEAN]

TypeOK ==
    /\ taken \in [Host -> SUBSET Frame]
    /\ wire \in [Host -> SUBSET Sealed]
    /\ written \in SUBSET Plain
    /\ stopped \subseteq Host /\ overrun \in BOOLEAN
    /\ failed \subseteq Host \X {"tap", "udp"}

(* A frame that comes out of the bridge is the frame that went in, as long *)
(* as one that was read, and every byte of it: a datagram that was cut is  *)
(* never taken for a shorter one, on either of its two hops.               *)
DeliversWhole == \A p \in written :
    /\ \E h \in Host : p.frame \in taken[h]
    /\ p.size = Smaller(Length[p.frame], bridge_mtu) /\ p.valid = p.size

(* No step of sealing or opening writes beyond its buffer, and no buffer   *)
(* that is passed on claims more than it has; only a failed receive of the *)
(* server is taken for a buffer of any size.                               *)
NoOverrun ==
    /\ overrun => <<Server, "udp">> \in failed
    /\ \A p \in written : p.size <= p.room
    /\ \A h \in Host : \A d \in wire[h] : d.size <= d.room

(* The longest frame of which the datagram is not cut.                     *)
Long(f) == Length[f] > 1471

(* No datagram ends a host unless a frame too long for one was read at the *)
(* other end of the hop: the server passes on none that would end a client *)
(* and shorter frames end nobody.  Else hosts end by calls of their own    *)
(* that fail: of a client the reading of its tap, of the server both.      *)
EndedByLongFramesOnly ==
    /\ Server \in stopped =>
        \/ \E c \in Client : \E f \in taken[c] : Long(f)
        \/ <<Server, "tap">> \in failed \/ <<Server, "udp">> \in failed
    /\ \A c \in stopped \ {Server} :
        (\E f \in taken[Server] : Long(f)) \/ <<c, "tap">> \in failed

=============================================================================
