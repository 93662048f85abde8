----------------------------- MODULE MCEventLoop -----------------------------
(* Small instances of EventLoop for TLC: the client and the server of the  *)
(* bridge, and relays over streams.                                        *)
EXTENDS EventLoop, TLC

CONSTANTS read_tap, read_udp, tap, udp

MCCoroutines == {Main, read_tap, read_udp}
MCFd == {tap, udp}
MCStartup == <<read_tap, read_udp>>
MCWorkers == {read_tap, read_udp}
None == {}

(* ether_bridge_client.cpp: one reads what the other writes.               *)
MCSource == read_tap :> tap @@ read_udp :> udp
MCClientSinks == read_tap :> {udp} @@ read_udp :> {tap}

(* ether_bridge_server.cpp: a frame, wherever it came from, goes to the   *)
(* tap device or out of the socket, as the bridge has learnt, or to both.  *)
MCServerSinks == [c \in {read_tap, read_udp} |-> {tap, udp}]

MCUdp == {udp}
MCRegistered == <<tap, udp>>
MCStreams == {tap, udp}
MCWaiters == {read_udp}
MCClosable == {tap}

=============================================================================
