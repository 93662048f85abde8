----------------------------- MODULE MCUdpBridge -----------------------------
(* A small instance of UdpBridge for TLC: two callers, three peers.        *)
EXTENDS UdpBridge

=============================================================================
