---------------------------- MODULE MCEtherBridge ----------------------------
(* A small instance of EtherBridge for TLC.                                *)
EXTENDS EtherBridge

MCMac == {1, 2, 3}

=============================================================================
