---------------------------- MODULE MCEtherTunnel ----------------------------
(* A small instance of EtherTunnel for TLC: the last frame that passes,    *)
(* the first that does not, and a full frame of a tap.                     *)
EXTENDS EtherTunnel, TLC

CONSTANTS a, b

MCClient == {a, b}
MCFrame == {1471, 1472, 1514}
MCLength == [f \in MCFrame |-> f]

Symmetry == Permutations(MCClient)

=============================================================================
