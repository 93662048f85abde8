------------------------------- MODULE MCSocks5 -------------------------------
(* A small instance of Socks5 for TLC.                                     *)
EXTENDS Socks5

MCCoroutine ==
    {Main, Server} \cup {Handler(c) : c \in Conn} \cup {Piping(c) : c \in Conn}

=============================================================================
