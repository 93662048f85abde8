----------------------------- MODULE MCCoroutine -----------------------------
(* Small instances of Coroutine for TLC.                                   *)
EXTENDS Coroutine

CONSTANTS s1, s2, s3, p1, f0, f1

(* Three shared coroutines compete for the pool, a private one for the     *)
(* processor.                                                              *)
MCShared == {s1, s2, s3}
MCCoroutines == {Main, s1, s2, s3, p1}
MCFrame == {f0, f1}

=============================================================================
