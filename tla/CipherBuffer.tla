---------------------------- MODULE CipherBuffer ----------------------------
(***************************************************************************)
(* The sealed form of a frame: crypto/AES.cpp on lib/bytebuffer.hpp, and   *)
(* xor_mess.  Bytes are counted, not spelled out.  A buffer of plain text  *)
(* says how many of its bytes really are those of its frame; a sealed one  *)
(* is  iv (16) | plaintext_len (4) | cipher text.                          *)
(***************************************************************************)
EXTENDS Integers

AES_BLOCK_SIZE == 16
HEADER == AES_BLOCK_SIZE + 4

Smaller(a, b) == IF a < b THEN a ELSE b

-----------------------------------------------------------------------------
(* Mistaken variant: room for the iv, and none for the padding.            *)
cipher_roomUnpadded(n) == n + 4 + AES_BLOCK_SIZE

(* What cipher_buffer allocates for n bytes of plain text.                 *)
cipher_room(n) == n + 4 + AES_BLOCK_SIZE * 2

(* EVP_EncryptUpdate writes the whole blocks of n bytes, and               *)
(* EVP_EncryptFinal_ex one block more, which holds the padding.            *)
ciphertext_len(n) == AES_BLOCK_SIZE * (n \div AES_BLOCK_SIZE) + AES_BLOCK_SIZE

(* byte_buffer::resize: the room of a buffer that had "room" and "size".   *)
(* It gives none back, and doubles it when it grows, whatever n is.        *)
resize(room, size, n) == IF n > size THEN 2 * size ELSE room

(* AES_encrypt of the buffer p: the cipher text is copied out of what was  *)
(* allocated for it into a buffer as large as it is.                       *)
AES_encrypt(p) ==
    LET n == HEADER + ciphertext_len(p.size)
    IN  [frame |-> p.frame, valid |-> p.valid, plaintext_len |-> p.size,
         whole |-> n, xored |-> FALSE, size |-> n, room |-> n]

(* A write of AES_encrypt falls outside what it allocated.                 *)
EncryptOverruns(p) == HEADER + ciphertext_len(p.size) > cipher_room(p.size)

-----------------------------------------------------------------------------
cipher_size(b) == b.size - HEADER

(* EVP_DecryptFinal_ex wants whole blocks, at least one, that end with a   *)
(* padding.  Cut at the end of a block they may seem to end with one.      *)
MayDecrypt(b) ==
    /\ ~b.xored
    /\ cipher_size(b) > 0 /\ cipher_size(b) % AES_BLOCK_SIZE = 0

MayThrow(b) == ~MayDecrypt(b) \/ b.size # b.whole

(* The bytes it may come to: what was sealed, or what a false padding says.*)
PlainLengths(b) ==
    IF b.size = b.whole THEN {b.plaintext_len}
    ELSE cipher_size(b) - AES_BLOCK_SIZE .. cipher_size(b) - 1

(* AES_decrypt, when it comes to n bytes; plain is as large as b.          *)
AES_decrypt(b, n) ==
    LET size == Smaller(b.plaintext_len, b.size)
    IN  [frame |-> b.frame, valid |-> Smaller(n, b.valid), size |-> size,
         room |-> resize(b.size, b.size, size)]

DecryptOverruns(b, n) == n > b.size

=============================================================================
