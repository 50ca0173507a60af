------------------------------ MODULE Framing ------------------------------
(***************************************************************************)
(* The lengths of encryptAES and decryptAES (server.cpp): a text is coded  *)
(* in chunks of 256 bytes, what is left over in blocks of 16, and one byte *)
(* in front of it all says how much was left over.                         *)
(***************************************************************************)
EXTENDS Naturals

\* What sendMessage sends at most: the data of a message of 1024 bytes.
MaxData == 1022

\* The room for it: the data and the eight bytes behind them.
Room == MaxData + 8

\* Mutant: the pad is cut off instead of added.
PaddedDown(rest) == rest - (rest % 16)

\* The pad of the last chunk.
Padded(rest) == IF rest % 16 = 0 THEN rest ELSE rest - (rest % 16) + 16

\* The number of bytes encryptAES writes for n bytes.
Encrypted(n) == 1 + 256 * (n \div 256) + Padded(n % 256)

\* The number of bytes decryptAES gives back of m bytes whose first one is `last'.
Decrypted(m, last) ==
    256 * ((m - 1) \div 256) + (IF (m - 1) % 256 = 0 THEN 0 ELSE last)

\* There and back.
Received(n) == Decrypted(Encrypted(n), n % 256)

\* A last chunk of 241 to 255 bytes is padded to a whole one and then taken for it.
LooksWhole(n) == n % 256 > 240
Whole(n)      == n - (n % 256) + 256
=============================================================================
