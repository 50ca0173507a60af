--------------------------- MODULE MCFileTransfer ---------------------------
(* Small instances of FileTransfer for TLC: blocks of two bytes and block  *)
(* numbers of a few bits, so that offsets wrap after a few blocks.         *)
EXTENDS FileTransfer
=============================================================================
