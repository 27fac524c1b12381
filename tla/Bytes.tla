------------------------------- MODULE Bytes --------------------------------
(***************************************************************************)
(* What the streams of this system are sequences of.                       *)
(***************************************************************************)
EXTENDS Integers

Byte == 0..255
=============================================================================
