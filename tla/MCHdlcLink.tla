----------------------------- MODULE MCHdlcLink -----------------------------
(***************************************************************************)
(* HdlcLink with the CRC of the code.  The payloads hold both bytes that   *)
(* are escaped, alone and next to each other; the line may turn a byte     *)
(* into a delimiter, an escape, an escaped delimiter or another byte.      *)
(***************************************************************************)
EXTENDS HdlcLink, Crc16

MCPayloads == {<<126>>, <<125, 126>>, <<94, 16>>}
MCChunkSizes == {2, 64}
MCNoiseBytes == {126, 125, 94, 0}

(* The CRC of the code tells the damage that this line does *)
ASSUME MCDamageIsDetected == DamageIsDetected

(* The frames that hdlc_frame.py lists as its tests *)
ASSUME EncodesTestVectors ==
    /\ EncodeHdlcFrame(<<125, 2, 136, 19, 165, 19>>)
         = <<125, 93, 2, 136, 19, 165, 19, 195, 64, 126>>
    /\ EncodeHdlcFrame(<<125, 5, 0, 0, 0, 0, 0, 0>>)
         = <<125, 93, 5, 0, 0, 0, 0, 0, 0, 116, 65, 126>>
    /\ EncodeHdlcFrame(<<115, 0, 0, 0, 0, 0, 0, 0>>)
         = <<115, 0, 0, 0, 0, 0, 0, 0, 218, 129, 126>>
=============================================================================
