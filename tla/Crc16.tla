------------------------------- MODULE Crc16 -------------------------------
(***************************************************************************)
(* calc_crc of dm_collector_c/hdlc.cpp: the CRC-16 of polynomial 0x11021,  *)
(* processed least significant bit first, with the register inverted       *)
(* before and after.  The code's 256-entry table is computed here from the *)
(* polynomial instead of being copied.                                     *)
(*                                                                         *)
(* Bitwise declares RECURSIVE operators, so only modules that TLC runs     *)
(* extend this one.                                                        *)
(***************************************************************************)
EXTENDS Integers, Sequences, TLC, Bitwise

LOCAL Poly == 33800     \* 0x8408, the polynomial with its bits reversed

\* The register after eight division steps
LOCAL Divide(b) ==
    LET after[n \in 0..8] ==
          IF n = 0 THEN b
          ELSE LET r == after[n - 1]
               IN  IF r % 2 = 1 THEN (r \div 2) ^^ Poly ELSE r \div 2
    IN  after[8]

\* Joined with the empty function, which makes TLC build the table once
CrcTable == [b \in 0..255 |-> Divide(b)] @@ <<>>

CrcStep(crc, b) == CrcTable[b ^^ (crc % 256)] ^^ (crc \div 256)

CalcCrc(data) ==
    LET crc[n \in 0..Len(data)] ==
          IF n = 0 THEN 65535 ELSE CrcStep(crc[n - 1], data[n])
    IN  crc[Len(data)] ^^ 65535
=============================================================================
