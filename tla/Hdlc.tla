-------------------------------- MODULE Hdlc --------------------------------
(***************************************************************************)
(* The framing code of dm_collector_c/hdlc.cpp as operators on sequences   *)
(* of bytes.  A frame on the wire is a payload, its 16-bit CRC in little   *)
(* endian order, both with 0x7d and 0x7e escaped, and the delimiter 0x7e.  *)
(*                                                                         *)
(* The CRC table is data: Crc is a parameter, and whatever holds for every *)
(* Crc holds for the CRC-16 of the code.                                   *)
(***************************************************************************)
EXTENDS Bytes, Integers, Sequences, SequencesExt

CONSTANT Crc(_)     \* the 16-bit checksum of a sequence of bytes

DELIM == 126        \* 0x7e, ends a frame
ESC   == 125        \* 0x7d, escapes the byte after it

\* b ^ ESCAPE_XOR, where ESCAPE_XOR is 0x20
FlipBit5(b) == IF (b \div 32) % 2 = 1 THEN b - 32 ELSE b + 32

-----------------------------------------------------------------------------
(* Writing a frame *)

EscapeByte(b) == IF b \in {ESC, DELIM} THEN <<ESC, FlipBit5(b)>> ELSE <<b>>

EncodeHdlcFrame(payload) ==
    LET crc == Crc(payload)
        framed == payload \o <<crc % 256, crc \div 256>>
    IN  FlattenSeq([i \in 1..Len(framed) |-> EscapeByte(framed[i])]) \o <<DELIM>>

-----------------------------------------------------------------------------
(* Reading frames from a buffer of bytes *)

HasFrame(buf) == \E i \in DOMAIN buf : buf[i] = DELIM

\* buffer.find('\x7e'), counted from 1
FrameEnd(buf) == CHOOSE i \in DOMAIN buf : /\ buf[i] = DELIM
                                           /\ \A j \in 1..(i - 1) : buf[j] # DELIM

\* What get_next_frame takes out of the buffer, and what it leaves
RawFrame(buf)   == SubSeq(buf, 1, FrameEnd(buf) - 1)
AfterFrame(buf) == SubSeq(buf, FrameEnd(buf) + 1, Len(buf))

\* An odd number of escapes stands right before byte i
Escaped(raw, i) ==
    \E k \in 1..(i - 1) : /\ (i - k) % 2 = 1
                          /\ \A j \in k..(i - 1) : raw[j] = ESC
                          /\ k = 1 \/ raw[k - 1] # ESC

\* Byte by byte; an escape that ends the frame is dropped
Unescape(raw) ==
    LET out[i \in 0..Len(raw)] ==
          IF i = 0 THEN <<>>
          ELSE IF Escaped(raw, i) THEN Append(out[i - 1], FlipBit5(raw[i]))
          ELSE IF raw[i] = ESC THEN out[i - 1]
          ELSE Append(out[i - 1], raw[i])
    IN  out[Len(raw)]

Payload(raw) == LET f == Unescape(raw) IN SubSeq(f, 1, Len(f) - 2)

CrcCorrect(raw) ==
    LET f == Unescape(raw)
        n == Len(f)
    IN  /\ n > 2
        /\ f[n - 1] + 256 * f[n] = Crc(SubSeq(f, 1, n - 2))

(***************************************************************************)
(* The same frames said without a buffer, for the properties: a frame ends *)
(* at a delimiter, and starts behind the one before it.                    *)
(***************************************************************************)
FrameStart(bytes, e) == CHOOSE s \in 1..e : /\ s = 1 \/ bytes[s - 1] = DELIM
                                            /\ \A i \in s..(e - 1) : bytes[i] # DELIM

FrameEndingAt(bytes, e) == SubSeq(bytes, FrameStart(bytes, e), e - 1)

(***************************************************************************)
(* check_frame_format: some devices put eight bytes before the packet.     *)
(* The C literal it searches for ends at its first NUL, so two bytes are   *)
(* compared, and only an occurrence at the very start counts.              *)
(***************************************************************************)
CheckFrameFormat(p) ==
    IF Len(p) >= 2 /\ p[1] = 152 /\ p[2] = 1 THEN SubSeq(p, 9, Len(p)) ELSE p

\* The packet of the frame that ends at byte e of these bytes
PacketAt(bytes, e) == CheckFrameFormat(Payload(FrameEndingAt(bytes, e)))
=============================================================================
