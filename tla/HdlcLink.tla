------------------------------ MODULE HdlcLink ------------------------------
(***************************************************************************)
(* Two ends of an HDLC byte stream: one writes frames (encode_hdlc_frame,  *)
(* used for the commands to the modem and for every exported packet), the  *)
(* other feeds whatever bytes have arrived to the static buffer of         *)
(* hdlc.cpp and takes frames out of it.  The serial line between them cuts *)
(* the stream anywhere, and now and then loses or alters a byte.           *)
(***************************************************************************)
EXTENDS Hdlc

CONSTANTS
    Payloads,       \* the payloads the writer sends
    ChunkSizes,     \* how many bytes one read may return
    NoiseBytes,     \* what an altered byte may become
    MaxFrames,      \* bound: frames written
    MaxNoise        \* bound: frames damaged on the line

ASSUME HdlcLinkAssumption ==
    /\ Payloads \subseteq Seq(Byte) \ {<<>>}
    /\ ChunkSizes \subseteq Nat \ {0}
    /\ NoiseBytes \subseteq Byte
    /\ MaxFrames \in Nat /\ MaxNoise \in Nat

VARIABLES
    wire,       \* bytes written and not read yet
    buffer,     \* the static buffer of hdlc.cpp
    got,        \* payloads taken out with a correct CRC
    expected,   \* history: payloads written undamaged behind a delimiter
    clean,      \* history: the last byte written was a delimiter
    nFrames, nNoise

vars == <<wire, buffer, got, expected, clean, nFrames, nNoise>>

LinkInit ==
    /\ wire = <<>> /\ buffer = <<>> /\ got = <<>>
    /\ expected = <<>> /\ clean = TRUE
    /\ nFrames = 0 /\ nNoise = 0

\* send_msg, or the export of a packet: the frame reaches the line as it is
SendMsg(p) ==
    /\ nFrames < MaxFrames
    /\ wire' = wire \o EncodeHdlcFrame(p)
    /\ expected' = IF clean THEN Append(expected, p) ELSE expected
    /\ clean' = TRUE
    /\ nFrames' = nFrames + 1
    /\ UNCHANGED <<buffer, got, nNoise>>

\* The line loses or alters one byte of a frame
Damaged(frame) ==
    LET lost    == {RemoveAt(frame, i) : i \in DOMAIN frame}
        altered == {[frame EXCEPT ![i] = b] : i \in DOMAIN frame, b \in NoiseBytes}
    IN  (lost \cup altered) \ {frame}

SendThroughNoise(p) ==
    /\ nFrames < MaxFrames /\ nNoise < MaxNoise
    /\ \E d \in Damaged(EncodeHdlcFrame(p)) :
          /\ wire' = wire \o d
          /\ clean' = (Last(d) = DELIM)
    /\ nFrames' = nFrames + 1 /\ nNoise' = nNoise + 1
    /\ UNCHANGED <<buffer, got, expected>>

-----------------------------------------------------------------------------
(* What the damage leaves on the line *)

NoisyFrames == UNION {Damaged(EncodeHdlcFrame(p)) : p \in Payloads}

\* What stands behind the last delimiter of each of up to n damaged frames
LeftOpen(n) ==
    LET open == {FrameEndingAt(d, Len(d) + 1) : d \in NoisyFrames}
    IN  {FlattenSeq(s) : s \in UNION {[1..k -> open] : k \in 0..n}}

(***************************************************************************)
(* The frames a reader may find and nobody wrote: one that ends inside a   *)
(* damaged frame, and an intact one right behind bytes that were left      *)
(* open.                                                                   *)
(***************************************************************************)
EndingInside(d) ==
    UNION {{t \o FrameEndingAt(d, e) : t \in LeftOpen(MaxNoise - 1)} :
           e \in {i \in DOMAIN d : d[i] = DELIM}}

BehindOpenBytes ==
    UNION {{t \o Front(EncodeHdlcFrame(p)) : t \in LeftOpen(MaxNoise) \ {<<>>}} : p \in Payloads}

BrokenFrames == (UNION {EndingInside(d) : d \in NoisyFrames}) \cup BehindOpenBytes

\* A CRC has 16 bits, so that it cannot tell all damage, but it tells this one
DamageIsDetected == \A raw \in BrokenFrames : ~CrcCorrect(raw)

-----------------------------------------------------------------------------
(* The reader.  Names ending in Mutant are the mutations the checks use.   *)

\* feed_binary, with the bytes that one read returned
FeedBinary(n) ==
    /\ wire # <<>>
    /\ LET k == IF n < Len(wire) THEN n ELSE Len(wire)
       IN  /\ buffer' = buffer \o SubSeq(wire, 1, k)
           /\ wire' = SubSeq(wire, k + 1, Len(wire))
    /\ UNCHANGED <<got, expected, clean, nFrames, nNoise>>

\* The whole buffer is dropped when the CRC of a frame is wrong
DropOnErrorMutant ==
    /\ HasFrame(buffer)
    /\ LET raw == RawFrame(buffer)
       IN  /\ buffer' = IF CrcCorrect(raw) THEN AfterFrame(buffer) ELSE <<>>
           /\ got' = IF CrcCorrect(raw) THEN Append(got, Payload(raw)) ELSE got
    /\ UNCHANGED <<wire, expected, clean, nFrames, nNoise>>

\* The CRC is not looked at
NoCrcMutant ==
    /\ HasFrame(buffer)
    /\ buffer' = AfterFrame(buffer)
    /\ got' = Append(got, Payload(RawFrame(buffer)))
    /\ UNCHANGED <<wire, expected, clean, nFrames, nNoise>>

\* get_next_frame; its caller keeps a frame only when the CRC is correct
GetNextFrame ==
    /\ HasFrame(buffer)
    /\ LET raw == RawFrame(buffer)
       IN  got' = IF CrcCorrect(raw) THEN Append(got, Payload(raw)) ELSE got
    /\ buffer' = AfterFrame(buffer)
    /\ UNCHANGED <<wire, expected, clean, nFrames, nNoise>>

LinkNext ==
    \/ \E p \in Payloads : SendMsg(p) \/ SendThroughNoise(p)
    \/ \E n \in ChunkSizes : FeedBinary(n)
    \/ GetNextFrame

LinkSpec == LinkInit /\ [][LinkNext]_vars

-----------------------------------------------------------------------------

(* Nothing the noise made is taken for a packet, and nothing is taken      *)
(* twice or out of order: the escaping and the CRC of hdlc.cpp let through *)
(* only what was written intact behind a delimiter.                        *)
OnlyIntactFramesInOrder == IsPrefix(got, expected)

(* Damage costs only the frames it touches: once everything has been read, *)
(* every frame written intact behind a delimiter has been taken, however   *)
(* many broken frames and stray delimiters came before it.                 *)
Resynchronises ==
    wire = <<>> /\ ~HasFrame(buffer) => got = expected
=============================================================================
