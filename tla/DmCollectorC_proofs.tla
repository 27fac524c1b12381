------------------------- MODULE DmCollectorC_proofs -------------------------
(***************************************************************************)
(* What the operations of dm_collector_c keep true, whichever monitor      *)
(* calls them and whatever the checksum is, as long as it has 16 bits.     *)
(***************************************************************************)
EXTENDS DmCollectorC, Encoding_proofs

-----------------------------------------------------------------------------
(* Taking a frame out of the buffer leaves bytes, and its packet is bytes. *)
LEMMA TakenType ==
  ASSUME NativeTypeOK, HasFrame(buffer)
  PROVE  /\ AfterFrame(buffer) \in Seq(Byte)
         /\ taken + FrameEnd(buffer) \in Nat
         /\ CrcCorrect(RawFrame(buffer)) => Taken \in Seq(Byte)
<1>1. buffer \in Seq(Byte) /\ taken \in Nat /\ Len(buffer) \in Nat
  BY LenProperties DEF NativeTypeOK
<1>2. FrameEnd(buffer) \in 1..Len(buffer)
  BY <1>1, FrameEndIsFirst
<1>3. \A i \in 1..Len(buffer) : buffer[i] \in Byte
  BY <1>1, ElementOfSeq
<1>4. AfterFrame(buffer) \in Seq(Byte)
  BY <1>1, <1>2, <1>3, SubSeqProperties DEF AfterFrame
<1>5. RawFrame(buffer) \in Seq(Byte)
  BY <1>1, <1>2, <1>3, SubSeqProperties DEF RawFrame
<1>6. CrcCorrect(RawFrame(buffer)) => Taken \in Seq(Byte)
  <2>1. CrcCorrect(RawFrame(buffer)) => Len(Unescape(RawFrame(buffer))) > 2
    BY DEF CrcCorrect
  <2> QED BY <1>5, <2>1, PayloadType, CheckFrameFormatType DEF Taken
<1> QED BY <1>1, <1>2, <1>4, <1>6

(* The whole blocks in what stdio holds are no more than it holds.          *)
LEMMA WholeBlocks ==
  ASSUME NEW b \in Nat \ {0}, NEW n \in Nat
  PROVE  b * (n \div b) \in Nat /\ b * (n \div b) <= n
<1>1. n \div b \in Nat /\ n % b \in Nat /\ n = b * (n \div b) + (n % b)
  OBVIOUS
<1> QED BY <1>1

(* Saving a packet appends bytes to one file.                              *)
LEMMA ExportFrameType ==
  ASSUME NativeTypeOK, Checksum16, DmCollectorCAssumption,
         NEW p \in Seq(Byte), ExportFrame(p)
  PROVE  /\ disk' \in [Paths -> Seq(Byte)]
         /\ unflushed' \in Seq(Byte)
         /\ \A f \in Paths : logPath # <<f>> => disk'[f] = disk[f]
<1>1. CASE logPath = <<>>
  BY <1>1 DEF NativeTypeOK, ExportFrame
<1>2. CASE logPath # <<>>
  <2> DEFINE held == unflushed \o EncodeHdlcFrame(p)
             n == BlockSize * (Len(held) \div BlockSize)
  <2>1. PICK f \in Paths : logPath = <<f>>
    BY <1>2 DEF NativeTypeOK
  <2>2. held \in Seq(Byte)
    <3>1. EncodeHdlcFrame(p) \in Seq(Byte) /\ unflushed \in Seq(Byte)
      BY EncodeType DEF Checksum16, NativeTypeOK
    <3> QED BY <3>1, ConcatProperties
  <2>3. /\ disk' = [disk EXCEPT ![f] = @ \o SubSeq(held, 1, n)]
        /\ unflushed' = SubSeq(held, n + 1, Len(held))
    BY <1>2, <2>1 DEF ExportFrame
  <2> HIDE DEF held
  <2>4. n \in Nat /\ n <= Len(held) /\ Len(held) \in Nat
    <3>1. BlockSize \in Nat \ {0} /\ Len(held) \in Nat
      BY <2>2, LenProperties DEF DmCollectorCAssumption
    <3> QED BY <3>1, WholeBlocks
  <2> HIDE DEF n
  <2>5. SubSeq(held, 1, n) \in Seq(Byte) /\ SubSeq(held, n + 1, Len(held)) \in Seq(Byte)
    <3>1. \A i \in 1..Len(held) : held[i] \in Byte
      BY <2>2, ElementOfSeq
    <3>2. (\A i \in 1..n : held[i] \in Byte) /\ (\A i \in (n + 1)..Len(held) : held[i] \in Byte)
      BY <2>4, <3>1
    <3> QED BY <2>4, <3>2, SubSeqProperties
  <2>6. disk[f] \o SubSeq(held, 1, n) \in Seq(Byte)
    BY <2>5, ConcatProperties DEF NativeTypeOK
  <2> QED BY <2>1, <2>3, <2>5, <2>6 DEF NativeTypeOK
<1> QED BY <1>1, <1>2

-----------------------------------------------------------------------------
(* The ids of a name are those of some entries of the table.               *)
LEMMA IdsAreNat ==
  ASSUME DmCollectorCAssumption, NEW n \in Names
  PROVE  IdsOf[n] \in SUBSET Nat
<1>1. \A i \in Entries : LogPacketTypeID_To_Name[i][1] \in Nat
  BY DEF DmCollectorCAssumption, Entries
<1>2. IdsOf[n] = {LogPacketTypeID_To_Name[i][1] :
                     i \in {j \in Entries : LogPacketTypeID_To_Name[j][2] = n}}
  BY DEF IdsOf
<1> QED BY <1>1, <1>2

(* Loading a filter, and opening the file that packets are saved to, keep  *)
(* the native state well typed, whether the names are known or not and     *)
(* whether fopen succeeds or not.                                          *)
LEMMA SetFilteredExportType ==
  ASSUME NativeTypeOK, DmCollectorCAssumption,
         NEW path \in {<<>>} \cup {<<f>> : f \in Paths},
         NEW names \in SUBSET Names,
         SetFilteredExport(path, names)
  PROVE  NativeTypeOK'
<1>1. UNCHANGED <<buffer, inReceive, ret, taken>>
  BY DEF SetFilteredExport
<1>2. CASE ~NamesKnown(names)
  BY <1>1, <1>2 DEF SetFilteredExport, NativeTypeOK
<1>3. CASE NamesKnown(names)
  <2>1. ChangeConfig(path, UNION {IdsOf[m] : m \in names})
    BY <1>3 DEF SetFilteredExport
  <2>2. whitelist' \subseteq Nat
    <3>1. UNION {IdsOf[m] : m \in names} \subseteq Nat
      BY IdsAreNat
    <3> QED BY <2>1, <3>1 DEF ChangeConfig
  <2>3. CASE path \in {<<>>, logPath}
    BY <1>1, <2>1, <2>2, <2>3 DEF ChangeConfig, NativeTypeOK
  <2>4. CASE path \notin {<<>>, logPath}
    <3>1. PICK f \in Paths : path = <<f>>
      BY <2>4
    <3>2. DiskAfterClose \in [Paths -> Seq(Byte)]
      <4>1. CASE logPath = <<>>
        BY <4>1 DEF DiskAfterClose, NativeTypeOK
      <4>2. CASE logPath # <<>>
        <5>1. PICK g \in Paths : logPath = <<g>>
          BY <4>2 DEF NativeTypeOK
        <5>2. disk[g] \o unflushed \in Seq(Byte)
          BY ConcatProperties DEF NativeTypeOK
        <5>3. DiskAfterClose = [disk EXCEPT ![g] = @ \o unflushed]
          BY <4>2, <5>1 DEF DiskAfterClose
        <5> QED BY <5>2, <5>3 DEF NativeTypeOK
      <4> QED BY <4>1, <4>2
    <3>3. unflushed' = <<>>
      BY <2>1, <2>4 DEF ChangeConfig
    <3>4. /\ logPath' \in {<<>>} \cup {<<g>> : g \in Paths}
          /\ disk' \in [Paths -> Seq(Byte)]
      <4>1. \/ logPath' = path /\ disk' = [DiskAfterClose EXCEPT ![f] = <<>>]
            \/ logPath' = <<>> /\ disk' = DiskAfterClose
        BY <2>1, <2>4, <3>1 DEF ChangeConfig
      <4>2. <<>> \in Seq(Byte)
        OBVIOUS
      <4> QED BY <3>1, <3>2, <4>1, <4>2
    <3> QED BY <1>1, <2>2, <3>3, <3>4 DEF NativeTypeOK
  <2> QED BY <2>3, <2>4
<1> QED BY <1>2, <1>3

(* What taking a frame and returning a value keep true.                    *)
LEMMA ReturnType ==
  ASSUME NativeTypeOK,
         buffer' \in Seq(Byte), taken' \in Nat,
         whitelist' = whitelist, logPath' = logPath,
         disk' \in [Paths -> Seq(Byte)], unflushed' \in Seq(Byte),
         inReceive' \in BOOLEAN,
         ret' \in [some : BOOLEAN, pkt : Seq(Packet)], Len(ret'.pkt) <= 1
  PROVE  NativeTypeOK'
BY DEF NativeTypeOK

(* A turn of the loop of receive_log_packet keeps the native state well    *)
(* typed; above all, whatever it returns is a packet of bytes, or nothing. *)
LEMMA ReceiveLogPacketType ==
  ASSUME NativeTypeOK, Checksum16, DmCollectorCAssumption,
         NEW skip \in BOOLEAN, ReceiveLogPacket(skip)
  PROVE  NativeTypeOK'
<1> DEFINE Value == [some : BOOLEAN, pkt : Seq(Packet)]
<1>1. /\ NoPacket \in Value /\ Len(NoPacket.pkt) <= 1
      /\ EmptyPacket \in Value /\ Len(EmptyPacket.pkt) <= 1
  BY DEF NoPacket, EmptyPacket
<1>2. /\ disk \in [Paths -> Seq(Byte)] /\ unflushed \in Seq(Byte)
      /\ inReceive \in BOOLEAN /\ ret \in Value /\ Len(ret.pkt) <= 1
  BY DEF NativeTypeOK
<1>3. CASE NoMoreFrames
  <2>1. /\ buffer' = buffer /\ taken' = taken /\ whitelist' = whitelist
        /\ logPath' = logPath /\ disk' = disk /\ unflushed' = unflushed
        /\ inReceive' = FALSE /\ ret' = NoPacket
    BY <1>3 DEF NoMoreFrames, Return
  <2>2. buffer \in Seq(Byte) /\ taken \in Nat
    BY DEF NativeTypeOK
  <2> QED BY <1>1, <1>2, <2>1, <2>2, ReturnType
<1>4. CASE TakeFrame
  <2>1. HasFrame(buffer) /\ inReceive
    BY <1>4 DEF TakeFrame
  <2>2. /\ buffer' = AfterFrame(buffer) /\ taken' = taken + FrameEnd(buffer)
        /\ whitelist' = whitelist /\ logPath' = logPath
    BY <1>4 DEF TakeFrame
  <2>3. buffer' \in Seq(Byte) /\ taken' \in Nat
    BY <2>1, <2>2, TakenType
  <2>4. ASSUME CrcCorrect(RawFrame(buffer))
        PROVE  /\ Taken \in Seq(Byte)
               /\ Decoded(Taken) \in Value /\ Len(Decoded(Taken).pkt) <= 1
    <3>1. Taken \in Seq(Byte) /\ taken + FrameEnd(buffer) \in Nat
      BY <2>1, <2>4, TakenType
    <3>2. [payload |-> Taken, end |-> taken + FrameEnd(buffer)] \in Packet
      BY <3>1 DEF Packet
    <3> QED BY <3>1, <3>2 DEF Decoded
  <2>5. ASSUME UNCHANGED <<inReceive, ret, disk, unflushed>> PROVE NativeTypeOK'
    <3>1. /\ inReceive' = inReceive /\ ret' = ret
          /\ disk' = disk /\ unflushed' = unflushed
      BY <2>5
    <3> QED BY <1>2, <2>2, <2>3, <3>1, ReturnType
  <2>6. ASSUME ret' \in Value, Len(ret'.pkt) <= 1, inReceive' = FALSE,
               disk' \in [Paths -> Seq(Byte)], unflushed' \in Seq(Byte)
        PROVE  NativeTypeOK'
    BY <2>2, <2>3, <2>6, ReturnType
  <2>7. CASE BrokenFrame \/ FilteredFrame
    BY <2>5, <2>7 DEF BrokenFrame, FilteredFrame, Continue
  <2>8. CASE CustomFrame(skip)
    <3>1. /\ CrcCorrect(RawFrame(buffer)) /\ UNCHANGED <<disk, unflushed>>
          /\ inReceive' = FALSE /\ (ret' = NoPacket \/ ret' = Decoded(Taken))
      BY <2>8 DEF CustomFrame, Return
    <3>2. ret' \in Value /\ Len(ret'.pkt) <= 1
      BY <1>1, <2>4, <3>1
    <3> QED BY <1>2, <2>6, <3>1, <3>2
  <2>9. CASE ExportedFrame(skip)
    <3>1. /\ CrcCorrect(RawFrame(buffer)) /\ ExportFrame(Taken)
          /\ inReceive' = FALSE /\ (ret' = EmptyPacket \/ ret' = Decoded(Taken))
      BY <2>9 DEF ExportedFrame, Return
    <3>2. ret' \in Value /\ Len(ret'.pkt) <= 1
      BY <1>1, <2>4, <3>1
    <3>3. disk' \in [Paths -> Seq(Byte)] /\ unflushed' \in Seq(Byte)
      BY <2>4, <3>1, ExportFrameType
    <3> QED BY <2>6, <3>1, <3>2, <3>3
  <2>10. BrokenFrame \/ FilteredFrame \/ CustomFrame(skip) \/ ExportedFrame(skip)
    BY <2>1 DEF ReceiveLogPacket, NoMoreFrames
  <2> QED BY <2>7, <2>8, <2>9, <2>10
<1> QED BY <1>3, <1>4 DEF ReceiveLogPacket, BrokenFrame, CustomFrame, FilteredFrame,
                          ExportedFrame

-----------------------------------------------------------------------------
(* A turn of the loop never gives bytes back, and a packet that it returns *)
(* ends where the bytes taken end.                                         *)
LEMMA ReceiveAdvances ==
  ASSUME NativeTypeOK, NEW skip \in BOOLEAN, ReceiveLogPacket(skip)
  PROVE  /\ taken' \in Nat /\ taken \in Nat /\ taken <= taken' /\ inReceive
         /\ ~inReceive' /\ ret'.pkt # <<>> =>
               ret'.pkt[1].end = taken' /\ taken < taken'
<1>1. taken \in Nat /\ inReceive \in BOOLEAN
  BY DEF NativeTypeOK
<1>2. CASE NoMoreFrames
  BY <1>1, <1>2 DEF NoMoreFrames, Return, NoPacket
<1>3. CASE TakeFrame
  <2>1. inReceive /\ HasFrame(buffer) /\ taken' = taken + FrameEnd(buffer)
    BY <1>3 DEF TakeFrame
  <2>2. FrameEnd(buffer) \in Nat /\ FrameEnd(buffer) > 0
    <3>1. buffer \in Seq(Byte) /\ Len(buffer) \in Nat
      BY LenProperties DEF NativeTypeOK
    <3>2. FrameEnd(buffer) \in 1..Len(buffer)
      BY <2>1, <3>1, FrameEndIsFirst
    <3> QED BY <3>1, <3>2
  <2>3. ~inReceive' => ret' \in {NoPacket, EmptyPacket, Decoded(Taken)}
    BY <2>1 DEF ReceiveLogPacket, NoMoreFrames, BrokenFrame, CustomFrame, FilteredFrame,
                ExportedFrame, Continue, Return
  <2>4. ret' = Decoded(Taken) => ret'.pkt[1].end = taken'
    BY <2>1 DEF Decoded
  <2>5. ret' \in {NoPacket, EmptyPacket} => ret'.pkt = <<>>
    BY DEF NoPacket, EmptyPacket
  <2> QED BY <1>1, <2>1, <2>2, <2>3, <2>4, <2>5
<1> QED BY <1>2, <1>3 DEF ReceiveLogPacket, BrokenFrame, CustomFrame, FilteredFrame,
                          ExportedFrame

-----------------------------------------------------------------------------
(* The operations, seen from the stream that the buffer is a stretch of *)

\* The native filter lets the frame through that ends at byte e
Passes(bytes, e) ==
    /\ bytes[e] = DELIM
    /\ CrcCorrect(FrameEndingAt(bytes, e))
    /\ PassesFilter(PacketAt(bytes, e))

\* p is a packet of a frame of these bytes that passes the filter
PacketOf(bytes, p) ==
    /\ p.end \in 1..Len(bytes) /\ Passes(bytes, p.end)
    /\ p.payload = PacketAt(bytes, p.end)

(* Bytes that are read behind what the buffer holds extend the stretch.     *)
LEMMA FeedExtends ==
  ASSUME NEW stream \in Seq(Byte), NEW buf, NEW from, NEW to, Holds(buf, stream, from, to),
         NEW end \in Nat, to <= end, end <= Len(stream)
  PROVE  Holds(buf \o SubSeq(stream, to + 1, end), stream, from, end)
<1>1. from \in Nat /\ to \in Nat /\ from <= to /\ Len(stream) \in Nat
  BY LenProperties DEF Holds
<1>2. /\ buf \in Seq(Byte) /\ Len(buf) = to - from
      /\ \A i \in 1..(to - from) : buf[i] = stream[from + i]
  BY HoldsBytes
<1>3. \A i \in 1..Len(stream) : stream[i] \in Byte
  BY ElementOfSeq
<1> DEFINE more == SubSeq(stream, to + 1, end)
           whole == SubSeq(stream, from + 1, end)
<1>4. /\ more \in Seq(Byte) /\ Len(more) = end - to
      /\ \A i \in 1..(end - to) : more[i] = stream[to + i]
  <2>1. \A i \in (to + 1)..end : stream[i] \in Byte
    BY <1>1, <1>3
  <2>2. end - (to + 1) + 1 = end - to /\ to + 1 \in Int
    BY <1>1
  <2>3. \A i \in 1..(end - to) : (to + 1) + i - 1 = to + i
    BY <1>1
  <2>4. Len(more) = IF to + 1 <= end THEN end - (to + 1) + 1 ELSE 0
    BY <1>1, <2>1, SubSeqProperties
  <2>5. Len(more) = end - to
    BY <1>1, <2>4
  <2> QED BY <2>1, <2>2, <2>3, <2>5, SubSeqProperties
<1>5. /\ whole \in Seq(Byte) /\ Len(whole) = end - from
      /\ \A i \in 1..(end - from) : whole[i] = stream[from + i]
  <2>1. \A i \in (from + 1)..end : stream[i] \in Byte
    BY <1>1, <1>3
  <2>2. end - (from + 1) + 1 = end - from /\ from + 1 \in Int
    BY <1>1
  <2>3. \A i \in 1..(end - from) : (from + 1) + i - 1 = from + i
    BY <1>1
  <2>4. Len(whole) = IF from + 1 <= end THEN end - (from + 1) + 1 ELSE 0
    BY <1>1, <2>1, SubSeqProperties
  <2>5. Len(whole) = end - from
    BY <1>1, <2>4
  <2> QED BY <2>1, <2>2, <2>3, <2>5, SubSeqProperties
<1> HIDE DEF more, whole
<1>6. /\ buf \o more \in Seq(Byte) /\ Len(buf \o more) = Len(buf) + Len(more)
      /\ \A i \in 1..(Len(buf) + Len(more)) : (buf \o more)[i] =
                     IF i <= Len(buf) THEN buf[i] ELSE more[i - Len(buf)]
  BY <1>2, <1>4, ConcatProperties
<1>7. ASSUME NEW i \in 1..(end - from) PROVE (buf \o more)[i] = whole[i]
  <2>1. i \in 1..(Len(buf) + Len(more)) /\ i \in Nat
    BY <1>1, <1>2, <1>4
  <2>2. CASE i <= Len(buf)
    BY <1>1, <1>2, <1>5, <1>6, <2>1, <2>2
  <2>3. CASE ~(i <= Len(buf))
    <3>1. i - Len(buf) \in 1..(end - to) /\ to + (i - Len(buf)) = from + i
      BY <1>1, <1>2, <2>1, <2>3
    <3>2. more[i - Len(buf)] = stream[from + i]
      BY <1>4, <3>1
    <3> QED BY <1>5, <1>6, <2>1, <2>3, <3>2
  <2> QED BY <2>2, <2>3
<1>8. buf \o more = whole
  <2>1. Len(buf \o more) = end - from /\ Len(whole) = end - from
    BY <1>1, <1>2, <1>4, <1>5, <1>6
  <2> QED BY <1>5, <1>6, <1>7, <2>1, SeqEqual
<1> QED BY <1>1, <1>8 DEF Holds, more, whole

(* A turn of the loop of receive_log_packet, seen from the stream that the *)
(* buffer is a stretch of: it takes at most the next frame, returns a      *)
(* packet only if it is the packet of that frame, and without deferred     *)
(* decoding returns it whenever the filter lets it through.                *)
LEMMA ReceiveFromStream ==
  ASSUME NativeTypeOK, NEW skip \in BOOLEAN, ReceiveLogPacket(skip),
         NEW bytes \in Seq(Byte), NEW to, Holds(buffer, bytes, taken, to)
  PROVE  /\ Holds(buffer', bytes, taken', to)
         /\ ~inReceive' /\ ret'.pkt # <<>> => PacketOf(bytes, ret'.pkt[1])
         /\ ~inReceive' /\ ~ret'.some => ret'.pkt = <<>> /\ (skip \/ ~HasFrame(buffer'))
         /\ ~skip => \A e \in (taken + 1)..taken' : Passes(bytes, e) =>
                        ~inReceive' /\ ret'.pkt # <<>> /\ ret'.pkt[1].end = e
<1>1. taken \in Nat /\ to \in Nat /\ to <= Len(bytes) /\ Len(bytes) \in Nat
  BY LenProperties DEF Holds
<1>2. CASE NoMoreFrames
  <2>1. buffer' = buffer /\ taken' = taken /\ ret' = NoPacket /\ ~HasFrame(buffer)
    BY <1>2 DEF NoMoreFrames, Return
  <2>2. ret'.pkt = <<>>
    BY <2>1 DEF NoPacket
  <2>3. (taken + 1)..taken' = {}
    BY <1>1, <2>1
  <2> QED BY <2>1, <2>2, <2>3
<1>3. CASE TakeFrame
  <2> DEFINE end == taken + FrameEnd(buffer)
  <2>1. /\ inReceive /\ HasFrame(buffer)
        /\ buffer' = AfterFrame(buffer) /\ taken' = end
    BY <1>3 DEF TakeFrame
  <2>2. /\ end \in (taken + 1)..to /\ bytes[end] = DELIM
        /\ \A j \in (taken + 1)..(end - 1) : bytes[j] # DELIM
        /\ RawFrame(buffer) = FrameEndingAt(bytes, end)
        /\ Holds(AfterFrame(buffer), bytes, end, to)
    BY <2>1, NextFrameOfStream
  <2>3. Taken = PacketAt(bytes, end)
    BY <2>2 DEF Taken, PacketAt
  <2>4. /\ Decoded(Taken).some /\ Decoded(Taken).pkt # <<>>
        /\ Decoded(Taken).pkt[1] = [payload |-> Taken, end |-> end]
    BY DEF Decoded
  <2>5. NoPacket.pkt = <<>> /\ EmptyPacket.pkt = <<>> /\ EmptyPacket.some
    BY DEF NoPacket, EmptyPacket
  <2> HIDE DEF end
  <2>6. end \in 1..Len(bytes)
    BY <1>1, <2>2
  <2>7. \A e \in (taken + 1)..taken' : Passes(bytes, e) => e = end
    BY <1>1, <2>1, <2>2 DEF Passes
  <2>8. ASSUME Passes(bytes, end) PROVE PacketOf(bytes, [payload |-> Taken, end |-> end])
    BY <2>3, <2>6, <2>8 DEF PacketOf
  <2>9. CASE BrokenFrame
    <3>1. inReceive' /\ ~Passes(bytes, end)
      BY <2>1, <2>2, <2>9 DEF BrokenFrame, Continue, Passes
    <3> QED BY <2>1, <2>2, <2>7, <3>1
  <2>10. CASE FilteredFrame
    <3>1. inReceive' /\ ~Passes(bytes, end)
      BY <2>1, <2>3, <2>10 DEF FilteredFrame, Continue, Passes, PassesFilter
    <3> QED BY <2>1, <2>2, <2>7, <3>1
  <2>11. CASE CustomFrame(skip)
    <3>1. /\ ~inReceive' /\ ret' = (IF skip THEN NoPacket ELSE Decoded(Taken))
          /\ CrcCorrect(RawFrame(buffer)) /\ IsCustomPacket(Taken)
      BY <2>11 DEF CustomFrame, Return
    <3>2. Passes(bytes, end)
      BY <2>2, <2>3, <3>1 DEF Passes, PassesFilter
    <3>3. skip \/ ret' = Decoded(Taken)
      BY <3>1
    <3>4. CASE skip
      BY <2>1, <2>2, <2>5, <3>1, <3>4
    <3>5. CASE ~skip
      BY <2>1, <2>2, <2>4, <2>7, <2>8, <3>1, <3>2, <3>5
    <3> QED BY <3>4, <3>5
  <2>12. CASE ExportedFrame(skip)
    <3>1. /\ ~inReceive' /\ (ret' = Decoded(Taken) \/ (skip /\ ret' = EmptyPacket))
          /\ CrcCorrect(RawFrame(buffer)) /\ GetLogType(Taken) \in whitelist
      BY <2>12 DEF ExportedFrame, Return
    <3>2. Passes(bytes, end)
      BY <2>2, <2>3, <3>1 DEF Passes, PassesFilter
    <3>3. CASE skip /\ ret' = EmptyPacket
      BY <2>1, <2>2, <2>5, <3>1, <3>3
    <3>4. CASE ret' = Decoded(Taken)
      BY <2>1, <2>2, <2>4, <2>7, <2>8, <3>1, <3>2, <3>4
    <3> QED BY <3>1, <3>3, <3>4
  <2>13. BrokenFrame \/ FilteredFrame \/ CustomFrame(skip) \/ ExportedFrame(skip)
    BY <2>1 DEF ReceiveLogPacket, NoMoreFrames
  <2> QED BY <2>9, <2>10, <2>11, <2>12, <2>13
<1> QED BY <1>2, <1>3 DEF ReceiveLogPacket, BrokenFrame, CustomFrame, FilteredFrame,
                          ExportedFrame
=============================================================================
