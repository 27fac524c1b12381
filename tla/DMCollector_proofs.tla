------------------------- MODULE DMCollector_proofs -------------------------
(***************************************************************************)
(* The live collector hands out what it owes: for every line, every size   *)
(* of a read and every way the modem's messages and the reads interleave,  *)
(* what the analyzers get are the packets of the stream that pass the      *)
(* filter, each once and in order, and all of them so far.  And when the   *)
(* modem has obeyed the commands on the line, it logs what was asked of it *)
(* and nothing else.                                                       *)
(***************************************************************************)
EXTENDS DMCollector, DmCollectorC_proofs

-----------------------------------------------------------------------------
(* The invariant, in parts *)

Reading == pc \in {"read", "receive"}
Waiting == Returned /\ ret.pkt # <<>>

\* How far what was fed has been dealt with, but for a packet that waits
Handled == IF Waiting THEN taken - 1 ELSE taken

TypeInv ==
    /\ NativeTypeOK
    /\ pc \in Places /\ skipDecoding \in BOOLEAN /\ typeNames \subseteq Names
    /\ stream \in Seq(Byte) /\ Len(stream) \in Nat
    /\ due \in Seq(Packet) /\ Len(due) \in Nat
    /\ sent \in Seq(Packet) /\ Len(sent) \in Nat

BeforeReading == pc \in {"config", "open", "disable", "enable", "write"}
BeforeLogging == pc \in {"config", "open"}

\* Nothing is read before the loop, and nothing comes before the port is open
NothingEarly ==
    /\ BeforeReading => sent = <<>> /\ taken = 0 /\ ~inReceive
    /\ BeforeLogging => due = <<>> /\ stream \in Tails

StreamIsWhole == stream = <<>> \/ stream[Len(stream)] = DELIM

\* The native buffer is the stretch of the stream that was read and not taken
BufferIsStream == Holds(buffer, stream, taken, pos)

\* What is due are the packets of the stream that pass the filter, in order
DueIsStream ==
    /\ \A k \in 1..Len(due) : PacketOf(stream, due[k])
    /\ \A j, k \in 1..Len(due) : j < k => due[j].end < due[k].end
    /\ \A e \in 1..Len(stream) : Passes(stream, e) => \E k \in 1..Len(due) : due[k].end = e

WaitingIsDue ==
    Waiting => \E k \in 1..Len(due) : ret.pkt[1] = due[k] /\ due[k].end = taken

\* The r-th packet that is due was the last one sent
SentUpTo(r) ==
    /\ IF r = 0 THEN sent = <<>> ELSE sent # <<>> /\ Last(sent) = due[r]
    /\ \A k \in 1..r : due[k].end <= Handled
    /\ ~skipDecoding => /\ r = Len(sent)
                        /\ \A k \in (r + 1)..Len(due) : due[k].end > Handled

SentIsDue == Reading => \E r \in 0..Len(due) : SentUpTo(r)

Inv == /\ TypeInv /\ NothingEarly /\ StreamIsWhole
       /\ BufferIsStream /\ DueIsStream /\ WaitingIsDue /\ SentIsDue

-----------------------------------------------------------------------------
(* Packets of the stream *)

(* One less than a number is still as large as what was smaller.           *)
LEMMA OneLess ==
  ASSUME NEW a \in Nat, NEW b \in Nat, a < b
  PROVE  b - 1 \in Nat /\ a <= b - 1 /\ b - 1 <= b /\ ~(b <= b - 1)
OBVIOUS

(* A frame has one packet.                                                 *)
LEMMA SamePacket ==
  ASSUME NEW bytes, NEW p \in Packet, NEW q \in Packet,
         PacketOf(bytes, p), PacketOf(bytes, q), p.end = q.end
  PROVE  p = q
BY DEF PacketOf, Packet

(* What is due holds a packet of every frame whose packet passes the       *)
(* filter.                                                                 *)
LEMMA PacketIsDue ==
  ASSUME TypeInv, DueIsStream, NEW p \in Packet, PacketOf(stream, p)
  PROVE  \E k \in 1..Len(due) : due[k] = p /\ due[k].end = p.end
<1>1. p.end \in 1..Len(stream) /\ Passes(stream, p.end)
  BY DEF PacketOf
<1>2. PICK k \in 1..Len(due) : due[k].end = p.end
  BY <1>1 DEF DueIsStream
<1>3. due[k] \in Packet /\ PacketOf(stream, due[k])
  BY <1>2, ElementOfSeq DEF TypeInv, DueIsStream
<1>4. due[k] = p
  BY <1>2, <1>3, SamePacket
<1> QED BY <1>2, <1>4

(* Packets that end one behind the other are all different.                *)
LEMMA DueIsInjective ==
  ASSUME NEW d \in Seq(Packet),
         \A j, k \in 1..Len(d) : j < k => d[j].end < d[k].end
  PROVE  IsInjective(d) /\ Feed!IsInjective(d)
<1>1. DOMAIN d = 1..Len(d) /\ Len(d) \in Nat
  BY LenProperties
<1>2. ASSUME NEW j \in 1..Len(d), NEW k \in 1..Len(d), d[j] = d[k], j # k
      PROVE  FALSE
  <2>1. d[j].end < d[k].end \/ d[k].end < d[j].end
    <3>1. j < k \/ k < j
      BY <1>1, <1>2
    <3> QED BY <3>1
  <2>2. d[j].end \in Nat /\ d[k].end = d[j].end
    <3>1. d[j] \in Packet
      BY ElementOfSeq
    <3> QED BY <1>2, <3>1 DEF Packet
  <2> QED BY <2>1, <2>2
<1> QED BY <1>1, <1>2 DEF IsInjective, Feed!IsInjective

(* Where the packets that are due end.                                     *)
LEMMA DueEnds ==
  ASSUME TypeInv, DueIsStream, NEW k \in 1..Len(due)
  PROVE  due[k] \in Packet /\ due[k].end \in 1..Len(stream) /\ Passes(stream, due[k].end)
BY ElementOfSeq DEF TypeInv, DueIsStream, PacketOf

-----------------------------------------------------------------------------
(* Steps that change neither the stream nor the filter.                    *)
LEMMA StreamKept ==
  ASSUME Inv, UNCHANGED <<stream, due, whitelist>>
  PROVE  StreamIsWhole' /\ DueIsStream'
BY DEF Inv, StreamIsWhole, DueIsStream, PacketOf, Passes, PassesFilter

(* A turn of the loop of receive_log_packet keeps the invariant.           *)
LEMMA ReceiveStep ==
  ASSUME Inv, Receive, Checksum16, DmCollectorCAssumption
  PROVE  Inv'
<1>1. /\ pc = "receive" /\ ReceiveLogPacket(skipDecoding)
      /\ UNCHANGED <<pc, typeNames, skipDecoding, sent, stream, pos, due>>
  BY DEF Receive, collectorVars, portVars
<1>2. /\ NativeTypeOK /\ skipDecoding \in BOOLEAN /\ stream \in Seq(Byte)
      /\ Holds(buffer, stream, taken, pos)
  BY DEF Inv, TypeInv, BufferIsStream
<1>3. NativeTypeOK'
  BY <1>1, <1>2, ReceiveLogPacketType
<1>4. whitelist' = whitelist
  BY <1>1 DEF ReceiveLogPacket, NoMoreFrames, BrokenFrame, CustomFrame, FilteredFrame,
              ExportedFrame, TakeFrame
<1>5. TypeInv' /\ NothingEarly'
  BY <1>1, <1>3 DEF Inv, TypeInv, NothingEarly, BeforeReading, BeforeLogging
<1>6. StreamIsWhole' /\ DueIsStream'
  BY <1>1, <1>4, StreamKept
<1>7. /\ Holds(buffer', stream, taken', pos)
      /\ ~inReceive' /\ ret'.pkt # <<>> => PacketOf(stream, ret'.pkt[1])
      /\ ~skipDecoding => \A e \in (taken + 1)..taken' : Passes(stream, e) =>
                             ~inReceive' /\ ret'.pkt # <<>> /\ ret'.pkt[1].end = e
  BY <1>1, <1>2, ReceiveFromStream
<1>8. /\ taken' \in Nat /\ taken \in Nat /\ taken <= taken' /\ inReceive
      /\ ~inReceive' /\ ret'.pkt # <<>> => ret'.pkt[1].end = taken' /\ taken < taken'
  BY <1>1, <1>2, ReceiveAdvances
<1>9. BufferIsStream'
  BY <1>1, <1>7 DEF BufferIsStream
<1>10. Waiting' <=> ~inReceive' /\ ret'.pkt # <<>>
  BY <1>1 DEF Waiting, Returned
<1>11. WaitingIsDue'
  <2> SUFFICES ASSUME Waiting'
               PROVE  \E k \in 1..Len(due) : due[k] = ret'.pkt[1] /\ due[k].end = taken'
    BY <1>1 DEF WaitingIsDue
  <2>1. ret'.pkt[1] \in Packet
    <3>1. ret'.pkt \in Seq(Packet) /\ ret'.pkt # <<>>
      BY <1>3, <1>10 DEF NativeTypeOK
    <3> QED BY <3>1
  <2>2. PacketOf(stream, ret'.pkt[1]) /\ ret'.pkt[1].end = taken'
    BY <1>7, <1>8, <1>10
  <2>3. TypeInv /\ DueIsStream
    BY DEF Inv
  <2> QED BY <2>1, <2>2, <2>3, PacketIsDue
<1>12. SentIsDue'
  <2>1. PICK r \in 0..Len(due) : SentUpTo(r)
    BY <1>1 DEF Inv, SentIsDue, Reading
  <2>2. Handled = taken
    BY <1>8 DEF Handled, Waiting, Returned
  <2>3. Handled' \in Nat /\ taken <= Handled' /\ Handled' <= taken'
    <3>1. CASE Waiting'
      <4>1. Handled' = taken' - 1 /\ taken < taken'
        BY <1>8, <1>10, <3>1 DEF Handled
      <4>2. taken \in Nat /\ taken' \in Nat
        BY <1>8
      <4>3. taken' - 1 \in Nat /\ taken <= taken' - 1 /\ taken' - 1 <= taken'
        BY <4>1, <4>2, OneLess
      <4> QED BY <4>1, <4>3
    <3>2. CASE ~Waiting'
      <4>1. Handled' = taken'
        BY <3>2 DEF Handled
      <4> QED BY <1>8, <4>1
    <3> QED BY <3>1, <3>2
  <2>4. \A k \in 1..r : due[k].end <= Handled'
    <3>1. \A k \in 1..r : due[k].end \in Nat /\ due[k].end <= taken
      <4>1. \A k \in 1..r : k \in 1..Len(due)
        BY DEF Inv, TypeInv
      <4> QED BY <2>1, <2>2, <4>1, DueEnds DEF SentUpTo, Inv, Packet
    <3> QED BY <1>8, <2>3, <3>1
  <2>5. ASSUME ~skipDecoding, NEW k \in (r + 1)..Len(due) PROVE due[k].end > Handled'
    <3>1. k \in 1..Len(due)
      BY DEF Inv, TypeInv
    <3>2. due[k].end \in Nat /\ Passes(stream, due[k].end)
      BY <3>1, DueEnds DEF Inv, Packet
    <3>3. due[k].end > taken
      BY <2>1, <2>2, <2>5 DEF SentUpTo
    <3> SUFFICES ASSUME due[k].end <= Handled' PROVE FALSE
      BY <2>3, <3>2
    <3>4. due[k].end \in (taken + 1)..taken'
      BY <1>8, <2>3, <3>2, <3>3
    <3>5. Waiting' /\ ret'.pkt[1].end = due[k].end
      BY <1>7, <1>10, <2>5, <3>2, <3>4
    <3>6. Handled' = taken' - 1
      BY <3>5 DEF Handled
    <3>7. due[k].end = taken'
      BY <1>8, <1>10, <3>5
    <3>8. taken \in Nat /\ taken' \in Nat /\ taken < taken'
      BY <1>8, <1>10, <3>5
    <3>9. taken' <= taken' - 1
      BY <3>6, <3>7
    <3> QED BY <3>8, <3>9, OneLess
  <2>6. SentUpTo(r)'
    BY <1>1, <2>1, <2>4, <2>5 DEF SentUpTo
  <2> QED BY <1>1, <2>6 DEF SentIsDue
<1> QED BY <1>5, <1>6, <1>9, <1>11, <1>12 DEF Inv

(* A read that feeds whole bytes of the stream keeps the invariant.        *)
LEMMA ReadStep ==
  ASSUME Inv, ReadAndFeed, DMCollectorAssumption
  PROVE  Inv'
<1> DEFINE end == pos + ReadSize
           bytes == SubSeq(stream, pos + 1, end)
<1>1. /\ pc = "read" /\ pc' = "receive" /\ inReceive' = TRUE
      /\ buffer' = buffer \o bytes /\ pos' = end
      /\ UNCHANGED <<whitelist, logPath, disk, unflushed, ret, taken, stream, due, sent,
                     skipDecoding, typeNames>>
      /\ Len(stream) - pos >= ReadSize
  BY DEF ReadAndFeed, Goto
<1>2. /\ Holds(buffer, stream, taken, pos) /\ stream \in Seq(Byte) /\ Len(stream) \in Nat
      /\ ReadSize \in Nat
  BY DEF Inv, BufferIsStream, TypeInv, DMCollectorAssumption
<1>3. pos \in Nat /\ end \in Nat /\ pos <= end /\ end <= Len(stream)
  BY <1>1, <1>2 DEF Holds
<1> HIDE DEF end
<1>4. Holds(buffer \o bytes, stream, taken, end)
  BY <1>2, <1>3, FeedExtends
<1>5. buffer \o bytes \in Seq(Byte)
  BY <1>4, HoldsBytes, <1>2
<1>6. TypeInv' /\ NothingEarly'
  <2>1. NativeTypeOK'
    BY <1>1, <1>5 DEF Inv, TypeInv, NativeTypeOK
  <2> QED BY <1>1, <2>1 DEF Inv, TypeInv, NothingEarly, BeforeReading, BeforeLogging, Places
<1>7. StreamIsWhole' /\ DueIsStream'
  BY <1>1, StreamKept
<1>8. BufferIsStream'
  BY <1>1, <1>4 DEF BufferIsStream
<1>9. ~Waiting /\ ~Waiting' /\ Handled' = Handled
  BY <1>1 DEF Waiting, Returned, Handled
<1>10. WaitingIsDue' /\ SentIsDue'
  BY <1>1, <1>9 DEF Inv, WaitingIsDue, SentIsDue, Reading, SentUpTo
<1> QED BY <1>6, <1>7, <1>8, <1>10 DEF Inv

(* A step that touches neither the port's stream nor the native state      *)
(* keeps the invariant, whether it enters the loop, goes on in it or leaves *)
(* it.                                                                      *)
LEMMA QuietStep ==
  ASSUME Inv, pc' \in Places,
         UNCHANGED <<nativeVars, typeNames, skipDecoding, sent, stream, pos, due>>,
         \/ /\ ~Reading'
            /\ BeforeReading' => BeforeReading
            /\ BeforeLogging' => BeforeLogging
         \/ pc' = pc
         \/ pc = "write" /\ pc' = "read"
         \/ pc = "receive" /\ pc' = "read" /\ ~Waiting
  PROVE  Inv'
<1>1. UNCHANGED <<buffer, whitelist, logPath, disk, unflushed, inReceive, ret, taken>>
  BY DEF nativeVars
<1>2. TypeInv'
  BY <1>1 DEF Inv, TypeInv, NativeTypeOK
<1>3. StreamIsWhole' /\ DueIsStream' /\ BufferIsStream'
  BY <1>1, StreamKept DEF Inv, BufferIsStream
<1>4. NothingEarly'
  BY <1>1 DEF Inv, NothingEarly, BeforeReading, BeforeLogging, Reading
<1>5. CASE ~Reading'
  BY <1>2, <1>3, <1>4, <1>5
     DEF Inv, WaitingIsDue, Waiting, Returned, SentIsDue, Reading
<1>6. CASE pc' = pc
  BY <1>1, <1>2, <1>3, <1>4, <1>6
     DEF Inv, WaitingIsDue, Waiting, Returned, SentIsDue, Reading, SentUpTo, Handled
<1>7. CASE pc = "write" /\ pc' = "read"
  <2>1. ~Waiting' /\ Handled' = 0 /\ sent' = <<>> /\ Len(sent') = 0
    BY <1>1, <1>7 DEF Inv, NothingEarly, BeforeReading, Waiting, Returned, Handled
  <2>2. \A k \in 1..Len(due) : due[k].end > 0
    BY DueEnds DEF Inv
  <2>3. SentUpTo(0)'
    BY <2>1, <2>2 DEF SentUpTo
  <2>4. 0 \in 0..Len(due')
    BY DEF Inv, TypeInv
  <2> QED BY <1>2, <1>3, <1>4, <2>1, <2>3, <2>4 DEF Inv, WaitingIsDue, SentIsDue
<1>8. CASE pc = "receive" /\ pc' = "read" /\ ~Waiting
  <2>1. ~Waiting' /\ Handled' = Handled
    BY <1>1, <1>8 DEF Waiting, Returned, Handled
  <2>2. SentIsDue'
    BY <1>8, <2>1 DEF Inv, SentIsDue, Reading, SentUpTo
  <2> QED BY <1>2, <1>3, <1>4, <2>1, <2>2 DEF Inv, WaitingIsDue
<1> QED BY <1>5, <1>6, <1>7, <1>8

(* The packet that is handed on is the next one that is due, or a later one *)
(* when decoding is deferred.                                               *)
LEMMA DispatchSends ==
  ASSUME Inv, Dispatch, NEW r \in 0..Len(due), SentUpTo(r)
  PROVE  \E k \in 1..Len(due) :
            /\ r < k /\ (~skipDecoding => k = Len(sent) + 1)
            /\ sent' = Append(sent, due[k])
            /\ SentUpTo(k)'
<1>1. /\ Waiting /\ ~Waiting' /\ sent' = sent \o ret.pkt
      /\ UNCHANGED <<skipDecoding, due, stream, taken>>
  BY DEF Dispatch, Returned, Waiting, nativeVars, portVars
<1>2. PICK k \in 1..Len(due) : ret.pkt[1] = due[k] /\ due[k].end = taken
  BY <1>1 DEF Inv, WaitingIsDue
<1>3. /\ ret.pkt \in Seq(Packet) /\ ret.pkt # <<>> /\ Len(ret.pkt) <= 1
      /\ sent \in Seq(Packet) /\ Len(sent) \in Nat /\ Len(due) \in Nat /\ taken \in Nat
      /\ skipDecoding \in BOOLEAN
  BY <1>1 DEF Inv, TypeInv, NativeTypeOK, Waiting
<1>4. due[k] \in Packet /\ \A j \in 1..Len(due) : due[j].end \in Nat
  BY DueEnds DEF Inv, Packet
<1>5. sent' = Append(sent, due[k]) /\ Len(sent') = Len(sent) + 1 /\ Last(sent') = due[k]
      /\ sent' # <<>>
  <2>1. ret.pkt = <<due[k]>>
    BY <1>2, <1>3
  <2>2. sent' = Append(sent, due[k])
    BY <1>1, <1>3, <1>4, <2>1, AppendIsConcat
  <2>3. Len(sent') = Len(sent) + 1 /\ sent'[Len(sent) + 1] = due[k]
    BY <1>3, <1>4, <2>2, AppendProperties
  <2> QED BY <1>3, <2>2, <2>3 DEF Last
<1>6. Handled = taken - 1 /\ Handled' = taken
  BY <1>1 DEF Handled
<1>7. r < k
  <2> SUFFICES ASSUME ~(r < k) PROVE FALSE
    OBVIOUS
  <2>1. k \in 1..r
    BY <1>3
  <2>2. taken <= taken - 1
    BY <1>2, <1>6, <2>1 DEF SentUpTo
  <2> QED BY <1>3, <2>2
<1>8. ASSUME ~skipDecoding PROVE k = Len(sent) + 1 /\ r = Len(sent)
  <2>1. r = Len(sent) /\ \A j \in (r + 1)..Len(due) : due[j].end > taken - 1
    BY <1>6, <1>8 DEF SentUpTo
  <2> SUFFICES ASSUME k # r + 1 PROVE FALSE
    BY <2>1
  <2>2. r + 1 \in (r + 1)..Len(due) /\ r + 1 \in 1..Len(due) /\ r + 1 < k
    BY <1>3, <1>7
  <2>3. due[r + 1].end < due[k].end
    BY <2>2 DEF Inv, DueIsStream
  <2> QED BY <1>2, <1>3, <1>4, <2>1, <2>2, <2>3
<1>9. \A j \in 1..k : due[j].end <= taken
  <2>1. \A j \in 1..k : j = k \/ (j \in 1..Len(due) /\ j < k)
    BY <1>3
  <2>2. \A j \in 1..Len(due) : j < k => due[j].end < due[k].end
    BY DEF Inv, DueIsStream
  <2> QED BY <1>2, <1>3, <1>4, <2>1, <2>2
<1>10. \A j \in (k + 1)..Len(due) : due[j].end > taken
  <2>1. \A j \in (k + 1)..Len(due) : j \in 1..Len(due) /\ k < j
    BY <1>3
  <2>2. \A j \in 1..Len(due) : k < j => due[k].end < due[j].end
    BY DEF Inv, DueIsStream
  <2> QED BY <1>2, <1>3, <1>4, <2>1, <2>2
<1>11. SentUpTo(k)'
  <2>1. k # 0
    BY <1>3
  <2> QED BY <1>1, <1>5, <1>6, <1>8, <1>9, <1>10, <2>1 DEF SentUpTo
<1> QED BY <1>5, <1>7, <1>8, <1>11

(* Handing a packet on keeps the invariant.                                *)
LEMMA DispatchStep ==
  ASSUME Inv, Dispatch
  PROVE  Inv'
<1>1. /\ pc = "receive" /\ pc' = "read" /\ sent' = sent \o ret.pkt
      /\ UNCHANGED <<buffer, whitelist, logPath, disk, unflushed, inReceive, ret, taken,
                     typeNames, skipDecoding, stream, pos, due>>
  BY DEF Dispatch, Returned, nativeVars, portVars
<1>2. TypeInv'
  <2>1. NativeTypeOK' /\ ret.pkt \in Seq(Packet) /\ sent \in Seq(Packet)
    BY <1>1 DEF Inv, TypeInv, NativeTypeOK
  <2>2. sent' \in Seq(Packet) /\ Len(sent') \in Nat
    BY <1>1, <2>1, ConcatProperties, LenProperties
  <2> QED BY <1>1, <2>1, <2>2 DEF Inv, TypeInv, Places
<1>3. StreamIsWhole' /\ DueIsStream' /\ BufferIsStream'
  BY <1>1, StreamKept DEF Inv, BufferIsStream
<1>4. NothingEarly' /\ WaitingIsDue'
  BY <1>1 DEF NothingEarly, BeforeReading, BeforeLogging, WaitingIsDue, Waiting, Returned
<1>5. SentIsDue'
  <2>1. PICK r \in 0..Len(due) : SentUpTo(r)
    BY <1>1 DEF Inv, SentIsDue, Reading
  <2>2. PICK k \in 1..Len(due) : SentUpTo(k)'
    BY <2>1, DispatchSends
  <2>3. k \in 0..Len(due')
    BY <1>1
  <2> QED BY <2>2, <2>3 DEF SentIsDue
<1> QED BY <1>2, <1>3, <1>4, <1>5 DEF Inv

(* A message of the modem: the packets of the stream are those it had, and *)
(* the new one if it passes the filter.                                    *)
LEMMA LogExtendsDue ==
  ASSUME Inv, NEW p \in Messages, Log(p),
         DMCollectorAssumption, Checksum16, LineAssumption
  PROVE  /\ stream' \in Seq(Byte) /\ Len(stream') \in Nat /\ Len(stream') > Len(stream)
         /\ StreamIsWhole' /\ BufferIsStream' /\ DueIsStream'
         /\ due' \in Seq(Packet) /\ Len(due') \in Nat
         /\ \/ due' = due
            \/ Len(due') = Len(due) + 1 /\ due'[Len(due) + 1].end = Len(stream')
         /\ \A k \in 1..Len(due) : due'[k] = due[k]
<1> DEFINE frame == EncodeHdlcFrame(p)
           longer == stream'
           end == Len(longer)
           new == [payload |-> p, end |-> end]
<1>1. /\ longer = stream \o frame
      /\ due' = IF PassesFilter(p) THEN Append(due, new) ELSE due
      /\ UNCHANGED <<buffer, whitelist, taken, pos>>
  BY DEF Log, Frames, nativeVars
<1>2. /\ p \in Seq(Byte) /\ p # <<>> /\ CheckFrameFormat(p) = p /\ Is16Bits(Crc(p))
  BY DEF DMCollectorAssumption, LineAssumption, Checksum16
<1>3. /\ stream \in Seq(Byte) /\ Len(stream) \in Nat /\ frame \in Seq(Byte)
      /\ stream = <<>> \/ stream[Len(stream)] = DELIM
      /\ due \in Seq(Packet) /\ Len(due) \in Nat
      /\ Holds(buffer, stream, taken, pos)
  BY <1>2, EncodeType DEF Inv, TypeInv, StreamIsWhole, BufferIsStream
<1> HIDE DEF longer
<1>4. /\ longer \in Seq(Byte) /\ end > Len(stream) /\ longer[end] = DELIM
      /\ \A e \in (Len(stream) + 1)..end : longer[e] = DELIM => e = end
      /\ CrcCorrect(FrameEndingAt(longer, end))
      /\ Payload(FrameEndingAt(longer, end)) = p
  BY <1>1, <1>2, <1>3, FrameBehind
<1>5. end \in Nat
  BY <1>4, LenProperties
<1>6. Holds(buffer, longer, taken, pos)
  BY <1>1, <1>3, HoldsStays
<1> HIDE DEF frame, end
<1>7. PacketAt(longer, end) = p /\ (Passes(longer, end) <=> PassesFilter(p))
  BY <1>2, <1>4 DEF PacketAt, Passes
<1>8. ASSUME NEW e \in 1..Len(stream)
      PROVE  /\ PacketAt(longer, e) = PacketAt(stream, e)
             /\ Passes(longer, e) <=> Passes(stream, e)
  <2>1. longer[e] = stream[e] /\ FrameEndingAt(longer, e) = FrameEndingAt(stream, e)
    <3>1. longer = stream \o frame /\ stream \in Seq(Byte) /\ frame \in Seq(Byte)
      BY <1>1, <1>3
    <3>2. e \in 1..Len(stream)
      OBVIOUS
    <3> QED BY ONLY <3>1, <3>2, FramesStay
  <2> QED BY <2>1 DEF Passes, PacketAt
<1>9. new \in Packet
  BY <1>2, <1>5 DEF Packet
<1>10. new.end = end /\ new.payload = p
  OBVIOUS
<1> HIDE DEF new
<1>11. /\ due' \in Seq(Packet) /\ Len(due') \in Nat
       /\ \A k \in 1..Len(due) : due'[k] = due[k]
       /\ \/ due' = due /\ ~PassesFilter(p)
          \/ Len(due') = Len(due) + 1 /\ due'[Len(due) + 1] = new /\ PassesFilter(p)
  <2>1. CASE PassesFilter(p)
    BY <1>1, <1>3, <1>9, <2>1, AppendProperties, LenProperties
  <2>2. CASE ~PassesFilter(p)
    BY <1>1, <1>3, <2>2
  <2> QED BY <2>1, <2>2
<1>12. \A k \in 1..Len(due') : k \in 1..Len(due) \/ (k = Len(due) + 1 /\ due'[k] = new
                                                       /\ PassesFilter(p))
  BY <1>3, <1>11
<1>13. ASSUME NEW k \in 1..Len(due)
       PROVE  PacketOf(longer, due[k]) /\ due[k].end < end
  <2>1. /\ due[k].end \in 1..Len(stream) /\ Passes(stream, due[k].end)
        /\ due[k].payload = PacketAt(stream, due[k].end)
    BY DEF Inv, DueIsStream, PacketOf
  <2>2. due[k].end < end /\ due[k].end \in 1..end
    BY <1>3, <1>4, <1>5, <2>1
  <2> QED BY <1>8, <2>1, <2>2 DEF PacketOf, end
<1>14. PassesFilter(p) => PacketOf(longer, new)
  <2>1. end \in 1..end
    BY <1>3, <1>4, <1>5
  <2> QED BY <1>7, <1>10, <2>1 DEF PacketOf, end
<1>15. \A k \in 1..Len(due') : PacketOf(longer, due'[k])
  BY <1>11, <1>12, <1>13, <1>14
<1>16. \A j, k \in 1..Len(due') : j < k => due'[j].end < due'[k].end
  <2> SUFFICES ASSUME NEW j \in 1..Len(due'), NEW k \in 1..Len(due'), j < k
               PROVE  due'[j].end < due'[k].end
    OBVIOUS
  <2>1. j \in 1..Len(due) /\ due'[j] = due[j]
    <3>1. j # Len(due) + 1
      BY <1>3, <1>11
    <3> QED BY <1>11, <1>12, <3>1
  <2>2. CASE k \in 1..Len(due)
    <3>1. due[j].end < due[k].end
      BY <2>1, <2>2 DEF Inv, DueIsStream
    <3> QED BY <1>11, <2>1, <2>2, <3>1
  <2>3. CASE due'[k] = new
    BY <1>10, <1>13, <2>1, <2>3
  <2> QED BY <1>12, <2>2, <2>3
<1>17. ASSUME NEW e \in 1..end, Passes(longer, e)
       PROVE  \E k \in 1..Len(due') : due'[k].end = e
  <2>1. CASE e \in 1..Len(stream)
    <3>1. PICK k \in 1..Len(due) : due[k].end = e
      BY <1>8, <1>17, <2>1 DEF Inv, DueIsStream
    <3>2. k \in 1..Len(due')
      BY <1>3, <1>11
    <3> QED BY <1>11, <3>1, <3>2
  <2>2. CASE ~(e \in 1..Len(stream))
    <3>1. e \in (Len(stream) + 1)..end /\ longer[e] = DELIM
      BY <1>3, <1>5, <1>17, <2>2 DEF Passes
    <3>2. e = end /\ PassesFilter(p)
      BY <1>4, <1>7, <1>17, <3>1
    <3>3. Len(due) + 1 \in 1..Len(due') /\ due'[Len(due) + 1].end = end
      BY <1>3, <1>10, <1>11, <3>2
    <3> QED BY <3>2, <3>3
  <2> QED BY <2>1, <2>2
<1>18. DueIsStream'
  BY <1>1, <1>15, <1>16, <1>17
     DEF DueIsStream, PacketOf, Passes, PassesFilter, longer, end
<1>19. StreamIsWhole' /\ BufferIsStream'
  BY <1>1, <1>4, <1>6 DEF StreamIsWhole, BufferIsStream, longer, end
<1>20. stream' \in Seq(Byte) /\ Len(stream') \in Nat /\ Len(stream') > Len(stream)
  BY <1>4, <1>5 DEF longer, end
<1>21. \/ due' = due
       \/ Len(due') = Len(due) + 1 /\ due'[Len(due) + 1].end = Len(stream')
  BY <1>10, <1>11 DEF longer, end
<1> QED BY <1>11, <1>18, <1>19, <1>20, <1>21

(* A message of the modem keeps the invariant.                             *)
LEMMA LogStep ==
  ASSUME Inv, NEW p \in Messages, Log(p),
         DMCollectorAssumption, Checksum16, LineAssumption
  PROVE  Inv'
<1>1. /\ UNCHANGED <<buffer, whitelist, logPath, disk, unflushed, inReceive, ret, taken,
                     pc, typeNames, skipDecoding, sent, pos>>
      /\ PortIsOpen
  BY DEF Log, nativeVars, collectorVars
<1>2. /\ stream' \in Seq(Byte) /\ Len(stream') \in Nat /\ Len(stream') > Len(stream)
      /\ StreamIsWhole' /\ BufferIsStream' /\ DueIsStream'
      /\ due' \in Seq(Packet) /\ Len(due') \in Nat
      /\ \/ due' = due
         \/ Len(due') = Len(due) + 1 /\ due'[Len(due) + 1].end = Len(stream')
      /\ \A k \in 1..Len(due) : due'[k] = due[k]
  BY LogExtendsDue
<1>3. Len(due) \in Nat /\ Len(stream) \in Nat /\ taken \in Nat /\ taken <= Len(stream)
  BY DEF Inv, TypeInv, NativeTypeOK, BufferIsStream, Holds
<1>4. TypeInv'
  BY <1>1, <1>2 DEF Inv, TypeInv, NativeTypeOK
<1>5. NothingEarly'
  BY <1>1 DEF Inv, NothingEarly, BeforeReading, BeforeLogging, PortIsOpen
<1>6. (Waiting' <=> Waiting) /\ Handled' = Handled
  BY <1>1 DEF Waiting, Returned, Handled
<1>7. \A k \in 1..Len(due) : k \in 1..Len(due')
  BY <1>2, <1>3
<1>8. WaitingIsDue'
  <2> SUFFICES ASSUME Waiting'
               PROVE  \E k \in 1..Len(due') : ret.pkt[1] = due'[k] /\ due'[k].end = taken
    BY <1>1 DEF WaitingIsDue
  <2>1. PICK k \in 1..Len(due) : ret.pkt[1] = due[k] /\ due[k].end = taken
    BY <1>6 DEF Inv, WaitingIsDue
  <2> QED BY <1>2, <1>7, <2>1
<1>9. SentIsDue'
  <2> SUFFICES ASSUME Reading' PROVE \E r \in 0..Len(due') : SentUpTo(r)'
    BY DEF SentIsDue
  <2>1. PICK r \in 0..Len(due) : SentUpTo(r)
    BY <1>1 DEF Inv, SentIsDue, Reading
  <2>2. r \in 0..Len(due') /\ \A k \in 1..r : k \in 1..Len(due)
    BY <1>2, <1>3
  <2>3. IF r = 0 THEN sent' = <<>> ELSE sent' # <<>> /\ Last(sent') = due'[r]
    <3>1. CASE r = 0
      BY <1>1, <2>1, <3>1 DEF SentUpTo
    <3>2. CASE r # 0
      <4>1. due'[r] = due[r]
        BY <1>2, <1>3, <3>2
      <4> QED BY <1>1, <2>1, <3>2, <4>1 DEF SentUpTo
    <3> QED BY <3>1, <3>2
  <2>4. \A k \in 1..r : due'[k].end <= Handled'
    BY <1>2, <1>6, <2>1, <2>2 DEF SentUpTo
  <2>5. ASSUME ~skipDecoding, NEW k \in (r + 1)..Len(due') PROVE due'[k].end > Handled'
    <3>1. CASE k \in 1..Len(due)
      <4>1. k \in (r + 1)..Len(due)
        BY <3>1
      <4> QED BY <1>2, <1>6, <2>1, <2>5, <3>1, <4>1 DEF SentUpTo
    <3>2. CASE ~(k \in 1..Len(due))
      <4>1. due'[k].end = Len(stream')
        BY <1>2, <1>3, <3>2
      <4>2. Handled = taken \/ Handled = taken - 1
        BY DEF Handled
      <4> QED BY <1>2, <1>3, <1>6, <4>1, <4>2
    <3> QED BY <3>1, <3>2
  <2>6. SentUpTo(r)'
    BY <1>1, <2>1, <2>3, <2>4, <2>5 DEF SentUpTo
  <2> QED BY <2>2, <2>6
<1> QED BY <1>2, <1>4, <1>5, <1>8, <1>9 DEF Inv

(* The caller's calls keep the invariant: the filter they set finds nothing *)
(* in what stands on the line.                                              *)
LEMMA ConfigureStep ==
  ASSUME Inv, Configure, DMCollectorAssumption, DmCollectorCAssumption, LineAssumption
  PROVE  Inv'
<1>1. CASE StartRun
  <2>1. /\ pc = "config" /\ pc' = "open" /\ UNCHANGED portVars
        /\ UNCHANGED <<nativeVars, typeNames, skipDecoding, sent>>
    BY <1>1 DEF StartRun
  <2> QED BY <2>1, QuietStep DEF portVars, Places, Reading, BeforeReading, BeforeLogging
<1>2. CASE ~StartRun
  <2>1. /\ pc = "config" /\ pc' = "config"
        /\ UNCHANGED <<buffer, inReceive, ret, taken, sent, stream, pos, due>>
    BY <1>2 DEF Configure, EnableLog, SaveLogAs, SetSkipDecoding, SetFilteredExport,
                nativeVars, collectorVars, portVars
  <2>2. /\ NativeTypeOK /\ typeNames \subseteq Names /\ skipDecoding \in BOOLEAN
        /\ due = <<>> /\ stream \in Tails /\ Len(due) = 0
    BY <2>1 DEF Inv, TypeInv, NothingEarly, BeforeLogging
  <2>3. NativeTypeOK' /\ typeNames' \subseteq Names /\ skipDecoding' \in BOOLEAN
    <3>1. CASE \E names \in EnableSets : EnableLog(names)
      <4>1. PICK names \in EnableSets : EnableLog(names)
        BY <3>1
      <4>2. typeNames' \in SUBSET Names /\ skipDecoding' = skipDecoding
        BY <2>2, <4>1 DEF EnableLog, DMCollectorAssumption
      <4>3. SetFilteredExport(<<>>, typeNames')
        BY <4>1 DEF EnableLog
      <4>4. NativeTypeOK'
        BY <2>2, <4>2, <4>3, SetFilteredExportType
      <4> QED BY <2>2, <4>2, <4>4
    <3>2. CASE \E path \in Paths : SaveLogAs(path)
      <4>1. PICK path \in Paths : SaveLogAs(path)
        BY <3>2
      <4>2. /\ SetFilteredExport(<<path>>, typeNames) /\ UNCHANGED <<typeNames, skipDecoding>>
            /\ <<path>> \in {<<>>} \cup {<<f>> : f \in Paths} /\ typeNames \in SUBSET Names
        BY <2>2, <4>1 DEF SaveLogAs, collectorVars
      <4>3. NativeTypeOK'
        BY <2>2, <4>2, SetFilteredExportType
      <4> QED BY <2>2, <4>2, <4>3
    <3>3. CASE \E skip \in SkipChoices : SetSkipDecoding(skip)
      BY <2>2, <3>3 DEF SetSkipDecoding, DMCollectorAssumption, nativeVars, NativeTypeOK
    <3> QED BY <1>2, <3>1, <3>2, <3>3 DEF Configure
  <2>4. TypeInv'
    BY <2>1, <2>3 DEF Inv, TypeInv
  <2>5. DueIsStream'
    <3>1. \A e \in 1..Len(stream) : ~(Passes(stream, e)')
      BY <2>1, <2>2 DEF Passes, LineAssumption
    <3>2. Len(due') = 0 /\ stream' = stream
      BY <2>1, <2>2
    <3> QED BY <3>1, <3>2 DEF DueIsStream
  <2>6. NothingEarly' /\ StreamIsWhole' /\ BufferIsStream' /\ WaitingIsDue' /\ SentIsDue'
    BY <2>1 DEF Inv, NothingEarly, BeforeReading, BeforeLogging, StreamIsWhole,
                BufferIsStream, WaitingIsDue, Waiting, Returned, SentIsDue, Reading
  <2> QED BY <2>4, <2>5, <2>6 DEF Inv
<1> QED BY <1>1, <1>2

(* The steps of run() that do no more than go on to another place.         *)
LEMMA RunOn ==
  ASSUME Inv, Run, ~ReadAndFeed, ~Receive, ~Dispatch
  PROVE  /\ UNCHANGED <<nativeVars, typeNames, skipDecoding, sent, stream, pos, due>>
         /\ pc' \in Places /\ pc # "config" /\ pc' \notin {"config", "open"}
         /\ \/ ~Reading' /\ (BeforeReading' => BeforeReading)
            \/ pc' = pc
            \/ pc = "write" /\ pc' = "read"
            \/ pc = "receive" /\ pc' = "read" /\ ~Waiting
<1>1. CASE OpenPort \/ DisableLogs \/ EnableLogs \/ WriteConfig
  BY <1>1 DEF OpenPort, DisableLogs, EnableLogs, WriteConfig, Write, Goto, portVars,
              Reading, BeforeReading, Places
<1>2. CASE LogsEnabled \/ WriteFails \/ ReadFails
  BY <1>2 DEF LogsEnabled, WriteFails, ReadFails, Goto, portVars, Reading, BeforeReading,
              Places
<1>3. CASE ReadOn \/ DecodingFails
  BY <1>3 DEF ReadOn, DecodingFails, Goto, portVars, Reading, BeforeReading, Places,
              Waiting, Returned
<1>4. CASE Interrupt \/ DisableAndClose
  BY <1>4 DEF Interrupt, DisableAndClose, Write, Goto, portVars, Reading, BeforeReading,
              Places, Returned
<1> QED BY <1>1, <1>2, <1>3, <1>4 DEF Run

(* Every step keeps the invariant.                                         *)
LEMMA InvStep ==
  ASSUME Inv, [CollectorNext]_vars, Checksum16, LineAssumption,
         DMCollectorAssumption, DmCollectorCAssumption
  PROVE  Inv'
<1>1. CASE Configure
  BY <1>1, ConfigureStep
<1>2. CASE Run
  <2>1. CASE ReadAndFeed
    BY <2>1, ReadStep
  <2>2. CASE Receive
    BY <2>2, ReceiveStep
  <2>3. CASE Dispatch
    BY <2>3, DispatchStep
  <2>4. CASE ~ReadAndFeed /\ ~Receive /\ ~Dispatch
    BY <1>2, <2>4, RunOn, QuietStep DEF BeforeLogging
  <2> QED BY <2>1, <2>2, <2>3, <2>4
<1>3. CASE Obey
  BY <1>3, QuietStep DEF Obey, collectorVars, Inv, TypeInv
<1>4. CASE \E p \in Messages : Log(p)
  BY <1>4, LogStep
<1>5. CASE UNCHANGED vars
  BY <1>5, QuietStep DEF vars, collectorVars, portVars, Inv, TypeInv
<1> QED BY <1>1, <1>2, <1>3, <1>4, <1>5 DEF CollectorNext, Modem

(* It holds when the process starts.                                       *)
LEMMA InvInit ==
  ASSUME CollectorInit, LineAssumption, DMCollectorAssumption
  PROVE  Inv
<1>1. /\ pc = "config" /\ stream \in Tails /\ due = <<>> /\ sent = <<>> /\ pos = 0
      /\ buffer = <<>> /\ taken = 0 /\ ~inReceive /\ skipDecoding = FALSE /\ typeNames = {}
  BY DEF CollectorInit, NativeInit
<1>2. stream \in Seq(Byte) /\ Len(stream) \in Nat /\ Len(due) = 0 /\ Len(sent) = 0
  BY <1>1, LenProperties DEF DMCollectorAssumption
<1>3. TypeInv
  <2>1. <<>> \in Seq(Byte) /\ <<>> \in Seq(Packet)
    OBVIOUS
  <2>2. NativeTypeOK
    <3>1. disk \in [Paths -> Seq(Byte)]
      BY <2>1 DEF CollectorInit
    <3>2. ret \in [some : BOOLEAN, pkt : Seq(Packet)] /\ Len(ret.pkt) <= 1
      BY <2>1 DEF CollectorInit, NativeInit
    <3> QED BY <2>1, <3>1, <3>2 DEF CollectorInit, NativeInit, NativeTypeOK
  <2> QED BY <1>1, <1>2, <2>1, <2>2 DEF TypeInv, Places
<1>4. NothingEarly /\ StreamIsWhole
  BY <1>1 DEF NothingEarly, StreamIsWhole, LineAssumption
<1>5. BufferIsStream
  <2>1. SubSeq(stream, 0 + 1, 0) = <<>>
    BY <1>2, SubSeqEmpty
  <2> QED BY <1>1, <1>2, <2>1 DEF BufferIsStream, Holds
<1>6. DueIsStream
  BY <1>1, <1>2 DEF DueIsStream, Passes, LineAssumption
<1>7. WaitingIsDue /\ SentIsDue
  BY <1>1 DEF WaitingIsDue, Waiting, Returned, SentIsDue, Reading
<1> QED BY <1>3, <1>4, <1>5, <1>6, <1>7 DEF Inv

-----------------------------------------------------------------------------
(* The refinement, step by step *)

(* What the monitor owes grows at its end, and stays without repetitions.  *)
LEMMA LogOwesMore ==
  ASSUME Inv, NEW p \in Messages, Log(p),
         DMCollectorAssumption, DmCollectorCAssumption, Checksum16, LineAssumption
  PROVE  Feed!FeedNext \/ UNCHANGED Feed!feed
<1>1. Running /\ Running' /\ sent' = sent /\ skipDecoding' = skipDecoding /\ pc' = pc
  BY DEF Log, PortIsOpen, Running, collectorVars, Inv, TypeInv, Places
<1>2. /\ due \in Seq(Packet) /\ Len(due) \in Nat /\ due' \in Seq(Packet) /\ Len(due') \in Nat
      /\ due' = due \/ Len(due') = Len(due) + 1
      /\ \A k \in 1..Len(due) : due'[k] = due[k]
  BY LogExtendsDue DEF Inv, TypeInv
<1>3. CASE due' = due
  BY <1>1, <1>3 DEF Feed!feed, Running
<1>4. CASE Len(due') = Len(due) + 1
  <2>1. Feed!IsInjective(due')
    <3>1. Inv'
      BY LogStep
    <3>2. \A j, k \in 1..Len(due') : j < k => due'[j].end < due'[k].end
      BY <3>1 DEF Inv, DueIsStream
    <3> QED BY <1>2, <3>2, DueIsInjective
  <2>2. Feed!IsStrictPrefix(due, due')
    <3> DEFINE a == SubSeq(due, 1, Len(due))
               b == SubSeq(due', 1, Len(due))
    <3>1. Len(due) - 1 + 1 = Len(due) /\ \A i \in 1..Len(due) : 1 + i - 1 = i
      BY <1>2
    <3>2. a \in Seq(Packet) /\ Len(a) = Len(due) /\ \A i \in 1..Len(due) : a[i] = due[i]
      BY <1>2, <3>1, Stretch
    <3>3. b \in Seq(Packet) /\ Len(b) = Len(due) /\ \A i \in 1..Len(due) : b[i] = due'[i]
      BY <1>2, <1>4, <3>1, Stretch
    <3> HIDE DEF a, b
    <3>4. a = b
      BY <1>2, <3>2, <3>3, SeqEqual
    <3>5. due # due' /\ Len(due) <= Len(due')
      BY <1>2, <1>4
    <3> QED BY <3>4, <3>5 DEF a, b, Feed!IsStrictPrefix, Feed!IsPrefix
  <2> QED BY <1>1, <2>1, <2>2 DEF Feed!FeedNext, Feed!OweMore, Running
<1> QED BY <1>2, <1>3, <1>4

(* Handing a packet on is a step of the feed.                              *)
LEMMA DispatchHandsOut ==
  ASSUME Inv, Dispatch
  PROVE  Feed!FeedNext
<1>1. /\ Running /\ Running' /\ Reading /\ due' = due /\ skipDecoding' = skipDecoding
  BY DEF Dispatch, Returned, Running, Places, Reading, portVars
<1>2. PICK r \in 0..Len(due) : SentUpTo(r)
  BY <1>1 DEF Inv, SentIsDue
<1>3. PICK k \in 1..Len(due) : /\ r < k /\ (~skipDecoding => k = Len(sent) + 1)
                               /\ sent' = Append(sent, due[k])
  BY <1>2, DispatchSends
<1>4. DOMAIN due = 1..Len(due) /\ IsInjective(due)
  BY DueIsInjective, LenProperties DEF Inv, TypeInv, DueIsStream
<1>5. Feed!Reached = r
  <2>1. CASE r = 0
    BY <1>1, <1>2, <2>1 DEF Feed!Reached, SentUpTo
  <2>2. CASE r # 0
    <3>1. sent # <<>> /\ Last(sent) = due[r] /\ r \in DOMAIN due
      BY <1>2, <1>4, <2>2 DEF SentUpTo, Inv, TypeInv
    <3>2. \A j \in DOMAIN due : due[j] = due[r] => j = r
      BY <1>4, <3>1 DEF IsInjective
    <3>3. Feed!Reached = CHOOSE j \in DOMAIN due : due[j] = due[r]
      BY <1>1, <3>1 DEF Feed!Reached, Feed!Last, Last
    <3> QED BY <3>1, <3>2, <3>3
  <2> QED BY <2>1, <2>2
<1>6. IF skipDecoding THEN k > Feed!Reached ELSE k = Len(sent) + 1
  BY <1>2, <1>3, <1>5
<1> HIDE DEF Feed!Reached
<1>7. Feed!HandOut
  BY <1>1, <1>3, <1>4, <1>6 DEF Feed!HandOut
<1> QED BY <1>7 DEF Feed!FeedNext

(* The other steps of run() leave the feed as it is or end it.             *)
LEMMA RunOnKeepsFeed ==
  ASSUME Inv, Run, ~Dispatch
  PROVE  Feed!FeedNext \/ UNCHANGED Feed!feed
<1>1. /\ Running /\ sent' = sent /\ due' = due /\ skipDecoding' = skipDecoding
      /\ pc' \in Places \ {"config"}
  BY DEF Inv, TypeInv, Run, OpenPort, DisableLogs, EnableLogs, WriteConfig, LogsEnabled,
         WriteFails, ReadAndFeed, ReadFails, Receive, ReadOn, DecodingFails, Interrupt,
         DisableAndClose, Write, Goto, collectorVars, portVars, Returned, Running, Places
<1>2. CASE Running'
  BY <1>1, <1>2 DEF Feed!feed
<1>3. CASE ~Running'
  <2>1. pc # "config" /\ pc' # "config"
    BY <1>1 DEF Running
  <2> QED BY <1>1, <1>3, <2>1 DEF Feed!FeedNext, Feed!Exit
<1> QED BY <1>2, <1>3

(* The caller's calls leave the feed as it is, but for the one that starts *)
(* a run.                                                                  *)
LEMMA ConfigureKeepsFeed ==
  ASSUME Inv, Configure
  PROVE  Feed!FeedNext \/ UNCHANGED Feed!feed
<1>1. pc = "config" /\ ~Running
  BY DEF Configure, EnableLog, SaveLogAs, SetSkipDecoding, StartRun, Running
<1>2. CASE StartRun
  <2>1. /\ pc' = "open" /\ skipDecoding' = skipDecoding /\ sent' = sent /\ due' = due
        /\ Running'
    BY <1>2 DEF StartRun, portVars, Running, Places
  <2>2. sent = <<>> /\ due = <<>> /\ skipDecoding \in BOOLEAN
    BY <1>1 DEF Inv, TypeInv, NothingEarly, BeforeReading, BeforeLogging
  <2>3. Feed!IsInjective(<<>>)
    BY DEF Feed!IsInjective
  <2> QED BY <1>1, <2>1, <2>2, <2>3 DEF Feed!FeedNext, Feed!StartRun
<1>3. CASE ~StartRun
  <2>1. pc' = "config" /\ ~Running'
    BY <1>1, <1>3 DEF Configure, EnableLog, SaveLogAs, SetSkipDecoding, collectorVars,
                      Running
  <2> QED BY <1>1, <2>1 DEF Feed!feed
<1> QED BY <1>2, <1>3

(* What the analyzers get are the packets that came from the modem and pass *)
(* the filter, in order, each once and, without deferred decoding, with     *)
(* none left out: whatever the modem sends and when, whatever the size of a *)
(* read and wherever in a frame it ends.                                    *)
THEOREM CollectorImplementsFeed ==
  ASSUME Checksum16
  PROVE  CollectorSpec => ImplementsFeed
<1>1. CollectorInit => Inv /\ Feed!FeedInit
  <2> SUFFICES ASSUME CollectorInit PROVE Inv /\ Feed!FeedInit
    OBVIOUS
  <2>1. ~Running /\ pc = "config"
    BY DEF CollectorInit, Running
  <2> QED BY <2>1, InvInit, DMCollectorAssumption, LineAssumption
          DEF Feed!FeedInit
<1>2. Inv /\ [CollectorNext]_vars => Inv' /\ [Feed!FeedNext]_Feed!feed
  <2> SUFFICES ASSUME Inv, [CollectorNext]_vars
               PROVE  Inv' /\ (Feed!FeedNext \/ UNCHANGED Feed!feed)
    OBVIOUS
  <2>1. Inv'
    BY InvStep, DMCollectorAssumption, DmCollectorCAssumption, LineAssumption
  <2>2. CASE Configure
    BY <2>1, <2>2, ConfigureKeepsFeed
  <2>3. CASE Run
    BY <2>1, <2>3, RunOnKeepsFeed, DispatchHandsOut
  <2>4. CASE \E p \in Messages : Log(p)
    BY <2>1, <2>4, LogOwesMore, DMCollectorAssumption, DmCollectorCAssumption,
       LineAssumption
  <2>5. CASE Obey \/ UNCHANGED vars
    <3>1. UNCHANGED <<pc, skipDecoding, sent, due>>
      BY <2>5 DEF Obey, vars, collectorVars, portVars
    <3> QED BY <2>1, <3>1 DEF Feed!feed, Running
  <2> QED BY <2>2, <2>3, <2>4, <2>5 DEF CollectorNext, Modem
<1> QED BY <1>1, <1>2, PTL DEF CollectorSpec, ImplementsFeed, Feed!FeedSpec
-----------------------------------------------------------------------------
(* That the modem logs what is asked for.  The commands that run() has to   *)
(* write, those on the line and what the modem logs are three cuts of one   *)
(* sequence: the modem has obeyed its first commands, the line holds the    *)
(* next ones and toWrite the rest.                                          *)

Asked == <<Disable>> \o LogConfigMsgs(WantedIds)

\* The modem has obeyed j commands, and i have been written
HowFar(j, i) ==
    /\ IsPart(line, Asked, j, i) /\ IsPart(toWrite, Asked, i, Len(Asked))
    /\ j = 0 => modem.debug = debugBefore
    /\ j > 0 => modem = AfterSome(WantedIds, debugBefore, j - 1)

Settled == pc \in {"write", "read", "receive"}

PortInv ==
    /\ modem \in ModemState /\ line \in Seq(Commands) /\ toWrite \in Seq(Commands)
    /\ typeNames \subseteq Names /\ debugBefore \in BOOLEAN
    /\ pc \in {"config", "open", "disable", "enable"} => modem.debug = debugBefore
    /\ pc \in {"config", "open", "disable"} => line = <<>>
    /\ pc = "enable" => \/ Len(line) = 1 /\ line[1] = Disable
                        \/ line = <<>> /\ modem.ids = {}
    /\ Settled => \E i \in 1..Len(Asked) : \E j \in 0..i : HowFar(j, i)
    /\ pc \in {"read", "receive"} => toWrite = <<>>

(* The commands, one by one.                                               *)
LEMMA AskedAre ==
  ASSUME NEW ids \in SUBSET Nat, TypesFit(ids), NEW all,
         all = <<Disable>> \o LogConfigMsgs(ids)
  PROVE  /\ all \in Seq(Commands) /\ Len(LogConfigMsgs(ids)) \in Nat
         /\ Len(all) = 1 + Len(LogConfigMsgs(ids)) /\ all[1] = Disable
         /\ \A j \in 1..Len(LogConfigMsgs(ids)) : all[1 + j] = LogConfigMsgs(ids)[j]
<1> DEFINE msgs == LogConfigMsgs(ids)
<1>1. msgs \in Seq(Commands)
  BY LogConfigMsgsAre
<1> HIDE DEF msgs
<1>2. Len(msgs) \in Nat
  BY <1>1, LenProperties
<1>3. Disable \in Commands
  BY DEF Commands, PlainOps, Disable
<1> DEFINE one == <<Disable>>
<1>4. one \in Seq(Commands) /\ Len(one) = 1 /\ one[1] = Disable
  BY <1>3
<1> HIDE DEF one
<1>5. /\ one \o msgs \in Seq(Commands) /\ Len(one \o msgs) = Len(one) + Len(msgs)
      /\ \A i \in 1..(Len(one) + Len(msgs)) :
            (one \o msgs)[i] = IF i <= Len(one) THEN one[i] ELSE msgs[i - Len(one)]
  BY <1>1, <1>4, ConcatProperties
<1>6. all = one \o msgs
  BY DEF one, msgs
<1>7. all[1] = Disable
  BY <1>2, <1>4, <1>5, <1>6
<1>8. ASSUME NEW j \in 1..Len(msgs) PROVE all[1 + j] = msgs[j]
  <2>1. 1 + j \in 1..(1 + Len(msgs)) /\ ~(1 + j <= 1) /\ (1 + j) - 1 = j
    BY <1>2
  <2> QED BY <1>4, <1>5, <1>6, <2>1
<1> QED BY <1>2, <1>4, <1>5, <1>6, <1>7, <1>8 DEF msgs

(* What is wanted are ids of the table.                                    *)
LEMMA WantedFit ==
  ASSUME typeNames \subseteq Names, DmCollectorCAssumption, TypesAssumption
  PROVE  WantedIds \in SUBSET Nat /\ TypesFit(WantedIds)
<1>1. \A n \in typeNames : IdsOf[n] \in SUBSET Nat /\ TypesFit(IdsOf[n])
  BY IdsAreNat DEF TypesAssumption
<1> QED BY <1>1 DEF WantedIds, TypesFit

(* A modem that has obeyed j of the commands and obeys the next one.       *)
LEMMA NextIsObeyed ==
  ASSUME NEW ids \in SUBSET Nat, TypesFit(ids), NEW m \in ModemState, NEW all,
         all = <<Disable>> \o LogConfigMsgs(ids),
         NEW j \in Nat, j < Len(all), NEW d \in BOOLEAN,
         j = 0 => m.debug = d,
         j > 0 => m = AfterSome(ids, d, j - 1)
  PROVE  Obeyed(m, all[j + 1]) = AfterSome(ids, d, (j + 1) - 1)
<1>1. /\ Len(LogConfigMsgs(ids)) \in Nat
      /\ Len(all) = 1 + Len(LogConfigMsgs(ids)) /\ all[1] = Disable
      /\ \A k \in 1..Len(LogConfigMsgs(ids)) : all[1 + k] = LogConfigMsgs(ids)[k]
  BY AskedAre
<1>2. CASE j = 0
  <2>1. m.debug = d
    BY <1>2
  <2>2. Obeyed(m, all[j + 1]) = [ids |-> {}, debug |-> d]
    BY <1>1, <1>2, <2>1, PlainIsObeyed
  <2>3. AfterSome(ids, d, 0) = [ids |-> {}, debug |-> d]
    <3>1. 0 \in Nat /\ 0 <= Len(LogConfigMsgs(ids))
      BY <1>1
    <3> QED BY <3>1, AfterSomeType
  <2>4. (j + 1) - 1 = 0
    BY <1>2
  <2> QED BY <2>2, <2>3, <2>4
<1>3. CASE j # 0
  <2>1. m = AfterSome(ids, d, j - 1)
    BY <1>3
  <2>2. j \in 1..Len(LogConfigMsgs(ids)) /\ j + 1 = 1 + j /\ (j + 1) - 1 = j
    BY <1>1, <1>3
  <2>3. all[j + 1] = LogConfigMsgs(ids)[j]
    BY <1>1, <2>2
  <2>4. Obeyed(m, all[j + 1]) = AfterSome(ids, d, j)
    BY <2>1, <2>2, <2>3, AfterSomeNext
  <2> QED BY <2>2, <2>4
<1> QED BY <1>2, <1>3
(* Steps that touch neither the port nor the commands.                     *)
LEMMA PortInvKept ==
  ASSUME PortInv, UNCHANGED <<typeNames, toWrite, line, modem, debugBefore>>,
         \/ pc' = pc
         \/ pc = "config" /\ pc' = "open"
         \/ pc = "open" /\ pc' = "disable"
         \/ pc = "write" /\ pc' = "read" /\ toWrite = <<>>
         \/ pc \in {"read", "receive"} /\ pc' \in {"read", "receive"}
         \/ pc' \in {"handler", "exited", "failed", "raised", "crashed"}
  PROVE  PortInv'
<1>1. Asked' = Asked /\ WantedIds' = WantedIds
  BY DEF Asked, WantedIds
<1>2. \A j, i : HowFar(j, i) => HowFar(j, i)'
  BY <1>1 DEF HowFar
<1>3. Settled' => Settled
  BY DEF Settled
<1>4. Settled' => \E i \in 1..Len(Asked') : \E j \in 0..i : HowFar(j, i)'
  BY <1>1, <1>2, <1>3 DEF PortInv
<1> QED BY <1>4 DEF PortInv, Settled

(* The command that turns all logs off, before the loop.                   *)
LEMMA DisableKeepsPortInv ==
  ASSUME PortInv, DisableLogs \/ DisableAndClose
  PROVE  PortInv'
<1>1. /\ line' = Append(line, Disable)
      /\ UNCHANGED <<typeNames, toWrite, modem, debugBefore>>
      /\ \/ pc = "disable" /\ pc' = "enable"
         \/ pc = "handler" /\ pc' = "exited"
  BY DEF DisableLogs, DisableAndClose, Write, Goto
<1>2. Disable \in Commands
  BY DEF Commands, PlainOps, Disable
<1>3. /\ line' \in Seq(Commands) /\ Len(line') = Len(line) + 1
      /\ line'[Len(line) + 1] = Disable
  BY <1>1, <1>2, AppendProperties DEF PortInv
<1>4. pc' = "enable" => Len(line') = 1 /\ line'[1] = Disable
  <2>1. pc' = "enable" => line = <<>>
    BY <1>1 DEF PortInv
  <2>2. Len(<<>>) = 0
    OBVIOUS
  <2> QED BY <1>3, <2>1, <2>2
<1> QED BY <1>1, <1>3, <1>4 DEF PortInv, Settled

(* enable_logs: from here on there is a sequence of commands to speak of.  *)
LEMMA EnableKeepsPortInv ==
  ASSUME PortInv, EnableLogs, DmCollectorCAssumption, TypesAssumption
  PROVE  PortInv'
<1>1. CASE pc' = "failed"
  <2>1. UNCHANGED <<typeNames, toWrite, line, modem, debugBefore>>
    BY <1>1 DEF EnableLogs, Goto, portVars
  <2> QED BY <1>1, <2>1, PortInvKept
<1>2. CASE pc' # "failed"
  <2>1. /\ toWrite' = LogConfigMsgs(WantedIds) /\ pc' = "write" /\ pc = "enable"
        /\ UNCHANGED <<typeNames, line, modem, debugBefore>>
    BY <1>2 DEF EnableLogs, Goto, portVars
  <2>2. WantedIds \in SUBSET Nat /\ TypesFit(WantedIds)
    BY WantedFit DEF PortInv
  <2>3. /\ Asked \in Seq(Commands) /\ Len(toWrite') \in Nat
        /\ Len(Asked) = 1 + Len(toWrite') /\ Asked[1] = Disable
        /\ \A j \in 1..Len(toWrite') : Asked[1 + j] = toWrite'[j]
    <3> DEFINE msgs == LogConfigMsgs(WantedIds)
    <3>1. /\ Asked \in Seq(Commands) /\ Len(msgs) \in Nat
          /\ Len(Asked) = 1 + Len(msgs) /\ Asked[1] = Disable
          /\ \A j \in 1..Len(msgs) : Asked[1 + j] = msgs[j]
      BY <2>2, AskedAre DEF Asked
    <3>2. toWrite' = msgs
      BY <2>1
    <3> HIDE DEF msgs
    <3> QED BY <3>1, <3>2
  <2>4. toWrite' \in Seq(Commands)
    BY <2>1, <2>2, LogConfigMsgsAre
  <2>5. Asked' = Asked /\ WantedIds' = WantedIds
    BY <2>1 DEF Asked, WantedIds
  <2>6. IsPart(toWrite', Asked, 1, Len(Asked))
    BY <2>3 DEF IsPart
  <2>7. \E j \in 0..1 : HowFar(j, 1)'
    <3>1. CASE Len(line) = 1 /\ line[1] = Disable
      <4>1. IsPart(line, Asked, 0, 1)
        BY <2>3, <3>1 DEF IsPart
      <4>2. HowFar(0, 1)'
        BY <2>1, <2>5, <2>6, <4>1 DEF HowFar, PortInv
      <4> QED BY <4>2
    <3>2. CASE line = <<>> /\ modem.ids = {}
      <4>1. IsPart(line, Asked, 1, 1)
        <5>1. Len(line) = 0 /\ 1..(1 - 1) = {}
          BY <3>2
        <5> QED BY <5>1 DEF IsPart
      <4>2. modem' = AfterSome(WantedIds, debugBefore, 1 - 1)
        <5>1. modem = [ids |-> {}, debug |-> debugBefore] /\ debugBefore \in BOOLEAN
          BY <2>1, <3>2 DEF PortInv, ModemState
        <5>2. AfterSome(WantedIds, debugBefore, 0) = [ids |-> {}, debug |-> debugBefore]
          BY <2>1, <2>2, <2>3, <5>1, AfterSomeType
        <5>3. 1 - 1 = 0
          OBVIOUS
        <5> QED BY <2>1, <5>1, <5>2, <5>3
      <4>3. HowFar(1, 1)'
        BY <2>1, <2>5, <2>6, <4>1, <4>2 DEF HowFar
      <4> QED BY <4>3
    <3> QED BY <2>1, <3>1, <3>2 DEF PortInv
  <2>8. 1 \in 1..Len(Asked')
    BY <2>3, <2>5
  <2> QED BY <2>1, <2>4, <2>7, <2>8 DEF PortInv, Settled
<1> QED BY <1>1, <1>2

(* Of the lengths that the invariant speaks of.                            *)
LEMMA HowFarBounds ==
  ASSUME PortInv, Settled, DmCollectorCAssumption, TypesAssumption
  PROVE  /\ WantedIds \in SUBSET Nat /\ TypesFit(WantedIds) /\ Asked \in Seq(Commands)
         /\ Len(Asked) \in Nat
         /\ Len(Asked) = 1 + Len(LogConfigMsgs(WantedIds))
         /\ Len(LogConfigMsgs(WantedIds)) \in Nat
         /\ \E i \in 1..Len(Asked) : \E j \in 0..i : i \in Nat /\ j \in Nat /\ HowFar(j, i)
<1>1. WantedIds \in SUBSET Nat /\ TypesFit(WantedIds)
  BY WantedFit DEF PortInv
<1>2. /\ Asked \in Seq(Commands) /\ Len(LogConfigMsgs(WantedIds)) \in Nat
      /\ Len(Asked) = 1 + Len(LogConfigMsgs(WantedIds))
  BY <1>1, AskedAre DEF Asked
<1>3. PICK i \in 1..Len(Asked) : \E j \in 0..i : HowFar(j, i)
  BY DEF PortInv
<1>4. i \in Nat /\ \A j \in 0..i : j \in Nat
  BY <1>2
<1> QED BY <1>1, <1>2, <1>3, <1>4

(* A command that is written goes from the one cut to the next.            *)
LEMMA WriteKeepsPortInv ==
  ASSUME PortInv, WriteConfig, DmCollectorCAssumption, TypesAssumption
  PROVE  PortInv'
<1>1. /\ pc = "write" /\ pc' = "write" /\ toWrite # <<>>
      /\ line' = Append(line, Head(toWrite)) /\ toWrite' = Tail(toWrite)
      /\ UNCHANGED <<typeNames, modem, debugBefore>>
  BY DEF WriteConfig, Write, Goto
<1>2. Len(Asked) \in Nat
  BY <1>1, HowFarBounds DEF Settled
<1>3. PICK i \in 1..Len(Asked) : \E j \in 0..i : i \in Nat /\ j \in Nat /\ HowFar(j, i)
  BY <1>1, HowFarBounds DEF Settled
<1>4. PICK j \in 0..i : i \in Nat /\ j \in Nat /\ HowFar(j, i)
  BY <1>3
<1>5. Asked' = Asked /\ WantedIds' = WantedIds
  BY <1>1 DEF Asked, WantedIds
<1>6. /\ i < Len(Asked) /\ Head(toWrite) = Asked[i + 1]
      /\ IsPart(Tail(toWrite), Asked, i + 1, Len(Asked))
  <2>1. i <= Len(Asked) /\ i \in Nat /\ IsPart(toWrite, Asked, i, Len(Asked))
    BY <1>2, <1>3, <1>4 DEF HowFar
  <2> QED BY <1>1, <1>2, <2>1, PartShrinks DEF PortInv
<1>7. Head(toWrite) \in Commands /\ Tail(toWrite) \in Seq(Commands)
  BY <1>1, HeadTailProperties DEF PortInv
<1>8. IsPart(Append(line, Head(toWrite)), Asked, j, i + 1)
  <2>1. j <= i /\ IsPart(line, Asked, j, i)
    BY <1>4 DEF HowFar
  <2> QED BY <1>4, <1>6, <1>7, <2>1, PartGrows DEF PortInv
<1>9. line' \in Seq(Commands)
  BY <1>1, <1>7, AppendProperties DEF PortInv
<1>10. HowFar(j, i + 1)'
  BY <1>1, <1>4, <1>5, <1>6, <1>8 DEF HowFar
<1>11. i + 1 \in 1..Len(Asked') /\ j \in 0..(i + 1)
  BY <1>2, <1>4, <1>5, <1>6
<1>12. \E x \in 1..Len(Asked') : \E y \in 0..x : HowFar(y, x)'
  BY <1>10, <1>11
<1> QED BY <1>1, <1>7, <1>9, <1>12 DEF PortInv, Settled

(* A command that is obeyed.                                               *)
LEMMA ObeyKeepsPortInv ==
  ASSUME PortInv, Obey, DmCollectorCAssumption, TypesAssumption
  PROVE  PortInv'
<1>1. /\ line # <<>> /\ modem' = Obeyed(modem, Head(line)) /\ line' = Tail(line)
      /\ UNCHANGED <<pc, typeNames, toWrite, debugBefore>>
  BY DEF Obey, collectorVars
<1>2. /\ Head(line) \in Commands /\ Head(line) = line[1]
      /\ Tail(line) \in Seq(Commands) /\ Len(Tail(line)) = Len(line) - 1
  BY <1>1, HeadTailProperties DEF PortInv
<1>3. modem' \in ModemState
  BY <1>1, <1>2, ObeyedType DEF PortInv
<1>4. Asked' = Asked /\ WantedIds' = WantedIds
  BY <1>1 DEF Asked, WantedIds
<1>5. pc' = "enable" => line' = <<>> /\ modem'.ids = {} /\ modem'.debug = debugBefore'
  <2> SUFFICES ASSUME pc = "enable"
               PROVE  line' = <<>> /\ modem'.ids = {} /\ modem'.debug = debugBefore'
    BY <1>1
  <2>1. Len(line) = 1 /\ line[1] = Disable
    BY <1>1 DEF PortInv
  <2>2. Len(Tail(line)) = 0
    BY <1>2, <2>1
  <2>3. modem' = [ids |-> {}, debug |-> modem.debug]
    BY <1>1, <1>2, <2>1, PlainIsObeyed DEF PortInv
  <2>4. modem.debug = debugBefore
    BY DEF PortInv
  <2> QED BY <1>1, <1>2, <2>2, <2>3, <2>4, EmptySeq
<1>6. ASSUME Settled
      PROVE  \E i \in 1..Len(Asked') : \E j \in 0..i : HowFar(j, i)'
  <2>1. WantedIds \in SUBSET Nat /\ TypesFit(WantedIds) /\ Len(Asked) \in Nat
    BY <1>6, HowFarBounds
  <2>2. PICK i \in 1..Len(Asked) : \E j \in 0..i : i \in Nat /\ j \in Nat /\ HowFar(j, i)
    BY <1>6, HowFarBounds
  <2>3. PICK j \in 0..i : i \in Nat /\ j \in Nat /\ HowFar(j, i)
    BY <2>2
  <2>4. /\ j < i /\ Head(line) = Asked[j + 1] /\ IsPart(Tail(line), Asked, j + 1, i)
    <3>1. j <= i /\ IsPart(line, Asked, j, i)
      BY <2>3 DEF HowFar
    <3> QED BY <1>1, <2>3, <3>1, PartShrinks DEF PortInv
  <2>5. j < Len(Asked)
    BY <2>1, <2>2, <2>3, <2>4
  <2>6. modem' = AfterSome(WantedIds, debugBefore, (j + 1) - 1)
    <3>1. /\ j = 0 => modem.debug = debugBefore
          /\ j > 0 => modem = AfterSome(WantedIds, debugBefore, j - 1)
      BY <2>3 DEF HowFar
    <3>2. /\ modem \in ModemState /\ debugBefore \in BOOLEAN /\ j \in Nat
          /\ Asked = <<Disable>> \o LogConfigMsgs(WantedIds)
      BY <2>3 DEF PortInv, Asked
    <3>3. Obeyed(modem, Asked[j + 1]) = AfterSome(WantedIds, debugBefore, (j + 1) - 1)
      BY <2>1, <2>5, <3>1, <3>2, NextIsObeyed
    <3> QED BY <1>1, <2>4, <3>3
  <2>7. HowFar(j + 1, i)'
    BY <1>1, <1>4, <2>3, <2>4, <2>6 DEF HowFar
  <2>8. i \in 1..Len(Asked') /\ j + 1 \in 0..i
    BY <1>4, <2>1, <2>2, <2>3, <2>4
  <2> QED BY <2>7, <2>8
<1>7. pc \notin {"config", "open", "disable"}
  BY <1>1 DEF PortInv
<1> QED BY <1>1, <1>2, <1>3, <1>5, <1>6, <1>7 DEF PortInv, Settled

(* A step of the system.                                                   *)
LEMMA PortInvStep ==
  ASSUME PortInv, [CollectorNext]_vars, DMCollectorAssumption, DmCollectorCAssumption,
         TypesAssumption
  PROVE  PortInv'
<1>1. CASE \E names \in EnableSets : EnableLog(names)
  <2>1. PICK names \in EnableSets : EnableLog(names)
    BY <1>1
  <2>2. typeNames' \subseteq Names
    BY <2>1 DEF EnableLog, PortInv, DMCollectorAssumption
  <2>3. /\ pc = "config" /\ pc' = "config"
        /\ UNCHANGED <<toWrite, line, modem, debugBefore>>
    BY <2>1 DEF EnableLog, portVars
  <2> QED BY <2>2, <2>3 DEF PortInv, Settled
<1>2. CASE \/ \E path \in Paths : SaveLogAs(path)
           \/ \E skip \in SkipChoices : SetSkipDecoding(skip)
           \/ StartRun
  BY <1>2, PortInvKept DEF SaveLogAs, SetSkipDecoding, StartRun, collectorVars, portVars
<1>3. CASE OpenPort \/ LogsEnabled \/ WriteFails \/ ReadFails
  BY <1>3, PortInvKept DEF OpenPort, LogsEnabled, WriteFails, ReadFails, Goto, portVars
<1>4. CASE ReadAndFeed \/ Receive \/ ReadOn \/ Dispatch
  BY <1>4, PortInvKept DEF ReadAndFeed, Receive, ReadOn, Dispatch, Returned, Goto,
                           collectorVars, portVars
<1>5. CASE DecodingFails \/ Interrupt
  BY <1>5, PortInvKept DEF DecodingFails, Interrupt, Goto, portVars
<1>6. CASE DisableLogs \/ DisableAndClose \/ EnableLogs \/ WriteConfig
  BY <1>6, DisableKeepsPortInv, EnableKeepsPortInv, WriteKeepsPortInv
<1>7. CASE Obey
  BY <1>7, ObeyKeepsPortInv
<1>8. CASE \E p \in Messages : Log(p)
  BY <1>8, PortInvKept DEF Log, collectorVars
<1>9. CASE UNCHANGED vars
  BY <1>9, PortInvKept DEF vars, collectorVars, portVars
<1> QED BY <1>1, <1>2, <1>3, <1>4, <1>5, <1>6, <1>7, <1>8, <1>9
        DEF CollectorNext, Configure, Run, Modem

(* It holds when the process starts.                                       *)
LEMMA PortInvInit ==
  ASSUME CollectorInit, DMCollectorAssumption
  PROVE  PortInv
<1>1. /\ pc = "config" /\ typeNames = {} /\ toWrite = <<>> /\ line = <<>>
      /\ modem \in ModemState /\ debugBefore = modem.debug /\ modem.debug \in BOOLEAN
  BY DEF CollectorInit, DMCollectorAssumption, ModemState
<1>2. <<>> \in Seq(Commands)
  OBVIOUS
<1> QED BY <1>1, <1>2 DEF PortInv, Settled

(* When the line is empty and nothing is left to write, all of the commands *)
(* have been obeyed.                                                       *)
LEMMA AllObeyed ==
  ASSUME PortInv, DmCollectorCAssumption, TypesAssumption
  PROVE  ModemLogsWhatIsAsked
<1> SUFFICES ASSUME pc \in {"read", "receive"}, line = <<>>
             PROVE  LogsExactly(modem, ToBeLogged)
  BY DEF ModemLogsWhatIsAsked
<1>1. Settled /\ toWrite = <<>>
  BY DEF Settled, PortInv
<1>2. /\ WantedIds \in SUBSET Nat /\ TypesFit(WantedIds) /\ Len(Asked) \in Nat
      /\ Len(Asked) = 1 + Len(LogConfigMsgs(WantedIds))
      /\ Len(LogConfigMsgs(WantedIds)) \in Nat
  BY <1>1, HowFarBounds
<1>3. PICK i \in 1..Len(Asked) : \E j \in 0..i : i \in Nat /\ j \in Nat /\ HowFar(j, i)
  BY <1>1, HowFarBounds
<1>4. PICK j \in 0..i : i \in Nat /\ j \in Nat /\ HowFar(j, i)
  BY <1>3
<1>5. 0 = i - j /\ 0 = Len(Asked) - i
  <2>1. Len(line) = 0 /\ Len(toWrite) = 0
    BY <1>1
  <2> QED BY <1>4, <2>1 DEF HowFar, IsPart
<1>6. j = Len(Asked) /\ j > 0 /\ j - 1 = Len(LogConfigMsgs(WantedIds))
  BY <1>2, <1>3, <1>4, <1>5
<1>7. modem = AfterSome(WantedIds, debugBefore, j - 1) /\ debugBefore \in BOOLEAN
  BY <1>4, <1>6 DEF HowFar, PortInv
<1>8. /\ modem.ids = WantedIds \ {ModemDebugId}
      /\ modem.debug = (debugBefore \/ ModemDebugId \in WantedIds)
  BY <1>2, <1>6, <1>7, AfterAll
<1>9. /\ ToBeLogged \ {ModemDebugId} = WantedIds \ {ModemDebugId}
      /\ ModemDebugId \in ToBeLogged <=> debugBefore \/ ModemDebugId \in WantedIds
  BY <1>7 DEF ToBeLogged
<1> QED BY <1>8, <1>9 DEF LogsExactly

(* Once run() reads and the modem has obeyed what was written, it logs      *)
(* exactly the type ids of the names that were enabled, and debug messages  *)
(* if and only if they are among them or it sent them before (disable_logs  *)
(* does not turn those off): for every table of types, whatever the modem   *)
(* logged before and whenever it obeys.                                     *)
THEOREM CollectorModemLogsWhatIsAsked == CollectorSpec => []ModemLogsWhatIsAsked
<1>1. CollectorInit => PortInv
  BY PortInvInit, DMCollectorAssumption
<1>2. PortInv /\ [CollectorNext]_vars => PortInv'
  BY PortInvStep, DMCollectorAssumption, DmCollectorCAssumption, TypesAssumption
<1>3. PortInv => ModemLogsWhatIsAsked
  BY AllObeyed, DmCollectorCAssumption, TypesAssumption
<1> QED BY <1>1, <1>2, <1>3, PTL DEF CollectorSpec

(* Every variable holds what it is declared to hold; above all, the reads   *)
(* get no further than what the modem has sent.                             *)
THEOREM CollectorTypeOK ==
  ASSUME Checksum16
  PROVE  CollectorSpec => []TypeOK
<1> DEFINE Counted == nMessages \in 0..MaxMessages
<1>1. CollectorInit => Inv /\ PortInv /\ Counted
  <2>1. CollectorInit => Counted
    BY DMCollectorAssumption DEF CollectorInit, DMCollectorAssumption
  <2> QED BY <2>1, InvInit, PortInvInit, LineAssumption, DMCollectorAssumption
<1>2. Inv /\ PortInv /\ Counted /\ [CollectorNext]_vars => Inv' /\ PortInv' /\ Counted'
  <2> SUFFICES ASSUME Inv, PortInv, Counted, [CollectorNext]_vars
               PROVE  Inv' /\ PortInv' /\ Counted'
    OBVIOUS
  <2>1. Counted'
    <3>1. MaxMessages \in Nat
      BY DMCollectorAssumption DEF DMCollectorAssumption
    <3>2. CASE \E p \in Messages : Log(p)
      BY <3>1, <3>2 DEF Log
    <3>3. CASE ~\E p \in Messages : Log(p)
      <4>1. nMessages' = nMessages
        BY <3>3 DEF CollectorNext, Configure, Modem, EnableLog, SaveLogAs, SetSkipDecoding,
                    StartRun, Run, OpenPort, DisableLogs, EnableLogs, WriteConfig,
                    LogsEnabled, WriteFails, ReadAndFeed, ReadFails, Receive, ReadOn,
                    Dispatch, DecodingFails, Interrupt, DisableAndClose, Obey, Write, vars,
                    portVars
      <4> QED BY <4>1
    <3> QED BY <3>2, <3>3
  <2> QED BY <2>1, InvStep, PortInvStep, DMCollectorAssumption, DmCollectorCAssumption,
             LineAssumption, TypesAssumption
<1>3. Inv /\ PortInv /\ Counted => TypeOK
  <2> SUFFICES ASSUME Inv, PortInv, Counted PROVE TypeOK
    OBVIOUS
  <2>1. pos \in 0..Len(stream)
    BY DEF Inv, BufferIsStream, Holds
  <2>2. modem.ids \subseteq Nat /\ modem.debug \in BOOLEAN
    BY DEF PortInv, ModemState
  <2> QED BY <2>1, <2>2 DEF TypeOK, Inv, TypeInv
<1> QED BY <1>1, <1>2, <1>3, PTL DEF CollectorSpec
=============================================================================
