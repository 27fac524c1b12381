----------------------- MODULE OfflineReplayer_proofs -----------------------
(***************************************************************************)
(* Theorems about OfflineReplayer, for every set of files and logs, every  *)
(* filter and every checksum of 16 bits.                                   *)
(***************************************************************************)
EXTENDS OfflineReplayer, DmCollectorC_proofs

\* run() reads only from a file of its list
ReadsAFile == pc \in {"read", "receive"} => fileNo # 0

TypeInv == TypeOK /\ ReadsAFile

-----------------------------------------------------------------------------
(* The native state is well typed when a process starts.                   *)
LEMMA ReplayInitType ==
  ASSUME OfflineReplayerAssumption, ReplayInit
  PROVE  TypeInv
<1>1. disk \in [Paths -> Seq(Byte)] /\ MaxRuns \in Nat
  BY DEF ReplayInit, OfflineReplayerAssumption
<1>2. NativeTypeOK
  <2>1. /\ buffer = <<>> /\ taken = 0 /\ whitelist = {} /\ logPath = <<>>
        /\ unflushed = <<>> /\ inReceive = FALSE
        /\ ret = [some |-> FALSE, pkt |-> <<>>]
    BY DEF ReplayInit, NativeInit
  <2>2. ret \in [some : BOOLEAN, pkt : Seq(Packet)] /\ Len(ret.pkt) <= 1
    BY <2>1
  <2>3. buffer \in Seq(Byte) /\ unflushed \in Seq(Byte)
    BY <2>1
  <2> QED BY <1>1, <2>1, <2>2, <2>3 DEF NativeTypeOK
<1>3. input \in Seq(Paths) /\ fileNo \in 0..Len(input) /\ sent \in Seq(Event)
  BY DEF ReplayInit
<1>4. nRuns \in 0..MaxRuns
  BY <1>1 DEF ReplayInit
<1> QED BY <1>2, <1>3, <1>4 DEF ReplayInit, TypeInv, TypeOK, ReadsAFile

(* A read adds to the buffer what it returns, which may be nothing.        *)
LEMMA ReadType ==
  ASSUME TypeInv, ReadAndFeed, OfflineReplayerAssumption
  PROVE  /\ buffer' \in Seq(Byte) /\ pos' \in Nat /\ eof' \in BOOLEAN
         /\ NativeTypeOK'
<1> DEFINE end == IF pos + ReadSize < Len(File) THEN pos + ReadSize ELSE Len(File)
<1>1. File \in Seq(Byte) /\ Len(File) \in Nat
  <2>1. fileNo \in 1..Len(input) /\ input \in Seq(Paths)
    BY LenProperties DEF TypeInv, TypeOK, ReadsAFile, ReadAndFeed
  <2>2. input[fileNo] \in Paths
    BY <2>1, ElementOfSeq
  <2>3. File \in Seq(Byte)
    BY <2>2 DEF File, TypeInv, TypeOK, NativeTypeOK
  <2> QED BY <2>3, LenProperties
<1>2. pos \in Nat /\ ReadSize \in Nat
  BY DEF TypeInv, TypeOK, OfflineReplayerAssumption
<1>3. end \in Nat /\ end <= Len(File)
  BY <1>1, <1>2
<1>4. buffer' = buffer \o SubSeq(File, pos + 1, end) /\ eof' = (end = pos) /\ pos' = end
  BY DEF ReadAndFeed
<1> HIDE DEF end
<1>5. SubSeq(File, pos + 1, end) \in Seq(Byte)
  <2>1. \A i \in 1..Len(File) : File[i] \in Byte
    BY <1>1, ElementOfSeq
  <2>2. \A i \in (pos + 1)..end : File[i] \in Byte
    BY <1>1, <1>2, <1>3, <2>1
  <2> QED BY <1>2, <1>3, <2>2, SubSeqProperties
<1>6. buffer' \in Seq(Byte)
  <2>1. buffer \in Seq(Byte)
    BY DEF TypeInv, TypeOK, NativeTypeOK
  <2> QED BY <1>4, <1>5, <2>1, ConcatProperties
<1>7. NativeTypeOK'
  <2>1. /\ inReceive' = TRUE
        /\ UNCHANGED <<whitelist, logPath, disk, unflushed, ret, taken>>
    BY DEF ReadAndFeed
  <2>2. NativeTypeOK
    BY DEF TypeInv, TypeOK
  <2> QED BY <1>6, <2>1, <2>2 DEF NativeTypeOK
<1> QED BY <1>3, <1>4, <1>6, <1>7

(* What is sent is an event.                                               *)
LEMMA DispatchType ==
  ASSUME TypeInv, Dispatch
  PROVE  sent' \in Seq(Event)
<1>1. sent \in Seq(Event) /\ fileNo \in Nat
  BY LenProperties DEF TypeInv, TypeOK
<1>2. ret.pkt[1] \in Packet
  <2>1. ret.pkt \in Seq(Packet) /\ ret.pkt # <<>>
    BY DEF TypeInv, TypeOK, NativeTypeOK, Dispatch
  <2>2. 1 \in 1..Len(ret.pkt)
    BY <2>1, EmptySeq, LenProperties
  <2> QED BY <2>1, <2>2, ElementOfSeq
<1> DEFINE e == [file |-> fileNo, end |-> ret.pkt[1].end, payload |-> ret.pkt[1].payload]
<1>3. e \in Event
  BY <1>1, <1>2 DEF Event, Packet
<1>4. sent' = sent \/ sent' = Append(sent, e)
  BY DEF Dispatch
<1> HIDE DEF e
<1> QED BY <1>1, <1>3, <1>4, AppendProperties
-----------------------------------------------------------------------------
(* Every call of the caller leaves the monitor well typed.                 *)
LEMMA ConfigureType ==
  ASSUME TypeInv, Configure, DmCollectorCAssumption, OfflineReplayerAssumption
  PROVE  TypeInv'
<1>1. NativeTypeOK /\ typeNames \subseteq Names /\ pc = "config"
  BY DEF TypeInv, TypeOK, Configure, EnableLog, SaveLogAs, SetSkipDecoding,
         SetInputPath, StartRun
<1>2. ASSUME NEW names \in EnableSets, EnableLog(names) PROVE TypeInv'
  <2>1. typeNames' = typeNames \cup names /\ typeNames' \subseteq Names
    BY <1>1, <1>2 DEF EnableLog, OfflineReplayerAssumption
  <2>2. SetFilteredExport(<<>>, typeNames')
    BY <1>2 DEF EnableLog
  <2>3. NativeTypeOK'
    BY <1>1, <2>1, <2>2, SetFilteredExportType
  <2>4. raised' \in BOOLEAN
    BY <1>2 DEF EnableLog, NamesKnown
  <2> QED BY <1>2, <2>1, <2>3, <2>4 DEF EnableLog, TypeInv, TypeOK, ReadsAFile
<1>3. ASSUME NEW path \in Paths, SaveLogAs(path) PROVE TypeInv'
  <2>1. SetFilteredExport(<<path>>, typeNames)
    BY <1>3 DEF SaveLogAs
  <2>2. NativeTypeOK'
    BY <1>1, <2>1, SetFilteredExportType
  <2>3. raised' \in BOOLEAN
    BY <1>3 DEF SaveLogAs, NamesKnown
  <2> QED BY <1>3, <2>2, <2>3 DEF SaveLogAs, TypeInv, TypeOK, ReadsAFile
<1>4. ASSUME NEW skip \in SkipChoices, SetSkipDecoding(skip) PROVE TypeInv'
  <2>1. skipDecoding' \in BOOLEAN
    BY <1>4 DEF SetSkipDecoding, OfflineReplayerAssumption
  <2> QED BY <1>1, <1>4, <2>1
          DEF SetSkipDecoding, TypeInv, TypeOK, NativeTypeOK, nativeVars, ReadsAFile
<1>5. ASSUME NEW list \in InputLists, SetInputPath(list) PROVE TypeInv'
  <2>1. input' = list /\ input' \in Seq(Paths) /\ fileNo' = 0
    BY <1>5 DEF SetInputPath, OfflineReplayerAssumption
  <2>2. fileNo' \in 0..Len(input')
    BY <2>1, LenProperties
  <2>3. buffer' \in Seq(Byte) /\ taken' \in Nat
    BY <1>5 DEF SetInputPath, Reset
  <2>4. NativeTypeOK'
    BY <1>1, <1>5, <2>3 DEF SetInputPath, NativeTypeOK
  <2> QED BY <1>5, <2>1, <2>2, <2>4 DEF SetInputPath, TypeInv, TypeOK, ReadsAFile
<1>6. CASE StartRun
  <2>1. fileNo' = 0 /\ input' = input /\ input \in Seq(Paths)
    BY <1>6 DEF StartRun, TypeInv, TypeOK
  <2>2. fileNo' \in 0..Len(input')
    BY <2>1, LenProperties
  <2>3. sent' \in Seq(Event)
    BY <1>6 DEF StartRun
  <2>4. nRuns' \in 0..MaxRuns
    BY <1>6 DEF StartRun, TypeInv, TypeOK, OfflineReplayerAssumption
  <2>5. NativeTypeOK'
    BY <1>1, <1>6 DEF StartRun, nativeVars, NativeTypeOK
  <2> QED BY <1>6, <2>1, <2>2, <2>3, <2>4, <2>5
          DEF StartRun, TypeInv, TypeOK, ReadsAFile
<1> QED BY <1>2, <1>3, <1>4, <1>5, <1>6 DEF Configure

(* Every step of run() leaves the monitor well typed.                      *)
LEMMA RunType ==
  ASSUME TypeInv, Run, Checksum16, DmCollectorCAssumption, OfflineReplayerAssumption
  PROVE  TypeInv'
<1>1. NativeTypeOK /\ fileNo \in 0..Len(input) /\ input \in Seq(Paths)
  BY DEF TypeInv, TypeOK
<1>2. ASSUME UNCHANGED nativeVars PROVE NativeTypeOK'
  BY <1>1, <1>2 DEF nativeVars, NativeTypeOK
<1>3. CASE OpenFile
  <2>1. fileNo' = fileNo + 1 /\ input' = input /\ fileNo < Len(input)
    BY <1>3 DEF OpenFile
  <2>2. fileNo' \in 0..Len(input') /\ fileNo' # 0
    BY <1>1, <2>1, LenProperties
  <2>3. buffer' \in Seq(Byte) /\ taken' \in Nat /\ pos' \in Nat
    BY <1>3 DEF OpenFile, Reset
  <2>4. NativeTypeOK'
    BY <1>1, <1>3, <2>3 DEF OpenFile, NativeTypeOK
  <2> QED BY <1>3, <2>2, <2>3, <2>4 DEF OpenFile, TypeInv, TypeOK, ReadsAFile
<1>4. CASE ReadAndFeed
  <2>1. NativeTypeOK' /\ pos' \in Nat /\ eof' \in BOOLEAN
    BY <1>4, ReadType
  <2> QED BY <1>4, <2>1 DEF ReadAndFeed, TypeInv, TypeOK, ReadsAFile
<1>5. CASE Receive
  <2>1. ReceiveLogPacket(skipDecoding) /\ skipDecoding \in BOOLEAN
    BY <1>5 DEF Receive, TypeInv, TypeOK
  <2>2. NativeTypeOK'
    BY <1>1, <2>1, ReceiveLogPacketType
  <2> QED BY <1>5, <2>2 DEF Receive, replayVars, TypeInv, TypeOK, ReadsAFile
<1>6. CASE CloseFile
  BY <1>2, <1>6 DEF CloseFile, TypeInv, TypeOK, ReadsAFile
<1>7. CASE ReadOn
  BY <1>2, <1>7 DEF ReadOn, Returned, TypeInv, TypeOK, ReadsAFile
<1>8. CASE Dispatch
  <2>1. sent' \in Seq(Event)
    BY <1>8, DispatchType
  <2> QED BY <1>2, <1>8, <2>1 DEF Dispatch, Returned, TypeInv, TypeOK, ReadsAFile
<1>9. CASE DecodingFails
  BY <1>2, <1>9 DEF DecodingFails, TypeInv, TypeOK, ReadsAFile
<1>10. CASE FinishRun
  BY <1>2, <1>10 DEF FinishRun, TypeInv, TypeOK, ReadsAFile
<1> QED BY <1>3, <1>4, <1>5, <1>6, <1>7, <1>8, <1>9, <1>10 DEF Run

(* Every step leaves the monitor well typed.                               *)
LEMMA TypeStep ==
  ASSUME TypeInv, [ReplayNext]_vars, Checksum16
  PROVE  TypeInv'
<1>1. CASE Configure
  BY <1>1, ConfigureType, DmCollectorCAssumption, OfflineReplayerAssumption
<1>2. CASE Run
  BY <1>2, RunType, DmCollectorCAssumption, OfflineReplayerAssumption
<1>3. CASE UNCHANGED vars
  BY <1>3 DEF vars, nativeVars, replayVars, TypeInv, TypeOK, NativeTypeOK, ReadsAFile
<1> QED BY <1>1, <1>2, <1>3 DEF ReplayNext

(* Every variable of the replayer holds what it is declared to hold; above *)
(* all, run() is never past the end of its list of files, and whatever it  *)
(* hands on is bytes.                                                      *)
THEOREM ReplayTypeOK == ASSUME Checksum16 PROVE ReplaySpec => []TypeOK
<1>1. ReplayInit => TypeInv
  BY ReplayInitType, OfflineReplayerAssumption
<1>2. TypeInv /\ [ReplayNext]_vars => TypeInv'
  BY TypeStep
<1>3. TypeInv => TypeOK
  BY DEF TypeInv
<1> QED BY <1>1, <1>2, <1>3, PTL DEF ReplaySpec

-----------------------------------------------------------------------------
(* SentInOrder is not inductive: that the next packet is sent behind the   *)
(* others follows from where the bytes taken out of the buffer end, and    *)
(* that count starts again with every file.                                *)

\* Nothing has been sent from a file that is not open yet
SentFromOpened == pc # "config" => \A i \in DOMAIN sent : sent[i].file <= fileNo

\* What has been sent from this file is behind us in its bytes
SentIsBehind ==
    pc \in {"read", "receive"} =>
      \A i \in DOMAIN sent : sent[i].file = fileNo => sent[i].end <= taken

\* A packet that waits to be sent lies between those and what is left
WaitingIsNext ==
    Returned /\ ret.pkt # <<>> =>
      /\ ret.pkt[1].end <= taken
      /\ \A i \in DOMAIN sent : sent[i].file = fileNo => sent[i].end < ret.pkt[1].end

OrderInv == TypeInv /\ SentInOrder /\ SentFromOpened /\ SentIsBehind /\ WaitingIsNext

(* Appending a packet that lies behind all the others keeps the order.      *)
LEMMA DispatchKeepsOrder ==
  ASSUME OrderInv, Dispatch
  PROVE  /\ SentInOrder' /\ SentFromOpened' /\ SentIsBehind'
<1> DEFINE e == [file |-> fileNo, end |-> ret.pkt[1].end, payload |-> ret.pkt[1].payload]
<1>1. /\ sent \in Seq(Event) /\ Len(sent) \in Nat /\ fileNo \in Nat /\ taken \in Nat
      /\ DOMAIN sent = 1..Len(sent)
  BY LenProperties DEF OrderInv, TypeInv, TypeOK, NativeTypeOK
<1>2. /\ sent' = sent \/ sent' = Append(sent, e)
      /\ fileNo' = fileNo /\ taken' = taken /\ pc' = "read"
  BY DEF Dispatch, nativeVars
<1>3. /\ pc # "config" /\ pc \in {"read", "receive"} /\ Returned /\ ret.pkt # <<>>
  BY DEF Dispatch, Returned
<1>4. /\ \A i \in DOMAIN sent : sent[i].file \in Nat /\ sent[i].end \in Nat
      /\ \A i \in DOMAIN sent : sent[i].file <= fileNo
      /\ \A i \in DOMAIN sent : sent[i].file = fileNo =>
            sent[i].end < ret.pkt[1].end /\ sent[i].end <= taken
      /\ ret.pkt[1].end <= taken
  <2>1. \A i \in DOMAIN sent : sent[i] \in Event
    BY <1>1, ElementOfSeq
  <2> QED BY <1>3, <2>1 DEF OrderInv, SentFromOpened, SentIsBehind, WaitingIsNext, Event
<1>5. CASE sent' = sent
  BY <1>2, <1>3, <1>4, <1>5 DEF OrderInv, SentInOrder, SentFromOpened, SentIsBehind
<1>6. CASE sent' = Append(sent, e)
  <2>1. e \in Event
    <3>1. ret.pkt[1] \in Packet
      <4>1. ret.pkt \in Seq(Packet) /\ ret.pkt # <<>>
        BY <1>3 DEF OrderInv, TypeInv, TypeOK, NativeTypeOK
      <4>2. 1 \in 1..Len(ret.pkt)
        BY <4>1, EmptySeq, LenProperties
      <4> QED BY <4>1, <4>2, ElementOfSeq
    <3> QED BY <1>1, <3>1 DEF Event, Packet
  <2>2. e.file = fileNo /\ e.end = ret.pkt[1].end
    OBVIOUS
  <2> HIDE DEF e
  <2>3. /\ DOMAIN sent' = 1..(Len(sent) + 1)
        /\ \A i \in DOMAIN sent : sent'[i] = sent[i]
        /\ sent'[Len(sent) + 1] = e
    BY <1>1, <1>6, <2>1, AppendProperties
  <2>4. \A i \in DOMAIN sent' : i \in DOMAIN sent \/ i = Len(sent) + 1
    BY <1>1, <2>3
  <2>5. SentFromOpened' /\ SentIsBehind'
    BY <1>1, <1>2, <1>4, <2>2, <2>3, <2>4 DEF SentFromOpened, SentIsBehind
  <2>6. SentInOrder'
    <3> SUFFICES ASSUME NEW i \in DOMAIN sent', NEW j \in DOMAIN sent', i < j
                 PROVE  \/ sent'[i].file < sent'[j].file
                        \/ sent'[i].file = sent'[j].file /\ sent'[i].end < sent'[j].end
      BY DEF SentInOrder
    <3>1. i \in DOMAIN sent
      BY <1>1, <2>3
    <3>2. CASE j \in DOMAIN sent
      BY <2>3, <3>1, <3>2 DEF OrderInv, SentInOrder
    <3>3. CASE j = Len(sent) + 1
      BY <1>1, <1>4, <2>2, <2>3, <3>1, <3>3
    <3> QED BY <2>4, <3>2, <3>3
  <2> QED BY <2>5, <2>6
<1> QED BY <1>2, <1>5, <1>6

(* Every step keeps OrderInv.                                              *)
LEMMA OrderStep ==
  ASSUME OrderInv, TypeInv', [ReplayNext]_vars
  PROVE  OrderInv'
<1>1. TypeInv /\ SentInOrder /\ SentFromOpened /\ SentIsBehind /\ WaitingIsNext
  BY DEF OrderInv
<1>2. /\ fileNo \in Nat /\ taken \in Nat /\ skipDecoding \in BOOLEAN /\ NativeTypeOK
      /\ \A i \in DOMAIN sent : sent[i].file \in Nat /\ sent[i].end \in Nat
  <2>1. sent \in Seq(Event) /\ fileNo \in 0..Len(input) /\ input \in Seq(Paths)
    BY <1>1 DEF TypeInv, TypeOK
  <2>2. \A i \in DOMAIN sent : sent[i] \in Event
    BY <2>1, ElementOfSeq, LenProperties
  <2>3. \A i \in DOMAIN sent : sent[i].file \in Nat /\ sent[i].end \in Nat
    BY <2>2 DEF Event
  <2>4. fileNo \in Nat
    BY <2>1, LenProperties
  <2> QED BY <1>1, <2>3, <2>4 DEF TypeInv, TypeOK, NativeTypeOK
<1>3. ASSUME UNCHANGED sent PROVE SentInOrder'
  BY <1>1, <1>3 DEF SentInOrder
<1>4. CASE Configure
  <2>1. \/ sent' = sent /\ pc' = "config"
        \/ sent' = <<>> /\ pc' = "open"
    BY <1>4 DEF Configure, EnableLog, SaveLogAs, SetSkipDecoding, SetInputPath, StartRun
  <2>2. CASE sent' = <<>> /\ pc' = "open"
    <3>1. DOMAIN sent' = {}
      BY <2>2
    <3>2. SentInOrder' /\ SentFromOpened'
      BY <3>1 DEF SentInOrder, SentFromOpened
    <3>3. SentIsBehind' /\ WaitingIsNext'
      BY <2>2 DEF SentIsBehind, WaitingIsNext, Returned
    <3> QED BY <3>2, <3>3 DEF OrderInv
  <2>3. CASE sent' = sent /\ pc' = "config"
    BY <1>3, <2>3 DEF OrderInv, SentFromOpened, SentIsBehind, WaitingIsNext, Returned
  <2> QED BY <2>1, <2>2, <2>3
<1>5. CASE OpenFile
  <2>1. pc = "open" /\ pc' = "read" /\ fileNo' = fileNo + 1 /\ sent' = sent
    BY <1>5 DEF OpenFile
  <2>2. \A i \in DOMAIN sent : sent[i].file <= fileNo
    BY <1>1, <2>1 DEF SentFromOpened
  <2>3. \A i \in DOMAIN sent' : sent'[i].file < fileNo'
    BY <1>2, <2>1, <2>2
  <2>4. SentFromOpened' /\ SentIsBehind' /\ WaitingIsNext'
    BY <1>2, <2>1, <2>3 DEF SentFromOpened, SentIsBehind, WaitingIsNext, Returned
  <2> QED BY <1>3, <2>1, <2>4 DEF OrderInv
<1>6. CASE ReadAndFeed
  <2>1. /\ pc = "read" /\ pc' = "receive" /\ inReceive' = TRUE
        /\ UNCHANGED <<fileNo, taken, sent>>
    BY <1>6 DEF ReadAndFeed
  <2> QED BY <1>1, <1>3, <2>1
          DEF OrderInv, SentFromOpened, SentIsBehind, WaitingIsNext, Returned
<1>7. CASE Receive
  <2>1. /\ pc = "receive" /\ UNCHANGED <<pc, fileNo, sent>>
        /\ ReceiveLogPacket(skipDecoding)
    BY <1>7 DEF Receive, replayVars
  <2>2. /\ taken' \in Nat /\ taken <= taken'
        /\ ~inReceive' /\ ret'.pkt # <<>> => ret'.pkt[1].end = taken' /\ taken < taken'
    BY <1>2, <2>1, ReceiveAdvances
  <2>3. \A i \in DOMAIN sent : sent[i].file = fileNo => sent[i].end <= taken
    BY <1>1, <2>1 DEF SentIsBehind
  <2>4. SentFromOpened'
    BY <1>1, <2>1 DEF SentFromOpened
  <2>5. SentIsBehind'
    BY <1>2, <2>1, <2>2, <2>3 DEF SentIsBehind
  <2>6. WaitingIsNext'
    BY <1>2, <2>1, <2>2, <2>3 DEF WaitingIsNext, Returned
  <2> QED BY <1>3, <2>1, <2>4, <2>5, <2>6 DEF OrderInv
<1>8. CASE CloseFile \/ ReadOn
  <2>1. /\ pc = "receive" /\ pc' \in {"open", "read"}
        /\ UNCHANGED <<fileNo, taken, sent>>
    BY <1>8 DEF CloseFile, ReadOn, Returned, nativeVars
  <2> QED BY <1>1, <1>3, <2>1
          DEF OrderInv, SentFromOpened, SentIsBehind, WaitingIsNext, Returned
<1>9. CASE Dispatch
  <2>1. WaitingIsNext'
    BY <1>9 DEF Dispatch, WaitingIsNext, Returned
  <2> QED BY <1>9, <2>1, DispatchKeepsOrder DEF OrderInv
<1>10. CASE DecodingFails \/ FinishRun
  <2>1. /\ pc # "config" /\ pc' \in {"exited", "config"}
        /\ UNCHANGED <<fileNo, taken, sent>>
    BY <1>10 DEF DecodingFails, FinishRun, Returned, nativeVars
  <2> QED BY <1>1, <1>3, <2>1
          DEF OrderInv, SentFromOpened, SentIsBehind, WaitingIsNext, Returned
<1>11. CASE UNCHANGED vars
  <2>1. UNCHANGED <<pc, fileNo, taken, sent, ret, inReceive>>
    BY <1>11 DEF vars, nativeVars, replayVars
  <2> QED BY <1>1, <1>3, <2>1
          DEF OrderInv, SentFromOpened, SentIsBehind, WaitingIsNext, Returned
<1> QED BY <1>4, <1>5, <1>6, <1>7, <1>8, <1>9, <1>10, <1>11 DEF ReplayNext, Run

(* The analyzers see packets in the order of the files and of the frames   *)
(* in them, and none twice, whatever the files hold, however much a read   *)
(* returns and however long packets wait in the native buffer.             *)
THEOREM ReplaySentInOrder == ASSUME Checksum16 PROVE ReplaySpec => []SentInOrder
<1>1. ReplayInit => OrderInv
  <2> SUFFICES ASSUME ReplayInit PROVE OrderInv
    OBVIOUS
  <2>1. TypeInv
    BY ReplayInitType, OfflineReplayerAssumption
  <2>2. DOMAIN sent = {} /\ pc = "config"
    BY DEF ReplayInit
  <2> QED BY <2>1, <2>2 DEF OrderInv, SentInOrder, SentFromOpened, SentIsBehind,
                            WaitingIsNext, Returned
<1>2. OrderInv /\ [ReplayNext]_vars => OrderInv'
  BY TypeStep, OrderStep DEF OrderInv
<1>3. OrderInv => SentInOrder
  BY DEF OrderInv
<1> QED BY <1>1, <1>2, <1>3, PTL DEF ReplaySpec

-----------------------------------------------------------------------------
(***************************************************************************)
(* What is sent against what the files hold: nothing but packets of the    *)
(* files is sent, and, unless decoding is deferred, none of those that are *)
(* due is left out.  The invariant says where in its file every byte of    *)
(* the native buffer comes from, which no single call shows.               *)
(***************************************************************************)

(* The invariant, in parts.  Each speaks of the content of a file as bytes *)
(* that stay the same while the file is replayed.                          *)

Reading == pc \in {"read", "receive"}
Waiting == Returned /\ ret.pkt # <<>>

\* The files that are replayed do not change
LogIsNotInput == Replaying => \A k \in 1..Len(input) : logPath # <<input[k]>>

SentFromTheList == Replaying => \A i \in DOMAIN sent : sent[i].file \in 1..fileNo

\* The native buffer is the stretch of the file that was read and not taken
BufferIsFile == Reading => Holds(buffer, File, taken, pos)

WaitingIsOfFile == Waiting => PacketOf(File, ret.pkt[1])

EofIsEnd == pc = "receive" /\ eof => pos = Len(File)

\* None is returned when the buffer is drained, or when decoding is deferred
NoneMeansDrained ==
    Returned /\ ~ret.some => ret.pkt = <<>> /\ (skipDecoding \/ ~HasFrame(buffer))

WasSent(k, e) == \E i \in DOMAIN sent : sent[i].file = k /\ sent[i].end = e

\* What is due among the bytes taken has been sent, or waits
TakenIsSent ==
    Reading /\ ~skipDecoding =>
      \A e \in 1..taken : IsDue(File, e) =>
        WasSent(fileNo, e) \/ (Waiting /\ ret.pkt[1].end = e)

FilesDone == IF Reading THEN fileNo - 1 ELSE fileNo

DoneIsSent ==
    (Running \/ finished) /\ ~skipDecoding =>
      \A k \in 1..FilesDone : \A e \in 1..Len(disk[input[k]]) :
        IsDue(disk[input[k]], e) => WasSent(k, e)

FeedInv == /\ TypeInv
           /\ LogIsNotInput /\ SentFromTheList
           /\ BufferIsFile /\ WaitingIsOfFile /\ EofIsEnd /\ NoneMeansDrained

ContentInv == FeedInv /\ OnlyWhatIsDue
DeliveryInv == FeedInv /\ TakenIsSent /\ DoneIsSent /\ (finished => pc = "config")

-----------------------------------------------------------------------------
(* What run() leaves alone: its list, its filters, and the files it reads.  *)
LEMMA RunKeepsFiles ==
  ASSUME FeedInv, Run, Checksum16, DmCollectorCAssumption
  PROVE  /\ input' = input /\ typeNames' = typeNames /\ skipDecoding' = skipDecoding
         /\ whitelist' = whitelist /\ logPath' = logPath
         /\ Replaying
         /\ \A k \in 1..Len(input) : disk[input[k]] \in Seq(Byte)
         /\ \A k \in 1..Len(input) : disk'[input[k]] = disk[input[k]]
<1>1. /\ NativeTypeOK /\ input \in Seq(Paths) /\ skipDecoding \in BOOLEAN
      /\ disk \in [Paths -> Seq(Byte)]
  BY DEF FeedInv, TypeInv, TypeOK, NativeTypeOK
<1>2. \A k \in 1..Len(input) : input[k] \in Paths
  BY <1>1, ElementOfSeq
<1>3. pc # "config" /\ Replaying
  BY DEF Run, OpenFile, ReadAndFeed, Receive, CloseFile, ReadOn, Dispatch, DecodingFails,
         FinishRun, Returned, Replaying
<1>4. /\ input' = input /\ typeNames' = typeNames /\ skipDecoding' = skipDecoding
  BY DEF Run, OpenFile, ReadAndFeed, Receive, CloseFile, ReadOn, Dispatch, DecodingFails,
         FinishRun, replayVars
<1>5. CASE Receive
  <2>1. ReceiveLogPacket(skipDecoding)
    BY <1>5 DEF Receive
  <2>2. whitelist' = whitelist /\ logPath' = logPath
    BY <2>1 DEF ReceiveLogPacket, NoMoreFrames, BrokenFrame, CustomFrame, FilteredFrame,
                ExportedFrame, TakeFrame
  <2>3. \A f \in Paths : logPath # <<f>> => disk'[f] = disk[f]
    <3>1. CASE UNCHANGED disk
      BY <3>1
    <3>2. CASE ~ UNCHANGED disk
      <4>1. ExportedFrame(skipDecoding)
        BY <2>1, <3>2 DEF ReceiveLogPacket, NoMoreFrames, BrokenFrame, CustomFrame,
                          FilteredFrame
      <4>2. ExportFrame(Taken) /\ HasFrame(buffer) /\ CrcCorrect(RawFrame(buffer))
        BY <4>1 DEF ExportedFrame, TakeFrame
      <4>3. Taken \in Seq(Byte)
        BY <1>1, <4>2, TakenType
      <4> QED BY <1>1, <4>2, <4>3, ExportFrameType
    <3> QED BY <3>1, <3>2
  <2>4. \A k \in 1..Len(input) : logPath # <<input[k]>>
    BY <1>3 DEF FeedInv, LogIsNotInput
  <2> QED BY <1>1, <1>2, <1>3, <1>4, <2>2, <2>3, <2>4
<1>6. CASE ~Receive
  <2>1. UNCHANGED <<disk, whitelist, logPath>>
    BY <1>6 DEF Run, OpenFile, ReadAndFeed, CloseFile, ReadOn, Dispatch, DecodingFails,
                FinishRun, nativeVars
  <2> QED BY <1>1, <1>2, <1>3, <1>4, <2>1
<1> QED BY <1>5, <1>6

(* The file being read, of which the next steps speak as bytes.             *)
LEMMA FileIsBytes ==
  ASSUME FeedInv, Reading
  PROVE  /\ fileNo \in 1..Len(input) /\ File \in Seq(Byte) /\ Len(File) \in Nat
         /\ Holds(buffer, File, taken, pos) /\ pos \in Nat /\ taken \in Nat
<1>1. /\ fileNo \in 0..Len(input) /\ fileNo # 0 /\ input \in Seq(Paths)
      /\ disk \in [Paths -> Seq(Byte)] /\ pos \in Nat /\ taken \in Nat
  BY DEF FeedInv, TypeInv, TypeOK, NativeTypeOK, ReadsAFile, Reading
<1>2. fileNo \in 1..Len(input) /\ input[fileNo] \in Paths
  BY <1>1, ElementOfSeq, LenProperties
<1>3. File \in Seq(Byte)
  BY <1>1, <1>2 DEF File
<1> QED BY <1>1, <1>2, <1>3, LenProperties DEF FeedInv, BufferIsFile

(* The filters do not change while a file is replayed, so what is due does  *)
(* not change either.                                                       *)
LEMMA DueStays ==
  ASSUME typeNames' = typeNames, whitelist' = whitelist, NEW bytes, NEW e, NEW p
  PROVE  /\ IsDue(bytes, e)' <=> IsDue(bytes, e)
         /\ Passes(bytes, e)' <=> Passes(bytes, e)
         /\ PacketOf(bytes, p)' <=> PacketOf(bytes, p)
BY DEF IsDue, Passes, PacketOf, PassesFilter, Wanted

-----------------------------------------------------------------------------
(* FeedInv, action by action                                               *)

(* The parts of FeedInv that speak of the whole list.                      *)
LEMMA ListStep ==
  ASSUME FeedInv, Run, Checksum16, DmCollectorCAssumption
  PROVE  LogIsNotInput' /\ SentFromTheList'
<1>1. /\ input' = input /\ logPath' = logPath /\ Replaying
  BY RunKeepsFiles
<1>2. LogIsNotInput'
  BY <1>1 DEF FeedInv, LogIsNotInput
<1>3. fileNo \in Nat /\ sent \in Seq(Event) /\ \A i \in DOMAIN sent : sent[i].file \in 1..fileNo
  BY <1>1, LenProperties DEF FeedInv, TypeInv, TypeOK, SentFromTheList
<1>4. CASE Dispatch
  <2> DEFINE e == [file |-> fileNo, end |-> ret.pkt[1].end, payload |-> ret.pkt[1].payload]
  <2>1. Reading /\ Dispatch
    BY <1>4 DEF Dispatch, Returned, Reading
  <2>2. fileNo \in 1..fileNo
    BY <1>3, <2>1, FileIsBytes
  <2>3. fileNo' = fileNo /\ (sent' = sent \/ sent' = Append(sent, e))
    BY <2>1 DEF Dispatch
  <2>4. e.file = fileNo
    OBVIOUS
  <2> HIDE DEF e
  <2>5. ASSUME NEW i \in DOMAIN sent'
        PROVE  sent'[i].file = fileNo \/ (i \in DOMAIN sent /\ sent'[i] = sent[i])
    <3>1. CASE sent' = sent
      BY <3>1
    <3>2. CASE sent' = Append(sent, e)
      <4>1. DOMAIN sent = 1..Len(sent) /\ Len(sent) \in Nat
        BY <1>3
      <4>2. /\ DOMAIN Append(sent, e) = 1..(Len(sent) + 1)
            /\ Append(sent, e)[Len(sent) + 1] = e
            /\ \A k \in 1..Len(sent) : Append(sent, e)[k] = sent[k]
        BY <1>3
      <4> QED BY <2>4, <3>2, <4>1, <4>2
    <3> QED BY <2>3, <3>1, <3>2
  <2> QED BY <1>2, <1>3, <2>2, <2>3, <2>5 DEF SentFromTheList
<1>5. CASE ~Dispatch
  <2>1. sent' = sent /\ fileNo' \in {fileNo, fileNo + 1}
    BY <1>5 DEF Run, OpenFile, ReadAndFeed, Receive, CloseFile, ReadOn, DecodingFails,
                FinishRun, replayVars
  <2>2. \A i \in DOMAIN sent' : sent'[i].file \in 1..fileNo'
    BY <1>3, <2>1
  <2> QED BY <1>2, <2>2 DEF SentFromTheList
<1> QED BY <1>4, <1>5

(* The parts that speak of the file being read, when a file is opened.     *)
LEMMA OpenStep ==
  ASSUME FeedInv, OpenFile, Checksum16, DmCollectorCAssumption
  PROVE  BufferIsFile' /\ WaitingIsOfFile' /\ EofIsEnd' /\ NoneMeansDrained'
<1>1. /\ buffer' = <<>> /\ taken' = 0 /\ pos' = 0 /\ pc' = "read"
      /\ fileNo' = fileNo + 1 /\ fileNo < Len(input)
  BY DEF OpenFile, Reset
<1>2. /\ input' = input
      /\ \A k \in 1..Len(input) : disk[input[k]] \in Seq(Byte) /\ disk'[input[k]] = disk[input[k]]
  BY RunKeepsFiles DEF Run
<1>3. fileNo + 1 \in 1..Len(input)
  BY <1>1, LenProperties DEF FeedInv, TypeInv, TypeOK
<1>4. File' \in Seq(Byte)
  BY <1>1, <1>2, <1>3 DEF File
<1>5. Holds(<<>>, File', 0, 0)
  <2>1. SubSeq(File', 0 + 1, 0) = <<>> /\ Len(File') \in Nat
    BY <1>4, SubSeqEmpty, LenProperties
  <2> QED BY <2>1 DEF Holds
<1> QED BY <1>1, <1>5
        DEF BufferIsFile, WaitingIsOfFile, EofIsEnd, NoneMeansDrained, Waiting, Returned

(* The same when bytes are read and fed, at the end of the file included.  *)
LEMMA ReadStep ==
  ASSUME FeedInv, ReadAndFeed, Checksum16, DmCollectorCAssumption, OfflineReplayerAssumption
  PROVE  BufferIsFile' /\ WaitingIsOfFile' /\ EofIsEnd' /\ NoneMeansDrained'
<1> DEFINE end == IF pos + ReadSize < Len(File) THEN pos + ReadSize ELSE Len(File)
<1>1. Reading /\ Run
  BY DEF ReadAndFeed, Reading, Run
<1>2. /\ fileNo \in 1..Len(input) /\ File \in Seq(Byte) /\ Len(File) \in Nat
      /\ Holds(buffer, File, taken, pos) /\ pos \in Nat
  BY <1>1, FileIsBytes
<1>3. pos <= Len(File)
  BY <1>2 DEF Holds
<1>4. ReadSize \in Nat \ {0}
  BY DEF OfflineReplayerAssumption
<1>5. end \in Nat /\ pos <= end /\ end <= Len(File) /\ (end = pos => pos = Len(File))
  BY <1>2, <1>3, <1>4
<1>6. /\ buffer' = buffer \o SubSeq(File, pos + 1, end) /\ eof' = (end = pos) /\ pos' = end
      /\ inReceive' = TRUE /\ pc' = "receive" /\ UNCHANGED <<taken, fileNo, disk, input>>
  BY DEF ReadAndFeed
<1> HIDE DEF end
<1>7. File' = File
  BY <1>6 DEF File
<1>8. Holds(buffer', File, taken, end)
  BY <1>2, <1>5, <1>6, FeedExtends
<1> QED BY <1>5, <1>6, <1>7, <1>8
        DEF BufferIsFile, WaitingIsOfFile, EofIsEnd, NoneMeansDrained, Waiting, Returned

(* The same for a turn of the loop of receive_log_packet.                  *)
LEMMA ReceiveStep ==
  ASSUME FeedInv, Receive, Checksum16, DmCollectorCAssumption
  PROVE  BufferIsFile' /\ WaitingIsOfFile' /\ EofIsEnd' /\ NoneMeansDrained'
<1>1. Reading /\ Run /\ ReceiveLogPacket(skipDecoding) /\ UNCHANGED <<pc, pos, eof, fileNo>>
  BY DEF Receive, Reading, Run, replayVars
<1>2. /\ fileNo \in 1..Len(input) /\ File \in Seq(Byte) /\ Holds(buffer, File, taken, pos)
      /\ skipDecoding \in BOOLEAN /\ NativeTypeOK
  BY <1>1, FileIsBytes DEF FeedInv, TypeInv, TypeOK
<1>3. /\ input' = input /\ typeNames' = typeNames /\ whitelist' = whitelist
      /\ skipDecoding' = skipDecoding /\ disk'[input[fileNo]] = disk[input[fileNo]]
  BY <1>1, <1>2, RunKeepsFiles
<1>4. File' = File
  BY <1>1, <1>3 DEF File
<1>5. /\ Holds(buffer', File, taken', pos)
      /\ ~inReceive' /\ ret'.pkt # <<>> => PacketOf(File, ret'.pkt[1])
      /\ ~inReceive' /\ ~ret'.some =>
            ret'.pkt = <<>> /\ (skipDecoding \/ ~HasFrame(buffer'))
  BY <1>1, <1>2, ReceiveFromStream
<1>6. BufferIsFile' /\ EofIsEnd' /\ NoneMeansDrained'
  BY <1>1, <1>3, <1>4, <1>5
     DEF BufferIsFile, EofIsEnd, NoneMeansDrained, Returned, FeedInv
<1>7. WaitingIsOfFile'
  <2> SUFFICES ASSUME Waiting' PROVE PacketOf(File, ret.pkt[1])'
    BY DEF WaitingIsOfFile
  <2>1. PacketOf(File, ret'.pkt[1])
    BY <1>5 DEF Waiting, Returned
  <2> QED BY <1>3, <1>4, <2>1 DEF PacketOf, Passes, PassesFilter
<1> QED BY <1>6, <1>7

(* Every step of run() keeps FeedInv.                                      *)
LEMMA FeedRunStep ==
  ASSUME FeedInv, Run, TypeInv', Checksum16, DmCollectorCAssumption,
         OfflineReplayerAssumption
  PROVE  FeedInv'
<1>1. LogIsNotInput' /\ SentFromTheList'
  BY ListStep
<1>2. CASE OpenFile
  BY <1>1, <1>2, OpenStep DEF FeedInv
<1>3. CASE ReadAndFeed
  BY <1>1, <1>3, ReadStep DEF FeedInv
<1>4. CASE Receive
  BY <1>1, <1>4, ReceiveStep DEF FeedInv
<1>5. CASE ReadOn \/ Dispatch
  <2>1. /\ pc' = "read" /\ UNCHANGED <<buffer, taken, pos, fileNo, disk, input>> /\ Reading
    BY <1>5 DEF ReadOn, Dispatch, nativeVars, Reading, Returned
  <2>2. BufferIsFile' /\ WaitingIsOfFile' /\ EofIsEnd' /\ NoneMeansDrained'
    BY <2>1 DEF FeedInv, BufferIsFile, WaitingIsOfFile, EofIsEnd, NoneMeansDrained,
                Waiting, Returned, Reading, File
  <2> QED BY <1>1, <2>2 DEF FeedInv
<1>6. CASE CloseFile \/ DecodingFails \/ FinishRun
  <2>1. pc' \notin {"read", "receive"}
    BY <1>6 DEF CloseFile, DecodingFails, FinishRun
  <2>2. BufferIsFile' /\ WaitingIsOfFile' /\ EofIsEnd' /\ NoneMeansDrained'
    BY <2>1 DEF BufferIsFile, WaitingIsOfFile, EofIsEnd, NoneMeansDrained,
                Waiting, Returned, Reading
  <2> QED BY <1>1, <2>2 DEF FeedInv
<1> QED BY <1>2, <1>3, <1>4, <1>5, <1>6 DEF Run

(* The caller's calls keep FeedInv: only StartRun lets a replay begin, and *)
(* not while packets are saved to one of its files.                        *)
LEMMA FeedConfigureStep ==
  ASSUME FeedInv, Configure, TypeInv'
  PROVE  FeedInv'
<1>1. CASE StartRun
  <2>1. /\ pc' = "open" /\ sent' = <<>> /\ input' = input /\ logPath' = logPath
        /\ \A i \in DOMAIN input : logPath # <<input[i]>>
    BY <1>1 DEF StartRun, nativeVars
  <2>2. DOMAIN input = 1..Len(input) /\ DOMAIN sent' = {}
    BY <2>1, LenProperties DEF FeedInv, TypeInv, TypeOK
  <2> QED BY <2>1, <2>2
          DEF FeedInv, LogIsNotInput, SentFromTheList, BufferIsFile, WaitingIsOfFile,
              EofIsEnd, NoneMeansDrained, Waiting, Returned, Reading
<1>2. CASE ~StartRun
  <2>1. pc' = "config" /\ ~finished'
    BY <1>2 DEF Configure, EnableLog, SaveLogAs, SetSkipDecoding, SetInputPath
  <2> QED BY <2>1
          DEF FeedInv, LogIsNotInput, SentFromTheList, BufferIsFile, WaitingIsOfFile,
              EofIsEnd, NoneMeansDrained, Waiting, Returned, Reading, Replaying
<1> QED BY <1>1, <1>2

(* Every step keeps FeedInv.                                               *)
LEMMA FeedStep ==
  ASSUME FeedInv, [ReplayNext]_vars, Checksum16
  PROVE  FeedInv'
<1>1. TypeInv'
  BY TypeStep DEF FeedInv
<1>2. CASE Configure
  BY <1>1, <1>2, FeedConfigureStep
<1>3. CASE Run
  BY <1>1, <1>3, FeedRunStep, DmCollectorCAssumption, OfflineReplayerAssumption
<1>4. CASE UNCHANGED vars
  BY <1>1, <1>4
     DEF vars, nativeVars, replayVars, FeedInv, LogIsNotInput, SentFromTheList,
         BufferIsFile, WaitingIsOfFile, EofIsEnd, NoneMeansDrained, Waiting, Returned,
         Reading, Replaying, File, PacketOf, Passes, PassesFilter
<1> QED BY <1>2, <1>3, <1>4 DEF ReplayNext

(* It holds when the process starts.                                       *)
LEMMA FeedInit == ASSUME OfflineReplayerAssumption, ReplayInit PROVE FeedInv
<1>1. TypeInv
  BY ReplayInitType
<1>2. pc = "config" /\ ~finished
  BY DEF ReplayInit
<1> QED BY <1>1, <1>2
        DEF FeedInv, LogIsNotInput, SentFromTheList, BufferIsFile, WaitingIsOfFile,
            EofIsEnd, NoneMeansDrained, Waiting, Returned, Reading, Replaying

-----------------------------------------------------------------------------
(* What the sent events are grows by one event at most, at its end.        *)
LEMMA SentGrows ==
  ASSUME FeedInv, Run
  PROVE  \/ sent' = sent /\ ~Dispatch
         \/ /\ Dispatch /\ Reading
            /\ sent' = sent /\ ~Wanted(ret.pkt[1].payload)
         \/ /\ Dispatch /\ Reading /\ Wanted(ret.pkt[1].payload)
            /\ Len(sent) \in Nat
            /\ DOMAIN sent = 1..Len(sent) /\ DOMAIN sent' = 1..(Len(sent) + 1)
            /\ \A i \in 1..Len(sent) : sent'[i] = sent[i]
            /\ sent'[Len(sent) + 1] = [file |-> fileNo, end |-> ret.pkt[1].end,
                                       payload |-> ret.pkt[1].payload]
<1>1. CASE Dispatch
  <2> DEFINE e == [file |-> fileNo, end |-> ret.pkt[1].end, payload |-> ret.pkt[1].payload]
  <2>1. /\ sent \in Seq(Event) /\ Len(sent) \in Nat /\ DOMAIN sent = 1..Len(sent)
    BY LenProperties DEF FeedInv, TypeInv, TypeOK
  <2>2. Reading
    BY <1>1 DEF Dispatch, Returned, Reading
  <2>3. sent' = IF Wanted(ret.pkt[1].payload) THEN Append(sent, e) ELSE sent
    BY <1>1 DEF Dispatch
  <2> HIDE DEF e
  <2>4. CASE ~Wanted(ret.pkt[1].payload)
    BY <1>1, <2>2, <2>3, <2>4
  <2>5. CASE Wanted(ret.pkt[1].payload)
    <3>1. sent' = Append(sent, e)
      BY <2>3, <2>5
    <3>2. /\ DOMAIN sent' = 1..(Len(sent) + 1)
          /\ \A i \in 1..Len(sent) : sent'[i] = sent[i]
          /\ sent'[Len(sent) + 1] = e
      BY <2>1, <3>1
    <3> QED BY <1>1, <2>1, <2>2, <2>5, <3>2 DEF e
  <2> QED BY <2>4, <2>5
<1>2. CASE ~Dispatch
  BY <1>2 DEF Run, OpenFile, ReadAndFeed, Receive, CloseFile, ReadOn, DecodingFails,
              FinishRun, replayVars
<1> QED BY <1>1, <1>2

(* A step of run() keeps OnlyWhatIsDue: what is sent is the packet that    *)
(* waits, which is one of the file.                                        *)
LEMMA ContentRunStep ==
  ASSUME ContentInv, Run, Checksum16, DmCollectorCAssumption
  PROVE  OnlyWhatIsDue'
<1>1. /\ input' = input /\ typeNames' = typeNames /\ whitelist' = whitelist /\ Replaying
      /\ \A k \in 1..Len(input) : disk'[input[k]] = disk[input[k]]
  BY RunKeepsFiles DEF ContentInv
<1>2. fileNo \in 0..Len(input) /\ Len(input) \in Nat
  BY LenProperties DEF ContentInv, FeedInv, TypeInv, TypeOK
<1>3. ASSUME NEW i \in DOMAIN sent
      PROVE  /\ sent[i].file \in 1..Len(input)
             /\ sent[i].end \in DOMAIN disk[input[sent[i].file]]
             /\ IsDue(disk[input[sent[i].file]], sent[i].end)
             /\ sent[i].payload = PacketAt(disk[input[sent[i].file]], sent[i].end)
  <2>1. sent[i].file \in 1..fileNo
    BY <1>1 DEF ContentInv, FeedInv, SentFromTheList
  <2> QED BY <1>1, <1>2, <2>1 DEF ContentInv, OnlyWhatIsDue
<1>4. ASSUME NEW i \in DOMAIN sent', i \in DOMAIN sent, sent'[i] = sent[i]
      PROVE  LET bytes == disk[input[sent[i].file]]
             IN  (sent[i].end \in DOMAIN bytes /\ IsDue(bytes, sent[i].end)
                    /\ sent[i].payload = PacketAt(bytes, sent[i].end))'
  <2>1. sent[i].file \in 1..Len(input)
    BY <1>3, <1>4
  <2>2. disk'[input'[sent'[i].file]] = disk[input[sent[i].file]]
    BY <1>1, <1>4, <2>1
  <2> QED BY <1>1, <1>3, <1>4, <2>2 DEF IsDue, PassesFilter, Wanted
<1>5. ASSUME Dispatch, Reading, Wanted(ret.pkt[1].payload),
             NEW i \in DOMAIN sent',
             sent'[i] = [file |-> fileNo, end |-> ret.pkt[1].end, payload |-> ret.pkt[1].payload]
      PROVE  LET bytes == disk[input[sent[i].file]]
             IN  (sent[i].end \in DOMAIN bytes /\ IsDue(bytes, sent[i].end)
                    /\ sent[i].payload = PacketAt(bytes, sent[i].end))'
  <2>1. fileNo \in 1..Len(input) /\ File \in Seq(Byte) /\ DOMAIN File = 1..Len(File)
    BY <1>5, FileIsBytes, LenProperties DEF ContentInv
  <2>2. PacketOf(File, ret.pkt[1])
    BY <1>5 DEF Dispatch, Waiting, ContentInv, FeedInv, WaitingIsOfFile
  <2>3. disk'[input'[sent'[i].file]] = File
    BY <1>1, <1>5, <2>1 DEF File
  <2>4. /\ sent'[i].end \in DOMAIN File /\ IsDue(File, sent'[i].end)
        /\ sent'[i].payload = PacketAt(File, sent'[i].end)
    BY <1>5, <2>1, <2>2 DEF PacketOf, Passes, IsDue
  <2> QED BY <1>1, <2>3, <2>4 DEF IsDue, PassesFilter, Wanted
<1> SUFFICES ASSUME NEW i \in DOMAIN sent'
             PROVE  LET bytes == disk[input[sent[i].file]]
                    IN  (sent[i].end \in DOMAIN bytes /\ IsDue(bytes, sent[i].end)
                           /\ sent[i].payload = PacketAt(bytes, sent[i].end))'
  BY DEF OnlyWhatIsDue
<1>6. CASE sent' = sent
  BY <1>4, <1>6
<1>7. CASE ~(sent' = sent)
  <2>1. /\ Dispatch /\ Reading /\ Wanted(ret.pkt[1].payload) /\ Len(sent) \in Nat
        /\ DOMAIN sent = 1..Len(sent) /\ DOMAIN sent' = 1..(Len(sent) + 1)
        /\ \A j \in 1..Len(sent) : sent'[j] = sent[j]
        /\ sent'[Len(sent) + 1] = [file |-> fileNo, end |-> ret.pkt[1].end,
                                   payload |-> ret.pkt[1].payload]
    BY <1>7, SentGrows DEF ContentInv
  <2>2. i \in DOMAIN sent \/ i = Len(sent) + 1
    BY <2>1
  <2> QED BY <1>4, <1>5, <2>1, <2>2
<1> QED BY <1>6, <1>7

(* Every step keeps ContentInv.                                            *)
LEMMA ContentStep ==
  ASSUME ContentInv, [ReplayNext]_vars, Checksum16
  PROVE  ContentInv'
<1>1. FeedInv'
  BY FeedStep DEF ContentInv
<1>2. CASE Configure
  <2>1. CASE StartRun
    <3>1. DOMAIN sent' = {}
      BY <2>1 DEF StartRun
    <3> QED BY <1>1, <3>1 DEF ContentInv, OnlyWhatIsDue
  <2>2. CASE ~StartRun
    <3>1. ~Replaying'
      BY <1>2, <2>2 DEF Configure, EnableLog, SaveLogAs, SetSkipDecoding, SetInputPath,
                        Replaying
    <3> QED BY <1>1, <3>1 DEF ContentInv, OnlyWhatIsDue
  <2> QED BY <2>1, <2>2
<1>3. CASE Run
  BY <1>1, <1>3, ContentRunStep, DmCollectorCAssumption DEF ContentInv
<1>4. CASE UNCHANGED vars
  BY <1>1, <1>4 DEF vars, nativeVars, replayVars, ContentInv, OnlyWhatIsDue, Replaying,
                    IsDue, PassesFilter, Wanted
<1> QED BY <1>2, <1>3, <1>4 DEF ReplayNext

(* Whatever the analyzers see is an intact packet of the file it is said   *)
(* to come from, as the file holds it, and one that is due: never pieced   *)
(* together from two reads or two files, whatever the reads return and     *)
(* whatever else the file holds.                                           *)
THEOREM ReplayOnlyWhatIsDue == ASSUME Checksum16 PROVE ReplaySpec => []OnlyWhatIsDue
<1>1. ReplayInit => ContentInv
  <2> SUFFICES ASSUME ReplayInit PROVE ContentInv
    OBVIOUS
  <2>1. FeedInv
    BY FeedInit, OfflineReplayerAssumption
  <2>2. pc = "config" /\ ~finished
    BY DEF ReplayInit
  <2> QED BY <2>1, <2>2 DEF ContentInv, OnlyWhatIsDue, Replaying
<1>2. ContentInv /\ [ReplayNext]_vars => ContentInv'
  BY ContentStep
<1>3. ContentInv => OnlyWhatIsDue
  BY DEF ContentInv
<1> QED BY <1>1, <1>2, <1>3, PTL DEF ReplaySpec

-----------------------------------------------------------------------------
(* What was sent stays sent.                                               *)
LEMMA SentStays ==
  ASSUME FeedInv, Run, NEW k, NEW e, WasSent(k, e)
  PROVE  WasSent(k, e)'
<1>1. PICK i \in DOMAIN sent : sent[i].file = k /\ sent[i].end = e
  BY DEF WasSent
<1>2. i \in DOMAIN sent' /\ sent'[i] = sent[i]
  BY SentGrows
<1> QED BY <1>1, <1>2 DEF WasSent

(* A step of run() keeps TakenIsSent: a frame that is due is not passed    *)
(* over when it is taken, and the packet that waits is sent next.          *)
LEMMA TakenStep ==
  ASSUME DeliveryInv, Run, TypeInv', Checksum16, DmCollectorCAssumption
  PROVE  TakenIsSent'
<1>1. /\ input' = input /\ typeNames' = typeNames /\ whitelist' = whitelist
      /\ skipDecoding' = skipDecoding /\ skipDecoding \in BOOLEAN /\ NativeTypeOK
      /\ \A k \in 1..Len(input) : disk'[input[k]] = disk[input[k]]
      /\ FeedInv
  BY RunKeepsFiles DEF DeliveryInv, FeedInv, TypeInv, TypeOK
<1> SUFFICES ASSUME Reading', ~skipDecoding', NEW e \in 1..taken', IsDue(File, e)'
             PROVE  WasSent(fileNo, e)' \/ (Waiting' /\ ret'.pkt[1].end = e)
  BY DEF TakenIsSent
<1>2. ASSUME Reading, fileNo' = fileNo
      PROVE  File \in Seq(Byte) /\ IsDue(File, e) /\ taken \in Nat
  <2>1. fileNo \in 1..Len(input) /\ File \in Seq(Byte) /\ taken \in Nat
    BY <1>1, <1>2, FileIsBytes
  <2>2. File' = File
    BY <1>1, <1>2, <2>1 DEF File
  <2> QED BY <1>1, <2>1, <2>2 DEF IsDue, PassesFilter, Wanted
<1>3. ASSUME Reading, e \in 1..taken, IsDue(File, e)
      PROVE  WasSent(fileNo, e) \/ (Waiting /\ ret.pkt[1].end = e)
  BY <1>1, <1>3 DEF DeliveryInv, TakenIsSent
<1>4. ASSUME Reading, fileNo' = fileNo, e \in 1..taken, ~Waiting
      PROVE  WasSent(fileNo, e)'
  <2>1. WasSent(fileNo, e)
    BY <1>2, <1>3, <1>4
  <2>2. PICK i \in DOMAIN sent : sent[i].file = fileNo /\ sent[i].end = e
    BY <2>1 DEF WasSent
  <2>3. i \in DOMAIN sent' /\ sent'[i] = sent[i]
    BY <1>1, SentGrows
  <2> QED BY <1>4, <2>2, <2>3 DEF WasSent
<1>5. CASE OpenFile
  BY <1>5 DEF OpenFile, Reset
<1>6. CASE ReadAndFeed
  <2>1. Reading /\ fileNo' = fileNo /\ taken' = taken /\ ~Waiting
    BY <1>6 DEF ReadAndFeed, Reading, Waiting, Returned
  <2> QED BY <1>4, <2>1
<1>7. CASE Receive
  <2>1. Reading /\ fileNo' = fileNo /\ pc' = pc /\ pc = "receive" /\ ReceiveLogPacket(skipDecoding)
    BY <1>7 DEF Receive, replayVars, Reading
  <2>2. inReceive /\ ~Waiting /\ taken \in Nat /\ taken' \in Nat
    BY <1>1, <2>1, ReceiveAdvances DEF Waiting, Returned
  <2>3. CASE e \in 1..taken
    BY <1>4, <2>1, <2>2, <2>3
  <2>4. CASE e \in (taken + 1)..taken'
    <3>1. Holds(buffer, File, taken, pos) /\ IsDue(File, e) /\ File \in Seq(Byte)
      BY <1>1, <1>2, <2>1, FileIsBytes
    <3>2. Passes(File, e)
      BY <3>1 DEF IsDue, Passes
    <3>3. ~inReceive' /\ ret'.pkt # <<>> /\ ret'.pkt[1].end = e
      BY <1>1, <2>1, <2>4, <3>1, <3>2, ReceiveFromStream
    <3> QED BY <2>1, <3>3 DEF Waiting, Returned
  <2> QED BY <2>2, <2>3, <2>4
<1>8. CASE ReadOn
  <2>1. Reading /\ fileNo' = fileNo /\ taken' = taken
    BY <1>8 DEF ReadOn, Reading, Returned, nativeVars
  <2>2. ~Waiting
    BY <1>1, <1>8 DEF ReadOn, Waiting, FeedInv, NoneMeansDrained
  <2> QED BY <1>4, <2>1, <2>2
<1>9. CASE Dispatch
  <2>1. Reading /\ fileNo' = fileNo /\ taken' = taken /\ Waiting
    BY <1>9 DEF Dispatch, Reading, Waiting, Returned, nativeVars
  <2>2. IsDue(File, e) /\ (WasSent(fileNo, e) \/ ret.pkt[1].end = e)
    BY <1>2, <1>3, <2>1
  <2>3. CASE WasSent(fileNo, e)
    <3>1. PICK i \in DOMAIN sent : sent[i].file = fileNo /\ sent[i].end = e
      BY <2>3 DEF WasSent
    <3>2. i \in DOMAIN sent' /\ sent'[i] = sent[i]
      BY <1>1, SentGrows
    <3> QED BY <2>1, <3>1, <3>2 DEF WasSent
  <2>4. CASE ret.pkt[1].end = e
    <3>1. PacketOf(File, ret.pkt[1])
      BY <1>1, <2>1 DEF FeedInv, WaitingIsOfFile
    <3>2. Wanted(ret.pkt[1].payload)
      BY <2>2, <2>4, <3>1 DEF PacketOf, IsDue
    <3>3. /\ Len(sent) \in Nat /\ DOMAIN sent' = 1..(Len(sent) + 1)
          /\ sent'[Len(sent) + 1] = [file |-> fileNo, end |-> ret.pkt[1].end,
                                     payload |-> ret.pkt[1].payload]
      BY <1>1, <1>9, <3>2, SentGrows
    <3>4. Len(sent) + 1 \in DOMAIN sent'
      BY <3>3
    <3>5. sent'[Len(sent) + 1].file = fileNo' /\ sent'[Len(sent) + 1].end = e
      BY <2>1, <2>4, <3>3
    <3> QED BY <3>4, <3>5 DEF WasSent
  <2> QED BY <2>2, <2>3, <2>4
<1>10. CASE CloseFile \/ DecodingFails \/ FinishRun
  BY <1>10 DEF CloseFile, DecodingFails, FinishRun, Reading
<1> QED BY <1>5, <1>6, <1>7, <1>8, <1>9, <1>10 DEF Run

(* When run() leaves a file, the buffer is drained and the file is at its  *)
(* end, so all that is due in it has been sent.                            *)
LEMMA CloseStep ==
  ASSUME DeliveryInv, CloseFile, ~skipDecoding,
         NEW e \in 1..Len(File), IsDue(File, e)
  PROVE  WasSent(fileNo, e)
<1>1. Reading /\ FeedInv /\ pc = "receive" /\ eof /\ Returned /\ ~ret.some
  BY DEF DeliveryInv, CloseFile, Returned, Reading
<1>2. /\ pos = Len(File) /\ ret.pkt = <<>> /\ ~HasFrame(buffer)
  BY <1>1 DEF FeedInv, EofIsEnd, NoneMeansDrained
<1>3. /\ File \in Seq(Byte) /\ Holds(buffer, File, taken, pos) /\ taken \in Nat
      /\ Len(File) \in Nat
  BY <1>1, FileIsBytes
<1>4. \A j \in (taken + 1)..pos : File[j] # DELIM
  BY <1>2, <1>3, NoFrameInStretch
<1>5. e \in 1..taken
  BY <1>2, <1>3, <1>4 DEF IsDue
<1> QED BY <1>1, <1>2, <1>5 DEF DeliveryInv, TakenIsSent, Waiting

(* A step of run() keeps DoneIsSent.                                       *)
LEMMA DoneStep ==
  ASSUME DeliveryInv, Run, Checksum16, DmCollectorCAssumption
  PROVE  DoneIsSent' /\ (finished' => pc' = "config")
<1>1. /\ input' = input /\ typeNames' = typeNames /\ whitelist' = whitelist
      /\ skipDecoding' = skipDecoding
      /\ \A k \in 1..Len(input) : disk'[input[k]] = disk[input[k]]
      /\ FeedInv /\ fileNo \in 0..Len(input) /\ Len(input) \in Nat
  BY RunKeepsFiles, LenProperties DEF DeliveryInv, FeedInv, TypeInv, TypeOK
<1>2. pc # "config" /\ ~finished
  <2>1. pc # "config"
    BY DEF Run, OpenFile, ReadAndFeed, Receive, CloseFile, ReadOn, Dispatch,
           DecodingFails, FinishRun, Returned
  <2> QED BY <2>1 DEF DeliveryInv
<1>3. finished' => pc' = "config"
  BY <1>2 DEF Run, OpenFile, ReadAndFeed, Receive, CloseFile, ReadOn, Dispatch,
              DecodingFails, FinishRun, replayVars
<1>4. CASE DecodingFails
  BY <1>2, <1>3, <1>4 DEF DecodingFails, DoneIsSent, Running
<1>5. CASE ~DecodingFails
  <2>1. Running
    BY <1>5 DEF Run, OpenFile, ReadAndFeed, Receive, CloseFile, ReadOn, Dispatch,
                FinishRun, Returned, Running
  <2> SUFFICES ASSUME ~skipDecoding, NEW k \in 1..FilesDone',
                      NEW e \in 1..Len(disk'[input'[k]]), IsDue(disk[input[k]], e)'
               PROVE  WasSent(k, e)'
    BY <1>1, <1>3 DEF DoneIsSent
  <2>2. \/ FilesDone' = FilesDone
        \/ CloseFile /\ FilesDone = fileNo - 1 /\ FilesDone' = fileNo
    <3>1. CASE OpenFile
      BY <1>1, <3>1 DEF OpenFile, FilesDone, Reading
    <3>2. CASE CloseFile
      BY <3>2 DEF CloseFile, FilesDone, Reading, Returned
    <3>3. CASE ~OpenFile /\ ~CloseFile
      BY <1>5, <3>3 DEF Run, ReadAndFeed, Receive, ReadOn, Dispatch, FinishRun,
                        FilesDone, Reading, Returned, replayVars
    <3> QED BY <3>1, <3>2, <3>3
  <2>3. FilesDone' \in 0..Len(input)
    <3>1. FilesDone \in 0..Len(input)
      <4>1. CASE Reading
        BY <1>1, <4>1, FileIsBytes DEF FilesDone
      <4>2. CASE ~Reading
        BY <1>1, <4>2 DEF FilesDone
      <4> QED BY <4>1, <4>2
    <3> QED BY <1>1, <2>2, <3>1
  <2>4. k \in 1..Len(input) /\ disk'[input'[k]] = disk[input[k]]
    BY <1>1, <2>3
  <2>5. e \in 1..Len(disk[input[k]]) /\ IsDue(disk[input[k]], e)
    BY <1>1, <2>4 DEF IsDue, PassesFilter, Wanted
  <2>6. CASE k \in 1..FilesDone
    <3>1. WasSent(k, e)
      BY <2>1, <2>5, <2>6 DEF DeliveryInv, DoneIsSent
    <3> QED BY <1>1, <3>1, SentStays
  <2>7. CASE ~(k \in 1..FilesDone)
    <3>1. CloseFile /\ k = fileNo
      BY <1>1, <2>2, <2>7
    <3>2. WasSent(fileNo, e)
      BY <2>5, <3>1, CloseStep DEF File
    <3> QED BY <1>1, <3>1, <3>2, SentStays
  <2> QED BY <2>6, <2>7
<1> QED BY <1>3, <1>4, <1>5

(* Every step keeps DeliveryInv.                                           *)
LEMMA DeliveryStep ==
  ASSUME DeliveryInv, [ReplayNext]_vars, Checksum16
  PROVE  DeliveryInv'
<1>1. FeedInv' /\ TypeInv'
  BY FeedStep DEF DeliveryInv, FeedInv
<1>2. CASE Configure
  <2>1. CASE StartRun
    <3>1. pc' = "open" /\ fileNo' = 0 /\ ~finished'
      BY <2>1 DEF StartRun
    <3>2. 1..FilesDone' = {}
      BY <3>1 DEF FilesDone, Reading
    <3> QED BY <1>1, <3>1, <3>2 DEF DeliveryInv, TakenIsSent, DoneIsSent, Reading
  <2>2. CASE ~StartRun
    <3>1. pc' = "config" /\ ~finished'
      BY <1>2, <2>2 DEF Configure, EnableLog, SaveLogAs, SetSkipDecoding, SetInputPath
    <3> QED BY <1>1, <3>1 DEF DeliveryInv, TakenIsSent, DoneIsSent, Reading, Running
  <2> QED BY <2>1, <2>2
<1>3. CASE Run
  BY <1>1, <1>3, TakenStep, DoneStep, DmCollectorCAssumption DEF DeliveryInv
<1>4. CASE UNCHANGED vars
  BY <1>1, <1>4 DEF vars, nativeVars, replayVars, DeliveryInv, TakenIsSent, DoneIsSent,
                    Reading, Running, Waiting, Returned, FilesDone, WasSent, File,
                    IsDue, PassesFilter, Wanted
<1> QED BY <1>2, <1>3, <1>4 DEF ReplayNext

(* When run() leaves a file, every packet that it owes the analyzers from  *)
(* that file has been sent, however many of them were still in the native  *)
(* buffer when the last bytes were read, for every file and every size of  *)
(* a read; only deferred decoding leaves some out.                         *)
THEOREM ReplayNothingIsLost == ASSUME Checksum16 PROVE ReplaySpec => []NothingIsLost
<1>1. ReplayInit => DeliveryInv
  <2> SUFFICES ASSUME ReplayInit PROVE DeliveryInv
    OBVIOUS
  <2>1. FeedInv
    BY FeedInit, OfflineReplayerAssumption
  <2>2. pc = "config" /\ ~finished
    BY DEF ReplayInit
  <2> QED BY <2>1, <2>2 DEF DeliveryInv, TakenIsSent, DoneIsSent, Reading, Running
<1>2. DeliveryInv /\ [ReplayNext]_vars => DeliveryInv'
  BY DeliveryStep
<1>3. DeliveryInv => NothingIsLost
  <2> SUFFICES ASSUME DeliveryInv, pc = "open" \/ finished, ~skipDecoding,
                      NEW k \in 1..fileNo, NEW e \in DOMAIN disk[input[k]],
                      IsDue(disk[input[k]], e)
               PROVE  WasSent(k, e)
    BY DEF NothingIsLost, WasSent
  <2>1. /\ input \in Seq(Paths) /\ fileNo \in 0..Len(input) /\ Len(input) \in Nat
        /\ disk \in [Paths -> Seq(Byte)]
    BY LenProperties DEF DeliveryInv, FeedInv, TypeInv, TypeOK, NativeTypeOK
  <2>2. k \in 1..Len(input)
    BY <2>1
  <2>3. disk[input[k]] \in Seq(Byte)
    <3>1. input[k] \in Paths
      BY <2>1, <2>2, ElementOfSeq
    <3> QED BY <2>1, <3>1
  <2>4. e \in 1..Len(disk[input[k]])
    BY <2>3, LenProperties
  <2>5. (Running \/ finished) /\ FilesDone = fileNo
    BY DEF DeliveryInv, Running, FilesDone, Reading
  <2> QED BY <2>4, <2>5 DEF DeliveryInv, DoneIsSent
<1> QED BY <1>1, <1>2, <1>3, PTL DEF ReplaySpec
-----------------------------------------------------------------------------
(***************************************************************************)
(* What Picked does: it looks at one place after the other.                *)
(***************************************************************************)

Chosen(items, P, i, s) == IF i \in P THEN Append(s, items[i]) ELSE s

\* F goes from place to place as Picked does
Picks(F, items, P, n) ==
    F[0] = <<>> /\ \A i \in 1..n : F[i] = Chosen(items, P, i, F[i - 1])

\* Whatever is picked from the first n places is in S
PicksFrom(S, items, P, n) == \A i \in 1..n : i \in P => items[i] \in S

(* The recursive function in Picked exists.                                *)
LEMMA PickedSteps ==
  ASSUME NEW S, NEW n \in Nat, NEW items, NEW P, PicksFrom(S, items, P, n)
  PROVE  \E F \in [0..n -> Seq(S)] :
            Picked(items, P, n) = F[n] /\ Picks(F, items, P, n)
<1> DEFINE Unfolds(f) == f = [i \in 0..n |-> IF i = 0 THEN <<>>
                                            ELSE Chosen(items, P, i, f[i - 1])]
           out == CHOOSE f : Unfolds(f)
<1>1. Picked(items, P, n) = out[n]
  BY Zenon DEF Picked, Chosen
<1>2. \A i \in 1..n, s \in Seq(S) : Chosen(items, P, i, s) \in Seq(S)
  BY AppendProperties DEF Chosen, PicksFrom
<1>3. PICK f \in [0..n -> Seq(S)] : Picks(f, items, P, n)
  <2> DEFINE h == [i \in 1..n |-> [s \in Seq(S) |-> Chosen(items, P, i, s)]]
  <2>1. h \in [1..n -> [Seq(S) -> Seq(S)]]
    BY <1>2
  <2>2. <<>> \in Seq(S)
    OBVIOUS
  <2>3. \A i \in 1..n, s \in Seq(S) : h[i][s] = Chosen(items, P, i, s)
    OBVIOUS
  <2> HIDE DEF h
  <2>4. PICK f \in [0..n -> Seq(S)] : Follows(f, n, <<>>, h)
    BY <2>1, <2>2, RecursionExists
  <2>5. \A i \in 1..n : f[i] = Chosen(items, P, i, f[i - 1])
    <3>1. \A i \in 1..n : f[i - 1] \in Seq(S)
      BY <2>4
    <3> QED BY <2>3, <2>4, <3>1 DEF Follows
  <2> QED BY <2>4, <2>5 DEF Follows, Picks
<1>4. Unfolds(f)
  <2>1. ASSUME NEW i \in 0..n
        PROVE  f[i] = IF i = 0 THEN <<>> ELSE Chosen(items, P, i, f[i - 1])
    BY <1>3 DEF Picks
  <2> QED BY <1>3, <2>1
<1>5. Unfolds(out)
  BY <1>4, Zenon
<1> HIDE DEF out
<1>6. Picks(out, items, P, n)
  BY <1>5 DEF Picks
<1>7. \A i \in 0..n : out[i] = f[i]
  <2> DEFINE T == {i \in 0..n : out[i] = f[i]}
  <2>1. 0 \in T
    BY <1>3, <1>6 DEF Picks
  <2>2. \A i \in 1..n : i - 1 \in T => i \in T
    BY <1>3, <1>6 DEF Picks
  <2>3. 0..n \subseteq T
    <3> HIDE DEF T
    <3> QED BY <2>1, <2>2, InductionUpTo
  <2> QED BY <2>3
<1> QED BY <1>1, <1>3, <1>7

(* What goes from place to place as Picked does has what is picked.        *)
LEMMA PickedUnique ==
  ASSUME NEW S, NEW n \in Nat, NEW items, NEW P, PicksFrom(S, items, P, n),
         NEW F, Picks(F, items, P, n)
  PROVE  Picked(items, P, n) = F[n]
<1>1. PICK G \in [0..n -> Seq(S)] :
          Picked(items, P, n) = G[n] /\ Picks(G, items, P, n)
  BY PickedSteps
<1> DEFINE T == {i \in 0..n : G[i] = F[i]}
<1>2. 0 \in T
  BY <1>1 DEF Picks
<1>3. \A i \in 1..n : i - 1 \in T => i \in T
  BY <1>1 DEF Picks
<1>4. 0..n \subseteq T
  <2> HIDE DEF T
  <2> QED BY <1>2, <1>3, InductionUpTo
<1> QED BY <1>1, <1>4

(* One more place.                                                         *)
LEMMA PickedNext ==
  ASSUME NEW S, NEW n \in Nat, NEW items, NEW P, PicksFrom(S, items, P, n)
  PROVE  /\ Picked(items, P, 0) = <<>> /\ Picked(items, P, n) \in Seq(S)
         /\ n # 0 => /\ Picked(items, P, n - 1) \in Seq(S)
                     /\ Picked(items, P, n) =
                           Chosen(items, P, n, Picked(items, P, n - 1))
<1>1. PICK F \in [0..n -> Seq(S)] :
          Picked(items, P, n) = F[n] /\ Picks(F, items, P, n)
  BY PickedSteps
<1>2. ASSUME NEW m \in 0..n PROVE Picked(items, P, m) = F[m]
  <2>1. Picks(F, items, P, m) /\ PicksFrom(S, items, P, m)
    BY <1>1 DEF Picks, PicksFrom
  <2> QED BY <2>1, PickedUnique
<1>3. 0 \in 0..n /\ n \in 0..n /\ (n # 0 => n - 1 \in 0..n /\ n \in 1..n)
  OBVIOUS
<1> QED BY <1>1, <1>2, <1>3 DEF Picks

(* Only the places looked at, and what is there, matter.                    *)
LEMMA PickedSame ==
  ASSUME NEW S, NEW n \in Nat, NEW items, NEW P, PicksFrom(S, items, P, n),
         NEW others, NEW Q, \A i \in 1..n : i \in P <=> i \in Q,
         \A i \in 1..n : i \in P => items[i] = others[i]
  PROVE  Picked(others, Q, n) = Picked(items, P, n)
<1>1. PICK F \in [0..n -> Seq(S)] :
          Picked(items, P, n) = F[n] /\ Picks(F, items, P, n)
  BY PickedSteps
<1>2. Picks(F, others, Q, n) /\ PicksFrom(S, others, Q, n)
  BY <1>1 DEF Picks, PicksFrom, Chosen
<1> QED BY <1>1, <1>2, PickedUnique

(* Nothing is picked where no place is chosen.                             *)
LEMMA PickedGap ==
  ASSUME NEW S, NEW n \in Nat, NEW items, NEW P, PicksFrom(S, items, P, n),
         NEW m \in 0..n, \A i \in (m + 1)..n : i \notin P
  PROVE  Picked(items, P, n) = Picked(items, P, m)
<1>1. PICK F \in [0..n -> Seq(S)] :
          Picked(items, P, n) = F[n] /\ Picks(F, items, P, n)
  BY PickedSteps
<1>2. Picked(items, P, m) = F[m]
  <2>1. Picks(F, items, P, m) /\ PicksFrom(S, items, P, m)
    BY <1>1 DEF Picks, PicksFrom
  <2> QED BY <2>1, PickedUnique
<1> DEFINE T == {i \in 0..n : i < m \/ F[i] = F[m]}
<1>3. 0 \in T
  OBVIOUS
<1>4. \A i \in 1..n : i - 1 \in T => i \in T
  <2> SUFFICES ASSUME NEW i \in 1..n, i - 1 \in T, i > m PROVE F[i] = F[m]
    OBVIOUS
  <2>1. i \in (m + 1)..n /\ F[i - 1] = F[m]
    OBVIOUS
  <2>2. i \notin P
    BY <2>1
  <2>3. F[i] = F[i - 1]
    BY <1>1, <2>2 DEF Picks, Chosen
  <2> QED BY <2>1, <2>3
<1>5. 0..n \subseteq T
  <2> HIDE DEF T
  <2> QED BY <1>3, <1>4, InductionUpTo
<1>6. F[n] = F[m]
  BY <1>5
<1> QED BY <1>1, <1>2, <1>6

-----------------------------------------------------------------------------
(***************************************************************************)
(* What a run owes is the packets of its files that are due, in the order  *)
(* of the files and of the frames in them.                                 *)
(***************************************************************************)

InFrontOf(a, b) == a.file < b.file \/ (a.file = b.file /\ a.end < b.end)

\* s has what is in T, in order
Lists(s, T) ==
    /\ s \in Seq(Event)
    /\ \A i \in 1..Len(s) : s[i] \in T
    /\ \A x \in T : \E i \in 1..Len(s) : s[i] = x
    /\ \A i, j \in 1..Len(s) : i < j => InFrontOf(s[i], s[j])

\* What is due in the first e bytes of the k-th file
DueUpTo(k, e) ==
    {x \in Event : /\ x.file = k /\ x.end \in 1..e
                   /\ IsDue(disk[input[k]], x.end)
                   /\ x.payload = PacketAt(disk[input[k]], x.end)}

\* What is due in the first k files
DueFiles(k) ==
    {x \in Event : /\ x.file \in 1..k /\ x.end \in 1..Len(disk[input[x.file]])
                   /\ IsDue(disk[input[x.file]], x.end)
                   /\ x.payload = PacketAt(disk[input[x.file]], x.end)}

(* An empty list, and one list behind another.                             *)
LEMMA ListsNone == Lists(<<>>, {})
<1>1. Len(<<>>) = 0 /\ <<>> \in Seq(Event)
  OBVIOUS
<1> QED BY <1>1 DEF Lists

LEMMA ListsBoth ==
  ASSUME NEW A, NEW B, NEW a, NEW b, Lists(a, A), Lists(b, B),
         \A x \in A, y \in B : InFrontOf(x, y)
  PROVE  Lists(a \o b, A \cup B)
<1> DEFINE c == a \o b
<1>1. /\ a \in Seq(Event) /\ b \in Seq(Event) /\ Len(a) \in Nat /\ Len(b) \in Nat
  BY LenProperties DEF Lists
<1>2. /\ c \in Seq(Event) /\ Len(c) = Len(a) + Len(b)
      /\ \A i \in 1..(Len(a) + Len(b)) :
            c[i] = IF i <= Len(a) THEN a[i] ELSE b[i - Len(a)]
  BY <1>1, ConcatProperties
<1> HIDE DEF c
<1>3. /\ \A i \in 1..Len(a) : i \in 1..Len(c) /\ c[i] = a[i]
      /\ \A i \in 1..Len(b) : Len(a) + i \in 1..Len(c) /\ c[Len(a) + i] = b[i]
      /\ \A i \in 1..Len(c) : \/ i \in 1..Len(a) /\ c[i] = a[i]
                              \/ /\ i - Len(a) \in 1..Len(b) /\ i > Len(a)
                                 /\ c[i] = b[i - Len(a)]
  <2>1. \A i \in 1..Len(a) : i \in 1..Len(c) /\ c[i] = a[i]
    BY <1>1, <1>2
  <2>2. ASSUME NEW i \in 1..Len(b)
        PROVE  Len(a) + i \in 1..Len(c) /\ c[Len(a) + i] = b[i]
    <3>1. /\ Len(a) + i \in 1..(Len(a) + Len(b)) /\ ~(Len(a) + i <= Len(a))
          /\ (Len(a) + i) - Len(a) = i
      BY <1>1
    <3> QED BY <1>2, <3>1
  <2>3. ASSUME NEW i \in 1..Len(c)
        PROVE  \/ i \in 1..Len(a) /\ c[i] = a[i]
               \/ /\ i - Len(a) \in 1..Len(b) /\ i > Len(a)
                  /\ c[i] = b[i - Len(a)]
    BY <1>1, <1>2
  <2> QED BY <2>1, <2>2, <2>3
<1>4. /\ \A i \in 1..Len(a) : a[i] \in A
      /\ \A x \in A : \E i \in 1..Len(a) : a[i] = x
      /\ \A i, j \in 1..Len(a) : i < j => InFrontOf(a[i], a[j])
      /\ \A i \in 1..Len(b) : b[i] \in B
      /\ \A x \in B : \E i \in 1..Len(b) : b[i] = x
      /\ \A i, j \in 1..Len(b) : i < j => InFrontOf(b[i], b[j])
  BY DEF Lists
<1>5. \A i \in 1..Len(c) : c[i] \in A \cup B
  BY <1>3, <1>4
<1>6. ASSUME NEW x \in A \cup B PROVE \E i \in 1..Len(c) : c[i] = x
  <2>1. CASE x \in A
    BY <1>3, <1>4, <2>1
  <2>2. CASE x \in B
    <3>1. PICK i \in 1..Len(b) : b[i] = x
      BY <1>4, <2>2
    <3> QED BY <1>3, <3>1
  <2> QED BY <2>1, <2>2
<1>7. ASSUME NEW i \in 1..Len(c), NEW j \in 1..Len(c), i < j PROVE InFrontOf(c[i], c[j])
  <2>1. CASE j \in 1..Len(a) /\ c[j] = a[j]
    <3>1. i \in 1..Len(a)
      BY <1>1, <1>7, <2>1
    <3> QED BY <1>3, <1>4, <1>7, <2>1, <3>1
  <2>2. CASE j - Len(a) \in 1..Len(b) /\ j > Len(a) /\ c[j] = b[j - Len(a)]
    <3>1. CASE i \in 1..Len(a) /\ c[i] = a[i]
      BY <1>4, <2>2, <3>1
    <3>2. CASE i - Len(a) \in 1..Len(b) /\ c[i] = b[i - Len(a)]
      <4>1. i - Len(a) < j - Len(a)
        BY <1>1, <1>2, <1>7
      <4> QED BY <1>4, <2>2, <3>2, <4>1
    <3> QED BY <1>3, <3>1, <3>2
  <2> QED BY <1>3, <2>1, <2>2
<1> QED BY <1>2, <1>5, <1>6, <1>7 DEF Lists, c

(* The packet of an intact frame is a sequence of bytes.                   *)
LEMMA PacketIsBytes ==
  ASSUME NEW bytes \in Seq(Byte), NEW e \in 1..Len(bytes),
         CrcCorrect(FrameEndingAt(bytes, e))
  PROVE  PacketAt(bytes, e) \in Seq(Byte)
<1>1. Len(bytes) \in Nat /\ e \in Nat \ {0} /\ e - 1 \in Nat
  BY LenProperties
<1>2. PICK s \in 1..e : /\ s = 1 \/ bytes[s - 1] = DELIM
                        /\ \A i \in s..(e - 1) : bytes[i] # DELIM
  BY <1>1, FrameStartExists
<1>3. FrameStart(bytes, e) = s
  BY <1>1, <1>2, FrameStartIs
<1>4. FrameEndingAt(bytes, e) \in Seq(Byte)
  <2>1. s \in Nat \ {0} /\ s <= (e - 1) + 1 /\ e - 1 <= Len(bytes)
    BY <1>1
  <2>2. SubSeq(bytes, s, e - 1) \in Seq(Byte)
    BY <1>1, <2>1, Stretch
  <2> QED BY <1>3, <2>2 DEF FrameEndingAt
<1>5. Len(Unescape(FrameEndingAt(bytes, e))) > 2
  BY DEF CrcCorrect
<1> QED BY <1>4, <1>5, PayloadType, CheckFrameFormatType DEF PacketAt

(* What is owed from a file is what is due in it, in order.                *)
LEMMA DueInLists ==
  ASSUME NEW k \in Nat, disk[input[k]] \in Seq(Byte)
  PROVE  Lists(DueIn(k), DueUpTo(k, Len(disk[input[k]])))
<1> DEFINE bytes == disk[input[k]]
           n == Len(bytes)
           P == {e \in DOMAIN bytes : IsDue(bytes, e)}
           items == [e \in DOMAIN bytes |->
                        [file |-> k, end |-> e, payload |-> PacketAt(bytes, e)]]
<1>1. bytes \in Seq(Byte) /\ n \in Nat /\ DOMAIN bytes = 1..n
  BY LenProperties
<1>2. DueIn(k) = Picked(items, P, n)
  BY DEF DueIn
<1>3. \A e \in 1..n : e \in P <=> IsDue(bytes, e)
  BY <1>1
<1>4. \A e \in 1..n : items[e] = [file |-> k, end |-> e, payload |-> PacketAt(bytes, e)]
  BY <1>1
<1>5. \A x : x \in DueUpTo(k, n) <=>
                /\ x \in Event /\ x.file = k /\ x.end \in 1..n
                /\ IsDue(bytes, x.end) /\ x.payload = PacketAt(bytes, x.end)
  BY DEF DueUpTo
<1> HIDE DEF P, items
<1>6. \A e \in 1..n : IsDue(bytes, e) => PacketAt(bytes, e) \in Seq(Byte)
  BY <1>1, PacketIsBytes DEF IsDue
<1>7. PicksFrom(Event, items, P, n)
  <2> SUFFICES ASSUME NEW e \in 1..n, e \in P PROVE items[e] \in Event
    BY DEF PicksFrom
  <2>1. PacketAt(bytes, e) \in Seq(Byte) /\ e \in Nat
    BY <1>1, <1>3, <1>6
  <2>2. [file |-> k, end |-> e, payload |-> PacketAt(bytes, e)] \in Event
    <3> HIDE DEF bytes
    <3> QED BY <2>1 DEF Event
  <2> QED BY <1>4, <2>2
<1>8. PICK F \in [0..n -> Seq(Event)] :
          Picked(items, P, n) = F[n] /\ Picks(F, items, P, n)
  BY <1>1, <1>7, PickedSteps
<1> DEFINE T == {e \in 0..n : Lists(F[e], DueUpTo(k, e))}
<1>9. 0 \in T
  <2>1. DueUpTo(k, 0) = {}
    BY DEF DueUpTo
  <2>2. F[0] = <<>>
    BY <1>8 DEF Picks
  <2>3. Lists(F[0], DueUpTo(k, 0))
    BY <2>1, <2>2, ListsNone
  <2> QED BY <1>1, <2>3
<1>10. ASSUME NEW e \in 1..n, e - 1 \in T PROVE e \in T
  <2>1. Lists(F[e - 1], DueUpTo(k, e - 1)) /\ e - 1 \in 0..n /\ e \in 0..n
    BY <1>1, <1>10
  <2>2. F[e] = Chosen(items, P, e, F[e - 1])
    BY <1>8 DEF Picks
  <2>3. CASE ~IsDue(bytes, e)
    <3>1. F[e] = F[e - 1]
      BY <1>3, <2>2, <2>3 DEF Chosen
    <3>2. DueUpTo(k, e) = DueUpTo(k, e - 1)
      <4>1. \A i : i \in 1..e <=> i \in 1..(e - 1) \/ i = e
        BY <1>1
      <4> QED BY <2>3, <4>1 DEF DueUpTo
    <3> QED BY <2>1, <3>1, <3>2
  <2>4. CASE IsDue(bytes, e)
    <3> DEFINE x == [file |-> k, end |-> e, payload |-> PacketAt(bytes, e)]
    <3>1. x \in Event /\ x.file = k /\ x.end = e /\ x.payload = PacketAt(bytes, e)
      BY <1>1, <1>6, <2>4 DEF Event
    <3>2. F[e] = Append(F[e - 1], x)
      BY <1>3, <1>4, <2>2, <2>4 DEF Chosen
    <3>3. \A y \in Event : y.file = k /\ y.end = e /\ y.payload = PacketAt(bytes, e) => y = x
      BY DEF Event
    <3> HIDE DEF x
    <3>4. F[e] = F[e - 1] \o <<x>>
      <4>1. F[e - 1] \in Seq(Event)
        BY <2>1 DEF Lists
      <4> QED BY <3>1, <3>2, <4>1, AppendIsConcat
    <3>5. DueUpTo(k, e) = DueUpTo(k, e - 1) \cup {x}
      <4>1. \A i : i \in 1..e <=> i \in 1..(e - 1) \/ i = e
        BY <1>1
      <4> QED BY <2>4, <3>1, <3>3, <4>1 DEF DueUpTo
    <3>6. Lists(<<x>>, {x})
      <4>1. Len(<<x>>) = 1 /\ <<x>>[1] = x /\ <<x>> \in Seq(Event)
        BY <3>1
      <4> QED BY <4>1 DEF Lists
    <3>7. \A y \in DueUpTo(k, e - 1), z \in {x} : InFrontOf(y, z)
      <4>1. \A i \in 1..(e - 1) : i < e
        BY <1>1
      <4> QED BY <3>1, <4>1 DEF DueUpTo, InFrontOf
    <3>8. Lists(F[e - 1] \o <<x>>, DueUpTo(k, e - 1) \cup {x})
      BY <2>1, <3>6, <3>7, ListsBoth
    <3> QED BY <2>1, <3>4, <3>5, <3>8
  <2> QED BY <2>3, <2>4
<1>11. 0..n \subseteq T
  <2>1. \A e \in 1..n : e - 1 \in T => e \in T
    BY <1>10
  <2> HIDE DEF T
  <2> QED BY <1>1, <1>9, <2>1, InductionUpTo
<1> QED BY <1>1, <1>2, <1>8, <1>11

(* What a run owes is what is due in its files, in order.                  *)
LEMMA OwedLists ==
  ASSUME TypeInv, StartRun
  PROVE  Lists(owed', DueFiles(Len(input)))
<1> DEFINE n == Len(input)
           parts == [k \in DOMAIN input |-> DueIn(k)]
<1>1. /\ input \in Seq(Paths) /\ n \in Nat /\ DOMAIN input = 1..n /\ input # <<>>
      /\ disk \in [Paths -> Seq(Byte)] /\ owed' = FlattenSeq(parts)
  BY LenProperties DEF TypeInv, TypeOK, NativeTypeOK, StartRun
<1>2. \A k \in 1..n : disk[input[k]] \in Seq(Byte)
  BY <1>1, ElementOfSeq
<1>3. \A k \in 1..n : Lists(DueIn(k), DueUpTo(k, Len(disk[input[k]])))
  BY <1>1, <1>2, DueInLists
<1>4. parts \in Seq(Seq(Event)) /\ Len(parts) = n /\ \A k \in 1..n : parts[k] = DueIn(k)
  <2>1. parts = [k \in 1..n |-> DueIn(k)]
    BY <1>1
  <2> HIDE DEF parts
  <2>2. \A k \in 1..n : parts[k] = DueIn(k)
    BY <2>1
  <2>3. \A k \in 1..n : DueIn(k) \in Seq(Event)
    BY <1>3 DEF Lists
  <2>4. parts \in [1..n -> Seq(Event)]
    BY <2>1, <2>3
  <2> QED BY <1>1, <2>2, <2>4, FunctionIsSeq
<1> HIDE DEF parts
<1>5. n # 0 /\ parts # <<>>
  BY <1>1, <1>4, EmptySeq
<1>6. PICK F \in [0..n -> Seq(Event)] :
          /\ FlattenSeq(parts) = F[n] /\ F[0] = <<>>
          /\ \A i \in 1..n : F[i] = F[i - 1] \o parts[i]
  <2>1. \E F \in [0..Len(parts) -> Seq(Event)] :
          /\ FlattenSeq(parts) = F[Len(parts)] /\ F[0] = <<>>
          /\ \A i \in 1..Len(parts) : F[i] = F[i - 1] \o parts[i]
    BY <1>4, <1>5, FlattenSteps
  <2> HIDE DEF n
  <2> QED BY <1>4, <2>1
<1> DEFINE T == {k \in 0..n : Lists(F[k], DueFiles(k))}
<1>7. 0 \in T
  <2>1. DueFiles(0) = {}
    BY DEF DueFiles
  <2>2. Lists(F[0], DueFiles(0))
    BY <1>6, <2>1, ListsNone
  <2> QED BY <1>1, <2>2
<1>8. ASSUME NEW k \in 1..n, k - 1 \in T PROVE k \in T
  <2> DEFINE m == Len(disk[input[k]])
  <2>1. /\ Lists(F[k - 1], DueFiles(k - 1)) /\ k \in 0..n
        /\ Lists(DueIn(k), DueUpTo(k, m)) /\ F[k] = F[k - 1] \o DueIn(k)
    <3>1. Lists(F[k - 1], DueFiles(k - 1)) /\ k \in 0..n
      BY <1>1, <1>8
    <3>2. F[k] = F[k - 1] \o DueIn(k)
      BY <1>4, <1>6
    <3> QED BY <1>3, <3>1, <3>2
  <2>2. DueFiles(k) = DueFiles(k - 1) \cup DueUpTo(k, m)
    <3>1. \A i : i \in 1..k <=> i \in 1..(k - 1) \/ i = k
      BY <1>1
    <3> QED BY <3>1 DEF DueFiles, DueUpTo
  <2>3. \A x \in DueFiles(k - 1), y \in DueUpTo(k, m) : InFrontOf(x, y)
    <3>1. \A i \in 1..(k - 1) : i < k
      BY <1>1
    <3> QED BY <3>1 DEF DueFiles, DueUpTo, InFrontOf
  <2>4. Lists(F[k], DueFiles(k))
    <3>1. Lists(F[k - 1] \o DueIn(k), DueFiles(k - 1) \cup DueUpTo(k, m))
      BY <2>1, <2>3, ListsBoth
    <3> QED BY <2>1, <2>2, <3>1
  <2> QED BY <2>1, <2>4
<1>9. 0..n \subseteq T
  <2>1. \A k \in 1..n : k - 1 \in T => k \in T
    BY <1>8
  <2> HIDE DEF T
  <2> QED BY <1>1, <1>7, <2>1, InductionUpTo
<1>10. Lists(F[n], DueFiles(n))
  <2>1. n \in 0..n
    BY <1>1
  <2> QED BY <1>9, <2>1
<1> QED BY <1>1, <1>6, <1>10

-----------------------------------------------------------------------------
(***************************************************************************)
(* The replayer implements PacketFeed.  What has been sent is the first    *)
(* part of what is owed: a packet that is due waits, or lies in front of   *)
(* one that was sent, only if it is sent itself.                           *)
(***************************************************************************)

OwedIsDue == Running => Lists(owed, DueFiles(Len(input)))

SentIsOwed ==
    Running /\ ~skipDecoding =>
      \A i \in 1..Len(sent) : i \in 1..Len(owed) /\ sent[i] = owed[i]

RefinementInv == OrderInv /\ ContentInv /\ DeliveryInv /\ OwedIsDue /\ SentIsOwed

(* No packet is in front of itself, and two are never in front of each     *)
(* other.                                                                  *)
LEMMA BeforeIsStrict ==
  ASSUME NEW a \in Event, NEW b \in Event, InFrontOf(a, b)
  PROVE  ~InFrontOf(b, a) /\ a # b
BY DEF InFrontOf, Event

(* What is due stays what it was while a run goes on.                      *)
LEMMA DueFilesStay ==
  ASSUME FeedInv, Run, Checksum16, DmCollectorCAssumption
  PROVE  DueFiles(Len(input))' = DueFiles(Len(input))
<1>1. /\ input' = input /\ typeNames' = typeNames /\ whitelist' = whitelist
      /\ \A k \in 1..Len(input) : disk'[input[k]] = disk[input[k]]
  BY RunKeepsFiles
<1>2. ASSUME NEW x \in Event
      PROVE  x \in DueFiles(Len(input))' <=> x \in DueFiles(Len(input))
  <2>1. CASE x.file \in 1..Len(input)
    <3>1. disk'[input'[x.file]] = disk[input[x.file]]
      BY <1>1, <2>1
    <3> QED BY <1>1, <3>1 DEF DueFiles, IsDue, PassesFilter, Wanted
  <2>2. CASE x.file \notin 1..Len(input)
    BY <1>1, <2>2 DEF DueFiles
  <2> QED BY <2>1, <2>2
<1> QED BY <1>2 DEF DueFiles

(* What is sent is one of the packets owed.                                *)
LEMMA SentAreDue ==
  ASSUME ContentInv, Running
  PROVE  /\ sent \in Seq(Event) /\ Len(sent) \in Nat /\ DOMAIN sent = 1..Len(sent)
         /\ \A i \in 1..Len(sent) : sent[i] \in Event /\ sent[i] \in DueFiles(Len(input))
<1>1. /\ sent \in Seq(Event) /\ Len(sent) \in Nat /\ DOMAIN sent = 1..Len(sent)
      /\ Replaying /\ fileNo \in 0..Len(input) /\ Len(input) \in Nat
      /\ input \in Seq(Paths) /\ disk \in [Paths -> Seq(Byte)]
  BY LenProperties DEF ContentInv, FeedInv, TypeInv, TypeOK, NativeTypeOK, Running, Replaying
<1>2. ASSUME NEW i \in 1..Len(sent)
      PROVE  sent[i] \in Event /\ sent[i] \in DueFiles(Len(input))
  <2>1. sent[i] \in Event
    BY <1>1, ElementOfSeq
  <2>2. sent[i].file \in 1..Len(input)
    <3>1. sent[i].file \in 1..fileNo
      BY <1>1 DEF ContentInv, FeedInv, SentFromTheList
    <3> QED BY <1>1, <3>1
  <2>3. disk[input[sent[i].file]] \in Seq(Byte)
    BY <1>1, <2>2, ElementOfSeq
  <2>4. DOMAIN disk[input[sent[i].file]] = 1..Len(disk[input[sent[i].file]])
    BY <2>3, LenProperties
  <2> QED BY <1>1, <2>1, <2>2, <2>4 DEF ContentInv, OnlyWhatIsDue, DueFiles
<1> QED BY <1>1, <1>2

(* A frame has one packet.                                                 *)
LEMMA SameEvent ==
  ASSUME NEW k, NEW x \in DueFiles(k), NEW y \in DueFiles(k),
         x.file = y.file, x.end = y.end
  PROVE  x = y
<1>1. x.payload = y.payload /\ x \in Event /\ y \in Event
  BY DEF DueFiles
<1> QED BY <1>1 DEF Event

(* What is due in front of the packet that waits has been sent.            *)
LEMMA EarlierIsSent ==
  ASSUME RefinementInv, Running, Reading, Waiting, ~skipDecoding,
         NEW x \in DueFiles(Len(input)),
         x.file < fileNo \/ (x.file = fileNo /\ x.end < ret.pkt[1].end)
  PROVE  \E i \in 1..Len(sent) : sent[i] = x
<1>1. /\ FeedInv /\ TakenIsSent /\ DoneIsSent /\ WaitingIsNext /\ taken \in Nat
      /\ fileNo \in 1..Len(input) /\ Len(input) \in Nat
  <2>1. FeedInv /\ TakenIsSent /\ DoneIsSent /\ WaitingIsNext
    BY DEF RefinementInv, DeliveryInv, OrderInv
  <2> QED BY <2>1, FileIsBytes, LenProperties DEF FeedInv, TypeInv, TypeOK
<1>2. /\ x \in Event /\ x.file \in 1..Len(input)
      /\ x.end \in 1..Len(disk[input[x.file]]) /\ IsDue(disk[input[x.file]], x.end)
  BY DEF DueFiles
<1>3. WasSent(x.file, x.end)
  <2>1. CASE x.file < fileNo
    <3>1. x.file \in 1..FilesDone
      BY <1>1, <1>2, <2>1 DEF FilesDone
    <3> QED BY <1>1, <1>2, <3>1 DEF DoneIsSent
  <2>2. CASE x.file = fileNo /\ x.end < ret.pkt[1].end
    <3>1. ret.pkt[1].end <= taken /\ ret.pkt[1].end \in Nat
      <4>1. PacketOf(File, ret.pkt[1]) /\ Len(File) \in Nat
        BY <1>1, FileIsBytes DEF FeedInv, WaitingIsOfFile
      <4> QED BY <1>1, <4>1 DEF WaitingIsNext, Waiting, PacketOf
    <3>2. x.end \in 1..taken /\ x.end # ret.pkt[1].end
      <4>1. x.end \in Nat /\ x.end >= 1
        BY <1>2 DEF Event
      <4> QED BY <1>1, <2>2, <3>1, <4>1
    <3>3. IsDue(File, x.end)
      BY <1>2, <2>2 DEF File
    <3> QED BY <1>1, <2>2, <3>2, <3>3 DEF TakenIsSent
  <2> QED BY <2>1, <2>2
<1>4. PICK i \in DOMAIN sent : sent[i].file = x.file /\ sent[i].end = x.end
  BY <1>3 DEF WasSent
<1>5. i \in 1..Len(sent) /\ sent[i] \in DueFiles(Len(input))
  BY SentAreDue DEF RefinementInv
<1> QED BY <1>4, <1>5, SameEvent

(* What is sent is owed, and is what comes next in it, or, with deferred   *)
(* decoding, something behind what was sent last.                          *)
LEMMA NextOwed ==
  ASSUME RefinementInv, OrderInv', ContentInv', Dispatch, Wanted(ret.pkt[1].payload),
         Checksum16, DmCollectorCAssumption
  PROVE  \E k \in 1..Len(owed) :
            /\ sent' = Append(sent, owed[k])
            /\ \A i \in 1..Len(sent) : InFrontOf(sent[i], owed[k])
            /\ ~skipDecoding => k = Len(sent) + 1
<1> DEFINE e == [file |-> fileNo, end |-> ret.pkt[1].end, payload |-> ret.pkt[1].payload]
<1>1. /\ Running /\ Running' /\ Reading /\ Waiting /\ Run /\ FeedInv
      /\ input' = input /\ sent' = Append(sent, e) /\ skipDecoding' = skipDecoding
  BY DEF Dispatch, Returned, Running, Reading, Waiting, Run, RefinementInv, ContentInv
<1>2. e.file = fileNo /\ e.end = ret.pkt[1].end
  OBVIOUS
<1> HIDE DEF e
<1>3. /\ Len(sent) \in Nat
      /\ \A i \in 1..Len(sent) : sent[i] \in Event /\ sent[i] \in DueFiles(Len(input))
  BY <1>1, SentAreDue DEF RefinementInv
<1>4. /\ DOMAIN sent' = 1..(Len(sent) + 1) /\ sent'[Len(sent) + 1] = e
      /\ \A i \in 1..Len(sent) : sent'[i] = sent[i]
      /\ Len(sent) + 1 \in 1..Len(sent')
  <2>1. sent \in Seq(Event)
    BY <1>1, SentAreDue DEF RefinementInv
  <2> QED BY <1>1, <1>3, <2>1
<1>5. e \in Event /\ e \in DueFiles(Len(input))
  <2>1. /\ PacketOf(File, ret.pkt[1]) /\ fileNo \in 1..Len(input) /\ File \in Seq(Byte)
    BY <1>1, FileIsBytes DEF FeedInv, WaitingIsOfFile
  <2>2. /\ e.end \in 1..Len(File) /\ IsDue(File, e.end) /\ e.payload = PacketAt(File, e.end)
    BY <1>2, <2>1 DEF e, PacketOf, Passes, IsDue
  <2>3. e.payload \in Seq(Byte) /\ e.end \in Nat /\ fileNo \in Nat
    BY <2>1, <2>2, PacketIsBytes, LenProperties DEF IsDue
  <2>4. e \in Event
    BY <2>3 DEF e, Event
  <2> QED BY <1>2, <2>1, <2>2, <2>4 DEF DueFiles, File
<1>6. \A i \in 1..Len(sent) : InFrontOf(sent[i], e)
  <2> SUFFICES ASSUME NEW i \in 1..Len(sent) PROVE InFrontOf(sent[i], e)
    OBVIOUS
  <2>1. i \in DOMAIN sent' /\ Len(sent) + 1 \in DOMAIN sent' /\ i < Len(sent) + 1
    BY <1>3, <1>4
  <2>2. InFrontOf(sent'[i], sent'[Len(sent) + 1])
    BY <2>1 DEF OrderInv, SentInOrder, InFrontOf
  <2> QED BY <1>4, <2>2
<1>7. /\ owed \in Seq(Event) /\ Len(owed) \in Nat
      /\ \A i \in 1..Len(owed) : owed[i] \in Event /\ owed[i] \in DueFiles(Len(input))
      /\ \A x \in DueFiles(Len(input)) : \E i \in 1..Len(owed) : owed[i] = x
      /\ \A i, j \in 1..Len(owed) : i < j => InFrontOf(owed[i], owed[j])
  <2>1. Lists(owed, DueFiles(Len(input)))
    BY <1>1 DEF RefinementInv, OwedIsDue
  <2>2. owed \in Seq(Event)
    BY <2>1 DEF Lists
  <2> QED BY <2>1, <2>2, ElementOfSeq, LenProperties DEF Lists
<1>8. PICK k \in 1..Len(owed) : owed[k] = e
  BY <1>5, <1>7
<1>9. ASSUME ~skipDecoding PROVE k = Len(sent) + 1
  <2>1. \A i \in 1..Len(sent) : i \in 1..Len(owed) /\ sent[i] = owed[i]
    BY <1>1, <1>9 DEF RefinementInv, SentIsOwed
  <2>2. k > Len(sent)
    <3>1. SUFFICES ASSUME k \in 1..Len(sent) PROVE FALSE
      BY <1>3, <1>7
    <3>2. sent[k] = e /\ InFrontOf(sent[k], e)
      BY <1>6, <1>8, <2>1, <3>1
    <3> QED BY <1>5, <3>2, BeforeIsStrict
  <2>3. ~(k > Len(sent) + 1)
    <3>1. SUFFICES ASSUME k > Len(sent) + 1 PROVE FALSE
      OBVIOUS
    <3> DEFINE j == Len(sent) + 1
    <3>2. j \in 1..Len(owed) /\ j < k
      BY <1>3, <1>7, <3>1
    <3>3. InFrontOf(owed[j], e) /\ owed[j] \in DueFiles(Len(input))
      BY <1>7, <1>8, <3>2
    <3>4. PICK i \in 1..Len(sent) : sent[i] = owed[j]
      BY <1>1, <1>2, <1>9, <3>3, EarlierIsSent DEF InFrontOf
    <3>5. i \in 1..Len(owed) /\ owed[i] = owed[j] /\ i < j
      BY <1>3, <2>1, <3>4
    <3>6. InFrontOf(owed[i], owed[j]) /\ owed[j] \in Event
      BY <1>7, <3>2, <3>5
    <3> QED BY <3>5, <3>6, BeforeIsStrict
  <2> QED BY <1>3, <1>7, <2>2, <2>3
<1> QED BY <1>1, <1>6, <1>8, <1>9

(* Every step keeps what is owed, and that what was sent is its first part. *)
LEMMA OwedStep ==
  ASSUME RefinementInv, [ReplayNext]_vars, OrderInv', ContentInv',
         Checksum16, DmCollectorCAssumption
  PROVE  OwedIsDue' /\ SentIsOwed'
<1>1. FeedInv /\ TypeInv
  BY DEF RefinementInv, ContentInv, FeedInv
<1>2. CASE StartRun
  <2>1. Lists(owed', DueFiles(Len(input)))
    BY <1>1, <1>2, OwedLists
  <2>2. UNCHANGED <<nativeVars, typeNames, input>> /\ sent' = <<>>
    BY <1>2 DEF StartRun
  <2>3. DueFiles(Len(input))' = DueFiles(Len(input))
    BY <2>2 DEF DueFiles, IsDue, PassesFilter, Wanted, nativeVars
  <2>4. Len(sent') = 0
    BY <2>2
  <2>5. OwedIsDue'
    BY <2>1, <2>3 DEF OwedIsDue, Lists
  <2>6. SentIsOwed'
    <3>1. 1..Len(sent') = {}
      BY <2>4
    <3> QED BY <3>1 DEF SentIsOwed
  <2> QED BY <2>5, <2>6
<1>3. CASE Configure /\ ~StartRun
  <2>1. ~Running'
    BY <1>3 DEF Configure, EnableLog, SaveLogAs, SetSkipDecoding, SetInputPath, Running
  <2> QED BY <2>1 DEF OwedIsDue, SentIsOwed
<1>4. CASE Run
  <2>1. /\ owed' = owed /\ (Running' => Running)
        /\ DueFiles(Len(input))' = DueFiles(Len(input))
        /\ skipDecoding' = skipDecoding
    <3>1. /\ owed' = owed /\ (Running' => Running)
      BY <1>4 DEF Run, OpenFile, ReadAndFeed, Receive, CloseFile, ReadOn, Dispatch,
                  DecodingFails, FinishRun, replayVars, Running, Returned
    <3> QED BY <1>1, <1>4, <3>1, DueFilesStay, RunKeepsFiles
  <2>2. OwedIsDue'
    BY <2>1 DEF RefinementInv, OwedIsDue, Lists
  <2>3. CASE sent' = sent
    BY <2>1, <2>2, <2>3 DEF RefinementInv, SentIsOwed
  <2>4. CASE sent' # sent
    <3>1. Dispatch /\ Wanted(ret.pkt[1].payload) /\ Running
      BY <1>1, <1>4, <2>4, SentGrows DEF Reading, Running
    <3>2. PICK k \in 1..Len(owed) :
            /\ sent' = Append(sent, owed[k])
            /\ ~skipDecoding => k = Len(sent) + 1
      BY <3>1, NextOwed
    <3>3. sent \in Seq(Event) /\ Len(sent) \in Nat
      BY <3>1, SentAreDue DEF RefinementInv
    <3>4. Len(sent') = Len(sent) + 1
      BY <3>2, <3>3
    <3> SUFFICES ASSUME ~skipDecoding, NEW i \in 1..Len(sent')
                 PROVE  i \in 1..Len(owed) /\ sent'[i] = owed[i]
      BY <2>1, <2>2 DEF SentIsOwed
    <3>5. CASE i \in 1..Len(sent)
      <4>1. sent'[i] = sent[i]
        BY <3>2, <3>3, <3>5
      <4> QED BY <3>1, <3>5, <4>1 DEF RefinementInv, SentIsOwed
    <3>6. CASE i = Len(sent) + 1
      <4>1. sent'[i] = owed[k]
        BY <3>2, <3>3, <3>6
      <4> QED BY <3>2, <3>6, <4>1
    <3>7. i \in 1..Len(sent) \/ i = Len(sent) + 1
      BY <3>3, <3>4
    <3> QED BY <3>5, <3>6, <3>7
  <2> QED BY <2>2, <2>3, <2>4
<1>5. CASE UNCHANGED vars
  <2>1. UNCHANGED <<pc, owed, sent, skipDecoding, input, disk, whitelist, typeNames>>
    BY <1>5 DEF vars, nativeVars, replayVars
  <2>2. DueFiles(Len(input))' = DueFiles(Len(input))
    BY <2>1 DEF DueFiles, IsDue, PassesFilter, Wanted
  <2> QED BY <2>1, <2>2 DEF RefinementInv, OwedIsDue, SentIsOwed, Running, Lists
<1> QED BY <1>2, <1>3, <1>4, <1>5 DEF ReplayNext

(* Handing a packet on is a step of the feed.                              *)
LEMMA ReplayHandsOut ==
  ASSUME RefinementInv, OrderInv', ContentInv', Dispatch,
         Checksum16, DmCollectorCAssumption
  PROVE  Feed!FeedNext \/ UNCHANGED Feed!feed
<1>1. /\ Running /\ Running' /\ owed' = owed /\ skipDecoding' = skipDecoding
      /\ pc # "exited" /\ pc' # "exited" /\ Run
  BY DEF Dispatch, Returned, Running, Run
<1>2. CASE ~Wanted(ret.pkt[1].payload)
  <2>1. sent' = sent
    BY <1>2 DEF Dispatch
  <2> QED BY <1>1, <2>1 DEF Feed!feed
<1>3. CASE Wanted(ret.pkt[1].payload)
  <2>1. PICK k \in 1..Len(owed) :
            /\ sent' = Append(sent, owed[k])
            /\ \A i \in 1..Len(sent) : InFrontOf(sent[i], owed[k])
            /\ ~skipDecoding => k = Len(sent) + 1
    BY <1>3, NextOwed
  <2>2. /\ sent \in Seq(Event) /\ Len(sent) \in Nat
        /\ \A i \in 1..Len(sent) : sent[i] \in Event /\ sent[i] \in DueFiles(Len(input))
    BY <1>1, SentAreDue DEF RefinementInv
  <2>3. /\ owed \in Seq(Event) /\ Len(owed) \in Nat /\ DOMAIN owed = 1..Len(owed)
        /\ \A i \in 1..Len(owed) : owed[i] \in Event
        /\ \A x \in DueFiles(Len(input)) : \E i \in 1..Len(owed) : owed[i] = x
        /\ \A i, j \in 1..Len(owed) : i < j => InFrontOf(owed[i], owed[j])
    <3>1. Lists(owed, DueFiles(Len(input)))
      BY <1>1 DEF RefinementInv, OwedIsDue
    <3>2. owed \in Seq(Event)
      BY <3>1 DEF Lists
    <3> QED BY <3>1, <3>2, ElementOfSeq, LenProperties DEF Lists
  <2>4. Feed!Reached \in Nat /\ k > Feed!Reached
    <3>1. CASE sent = <<>>
      BY <1>1, <2>3, <3>1 DEF Feed!Reached
    <3>2. CASE sent # <<>>
      <4> DEFINE last == Last(sent)
      <4>1. Len(sent) \in 1..Len(sent) /\ last = sent[Len(sent)]
        BY <2>2, <3>2, EmptySeq DEF Last
      <4>2. last \in DueFiles(Len(input)) /\ InFrontOf(last, owed[k])
        BY <2>1, <2>2, <4>1
      <4>3. Feed!Reached = CHOOSE j \in 1..Len(owed) : owed[j] = last
        BY <1>1, <2>3, <3>2 DEF Feed!Reached, Feed!Last, Last
      <4> HIDE DEF last, Feed!Reached
      <4>4. PICK j \in 1..Len(owed) : owed[j] = last /\ Feed!Reached = j
        BY <2>3, <4>2, <4>3
      <4>5. ~(k < j) /\ k # j
        BY <2>3, <4>2, <4>4, BeforeIsStrict
      <4> QED BY <2>3, <4>4, <4>5
    <3> QED BY <3>1, <3>2
  <2> HIDE DEF Feed!Reached
  <2>5. k \in DOMAIN owed /\ (IF skipDecoding THEN k > Feed!Reached ELSE k = Len(sent) + 1)
    BY <2>1, <2>3, <2>4
  <2>6. Feed!HandOut
    BY <1>1, <2>1, <2>5 DEF Feed!HandOut
  <2> QED BY <2>6 DEF Feed!FeedNext
<1> QED BY <1>2, <1>3

(* A run ends when all that is owed has been handed out.                   *)
LEMMA FinishedIsAll ==
  ASSUME RefinementInv, FinishRun, ~skipDecoding
  PROVE  sent = owed
<1>1. /\ Running /\ pc = "open" /\ fileNo = Len(input)
  BY DEF FinishRun, Running
<1>2. /\ sent \in Seq(Event) /\ Len(sent) \in Nat
      /\ \A i \in 1..Len(sent) : sent[i] \in Event /\ sent[i] \in DueFiles(Len(input))
  BY <1>1, SentAreDue DEF RefinementInv
<1>3. /\ owed \in Seq(Event) /\ Len(owed) \in Nat
      /\ \A i \in 1..Len(owed) : owed[i] \in Event /\ owed[i] \in DueFiles(Len(input))
      /\ \A i, j \in 1..Len(owed) : i < j => InFrontOf(owed[i], owed[j])
  <2>1. Lists(owed, DueFiles(Len(input)))
    BY <1>1 DEF RefinementInv, OwedIsDue
  <2>2. owed \in Seq(Event)
    BY <2>1 DEF Lists
  <2> QED BY <2>1, <2>2, ElementOfSeq, LenProperties DEF Lists
<1>4. \A i \in 1..Len(sent) : i \in 1..Len(owed) /\ sent[i] = owed[i]
  BY <1>1 DEF RefinementInv, SentIsOwed
<1>5. Len(sent) = Len(owed)
  <2>1. Len(sent) <= Len(owed)
    BY <1>2, <1>3, <1>4
  <2>2. SUFFICES ASSUME Len(sent) < Len(owed) PROVE FALSE
    BY <1>2, <1>3, <2>1
  <2> DEFINE j == Len(sent) + 1
  <2>3. j \in 1..Len(owed)
    BY <1>2, <1>3, <2>2
  <2>4. /\ owed[j] \in DueFiles(Len(input)) /\ owed[j] \in Event
    BY <1>3, <2>3
  <2>5. /\ owed[j].file \in 1..FilesDone
        /\ owed[j].end \in 1..Len(disk[input[owed[j].file]])
        /\ IsDue(disk[input[owed[j].file]], owed[j].end)
    BY <1>1, <2>4 DEF DueFiles, FilesDone, Reading
  <2>6. WasSent(owed[j].file, owed[j].end)
    BY <1>1, <2>5 DEF RefinementInv, DeliveryInv, DoneIsSent
  <2>7. PICK i \in DOMAIN sent : sent[i].file = owed[j].file /\ sent[i].end = owed[j].end
    BY <2>6 DEF WasSent
  <2>8. i \in 1..Len(sent) /\ i < j /\ i \in 1..Len(owed) /\ sent[i] = owed[i]
    BY <1>2, <1>4, <2>7, LenProperties
  <2>9. owed[i] = owed[j]
    BY <1>2, <2>4, <2>7, <2>8, SameEvent
  <2>10. InFrontOf(owed[i], owed[j])
    BY <1>3, <2>3, <2>8
  <2> QED BY <2>4, <2>9, <2>10, BeforeIsStrict
<1> QED BY <1>2, <1>3, <1>4, <1>5, SeqEqual

(* What a run comes to owe when it starts has no repetitions.              *)
LEMMA ReplayStarts ==
  ASSUME RefinementInv, StartRun
  PROVE  Feed!FeedNext
<1>1. TypeInv /\ skipDecoding \in BOOLEAN
  BY DEF RefinementInv, ContentInv, FeedInv, TypeInv, TypeOK
<1>2. /\ pc = "config" /\ pc' = "open" /\ ~Running /\ Running'
      /\ sent' = <<>> /\ skipDecoding' = skipDecoding
  BY DEF StartRun, Running
<1>3. Lists(owed', DueFiles(Len(input)))
  BY <1>1, OwedLists
<1>4. Feed!IsInjective(owed')
  <2>1. /\ owed' \in Seq(Event) /\ DOMAIN owed' = 1..Len(owed') /\ Len(owed') \in Nat
        /\ \A i, j \in 1..Len(owed') : i < j => InFrontOf(owed'[i], owed'[j])
        /\ \A i \in 1..Len(owed') : owed'[i] \in Event
    <3>1. owed' \in Seq(Event)
      BY <1>3 DEF Lists
    <3> QED BY <1>3, <3>1, ElementOfSeq, LenProperties DEF Lists
  <2>2. ASSUME NEW i \in 1..Len(owed'), NEW j \in 1..Len(owed'), i < j
        PROVE  owed'[i] # owed'[j]
    <3>1. InFrontOf(owed'[i], owed'[j]) /\ owed'[i] \in Event /\ owed'[j] \in Event
      BY <2>1, <2>2
    <3> QED BY <3>1, BeforeIsStrict
  <2>3. ASSUME NEW i \in 1..Len(owed'), NEW j \in 1..Len(owed'), owed'[i] = owed'[j]
        PROVE  i = j
    <3>1. i \in Nat /\ j \in Nat /\ ~(i < j) /\ ~(j < i)
      BY <2>1, <2>2, <2>3
    <3> QED BY <3>1
  <2> QED BY <2>1, <2>3 DEF Feed!IsInjective
<1> QED BY <1>1, <1>2, <1>4 DEF Feed!FeedNext, Feed!StartRun

(* The other steps of run() leave the feed as it is, or end it.            *)
LEMMA RunKeepsFeed ==
  ASSUME RefinementInv, Run, ~Dispatch, Checksum16, DmCollectorCAssumption
  PROVE  Feed!FeedNext \/ UNCHANGED Feed!feed
<1>1. /\ sent' = sent /\ owed' = owed /\ skipDecoding' = skipDecoding /\ Running
      /\ pc # "exited"
  BY DEF Run, OpenFile, ReadAndFeed, Receive, CloseFile, ReadOn, DecodingFails, FinishRun,
         replayVars, Returned, Running
<1>2. CASE DecodingFails
  <2>1. pc' = "exited" /\ ~Running'
    BY <1>2 DEF DecodingFails, Running
  <2> QED BY <1>1, <2>1 DEF Feed!FeedNext, Feed!Exit
<1>3. CASE FinishRun
  <2>1. pc' = "config" /\ ~Running'
    BY <1>3 DEF FinishRun, Running
  <2>2. skipDecoding \/ sent = owed
    BY <1>3, FinishedIsAll
  <2> QED BY <1>1, <2>1, <2>2 DEF Feed!FeedNext, Feed!FinishRun
<1>4. CASE ~DecodingFails /\ ~FinishRun
  <2>1. pc' # "exited" /\ Running'
    BY <1>4 DEF Run, OpenFile, ReadAndFeed, Receive, CloseFile, ReadOn, replayVars,
                Returned, Running
  <2> QED BY <1>1, <2>1 DEF Feed!feed
<1> QED BY <1>2, <1>3, <1>4

(* A run hands the analyzers the packets of its files that they are owed,  *)
(* in order and each once, and leaves one out only when it samples: for    *)
(* every list of files and whatever they hold, every filter, every size of *)
(* a read, and however long packets wait in the native buffer.             *)
THEOREM ReplayImplementsFeed ==
  ASSUME Checksum16
  PROVE  ReplaySpec => ImplementsFeed
<1>1. ReplayInit => RefinementInv /\ Feed!FeedInit
  <2> SUFFICES ASSUME ReplayInit PROVE RefinementInv /\ Feed!FeedInit
    OBVIOUS
  <2>1. FeedInv
    BY FeedInit, OfflineReplayerAssumption
  <2>2. pc = "config" /\ ~finished /\ ~Running /\ DOMAIN sent = {}
    BY DEF ReplayInit, Running
  <2>3. OrderInv
    BY <2>1, <2>2 DEF OrderInv, FeedInv, SentInOrder, SentFromOpened, SentIsBehind,
                      WaitingIsNext, Returned
  <2>4. ContentInv
    BY <2>1, <2>2 DEF ContentInv, OnlyWhatIsDue, Replaying
  <2>5. DeliveryInv
    BY <2>1, <2>2 DEF DeliveryInv, TakenIsSent, DoneIsSent, Reading, Running
  <2> QED BY <2>2, <2>3, <2>4, <2>5 DEF RefinementInv, OwedIsDue, SentIsOwed, Feed!FeedInit
<1>2. RefinementInv /\ [ReplayNext]_vars => RefinementInv' /\ [Feed!FeedNext]_Feed!feed
  <2> SUFFICES ASSUME RefinementInv, [ReplayNext]_vars
               PROVE  RefinementInv' /\ (Feed!FeedNext \/ UNCHANGED Feed!feed)
    OBVIOUS
  <2>1. OrderInv'
    BY TypeStep, OrderStep DEF RefinementInv, OrderInv
  <2>2. ContentInv'
    BY ContentStep DEF RefinementInv
  <2>3. DeliveryInv'
    BY DeliveryStep DEF RefinementInv
  <2>4. OwedIsDue' /\ SentIsOwed'
    BY <2>1, <2>2, OwedStep, DmCollectorCAssumption
  <2>5. Feed!FeedNext \/ UNCHANGED Feed!feed
    <3>1. CASE Dispatch
      BY <2>1, <2>2, <3>1, ReplayHandsOut, DmCollectorCAssumption
    <3>2. CASE Run /\ ~Dispatch
      BY <3>2, RunKeepsFeed, DmCollectorCAssumption
    <3>3. CASE StartRun
      BY <3>3, ReplayStarts
    <3>4. CASE Configure /\ ~StartRun
      <4>1. pc = "config" /\ pc' = "config"
        BY <3>4 DEF Configure, EnableLog, SaveLogAs, SetSkipDecoding, SetInputPath
      <4> QED BY <4>1 DEF Feed!feed, Running
    <3>5. CASE UNCHANGED vars
      BY <3>5 DEF vars, replayVars, Feed!feed, Running
    <3> QED BY <3>1, <3>2, <3>3, <3>4, <3>5 DEF ReplayNext
  <2> QED BY <2>1, <2>2, <2>3, <2>4, <2>5 DEF RefinementInv
<1> QED BY <1>1, <1>2, PTL DEF ReplaySpec, ImplementsFeed, Feed!FeedSpec

-----------------------------------------------------------------------------
(***************************************************************************)
(* The saved log.  Whatever a run does, the log ends with what the native  *)
(* filter lets through of the files done and of the bytes taken from this  *)
(* one; frames are only ever put behind it, so those in it stay.           *)
(***************************************************************************)

Content == disk[logPath[1]] \o unflushed

\* What is saved of the first t bytes
SavedUpTo(bytes, t) ==
    Picked([e \in DOMAIN bytes |-> PacketAt(bytes, e)],
           {e \in DOMAIN bytes : IsSaved(bytes, e)}, t)

\* What is saved of the first d files
SavedFiles(d) == FlattenSeq([k \in 1..d |-> Saved(disk[input[k]])])

(* A sequence of which b is the end.                                       *)
LEMMA EndIsSuffix ==
  ASSUME NEW S, NEW a \in Seq(S), NEW b \in Seq(S)
  PROVE  IsSuffix(b, a \o b)
<1> DEFINE c == a \o b
           x == Reverse(b)
           y == Reverse(c)
<1>1. /\ Len(a) \in Nat /\ Len(b) \in Nat
      /\ c \in Seq(S) /\ Len(c) = Len(a) + Len(b)
      /\ \A i \in 1..(Len(a) + Len(b)) :
            c[i] = IF i <= Len(a) THEN a[i] ELSE b[i - Len(a)]
  BY LenProperties, ConcatProperties
<1> HIDE DEF c
<1>2. /\ \A i \in 1..Len(b) : b[i] \in S
      /\ \A i \in 1..Len(c) : c[i] \in S
  BY <1>1, ElementOfSeq
<1>3. /\ x \in Seq(S) /\ Len(x) = Len(b)
      /\ \A i \in 1..Len(b) : x[i] = b[Len(b) - i + 1]
  <2>1. x = [i \in 1..Len(b) |-> b[Len(b) - i + 1]]
    BY DEF Reverse
  <2>2. \A i \in 1..Len(b) : Len(b) - i + 1 \in 1..Len(b)
    BY <1>1
  <2> HIDE DEF x
  <2>3. x \in [1..Len(b) -> S]
    BY <1>2, <2>1, <2>2
  <2> QED BY <1>1, <2>1, <2>3, FunctionIsSeq
<1>4. /\ y \in Seq(S) /\ Len(y) = Len(c)
      /\ \A i \in 1..Len(c) : y[i] = c[Len(c) - i + 1]
  <2>1. y = [i \in 1..Len(c) |-> c[Len(c) - i + 1]]
    BY DEF Reverse
  <2>2. \A i \in 1..Len(c) : Len(c) - i + 1 \in 1..Len(c)
    BY <1>1
  <2>3. Len(c) \in Nat
    BY <1>1
  <2> HIDE DEF y
  <2>4. y \in [1..Len(c) -> S]
    BY <1>2, <2>1, <2>2
  <2>5. y \in Seq(S) /\ Len(y) = Len(c)
    BY <2>3, <2>4, FunctionIsSeq
  <2> QED BY <2>1, <2>5
<1> HIDE DEF x, y
<1> DEFINE u == SubSeq(x, 1, Len(b))
           v == SubSeq(y, 1, Len(b))
<1>5. /\ u \in Seq(S) /\ Len(u) = Len(b) /\ \A i \in 1..Len(b) : u[i] = x[i]
  <2>1. Len(b) - 1 + 1 = Len(b) /\ \A i \in 1..Len(b) : 1 + i - 1 = i
    BY <1>1
  <2> QED BY <1>1, <1>3, <2>1, Stretch
<1>6. /\ v \in Seq(S) /\ Len(v) = Len(b) /\ \A i \in 1..Len(b) : v[i] = y[i]
  <2>1. Len(b) - 1 + 1 = Len(b) /\ \A i \in 1..Len(b) : 1 + i - 1 = i
    BY <1>1
  <2>2. Len(b) <= Len(y)
    BY <1>1, <1>4
  <2> QED BY <1>1, <1>4, <2>1, <2>2, Stretch
<1>7. ASSUME NEW i \in 1..Len(b) PROVE x[i] = y[i]
  <2>1. /\ i \in 1..Len(c) /\ Len(c) - i + 1 \in 1..(Len(a) + Len(b))
        /\ ~(Len(c) - i + 1 <= Len(a)) /\ (Len(c) - i + 1) - Len(a) = Len(b) - i + 1
    BY <1>1
  <2> QED BY <1>1, <1>3, <1>4, <2>1
<1> HIDE DEF u, v
<1>8. u = v
  BY <1>5, <1>6, <1>7, SeqEqual
<1>9. Len(x) <= Len(y)
  BY <1>1, <1>3, <1>4
<1> QED BY <1>3, <1>8, <1>9 DEF IsSuffix, IsPrefix, u, v, x, y, c

(* What is saved of some bytes, byte by byte.                              *)
LEMMA SavedSteps ==
  ASSUME NEW bytes \in Seq(Byte), NEW t \in 0..Len(bytes)
  PROVE  /\ SavedUpTo(bytes, t) \in Seq(Seq(Byte)) /\ SavedUpTo(bytes, 0) = <<>>
         /\ t # 0 => SavedUpTo(bytes, t) =
                        IF IsSaved(bytes, t)
                        THEN Append(SavedUpTo(bytes, t - 1), PacketAt(bytes, t))
                        ELSE SavedUpTo(bytes, t - 1)
         /\ \A m \in 0..t : (\A e \in (m + 1)..t : ~IsSaved(bytes, e)) =>
                               SavedUpTo(bytes, t) = SavedUpTo(bytes, m)
         /\ Saved(bytes) = SavedUpTo(bytes, Len(bytes))
<1> DEFINE items == [e \in DOMAIN bytes |-> PacketAt(bytes, e)]
           P == {e \in DOMAIN bytes : IsSaved(bytes, e)}
<1>1. DOMAIN bytes = 1..Len(bytes) /\ Len(bytes) \in Nat /\ t \in Nat
  BY LenProperties
<1>2. \A e \in 1..t : /\ e \in 1..Len(bytes) /\ items[e] = PacketAt(bytes, e)
                      /\ e \in P <=> IsSaved(bytes, e)
  BY <1>1
<1>3. \A m : SavedUpTo(bytes, m) = Picked(items, P, m)
  BY DEF SavedUpTo
<1>4. Saved(bytes) = SavedUpTo(bytes, Len(bytes))
  BY DEF Saved, SavedUpTo
<1> HIDE DEF items, P
<1>5. PicksFrom(Seq(Byte), items, P, t)
  <2> SUFFICES ASSUME NEW e \in 1..t, e \in P PROVE items[e] \in Seq(Byte)
    BY DEF PicksFrom
  <2>1. CrcCorrect(FrameEndingAt(bytes, e)) /\ e \in 1..Len(bytes)
    BY <1>2 DEF IsSaved
  <2> QED BY <1>2, <2>1, PacketIsBytes
<1>6. /\ Picked(items, P, 0) = <<>> /\ Picked(items, P, t) \in Seq(Seq(Byte))
      /\ t # 0 => Picked(items, P, t) = Chosen(items, P, t, Picked(items, P, t - 1))
  BY <1>1, <1>5, PickedNext
<1>7. t # 0 => t \in 1..t
  BY <1>1
<1>8. ASSUME NEW m \in 0..t, \A e \in (m + 1)..t : ~IsSaved(bytes, e)
      PROVE  SavedUpTo(bytes, t) = SavedUpTo(bytes, m)
  <2>1. \A e \in (m + 1)..t : e \notin P
    <3>1. \A e \in (m + 1)..t : e \in 1..t
      BY <1>1
    <3> QED BY <1>2, <1>8, <3>1
  <2> QED BY <1>1, <1>3, <1>5, <2>1, PickedGap
<1> QED BY <1>2, <1>3, <1>4, <1>6, <1>7, <1>8 DEF Chosen

(* A frame whose packet passes the filter, put behind whole frames, adds    *)
(* this packet to what is saved.                                           *)
LEMMA SavedBehind ==
  ASSUME NEW bytes \in Seq(Byte), bytes = <<>> \/ bytes[Len(bytes)] = DELIM,
         NEW p \in Seq(Byte), GetLogType(p) \in whitelist, whitelist \subseteq Nat,
         Checksum16, NEW longer, longer = bytes \o EncodeHdlcFrame(p)
  PROVE  /\ longer \in Seq(Byte) /\ longer[Len(longer)] = DELIM
         /\ Saved(longer) = Append(Saved(bytes), p)
<1>1. p # <<>> /\ Is16Bits(Crc(p)) /\ CheckFrameFormat(p) = p
  <2>1. GetLogType(p) # NoType
    BY DEF NoType
  <2>2. Len(p) >= 2 /\ p[1] # 152
    BY <2>1 DEF GetLogType, IsLogPacket, IsDebugPacket
  <2>3. Len(<<>>) = 0
    OBVIOUS
  <2> QED BY <2>2, <2>3 DEF CheckFrameFormat, Checksum16
<1> DEFINE n == Len(bytes)
           m == Len(longer)
<1>2. /\ longer \in Seq(Byte) /\ m > n /\ longer[m] = DELIM
      /\ \A e \in (n + 1)..m : longer[e] = DELIM => e = m
      /\ CrcCorrect(FrameEndingAt(longer, m)) /\ Payload(FrameEndingAt(longer, m)) = p
  BY <1>1, FrameBehind
<1>3. n \in Nat /\ m \in Nat /\ m # 0 /\ m - 1 \in Nat /\ n <= m - 1
  <2>1. n \in Nat /\ m \in Nat
    BY <1>2, LenProperties
  <2> QED BY <1>2, <2>1
<1>4. PacketAt(longer, m) = p /\ IsSaved(longer, m)
  BY <1>1, <1>2 DEF PacketAt, IsSaved
<1>5. SavedUpTo(longer, m - 1) = SavedUpTo(longer, n)
  <2>1. \A e \in (n + 1)..(m - 1) : ~IsSaved(longer, e)
    <3>1. \A e \in (n + 1)..(m - 1) : e \in (n + 1)..m /\ e # m
      BY <1>3
    <3> QED BY <1>2, <3>1 DEF IsSaved
  <2>2. m - 1 \in 0..Len(longer) /\ n \in 0..(m - 1)
    BY <1>3
  <2> HIDE DEF m, n
  <2> QED BY <1>2, <2>1, <2>2, SavedSteps
<1>6. SavedUpTo(longer, n) = SavedUpTo(bytes, n)
  <2> DEFINE items == [e \in DOMAIN bytes |-> PacketAt(bytes, e)]
             P == {e \in DOMAIN bytes : IsSaved(bytes, e)}
             others == [e \in DOMAIN longer |-> PacketAt(longer, e)]
             Q == {e \in DOMAIN longer : IsSaved(longer, e)}
  <2>1. DOMAIN bytes = 1..n /\ DOMAIN longer = 1..m
    BY <1>2, LenProperties
  <2>2. \A e \in 1..n : /\ items[e] = PacketAt(bytes, e) /\ others[e] = PacketAt(longer, e)
                        /\ e \in P <=> IsSaved(bytes, e)
                        /\ e \in Q <=> IsSaved(longer, e)
    <3>1. \A e \in 1..n : e \in DOMAIN bytes /\ e \in DOMAIN longer
      BY <1>3, <2>1
    <3> QED BY <3>1
  <2>3. SavedUpTo(longer, n) = Picked(others, Q, n) /\ SavedUpTo(bytes, n) = Picked(items, P, n)
    BY DEF SavedUpTo
  <2> HIDE DEF items, P, others, Q
  <2> DEFINE frame == EncodeHdlcFrame(p)
  <2>4. longer = bytes \o frame /\ bytes \in Seq(Byte) /\ frame \in Seq(Byte)
    BY <1>1, EncodeType
  <2> HIDE DEF frame
  <2>5. \A e \in 1..n : /\ longer[e] = bytes[e]
                        /\ FrameEndingAt(longer, e) = FrameEndingAt(bytes, e)
    <3> SUFFICES ASSUME NEW e \in 1..Len(bytes)
                 PROVE  /\ longer[e] = bytes[e]
                        /\ FrameEndingAt(longer, e) = FrameEndingAt(bytes, e)
      OBVIOUS
    <3>1. e \in 1..Len(bytes)
      OBVIOUS
    <3> QED BY ONLY <2>4, <3>1, FramesStay, ZenonT(90)
  <2>6. \A e \in 1..n : /\ PacketAt(longer, e) = PacketAt(bytes, e)
                        /\ IsSaved(longer, e) <=> IsSaved(bytes, e)
    BY <2>5 DEF PacketAt, IsSaved
  <2>7. PicksFrom(Seq(Byte), items, P, n)
    <3> SUFFICES ASSUME NEW e \in 1..n, e \in P PROVE items[e] \in Seq(Byte)
      BY DEF PicksFrom
    <3>1. CrcCorrect(FrameEndingAt(bytes, e))
      BY <2>2 DEF IsSaved
    <3> QED BY <2>2, <3>1, PacketIsBytes
  <2>8. (\A e \in 1..n : e \in P <=> e \in Q) /\ (\A e \in 1..n : e \in P => items[e] = others[e])
    BY <2>2, <2>6
  <2> HIDE DEF n
  <2> QED BY <1>3, <2>3, <2>7, <2>8, PickedSame
<1>7. Saved(bytes) = SavedUpTo(bytes, n) /\ SavedUpTo(bytes, n) \in Seq(Seq(Byte))
  <2>1. n \in 0..Len(bytes)
    BY <1>3
  <2> QED BY <2>1, SavedSteps
<1>8. Saved(longer) = Append(SavedUpTo(longer, m - 1), p)
  <2>1. m \in 0..Len(longer)
    BY <1>3
  <2>2. Saved(longer) = SavedUpTo(longer, m)
    BY <1>2, <2>1, SavedSteps
  <2>3. SavedUpTo(longer, m) = Append(SavedUpTo(longer, m - 1), PacketAt(longer, m))
    <3> HIDE DEF m
    <3> QED BY <1>2, <1>3, <1>4, <2>1, SavedSteps
  <2> QED BY <1>4, <2>2, <2>3
<1> QED BY <1>2, <1>5, <1>6, <1>7, <1>8

(* To append to the last of three is to append to them all.                *)
LEMMA AppendBehind ==
  \A a, b, c \in Seq(Seq(Byte)), x \in Seq(Byte) :
      Append(a \o (b \o c), x) = a \o (b \o Append(c, x))
<1> DEFINE S == Seq(Byte)
<1> HIDE DEF S
<1> SUFFICES ASSUME NEW a \in Seq(S), NEW b \in Seq(S), NEW c \in Seq(S), NEW x \in S
             PROVE  Append(a \o (b \o c), x) = a \o (b \o Append(c, x))
  BY DEF S
<1>1. <<x>> \in Seq(S) /\ b \o c \in Seq(S)
  BY ConcatProperties
<1>2. a \o (b \o c) \in Seq(S)
  BY <1>1, ConcatProperties
<1>3. \A s, t, u \in Seq(S) : (s \o t) \o u = s \o (t \o u)
  BY ONLY ConcatAssociative, SMTT(30)
<1>4. b \o (c \o <<x>>) = (b \o c) \o <<x>>
  BY ONLY <1>1, <1>3, b \in Seq(S), c \in Seq(S)
<1>5. a \o ((b \o c) \o <<x>>) = (a \o (b \o c)) \o <<x>>
  BY ONLY <1>1, <1>3, a \in Seq(S)
<1>6. Append(c, x) = c \o <<x>> /\ Append(a \o (b \o c), x) = (a \o (b \o c)) \o <<x>>
  BY <1>2, AppendIsConcat
<1> QED BY ONLY <1>4, <1>5, <1>6

(* A place, and the one in front of it.                                    *)
LEMMA OnePlaceBack ==
  ASSUME NEW n \in Nat, NEW t \in 1..n
  PROVE  /\ t \in 0..n /\ t # 0 /\ t - 1 \in 0..n
         /\ \A m \in 0..n : m < t => m \in 0..(t - 1)
OBVIOUS

(* What is exported is put behind the content of the log.                  *)
LEMMA ExportAppends ==
  ASSUME NativeTypeOK, Checksum16, DmCollectorCAssumption, logPath # <<>>,
         logPath' = logPath, NEW p \in Seq(Byte), ExportFrame(p)
  PROVE  Content \in Seq(Byte) /\ Content' = Content \o EncodeHdlcFrame(p)
<1> DEFINE frame == EncodeHdlcFrame(p)
           held == unflushed \o frame
           n == BlockSize * (Len(held) \div BlockSize)
           a == SubSeq(held, 1, n)
           b == SubSeq(held, n + 1, Len(held))
<1>1. PICK f \in Paths : logPath = <<f>>
  BY DEF NativeTypeOK
<1>2. /\ disk' = [disk EXCEPT ![f] = @ \o a] /\ unflushed' = b
      /\ Content = disk[f] \o unflushed /\ Content' = disk'[f] \o unflushed'
  BY <1>1 DEF ExportFrame, Content
<1>3. frame \in Seq(Byte) /\ unflushed \in Seq(Byte) /\ disk[f] \in Seq(Byte)
  BY <1>1, EncodeType DEF Checksum16, NativeTypeOK
<1> HIDE DEF frame
<1>4. held \in Seq(Byte) /\ Len(held) \in Nat
  BY <1>3, ConcatProperties, LenProperties
<1> HIDE DEF held
<1>5. n \in 0..Len(held)
  <2>1. BlockSize \in Nat \ {0}
    BY DEF DmCollectorCAssumption
  <2>2. n \in Nat /\ n <= Len(held)
    BY <1>4, <2>1, WholeBlocks
  <2> HIDE DEF n
  <2> QED BY <1>4, <2>2
<1> HIDE DEF n
<1>6. a \in Seq(Byte) /\ b \in Seq(Byte) /\ held = a \o b
  BY <1>4, <1>5, CutAt
<1> HIDE DEF a, b
<1>7. disk'[f] = disk[f] \o a
  BY <1>1, <1>2 DEF NativeTypeOK
<1>8. (disk[f] \o a) \o b = disk[f] \o (a \o b)
  <2>1. \A x, y, z \in Seq(Byte) : (x \o y) \o z = x \o (y \o z)
    BY ONLY Associative
  <2>2. disk[f] \in Seq(Byte) /\ a \in Seq(Byte) /\ b \in Seq(Byte)
    BY <1>3, <1>6
  <2> QED BY ONLY <2>1, <2>2
<1>9. (disk[f] \o unflushed) \o frame = disk[f] \o (unflushed \o frame)
  <2>1. \A x, y, z \in Seq(Byte) : (x \o y) \o z = x \o (y \o z)
    BY ONLY Associative
  <2> QED BY ONLY <1>3, <2>1
<1>10. disk[f] \o unflushed \in Seq(Byte)
  BY <1>3, ConcatProperties
<1> QED BY <1>2, <1>6, <1>7, <1>8, <1>9, <1>10 DEF held, frame

(* A turn of the loop of receive_log_packet, seen from the log: the packet *)
(* of the frame that is taken is put into it if the filter saves it, and    *)
(* if None is returned while frames are left, decoding is deferred and a   *)
(* custom packet was passed over.                                          *)
LEMMA ReceiveSaves ==
  ASSUME FeedInv, Receive
  PROVE  /\ taken \in Nat /\ taken' \in taken..Len(File)
         /\ logPath' = logPath /\ whitelist' = whitelist
         /\ \/ /\ UNCHANGED <<disk, unflushed>>
               /\ \A e \in (taken + 1)..taken' : ~IsSaved(File, e)
            \/ /\ taken < taken' /\ IsSaved(File, taken')
               /\ \A e \in (taken + 1)..(taken' - 1) : ~IsSaved(File, e)
               /\ ExportFrame(PacketAt(File, taken'))
         /\ ~inReceive' /\ ~ret'.some => ~HasFrame(buffer') \/ SkipsCustomPackets
<1>1. /\ Reading /\ ReceiveLogPacket(skipDecoding)
      /\ whitelist \subseteq Nat /\ input \in Seq(Paths)
  BY DEF Receive, Reading, FeedInv, TypeInv, TypeOK, NativeTypeOK
<1>2. /\ fileNo \in 1..Len(input) /\ File \in Seq(Byte) /\ Len(File) \in Nat
      /\ Holds(buffer, File, taken, pos) /\ pos \in Nat /\ taken \in Nat
      /\ pos <= Len(File) /\ taken <= pos
  BY <1>1, FileIsBytes DEF Holds
<1>3. CASE NoMoreFrames
  <2>1. /\ buffer' = buffer /\ taken' = taken /\ ~HasFrame(buffer)
        /\ UNCHANGED <<whitelist, logPath, disk, unflushed>>
    BY <1>3 DEF NoMoreFrames
  <2>2. (taken + 1)..taken' = {} /\ taken' \in taken..Len(File)
    BY <1>2, <2>1
  <2> QED BY <1>2, <2>1, <2>2
<1>4. CASE TakeFrame
  <2> DEFINE end == taken + FrameEnd(buffer)
  <2>1. /\ HasFrame(buffer) /\ taken' = end /\ whitelist' = whitelist /\ logPath' = logPath
    BY <1>4 DEF TakeFrame
  <2>2. /\ end \in (taken + 1)..pos /\ File[end] = DELIM
        /\ \A j \in (taken + 1)..(end - 1) : File[j] # DELIM
        /\ RawFrame(buffer) = FrameEndingAt(File, end)
    BY <1>2, <2>1, NextFrameOfStream
  <2>3. Taken = PacketAt(File, end)
    BY <2>2 DEF Taken, PacketAt
  <2> HIDE DEF end
  <2>4. /\ end \in taken..Len(File) /\ end \in 1..Len(File) /\ taken < end
        /\ \A e \in (taken + 1)..end : e \in (taken + 1)..(end - 1) \/ e = end
    BY <1>2, <2>2
  <2>5. \A e \in (taken + 1)..(end - 1) : ~IsSaved(File, e)
    BY <2>2 DEF IsSaved
  <2>6. ~IsSaved(File, end) => \A e \in (taken + 1)..end : ~IsSaved(File, e)
    BY <2>4, <2>5
  <2>7. CASE BrokenFrame
    <3>1. inReceive' /\ ~IsSaved(File, end) /\ UNCHANGED <<disk, unflushed>>
      BY <1>4, <2>2, <2>7 DEF TakeFrame, BrokenFrame, Continue, IsSaved
    <3> QED BY <1>2, <2>1, <2>4, <2>6, <3>1
  <2>8. CASE FilteredFrame
    <3>1. inReceive' /\ ~IsSaved(File, end) /\ UNCHANGED <<disk, unflushed>>
      BY <1>4, <2>3, <2>8 DEF TakeFrame, FilteredFrame, Continue, IsSaved
    <3> QED BY <1>2, <2>1, <2>4, <2>6, <3>1
  <2>9. CASE CustomFrame(skipDecoding)
    <3>1. /\ UNCHANGED <<disk, unflushed>> /\ IsCustomPacket(Taken)
          /\ CrcCorrect(RawFrame(buffer))
          /\ ret' = IF skipDecoding THEN NoPacket ELSE Decoded(Taken)
      BY <2>9 DEF CustomFrame, Return
    <3>2. ~IsSaved(File, end)
      <4>1. GetLogType(Taken) = NoType
        BY <3>1 DEF IsCustomPacket, GetLogType, IsLogPacket, IsDebugPacket
      <4>2. NoType \notin whitelist
        BY <1>1 DEF NoType
      <4> QED BY <2>3, <4>1, <4>2 DEF IsSaved
    <3>3. ~ret'.some => SkipsCustomPackets
      <4>1. ~ret'.some => skipDecoding
        BY <3>1 DEF Decoded
      <4>2. fileNo \in DOMAIN input /\ end \in DOMAIN File
        BY <1>1, <1>2, <2>4, LenProperties
      <4> QED BY <2>2, <2>3, <3>1, <4>1, <4>2 DEF SkipsCustomPackets, File
    <3> QED BY <1>2, <2>1, <2>4, <2>6, <3>1, <3>2, <3>3
  <2>10. CASE ExportedFrame(skipDecoding)
    <3>1. /\ CrcCorrect(RawFrame(buffer)) /\ GetLogType(Taken) \in whitelist
          /\ ExportFrame(Taken) /\ (ret' = Decoded(Taken) \/ ret' = EmptyPacket)
      BY <2>10 DEF ExportedFrame, Return
    <3>2. IsSaved(File, end)
      BY <2>2, <2>3, <3>1 DEF IsSaved
    <3>3. ret'.some
      BY <3>1 DEF Decoded, EmptyPacket
    <3> QED BY <1>2, <2>1, <2>3, <2>4, <2>5, <3>1, <3>2, <3>3
  <2>11. BrokenFrame \/ FilteredFrame \/ CustomFrame(skipDecoding) \/ ExportedFrame(skipDecoding)
    BY <1>1, <2>1 DEF ReceiveLogPacket, NoMoreFrames
  <2> QED BY <2>7, <2>8, <2>9, <2>10, <2>11
<1> QED BY <1>1, <1>3, <1>4 DEF ReceiveLogPacket, BrokenFrame, CustomFrame, FilteredFrame,
                                ExportedFrame

(* What is saved of one more file.                                         *)
LEMMA SavedFilesNext ==
  ASSUME FeedInv, NEW d \in 0..Len(input)
  PROVE  /\ SavedFiles(0) = <<>> /\ SavedFiles(d) \in Seq(Seq(Byte))
         /\ d # 0 => SavedFiles(d) = SavedFiles(d - 1) \o Saved(disk[input[d]])
<1> DEFINE part(m) == [k \in 1..m |-> Saved(disk[input[k]])]
<1>1. /\ input \in Seq(Paths) /\ Len(input) \in Nat /\ d \in Nat
      /\ disk \in [Paths -> Seq(Byte)]
  BY LenProperties DEF FeedInv, TypeInv, TypeOK, NativeTypeOK
<1>2. \A k \in 1..Len(input) : Saved(disk[input[k]]) \in Seq(Seq(Byte))
  <2> SUFFICES ASSUME NEW k \in 1..Len(input)
               PROVE  Saved(disk[input[k]]) \in Seq(Seq(Byte))
    OBVIOUS
  <2>1. disk[input[k]] \in Seq(Byte)
    BY <1>1, ElementOfSeq
  <2>2. Len(disk[input[k]]) \in 0..Len(disk[input[k]])
    BY <2>1, LenProperties
  <2> QED BY <2>1, <2>2, SavedSteps
<1>3. \A m \in 0..d : /\ part(m) \in Seq(Seq(Seq(Byte))) /\ Len(part(m)) = m
                      /\ \A k \in 1..m : part(m)[k] = Saved(disk[input[k]])
  <2> SUFFICES ASSUME NEW m \in 0..d
               PROVE  /\ part(m) \in Seq(Seq(Seq(Byte))) /\ Len(part(m)) = m
                      /\ \A k \in 1..m : part(m)[k] = Saved(disk[input[k]])
    OBVIOUS
  <2>1. m \in Nat /\ \A k \in 1..m : k \in 1..Len(input)
    BY <1>1
  <2>2. part(m) \in [1..m -> Seq(Seq(Byte))]
    BY <1>2, <2>1
  <2> QED BY <2>1, <2>2, FunctionIsSeq
<1>4. \A m : SavedFiles(m) = FlattenSeq(part(m))
  BY DEF SavedFiles
<1> HIDE DEF part
<1>5. SavedFiles(0) = <<>>
  <2>1. 0 \in 0..d
    BY <1>1
  <2>2. part(0) = <<>>
    BY <1>3, <2>1, EmptySeq
  <2>3. <<>> \in Seq(Seq(Seq(Byte)))
    OBVIOUS
  <2> QED BY <1>4, <2>2, <2>3, FlattenAny
<1>6. SavedFiles(d) \in Seq(Seq(Byte))
  <2>1. part(d) \in Seq(Seq(Seq(Byte)))
    BY <1>1, <1>3
  <2> QED BY <1>4, <2>1, FlattenAny
<1>7. ASSUME d # 0 PROVE SavedFiles(d) = SavedFiles(d - 1) \o Saved(disk[input[d]])
  <2> DEFINE x == Saved(disk[input[d]])
  <2>1. x \in Seq(Seq(Byte)) /\ d \in 0..d /\ d - 1 \in 0..d
    BY <1>1, <1>2, <1>7
  <2>2. /\ part(d) \in Seq(Seq(Seq(Byte))) /\ part(d - 1) \in Seq(Seq(Seq(Byte)))
        /\ Len(part(d)) = d /\ Len(part(d - 1)) = d - 1
        /\ \A k \in 1..(d - 1) : part(d)[k] = part(d - 1)[k]
        /\ part(d)[d] = x
    <3>1. \A k \in 1..(d - 1) : k \in 1..d
      BY <1>1
    <3>2. d \in 1..d
      BY <1>1, <1>7
    <3> QED BY <1>3, <2>1, <3>1, <3>2
  <2> HIDE DEF x
  <2> DEFINE y == part(d - 1) \o <<x>>
  <2>3. <<x>> \in Seq(Seq(Seq(Byte))) /\ Len(<<x>>) = 1 /\ <<x>>[1] = x
    BY <2>1
  <2>4. /\ y \in Seq(Seq(Seq(Byte))) /\ Len(y) = d
        /\ \A k \in 1..d : y[k] = IF k <= d - 1 THEN part(d - 1)[k] ELSE <<x>>[k - (d - 1)]
    <3>1. (d - 1) + 1 = d
      BY <1>1
    <3> QED BY <2>2, <2>3, <3>1, ConcatProperties
  <2>5. \A k \in 1..d : y[k] = part(d)[k]
    <3> SUFFICES ASSUME NEW k \in 1..d PROVE y[k] = part(d)[k]
      OBVIOUS
    <3>1. CASE k \in 1..(d - 1)
      BY <1>1, <2>2, <2>4, <3>1, SMTT(40)
    <3>2. CASE k = d
      <4>1. ~(d <= d - 1) /\ d - (d - 1) = 1
        BY <1>1
      <4> QED BY <2>2, <2>3, <2>4, <3>2, <4>1
    <3>3. k \in 1..(d - 1) \/ k = d
      BY <1>1
    <3> QED BY <3>1, <3>2, <3>3
  <2> HIDE DEF y
  <2>6. part(d) = y
    BY <2>2, <2>4, <2>5, SeqEqual
  <2>7. FlattenSeq(y) = FlattenSeq(part(d - 1)) \o FlattenSeq(<<x>>)
    BY <2>2, <2>3, FlattenBoth DEF y
  <2>8. FlattenSeq(<<x>>) = x
    BY <2>1, FlattenSingle
  <2> QED BY <1>4, <2>6, <2>7, <2>8 DEF x
<1> QED BY <1>5, <1>6, <1>7

-----------------------------------------------------------------------------
(* The invariant                                                           *)

\* Frames are left behind when None is returned only after a custom packet
NoneMeansAll == Returned /\ ~ret.some /\ ~SkipsCustomPackets => ~HasFrame(buffer)

\* The log holds whole frames
LogIsFrames == logPath # <<>> => Content = <<>> \/ Content[Len(Content)] = DELIM

\* What this run has had to save so far
SavedNow == IF Reading THEN SavedFiles(fileNo - 1) \o SavedUpTo(File, taken)
            ELSE SavedFiles(fileNo)

\* The log decodes to what was in it before the run and what the run saved
LogHolds ==
    (Running \/ finished) /\ logPath # <<>> /\ ~SkipsCustomPackets =>
      \E base \in Seq(Seq(Byte)) : Saved(Content) = base \o SavedNow

FinishedAtEnd == finished => pc = "config" /\ fileNo = Len(input)

SavedInv == FeedInv /\ NoneMeansAll /\ LogIsFrames /\ LogHolds /\ FinishedAtEnd

(* The content of the log is bytes.                                        *)
LEMMA ContentType ==
  ASSUME NativeTypeOK, logPath # <<>>
  PROVE  Content \in Seq(Byte)
<1>1. PICK f \in Paths : logPath = <<f>>
  BY DEF NativeTypeOK
<1>2. disk[f] \in Seq(Byte) /\ unflushed \in Seq(Byte)
  BY DEF NativeTypeOK
<1> QED BY <1>1, <1>2, ConcatProperties DEF Content

(* What the sampling skips does not change during a run.                   *)
LEMMA SkipsStay ==
  ASSUME FeedInv, Run, Checksum16, DmCollectorCAssumption
  PROVE  SkipsCustomPackets' <=> SkipsCustomPackets
<1>1. /\ input' = input /\ skipDecoding' = skipDecoding /\ input \in Seq(Paths)
      /\ \A k \in 1..Len(input) : disk'[input[k]] = disk[input[k]]
  BY RunKeepsFiles DEF FeedInv, TypeInv, TypeOK
<1>2. \A k \in DOMAIN input : disk'[input[k]] = disk[input[k]]
  BY <1>1, LenProperties
<1> QED BY <1>1, <1>2 DEF SkipsCustomPackets

(* The log is not written to while a filter is loaded: at most another is  *)
(* opened, which is then empty.                                            *)
LEMMA LogAfterConfig ==
  ASSUME NativeTypeOK, LogIsFrames, NEW path, path = <<>> \/ \E f \in Paths : path = <<f>>,
         NEW names, SetFilteredExport(path, names)
  PROVE  LogIsFrames'
<1>1. CASE UNCHANGED <<logPath, disk, unflushed>>
  BY <1>1 DEF LogIsFrames, Content
<1>2. CASE ~ UNCHANGED <<logPath, disk, unflushed>>
  <2>1. /\ path # <<>> /\ unflushed' = <<>>
        /\ \/ logPath' = path /\ disk' = [DiskAfterClose EXCEPT ![path[1]] = <<>>]
           \/ logPath' = <<>>
    BY <1>2 DEF SetFilteredExport, ChangeConfig
  <2>2. CASE logPath' = <<>>
    BY <2>2 DEF LogIsFrames
  <2>3. CASE logPath' = path /\ disk' = [DiskAfterClose EXCEPT ![path[1]] = <<>>]
    <3>1. PICK f \in Paths : path = <<f>>
      BY <2>1
    <3>2. f \in DOMAIN DiskAfterClose
      BY <3>1 DEF DiskAfterClose, NativeTypeOK
    <3>3. disk'[f] = <<>>
      BY <2>3, <3>1, <3>2
    <3>4. Content' = <<>> \o <<>>
      BY <2>1, <2>3, <3>1, <3>3 DEF Content
    <3>5. <<>> \o <<>> = <<>>
      OBVIOUS
    <3> QED BY <3>4, <3>5 DEF LogIsFrames
  <2> QED BY <2>1, <2>2, <2>3
<1> QED BY <1>1, <1>2

(* What a turn of the loop of receive_log_packet puts into the log.        *)
LEMMA ReceiveLogs ==
  ASSUME FeedInv, Receive, logPath # <<>>, LogIsFrames, Checksum16, DmCollectorCAssumption
  PROVE  /\ LogIsFrames'
         /\ \/ /\ Content' = Content
               /\ SavedUpTo(File, taken') = SavedUpTo(File, taken)
            \/ \E p \in Seq(Byte) :
                 /\ Saved(Content') = Append(Saved(Content), p)
                 /\ SavedUpTo(File, taken') = Append(SavedUpTo(File, taken), p)
<1>1. /\ taken \in Nat /\ taken' \in taken..Len(File)
      /\ logPath' = logPath /\ whitelist' = whitelist
      /\ \/ /\ UNCHANGED <<disk, unflushed>>
            /\ \A e \in (taken + 1)..taken' : ~IsSaved(File, e)
         \/ /\ taken < taken' /\ IsSaved(File, taken')
            /\ \A e \in (taken + 1)..(taken' - 1) : ~IsSaved(File, e)
            /\ ExportFrame(PacketAt(File, taken'))
  BY ReceiveSaves
<1>2. /\ File \in Seq(Byte) /\ Len(File) \in Nat /\ NativeTypeOK /\ whitelist \subseteq Nat
  BY FileIsBytes DEF Receive, Reading, FeedInv, TypeInv, TypeOK, NativeTypeOK
<1>3. CASE UNCHANGED <<disk, unflushed>> /\ \A e \in (taken + 1)..taken' : ~IsSaved(File, e)
  <2>1. Content' = Content
    BY <1>1, <1>3 DEF Content
  <2>2. LogIsFrames'
    BY <1>1, <2>1 DEF LogIsFrames
  <2>3. taken' \in 0..Len(File) /\ taken \in 0..taken'
    BY <1>1, <1>2
  <2>4. SavedUpTo(File, taken') = SavedUpTo(File, taken)
    BY <1>2, <1>3, <2>3, SavedSteps
  <2> QED BY <2>1, <2>2, <2>4
<1>4. CASE /\ taken < taken' /\ IsSaved(File, taken')
           /\ \A e \in (taken + 1)..(taken' - 1) : ~IsSaved(File, e)
           /\ ExportFrame(PacketAt(File, taken'))
  <2> DEFINE p == PacketAt(File, taken')
  <2>1. /\ taken' \in 0..Len(File) /\ taken' \in 1..Len(File) /\ taken' # 0
        /\ taken' - 1 \in 0..Len(File) /\ taken \in 0..(taken' - 1)
    <3>1. taken' \in 1..Len(File) /\ taken \in 0..Len(File) /\ taken < taken'
      BY <1>1, <1>2, <1>4
    <3> QED BY <1>2, <3>1, OnePlaceBack
  <2>2. CrcCorrect(FrameEndingAt(File, taken')) /\ GetLogType(p) \in whitelist
    BY <1>4 DEF IsSaved
  <2>3. p \in Seq(Byte)
    BY <1>2, <2>1, <2>2, PacketIsBytes
  <2>4. SavedUpTo(File, taken') = Append(SavedUpTo(File, taken' - 1), p)
    BY <1>2, <1>4, <2>1, SavedSteps
  <2>5. SavedUpTo(File, taken' - 1) = SavedUpTo(File, taken)
    BY <1>2, <1>4, <2>1, SavedSteps
  <2>6. ExportFrame(p)
    BY <1>4
  <2> HIDE DEF p
  <2>7. Content \in Seq(Byte) /\ Content' = Content \o EncodeHdlcFrame(p)
    BY <1>1, <1>2, <2>3, <2>6, ExportAppends
  <2>8. Content = <<>> \/ Content[Len(Content)] = DELIM
    BY DEF LogIsFrames
  <2>9. Content'[Len(Content')] = DELIM /\ Saved(Content') = Append(Saved(Content), p)
    BY <1>2, <2>2, <2>3, <2>7, <2>8, SavedBehind
  <2>10. LogIsFrames'
    BY <2>9 DEF LogIsFrames
  <2> QED BY <2>3, <2>4, <2>5, <2>9, <2>10
<1> QED BY <1>1, <1>3, <1>4

(* Every step leaves whole frames in the log.                              *)
LEMMA LogStep ==
  ASSUME FeedInv, LogIsFrames, [ReplayNext]_vars, Checksum16, DmCollectorCAssumption
  PROVE  LogIsFrames'
<1>1. NativeTypeOK
  BY DEF FeedInv, TypeInv, TypeOK
<1>2. ASSUME NEW names \in EnableSets, EnableLog(names) PROVE LogIsFrames'
  <2>1. SetFilteredExport(<<>>, typeNames')
    BY <1>2 DEF EnableLog
  <2> QED BY <1>1, <2>1, LogAfterConfig
<1>3. ASSUME NEW path \in Paths, SaveLogAs(path) PROVE LogIsFrames'
  <2>1. SetFilteredExport(<<path>>, typeNames)
    BY <1>3 DEF SaveLogAs
  <2> QED BY <1>1, <2>1, LogAfterConfig
<1>4. CASE Receive /\ logPath # <<>>
  BY <1>4, ReceiveLogs
<1>5. CASE Receive /\ logPath = <<>>
  <2>1. logPath' = <<>>
    BY <1>5, ReceiveSaves
  <2> QED BY <2>1 DEF LogIsFrames
<1>6. CASE UNCHANGED <<logPath, disk, unflushed>>
  BY <1>6 DEF LogIsFrames, Content
<1>7. \/ \E names \in EnableSets : EnableLog(names)
      \/ \E path \in Paths : SaveLogAs(path)
      \/ Receive
      \/ UNCHANGED <<logPath, disk, unflushed>>
  BY DEF ReplayNext, Configure, Run, vars, nativeVars, SetSkipDecoding, SetInputPath, StartRun,
         OpenFile, ReadAndFeed, CloseFile, ReadOn, Dispatch, DecodingFails, FinishRun
<1> QED BY <1>2, <1>3, <1>4, <1>5, <1>6, <1>7

(* When None is returned and no custom packet was passed over, no frame is *)
(* left.                                                                   *)
LEMMA NoneStep ==
  ASSUME FeedInv, NoneMeansAll, [ReplayNext]_vars, Checksum16, DmCollectorCAssumption
  PROVE  NoneMeansAll'
<1>1. CASE Receive
  <2>1. /\ ~inReceive' /\ ~ret'.some => ~HasFrame(buffer') \/ SkipsCustomPackets
        /\ SkipsCustomPackets' <=> SkipsCustomPackets
    BY <1>1, ReceiveSaves, SkipsStay DEF Run
  <2> QED BY <2>1 DEF NoneMeansAll, Returned
<1>2. CASE ReplayNext /\ ~Receive
  <2>1. pc' # "receive" \/ inReceive'
    BY <1>2 DEF ReplayNext, Configure, Run, EnableLog, SaveLogAs, SetSkipDecoding,
                SetInputPath, StartRun, OpenFile, ReadAndFeed, CloseFile, ReadOn, Dispatch,
                DecodingFails, FinishRun
  <2> QED BY <2>1 DEF NoneMeansAll, Returned
<1>3. CASE UNCHANGED vars
  BY <1>3 DEF vars, nativeVars, replayVars, NoneMeansAll, Returned, SkipsCustomPackets
<1> QED BY <1>1, <1>2, <1>3

(* A run that has completed is at the end of its list.                     *)
LEMMA FinishStep ==
  ASSUME FinishedAtEnd, [ReplayNext]_vars
  PROVE  FinishedAtEnd'
<1>1. CASE Configure
  BY <1>1 DEF Configure, EnableLog, SaveLogAs, SetSkipDecoding, SetInputPath, StartRun,
              FinishedAtEnd
<1>2. CASE Run
  BY <1>2 DEF Run, OpenFile, ReadAndFeed, Receive, CloseFile, ReadOn, Dispatch,
              DecodingFails, FinishRun, Returned, replayVars, FinishedAtEnd
<1>3. CASE UNCHANGED vars
  BY <1>3 DEF vars, replayVars, FinishedAtEnd
<1> QED BY <1>1, <1>2, <1>3 DEF ReplayNext

(* What is saved of the files does not change during a run.                *)
LEMMA SavedStays ==
  ASSUME FeedInv, FeedInv', Run, Checksum16, DmCollectorCAssumption
  PROVE  /\ Saved(Content)' = Saved(Content')
         /\ SavedNow' = IF Reading'
                        THEN SavedFiles(fileNo' - 1) \o SavedUpTo(File', taken')
                        ELSE SavedFiles(fileNo')
<1>1. /\ input' = input /\ whitelist' = whitelist /\ Len(input) \in Nat
      /\ \A k \in 1..Len(input) : disk'[input[k]] = disk[input[k]]
  BY RunKeepsFiles, LenProperties DEF FeedInv, TypeInv, TypeOK
<1>2. /\ fileNo' \in 0..Len(input)
      /\ Reading' => fileNo' - 1 \in 0..Len(input)
  <2>1. fileNo' \in 0..Len(input') /\ (pc' \in {"read", "receive"} => fileNo' # 0)
    BY DEF FeedInv, TypeInv, TypeOK, ReadsAFile
  <2>2. fileNo' \in 0..Len(input)
    BY <1>1, <2>1
  <2>3. ASSUME Reading' PROVE fileNo' \in 1..Len(input)
    BY <1>1, <2>1, <2>2, <2>3 DEF Reading
  <2> QED BY <1>1, <2>2, <2>3, OnePlaceBack
<1>3. Saved(Content)' = Saved(Content')
  BY <1>1 DEF Saved, IsSaved
<1>4. SavedUpTo(File, taken)' = SavedUpTo(File', taken')
  BY <1>1 DEF SavedUpTo, IsSaved
<1>5. ASSUME NEW m \in 0..Len(input)
      PROVE  FlattenSeq([k \in 1..m |-> Saved(disk[input[k]])'])
               = FlattenSeq([k \in 1..m |-> Saved(disk[input[k]])])
  <2>1. ASSUME NEW k \in 1..m PROVE Saved(disk[input[k]])' = Saved(disk[input[k]])
    <3>1. disk'[input'[k]] = disk[input[k]]
      BY <1>1
    <3> QED BY <1>1, <3>1 DEF Saved, IsSaved
  <2> QED BY <2>1
<1>6. SavedFiles(fileNo)' = SavedFiles(fileNo')
  BY <1>2, <1>5 DEF SavedFiles
<1>7. ASSUME Reading' PROVE SavedFiles(fileNo - 1)' = SavedFiles(fileNo' - 1)
  BY <1>2, <1>5, <1>7 DEF SavedFiles
<1> QED BY <1>3, <1>4, <1>6, <1>7 DEF SavedNow

(* A step of run() that leaves the log alone saves nothing of the files:   *)
(* what it passes over is not saved, and when it leaves a file it has      *)
(* passed over the whole of it.                                            *)
LEMMA QuietlySaved ==
  ASSUME SavedInv, FeedInv', Run, ~Receive, Running' \/ finished', ~SkipsCustomPackets,
         Checksum16, DmCollectorCAssumption
  PROVE  SavedNow' = SavedNow /\ Content' = Content /\ logPath' = logPath
<1>1. /\ FeedInv /\ NoneMeansAll /\ input' = input /\ input \in Seq(Paths)
      /\ Len(input) \in Nat /\ fileNo \in 0..Len(input)
      /\ \A k \in 1..Len(input) :
            disk[input[k]] \in Seq(Byte) /\ disk'[input[k]] = disk[input[k]]
  BY RunKeepsFiles, LenProperties DEF SavedInv, FeedInv, TypeInv, TypeOK
<1>2. UNCHANGED <<disk, logPath, unflushed>>
  BY DEF Run, OpenFile, ReadAndFeed, CloseFile, ReadOn, Dispatch, DecodingFails, FinishRun,
         nativeVars
<1>3. SavedNow' = IF Reading'
                  THEN SavedFiles(fileNo' - 1) \o SavedUpTo(File', taken')
                  ELSE SavedFiles(fileNo')
  BY <1>1, SavedStays
<1>4. CASE OpenFile
  <2>1. /\ ~Reading /\ Reading' /\ fileNo' = fileNo + 1 /\ taken' = 0
    BY <1>4 DEF OpenFile, Reset, Reading
  <2>2. File' \in Seq(Byte)
    <3>1. fileNo + 1 \in 1..Len(input)
      BY <1>1, <1>4 DEF OpenFile
    <3> QED BY <1>1, <2>1, <3>1 DEF File
  <2>3. SavedUpTo(File', 0) = <<>>
    <3>1. 0 \in 0..Len(File')
      BY <2>2, LenProperties
    <3> QED BY <2>2, <3>1, SavedSteps
  <2>4. fileNo' - 1 = fileNo
    BY <1>1, <2>1
  <2>5. SavedFiles(fileNo) \in Seq(Seq(Byte))
    BY <1>1, SavedFilesNext
  <2>6. SavedFiles(fileNo) \o <<>> = SavedFiles(fileNo)
    BY <2>5
  <2> QED BY <1>2, <1>3, <2>1, <2>3, <2>4, <2>6 DEF SavedNow, Content
<1>5. CASE ReadAndFeed \/ ReadOn \/ Dispatch
  <2>1. /\ Reading /\ Reading' /\ UNCHANGED <<fileNo, taken>> /\ File' = File
    BY <1>1, <1>2, <1>5
       DEF ReadAndFeed, ReadOn, Dispatch, Reading, Returned, nativeVars, File
  <2> QED BY <1>2, <1>3, <2>1 DEF SavedNow, Content
<1>6. CASE CloseFile
  <2>1. /\ Reading /\ ~Reading' /\ fileNo' = fileNo /\ Returned /\ eof /\ ~ret.some
        /\ pc = "receive"
    BY <1>6 DEF CloseFile, Reading, Returned
  <2>2. /\ fileNo \in 1..Len(input) /\ File \in Seq(Byte) /\ Len(File) \in Nat
        /\ Holds(buffer, File, taken, pos) /\ taken \in Nat /\ taken <= pos
    BY <1>1, <2>1, FileIsBytes DEF Holds
  <2>3. pos = Len(File) /\ ~HasFrame(buffer)
    BY <1>1, <2>1 DEF FeedInv, EofIsEnd, NoneMeansAll
  <2>4. \A e \in (taken + 1)..Len(File) : ~IsSaved(File, e)
    BY <2>2, <2>3, NoFrameInStretch DEF IsSaved
  <2>5. Saved(File) = SavedUpTo(File, taken)
    <3>1. Len(File) \in 0..Len(File) /\ taken \in 0..Len(File)
      BY <2>2, <2>3
    <3>2. Saved(File) = SavedUpTo(File, Len(File))
      BY <2>2, <3>1, SavedSteps
    <3>3. \A m \in 0..Len(File) : (\A e \in (m + 1)..Len(File) : ~IsSaved(File, e)) =>
                                     SavedUpTo(File, Len(File)) = SavedUpTo(File, m)
      BY <2>2, <3>1, SavedSteps
    <3> QED BY <2>4, <3>1, <3>2, <3>3
  <2>6. SavedFiles(fileNo) = SavedFiles(fileNo - 1) \o Saved(File)
    <3>1. fileNo # 0
      BY <1>1, <2>2
    <3> QED BY <1>1, <3>1, SavedFilesNext DEF File
  <2> QED BY <1>2, <1>3, <2>1, <2>5, <2>6 DEF SavedNow, Content
<1>7. CASE FinishRun
  <2>1. ~Reading /\ ~Reading' /\ fileNo' = fileNo
    BY <1>7 DEF FinishRun, Reading
  <2> QED BY <1>2, <1>3, <2>1 DEF SavedNow, Content
<1>8. CASE DecodingFails
  <2>1. pc = "receive" /\ pc' = "exited" /\ finished' = finished
    BY <1>8 DEF DecodingFails, Returned
  <2> QED BY <2>1 DEF Running, SavedInv, FinishedAtEnd
<1> QED BY <1>4, <1>5, <1>6, <1>7, <1>8 DEF Run

(* A turn of the loop of receive_log_packet puts the packet into the log    *)
(* that it adds to what this run has had to save.                          *)
LEMMA SavedTogether ==
  ASSUME SavedInv, FeedInv', Receive, logPath # <<>>, Checksum16, DmCollectorCAssumption,
         NEW base \in Seq(Seq(Byte)), Saved(Content) = base \o SavedNow
  PROVE  Saved(Content') = base \o SavedNow'
<1>1. /\ FeedInv /\ LogIsFrames /\ Run /\ Reading /\ Reading' /\ fileNo' = fileNo
  BY DEF SavedInv, Receive, Run, Reading, replayVars
<1>2. /\ fileNo \in 1..Len(input) /\ File \in Seq(Byte) /\ taken \in Nat
  BY <1>1, FileIsBytes
<1>3. File' = File
  BY <1>1, <1>2, RunKeepsFiles DEF File
<1> DEFINE done == SavedFiles(fileNo - 1)
           part == SavedUpTo(File, taken)
<1>4. SavedNow = done \o part /\ SavedNow' = done \o SavedUpTo(File, taken')
  BY <1>1, <1>3, SavedStays DEF SavedNow
<1>5. done \in Seq(Seq(Byte)) /\ part \in Seq(Seq(Byte))
  <2>1. fileNo - 1 \in 0..Len(input)
    <3>1. Len(input) \in Nat
      BY <1>1, LenProperties DEF FeedInv, TypeInv, TypeOK
    <3> QED BY <1>2, <3>1, OnePlaceBack
  <2>2. taken \in 0..Len(File)
    <3>1. Len(File) \in Nat /\ taken <= pos /\ pos <= Len(File) /\ pos \in Nat
      BY <1>1, FileIsBytes DEF Holds
    <3> QED BY <1>2, <3>1
  <2> QED BY <1>1, <1>2, <2>1, <2>2, SavedFilesNext, SavedSteps
<1> HIDE DEF done, part
<1>6. CASE Content' = Content /\ SavedUpTo(File, taken') = SavedUpTo(File, taken)
  BY <1>4, <1>6 DEF part
<1>7. CASE \E p \in Seq(Byte) :
             /\ Saved(Content') = Append(Saved(Content), p)
             /\ SavedUpTo(File, taken') = Append(SavedUpTo(File, taken), p)
  <2>1. PICK p \in Seq(Byte) : /\ Saved(Content') = Append(Saved(Content), p)
                               /\ SavedUpTo(File, taken') = Append(part, p)
    BY <1>7 DEF part
  <2>2. Saved(Content') = Append(base \o (done \o part), p)
    BY <1>4, <2>1
  <2>3. SavedNow' = done \o Append(part, p)
    BY <1>4, <2>1
  <2>4. Append(base \o (done \o part), p) = base \o (done \o Append(part, p))
    <3>1. base \in Seq(Seq(Byte)) /\ p \in Seq(Byte)
      OBVIOUS
    <3> QED BY ONLY <1>5, <3>1, AppendBehind
  <2> QED BY <2>2, <2>3, <2>4
<1> QED BY <1>1, <1>6, <1>7, ReceiveLogs

(* Every step keeps LogHolds.                                              *)
LEMMA HoldsStep ==
  ASSUME SavedInv, FeedInv', [ReplayNext]_vars, Checksum16, DmCollectorCAssumption
  PROVE  LogHolds'
<1>1. FeedInv /\ NativeTypeOK /\ LogIsFrames /\ LogHolds
  BY DEF SavedInv, FeedInv, TypeInv, TypeOK
<1>2. CASE StartRun
  <2>1. /\ fileNo' = 0 /\ ~Reading' /\ UNCHANGED <<logPath, disk, unflushed, whitelist, input>>
    BY <1>2 DEF StartRun, Reading, nativeVars
  <2> SUFFICES ASSUME logPath # <<>>
               PROVE  \E base \in Seq(Seq(Byte)) : Saved(Content)' = base \o SavedNow'
    BY <2>1 DEF LogHolds
  <2>2. Saved(Content)' = Saved(Content)
    BY <2>1 DEF Saved, IsSaved, Content
  <2>3. Saved(Content) \in Seq(Seq(Byte))
    <3>1. Content \in Seq(Byte)
      BY <1>1, ContentType
    <3>2. Len(Content) \in 0..Len(Content)
      BY <3>1, LenProperties
    <3> QED BY <3>1, <3>2, SavedSteps
  <2>4. SavedNow' = <<>>
    <3>1. SavedNow' = SavedFiles(0)
      BY <2>1 DEF SavedNow, SavedFiles
    <3>2. 0 \in 0..Len(input)
      BY <1>1, LenProperties DEF FeedInv, TypeInv, TypeOK
    <3> QED BY <1>1, <3>1, <3>2, SavedFilesNext
  <2>5. Saved(Content) = Saved(Content) \o <<>>
    BY <2>3
  <2> QED BY <2>2, <2>3, <2>4, <2>5
<1>3. CASE Configure /\ ~StartRun
  <2>1. pc' = "config" /\ ~finished'
    BY <1>3 DEF Configure, EnableLog, SaveLogAs, SetSkipDecoding, SetInputPath
  <2> QED BY <2>1 DEF LogHolds, Running
<1>4. CASE Run
  <2> SUFFICES ASSUME Running' \/ finished', logPath' # <<>>, ~SkipsCustomPackets'
               PROVE  \E base \in Seq(Seq(Byte)) : Saved(Content)' = base \o SavedNow'
    BY DEF LogHolds
  <2>1. /\ ~SkipsCustomPackets /\ logPath # <<>> /\ Saved(Content)' = Saved(Content')
    BY <1>1, <1>4, SkipsStay, RunKeepsFiles, SavedStays
  <2>2. Running
    <3>1. CASE DecodingFails
      BY <3>1 DEF DecodingFails, Returned, Running
    <3>2. CASE ~DecodingFails
      BY <1>4, <3>2 DEF Run, OpenFile, ReadAndFeed, Receive, CloseFile, ReadOn, Dispatch,
                        FinishRun, Returned, Running
    <3> QED BY <3>1, <3>2
  <2>3. PICK base \in Seq(Seq(Byte)) : Saved(Content) = base \o SavedNow
    BY <1>1, <2>1, <2>2 DEF LogHolds
  <2>4. CASE Receive
    BY <2>1, <2>3, <2>4, SavedTogether
  <2>5. CASE ~Receive
    <3>1. SavedNow' = SavedNow /\ Content' = Content
      BY <1>4, <2>1, <2>5, QuietlySaved
    <3> QED BY <2>1, <2>3, <3>1
  <2> QED BY <2>4, <2>5
<1>5. CASE UNCHANGED vars
  <2>1. UNCHANGED <<pc, finished, logPath, disk, unflushed, whitelist, input, fileNo, taken,
                    skipDecoding>>
    BY <1>5 DEF vars, nativeVars, replayVars
  <2>2. /\ Saved(Content)' = Saved(Content) /\ SavedNow' = SavedNow
        /\ SkipsCustomPackets' <=> SkipsCustomPackets
    BY <2>1 DEF Saved, SavedUpTo, SavedFiles, SavedNow, IsSaved, Content, Reading, File,
                SkipsCustomPackets
  <2> QED BY <1>1, <2>1, <2>2 DEF LogHolds, Running
<1> QED BY <1>2, <1>3, <1>4, <1>5 DEF ReplayNext

(* When a run has completed, the log it saved to ends with the packets of   *)
(* its files that pass the filter, in order and decodable again, whatever  *)
(* the files and the log held, however stdio cuts what is written into     *)
(* blocks and whatever the sampling kept from the analyzers.  Only a       *)
(* custom packet that deferred decoding passes over may cut a file short.  *)
THEOREM ReplaySavedLogReplays == ASSUME Checksum16 PROVE ReplaySpec => []SavedLogReplays
<1>1. ReplayInit => SavedInv
  <2> SUFFICES ASSUME ReplayInit PROVE SavedInv
    OBVIOUS
  <2>1. FeedInv
    BY FeedInit, OfflineReplayerAssumption
  <2>2. pc = "config" /\ ~finished /\ logPath = <<>>
    BY DEF ReplayInit, NativeInit
  <2> QED BY <2>1, <2>2 DEF SavedInv, NoneMeansAll, LogIsFrames, LogHolds, FinishedAtEnd,
                            Returned, Running
<1>2. SavedInv /\ [ReplayNext]_vars => SavedInv'
  <2> SUFFICES ASSUME SavedInv, [ReplayNext]_vars PROVE SavedInv'
    OBVIOUS
  <2>1. FeedInv'
    BY FeedStep DEF SavedInv
  <2>2. NoneMeansAll' /\ LogIsFrames' /\ FinishedAtEnd'
    BY NoneStep, LogStep, FinishStep, DmCollectorCAssumption DEF SavedInv
  <2>3. LogHolds'
    BY <2>1, HoldsStep, DmCollectorCAssumption
  <2> QED BY <2>1, <2>2, <2>3 DEF SavedInv
<1>3. SavedInv => SavedLogReplays
  <2> SUFFICES ASSUME SavedInv, finished, logPath # <<>>, ~SkipsCustomPackets
               PROVE  IsSuffix(FlattenSeq([k \in DOMAIN input |-> Saved(disk[input[k]])]),
                               Saved(Content))
    BY DEF SavedLogReplays, Content
  <2>1. /\ FeedInv /\ ~Reading /\ fileNo = Len(input) /\ input \in Seq(Paths)
    BY DEF SavedInv, FinishedAtEnd, Reading, FeedInv, TypeInv, TypeOK
  <2>2. PICK base \in Seq(Seq(Byte)) : Saved(Content) = base \o SavedNow
    BY DEF SavedInv, LogHolds
  <2>3. SavedNow = SavedFiles(Len(input))
    BY <2>1 DEF SavedNow
  <2>4. SavedFiles(Len(input)) \in Seq(Seq(Byte))
    <3>1. Len(input) \in 0..Len(input)
      BY <2>1, LenProperties
    <3> QED BY <2>1, <3>1, SavedFilesNext
  <2>5. IsSuffix(SavedFiles(Len(input)), Saved(Content))
    BY <2>2, <2>3, <2>4, EndIsSuffix
  <2>6. DOMAIN input = 1..Len(input)
    BY <2>1, LenProperties
  <2> QED BY <2>5, <2>6 DEF SavedFiles
<1> QED BY <1>1, <1>2, <1>3, PTL DEF ReplaySpec
=============================================================================
