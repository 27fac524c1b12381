---------------------------- MODULE DmCollectorC ----------------------------
(***************************************************************************)
(* The native module dm_collector_c: one per process, shared by every      *)
(* monitor.  It keeps the bytes fed so far (hdlc.cpp), the filter and the  *)
(* file that packets are saved to (export_manager.cpp), and hands out at   *)
(* most one decoded packet per call of receive_log_packet.                 *)
(*                                                                         *)
(* A monitor's module extends this one and adds the loop that calls it.    *)
(* Calls come from Python and hold the interpreter lock, so each one is a  *)
(* step of its own; only receive_log_packet, a loop over the buffer, is    *)
(* one step per frame it looks at.                                         *)
(***************************************************************************)
EXTENDS Hdlc

CONSTANTS
    Names,          \* message names a monitor may ask for
    LogPacketTypeID_To_Name,    \* consts.h: a table of type ids and names
    Paths,          \* files
    BlockSize       \* size of a stdio buffer

ModemDebugMessage == 8171       \* 0x1feb, the id of every debug packet
NoType == -1

ASSUME DmCollectorCAssumption ==
    /\ BlockSize \in Nat \ {0}
    /\ LogPacketTypeID_To_Name \in Seq(Nat \X Names)

VARIABLES
    buffer,         \* hdlc.cpp: bytes fed and not yet taken
    whitelist,      \* g_emanager.whitelist
    logPath,        \* g_emanager.log_fp: <<>> if NULL, <<path>> if open
    disk,           \* path -> what a reader of the file sees
    unflushed,      \* bytes written to log_fp and still in its stdio buffer
    inReceive,      \* receive_log_packet is looping
    ret,            \* what it returned last
    taken           \* history: bytes taken since the last reset

nativeVars == <<buffer, whitelist, logPath, disk, unflushed, inReceive, ret, taken>>

-----------------------------------------------------------------------------
(* The table of types.  A name may stand for several ids, and an id may have *)
(* several names.                                                           *)

Entries == DOMAIN LogPacketTypeID_To_Name

\* find_ids: every id that the table gives a name
IdsOf == [n \in Names |-> {LogPacketTypeID_To_Name[i][1] :
                              i \in {j \in Entries : LogPacketTypeID_To_Name[j][2] = n}}]

\* search_name: the name of the first entry of an id, and no name without one
search_name(id) ==
    {LogPacketTypeID_To_Name[i][2] :
        i \in {j \in Entries : /\ LogPacketTypeID_To_Name[j][1] = id
                               /\ \A k \in 1..(j - 1) : LogPacketTypeID_To_Name[k][1] # id}}

-----------------------------------------------------------------------------
(* Packets.  A packet is known by its first bytes. *)

IsLogPacket(p)    == Len(p) >= 2 /\ p[1] = 16
IsDebugPacket(p)  == Len(p) >= 2 /\ p[1] \in {121, 146}
IsCustomPacket(p) == Len(p) >= 2 /\ p[1] = 238 /\ p[2] = 238

GetLogType(p) ==
    IF IsLogPacket(p) /\ Len(p) >= 8 THEN p[7] + 256 * p[8]
    ELSE IF IsDebugPacket(p) THEN ModemDebugMessage
    ELSE NoType

\* What the filter lets through
PassesFilter(p) == IsCustomPacket(p) \/ GetLogType(p) \in whitelist

\* A decoded packet: its bytes, and where in what was fed its frame ended
Packet == [payload : Seq(Byte), end : Nat]

NativeTypeOK ==
    /\ buffer \in Seq(Byte) /\ taken \in Nat
    /\ whitelist \subseteq Nat
    /\ logPath \in {<<>>} \cup {<<p>> : p \in Paths}
    /\ disk \in [Paths -> Seq(Byte)] /\ unflushed \in Seq(Byte)
    /\ inReceive \in BOOLEAN
    /\ ret \in [some : BOOLEAN, pkt : Seq(Packet)] /\ Len(ret.pkt) <= 1

-----------------------------------------------------------------------------
(* Filter and export *)

NativeInit ==
    /\ buffer = <<>> /\ taken = 0
    /\ whitelist = {}
    /\ logPath = <<>> /\ unflushed = <<>>
    /\ inReceive = FALSE /\ ret = [some |-> FALSE, pkt |-> <<>>]

NamesKnown(names) == \A n \in names : IdsOf[n] # {}

\* The disk once log_fp, if it is open, has been closed
DiskAfterClose ==
    IF logPath = <<>> THEN disk ELSE [disk EXCEPT ![logPath[1]] = @ \o unflushed]

(***************************************************************************)
(* manager_change_config.  path is <<>> for NULL, and <<f>> for a file f:  *)
(* a file other than the open one is created or truncated, after the open  *)
(* one is closed; if fopen fails, nothing is open.                         *)
(***************************************************************************)
ChangeConfig(path, ids) ==
    /\ whitelist' = ids
    /\ \/ /\ path \in {<<>>, logPath}
          /\ UNCHANGED <<logPath, disk, unflushed>>
       \/ /\ path \notin {<<>>, logPath}
          /\ unflushed' = <<>>
          /\ \/ logPath' = path /\ disk' = [DiskAfterClose EXCEPT ![path[1]] = <<>>]
             \/ logPath' = <<>> /\ disk' = DiskAfterClose

\* set_filtered and set_filtered_export; a wrong name raises ValueError and
\* leaves g_emanager as it was
SetFilteredExport(path, names) ==
    /\ \/ NamesKnown(names) /\ ChangeConfig(path, UNION {IdsOf[n] : n \in names})
       \/ ~NamesKnown(names) /\ UNCHANGED <<whitelist, logPath, disk, unflushed>>
    /\ UNCHANGED <<buffer, inReceive, ret, taken>>

\* fwrite of the frame: stdio passes whole blocks on and holds the rest
ExportFrame(p) ==
    \/ logPath = <<>> /\ UNCHANGED <<disk, unflushed>>
    \/ /\ logPath # <<>>
       /\ LET held == unflushed \o EncodeHdlcFrame(p)
              n == BlockSize * (Len(held) \div BlockSize)
          IN  /\ disk' = [disk EXCEPT ![logPath[1]] = @ \o SubSeq(held, 1, n)]
              /\ unflushed' = SubSeq(held, n + 1, Len(held))

-----------------------------------------------------------------------------
(* receive_log_packet: one action per way an iteration of its loop can end. *)
(* Names ending in Mutant are the mutations the checks use.                 *)

NoPacket     == [some |-> FALSE, pkt |-> <<>>]        \* None
EmptyPacket  == [some |-> TRUE,  pkt |-> <<>>]        \* (None, timestamp)
Decoded(p)   == [some |-> TRUE,                       \* (decoded, timestamp)
                 pkt  |-> <<[payload |-> p, end |-> taken + FrameEnd(buffer)]>>]

Return(value) == inReceive' = FALSE /\ ret' = value
Continue      == UNCHANGED <<inReceive, ret>>

\* get_next_frame finds no delimiter
NoMoreFrames ==
    /\ inReceive /\ ~HasFrame(buffer)
    /\ Return(NoPacket)
    /\ UNCHANGED <<buffer, whitelist, logPath, disk, unflushed, taken>>

\* get_next_frame takes a frame out of the buffer
TakeFrame ==
    /\ inReceive /\ HasFrame(buffer)
    /\ buffer' = AfterFrame(buffer)
    /\ taken' = taken + FrameEnd(buffer)
    /\ UNCHANGED <<whitelist, logPath>>

\* The packet in the frame that is taken
Taken == CheckFrameFormat(Payload(RawFrame(buffer)))

BrokenFrame ==
    /\ TakeFrame /\ ~CrcCorrect(RawFrame(buffer))
    /\ Continue /\ UNCHANGED <<disk, unflushed>>

\* A custom packet is not exempt from the filter
CustomFilteredMutant(skipDecoding) ==
    /\ TakeFrame /\ CrcCorrect(RawFrame(buffer)) /\ IsCustomPacket(Taken)
    /\ Continue /\ UNCHANGED <<disk, unflushed>>

\* A custom packet is returned before the filter and the export see it
CustomFrame(skipDecoding) ==
    /\ TakeFrame /\ CrcCorrect(RawFrame(buffer)) /\ IsCustomPacket(Taken)
    /\ Return(IF skipDecoding THEN NoPacket ELSE Decoded(Taken))
    /\ UNCHANGED <<disk, unflushed>>

FilteredFrame ==
    /\ TakeFrame /\ CrcCorrect(RawFrame(buffer)) /\ ~IsCustomPacket(Taken)
    /\ GetLogType(Taken) \notin whitelist
    /\ Continue /\ UNCHANGED <<disk, unflushed>>

\* The CRC is not looked at
NoCrcMutant(skipDecoding) ==
    /\ TakeFrame /\ ~IsCustomPacket(Taken)
    /\ GetLogType(Taken) \in whitelist
    /\ ExportFrame(Taken)
    /\ Return(Decoded(Taken))

\* A packet that the sampling gives up is not saved
SamplingBeforeExportMutant(skipDecoding) ==
    /\ TakeFrame /\ CrcCorrect(RawFrame(buffer)) /\ ~IsCustomPacket(Taken)
    /\ GetLogType(Taken) \in whitelist
    /\ \/ ExportFrame(Taken) /\ Return(Decoded(Taken))
       \/ /\ skipDecoding /\ IsLogPacket(Taken)
          /\ Return(EmptyPacket) /\ UNCHANGED <<disk, unflushed>>

\* decode_log_packet may give up a packet when it samples; sampling looks at
\* the processor clock, and only when decoding is deferred
ExportedFrame(skipDecoding) ==
    /\ TakeFrame /\ CrcCorrect(RawFrame(buffer)) /\ ~IsCustomPacket(Taken)
    /\ GetLogType(Taken) \in whitelist
    /\ ExportFrame(Taken)
    /\ \/ Return(Decoded(Taken))
       \/ skipDecoding /\ IsLogPacket(Taken) /\ Return(EmptyPacket)

ReceiveLogPacket(skipDecoding) ==
    \/ NoMoreFrames
    \/ BrokenFrame
    \/ CustomFrame(skipDecoding)
    \/ FilteredFrame
    \/ ExportedFrame(skipDecoding)
=============================================================================
