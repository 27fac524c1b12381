---------------------------- MODULE DMCollector -----------------------------
(***************************************************************************)
(* mobile_insight/monitor/dm_collector/dm_collector.py: the monitor of a   *)
(* modem on a serial line.  run() opens the port, writes the commands that *)
(* turn all logs off and the wanted ones on, and then reads 64 bytes at a  *)
(* time, feeds them to dm_collector_c and asks for at most one packet per  *)
(* read.  It ends by an exception: after an interrupt, or a packet that    *)
(* cannot be decoded, it turns the logs off again.                         *)
(*                                                                         *)
(* The port is a queue of commands and a stream of bytes, and the modem    *)
(* behind it obeys and logs when it likes.                                 *)
(*                                                                         *)
(* Names ending in Mutant are the mutations the checks use.                *)
(***************************************************************************)
EXTENDS DmCollectorC, LogConfig

CONSTANTS
    EnableSets,     \* sets of names passed to enable_log
    SkipChoices,    \* arguments of set_skip_decoding
    Malformed,      \* payloads whose body makes DMLogPacket() raise
    Messages,       \* payloads that the modem sends
    Tails,          \* what may stand on the line when the port is opened
    ModemsBefore,   \* what the modem may be logging then
    ReadSize,       \* bytes per read, 64 in the code
    MaxMessages     \* bound: messages of the modem

ASSUME DMCollectorAssumption ==
    /\ EnableSets \subseteq SUBSET Names
    /\ SkipChoices \subseteq BOOLEAN
    /\ ReadSize \in Nat \ {0}
    /\ MaxMessages \in Nat
    /\ Messages \subseteq Seq(Byte) /\ Tails \subseteq Seq(Byte)
    /\ ModemsBefore \subseteq [ids : SUBSET Nat, debug : BOOLEAN]

\* Bytes from before are whole frames, none intact, and check_frame_format
\* leaves a message as it is
ASSUME LineAssumption ==
    /\ \A t \in Tails : /\ t = <<>> \/ t[Len(t)] = DELIM
                        /\ \A e \in 1..Len(t) :
                              t[e] = DELIM => ~CrcCorrect(FrameEndingAt(t, e))
    /\ \A p \in Messages : p # <<>> /\ CheckFrameFormat(p) = p

\* The table of types
ASSUME TypesAssumption == \A n \in Names : TypesFit(IdsOf[n])

VARIABLES
    pc,             \* where run() is; "config" between the caller's calls
    typeNames,      \* self._type_names
    skipDecoding,   \* self._skip_decoding
    toWrite,        \* the commands that enable_logs has yet to write
    line,           \* the commands on their way to the modem
    modem,          \* what it logs
    stream,         \* every byte that has come from it
    pos,            \* how many of them were read
    sent,           \* events sent to the analyzers
    due,            \* history: what came from it and passes the filter
    debugBefore,    \* history: it sent debug messages when run() was called
    nMessages       \* history: messages of the modem

collectorVars == <<pc, typeNames, skipDecoding, toWrite, sent>>
portVars      == <<line, modem, stream, pos, due, debugBefore, nMessages>>
vars == <<nativeVars, collectorVars, portVars>>

CollectorInit ==
    /\ NativeInit /\ disk \in [Paths -> {<<>>}]
    /\ pc = "config" /\ typeNames = {} /\ skipDecoding = FALSE
    /\ toWrite = <<>> /\ sent = <<>>
    /\ line = <<>> /\ modem \in ModemsBefore /\ debugBefore = modem.debug
    /\ stream \in Tails /\ pos = 0 /\ due = <<>> /\ nMessages = 0

WantedIds == UNION {IdsOf[n] : n \in typeNames}

-----------------------------------------------------------------------------
(* The caller *)

\* A name that is not supported is stored all the same, and set_filtered raises
EnableLog(names) ==
    /\ pc = "config"
    /\ typeNames' = typeNames \cup names
    /\ SetFilteredExport(<<>>, typeNames')
    /\ UNCHANGED <<pc, skipDecoding, toWrite, sent, portVars>>

SaveLogAs(path) ==
    /\ pc = "config"
    /\ SetFilteredExport(<<path>>, typeNames)
    /\ UNCHANGED <<collectorVars, portVars>>

SetSkipDecoding(skip) ==
    /\ pc = "config"
    /\ skipDecoding' = skip
    /\ UNCHANGED <<nativeVars, pc, typeNames, toWrite, sent, portVars>>

StartRun ==
    /\ pc = "config" /\ pc' = "open"
    /\ UNCHANGED <<nativeVars, typeNames, skipDecoding, toWrite, sent, portVars>>

-----------------------------------------------------------------------------
(* run() up to its loop.  "handler" is the except clause that disables the *)
(* logs, "exited" sys.exit() at its end, "failed" that of the other clause, *)
(* "raised" an exception out of run(), and "crashed" the end of the process *)
(* in send_msg, which does not look at the result of write().               *)

Goto(place) == pc' = place /\ UNCHANGED <<typeNames, skipDecoding, sent>>

OpenPort ==
    /\ pc = "open"
    /\ Goto("disable") \/ Goto("failed")
    /\ UNCHANGED <<nativeVars, toWrite, portVars>>

\* serial_port.write(frame)
Write(command) ==
    /\ line' = Append(line, command)
    /\ UNCHANGED <<nativeVars, modem, stream, pos, due, debugBefore, nMessages>>

DisableLogs ==
    /\ pc = "disable"
    /\ Write(Disable)
    /\ Goto("enable") /\ UNCHANGED toWrite

\* enable_logs, which raises ValueError when a name is not supported
EnableLogs ==
    /\ pc = "enable"
    /\ \/ /\ NamesKnown(typeNames)
          /\ toWrite' = LogConfigMsgs(WantedIds)
          /\ Goto("write")
       \/ ~NamesKnown(typeNames) /\ Goto("failed") /\ UNCHANGED toWrite
    /\ UNCHANGED <<nativeVars, portVars>>

WriteConfig ==
    /\ pc = "write" /\ toWrite # <<>>
    /\ Write(Head(toWrite))
    /\ toWrite' = Tail(toWrite)
    /\ Goto("write")

LogsEnabled ==
    /\ pc = "write" /\ toWrite = <<>>
    /\ Goto("read")
    /\ UNCHANGED <<nativeVars, toWrite, portVars>>

\* write() raises, by itself or because of an interrupt
WriteFails ==
    /\ \/ pc \in {"disable", "handler"}
       \/ pc = "write" /\ toWrite # <<>>
    /\ Goto("crashed")
    /\ UNCHANGED <<nativeVars, toWrite, portVars>>

-----------------------------------------------------------------------------
(* The loop of run() *)

\* A read does not wait for all its bytes and is thought to have them
NotAllRead(bytes) == SubSeq(stream, pos + 1, Min({pos + bytes, Len(stream)}))
ReadTimesOutMutant ==
    /\ pc = "read" /\ Len(stream) > pos
    /\ buffer' = buffer \o NotAllRead(ReadSize)
    /\ pos' = pos + ReadSize
    /\ inReceive' = TRUE
    /\ Goto("receive")
    /\ UNCHANGED <<whitelist, logPath, disk, unflushed, ret, taken, toWrite,
                   line, modem, stream, due, debugBefore, nMessages>>

\* A read waits until all its bytes are there
ReadAndFeed ==
    /\ pc = "read" /\ Len(stream) - pos >= ReadSize
    /\ buffer' = buffer \o SubSeq(stream, pos + 1, pos + ReadSize)
    /\ pos' = pos + ReadSize
    /\ inReceive' = TRUE
    /\ Goto("receive")
    /\ UNCHANGED <<whitelist, logPath, disk, unflushed, ret, taken, toWrite,
                   line, modem, stream, due, debugBefore, nMessages>>

ReadFails ==
    /\ pc = "read"
    /\ Goto("failed")
    /\ UNCHANGED <<nativeVars, toWrite, portVars>>

Receive ==
    /\ pc = "receive"
    /\ ReceiveLogPacket(skipDecoding)
    /\ UNCHANGED <<collectorVars, portVars>>

Returned == pc = "receive" /\ ~inReceive

\* No packet, or one that the sampling gave up
ReadOn ==
    /\ Returned /\ ret.pkt = <<>>
    /\ Goto("read")
    /\ UNCHANGED <<nativeVars, toWrite, portVars>>

\* The packet is handed on twice when decoding is deferred
HandOnTwiceMutant ==
    /\ Returned /\ ret.pkt # <<>>
    /\ ret.pkt[1].payload \notin Malformed
    /\ sent' = IF skipDecoding THEN sent \o ret.pkt \o ret.pkt ELSE sent \o ret.pkt
    /\ pc' = "read"
    /\ UNCHANGED <<nativeVars, typeNames, skipDecoding, toWrite, portVars>>

Dispatch ==
    /\ Returned /\ ret.pkt # <<>>
    /\ ret.pkt[1].payload \notin Malformed
    /\ sent' = sent \o ret.pkt
    /\ pc' = "read"
    /\ UNCHANGED <<nativeVars, typeNames, skipDecoding, toWrite, portVars>>

\* DMLogPacket() raises RuntimeError, never FormatError
DecodingFails ==
    /\ Returned /\ ret.pkt # <<>>
    /\ ret.pkt[1].payload \in Malformed
    /\ Goto("handler")
    /\ UNCHANGED <<nativeVars, toWrite, portVars>>

-----------------------------------------------------------------------------
(* KeyboardInterrupt.  It is raised between two steps of Python code: the   *)
(* native calls that read nothing are not interrupted.  While the port is   *)
(* being opened the handler has no port to use, and raises.                 *)
Interrupt ==
    /\ pc \in {"open", "disable", "enable", "read"} \/ Returned
    /\ Goto(IF pc = "open" THEN "raised" ELSE "handler")
    /\ UNCHANGED <<nativeVars, toWrite, portVars>>

\* The handler closes the port and does not disable the logs
JustCloseMutant ==
    /\ pc = "handler"
    /\ Goto("exited")
    /\ UNCHANGED <<nativeVars, toWrite, portVars>>

\* The port is closed, and what was written to it is sent
DisableAndClose ==
    /\ pc = "handler"
    /\ Write(Disable)
    /\ Goto("exited") /\ UNCHANGED toWrite

-----------------------------------------------------------------------------
(* The modem *)

PortIsOpen == pc \notin {"config", "open", "failed", "raised", "exited", "crashed"}

Obey ==
    /\ line # <<>>
    /\ modem' = Obeyed(modem, Head(line))
    /\ line' = Tail(line)
    /\ UNCHANGED <<nativeVars, collectorVars, stream, pos, due, debugBefore, nMessages>>

Frames == [p \in Messages |-> EncodeHdlcFrame(p)]

\* Messages of no type answer commands; the others are logs that are on
Log(p) ==
    /\ PortIsOpen /\ nMessages < MaxMessages
    /\ \/ GetLogType(p) \in modem.ids \cup {NoType}
       \/ GetLogType(p) = ModemDebugId /\ modem.debug
    /\ stream' = stream \o Frames[p]
    /\ due' = IF PassesFilter(p) THEN Append(due, [payload |-> p, end |-> Len(stream')])
              ELSE due
    /\ nMessages' = nMessages + 1
    /\ UNCHANGED <<nativeVars, collectorVars, line, modem, pos, debugBefore>>

-----------------------------------------------------------------------------
Configure ==
    \/ \E names \in EnableSets : EnableLog(names)
    \/ \E path \in Paths : SaveLogAs(path)
    \/ \E skip \in SkipChoices : SetSkipDecoding(skip)
    \/ StartRun

Run == OpenPort \/ DisableLogs \/ EnableLogs \/ WriteConfig \/ LogsEnabled \/ WriteFails
          \/ ReadAndFeed \/ ReadFails \/ Receive \/ ReadOn \/ Dispatch \/ DecodingFails
          \/ Interrupt \/ DisableAndClose

Modem == Obey \/ \E p \in Messages : Log(p)

CollectorNext == Configure \/ Run \/ Modem

CollectorSpec == CollectorInit /\ [][CollectorNext]_vars

\* An except clause is executed to its end, and a modem obeys what was written
FairCollectorSpec ==
    CollectorSpec /\ WF_vars(DisableAndClose) /\ WF_vars(Obey)

-----------------------------------------------------------------------------
(* Properties *)

Places == {"config", "open", "disable", "enable", "write", "read", "receive", "handler",
           "exited", "failed", "raised", "crashed"}

(* Every variable holds what it is declared to hold; above all, what was    *)
(* read never exceeds what came.                                            *)
TypeOK ==
    /\ NativeTypeOK
    /\ pc \in Places
    /\ typeNames \subseteq Names /\ skipDecoding \in BOOLEAN
    /\ modem.ids \subseteq Nat /\ modem.debug \in BOOLEAN
    /\ stream \in Seq(Byte) /\ pos \in 0..Len(stream)
    /\ sent \in Seq(Packet)
    /\ nMessages \in 0..MaxMessages

\* What is to be logged: debug messages too if they were on, as no command of
\* disable_logs or enable_logs turns them off
ToBeLogged == WantedIds \cup (IF debugBefore THEN {ModemDebugId} ELSE {})

(* Once run() reads and the modem has obeyed, it logs exactly the types     *)
(* that were asked for, of all equipment ids, whatever it was logging       *)
(* before; and debug messages if and only if they were asked for or it sent *)
(* them before.                                                             *)
ModemLogsWhatIsAsked ==
    pc \in {"read", "receive"} /\ line = <<>> => LogsExactly(modem, ToBeLogged)

(* After an interrupt, or a packet that cannot be decoded, the modem logs   *)
(* no type any more that a mask of items turns on, however far the commands *)
(* that do so have got: unless the write in the handler fails, which ends   *)
(* the process.  Debug messages are another matter: see AllLogsDisabled.    *)
InterruptDisablesTypes ==
    pc = "handler" ~> (pc = "crashed" \/ modem.ids = {})

(* "Disabling all logs", which the handler prints: when run() has exited    *)
(* that way and the modem has obeyed, it logs nothing.  It does not hold:   *)
(* disable_logs writes DISABLE alone, and debug messages, whether run() or  *)
(* someone before turned them on, stay on until a DISABLE_DEBUG.            *)
AllLogsDisabled ==
    pc = "exited" /\ line = <<>> => LogsExactly(modem, {})

-----------------------------------------------------------------------------
(* The collector as a PacketFeed *)

Running == pc \in Places \ {"config", "exited", "failed", "raised", "crashed"}

Feed == INSTANCE PacketFeed WITH
    phase    <- IF Running THEN "running" ELSE IF pc = "config" THEN "idle" ELSE "exited",
    sampling <- Running /\ skipDecoding,
    owed     <- IF Running THEN due ELSE <<>>,
    handed   <- IF Running THEN sent ELSE <<>>

(* What the analyzers get are the packets that came from the modem and pass *)
(* the filter, in order, each once and, without deferred decoding, with     *)
(* none left out, however reads cut the stream and wherever in a frame it   *)
(* began.                                                                   *)
ImplementsFeed == Feed!FeedSpec
=============================================================================
