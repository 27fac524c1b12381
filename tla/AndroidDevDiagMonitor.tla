----------------------- MODULE AndroidDevDiagMonitor ------------------------
(***************************************************************************)
(* AndroidDevDiagMonitor of android_dev_diag_monitor.py: a process of its  *)
(* own, diag_revealer, configures the modem from Diag.cfg and writes what  *)
(* it logs to a FIFO; run() starts it, starts a thread that starts it      *)
(* again when it has died, and reads the FIFO.  Another thread may call    *)
(* _pause_collection.                                                      *)
(*                                                                         *)
(* The native module is not part of this model: fed holds what it is fed.  *)
(*                                                                         *)
(* Names ending in Mutant are the mutations the checks use.                *)
(***************************************************************************)
EXTENDS ChronicleProcessor, LogConfig, SequencesExt

CONSTANTS
    EnableSets,     \* sets of type ids that the names passed to enable_log stand for
    Records,        \* <<type, bytes of the payload or of the name>>
    BlockSize,      \* BLOCK_SIZE
    ModemsBefore,   \* what the modem may be logging at first
    CfgsBefore,     \* type ids of a Diag.cfg that may be there; none for no file
    MaxRecords,     \* bound: records written
    MaxDeaths       \* bound: times that diag_revealer dies

ASSUME AndroidAssumption ==
    /\ \A ids \in EnableSets : ids \subseteq Nat /\ TypesFit(ids)     \* of the table of types
    /\ Records \subseteq {TypeLog, TypeStartLogFile, TypeEndLogFile} \X Seq(Byte)
    /\ \A r \in Records : /\ Len(r[2]) + TsBytes < 32768        \* what "<h" can express
                          /\ r[1] = TypeEndLogFile => r[2] # <<>>  \* a file has a name
    /\ BlockSize \in Nat \ {0} /\ MaxRecords \in Nat /\ MaxDeaths \in Nat
    /\ ModemsBefore \subseteq [ids : SUBSET Nat, debug : BOOLEAN]
    /\ \A ids \in CfgsBefore : ids \subseteq Nat /\ TypesFit(ids)

VARIABLES
    pc,             \* where run() is; "config" before it is called
    typeIds,        \* the ids of self._type_names
    cfgIds,         \* the ids that Diag.cfg is for
    fed,            \* <<type, what>>: bytes fed to dm_collector_c, names sent as new_diag_log
    daemon,         \* where the daemon thread is; "none" before it is started
    daemonRuns,     \* self.running of the daemon
    pause,          \* where the thread that pauses is
    starting,       \* instances of diag_revealer that ps does not show yet
    alive,          \* instances that write to the FIFO
    modem,          \* what the modem logs
    fifo,           \* bytes written and not read
    nDeaths,        \* history: times that it died
    nRecords,       \* history: records written
    due,            \* history: what each byte in fifo is to add to fed
    owed,           \* history: what the bytes read were to add
    cut             \* history: diag_revealer died inside a record

monitorVars  == <<typeIds, cfgIds, fed>>
threadVars   == <<daemon, daemonRuns, pause>>
revealerVars == <<starting, alive, modem, nDeaths>>
fifoVars     == <<fifo, nRecords, due, owed, cut>>
vars == <<pc, monitorVars, threadVars, revealerVars, fifoVars, chronicle>>

AndroidInit ==
    /\ ChronicleInit
    /\ pc = "config" /\ typeIds = {} /\ cfgIds \in CfgsBefore /\ fed = <<>>
    /\ daemon = "none" /\ daemonRuns = FALSE /\ pause = "no"
    /\ starting = 0 /\ alive = 0 /\ nDeaths = 0
    /\ modem \in ModemsBefore
    /\ fifo = <<>> /\ nRecords = 0 /\ due = <<>> /\ owed = <<>> /\ cut = FALSE

-----------------------------------------------------------------------------
(* run() *)

Goto(place) == pc' = place

Bytes(payload) == [k \in DOMAIN payload |-> <<TypeLog, <<payload[k]>>>>]

\* Names that are not supported are not stored
EnableLog(ids) ==
    /\ pc = "config"
    /\ typeIds' = typeIds \cup ids
    /\ UNCHANGED <<pc, cfgIds, fed, threadVars, revealerVars, fifoVars, chronicle>>

\* Without names, a Diag.cfg from before is used; without that, one of no names.
\* (Every name that is stored has ids.)
GenerateDiagCfg ==
    /\ pc = "config"
    /\ Goto("mkfifo")
    /\ cfgIds' = IF typeIds = {} THEN cfgIds ELSE typeIds
    /\ UNCHANGED <<typeIds, fed, threadVars, revealerVars, fifoVars, chronicle>>

\* mknod may not be permitted.  What the shell command prints then, be it
\* empty, is taken for an error; and the handler has no FIFO to close
MakeFifo ==
    /\ pc = "mkfifo"
    /\ Goto("start") \/ Goto("raised")
    /\ UNCHANGED <<monitorVars, threadVars, revealerVars, fifoVars, chronicle>>

\* _start_diag_revealer does not wait
StartRevealer ==
    /\ starting' = starting + 1
    /\ UNCHANGED <<alive, modem, nDeaths>>

\* No daemon is started
NoDaemonMutant ==
    /\ pc = "start"
    /\ StartRevealer
    /\ Goto("open")
    /\ UNCHANGED <<monitorVars, threadVars, fifoVars, chronicle>>

StartAll ==
    /\ pc = "start"
    /\ StartRevealer
    /\ daemon' = "sleep" /\ daemonRuns' = TRUE
    /\ Goto("open")
    /\ UNCHANGED <<monitorVars, pause, fifoVars, chronicle>>

\* os.open waits for someone who opens the FIFO to write, who waits likewise
OpenFifo ==
    /\ pc = "open" /\ alive > 0
    /\ Goto("read")
    /\ UNCHANGED <<monitorVars, threadVars, revealerVars, fifoVars, chronicle>>

\* os.read returns what is there, up to a block; it waits for the first byte,
\* unless nobody writes
ReadFifo(n) ==
    /\ pc = "read" /\ n <= Len(fifo)
    /\ n = 0 => fifo = <<>> /\ alive = 0
    /\ fifo' = SubSeq(fifo, n + 1, Len(fifo)) /\ due' = SubSeq(due, n + 1, Len(due))
    /\ owed' = owed \o FlattenSeq(SubSeq(due, 1, n))
    /\ IF n > 0
       THEN Goto("process") /\ Process(SubSeq(fifo, 1, n))
       ELSE Goto("receive") /\ UNCHANGED chronicle
    /\ UNCHANGED <<monitorVars, threadVars, revealerVars, nRecords, cut>>

InProcess ==
    /\ pc = "process" /\ ProcessStep
    /\ UNCHANGED <<pc, monitorVars, threadVars, revealerVars, fifoVars>>

\* process() has returned: its payload is fed, and the end of a log file is
\* an event; with what remains it is called again
Processed ==
    /\ pc = "process" /\ ~inProcess
    /\ fed' = CASE ret.type = TypeLog        -> fed \o Bytes(ret.payload)
                [] ret.type = TypeEndLogFile
                     /\ ret.filename # <<>>  -> Append(fed, <<TypeEndLogFile, ret.filename>>)
                [] OTHER -> fed
    /\ IF piece # <<>> THEN Process(piece) /\ UNCHANGED pc
       ELSE Goto("receive") /\ UNCHANGED chronicle
    /\ UNCHANGED <<typeIds, cfgIds, threadVars, revealerVars, fifoVars>>

\* receive_log_packet, and the event of its packet, if it returns one
ReceiveLogPacket ==
    /\ pc = "receive"
    /\ Goto("read")
    /\ UNCHANGED <<monitorVars, threadVars, revealerVars, fifoVars, chronicle>>

\* An interrupt, or a packet that cannot be decoded.  _stop_collection looks
\* for processes started from another place than diag_revealer is, and kills
\* none; the daemon is a thread that does not end with the main one
Exit ==
    /\ pc \in {"read", "receive"}
    /\ Goto("exited")
    /\ UNCHANGED <<monitorVars, threadVars, revealerVars, fifoVars, chronicle>>

-----------------------------------------------------------------------------
(* DiagRevealerDaemon.run *)

\* It looks before it has slept
LookAtOnceMutant ==
    /\ daemon = "sleep"
    /\ daemon' = IF daemonRuns THEN "look" ELSE "over"
    /\ UNCHANGED <<pc, monitorVars, daemonRuns, pause, revealerVars, fifoVars, chronicle>>

\* The daemon does not notice that it is to stop
RunsOnMutant ==
    /\ daemon = "sleep" /\ starting = 0
    /\ daemon' = "look"
    /\ UNCHANGED <<pc, monitorVars, daemonRuns, pause, revealerVars, fifoVars, chronicle>>

\* time.sleep(5): ps shows a process that was started before
WakeUp ==
    /\ daemon = "sleep" /\ starting = 0
    /\ daemon' = IF daemonRuns THEN "look" ELSE "over"
    /\ UNCHANGED <<pc, monitorVars, daemonRuns, pause, revealerVars, fifoVars, chronicle>>

\* ps | grep diag_revealer
Look ==
    /\ daemon = "look"
    /\ daemon' = IF alive > 0 THEN "sleep" ELSE "restart"
    /\ UNCHANGED <<pc, monitorVars, daemonRuns, pause, revealerVars, fifoVars, chronicle>>

Restart ==
    /\ daemon = "restart"
    /\ StartRevealer
    /\ daemon' = "sleep"
    /\ UNCHANGED <<pc, monitorVars, daemonRuns, pause, fifoVars, chronicle>>

-----------------------------------------------------------------------------
(* _pause_collection *)

StopDaemon ==
    /\ pause = "no" /\ daemon # "none"
    /\ pause' = "waiting" /\ daemonRuns' = FALSE
    /\ UNCHANGED <<pc, monitorVars, daemon, revealerVars, fifoVars, chronicle>>

\* The daemon has stopped.  Then the output of ps, a string, is decoded once
\* more: AttributeError, and neither diag_revealer nor run() is stopped
PauseRaises ==
    /\ pause = "waiting" /\ daemon = "over"
    /\ pause' = "raised"
    /\ UNCHANGED <<pc, monitorVars, daemon, daemonRuns, revealerVars, fifoVars, chronicle>>

-----------------------------------------------------------------------------
(* diag_revealer, and the modem behind it *)

AllIds == UNION (EnableSets \cup CfgsBefore)

Modems == [ids : SUBSET (AllIds \cup UNION {m.ids : m \in ModemsBefore}), debug : BOOLEAN]

\* A modem before and after it has obeyed the commands of a Diag.cfg
Configurations ==
    {[ids |-> ids, before |-> m, after |-> ObeyedAll(m, DiagCfg(ids))] :
        ids \in SUBSET AllIds, m \in Modems}

\* It sends the modem the commands of Diag.cfg
Appear ==
    /\ starting > 0
    /\ starting' = starting - 1 /\ alive' = alive + 1
    /\ \E c \in Configurations :
          c.ids = cfgIds /\ c.before = modem /\ modem' = c.after
    /\ UNCHANGED <<pc, monitorVars, threadVars, nDeaths, fifoVars, chronicle>>

\* The record as it is written, and what each byte of it adds to fed
TimeStamp(r) == IF r[1] = TypeLog THEN [k \in 1..TsBytes |-> 0] ELSE <<>>

Written(r) ==
    LET size == Len(TimeStamp(r)) + Len(r[2])
    IN  <<r[1], 0, size % 256, size \div 256>> \o TimeStamp(r) \o r[2]

DueOf(r) ==
    LET n == Len(Written(r))
        before == n - Len(r[2])
    IN  [k \in 1..n |->
            CASE r[1] = TypeLog /\ k > before -> <<Bytes(r[2])[k - before]>>
              [] r[1] = TypeEndLogFile /\ k = n -> <<r>>
              [] OTHER -> <<>>]

FifoIsOpen == pc \in {"read", "process", "receive"}

WriteRecord(r) ==
    /\ alive > 0 /\ FifoIsOpen /\ nRecords < MaxRecords
    /\ fifo' = fifo \o Written(r)
    /\ due' = due \o DueOf(r)
    /\ nRecords' = nRecords + 1
    /\ UNCHANGED <<pc, monitorVars, threadVars, revealerVars, owed, cut, chronicle>>

Die ==
    /\ alive > 0 /\ nDeaths < MaxDeaths
    /\ alive' = alive - 1 /\ nDeaths' = nDeaths + 1
    /\ UNCHANGED <<starting, modem>>

DieBetweenRecords ==
    /\ Die
    /\ UNCHANGED <<pc, monitorVars, threadVars, fifoVars, chronicle>>

\* It has written n bytes of a record
DieInRecord(r, n) ==
    /\ Die
    /\ FifoIsOpen /\ nRecords < MaxRecords
    /\ fifo' = fifo \o SubSeq(Written(r), 1, n)
    /\ due' = due \o SubSeq(DueOf(r), 1, n)
    /\ cut' = TRUE
    /\ nRecords' = nRecords + 1
    /\ UNCHANGED <<pc, monitorVars, threadVars, owed, chronicle>>

-----------------------------------------------------------------------------
Run == GenerateDiagCfg \/ MakeFifo \/ StartAll \/ OpenFifo
          \/ (\E n \in 0..BlockSize : ReadFifo(n))
          \/ InProcess \/ Processed \/ ReceiveLogPacket

Daemon == WakeUp \/ Look \/ Restart

Revealer ==
    \/ Appear \/ DieBetweenRecords
    \/ \E r \in Records : \/ WriteRecord(r)
                           \/ \E n \in 1..(Len(Written(r)) - 1) : DieInRecord(r, n)

AndroidNext ==
    \/ \E ids \in EnableSets : EnableLog(ids)
    \/ Run \/ Exit \/ Daemon
    \/ StopDaemon \/ PauseRaises
    \/ Revealer

AndroidSpec == AndroidInit /\ [][AndroidNext]_vars

\* Threads are scheduled, a thread that sleeps wakes up, and a process that
\* was started appears
FairAndroidSpec ==
    AndroidSpec /\ WF_vars(Run) /\ WF_vars(Daemon) /\ WF_vars(PauseRaises) /\ WF_vars(Appear)

-----------------------------------------------------------------------------
(* Properties *)

(* Every variable holds what it is declared to hold; above all, as long as  *)
(* records are whole, no field is longer than the records say.              *)
TypeOK ==
    /\ ChronicleTypeOK
    /\ ~cut => toRead \in Nat /\ payloadLen \in Nat
    /\ pc \in {"config", "mkfifo", "start", "open", "read", "process", "receive", "exited",
               "raised"}
    /\ daemon \in {"none", "sleep", "look", "restart", "over"}
    /\ pause \in {"no", "waiting", "raised"}
    /\ starting \in Nat /\ alive \in Nat
    /\ fifo \in Seq(Byte)

(* diag_revealer, which two threads start and which dies, is never there    *)
(* twice, provided that a process appears in the five seconds that the      *)
(* daemon sleeps: two would write their records into each other.            *)
OneRevealer == starting + alive <= 1

(* The native module is fed the payloads of all records, and only these, in *)
(* order and each byte once, and each end of a log file is reported behind  *)
(* what it holds: wherever the reads cut the stream.  (Not when             *)
(* diag_revealer has died inside a record: the parser is not told.)         *)
FedWhatWasLogged ==
    ~cut /\ pc \in {"read", "receive"} => fed = owed

(* Whenever diag_revealer is there, after whatever number of restarts, the  *)
(* modem logs exactly what was asked for, or, if nothing was, what a        *)
(* Diag.cfg from before says.                                               *)
ModemLogsWhatIsAsked ==
    alive > 0 => LogsExactly(modem, IF typeIds = {} THEN cfgIds ELSE typeIds)

(* run() gets to read the FIFO, though diag_revealer may die before anyone  *)
(* has opened it: the daemon then starts another one, unless it has been    *)
(* told to stop.                                                            *)
RunGetsGoing == pc = "open" ~> (pc = "read" \/ pause # "no")

(* What is written to the FIFO is processed to the end: process() returns   *)
(* from whatever piece of whole records.                                    *)
EverythingIsProcessed ==
    (fifo # <<>> /\ pc = "read") ~> (fifo = <<>> \/ cut \/ pc = "exited")

(* _pause_collection does not wait for the daemon for ever.                 *)
PauseReturns == pause = "waiting" ~> pause = "raised"
=============================================================================
