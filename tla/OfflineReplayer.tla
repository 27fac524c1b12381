--------------------------- MODULE OfflineReplayer ---------------------------
(***************************************************************************)
(* mobile_insight/monitor/offline_replayer.py: the monitor that replays    *)
(* saved logs.  run() walks over the files of its input; for each it reads *)
(* 64 bytes at a time, feeds them to dm_collector_c and asks for at most   *)
(* one packet per read, so packets pile up in the native buffer and are    *)
(* drained by the reads at the end of the file, which return nothing.      *)
(*                                                                         *)
(* Names ending in Mutant are the mutations the checks use.                *)
(***************************************************************************)
EXTENDS DmCollectorC

CONSTANTS
    EnableSets,     \* sets of names passed to enable_log
    InputLists,     \* sorted lists of files that set_input_path may lead to
    SkipChoices,    \* arguments of set_skip_decoding
    InitialDisks,   \* contents of the files when the process starts
    Malformed,      \* payloads whose body makes DMLogPacket() raise
    ReadSize,       \* bytes per read, 64 in the code
    MaxRuns         \* bound: calls of run()

ASSUME OfflineReplayerAssumption ==
    /\ EnableSets \subseteq SUBSET Names
    /\ InputLists \subseteq Seq(Paths)
    /\ SkipChoices \subseteq BOOLEAN
    /\ InitialDisks \subseteq [Paths -> Seq(Byte)]
    /\ ReadSize \in Nat \ {0}
    /\ MaxRuns \in Nat

VARIABLES
    pc,             \* where run() is; "config" between the caller's calls
    typeNames,      \* self._type_names
    skipDecoding,   \* self._skip_decoding
    raised,         \* the last enable_log or save_log_as raised ValueError
    input,          \* log_list
    fileNo,         \* the file of log_list being replayed
    pos,            \* bytes read from it
    eof,            \* the last read returned nothing
    sent,           \* events sent to the analyzers by this run
    owed,           \* history: the events this run has to send
    finished,       \* history: nothing has happened since a run completed
    nRuns           \* history: calls of run()

replayVars == <<pc, typeNames, skipDecoding, raised, input, fileNo, pos, eof,
                sent, owed, finished, nRuns>>
vars == <<nativeVars, replayVars>>

ReplayInit ==
    /\ NativeInit /\ disk \in InitialDisks
    /\ pc = "config"
    /\ typeNames = {} /\ skipDecoding = FALSE /\ raised = FALSE
    /\ input = <<>> /\ fileNo = 0 /\ pos = 0 /\ eof = FALSE
    /\ sent = <<>> /\ owed = <<>> /\ finished = FALSE /\ nRuns = 0

-----------------------------------------------------------------------------
(* The caller configures the monitor *)

\* A name that is not supported is only warned about: it is stored, and then
\* set_filtered raises
EnableLog(names) ==
    /\ pc = "config"
    /\ typeNames' = typeNames \cup names
    /\ raised' = ~NamesKnown(typeNames')
    /\ SetFilteredExport(<<>>, typeNames')
    /\ finished' = FALSE
    /\ UNCHANGED <<pc, skipDecoding, input, fileNo, pos, eof, sent, owed, nRuns>>

SaveLogAs(path) ==
    /\ pc = "config"
    /\ raised' = ~NamesKnown(typeNames)
    /\ SetFilteredExport(<<path>>, typeNames)
    /\ finished' = FALSE
    /\ UNCHANGED <<pc, typeNames, skipDecoding, input, fileNo, pos, eof, sent, owed, nRuns>>

SetSkipDecoding(skip) ==
    /\ pc = "config"
    /\ skipDecoding' = skip
    /\ finished' = FALSE
    /\ UNCHANGED <<nativeVars, pc, typeNames, raised, input, fileNo, pos, eof,
                   sent, owed, nRuns>>

Reset == buffer' = <<>> /\ taken' = 0

\* The list is what run() makes of the path: the file, or the logs in it
SetInputPath(list) ==
    /\ pc = "config"
    /\ Reset
    /\ input' = list /\ fileNo' = 0
    /\ finished' = FALSE
    /\ UNCHANGED <<whitelist, logPath, disk, unflushed, inReceive, ret, pc, typeNames,
                   skipDecoding, raised, pos, eof, sent, owed, nRuns>>

-----------------------------------------------------------------------------
(* What a run owes the analyzers, said of the bytes of its files *)

\* type_id in self._type_names or type_id == "Custom_Packet", where type_id is
\* the first name of the id: "Unsupported", which nobody asks for, without one
Wanted(p) == IsCustomPacket(p) \/ search_name(GetLogType(p)) \cap typeNames # {}

\* The frame that ends at byte e holds a packet that the analyzers are owed: one
\* that both filters let through, the native one by id and run()'s by name
IsDue(bytes, e) ==
    /\ bytes[e] = DELIM
    /\ CrcCorrect(FrameEndingAt(bytes, e))
    /\ PassesFilter(PacketAt(bytes, e))
    /\ Wanted(PacketAt(bytes, e))

\* The items at those of the first n places that are in P, in order
Picked(items, P, n) ==
    LET picked[i \in 0..n] ==
          IF i = 0 THEN <<>>
          ELSE IF i \in P THEN Append(picked[i - 1], items[i])
          ELSE picked[i - 1]
    IN  picked[n]

\* What run() owes the analyzers from the k-th file of the input
DueIn(k) ==
    LET bytes == disk[input[k]]
    IN  Picked([e \in DOMAIN bytes |-> [file |-> k, end |-> e, payload |-> PacketAt(bytes, e)]],
               {e \in DOMAIN bytes : IsDue(bytes, e)}, Len(bytes))

-----------------------------------------------------------------------------
\* A log is not replayed while packets are being saved to it
StartRun ==
    /\ pc = "config" /\ nRuns < MaxRuns
    /\ input # <<>>
    /\ \A i \in DOMAIN input : logPath # <<input[i]>>
    /\ pc' = "open"
    /\ fileNo' = 0 /\ sent' = <<>>
    /\ owed' = FlattenSeq([k \in DOMAIN input |-> DueIn(k)])
    /\ finished' = FALSE /\ nRuns' = nRuns + 1
    /\ UNCHANGED <<nativeVars, typeNames, skipDecoding, raised, input, pos, eof>>

-----------------------------------------------------------------------------
(* run() *)

\* One file too many is opened
OneTooManyMutant ==
    /\ pc = "open" /\ fileNo <= Len(input)
    /\ fileNo' = fileNo + 1 /\ pos' = 0
    /\ Reset
    /\ pc' = "read"
    /\ UNCHANGED <<whitelist, logPath, disk, unflushed, inReceive, ret, typeNames,
                   skipDecoding, raised, input, eof, sent, owed, finished, nRuns>>

OpenFile ==
    /\ pc = "open" /\ fileNo < Len(input)
    /\ fileNo' = fileNo + 1 /\ pos' = 0
    /\ Reset
    /\ pc' = "read"
    /\ UNCHANGED <<whitelist, logPath, disk, unflushed, inReceive, ret, typeNames,
                   skipDecoding, raised, input, eof, sent, owed, finished, nRuns>>

File == disk[input[fileNo]]

\* receive_log_packet is called only after a read that returned something
StaleReturnMutant ==
    /\ pc = "read"
    /\ LET end == IF pos + ReadSize < Len(File) THEN pos + ReadSize ELSE Len(File)
       IN  /\ buffer' = buffer \o SubSeq(File, pos + 1, end)
           /\ eof' = (end = pos)
           /\ pos' = end
    /\ inReceive' = ~eof'
    /\ pc' = "receive"
    /\ UNCHANGED <<whitelist, logPath, disk, unflushed, ret, taken, typeNames,
                   skipDecoding, raised, input, fileNo, sent, owed, finished, nRuns>>

ReadAndFeed ==
    /\ pc = "read"
    /\ LET end == IF pos + ReadSize < Len(File) THEN pos + ReadSize ELSE Len(File)
       IN  /\ buffer' = buffer \o SubSeq(File, pos + 1, end)
           /\ eof' = (end = pos)
           /\ pos' = end
    /\ inReceive' = TRUE
    /\ pc' = "receive"
    /\ UNCHANGED <<whitelist, logPath, disk, unflushed, ret, taken, typeNames,
                   skipDecoding, raised, input, fileNo, sent, owed, finished, nRuns>>

Receive ==
    /\ pc = "receive"
    /\ ReceiveLogPacket(skipDecoding)
    /\ UNCHANGED replayVars

\* receive_log_packet has returned
Returned == pc = "receive" /\ ~inReceive

\* The loop ends with the file, whatever is still in the native buffer
CloseAtEofMutant ==
    /\ Returned /\ eof
    /\ pc' = "open"
    /\ UNCHANGED <<nativeVars, typeNames, skipDecoding, raised, input, fileNo, pos,
                   eof, sent, owed, finished, nRuns>>

CloseFile ==
    /\ Returned /\ eof /\ ~ret.some
    /\ pc' = "open"
    /\ UNCHANGED <<nativeVars, typeNames, skipDecoding, raised, input, fileNo, pos,
                   eof, sent, owed, finished, nRuns>>

\* The end of the file is not noticed
ReadForEverMutant ==
    /\ Returned
    /\ ret.some => ret.pkt = <<>>
    /\ pc' = "read"
    /\ UNCHANGED <<nativeVars, typeNames, skipDecoding, raised, input, fileNo, pos,
                   eof, sent, owed, finished, nRuns>>

\* Nothing to dispatch: no packet, or one that the sampling gave up
ReadOn ==
    /\ Returned
    /\ \/ ~ret.some /\ ~eof
       \/ ret.some /\ ret.pkt = <<>>
    /\ pc' = "read"
    /\ UNCHANGED <<nativeVars, typeNames, skipDecoding, raised, input, fileNo, pos,
                   eof, sent, owed, finished, nRuns>>

Dispatch ==
    /\ Returned /\ ret.pkt # <<>>
    /\ LET p == ret.pkt[1]
       IN  /\ p.payload \notin Malformed
           /\ sent' = IF Wanted(p.payload)
                      THEN Append(sent, [file |-> fileNo, end |-> p.end,
                                         payload |-> p.payload])
                      ELSE sent
    /\ pc' = "read"
    /\ UNCHANGED <<nativeVars, typeNames, skipDecoding, raised, input, fileNo, pos,
                   eof, owed, finished, nRuns>>

\* DMLogPacket() raises RuntimeError, never FormatError: run() calls sys.exit
DecodingFails ==
    /\ Returned /\ ret.pkt # <<>>
    /\ ret.pkt[1].payload \in Malformed
    /\ pc' = "exited"
    /\ UNCHANGED <<nativeVars, typeNames, skipDecoding, raised, input, fileNo, pos,
                   eof, sent, owed, finished, nRuns>>

\* The Monitor.STOP event carries no data, and the analyzers drop it
FinishRun ==
    /\ pc = "open" /\ fileNo = Len(input)
    /\ pc' = "config" /\ finished' = TRUE
    /\ UNCHANGED <<nativeVars, typeNames, skipDecoding, raised, input, fileNo, pos,
                   eof, sent, owed, nRuns>>

Configure ==
    \/ \E names \in EnableSets : EnableLog(names)
    \/ \E path \in Paths : SaveLogAs(path)
    \/ \E skip \in SkipChoices : SetSkipDecoding(skip)
    \/ \E list \in InputLists : SetInputPath(list)
    \/ StartRun

Run == OpenFile \/ ReadAndFeed \/ Receive \/ CloseFile \/ ReadOn \/ Dispatch
          \/ DecodingFails \/ FinishRun

ReplayNext == Configure \/ Run

ReplaySpec == ReplayInit /\ [][ReplayNext]_vars

\* run() is a loop in one thread: while it has not ended it takes another
\* step.  (Run is enabled exactly then, so this is WF_vars(Run).)
Running == pc \in {"open", "read", "receive"}
Progress == []<>~Running \/ []<><<Run>>_vars

FairReplaySpec == ReplaySpec /\ Progress

-----------------------------------------------------------------------------
(* Properties *)

Event == [file : Nat, end : Nat, payload : Seq(Byte)]

(* Every variable holds what it is declared to hold; above all, run() is   *)
(* never past the end of its list of files.                                *)
TypeOK ==
    /\ NativeTypeOK
    /\ pc \in {"config", "open", "read", "receive", "exited"}
    /\ typeNames \subseteq Names
    /\ skipDecoding \in BOOLEAN /\ raised \in BOOLEAN
    /\ input \in Seq(Paths) /\ fileNo \in 0..Len(input) /\ pos \in Nat
    /\ eof \in BOOLEAN /\ finished \in BOOLEAN
    /\ sent \in Seq(Event)
    /\ nRuns \in 0..MaxRuns

\* A run is going on, or has just ended
Replaying == pc # "config" \/ finished

(* The analyzers see packets in the order of the files and of the frames   *)
(* in them, and none twice, although packets wait in the native buffer     *)
(* for later reads and the buffer is shared by all the files.              *)
SentInOrder ==
    \A i, j \in DOMAIN sent :
        i < j => \/ sent[i].file < sent[j].file
                 \/ sent[i].file = sent[j].file /\ sent[i].end < sent[j].end

(* Whatever the analyzers see is an intact frame of the file it is said to *)
(* come from: never one pieced together from two reads, or from the end of *)
(* one file and the start of the next.                                     *)
OnlyWhatIsDue ==
    Replaying =>
      \A i \in DOMAIN sent :
        LET bytes == disk[input[sent[i].file]]
        IN  /\ sent[i].end \in DOMAIN bytes /\ IsDue(bytes, sent[i].end)
            /\ sent[i].payload = PacketAt(bytes, sent[i].end)

(* When run() leaves a file, every packet of it that both filters let       *)
(* through has been sent, however many were still in the native buffer     *)
(* when the last bytes were read.  (Deferred decoding samples packets away *)
(* and is left out; what the filter by name drops is in AskedForIsSent.)   *)
NothingIsLost ==
    (pc = "open" \/ finished) /\ ~skipDecoding =>
      \A k \in 1..fileNo : \A e \in DOMAIN disk[input[k]] :
        IsDue(disk[input[k]], e) =>
          \E i \in DOMAIN sent : sent[i].file = k /\ sent[i].end = e

-----------------------------------------------------------------------------
(* The replayer as a PacketFeed *)

Feed == INSTANCE PacketFeed WITH
    phase    <- IF Running THEN "running" ELSE IF pc = "exited" THEN "exited" ELSE "idle",
    sampling <- Running /\ skipDecoding,
    owed     <- IF Running THEN owed ELSE <<>>,
    handed   <- IF Running THEN sent ELSE <<>>

(* A run hands the analyzers the packets of its files that both filters    *)
(* let through, in order and each once, and leaves one out only when it    *)
(* samples.                                                                *)
ImplementsFeed == Feed!FeedSpec

\* The frame that ends at byte e holds a packet that the native filter saves
IsSaved(bytes, e) ==
    /\ bytes[e] = DELIM
    /\ CrcCorrect(FrameEndingAt(bytes, e))
    /\ GetLogType(PacketAt(bytes, e)) \in whitelist

\* The packets of a file that go into the saved log
Saved(bytes) ==
    Picked([e \in DOMAIN bytes |-> PacketAt(bytes, e)],
           {e \in DOMAIN bytes : IsSaved(bytes, e)}, Len(bytes))

\* Custom packets and deferred decoding do not go together: see NothingLeftAtEof
SkipsCustomPackets ==
    /\ skipDecoding
    /\ \E k \in DOMAIN input : \E e \in DOMAIN disk[input[k]] :
          LET bytes == disk[input[k]]
          IN  /\ bytes[e] = DELIM /\ CrcCorrect(FrameEndingAt(bytes, e))
              /\ IsCustomPacket(PacketAt(bytes, e))

(* After a run the saved log ends with exactly the packets of the input    *)
(* that pass the filter, in order and decodable again, those that the      *)
(* sampling kept from the analyzers included.                              *)
SavedLogReplays ==
    finished /\ logPath # <<>> /\ ~SkipsCustomPackets =>
      LET content == disk[logPath[1]] \o unflushed
          parts == [k \in DOMAIN input |-> Saved(disk[input[k]])]
      IN  IsSuffix(FlattenSeq(parts), Saved(content))

(* "EOF encountered and no message can be received any more": run() leaves *)
(* a file only when the native buffer holds no frame.  It does not hold    *)
(* when decoding is deferred: a custom packet then makes                   *)
(* receive_log_packet return None although frames wait behind it.          *)
NothingLeftAtEof == pc = "open" /\ fileNo > 0 => ~HasFrame(buffer)

(* "Enable the messages to be monitored", for enable_log: when run() leaves *)
(* a file, every intact packet of it whose id an enabled name stands for    *)
(* has been sent (the enable_log raised nothing, and decoding is not        *)
(* deferred).  It does not hold for a name that is not the first of its id: *)
(* the native filter goes by id and lets the packet through, and run()      *)
(* compares the first name and drops it.                                    *)
AskedForIsSent ==
    (pc = "open" \/ finished) /\ ~skipDecoding /\ ~raised =>
      \A k \in 1..fileNo : \A e \in DOMAIN disk[input[k]] :
        LET bytes == disk[input[k]]
        IN  /\ bytes[e] = DELIM /\ CrcCorrect(FrameEndingAt(bytes, e))
            /\ \E n \in typeNames : GetLogType(PacketAt(bytes, e)) \in IdsOf[n]
            => \E i \in DOMAIN sent : sent[i].file = k /\ sent[i].end = e

(* A run that has started ends: it never reads the end of a file for ever. *)
RunEnds == Running ~> ~Running

=============================================================================
