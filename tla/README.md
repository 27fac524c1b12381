# A TLA+ model of MobileInsight core

MobileInsight reads the diagnostic stream of a phone's modem, decodes the
packets in it and hands them as events to analyzers. This directory models how
packets travel from the modem to the analyzers, and how the modem, the processes
and the analyzers around that path are configured. TLC checks the model on small
instances, and TLAPS proves the central safety properties for all of them.

## The system

Paths are relative to the repository. "State" is what outlives a call.

| Component | State | Operations | Talks to |
|---|---|---|---|
| HDLC framing, `dm_collector_c/hdlc.cpp` | `static std::string buffer` | `encode_hdlc_frame`, `feed_binary`, `reset_binary`, `get_next_frame`, `check_frame_format` | the native decoder |
| Native decoder, `dm_collector_c.cpp`, `export_manager.cpp` | `g_emanager` (filter, file being saved), the sampling clock | `set_filtered`, `set_filtered_export`, `feed_binary`, `reset`, `receive_log_packet` | all monitors: one instance per process |
| Modem configuration, `log_config.cpp`, `dm_collector_c.cpp` | that of the modem | `enable_logs`, `disable_logs`, `generate_diag_cfg` | the serial line, `Diag.cfg` |
| Packet decoding, `log_packet.cpp`, its tables and header files | none | a payload into a list of fields | the native decoder |
| Offline replayer, `monitor/offline_replayer.py` | `_type_names`, `_input_path`, `_skip_decoding` | `enable_log`, `save_log_as`, `set_input_path`, `run` | native decoder, analyzers |
| Live collector, `monitor/dm_collector/dm_collector.py` | `_type_names`, the serial port | `enable_log`, `run` (does not return) | serial line, native decoder |
| Android monitor, `monitor/android_dev_diag_monitor.py` | the FIFO, `ChronicleProcessor`, the daemon thread, log files | `run`, pause, stop, restart of `diag_revealer` | `diag_revealer`, native decoder |
| MTK monitors, `android_mtk_monitor.py`, `mtk_*.py` | a tailed file, a parser | `run` | a logger process |
| Wireshark dissector, `dm_endec/ws_dissector.py`, `ws_dissector/` | a child process and two pipes | `init_proc`, `decode_msg` | `dm_log_packet.py` |
| Elements and analyzers, `element.py`, `analyzer/analyzer.py` | `from_list`, `to_list`, a class-wide registry | `set_source`, `include_analyzer`, `reset`, `recv`, `send` | monitors, each other |
| State machines, `state_machine.py` and the analyzers that define one | current state, last event, history | `update_state` | the analyzer's filter |
| Spans, `mm_analyzer.py` | lists of open and closed spans | one callback per message | |
| KPI, latency and mobility analyzers | counters, queues | one callback per message | profiles |

What makes the system hard:

* **One buffer, many packets.** A read returns 64 bytes, which may hold two
  packets or half of one; `receive_log_packet` returns one packet per call.
  Packets queue up in a buffer nobody can look into, and the loop of each
  monitor must drain it. The buffer, the filter and the saved file belong to the
  process, not to the monitor.
* **A lossy line.** Frames are cut, bytes are lost or altered; the reader has to
  find its way back.
* **State kept twice.** The filter exists as names in Python and as ids in the
  native module, and one id has two names; a source is known to the analyzer and
  the analyzer to its source. A call that raises in the middle changes one of them.
* **A modem that remembers.** It goes on logging what it was last asked for,
  whoever asked, until somebody turns it off.
* **Errors in the middle.** Decoding may raise, `fopen` may fail, a child
  process may die, `diag_revealer` is restarted by a thread of its own.
* **Tables and code apart.** A decoder looks up fields by strings that a table
  elsewhere declares, and takes bits by shifts and masks that suppose its widths.
* **Inference from an incomplete stream.** State machines and spans are driven
  by messages that may be missing, repeated or filtered.

What makes each component correct:

* Framing: only frames written intact are taken, in order; after damage, all
  later intact frames are taken.
* Native decoder: the filter and the export see every packet once; what it
  returns comes from one frame.
* Modem configuration: the modem logs what was asked for and nothing else, and
  stops when the program does (debug messages do not: see Findings).
* Packet decoding: every lookup finds a number, every bit comes from a word that
  has it, and the next record is read from where it is.
* A monitor: the analyzers get the packets they are owed, in order, each once.
  This is the abstract specification `PacketFeed`.
* Chronicle parser: the result does not depend on where the stream is cut.
* Dissector: each answer belongs to its request, and neither process waits for
  ever.
* Analyzers: an event reaches each registered analyzer once and the included
  ones first; an analyzer's state is that of the phone.

## The modules

| Module | Models |
|---|---|
| `Hdlc` | `hdlc.cpp` as operators; the checksum `Crc` is a parameter |
| `Crc16` | `calc_crc`, its table computed from the polynomial (for TLC only: it uses `Bitwise`) |
| `HdlcLink` | a writer, a bad line and a reader of frames |
| `DmCollectorC` | the native module: filter, export, `receive_log_packet`; extends `Hdlc` |
| `OfflineReplayer` | the offline replayer, its caller and the files it reads and writes; extends `DmCollectorC` |
| `LogConfig` | the commands for a modem, and a modem that obeys them |
| `DMCollector` | the live collector, its serial line and the modem; extends `DmCollectorC` and `LogConfig` |
| `PacketFeed` | what a monitor promises the analyzers; `OfflineReplayer` and `DMCollector` implement it |
| `ChronicleProcessor` | the parser of the stream that `diag_revealer` writes |
| `AndroidDevDiagMonitor` | `run()`, the daemon thread, `diag_revealer`, the FIFO; extends `ChronicleProcessor` and `LogConfig` |
| `WSDissector` | `decode_msg`, `main()` of the child and the pipes between them |
| `LteRrcStates` | `state_machine.py` with the table of `lte_rrc_analyzer.py` |
| `Analyzers` | elements, analyzers, the built-in RRC analyzers, `KPIManager` and a phone; extends `LteRrcStates` |
| `Layout`, `LogPacketDecoder` | the instructions that the decoders of log packets consist of, and their execution |
| `PdschLayouts`, `PdcchLayouts`, `PhyUplinkLayouts`, `MeasurementLayouts`, `LinkLayerLayouts` | the decoders themselves |
| `MC...` | the instance of a module for TLC |
| `..._proofs` | the theorems about a module, with their proofs; `Encoding_proofs` is about frames and streams, `Decoders_proofs` about `WSDissector` and `LogPacketDecoder` |

### `Hdlc` and `HdlcLink`

Bytes are the naturals 0..255 and a frame is a sequence of them, because where
the delimiters and escapes stand is what the code is about. `Unescape` is written
as a recursive function, so that it can be proved about. `FrameEndingAt` says
without a buffer what a frame of a file is; the properties use it, the reader
does not.

In `HdlcLink` the writer's side is `SendMsg`; `SendThroughNoise` is the line,
which loses or alters one byte of a frame; `FeedBinary` is a read of any of the
sizes in `ChunkSizes`; `GetNextFrame` takes a frame.

### `DmCollectorC`

`buffer`, `whitelist`, `logPath`, `disk` and `unflushed` are the static buffer and
`g_emanager`: `log_fp` writes through stdio, so the file on the disk grows by whole
blocks (`BlockSize`) and the rest is in `unflushed` until the file is closed.
`receive_log_packet` is a loop: `inReceive` says that it is looping, `ret` what it
returned, and each way an iteration can end is an action (`NoMoreFrames`,
`BrokenFrame`, `CustomFrame`, `FilteredFrame`, `ExportedFrame`). A call of the
native module holds the interpreter lock, so nothing else of the process runs
between these. Packets are known by their first bytes, as in the code: a custom
packet is returned before the filter and the export see it, and returns None when
decoding is deferred. Sampling (`decode_log_packet` looks at the processor clock)
is a free choice, allowed only when decoding is deferred. `fopen` may fail.

`LogPacketTypeID_To_Name` is the table of `consts.h`, a parameter of which nothing is
assumed: a name may stand for several ids and an id have several names. `IdsOf` are
the ids that the native filter lets through for a name, `search_name` the one name
that a decoded packet of an id has.

### `OfflineReplayer`

The caller's calls are `EnableLog`, `SaveLogAs`, `SetSkipDecoding`, `SetInputPath`
and `StartRun`, in any order; `pc` is the place in `run()`. Between two steps of
`run()` no call of the caller can happen, because it runs in the caller's thread.
`OpenFile` resets the native buffer; `ReadAndFeed` reads, feeds and calls
`receive_log_packet`; `CloseFile`, `ReadOn`, `Dispatch` and `DecodingFails` are the
branches on its result, `FinishRun` the end of the list. `Malformed` are the
packets whose Python half of the decoding raises. A packet has to pass two filters:
the native one by id (`PassesFilter`) and that of `run()` by name (`Wanted`). What the
analyzers are owed (`owed`) is what passes both.

`sent` is what the analyzers got in this run, each event with the file and the
byte its frame ended at. `taken`, `owed`, `finished` and `nRuns` are history: no
guard but the bound on `nRuns` reads them.

Assumed of the caller: an input path is set before `run()` (otherwise it exits at
once), and a log is not saved to a file that is being replayed.

### `LogConfig` and `DMCollector`

A type id is an equipment id and an item; a command (`SetMask`) sets the items of
one equipment id by a mask of bytes and bits, with the fixed lengths of
`log_config.cpp` for some of them. `LogConfigMsgs` is the sequence of commands of
`enable_logs`, `DiagCfg` the whole of `Diag.cfg`. `Obeyed` is what a modem makes of
a command. The twelve header commands and the last one, which ask for versions
and the like, are of one kind without effect. Debug messages have commands of their
own, `DebugWcdma` and `DisableDebug`; only `Diag.cfg` has the second, so the live
collector never turns them off. `LogsExactly` says what a modem logs, debug messages
included.

`DMCollector` puts the native module behind a serial line: `line` holds commands
on their way to the modem, `stream` every byte that came from it and `pos` how many
of them were read. The steps of `run()` are `OpenPort`, `DisableLogs`,
`EnableLogs`, `WriteConfig` (one command), `LogsEnabled`, then the loop of
`ReadAndFeed`, `Receive`, `ReadOn`, `Dispatch`, `DecodingFails`; `DisableAndClose`
is the except clause. `Interrupt` may come between any two steps of Python code,
`WriteFails` and `ReadFails` are a port that fails. The places a run ends in are
told apart: `exited` (the handler ran), `failed` (the clause that does not disable
the logs), `raised` (the handler itself raises, having no port), `crashed`
(`send_msg` in the native module). The modem obeys (`Obey`) and logs (`Log`) when it
likes, and only types that are on.

### `ChronicleProcessor` and `AndroidDevDiagMonitor`

`process()` is a loop that consumes a piece of the stream; one action is one
iteration (`ReadType`, `ReadMsgLen`, `ReadTs`, `ReadPayload`, `ReadFilename`).
Lengths are signed 16-bit numbers and may be negative after the time stamp is
subtracted, with Python's slices at negative indices, as in the code. `ret` is
what it returns, `piece` what it has not consumed.

In `AndroidDevDiagMonitor` a `Diag.cfg` may be there before (`CfgsBefore`); it is used
when no type was enabled. Three threads and a process interleave: `run()` (`pc`),
the daemon (`daemon`), the thread that pauses (`pause`), and `diag_revealer`, of
which `starting` instances have been started and are not yet shown by `ps`, and
`alive` ones write to the FIFO. `Die` may happen between records or inside one
(`DieInRecord`, which sets `cut`). The FIFO blocks as POSIX says: opening it waits
for a writer, a read waits for a byte as long as somebody writes. `fed` is what
reaches the native module and the analyzers from the stream.

### `WSDissector`

`parent` is the place in `decode_msg`, `child` that in `main()` of
`ws_dissector.cpp`. A request is a type, a length and a body, an answer
`AnswerLines` lines and a delimiter; both pipes and the buffer of the child's
stdout have a size. `Flush` is the `fflush` at the top of the child's loop,
`PrintLine` a `printf` into a buffer that may be full. `Dissected` is what the child
hands libwireshark, with the framing header it puts before PDCP messages; the
answer is an unknown function of it. `LineNotUtf8` is the `UnicodeDecodeError` that
leaves the rest of an answer in the pipe, `Crash` a death inside libwireshark,
`Exit` the end of the parent.

### `LteRrcStates` and `Analyzers`

Everything runs in one thread, and several functions recurse: `calls` is the
stack of the running calls, and an action runs the innermost one up to its next
call (`include_analyzer`, `check_kpis`, `set_source`, `SourceSet`, `recv`, `Return`).
`Included` is what the constructor of each class includes, read off the classes.
Analyzers are numbered in the order they are made; `analyzer_array` is the
class-wide registry by name. `SendsOn` says which analyzers pass a message on:
`LteRrcAnalyzer.__rrc_filter` and `RrcAnalyzer`. The user makes analyzers, sets
sources, enables KPIs and resets the registry, in any order, between messages.

The phone changes its RRC state by messages over the air or by timers
(`Changes`); the latter are logged in batches. A batch may be written after an
over-the-air message that is later than its records (`overtaken`): the analyzers that
these messages reach have not been sent them in the phone's order, and are in `missed`
like those that a message has passed by. Of the phone it is assumed that it receives
a release in a connected state without DRX (receiving starts its inactivity timer).
`Tracked` is what an
`LteRrcAnalyzer` makes of a message: `update_state` is called once by
`ProtocolAnalyzer` and once more by `__rrc_filter` for over-the-air messages.

### `Layout`, `LogPacketDecoder` and the layouts

The decoders are some 20 000 lines of one kind of code: a table of names and
widths is applied to the next bytes, fields are looked up by name, replaced by
bits of a word, mapped to strings; a loop opens a list per record; the offset is
moved over free slots or to the end of a subpacket. `Layout` names these as
instructions, `LogPacketDecoder` executes a sequence of them (`DecodeByFmt`,
`SearchResult`, `SplitWords`, `ReplaceResult`, `MapToName`, `Branch`, `OpenList`,
`AppendList`, `SkipFreeSlots`, `ReadSize`, `SkipRest`), and the five modules of
layouts write down what the decoders are: one definition per table and version,
with names, widths, shifts and masks read off the code. A table lists only the
fields its decoder comes back to; the rest count in bytes. Values are left out:
every branch and every number of records up to `MaxCount` is taken.

The state is a stack of the lists being filled. A list (`Opened`) has its fields and
what is left of its layout; around it are the variables that differ from packet to
packet (`Started`): the offset, the rest of the loop, the length of the last record.
What an instruction makes of a list (`Following`) depends on neither these nor the
lists around it. So the properties are about one list at a time, but for the part of
`OffsetIsRight` that is about free slots.

There is no action for a lookup that fails, because the code asserts there or
uses a null pointer: a decoder whose next instruction is not enabled has crashed.
So this run checks for deadlock too.

## The runs

| Run | States | Shows |
|---|---|---|
| `hdlc_link` | 63 175 | frames over a bad line |
| `replay` | 224 704 | replays of saved logs |
| `dm_collector` | 215 812 | the live collector and its modem |
| `android_diag` | 271 681 | `run()`, the daemon, `diag_revealer` |
| `ws_dissector` | 40 261 | requests, answers and two processes |
| `analyzers` | 736 239 | links, sources, messages, the RRC state |
| `log_packets` | 28 056 | the decoders |
| `eof_with_frames`, `alias_unheard`, `debug_left_on`, `mask_with_holes`, `dependencies_first` | violations | see Findings |

**`hdlc_link`**: three frames, one of them damaged, cut into reads of 2 or 64
bytes. The payloads consist of the bytes that are escaped, a byte that looks like
an escaped delimiter, and the line can turn a byte into each of these. With three
frames there is one before and one behind the damaged one. One damaged frame is
the bound because two alterations can make up a frame with a correct CRC (a
16-bit checksum does not exclude it, and TLC finds one); the property is about
what the framing does, not about how strong the CRC is. `MCHdlcLink` evaluates
`DamageIsDetected`, which says just this for the CRC of the code: of the frames
that the damage can leave on the line (`BrokenFrames`) none has a correct CRC. It
is true with one damaged frame and false with two, and it is the hypothesis of the
theorem about any number of them. `MCHdlcLink` also evaluates the encoder on the
test vectors of `hdlc_frame.py`.

* `OnlyIntactFramesInOrder`, `Resynchronises`: nothing but what was written
  intact behind a delimiter is taken, and all of that.

**`replay`**: three pairs of logs that hold packets of two types, debug, custom and
malformed packets, a packet behind the eight-byte prefix, a frame with a wrong
CRC, an empty frame and a frame cut off by the end of the file. A read returns 16
bytes and a packet takes 5 to 20, so a read holds two packets, or the end of one
and the start of the next, as 64 bytes of a real log do, and a file leaves up to
three packets to the drain at its end. Two runs, so that what one run leaves
behind (buffer, filter, open log) meets the next one; the log saved by the first
can be the input of the second. The block size of 32 bytes leaves part of a saved
log unflushed. As in `consts.h`, one id has two names; of the three sets of names that
are enabled one holds its first name, one its second, and one a name that is not
supported.

* `SentInOrder`, `OnlyWhatIsDue`, `NothingIsLost`: order and no duplicates;
  nothing that is not an intact packet of that file; all that both filters let
  through. "Let through" is said of the bytes of the file, not of the buffer. That the
  two filters let different packets through is `alias_unheard`.
* `SavedLogReplays`: the saved log ends with the packets that passed the filter,
  decodable again.
* `RunEnds`: a run ends. `ImplementsFeed`: the replayer implements `PacketFeed`.

**`dm_collector`**: types of three equipment ids, debug messages, answers to
commands, and a message whose decoding raises; a modem that logs nothing, or types
of two equipment ids and debug messages, when the port is opened; a line that is empty or holds the
end of a frame. Three messages of 5 to 13 bytes and reads of 16, so that messages
wait in the buffer behind the one that a read returns.

* `ModemLogsWhatIsAsked`: once `run()` reads and the modem has obeyed, exactly the
  wanted types of all equipment ids are on, and debug messages if they are wanted or
  were on before (`ToBeLogged`).
* `InterruptDisablesTypes`: after an interrupt, at whatever command, the types are off.
  Debug messages are not: `debug_left_on`.
* `ImplementsFeed`, with what the modem sent as what is owed.

**`android_diag`**: three kinds of records, written whole or cut by a death, read in
pieces of up to three bytes (a record takes 5 to 8, so every field is cut at every
byte); one death, two records, a modem that logs something else before, and a
`Diag.cfg` from before or none. The time stamp has two bytes instead of eight, so that cuts inside it are few.

* `OneRevealer`: two threads never start a second `diag_revealer`.
* `FedWhatWasLogged`: payload bytes and ends of files arrive once and in order,
  wherever the stream is cut.
* `ModemLogsWhatIsAsked`: after any restart; without enabled types, what the `Diag.cfg`
  from before says.
* `RunGetsGoing`, `EverythingIsProcessed`, `PauseReturns`: liveness of the three
  threads.

**`ws_dissector`**: messages with and without a framing header, one that is answered
with bytes that are no UTF-8; a request pipe that holds two or three requests, an
answer pipe and a stdout buffer that hold less than one answer, so that both sides
block; five calls, so that the pipes meet answers left behind by earlier calls.

* `AnswersInStep`: which answer a call returns, also after calls that raised.
* `DecodeReturns`, `ChildLeavesWithParent`: neither process waits for ever, with the
  exceptions the property names.

**`analyzers`**: up to five analyzers, of which three share others, two monitors (a
symmetric set), two calls of `set_source`, `enable_kpi` or `reset`, two messages.
Two settings move an analyzer to another source with everything below it; five
analyzers are one of each class of the deepest inclusion and a second one above.

* `LinksAgree`: both ends of each link agree; no `KeyError` in `recv`.
* `HeardOnceInOrder`, `TopHearsLast`: each message once, from each sender, and
  included analyzers first.
* `FollowsPhone`: the RRC state that is tracked is the phone's, for all that have been
  sent the messages in order. For the others it is not: a record that comes after a
  release leaves the analyzer in a connected state (`lte_rrc_analyzer.py:179`). The
  repository does not say in which order a modem writes its records, so this is not
  run as a violation.

**`log_packets`**: 62 decoders of 21 packet types that hold all of
the properties, every branch, up to two records, streams and cells in each list
(two is what a wrong stride or a missing reset of a slot takes to show). Left out
of this run are the decoders named in `MCLogPacketDecoder` (`LookUpNothing`,
`ReachBeyondTheWord`, `GiveBitsTwice`, `MaskWithHoles`): for each of them a property
fails, as listed below. `LeftOut` names the placeholders that no code fills.

* `LookupsSucceed`, `BitsAreInTheWord`, `BitsAreGivenOnce`, `BitsAreOfOnePiece`,
  `PlaceholdersAreFilled`, `OffsetIsRight`. A piece of a word is a shift and the number
  of bits of the mask; a mask without its lowest bits, like 4096, is two pieces with a
  hole between them, and a product (`Multiplied`) is no piece. Two fields are never
  given the same bit, whatever their names, but for those in `GivenTogether`: there
  the code takes both from the same bits, and gives no width that says otherwise.

`MCLogPacketDecoder` also evaluates, without a bound on records, that the 1273 lists
which the instructions make of one another (`ReachedLists`) are closed under `Following`
(`MCIsClosed`), and that the 82 steps in which the records with free slots behind them
are decoded (`ReachedRecords`) are of the sizes they add up to (`MCAreRecords`). These
are hypotheses of the theorems about decoders. Two records per list are enough to
reach all of these lists, so the rest of the hypotheses is what the invariants say of
the innermost list.

### Fairness

* `FairReplaySpec`: `run()`, while it has not ended, takes another step. It is a loop
  in one thread in which every step is enabled (`ENABLED Run` is `Running`, so this
  is weak fairness of `Run`, in a form that TLC evaluates without `ENABLED`). Nothing
  is assumed of the caller.
* `FairCollectorSpec`: `WF(DisableAndClose)`, because an except clause that has begun
  is executed to its end or raises (`WriteFails` may still end it otherwise), and
  `WF(Obey)`, because a modem obeys what was written to its port. Nothing is assumed
  of reads: the modem may be silent.
* `FairAndroidSpec`: `WF(Run)`, `WF(Daemon)` and `WF(PauseRaises)`, because threads are
  scheduled and a sleep ends; `WF(Appear)`, because a process that was started
  appears. Deaths and records are free. That a process appears within the five
  seconds that the daemon sleeps is not fairness but a guard (`WakeUp`), and an
  assumption: without it `OneRevealer` is false, as its mutant shows.
* `FairSpec` of `WSDissector`: `WF(Parent)` and `WF(Child)`, since both processes are
  scheduled. Calls, exits and crashes are free.

Deadlock is checked only in `log_packets`: the bounds end the other systems, and a
process that has exited stops.

### Findings

1. `eof_with_frames`. With deferred decoding a custom packet makes
   `receive_log_packet` return None, which at the end of a file ends the loop
   (`offline_replayer.py:196`, "EOF encountered and no message can be received any
   more") although frames are left; the next `reset()` drops them.
2. `alias_unheard`. The id 0xB0C1 has two names (`consts.h:211-214`), both of which
   `enable_log` accepts ("Enable the messages to be monitored"). The native filter goes by
   id, but a packet is decoded under the first of the names (`search_name`), and `run()`
   drops it if only the second was enabled (`offline_replayer.py:212`).
3. `debug_left_on`. After "Disabling all logs" (`dm_collector.py:171`) debug messages stay
   on: `disable_logs` writes DISABLE (`dm_collector_c.cpp:227`), and DISABLE_DEBUG is
   written into `Diag.cfg` only (`:589`). For the same reason a modem goes on sending those
   that someone else has turned on to a collector that did not ask for them.
4. `mask_with_holes`. The uplink report takes "ACK Payload" with the mask 0x15
   behind the comment "4 bit" (`lte_phy_pusch_tx_report.h:656` and five more), which
   loses two of the bits. The same property fails, in decoders left out of
   `log_packets`, for "Ack Nack Index", masked with 4096 behind the comment "12 bits"
   (`lte_phy_pusch_tx_report.h:1558,1823,2099,2375`, and the widths at `:265,516`): it is
   0 or 4096, by the bit that "Ack Nack Late" is taken from, one line below.
5. `dependencies_first`. "The included analyzers should be evaluated first, then top
   analyzer" (`analyzer.py:84`): an analyzer shared by two others is deregistered and
   appended again when the second is given its source, behind the first.

Seen while modelling, and not run as violations, mostly because no statement of the
repository contradicts them:

* Replayer. `enable_log` stores a name before it is rejected
  (`offline_replayer.py:120-123`), so every later call raises `ValueError` as well
  ("unsupported message type encountered"). A packet that cannot be decoded raises
  `RuntimeError`, of which the `FormatError` caught at `offline_replayer.py:221` ("skip
  this packet") is a subclass: the process exits (`:230`).
* Decoders. More masks with holes: `log_packet.cpp:1209,1375`, `& 47` at
  `lte_pdsch_stat_indication.h:524,1327,1499,1680`, and products instead of masks
  (`* 63`, `* 0x7f`) at `lte_phy_pusch_tx_report.h:1521,2062,2320`. Values taken from the
  bits of another field: RSSI and RSRQ from those of the first antenna
  (`log_packet.cpp:2209-2211`, where version 22 has a word for RSRQ, `:2509`), and the
  ACK/NACK decision from the CRC's (`lte_pdsch_stat_indication.h:512`). Lookups of names
  that no table has: `lte_pdsch_stat_indication.h:1403`, `log_packet.cpp:8755`. Parts
  beyond their word: `log_packet.cpp:903,1014,1157,1322,1549`,
  `lte_phy_pusch_csf.h:139`. Parts over each other:
  `lte_phy_pdsch_decoding_result.h:1985-2008`, `lte_phy_pusch_tx_report.h:1746,2015`.
  `ARRAY_SIZE` of another table: `log_packet.cpp:5346`. More records than slots move
  the offset backwards (`log_packet.cpp:10627`).
* Collector. An interrupt while the port is being opened raises out of the handler;
  `send_msg` releases a null pointer when `write` raises, and the modem goes on
  logging; a read that fails exits without disabling the logs; one packet per read
  of 64 bytes lets a backlog grow when messages are shorter than a read.
* Android monitor. A record of an unknown type makes `process()` loop for ever; a
  death inside a record leaves the parser inside it; `_pause_collection` always
  raises after its wait (`.decode()` of a `str`); `_stop_collection` looks for
  another executable than the one that was started; the daemon outlives `run()`.
* Dissector. After a `UnicodeDecodeError` answers are one call behind for ever, and
  when enough of them are left behind both processes wait; when the child has died,
  `readline` returns nothing at once and `decode_msg` spins; `decode_msg` accepts
  3000 bytes and the child's buffer has 2000.
* Analyzers. `update_state` returns False when nothing changes although its docstring
  says True, so that the second call for an over-the-air message hides the
  transition from the coordinator; a KPI enabled after `set_source` has no source;
  `enable_all_kpis` passes `enable_storage` as the periodicity; includes in a circle
  would recurse for ever; `reset` leaves the links of earlier analyzers.

## The theorems

TLAPS proves these for every value of the constants that the modules' ASSUMEs
allow: every set of files and logs, messages, records and filters, every size of a
read and of a block, any number of runs, analyzers and deaths. TLC evaluates the
ASSUMEs on every run. That the checksum has 16 bits is a hypothesis of the theorems
(`Checksum16`), since TLC cannot evaluate it over all sequences of bytes; `calc_crc`
returns a `UINT16`.

* `OneDelimiterPerFrame`: an encoded frame holds the delimiter once, at its end.
* `EncodedFrameDecodes`: the frame of any payload but the empty one, whatever stands
  behind it in the buffer, is found whole, its CRC is correct, and what is read from
  it is the payload. The steps of the encoder's `FlattenSeq` and of `Unescape`
  (`FlattenSteps`, `UnescapeSteps`) are followed byte by byte; the claim that is
  carried along is `Closed`: no escape is open behind what was encoded so far.
* `OnlyIntactFramesAreTaken`: `OnlyIntactFramesInOrder` and `Resynchronises` for any
  number of damaged frames, provided `DamageIsDetected`. For a checksum that misses
  some damage the two are false, so the hypothesis is the least that can be asked;
  it speaks only of the finite set of frames that this damage leaves on the line.
  `DamageLosesNothingElse` needs no such hypothesis: whatever the checksum makes of
  the damage, and even if it lets through what nobody wrote, once everything has
  been read all the frames written intact behind a delimiter are among those taken,
  in their order. `CleanLineDelivers` is the case `MaxNoise = 0`, where nothing has
  to be detected. The invariant, `LinkInv`, says that the buffer and the wire
  together are frames, one behind the other (`Line`), each the next of those written
  intact (`IntactFrame`) or a broken one (`BrokenFrame`), and behind them what the
  last damage has left open (`LeftOpen`). That a damaged frame extends such a line
  to another, wherever the lost or altered byte is and however many delimiters it
  has become, is shown byte by byte (`DamageReached`).
* `ReplayTypeOK`. The strengthening is `ReadsAFile`: while `run()` reads, a file of
  the list is open. The work is in `DmCollectorC_proofs`: what is taken out of the
  buffer, unescaped, written to the log and returned is bytes.
* `ReplaySentInOrder`. The order of `sent` is not inductive. `OrderInv` adds that
  what was sent from this file ends at or before `taken`, the count of bytes taken
  from the buffer, and that a packet waiting to be dispatched lies strictly behind
  what was sent. Each frame taken advances `taken` by at least one.
* `ReplayOnlyWhatIsDue`. `FeedInv` says that the native buffer is the stretch of
  the file between `taken` and `pos` and begins where a frame does. Hence the frame
  that `get_next_frame` finds is the frame of the file that ends there
  (`NextFrameOfStream`), although the reader looks only at the buffer. It needs that
  the files do not change, which is why no log is saved to a file of the list.
* `ReplayNothingIsLost`. "Nothing" is what both filters let through; of the table of
  names nothing is assumed. `DeliveryInv` adds that every due frame among the bytes
  taken was sent or waits, and `NoneMeansDrained`: without deferred decoding, None
  means that no delimiter is left. At the end of the file, the bytes not taken
  then hold no frame.
* `ReplayImplementsFeed`: the replayer implements `PacketFeed`. `RefinementInv` joins
  the invariants above to `OwedIsDue` (what `StartRun` owes lists what is due in the
  files, in order: `OwedLists`) and `SentIsOwed` (what was sent is its first part).
  Two lists in the same strict order agree place by place: that the next packet is
  the next one owed takes both that nothing due in front of it was passed over and
  that nothing else is sent (`NextOwed`).
* `ReplaySavedLogReplays`. `SavedInv` says what a log holds while it is written: whole
  frames (`LogIsFrames`), decoding to what was there before the run and then to what
  passes the filter of the files done and of the bytes taken from this one
  (`LogHolds`). A frame put behind whole frames changes none of them and adds its own
  packet (`SavedBehind`); how stdio cuts it into blocks does not matter
  (`ExportAppends`). `NoneMeansAll` is where custom packets come in: passed over, they
  make `run()` leave a file with frames in the buffer.
* `CollectorImplementsFeed`: the live collector implements `PacketFeed`. `Inv` ties
  together the stream, what is due, the buffer and what was sent: `DueIsStream` (what
  is due are, in order, the packets of the stream's frames that pass the filter),
  `BufferIsStream` (the buffer is the stretch between `taken` and `pos`), and
  `SentUpTo` (what was sent last is a packet that is due, none before it is
  unhandled, and without deferred decoding all before it were sent). A read that cuts
  a frame moves `pos` only; a message lengthens the stream, and `FrameBehind` and
  `FramesStay` say that it adds its own frame and changes no earlier one.
  `LineAssumption` says what the environment is: bytes from before the port was
  opened are whole frames without a correct CRC, and a message is not one that
  `check_frame_format` cuts.
* `AndroidOneRevealer`. That the instances are at most one is not inductive:
  `RevealerInv` adds that run() starts the daemon when it has started the first one
  and none later, that when the daemon looks at `ps` nothing is starting, and that
  between its look and the restart there is no instance at all.
* `CollectorModemLogsWhatIsAsked` and `AndroidModemLogsWhatIsAsked`. The commands
  are a sequence of masks, one for each equipment id, and the claim is about the last
  of them. `Encoding_proofs` follows the modem from mask to mask: after k masks it
  logs exactly the asked types of the first k equipment ids (`AfterSome`,
  `AfterSomeNext`). For the Android monitor the commands reach the modem as one
  file (`ConfigInv`). For the live collector they are still on the serial line, or
  yet to be written, in any mixture (`PortInv`: of the sequence asked for, the modem
  has obeyed the first part, the line holds the next, and `toWrite` is the rest).
  Both need that every type the code knows fits under the mask of its equipment id
  (`TypesAssumption`, a part of `AndroidAssumption`). That is a fact about
  `LogPacketTypeID_To_Name` (`consts.h:170`) and the highest items of
  `log_config.cpp:138`; it holds of all its entries but `Modem_debug_message`, which
  is set by a command of its own.
* `AndroidFedWhatWasLogged` and `AndroidTypeOK`. The state does not say how far into
  which record the parser is, nor where records begin in the FIFO. `LoggedInv` says
  that there is a record `r` and a place `p` in it such that the field, what was read
  of it and what is missing are those of that place (`At`), and the rest of the piece
  with the FIFO behind it is the rest of `r` and whole records (`InRecord`,
  `IsStream`). `Accounts` is the balance: what the bytes read were to add is what was
  fed, what `process()` has found, and what the bytes left of the piece are to add.
  An iteration takes some bytes and moves the parser on by as many (`Moved`): one
  lemma for each field (`TypeMoves` to `FilenameMoves`), for any number of bytes, so
  any cut. A read moves bytes from one side of the balance to the other, a record
  that is written lengthens the stream (`PlaceGrows`). That `toRead` is never negative
  follows from the place (`PlaceIs`). Behind a record that was cut none of this
  holds, and only `ParserInv` is left. `AndroidAssumption` says what a record is: with
  its time stamp no longer than the 16 bits of its length express
  (`android_dev_diag_monitor.py:106`), and a file whose end is reported has a name.
* `CollectorTypeOK`, from the same invariants as `CollectorImplementsFeed` and
  `PortInv`.
* `DissectorAnswersInStep` and `DissectorTypeOK`. Nothing in the state tells which
  request or answer an item belongs to. The invariant says that there are two
  sequences: of all that was requested (`AreRequests`), of which what the child has
  buffered, the pipe and what is still to be written are consecutive parts
  (`Coming`); and of all that was answered (`AreAnswers`), of which the pipe, what
  stdio holds and what is still to be printed are (`OnTheWay`). `ReadsAnswer` says
  how far into the second `decode_msg` has read: an exception leaves it one answer
  behind, with the delimiter of the abandoned one still to be read. Each step moves
  an item from one part to the next or, for the child, turns the next request
  into the next answer.
* `AnalyzersLinksAgree`. `LinksInv` adds to the agreement of the two ends that each
  list holds no element twice (otherwise `list.remove` would leave one), that only
  analyzers that were made are linked, and that the stack holds one kind of calls at
  a time: no link changes while a message is on its way.
* `AnalyzersTypeOK` follows from `LinksInv`, `NamesAgree` (the registry holds
  analyzers of the right class) and the types of the states (`StatesType`).
* `AnalyzersHearOnceInOrder`. The danger is an analyzer that sends a message on
  twice, because two paths lead to it. `HeardInv` is about the message that is being
  sent: who has sent it on has got it from where it sends on from, which happens once
  (`HasIt`); and who is yet to be sent to has not got it from that sender. It needs to
  know what includes what: `IncludedInv` bounds `from_list` by the table of the
  constructors, also while constructors run, and says that an `RrcAnalyzer` includes
  one `LteRrcAnalyzer` at most. With two, the property would be false.
* `AnalyzersTopHearsLast`. `SettingInv` is about a `set_source` that runs: there is a
  set of analyzers, closed under inclusion, that all have the new source, and what a
  running call's analyzer includes is in it, yet to come, or what the call above it is
  for. `LatestInv` keeps such a set for the analyzer last given a source: it stands
  at the end of the source's list and outside the set, since what a class includes is
  of lower rank (`IncludableIs`: the table has no cycles), and nothing that is still
  being constructed, nor a KPI manager, is in the set, so none of it will include more.
* `AnalyzersFollowPhone`, of a phone that moves as `Changes` says. `FollowInv` has a state that all analyzers which missed
  nothing are in, from which the records that the phone has yet to write lead to its
  state, and the same from no state at all, for those that begin with this message.
  While a message is sent, those still to get it are in the state before, the others
  in the phone's. The second showing of an over-the-air message changes nothing
  (`AfterTwice`), which is a fact about the table of transitions. From an over-the-air
  message that overtakes records to the end of the one that has these, all analyzers
  that know a state are in `missed` (`NoneFollows`); behind it those that begin anew
  follow again.

  These theorems assume that `enable_kpi` is called for KPIs that `supported_kpis`
  names, all of them of classes derived from `KpiAnalyzer` (`kpi_manager.py:38`); for
  others it returns before it includes anything (`kpi_manager.py:79`).

* The decoders. `DecodersFillLists`: if a set of lists holds the first list of each
  decoder and with each list those that follow from it (`IsClosed`), nothing but
  lists of that set is ever filled, however many records a packet has and in whatever
  order its branches are taken. Hence what all lists of such a set have, all packets
  have: `DecodersFindTheirFields` (`LookupsSucceed`), `DecodersStayInTheWord`,
  `DecodersGiveBitsOnce` (but for the pairs in `SameBits`), `DecodersGiveOnePiece` and
  `DecodersFillPlaceholders`.
  `DecodersStayInRange` (`DecoderTypeOK`) adds the counters of the loops
  (`AllCounted`), and asks that there be no more records than slots, since the code
  would move the offset backwards.
  `DecodersKeepTheOffset` (`OffsetIsRight`) relates the lists to those around them
  (`SlotsKept`): what the list inside has decoded so far is a beginning of the record
  that the list around is repeating (`IsInside`), of the bytes that the instructions
  say (`AreRecords`), so that the slot of the record before is as long as those that
  are skipped (`FrameFits`). The hypotheses are about a given, finite set of lists.
  Of the decoders in `log_packets` TLC evaluates that the set is closed (`MCIsClosed`)
  and the records are records (`MCAreRecords`); what is asked of each list is what the
  invariants check when that list is the innermost.

`Encoding_proofs` begins with the induction the rest needs. The induction theorems of
the library take operators, which the provers cannot instantiate, so it goes by
hand: the sets 0..n are well-founded by inclusion, hence a set of naturals has a
least element, hence a claim that fails has a least counterexample. From it
follow that the first delimiter exists, that the recursive functions `Unescape`
and `FlattenSeq` are defined, and what they return: among others, that `FlattenSeq`
of two sequences, one behind the other, is that of the first and that of the second
(`FlattenBoth`).

Only model-checked: all liveness (beyond the prover), and the hypotheses of the
theorems about decoders. That the decoders of the code have finitely many lists, and
that those are sound, is a fact about given tables, which TLC computes (`ListsFrom` is
recursive); that it suffices is what the theorems say.

## Not modelled

* The formats of the other packet types: NR, 2G and 3G, and the signalling packets
  that are copied out whole. They are decoded by the same instructions; what is
  missing is their tables.
* The MTK monitors: the blocks they parse are those of a closed logger, and nothing
  in the repository says what is owed of them.
* The online monitor (a facade), the log output, printing, GUI, examples, installers,
  and profiles (records in SQLite).
* The spans of `MmAnalyzer`, the machines of NAS and WCDMA, link-layer statistics and
  KPI counters: what is right there depends on the numbers that a modem logs.
* Inside the components that are modelled: wording of warnings, the Android branches
  of `__init__`, `set_sampling_rate` (it moves the threshold of the sampling, which is
  a free choice), the events `STARTED` and `Monitor.STOP` (analyzers drop them because
  they carry no data), analyzers found in a local directory, `exclude_analyzer` (it
  does nothing), a second `run()` after a pause (a pause never gets that far), and
  what the child does with a body that is longer than its buffer.

## Plan

Done: framing and the link; the native module and the replayer; the live collector
with the modem; the chronicle and the Android monitor; the dissector; elements and
analyzers with LTE RRC; the decoders of LTE layers 1 and 2; their theorems.

Left, most important first: the spans of `MmAnalyzer`; the NAS and WCDMA machines as
further tables of `LteRrcStates`' automaton; the tailing MTK monitor; the tables of
the NR packets.
