----------------------------- MODULE Analyzers ------------------------------
(***************************************************************************)
(* Monitors and analyzers (element.py, monitor.py, analyzer.py): how       *)
(* analyzers include each other, how a source of messages is set for them  *)
(* and how messages reach them, with the built-in analyzers of radio       *)
(* resource control and the KPI manager.                                   *)
(*                                                                         *)
(* Everything runs in one thread.  `calls' is its stack of the calls that  *)
(* recurse, the innermost first; a step runs a call up to the next one.    *)
(*                                                                         *)
(* The phone is an environment: it changes its RRC state and has messages  *)
(* of it logged.  It writes the records of connected-mode DRX in batches,  *)
(* and a batch may be written after an over-the-air message that is later. *)
(*                                                                         *)
(* Names ending in Mutant are the mutations the checks use.                *)
(***************************************************************************)
EXTENDS Integers, Sequences, SequencesExt, LteRrcStates

CONSTANTS
    Monitors,       \* trace collectors
    Tops,           \* classes of the analyzers that the user makes
    Kpis,           \* classes that the user has a KPIManager include
    Nobody,         \* no analyzer, no source
    MaxAnalyzers,   \* bound: analyzers made
    MaxSettings,    \* bound: calls of set_source and enable_kpi by the user
    MaxEvents,      \* bound: messages of the phone
    MaxBatch        \* bound: CDRX records of a message

\* What the constructor of a class includes
Included ==
    [ WcdmaRrcAnalyzer      |-> <<>>,
      LteRrcAnalyzer        |-> <<>>,
      RrcAnalyzer           |-> <<"WcdmaRrcAnalyzer", "LteRrcAnalyzer">>,
      MobilityMngt          |-> <<"WcdmaRrcAnalyzer", "LteRrcAnalyzer">>,
      HandoffLoopAnalyzer   |-> <<"RrcAnalyzer">>,
      TrackCellInfoAnalyzer |-> <<>>,
      AttachSrAnalyzer      |-> <<"TrackCellInfoAnalyzer">>,
      TauSrAnalyzer         |-> <<"TrackCellInfoAnalyzer">>,
      KPIManager            |-> <<>> ]

Classes   == DOMAIN Included
Analyzers == 1..MaxAnalyzers

\* Two of the classes of mobile_insight.analyzer.kpi that derive from KpiAnalyzer
KpiAnalyzers == <<"AttachSrAnalyzer", "TauSrAnalyzer">>

ASSUME AnalyzersAssumption ==
    /\ Tops \subseteq Classes
    /\ Kpis \subseteq ToSet(KpiAnalyzers)         \* supported_kpis names no others
    /\ {MaxAnalyzers, MaxSettings, MaxEvents, MaxBatch} \subseteq Nat
    /\ Monitors \cap Analyzers = {} /\ Nobody \notin Monitors \cup Analyzers

VARIABLES
    class,          \* of the analyzers made so far
    analyzer_array, \* the analyzer of each name that others share
    from_list,      \* the analyzers that an analyzer includes
    to_list,        \* the analyzers that a monitor or an analyzer sends to
    source,         \* the monitor that drives an analyzer
    calls,          \* the calls that are running
    settings,       \* calls so far that MaxSettings bounds
    events,         \* messages so far
    rrc,            \* state_machine.cur_state of an LteRrcAnalyzer
    heard,          \* history: which messages an analyzer got, and from whom
    phone,          \* environment: its RRC state
    batch,          \* environment: CDRX records not yet written
    overtaken,      \* history: an over-the-air message was written before `batch'
    missed,         \* history: analyzers a message passed by since `rrc' is known,
                    \* or that were sent messages in another order than the phone's
    latest          \* history: the analyzer last given a source

linkVars  == <<class, analyzer_array, from_list, to_list, source, latest>>
phoneVars == <<phone, batch, events, overtaken, missed>>
hearVars  == <<rrc, heard>>
vars == <<linkVars, calls, settings, phoneVars, hearVars>>

Init ==
    /\ class = <<>> /\ analyzer_array = [c \in Classes |-> Nobody]
    /\ from_list = [a \in Analyzers |-> <<>>]
    /\ to_list = [e \in Analyzers \cup Monitors |-> <<>>]
    /\ source = [a \in Analyzers |-> Nobody] /\ latest = Nobody
    /\ calls = <<>> /\ settings = 0
    /\ rrc = [a \in Analyzers |-> Unknown] /\ heard = [a \in Analyzers |-> <<>>]
    /\ phone \in States /\ batch = <<>> /\ events = 0
    /\ overtaken = FALSE /\ missed = {}

-----------------------------------------------------------------------------
(* Calls *)

Idle == calls = <<>>

\* A call of fn that has yet to go through `todo'
Call(fn, of, arg, todo) == [fn |-> fn, of |-> of, arg |-> arg, todo |-> todo]

Running(fn) == ~Idle /\ Head(calls).fn = fn

\* The innermost call calls another, if it does, for the first of its `todo'
Descend(called) == called \o <<[Head(calls) EXCEPT !.todo = Tail(@)]>> \o Tail(calls)

AppendNew(list, elem) == IF elem \in ToSet(list) THEN list ELSE Append(list, elem)

Position(list, elem) == CHOOSE k \in 1..Len(list) : list[k] = elem

\* if elem in list: list.remove(elem)
Without(list, elem) ==
    IF elem \in ToSet(list) THEN RemoveAt(list, Position(list, elem)) ELSE list

-----------------------------------------------------------------------------
(* Constructors and include_analyzer *)

\* KPIManager does not include the KPIs but makes one of each
Constructor(c, a) ==
    IF c = "KPIManager" THEN Call("check_kpis", a, Nobody, KpiAnalyzers)
    ELSE Call("include", a, Nobody, Included[c])

\* An analyzer is in the array before it includes others.  The second of its
\* name is made as well but stays out of the array.
Construct(c, caller) ==
    LET a == Len(class) + 1 IN
    /\ Len(class) < MaxAnalyzers
    /\ class' = Append(class, c)
    /\ analyzer_array' = IF analyzer_array[c] = Nobody
                         THEN [analyzer_array EXCEPT ![c] = a] ELSE analyzer_array
    /\ calls' = <<Constructor(c, a)>> \o caller
    /\ UNCHANGED <<from_list, to_list, source, latest, phoneVars, hearVars>>

check_kpis ==
    /\ Running("check_kpis") /\ Head(calls).todo # <<>>
    /\ Construct(Head(Head(calls).todo), Descend(<<>>))
    /\ UNCHANGED settings

\* Included twice, it is sent to twice
AppendAgainMutant(a, other) ==
    /\ from_list' = [from_list EXCEPT ![a] = AppendNew(@, other)]
    /\ to_list' = [to_list EXCEPT ![other] = Append(@, a)]

Link(a, other) ==
    /\ from_list' = [from_list EXCEPT ![a] = AppendNew(@, other)]
    /\ to_list' = [to_list EXCEPT ![other] = AppendNew(@, a)]

\* One name: the analyzer is made if there is none of that name, then linked
include_analyzer ==
    /\ Running("include") /\ Head(calls).todo # <<>>
    /\ LET name  == Head(Head(calls).todo)
           other == analyzer_array[name]
       IN  IF other = Nobody
           THEN Construct(name, calls)
           ELSE /\ Link(Head(calls).of, other)
                /\ calls' = Descend(<<>>)
                /\ UNCHANGED <<class, analyzer_array, source, latest, phoneVars, hearVars>>
    /\ UNCHANGED settings

-----------------------------------------------------------------------------
(* set_source *)

\* The analyzer stays registered with the source it had
StaysRegisteredMutant(a, monitor) ==
    /\ to_list' = [to_list EXCEPT ![monitor] = AppendNew(@, a)]
    /\ source' = [source EXCEPT ![a] = monitor]

Register(a, monitor) ==
    /\ to_list' = LET off == IF source[a] = Nobody THEN to_list
                             ELSE [to_list EXCEPT ![source[a]] = Without(@, a)]
                  IN  [off EXCEPT ![monitor] = AppendNew(@, a)]
    /\ source' = [source EXCEPT ![a] = monitor]

\* An analyzer that has a source leaves what it includes alone
OnceMutant ==
    /\ Running("set_source") /\ Head(calls).todo # <<>>
    /\ LET other == Head(Head(calls).todo) IN
       calls' = Descend(IF source[other] = Nobody
                        THEN <<Call("set_source", other, Head(calls).arg, from_list[other])>>
                        ELSE <<>>)
    /\ UNCHANGED <<linkVars, settings, phoneVars, hearVars>>

\* First for the analyzers that it includes
set_source ==
    /\ Running("set_source") /\ Head(calls).todo # <<>>
    /\ LET other == Head(Head(calls).todo) IN
       calls' = Descend(<<Call("set_source", other, Head(calls).arg, from_list[other])>>)
    /\ UNCHANGED <<linkVars, settings, phoneVars, hearVars>>

SourceSet ==
    /\ Running("set_source") /\ Head(calls).todo = <<>>
    /\ Register(Head(calls).of, Head(calls).arg)
    /\ latest' = Head(calls).of
    /\ calls' = Tail(calls)
    /\ UNCHANGED <<class, analyzer_array, from_list, settings, phoneVars, hearVars>>

-----------------------------------------------------------------------------
(* send and recv *)

Ota(signal) == [n |-> events + 1, ota |-> TRUE, signals |-> <<signal>>]
Cdrx        == [n |-> events + 1, ota |-> FALSE, signals |-> batch]

\* The state after all signals of a message.  Over-the-air messages are shown
\* to the state machine twice, by ProtocolAnalyzer and by __rrc_filter.
Tracked(state, event) ==
    After(state, event.signals \o (IF event.ota THEN event.signals ELSE <<>>))

\* RrcAnalyzer sends on what it gets from its source too
SendsAllMutant(a, from, event) ==
    \/ class[a] = "LteRrcAnalyzer" /\ from = source[a] /\ event.ota
    \/ class[a] = "RrcAnalyzer"

\* __rrc_filter sends on the messages that it has decoded, and RrcAnalyzer what
\* it hears from these
SendsOn(a, from, event) ==
    \/ class[a] = "LteRrcAnalyzer" /\ from = source[a] /\ event.ota
    \/ class[a] = "RrcAnalyzer" /\ from # source[a]

\* recv of the next of to_list.  An element that is neither the source nor in
\* from_list would be a KeyError.
recv ==
    /\ Running("send") /\ Head(calls).todo # <<>>
    /\ LET a     == Head(Head(calls).todo)
           from  == Head(calls).of
           event == Head(calls).arg
       IN  /\ from = source[a] \/ from \in ToSet(from_list[a])
           /\ heard' = [heard EXCEPT ![a] = Append(@, <<from, event.n>>)]
           /\ rrc' = IF class[a] = "LteRrcAnalyzer" /\ from = source[a]
                     THEN [rrc EXCEPT ![a] = Tracked(@, event)] ELSE rrc
           /\ calls' = Descend(IF SendsOn(a, from, event)
                               THEN <<Call("send", a, event, to_list[a])>> ELSE <<>>)
    /\ UNCHANGED <<linkVars, settings, phoneVars>>

\* A constructor, include_analyzer or send that has gone through it returns
Return ==
    /\ Running("include") \/ Running("check_kpis") \/ Running("send")
    /\ Head(calls).todo = <<>>
    /\ calls' = Tail(calls)
    /\ UNCHANGED <<linkVars, settings, phoneVars, hearVars>>

-----------------------------------------------------------------------------
(* The user *)

Make(c) == Idle /\ Construct(c, <<>>) /\ UNCHANGED settings

SetSource(a, monitor) ==
    /\ Idle /\ settings < MaxSettings /\ class[a] \in Tops
    /\ calls' = <<Call("set_source", a, monitor, from_list[a])>>
    /\ settings' = settings + 1
    /\ UNCHANGED <<linkVars, phoneVars, hearVars>>

\* KPIManager.enable_kpi.  Several KPIs are of one analyzer.
EnableKpi(a, c) ==
    /\ Idle /\ settings < MaxSettings /\ class[a] = "KPIManager"
    /\ calls' = <<Call("include", a, Nobody, <<c>>)>>
    /\ settings' = settings + 1
    /\ latest' = IF latest = a THEN Nobody ELSE latest
    /\ UNCHANGED <<class, analyzer_array, from_list, to_list, source, phoneVars, hearVars>>

\* Analyzer.reset: those made before keep their links
Reset ==
    /\ Idle /\ settings < MaxSettings
    /\ analyzer_array' = [c \in Classes |-> Nobody]
    /\ settings' = settings + 1
    /\ UNCHANGED <<class, from_list, to_list, source, latest, calls, phoneVars, hearVars>>

-----------------------------------------------------------------------------
(* The phone, and the monitor that gets its messages *)

Changes ==
    { <<"RRC_IDLE", "rrcConnectionSetupComplete", "RRC_CRX">>,
      <<"RRC_CRX", "rrcConnectionReconfiguration", "RRC_CRX">>,
      <<"RRC_CRX", "rrcConnectionRelease", "RRC_IDLE">>,
      <<"RRC_CRX", "INACTIVITY_TIMER_START", "RRC_CRX">>,
      <<"RRC_CRX", "INACTIVITY_TIMER_END", "RRC_CRX">>,
      <<"RRC_CRX", "SHORT_CYCLE_START", "RRC_SDRX">>,
      <<"RRC_CRX", "LONG_CYCLE_START", "RRC_LDRX">>,
      <<"RRC_SDRX", "LONG_CYCLE_START", "RRC_LDRX">>,
      <<"RRC_SDRX", "INACTIVITY_TIMER_START", "RRC_CRX">>,
      <<"RRC_LDRX", "INACTIVITY_TIMER_START", "RRC_CRX">> }

Records(change) ==
    /\ Idle /\ change[1] = phone /\ change[2] \in CdrxEvents
    /\ Len(batch) < MaxBatch
    /\ phone' = change[3] /\ batch' = Append(batch, change[2])
    /\ UNCHANGED <<linkVars, calls, settings, events, overtaken, missed, hearVars>>

Send(monitor, event, inOrder) ==
    /\ Idle /\ events < MaxEvents
    /\ calls' = <<Call("send", monitor, event, to_list[monitor])>>
    /\ events' = events + 1
    /\ LET to == ToSet(to_list[monitor]) IN
       missed' = missed \cup {a \in 1..Len(class) : rrc[a] # Unknown /\ a \notin to}
                        \cup (IF inOrder THEN {} ELSE to)
    /\ UNCHANGED <<linkVars, settings, hearVars>>

\* It overtakes the records that are not yet written
SendOta(monitor, change) ==
    /\ change[1] = phone /\ change[2] \in OtaElements
    /\ Send(monitor, Ota(change[2]), batch = <<>>)
    /\ phone' = change[3] /\ overtaken' = (batch # <<>>) /\ UNCHANGED batch

SendCdrx(monitor) ==
    /\ batch # <<>>
    /\ Send(monitor, Cdrx, ~overtaken)
    /\ batch' = <<>> /\ overtaken' = FALSE /\ UNCHANGED phone

-----------------------------------------------------------------------------
User ==
    \/ \E c \in Tops : Make(c)
    \/ \E a \in 1..Len(class) :
          \/ \E m \in Monitors : SetSource(a, m)
          \/ \E c \in Kpis : EnableKpi(a, c)
    \/ Reset

Phone ==
    \/ \E change \in Changes : Records(change)
    \/ \E m \in Monitors : SendCdrx(m) \/ \E change \in Changes : SendOta(m, change)

Next == User \/ Phone \/ check_kpis \/ include_analyzer \/ set_source \/ SourceSet
           \/ recv \/ Return

Spec == Init /\ [][Next]_vars

-----------------------------------------------------------------------------
(* Properties *)

(* Every variable holds what it is declared to hold.                        *)
TypeOK ==
    /\ class \in Seq(Classes) /\ Len(class) <= MaxAnalyzers
    /\ \A c \in Classes :
          analyzer_array[c] = Nobody \/ class[analyzer_array[c]] = c
    /\ \A a \in Analyzers :
          /\ source[a] \in Monitors \cup {Nobody}
          /\ rrc[a] \in States \cup {Unknown}
          /\ from_list[a] \in Seq(1..Len(class)) /\ IsInjective(from_list[a])
    /\ \A e \in Analyzers \cup Monitors :
          to_list[e] \in Seq(1..Len(class)) /\ IsInjective(to_list[e])
    /\ phone \in States /\ batch \in Seq(CdrxEvents)
    /\ overtaken \in BOOLEAN

(* Whoever sends to an analyzer is its source or an analyzer it includes,   *)
(* and the other way round: an analyzer moved to another source hears no    *)
(* more of the one before, and recv always finds the callbacks (there is no *)
(* KeyError).                                                               *)
LinksAgree ==
    /\ \A a \in 1..Len(class) :
          /\ \A m \in Monitors : a \in ToSet(to_list[m]) <=> source[a] = m
          /\ \A other \in 1..Len(class) :
                a \in ToSet(to_list[other]) <=> other \in ToSet(from_list[a])
    /\ Running("send") /\ Head(calls).todo # <<>> =>
          LET a == Head(Head(calls).todo)
          IN  \/ Head(calls).of = source[a]
              \/ Head(calls).of \in ToSet(from_list[a])

(* An analyzer hears each message at most once from each of those that send *)
(* to it, in the order of the messages, however often it is included, given *)
(* a source or shared by analyzers that are.                                *)
HeardOnceInOrder ==
    \A a \in 1..Len(class) : \A j, k \in 1..Len(heard[a]) :
        j < k /\ heard[a][j][1] = heard[a][k][1] => heard[a][j][2] < heard[a][k][2]

\* What an analyzer includes, directly or through others
Below ==
    LET within[depth \in 0..MaxAnalyzers] ==
            IF depth = 0 THEN [a \in Analyzers |-> {}]
            ELSE [a \in Analyzers |->
                     UNION {{other} \cup within[depth - 1][other] : other \in ToSet(from_list[a])}]
    IN  within[MaxAnalyzers]

(* Once set_source has returned, the same source drives all analyzers that  *)
(* the analyzer includes, directly or not, shared ones too, and each of     *)
(* them gets a message before the analyzer does.                            *)
TopHearsLast ==
    Idle /\ latest # Nobody =>
        LET m == source[latest] IN
        \A a \in Below[latest] :
            /\ source[a] = m
            /\ Position(to_list[m], a) < Position(to_list[m], latest)

(* "The included analyzers should be evaluated first, then top analyzer"    *)
(* (analyzer.py): of two analyzers that the same source drives, one that    *)
(* includes the other gets a message after it.                              *)
DependenciesFirst ==
    Idle => \A a \in 1..Len(class) : \A other \in ToSet(from_list[a]) :
        source[a] # Nobody /\ source[other] = source[a] =>
            Position(to_list[source[a]], other) < Position(to_list[source[a]], a)

(* An LteRrcAnalyzer that has been sent the messages in the phone's order   *)
(* and that none has passed by since it determined the phone's state has    *)
(* the state that the phone is in, whichever message it began with,         *)
(* although it is shown some messages twice.                                *)
FollowsPhone ==
    Idle /\ batch = <<>> =>
        \A a \in 1..Len(class) :
            class[a] = "LteRrcAnalyzer" /\ rrc[a] # Unknown /\ a \notin missed => rrc[a] = phone
=============================================================================
