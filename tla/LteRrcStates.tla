---------------------------- MODULE LteRrcStates ----------------------------
(***************************************************************************)
(* The RRC state that LteRrcAnalyzer takes the phone to be in: the         *)
(* automaton of state_machine.py with the table of lte_rrc_analyzer.py.    *)
(*                                                                         *)
(* A signal is what a transition looks for in a message: an element of an  *)
(* over-the-air message, or the event of one CDRX record.                  *)
(*                                                                         *)
(* Names ending in Mutant are the mutations the checks use.                *)
(***************************************************************************)
EXTENDS Integers, Sequences, FiniteSets

Unknown == "None"

TimerEvents == {"INACTIVITY_TIMER_START", "INACTIVITY_TIMER_END"}
CdrxEvents  == TimerEvents \cup {"SHORT_CYCLE_START", "LONG_CYCLE_START"}
OtaElements ==
    {"rrcConnectionSetupComplete", "rrcConnectionReconfiguration", "rrcConnectionRelease"}

-----------------------------------------------------------------------------
(* The table: from, to, the signals that the callback returns True for *)

\* Either cycle is taken for the short one
AnyCycleMutant ==
    { <<"RRC_IDLE", "RRC_CRX",  {"rrcConnectionSetupComplete"}>>,
      <<"RRC_CRX",  "RRC_SDRX", {"SHORT_CYCLE_START", "LONG_CYCLE_START"}>>,
      <<"RRC_CRX",  "RRC_LDRX", {"LONG_CYCLE_START"}>>,
      <<"RRC_CRX",  "RRC_IDLE", {"rrcConnectionRelease"}>>,
      <<"RRC_SDRX", "RRC_LDRX", {"LONG_CYCLE_START"}>>,
      <<"RRC_SDRX", "RRC_CRX",  TimerEvents>>,
      <<"RRC_LDRX", "RRC_CRX",  TimerEvents>> }

create_state_machine ==
    { <<"RRC_IDLE", "RRC_CRX",  {"rrcConnectionSetupComplete"}>>,
      <<"RRC_CRX",  "RRC_SDRX", {"SHORT_CYCLE_START"}>>,
      <<"RRC_CRX",  "RRC_LDRX", {"LONG_CYCLE_START"}>>,
      <<"RRC_CRX",  "RRC_IDLE", {"rrcConnectionRelease"}>>,
      <<"RRC_SDRX", "RRC_LDRX", {"LONG_CYCLE_START"}>>,
      <<"RRC_SDRX", "RRC_CRX",  TimerEvents>>,
      <<"RRC_LDRX", "RRC_CRX",  TimerEvents>> }

States == {row[1] : row \in create_state_machine}

init_protocol_state(signal) ==
    CASE signal \in {"rrcConnectionSetupComplete", "rrcConnectionReconfiguration"} -> "RRC_CRX"
      [] signal = "rrcConnectionRelease" -> "RRC_IDLE"
      [] signal \in TimerEvents -> "RRC_CRX"
      [] signal = "LONG_CYCLE_START" -> "RRC_LDRX"
      [] signal = "SHORT_CYCLE_START" -> "RRC_SDRX"
      [] OTHER -> Unknown

-----------------------------------------------------------------------------
\* The first message that determines the state does; afterwards there is a
\* transition only when exactly one is enabled
update_state(state, signal) ==
    LET enabled == {row \in create_state_machine : row[1] = state /\ signal \in row[3]}
    IN  IF state = Unknown
        THEN IF init_protocol_state(signal) \in States
             THEN init_protocol_state(signal) ELSE Unknown
        ELSE IF Cardinality(enabled) = 1
             THEN (CHOOSE row \in enabled : TRUE)[2] ELSE state

\* The state after one signal after the other
After(state, signals) ==
    LET after[k \in 0..Len(signals)] ==
            IF k = 0 THEN state ELSE update_state(after[k - 1], signals[k])
    IN  after[Len(signals)]
=============================================================================
