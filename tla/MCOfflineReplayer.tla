-------------------------- MODULE MCOfflineReplayer --------------------------
(***************************************************************************)
(* Two small logs.  A read returns 16 bytes and a packet takes 5 to 13, so *)
(* that a read may hold two packets, or the end of one and the start of    *)
(* the next, as 64 bytes of a real log do.                                 *)
(***************************************************************************)
EXTENDS OfflineReplayer, Crc16

\* As in consts.h, one id has two names
MCTable == <<<<5, "LTE_RRC_MIB_Packet">>, <<5, "LTE_RRC_MIB_Message_Log_Packet">>,
             <<6, "LTE_NAS">>, <<ModemDebugMessage, "Modem_debug_message">>>>
MCNames == {MCTable[i][2] : i \in DOMAIN MCTable} \cup {"typo"}

Mib    == <<16, 0, 0, 0, 0, 0, 5, 0>>
MibBad == <<16, 0, 0, 0, 0, 0, 5, 0, 1>>
Nas    == <<16, 0, 0, 0, 0, 0, 6, 0>>
Debug  == <<121, 126>>
Custom == <<238, 238>>
Prefixed == <<152, 1, 0, 0, 1, 0, 0, 0>> \o Debug

F(payload) == EncodeHdlcFrame(payload)
Broken == <<121, 1, 2, 3, 4, DELIM>>
CutOff == SubSeq(F(Debug), 1, 4)

Files(a, b) == [p \in Paths |-> IF p = "a" THEN a ELSE IF p = "b" THEN b ELSE <<>>]

MCDisks == {
    Files(F(Mib) \o F(Debug) \o CutOff, F(Debug) \o F(Debug) \o F(Debug) \o <<DELIM>>),
    Files(F(Custom) \o Broken \o F(Nas) \o F(Prefixed),
          F(Debug) \o F(Debug) \o F(Debug) \o F(Custom) \o F(Mib)),
    Files(F(Debug) \o F(MibBad), F(Debug)) }

MCMalformed  == {MibBad}
MCEnableSets == {{"LTE_RRC_MIB_Packet", "Modem_debug_message"},
                 {"LTE_RRC_MIB_Message_Log_Packet"}, {"Modem_debug_message", "typo"}}
MCInputLists == {<<"a", "b">>, <<"out">>}
=============================================================================
