---------------------------- MODULE MCDMCollector ---------------------------
(***************************************************************************)
(* Types of three equipment ids, one of which the modem logs from before.  *)
(* A read returns 16 bytes and a message takes 5 to 13.                    *)
(***************************************************************************)
EXTENDS DMCollector, Crc16

\* WCDMA_Signaling_Messages, LTE_RRC_OTA_Packet, GSM_RR_Signaling_Message
MCTable == <<<<16687, "wcdma">>, <<45248, "lte">>, <<20783, "gsm">>,
             <<ModemDebugMessage, "debug">>>>
MCNames == {MCTable[i][2] : i \in DOMAIN MCTable} \cup {"typo"}

OfType(id) == <<16, 0, 0, 0, 0, 0, id % 256, id \div 256>>
Debug      == <<121, 126>>
Answer     == <<115, 0>>

MCMessages   == {OfType(16687), OfType(45248), Debug, Answer}
MCMalformed  == {Debug}
MCEnableSets == {{"wcdma", "lte"}, {"lte", "debug"}, {"typo"}}
MCTails      == {<<>>, <<5, 0, 7, DELIM>>}
MCModems     == {[ids |-> {}, debug |-> FALSE], [ids |-> {20783, 16687}, debug |-> TRUE]}
=============================================================================
