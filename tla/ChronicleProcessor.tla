------------------------- MODULE ChronicleProcessor -------------------------
(***************************************************************************)
(* ChronicleProcessor of android_dev_diag_monitor.py: the stream that      *)
(* diag_revealer writes is a sequence of records, each a type, a length,   *)
(* and a time stamp with a payload, or a file name.  process() is given a  *)
(* piece of the stream, cut anywhere.  It returns at the end of the piece, *)
(* or of a record with the rest of the piece, and hands on a part of a     *)
(* payload without waiting for all of it.                                  *)
(*                                                                         *)
(* process() is a loop; one action is one iteration of it.                 *)
(*                                                                         *)
(* Names ending in Mutant are the mutations the checks use.                *)
(***************************************************************************)
EXTENDS Bytes, Integers, Sequences

CONSTANT TsBytes        \* bytes of a time stamp, 8 in the code

ASSUME TsBytesAssumption == TsBytes \in Nat \ {0}

TypeLog == 1
TypeStartLogFile == 2
TypeEndLogFile == 3
NoType == 0             \* None, of a message type

VARIABLES
    piece,              \* what is left of the piece
    inProcess,      \* process() is looping
    field,          \* self.state
    msgType,        \* self.msg_type
    got,            \* self.bytes of the field being read
    toRead,         \* self.to_read of it
    payloadLen,     \* self.to_read of the payload, once it is known
    ret             \* what process() returns, but for what remains

chronicle == <<piece, inProcess, field, msgType, got, toRead, payloadLen, ret>>

Fields == {"TYPE", "MSG_LEN", "TS", "PAYLOAD", "FILENAME"}

Nothing == [type |-> NoType, payload |-> <<>>, filename |-> <<>>]

ChronicleTypeOK ==
    /\ piece \in Seq(Byte) /\ inProcess \in BOOLEAN
    /\ field \in Fields /\ msgType \in Int
    /\ got \in Seq(Byte) /\ toRead \in Int /\ payloadLen \in Int
    /\ ret \in [type : Int, payload : Seq(Byte), filename : Seq(Byte)]

ChronicleInit ==
    /\ piece = <<>> /\ inProcess = FALSE /\ ret = Nothing
    /\ field = "TYPE" /\ msgType = NoType
    /\ got = <<>> /\ toRead = 2 /\ payloadLen = 0

\* A call with bytes
Process(bytes) ==
    /\ piece' = bytes
    /\ inProcess' = TRUE
    /\ ret' = [Nothing EXCEPT !.type = msgType]
    /\ UNCHANGED <<field, msgType, got, toRead, payloadLen>>

-----------------------------------------------------------------------------
\* "<h"
Unpack(bytes) ==
    LET n == bytes[1] + 256 * bytes[2] IN IF n < 32768 THEN n ELSE n - 65536

\* piece[0:to_read] and piece[to_read:]; a negative index counts from the end of piece
Taken ==
    IF toRead >= 0 THEN IF Len(piece) <= toRead THEN Len(piece) ELSE toRead
    ELSE IF Len(piece) + toRead > 0 THEN Len(piece) + toRead ELSE 0

NowGot   == got \o SubSeq(piece, 1, Taken)
Rest     == SubSeq(piece, Taken + 1, Len(piece))
Left     == IF Len(piece) <= toRead THEN toRead - Len(piece) ELSE 0
Complete == Left = 0

\* An iteration in which a field is read, and the loop goes on while bytes are left
Iteration(f) ==
    /\ inProcess /\ piece # <<>> /\ field = f
    /\ piece' = Rest

GoOn     == inProcess' = (Rest # <<>>)
Break    == inProcess' = FALSE
ReadNext(f, n) == field' = f /\ got' = <<>> /\ toRead' = n
Stay     == got' = NowGot /\ toRead' = Left /\ UNCHANGED field

\* _init_state
InitState == ReadNext("TYPE", 2) /\ msgType' = NoType /\ payloadLen' = 0

ReadType ==
    /\ Iteration("TYPE") /\ GoOn
    /\ \/ /\ Complete
          /\ ReadNext("MSG_LEN", 2)
          /\ msgType' = Unpack(NowGot)
          /\ ret' = [ret EXCEPT !.type = msgType']
       \/ ~Complete /\ Stay /\ UNCHANGED <<msgType, ret>>
    /\ UNCHANGED payloadLen

\* The length is taken to count a time stamp in every record
AllHaveTimeMutant ==
    /\ Iteration("MSG_LEN") /\ GoOn
    /\ \/ /\ Complete /\ msgType = TypeLog
          /\ payloadLen' = Unpack(NowGot) - TsBytes
          /\ ReadNext("TS", TsBytes)
       \/ /\ Complete /\ msgType \in {TypeStartLogFile, TypeEndLogFile}
          /\ ReadNext("FILENAME", Unpack(NowGot) - TsBytes)
          /\ UNCHANGED payloadLen
       \/ ~Complete /\ Stay /\ UNCHANGED payloadLen
    /\ UNCHANGED <<msgType, ret>>

\* The start of a log file is not known
StartUnknownMutant ==
    /\ Iteration("MSG_LEN") /\ GoOn
    /\ \/ /\ Complete /\ msgType = TypeLog
          /\ payloadLen' = Unpack(NowGot) - TsBytes
          /\ ReadNext("TS", TsBytes)
       \/ /\ Complete /\ msgType = TypeEndLogFile
          /\ ReadNext("FILENAME", Unpack(NowGot))
          /\ UNCHANGED payloadLen
       \/ /\ ~Complete \/ msgType \notin {TypeLog, TypeEndLogFile}
          /\ Stay /\ UNCHANGED payloadLen
    /\ UNCHANGED <<msgType, ret>>

\* The length of a record of an unknown type is read over and over again: the
\* iteration takes nothing, and the loop never ends
ReadMsgLen ==
    /\ Iteration("MSG_LEN") /\ GoOn
    /\ \/ /\ Complete /\ msgType = TypeLog
          /\ payloadLen' = Unpack(NowGot) - TsBytes
          /\ ReadNext("TS", TsBytes)
       \/ /\ Complete /\ msgType \in {TypeStartLogFile, TypeEndLogFile}
          /\ ReadNext("FILENAME", Unpack(NowGot))
          /\ UNCHANGED payloadLen
       \/ /\ ~Complete \/ msgType \notin {TypeLog, TypeStartLogFile, TypeEndLogFile}
          /\ Stay /\ UNCHANGED payloadLen
    /\ UNCHANGED <<msgType, ret>>

ReadTs ==
    /\ Iteration("TS") /\ GoOn
    /\ IF Complete THEN ReadNext("PAYLOAD", payloadLen) ELSE Stay
    /\ UNCHANGED <<msgType, payloadLen, ret>>

\* What was handed on is handed on again with the next part
PayloadTwiceMutant ==
    /\ Iteration("PAYLOAD")
    /\ ret' = [ret EXCEPT !.payload = NowGot]
    /\ \/ Complete /\ InitState /\ Break
       \/ /\ ~Complete /\ GoOn /\ Stay
          /\ UNCHANGED <<msgType, payloadLen>>

\* What there is of the payload is handed on
ReadPayload ==
    /\ Iteration("PAYLOAD")
    /\ ret' = IF NowGot = <<>> THEN ret ELSE [ret EXCEPT !.payload = NowGot]
    /\ \/ Complete /\ InitState /\ Break
       \/ /\ ~Complete /\ GoOn
          /\ ReadNext("PAYLOAD", Left)
          /\ UNCHANGED <<msgType, payloadLen>>

ReadFilename ==
    /\ Iteration("FILENAME")
    /\ \/ /\ Complete /\ InitState /\ Break
          /\ ret' = [ret EXCEPT !.filename = NowGot]
       \/ /\ ~Complete /\ GoOn /\ Stay
          /\ UNCHANGED <<msgType, payloadLen, ret>>

ProcessStep == ReadType \/ ReadMsgLen \/ ReadTs \/ ReadPayload \/ ReadFilename
=============================================================================
