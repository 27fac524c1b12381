---------------------------- MODULE WSDissector -----------------------------
(***************************************************************************)
(* The process that dissects standard messages (ws_dissector.cpp) and its  *)
(* caller (ws_dissector.py): requests go down one pipe and answers, lines  *)
(* that end with a delimiter, come up another.  Nothing else says which    *)
(* answer belongs to which request.                                        *)
(*                                                                         *)
(* A request is a type, a length and a body; here each is one item, and    *)
(* what libwireshark prints is a line per item of an unknown function.     *)
(*                                                                         *)
(* Names ending in Mutant are the mutations the checks use.                *)
(***************************************************************************)
EXTENDS Integers, Sequences, SequencesExt

CONSTANTS
    Messages,       \* <<type, body>>, what decode_msg is asked to decode
    AnswerLines,    \* lines of an answer
    NotUtf8,        \* messages of which an answer has a line that is not UTF-8
    RequestPipe,    \* items that the pipe to the child holds
    AnswerPipe,     \* lines that the pipe from it holds
    StdioSize,      \* lines that the child's stdout holds
    MaxCalls        \* bound: calls of decode_msg

MAX_LENGTH == 3000  \* bytes of a body that decode_msg accepts

ASSUME WSDissectorAssumption ==
    /\ \A m \in Messages : m[1] \in Nat /\ m[2] \in Seq(Nat)
    /\ \A m \in Messages : Len(m[2]) <= MAX_LENGTH
    /\ NotUtf8 \subseteq Messages
    /\ {AnswerLines, RequestPipe, AnswerPipe, StdioSize} \subseteq Nat \ {0}
    /\ MaxCalls \in Nat

VARIABLES
    parent,         \* where decode_msg is; "idle" outside it
    toWrite,        \* what it has yet to write
    lines,          \* lines of the answer so far
    stdin,          \* the pipe to the child
    child,          \* where the loop of main() is
    buffer,         \* what it has read of a request
    toPrint,        \* lines it has yet to print
    held,           \* lines in the buffer of its stdout
    stdout,         \* the pipe from the child
    asked,          \* history: the messages of all calls
    leftBehind,     \* history: calls that raised and left their answer behind
    answers         \* history: what calls returned

parentVars == <<parent, toWrite, lines, asked, leftBehind, answers>>
childVars  == <<child, buffer, toPrint, held>>
vars == <<parentVars, childVars, stdin, stdout>>

Init ==
    /\ parent = "idle" /\ toWrite = <<>> /\ lines = <<>>
    /\ asked = <<>> /\ leftBehind = 0 /\ answers = <<>>
    /\ child = "flush" /\ buffer = <<>> /\ toPrint = <<>> /\ held = <<>>
    /\ stdin = <<>> /\ stdout = <<>>

Min2(m, n) == IF m < n THEN m ELSE n

Lives == child \notin {"ended", "died"}

-----------------------------------------------------------------------------
(* What is dissected, and the answer *)

Request(m) == <<m[1], Len(m[2])>> \o m[2]

\* PDCP messages of signalling bearers get a header that says downlink or
\* uplink, in front of their body
FramingHeader(type) ==
    CASE type = 300 -> <<"downlink">>
      [] type = 301 -> <<"uplink">>
      [] OTHER -> <<>>

Dissected(request) ==
    SubSeq(request, 1, 2) \o FramingHeader(request[1]) \o SubSeq(request, 3, Len(request))

Delimiter == [of |-> <<>>, n |-> 0]

AnswerTo(request) == [k \in 1..AnswerLines |-> [of |-> Dissected(request), n |-> k]]

Undecodable == {[of |-> Dissected(Request(m)), n |-> AnswerLines] : m \in NotUtf8}

-----------------------------------------------------------------------------
(* decode_msg *)

\* Messages of other types, or longer ones, are refused before anything is
\* written
DecodeMsg(m) ==
    /\ parent = "idle" /\ Len(asked) < MaxCalls
    /\ parent' = "write"
    /\ toWrite' = Request(m) /\ lines' = <<>>
    /\ asked' = Append(asked, m)
    /\ UNCHANGED <<leftBehind, answers, childVars, stdin, stdout>>

\* write and flush, as far as the pipe has room; then the answer is read
Write ==
    /\ parent = "write" /\ Lives /\ Len(stdin) < RequestPipe
    /\ LET n == Min2(Len(toWrite), RequestPipe - Len(stdin))
       IN  /\ stdin' = stdin \o SubSeq(toWrite, 1, n)
           /\ toWrite' = SubSeq(toWrite, n + 1, Len(toWrite))
    /\ parent' = IF toWrite' = <<>> THEN "read" ELSE "write"
    /\ UNCHANGED <<lines, asked, leftBehind, answers, childVars, stdout>>

\* BrokenPipeError, which the caller catches
WriteFails ==
    /\ parent = "write" /\ ~Lives
    /\ parent' = "idle" /\ toWrite' = <<>>
    /\ UNCHANGED <<lines, asked, leftBehind, answers, childVars, stdin, stdout>>

\* readline.  When the child is gone it returns an empty line, again and again
ReadLine ==
    /\ parent = "read" /\ stdout # <<>>
    /\ Head(stdout) \notin Undecodable \cup {Delimiter}
    /\ lines' = Append(lines, Head(stdout))
    /\ stdout' = Tail(stdout)
    /\ UNCHANGED <<parent, toWrite, asked, leftBehind, answers, childVars, stdin>>

ReadDelimiter ==
    /\ parent = "read" /\ stdout # <<>> /\ Head(stdout) = Delimiter
    /\ answers' = Append(answers, [call |-> Len(asked), left |-> leftBehind, lines |-> lines])
    /\ parent' = "idle" /\ lines' = <<>>
    /\ stdout' = Tail(stdout)
    /\ UNCHANGED <<toWrite, asked, leftBehind, childVars, stdin>>

\* UnicodeDecodeError, which the caller catches: what is left of the answer
\* stays in the pipe
LineNotUtf8 ==
    /\ parent = "read" /\ stdout # <<>> /\ Head(stdout) \in Undecodable
    /\ stdout' = Tail(stdout)
    /\ parent' = "idle" /\ lines' = <<>>
    /\ leftBehind' = leftBehind + 1
    /\ UNCHANGED <<toWrite, asked, answers, childVars, stdin>>

\* The process ends, whatever it is doing, and its ends of the pipes are closed
Exit ==
    /\ parent # "gone" /\ parent' = "gone"
    /\ UNCHANGED <<toWrite, lines, asked, leftBehind, answers, childVars, stdin, stdout>>

-----------------------------------------------------------------------------
(* main() of the child.  fflush(stdin) changes nothing of a pipe. *)

\* The answer stays in the buffer until this is full
NoFlushMutant ==
    /\ child = "flush"
    /\ child' = "header"
    /\ UNCHANGED <<parentVars, buffer, toPrint, held, stdin, stdout>>

\* fflush(stdout) at the top of the loop; a write when nobody reads ends the
\* process
Flush ==
    /\ child = "flush"
    /\ \/ /\ held # <<>> /\ parent # "gone" /\ Len(stdout) < AnswerPipe
          /\ stdout' = Append(stdout, Head(held)) /\ held' = Tail(held)
          /\ UNCHANGED child
       \/ /\ held # <<>> /\ parent = "gone"
          /\ child' = "ended" /\ UNCHANGED <<held, stdout>>
       \/ /\ held = <<>>
          /\ child' = "header" /\ UNCHANGED <<held, stdout>>
    /\ UNCHANGED <<parentVars, buffer, toPrint, stdin>>

\* fread takes what is there and waits for the rest
Fread(wanted) ==
    /\ stdin # <<>> /\ Len(buffer) < wanted
    /\ LET n == Min2(Len(stdin), wanted - Len(buffer))
       IN  /\ buffer' = buffer \o SubSeq(stdin, 1, n)
           /\ stdin' = SubSeq(stdin, n + 1, Len(stdin))

ReadHeader ==
    /\ child = "header" /\ Fread(2)
    /\ child' = IF Len(buffer') = 2 THEN "body" ELSE "header"
    /\ UNCHANGED <<parentVars, toPrint, held, stdout>>

\* The length of the framing header is read too
ReadFramingMutant ==
    /\ child = "body" /\ Fread(2 + buffer[2] + Len(FramingHeader(buffer[1])))
    /\ UNCHANGED <<parentVars, child, toPrint, held, stdout>>

ReadBody ==
    /\ child = "body" /\ Fread(2 + buffer[2])
    /\ UNCHANGED <<parentVars, child, toPrint, held, stdout>>

\* No delimiter follows the answer to an empty message
NoDelimiterMutant ==
    /\ child = "body" /\ Len(buffer) = 2 + buffer[2]
    /\ toPrint' = AnswerTo(buffer) \o (IF buffer[2] = 0 THEN <<>> ELSE <<Delimiter>>)
    /\ buffer' = <<>>
    /\ child' = "print"
    /\ UNCHANGED <<parentVars, held, stdin, stdout>>

Dissect ==
    /\ child = "body" /\ Len(buffer) = 2 + buffer[2]
    /\ toPrint' = AnswerTo(buffer) \o <<Delimiter>>
    /\ buffer' = <<>>
    /\ child' = "print"
    /\ UNCHANGED <<parentVars, held, stdin, stdout>>

\* The end of the pipe is not looked for
NoEofMutant == FALSE

\* The pipe is closed and has nothing more: the loop ends, after it has
\* printed, where nobody reads, what there is of a body
ReadEof ==
    /\ child \in {"header", "body"} /\ parent = "gone" /\ stdin = <<>>
    /\ child = "body" => Len(buffer) < 2 + buffer[2]
    /\ child' = "ended"
    /\ UNCHANGED <<parentVars, buffer, toPrint, held, stdin, stdout>>

\* printf fills the buffer of stdout, which is written out when it is full
PrintLine ==
    /\ child = "print"
    /\ \/ /\ toPrint # <<>> /\ Len(held) < StdioSize
          /\ held' = Append(held, Head(toPrint)) /\ toPrint' = Tail(toPrint)
          /\ UNCHANGED <<child, stdout>>
       \/ /\ toPrint # <<>> /\ Len(held) = StdioSize
          /\ parent # "gone" /\ Len(stdout) < AnswerPipe
          /\ stdout' = Append(stdout, Head(held)) /\ held' = Tail(held)
          /\ UNCHANGED <<child, toPrint>>
       \/ /\ toPrint # <<>> /\ Len(held) = StdioSize /\ parent = "gone"
          /\ child' = "ended" /\ UNCHANGED <<toPrint, held, stdout>>
       \/ /\ toPrint = <<>>
          /\ child' = "flush" /\ UNCHANGED <<toPrint, held, stdout>>
    /\ UNCHANGED <<parentVars, buffer, stdin>>

\* libwireshark may crash on a message
Crash ==
    /\ child = "body" /\ Len(buffer) = 2 + buffer[2]
    /\ child' = "died"
    /\ UNCHANGED <<parentVars, buffer, toPrint, held, stdin, stdout>>

-----------------------------------------------------------------------------
Parent == Write \/ WriteFails \/ ReadLine \/ ReadDelimiter \/ LineNotUtf8
Child  == Flush \/ ReadHeader \/ ReadBody \/ Dissect \/ ReadEof \/ PrintLine

Next == (\E m \in Messages : DecodeMsg(m)) \/ Parent \/ Exit \/ Child \/ Crash

Spec == Init /\ [][Next]_vars

\* Both processes are scheduled
FairSpec == Spec /\ WF_vars(Parent) /\ WF_vars(Child)

-----------------------------------------------------------------------------
(* Properties *)

(* Every variable holds what it is declared to hold; above all, a pipe is   *)
(* never fuller than it can be, and main() never reads beyond the request   *)
(* that it was sent.                                                        *)
TypeOK ==
    /\ parent \in {"idle", "write", "read", "gone"}
    /\ child \in {"flush", "header", "body", "print", "ended", "died"}
    /\ asked \in Seq(Messages) /\ leftBehind \in 0..Len(asked)
    /\ Len(stdin) <= RequestPipe /\ Len(stdout) <= AnswerPipe /\ Len(held) <= StdioSize
    /\ buffer # <<>> => \E m \in ToSet(asked) : IsPrefix(buffer, Request(m))

(* decode_msg returns the answer to the message it was asked to decode, all *)
(* of it.  Once calls have raised in the middle of an answer, it returns    *)
(* the answer to the call that is as many calls back, or what is left of    *)
(* it: never a mixture, and never one from further back.                    *)
AnswersInStep ==
    \A a \in ToSet(answers) :
        LET due == AnswerTo(Request(asked[a.call - a.left]))
        IN  IF a.left = 0 THEN a.lines = due ELSE IsSuffix(a.lines, due)

LongestRequest == Max({Len(Request(m)) : m \in Messages})

(* decode_msg returns or raises, however the answers fill their pipe and    *)
(* though the child buffers what it prints, unless the child has died, or   *)
(* so many calls have left their answers behind that the requests not yet   *)
(* read do not fit their pipe: then each process waits for the other to     *)
(* read.                                                                    *)
DecodeReturns ==
    parent \in {"write", "read"} ~>
        \/ parent \in {"idle", "gone"} \/ child = "died"
        \/ leftBehind >= RequestPipe \div LongestRequest

(* The child does not outlive the process that started it ("stop dissect    *)
(* when the pipe is closed", ws_dissector.cpp).                             *)
ChildLeavesWithParent == parent = "gone" ~> ~Lives
=============================================================================
