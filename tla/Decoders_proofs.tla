--------------------------- MODULE Decoders_proofs ---------------------------
(***************************************************************************)
(* The two decoders: the Wireshark process, which decodes one message at a *)
(* time, and the decoders of log packets.                                  *)
(*                                                                         *)
(* decode_msg returns the answer to its own message: for all messages and  *)
(* answers, all sizes of the pipes, and however the two processes take     *)
(* turns.  No variable says which request or which answer a line belongs   *)
(* to.  The invariant says that there are two sequences, of all that was   *)
(* requested and of all that was answered, of which the pipes, the buffers *)
(* and what is yet to be written hold consecutive parts, and which item of *)
(* them each process comes to next.                                        *)
(*                                                                         *)
(* What a log packet is decoded into is one of a finite number of lists,   *)
(* whatever the packet says and however many records are in it: for all    *)
(* layouts, and without a bound on the records.                            *)
(***************************************************************************)
EXTENDS WSDissector, LogPacketDecoder, Encoding_proofs

-----------------------------------------------------------------------------
(* decode_msg and its process: the invariant, in parts *)

\* An answer has a line more, the delimiter
Size == AnswerLines + 1

\* How many lines of all answers there are up to the k-th line of the i-th answer
Place(i, k) == (i - 1) * Size + k

\* The k-th line of the answer to the i-th call
LineOf(i, k) ==
    IF k <= AnswerLines THEN AnswerTo(Request(asked[i]))[k] ELSE Delimiter

Line == {Delimiter} \cup {AnswerTo(Request(m))[k] : m \in Messages, k \in 1..AnswerLines}

Kinds ==
    /\ parent \in {"idle", "write", "read", "gone"}
    /\ child \in {"flush", "header", "body", "print", "ended", "died"}
    /\ asked \in Seq(Messages) /\ Len(asked) \in Nat /\ leftBehind \in 0..Len(asked)
    /\ toWrite \in Seq(Nat) /\ stdin \in Seq(Nat) /\ buffer \in Seq(Nat)
    /\ stdout \in Seq(Line) /\ held \in Seq(Line) /\ toPrint \in Seq(Line)
    /\ lines \in Seq(Line)
    /\ Len(stdin) <= RequestPipe /\ Len(stdout) <= AnswerPipe /\ Len(held) <= StdioSize

\* What is empty, and when
Stages ==
    /\ child \in {"flush", "header", "body"} => toPrint = <<>>
    /\ child \in {"flush", "print"} => buffer = <<>>
    /\ child = "header" => Len(buffer) < 2
    /\ child = "body" => Len(buffer) >= 2 /\ Len(buffer) <= 2 + buffer[2]
    /\ parent \in {"idle", "read"} /\ Lives => toWrite = <<>>
    /\ parent = "write" => lines = <<>>
    /\ parent \in {"write", "read"} => leftBehind < Len(asked)

TypeInv == Kinds /\ Stages

\* What main() has read of a request is the beginning of one
BufferInv == buffer # <<>> => \E m \in ToSet(asked) : IsPrefix(buffer, Request(m))

\* What was returned is the answer, or the end of one, to a call
IsAnswer(a, i) ==
    LET due == AnswerTo(Request(asked[i]))
    IN  IF a.left = 0 THEN a.lines = due ELSE IsSuffix(a.lines, due)

Returned(a) ==
    a.call \in 1..Len(asked) /\ a.left < a.call /\ IsAnswer(a, a.call - a.left)

ReturnedInv ==
    /\ answers \in Seq([call : Nat, left : Nat, lines : Seq(Line)])
    /\ \A x \in 1..Len(answers) : Returned(answers[x])

\* printed holds the answers to the first calls, and their delimiters
AreAnswers(printed, done) ==
    /\ Len(printed) = done * Size
    /\ \A i \in 1..done : \A k \in 1..Size : printed[(i - 1) * Size + k] = LineOf(i, k)

\* The child and the pipe have what is behind the first t lines
OnTheWay(printed, t) ==
    \E t1 \in t..Len(printed) : \E t2 \in t1..Len(printed) :
        /\ IsPart(stdout, printed, t, t1) /\ IsPart(held, printed, t1, t2)
        /\ IsPart(toPrint, printed, t2, Len(printed))

\* decode_msg has read the first t lines, and of the answer to call i the first
\* k, those behind the first f in this call: it begins with an answer, or,
\* when a call has raised, with the delimiter that this one left behind
ReadsAnswer(t, i, f, k) ==
    /\ f \in {0, AnswerLines} /\ k \in f..AnswerLines
    /\ t = Place(i, k)
    /\ leftBehind = 0 => f = 0
    /\ CASE parent = "idle"  -> i = Len(asked) - leftBehind + 1 /\ k = f
         [] parent = "write" -> i = Len(asked) - leftBehind /\ k = f
         [] OTHER            -> /\ i = Len(asked) - leftBehind /\ i >= 1
                                /\ Len(lines) = k - f
                                /\ \A x \in 1..(k - f) : lines[x] = LineOf(i, f + x)

ReaderAt(t) ==
    parent = "read" \/ (parent # "gone" /\ Lives) =>
        \E i \in 1..(Len(asked) + 1) : \E f, k \in 0..AnswerLines : ReadsAnswer(t, i, f, k)

AnswersInv(done) ==
    \E printed \in Seq(Line) : \E t \in 0..Len(printed) :
        AreAnswers(printed, done) /\ OnTheWay(printed, t) /\ ReaderAt(t)

\* all holds the requests of all calls, and ends says where each of them ends
AreRequests(all, ends) ==
    /\ all \in Seq(Nat) /\ ends \in [0..Len(asked) -> Nat]
    /\ ends[0] = 0 /\ ends[Len(asked)] = Len(all)
    /\ \A i \in 0..Len(asked) : ends[i] <= Len(all)
    /\ \A i \in 1..Len(asked) : /\ ends[i] = ends[i - 1] + Len(Request(asked[i]))
                                /\ IsPart(Request(asked[i]), all, ends[i - 1], ends[i])

\* The child, the pipe and decode_msg have what is behind the first s items
Coming(all, s) ==
    \E s1 \in s..Len(all) : \E s2 \in s1..Len(all) :
        /\ IsPart(buffer, all, s, s1) /\ IsPart(stdin, all, s1, s2)
        /\ IsPart(toWrite, all, s2, Len(all))

RequestsInv(done) ==
    \E all, ends : AreRequests(all, ends) /\ Coming(all, ends[done])

PipesInv == \E done \in 0..Len(asked) : AnswersInv(done) /\ (Lives => RequestsInv(done))

Inv == TypeInv /\ PipesInv

-----------------------------------------------------------------------------
(* Requests and answers *)

(* A request is a header of two items and the body whose length it names.  *)
LEMMA RequestIs ==
  ASSUME NEW m \in Messages, WSDissectorAssumption
  PROVE  /\ Request(m) \in Seq(Nat) /\ Len(Request(m)) = 2 + Len(m[2])
         /\ Request(m)[2] = Len(m[2]) /\ Len(m[2]) \in Nat
<1>1. m[1] \in Nat /\ m[2] \in Seq(Nat)
  BY DEF WSDissectorAssumption
<1>2. Len(m[2]) \in Nat
  BY <1>1, LenProperties
<1> DEFINE h == <<m[1], Len(m[2])>>
<1>3. h \in Seq(Nat) /\ Len(h) = 2 /\ h[2] = Len(m[2])
  BY <1>1, <1>2
<1> HIDE DEF h
<1>4. /\ h \o m[2] \in Seq(Nat) /\ Len(h \o m[2]) = Len(h) + Len(m[2])
      /\ \A i \in 1..(Len(h) + Len(m[2])) :
            (h \o m[2])[i] = IF i <= Len(h) THEN h[i] ELSE m[2][i - Len(h)]
  BY ONLY <1>1, <1>3, ConcatProperties
<1>5. (h \o m[2])[2] = Len(m[2])
  <2>1. 2 \in 1..(Len(h) + Len(m[2])) /\ 2 <= Len(h)
    BY <1>2, <1>3
  <2> QED BY <1>3, <1>4, <2>1
<1> QED BY <1>2, <1>3, <1>4, <1>5 DEF Request, h

(* The lines of an answer, and its delimiter, can be told from each other. *)
LEMMA AnswerIs ==
  ASSUME WSDissectorAssumption, NEW r
  PROVE  /\ DOMAIN AnswerTo(r) = 1..AnswerLines
         /\ \A k \in 1..AnswerLines : AnswerTo(r)[k].n = k
         /\ Delimiter.n = 0 /\ AnswerLines \in Nat /\ AnswerLines >= 1 /\ Size \in Nat
BY DEF AnswerTo, Delimiter, WSDissectorAssumption, Size

(* Answers as sequences.                                                   *)
LEMMA AnswerSeq ==
  ASSUME WSDissectorAssumption, NEW m \in Messages
  PROVE  /\ AnswerTo(Request(m)) \in Seq(Line) /\ Len(AnswerTo(Request(m))) = AnswerLines
         /\ AnswerTo(Request(m)) \o <<Delimiter>> \in Seq(Line)
         /\ Len(AnswerTo(Request(m)) \o <<Delimiter>>) = Size
         /\ \A k \in 1..Size : (AnswerTo(Request(m)) \o <<Delimiter>>)[k] =
               IF k <= AnswerLines THEN AnswerTo(Request(m))[k] ELSE Delimiter
<1> DEFINE a == AnswerTo(Request(m))
           d == <<Delimiter>>
<1>1. AnswerLines \in Nat /\ a = [k \in 1..AnswerLines |-> a[k]]
  BY AnswerIs DEF AnswerTo
<1>2. \A k \in 1..AnswerLines : a[k] \in Line
  BY DEF Line
<1>3. d \in Seq(Line) /\ Len(d) = 1 /\ d[1] = Delimiter
  BY DEF Line
<1> HIDE DEF a, d
<1>4. a \in Seq(Line) /\ Len(a) = AnswerLines
  BY <1>1, <1>2
<1>5. /\ a \o d \in Seq(Line) /\ Len(a \o d) = Len(a) + Len(d)
      /\ \A i \in 1..(Len(a) + Len(d)) : (a \o d)[i] = IF i <= Len(a) THEN a[i] ELSE d[i - Len(a)]
  BY <1>3, <1>4, ConcatProperties
<1>6. Len(a \o d) = Size
  BY <1>3, <1>4, <1>5 DEF Size
<1>7. ASSUME NEW k \in 1..Size PROVE (a \o d)[k] = IF k <= AnswerLines THEN a[k] ELSE Delimiter
  <2>1. k \in 1..(Len(a) + Len(d)) /\ (~(k <= AnswerLines) => k - Len(a) = 1)
    BY <1>1, <1>3, <1>4 DEF Size
  <2> QED BY <1>3, <1>4, <1>5, <2>1
<1> QED BY <1>4, <1>5, <1>6, <1>7 DEF a, d

(* The place of a line of an answer among the lines of all answers.        *)
LEMMA Places ==
  ASSUME NEW size \in Nat, NEW i \in Nat, i >= 1
  PROVE  (i - 1) * size \in Nat /\ i * size \in Nat /\ i * size = (i - 1) * size + size
OBVIOUS

LEMMA PlaceBehind ==
  ASSUME NEW size \in Nat, NEW i \in Nat, NEW n \in Nat, i >= 1
  PROVE  i <= n => i * size <= n * size
<1> SUFFICES ASSUME i <= n PROVE i * size <= n * size
  OBVIOUS
<1> DEFINE d == n - i
<1>1. d \in Nat /\ n = i + d
  OBVIOUS
<1> HIDE DEF d
<1>2. (i + d) * size = i * size + d * size /\ d * size \in Nat /\ i * size \in Nat
  BY <1>1
<1> QED BY <1>1, <1>2

(* A line that was printed is of an answer that was printed.               *)
LEMMA NextLine ==
  ASSUME NEW size \in Nat, NEW done \in Nat, NEW i \in Nat, i >= 1, NEW k \in Nat, k < size,
         NEW t, t = (i - 1) * size + k, t < done * size
  PROVE  i <= done
<1>1. (i - 1) * size \in Nat /\ done * size \in Nat
  BY Places
<1>2. t \in Nat
  BY <1>1
<1> DEFINE p == (i - 1) * size
           q == done * size
<1>3. p \in Nat /\ q \in Nat /\ t = p + k /\ t < q
  BY <1>1
<1> HIDE DEF p, q
<1> SUFFICES ASSUME ~(i <= done) PROVE FALSE
  OBVIOUS
<1>4. q <= p
  <2>1. CASE done = 0
    <3>1. q = 0
      BY <2>1 DEF q
    <3> QED BY <1>3, <3>1
  <2>2. CASE done # 0
    <3>1. done <= i - 1 /\ i - 1 \in Nat /\ done >= 1
      BY <2>2
    <3> QED BY <3>1, PlaceBehind DEF p, q
  <2> QED BY <2>1, <2>2
<1> QED BY <1>3, <1>4

(* What fread takes goes from the front of the pipe to the end of the      *)
(* buffer, up to what is wanted.                                           *)
LEMMA FreadMoves ==
  ASSUME TypeInv, NEW wanted \in Nat, Fread(wanted)
  PROVE  /\ buffer' \in Seq(Nat) /\ stdin' \in Seq(Nat)
         /\ Len(buffer') <= wanted /\ Len(buffer') > Len(buffer)
         /\ Len(stdin') <= Len(stdin)
         /\ \A k \in 1..Len(buffer) : buffer'[k] = buffer[k]
         /\ \A all : \A s, s1, s2 \in Nat :
               /\ s <= s1 /\ s1 <= s2
               /\ IsPart(buffer, all, s, s1) /\ IsPart(stdin, all, s1, s2)
               => \E n \in s1..s2 : IsPart(buffer', all, s, n) /\ IsPart(stdin', all, n, s2)
<1> DEFINE n == Min2(Len(stdin), wanted - Len(buffer))
           a == SubSeq(stdin, 1, n)
<1>1. /\ buffer \in Seq(Nat) /\ stdin \in Seq(Nat) /\ Len(buffer) \in Nat /\ Len(stdin) \in Nat
      /\ stdin # <<>> /\ Len(buffer) < wanted
      /\ buffer' = buffer \o a /\ stdin' = SubSeq(stdin, n + 1, Len(stdin))
  BY LenProperties DEF TypeInv, Kinds, Stages, Fread
<1>2. Len(stdin) # 0
  BY <1>1, EmptySeq
<1>3. n \in 0..Len(stdin) /\ n >= 1 /\ n <= wanted - Len(buffer) /\ n \in Nat
  <2>1. wanted - Len(buffer) \in Nat /\ wanted - Len(buffer) >= 1
    BY <1>1
  <2> QED BY <1>1, <1>2, <2>1 DEF Min2
<1> HIDE DEF n
<1>4. a \in Seq(Nat) /\ Len(a) = n
  <2>1. \A i \in 1..n : stdin[i] \in Nat
    <3>1. \A i \in 1..n : i \in 1..Len(stdin)
      BY <1>1, <1>3
    <3> QED BY <1>1, <3>1, ElementOfSeq
  <2>2. a \in Seq(Nat) /\ Len(a) = IF 1 <= n THEN n - 1 + 1 ELSE 0
    BY <1>3, <2>1, SubSeqProperties
  <2> HIDE DEF a
  <2> QED BY <1>3, <2>2
<1> HIDE DEF a
<1>5. /\ buffer' \in Seq(Nat) /\ Len(buffer') = Len(buffer) + n
      /\ \A i \in 1..(Len(buffer) + n) :
            buffer'[i] = IF i <= Len(buffer) THEN buffer[i] ELSE a[i - Len(buffer)]
  <2>1. /\ buffer \o a \in Seq(Nat) /\ Len(buffer \o a) = Len(buffer) + Len(a)
        /\ \A i \in 1..(Len(buffer) + Len(a)) :
              (buffer \o a)[i] = IF i <= Len(buffer) THEN buffer[i] ELSE a[i - Len(buffer)]
    BY <1>1, <1>4, ConcatProperties
  <2> QED BY <1>1, <1>4, <2>1
<1>6. \A k \in 1..Len(buffer) : buffer'[k] = buffer[k]
  <2>1. \A k \in 1..Len(buffer) : k \in 1..(Len(buffer) + n) /\ k <= Len(buffer)
    BY <1>1, <1>3
  <2> QED BY <1>5, <2>1
<1>7. stdin' \in Seq(Nat) /\ Len(stdin') <= Len(stdin)
  <2>1. \A i \in (n + 1)..Len(stdin) : stdin[i] \in Nat
    <3>1. \A i \in (n + 1)..Len(stdin) : i \in 1..Len(stdin)
      BY <1>1, <1>3
    <3> QED BY <1>1, <3>1, ElementOfSeq
  <2>2. /\ SubSeq(stdin, n + 1, Len(stdin)) \in Seq(Nat)
        /\ Len(SubSeq(stdin, n + 1, Len(stdin)))
              = IF n + 1 <= Len(stdin) THEN Len(stdin) - (n + 1) + 1 ELSE 0
    BY <1>1, <1>3, <2>1, SubSeqProperties
  <2> QED BY <1>1, <1>3, <2>2
<1>8. ASSUME NEW all, NEW s \in Nat, NEW s1 \in Nat, NEW s2 \in Nat, s <= s1, s1 <= s2,
             IsPart(buffer, all, s, s1), IsPart(stdin, all, s1, s2)
      PROVE  \E x \in s1..s2 : IsPart(buffer', all, s, x) /\ IsPart(stdin', all, x, s2)
  <2>1. /\ s1 + n <= s2 /\ IsPart(buffer \o SubSeq(stdin, 1, n), all, s, s1 + n)
        /\ IsPart(SubSeq(stdin, n + 1, Len(stdin)), all, s1 + n, s2)
    BY <1>1, <1>3, <1>8, PartMoves
  <2>2. IsPart(buffer', all, s, s1 + n) /\ IsPart(stdin', all, s1 + n, s2)
    BY <1>1, <2>1 DEF a
  <2>3. s1 + n \in s1..s2
    BY <1>3, <2>1
  <2> QED BY <2>2, <2>3
<1>9. Len(buffer') <= wanted /\ Len(buffer') > Len(buffer)
  BY <1>1, <1>3, <1>5
<1>10. \A all : \A s, s1, s2 \in Nat :
          /\ s <= s1 /\ s1 <= s2
          /\ IsPart(buffer, all, s, s1) /\ IsPart(stdin, all, s1, s2)
          => \E x \in s1..s2 : IsPart(buffer', all, s, x) /\ IsPart(stdin', all, x, s2)
  BY <1>8
<1> QED BY <1>5, <1>6, <1>7, <1>9, <1>10

(* What decode_msg writes goes to the end of the pipe.                     *)
LEMMA WriteMoves ==
  ASSUME TypeInv, Write, WSDissectorAssumption
  PROVE  /\ toWrite' \in Seq(Nat) /\ stdin' \in Seq(Nat) /\ Len(stdin') <= RequestPipe
         /\ \A all : \A s, s1, s2 \in Nat :
               /\ s <= s1 /\ s1 <= s2
               /\ IsPart(stdin, all, s, s1) /\ IsPart(toWrite, all, s1, s2)
               => \E n \in s1..s2 : IsPart(stdin', all, s, n) /\ IsPart(toWrite', all, n, s2)
<1> DEFINE n == Min2(Len(toWrite), RequestPipe - Len(stdin))
           a == SubSeq(toWrite, 1, n)
<1>1. /\ toWrite \in Seq(Nat) /\ stdin \in Seq(Nat) /\ Len(toWrite) \in Nat /\ Len(stdin) \in Nat
      /\ Len(stdin) < RequestPipe /\ RequestPipe \in Nat
      /\ stdin' = stdin \o a /\ toWrite' = SubSeq(toWrite, n + 1, Len(toWrite))
  BY LenProperties DEF TypeInv, Kinds, Stages, Write, WSDissectorAssumption
<1>2. n \in 0..Len(toWrite) /\ n <= RequestPipe - Len(stdin) /\ n \in Nat
  BY <1>1 DEF Min2
<1> HIDE DEF n
<1>3. a \in Seq(Nat) /\ Len(a) = n
  <2>1. \A i \in 1..n : toWrite[i] \in Nat
    <3>1. \A i \in 1..n : i \in 1..Len(toWrite)
      BY <1>1, <1>2
    <3> QED BY <1>1, <3>1, ElementOfSeq
  <2>2. a \in Seq(Nat) /\ Len(a) = IF 1 <= n THEN n - 1 + 1 ELSE 0
    BY <1>2, <2>1, SubSeqProperties
  <2> HIDE DEF a
  <2> QED BY <1>2, <2>2
<1> HIDE DEF a
<1>4. stdin' \in Seq(Nat) /\ Len(stdin') <= RequestPipe
  <2>1. stdin \o a \in Seq(Nat) /\ Len(stdin \o a) = Len(stdin) + Len(a)
    BY <1>1, <1>3, ConcatProperties
  <2> QED BY <1>1, <1>2, <1>3, <2>1
<1>5. toWrite' \in Seq(Nat)
  <2>1. \A i \in (n + 1)..Len(toWrite) : toWrite[i] \in Nat
    <3>1. \A i \in (n + 1)..Len(toWrite) : i \in 1..Len(toWrite)
      BY <1>1, <1>2
    <3> QED BY <1>1, <3>1, ElementOfSeq
  <2> QED BY <1>1, <1>2, <2>1, SubSeqProperties
<1>6. ASSUME NEW all, NEW s \in Nat, NEW s1 \in Nat, NEW s2 \in Nat, s <= s1, s1 <= s2,
             IsPart(stdin, all, s, s1), IsPart(toWrite, all, s1, s2)
      PROVE  \E x \in s1..s2 : IsPart(stdin', all, s, x) /\ IsPart(toWrite', all, x, s2)
  <2>1. /\ s1 + n <= s2 /\ IsPart(stdin \o SubSeq(toWrite, 1, n), all, s, s1 + n)
        /\ IsPart(SubSeq(toWrite, n + 1, Len(toWrite)), all, s1 + n, s2)
    BY <1>1, <1>2, <1>6, PartMoves
  <2>2. IsPart(stdin', all, s, s1 + n) /\ IsPart(toWrite', all, s1 + n, s2)
    BY <1>1, <2>1 DEF a
  <2>3. s1 + n \in s1..s2
    BY <1>2, <2>1
  <2> QED BY <2>2, <2>3
<1> QED BY <1>4, <1>5, <1>6

\* buffer begins the request that comes behind done others
BeginsRequest(done) ==
    /\ done + 1 \in 1..Len(asked) /\ asked[done + 1] \in Messages
    /\ Len(buffer) <= Len(Request(asked[done + 1]))
    /\ \A k \in 1..Len(buffer) : buffer[k] = Request(asked[done + 1])[k]
    /\ Len(buffer) >= 2 => Len(Request(asked[done + 1])) = 2 + buffer[2]

(* What main() has read is the beginning of the request that is next, and  *)
(* when it has the header it knows how long this is.                       *)
LEMMA BufferIs ==
  ASSUME TypeInv, WSDissectorAssumption, NEW done \in 0..Len(asked), NEW all, NEW ends,
         AreRequests(all, ends), NEW s1 \in Nat, ends[done] <= s1, s1 <= Len(all),
         IsPart(buffer, all, ends[done], s1), buffer # <<>>,
         child \in {"header", "body"}
  PROVE  BeginsRequest(done)
<1> DEFINE m == asked[done + 1]
<1>1. /\ buffer \in Seq(Nat) /\ Len(buffer) \in Nat /\ Len(asked) \in Nat /\ Len(buffer) # 0
      /\ Len(buffer) = s1 - ends[done]
      /\ \A k \in 1..Len(buffer) : buffer[k] = all[ends[done] + k]
  BY LenProperties, EmptySeq DEF TypeInv, Kinds, Stages, IsPart
<1>2. /\ \A i \in 0..Len(asked) : ends[i] \in Nat
      /\ ends[Len(asked)] = Len(all) /\ done \in Nat
  <2>1. ends \in [0..Len(asked) -> Nat] /\ ends[Len(asked)] = Len(all)
    BY DEF AreRequests
  <2>2. \A i \in 0..Len(asked) : ends[i] \in Nat
    BY ONLY <2>1
  <2>3. done \in Nat
    BY <1>1
  <2> QED BY <2>1, <2>2, <2>3
<1>3. done # Len(asked)
  BY <1>1, <1>2
<1>4. done + 1 \in 1..Len(asked) /\ (done + 1) - 1 = done /\ m \in Messages
  <2>1. Len(asked) \in Nat /\ done \in 0..Len(asked)
    BY <1>1
  <2>2. done + 1 \in 1..Len(asked) /\ (done + 1) - 1 = done
    BY ONLY <1>3, <2>1
  <2> QED BY <2>2, ElementOfSeq DEF TypeInv, Kinds, Stages
<1> HIDE DEF m
<1>5. /\ ends[done + 1] = ends[done] + Len(Request(m)) /\ Len(Request(m)) \in Nat
      /\ \A k \in 1..Len(Request(m)) : Request(m)[k] = all[ends[done] + k]
  <2>1. /\ ends[done + 1] = ends[done] + Len(Request(m))
        /\ IsPart(Request(m), all, ends[done], ends[done + 1])
    BY <1>4 DEF AreRequests, m
  <2>2. Len(Request(m)) \in Nat
    BY <1>4, RequestIs, LenProperties
  <2>3. ends[done] \in Nat
    BY <1>2
  <2>4. ends[done + 1] - ends[done] = Len(Request(m))
    BY <2>1, <2>2, <2>3
  <2> QED BY <2>1, <2>2, <2>4 DEF IsPart
<1>6. Len(Request(m)) = 2 + Len(m[2]) /\ Request(m)[2] = Len(m[2]) /\ Len(m[2]) \in Nat
  BY <1>4, RequestIs
<1>7. Len(buffer) >= 2 => buffer[2] = Len(m[2])
  <2> SUFFICES ASSUME Len(buffer) >= 2 PROVE buffer[2] = Len(m[2])
    OBVIOUS
  <2>1. 2 \in 1..Len(buffer) /\ 2 \in 1..Len(Request(m))
    BY <1>1, <1>5, <1>6
  <2> QED BY <1>1, <1>5, <1>6, <2>1
<1>8. Len(buffer) <= Len(Request(m))
  <2>1. CASE child = "header"
    <3>1. Len(buffer) < 2
      BY <2>1 DEF TypeInv, Kinds, Stages
    <3> QED BY <1>1, <1>6, <3>1
  <2>2. CASE child = "body"
    <3>1. Len(buffer) >= 2 /\ Len(buffer) <= 2 + buffer[2]
      BY <2>2 DEF TypeInv, Kinds, Stages
    <3> QED BY <1>6, <1>7, <3>1
  <2> QED BY <2>1, <2>2
<1>9. ASSUME NEW k \in 1..Len(buffer) PROVE buffer[k] = Request(m)[k]
  <2>1. k \in 1..Len(Request(m))
    BY <1>1, <1>5, <1>8
  <2> QED BY <1>1, <1>5, <2>1
<1> QED BY <1>4, <1>6, <1>7, <1>8, <1>9 DEF m, BeginsRequest
-----------------------------------------------------------------------------
(* Each step keeps the types                                               *)

(* The steps of decode_msg.                                                *)
LEMMA ParentType ==
  ASSUME TypeInv, WSDissectorAssumption,
         Parent \/ Exit \/ \E m \in Messages : DecodeMsg(m)
  PROVE  TypeInv'
<1>1. CASE \E m \in Messages : DecodeMsg(m)
  <2>1. PICK m \in Messages : DecodeMsg(m)
    BY <1>1
  <2>2. /\ asked' = Append(asked, m) /\ parent' = "write" /\ toWrite' = Request(m)
        /\ lines' = <<>> /\ UNCHANGED <<leftBehind, child, buffer, toPrint, held, stdin, stdout>>
    BY <2>1 DEF DecodeMsg, childVars
  <2>3. asked' \in Seq(Messages) /\ Len(asked') = Len(asked) + 1
    BY <2>2, AppendProperties DEF TypeInv, Kinds, Stages
  <2>4. toWrite' \in Seq(Nat)
    BY <2>2, RequestIs
  <2>5. lines' \in Seq(Line)
    BY <2>2
  <2>6. leftBehind' \in 0..Len(asked') /\ leftBehind' < Len(asked') /\ Len(asked') \in Nat
    <3> DEFINE n == Len(asked)
    <3>1. n \in Nat
      BY LenProperties DEF TypeInv, Kinds
    <3>2. leftBehind \in 0..n /\ leftBehind' = leftBehind /\ Len(asked') = n + 1
      BY <2>2, <2>3 DEF TypeInv, Kinds
    <3> HIDE DEF n
    <3> QED BY ONLY <3>1, <3>2
  <2>8. Kinds'
    BY <2>2, <2>3, <2>4, <2>5, <2>6 DEF TypeInv, Kinds
  <2>9. Stages'
    BY <2>2, <2>3, <2>4, <2>5, <2>6 DEF TypeInv, Stages, Lives
  <2> QED BY <2>8, <2>9 DEF TypeInv
<1>2. CASE Write
  <2>1. toWrite' \in Seq(Nat) /\ stdin' \in Seq(Nat) /\ Len(stdin') <= RequestPipe
    BY <1>2, WriteMoves
  <2>2. /\ parent = "write" /\ parent' = (IF toWrite' = <<>> THEN "read" ELSE "write")
        /\ UNCHANGED <<lines, asked, leftBehind, child, buffer, toPrint, held, stdout>>
    BY <1>2 DEF Write, childVars
  <2>8. Kinds'
    BY <2>1, <2>2 DEF TypeInv, Kinds
  <2>9. Stages'
    BY <2>1, <2>2 DEF TypeInv, Stages, Lives
  <2> QED BY <2>8, <2>9 DEF TypeInv
<1>3. CASE WriteFails
  <2>1. /\ parent' = "idle" /\ toWrite' = <<>>
        /\ UNCHANGED <<lines, asked, leftBehind, child, buffer, toPrint, held, stdin, stdout>>
    BY <1>3 DEF WriteFails, childVars
  <2>2. toWrite' \in Seq(Nat)
    BY <2>1
  <2>8. Kinds'
    BY <2>1, <2>2 DEF TypeInv, Kinds
  <2>9. Stages'
    BY <2>1, <2>2 DEF TypeInv, Stages, Lives
  <2> QED BY <2>8, <2>9 DEF TypeInv
<1>4. CASE ReadLine \/ ReadDelimiter \/ LineNotUtf8
  <2>1. /\ parent = "read" /\ stdout # <<>> /\ stdout' = Tail(stdout)
        /\ lines' \in {<<>>, Append(lines, Head(stdout))}
        /\ parent' \in {"read", "idle"}
        /\ leftBehind' = leftBehind \/ (leftBehind' = leftBehind + 1 /\ parent' = "idle")
        /\ UNCHANGED <<toWrite, asked, child, buffer, toPrint, held, stdin>>
    BY <1>4 DEF ReadLine, ReadDelimiter, LineNotUtf8, childVars
  <2>2. stdout' \in Seq(Line) /\ Head(stdout) \in Line /\ Len(stdout') = Len(stdout) - 1
    BY <2>1, HeadTailProperties DEF TypeInv, Kinds, Stages
  <2>3. lines' \in Seq(Line)
    <3>1. Append(lines, Head(stdout)) \in Seq(Line) /\ <<>> \in Seq(Line)
      BY <2>2, AppendProperties DEF TypeInv, Kinds, Stages
    <3> QED BY <2>1, <3>1
  <2>4. leftBehind' \in 0..Len(asked) /\ (parent' = "read" => leftBehind' < Len(asked))
    <3>1. Len(asked) \in Nat /\ leftBehind \in Nat /\ leftBehind < Len(asked)
      BY <2>1 DEF TypeInv, Kinds, Stages
    <3> QED BY <2>1, <3>1
  <2>5. Len(stdout') <= AnswerPipe
    <3>1. Len(stdout) \in Nat /\ AnswerPipe \in Nat /\ Len(stdout) <= AnswerPipe
      BY LenProperties DEF TypeInv, Kinds, Stages, WSDissectorAssumption
    <3> QED BY <2>2, <3>1
  <2>8. Kinds'
    BY <2>1, <2>2, <2>3, <2>4, <2>5 DEF TypeInv, Kinds
  <2>9. Stages'
    BY <2>1, <2>2, <2>3, <2>4, <2>5 DEF TypeInv, Stages, Lives
  <2> QED BY <2>8, <2>9 DEF TypeInv
<1>5. CASE Exit
  BY <1>5 DEF Exit, childVars, TypeInv, Kinds, Stages
<1> QED BY <1>1, <1>2, <1>3, <1>4, <1>5 DEF Parent

(* A line that is moved from the head of one sequence to the end of         *)
(* another.                                                                *)
LEMMA LineMoves ==
  ASSUME NEW s \in Seq(Line), NEW t \in Seq(Line), t # <<>>
  PROVE  /\ Append(s, Head(t)) \in Seq(Line) /\ Len(Append(s, Head(t))) = Len(s) + 1
         /\ Tail(t) \in Seq(Line) /\ Len(Tail(t)) = Len(t) - 1
         /\ Len(s) \in Nat /\ Len(t) \in Nat /\ Len(t) >= 1
<1>1. Head(t) \in Line /\ Tail(t) \in Seq(Line) /\ Len(Tail(t)) = Len(t) - 1
  BY HeadTailProperties
<1>2. Len(s) \in Nat /\ Len(t) \in Nat /\ Len(t) # 0
  BY LenProperties, EmptySeq
<1> QED BY <1>1, <1>2, AppendProperties

(* The steps of the child.                                                 *)
LEMMA ChildType ==
  ASSUME TypeInv, WSDissectorAssumption, Child \/ Crash,
         Dissect => \E m \in Messages : buffer = Request(m)
  PROVE  TypeInv'
<1>1. /\ AnswerPipe \in Nat /\ StdioSize \in Nat /\ Len(stdout) \in Nat /\ Len(held) \in Nat
      /\ Len(stdout) <= AnswerPipe /\ Len(held) <= StdioSize
  BY LenProperties DEF TypeInv, Kinds, Stages, WSDissectorAssumption
<1>2. CASE Flush
  <2>1. /\ child = "flush" /\ child' \in {"flush", "ended", "header"}
        /\ UNCHANGED <<parent, toWrite, lines, asked, leftBehind, buffer, toPrint, stdin>>
        /\ \/ /\ held # <<>> /\ Len(stdout) < AnswerPipe
              /\ stdout' = Append(stdout, Head(held)) /\ held' = Tail(held)
           \/ stdout' = stdout /\ held' = held
    BY <1>2 DEF Flush, parentVars
  <2>4. stdout \in Seq(Line) /\ held \in Seq(Line)
    BY DEF TypeInv, Kinds
  <2>2. /\ stdout' \in Seq(Line) /\ held' \in Seq(Line)
        /\ Len(stdout') <= AnswerPipe /\ Len(held') <= StdioSize
    <3>1. CASE stdout' = stdout /\ held' = held
      BY <1>1, <2>4, <3>1
    <3>2. CASE held # <<>> /\ Len(stdout) < AnswerPipe
               /\ stdout' = Append(stdout, Head(held)) /\ held' = Tail(held)
      <4>1. /\ stdout' \in Seq(Line) /\ Len(stdout') = Len(stdout) + 1
            /\ held' \in Seq(Line) /\ Len(held') = Len(held) - 1
        BY <2>4, <3>2, LineMoves
      <4> QED BY <1>1, <3>2, <4>1
    <3> QED BY <2>1, <3>1, <3>2
  <2>3. buffer = <<>> /\ toPrint = <<>> /\ Len(buffer) = 0
    BY <2>1 DEF TypeInv, Kinds, Stages
  <2>8. Kinds'
    BY <2>1, <2>2, <2>3 DEF TypeInv, Kinds
  <2>9. Stages'
    BY <2>1, <2>2, <2>3 DEF TypeInv, Stages, Lives
  <2> QED BY <2>8, <2>9 DEF TypeInv
<1>3. CASE PrintLine
  <2>1. /\ child = "print" /\ child' \in {"print", "ended", "flush"}
        /\ UNCHANGED <<parent, toWrite, lines, asked, leftBehind, buffer, stdin>>
        /\ child' = "flush" => toPrint' = <<>>
        /\ \/ /\ toPrint # <<>> /\ Len(held) < StdioSize /\ stdout' = stdout
              /\ held' = Append(held, Head(toPrint)) /\ toPrint' = Tail(toPrint)
           \/ /\ held # <<>> /\ Len(stdout) < AnswerPipe /\ toPrint' = toPrint
              /\ stdout' = Append(stdout, Head(held)) /\ held' = Tail(held)
           \/ stdout' = stdout /\ held' = held /\ toPrint' = toPrint
    <3>1. StdioSize # 0 /\ Len(<<>>) = 0
      BY DEF WSDissectorAssumption
    <3> QED BY <1>3, <3>1 DEF PrintLine, parentVars
  <2>4. stdout \in Seq(Line) /\ held \in Seq(Line) /\ toPrint \in Seq(Line)
    BY DEF TypeInv, Kinds
  <2>2. /\ stdout' \in Seq(Line) /\ held' \in Seq(Line) /\ toPrint' \in Seq(Line)
        /\ Len(stdout') <= AnswerPipe /\ Len(held') <= StdioSize
    <3>1. CASE stdout' = stdout /\ held' = held /\ toPrint' = toPrint
      BY <1>1, <2>4, <3>1
    <3>2. CASE held # <<>> /\ Len(stdout) < AnswerPipe /\ toPrint' = toPrint
               /\ stdout' = Append(stdout, Head(held)) /\ held' = Tail(held)
      <4>1. /\ stdout' \in Seq(Line) /\ Len(stdout') = Len(stdout) + 1
            /\ held' \in Seq(Line) /\ Len(held') = Len(held) - 1
        BY <2>4, <3>2, LineMoves
      <4> QED BY <1>1, <2>4, <3>2, <4>1
    <3>3. CASE toPrint # <<>> /\ Len(held) < StdioSize /\ stdout' = stdout
               /\ held' = Append(held, Head(toPrint)) /\ toPrint' = Tail(toPrint)
      <4>1. /\ held' \in Seq(Line) /\ Len(held') = Len(held) + 1 /\ toPrint' \in Seq(Line)
        BY <2>4, <3>3, LineMoves
      <4> QED BY <1>1, <2>4, <3>3, <4>1
    <3> QED BY <2>1, <3>1, <3>2, <3>3
  <2>3. buffer = <<>>
    BY <2>1 DEF TypeInv, Kinds, Stages
  <2>8. Kinds'
    BY <2>1, <2>2, <2>3 DEF TypeInv, Kinds
  <2>9. Stages'
    BY <2>1, <2>2, <2>3 DEF TypeInv, Stages, Lives
  <2> QED BY <2>8, <2>9 DEF TypeInv
<1>4. CASE ReadHeader
  <2>1. /\ child = "header" /\ Fread(2)
        /\ child' = (IF Len(buffer') = 2 THEN "body" ELSE "header")
        /\ UNCHANGED <<parent, toWrite, lines, asked, leftBehind, toPrint, held, stdout>>
    BY <1>4 DEF ReadHeader, parentVars
  <2>2. /\ buffer' \in Seq(Nat) /\ stdin' \in Seq(Nat) /\ Len(buffer') <= 2
        /\ Len(stdin') <= Len(stdin)
    BY <2>1, FreadMoves
  <2>3. Len(stdin') <= RequestPipe
    <3>1. Len(stdin) \in Nat /\ Len(stdin') \in Nat /\ RequestPipe \in Nat
      BY <2>2, LenProperties DEF TypeInv, Kinds, Stages, WSDissectorAssumption
    <3> QED BY <2>2, <3>1 DEF TypeInv, Kinds, Stages
  <2>5. Len(buffer') \in Nat
    BY <2>2, LenProperties
  <2>4. Len(buffer') = 2 => buffer'[2] \in Nat
    <3>1. Len(buffer') = 2 => 2 \in 1..Len(buffer')
      OBVIOUS
    <3> QED BY <2>2, <3>1, ElementOfSeq
  <2>6. /\ child' = "header" => Len(buffer') < 2
        /\ child' = "body" => Len(buffer') >= 2 /\ Len(buffer') <= 2 + buffer'[2]
    <3>1. CASE Len(buffer') = 2
      <4>1. child' = "body" /\ buffer'[2] \in Nat
        BY <2>1, <2>4, <3>1
      <4> QED BY <3>1, <4>1
    <3>2. CASE Len(buffer') # 2
      <4>1. child' = "header"
        BY <2>1, <3>2
      <4>2. Len(buffer') <= 2
        BY <2>2
      <4>4. \A n \in Nat : n <= 2 /\ n # 2 => n < 2
        OBVIOUS
      <4>3. Len(buffer') < 2
        BY <2>5, <3>2, <4>2, <4>4, Zenon
      <4> QED BY <4>1, <4>3
    <3> QED BY <3>1, <3>2
  <2>8. Kinds'
    BY <2>1, <2>2, <2>3, <2>6 DEF TypeInv, Kinds
  <2>9. Stages'
    BY <2>1, <2>2, <2>3, <2>6 DEF TypeInv, Stages, Lives
  <2> QED BY <2>8, <2>9 DEF TypeInv
<1>5. CASE ReadBody
  <2>1. /\ child = "body" /\ Fread(2 + buffer[2]) /\ child' = "body"
        /\ UNCHANGED <<parent, toWrite, lines, asked, leftBehind, toPrint, held, stdout>>
    BY <1>5 DEF ReadBody, parentVars
  <2>2. Len(buffer) \in Nat /\ Len(buffer) >= 2 /\ buffer[2] \in Nat
    <3>1. Len(buffer) \in Nat /\ Len(buffer) >= 2
      BY <2>1, LenProperties DEF TypeInv, Kinds, Stages
    <3>2. 2 \in 1..Len(buffer)
      BY <3>1
    <3> QED BY <3>1, <3>2, ElementOfSeq DEF TypeInv, Kinds, Stages
  <2>3. /\ buffer' \in Seq(Nat) /\ stdin' \in Seq(Nat) /\ Len(buffer') <= 2 + buffer[2]
        /\ Len(buffer') > Len(buffer) /\ Len(stdin') <= Len(stdin)
        /\ \A k \in 1..Len(buffer) : buffer'[k] = buffer[k]
    <3>1. 2 + buffer[2] \in Nat
      BY <2>2
    <3> QED BY <2>1, <3>1, FreadMoves
  <2>4. Len(stdin') <= RequestPipe
    <3>1. Len(stdin) \in Nat /\ Len(stdin') \in Nat /\ RequestPipe \in Nat
      BY <2>3, LenProperties DEF TypeInv, Kinds, Stages, WSDissectorAssumption
    <3> QED BY <2>3, <3>1 DEF TypeInv, Kinds, Stages
  <2>5. Len(buffer') >= 2 /\ Len(buffer') <= 2 + buffer'[2]
    <3>1. 2 \in 1..Len(buffer) /\ Len(buffer') \in Nat
      BY <2>2, <2>3, LenProperties
    <3>2. buffer'[2] = buffer[2]
      BY <2>3, <3>1
    <3> QED BY <2>2, <2>3, <3>1, <3>2
  <2>8. Kinds'
    BY <2>1, <2>3, <2>4, <2>5 DEF TypeInv, Kinds
  <2>9. Stages'
    BY <2>1, <2>3, <2>4, <2>5 DEF TypeInv, Stages, Lives
  <2> QED BY <2>8, <2>9 DEF TypeInv
<1>6. CASE Dissect
  <2>1. /\ child = "body" /\ child' = "print" /\ buffer' = <<>> /\ toPrint' = AnswerTo(buffer) \o <<Delimiter>>
        /\ UNCHANGED <<parent, toWrite, lines, asked, leftBehind, stdin, stdout, held>>
    BY <1>6 DEF Dissect, parentVars
  <2>2. toPrint' \in Seq(Line)
    BY <1>6, <2>1, AnswerSeq
  <2>3. buffer' \in Seq(Nat)
    BY <2>1
  <2>8. Kinds'
    BY <2>1, <2>2, <2>3 DEF TypeInv, Kinds
  <2>9. Stages'
    BY <2>1, <2>2, <2>3 DEF TypeInv, Stages, Lives
  <2> QED BY <2>8, <2>9 DEF TypeInv
<1>7. CASE ReadEof \/ Crash
  <2>1. /\ child' \in {"ended", "died"}
        /\ UNCHANGED <<parent, toWrite, lines, asked, leftBehind, buffer, toPrint, held, stdin,
                       stdout>>
    BY <1>7 DEF ReadEof, Crash, parentVars
  <2>8. Kinds'
    BY <2>1 DEF TypeInv, Kinds
  <2>9. Stages'
    BY <2>1 DEF TypeInv, Stages, Lives
  <2> QED BY <2>8, <2>9 DEF TypeInv
<1> QED BY <1>2, <1>3, <1>4, <1>5, <1>6, <1>7 DEF Child

-----------------------------------------------------------------------------
(* The lines of all answers *)

(* An empty part.                                                          *)
LEMMA EmptyPart ==
  ASSUME NEW all, NEW from \in Nat, NEW to \in Nat
  PROVE  IsPart(<<>>, all, from, to) <=> from = to
<1>1. Len(<<>>) = 0
  OBVIOUS
<1>2. IsPart(<<>>, all, from, to) => to - from = 0
  BY <1>1 DEF IsPart
<1>3. from = to => IsPart(<<>>, all, from, to)
  BY <1>1 DEF IsPart
<1> QED BY <1>2, <1>3

(* The answers that were printed stay what they are when a call is made.   *)
LEMMA AnswersStay ==
  ASSUME NEW printed, NEW done \in 0..Len(asked), AreAnswers(printed, done),
         \A i \in 1..Len(asked) : asked'[i] = asked[i], Len(asked) \in Nat
  PROVE  AreAnswers(printed, done)'
<1>1. ASSUME NEW i \in 1..done, NEW k \in 1..Size
      PROVE  printed[(i - 1) * Size + k] = LineOf(i, k)'
  <2>1. i \in 1..Len(asked)
    OBVIOUS
  <2>2. asked'[i] = asked[i]
    BY <2>1
  <2>3. LineOf(i, k)' = LineOf(i, k)
    BY <2>2 DEF LineOf
  <2> QED BY <2>3 DEF AreAnswers
<1> QED BY <1>1 DEF AreAnswers

(* What is printed and written out stays in its order.                     *)
LEMMA LinesMove ==
  ASSUME WSDissectorAssumption, TypeInv, NEW printed \in Seq(Line), NEW t \in 0..Len(printed),
         OnTheWay(printed, t), Flush \/ PrintLine
  PROVE  OnTheWay(printed, t)'
<1>1. Len(printed) \in Nat /\ t \in Nat
  BY LenProperties
<1>2. PICK t1 \in t..Len(printed) : \E t2 \in t1..Len(printed) :
        /\ IsPart(stdout, printed, t, t1) /\ IsPart(held, printed, t1, t2)
        /\ IsPart(toPrint, printed, t2, Len(printed))
  BY DEF OnTheWay
<1>3. PICK t2 \in t1..Len(printed) :
        /\ IsPart(stdout, printed, t, t1) /\ IsPart(held, printed, t1, t2)
        /\ IsPart(toPrint, printed, t2, Len(printed))
  BY <1>2
<1>4. t1 \in Nat /\ t2 \in Nat /\ t <= t1 /\ t1 <= t2 /\ t2 <= Len(printed)
  BY <1>1
<1>5. stdout \in Seq(Line) /\ held \in Seq(Line) /\ toPrint \in Seq(Line)
  BY DEF TypeInv, Kinds
<1>6. CASE stdout' = stdout /\ held' = held /\ toPrint' = toPrint
  BY <1>3, <1>6 DEF OnTheWay
<1>7. CASE /\ held # <<>> /\ toPrint' = toPrint
           /\ stdout' = Append(stdout, Head(held)) /\ held' = Tail(held)
  <2>1. t1 < t2 /\ Head(held) = printed[t1 + 1] /\ IsPart(Tail(held), printed, t1 + 1, t2)
    BY <1>3, <1>4, <1>5, <1>7, PartShrinks
  <2>2. Head(held) \in Line
    BY <1>5, <1>7, HeadTailProperties
  <2>3. IsPart(Append(stdout, Head(held)), printed, t, t1 + 1)
    BY <1>1, <1>3, <1>4, <1>5, <2>1, <2>2, PartGrows
  <2>4. t1 + 1 \in t..Len(printed) /\ t2 \in (t1 + 1)..Len(printed)
    BY <1>1, <1>4, <2>1
  <2> QED BY <1>3, <1>7, <2>1, <2>3, <2>4 DEF OnTheWay
<1>8. CASE /\ toPrint # <<>> /\ stdout' = stdout
           /\ held' = Append(held, Head(toPrint)) /\ toPrint' = Tail(toPrint)
  <2>1. /\ t2 < Len(printed) /\ Head(toPrint) = printed[t2 + 1]
        /\ IsPart(Tail(toPrint), printed, t2 + 1, Len(printed))
    BY <1>1, <1>3, <1>4, <1>5, <1>8, PartShrinks
  <2>2. Head(toPrint) \in Line
    BY <1>5, <1>8, HeadTailProperties
  <2>3. IsPart(Append(held, Head(toPrint)), printed, t1, t2 + 1)
    BY <1>3, <1>4, <1>5, <2>1, <2>2, PartGrows
  <2>4. t2 + 1 \in t1..Len(printed)
    BY <1>1, <1>4, <2>1
  <2> QED BY <1>3, <1>8, <2>1, <2>3, <2>4 DEF OnTheWay
<1> HIDE DEF OnTheWay
<1>9. CASE Flush
  BY <1>6, <1>7, <1>9 DEF Flush
<1>10. CASE PrintLine
  <2>1. Len(held) = StdioSize => held # <<>>
    <3>1. StdioSize # 0 /\ Len(<<>>) = 0
      BY DEF WSDissectorAssumption
    <3> QED BY <3>1
  <2> QED BY <1>6, <1>7, <1>8, <1>10, <2>1 DEF PrintLine
<1> QED BY <1>9, <1>10

(* decode_msg reads the line that is next, and with the delimiter, or when *)
(* it cannot decode the last line of an answer, its call ends.             *)
LEMMA ReaderMoves ==
  ASSUME WSDissectorAssumption, TypeInv, NEW printed \in Seq(Line), NEW done \in 0..Len(asked),
         AreAnswers(printed, done), NEW t \in 0..Len(printed), OnTheWay(printed, t),
         ReaderAt(t), ReadLine \/ ReadDelimiter \/ LineNotUtf8
  PROVE  /\ t + 1 \in 0..Len(printed) /\ OnTheWay(printed, t + 1)'
         /\ ReaderAt(t + 1)'
         /\ ReadDelimiter => \E i \in 1..done : \E f \in {0, AnswerLines} :
               /\ i = Len(asked) - leftBehind
               /\ leftBehind = 0 => f = 0
               /\ Len(lines) = AnswerLines - f
               /\ \A x \in 1..(AnswerLines - f) : lines[x] = LineOf(i, f + x)
<1>1. Len(printed) \in Nat /\ t \in Nat /\ Len(asked) \in Nat /\ leftBehind \in Nat
  BY LenProperties DEF TypeInv, Kinds
<1>2. PICK t1 \in t..Len(printed) : \E t2 \in t1..Len(printed) :
        /\ IsPart(stdout, printed, t, t1) /\ IsPart(held, printed, t1, t2)
        /\ IsPart(toPrint, printed, t2, Len(printed))
  BY DEF OnTheWay
<1>3. PICK t2 \in t1..Len(printed) :
        /\ IsPart(stdout, printed, t, t1) /\ IsPart(held, printed, t1, t2)
        /\ IsPart(toPrint, printed, t2, Len(printed))
  BY <1>2
<1>4. t1 \in Nat /\ t2 \in Nat /\ t <= t1 /\ t1 <= t2 /\ t2 <= Len(printed)
  BY <1>1
<1>5. stdout \in Seq(Line) /\ held \in Seq(Line) /\ toPrint \in Seq(Line) /\ lines \in Seq(Line)
  BY DEF TypeInv, Kinds
<1>6. /\ parent = "read" /\ stdout # <<>> /\ stdout' = Tail(stdout)
      /\ held' = held /\ toPrint' = toPrint /\ asked' = asked
  BY DEF ReadLine, ReadDelimiter, LineNotUtf8, childVars
<1>7. /\ t < t1 /\ Head(stdout) = printed[t + 1] /\ IsPart(Tail(stdout), printed, t + 1, t1)
  BY <1>3, <1>4, <1>5, <1>6, <1>1, PartShrinks
<1>8. t + 1 \in 0..Len(printed) /\ OnTheWay(printed, t + 1)'
  <2>1. t1 \in (t + 1)..Len(printed) /\ t + 1 \in 0..Len(printed)
    BY <1>1, <1>4, <1>7
  <2> QED BY <1>3, <1>6, <1>7, <2>1 DEF OnTheWay
<1>9. PICK i \in 1..(Len(asked) + 1), f \in 0..AnswerLines, k \in 0..AnswerLines :
        ReadsAnswer(t, i, f, k)
  BY <1>6 DEF ReaderAt
<1>10. /\ f \in {0, AnswerLines} /\ k \in f..AnswerLines /\ t = Place(i, k)
       /\ leftBehind = 0 => f = 0
       /\ i = Len(asked) - leftBehind /\ Len(lines) = k - f
       /\ \A x \in 1..(k - f) : lines[x] = LineOf(i, f + x)
  BY <1>6, <1>9 DEF ReadsAnswer
<1>11. /\ i \in Nat /\ i >= 1 /\ f \in Nat /\ k \in Nat /\ AnswerLines \in Nat /\ AnswerLines >= 1
       /\ Size \in Nat /\ Size = AnswerLines + 1
  BY <1>1, AnswerIs DEF Size
<1> DEFINE p == (i - 1) * Size
<1>18. p \in Nat /\ t = p + k /\ i * Size = p + Size /\ k <= AnswerLines
  <2>1. p \in Nat /\ i * Size = p + Size
    BY <1>11, Places
  <2>2. t = p + k /\ k <= AnswerLines
    BY <1>10 DEF Place
  <2> QED BY <2>1, <2>2
<1> HIDE DEF p
<1>12. i <= done /\ Head(stdout) = LineOf(i, k + 1)
  <2>1. done \in Nat /\ k < Size /\ Len(printed) = done * Size
    BY <1>1, <1>11, <1>18 DEF AreAnswers
  <2>2. t = (i - 1) * Size + k /\ t < done * Size
    <3>1. t < Len(printed)
      BY <1>1, <1>4, <1>7
    <3> QED BY <1>10, <2>1, <3>1, Zenon DEF Place
  <2>3. i <= done
    BY <1>11, <2>1, <2>2, NextLine, Zenon
  <2>4. i \in 1..done /\ k + 1 \in 1..Size
    BY <1>11, <1>18, <2>1, <2>3
  <2>5. (i - 1) * Size + (k + 1) = t + 1
    <3>1. p + (k + 1) = t + 1
      BY <1>11, <1>18
    <3> QED BY <3>1 DEF p
  <2>6. printed[(i - 1) * Size + (k + 1)] = LineOf(i, k + 1)
    BY <2>4 DEF AreAnswers
  <2> QED BY <1>7, <2>3, <2>5, <2>6
<1>13. /\ k < AnswerLines => Head(stdout).n = k + 1
       /\ k = AnswerLines => Head(stdout) = Delimiter
       /\ Delimiter.n = 0 /\ \A u \in Undecodable : u.n = AnswerLines
  <2>2. k < AnswerLines => Head(stdout).n = k + 1
    <3> SUFFICES ASSUME k < AnswerLines PROVE Head(stdout).n = k + 1
      OBVIOUS
    <3>1. k + 1 <= AnswerLines /\ k + 1 \in 1..AnswerLines
      BY <1>11
    <3>2. Head(stdout) = AnswerTo(Request(asked[i]))[k + 1]
      BY <1>12, <3>1 DEF LineOf
    <3>3. AnswerTo(Request(asked[i]))[k + 1].n = k + 1
      BY <3>1, AnswerIs
    <3> QED BY <3>2, <3>3
  <2>3. k = AnswerLines => Head(stdout) = Delimiter
    BY <1>11, <1>12 DEF LineOf
  <2>4. \A u \in Undecodable : u.n = AnswerLines
    BY DEF Undecodable
  <2>5. Delimiter.n = 0
    BY DEF Delimiter
  <2> QED BY <2>2, <2>3, <2>4, <2>5
<1>14. \A j, x : LineOf(j, x)' = LineOf(j, x)
  BY <1>6 DEF LineOf
<1> DEFINE ends == /\ i = Len(asked) - leftBehind
                   /\ leftBehind = 0 => f = 0
                   /\ Len(lines) = AnswerLines - f
                   /\ \A x \in 1..(AnswerLines - f) : lines[x] = LineOf(i, f + x)
<1>15. CASE ReadLine
  <2>1. /\ lines' = Append(lines, Head(stdout)) /\ parent' = "read" /\ leftBehind' = leftBehind
        /\ Head(stdout) # Delimiter /\ Head(stdout) \in Line
    BY <1>5, <1>6, <1>15, HeadTailProperties DEF ReadLine
  <2>2. k < AnswerLines
    <3>1. k # AnswerLines
      BY <1>13, <2>1
    <3> QED BY <1>11, <1>18, <3>1
  <2>3. /\ Len(lines') = Len(lines) + 1 /\ lines'[Len(lines) + 1] = Head(stdout)
        /\ \A x \in 1..Len(lines) : lines'[x] = lines[x]
    BY <1>5, <2>1, AppendProperties
  <2>4. Len(lines') = (k + 1) - f /\ k - f \in Nat
    BY <1>10, <1>11, <2>3
  <2>5. ASSUME NEW x \in 1..((k + 1) - f) PROVE lines'[x] = LineOf(i, f + x)
    <3>1. CASE x = (k + 1) - f
      <4>1. f + x = k + 1 /\ x = Len(lines) + 1
        BY <1>10, <1>11, <3>1
      <4> QED BY <1>12, <2>3, <4>1
    <3>2. CASE x # (k + 1) - f
      <4>1. x \in 1..(k - f) /\ x \in 1..Len(lines)
        BY <1>10, <1>11, <3>2
      <4> QED BY <1>10, <2>3, <4>1
    <3> QED BY <3>1, <3>2
  <2>6. /\ k + 1 \in f..AnswerLines /\ t + 1 = Place(i, k + 1) /\ k + 1 \in 0..AnswerLines
    <3>1. k + 1 \in f..AnswerLines /\ k + 1 \in 0..AnswerLines
      BY <1>10, <1>11, <2>2
    <3>2. t + 1 = p + (k + 1)
      BY <1>11, <1>18
    <3> QED BY <3>1, <3>2 DEF p, Place
  <2>7. /\ i = Len(asked') - leftBehind' /\ i >= 1
        /\ leftBehind' = 0 => f = 0
        /\ \A x \in 1..((k + 1) - f) : lines'[x] = LineOf(i, f + x)'
    BY <1>6, <1>10, <1>11, <1>14, <2>1, <2>5
  <2>8. ReadsAnswer(t + 1, i, f, k + 1)'
    BY <1>10, <2>1, <2>4, <2>6, <2>7 DEF ReadsAnswer
  <2>9. i \in 1..(Len(asked') + 1)
    BY <1>6
  <2>10. ReaderAt(t + 1)'
    BY <2>6, <2>8, <2>9 DEF ReaderAt
  <2>11. ~ReadDelimiter
    BY <2>1 DEF ReadDelimiter
  <2> QED BY <1>8, <2>10, <2>11
<1>16. CASE ReadDelimiter
  <2>1. parent' = "idle" /\ leftBehind' = leftBehind /\ Head(stdout) = Delimiter
    BY <1>16 DEF ReadDelimiter
  <2>2. k = AnswerLines
    <3> SUFFICES ASSUME k # AnswerLines PROVE FALSE
      OBVIOUS
    <3>1. k < AnswerLines
      BY <1>10, <1>11
    <3>2. Delimiter.n = k + 1
      BY <1>13, <2>1, <3>1
    <3> QED BY <1>11, <1>13, <3>2
  <2>3. t + 1 = Place(i + 1, 0)
    <3>1. t + 1 = i * Size
      BY <1>11, <1>18, <2>2
    <3>2. (i + 1) - 1 = i /\ i * Size + 0 = i * Size
      BY <1>11, <1>18
    <3> QED BY <3>1, <3>2 DEF Place
  <2>4. i + 1 \in 1..(Len(asked') + 1) /\ i + 1 = Len(asked') - leftBehind' + 1
    BY <1>1, <1>6, <1>10, <1>11, <2>1
  <2>5. 0 \in 0..AnswerLines
    BY <1>11
  <2>6. ReadsAnswer(t + 1, i + 1, 0, 0)'
    BY <2>1, <2>3, <2>4, <2>5 DEF ReadsAnswer
  <2>7. ReaderAt(t + 1)'
    BY <2>4, <2>5, <2>6 DEF ReaderAt
  <2>8. i \in 1..done /\ f \in {0, AnswerLines} /\ ends
    BY <1>10, <1>11, <1>12, <2>2
  <2> QED BY <1>8, <2>7, <2>8
<1>17. CASE LineNotUtf8
  <2>1. parent' = "idle" /\ leftBehind' = leftBehind + 1 /\ Head(stdout) \in Undecodable
    BY <1>17 DEF LineNotUtf8
  <2>2. k + 1 = AnswerLines
    <3>1. Head(stdout).n = AnswerLines
      BY <1>13, <2>1
    <3>2. k # AnswerLines
      BY <1>11, <1>13, <3>1
    <3>3. k < AnswerLines
      BY <1>10, <1>11, <3>2
    <3> QED BY <1>13, <3>1, <3>3
  <2>3. t + 1 = Place(i, AnswerLines)
    <3>1. t + 1 = p + AnswerLines
      BY <1>11, <1>18, <2>2
    <3> QED BY <3>1 DEF p, Place
  <2>4. i \in 1..(Len(asked') + 1) /\ i = Len(asked') - leftBehind' + 1 /\ leftBehind' # 0
    BY <1>1, <1>6, <1>10, <1>11, <2>1
  <2>5. AnswerLines \in AnswerLines..AnswerLines /\ AnswerLines \in 0..AnswerLines
    BY <1>11
  <2>6. ReadsAnswer(t + 1, i, AnswerLines, AnswerLines)'
    BY <2>1, <2>3, <2>4, <2>5 DEF ReadsAnswer
  <2>7. ReaderAt(t + 1)'
    BY <2>4, <2>5, <2>6 DEF ReaderAt
  <2>8. ~ReadDelimiter
    <3>1. Head(stdout) # Delimiter
      BY <1>11, <1>13, <2>1
    <3> QED BY <3>1 DEF ReadDelimiter
  <2> QED BY <1>8, <2>7, <2>8
<1> QED BY <1>15, <1>16, <1>17

(* A call adds its request behind all requests.                            *)
LEMMA RequestAdded ==
  ASSUME WSDissectorAssumption, TypeInv, NEW done \in 0..Len(asked), RequestsInv(done),
         NEW m \in Messages, DecodeMsg(m), Lives
  PROVE  RequestsInv(done)'
<1>1. PICK all, ends : AreRequests(all, ends) /\ Coming(all, ends[done])
  BY DEF RequestsInv
<1>2. /\ Len(asked) \in Nat /\ all \in Seq(Nat) /\ Len(all) \in Nat
      /\ ends \in [0..Len(asked) -> Nat] /\ ends[0] = 0 /\ ends[Len(asked)] = Len(all)
  BY <1>1, LenProperties DEF TypeInv, Kinds, AreRequests
<1>3. /\ asked' = Append(asked, m) /\ toWrite' = Request(m) /\ stdin' = stdin /\ buffer' = buffer
      /\ toWrite = <<>>
  BY DEF DecodeMsg, childVars, TypeInv, Stages
<1>4. /\ Len(asked') = Len(asked) + 1 /\ asked'[Len(asked) + 1] = m
      /\ \A i \in 1..Len(asked) : asked'[i] = asked[i]
  BY <1>3, AppendProperties DEF TypeInv, Kinds
<1> DEFINE more == Request(m)
<1>20. PICK all2, ends2 :
          /\ all2 = all \o more
          /\ ends2 = [i \in 0..(Len(asked) + 1) |->
                        IF i <= Len(asked) THEN ends[i] ELSE Len(all2)]
  OBVIOUS
<1>5. more \in Seq(Nat) /\ Len(more) \in Nat
  BY RequestIs, LenProperties
<1> HIDE DEF more
<1>6. all2 \in Seq(Nat) /\ Len(all2) = Len(all) + Len(more)
  BY <1>2, <1>5, <1>20, ConcatProperties
<1>7. IsPart(more, all2, Len(all), Len(all2))
  BY <1>2, <1>5, <1>20, PartAdded
<1>8. \A i \in 0..Len(asked) : ends[i] \in Nat
  BY ONLY <1>2
<1>9. /\ ends2 \in [0..(Len(asked) + 1) -> Nat] /\ ends2[Len(asked) + 1] = Len(all2)
      /\ \A i \in 0..Len(asked) : ends2[i] = ends[i]
  <2>1. \A i \in 0..(Len(asked) + 1) : i <= Len(asked) => i \in 0..Len(asked)
    BY <1>2
  <2>2. Len(all2) \in Nat
    BY <1>2, <1>5, <1>6
  <2>3. Len(asked) + 1 \in 0..(Len(asked) + 1) /\ ~(Len(asked) + 1 <= Len(asked))
    BY <1>2
  <2>4. \A i \in 0..Len(asked) : i \in 0..(Len(asked) + 1) /\ i <= Len(asked)
    BY <1>2
  <2> QED BY <1>8, <1>20, <2>1, <2>2, <2>3, <2>4
<1>10. /\ \A i \in 1..Len(asked) : /\ ends[i] = ends[i - 1] + Len(Request(asked[i]))
                                   /\ IsPart(Request(asked[i]), all, ends[i - 1], ends[i])
  BY <1>1 DEF AreRequests
<1>11. ASSUME NEW i \in 1..Len(asked) PROVE i - 1 \in 0..Len(asked) /\ i \in 0..Len(asked)
  BY <1>2
<1>12. ASSUME NEW x \in Nat, NEW y \in Nat, x <= y, y <= Len(all), NEW q, IsPart(q, all, x, y)
       PROVE  IsPart(q, all2, x, y)
  BY <1>2, <1>5, <1>12, <1>20, PartOfLonger
<1>13. /\ AreRequests(all2, ends2)' /\ ends2[done] = ends[done]
  <2>1. ends2[0] = 0 /\ ends2[Len(asked')] = Len(all2) /\ ends2 \in [0..Len(asked') -> Nat]
    <3>1. 0 \in 0..Len(asked)
      BY <1>2
    <3> QED BY <1>2, <1>4, <1>9, <3>1
  <2>2. \A i \in 0..Len(asked') : ends2[i] <= Len(all2)
    <3>1. \A i \in 0..Len(asked) : ends[i] <= Len(all)
      BY <1>1 DEF AreRequests
    <3>2. ASSUME NEW i \in 0..Len(asked') PROVE ends2[i] <= Len(all2)
      <4>1. CASE i = Len(asked) + 1
        <5>1. ends2[i] = Len(all2) /\ Len(all2) \in Nat
          BY <1>2, <1>5, <1>6, <1>9, <4>1
        <5> QED BY <5>1
      <4>2. CASE i # Len(asked) + 1
        <5>1. i \in 0..Len(asked)
          BY <1>2, <1>4, <4>2
        <5>2. ends2[i] = ends[i] /\ ends[i] <= Len(all) /\ ends[i] \in Nat
          BY <1>8, <1>9, <3>1, <5>1
        <5> QED BY <1>2, <1>5, <1>6, <5>2
      <4> QED BY <4>1, <4>2
    <3> QED BY <3>2
  <2>3. ASSUME NEW i \in 1..Len(asked')
        PROVE  /\ ends2[i] = ends2[i - 1] + Len(Request(asked'[i]))
               /\ IsPart(Request(asked'[i]), all2, ends2[i - 1], ends2[i])
    <3>1. CASE i = Len(asked) + 1
      <4>1. i - 1 = Len(asked) /\ i - 1 \in 0..Len(asked)
        BY <1>2, <3>1
      <4>2. ends2[i - 1] = Len(all) /\ ends2[i] = Len(all2) /\ Request(asked'[i]) = more
        BY <1>2, <1>4, <1>9, <3>1, <4>1 DEF more
      <4> QED BY <1>6, <1>7, <4>2
    <3>2. CASE i # Len(asked) + 1
      <4>1. i \in 1..Len(asked)
        BY <1>2, <1>4, <3>2
      <4>2. i - 1 \in 0..Len(asked) /\ i \in 0..Len(asked)
        BY <1>11, <4>1
      <4>3. ends2[i] = ends[i] /\ ends2[i - 1] = ends[i - 1] /\ asked'[i] = asked[i]
        BY <1>4, <1>9, <4>1, <4>2
      <4>4. /\ ends[i] = ends[i - 1] + Len(Request(asked[i]))
            /\ IsPart(Request(asked[i]), all, ends[i - 1], ends[i])
        BY <1>10, <4>1
      <4>5. /\ ends[i] \in Nat /\ ends[i - 1] \in Nat /\ ends[i] <= Len(all)
            /\ Len(Request(asked[i])) \in Nat
        <5>1. asked[i] \in Messages
          BY <4>1, ElementOfSeq DEF TypeInv, Kinds
        <5> QED BY <1>1, <1>8, <4>2, <5>1, RequestIs, LenProperties DEF AreRequests
      <4>6. IsPart(Request(asked[i]), all2, ends[i - 1], ends[i])
        <5>1. ends[i - 1] <= ends[i]
          BY <4>4, <4>5
        <5> QED BY <1>12, <4>4, <4>5, <5>1
      <4> QED BY <4>3, <4>4, <4>6
    <3> QED BY <3>1, <3>2
  <2> QED BY <1>6, <1>9, <2>1, <2>2, <2>3 DEF AreRequests
<1>14. PICK s1 \in ends[done]..Len(all) : \E s2 \in s1..Len(all) :
          /\ IsPart(buffer, all, ends[done], s1) /\ IsPart(stdin, all, s1, s2)
          /\ IsPart(toWrite, all, s2, Len(all))
  BY <1>1 DEF Coming
<1>15. PICK s2 \in s1..Len(all) :
          /\ IsPart(buffer, all, ends[done], s1) /\ IsPart(stdin, all, s1, s2)
          /\ IsPart(toWrite, all, s2, Len(all))
  BY <1>14
<1>16. ends[done] \in Nat /\ s1 \in Nat /\ s2 \in Nat /\ ends[done] <= s1 /\ s1 <= s2
  BY <1>2, <1>8
<1>17. s2 = Len(all)
  BY <1>2, <1>3, <1>15, <1>16, EmptyPart
<1>18. IsPart(buffer, all2, ends[done], s1) /\ IsPart(stdin, all2, s1, s2)
  <2>1. s1 <= Len(all) /\ s2 <= Len(all)
    BY <1>2, <1>16, <1>17
  <2> QED BY <1>12, <1>15, <1>16, <2>1
<1>19. Coming(all2, ends2[done])'
  <2>1. s1 \in ends[done]..Len(all2) /\ s2 \in s1..Len(all2)
    BY <1>2, <1>5, <1>6, <1>16, <1>17
  <2>2. IsPart(toWrite', all2, s2, Len(all2))
    BY <1>3, <1>7, <1>17 DEF more
  <2>3. IsPart(buffer', all2, ends[done], s1) /\ IsPart(stdin', all2, s1, s2)
    BY <1>3, <1>18
  <2> QED BY <1>13, <2>1, <2>2, <2>3 DEF Coming
<1> QED BY <1>13, <1>19 DEF RequestsInv

(* What is written and read of the requests stays in its order.            *)
LEMMA RequestsMove ==
  ASSUME WSDissectorAssumption, TypeInv, NEW done \in 0..Len(asked), RequestsInv(done),
         Write \/ ReadHeader \/ ReadBody
  PROVE  RequestsInv(done)'
<1>1. PICK all, ends : AreRequests(all, ends) /\ Coming(all, ends[done])
  BY DEF RequestsInv
<1>2. PICK s1 \in ends[done]..Len(all) : \E s2 \in s1..Len(all) :
          /\ IsPart(buffer, all, ends[done], s1) /\ IsPart(stdin, all, s1, s2)
          /\ IsPart(toWrite, all, s2, Len(all))
  BY <1>1 DEF Coming
<1>3. PICK s2 \in s1..Len(all) :
          /\ IsPart(buffer, all, ends[done], s1) /\ IsPart(stdin, all, s1, s2)
          /\ IsPart(toWrite, all, s2, Len(all))
  BY <1>2
<1>4. Len(asked) \in Nat /\ Len(all) \in Nat /\ ends \in [0..Len(asked) -> Nat]
  BY <1>1, LenProperties DEF TypeInv, Kinds, AreRequests
<1>5. ends[done] \in Nat
  BY ONLY <1>4
<1>6. s1 \in Nat /\ s2 \in Nat /\ ends[done] <= s1 /\ s1 <= s2 /\ s2 <= Len(all)
  BY <1>4, <1>5
<1>7. asked' = asked
  BY DEF Write, ReadHeader, ReadBody, parentVars
<1>8. AreRequests(all, ends)'
  BY <1>1, <1>7 DEF AreRequests
<1>9. CASE Write
  <2>1. buffer' = buffer
    BY <1>9 DEF Write, childVars
  <2>2. PICK n \in s2..Len(all) : IsPart(stdin', all, s1, n) /\ IsPart(toWrite', all, n, Len(all))
    BY <1>3, <1>4, <1>6, <1>9, WriteMoves
  <2>3. n \in s1..Len(all)
    BY <1>4, <1>6
  <2>4. IsPart(buffer', all, ends[done], s1)
    BY <1>3, <2>1
  <2>5. Coming(all, ends[done])'
    BY <2>2, <2>3, <2>4 DEF Coming
  <2> QED BY <1>8, <2>5 DEF RequestsInv
<1>10. ASSUME NEW wanted \in Nat, Fread(wanted), toWrite' = toWrite PROVE RequestsInv(done)'
  <2>2. PICK n \in s1..s2 : IsPart(buffer', all, ends[done], n) /\ IsPart(stdin', all, n, s2)
    BY <1>3, <1>5, <1>6, <1>10, FreadMoves
  <2>3. n \in ends[done]..Len(all) /\ s2 \in n..Len(all)
    BY <1>4, <1>5, <1>6
  <2>4. IsPart(toWrite', all, s2, Len(all))
    BY <1>3, <1>10
  <2>5. Coming(all, ends[done])'
    BY <2>2, <2>3, <2>4 DEF Coming
  <2> QED BY <1>8, <2>5 DEF RequestsInv
<1>11. CASE ReadHeader
  BY <1>10, <1>11 DEF ReadHeader, parentVars
<1>12. CASE ReadBody
  <2>1. 2 + buffer[2] \in Nat
    <3>1. Len(buffer) \in Nat /\ Len(buffer) >= 2 /\ buffer \in Seq(Nat)
      BY <1>12, LenProperties DEF TypeInv, Kinds, Stages, ReadBody
    <3>2. 2 \in 1..Len(buffer)
      BY <3>1
    <3>3. buffer[2] \in Nat
      BY <3>1, <3>2, ElementOfSeq
    <3> QED BY <3>3
  <2> QED BY <1>10, <1>12, <2>1 DEF ReadBody, parentVars
<1> QED BY <1>9, <1>11, <1>12

(* When main() has read a request, it is the one whose answer is next.     *)
LEMMA RequestRead ==
  ASSUME WSDissectorAssumption, TypeInv, NEW done \in 0..Len(asked), RequestsInv(done), Dissect
  PROVE  /\ done + 1 \in 1..Len(asked) /\ asked[done + 1] \in Messages
         /\ buffer = Request(asked[done + 1]) /\ RequestsInv(done + 1)'
<1>1. PICK all, ends : AreRequests(all, ends) /\ Coming(all, ends[done])
  BY DEF RequestsInv
<1>2. PICK s1 \in ends[done]..Len(all) : \E s2 \in s1..Len(all) :
          /\ IsPart(buffer, all, ends[done], s1) /\ IsPart(stdin, all, s1, s2)
          /\ IsPart(toWrite, all, s2, Len(all))
  BY <1>1 DEF Coming
<1>3. PICK s2 \in s1..Len(all) :
          /\ IsPart(buffer, all, ends[done], s1) /\ IsPart(stdin, all, s1, s2)
          /\ IsPart(toWrite, all, s2, Len(all))
  BY <1>2
<1>4. Len(asked) \in Nat /\ Len(all) \in Nat /\ ends \in [0..Len(asked) -> Nat]
  BY <1>1, LenProperties DEF TypeInv, Kinds, AreRequests
<1>5. ends[done] \in Nat
  BY ONLY <1>4
<1>6. s1 \in Nat /\ s2 \in Nat /\ ends[done] <= s1 /\ s1 <= s2 /\ s2 <= Len(all)
  <2>1. s1 \in ends[done]..Len(all) /\ s2 \in s1..Len(all)
    OBVIOUS
  <2>2. Len(all) \in Nat
    BY ONLY <1>4
  <2>3. s1 \in Nat /\ ends[done] <= s1
    BY ONLY <1>5, <2>1, <2>2
  <2> QED BY ONLY <2>1, <2>2, <2>3
<1>7. /\ child = "body" /\ Len(buffer) = 2 + buffer[2] /\ Len(buffer) >= 2
      /\ buffer \in Seq(Nat) /\ buffer # <<>>
  <2>1. Len(<<>>) = 0
    OBVIOUS
  <2>2. child = "body" /\ Len(buffer) = 2 + buffer[2]
    BY DEF Dissect
  <2>3. Kinds /\ Stages
    BY DEF TypeInv
  <2>4. Len(buffer) >= 2
    BY ONLY <2>2, <2>3 DEF Stages
  <2>5. buffer \in Seq(Nat)
    BY ONLY <2>3 DEF Kinds
  <2>6. buffer # <<>>
    BY ONLY <2>1, <2>4
  <2> QED BY ONLY <2>2, <2>4, <2>5, <2>6
<1>8. /\ done + 1 \in 1..Len(asked) /\ asked[done + 1] \in Messages
      /\ \A k \in 1..Len(buffer) : buffer[k] = Request(asked[done + 1])[k]
      /\ Len(Request(asked[done + 1])) = 2 + buffer[2]
  <2>1. s1 <= Len(all)
    BY <1>6, <1>4
  <2>2. child \in {"header", "body"}
    BY <1>7
  <2>3. TypeInv /\ WSDissectorAssumption /\ done \in 0..Len(asked)
    OBVIOUS
  <2>4. BeginsRequest(done)
    BY ONLY <1>1, <1>3, <1>6, <1>7, <2>1, <2>2, <2>3, BufferIs
  <2> QED BY <1>7, <2>4 DEF BeginsRequest
<1>9. buffer = Request(asked[done + 1])
  <2>1. Request(asked[done + 1]) \in Seq(Nat)
    BY <1>8, RequestIs
  <2> QED BY <1>7, <1>8, <2>1, SeqEqual
<1>10. /\ ends[done + 1] = ends[done] + Len(buffer)
  <2>1. (done + 1) - 1 = done
    BY <1>4
  <2> QED BY <1>1, <1>8, <1>9, <2>1 DEF AreRequests
<1>11. s1 = ends[done + 1]
  <2>1. Len(buffer) = s1 - ends[done]
    BY <1>3 DEF IsPart
  <2> QED BY <1>5, <1>6, <1>10, <2>1
<1>12. asked' = asked /\ stdin' = stdin /\ toWrite' = toWrite /\ buffer' = <<>>
  BY DEF Dissect, parentVars
<1>13. AreRequests(all, ends)'
  BY <1>1, <1>12 DEF AreRequests
<1>14. Coming(all, s1)'
  <2>1. IsPart(buffer', all, s1, s1)
    BY <1>6, <1>12, EmptyPart
  <2>2. s1 \in s1..Len(all)
    BY <1>4, <1>6
  <2>3. IsPart(stdin', all, s1, s2) /\ IsPart(toWrite', all, s2, Len(all))
    BY <1>3, <1>12
  <2> QED BY <2>1, <2>2, <2>3 DEF Coming
<1>15. RequestsInv(done + 1)'
  <2>1. Coming(all, ends[done + 1])'
    BY <1>11, <1>14 DEF Coming
  <2> QED BY <1>13, <2>1 DEF RequestsInv
<1> QED BY <1>8, <1>9, <1>15

(* Its answer is added behind all that was printed.                        *)
LEMMA AnswerAdded ==
  ASSUME WSDissectorAssumption, TypeInv, NEW done \in Nat, done + 1 \in 1..Len(asked),
         NEW m \in Messages, m = asked[done + 1], buffer = Request(m), AnswersInv(done), Dissect
  PROVE  AnswersInv(done + 1)'
<1>17. PICK printed \in Seq(Line) : \E t \in 0..Len(printed) :
          AreAnswers(printed, done) /\ OnTheWay(printed, t) /\ ReaderAt(t)
  BY DEF AnswersInv
<1>1. PICK t \in 0..Len(printed) :
          AreAnswers(printed, done) /\ OnTheWay(printed, t) /\ ReaderAt(t)
  BY <1>17
<1>2. PICK more : more = AnswerTo(Request(m)) \o <<Delimiter>>
  OBVIOUS
<1>3. /\ more \in Seq(Line) /\ Len(more) = Size
      /\ \A k \in 1..Size : more[k] = LineOf(done + 1, k)
  <2>1. \A k \in 1..Size : more[k] = IF k <= AnswerLines THEN AnswerTo(Request(m))[k]
                                                       ELSE Delimiter
    BY <1>2, AnswerSeq
  <2> QED BY <1>2, <2>1, AnswerSeq DEF LineOf
<1>4. PICK all : all = printed \o more
  OBVIOUS
<1>5. /\ all \in Seq(Line) /\ Len(all) = Len(printed) + Size
      /\ \A k \in 1..(Len(printed) + Size) :
            all[k] = IF k <= Len(printed) THEN printed[k] ELSE more[k - Len(printed)]
  <2>1. /\ printed \o more \in Seq(Line) /\ Len(printed \o more) = Len(printed) + Len(more)
        /\ \A k \in 1..(Len(printed) + Len(more)) :
              (printed \o more)[k]
                 = IF k <= Len(printed) THEN printed[k] ELSE more[k - Len(printed)]
    BY <1>3, ConcatProperties
  <2> QED BY <1>3, <1>4, <2>1
<1>6. Size \in Nat /\ Len(printed) \in Nat /\ Len(printed) = done * Size
  BY <1>1, AnswerIs, LenProperties DEF AreAnswers
<1>7. /\ child = "body" /\ toPrint = <<>> /\ asked' = asked /\ toPrint' = more
      /\ stdout' = stdout /\ held' = held /\ parent' = parent /\ lines' = lines
      /\ leftBehind' = leftBehind
  BY <1>2 DEF Dissect, parentVars, TypeInv, Stages
<1>8. (done + 1) * Size = done * Size + Size /\ (done + 1) - 1 = done
  BY <1>6
<1>9. AreAnswers(all, done + 1)'
  <2>1. ASSUME NEW i \in 1..(done + 1), NEW k \in 1..Size
        PROVE  all[(i - 1) * Size + k] = LineOf(i, k)
    <3>1. CASE i = done + 1
      <4>1. (i - 1) * Size + k = Len(printed) + k
        BY <1>6, <1>8, <3>1
      <4>2. Len(printed) + k \in 1..(Len(printed) + Size) /\ ~(Len(printed) + k <= Len(printed))
            /\ (Len(printed) + k) - Len(printed) = k
        BY <1>6
      <4>3. all[Len(printed) + k] = more[k]
        BY <1>5, <4>2
      <4>4. more[k] = LineOf(done + 1, k)
        BY <1>3
      <4> QED BY <3>1, <4>1, <4>3, <4>4
    <3>2. CASE i # done + 1
      <4>1. i \in 1..done
        BY <3>2
      <4>2. i \in Nat /\ i >= 1 /\ i <= done
        BY <4>1
      <4>3. (i - 1) * Size \in Nat /\ i * Size = (i - 1) * Size + Size /\ i * Size <= done * Size
        BY <1>6, <4>2, Places, PlaceBehind
      <4> DEFINE q == (i - 1) * Size
      <4>4. q \in Nat /\ q + Size <= Len(printed)
        BY <1>6, <4>3
      <4> HIDE DEF q
      <4>5. q + k \in 1..(Len(printed) + Size) /\ q + k <= Len(printed)
        BY <1>6, <4>4
      <4>6. all[q + k] = printed[q + k]
        BY <1>5, <4>5
      <4>7. printed[q + k] = LineOf(i, k)
        BY <1>1, <4>1 DEF AreAnswers, q
      <4> QED BY <4>6, <4>7 DEF q
    <3> QED BY <3>1, <3>2
  <2>2. \A i, k : LineOf(i, k)' = LineOf(i, k)
    BY <1>7 DEF LineOf
  <2>3. Len(all) = (done + 1) * Size
    BY <1>5, <1>6, <1>8
  <2> QED BY <2>1, <2>2, <2>3 DEF AreAnswers
<1>10. PICK t1 \in t..Len(printed) : \E t2 \in t1..Len(printed) :
        /\ IsPart(stdout, printed, t, t1) /\ IsPart(held, printed, t1, t2)
        /\ IsPart(toPrint, printed, t2, Len(printed))
  BY <1>1 DEF OnTheWay
<1>11. PICK t2 \in t1..Len(printed) :
        /\ IsPart(stdout, printed, t, t1) /\ IsPart(held, printed, t1, t2)
        /\ IsPart(toPrint, printed, t2, Len(printed))
  BY <1>10
<1>12. t \in Nat /\ t1 \in Nat /\ t2 \in Nat /\ t <= t1 /\ t1 <= t2 /\ t2 <= Len(printed)
  BY <1>6
<1>13. t2 = Len(printed)
  BY <1>6, <1>7, <1>11, <1>12, EmptyPart
<1>14. OnTheWay(all, t)'
  <2>1. IsPart(stdout, all, t, t1)
    <3>1. t1 <= Len(printed)
      BY <1>12, <1>13
    <3> QED BY <1>3, <1>4, <1>11, <1>12, <3>1, PartOfLonger
  <2>2. IsPart(held, all, t1, t2)
    BY <1>3, <1>4, <1>11, <1>12, PartOfLonger
  <2>3. IsPart(more, all, Len(printed), Len(all))
    BY <1>3, <1>4, PartAdded
  <2>4. t1 \in t..Len(all) /\ t2 \in t1..Len(all)
    <3>1. Len(all) = Len(printed) + Size
      BY <1>5
    <3> QED BY ONLY <1>6, <1>12, <3>1
  <2> QED BY <1>7, <1>13, <2>1, <2>2, <2>3, <2>4 DEF OnTheWay
<1>15. ReaderAt(t)'
  <2>1. Lives
    BY <1>7 DEF Lives
  <2>2. \A i, k : LineOf(i, k)' = LineOf(i, k)
    BY <1>7 DEF LineOf
  <2>3. \A i, f, k : ReadsAnswer(t, i, f, k) => ReadsAnswer(t, i, f, k)'
    BY <1>7, <2>2 DEF ReadsAnswer
  <2> QED BY <1>1, <1>7, <2>1, <2>3 DEF ReaderAt
<1>16. t \in 0..Len(all)
  <2>1. Len(all) = Len(printed) + Size
    BY <1>5
  <2> QED BY ONLY <1>6, <1>12, <2>1
<1> QED BY <1>5, <1>9, <1>14, <1>15, <1>16 DEF AnswersInv

(* A call comes to the answer that is next, or to what is left of the one  *)
(* before.                                                                 *)
LEMMA CallsAnswers ==
  ASSUME WSDissectorAssumption, TypeInv, NEW done \in 0..Len(asked), AnswersInv(done),
         (\E m \in Messages : DecodeMsg(m)) \/ Write \/ WriteFails \/ Exit
  PROVE  AnswersInv(done)'
<1>1. PICK printed \in Seq(Line) : \E t \in 0..Len(printed) :
          AreAnswers(printed, done) /\ OnTheWay(printed, t) /\ ReaderAt(t)
  BY DEF AnswersInv
<1>2. PICK t \in 0..Len(printed) :
          AreAnswers(printed, done) /\ OnTheWay(printed, t) /\ ReaderAt(t)
  BY <1>1
<1>3. Len(asked) \in Nat /\ leftBehind \in Nat /\ asked \in Seq(Messages)
  BY DEF TypeInv, Kinds
<1>4. /\ stdout' = stdout /\ held' = held /\ toPrint' = toPrint /\ child' = child
      /\ leftBehind' = leftBehind
  BY DEF DecodeMsg, Write, WriteFails, Exit, childVars
<1>5. \A i \in 1..Len(asked) : asked'[i] = asked[i]
  <2>1. CASE \E m \in Messages : DecodeMsg(m)
    <3>1. PICK m \in Messages : asked' = Append(asked, m)
      BY <2>1 DEF DecodeMsg
    <3> QED BY <1>3, <3>1, AppendProperties
  <2>2. CASE Write \/ WriteFails \/ Exit
    BY <2>2 DEF Write, WriteFails, Exit
  <2> QED BY <2>1, <2>2
<1>6. AreAnswers(printed, done)'
  BY <1>2, <1>3, <1>5, AnswersStay
<1>7. OnTheWay(printed, t)'
  BY <1>2, <1>4 DEF OnTheWay
<1>8. ReaderAt(t)'
  <2>1. CASE parent' = "gone" \/ (~Lives /\ parent' # "read")
    BY <1>4, <2>1 DEF ReaderAt, Lives
  <2>2. CASE (\E m \in Messages : DecodeMsg(m)) /\ Lives
    <3>1. PICK m \in Messages : asked' = Append(asked, m) /\ parent = "idle" /\ parent' = "write"
      BY <2>2 DEF DecodeMsg
    <3>2. Len(asked') = Len(asked) + 1
      BY <1>3, <3>1, AppendProperties
    <3>3. PICK i \in 1..(Len(asked) + 1), f \in 0..AnswerLines, k \in 0..AnswerLines :
            ReadsAnswer(t, i, f, k)
      BY <1>2, <2>2, <3>1 DEF ReaderAt
    <3>4. i = Len(asked) - leftBehind + 1 /\ k = f
      BY <3>1, <3>3 DEF ReadsAnswer
    <3>5. i \in 1..(Len(asked') + 1) /\ i = Len(asked') - leftBehind'
      BY <1>3, <1>4, <3>2, <3>4
    <3>6. ReadsAnswer(t, i, f, k)'
      BY <1>4, <3>1, <3>3, <3>4, <3>5 DEF ReadsAnswer
    <3> QED BY <3>5, <3>6 DEF ReaderAt
  <2>3. CASE Write
    <3>1. /\ asked' = asked /\ lines' = lines /\ parent = "write" /\ Lives
          /\ parent' \in {"read", "write"} /\ lines = <<>> /\ Len(lines) = 0
          /\ leftBehind < Len(asked)
      <4>1. lines = <<>> /\ leftBehind < Len(asked)
        BY <2>3 DEF Write, TypeInv, Stages
      <4>2. Len(lines) = 0
        BY <4>1
      <4> QED BY <2>3, <4>1, <4>2 DEF Write
    <3>3. PICK i \in 1..(Len(asked) + 1), f \in 0..AnswerLines, k \in 0..AnswerLines :
            ReadsAnswer(t, i, f, k)
      BY <1>2, <3>1 DEF ReaderAt
    <3>4. i = Len(asked) - leftBehind /\ k = f /\ i >= 1 /\ k \in Nat
      <4>1. AnswerLines \in Nat
        BY AnswerIs
      <4> QED BY <1>3, <3>1, <3>3, <4>1 DEF ReadsAnswer
    <3>5. k - f = 0
      BY <3>4
    <3>6. ReadsAnswer(t, i, f, k)'
      BY <1>4, <3>1, <3>3, <3>4, <3>5 DEF ReadsAnswer
    <3> QED BY <3>1, <3>6 DEF ReaderAt
  <2> QED BY <2>1, <2>2, <2>3 DEF WriteFails, Exit, DecodeMsg
<1> QED BY <1>2, <1>6, <1>7, <1>8 DEF AnswersInv

(* The child's other steps leave it where it is.                           *)
LEMMA ChildAnswers ==
  ASSUME WSDissectorAssumption, TypeInv, NEW done \in 0..Len(asked), AnswersInv(done),
         Flush \/ PrintLine \/ ReadHeader \/ ReadBody \/ ReadEof \/ Crash
  PROVE  AnswersInv(done)'
<1>1. PICK printed \in Seq(Line) : \E t \in 0..Len(printed) :
          AreAnswers(printed, done) /\ OnTheWay(printed, t) /\ ReaderAt(t)
  BY DEF AnswersInv
<1>2. PICK t \in 0..Len(printed) :
          AreAnswers(printed, done) /\ OnTheWay(printed, t) /\ ReaderAt(t)
  BY <1>1
<1>3. /\ parent' = parent /\ lines' = lines /\ asked' = asked /\ leftBehind' = leftBehind
  BY DEF Flush, PrintLine, ReadHeader, ReadBody, ReadEof, Crash, parentVars
<1>4. Lives
  BY DEF Flush, PrintLine, ReadHeader, ReadBody, ReadEof, Crash, Lives
<1>5. \A i, k : LineOf(i, k)' = LineOf(i, k)
  BY <1>3 DEF LineOf
<1>6. AreAnswers(printed, done)'
  BY <1>2, <1>5 DEF AreAnswers
<1>7. OnTheWay(printed, t)'
  <2>1. CASE Flush \/ PrintLine
    BY <1>2, <2>1, LinesMove
  <2>2. CASE ReadHeader \/ ReadBody \/ ReadEof \/ Crash
    <3>1. stdout' = stdout /\ held' = held /\ toPrint' = toPrint
      BY <2>2 DEF ReadHeader, ReadBody, ReadEof, Crash
    <3> QED BY <1>2, <3>1 DEF OnTheWay
  <2> QED BY <2>1, <2>2
<1>8. ReaderAt(t)'
  <2>1. \A i, f, k : ReadsAnswer(t, i, f, k) => ReadsAnswer(t, i, f, k)'
    BY <1>3, <1>5 DEF ReadsAnswer
  <2> QED BY <1>2, <1>3, <1>4, <2>1 DEF ReaderAt
<1> QED BY <1>2, <1>6, <1>7, <1>8 DEF AnswersInv

(* The child's loop begins its next request only with its answer printed.  *)
LEMMA PipesStep ==
  ASSUME WSDissectorAssumption, TypeInv, PipesInv, [Next]_vars
  PROVE  /\ PipesInv'
         /\ Dissect => \E m \in Messages : buffer = Request(m)
<1>1. PICK done \in 0..Len(asked) : AnswersInv(done) /\ (Lives => RequestsInv(done))
  BY DEF PipesInv
<1>2. Len(asked) \in Nat /\ asked \in Seq(Messages)
  BY DEF TypeInv, Kinds
<1>3. ASSUME asked' = asked, stdin' = stdin, buffer' = buffer, toWrite' = toWrite,
             RequestsInv(done)
      PROVE  RequestsInv(done)'
  BY <1>3 DEF RequestsInv, AreRequests, Coming
<1>4. CASE \E m \in Messages : DecodeMsg(m)
  <2>1. PICK m \in Messages : DecodeMsg(m)
    BY <1>4
  <2>2. child' = child /\ asked' = Append(asked, m) /\ ~Dissect
    BY <2>1 DEF DecodeMsg, childVars, Dissect, parentVars
  <2>3. done \in 0..Len(asked')
    BY <1>2, <2>2, AppendProperties
  <2>4. AnswersInv(done)'
    BY <1>1, <1>4, CallsAnswers
  <2>5. Lives' => RequestsInv(done)'
    BY <1>1, <2>1, <2>2, RequestAdded DEF Lives
  <2> QED BY <2>2, <2>3, <2>4, <2>5 DEF PipesInv
<1>5. CASE Write
  <2>1. asked' = asked /\ Lives /\ ~Dissect
    BY <1>5 DEF Write, Dissect, Lives, childVars
  <2> QED BY <1>1, <1>5, <2>1, CallsAnswers, RequestsMove DEF PipesInv
<1>6. CASE WriteFails
  <2>1. asked' = asked /\ ~Lives' /\ ~Dissect
    BY <1>6 DEF WriteFails, Lives, Dissect, childVars
  <2> QED BY <1>1, <1>6, <2>1, CallsAnswers DEF PipesInv
<1>7. CASE Exit
  <2>1. /\ asked' = asked /\ child' = child /\ stdin' = stdin /\ buffer' = buffer
        /\ toWrite' = toWrite /\ ~Dissect
    BY <1>7 DEF Exit, Dissect, childVars, parentVars
  <2> QED BY <1>1, <1>3, <1>7, <2>1, CallsAnswers DEF PipesInv, Lives
<1>8. CASE ReadLine \/ ReadDelimiter \/ LineNotUtf8
  <2>1. /\ asked' = asked /\ child' = child /\ stdin' = stdin /\ buffer' = buffer
        /\ toWrite' = toWrite /\ ~Dissect
    BY <1>8 DEF ReadLine, ReadDelimiter, LineNotUtf8, Dissect, childVars, parentVars
  <2>2. PICK printed \in Seq(Line) : \E t \in 0..Len(printed) :
            AreAnswers(printed, done) /\ OnTheWay(printed, t) /\ ReaderAt(t)
    BY <1>1 DEF AnswersInv
  <2>3. PICK t \in 0..Len(printed) :
            AreAnswers(printed, done) /\ OnTheWay(printed, t) /\ ReaderAt(t)
    BY <2>2
  <2>4. t + 1 \in 0..Len(printed) /\ OnTheWay(printed, t + 1)' /\ ReaderAt(t + 1)'
    BY <1>8, <2>3, ReaderMoves
  <2>5. AreAnswers(printed, done)'
    BY <1>2, <2>1, <2>3, AnswersStay
  <2>6. AnswersInv(done)'
    BY <2>4, <2>5 DEF AnswersInv
  <2> QED BY <1>1, <1>3, <2>1, <2>6 DEF PipesInv, Lives
<1>9. CASE Flush \/ PrintLine \/ ReadEof \/ Crash
  <2>1. /\ asked' = asked /\ stdin' = stdin /\ buffer' = buffer /\ toWrite' = toWrite /\ Lives
        /\ ~Dissect
    <3>1. CASE Flush \/ PrintLine
      BY <3>1 DEF Flush, PrintLine, Dissect, Lives, parentVars
    <3>2. CASE ReadEof \/ Crash
      BY <3>2 DEF ReadEof, Crash, Dissect, Lives, parentVars
    <3> QED BY <1>9, <3>1, <3>2
  <2> QED BY <1>1, <1>3, <1>9, <2>1, ChildAnswers DEF PipesInv
<1>10. CASE ReadHeader \/ ReadBody
  <2>1. asked' = asked /\ Lives
    BY <1>10 DEF ReadHeader, ReadBody, Lives, parentVars
  <2>2. ~Dissect
    BY <1>10 DEF ReadHeader, ReadBody, Dissect, Fread
  <2> QED BY <1>1, <1>10, <2>1, <2>2, ChildAnswers, RequestsMove DEF PipesInv
<1>11. CASE Dissect
  <2>1. asked' = asked /\ Lives
    BY <1>11 DEF Dissect, Lives, parentVars
  <2>2. /\ done + 1 \in 1..Len(asked) /\ asked[done + 1] \in Messages
        /\ buffer = Request(asked[done + 1]) /\ RequestsInv(done + 1)'
    BY <1>1, <1>11, <2>1, RequestRead
  <2>3. AnswersInv(done + 1)'
    <3>1. done \in Nat
      BY <1>2
    <3> QED BY <1>1, <1>11, <2>2, <3>1, AnswerAdded
  <2>4. done + 1 \in 0..Len(asked)
    BY <1>2, <2>2
  <2> QED BY <2>1, <2>2, <2>3, <2>4 DEF PipesInv
<1>12. CASE UNCHANGED vars
  <2>1. /\ UNCHANGED <<parent, toWrite, lines, asked, leftBehind, answers>>
        /\ UNCHANGED <<child, buffer, toPrint, held, stdin, stdout>>
    BY <1>12 DEF vars, parentVars, childVars
  <2>2. ~Dissect
    BY <2>1 DEF Dissect
  <2>3. \A i, k : LineOf(i, k)' = LineOf(i, k)
    BY <2>1 DEF LineOf
  <2>4. AnswersInv(done)'
    <3>1. \A printed : AreAnswers(printed, done) => AreAnswers(printed, done)'
      BY <2>3 DEF AreAnswers
    <3>2. \A printed, t : OnTheWay(printed, t) => OnTheWay(printed, t)'
      BY <2>1 DEF OnTheWay
    <3>3. \A t : ReaderAt(t) => ReaderAt(t)'
      <4>1. \A t, i, f, k : ReadsAnswer(t, i, f, k) => ReadsAnswer(t, i, f, k)'
        BY <2>1, <2>3 DEF ReadsAnswer
      <4> QED BY <2>1, <4>1 DEF ReaderAt, Lives
    <3> QED BY <1>1, <3>1, <3>2, <3>3 DEF AnswersInv
  <2> QED BY <1>1, <1>3, <2>1, <2>2, <2>4 DEF PipesInv, Lives
<1> QED BY <1>4, <1>5, <1>6, <1>7, <1>8, <1>9, <1>10, <1>11, <1>12 DEF Next, Parent, Child

-----------------------------------------------------------------------------
(* What main() has read, and what decode_msg returned *)

\* BufferInv where main() reads
Reading == child \in {"header", "body"} => BufferInv

(* The pipes have only requests: what main() reads is one.                 *)
LEMMA ReadingIs ==
  ASSUME WSDissectorAssumption, Inv
  PROVE  Reading
<1> SUFFICES ASSUME child \in {"header", "body"}, buffer # <<>>
             PROVE  \E m \in ToSet(asked) : IsPrefix(buffer, Request(m))
  BY DEF Reading, BufferInv
<1>1. TypeInv /\ Lives
  BY DEF Inv, Lives
<1>2. PICK done \in 0..Len(asked) : RequestsInv(done)
  BY <1>1 DEF Inv, PipesInv
<1>3. PICK all, ends : AreRequests(all, ends) /\ Coming(all, ends[done])
  BY <1>2 DEF RequestsInv
<1>4. PICK s1 \in ends[done]..Len(all) : IsPart(buffer, all, ends[done], s1)
  BY <1>3 DEF Coming
<1>5. Len(asked) \in Nat /\ Len(all) \in Nat /\ ends \in [0..Len(asked) -> Nat]
  BY <1>1, <1>3, LenProperties DEF TypeInv, Kinds, AreRequests
<1>6. ends[done] \in Nat
  BY ONLY <1>5
<1>7. s1 \in Nat /\ ends[done] <= s1 /\ s1 <= Len(all)
  BY <1>5, <1>6
<1>8. /\ done + 1 \in 1..Len(asked) /\ asked[done + 1] \in Messages
      /\ Len(buffer) <= Len(Request(asked[done + 1]))
      /\ \A k \in 1..Len(buffer) : buffer[k] = Request(asked[done + 1])[k]
  <2>1. BeginsRequest(done)
    BY <1>1, <1>3, <1>4, <1>7, BufferIs
  <2> QED BY <2>1 DEF BeginsRequest
<1> DEFINE r == Request(asked[done + 1])
           a == SubSeq(buffer, 1, Len(buffer))
           b == SubSeq(r, 1, Len(buffer))
<1>9. buffer \in Seq(Nat) /\ Len(buffer) \in Nat /\ r \in Seq(Nat) /\ Len(r) \in Nat
  BY <1>1, <1>8, RequestIs, LenProperties DEF TypeInv, Kinds
<1> HIDE DEF r
<1>10. a = buffer
  BY <1>9, SubSeqFull
<1>11. b \in Seq(Nat) /\ Len(b) = Len(buffer) /\ \A k \in 1..Len(buffer) : b[k] = r[k]
  <2>1. \A k \in 1..Len(buffer) : k \in 1..Len(r)
    BY <1>8, <1>9 DEF r
  <2>2. \A k \in 1..Len(buffer) : r[k] \in Nat
    BY <1>9, <2>1, ElementOfSeq
  <2>3. /\ b \in Seq(Nat)
        /\ Len(b) = IF 1 <= Len(buffer) THEN Len(buffer) - 1 + 1 ELSE 0
        /\ \A k \in 1..(Len(buffer) - 1 + 1) : b[k] = r[1 + k - 1]
    BY <1>9, <2>2, SubSeqProperties
  <2> HIDE DEF b
  <2> QED BY <1>9, <2>3
<1> HIDE DEF a, b
<1>12. a = b
  <2>1. \A k \in 1..Len(buffer) : b[k] = buffer[k]
    BY <1>8, <1>11 DEF r
  <2>2. buffer = b
    BY <1>9, <1>11, <2>1, SeqEqual
  <2> QED BY <1>10, <2>2
<1>13. IsPrefix(buffer, r)
  BY <1>8, <1>12 DEF IsPrefix, a, b, r
<1>14. asked[done + 1] \in ToSet(asked)
  BY <1>8 DEF ToSet, TypeInv, Kinds
<1> QED BY <1>13, <1>14 DEF r

(* What was read stays the beginning of a request when main() ends.        *)
LEMMA BufferStep ==
  ASSUME TypeInv, TypeInv', BufferInv, Reading', [Next]_vars
  PROVE  BufferInv'
<1>1. CASE child' \in {"header", "body"}
  BY <1>1 DEF Reading
<1>2. CASE child' \in {"flush", "print"}
  BY <1>2 DEF TypeInv, Stages, BufferInv
<1>3. CASE child' \in {"ended", "died"}
  <2>1. buffer' = buffer /\ \A m \in ToSet(asked) : m \in ToSet(asked')
    <3>1. CASE \E m \in Messages : DecodeMsg(m)
      <4>1. PICK m \in Messages : DecodeMsg(m)
        BY <3>1
      <4>2. buffer' = buffer /\ asked' = Append(asked, m) /\ asked \in Seq(Messages)
        BY <4>1 DEF DecodeMsg, childVars, TypeInv, Kinds
      <4>3. /\ Len(asked') = Len(asked) + 1 /\ Len(asked) \in Nat /\ asked' \in Seq(Messages)
            /\ \A i \in 1..Len(asked) : asked'[i] = asked[i]
        BY <4>2, AppendProperties, LenProperties
      <4>4. ASSUME NEW i \in 1..Len(asked) PROVE asked[i] \in ToSet(asked')
        <5>1. i \in 1..Len(asked') /\ asked'[i] = asked[i]
          BY <4>3
        <5> QED BY <4>3, <5>1 DEF ToSet
      <4> QED BY <4>2, <4>4 DEF ToSet
    <3>2. CASE Parent \/ Exit
      <4>1. buffer' = buffer /\ asked' = asked
        BY <3>2 DEF Parent, Write, WriteFails, ReadLine, ReadDelimiter, LineNotUtf8, Exit,
                    childVars
      <4> QED BY <4>1
    <3>3. CASE Child \/ Crash
      <4>1. ~Dissect /\ ~ReadHeader /\ ~ReadBody
        BY <1>3 DEF Dissect, ReadHeader, ReadBody
      <4>2. buffer' = buffer /\ asked' = asked
        BY <3>3, <4>1 DEF Child, Flush, ReadEof, PrintLine, Crash, parentVars
      <4> QED BY <4>2
    <3>4. CASE UNCHANGED vars
      BY <3>4 DEF vars, parentVars, childVars
    <3> QED BY <3>1, <3>2, <3>3, <3>4 DEF Next
  <2> QED BY <2>1 DEF BufferInv
<1> QED BY <1>1, <1>2, <1>3 DEF TypeInv, Kinds

(* A sequence of lines ends with all of it, and with nothing.              *)
LEMMA EndsOfAnswer ==
  ASSUME NEW due \in Seq(Line)
  PROVE  IsSuffix(due, due) /\ IsSuffix(<<>>, due)
<1> DEFINE r == Reverse(due)
<1>1. Len(due) \in Nat /\ r \in Seq(Line)
  <2>1. Len(due) \in Nat
    BY LenProperties
  <2>2. \A i \in 1..Len(due) : due[(Len(due) - i) + 1] \in Line
    <3>1. \A i \in 1..Len(due) : (Len(due) - i) + 1 \in 1..Len(due)
      BY <2>1
    <3> QED BY <3>1, ElementOfSeq
  <2> QED BY <2>1, <2>2 DEF Reverse
<1>2. Reverse(<<>>) = <<>>
  <2>1. Len(<<>>) = 0 /\ 1..0 = {}
    OBVIOUS
  <2>2. Reverse(<<>>) \in Seq(Line) /\ Len(Reverse(<<>>)) = 0
    BY <2>1 DEF Reverse
  <2> QED BY <2>2, EmptySeq
<1> HIDE DEF r
<1>3. Len(r) \in Nat
  BY <1>1, LenProperties
<1>4. IsPrefix(r, r)
  BY <1>3 DEF IsPrefix
<1>5. IsPrefix(<<>>, r)
  <2>1. Len(<<>>) = 0 /\ 0 <= Len(r)
    BY <1>3
  <2>2. SubSeq(<<>>, 1, 0) = <<>> /\ SubSeq(r, 1, 0) = <<>>
    BY SubSeqEmpty
  <2> QED BY <2>1, <2>2 DEF IsPrefix
<1> QED BY <1>2, <1>4, <1>5 DEF IsSuffix, r

(* What a call returns is the answer that is due, or what is left of it.   *)
LEMMA CallReturns ==
  ASSUME WSDissectorAssumption, Inv, ReadDelimiter
  PROVE  /\ Len(asked) - leftBehind \in 1..Len(asked)
         /\ LET due == AnswerTo(Request(asked[Len(asked) - leftBehind]))
            IN  IF leftBehind = 0 THEN lines = due ELSE IsSuffix(lines, due)
<1>1. TypeInv /\ Len(asked) \in Nat /\ asked \in Seq(Messages) /\ lines \in Seq(Line)
  BY DEF Inv, TypeInv, Kinds
<1>2. PICK done \in 0..Len(asked) : AnswersInv(done)
  BY DEF Inv, PipesInv
<1>3. PICK printed \in Seq(Line) : \E t \in 0..Len(printed) :
          AreAnswers(printed, done) /\ OnTheWay(printed, t) /\ ReaderAt(t)
  BY <1>2 DEF AnswersInv
<1>4. PICK t \in 0..Len(printed) :
          AreAnswers(printed, done) /\ OnTheWay(printed, t) /\ ReaderAt(t)
  BY <1>3
<1>5. PICK i \in 1..done : \E f \in {0, AnswerLines} :
         /\ i = Len(asked) - leftBehind
         /\ leftBehind = 0 => f = 0
         /\ Len(lines) = AnswerLines - f
         /\ \A x \in 1..(AnswerLines - f) : lines[x] = LineOf(i, f + x)
  BY <1>1, <1>4, ReaderMoves
<1>6. PICK f \in {0, AnswerLines} :
         /\ i = Len(asked) - leftBehind
         /\ leftBehind = 0 => f = 0
         /\ Len(lines) = AnswerLines - f
         /\ \A x \in 1..(AnswerLines - f) : lines[x] = LineOf(i, f + x)
  BY <1>5
<1>7. i \in 1..Len(asked) /\ AnswerLines \in Nat
  BY <1>1, AnswerIs
<1>8. asked[i] \in Messages
  BY <1>1, <1>7, ElementOfSeq
<1> DEFINE due == AnswerTo(Request(asked[i]))
<1>9. due \in Seq(Line) /\ Len(due) = AnswerLines
  BY <1>8, AnswerSeq
<1>10. CASE f = 0
  <2>1. Len(lines) = Len(due)
    BY <1>6, <1>7, <1>9, <1>10
  <2>2. ASSUME NEW x \in 1..Len(lines) PROVE lines[x] = due[x]
    <3>1. x \in 1..(AnswerLines - f) /\ f + x = x /\ x <= AnswerLines
      BY <1>7, <1>9, <1>10, <2>1
    <3> QED BY <1>6, <3>1 DEF LineOf
  <2> HIDE DEF due
  <2>3. lines = due
    BY <1>1, <1>9, <2>1, <2>2, SeqEqual
  <2> QED BY <1>6, <1>7, <1>9, <2>3, EndsOfAnswer DEF due
<1>11. CASE f = AnswerLines
  <2>1. Len(lines) = 0
    BY <1>6, <1>7, <1>11
  <2>2. lines = <<>> /\ leftBehind # 0
    <3>1. AnswerLines >= 1
      BY AnswerIs
    <3> QED BY <1>1, <1>6, <1>11, <2>1, <3>1, EmptySeq
  <2> HIDE DEF due
  <2> QED BY <1>6, <1>7, <1>9, <2>2, EndsOfAnswer DEF due
<1> QED BY <1>10, <1>11

(* What was returned stays what it is.                                     *)
LEMMA ReturnedStep ==
  ASSUME WSDissectorAssumption, Inv, ReturnedInv, [Next]_vars
  PROVE  ReturnedInv'
<1>1. /\ Len(asked) \in Nat /\ asked \in Seq(Messages) /\ lines \in Seq(Line)
      /\ leftBehind \in 0..Len(asked)
  BY DEF Inv, TypeInv, Kinds
<1>2. /\ Len(asked') \in Nat /\ Len(asked) <= Len(asked')
      /\ \A i \in 1..Len(asked) : asked'[i] = asked[i]
  <2>1. CASE \E m \in Messages : DecodeMsg(m)
    <3>1. PICK m \in Messages : asked' = Append(asked, m)
      BY <2>1 DEF DecodeMsg
    <3>2. Len(asked') = Len(asked) + 1 /\ \A i \in 1..Len(asked) : asked'[i] = asked[i]
      BY <1>1, <3>1, AppendProperties
    <3> QED BY <1>1, <3>2
  <2>2. CASE Parent \/ Exit
    BY <1>1, <2>2 DEF Parent, Write, WriteFails, ReadLine, ReadDelimiter, LineNotUtf8, Exit
  <2>3. CASE Child \/ Crash
    BY <1>1, <2>3 DEF Child, Flush, ReadHeader, ReadBody, Dissect, ReadEof, PrintLine, Crash,
                      parentVars
  <2>4. CASE UNCHANGED vars
    BY <1>1, <2>4 DEF vars, parentVars
  <2> QED BY <2>1, <2>2, <2>3, <2>4 DEF Next
<1>3. ASSUME NEW a \in [call : Nat, left : Nat, lines : Seq(Line)], Returned(a)
      PROVE  Returned(a)'
  <2>1. a.call \in 1..Len(asked') /\ a.call - a.left \in 1..Len(asked)
    BY <1>1, <1>2, <1>3 DEF Returned
  <2>2. asked'[a.call - a.left] = asked[a.call - a.left]
    BY <1>2, <2>1
  <2>3. IsAnswer(a, a.call - a.left) => IsAnswer(a, a.call - a.left)'
    BY <2>2 DEF IsAnswer
  <2> QED BY <1>3, <2>1, <2>3 DEF Returned
<1>4. ASSUME answers' \in Seq([call : Nat, left : Nat, lines : Seq(Line)]),
             \A x \in 1..Len(answers') : \A a : a = answers'[x] => Returned(a)'
      PROVE  ReturnedInv'
  BY <1>4 DEF ReturnedInv, Returned, IsAnswer
<1>5. CASE answers' = answers
  <2>1. ASSUME NEW x \in 1..Len(answers'), NEW a, a = answers'[x] PROVE Returned(a)'
    <3>1. x \in 1..Len(answers) /\ a = answers[x]
      BY <1>5, <2>1
    <3>2. a \in [call : Nat, left : Nat, lines : Seq(Line)] /\ Returned(a)
      BY <3>1, ElementOfSeq DEF ReturnedInv
    <3> QED BY <1>3, <3>2
  <2>2. answers' \in Seq([call : Nat, left : Nat, lines : Seq(Line)])
    BY <1>5 DEF ReturnedInv
  <2> QED BY <1>4, <2>1, <2>2
<1>7. CASE ReadDelimiter
  <2>1. PICK a : a = [call |-> Len(asked), left |-> leftBehind, lines |-> lines]
    OBVIOUS
  <2>2. answers' = Append(answers, a)
    BY <1>7, <2>1 DEF ReadDelimiter
  <2>3. a \in [call : Nat, left : Nat, lines : Seq(Line)]
    BY <1>1, <2>1
  <2>4. Returned(a)
    <3>1. a.call = Len(asked) /\ a.left = leftBehind /\ a.lines = lines
      BY <2>1
    <3>2. /\ Len(asked) - leftBehind \in 1..Len(asked)
          /\ LET due == AnswerTo(Request(asked[Len(asked) - leftBehind]))
             IN  IF leftBehind = 0 THEN lines = due ELSE IsSuffix(lines, due)
      BY <1>7, CallReturns
    <3>3. leftBehind < Len(asked) /\ Len(asked) \in 1..Len(asked)
      BY <1>1, <3>2
    <3>4. IsAnswer(a, a.call - a.left)
      BY <3>1, <3>2 DEF IsAnswer
    <3> QED BY <3>1, <3>3, <3>4 DEF Returned
  <2>5. /\ answers' \in Seq([call : Nat, left : Nat, lines : Seq(Line)])
        /\ Len(answers') = Len(answers) + 1 /\ answers'[Len(answers) + 1] = a
        /\ \A x \in 1..Len(answers) : answers'[x] = answers[x]
        /\ Len(answers) \in Nat
    BY <2>2, <2>3, AppendProperties, LenProperties DEF ReturnedInv
  <2>6. ASSUME NEW x \in 1..Len(answers'), NEW b, b = answers'[x] PROVE Returned(b)'
    <3>1. CASE x = Len(answers) + 1
      <4>1. b = a
        BY <2>5, <2>6, <3>1
      <4> QED BY <1>3, <2>3, <2>4, <4>1
    <3>2. CASE x # Len(answers) + 1
      <4>1. x \in 1..Len(answers)
        BY <2>5, <3>2
      <4>2. b \in [call : Nat, left : Nat, lines : Seq(Line)] /\ Returned(b)
        BY <2>5, <2>6, <4>1, ElementOfSeq DEF ReturnedInv
      <4> QED BY <1>3, <4>2
    <3> QED BY <3>1, <3>2
  <2> QED BY <1>4, <2>5, <2>6
<1>6. answers' = answers \/ ReadDelimiter
  BY DEF Next, Parent, Child, DecodeMsg, Write, WriteFails, ReadLine, LineNotUtf8, Exit, Flush,
         ReadHeader, ReadBody, Dissect, ReadEof, PrintLine, Crash, vars, parentVars
<1> QED BY <1>5, <1>6, <1>7

(* What was returned is an answer, however it is looked at.                *)
LEMMA ReturnedIs ==
  ASSUME ReturnedInv
  PROVE  AnswersInStep
<1>1. ASSUME NEW a \in ToSet(answers)
      PROVE  IsAnswer(a, a.call - a.left)
  <2>1. PICK x \in 1..Len(answers) : a = answers[x]
    <3>1. DOMAIN answers = 1..Len(answers)
      BY LenProperties DEF ReturnedInv
    <3>2. \E x \in DOMAIN answers : a = answers[x]
      BY <1>1, Zenon DEF ToSet
    <3> QED BY <3>1, <3>2
  <2> QED BY <2>1 DEF ReturnedInv, Returned
<1> QED BY <1>1 DEF AnswersInStep, IsAnswer

-----------------------------------------------------------------------------
(* The theorems *)

(* Before the first call nothing was requested and nothing was answered.   *)
LEMMA InitInv ==
  ASSUME WSDissectorAssumption, Init
  PROVE  Inv /\ BufferInv /\ ReturnedInv
<1>1. Len(<<>>) = 0
  OBVIOUS
<1>2. <<>> \in Seq(Messages) /\ <<>> \in Seq(Nat) /\ <<>> \in Seq(Line)
  OBVIOUS
<1>3. /\ RequestPipe \in Nat /\ AnswerPipe \in Nat /\ StdioSize \in Nat /\ AnswerLines \in Nat
      /\ Size \in Nat
  BY AnswerIs DEF WSDissectorAssumption
<1>4. TypeInv
  BY <1>1, <1>2, <1>3 DEF Init, TypeInv, Kinds, Stages, Lives
<1>5. asked = <<>> /\ Len(asked) = 0 /\ stdout = <<>> /\ held = <<>> /\ toPrint = <<>>
  BY <1>1 DEF Init
<1>6. IsPart(<<>>, <<>>, 0, 0)
  BY EmptyPart
<1>7. AnswersInv(0)
  <2>1. AreAnswers(<<>>, 0)
    <3>1. 0 * Size = 0 /\ 1..0 = {}
      BY <1>3
    <3> QED BY <1>1, <3>1 DEF AreAnswers
  <2>2. OnTheWay(<<>>, 0)
    <3>1. 0 \in 0..0
      OBVIOUS
    <3> QED BY <1>1, <1>5, <1>6, <3>1 DEF OnTheWay
  <2>3. ReaderAt(0)
    <3>1. 1 \in 1..(Len(asked) + 1) /\ 0 \in 0..AnswerLines /\ 0 = Place(1, 0)
      BY <1>3, <1>5 DEF Place
    <3>2. parent = "idle" /\ leftBehind = 0 /\ 1 = Len(asked) - leftBehind + 1
      BY <1>5 DEF Init
    <3>3. ReadsAnswer(0, 1, 0, 0)
      BY <3>1, <3>2 DEF ReadsAnswer
    <3> QED BY <3>1, <3>3 DEF ReaderAt
  <2>4. 0 \in 0..Len(<<>>)
    BY <1>1
  <2> QED BY <1>2, <2>1, <2>2, <2>3, <2>4 DEF AnswersInv
<1>8. RequestsInv(0)
  <2> DEFINE e == [i \in 0..0 |-> 0]
  <2>1. e \in [0..0 -> Nat] /\ e[0] = 0
    OBVIOUS
  <2> HIDE DEF e
  <2>2. AreRequests(<<>>, e)
    <3>1. 1..0 = {} /\ \A i \in 0..0 : i = 0
      OBVIOUS
    <3> QED BY <1>1, <1>2, <1>5, <2>1, <3>1 DEF AreRequests
  <2>3. Coming(<<>>, e[0])
    <3>1. 0 \in 0..0
      OBVIOUS
    <3>2. buffer = <<>> /\ stdin = <<>> /\ toWrite = <<>>
      BY DEF Init
    <3> QED BY <1>1, <1>6, <2>1, <3>1, <3>2 DEF Coming
  <2> QED BY <2>2, <2>3 DEF RequestsInv
<1>9. PipesInv
  <2>1. 0 \in 0..Len(asked)
    BY <1>5
  <2> QED BY <1>7, <1>8, <2>1 DEF PipesInv
<1>10. BufferInv
  BY DEF BufferInv, Init
<1>11. ReturnedInv
  <2>1. answers = <<>> /\ Len(answers) = 0
    BY <1>1 DEF Init
  <2>2. <<>> \in Seq([call : Nat, left : Nat, lines : Seq(Line)])
    OBVIOUS
  <2> QED BY <2>1, <2>2 DEF ReturnedInv
<1> QED BY <1>4, <1>9, <1>10, <1>11 DEF Inv

(* The invariant holds at every step.                                      *)
LEMMA InvHolds == Spec => []Inv
<1>1. Init => Inv
  BY WSDissectorAssumption, InitInv
<1>2. Inv /\ [Next]_vars => Inv'
  <2> SUFFICES ASSUME Inv, [Next]_vars PROVE Inv'
    OBVIOUS
  <2>1. PipesInv' /\ (Dissect => \E m \in Messages : buffer = Request(m))
    BY WSDissectorAssumption, PipesStep DEF Inv
  <2>2. CASE Parent \/ Exit \/ \E m \in Messages : DecodeMsg(m)
    BY <2>1, <2>2, WSDissectorAssumption, ParentType DEF Inv
  <2>3. CASE Child \/ Crash
    BY <2>1, <2>3, WSDissectorAssumption, ChildType DEF Inv
  <2>4. CASE UNCHANGED vars
    <3>1. TypeInv'
      BY <2>4 DEF Inv, TypeInv, Kinds, Stages, Lives, vars, parentVars, childVars
    <3> QED BY <2>1, <3>1 DEF Inv
  <2> QED BY <2>2, <2>3, <2>4 DEF Next
<1> QED BY <1>1, <1>2, PTL DEF Spec

(* The pipes are never fuller than they can be, and main() never reads      *)
(* beyond the request it was sent, whatever is asked and whoever ends       *)
(* first.                                                                  *)
THEOREM DissectorTypeOK == Spec => []TypeOK
<1>1. Init => BufferInv
  BY WSDissectorAssumption, InitInv
<1>2. Inv => TypeInv /\ Reading
  BY WSDissectorAssumption, ReadingIs DEF Inv
<1>3. TypeInv /\ TypeInv' /\ BufferInv /\ Reading' /\ [Next]_vars => BufferInv'
  BY BufferStep
<1>4. TypeInv /\ BufferInv => TypeOK
  BY DEF TypeInv, Kinds, BufferInv, TypeOK
<1> QED BY <1>1, <1>2, <1>3, <1>4, InvHolds, PTL DEF Spec

(* decode_msg returns the answer to its own message, all of it, and once    *)
(* calls have raised in the middle of an answer, the answer to the call     *)
(* that is as many calls back, or the end of it.                           *)
THEOREM DissectorAnswersInStep == Spec => []AnswersInStep
<1>1. Init => ReturnedInv
  BY WSDissectorAssumption, InitInv
<1>2. Inv /\ ReturnedInv /\ [Next]_vars => ReturnedInv'
  BY WSDissectorAssumption, ReturnedStep
<1>3. ReturnedInv => AnswersInStep
  BY ReturnedIs
<1> QED BY <1>1, <1>2, <1>3, InvHolds, PTL DEF Spec

-----------------------------------------------------------------------------
(* The decoders of log packets *)

IsFrame(frame) ==
    /\ DOMAIN frame = {"list", "bytes", "left", "count", "slot"}
    /\ frame = [x \in DOMAIN frame |-> frame[x]]

ReplaceLast(s, e) == [s EXCEPT ![Len(s)] = e]

\* The invariant: whatever the code fills is one of the lists
FillsLists(Lists) ==
    /\ decoder \in DOMAIN Layouts
    /\ \E S : stack \in Seq(S)
    /\ stack # <<>>
    /\ \A i \in 1..Len(stack) : IsFrame(stack[i]) /\ <<decoder, stack[i].list>> \in Lists

\* Every frame there is after the step is one of those in new, or was there before
ChangesTo(new) ==
    /\ \E S : stack' \in Seq(S)
    /\ stack' # <<>>
    /\ \A i \in 1..Len(stack') : stack'[i] \in new \cup {stack[j] : j \in 1..Len(stack)}

\* The innermost frame is replaced
LEMMA LastReplaced ==
    ASSUME NEW S, NEW s \in Seq(S), s # <<>>, NEW f
    PROVE  LET t == ReplaceLast(s, f)
           IN  /\ \E R : t \in Seq(R)
               /\ Len(t) = Len(s) /\ t # <<>>
               /\ \A i \in 1..Len(t) : t[i] = IF i = Len(s) THEN f ELSE s[i]
<1> DEFINE t == ReplaceLast(s, f)
<1>1. Len(s) \in Nat /\ Len(s) # 0 /\ DOMAIN s = 1..Len(s)
  BY EmptySeq, LenProperties
<1>2. t \in [1..Len(s) -> S \cup {f}]
  BY <1>1 DEF ReplaceLast
<1>3. t \in Seq(S \cup {f}) /\ Len(t) = Len(s)
  BY <1>1, <1>2, FunctionIsSeq
<1>4. \A i \in 1..Len(t) : t[i] = IF i = Len(s) THEN f ELSE s[i]
  BY <1>1, <1>3 DEF ReplaceLast
<1> QED BY <1>1, <1>3, <1>4, EmptySeq

LEMMA ReplacedAt ==
    ASSUME NEW Lists, FillsLists(Lists), NEW frame, stack' = ReplaceLast(stack, frame)
    PROVE  /\ \E R : stack' \in Seq(R)
           /\ Len(stack') = Len(stack) /\ stack' # <<>>
           /\ \A i \in 1..Len(stack') : stack'[i] = IF i = Len(stack) THEN frame ELSE stack[i]
<1>1. PICK S : stack \in Seq(S)
  BY DEF FillsLists
<1>2. stack # <<>>
  BY DEF FillsLists
<1> QED BY <1>1, <1>2, LastReplaced

LEMMA ReplacedIs ==
    ASSUME NEW Lists, FillsLists(Lists), NEW frame, stack' = ReplaceLast(stack, frame)
    PROVE  ChangesTo({frame})
<1>1. /\ \E R : stack' \in Seq(R)
      /\ Len(stack') = Len(stack) /\ stack' # <<>>
      /\ \A i \in 1..Len(stack') : stack'[i] = IF i = Len(stack) THEN frame ELSE stack[i]
  BY ReplacedAt
<1>2. \A i \in 1..Len(stack') : stack'[i] \in {frame} \cup {stack[j] : j \in 1..Len(stack)}
  BY <1>1
<1> QED BY <1>1, <1>2 DEF ChangesTo

\* Another list is opened inside the innermost
LEMMA PushedAt ==
    ASSUME NEW Lists, FillsLists(Lists), NEW frame, NEW inner,
           stack' = Append(ReplaceLast(stack, frame), inner)
    PROVE  /\ \E R : stack' \in Seq(R)
           /\ Len(stack) \in Nat /\ Len(stack') = Len(stack) + 1 /\ stack' # <<>>
           /\ \A i \in 1..Len(stack) : stack'[i] = IF i = Len(stack) THEN frame ELSE stack[i]
           /\ stack'[Len(stack) + 1] = inner
<1>1. PICK S : stack \in Seq(S)
  BY DEF FillsLists
<1>2. stack # <<>>
  BY DEF FillsLists
<1> DEFINE s == ReplaceLast(stack, frame)
<1>3. PICK R : s \in Seq(R)
  BY <1>1, <1>2, LastReplaced
<1>4. /\ Len(s) = Len(stack)
      /\ \A i \in 1..Len(s) : s[i] = IF i = Len(stack) THEN frame ELSE stack[i]
  BY <1>1, <1>2, LastReplaced
<1> HIDE DEF s
<1>5. stack' = Append(s, inner)
  BY DEF s
<1>6. s \in Seq(R \cup {inner}) /\ inner \in R \cup {inner}
  BY <1>3
<1>7. /\ stack' \in Seq(R \cup {inner}) /\ Len(s) \in Nat /\ Len(stack') = Len(s) + 1
      /\ \A i \in 1..Len(s) : stack'[i] = s[i]
      /\ stack'[Len(s) + 1] = inner
  BY <1>5, <1>6, AppendProperties, LenProperties
<1>8. stack' # <<>>
  BY <1>7, EmptySeq
<1>9. \A i \in 1..Len(stack) : stack'[i] = IF i = Len(stack) THEN frame ELSE stack[i]
  BY <1>4, <1>7
<1>10. \E Q : stack' \in Seq(Q)
  BY <1>7
<1> QED BY <1>4, <1>7, <1>8, <1>9, <1>10

LEMMA PushedIs ==
    ASSUME NEW Lists, FillsLists(Lists), NEW frame, NEW inner,
           stack' = Append(ReplaceLast(stack, frame), inner)
    PROVE  ChangesTo({frame, inner})
<1> DEFINE old == {stack[j] : j \in 1..Len(stack)}
<1>1. /\ \E R : stack' \in Seq(R)
      /\ Len(stack) \in Nat /\ Len(stack') = Len(stack) + 1 /\ stack' # <<>>
      /\ \A i \in 1..Len(stack) : stack'[i] = IF i = Len(stack) THEN frame ELSE stack[i]
      /\ stack'[Len(stack) + 1] = inner
  BY PushedAt
<1>2. ASSUME NEW i \in 1..Len(stack')
      PROVE  stack'[i] \in {frame, inner} \cup old
  <2>1. CASE i = Len(stack) + 1
    BY <1>1, <2>1
  <2>2. CASE i \in 1..Len(stack)
    BY <1>1, <2>2
  <2>3. i = Len(stack) + 1 \/ i \in 1..Len(stack)
    BY <1>1
  <2> QED BY <2>1, <2>2, <2>3
<1> QED BY <1>1, <1>2 DEF ChangesTo

\* The innermost list is appended to the one around it
LEMMA PoppedAt ==
    ASSUME NEW Lists, FillsLists(Lists), Len(stack) > 1, NEW frame,
           stack' = ReplaceLast(Front(stack), frame)
    PROVE  /\ \E R : stack' \in Seq(R)
           /\ Len(stack) \in Nat /\ Len(stack') = Len(stack) - 1 /\ stack' # <<>>
           /\ \A i \in 1..Len(stack') :
                 stack'[i] = IF i = Len(stack) - 1 THEN frame ELSE stack[i]
<1>1. PICK S : stack \in Seq(S)
  BY DEF FillsLists
<1>2. Len(stack) \in Nat
  BY <1>1, LenProperties
<1> DEFINE s == Front(stack)
<1>3. /\ 1 \in Int /\ Len(stack) - 1 \in Int
      /\ \A i \in 1..(Len(stack) - 1) : stack[i] \in S
  BY <1>1, <1>2, ElementOfSeq
<1>4. /\ s \in Seq(S) /\ Len(s) = Len(stack) - 1
      /\ \A i \in 1..(Len(stack) - 1) : s[i] = stack[i]
  <2>1. /\ s \in Seq(S)
        /\ Len(s) = IF 1 <= Len(stack) - 1 THEN (Len(stack) - 1) - 1 + 1 ELSE 0
        /\ \A i \in 1..((Len(stack) - 1) - 1 + 1) : s[i] = stack[1 + i - 1]
    BY ONLY <1>3, SubSeqProperties DEF Front
  <2> HIDE DEF s
  <2> QED BY <1>2, <2>1
<1>5. s # <<>>
  BY <1>2, <1>4, EmptySeq
<1> HIDE DEF s
<1>6. /\ \E R : stack' \in Seq(R)
      /\ Len(stack') = Len(s) /\ stack' # <<>>
      /\ \A i \in 1..Len(stack') : stack'[i] = IF i = Len(s) THEN frame ELSE s[i]
  BY <1>4, <1>5, LastReplaced DEF s
<1>7. \A i \in 1..Len(stack') : stack'[i] = IF i = Len(stack) - 1 THEN frame ELSE stack[i]
  BY <1>2, <1>4, <1>6
<1> QED BY <1>2, <1>4, <1>6, <1>7

LEMMA PoppedIs ==
    ASSUME NEW Lists, FillsLists(Lists), Len(stack) > 1, NEW frame,
           stack' = ReplaceLast(Front(stack), frame)
    PROVE  ChangesTo({frame})
<1>1. /\ \E R : stack' \in Seq(R)
      /\ Len(stack) \in Nat /\ Len(stack') = Len(stack) - 1 /\ stack' # <<>>
      /\ \A i \in 1..Len(stack') :
            stack'[i] = IF i = Len(stack) - 1 THEN frame ELSE stack[i]
  BY PoppedAt
<1>2. \A i \in 1..Len(stack') : i \in 1..Len(stack)
  BY <1>1
<1>3. \A i \in 1..Len(stack') : stack'[i] \in {frame} \cup {stack[j] : j \in 1..Len(stack)}
  BY <1>1, <1>2
<1> QED BY <1>1, <1>3 DEF ChangesTo

LEMMA ChangesKeep ==
    ASSUME NEW Lists, FillsLists(Lists), NEW new, ChangesTo(new), UNCHANGED decoder,
           \A f \in new : IsFrame(f) /\ <<decoder, f.list>> \in Lists
    PROVE  FillsLists(Lists)'
<1>1. \A i \in 1..Len(stack') :
          stack'[i] \in new \/ \E j \in 1..Len(stack) : stack'[i] = stack[j]
  BY DEF ChangesTo
<1>2. \A i \in 1..Len(stack') : IsFrame(stack'[i]) /\ <<decoder, stack'[i].list>> \in Lists
  BY <1>1 DEF FillsLists
<1>3. (\E S : stack' \in Seq(S)) /\ stack' # <<>>
  BY DEF ChangesTo
<1> QED BY <1>2, <1>3 DEF FillsLists

LEMMA ReplacedKeeps ==
    ASSUME NEW Lists, FillsLists(Lists), NEW frame,
           IsFrame(frame), <<decoder, frame.list>> \in Lists,
           stack' = ReplaceLast(stack, frame), UNCHANGED decoder
    PROVE  FillsLists(Lists)'
<1>1. ChangesTo({frame})
  BY ReplacedIs
<1> QED BY <1>1, ChangesKeep

LEMMA TopIs ==
    ASSUME NEW Lists, FillsLists(Lists)
    PROVE  /\ IsFrame(Top) /\ <<decoder, List>> \in Lists
           /\ Len(stack) \in Nat \ {0}
           /\ decoder \in DOMAIN Layouts
<1>1. PICK S : stack \in Seq(S)
  BY DEF FillsLists
<1>2. Len(stack) \in Nat /\ Len(stack) # 0
  BY <1>1, EmptySeq, LenProperties DEF FillsLists
<1>3. Len(stack) \in 1..Len(stack)
  BY <1>2
<1> QED BY <1>2, <1>3 DEF FillsLists, Top, List

LEMMA FollowingIsListed ==
    ASSUME NEW Lists, IsClosed(Lists), NEW d, NEW list, <<d, list>> \in Lists,
           NEW l \in Following(list)
    PROVE  <<d, l>> \in Lists
<1>1. <<d, l>> \in {d} \X Following(list)
  OBVIOUS
<1>2. {<<d, list>>[1]} \X Following(<<d, list>>[2]) \subseteq Lists
  BY DEF IsClosed
<1> QED BY <1>1, <1>2

\* What each instruction makes of a list, when it is executed, is among what
\* follows the list
LEMMA FollowingIs ==
    ASSUME NEW list
    PROVE  LET item == ItemOf(list)
           IN  /\ IsNext(list, "fmt") => ByFmt(list) \in Following(list)
               /\ IsNext(list, "reads") /\ AreNumbers(list, item.fields) =>
                      Searched(list) \in Following(list)
               /\ IsNext(list, "split") /\ AreNumbers(list, NewWords(list))
                                        /\ AreFields(list, SplitFields(item)) =>
                      Divided(list) \in Following(list)
               /\ IsNext(list, "sets") /\ AreFields(list, item.fields) =>
                      WithAll(list, Computed) \in Following(list)
               /\ IsNext(list, "names") /\ AreNumbers(list, item.fields) =>
                      WithAll(list, Text) \in Following(list)
               /\ IsNext(list, "either") =>
                      \A i \in DOMAIN item.alternatives : Taking(list, i) \in Following(list)
               /\ IsNext(list, "loop") => /\ Past(list) \in Following(list)
                                          /\ Opened(item.body) \in Following(list)
               /\ IsNext(list, "pad") => Past(list) \in Following(list)
               /\ IsNext(list, "sized") /\ IsNumber(list, item.field) =>
                      [Past(list) EXCEPT !.sized = TRUE] \in Following(list)
               /\ IsNext(list, "realign") =>
                      [Past(list) EXCEPT !.atEnd = TRUE] \in Following(list)
<1>1. CASE IsNext(list, "fmt")
  BY <1>1 DEF IsNext, Following, LookupSucceeds
<1>2. CASE IsNext(list, "reads")
  BY <1>2 DEF IsNext, Following, LookupSucceeds
<1>3. CASE IsNext(list, "split")
  BY <1>3 DEF IsNext, Following, LookupSucceeds
<1>4. CASE IsNext(list, "sets")
  BY <1>4 DEF IsNext, Following, LookupSucceeds
<1>5. CASE IsNext(list, "names")
  BY <1>5 DEF IsNext, Following, LookupSucceeds
<1>6. CASE IsNext(list, "either")
  BY <1>6 DEF IsNext, Following, LookupSucceeds
<1>7. CASE IsNext(list, "loop")
  BY <1>7 DEF IsNext, Following, LookupSucceeds
<1>8. CASE IsNext(list, "pad")
  BY <1>8 DEF IsNext, Following, LookupSucceeds
<1>9. CASE IsNext(list, "sized")
  BY <1>9 DEF IsNext, Following, LookupSucceeds
<1>10. CASE IsNext(list, "realign")
  BY <1>10 DEF IsNext, Following, LookupSucceeds
<1> QED BY <1>1, <1>2, <1>3, <1>4, <1>5, <1>6, <1>7, <1>8, <1>9, <1>10

\* A step that changes the innermost list alone
LEMMA BecomesKeeps ==
    ASSUME NEW Lists, IsClosed(Lists), FillsLists(Lists), NEW list \in Following(List),
           \/ Becomes(list)
           \/ \E bytes : BecomesAndMoves(list, bytes)
    PROVE  FillsLists(Lists)'
<1>1. <<decoder, list>> \in Lists
  BY TopIs, FollowingIsListed
<1>2. IsFrame(Top)
  BY TopIs
<1>3. CASE Becomes(list)
  <2> DEFINE frame == [Top EXCEPT !.list = list]
  <2>1. IsFrame(frame) /\ frame.list = list
    BY <1>2 DEF IsFrame
  <2>2. stack' = ReplaceLast(stack, frame) /\ UNCHANGED decoder
    BY <1>3 DEF Becomes, ReplaceLast
  <2> HIDE DEF frame
  <2> QED BY <1>1, <2>1, <2>2, ReplacedKeeps
<1>4. CASE \E bytes : BecomesAndMoves(list, bytes)
  <2>1. PICK bytes : BecomesAndMoves(list, bytes)
    BY <1>4
  <2> DEFINE frame == [Top EXCEPT !.list = list, !.bytes = @ + bytes]
  <2>2. IsFrame(frame) /\ frame.list = list
    BY <1>2 DEF IsFrame
  <2>3. stack' = ReplaceLast(stack, frame) /\ UNCHANGED decoder
    BY <2>1 DEF BecomesAndMoves, ReplaceLast
  <2> HIDE DEF frame
  <2> QED BY <1>1, <2>2, <2>3, ReplacedKeeps
<1> QED BY <1>3, <1>4

LEMMA FirstListIsListed ==
    ASSUME NEW Lists, IsClosed(Lists), DecoderInit
    PROVE  FillsLists(Lists)
<1> DEFINE frame == Started(Layouts[decoder])
<1>1. stack = <<frame>> /\ decoder \in DOMAIN Layouts
  BY DEF DecoderInit
<1>2. IsFrame(frame) /\ frame.list = Opened(Layouts[decoder])
  BY DEF IsFrame, Started
<1>3. <<decoder, frame.list>> \in Lists
  BY <1>1, <1>2 DEF IsClosed
<1> HIDE DEF frame
<1>4. stack \in Seq({frame}) /\ Len(stack) = 1 /\ stack # <<>> /\ stack[1] = frame
  BY <1>1
<1>5. \E S : stack \in Seq(S)
  BY <1>4
<1>6. \A i \in 1..Len(stack) : stack[i] = frame
  BY <1>4
<1> QED BY <1>1, <1>2, <1>3, <1>4, <1>5, <1>6 DEF FillsLists

\* The list around grows by the bytes of the one that is appended to it
FrameAround == [stack[Len(stack) - 1] EXCEPT !.bytes = @ + Top.bytes, !.slot = Top.bytes]

LEMMA AppendedIs ==
    ASSUME NEW Lists, FillsLists(Lists), AppendList
    PROVE  /\ Len(stack) - 1 \in 1..Len(stack)
           /\ stack' = ReplaceLast(Front(stack), FrameAround)
           /\ ChangesTo({FrameAround}) /\ UNCHANGED decoder
           /\ IsFrame(FrameAround) /\ FrameAround.list = stack[Len(stack) - 1].list
<1>1. Len(stack) > 1 /\ UNCHANGED decoder
  BY DEF AppendList
<1>2. PICK S : stack \in Seq(S)
  BY DEF FillsLists
<1>3. Len(stack) \in Nat
  BY <1>2, LenProperties
<1>4. Len(Front(stack)) = Len(stack) - 1
  <2>1. /\ 1 \in Int /\ Len(stack) - 1 \in Int
        /\ \A i \in 1..(Len(stack) - 1) : stack[i] \in S
    BY <1>2, <1>3, ElementOfSeq
  <2>2. Len(Front(stack)) = IF 1 <= Len(stack) - 1 THEN (Len(stack) - 1) - 1 + 1 ELSE 0
    BY ONLY <2>1, SubSeqProperties DEF Front
  <2> QED BY <1>1, <1>3, <2>2
<1>5. stack' = [Front(stack) EXCEPT ![Len(stack) - 1] = FrameAround]
  BY DEF AppendList, FrameAround
<1>6. stack' = ReplaceLast(Front(stack), FrameAround)
  BY <1>4, <1>5 DEF ReplaceLast
<1>7. Len(stack) - 1 \in 1..Len(stack) /\ IsFrame(stack[Len(stack) - 1])
  <2>1. Len(stack) - 1 \in 1..Len(stack)
    BY <1>1, <1>3
  <2> QED BY <2>1 DEF FillsLists
<1>8. IsFrame(FrameAround) /\ FrameAround.list = stack[Len(stack) - 1].list
  BY <1>7 DEF IsFrame, FrameAround
<1>9. ChangesTo({FrameAround})
  BY <1>1, <1>6, PoppedIs
<1> QED BY <1>1, <1>6, <1>7, <1>8, <1>9

LEMMA StepKeepsLists ==
    ASSUME NEW Lists, IsClosed(Lists), FillsLists(Lists), [DecoderNext]_decoderVars
    PROVE  FillsLists(Lists)'
<1>1. IsClosed(Lists) /\ <<decoder, List>> \in Lists /\ IsFrame(Top)
  BY TopIs
<1>2. NextItem = ItemOf(List)
  BY DEF NextItem
<1>3. CASE DecodeByFmt
  BY <1>1, <1>2, <1>3, FollowingIs, BecomesKeeps DEF DecodeByFmt
<1>4. CASE SearchResult
  BY <1>1, <1>2, <1>4, FollowingIs, BecomesKeeps DEF SearchResult
<1>5. CASE SplitWords
  BY <1>1, <1>2, <1>5, FollowingIs, BecomesKeeps DEF SplitWords
<1>6. CASE ReplaceResult
  BY <1>1, <1>2, <1>6, FollowingIs, BecomesKeeps DEF ReplaceResult
<1>7. CASE MapToName
  BY <1>1, <1>2, <1>7, FollowingIs, BecomesKeeps DEF MapToName
<1>8. CASE Branch
  <2>1. PICK i \in DOMAIN NextItem.alternatives : Becomes(Taking(List, i))
    BY <1>8 DEF Branch
  <2>2. Taking(List, i) \in Following(List)
    BY <1>2, <1>8, <2>1, FollowingIs DEF Branch, NextItem
  <2> QED BY <1>1, <2>1, <2>2, BecomesKeeps
<1>9. CASE BeginLoop
  <2>1. PICK n : stack' = [stack EXCEPT ![Len(stack)] = [Top EXCEPT !.left = n, !.count = n]]
    BY <1>9 DEF BeginLoop
  <2> DEFINE frame == [Top EXCEPT !.left = n, !.count = n]
  <2>2. IsFrame(frame) /\ frame.list = List
    BY <1>1 DEF IsFrame, List
  <2>3. stack' = ReplaceLast(stack, frame) /\ UNCHANGED decoder
    BY <1>9, <2>1 DEF BeginLoop, ReplaceLast
  <2> HIDE DEF frame
  <2> QED BY <1>1, <2>2, <2>3, ReplacedKeeps
<1>10. CASE OpenList
  <2> DEFINE frame == [Top EXCEPT !.left = @ - 1]
             inner == Started(NextItem.body)
  <2>1. IsFrame(frame) /\ frame.list = List
    BY <1>1 DEF IsFrame, List
  <2>2. IsFrame(inner) /\ inner.list = Opened(NextItem.body)
    BY DEF IsFrame, Started
  <2>3. Opened(NextItem.body) \in Following(List)
    BY <1>2, <1>10, FollowingIs DEF OpenList, NextItem
  <2>4. <<decoder, inner.list>> \in Lists
    BY <1>1, <2>2, <2>3, FollowingIsListed
  <2>5. stack' = Append(ReplaceLast(stack, frame), inner) /\ UNCHANGED decoder
    BY <1>10 DEF OpenList, ReplaceLast
  <2> HIDE DEF frame, inner
  <2>6. ChangesTo({frame, inner})
    BY <2>5, PushedIs
  <2> QED BY <1>1, <2>1, <2>2, <2>4, <2>5, <2>6, ChangesKeep
<1>11. CASE EndLoop
  <2> DEFINE frame == [Top EXCEPT !.list = Past(List), !.left = NotBegun]
  <2>1. IsFrame(frame) /\ frame.list = Past(List)
    BY <1>1 DEF IsFrame
  <2>2. Past(List) \in Following(List)
    BY <1>2, <1>11, FollowingIs DEF EndLoop
  <2>3. <<decoder, frame.list>> \in Lists
    BY <1>1, <2>1, <2>2, FollowingIsListed
  <2>4. stack' = ReplaceLast(stack, frame) /\ UNCHANGED decoder
    BY <1>11 DEF EndLoop, ReplaceLast
  <2> HIDE DEF frame
  <2> QED BY <2>1, <2>3, <2>4, ReplacedKeeps
<1>12. CASE AppendList
  <2>1. /\ Len(stack) - 1 \in 1..Len(stack)
        /\ ChangesTo({FrameAround}) /\ UNCHANGED decoder
        /\ IsFrame(FrameAround) /\ FrameAround.list = stack[Len(stack) - 1].list
    BY <1>12, AppendedIs
  <2>2. <<decoder, FrameAround.list>> \in Lists
    BY <2>1 DEF FillsLists
  <2> QED BY <2>1, <2>2, ChangesKeep
<1>13. CASE SkipFreeSlots
  BY <1>1, <1>2, <1>13, FollowingIs, BecomesKeeps DEF SkipFreeSlots
<1>14. CASE ReadSize
  BY <1>1, <1>2, <1>14, FollowingIs, BecomesKeeps DEF ReadSize
<1>15. CASE SkipRest
  BY <1>1, <1>2, <1>15, FollowingIs, BecomesKeeps DEF SkipRest
<1>16. CASE UNCHANGED decoderVars
  BY <1>16 DEF decoderVars, FillsLists
<1> QED BY <1>3, <1>4, <1>5, <1>6, <1>7, <1>8, <1>9, <1>10, <1>11, <1>12, <1>13, <1>14,
           <1>15, <1>16 DEF DecoderNext

(***************************************************************************)
(* Whatever the packet says and however many records are in it, what the   *)
(* code fills is one of the lists that the instructions make of one        *)
(* another (the loops of log_packet.cpp, each of which opens a list for    *)
(* each record and appends it).  Each theorem below follows: a property of *)
(* all of these lists, of which there is a finite number, is one of all    *)
(* packets.                                                                *)
(***************************************************************************)
THEOREM DecodersFillLists ==
    ASSUME NEW Lists, IsClosed(Lists)
    PROVE  DecoderSpec => []FillsLists(Lists)
<1>1. DecoderInit => FillsLists(Lists)
  BY FirstListIsListed
<1>2. FillsLists(Lists) /\ [DecoderNext]_decoderVars => FillsLists(Lists)'
  BY StepKeepsLists
<1> QED BY <1>1, <1>2, PTL DEF DecoderSpec

LEMMA ListHas ==
    ASSUME NEW Lists, FillsLists(Lists)
    PROVE  <<decoder, List>> \in Lists /\ <<decoder, List>>[1] = decoder
                                       /\ <<decoder, List>>[2] = List
BY TopIs

(***************************************************************************)
(* No lookup of a decoder fails, if none of its lists has one that does:   *)
(* _search_result_int never runs into its assertion, and no replacement    *)
(* returns NULL.  So no instruction is one that cannot be executed.        *)
(***************************************************************************)
THEOREM DecodersFindTheirFields ==
    ASSUME NEW Lists, IsClosed(Lists), \A e \in Lists : LookupSucceeds(e[2])
    PROVE  DecoderSpec => []LookupsSucceed
<1>1. FillsLists(Lists) => LookupsSucceed
  BY ListHas DEF LookupsSucceed
<1> QED BY <1>1, DecodersFillLists, PTL

(***************************************************************************)
(* No shift and mask of a decoder reaches beyond its word, with any number *)
(* of records: no word is read that a record before has left narrower.     *)
(***************************************************************************)
THEOREM DecodersStayInTheWord ==
    ASSUME NEW Lists, IsClosed(Lists), \A e \in Lists : PiecesAreInTheWord(e[2])
    PROVE  DecoderSpec => []BitsAreInTheWord
<1>1. FillsLists(Lists) => BitsAreInTheWord
  BY ListHas DEF BitsAreInTheWord
<1> QED BY <1>1, DecodersFillLists, PTL

(***************************************************************************)
(* No decoder gives a bit of a packet to two fields, but to those that are *)
(* listed in SameBits, with any number of records: a word is split once,   *)
(* or read anew (the _replace_result_int of log_packet.cpp).               *)
(***************************************************************************)
THEOREM DecodersGiveBitsOnce ==
    ASSUME NEW Lists, IsClosed(Lists),
           \A e \in Lists : PiecesAreGivenOnce(e[1], e[2])
    PROVE  DecoderSpec => []BitsAreGivenOnce
<1>1. FillsLists(Lists) => BitsAreGivenOnce
  BY ListHas DEF BitsAreGivenOnce
<1> QED BY <1>1, DecodersFillLists, PTL

(***************************************************************************)
(* No decoder gives a field bits with a hole between them, or a single one *)
(* of the bits that its mask is as long as, or a word multiplied by it.    *)
(***************************************************************************)
THEOREM DecodersGiveOnePiece ==
    ASSUME NEW Lists, IsClosed(Lists), \A e \in Lists : PiecesAreOfOnePiece(e[2])
    PROVE  DecoderSpec => []BitsAreOfOnePiece
<1>1. FillsLists(Lists) => BitsAreOfOnePiece
  BY ListHas DEF BitsAreOfOnePiece
<1> QED BY <1>1, DecodersFillLists, PTL

(***************************************************************************)
(* No list is appended with an empty placeholder, if none of those that    *)
(* are complete has one: nothing that fills it depends on the record being *)
(* the first, or on one before it (PyList_Append of log_packet.cpp).       *)
(***************************************************************************)
THEOREM DecodersFillPlaceholders ==
    ASSUME NEW Lists, IsClosed(Lists), \A e \in Lists : IsFilled(e[1], e[2])
    PROVE  DecoderSpec => []PlaceholdersAreFilled
<1>1. FillsLists(Lists) => PlaceholdersAreFilled
  BY ListHas DEF PlaceholdersAreFilled
<1> QED BY <1>1, DecodersFillLists, PTL

-----------------------------------------------------------------------------
(* The counters of the frames *)

IsCounted(frame) ==
    /\ frame.bytes \in Nat /\ frame.slot \in Nat
    /\ frame.left \in NotBegun..MaxCount /\ frame.count \in 0..MaxCount

AllCounted == \A i \in 1..Len(stack) : IsCounted(stack[i])

LEMMA ChangesKeepCounts ==
    ASSUME AllCounted, NEW new, ChangesTo(new), \A f \in new : IsCounted(f)
    PROVE  AllCounted'
<1>1. \A i \in 1..Len(stack') :
          stack'[i] \in new \/ \E j \in 1..Len(stack) : stack'[i] = stack[j]
  BY DEF ChangesTo
<1>2. \A i \in 1..Len(stack') : IsCounted(stack'[i])
  BY <1>1 DEF AllCounted
<1> QED BY <1>2 DEF AllCounted

LEMMA StartedIsCounted ==
    ASSUME NEW layout
    PROVE  IsCounted(Started(layout))
BY LogPacketDecoderAssumption DEF IsCounted, Started, NotBegun

LEMMA SmallerOne ==
    ASSUME NEW n \in Nat
    PROVE  Min({n, MaxCount}) \in 0..MaxCount
<1>1. MaxCount \in Nat
  BY LogPacketDecoderAssumption
<1>2. \E x \in {n, MaxCount} : \A y \in {n, MaxCount} : x <= y
  BY <1>1
<1> DEFINE m == CHOOSE x \in {n, MaxCount} : \A y \in {n, MaxCount} : x <= y
<1>3. m \in {n, MaxCount} /\ \A y \in {n, MaxCount} : m <= y
  BY <1>2
<1> HIDE DEF m
<1>4. m \in 0..MaxCount
  BY <1>1, <1>3
<1> QED BY <1>4 DEF Min, m

LEMMA CountsAreBounded ==
    ASSUME IsInRange(List), IsNext(List, "loop"), NEW n \in Counts
    PROVE  n \in 0..MaxCount
<1>1. NextItem.exactly \in SUBSET Nat
  BY DEF IsInRange, NextItem
<1>2. CASE NextItem.exactly = {}
  BY <1>2 DEF Counts
<1>3. CASE NextItem.exactly # {}
  <2>1. PICK k \in NextItem.exactly : n = Min({k, MaxCount})
    BY <1>3 DEF Counts
  <2> QED BY <1>1, <2>1, SmallerOne
<1> QED BY <1>2, <1>3

LEMMA BecomesKeepsCounts ==
    ASSUME NEW Lists, FillsLists(Lists), AllCounted, NEW list,
           \/ Becomes(list)
           \/ \E bytes \in Nat : BecomesAndMoves(list, bytes)
    PROVE  AllCounted'
<1>1. IsFrame(Top) /\ IsCounted(Top)
  <2>1. Len(stack) \in 1..Len(stack)
    BY TopIs
  <2> QED BY <2>1, TopIs DEF AllCounted, Top
<1>2. CASE Becomes(list)
  <2> DEFINE frame == [Top EXCEPT !.list = list]
  <2>1. IsCounted(frame)
    BY <1>1 DEF IsCounted, IsFrame
  <2>2. stack' = ReplaceLast(stack, frame)
    BY <1>2 DEF Becomes, ReplaceLast
  <2> HIDE DEF frame
  <2> QED BY <2>1, <2>2, ReplacedIs, ChangesKeepCounts
<1>3. CASE \E bytes \in Nat : BecomesAndMoves(list, bytes)
  <2>1. PICK bytes \in Nat : BecomesAndMoves(list, bytes)
    BY <1>3
  <2> DEFINE frame == [Top EXCEPT !.list = list, !.bytes = @ + bytes]
  <2>2. IsCounted(frame)
    BY <1>1 DEF IsCounted, IsFrame
  <2>3. stack' = ReplaceLast(stack, frame)
    BY <2>1 DEF BecomesAndMoves, ReplaceLast
  <2> HIDE DEF frame
  <2> QED BY <2>2, <2>3, ReplacedIs, ChangesKeepCounts
<1> QED BY <1>2, <1>3

LEMMA StepKeepsCounts ==
    ASSUME NEW Lists, FillsLists(Lists), AllCounted, IsInRange(List),
           [DecoderNext]_decoderVars
    PROVE  AllCounted'
<1>1. IsFrame(Top) /\ IsCounted(Top) /\ Len(stack) \in Nat \ {0}
  <2>1. Len(stack) \in 1..Len(stack)
    BY TopIs
  <2> QED BY <2>1, TopIs DEF AllCounted, Top
<1>2. CASE DecodeByFmt
  <2>1. NextItem.bytes \in Nat
    BY <1>2 DEF DecodeByFmt, IsInRange, NextItem
  <2> QED BY <1>2, <2>1, BecomesKeepsCounts DEF DecodeByFmt
<1>3. CASE SearchResult
  BY <1>3, BecomesKeepsCounts DEF SearchResult
<1>4. CASE SplitWords
  BY <1>4, BecomesKeepsCounts DEF SplitWords
<1>5. CASE ReplaceResult
  BY <1>5, BecomesKeepsCounts DEF ReplaceResult
<1>6. CASE MapToName
  BY <1>6, BecomesKeepsCounts DEF MapToName
<1>7. CASE Branch
  BY <1>7, BecomesKeepsCounts DEF Branch
<1>8. CASE BeginLoop
  <2>1. PICK n \in Counts :
            stack' = [stack EXCEPT ![Len(stack)] = [Top EXCEPT !.left = n, !.count = n]]
    BY <1>8 DEF BeginLoop
  <2>2. n \in 0..MaxCount
    BY <1>8, CountsAreBounded DEF BeginLoop
  <2> DEFINE frame == [Top EXCEPT !.left = n, !.count = n]
  <2>3. IsCounted(frame)
    BY <1>1, <2>2 DEF IsCounted, IsFrame, NotBegun
  <2>4. stack' = ReplaceLast(stack, frame)
    BY <2>1 DEF ReplaceLast
  <2> HIDE DEF frame
  <2> QED BY <2>3, <2>4, ReplacedIs, ChangesKeepCounts
<1>9. CASE OpenList
  <2> DEFINE frame == [Top EXCEPT !.left = @ - 1]
             inner == Started(NextItem.body)
  <2>1. IsCounted(frame)
    <3>1. Top.left - 1 \in NotBegun..MaxCount
      BY <1>1, <1>9, LogPacketDecoderAssumption DEF IsCounted, OpenList, NotBegun
    <3> QED BY <1>1, <3>1 DEF IsCounted, IsFrame
  <2>2. IsCounted(inner)
    BY StartedIsCounted
  <2>3. stack' = Append(ReplaceLast(stack, frame), inner)
    BY <1>9 DEF OpenList, ReplaceLast
  <2> HIDE DEF frame, inner
  <2>4. ChangesTo({frame, inner})
    BY <2>3, PushedIs
  <2> QED BY <2>1, <2>2, <2>4, ChangesKeepCounts
<1>10. CASE EndLoop
  <2> DEFINE frame == [Top EXCEPT !.list = Past(List), !.left = NotBegun]
  <2>1. IsCounted(frame)
    BY <1>1, LogPacketDecoderAssumption DEF IsCounted, IsFrame, NotBegun
  <2>2. stack' = ReplaceLast(stack, frame)
    BY <1>10 DEF EndLoop, ReplaceLast
  <2> HIDE DEF frame
  <2> QED BY <2>1, <2>2, ReplacedIs, ChangesKeepCounts
<1>11. CASE AppendList
  <2>1. Len(stack) - 1 \in 1..Len(stack) /\ ChangesTo({FrameAround})
    BY <1>11, AppendedIs
  <2>2. IsCounted(stack[Len(stack) - 1]) /\ IsFrame(stack[Len(stack) - 1])
    BY <2>1 DEF AllCounted, FillsLists
  <2>3. IsCounted(FrameAround)
    BY <1>1, <2>2 DEF IsCounted, IsFrame, FrameAround
  <2> QED BY <2>1, <2>3, ChangesKeepCounts
<1>12. CASE SkipFreeSlots
  <2>1. NextItem.missing[Top.count] \in Nat
    BY <1>1, <1>12 DEF SkipFreeSlots, IsInRange, NextItem, IsCounted
  <2> QED BY <1>12, <2>1, BecomesKeepsCounts DEF SkipFreeSlots
<1>13. CASE ReadSize
  BY <1>13, BecomesKeepsCounts DEF ReadSize
<1>14. CASE SkipRest
  BY <1>14, BecomesKeepsCounts DEF SkipRest
<1>15. CASE UNCHANGED decoderVars
  BY <1>15 DEF decoderVars, AllCounted
<1> QED BY <1>2, <1>3, <1>4, <1>5, <1>6, <1>7, <1>8, <1>9, <1>10, <1>11, <1>12, <1>13,
           <1>14, <1>15 DEF DecoderNext

(***************************************************************************)
(* The offset never moves back and no loop goes beyond its count: the      *)
(* type invariant, of all lists that are being filled (_decode_by_fmt      *)
(* and the loops of log_packet.cpp).  Here the number of records counts:   *)
(* IsInRange asks of a list with free slots behind it that there are no    *)
(* more records than slots.                                                *)
(***************************************************************************)
THEOREM DecodersStayInRange ==
    ASSUME NEW Lists, IsClosed(Lists), \A e \in Lists : IsInRange(e[2])
    PROVE  DecoderSpec => []DecoderTypeOK
<1> DEFINE Kept == FillsLists(Lists) /\ AllCounted
<1>1. DecoderInit => Kept
  <2>1. SUFFICES ASSUME DecoderInit PROVE Kept
    OBVIOUS
  <2>2. stack = <<Started(Layouts[decoder])>>
    BY <2>1 DEF DecoderInit
  <2>3. AllCounted
    BY <2>2, StartedIsCounted DEF AllCounted
  <2> QED BY <2>1, <2>3, FirstListIsListed
<1>2. \A d, l : <<d, l>> \in Lists => IsInRange(l)
  <2>1. SUFFICES ASSUME NEW d, NEW l, <<d, l>> \in Lists PROVE IsInRange(l)
    OBVIOUS
  <2>2. IsInRange(<<d, l>>[2])
    BY <2>1
  <2> QED BY <2>2
<1>3. Kept /\ [DecoderNext]_decoderVars => Kept'
  <2>1. SUFFICES ASSUME Kept, [DecoderNext]_decoderVars PROVE Kept'
    OBVIOUS
  <2>2. FillsLists(Lists)'
    BY <2>1, StepKeepsLists
  <2>3. IsInRange(List)
    BY <1>2, <2>1, TopIs
  <2>4. AllCounted'
    BY <2>1, <2>3, StepKeepsCounts
  <2> QED BY <2>2, <2>4
<1>4. Kept => DecoderTypeOK
  <2>1. SUFFICES ASSUME Kept PROVE DecoderTypeOK
    OBVIOUS
  <2>2. PICK S : stack \in Seq(S)
    BY <2>1 DEF FillsLists
  <2>3. DOMAIN stack = 1..Len(stack) /\ Len(stack) > 0
    BY <2>1, <2>2, TopIs, LenProperties
  <2>4. ASSUME NEW i \in 1..Len(stack)
        PROVE  IsInRange(stack[i].list) /\ IsCounted(stack[i])
    BY <1>2, <2>1 DEF FillsLists, AllCounted
  <2>5. decoder \in DOMAIN Layouts
    BY <2>1, TopIs
  <2> QED BY <2>3, <2>4, <2>5 DEF DecoderTypeOK, IsInRange, IsCounted
<1> HIDE DEF Kept
<1> QED BY <1>1, <1>3, <1>4, PTL DEF DecoderSpec

-----------------------------------------------------------------------------
(* The slots of the records *)

\* Inside a record that has free slots behind it, the bytes are counted
IsInside(Records, d, outer, inner) ==
    /\ IsNext(outer.list, "loop")
    /\ IsSlotted(outer.list) =>
          <<d, ItemOf(outer.list).body, inner.list, inner.bytes>> \in Records

IsBegun(frame) == frame.left # NotBegun => IsNext(frame.list, "loop")

\* Behind a record, the slot is one that any number of records can have
FrameFits(frame) ==
    /\ IsSlotted(frame.list) /\ frame.left # NotBegun /\ frame.left < frame.count =>
          SlotsFit(Past(frame.list), frame.slot)
    /\ IsNext(frame.list, "pad") /\ frame.count > 0 => SlotsFit(frame.list, frame.slot)

SlotsKept(Records) ==
    /\ \A i \in 1..Len(stack) : IsBegun(stack[i])
    /\ \A i \in 1..(Len(stack) - 1) : IsInside(Records, decoder, stack[i], stack[i + 1])
    /\ FrameFits(Top)

LEMMA RecordGoesOn ==
    ASSUME NEW Lists, NEW Records, AreRecords(Records, Lists), NEW d, NEW body, NEW list,
           NEW bytes, <<d, body, list, bytes>> \in Records
    PROVE  /\ ~IsNext(list, "loop") /\ ~IsNext(list, "pad")
           /\ \A l \in Following(list) : <<d, body, l, bytes + BytesOf(list)>> \in Records
<1> DEFINE r == <<d, body, list, bytes>>
<1>1. r \in Records /\ r[1] = d /\ r[2] = body /\ r[3] = list /\ r[4] = bytes
  OBVIOUS
<1> HIDE DEF r
<1>2. /\ ~IsNext(r[3], "loop") /\ ~IsNext(r[3], "pad")
      /\ \A l \in Following(r[3]) : <<r[1], r[2], l, r[4] + BytesOf(r[3])>> \in Records
  BY <1>1 DEF AreRecords
<1> QED BY <1>1, <1>2

LEMMA ReplacedKeepsSlots ==
    ASSUME NEW Lists, FillsLists(Lists), NEW Records, SlotsKept(Records), NEW frame,
           IsBegun(frame), FrameFits(frame),
           \A outer : IsInside(Records, decoder, outer, Top) =>
                          IsInside(Records, decoder, outer, frame),
           stack' = ReplaceLast(stack, frame), UNCHANGED decoder
    PROVE  SlotsKept(Records)'
<1>1. /\ Len(stack') = Len(stack)
      /\ \A i \in 1..Len(stack') : stack'[i] = IF i = Len(stack) THEN frame ELSE stack[i]
  BY ReplacedAt
<1>2. Len(stack) \in Nat \ {0}
  BY TopIs
<1>3. Top' = frame
  BY <1>1, <1>2 DEF Top
<1>4. \A i \in 1..Len(stack') : IsBegun(stack'[i])
  BY <1>1 DEF SlotsKept
<1>5. ASSUME NEW i \in 1..(Len(stack') - 1)
      PROVE  IsInside(Records, decoder, stack'[i], stack'[i + 1])
  <2>1. /\ i \in 1..(Len(stack) - 1) /\ i \in 1..Len(stack) /\ i + 1 \in 1..Len(stack)
        /\ i # Len(stack)
    BY <1>1, <1>2
  <2>2. IsInside(Records, decoder, stack[i], stack[i + 1])
    BY <2>1 DEF SlotsKept
  <2>3. stack'[i] = stack[i]
    BY <1>1, <2>1
  <2>4. CASE i + 1 = Len(stack)
    <3>1. stack'[i + 1] = frame /\ stack[i + 1] = Top
      BY <1>1, <2>1, <2>4 DEF Top
    <3> QED BY <2>2, <2>3, <3>1
  <2>5. CASE i + 1 # Len(stack)
    <3>1. stack'[i + 1] = stack[i + 1]
      BY <1>1, <2>1, <2>5
    <3> QED BY <2>2, <2>3, <3>1
  <2> QED BY <2>4, <2>5
<1> QED BY <1>3, <1>4, <1>5 DEF SlotsKept

LEMMA PushedKeepsSlots ==
    ASSUME NEW Lists, FillsLists(Lists), NEW Records, SlotsKept(Records),
           NEW frame, IsBegun(frame),
           \A outer : IsInside(Records, decoder, outer, Top) =>
                          IsInside(Records, decoder, outer, frame),
           NEW inner, IsBegun(inner), FrameFits(inner),
           IsInside(Records, decoder, frame, inner),
           stack' = Append(ReplaceLast(stack, frame), inner), UNCHANGED decoder
    PROVE  SlotsKept(Records)'
<1>1. /\ Len(stack') = Len(stack) + 1
      /\ \A i \in 1..Len(stack) : stack'[i] = IF i = Len(stack) THEN frame ELSE stack[i]
      /\ stack'[Len(stack) + 1] = inner
  BY PushedAt
<1>2. Len(stack) \in Nat \ {0}
  BY TopIs
<1>3. Top' = inner
  BY <1>1 DEF Top
<1>4. ASSUME NEW i \in 1..Len(stack')
      PROVE  IsBegun(stack'[i])
  <2>1. i = Len(stack) + 1 \/ i \in 1..Len(stack)
    BY <1>1, <1>2
  <2> QED BY <1>1, <2>1 DEF SlotsKept
<1>5. ASSUME NEW i \in 1..(Len(stack') - 1)
      PROVE  IsInside(Records, decoder, stack'[i], stack'[i + 1])
  <2>1. i \in 1..Len(stack)
    BY <1>1, <1>2
  <2>2. CASE i = Len(stack)
    <3>1. stack'[i] = frame /\ stack'[i + 1] = inner
      BY <1>1, <2>1, <2>2
    <3> QED BY <3>1
  <2>3. CASE i # Len(stack)
    <3>1. i \in 1..(Len(stack) - 1) /\ i + 1 \in 1..Len(stack)
      BY <1>2, <2>1, <2>3
    <3>2. IsInside(Records, decoder, stack[i], stack[i + 1])
      BY <3>1 DEF SlotsKept
    <3>3. stack'[i] = stack[i]
      BY <1>1, <2>1, <2>3
    <3>4. CASE i + 1 = Len(stack)
      <4>1. stack'[i + 1] = frame /\ stack[i + 1] = Top
        BY <1>1, <3>1, <3>4 DEF Top
      <4> QED BY <3>2, <3>3, <4>1
    <3>5. CASE i + 1 # Len(stack)
      <4>1. stack'[i + 1] = stack[i + 1]
        BY <1>1, <3>1, <3>5
      <4> QED BY <3>2, <3>3, <4>1
    <3> QED BY <3>4, <3>5
  <2> QED BY <2>2, <2>3
<1> QED BY <1>3, <1>4, <1>5 DEF SlotsKept

LEMMA PoppedKeepsSlots ==
    ASSUME NEW Lists, FillsLists(Lists), Len(stack) > 1, NEW Records, SlotsKept(Records),
           NEW frame, IsBegun(frame), FrameFits(frame),
           \A outer : IsInside(Records, decoder, outer, stack[Len(stack) - 1]) =>
                          IsInside(Records, decoder, outer, frame),
           stack' = ReplaceLast(Front(stack), frame), UNCHANGED decoder
    PROVE  SlotsKept(Records)'
<1>1. /\ Len(stack') = Len(stack) - 1
      /\ \A i \in 1..Len(stack') : stack'[i] = IF i = Len(stack) - 1 THEN frame ELSE stack[i]
  BY PoppedAt
<1>2. Len(stack) \in Nat \ {0}
  BY TopIs
<1>3. Top' = frame
  BY <1>1, <1>2 DEF Top
<1>4. ASSUME NEW i \in 1..Len(stack')
      PROVE  IsBegun(stack'[i])
  <2>1. i \in 1..Len(stack)
    BY <1>1, <1>2
  <2> QED BY <1>1, <2>1 DEF SlotsKept
<1>5. ASSUME NEW i \in 1..(Len(stack') - 1)
      PROVE  IsInside(Records, decoder, stack'[i], stack'[i + 1])
  <2>1. /\ i \in 1..(Len(stack) - 1) /\ i \in 1..Len(stack') /\ i + 1 \in 1..Len(stack')
        /\ i # Len(stack) - 1
    BY <1>1, <1>2
  <2>2. IsInside(Records, decoder, stack[i], stack[i + 1])
    BY <2>1 DEF SlotsKept
  <2>3. stack'[i] = stack[i]
    BY <1>1, <2>1
  <2>4. CASE i + 1 = Len(stack) - 1
    <3>1. stack'[i + 1] = frame
      BY <1>1, <2>1, <2>4
    <3> QED BY <2>2, <2>3, <2>4, <3>1
  <2>5. CASE i + 1 # Len(stack) - 1
    <3>1. stack'[i + 1] = stack[i + 1]
      BY <1>1, <2>1, <2>5
    <3> QED BY <2>2, <2>3, <3>1
  <2> QED BY <2>4, <2>5
<1> QED BY <1>3, <1>4, <1>5 DEF SlotsKept

\* A step of the innermost list that begins and ends no record
LEMMA BecomesKeepsSlots ==
    ASSUME NEW Lists, FillsLists(Lists), NEW Records, AreRecords(Records, Lists),
           SlotsKept(Records), ~IsNext(List, "loop"), NEW list \in Following(List),
           NEW frame, frame.list = list, frame.left = Top.left,
           frame.bytes = Top.bytes + BytesOf(List) \/ IsNext(List, "pad"),
           stack' = ReplaceLast(stack, frame), UNCHANGED decoder
    PROVE  SlotsKept(Records)'
<1>1. <<decoder, List>> \in Lists /\ Len(stack) \in 1..Len(stack)
  BY TopIs
<1>2. Top.left = NotBegun
  BY <1>1 DEF SlotsKept, IsBegun, Top, List
<1>3. ~IsNext(list, "pad")
  <2> DEFINE e == <<decoder, List>>
  <2>1. e \in Lists /\ e[2] = List
    BY <1>1
  <2> HIDE DEF e
  <2>2. \A l \in Following(e[2]) : IsNext(l, "pad") => IsNext(e[2], "loop")
    BY <2>1 DEF AreRecords
  <2> QED BY <2>1, <2>2
<1>4. IsBegun(frame) /\ FrameFits(frame)
  BY <1>2, <1>3 DEF IsBegun, FrameFits
<1>5. ASSUME NEW outer, IsInside(Records, decoder, outer, Top)
      PROVE  IsInside(Records, decoder, outer, frame)
  <2>1. CASE ~IsSlotted(outer.list)
    BY <1>5, <2>1 DEF IsInside
  <2>2. CASE IsSlotted(outer.list)
    <3> DEFINE body == ItemOf(outer.list).body
    <3>1. <<decoder, body, List, Top.bytes>> \in Records /\ IsNext(outer.list, "loop")
      BY <1>5, <2>2 DEF IsInside, List
    <3> HIDE DEF body
    <3>2. ~IsNext(List, "pad") /\ <<decoder, body, list, Top.bytes + BytesOf(List)>> \in Records
      BY <3>1, RecordGoesOn
    <3>3. <<decoder, body, frame.list, frame.bytes>> \in Records
      BY <3>2
    <3> QED BY <3>1, <3>3 DEF IsInside, body
  <2> QED BY <2>1, <2>2
<1> QED BY <1>4, <1>5, ReplacedKeepsSlots

LEMMA InstructionKeepsSlots ==
    ASSUME NEW Lists, FillsLists(Lists), AllCounted, NEW Records,
           AreRecords(Records, Lists), SlotsKept(Records),
           ~IsNext(List, "loop"), NEW list \in Following(List),
           \/ Becomes(list) /\ ~IsNext(List, "fmt")
           \/ BecomesAndMoves(list, ItemOf(List).bytes) /\ IsNext(List, "fmt")
           \/ (\E bytes : BecomesAndMoves(list, bytes)) /\ IsNext(List, "pad")
    PROVE  SlotsKept(Records)'
<1>1. IsFrame(Top) /\ IsCounted(Top)
  <2>1. Len(stack) \in 1..Len(stack)
    BY TopIs
  <2> QED BY <2>1, TopIs DEF AllCounted, Top
<1>2. CASE Becomes(list) /\ ~IsNext(List, "fmt")
  <2> DEFINE frame == [Top EXCEPT !.list = list]
  <2>1. frame.list = list /\ frame.left = Top.left /\ frame.bytes = Top.bytes
    BY <1>1 DEF IsFrame
  <2>2. frame.bytes = Top.bytes + BytesOf(List)
    <3>1. BytesOf(List) = 0
      BY <1>2 DEF BytesOf
    <3>2. Top.bytes \in Nat
      BY <1>1 DEF IsCounted
    <3> HIDE DEF frame
    <3> QED BY <2>1, <3>1, <3>2
  <2>3. stack' = ReplaceLast(stack, frame) /\ UNCHANGED decoder
    BY <1>2 DEF Becomes, ReplaceLast
  <2> HIDE DEF frame
  <2> QED BY <2>1, <2>2, <2>3, BecomesKeepsSlots
<1>3. ASSUME NEW bytes, BecomesAndMoves(list, bytes),
             bytes = BytesOf(List) \/ IsNext(List, "pad")
      PROVE  SlotsKept(Records)'
  <2> DEFINE frame == [Top EXCEPT !.list = list, !.bytes = @ + bytes]
  <2>1. frame.list = list /\ frame.left = Top.left /\ frame.bytes = Top.bytes + bytes
    BY <1>1 DEF IsFrame
  <2>2. stack' = ReplaceLast(stack, frame) /\ UNCHANGED decoder
    BY <1>3 DEF BecomesAndMoves, ReplaceLast
  <2> HIDE DEF frame
  <2>3. frame.bytes = Top.bytes + BytesOf(List) \/ IsNext(List, "pad")
    BY <1>3, <2>1
  <2> QED BY <2>1, <2>2, <2>3, BecomesKeepsSlots
<1>4. CASE BecomesAndMoves(list, ItemOf(List).bytes) /\ IsNext(List, "fmt")
  <2>1. ItemOf(List).bytes = BytesOf(List)
    BY <1>4 DEF BytesOf
  <2> QED BY <1>3, <1>4, <2>1
<1>5. CASE (\E bytes : BecomesAndMoves(list, bytes)) /\ IsNext(List, "pad")
  BY <1>3, <1>5
<1> QED BY <1>2, <1>4, <1>5

LEMMA StepKeepsSlots ==
    ASSUME NEW Lists, FillsLists(Lists), AllCounted, IsInRange(List),
           NEW Records, AreRecords(Records, Lists),
           \A e \in Lists : RecordsFit(Records, e[1], e[2]),
           SlotsKept(Records), [DecoderNext]_decoderVars
    PROVE  SlotsKept(Records)'
<1>1. IsFrame(Top) /\ IsCounted(Top) /\ Len(stack) \in Nat \ {0}
  <2>1. Len(stack) \in 1..Len(stack)
    BY TopIs
  <2> QED BY <2>1, TopIs DEF AllCounted, Top
<1>2. \A d, l : <<d, l>> \in Lists => RecordsFit(Records, d, l)
  <2>1. SUFFICES ASSUME NEW d, NEW l, <<d, l>> \in Lists PROVE RecordsFit(Records, d, l)
    OBVIOUS
  <2>2. RecordsFit(Records, <<d, l>>[1], <<d, l>>[2])
    BY <2>1
  <2> QED BY <2>2
<1>3. NextItem = ItemOf(List)
  BY DEF NextItem
<1>4. CASE DecodeByFmt
  <2>1. ~IsNext(List, "loop") /\ ByFmt(List) \in Following(List)
    BY <1>4, FollowingIs DEF DecodeByFmt, IsNext
  <2> QED BY <1>3, <1>4, <2>1, InstructionKeepsSlots DEF DecodeByFmt
<1>5. CASE SearchResult
  <2>1. /\ ~IsNext(List, "loop") /\ ~IsNext(List, "fmt")
        /\ Searched(List) \in Following(List) /\ Becomes(Searched(List))
    BY <1>3, <1>5, FollowingIs DEF SearchResult, IsNext
  <2> QED BY <2>1, InstructionKeepsSlots
<1>6. CASE SplitWords
  <2>1. /\ ~IsNext(List, "loop") /\ ~IsNext(List, "fmt")
        /\ Divided(List) \in Following(List) /\ Becomes(Divided(List))
    BY <1>3, <1>6, FollowingIs DEF SplitWords, IsNext
  <2> QED BY <2>1, InstructionKeepsSlots
<1>7. CASE ReplaceResult
  <2>1. /\ ~IsNext(List, "loop") /\ ~IsNext(List, "fmt")
        /\ WithAll(List, Computed) \in Following(List) /\ Becomes(WithAll(List, Computed))
    BY <1>3, <1>7, FollowingIs DEF ReplaceResult, IsNext
  <2> QED BY <2>1, InstructionKeepsSlots
<1>8. CASE MapToName
  <2>1. /\ ~IsNext(List, "loop") /\ ~IsNext(List, "fmt")
        /\ WithAll(List, Text) \in Following(List) /\ Becomes(WithAll(List, Text))
    BY <1>3, <1>8, FollowingIs DEF MapToName, IsNext
  <2> QED BY <2>1, InstructionKeepsSlots
<1>9. CASE Branch
  <2>1. PICK i \in DOMAIN NextItem.alternatives : Becomes(Taking(List, i))
    BY <1>9 DEF Branch
  <2>2. /\ ~IsNext(List, "loop") /\ ~IsNext(List, "fmt")
        /\ Taking(List, i) \in Following(List)
    BY <1>3, <1>9, <2>1, FollowingIs DEF Branch, IsNext
  <2> QED BY <2>1, <2>2, InstructionKeepsSlots
<1>10. CASE BeginLoop
  <2>1. PICK n \in Counts :
            stack' = [stack EXCEPT ![Len(stack)] = [Top EXCEPT !.left = n, !.count = n]]
    BY <1>10 DEF BeginLoop
  <2> DEFINE frame == [Top EXCEPT !.left = n, !.count = n]
  <2>2. /\ frame.list = List /\ frame.bytes = Top.bytes
        /\ frame.left = n /\ frame.count = n
    BY <1>1 DEF IsFrame, List
  <2>3. stack' = ReplaceLast(stack, frame) /\ UNCHANGED decoder
    BY <1>10, <2>1 DEF BeginLoop, ReplaceLast
  <2> HIDE DEF frame
  <2>4. IsNext(List, "loop") /\ ~IsNext(List, "pad")
    BY <1>10 DEF BeginLoop, IsNext
  <2>5. IsBegun(frame)
    BY <2>2, <2>4 DEF IsBegun
  <2>6. FrameFits(frame)
    <3>1. n \in 0..MaxCount
      BY <2>4, CountsAreBounded
    <3>2. ~(frame.left < frame.count)
      BY <2>2, <3>1
    <3> QED BY <2>2, <2>4, <3>2 DEF FrameFits
  <2>7. \A outer : IsInside(Records, decoder, outer, Top) =>
                       IsInside(Records, decoder, outer, frame)
    BY <2>2 DEF IsInside, List
  <2> QED BY <2>3, <2>5, <2>6, <2>7, ReplacedKeepsSlots
<1>11. CASE OpenList
  <2> DEFINE frame == [Top EXCEPT !.left = @ - 1]
             inner == Started(NextItem.body)
  <2>1. frame.list = List /\ frame.bytes = Top.bytes
    BY <1>1 DEF IsFrame, List
  <2>2. /\ inner.list = Opened(NextItem.body) /\ inner.bytes = 0
        /\ inner.left = NotBegun /\ inner.count = 0
    BY DEF Started
  <2>3. stack' = Append(ReplaceLast(stack, frame), inner) /\ UNCHANGED decoder
    BY <1>11 DEF OpenList, ReplaceLast
  <2> HIDE DEF frame, inner
  <2>4. IsNext(List, "loop")
    BY <1>11 DEF OpenList
  <2>5. IsBegun(frame) /\ IsBegun(inner)
    BY <2>1, <2>2, <2>4 DEF IsBegun
  <2>6. FrameFits(inner)
    BY <2>2 DEF FrameFits
  <2>7. \A outer : IsInside(Records, decoder, outer, Top) =>
                       IsInside(Records, decoder, outer, frame)
    BY <2>1 DEF IsInside, List
  <2>8. IsInside(Records, decoder, frame, inner)
    <3> DEFINE e == <<decoder, List>>
    <3>1. e \in Lists /\ e[1] = decoder /\ e[2] = List
      BY TopIs
    <3> HIDE DEF e
    <3>2. IsSlotted(e[2]) =>
              <<e[1], ItemOf(e[2]).body, Opened(ItemOf(e[2]).body), 0>> \in Records
      BY <3>1 DEF AreRecords
    <3>3. IsSlotted(List) =>
              <<decoder, ItemOf(List).body, Opened(ItemOf(List).body), 0>> \in Records
      BY <3>1, <3>2
    <3> QED BY <1>3, <2>1, <2>2, <2>4, <3>3 DEF IsInside
  <2> QED BY <2>3, <2>5, <2>6, <2>7, <2>8, PushedKeepsSlots
<1>12. CASE EndLoop
  <2> DEFINE frame == [Top EXCEPT !.list = Past(List), !.left = NotBegun]
  <2>1. /\ frame.list = Past(List) /\ frame.left = NotBegun
        /\ frame.count = Top.count /\ frame.slot = Top.slot
    BY <1>1 DEF IsFrame
  <2>2. stack' = ReplaceLast(stack, frame) /\ UNCHANGED decoder
    BY <1>12 DEF EndLoop, ReplaceLast
  <2> HIDE DEF frame
  <2>3. IsNext(List, "loop") /\ Top.left = 0
    BY <1>12 DEF EndLoop
  <2>4. IsBegun(frame)
    BY <2>1 DEF IsBegun
  <2>5. FrameFits(frame)
    <3>1. ASSUME IsNext(Past(List), "pad"), Top.count > 0
          PROVE  SlotsFit(Past(List), Top.slot)
      <4>1. IsSlotted(List)
        BY <2>3, <3>1 DEF IsSlotted
      <4>2. Top.left # NotBegun /\ Top.left < Top.count
        BY <2>3, <3>1, <1>1 DEF NotBegun, IsCounted
      <4> QED BY <4>1, <4>2 DEF SlotsKept, FrameFits, List
    <3> QED BY <2>1, <3>1 DEF FrameFits
  <2>6. ASSUME NEW outer, IsInside(Records, decoder, outer, Top)
        PROVE  IsInside(Records, decoder, outer, frame)
    <3>1. ~IsSlotted(outer.list)
      <4>1. SUFFICES ASSUME IsSlotted(outer.list) PROVE FALSE
        OBVIOUS
      <4>2. <<decoder, ItemOf(outer.list).body, List, Top.bytes>> \in Records
        BY <2>6, <4>1 DEF IsInside, List
      <4> QED BY <2>3, <4>2, RecordGoesOn
    <3> QED BY <2>6, <3>1 DEF IsInside
  <2> QED BY <2>2, <2>4, <2>5, <2>6, ReplacedKeepsSlots
<1>13. CASE AppendList
  <2> DEFINE around == stack[Len(stack) - 1]
  <2>1. /\ Len(stack) > 1 /\ List.todo = <<>> /\ UNCHANGED decoder
        /\ stack' = ReplaceLast(Front(stack), FrameAround)
    BY <1>13, AppendedIs DEF AppendList
  <2>2. /\ Len(stack) - 1 \in 1..(Len(stack) - 1) /\ Len(stack) - 1 \in 1..Len(stack)
        /\ (Len(stack) - 1) + 1 = Len(stack)
    BY <1>1, <2>1
  <2>3. IsFrame(around) /\ <<decoder, around.list>> \in Lists /\ IsBegun(around)
    BY <2>2 DEF FillsLists, SlotsKept
  <2>4. IsInside(Records, decoder, around, Top)
    BY <2>2 DEF SlotsKept, Top
  <2>5. /\ FrameAround.list = around.list /\ FrameAround.left = around.left
        /\ FrameAround.slot = Top.bytes
    BY <2>3 DEF FrameAround, IsFrame
  <2> HIDE DEF around
  <2>6. IsNext(around.list, "loop") /\ ~IsNext(around.list, "pad")
    BY <2>4 DEF IsInside, IsNext
  <2>7. IsBegun(FrameAround)
    BY <2>5, <2>6 DEF IsBegun
  <2>8. FrameFits(FrameAround)
    <3>1. ASSUME IsSlotted(around.list)
          PROVE  SlotsFit(Past(around.list), Top.bytes)
      <4> DEFINE body == ItemOf(around.list).body
                 r == <<decoder, body, List, Top.bytes>>
      <4>1. r \in Records
        BY <2>4, <3>1 DEF IsInside, List
      <4>2. r[1] = decoder /\ r[2] = body /\ r[3] = List /\ r[4] = Top.bytes
        OBVIOUS
      <4> HIDE DEF r
      <4>3. \A q \in Records : q[1] = decoder /\ q[2] = body /\ q[3].todo = <<>> =>
                                   SlotsFit(Past(around.list), q[4])
        BY <1>2, <2>3, <3>1 DEF RecordsFit
      <4> HIDE DEF body
      <4> QED BY <2>1, <4>1, <4>2, <4>3
    <3> QED BY <2>5, <2>6, <3>1 DEF FrameFits
  <2>9. ASSUME NEW outer, IsInside(Records, decoder, outer, around)
        PROVE  IsInside(Records, decoder, outer, FrameAround)
    <3>1. ~IsSlotted(outer.list)
      <4>1. SUFFICES ASSUME IsSlotted(outer.list) PROVE FALSE
        OBVIOUS
      <4>2. <<decoder, ItemOf(outer.list).body, around.list, around.bytes>> \in Records
        BY <2>9, <4>1 DEF IsInside
      <4> QED BY <2>6, <4>2, RecordGoesOn
    <3> QED BY <2>9, <3>1 DEF IsInside
  <2> QED BY <2>1, <2>7, <2>8, <2>9, PoppedKeepsSlots DEF around
<1>14. CASE SkipFreeSlots
  <2>1. /\ ~IsNext(List, "loop") /\ IsNext(List, "pad")
        /\ Past(List) \in Following(List)
        /\ BecomesAndMoves(Past(List), NextItem.missing[Top.count])
    BY <1>14, FollowingIs DEF SkipFreeSlots, IsNext
  <2> QED BY <2>1, InstructionKeepsSlots
<1>15. CASE ReadSize
  <2> DEFINE l == [Past(List) EXCEPT !.sized = TRUE]
  <2>1. /\ ~IsNext(List, "loop") /\ ~IsNext(List, "fmt")
        /\ l \in Following(List) /\ Becomes(l)
    BY <1>3, <1>15, FollowingIs DEF ReadSize, IsNext
  <2> HIDE DEF l
  <2> QED BY <2>1, InstructionKeepsSlots
<1>16. CASE SkipRest
  <2> DEFINE l == [Past(List) EXCEPT !.atEnd = TRUE]
  <2>1. /\ ~IsNext(List, "loop") /\ ~IsNext(List, "fmt")
        /\ l \in Following(List) /\ Becomes(l)
    BY <1>3, <1>16, FollowingIs DEF SkipRest, IsNext
  <2> HIDE DEF l
  <2> QED BY <2>1, InstructionKeepsSlots
<1>17. CASE UNCHANGED decoderVars
  BY <1>17 DEF decoderVars, SlotsKept, Top
<1> QED BY <1>4, <1>5, <1>6, <1>7, <1>8, <1>9, <1>10, <1>11, <1>12, <1>13, <1>14, <1>15,
           <1>16, <1>17 DEF DecoderNext

(***************************************************************************)
(* What stands behind the slots of the records is read from where it is,   *)
(* with any number of records that there are slots for: if all records are *)
(* as long as their slots, the slot that is skipped is as long as the one  *)
(* that was filled (the loops of log_packet.cpp that add a multiple of the *)
(* size of a slot to the offset).  And every subpacket is left at its end. *)
(***************************************************************************)
THEOREM DecodersKeepTheOffset ==
    ASSUME NEW Lists, IsClosed(Lists), NEW Records, AreRecords(Records, Lists),
           \A e \in Lists : /\ RecordsFit(Records, e[1], e[2])
                            /\ IsLeftAtItsEnd(e[2]) /\ IsInRange(e[2])
    PROVE  DecoderSpec => []OffsetIsRight
<1> DEFINE Kept == FillsLists(Lists) /\ AllCounted /\ SlotsKept(Records)
<1>1. DecoderInit => Kept
  <2>1. SUFFICES ASSUME DecoderInit PROVE Kept
    OBVIOUS
  <2> DEFINE frame == Started(Layouts[decoder])
  <2>2. stack = <<frame>>
    BY <2>1 DEF DecoderInit
  <2>3. frame.left = NotBegun /\ frame.count = 0
    BY DEF Started
  <2>4. IsCounted(frame)
    BY StartedIsCounted
  <2> HIDE DEF frame
  <2>5. AllCounted
    BY <2>2, <2>4 DEF AllCounted
  <2>6. SlotsKept(Records)
    <3>1. Len(stack) = 1 /\ \A i \in 1..Len(stack) : stack[i] = frame
      BY <2>2
    <3>2. Top = frame /\ 1..(Len(stack) - 1) = {}
      BY <3>1 DEF Top
    <3> QED BY <2>3, <3>1, <3>2 DEF SlotsKept, IsBegun, FrameFits
  <2> QED BY <2>1, <2>5, <2>6, FirstListIsListed
<1>2. Kept /\ [DecoderNext]_decoderVars => Kept'
  <2>1. SUFFICES ASSUME Kept, [DecoderNext]_decoderVars PROVE Kept'
    OBVIOUS
  <2>2. FillsLists(Lists)'
    BY <2>1, StepKeepsLists
  <2>3. IsInRange(List)
    BY <2>1, ListHas
  <2>4. AllCounted'
    BY <2>1, <2>3, StepKeepsCounts
  <2>5. SlotsKept(Records)'
    BY <2>1, <2>3, StepKeepsSlots
  <2> QED BY <2>2, <2>4, <2>5
<1>3. Kept => OffsetIsRight
  <2>1. SUFFICES ASSUME Kept PROVE OffsetIsRight
    OBVIOUS
  <2>2. IsInRange(List) /\ IsLeftAtItsEnd(List)
    BY <2>1, ListHas
  <2>3. Top.count \in 0..MaxCount
    <3>1. Len(stack) \in 1..Len(stack)
      BY <2>1, TopIs
    <3> QED BY <2>1, <3>1 DEF AllCounted, IsCounted, Top
  <2>4. ASSUME IsNext(List, "pad"), Top.count > 0, NEW n \in DOMAIN NextItem.missing \ {0}
        PROVE  n * Top.slot + NextItem.missing[n]
                   = Top.count * Top.slot + NextItem.missing[Top.count]
    <3>1. SlotsFit(List, Top.slot)
      BY <2>1, <2>4 DEF SlotsKept, FrameFits, List
    <3>2. Top.count \in DOMAIN NextItem.missing \ {0}
      BY <2>2, <2>3, <2>4 DEF IsInRange, NextItem
    <3> QED BY <2>4, <3>1, <3>2 DEF SlotsFit, NextItem
  <2> QED BY <2>2, <2>4 DEF OffsetIsRight
<1> HIDE DEF Kept
<1> QED BY <1>1, <1>2, <1>3, PTL DEF DecoderSpec
==============================================================================
