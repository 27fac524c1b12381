-------------------------- MODULE Encoding_proofs --------------------------
(***************************************************************************)
(* What the operators of Hdlc do, for every checksum and every buffer, and *)
(* what those of LogConfig do, for all sets of type ids of the table.      *)
(*                                                                         *)
(* The operators of Hdlc look for the first delimiter and build sequences  *)
(* byte by byte, and a modem obeys one command after the other, so the     *)
(* facts need an induction.  It is carried out by hand: a set of naturals  *)
(* has a least element, hence a claim about naturals that fails has a      *)
(* least counterexample.                                                   *)
(***************************************************************************)
EXTENDS Hdlc, LogConfig, FiniteSetTheorems, SequenceTheorems, TLAPS

-----------------------------------------------------------------------------
(* A nonempty set of naturals has a least element.  The sets 0..n, for n   *)
(* in T, have one that is minimal for inclusion.                           *)
LEMMA LeastNatural ==
  ASSUME NEW T \in SUBSET Nat, T # {}
  PROVE  \E m \in T : \A k \in T : m <= k
<1> DEFINE Upto == {0..n : n \in T}
<1>1. Upto \subseteq FiniteSubsetsOf(Nat)
  <2>1. \A n \in T : 0..n \subseteq Nat /\ IsFiniteSet(0..n)
    BY FS_Interval
  <2> QED BY <2>1 DEF FiniteSubsetsOf
<1>2. PICK X \in Upto : \A Y \in Upto : ~ (<<Y, X>> \in StrictSubsetOrdering(Nat))
  <2>1. IsWellFoundedOn(StrictSubsetOrdering(Nat), FiniteSubsetsOf(Nat))
    BY FS_StrictSubsetOrderingWellFounded
  <2>2. Upto # {}
    OBVIOUS
  <2> HIDE DEF Upto
  <2> QED BY <1>1, <2>1, <2>2, WFMin
<1>3. PICK m \in T : X = 0..m
  OBVIOUS
<1>4. ASSUME NEW k \in T PROVE m <= k
  <2>1. <<0..k, 0..m>> \notin StrictSubsetOrdering(Nat)
    BY <1>2, <1>3
  <2>2. SUFFICES ASSUME k < m PROVE FALSE
    OBVIOUS
  <2>3. 0..k \subseteq 0..m /\ 0..k # 0..m
    <3>1. m \in 0..m /\ m \notin 0..k
      BY <2>2
    <3> QED BY <3>1, <2>2
  <2>4. 0..k \in SUBSET Nat /\ 0..m \in SUBSET Nat
    OBVIOUS
  <2> QED BY <2>1, <2>3, <2>4 DEF StrictSubsetOrdering
<1> QED BY <1>4

(* A set that holds 0 and, with every natural below n, the next one, holds *)
(* 0..n.                                                                   *)
LEMMA InductionUpTo ==
  ASSUME NEW n \in Nat, NEW T,
         0 \in T,
         \A i \in 1..n : i - 1 \in T => i \in T
  PROVE  0..n \subseteq T
<1> SUFFICES ASSUME 0..n \ T # {} PROVE FALSE
  OBVIOUS
<1>1. PICK m \in 0..n \ T : \A k \in 0..n \ T : m <= k
  <2>1. 0..n \ T \in SUBSET Nat
    OBVIOUS
  <2> QED BY <2>1, LeastNatural
<1>2. m \in 1..n /\ m - 1 \in 0..n
  BY <1>1
<1>3. m - 1 \in T
  BY <1>1, <1>2
<1> QED BY <1>1, <1>2, <1>3

\* f is built from a by one step of h after the other
Follows(f, n, a, h) == f[0] = a /\ \A i \in 1..n : f[i] = h[i][f[i - 1]]

(* A function on 0..n that each step of h extends exists, so a recursive   *)
(* definition of this form means what it says.                             *)
LEMMA RecursionExists ==
  ASSUME NEW S, NEW n \in Nat, NEW a \in S, NEW h \in [1..n -> [S -> S]]
  PROVE  \E f \in [0..n -> S] : Follows(f, n, a, h)
<1> DEFINE Fits(f, m) == f[0] = a /\ \A i \in 1..m : f[i] = h[i][f[i - 1]]
           T == {m \in 0..n : \E f \in [0..m -> S] : Fits(f, m)}
<1>1. 0 \in T
  <2> DEFINE f == [i \in 0..0 |-> a]
  <2>1. f \in [0..0 -> S] /\ f[0] = a /\ 1..0 = {}
    OBVIOUS
  <2>2. Fits(f, 0)
    BY <2>1
  <2> HIDE DEF f, Fits
  <2> QED BY <2>1, <2>2
<1>2. ASSUME NEW m \in 1..n, m - 1 \in T PROVE m \in T
  <2>1. PICK f \in [0..(m - 1) -> S] : Fits(f, m - 1)
    BY <1>2
  <2>2. h[m][f[m - 1]] \in S
    OBVIOUS
  <2> DEFINE g == [i \in 0..m |-> IF i = m THEN h[m][f[m - 1]] ELSE f[i]]
  <2>3. g \in [0..m -> S]
    BY <2>2
  <2>4. g[m] = h[m][f[m - 1]] /\ \A i \in 0..(m - 1) : g[i] = f[i]
    OBVIOUS
  <2> HIDE DEF g
  <2>5. g[0] = a
    BY <2>1, <2>4
  <2>6. ASSUME NEW i \in 1..m PROVE g[i] = h[i][g[i - 1]]
    <3>1. g[i - 1] = f[i - 1]
      BY <2>4
    <3>2. CASE i = m
      BY <3>1, <3>2, <2>4
    <3>3. CASE i # m
      <4>1. i \in 1..(m - 1)
        BY <3>3
      <4> QED BY <4>1, <3>1, <2>1, <2>4
    <3> QED BY <3>2, <3>3
  <2>7. Fits(g, m)
    BY <2>5, <2>6
  <2> HIDE DEF Fits
  <2> QED BY <2>3, <2>7
<1>3. n \in T
  <2>1. \A i \in 1..n : i - 1 \in T => i \in T
    BY <1>2
  <2> HIDE DEF T
  <2>2. 0..n \subseteq T
    BY <1>1, <2>1, InductionUpTo
  <2> QED BY <2>2
<1> QED BY <1>3 DEF Follows

-----------------------------------------------------------------------------
(* Taking a frame *)

(* get_next_frame finds the first delimiter of a buffer that holds one.    *)
LEMMA FrameEndIsFirst ==
  ASSUME NEW buf \in Seq(Byte), HasFrame(buf)
  PROVE  /\ FrameEnd(buf) \in 1..Len(buf)
         /\ buf[FrameEnd(buf)] = DELIM
         /\ \A j \in 1..(FrameEnd(buf) - 1) : buf[j] # DELIM
<1> DEFINE D == {i \in DOMAIN buf : buf[i] = DELIM}
<1>1. DOMAIN buf = 1..Len(buf) /\ Len(buf) \in Nat
  BY LenProperties
<1>2. PICK m \in D : \A k \in D : m <= k
  <2>1. D \in SUBSET Nat /\ D # {}
    BY <1>1 DEF HasFrame
  <2> QED BY <2>1, LeastNatural
<1>3. m \in DOMAIN buf /\ buf[m] = DELIM /\ \A j \in 1..(m - 1) : buf[j] # DELIM
  BY <1>1, <1>2
<1> QED BY <1>1, <1>3 DEF FrameEnd

(* A frame that ends at byte e starts behind the last delimiter before it, *)
(* and FrameStart is that place.                                           *)
LEMMA FrameStartIs ==
  ASSUME NEW bytes, NEW e \in Nat, NEW s \in 1..e,
         s = 1 \/ bytes[s - 1] = DELIM,
         \A i \in s..(e - 1) : bytes[i] # DELIM
  PROVE  FrameStart(bytes, e) = s
<1> DEFINE Start(t) == /\ t = 1 \/ bytes[t - 1] = DELIM
                       /\ \A i \in t..(e - 1) : bytes[i] # DELIM
<1>1. ASSUME NEW t \in 1..e, Start(t) PROVE t = s
  <2>1. CASE t < s
    <3>1. s - 1 \in t..(e - 1)
      BY <2>1
    <3>2. bytes[s - 1] = DELIM
      BY <2>1
    <3> QED BY <1>1, <3>1, <3>2
  <2>2. CASE s < t
    <3>1. t - 1 \in s..(e - 1)
      BY <2>2
    <3>2. bytes[t - 1] = DELIM
      BY <1>1, <2>2
    <3> QED BY <3>1, <3>2
  <2> QED BY <2>1, <2>2
<1>2. Start(s)
  OBVIOUS
<1>3. FrameStart(bytes, e) = CHOOSE t \in 1..e : Start(t)
  BY DEF FrameStart
<1> HIDE DEF Start
<1> QED BY <1>1, <1>2, <1>3

-----------------------------------------------------------------------------
(* Types *)

\* What Unescape makes of s when it has looked at byte i
Grown(raw, i, s) ==
    IF Escaped(raw, i) THEN Append(s, FlipBit5(raw[i]))
    ELSE IF raw[i] = ESC THEN s
    ELSE Append(s, raw[i])

(* Unescape goes byte by byte, and always has a sequence of bytes.         *)
LEMMA UnescapeSteps ==
  ASSUME NEW raw \in Seq(Byte)
  PROVE  \E out \in [0..Len(raw) -> Seq(Byte)] :
            /\ Unescape(raw) = out[Len(raw)] /\ out[0] = <<>>
            /\ \A i \in 1..Len(raw) : out[i] = Grown(raw, i, out[i - 1])
<1> DEFINE n == Len(raw)
           Unfolds(out) == out = [i \in 0..n |-> IF i = 0 THEN <<>>
                                                ELSE Grown(raw, i, out[i - 1])]
           out == CHOOSE out : Unfolds(out)
<1>1. Unescape(raw) = out[n]
  BY Zenon DEF Unescape, Grown
<1>2. n \in Nat /\ \A i \in 1..n : raw[i] \in Byte
  BY ElementOfSeq, LenProperties
<1>3. \A i \in 1..n, s \in Seq(Byte) : Grown(raw, i, s) \in Seq(Byte)
  <2>1. \A b \in Byte : FlipBit5(b) \in Byte
    BY DEF FlipBit5, Byte
  <2> QED BY <1>2, <2>1, AppendProperties DEF Grown
<1> HIDE DEF n
<1>4. \E f : Unfolds(f)
  <2> DEFINE h == [i \in 1..n |-> [s \in Seq(Byte) |-> Grown(raw, i, s)]]
  <2>1. h \in [1..n -> [Seq(Byte) -> Seq(Byte)]]
    BY <1>3
  <2>2. <<>> \in Seq(Byte)
    OBVIOUS
  <2>3. \A i \in 1..n, s \in Seq(Byte) : h[i][s] = Grown(raw, i, s)
    OBVIOUS
  <2> HIDE DEF h
  <2>4. PICK f \in [0..n -> Seq(Byte)] : Follows(f, n, <<>>, h)
    <3>1. n \in Nat
      BY <1>2
    <3> QED BY <3>1, <2>1, <2>2, RecursionExists
  <2>5. ASSUME NEW i \in 0..n
        PROVE  f[i] = IF i = 0 THEN <<>> ELSE Grown(raw, i, f[i - 1])
    <3>1. CASE i = 0
      BY <2>4, <3>1 DEF Follows
    <3>2. CASE i # 0
      <4>1. i \in 1..n /\ i - 1 \in 0..n
        BY <1>2, <3>2
      <4>2. f[i - 1] \in Seq(Byte)
        BY <2>4, <4>1
      <4> QED BY <2>3, <2>4, <3>2, <4>1, <4>2 DEF Follows
    <3> QED BY <3>1, <3>2
  <2>6. Unfolds(f)
    BY <2>5
  <2> QED BY <2>6
<1>5. Unfolds(out)
  BY <1>4, Zenon
<1>6. out[0] = <<>> /\ \A i \in 1..n : out[i] = Grown(raw, i, out[i - 1])
  <2> HIDE DEF out
  <2> QED BY <1>2, <1>5
<1>7. out \in [0..n -> Seq(Byte)]
  <2> HIDE DEF out
  <2> DEFINE T == {i \in 0..n : out[i] \in Seq(Byte)}
  <2>1. 0 \in T
    <3>1. out[0] \in Seq(Byte)
      BY <1>6, EmptySeq
    <3> QED BY <1>2, <3>1
  <2>2. \A i \in 1..n : i - 1 \in T => i \in T
    BY <1>2, <1>3, <1>6
  <2>3. 0..n \subseteq T
    <3> HIDE DEF T
    <3> QED BY <1>2, <2>1, <2>2, InductionUpTo
  <2>4. \A i \in 0..n : out[i] \in Seq(Byte)
    BY <2>3
  <2>5. out = [i \in 0..n |-> out[i]]
    BY <1>5
  <2> QED BY <2>4, <2>5
<1> HIDE DEF out
<1> QED BY <1>1, <1>6, <1>7 DEF n

(* Unescaping a sequence of bytes gives a sequence of bytes.               *)
LEMMA UnescapeType ==
  ASSUME NEW raw \in Seq(Byte)
  PROVE  Unescape(raw) \in Seq(Byte)
<1>1. Len(raw) \in 0..Len(raw)
  BY LenProperties
<1> QED BY <1>1, UnescapeSteps

-----------------------------------------------------------------------------
(* Writing a frame *)

Is16Bits(c) == c \in Nat /\ c < 65536

\* So has whatever CRC the frames carry
Checksum16 == \A p \in Seq(Byte) : Is16Bits(Crc(p))

\* The bytes that may stand inside a frame
NoDelim == Byte \ {DELIM}

(* What a byte is escaped to holds no delimiter.                           *)
LEMMA EscapeByteType == \A b \in Byte : EscapeByte(b) \in Seq(NoDelim)
<1> TAKE b \in Byte
<1>1. CASE b \in {ESC, DELIM}
  <2>1. ESC \in NoDelim /\ FlipBit5(b) \in NoDelim
    BY <1>1 DEF NoDelim, Byte, ESC, DELIM, FlipBit5
  <2>2. EscapeByte(b) = <<ESC, FlipBit5(b)>>
    BY <1>1 DEF EscapeByte
  <2> QED BY <2>1, <2>2
<1>2. CASE b \notin {ESC, DELIM}
  <2>1. b \in NoDelim /\ EscapeByte(b) = <<b>>
    BY <1>2 DEF NoDelim, EscapeByte
  <2> QED BY <2>1
<1> QED BY <1>1, <1>2

(* FlattenSeq appends one sequence after the other.                        *)
LEMMA FlattenSteps ==
  ASSUME NEW S, NEW seqs \in Seq(Seq(S)), seqs # <<>>
  PROVE  \E F \in [0..Len(seqs) -> Seq(S)] :
            /\ FlattenSeq(seqs) = F[Len(seqs)] /\ F[0] = <<>>
            /\ \A i \in 1..Len(seqs) : F[i] = F[i - 1] \o seqs[i]
<1> DEFINE n == Len(seqs)
           Unfolds(f) == f = [i \in 1..n |-> IF i = 1 THEN seqs[i] ELSE f[i - 1] \o seqs[i]]
           flat == CHOOSE f : Unfolds(f)
<1>1. n \in Nat /\ n # 0 /\ \A i \in 1..n : seqs[i] \in Seq(S)
  BY EmptySeq, ElementOfSeq, LenProperties
<1>2. FlattenSeq(seqs) = flat[n]
  BY <1>1, Zenon DEF FlattenSeq
<1> HIDE DEF n
<1>3. \E f : Unfolds(f)
  <2> DEFINE h == [i \in 1..n |-> [s \in Seq(S) |-> s \o seqs[i]]]
  <2>1. h \in [1..n -> [Seq(S) -> Seq(S)]]
    BY <1>1, ConcatProperties
  <2>2. \A i \in 1..n, s \in Seq(S) : h[i][s] = s \o seqs[i]
    OBVIOUS
  <2> HIDE DEF h
  <2>3. <<>> \in Seq(S)
    OBVIOUS
  <2>4. PICK f \in [0..n -> Seq(S)] : Follows(f, n, <<>>, h)
    BY <1>1, <2>1, <2>3, RecursionExists
  <2> DEFINE g == [i \in 1..n |-> f[i]]
  <2>5. ASSUME NEW i \in 1..n
        PROVE  g[i] = IF i = 1 THEN seqs[i] ELSE g[i - 1] \o seqs[i]
    <3>1. i - 1 \in 0..n /\ f[i] = f[i - 1] \o seqs[i]
      <4>1. i - 1 \in 0..n
        BY <1>1
      <4>2. f[i] = h[i][f[i - 1]]
        BY <2>4 DEF Follows
      <4>3. f[i - 1] \in Seq(S)
        BY <4>1
      <4> QED BY <4>1, <4>2, <4>3, <2>2
    <3>2. CASE i = 1
      <4>1. f[i] = <<>> \o seqs[i]
        BY <3>1, <3>2, <2>4 DEF Follows
      <4> QED BY <4>1, <3>2, <1>1, ConcatEmptySeq
    <3>3. CASE i # 1
      <4>1. i - 1 \in 1..n
        BY <1>1, <3>3
      <4> QED BY <4>1, <3>1, <3>3
    <3> QED BY <3>2, <3>3
  <2>6. Unfolds(g)
    <3> HIDE DEF g
    <3>1. g = [i \in 1..n |-> g[i]]
      BY DEF g
    <3> QED BY <2>5, <3>1
  <2> QED BY <2>6
<1>4. Unfolds(flat)
  BY <1>3, Zenon
<1> HIDE DEF flat
<1>5. \A i \in 1..n : flat[i] \in Seq(S)
  <2> DEFINE T == {i \in 0..n : i = 0 \/ flat[i] \in Seq(S)}
  <2>1. 0 \in T
    BY <1>1
  <2>2. ASSUME NEW i \in 1..n, i - 1 \in T PROVE i \in T
    <3>1. flat[i] = IF i = 1 THEN seqs[i] ELSE flat[i - 1] \o seqs[i]
      BY <1>4
    <3>2. CASE i = 1
      BY <1>1, <3>1, <3>2
    <3>3. CASE i # 1
      <4>1. flat[i - 1] \in Seq(S)
        BY <1>1, <2>2, <3>3
      <4>2. seqs[i] \in Seq(S) /\ flat[i] = flat[i - 1] \o seqs[i]
        BY <1>1, <3>1, <3>3
      <4>3. flat[i] \in Seq(S)
        BY <4>1, <4>2, ConcatProperties
      <4> QED BY <1>1, <4>3
    <3> QED BY <3>2, <3>3
  <2>3. \A i \in 1..n : i - 1 \in T => i \in T
    BY <2>2
  <2>4. 0..n \subseteq T
    <3> HIDE DEF T
    <3> QED BY <1>1, <2>1, <2>3, InductionUpTo
  <2> QED BY <1>1, <2>4
<1> DEFINE F == [i \in 0..n |-> IF i = 0 THEN <<>> ELSE flat[i]]
<1>6. F \in [0..n -> Seq(S)] /\ F[0] = <<>>
  <2>1. <<>> \in Seq(S)
    OBVIOUS
  <2> QED BY <1>1, <1>5, <2>1
<1>7. ASSUME NEW i \in 1..n PROVE F[i] = F[i - 1] \o seqs[i]
  <2>1. F[i] = flat[i] /\ seqs[i] \in Seq(S)
    BY <1>1
  <2>2. flat[i] = IF i = 1 THEN seqs[i] ELSE flat[i - 1] \o seqs[i]
    BY <1>4
  <2>3. CASE i = 1
    <3>1. F[i - 1] = <<>>
      BY <1>6, <2>3
    <3> QED BY <2>1, <2>2, <2>3, <3>1, ConcatEmptySeq
  <2>4. CASE i # 1
    <3>1. F[i - 1] = flat[i - 1]
      BY <1>1, <2>4
    <3> QED BY <2>1, <2>2, <2>4, <3>1
  <2> QED BY <2>3, <2>4
<1>8. FlattenSeq(seqs) = F[n]
  BY <1>1, <1>2
<1> HIDE DEF F
<1> QED BY <1>6, <1>7, <1>8 DEF n

(* FlattenSeq keeps the type of the elements.                              *)
LEMMA FlattenType ==
  ASSUME NEW S, NEW seqs \in Seq(Seq(S)), seqs # <<>>
  PROVE  FlattenSeq(seqs) \in Seq(S)
<1>1. Len(seqs) \in 0..Len(seqs)
  BY LenProperties
<1>2. PICK F \in [0..Len(seqs) -> Seq(S)] : FlattenSeq(seqs) = F[Len(seqs)]
  BY FlattenSteps
<1> QED BY <1>1, <1>2

(* \o is associative.                                                      *)
LEMMA Associative ==
  \A S : \A x, y, z \in Seq(S) : (x \o y) \o z = x \o (y \o z)
BY ConcatAssociative

(* FlattenSeq of two sequences of sequences, one behind the other.         *)
LEMMA FlattenBoth ==
  ASSUME NEW S, NEW a \in Seq(Seq(S)), NEW b \in Seq(Seq(S))
  PROVE  FlattenSeq(a \o b) = FlattenSeq(a) \o FlattenSeq(b)
<1> DEFINE ab == a \o b
           m == Len(a)
           n == Len(b)
<1>1. /\ ab \in Seq(Seq(S)) /\ Len(ab) = m + n /\ m \in Nat /\ n \in Nat
      /\ \A i \in 1..m : ab[i] = a[i] /\ a[i] \in Seq(S)
      /\ \A i \in 1..n : ab[m + i] = b[i] /\ b[i] \in Seq(S)
  <2>1. ab \in Seq(Seq(S)) /\ Len(ab) = m + n /\ m \in Nat /\ n \in Nat
    BY ConcatProperties, LenProperties
  <2>2. \A i \in 1..(m + n) : ab[i] = IF i <= m THEN a[i] ELSE b[i - m]
    BY ConcatProperties
  <2>3. (\A i \in 1..m : a[i] \in Seq(S)) /\ (\A i \in 1..n : b[i] \in Seq(S))
    BY ElementOfSeq
  <2> HIDE DEF ab, m, n
  <2>4. ASSUME NEW i \in 1..m
        PROVE  ab[i] = a[i]
    <3>1. i \in 1..(m + n) /\ i <= m
      BY <2>1
    <3> QED BY <2>2, <3>1
  <2>5. ASSUME NEW i \in 1..n
        PROVE  ab[m + i] = b[i]
    <3>1. m + i \in 1..(m + n) /\ ~(m + i <= m) /\ (m + i) - m = i
      BY <2>1
    <3> QED BY <2>2, <3>1
  <2> QED BY <2>1, <2>3, <2>4, <2>5
<1>2. CASE a = <<>>
  <2>1. ab = b /\ FlattenSeq(a) = <<>>
    BY <1>2, ConcatEmptySeq DEF FlattenSeq
  <2>2. FlattenSeq(b) \in Seq(S)
    <3>1. CASE b = <<>>
      BY <3>1 DEF FlattenSeq
    <3>2. CASE b # <<>>
      BY <3>2, FlattenType
    <3> QED BY <3>1, <3>2
  <2>3. <<>> \o FlattenSeq(b) = FlattenSeq(b)
    BY <2>2, ConcatEmptySeq
  <2> QED BY <2>1, <2>3
<1>3. CASE b = <<>>
  <2>1. ab = a /\ FlattenSeq(b) = <<>>
    BY <1>3, ConcatEmptySeq DEF FlattenSeq
  <2>2. FlattenSeq(a) \in Seq(S)
    <3>1. CASE a = <<>>
      BY <3>1 DEF FlattenSeq
    <3>2. CASE a # <<>>
      BY <3>2, FlattenType
    <3> QED BY <3>1, <3>2
  <2>3. FlattenSeq(a) \o <<>> = FlattenSeq(a)
    BY <2>2, ConcatEmptySeq
  <2> QED BY <2>1, <2>3
<1>4. CASE a # <<>> /\ b # <<>>
  <2>1. m # 0 /\ n # 0 /\ ab # <<>>
    <3>1. m # 0 /\ n # 0
      BY <1>4, EmptySeq
    <3>2. Len(ab) # 0
      BY <1>1, <3>1
    <3> QED BY <1>1, <3>1, <3>2, EmptySeq
  <2>2. PICK F \in [0..m -> Seq(S)] :
           /\ FlattenSeq(a) = F[m] /\ F[0] = <<>> /\ \A i \in 1..m : F[i] = F[i - 1] \o a[i]
    BY <1>4, FlattenSteps
  <2>3. PICK G \in [0..n -> Seq(S)] :
           /\ FlattenSeq(b) = G[n] /\ G[0] = <<>> /\ \A i \in 1..n : G[i] = G[i - 1] \o b[i]
    BY <1>4, FlattenSteps
  <2>4. PICK H \in [0..(m + n) -> Seq(S)] :
           /\ FlattenSeq(ab) = H[m + n] /\ H[0] = <<>>
           /\ \A i \in 1..(m + n) : H[i] = H[i - 1] \o ab[i]
    <3> HIDE DEF ab, m, n
    <3>1. \E H \in [0..Len(ab) -> Seq(S)] :
             /\ FlattenSeq(ab) = H[Len(ab)] /\ H[0] = <<>>
             /\ \A i \in 1..Len(ab) : H[i] = H[i - 1] \o ab[i]
      <4>1. ab \in Seq(Seq(S))
        BY <1>1
      <4>2. ab # <<>>
        BY <2>1
      <4> QED BY ONLY <4>1, <4>2, FlattenSteps
    <3> QED BY <1>1, <3>1
  <2> HIDE DEF ab, m, n
  <2> DEFINE T == {i \in 0..m : H[i] = F[i]}
             U == {i \in 0..n : H[m + i] = F[m] \o G[i]}
  <2>5. m \in T
    <3>1. 0 \in T
      BY <1>1, <2>2, <2>4
    <3>2. ASSUME NEW i \in 1..m, i - 1 \in T
          PROVE  i \in T
      <4>1. i \in 1..(m + n) /\ i \in 0..m
        BY <1>1
      <4>2. H[i] = H[i - 1] \o ab[i] /\ ab[i] = a[i] /\ F[i] = F[i - 1] \o a[i]
        BY <1>1, <2>2, <2>4, <4>1
      <4> QED BY <3>2, <4>1, <4>2
    <3>3. m \in 0..m
      BY <1>1
    <3>4. \A i \in 1..m : i - 1 \in T => i \in T
      BY <3>2
    <3> HIDE DEF T
    <3> QED BY <1>1, <3>1, <3>3, <3>4, InductionUpTo
  <2>6. n \in U
    <3>1. F[m] \in Seq(S) /\ 0 \in 0..n /\ m + 0 = m
      BY <1>1
    <3>2. 0 \in U
      <4>1. H[m] = F[m]
        BY <2>5
      <4>2. F[m] \o <<>> = F[m]
        BY <3>1, ConcatEmptySeq
      <4> QED BY <2>3, <3>1, <4>1, <4>2
    <3>3. ASSUME NEW i \in 1..n, i - 1 \in U
          PROVE  i \in U
      <4>1. m + i \in 1..(m + n) /\ (m + i) - 1 = m + (i - 1) /\ i \in 0..n /\ i - 1 \in 0..n
        BY <1>1
      <4>2. H[m + i] = H[m + (i - 1)] \o b[i]
        <5>1. H[m + i] = H[(m + i) - 1] \o ab[m + i]
          BY <2>4, <4>1
        <5> QED BY <1>1, <4>1, <5>1
      <4>3. H[m + (i - 1)] = F[m] \o G[i - 1]
        BY <3>3
      <4>4. G[i - 1] \in Seq(S) /\ b[i] \in Seq(S)
        BY <1>1, <2>3, <4>1
      <4>6. G[i] = G[i - 1] \o b[i]
        BY <2>3
      <4>5. (F[m] \o G[i - 1]) \o b[i] = F[m] \o (G[i - 1] \o b[i])
        <5>1. F[m] \in Seq(S)
          BY <3>1
        <5> HIDE DEF T, U
        <5>2. \A x, y, z \in Seq(S) : (x \o y) \o z = x \o (y \o z)
          BY Associative
        <5> QED BY <4>4, <5>1, <5>2
      <4> QED BY <4>1, <4>2, <4>3, <4>5, <4>6
    <3>4. n \in 0..n
      BY <1>1
    <3>5. \A i \in 1..n : i - 1 \in U => i \in U
      BY <3>3
    <3> HIDE DEF U
    <3> QED BY <1>1, <3>2, <3>4, <3>5, InductionUpTo
  <2>7. H[m + n] = F[m] \o G[n]
    BY <2>6
  <2>8. FlattenSeq(ab) = FlattenSeq(a) \o FlattenSeq(b)
    BY <2>2, <2>3, <2>4, <2>7
  <2> QED BY ONLY <2>8 DEF ab
<1> QED BY <1>2, <1>3, <1>4

(* FlattenSeq of sequences that are all empty.                             *)
LEMMA FlattenNone ==
  ASSUME NEW S, NEW seqs \in Seq(Seq(S)), \A i \in 1..Len(seqs) : seqs[i] = <<>>
  PROVE  FlattenSeq(seqs) = <<>>
<1>1. CASE seqs = <<>>
  BY <1>1 DEF FlattenSeq
<1>2. CASE seqs # <<>>
  <2> DEFINE n == Len(seqs)
  <2>1. PICK F \in [0..n -> Seq(S)] :
           /\ FlattenSeq(seqs) = F[n] /\ F[0] = <<>>
           /\ \A i \in 1..n : F[i] = F[i - 1] \o seqs[i]
    BY <1>2, FlattenSteps
  <2>2. n \in Nat /\ \A i \in 1..n : seqs[i] = <<>>
    OBVIOUS
  <2> HIDE DEF n
  <2> DEFINE T == {i \in 0..n : F[i] = <<>>}
  <2>3. 0 \in T
    BY <2>1, <2>2
  <2>4. \A i \in 1..n : i - 1 \in T => i \in T
    <3>1. ASSUME NEW i \in 1..n, i - 1 \in T
          PROVE  i \in T
      <4>1. i \in 0..n
        BY <2>2
      <4>2. F[i] = F[i - 1] \o seqs[i]
        BY <2>1
      <4>3. seqs[i] = <<>>
        BY <2>2
      <4>4. F[i - 1] = <<>>
        BY <3>1
      <4>5. F[i] = <<>>
        BY ONLY <4>2, <4>3, <4>4
      <4> QED BY <4>1, <4>5
    <3> QED BY <3>1
  <2>5. n \in 0..n
    BY <2>2
  <2>6. n \in T
    <3> HIDE DEF T
    <3> QED BY <2>2, <2>3, <2>4, <2>5, InductionUpTo
  <2> QED BY <2>1, <2>6
<1> QED BY <1>1, <1>2

(* FlattenSeq of sequences of one element each.                            *)
LEMMA FlattenOnes ==
  ASSUME NEW S, NEW seqs \in Seq(Seq(S)), NEW x \in Seq(S), Len(x) = Len(seqs),
         \A i \in 1..Len(seqs) : seqs[i] = <<x[i]>>
  PROVE  FlattenSeq(seqs) = x
<1>1. CASE seqs = <<>>
  <2>1. Len(x) = 0
    BY <1>1
  <2> QED BY <1>1, <2>1, EmptySeq DEF FlattenSeq
<1>2. CASE seqs # <<>>
  <2> DEFINE n == Len(seqs)
  <2>1. PICK F \in [0..n -> Seq(S)] :
           /\ FlattenSeq(seqs) = F[n] /\ F[0] = <<>>
           /\ \A i \in 1..n : F[i] = F[i - 1] \o seqs[i]
    BY <1>2, FlattenSteps
  <2>2. n \in Nat /\ Len(x) = n /\ \A i \in 1..n : seqs[i] = <<x[i]>> /\ x[i] \in S
    BY ElementOfSeq
  <2> HIDE DEF n
  <2> DEFINE T == {i \in 0..n : Len(F[i]) = i /\ \A k \in 1..i : F[i][k] = x[k]}
  <2>3. 0 \in T
    BY <2>1, <2>2
  <2>4. \A i \in 1..n : i - 1 \in T => i \in T
    <3>1. ASSUME NEW i \in 1..n, i - 1 \in T
          PROVE  i \in T
      <4>0. i \in 0..n /\ i - 1 \in 0..n
        BY <2>2
      <4>1. F[i] = F[i - 1] \o <<x[i]>> /\ i \in 0..n /\ i - 1 \in 0..n
        <5>1. F[i] = F[i - 1] \o seqs[i]
          BY <2>1
        <5>2. seqs[i] = <<x[i]>>
          BY <2>2
        <5> QED BY <4>0, <5>1, <5>2
      <4>2. /\ F[i - 1] \in Seq(S) /\ <<x[i]>> \in Seq(S) /\ Len(<<x[i]>>) = 1
            /\ <<x[i]>>[1] = x[i]
        BY <2>2, <4>1
      <4>3. Len(F[i - 1]) = i - 1 /\ \A k \in 1..(i - 1) : F[i - 1][k] = x[k]
        BY <3>1
      <4> DEFINE one == <<x[i]>>
      <4> HIDE DEF one
      <4>4. /\ Len(F[i]) = (i - 1) + 1
            /\ \A k \in 1..((i - 1) + 1) :
                  F[i][k] = IF k <= i - 1 THEN F[i - 1][k] ELSE one[k - (i - 1)]
        BY <4>1, <4>2, <4>3, ConcatProperties DEF one
      <4>5. Len(F[i]) = i
        BY <4>4
      <4>6. ASSUME NEW k \in 1..i
            PROVE  F[i][k] = x[k]
        <5>1. CASE k <= i - 1
          BY <4>3, <4>4, <5>1
        <5>2. CASE ~(k <= i - 1)
          <6>1. k = i /\ k - (i - 1) = 1 /\ k \in 1..((i - 1) + 1)
            BY <5>2
          <6>2. F[i][k] = one[1]
            BY <4>4, <5>2, <6>1
          <6> QED BY <4>2, <6>1, <6>2 DEF one
        <5> QED BY <5>1, <5>2
      <4> QED BY <4>1, <4>5, <4>6
    <3> QED BY <3>1
  <2>5. n \in 0..n
    BY <2>2
  <2>6. n \in T
    <3> HIDE DEF T
    <3> QED BY <2>2, <2>3, <2>4, <2>5, InductionUpTo
  <2>7. F[n] \in Seq(S) /\ Len(F[n]) = n /\ \A k \in 1..n : F[n][k] = x[k]
    BY <2>5, <2>6
  <2>8. F[n] = x
    BY <2>2, <2>7, SeqEqual
  <2> QED BY <2>1, <2>8
<1> QED BY <1>1, <1>2

(* FlattenSeq of a single sequence.                                        *)
LEMMA FlattenSingle ==
  ASSUME NEW S, NEW x \in Seq(S)
  PROVE  FlattenSeq(<<x>>) = x
<1> DEFINE seqs == <<x>>
<1>1. seqs \in Seq(Seq(S)) /\ Len(seqs) = 1 /\ seqs # <<>> /\ seqs[1] = x
  OBVIOUS
<1> HIDE DEF seqs
<1>2. PICK F \in [0..Len(seqs) -> Seq(S)] :
         /\ FlattenSeq(seqs) = F[Len(seqs)] /\ F[0] = <<>>
         /\ \A i \in 1..Len(seqs) : F[i] = F[i - 1] \o seqs[i]
  BY <1>1, FlattenSteps
<1>3. F[1] = F[0] \o seqs[1]
  <2>1. 1 \in 1..Len(seqs) /\ 1 - 1 = 0
    BY <1>1
  <2>2. F[1] = F[1 - 1] \o seqs[1]
    BY <1>2, <2>1
  <2> QED BY <2>1, <2>2
<1>4. <<>> \o x = x
  BY ConcatEmptySeq
<1>5. FlattenSeq(seqs) = x
  BY <1>1, <1>2, <1>3, <1>4
<1> QED BY <1>5 DEF seqs

(* FlattenSeq always returns a sequence.                                   *)
LEMMA FlattenAny ==
  ASSUME NEW S, NEW seqs \in Seq(Seq(S))
  PROVE  FlattenSeq(seqs) \in Seq(S) /\ FlattenSeq(<<>>) = <<>>
<1>1. FlattenSeq(<<>>) = <<>>
  BY DEF FlattenSeq
<1>2. CASE seqs = <<>>
  BY <1>1, <1>2, EmptySeq
<1>3. CASE seqs # <<>>
  BY <1>1, <1>3, FlattenType
<1> QED BY <1>2, <1>3

(* The two halves of a 16-bit checksum are bytes.                          *)
LEMMA TwoBytes == \A c : Is16Bits(c) => c % 256 \in Byte /\ c \div 256 \in Byte
BY DEF Byte, Is16Bits

(* A frame that encode_hdlc_frame writes holds the delimiter once, at its  *)
(* end, whatever the payload and its checksum are: a reader that looks for *)
(* delimiters never ends a frame early.                                    *)
THEOREM OneDelimiterPerFrame ==
  ASSUME NEW p \in Seq(Byte), Is16Bits(Crc(p))
  PROVE  \E body \in Seq(NoDelim) : EncodeHdlcFrame(p) = body \o <<DELIM>>
<1> DEFINE trailer == <<Crc(p) % 256, Crc(p) \div 256>>
           framed == p \o trailer
           escaped == [i \in 1..Len(framed) |-> EscapeByte(framed[i])]
<1>1. trailer \in Seq(Byte) /\ Len(trailer) = 2
  <2>1. Crc(p) % 256 \in Byte /\ Crc(p) \div 256 \in Byte
    BY TwoBytes
  <2> QED BY <2>1
<1>2. EncodeHdlcFrame(p) = FlattenSeq(escaped) \o <<DELIM>>
  BY DEF EncodeHdlcFrame
<1> HIDE DEF trailer
<1>3. framed \in Seq(Byte) /\ Len(framed) \in Nat \ {0}
  <2>1. framed \in Seq(Byte) /\ Len(framed) = Len(p) + Len(trailer)
    BY <1>1, ConcatProperties
  <2>2. Len(p) \in Nat
    BY LenProperties
  <2> HIDE DEF framed
  <2> QED BY <1>1, <2>1, <2>2
<1> HIDE DEF framed
<1>4. escaped \in Seq(Seq(NoDelim)) /\ escaped # <<>>
  <2>1. \A i \in 1..Len(framed) : EscapeByte(framed[i]) \in Seq(NoDelim)
    BY <1>3, ElementOfSeq, EscapeByteType
  <2>2. escaped \in [1..Len(framed) -> Seq(NoDelim)] /\ 1 \in DOMAIN escaped
    BY <1>3, <2>1
  <2> HIDE DEF escaped
  <2>3. escaped \in Seq(Seq(NoDelim))
    BY <1>3, <2>2
  <2> QED BY <2>2, <2>3
<1> HIDE DEF escaped
<1>5. FlattenSeq(escaped) \in Seq(NoDelim)
  BY <1>4, FlattenType
<1>6. WITNESS FlattenSeq(escaped) \in Seq(NoDelim)
<1> QED BY <1>2

(* A frame is a sequence of bytes.                                         *)
LEMMA EncodeType ==
  ASSUME NEW p \in Seq(Byte), Is16Bits(Crc(p))
  PROVE  EncodeHdlcFrame(p) \in Seq(Byte)
<1>1. PICK body \in Seq(NoDelim) : EncodeHdlcFrame(p) = body \o <<DELIM>>
  BY OneDelimiterPerFrame
<1>2. NoDelim \subseteq Byte /\ DELIM \in Byte
  BY DEF NoDelim, Byte, DELIM
<1>3. body \in Seq(Byte) /\ <<DELIM>> \in Seq(Byte)
  BY <1>2, SeqMonotonic
<1> QED BY <1>1, <1>3, ConcatProperties

(* The packet in a frame of bytes is a sequence of bytes.                  *)
LEMMA PayloadType ==
  ASSUME NEW raw \in Seq(Byte), Len(Unescape(raw)) > 2
  PROVE  Payload(raw) \in Seq(Byte)
<1>1. Unescape(raw) \in Seq(Byte)
  BY UnescapeType
<1> QED BY <1>1, LenProperties, ElementOfSeq, SubSeqProperties DEF Payload

(* What check_frame_format leaves of a packet is a sequence of bytes.       *)
LEMMA CheckFrameFormatType ==
  ASSUME NEW p \in Seq(Byte)
  PROVE  CheckFrameFormat(p) \in Seq(Byte)
<1>1. SubSeq(p, 9, Len(p)) \in Seq(Byte)
  BY LenProperties, ElementOfSeq, SubSeqProperties
<1> QED BY <1>1 DEF CheckFrameFormat

-----------------------------------------------------------------------------
(* What is written is read.  The escaping is undone byte by byte: behind a  *)
(* byte that has been escaped, no escape is open.                           *)

\* No escape is open at the end
Closed(raw) == raw = <<>> \/ raw[Len(raw)] # ESC

(* What Unescape makes of one more byte depends on the escape before it.   *)
LEMMA UnescapeAppend ==
  ASSUME NEW raw \in Seq(Byte), NEW b \in Byte
  PROVE  Unescape(Append(raw, b)) =
            Grown(Append(raw, b), Len(raw) + 1, Unescape(raw))
<1> DEFINE n == Len(raw)
           ext == Append(raw, b)
<1>1. /\ ext \in Seq(Byte) /\ Len(ext) = n + 1 /\ n \in Nat
      /\ \A i \in 1..n : ext[i] = raw[i]
  BY AppendProperties, LenProperties
<1> HIDE DEF ext, n
<1>2. PICK f \in [0..n -> Seq(Byte)] :
         /\ Unescape(raw) = f[n] /\ f[0] = <<>>
         /\ \A i \in 1..n : f[i] = Grown(raw, i, f[i - 1])
  BY UnescapeSteps DEF n
<1>3. PICK g \in [0..(n + 1) -> Seq(Byte)] :
         /\ Unescape(ext) = g[n + 1] /\ g[0] = <<>>
         /\ \A i \in 1..(n + 1) : g[i] = Grown(ext, i, g[i - 1])
  <2>1. PICK g \in [0..Len(ext) -> Seq(Byte)] :
         /\ Unescape(ext) = g[Len(ext)] /\ g[0] = <<>>
         /\ \A i \in 1..Len(ext) : g[i] = Grown(ext, i, g[i - 1])
    BY <1>1, UnescapeSteps
  <2> QED BY <1>1, <2>1
<1>4. ASSUME NEW i \in 1..n PROVE Escaped(ext, i) <=> Escaped(raw, i)
  <2>1. \A j \in 1..(i - 1) : ext[j] = raw[j]
    BY <1>1
  <2>2. ASSUME NEW k \in 1..(i - 1)
        PROVE  /\ \A j \in k..(i - 1) : ext[j] = raw[j]
               /\ k # 1 => ext[k - 1] = raw[k - 1]
    <3>1. /\ \A j \in k..(i - 1) : j \in 1..(i - 1)
          /\ k # 1 => k - 1 \in 1..(i - 1)
      BY <1>1
    <3> QED BY <2>1, <3>1
  <2> QED BY <2>2 DEF Escaped
<1>5. n \in {i \in 0..n : g[i] = f[i]}
  <2> DEFINE T == {i \in 0..n : g[i] = f[i]}
  <2>1. 0 \in T
    BY <1>1, <1>2, <1>3
  <2>2. ASSUME NEW i \in 1..n, i - 1 \in T PROVE i \in T
    <3>1. g[i] = Grown(ext, i, f[i - 1]) /\ f[i] = Grown(raw, i, f[i - 1])
      <4>1. i - 1 \in 0..n /\ i \in 1..(n + 1)
        BY <1>1
      <4>2. g[i - 1] = f[i - 1]
        BY <2>2
      <4> QED BY <1>2, <1>3, <4>1, <4>2
    <3>2. ext[i] = raw[i]
      BY <1>1
    <3>3. Grown(ext, i, f[i - 1]) = Grown(raw, i, f[i - 1])
      BY <1>4, <3>2 DEF Grown
    <3> QED BY <1>1, <3>1, <3>3
  <2>3. \A i \in 1..n : i - 1 \in T => i \in T
    BY <2>2
  <2>4. 0..n \subseteq T
    <3> HIDE DEF T
    <3> QED BY <1>1, <2>1, <2>3, InductionUpTo
  <2> QED BY <1>1, <2>4
<1>6. g[n + 1] = Grown(ext, n + 1, g[n])
  <2>1. n + 1 \in 1..(n + 1) /\ (n + 1) - 1 = n
    BY <1>1
  <2> QED BY <1>3, <2>1
<1>7. Unescape(ext) = Grown(ext, n + 1, Unescape(raw))
  BY <1>2, <1>3, <1>5, <1>6
<1> QED BY <1>7 DEF ext, n

(* Behind a sequence with no open escape, an escaped byte is read as the   *)
(* byte it stands for, and leaves no escape open.                          *)
LEMMA UnescapeEscaped ==
  ASSUME NEW raw \in Seq(Byte), Closed(raw), NEW b \in Byte
  PROVE  /\ Unescape(raw \o EscapeByte(b)) = Append(Unescape(raw), b)
         /\ Closed(raw \o EscapeByte(b))
<1> DEFINE n == Len(raw)
           one(c) == Append(raw, c)
<1>1. n \in Nat /\ (n # 0 => raw[n] # ESC)
  BY LenProperties, EmptySeq DEF Closed
<1>2. ASSUME NEW c \in Byte
      PROVE  /\ one(c) \in Seq(Byte) /\ Len(one(c)) = n + 1 /\ one(c)[n + 1] = c
             /\ \A i \in 1..n : one(c)[i] = raw[i]
             /\ one(c) = raw \o <<c>>
  BY <1>2, AppendProperties, AppendIsConcat
<1>3. ESC \in Byte
  BY DEF ESC, Byte
<1> HIDE DEF n, one
<1>4. ASSUME NEW c \in Byte PROVE ~Escaped(one(c), n + 1)
  <2> SUFFICES ASSUME NEW k \in 1..n, \A j \in k..n : one(c)[j] = ESC PROVE FALSE
    <3>1. (n + 1) - 1 = n
      BY <1>1
    <3> QED BY <3>1 DEF Escaped
  <2>1. n \in k..n /\ n \in 1..n /\ n # 0
    BY <1>1
  <2>2. one(c)[n] = ESC
    BY <2>1
  <2>3. one(c)[n] = raw[n]
    BY <1>2, <2>1
  <2> QED BY <1>1, <2>1, <2>2, <2>3
<1>5. CASE b \notin {ESC, DELIM}
  <2>1. EscapeByte(b) = <<b>> /\ b # ESC
    BY <1>5 DEF EscapeByte
  <2>2. Unescape(one(b)) = Grown(one(b), n + 1, Unescape(raw))
    BY UnescapeAppend DEF one, n
  <2>3. Grown(one(b), n + 1, Unescape(raw)) = Append(Unescape(raw), b)
    BY <1>2, <1>4, <2>1 DEF Grown
  <2>4. Closed(one(b))
    BY <1>2, <2>1 DEF Closed
  <2> QED BY <1>2, <2>1, <2>2, <2>3, <2>4
<1>6. CASE b \in {ESC, DELIM}
  <2> DEFINE c == FlipBit5(b)
             two == Append(one(ESC), c)
  <2>1. EscapeByte(b) = <<ESC, c>> /\ c \in Byte /\ c # ESC /\ FlipBit5(c) = b
    <3>1. EscapeByte(b) = <<ESC, c>> /\ (b = 125 \/ b = 126)
      BY <1>6 DEF EscapeByte, ESC, DELIM
    <3>2. (125 \div 32) % 2 = 1 /\ (126 \div 32) % 2 = 1
      OBVIOUS
    <3>3. (93 \div 32) % 2 = 0 /\ (94 \div 32) % 2 = 0
      OBVIOUS
    <3>4. CASE b = 125
      <4>1. c = 93
        BY <3>2, <3>4 DEF FlipBit5
      <4>2. FlipBit5(93) = 125
        BY <3>3 DEF FlipBit5
      <4> HIDE DEF c
      <4> QED BY <3>1, <3>4, <4>1, <4>2 DEF Byte, ESC
    <3>5. CASE b = 126
      <4>1. c = 94
        BY <3>2, <3>5 DEF FlipBit5
      <4>2. FlipBit5(94) = 126
        BY <3>3 DEF FlipBit5
      <4> HIDE DEF c
      <4> QED BY <3>1, <3>5, <4>1, <4>2 DEF Byte, ESC
    <3> QED BY <3>1, <3>4, <3>5
  <2> HIDE DEF c
  <2>2. /\ two \in Seq(Byte) /\ Len(two) = n + 2 /\ two[n + 2] = c /\ two[n + 1] = ESC
        /\ \A i \in 1..n : two[i] = raw[i]
    <3>1. one(ESC) \in Seq(Byte) /\ Len(one(ESC)) = n + 1
      BY <1>2, <1>3
    <3>2. /\ two \in Seq(Byte) /\ Len(two) = (n + 1) + 1 /\ two[(n + 1) + 1] = c
          /\ \A i \in 1..(n + 1) : two[i] = one(ESC)[i]
      BY <2>1, <3>1, AppendProperties
    <3>3. (n + 1) + 1 = n + 2 /\ n + 1 \in 1..(n + 1) /\ \A i \in 1..n : i \in 1..(n + 1)
      BY <1>1
    <3> HIDE DEF two
    <3> QED BY <1>2, <1>3, <3>2, <3>3
  <2>3. two = raw \o <<ESC, c>>
    <3>1. raw \o <<ESC, c>> \in Seq(Byte) /\ <<ESC, c>> \in Seq(Byte)
      <4>1. <<ESC, c>> \in Seq(Byte)
        BY <1>3, <2>1
      <4> QED BY <4>1, ConcatProperties
    <3>2. /\ Len(raw \o <<ESC, c>>) = n + 2
          /\ \A i \in 1..(n + 2) : (raw \o <<ESC, c>>)[i] =
                  IF i <= n THEN raw[i] ELSE <<ESC, c>>[i - n]
      <4>1. Len(<<ESC, c>>) = 2
        OBVIOUS
      <4> QED BY <3>1, <4>1, ConcatProperties DEF n
    <3>3. \A i \in 1..(n + 2) : i \in 1..n \/ i = n + 1 \/ i = n + 2
      BY <1>1
    <3>4. (n + 1) - n = 1 /\ (n + 2) - n = 2 /\ ~(n + 1 <= n) /\ ~(n + 2 <= n)
      BY <1>1
    <3>5. <<ESC, c>>[1] = ESC /\ <<ESC, c>>[2] = c
      OBVIOUS
    <3> HIDE DEF two
    <3>6. ASSUME NEW i \in 1..(n + 2) PROVE two[i] = (raw \o <<ESC, c>>)[i]
      <4>1. CASE i \in 1..n
        BY <1>1, <2>2, <3>2, <4>1
      <4>2. CASE i = n + 1
        BY <1>1, <2>2, <3>2, <3>4, <3>5, <4>2
      <4>3. CASE i = n + 2
        BY <1>1, <2>2, <3>2, <3>4, <3>5, <4>3
      <4> QED BY <3>3, <4>1, <4>2, <4>3
    <3> QED BY <2>2, <3>1, <3>2, <3>6, SeqEqual
  <2>4. Unescape(two) = Grown(two, n + 2, Unescape(one(ESC)))
    <3>1. (n + 1) + 1 = n + 2
      BY <1>1
    <3> QED BY <1>2, <1>3, <2>1, <3>1, UnescapeAppend
  <2>5. Unescape(one(ESC)) = Unescape(raw)
    <3>1. Unescape(one(ESC)) = Grown(one(ESC), n + 1, Unescape(raw))
      BY <1>3, UnescapeAppend DEF one, n
    <3> QED BY <1>2, <1>3, <1>4, <3>1 DEF Grown
  <2> HIDE DEF two
  <2>6. Escaped(two, n + 2)
    <3>1. n + 1 \in 1..((n + 2) - 1) /\ ((n + 2) - (n + 1)) % 2 = 1
      BY <1>1
    <3>2. \A j \in (n + 1)..((n + 2) - 1) : two[j] = ESC
      BY <1>1, <2>2
    <3>3. n + 1 = 1 \/ two[(n + 1) - 1] # ESC
      BY <1>1, <2>2
    <3> QED BY <3>1, <3>2, <3>3 DEF Escaped
  <2>7. Unescape(two) = Append(Unescape(raw), b)
    BY <2>1, <2>2, <2>4, <2>5, <2>6 DEF Grown
  <2>8. Closed(two)
    BY <2>1, <2>2 DEF Closed
  <2> QED BY <2>1, <2>3, <2>7, <2>8
<1> QED BY <1>5, <1>6

(* What stands before the delimiter of a frame is read as the payload and   *)
(* its checksum.                                                           *)
LEMMA EncodedBody ==
  ASSUME NEW p \in Seq(Byte), Is16Bits(Crc(p))
  PROVE  \E body \in Seq(NoDelim) :
            /\ EncodeHdlcFrame(p) = body \o <<DELIM>>
            /\ Unescape(body) = p \o <<Crc(p) % 256, Crc(p) \div 256>>
<1> DEFINE trailer == <<Crc(p) % 256, Crc(p) \div 256>>
           framed == p \o trailer
           escaped == [i \in 1..Len(framed) |-> EscapeByte(framed[i])]
           body == FlattenSeq(escaped)
           n == Len(framed)
<1>1. trailer \in Seq(Byte) /\ Len(trailer) = 2
  <2>1. Crc(p) % 256 \in Byte /\ Crc(p) \div 256 \in Byte
    BY TwoBytes
  <2> QED BY <2>1
<1>2. EncodeHdlcFrame(p) = body \o <<DELIM>>
  BY DEF EncodeHdlcFrame
<1> HIDE DEF trailer
<1>3. framed \in Seq(Byte) /\ n \in Nat \ {0}
  <2>1. framed \in Seq(Byte) /\ Len(framed) = Len(p) + Len(trailer)
    BY <1>1, ConcatProperties
  <2>2. Len(p) \in Nat
    BY LenProperties
  <2> HIDE DEF framed
  <2> QED BY <1>1, <2>1, <2>2
<1> HIDE DEF framed
<1>4. \A i \in 1..n : framed[i] \in Byte /\ EscapeByte(framed[i]) \in Seq(NoDelim)
  BY <1>3, ElementOfSeq, EscapeByteType
<1>5. /\ escaped \in Seq(Seq(NoDelim)) /\ escaped # <<>> /\ Len(escaped) = n
      /\ \A i \in 1..n : escaped[i] = EscapeByte(framed[i])
  <2>1. escaped \in [1..n -> Seq(NoDelim)] /\ 1 \in DOMAIN escaped
    BY <1>3, <1>4
  <2>2. \A i \in 1..n : escaped[i] = EscapeByte(framed[i])
    OBVIOUS
  <2> HIDE DEF escaped
  <2>3. escaped \in Seq(Seq(NoDelim)) /\ Len(escaped) = n
    BY <1>3, <2>1
  <2> QED BY <2>1, <2>2, <2>3
<1> HIDE DEF escaped
<1>6. PICK F \in [0..n -> Seq(NoDelim)] :
         /\ body = F[n] /\ F[0] = <<>>
         /\ \A i \in 1..n : F[i] = F[i - 1] \o escaped[i]
  <2>1. PICK F \in [0..Len(escaped) -> Seq(NoDelim)] :
           /\ FlattenSeq(escaped) = F[Len(escaped)] /\ F[0] = <<>>
           /\ \A i \in 1..Len(escaped) : F[i] = F[i - 1] \o escaped[i]
    BY <1>5, FlattenSteps
  <2> HIDE DEF n
  <2> QED BY <1>5, <2>1
<1> HIDE DEF n
<1>7. n \in {i \in 0..n : Unescape(F[i]) = SubSeq(framed, 1, i) /\ Closed(F[i])}
  <2> DEFINE T == {i \in 0..n : Unescape(F[i]) = SubSeq(framed, 1, i) /\ Closed(F[i])}
  <2>1. 0 \in T
    <3>1. PICK out \in [0..Len(<<>>) -> Seq(Byte)] :
             Unescape(<<>>) = out[Len(<<>>)] /\ out[0] = <<>>
      <4>1. <<>> \in Seq(Byte)
        OBVIOUS
      <4> QED BY <4>1, UnescapeSteps
    <3>2. Len(<<>>) = 0 /\ SubSeq(framed, 1, 0) = <<>>
      BY EmptySeq, SubSeqEmpty
    <3> QED BY <1>3, <1>6, <3>1, <3>2 DEF Closed, n
  <2>2. ASSUME NEW i \in 1..n, i - 1 \in T PROVE i \in T
    <3>1. i - 1 \in 0..n /\ Unescape(F[i - 1]) = SubSeq(framed, 1, i - 1) /\ Closed(F[i - 1])
      BY <2>2
    <3> HIDE DEF T
    <3>2. F[i - 1] \in Seq(Byte)
      <4>1. F[i - 1] \in Seq(NoDelim) /\ NoDelim \subseteq Byte
        BY <3>1 DEF NoDelim
      <4> QED BY <4>1, SeqMonotonic
    <3>3. F[i] = F[i - 1] \o EscapeByte(framed[i])
      BY <1>5, <1>6
    <3>4. Unescape(F[i]) = Append(SubSeq(framed, 1, i - 1), framed[i]) /\ Closed(F[i])
      BY <1>4, <3>1, <3>2, <3>3, UnescapeEscaped
    <3>5. Append(SubSeq(framed, 1, i - 1), framed[i]) = SubSeq(framed, 1, i)
      <4>1. SubSeq(framed, 1, i - 1) \in Seq(Byte)
        <5>1. \A k \in 1..(i - 1) : framed[k] \in Byte
          BY <1>3, <1>4 DEF n
        <5> QED BY <5>1, SubSeqProperties
      <4>2. Append(SubSeq(framed, 1, i - 1), framed[i]) = SubSeq(framed, 1, i - 1) \o <<framed[i]>>
        BY <1>4, <4>1, AppendIsConcat
      <4>3. 1 \in 1..Len(framed) /\ i \in 1..Len(framed)
        BY <1>3 DEF n
      <4> QED BY <1>3, <4>2, <4>3, SubSeqRecursiveSecond
    <3> QED BY <3>4, <3>5 DEF T
  <2>3. \A i \in 1..n : i - 1 \in T => i \in T
    BY <2>2
  <2>4. 0..n \subseteq T
    <3> HIDE DEF T
    <3> QED BY <1>3, <2>1, <2>3, InductionUpTo
  <2> QED BY <1>3, <2>4
<1>8. Unescape(body) = framed
  <2>1. Unescape(body) = SubSeq(framed, 1, n)
    BY <1>6, <1>7
  <2> QED BY <1>3, <2>1, SubSeqFull DEF n
<1>9. body \in Seq(NoDelim)
  BY <1>3, <1>6
<1> HIDE DEF body
<1> QED BY <1>2, <1>8, <1>9 DEF framed, trailer

(* A stretch of a sequence.                                                *)
LEMMA Stretch ==
  ASSUME NEW S, NEW s \in Seq(S), NEW m \in Nat \ {0}, NEW n \in Nat,
         m <= n + 1, n <= Len(s)
  PROVE  /\ SubSeq(s, m, n) \in Seq(S) /\ Len(SubSeq(s, m, n)) = n - m + 1
         /\ \A i \in 1..(n - m + 1) : SubSeq(s, m, n)[i] = s[m + i - 1]
<1>1. Len(s) \in Nat
  BY LenProperties
<1>2. \A i \in m..n : s[i] \in S
  <2>1. \A i \in m..n : i \in 1..Len(s)
    BY <1>1
  <2> QED BY <2>1, ElementOfSeq
<1>3. /\ SubSeq(s, m, n) \in Seq(S)
      /\ Len(SubSeq(s, m, n)) = IF m <= n THEN n - m + 1 ELSE 0
      /\ \A i \in 1..(n - m + 1) : SubSeq(s, m, n)[i] = s[m + i - 1]
  BY <1>2, SubSeqProperties
<1> QED BY <1>3

(* A sequence is what stands before a place of it and what stands behind.  *)
LEMMA CutAt ==
  ASSUME NEW S, NEW s \in Seq(S), NEW t \in 0..Len(s)
  PROVE  /\ SubSeq(s, 1, t) \in Seq(S) /\ SubSeq(s, t + 1, Len(s)) \in Seq(S)
         /\ Len(SubSeq(s, 1, t)) = t /\ Len(SubSeq(s, t + 1, Len(s))) = Len(s) - t
         /\ s = SubSeq(s, 1, t) \o SubSeq(s, t + 1, Len(s))
<1>1. Len(s) \in Nat /\ t \in Nat /\ t <= Len(s)
  BY LenProperties
<1>2. SubSeq(s, 1, t) \in Seq(S) /\ Len(SubSeq(s, 1, t)) = t - 1 + 1
  BY <1>1, Stretch
<1>3. SubSeq(s, t + 1, Len(s)) \in Seq(S) /\ Len(SubSeq(s, t + 1, Len(s))) = Len(s) - (t + 1) + 1
  <2>1. t + 1 \in Nat \ {0} /\ t + 1 <= Len(s) + 1
    BY <1>1
  <2> QED BY <1>1, <2>1, Stretch
<1>4. SubSeq(s, 1, t) \o SubSeq(s, t + 1, Len(s)) = SubSeq(s, 1, Len(s))
  <2>1. 1 \in 1..(Len(s) + 1) /\ t \in (1 - 1)..Len(s) /\ Len(s) \in t..Len(s)
    BY <1>1
  <2> QED BY <2>1, ConcatAdjacentSubSeq
<1>5. SubSeq(s, 1, Len(s)) = s
  BY SubSeqFull
<1>6. t - 1 + 1 = t /\ Len(s) - (t + 1) + 1 = Len(s) - t
  BY <1>1
<1> DEFINE x == SubSeq(s, 1, t)
           y == SubSeq(s, t + 1, Len(s))
<1>7. x \in Seq(S) /\ y \in Seq(S) /\ Len(x) = t /\ Len(y) = Len(s) - t /\ s = x \o y
  <2>1. Len(x) = t /\ Len(y) = Len(s) - t
    BY <1>2, <1>3, <1>6
  <2>2. s = x \o y
    BY <1>4, <1>5, Zenon
  <2>3. x \in Seq(S) /\ y \in Seq(S)
    BY <1>2, <1>3
  <2> HIDE DEF x, y
  <2> QED BY <2>1, <2>2, <2>3
<1> QED BY <1>7, Zenon

(* What is taken from the front of two sequences, if the first has it.     *)
LEMMA TakenFromFront ==
  ASSUME NEW S, NEW a \in Seq(S), NEW b \in Seq(S), NEW t \in 0..Len(a)
  PROVE  /\ SubSeq(a \o b, 1, t) = SubSeq(a, 1, t)
         /\ SubSeq(a \o b, t + 1, Len(a \o b)) = SubSeq(a, t + 1, Len(a)) \o b
<1> DEFINE x == SubSeq(a, 1, t)
           y == SubSeq(a, t + 1, Len(a))
           u == SubSeq(a \o b, 1, t)
           v == SubSeq(a \o b, t + 1, Len(a \o b))
<1>1. /\ x \in Seq(S) /\ y \in Seq(S) /\ Len(x) = t /\ Len(y) = Len(a) - t
      /\ a = x \o y
  BY CutAt, Zenon
<1>2. a \o b \in Seq(S) /\ Len(a \o b) = Len(a) + Len(b) /\ Len(a) \in Nat /\ Len(b) \in Nat
  BY ConcatProperties, LenProperties
<1>3. /\ u \in Seq(S) /\ v \in Seq(S) /\ Len(u) = t /\ Len(v) = Len(a \o b) - t
      /\ a \o b = u \o v
  <2>1. t \in 0..Len(a \o b)
    BY <1>2
  <2> QED BY <1>2, <2>1, CutAt
<1> HIDE DEF x, y, u, v
<1>4. a \o b = x \o (y \o b)
  BY <1>1, Associative
<1>5. y \o b \in Seq(S) /\ Len(y \o b) = Len(y) + Len(b)
  BY <1>1, ConcatProperties
<1>6. u = x
  <2>1. ASSUME NEW i \in 1..t
        PROVE  u[i] = x[i]
    <3>1. (u \o v)[i] = u[i]
      <4>1. i \in 1..(Len(u) + Len(v)) /\ i <= Len(u)
        BY <1>2, <1>3
      <4> QED BY <1>3, <4>1, ConcatProperties
    <3>2. (x \o (y \o b))[i] = x[i]
      <4>1. i \in 1..(Len(x) + Len(y \o b)) /\ i <= Len(x)
        BY <1>1, <1>2, <1>5
      <4> QED BY <1>1, <1>5, <4>1, ConcatProperties
    <3> QED BY <1>3, <1>4, <3>1, <3>2
  <2> QED BY <1>1, <1>3, <2>1, SeqEqual
<1>7. v = y \o b
  <2>1. x \o v = x \o (y \o b)
    BY <1>3, <1>4, <1>6
  <2> QED BY <1>1, <1>3, <1>5, <2>1, ConcatSimplifications
<1> QED BY <1>6, <1>7 DEF x, y, u, v

(* A function on 1..n is a sequence of n elements.                         *)
LEMMA FunctionIsSeq ==
  ASSUME NEW S, NEW n \in Nat, NEW d \in [1..n -> S]
  PROVE  d \in Seq(S) /\ Len(d) = n
OBVIOUS

\* w is a with b behind it
IsConcat(w, S, a, b) ==
    /\ w \in Seq(S) /\ Len(w) = Len(a) + Len(b)
    /\ \A i \in 1..(Len(a) + Len(b)) : w[i] = IF i <= Len(a) THEN a[i] ELSE b[i - Len(a)]

(* What \o returns.                                                        *)
LEMMA ConcatIs ==
  ASSUME NEW S, NEW a \in Seq(S), NEW b \in Seq(S)
  PROVE  IsConcat(a \o b, S, a, b)
BY ConcatProperties DEF IsConcat

(* The two parts of a concatenation.                                       *)
LEMMA PartsOfConcat ==
  ASSUME NEW S, NEW a \in Seq(S), NEW b \in Seq(S)
  PROVE  /\ a \o b \in Seq(S) /\ Len(a \o b) = Len(a) + Len(b)
         /\ Len(a) \in Nat /\ Len(b) \in Nat
         /\ \A i \in 1..Len(a) : (a \o b)[i] = a[i]
         /\ SubSeq(a \o b, Len(a) + 1, Len(a \o b)) = b
<1>1. /\ a \o b \in Seq(S) /\ Len(a \o b) = Len(a) + Len(b)
      /\ Len(a) \in Nat /\ Len(b) \in Nat
  BY ConcatProperties, LenProperties
<1>2. \A i \in 1..(Len(a) + Len(b)) : (a \o b)[i] = IF i <= Len(a) THEN a[i] ELSE b[i - Len(a)]
  BY ConcatProperties
<1>3. \A i \in 1..Len(a) : (a \o b)[i] = a[i]
  <2>1. \A i \in 1..Len(a) : i \in 1..(Len(a) + Len(b)) /\ i <= Len(a)
    BY <1>1
  <2> QED BY <1>2, <2>1
<1>4. SubSeq(a \o b, Len(a) + 1, Len(a \o b)) = b
  <2>1. Len(a) \in 0..Len(a)
    BY <1>1
  <2>2. SubSeq(a \o b, Len(a) + 1, Len(a \o b)) = SubSeq(a, Len(a) + 1, Len(a)) \o b
    BY <2>1, TakenFromFront
  <2>3. SubSeq(a, Len(a) + 1, Len(a)) = <<>>
    BY <1>1, SubSeqEmpty
  <2>4. <<>> \o b = b
    BY ConcatEmptySeq
  <2> QED BY <2>2, <2>3, <2>4, Zenon
<1> QED BY <1>1, <1>3, <1>4, Zenon

(* Two elements of a sequence.                                             *)
LEMMA TwoElements ==
  ASSUME NEW S, NEW w \in Seq(S), NEW i \in Nat \ {0}, NEW j, j = i + 1, j <= Len(w)
  PROVE  SubSeq(w, i, j) = <<w[i], w[j]>>
<1> DEFINE x == SubSeq(w, i, j)
<1>1. j \in Nat /\ i <= j + 1 /\ j - i + 1 = 2
  OBVIOUS
<1>2. x \in Seq(S) /\ Len(x) = 2 /\ \A k \in 1..2 : x[k] = w[i + k - 1]
  <2>1. /\ x \in Seq(S) /\ Len(x) = j - i + 1
        /\ \A k \in 1..(j - i + 1) : x[k] = w[i + k - 1]
    BY <1>1, Stretch
  <2> HIDE DEF x
  <2> QED BY <1>1, <2>1
<1> HIDE DEF x
<1>3. x[1] = w[i] /\ x[2] = w[j]
  <2>1. x[1] = w[i + 1 - 1] /\ x[2] = w[i + 2 - 1]
    BY <1>2
  <2>2. i + 1 - 1 = i /\ i + 2 - 1 = j
    OBVIOUS
  <2> QED BY <2>1, <2>2
<1>4. x = <<x[1], x[2]>>
  BY <1>2
<1>5. x = <<w[i], w[j]>>
  BY <1>3, <1>4
<1> QED BY <1>5 DEF x

\* w is a of four elements, b and c, one behind the other
IsMadeOf(w, S, a, b, c) ==
    /\ w \in Seq(S) /\ Len(w) = 4 + Len(b) + Len(c)
    /\ SubSeq(w, 1, 2) = <<a[1], a[2]>> /\ SubSeq(w, 3, 4) = <<a[3], a[4]>>
    /\ SubSeq(w, 4 + Len(b) + 1, Len(w)) = c

(* A header of four elements, more of a header, and what follows.          *)
LEMMA HeaderAndRest ==
  ASSUME NEW S, NEW a \in Seq(S), Len(a) = 4, NEW b \in Seq(S), NEW c \in Seq(S)
  PROVE  IsMadeOf((a \o b) \o c, S, a, b, c)
<1> DEFINE ab == a \o b
           w == ab \o c
<1>1. /\ ab \in Seq(S) /\ Len(ab) = 4 + Len(b) /\ Len(b) \in Nat
      /\ \A i \in 1..4 : ab[i] = a[i]
  <2>1. /\ ab \in Seq(S) /\ Len(ab) = Len(a) + Len(b) /\ Len(b) \in Nat
        /\ \A i \in 1..Len(a) : ab[i] = a[i]
    BY PartsOfConcat, Zenon
  <2> HIDE DEF ab
  <2> QED BY <2>1
<1> HIDE DEF ab
<1>2. /\ w \in Seq(S) /\ Len(w) = Len(ab) + Len(c) /\ Len(c) \in Nat
      /\ \A i \in 1..Len(ab) : w[i] = ab[i]
      /\ SubSeq(w, Len(ab) + 1, Len(w)) = c
  <2>1. ab \in Seq(S)
    BY <1>1
  <2>2. /\ w \in Seq(S) /\ Len(w) = Len(ab) + Len(c)
        /\ Len(ab) \in Nat /\ Len(c) \in Nat
        /\ \A i \in 1..Len(ab) : w[i] = ab[i]
        /\ SubSeq(w, Len(ab) + 1, Len(w)) = c
    BY <2>1, PartsOfConcat, Zenon
  <2> QED BY <2>2, Zenon
<1> HIDE DEF w
<1>3. \A i \in 1..4 : w[i] = a[i] /\ i <= Len(w)
  <2>1. \A i \in 1..4 : i \in 1..Len(ab) /\ i <= Len(w)
    BY <1>1, <1>2
  <2> QED BY <1>1, <1>2, <2>1
<1>4. SubSeq(w, 1, 2) = <<a[1], a[2]>>
  <2>1. 1 \in 1..4 /\ 2 \in 1..4 /\ 2 = 1 + 1 /\ 1 \in Nat \ {0}
    OBVIOUS
  <2>2. SubSeq(w, 1, 2) = <<w[1], w[2]>>
    BY <1>2, <1>3, <2>1, TwoElements
  <2> QED BY <1>3, <2>1, <2>2
<1>5. SubSeq(w, 3, 4) = <<a[3], a[4]>>
  <2>1. 3 \in 1..4 /\ 4 \in 1..4 /\ 4 = 3 + 1 /\ 3 \in Nat \ {0}
    OBVIOUS
  <2>2. SubSeq(w, 3, 4) = <<w[3], w[4]>>
    BY <1>2, <1>3, <2>1, TwoElements
  <2> QED BY <1>3, <2>1, <2>2
<1>6. w \in Seq(S) /\ Len(w) = 4 + Len(b) + Len(c) /\ SubSeq(w, 4 + Len(b) + 1, Len(w)) = c
  BY <1>1, <1>2
<1>7. IsMadeOf(w, S, a, b, c)
  BY <1>4, <1>5, <1>6 DEF IsMadeOf
<1> QED BY <1>7 DEF w, ab

(* Stretches of what stands behind a place.                                *)
LEMMA TakenBehind ==
  ASSUME NEW S, NEW s \in Seq(S), NEW p \in Nat, NEW t \in Nat, p + t <= Len(s),
         NEW a, a = SubSeq(s, p + 1, Len(s))
  PROVE  /\ SubSeq(a, 1, t) = SubSeq(s, p + 1, p + t)
         /\ SubSeq(a, t + 1, Len(a)) = SubSeq(s, p + t + 1, Len(s))
<1>1. p \in 0..Len(s) /\ Len(s) \in Nat
  BY LenProperties
<1>2. a \in Seq(S) /\ Len(a) = Len(s) - p /\ \A i \in 1..(Len(s) - p) : a[i] = s[p + i]
  <2>1. p + 1 \in Nat \ {0} /\ p + 1 <= Len(s) + 1
    BY <1>1
  <2>2. /\ a \in Seq(S) /\ Len(a) = Len(s) - (p + 1) + 1
        /\ \A i \in 1..(Len(s) - (p + 1) + 1) : a[i] = s[(p + 1) + i - 1]
    BY <1>1, <2>1, Stretch
  <2> QED BY <1>1, <2>2
<1>3. SubSeq(a, 1, t) = SubSeq(s, p + 1, p + t)
  <2>1. /\ SubSeq(a, 1, t) \in Seq(S) /\ Len(SubSeq(a, 1, t)) = t
        /\ \A i \in 1..t : SubSeq(a, 1, t)[i] = a[i]
    <3>1. 1 \in Nat \ {0} /\ 1 <= t + 1 /\ t <= Len(a)
      BY <1>1, <1>2
    <3>2. /\ SubSeq(a, 1, t) \in Seq(S) /\ Len(SubSeq(a, 1, t)) = t - 1 + 1
          /\ \A i \in 1..(t - 1 + 1) : SubSeq(a, 1, t)[i] = a[1 + i - 1]
      BY <1>2, <3>1, Stretch
    <3> QED BY <3>2
  <2>2. /\ SubSeq(s, p + 1, p + t) \in Seq(S) /\ Len(SubSeq(s, p + 1, p + t)) = t
        /\ \A i \in 1..t : SubSeq(s, p + 1, p + t)[i] = s[p + i]
    <3>1. p + 1 \in Nat \ {0} /\ p + t \in Nat /\ p + 1 <= (p + t) + 1
      OBVIOUS
    <3>2. /\ SubSeq(s, p + 1, p + t) \in Seq(S)
          /\ Len(SubSeq(s, p + 1, p + t)) = (p + t) - (p + 1) + 1
          /\ \A i \in 1..((p + t) - (p + 1) + 1) :
                SubSeq(s, p + 1, p + t)[i] = s[(p + 1) + i - 1]
      BY <3>1, Stretch
    <3> QED BY <3>2
  <2>3. \A i \in 1..t : a[i] = s[p + i]
    BY <1>1, <1>2
  <2> QED BY <2>1, <2>2, <2>3, SeqEqual
<1>4. SubSeq(a, t + 1, Len(a)) = SubSeq(s, p + t + 1, Len(s))
  <2>1. /\ SubSeq(a, t + 1, Len(a)) \in Seq(S)
        /\ Len(SubSeq(a, t + 1, Len(a))) = Len(s) - (p + t)
        /\ \A i \in 1..(Len(s) - (p + t)) : SubSeq(a, t + 1, Len(a))[i] = a[t + i]
    <3>1. t + 1 \in Nat \ {0} /\ t + 1 <= Len(a) + 1 /\ Len(a) \in Nat
      BY <1>1, <1>2
    <3>2. /\ SubSeq(a, t + 1, Len(a)) \in Seq(S)
          /\ Len(SubSeq(a, t + 1, Len(a))) = Len(a) - (t + 1) + 1
          /\ \A i \in 1..(Len(a) - (t + 1) + 1) :
                SubSeq(a, t + 1, Len(a))[i] = a[(t + 1) + i - 1]
      BY <1>2, <3>1, Stretch
    <3> QED BY <1>1, <1>2, <3>2
  <2>2. /\ SubSeq(s, p + t + 1, Len(s)) \in Seq(S)
        /\ Len(SubSeq(s, p + t + 1, Len(s))) = Len(s) - (p + t)
        /\ \A i \in 1..(Len(s) - (p + t)) : SubSeq(s, p + t + 1, Len(s))[i] = s[p + t + i]
    <3>1. p + t + 1 \in Nat \ {0} /\ p + t + 1 <= Len(s) + 1
      BY <1>1
    <3>2. /\ SubSeq(s, p + t + 1, Len(s)) \in Seq(S)
          /\ Len(SubSeq(s, p + t + 1, Len(s))) = Len(s) - (p + t + 1) + 1
          /\ \A i \in 1..(Len(s) - (p + t + 1) + 1) :
                SubSeq(s, p + t + 1, Len(s))[i] = s[(p + t + 1) + i - 1]
      BY <1>1, <3>1, Stretch
    <3> QED BY <1>1, <3>2
  <2>3. \A i \in 1..(Len(s) - (p + t)) : a[t + i] = s[p + t + i]
    BY <1>1, <1>2
  <2> DEFINE x == SubSeq(a, t + 1, Len(a))
             y == SubSeq(s, p + t + 1, Len(s))
             n == Len(s) - (p + t)
  <2>4. \A i \in 1..n : x[i] = y[i]
    BY <2>1, <2>2, <2>3
  <2>5. x \in Seq(S) /\ y \in Seq(S) /\ Len(x) = n /\ Len(y) = n
    BY <2>1, <2>2
  <2> HIDE DEF x, y, n
  <2>6. x = y
    BY <2>4, <2>5, SeqEqual
  <2> QED BY <2>6 DEF x, y
<1> QED BY <1>3, <1>4

\* A function applied to every element of a sequence
Mapped(g, R) == [i \in 1..Len(R) |-> g[R[i]]]

\* m is what the function is applied to R to
IsMapped(m, V, g, R) ==
    m \in Seq(V) /\ Len(m) = Len(R) /\ \A i \in 1..Len(R) : m[i] = g[R[i]]

(* It gives a sequence.                                                    *)
LEMMA MappedType ==
  ASSUME NEW T, NEW V, NEW g \in [T -> V], NEW R \in Seq(T)
  PROVE  IsMapped(Mapped(g, R), V, g, R)
<1> DEFINE m == Mapped(g, R)
           n == Len(R)
<1>1. n \in Nat /\ \A i \in 1..n : R[i] \in T
  BY ElementOfSeq, LenProperties
<1>2. m = [i \in 1..n |-> g[R[i]]]
  BY DEF Mapped
<1> HIDE DEF m, n
<1>3. m \in [1..n -> V] /\ \A i \in 1..n : m[i] = g[R[i]]
  BY <1>1, <1>2
<1>4. m \in Seq(V) /\ Len(m) = n
  BY <1>1, <1>3, FunctionIsSeq
<1> QED BY <1>3, <1>4 DEF m, n, IsMapped

\* R with r behind it is mapped to what R is, with what r is behind it
MapsAppend(g, R, r) == Mapped(g, Append(R, r)) = Mapped(g, R) \o <<g[r]>>

(* One more element.                                                       *)
LEMMA MappedAppend ==
  ASSUME NEW T, NEW V, NEW g \in [T -> V], NEW R \in Seq(T), NEW r \in T
  PROVE  MapsAppend(g, R, r)
<1> DEFINE A == Append(R, r)
           x == Mapped(g, A)
           y == Mapped(g, R)
           z == <<g[r]>>
           n == Len(R)
<1>1. A \in Seq(T) /\ Len(A) = n + 1 /\ (\A i \in 1..n : A[i] = R[i]) /\ A[n + 1] = r /\ n \in Nat
  BY AppendProperties, LenProperties
<1> HIDE DEF A, n
<1>2. x \in Seq(V) /\ Len(x) = n + 1 /\ \A i \in 1..(n + 1) : x[i] = g[A[i]]
  <2>1. IsMapped(x, V, g, A)
    BY <1>1, MappedType
  <2> QED BY <1>1, <2>1 DEF IsMapped
<1>3. y \in Seq(V) /\ Len(y) = n /\ \A i \in 1..n : y[i] = g[R[i]]
  <2>1. IsMapped(y, V, g, R)
    BY MappedType
  <2> QED BY <2>1 DEF IsMapped, n
<1>4. z \in Seq(V) /\ Len(z) = 1 /\ z[1] = g[r]
  OBVIOUS
<1> HIDE DEF x, y, z
<1>5. y \o z \in Seq(V) /\ Len(y \o z) = n + 1
      /\ \A i \in 1..(n + 1) : (y \o z)[i] = IF i <= n THEN y[i] ELSE z[i - n]
  <2>1. IsConcat(y \o z, V, y, z)
    BY <1>3, <1>4, ConcatIs
  <2> QED BY <1>3, <1>4, <2>1 DEF IsConcat
<1>6. ASSUME NEW i \in 1..(n + 1)
      PROVE  x[i] = (y \o z)[i]
  <2>1. CASE i <= n
    <3>1. i \in 1..n
      BY <1>1, <2>1
    <3>2. x[i] = g[R[i]]
      BY <1>1, <1>2, <3>1
    <3>3. (y \o z)[i] = y[i] /\ y[i] = g[R[i]]
      BY <1>3, <1>5, <2>1, <3>1
    <3> QED BY <3>2, <3>3
  <2>2. CASE ~(i <= n)
    <3>1. i = n + 1 /\ i - n = 1
      BY <1>1, <2>2
    <3> QED BY <1>1, <1>2, <1>4, <1>5, <2>2, <3>1
  <2> QED BY <2>1, <2>2
<1>7. x = y \o z
  BY <1>2, <1>5, <1>6, SeqEqual
<1> QED BY <1>7 DEF x, y, z, A, MapsAppend

(* One element less.                                                       *)
LEMMA MappedTail ==
  ASSUME NEW T, NEW V, NEW g \in [T -> V], NEW R \in Seq(T), R # <<>>
  PROVE  /\ R[1] \in T /\ Tail(R) \in Seq(T)
         /\ Mapped(g, R) = <<g[R[1]]>> \o Mapped(g, Tail(R))
<1> DEFINE A == Tail(R)
           x == Mapped(g, R)
           y == Mapped(g, A)
           z == <<g[R[1]]>>
           n == Len(R)
<1>1. /\ A \in Seq(T) /\ Len(A) = n - 1 /\ n \in Nat \ {0}
      /\ \A i \in 1..(n - 1) : A[i] = R[i + 1]
  <2>1. n \in Nat \ {0}
    BY EmptySeq
  <2>2. A \in Seq(T) /\ Len(A) = n - 1 /\ \A i \in 1..Len(A) : A[i] = R[i + 1]
    BY HeadTailProperties
  <2> HIDE DEF A, n
  <2> QED BY <2>1, <2>2
<1>2. R[1] \in T
  <2>1. 1 \in 1..Len(R)
    BY <1>1
  <2> QED BY <2>1, ElementOfSeq
<1> HIDE DEF A
<1>3. x \in Seq(V) /\ Len(x) = n /\ \A i \in 1..n : x[i] = g[R[i]]
  <2>1. IsMapped(x, V, g, R)
    BY MappedType
  <2> QED BY <2>1 DEF IsMapped
<1> HIDE DEF n
<1>4. y \in Seq(V) /\ Len(y) = n - 1 /\ \A i \in 1..(n - 1) : y[i] = g[A[i]]
  <2>1. IsMapped(y, V, g, A)
    BY <1>1, MappedType
  <2> QED BY <1>1, <2>1 DEF IsMapped
<1>5. z \in Seq(V) /\ Len(z) = 1 /\ z[1] = g[R[1]]
  BY <1>2
<1> HIDE DEF x, y, z
<1>6. z \o y \in Seq(V) /\ Len(z \o y) = n
      /\ \A i \in 1..n : (z \o y)[i] = IF i <= 1 THEN z[i] ELSE y[i - 1]
  <2>1. z \o y \in Seq(V) /\ Len(z \o y) = 1 + (n - 1)
      /\ \A i \in 1..(1 + (n - 1)) : (z \o y)[i] = IF i <= 1 THEN z[i] ELSE y[i - 1]
    <3>1. IsConcat(z \o y, V, z, y)
      BY <1>4, <1>5, ConcatIs
    <3> QED BY <1>4, <1>5, <3>1 DEF IsConcat
  <2> QED BY <1>1, <2>1
<1>7. ASSUME NEW i \in 1..n
      PROVE  x[i] = (z \o y)[i]
  <2>1. CASE i <= 1
    <3>1. i = 1
      BY <1>1, <2>1
    <3> QED BY <1>3, <1>5, <1>6, <2>1, <3>1
  <2>2. CASE ~(i <= 1)
    <3>1. i - 1 \in 1..(n - 1) /\ (i - 1) + 1 = i
      BY <1>1, <2>2
    <3>2. A[i - 1] = R[i]
      BY <1>1, <3>1
    <3> QED BY <1>3, <1>4, <1>6, <2>2, <3>1, <3>2
  <2> QED BY <2>1, <2>2
<1>8. x = z \o y
  BY <1>3, <1>6, <1>7, SeqEqual
<1> QED BY <1>1, <1>2, <1>8 DEF x, y, z, A

(* Behind an intact frame the bytes of any other may follow: get_next_frame *)
(* takes exactly that frame, its CRC is correct, and its packet is the      *)
(* payload that encode_hdlc_frame was given.                                *)
THEOREM EncodedFrameDecodes ==
  ASSUME NEW p \in Seq(Byte), p # <<>>, Is16Bits(Crc(p)),
         NEW rest \in Seq(Byte), NEW buf, buf = EncodeHdlcFrame(p) \o rest
  PROVE  /\ HasFrame(buf) /\ AfterFrame(buf) = rest
         /\ CrcCorrect(RawFrame(buf)) /\ Payload(RawFrame(buf)) = p
         /\ FrameEnd(buf) = Len(EncodeHdlcFrame(p))
<1>1. PICK body \in Seq(NoDelim) :
         /\ EncodeHdlcFrame(p) = body \o <<DELIM>>
         /\ Unescape(body) = p \o <<Crc(p) % 256, Crc(p) \div 256>>
  BY EncodedBody
<1> DEFINE m == Len(body)
           frame == EncodeHdlcFrame(p)
<1>2. body \in Seq(Byte) /\ m \in Nat /\ \A i \in 1..m : body[i] # DELIM
  <2>1. NoDelim \subseteq Byte /\ \A i \in 1..m : body[i] \in NoDelim
    BY ElementOfSeq DEF NoDelim
  <2> QED BY <2>1, SeqMonotonic, LenProperties DEF NoDelim
<1>3. /\ frame \in Seq(Byte) /\ Len(frame) = m + 1 /\ frame[m + 1] = DELIM
      /\ \A i \in 1..m : frame[i] = body[i]
  <2>1. DELIM \in Byte /\ frame = Append(body, DELIM)
    BY <1>1, <1>2, AppendIsConcat DEF DELIM, Byte
  <2> QED BY <1>2, <2>1, AppendProperties
<1> HIDE DEF frame, m
<1>4. /\ buf \in Seq(Byte) /\ Len(buf) = (m + 1) + Len(rest) /\ Len(rest) \in Nat
      /\ \A i \in 1..((m + 1) + Len(rest)) :
            buf[i] = IF i <= m + 1 THEN frame[i] ELSE rest[i - (m + 1)]
  <2>1. buf = frame \o rest
    BY DEF frame
  <2>2. Len(rest) \in Nat
    BY LenProperties
  <2>3. /\ buf \in Seq(Byte) /\ Len(buf) = Len(frame) + Len(rest)
        /\ \A i \in 1..(Len(frame) + Len(rest)) :
              buf[i] = IF i <= Len(frame) THEN frame[i] ELSE rest[i - Len(frame)]
    <3>1. frame \in Seq(Byte)
      BY <1>3
    <3> QED BY <2>1, <3>1, ConcatProperties
  <2> QED BY <1>3, <2>2, <2>3
<1>5. buf[m + 1] = DELIM /\ m + 1 \in 1..Len(buf) /\ \A i \in 1..m : buf[i] = body[i]
  <2>1. m + 1 \in 1..((m + 1) + Len(rest)) /\ m + 1 <= m + 1
    BY <1>2, <1>4
  <2>2. \A i \in 1..m : i \in 1..((m + 1) + Len(rest)) /\ i <= m + 1
    BY <1>2, <1>4
  <2> QED BY <1>3, <1>4, <2>1, <2>2
<1>6. HasFrame(buf)
  <2>1. DOMAIN buf = 1..Len(buf)
    BY <1>4, LenProperties
  <2> QED BY <1>5, <2>1 DEF HasFrame
<1>7. FrameEnd(buf) = m + 1
  <2>1. /\ FrameEnd(buf) \in 1..Len(buf) /\ buf[FrameEnd(buf)] = DELIM
        /\ \A j \in 1..(FrameEnd(buf) - 1) : buf[j] # DELIM
    BY <1>4, <1>6, FrameEndIsFirst
  <2>2. FrameEnd(buf) \notin 1..m
    BY <1>2, <1>5, <2>1
  <2>3. ~ (m + 1 \in 1..(FrameEnd(buf) - 1))
    BY <1>5, <2>1
  <2> QED BY <1>2, <1>4, <2>1, <2>2, <2>3
<1>8. RawFrame(buf) = body
  <2>1. RawFrame(buf) = SubSeq(buf, 1, m)
    <3>1. (m + 1) - 1 = m
      BY <1>2
    <3> QED BY <1>7, <3>1 DEF RawFrame
  <2>2. \A i \in 1..m : buf[i] \in Byte
    BY <1>2, <1>5, ElementOfSeq DEF m
  <2>3. /\ SubSeq(buf, 1, m) \in Seq(Byte) /\ Len(SubSeq(buf, 1, m)) = m
        /\ \A i \in 1..m : SubSeq(buf, 1, m)[i] = buf[i]
    <3>1. m - 1 + 1 = m /\ 1 <= m + 1 /\ m <= Len(buf) /\ \A i \in 1..m : 1 + i - 1 = i
      BY <1>2, <1>4
    <3> QED BY <1>2, <1>4, <3>1, Stretch
  <2> QED BY <1>2, <1>5, <2>1, <2>3, SeqEqual DEF m
<1>9. AfterFrame(buf) = rest
  <2> DEFINE from == (m + 1) + 1
             end == Len(buf)
             t == SubSeq(buf, from, end)
  <2>1. /\ t \in Seq(Byte) /\ Len(t) = Len(rest)
        /\ \A i \in 1..Len(rest) : t[i] = buf[(m + 1) + i]
    <3>1. /\ end - from + 1 = Len(rest) /\ from <= end + 1 /\ end <= Len(buf)
          /\ end \in Nat /\ from \in Nat \ {0}
          /\ \A i \in 1..Len(rest) : from + i - 1 = (m + 1) + i
      BY <1>2, <1>4
    <3>2. buf \in Seq(Byte)
      BY <1>4
    <3> HIDE DEF from, end
    <3>3. from \in Nat \ {0} /\ end \in Nat /\ from <= end + 1 /\ end <= Len(buf)
      BY <3>1
    <3>4. /\ SubSeq(buf, from, end) \in Seq(Byte)
          /\ Len(SubSeq(buf, from, end)) = end - from + 1
          /\ \A i \in 1..(end - from + 1) : SubSeq(buf, from, end)[i] = buf[from + i - 1]
      BY ONLY <3>2, <3>3, Stretch, SMTT(30)
    <3> QED BY <3>1, <3>4
  <2>2. ASSUME NEW i \in 1..Len(rest) PROVE t[i] = rest[i]
    <3>1. /\ (m + 1) + i \in 1..((m + 1) + Len(rest)) /\ ~((m + 1) + i <= m + 1)
          /\ ((m + 1) + i) - (m + 1) = i
      BY <1>2, <1>4
    <3> QED BY <1>4, <2>1, <3>1
  <2>3. AfterFrame(buf) = t
    BY <1>7 DEF AfterFrame
  <2> HIDE DEF t
  <2>4. t = rest
    BY <2>1, <2>2, SeqEqual
  <2> QED BY <2>3, <2>4
<1>10. CrcCorrect(body) /\ Payload(body) = p
  <2> DEFINE c == Crc(p)
             lo == c % 256
             hi == c \div 256
             f == p \o <<lo, hi>>
             n == Len(p)
  <2>1. Unescape(body) = f
    BY <1>1
  <2>2. c \in Nat /\ lo + 256 * hi = c /\ lo \in Byte /\ hi \in Byte
    <3>1. lo \in Byte /\ hi \in Byte
      BY TwoBytes
    <3> QED BY <3>1 DEF Is16Bits
  <2> HIDE DEF c, lo, hi
  <2>3. n \in Nat /\ n # 0 /\ <<lo, hi>> \in Seq(Byte) /\ Len(<<lo, hi>>) = 2
        /\ <<lo, hi>>[1] = lo /\ <<lo, hi>>[2] = hi
    BY <2>2, EmptySeq, LenProperties
  <2>4. /\ f \in Seq(Byte) /\ Len(f) = n + 2
        /\ \A i \in 1..(n + 2) : f[i] = IF i <= n THEN p[i] ELSE <<lo, hi>>[i - n]
    BY <2>3, ConcatProperties
  <2>5. f[n + 1] = lo /\ f[n + 2] = hi
    <3>1. /\ n + 1 \in 1..(n + 2) /\ ~(n + 1 <= n) /\ (n + 1) - n = 1
          /\ n + 2 \in 1..(n + 2) /\ ~(n + 2 <= n) /\ (n + 2) - n = 2
      BY <2>3
    <3> QED BY <2>3, <2>4, <3>1
  <2>6. SubSeq(f, 1, n) = p
    <3>1. /\ \A i \in 1..n : i \in 1..(n + 2) /\ i <= n
          /\ n - 1 + 1 = n /\ (1 <= n) /\ \A i \in 1..n : 1 + i - 1 = i
      BY <2>3
    <3>2. \A i \in 1..n : f[i] = p[i] /\ p[i] \in Byte
      BY <2>4, <3>1, ElementOfSeq
    <3> HIDE DEF f
    <3>3. \A i \in 1..n : f[i] \in Byte
      BY <3>2
    <3>4. /\ SubSeq(f, 1, n) \in Seq(Byte) /\ Len(SubSeq(f, 1, n)) = n
          /\ \A i \in 1..n : SubSeq(f, 1, n)[i] = f[i]
      BY <2>3, <3>1, <3>3, SubSeqProperties
    <3> QED BY <3>2, <3>4, SeqEqual
  <2> HIDE DEF f, n
  <2>7. Len(f) - 1 = n + 1 /\ Len(f) - 2 = n /\ Len(f) > 2
    BY <2>3, <2>4
  <2>8. Payload(body) = p
    BY <2>1, <2>6, <2>7 DEF Payload
  <2>9. CrcCorrect(body)
    BY <2>1, <2>2, <2>4, <2>5, <2>6, <2>7 DEF CrcCorrect, c
  <2> QED BY <2>8, <2>9
<1> QED BY <1>3, <1>6, <1>7, <1>8, <1>9, <1>10 DEF frame

-----------------------------------------------------------------------------
(* Parts of a sequence, or of a function on numbers *)

\* s holds the items of all behind number from, up to number to
IsPart(s, all, from, to) ==
    Len(s) = to - from /\ \A k \in 1..(to - from) : s[k] = all[from + k]

(* A part grows by the next item, or loses its first one.                  *)
LEMMA PartGrows ==
  ASSUME NEW S, NEW s \in Seq(S), NEW all, NEW from \in Nat, NEW to \in Nat, from <= to,
         IsPart(s, all, from, to), NEW c \in S, c = all[to + 1]
  PROVE  IsPart(Append(s, c), all, from, to + 1)
<1>1. /\ Len(Append(s, c)) = Len(s) + 1 /\ Append(s, c)[Len(s) + 1] = c
      /\ \A k \in 1..Len(s) : Append(s, c)[k] = s[k]
  BY AppendProperties
<1>2. Len(s) = to - from
  BY DEF IsPart
<1>3. ASSUME NEW k \in 1..((to + 1) - from)
      PROVE  Append(s, c)[k] = all[from + k]
  <2>1. CASE k = Len(s) + 1
    <3>1. from + k = to + 1
      BY <1>2, <2>1
    <3> QED BY <1>1, <2>1, <3>1
  <2>2. CASE k # Len(s) + 1
    <3>1. k \in 1..(to - from)
      BY <1>2, <2>2
    <3> QED BY <1>1, <1>2, <3>1 DEF IsPart
  <2> QED BY <2>1, <2>2
<1> QED BY <1>1, <1>2, <1>3 DEF IsPart

(* The first item of a part.                                             *)
LEMMA PartShrinks ==
  ASSUME NEW S, NEW s \in Seq(S), s # <<>>, NEW all, NEW from \in Nat, NEW to \in Nat,
         from <= to, IsPart(s, all, from, to)
  PROVE  /\ from < to /\ Head(s) = all[from + 1] /\ IsPart(Tail(s), all, from + 1, to)
<1>1. /\ Head(s) = s[1] /\ Tail(s) \in Seq(S) /\ Len(Tail(s)) = Len(s) - 1
      /\ \A k \in 1..Len(Tail(s)) : Tail(s)[k] = s[k + 1]
  BY HeadTailProperties
<1>2. Len(s) = to - from /\ Len(s) \in Nat /\ Len(s) # 0
  BY LenProperties, EmptySeq DEF IsPart
<1>3. from < to /\ s[1] = all[from + 1]
  BY <1>2 DEF IsPart
<1>4. ASSUME NEW k \in 1..(to - (from + 1))
      PROVE  Tail(s)[k] = all[(from + 1) + k]
  <2>1. k \in 1..Len(Tail(s)) /\ k + 1 \in 1..(to - from) /\ from + (k + 1) = (from + 1) + k
    BY <1>1, <1>2
  <2> QED BY <1>1, <2>1 DEF IsPart
<1> QED BY <1>1, <1>2, <1>3, <1>4 DEF IsPart

(* Some items go from the front of one part to the end of the one before.  *)
LEMMA PartMoves ==
  ASSUME NEW S, NEW s \in Seq(S), NEW t \in Seq(S), NEW all,
         NEW x \in Nat, NEW y \in Nat, NEW z \in Nat, x <= y, y <= z,
         IsPart(s, all, x, y), IsPart(t, all, y, z), NEW n \in 0..Len(t)
  PROVE  /\ y + n <= z
         /\ s \o SubSeq(t, 1, n) \in Seq(S) /\ SubSeq(t, n + 1, Len(t)) \in Seq(S)
         /\ IsPart(s \o SubSeq(t, 1, n), all, x, y + n)
         /\ IsPart(SubSeq(t, n + 1, Len(t)), all, y + n, z)
<1> DEFINE a == SubSeq(t, 1, n)
           b == SubSeq(t, n + 1, Len(t))
<1>1. /\ Len(s) = y - x /\ Len(t) = z - y /\ n \in Nat /\ n <= z - y /\ Len(t) \in Nat
      /\ \A k \in 1..(y - x) : s[k] = all[x + k]
      /\ \A k \in 1..(z - y) : t[k] = all[y + k]
  BY DEF IsPart
<1>2. \A i \in 1..Len(t) : t[i] \in S
  BY ElementOfSeq
<1>3. a \in Seq(S) /\ Len(a) = n /\ \A i \in 1..n : a[i] = t[i]
  <2>1. \A i \in 1..n : t[i] \in S
    BY <1>1, <1>2
  <2>2. /\ a \in Seq(S) /\ Len(a) = IF 1 <= n THEN n - 1 + 1 ELSE 0
        /\ \A i \in 1..(n - 1 + 1) : a[i] = t[1 + i - 1]
    BY <1>1, <2>1, SubSeqProperties
  <2> HIDE DEF a
  <2> QED BY <1>1, <2>2
<1>4. b \in Seq(S) /\ Len(b) = Len(t) - n /\ \A i \in 1..(Len(t) - n) : b[i] = t[n + i]
  <2>1. \A i \in (n + 1)..Len(t) : t[i] \in S
    BY <1>1, <1>2
  <2>2. /\ b \in Seq(S) /\ Len(b) = IF n + 1 <= Len(t) THEN Len(t) - (n + 1) + 1 ELSE 0
        /\ \A i \in 1..(Len(t) - (n + 1) + 1) : b[i] = t[(n + 1) + i - 1]
    BY <1>1, <2>1, SubSeqProperties
  <2> HIDE DEF a, b
  <2>3. /\ Len(t) - (n + 1) + 1 = Len(t) - n
        /\ IF n + 1 <= Len(t) THEN Len(t) - n = Len(t) - n ELSE Len(t) - n = 0
    BY <1>1
  <2>4. Len(b) = Len(t) - n
    BY <2>2, <2>3
  <2>5. ASSUME NEW i \in 1..(Len(t) - n) PROVE b[i] = t[n + i]
    <3>1. (n + 1) + i - 1 = n + i /\ i \in 1..(Len(t) - (n + 1) + 1)
      BY <1>1
    <3> QED BY <2>2, <3>1
  <2> QED BY <2>2, <2>4, <2>5
<1> HIDE DEF a, b
<1>5. /\ s \o a \in Seq(S) /\ Len(s \o a) = Len(s) + n
      /\ \A i \in 1..(Len(s) + n) : (s \o a)[i] = IF i <= Len(s) THEN s[i] ELSE a[i - Len(s)]
  BY <1>3, ConcatProperties
<1>6. ASSUME NEW k \in 1..((y + n) - x) PROVE (s \o a)[k] = all[x + k]
  <2>1. CASE k <= Len(s)
    <3>1. k \in 1..(y - x) /\ k \in 1..(Len(s) + n)
      BY <1>1, <2>1
    <3> QED BY <1>1, <1>5, <2>1, <3>1
  <2>2. CASE ~(k <= Len(s))
    <3>1. k \in 1..(Len(s) + n) /\ k - Len(s) \in 1..n /\ k - Len(s) \in 1..(z - y)
          /\ y + (k - Len(s)) = x + k
      BY <1>1, <2>2
    <3>2. (s \o a)[k] = a[k - Len(s)]
      BY <1>5, <2>2, <3>1
    <3>3. a[k - Len(s)] = t[k - Len(s)] /\ t[k - Len(s)] = all[y + (k - Len(s))]
      BY <1>1, <1>3, <3>1
    <3> QED BY <3>1, <3>2, <3>3
  <2> QED BY <2>1, <2>2
<1>7. ASSUME NEW k \in 1..(z - (y + n)) PROVE b[k] = all[(y + n) + k]
  <2>1. k \in 1..(Len(t) - n) /\ n + k \in 1..(z - y) /\ y + (n + k) = (y + n) + k
    BY <1>1
  <2> QED BY <1>1, <1>4, <2>1
<1>8. IsPart(s \o a, all, x, y + n) /\ IsPart(b, all, y + n, z)
  BY <1>1, <1>4, <1>5, <1>6, <1>7 DEF IsPart
<1> QED BY <1>1, <1>4, <1>5, <1>8 DEF a, b

(* A part stays one when what it is a part of grows at its end.            *)
LEMMA PartOfLonger ==
  ASSUME NEW S, NEW all \in Seq(S), NEW more \in Seq(S), NEW s,
         NEW from \in Nat, NEW to \in Nat, from <= to, to <= Len(all),
         IsPart(s, all, from, to)
  PROVE  IsPart(s, all \o more, from, to)
<1>1. \A i \in 1..Len(all) : (all \o more)[i] = all[i]
  BY ConcatProperties
<1>2. ASSUME NEW k \in 1..(to - from) PROVE s[k] = (all \o more)[from + k]
  <2>1. from + k \in 1..Len(all)
    OBVIOUS
  <2> QED BY <1>1, <2>1 DEF IsPart
<1> QED BY <1>2 DEF IsPart

(* What was added is a part, too.                                          *)
LEMMA PartAdded ==
  ASSUME NEW S, NEW all \in Seq(S), NEW more \in Seq(S)
  PROVE  IsPart(more, all \o more, Len(all), Len(all \o more))
<1>1. /\ Len(all \o more) = Len(all) + Len(more) /\ Len(all) \in Nat /\ Len(more) \in Nat
      /\ \A i \in 1..(Len(all) + Len(more)) :
            (all \o more)[i] = IF i <= Len(all) THEN all[i] ELSE more[i - Len(all)]
  BY ConcatProperties
<1>2. ASSUME NEW k \in 1..Len(more) PROVE more[k] = (all \o more)[Len(all) + k]
  <2>1. Len(all) + k \in 1..(Len(all) + Len(more)) /\ ~(Len(all) + k <= Len(all))
        /\ (Len(all) + k) - Len(all) = k
    BY <1>1
  <2> QED BY <1>1, <2>1
<1> QED BY <1>1, <1>2 DEF IsPart

-----------------------------------------------------------------------------
(* A buffer that is a stretch of a stream *)

\* buf holds the bytes of the stream behind byte from, up to byte to, and
\* begins where a frame does
Holds(buf, stream, from, to) ==
    /\ from \in Nat /\ to \in Nat /\ from <= to /\ to <= Len(stream)
    /\ buf = SubSeq(stream, from + 1, to)
    /\ from = 0 \/ stream[from] = DELIM

(* What such a buffer holds, byte by byte.                                 *)
LEMMA HoldsBytes ==
  ASSUME NEW stream \in Seq(Byte), NEW buf, NEW from, NEW to,
         Holds(buf, stream, from, to)
  PROVE  /\ buf \in Seq(Byte) /\ Len(buf) = to - from /\ DOMAIN buf = 1..(to - from)
         /\ \A i \in 1..(to - from) : buf[i] = stream[from + i]
<1>1. /\ from \in Nat /\ to \in Nat /\ from <= to /\ to <= Len(stream)
      /\ buf = SubSeq(stream, from + 1, to) /\ Len(stream) \in Nat
  BY LenProperties DEF Holds
<1>2. \A i \in (from + 1)..to : stream[i] \in Byte
  BY <1>1, ElementOfSeq
<1> QED BY <1>1, <1>2, SubSeqProperties

(* Without a delimiter in the buffer there is none in the stretch.         *)
LEMMA NoFrameInStretch ==
  ASSUME NEW stream \in Seq(Byte), NEW buf, NEW from, NEW to,
         Holds(buf, stream, from, to), ~HasFrame(buf)
  PROVE  \A j \in (from + 1)..to : stream[j] # DELIM
<1>1. from \in Nat /\ to \in Nat
  BY DEF Holds
<1> SUFFICES ASSUME NEW j \in (from + 1)..to PROVE stream[j] # DELIM
  OBVIOUS
<1>2. j - from \in 1..(to - from) /\ from + (j - from) = j
  BY <1>1
<1>3. buf[j - from] = stream[j] /\ j - from \in DOMAIN buf
  BY <1>2, HoldsBytes
<1> QED BY <1>3 DEF HasFrame

(* The frame that is taken out of the buffer is the next one of the        *)
(* stream, and what is left in the buffer begins right behind it.          *)
LEMMA NextFrameOfStream ==
  ASSUME NEW stream \in Seq(Byte), NEW buf, NEW from, NEW to,
         Holds(buf, stream, from, to), HasFrame(buf),
         NEW e, e = from + FrameEnd(buf)
  PROVE  /\ e \in (from + 1)..to /\ stream[e] = DELIM
         /\ \A j \in (from + 1)..(e - 1) : stream[j] # DELIM
         /\ RawFrame(buf) = FrameEndingAt(stream, e)
         /\ Holds(AfterFrame(buf), stream, e, to)
<1>1. /\ from \in Nat /\ to \in Nat /\ from <= to /\ to <= Len(stream)
      /\ Len(stream) \in Nat /\ (from = 0 \/ stream[from] = DELIM)
  BY LenProperties DEF Holds
<1>2. /\ buf \in Seq(Byte) /\ Len(buf) = to - from
      /\ \A i \in 1..(to - from) : buf[i] = stream[from + i]
  BY HoldsBytes
<1> DEFINE n == FrameEnd(buf)
<1>3. /\ n \in 1..(to - from) /\ buf[n] = DELIM
      /\ \A j \in 1..(n - 1) : buf[j] # DELIM
  BY <1>2, FrameEndIsFirst
<1> HIDE DEF n
<1>4. e = from + n /\ e \in (from + 1)..to /\ e \in Nat
  BY <1>1, <1>3 DEF n
<1>5. stream[e] = DELIM
  BY <1>2, <1>3, <1>4
<1>6. ASSUME NEW j \in (from + 1)..(e - 1) PROVE stream[j] # DELIM
  <2>1. j - from \in 1..(n - 1) /\ j - from \in 1..(to - from) /\ from + (j - from) = j
    BY <1>1, <1>3, <1>4
  <2>2. buf[j - from] = stream[j] /\ buf[j - from] # DELIM
    BY <1>2, <1>3, <2>1
  <2> QED BY <2>2
<1>7. FrameStart(stream, e) = from + 1
  <2>1. from + 1 \in 1..e /\ (from + 1 = 1 \/ stream[(from + 1) - 1] = DELIM)
    BY <1>1, <1>4
  <2> QED BY <1>4, <1>6, <2>1, FrameStartIs
<1>8. \A i \in 1..(to - from) : buf[i] \in Byte
  BY <1>2, ElementOfSeq
<1>9. \A i \in 1..Len(stream) : stream[i] \in Byte
  BY ElementOfSeq
<1>10. RawFrame(buf) = FrameEndingAt(stream, e)
  <2> DEFINE r == SubSeq(buf, 1, n - 1)
             t == SubSeq(stream, from + 1, e - 1)
  <2>1. /\ r \in Seq(Byte) /\ Len(r) = n - 1
        /\ \A i \in 1..(n - 1) : r[i] = buf[i]
    <3>1. \A i \in 1..(n - 1) : buf[i] \in Byte
      BY <1>1, <1>3, <1>8
    <3>2. n - 1 \in Nat
      BY <1>1, <1>3
    <3> QED BY <1>3, <3>1, <3>2, SubSeqProperties
  <2>2. /\ t \in Seq(Byte) /\ Len(t) = n - 1
        /\ \A i \in 1..(n - 1) : t[i] = stream[from + i]
    <3>1. \A i \in (from + 1)..(e - 1) : stream[i] \in Byte
      BY <1>1, <1>4, <1>9
    <3>2. /\ e - 1 \in Int /\ from + 1 \in Int /\ n - 1 \in Nat
          /\ (e - 1) - (from + 1) + 1 = n - 1
          /\ (from + 1 <= e - 1) <=> (n - 1 > 0)
      BY <1>1, <1>3, <1>4
    <3>3. \A i \in 1..(n - 1) : (from + 1) + i - 1 = from + i
      BY <1>1, <1>3
    <3>4. Len(t) = IF from + 1 <= e - 1 THEN (e - 1) - (from + 1) + 1 ELSE 0
      BY <3>1, <3>2, SubSeqProperties
    <3>5. Len(t) = n - 1
      BY <3>2, <3>4
    <3> QED BY <3>1, <3>2, <3>3, <3>5, SubSeqProperties
  <2> HIDE DEF r, t
  <2>3. \A i \in 1..(n - 1) : r[i] = t[i]
    <3>1. \A i \in 1..(n - 1) : i \in 1..(to - from)
      BY <1>1, <1>3
    <3> QED BY <1>2, <2>1, <2>2, <3>1
  <2>4. r = t
    BY <2>1, <2>2, <2>3, SeqEqual
  <2> QED BY <1>7, <2>4 DEF r, t, RawFrame, FrameEndingAt, n
<1>11. Holds(AfterFrame(buf), stream, e, to)
  <2> DEFINE r == SubSeq(buf, n + 1, to - from)
             t == SubSeq(stream, e + 1, to)
  <2>1. /\ r \in Seq(Byte) /\ Len(r) = to - e
        /\ \A i \in 1..(to - e) : r[i] = buf[n + i]
    <3>1. \A i \in (n + 1)..(to - from) : buf[i] \in Byte
      BY <1>3, <1>8
    <3>2. /\ n + 1 \in Nat /\ to - from \in Nat /\ n + 1 <= (to - from) + 1
          /\ (to - from) - (n + 1) + 1 = to - e
      BY <1>1, <1>3, <1>4
    <3>3. \A i \in 1..(to - e) : (n + 1) + i - 1 = n + i
      BY <1>1, <1>3, <1>4
    <3> QED BY <3>1, <3>2, <3>3, SubSeqProperties
  <2>2. /\ t \in Seq(Byte) /\ Len(t) = to - e
        /\ \A i \in 1..(to - e) : t[i] = stream[e + i]
    <3>1. \A i \in (e + 1)..to : stream[i] \in Byte
      BY <1>1, <1>4, <1>9
    <3>2. /\ e + 1 \in Nat /\ e + 1 <= to + 1 /\ to - (e + 1) + 1 = to - e
      BY <1>1, <1>4
    <3>3. \A i \in 1..(to - e) : (e + 1) + i - 1 = e + i
      BY <1>1, <1>4
    <3> QED BY <1>1, <3>1, <3>2, <3>3, SubSeqProperties
  <2> HIDE DEF r, t
  <2>3. ASSUME NEW i \in 1..(to - e) PROVE r[i] = t[i]
    <3>1. n + i \in 1..(to - from) /\ from + (n + i) = e + i
      BY <1>1, <1>3, <1>4
    <3>2. buf[n + i] = stream[from + (n + i)]
      BY <1>2, <3>1
    <3> QED BY <2>1, <2>2, <3>1, <3>2
  <2>4. r = t
    BY <2>1, <2>2, <2>3, SeqEqual
  <2>5. AfterFrame(buf) = t
    BY <1>2, <2>4 DEF r, AfterFrame, n
  <2> QED BY <1>1, <1>4, <1>5, <2>5 DEF t, Holds
<1> QED BY <1>4, <1>5, <1>6, <1>10, <1>11

-----------------------------------------------------------------------------
(* A stream that grows *)

(* Every byte of a stream belongs to a frame that starts somewhere.        *)
LEMMA FrameStartExists ==
  ASSUME NEW bytes, NEW e \in Nat \ {0}
  PROVE  \E s \in 1..e : /\ s = 1 \/ bytes[s - 1] = DELIM
                         /\ \A i \in s..(e - 1) : bytes[i] # DELIM
<1> DEFINE T == {m \in 0..(e - 1) : e - m = 1 \/ bytes[(e - m) - 1] = DELIM}
<1>1. e - 1 \in T /\ T \in SUBSET Nat
  BY DEF T
<1>2. PICK m \in T : \A k \in T : m <= k
  BY <1>1, LeastNatural
<1>3. e - m \in 1..e /\ (e - m = 1 \/ bytes[(e - m) - 1] = DELIM)
  BY <1>2
<1>4. ASSUME NEW i \in (e - m)..(e - 1) PROVE bytes[i] # DELIM
  <2> SUFFICES ASSUME bytes[i] = DELIM PROVE FALSE
    OBVIOUS
  <2>1. (e - 1) - i \in 0..(e - 1) /\ (e - ((e - 1) - i)) - 1 = i /\ (e - 1) - i < m
    BY <1>2, <1>3
  <2>2. (e - 1) - i \in T
    BY <2>1
  <2> QED BY <1>2, <2>1, <2>2
<1> QED BY <1>3, <1>4

(* What comes behind a frame does not change it.                           *)
LEMMA FramesStay ==
  ASSUME NEW stream \in Seq(Byte), NEW more \in Seq(Byte), NEW longer,
         longer = stream \o more, NEW e \in 1..Len(stream)
  PROVE  longer[e] = stream[e] /\ FrameEndingAt(longer, e) = FrameEndingAt(stream, e)
<1>1. /\ Len(stream) \in Nat /\ Len(more) \in Nat /\ longer \in Seq(Byte)
      /\ Len(longer) = Len(stream) + Len(more)
      /\ \A i \in 1..Len(stream) : longer[i] = stream[i]
  BY ConcatProperties, LenProperties
<1>2. PICK s \in 1..e : /\ s = 1 \/ stream[s - 1] = DELIM
                        /\ \A i \in s..(e - 1) : stream[i] # DELIM
  <2>1. e \in Nat \ {0}
    BY <1>1
  <2> QED BY <2>1, FrameStartExists
<1>3. FrameStart(stream, e) = s
  BY <1>2, FrameStartIs
<1>4. FrameStart(longer, e) = s
  <2>1. s = 1 \/ longer[s - 1] = DELIM
    BY <1>1, <1>2
  <2>2. \A i \in s..(e - 1) : longer[i] # DELIM
    BY <1>1, <1>2
  <2>3. e \in Nat \ {0}
    BY <1>1
  <2> QED BY <2>1, <2>2, <2>3, FrameStartIs
<1> DEFINE a == SubSeq(stream, s, e - 1)
           b == SubSeq(longer, s, e - 1)
<1>5. /\ s \in Nat \ {0} /\ e - 1 \in Nat /\ s <= (e - 1) + 1
      /\ e - 1 <= Len(stream) /\ e - 1 <= Len(longer)
  BY <1>1
<1>6. /\ a \in Seq(Byte) /\ Len(a) = (e - 1) - s + 1
      /\ \A i \in 1..((e - 1) - s + 1) : a[i] = stream[s + i - 1]
  BY <1>5, Stretch
<1>7. /\ b \in Seq(Byte) /\ Len(b) = (e - 1) - s + 1
      /\ \A i \in 1..((e - 1) - s + 1) : b[i] = longer[s + i - 1]
  BY <1>1, <1>5, Stretch
<1> HIDE DEF a, b
<1>8. a = b
  <2>1. ASSUME NEW i \in 1..((e - 1) - s + 1) PROVE a[i] = b[i]
    <3>1. s + i - 1 \in 1..Len(stream)
      BY <1>1, <1>5
    <3> QED BY <1>1, <1>6, <1>7, <3>1
  <2> QED BY <1>6, <1>7, <2>1, SeqEqual
<1>9. FrameEndingAt(longer, e) = FrameEndingAt(stream, e)
  BY <1>3, <1>4, <1>8 DEF a, b, FrameEndingAt
<1> QED BY <1>1, <1>9

(* Nor does it change what a buffer holds.                                 *)
LEMMA HoldsStays ==
  ASSUME NEW stream \in Seq(Byte), NEW more \in Seq(Byte), NEW longer,
         longer = stream \o more,
         NEW buf, NEW from, NEW to, Holds(buf, stream, from, to)
  PROVE  Holds(buf, longer, from, to)
<1>1. /\ Len(stream) \in Nat /\ Len(more) \in Nat /\ longer \in Seq(Byte)
      /\ Len(longer) = Len(stream) + Len(more)
      /\ \A i \in 1..Len(stream) : longer[i] = stream[i]
  BY ConcatProperties, LenProperties
<1>2. /\ from \in Nat /\ to \in Nat /\ from <= to /\ to <= Len(stream)
      /\ buf = SubSeq(stream, from + 1, to) /\ (from = 0 \/ stream[from] = DELIM)
  BY DEF Holds
<1>3. from = 0 \/ longer[from] = DELIM
  BY <1>1, <1>2
<1> DEFINE b == SubSeq(longer, from + 1, to)
           n == to - (from + 1) + 1
<1>4. /\ from + 1 \in Nat \ {0} /\ from + 1 <= to + 1 /\ to <= Len(longer)
  BY <1>1, <1>2
<1>5. /\ buf \in Seq(Byte) /\ Len(buf) = n
      /\ \A i \in 1..n : buf[i] = stream[(from + 1) + i - 1]
  BY <1>2, <1>4, Stretch
<1>6. /\ b \in Seq(Byte) /\ Len(b) = n
      /\ \A i \in 1..n : b[i] = longer[(from + 1) + i - 1]
  BY <1>1, <1>2, <1>4, Stretch
<1> HIDE DEF b
<1>7. buf = b
  <2>1. ASSUME NEW i \in 1..n PROVE buf[i] = b[i]
    <3>1. (from + 1) + i - 1 \in 1..Len(stream)
      BY <1>1, <1>2
    <3> QED BY <1>1, <1>5, <1>6, <3>1
  <2> QED BY <1>5, <1>6, <2>1, SeqEqual
<1> QED BY <1>2, <1>3, <1>4, <1>7 DEF b, Holds

(* The frame that ends a stream is the one that starts behind the rest.     *)
LEMMA LastFrameOfStream ==
  ASSUME NEW longer \in Seq(Byte), NEW frame, NEW from \in Nat, NEW end \in Nat,
         Holds(frame, longer, from, end), HasFrame(frame), end = from + FrameEnd(frame)
  PROVE  /\ end > from /\ longer[end] = DELIM
         /\ \A e \in (from + 1)..end : longer[e] = DELIM => e = end
         /\ RawFrame(frame) = FrameEndingAt(longer, end)
<1>1. /\ end \in (from + 1)..end /\ longer[end] = DELIM
      /\ \A j \in (from + 1)..(end - 1) : longer[j] # DELIM
      /\ RawFrame(frame) = FrameEndingAt(longer, end)
  BY NextFrameOfStream, SMTT(30)
<1>2. ASSUME NEW e \in (from + 1)..end, longer[e] = DELIM PROVE e = end
  <2>1. e \in (from + 1)..(end - 1) \/ e = end
    OBVIOUS
  <2> QED BY <1>1, <1>2, <2>1
<1>3. end > from
  BY <1>1
<1> QED BY <1>1, <1>2, <1>3

(* A frame that is written behind whole frames is found there.             *)
LEMMA FrameBehind ==
  ASSUME NEW stream \in Seq(Byte), stream = <<>> \/ stream[Len(stream)] = DELIM,
         NEW p \in Seq(Byte), p # <<>>, Is16Bits(Crc(p)),
         NEW longer, longer = stream \o EncodeHdlcFrame(p)
  PROVE  /\ longer \in Seq(Byte) /\ Len(longer) > Len(stream)
         /\ longer[Len(longer)] = DELIM
         /\ \A e \in (Len(stream) + 1)..Len(longer) : longer[e] = DELIM => e = Len(longer)
         /\ CrcCorrect(FrameEndingAt(longer, Len(longer)))
         /\ Payload(FrameEndingAt(longer, Len(longer))) = p
<1> DEFINE frame == EncodeHdlcFrame(p)
           from == Len(stream)
           end == Len(longer)
<1>1. frame \in Seq(Byte) /\ Len(frame) \in Nat /\ from \in Nat
  BY EncodeType, LenProperties
<1>2. /\ HasFrame(frame) /\ FrameEnd(frame) = Len(frame)
      /\ CrcCorrect(RawFrame(frame)) /\ Payload(RawFrame(frame)) = p
  <2>1. <<>> \in Seq(Byte)
    OBVIOUS
  <2>2. frame = EncodeHdlcFrame(p) \o <<>>
    BY <1>1, ConcatEmptySeq
  <2> QED BY <2>1, <2>2, EncodedFrameDecodes
<1> HIDE DEF frame
<1>3. longer = stream \o frame
  BY DEF frame
<1>4. /\ longer \in Seq(Byte) /\ end = from + Len(frame)
      /\ \A i \in 1..Len(frame) : longer[from + i] = frame[i]
      /\ \A i \in 1..from : longer[i] = stream[i]
  <2>1. /\ longer \in Seq(Byte) /\ end = from + Len(frame)
        /\ \A i \in 1..(from + Len(frame)) :
              longer[i] = IF i <= from THEN stream[i] ELSE frame[i - from]
    BY <1>1, <1>3, ConcatProperties
  <2>2. \A i \in 1..Len(frame) : /\ from + i \in 1..(from + Len(frame))
                                 /\ ~(from + i <= from) /\ (from + i) - from = i
    BY <1>1
  <2>3. \A i \in 1..from : i \in 1..(from + Len(frame)) /\ i <= from
    BY <1>1
  <2> QED BY <2>1, <2>2, <2>3
<1> HIDE DEF end
<1>5. Holds(frame, longer, from, end)
  <2> DEFINE t == SubSeq(longer, from + 1, end)
             n == end - (from + 1) + 1
  <2>1. /\ from + 1 \in Nat \ {0} /\ end \in Nat /\ from + 1 <= end + 1 /\ end <= Len(longer)
        /\ n = Len(frame)
    BY <1>1, <1>4 DEF end
  <2>2. /\ t \in Seq(Byte) /\ Len(t) = n
        /\ \A i \in 1..n : t[i] = longer[(from + 1) + i - 1]
    BY <1>4, <2>1, Stretch
  <2> HIDE DEF t, n
  <2>3. ASSUME NEW i \in 1..Len(frame) PROVE t[i] = frame[i]
    <3>1. (from + 1) + i - 1 = from + i
      BY <1>1
    <3> QED BY <1>4, <2>1, <2>2, <3>1
  <2>4. t = frame
    BY <1>1, <2>1, <2>2, <2>3, SeqEqual
  <2>5. from = 0 \/ longer[from] = DELIM
    <3>1. CASE stream = <<>>
      BY <3>1
    <3>2. CASE stream # <<>>
      <4>1. from \in 1..from \/ from = 0
        BY <1>1
      <4> QED BY <1>4, <3>2, <4>1
    <3> QED BY <3>1, <3>2
  <2> QED BY <1>1, <1>4, <2>1, <2>4, <2>5 DEF t, Holds
<1>6. end = from + FrameEnd(frame)
  BY <1>2, <1>4
<1>7. from \in Nat /\ end \in Nat
  BY <1>1, <1>4
<1> HIDE DEF from
<1>8. /\ end > from /\ longer[end] = DELIM
      /\ \A e \in (from + 1)..end : longer[e] = DELIM => e = end
      /\ RawFrame(frame) = FrameEndingAt(longer, end)
  <2>1. longer \in Seq(Byte) /\ HasFrame(frame)
    BY <1>2, <1>4
  <2> HIDE DEF end
  <2> QED BY ONLY <1>5, <1>6, <1>7, <2>1, LastFrameOfStream
<1> QED BY <1>2, <1>4, <1>8 DEF end, from

-----------------------------------------------------------------------------
(* The commands for the log config *)

(* A type id is its equipment id and its item.                             *)
LEMMA IdParts ==
  ASSUME NEW id \in Nat
  PROVE  /\ EquipId(id) \in 0..15 /\ ItemId(id) \in Item
         /\ Maskable(id) => TypeId(EquipId(id), ItemId(id)) = id
<1>1. id = 4096 * (id \div 4096) + (id % 4096) /\ id % 4096 \in 0..4095 /\ id \div 4096 \in Nat
  BY SMT
<1>2. (id \div 4096) % 16 \in 0..15
  BY <1>1, SMT
<1>3. id <= 65535 => id \div 4096 <= 15
  BY <1>1, SMT
<1>4. id <= 65535 => (id \div 4096) % 16 = id \div 4096
  BY <1>1, <1>3, SMT
<1>5. Maskable(id) => id <= 65535
  BY SMT DEF Maskable
<1> QED BY <1>1, <1>2, <1>4, <1>5, SMT DEF EquipId, ItemId, Item, TypeId

(* The item of such an id is one that the mask of its equipment id has.     *)
LEMMA MaskableFits ==
  ASSUME NEW id, Maskable(id), EquipId(id) \in DOMAIN FixedHighest
  PROVE  ItemId(id) <= FixedHighest[EquipId(id)]
BY SMT DEF Maskable

(* An item has a byte and a bit of a mask, and no other item has these.    *)
LEMMA ItemBit ==
  ASSUME NEW x \in Item, NEW highest \in Item, x <= highest
  PROVE  /\ x \in Nat /\ x \div 8 < (highest \div 8) + 1
         /\ 8 * (x \div 8) + (x % 8) = x /\ x < highest + 1
<1>1. x \in Nat /\ highest \in Nat
  BY SMT DEF Item
<1> QED BY ONLY <1>1, x <= highest, SMT

(* The largest of some items.                                              *)
LEMMA MaxIsLargest ==
  ASSUME NEW S \in SUBSET Item, S # {}
  PROVE  Max(S) \in S /\ \A x \in S : x <= Max(S)
<1> DEFINE T == {m \in Nat : \A x \in S : x <= m}
<1>1. PICK m \in T : \A k \in T : m <= k
  <2>1. T # {}
    <3>1. \E n \in Nat : \A x \in Item : x <= n
      <4>1. \A x \in 0..4095 : x <= 4095
        BY SMT
      <4> QED BY <4>1, SMT DEF Item
    <3> QED BY <3>1
  <2> QED BY <2>1, LeastNatural
<1>2. m \in S
  <2> SUFFICES ASSUME m \notin S PROVE FALSE
    OBVIOUS
  <2>1. \A x \in S : x \in Nat /\ x < m
    <3>1. \A x \in S : x \in Nat
      BY SMT DEF Item
    <3> QED BY <1>1, <3>1
  <2>2. m # 0
    <3>1. PICK x \in S : TRUE
      OBVIOUS
    <3> QED BY <2>1, <3>1
  <2>3. m - 1 \in Nat /\ \A x \in S : x <= m - 1
    BY <1>1, <2>1, <2>2
  <2>4. m <= m - 1
    BY <1>1, <2>3
  <2> QED BY <1>1, <2>4
<1>3. \A x \in S : m >= x
  BY <1>1
<1>4. Max(S) \in S /\ \A x \in S : Max(S) >= x
  BY <1>2, <1>3 DEF Max
<1> QED BY <1>4

(* Counting the numbers that are smaller tells numbers apart and gives all  *)
(* of the ranks.                                                           *)
LEMMA Ranks ==
  ASSUME NEW E, E \subseteq Nat, IsFiniteSet(E)
  PROVE  LET rank(e) == Cardinality({f \in E : f < e}) IN
         /\ \A e \in E : rank(e) \in 0..(Cardinality(E) - 1)
         /\ \A d, e \in E : rank(d) = rank(e) => d = e
         /\ \A r \in 0..(Cardinality(E) - 1) : \E e \in E : rank(e) = r
<1> DEFINE below(e) == {f \in E : f < e}
           rank(e) == Cardinality(below(e))
           n == Cardinality(E)
<1>1. n \in Nat
  BY FS_CardinalityType
<1>2. \A e \in E : IsFiniteSet(below(e)) /\ rank(e) \in Nat
  <2>1. \A e \in E : below(e) \in SUBSET E
    OBVIOUS
  <2> QED BY <2>1, FS_Subset, FS_CardinalityType
<1>3. ASSUME NEW d \in E, NEW e \in E, d < e PROVE rank(d) < rank(e)
  <2>1. below(d) \in SUBSET below(e) /\ d \in below(e) /\ d \notin below(d)
    <3>1. d \in Nat /\ e \in Nat /\ \A f \in E : f \in Nat
      OBVIOUS
    <3>2. \A f \in E : f < d => f < e
      BY <1>3, <3>1
    <3>3. below(d) \subseteq below(e)
      BY <3>2
    <3>4. d \in below(e) /\ ~(d < d)
      BY <1>3, <3>1
    <3> QED BY <3>3, <3>4
  <2> HIDE DEF below
  <2>2. Cardinality(below(d)) <= Cardinality(below(e))
        /\ Cardinality(below(d)) # Cardinality(below(e))
    BY <1>2, <2>1, FS_Subset
  <2> QED BY <1>2, <2>2
<1>4. ASSUME NEW e \in E PROVE rank(e) < n
  <2>1. below(e) \in SUBSET E /\ e \in E /\ e \notin below(e)
    OBVIOUS
  <2> HIDE DEF below
  <2>2. Cardinality(below(e)) <= Cardinality(E) /\ Cardinality(below(e)) # Cardinality(E)
    BY <2>1, FS_Subset
  <2> QED BY <1>1, <1>2, <2>2
<1> HIDE DEF rank, n
<1>5. \A e \in E : rank(e) \in 0..(n - 1)
  <2> TAKE e \in E
  <2>1. rank(e) \in Nat
    BY <1>2
  <2>2. rank(e) < n
    BY <1>4
  <2> QED BY <1>1, <2>1, <2>2
<1>6. \A d, e \in E : rank(d) = rank(e) => d = e
  <2> TAKE d, e \in E
  <2>1. rank(d) \in Nat /\ rank(e) \in Nat
    BY <1>2 DEF rank
  <2>2. d = e \/ d < e \/ e < d
    OBVIOUS
  <2> QED BY <1>3, <2>1, <2>2
<1>7. ASSUME NEW r \in 0..(n - 1) PROVE \E e \in E : rank(e) = r
  <2> DEFINE f == [e \in E |-> rank(e)]
             T == 0..(n - 1)
  <2>1. f \in Injection(E, T)
    BY <1>5, <1>6 DEF Injection, IsInjective
  <2>2. IsFiniteSet(T) /\ Cardinality(T) = n
    BY <1>1, FS_Interval
  <2> HIDE DEF f, T
  <2>3. f \in Surjection(E, T)
    BY <2>1, <2>2, FS_Injection DEF n
  <2>4. \E e \in E : f[e] = r
    BY <2>3 DEF Surjection, T
  <2> QED BY <2>4 DEF f
<1> QED BY <1>5, <1>6, <1>7 DEF rank, n
(* sort_type_ids makes groups that have each an equipment id of their own,  *)
(* none empty, and together all of the ids.                                *)
LEMMA GroupsOfTypeIds ==
  ASSUME NEW ids \in SUBSET Nat
  PROVE  LET G == SortTypeIds(ids) IN
         /\ G \in Seq(SUBSET ids)
         /\ \A k \in 1..Len(G) : \E e \in 0..15 : /\ G[k] = {i \in ids : EquipId(i) = e}
                                                 /\ G[k] # {}
         /\ \A j, k \in 1..Len(G) : j # k =>
               \A a \in G[j], b \in G[k] : EquipId(a) # EquipId(b)
         /\ ids = UNION {G[k] : k \in 1..Len(G)}
<1> DEFINE G == SortTypeIds(ids)
           E == EquipsOf(ids)
           n == Cardinality(E)
<1>1. E \subseteq 0..15 /\ \A i \in ids : EquipId(i) \in E
  BY IdParts DEF EquipsOf
<1>2. IsFiniteSet(E) /\ n \in Nat /\ E \subseteq Nat
  <2>1. 0 \in Int /\ 15 \in Int
    OBVIOUS
  <2>2. IsFiniteSet(0..15)
    BY <2>1, FS_Interval
  <2> QED BY <1>1, <2>2, FS_Subset, FS_CardinalityType
<1>3. /\ \A e \in E : Before(e, ids) \in 0..(n - 1)
      /\ \A d, e \in E : Before(d, ids) = Before(e, ids) => d = e
      /\ \A r \in 0..(n - 1) : \E e \in E : Before(e, ids) = r
  BY <1>2, Ranks DEF Before
<1>4. /\ Len(G) = n /\ G \in Seq(SUBSET ids)
      /\ \A k \in 1..n : G[k] = {i \in ids : Before(EquipId(i), ids) = k - 1}
  BY <1>2 DEF SortTypeIds
<1>5. ASSUME NEW k \in 1..n
      PROVE  \E e \in E : /\ G[k] = {i \in ids : EquipId(i) = e} /\ G[k] # {}
                          /\ Before(e, ids) = k - 1
  <2>1. k - 1 \in 0..(n - 1)
    BY <1>2
  <2>2. PICK e \in E : Before(e, ids) = k - 1
    BY <1>3, <2>1
  <2>3. \A i \in ids : Before(EquipId(i), ids) = k - 1 <=> EquipId(i) = e
    BY <1>1, <1>3, <2>2
  <2>4. G[k] = {i \in ids : EquipId(i) = e}
    BY <1>4, <2>3
  <2>5. \E i \in ids : EquipId(i) = e
    BY DEF EquipsOf
  <2> QED BY <2>2, <2>4, <2>5
<1>6. ASSUME NEW j \in 1..n, NEW k \in 1..n, j # k, NEW a \in G[j], NEW b \in G[k]
      PROVE  EquipId(a) # EquipId(b)
  <2>1. Before(EquipId(a), ids) = j - 1 /\ Before(EquipId(b), ids) = k - 1
    BY <1>4
  <2>2. j - 1 # k - 1
    BY <1>2, <1>6
  <2> QED BY <2>1, <2>2
<1>7. ids = UNION {G[k] : k \in 1..n}
  <2>1. ASSUME NEW i \in ids PROVE \E k \in 1..n : i \in G[k]
    <3>1. Before(EquipId(i), ids) \in 0..(n - 1)
      BY <1>1, <1>3
    <3> DEFINE k == Before(EquipId(i), ids) + 1
    <3>2. k \in 1..n /\ Before(EquipId(i), ids) = k - 1
      BY <1>2, <3>1
    <3> HIDE DEF k
    <3> QED BY <1>4, <3>2
  <2>2. \A k \in 1..n : G[k] \subseteq ids
    BY <1>4
  <2> QED BY <2>1, <2>2
<1>8. \A k \in 1..n : \E e \in 0..15 : G[k] = {i \in ids : EquipId(i) = e} /\ G[k] # {}
  BY <1>1, <1>5
<1> HIDE DEF G, E, n
<1>9. \A j, k \in 1..n : j # k => \A a \in G[j], b \in G[k] : EquipId(a) # EquipId(b)
  BY <1>6
<1> QED BY <1>4, <1>7, <1>8, <1>9 DEF G

(* A command for ids of one equipment id has a modem log these items of it, *)
(* none else of it, and of the other equipment ids what it was logging.     *)
LEMMA MaskIsObeyed ==
  ASSUME NEW ids \in SUBSET Nat, ids # {}, NEW e \in 0..15,
         \A i \in ids : EquipId(i) = e /\ Maskable(i),
         NEW m \in [ids : SUBSET Nat, debug : BOOLEAN]
  PROVE  Obeyed(m, SetMask(ids)) =
            [ids |-> {i \in m.ids : EquipId(i) # e} \cup ids, debug |-> m.debug]
<1> DEFINE cmd == SetMask(ids)
           items == {ItemId(i) : i \in ids}
           highest == HighestItem(e, ids)
           pairs == {<<ItemId(i) \div 8, ItemId(i) % 8>> : i \in ids}
<1>1. EquipId(CHOOSE i \in ids : TRUE) = e
  <2>1. (CHOOSE i \in ids : TRUE) \in ids
    OBVIOUS
  <2> QED BY <2>1
<1>2. items \in SUBSET Item /\ items # {}
  <2>1. \A i \in ids : ItemId(i) \in Item
    BY IdParts
  <2> QED BY <2>1
<1>3. pairs = {<<x \div 8, x % 8>> : x \in items}
  OBVIOUS
<1>4. \A i \in ids : ItemId(i) \in items
  OBVIOUS
<1>5. /\ \A i \in ids : TypeId(e, ItemId(i)) = i
      /\ e \in DOMAIN FixedHighest => \A i \in ids : ItemId(i) <= FixedHighest[e]
  <2>1. \A i \in ids : TypeId(EquipId(i), ItemId(i)) = i
    BY IdParts
  <2>2. \A i \in ids : EquipId(i) \in DOMAIN FixedHighest
                           => ItemId(i) <= FixedHighest[EquipId(i)]
    BY MaskableFits
  <2> QED BY <2>1, <2>2
<1> HIDE DEF items, pairs
<1>6. highest \in Item /\ \A x \in items : x <= highest
  <2>1. CASE e \in DOMAIN FixedHighest
    <3>1. highest = FixedHighest[e]
      BY <2>1 DEF HighestItem
    <3>2. FixedHighest[e] \in Item
      <4>1. e = 1 \/ e = 4 \/ e = 7 \/ e = 11
        BY <2>1, SMT DEF FixedHighest
      <4>2. /\ FixedHighest[1] = 4051 /\ FixedHighest[4] = 2336
            /\ FixedHighest[7] = 2902 /\ FixedHighest[11] = 4095
        BY SMT DEF FixedHighest
      <4> QED BY <4>1, <4>2, SMT DEF Item
    <3> QED BY <1>5, <2>1, <3>1, <3>2 DEF items
  <2>2. CASE e \notin DOMAIN FixedHighest
    <3>1. highest = Max(items)
      BY <2>2 DEF HighestItem, items
    <3>2. Max(items) \in items /\ \A x \in items : x <= Max(items)
      BY <1>2, MaxIsLargest
    <3> QED BY <1>2, <3>1, <3>2
  <2> QED BY <2>1, <2>2
<1> HIDE DEF highest
<1>7. /\ cmd.op = "SET_MASK" /\ cmd.equip = e /\ cmd.nItems = highest + 1
      /\ cmd.mask = {b \in pairs : b[1] < (highest \div 8) + 1}
  BY <1>1 DEF SetMask, highest, pairs
<1> HIDE DEF cmd
<1>8. \A x \in items : /\ x \div 8 < (highest \div 8) + 1
                        /\ 8 * (x \div 8) + (x % 8) = x /\ x < highest + 1
  BY <1>2, <1>6, ItemBit
<1>9. cmd.mask = pairs
  <2>1. \A b \in pairs : b[1] < (highest \div 8) + 1
    BY <1>3, <1>8
  <2> QED BY <1>7, <2>1
<1>10. ItemsOf(cmd) = items
  <2>1. {8 * b[1] + b[2] : b \in pairs} = {8 * (x \div 8) + (x % 8) : x \in items}
    <3> DEFINE bit(x) == <<x \div 8, x % 8>>
    <3>1. {8 * b[1] + b[2] : b \in pairs} = {8 * bit(x)[1] + bit(x)[2] : x \in items}
      <4> HIDE DEF bit
      <4>1. pairs = {bit(x) : x \in items}
        BY <1>3 DEF bit
      <4> QED BY <4>1
    <3> QED BY <3>1
  <2>2. {8 * (x \div 8) + (x % 8) : x \in items} = items
    BY <1>8
  <2>3. {x \in items : x < highest + 1} = items
    BY <1>8
  <2> QED BY <1>7, <1>9, <2>1, <2>2, <2>3 DEF ItemsOf
<1>11. {TypeId(e, x) : x \in items} = ids
  BY <1>5 DEF items
<1>12. Obeyed(m, cmd) =
         [m EXCEPT !.ids = {i \in @ : EquipId(i) # e} \cup {TypeId(e, x) : x \in ItemsOf(cmd)}]
  BY <1>7 DEF Obeyed
<1>13. [m EXCEPT !.ids = {i \in @ : EquipId(i) # e} \cup ids]
         = [ids |-> {i \in m.ids : EquipId(i) # e} \cup ids, debug |-> m.debug]
  OBVIOUS
<1> QED BY <1>10, <1>11, <1>12, <1>13 DEF cmd

\* What a modem may log, and the commands that it is sent
ModemState     == [ids : SUBSET Nat, debug : BOOLEAN]
MaskGroup(ids) == /\ ids # {} /\ \A i \in ids : Maskable(i)
              /\ \E e \in 0..15 : \A i \in ids : EquipId(i) = e
PlainOps     == {"DISABLE", "DISABLE_DEBUG", "DEBUG_WCDMA_L1", "DIAG_BEGIN", "DIAG_END"}
Commands  == {Simple(op) : op \in PlainOps} \cup {SetMask(g) : g \in {s \in SUBSET Nat : MaskGroup(s)}}

(* What the commands do that have no mask.                                 *)
LEMMA PlainIsObeyed ==
  ASSUME NEW m \in ModemState
  PROVE  /\ Obeyed(m, Disable) = [ids |-> {}, debug |-> m.debug]
         /\ Obeyed(m, DisableDebug) = [ids |-> m.ids, debug |-> FALSE]
         /\ Obeyed(m, DebugWcdma) = [ids |-> m.ids, debug |-> TRUE]
         /\ \A op \in {"DIAG_BEGIN", "DIAG_END"} : Obeyed(m, Simple(op)) = m
BY DEF Obeyed, Disable, DisableDebug, DebugWcdma, Simple, ModemState

(* A modem's state is made of these.                                       *)
LEMMA ModemStateIs ==
  ASSUME NEW x \in SUBSET Nat, NEW d \in BOOLEAN
  PROVE  [ids |-> x, debug |-> d] \in ModemState
BY DEF ModemState

(* A modem that obeys goes on logging ids.                                 *)
LEMMA ObeyedType ==
  ASSUME NEW m \in ModemState, NEW cmd \in Commands
  PROVE  Obeyed(m, cmd) \in ModemState
<1>1. CASE \E op \in PlainOps : cmd = Simple(op)
  <2>1. PICK op \in PlainOps : cmd = Simple(op)
    BY <1>1
  <2>2. \/ cmd = Disable \/ cmd = DisableDebug \/ cmd = DebugWcdma
        \/ op \in {"DIAG_BEGIN", "DIAG_END"}
    BY <2>1 DEF PlainOps, Disable, DisableDebug, DebugWcdma
  <2>3. m.ids \in SUBSET Nat /\ m.debug \in BOOLEAN
    BY DEF ModemState
  <2>4. /\ [ids |-> {}, debug |-> m.debug] \in ModemState
        /\ [ids |-> m.ids, debug |-> FALSE] \in ModemState
        /\ [ids |-> m.ids, debug |-> TRUE] \in ModemState
    BY <2>3, ModemStateIs
  <2> QED BY <2>1, <2>2, <2>4, PlainIsObeyed
<1>2. CASE \E g \in {s \in SUBSET Nat : MaskGroup(s)} : cmd = SetMask(g)
  <2>1. PICK g \in SUBSET Nat : MaskGroup(g) /\ cmd = SetMask(g)
    BY <1>2
  <2>2. PICK e \in 0..15 : \A i \in g : EquipId(i) = e
    BY <2>1 DEF MaskGroup
  <2>3. Obeyed(m, cmd) = [ids |-> {i \in m.ids : EquipId(i) # e} \cup g, debug |-> m.debug]
    BY <2>1, <2>2, MaskIsObeyed DEF MaskGroup, ModemState
  <2>4. m.ids \in SUBSET Nat /\ m.debug \in BOOLEAN
    BY DEF ModemState
  <2>5. {i \in m.ids : EquipId(i) # e} \cup g \in SUBSET Nat
    BY <2>4
  <2> QED BY <2>3, <2>4, <2>5, ModemStateIs
<1> QED BY <1>1, <1>2 DEF Commands

(* The sequence of commands: the one for debug messages, if they are wanted, *)
(* and one for each group of ids.                                          *)
MaskedIds(ids)  == ids \ {ModemDebugId}
NDebug(ids)  == IF ModemDebugId \in ids THEN 1 ELSE 0
MaskGroups(ids)  == SortTypeIds(MaskedIds(ids))

LEMMA LogConfigMsgsAre ==
  ASSUME NEW ids \in SUBSET Nat, TypesFit(ids)
  PROVE  /\ MaskGroups(ids) \in Seq(SUBSET MaskedIds(ids)) /\ Len(MaskGroups(ids)) \in Nat
         /\ \A k \in 1..Len(MaskGroups(ids)) : MaskGroup(MaskGroups(ids)[k])
         /\ LogConfigMsgs(ids) \in Seq(Commands)
         /\ Len(LogConfigMsgs(ids)) = NDebug(ids) + Len(MaskGroups(ids))
         /\ NDebug(ids) = 1 => LogConfigMsgs(ids)[1] = DebugWcdma
         /\ \A k \in 1..Len(MaskGroups(ids)) :
               LogConfigMsgs(ids)[NDebug(ids) + k] = SetMask(MaskGroups(ids)[k])
<1> DEFINE G == MaskGroups(ids)
           n == Len(G)
           first == IF ModemDebugId \in ids THEN <<DebugWcdma>> ELSE <<>>
           rest == [k \in 1..n |-> SetMask(G[k])]
<1>1. MaskedIds(ids) \in SUBSET Nat /\ \A i \in MaskedIds(ids) : Maskable(i)
  BY DEF MaskedIds, TypesFit
<1>2. /\ G \in Seq(SUBSET MaskedIds(ids)) /\ n \in Nat
      /\ \A k \in 1..n : \E e \in 0..15 : /\ G[k] = {i \in MaskedIds(ids) : EquipId(i) = e}
                                          /\ G[k] # {}
  BY <1>1, GroupsOfTypeIds, LenProperties DEF MaskGroups
<1>3. \A k \in 1..n : G[k] \in SUBSET Nat /\ MaskGroup(G[k])
  <2> TAKE k \in 1..n
  <2>1. PICK e \in 0..15 : G[k] = {i \in MaskedIds(ids) : EquipId(i) = e} /\ G[k] # {}
    BY <1>2
  <2> QED BY <1>1, <2>1 DEF MaskGroup
<1>4. DOMAIN G = 1..n
  BY <1>2, LenProperties
<1>5. LogConfigMsgs(ids) = first \o rest
  BY <1>4 DEF LogConfigMsgs, MaskGroups, MaskedIds
<1> HIDE DEF G, n
<1>6. rest \in Seq(Commands) /\ Len(rest) = n /\ \A k \in 1..n : rest[k] = SetMask(G[k])
  <2>1. \A k \in 1..n : SetMask(G[k]) \in Commands
    BY <1>3 DEF Commands
  <2> QED BY <1>2, <2>1
<1>7. /\ first \in Seq(Commands) /\ Len(first) = NDebug(ids)
      /\ NDebug(ids) = 1 => first[1] = DebugWcdma
  <2>1. DebugWcdma \in Commands
    BY DEF Commands, PlainOps, DebugWcdma
  <2> QED BY <2>1 DEF NDebug
<1> HIDE DEF first, rest
<1>8. /\ first \o rest \in Seq(Commands) /\ Len(first \o rest) = NDebug(ids) + n
      /\ \A i \in 1..(NDebug(ids) + n) :
            (first \o rest)[i] = IF i <= NDebug(ids) THEN first[i] ELSE rest[i - NDebug(ids)]
  <2>1. /\ first \o rest \in Seq(Commands) /\ Len(first \o rest) = Len(first) + Len(rest)
        /\ \A i \in 1..(Len(first) + Len(rest)) :
              (first \o rest)[i] = IF i <= Len(first) THEN first[i] ELSE rest[i - Len(first)]
    BY <1>6, <1>7, ConcatProperties
  <2> QED BY <1>6, <1>7, <2>1
<1>9. NDebug(ids) = 1 => (first \o rest)[1] = DebugWcdma
  BY <1>2, <1>7, <1>8
<1>10. ASSUME NEW k \in 1..n PROVE (first \o rest)[NDebug(ids) + k] = SetMask(G[k])
  <2>1. NDebug(ids) \in Nat
    BY DEF NDebug
  <2>2. /\ NDebug(ids) + k \in 1..(NDebug(ids) + n) /\ ~(NDebug(ids) + k <= NDebug(ids))
        /\ (NDebug(ids) + k) - NDebug(ids) = k
    BY <1>2, <2>1
  <2> QED BY <1>6, <1>8, <2>2
<1> QED BY <1>2, <1>3, <1>5, <1>8, <1>9, <1>10 DEF G, n

\* What a modem logs that logged nothing, after the first j of the commands
AfterSome(ids, debug, j) ==
    [ids   |-> UNION {MaskGroups(ids)[k] : k \in 1..(j - NDebug(ids))},
     debug |-> debug \/ (ModemDebugId \in ids /\ j >= 1)]

(* It starts with nothing, and stays a modem's state.                      *)
LEMMA AfterSomeType ==
  ASSUME NEW ids \in SUBSET Nat, TypesFit(ids), NEW d \in BOOLEAN, NEW j \in Nat,
         j <= Len(LogConfigMsgs(ids))
  PROVE  /\ AfterSome(ids, d, j) \in ModemState
         /\ AfterSome(ids, d, 0) = [ids |-> {}, debug |-> d]
<1> DEFINE G == MaskGroups(ids)
           logged == UNION {G[k] : k \in 1..(j - NDebug(ids))}
<1>1. /\ NDebug(ids) \in {0, 1} /\ G \in Seq(SUBSET MaskedIds(ids)) /\ Len(G) \in Nat
      /\ Len(LogConfigMsgs(ids)) = NDebug(ids) + Len(G)
  BY LogConfigMsgsAre DEF NDebug
<1> HIDE DEF G
<1>2. logged \in SUBSET Nat
  <2>1. \A k \in 1..(j - NDebug(ids)) : k \in 1..Len(G)
    BY <1>1
  <2>2. \A k \in 1..Len(G) : G[k] \subseteq MaskedIds(ids)
    BY <1>1, ElementOfSeq
  <2> QED BY <2>1, <2>2 DEF MaskedIds
<1>3. AfterSome(ids, d, j) = [ids |-> logged, debug |-> d \/ (ModemDebugId \in ids /\ j >= 1)]
  BY DEF AfterSome, G
<1>4. (d \/ (ModemDebugId \in ids /\ j >= 1)) \in BOOLEAN
  OBVIOUS
<1> HIDE DEF logged
<1>5. AfterSome(ids, d, j) \in ModemState
  BY <1>2, <1>3, <1>4, ModemStateIs
<1>6. 1..(0 - NDebug(ids)) = {}
  BY <1>1
<1>7. AfterSome(ids, d, 0) = [ids |-> {}, debug |-> d]
  <2>1. (d \/ (ModemDebugId \in ids /\ 0 >= 1)) = d
    <3>1. ~(0 >= 1)
      OBVIOUS
    <3> QED BY <3>1
  <2>2. UNION {G[k] : k \in 1..(0 - NDebug(ids))} = {}
    BY <1>6
  <2> QED BY <2>1, <2>2 DEF AfterSome, G
<1> QED BY <1>5, <1>7

LEMMA NDebugIs ==
  ASSUME NEW ids
  PROVE  NDebug(ids) \in {0, 1} /\ (NDebug(ids) = 1 <=> ModemDebugId \in ids)
BY DEF NDebug

(* One command leads from what is logged after j - 1 of them to what is     *)
(* logged after j: the groups have equipment ids of their own.             *)
LEMMA AfterSomeNext ==
  ASSUME NEW ids \in SUBSET Nat, TypesFit(ids), NEW d \in BOOLEAN,
         NEW j \in 1..Len(LogConfigMsgs(ids))
  PROVE  Obeyed(AfterSome(ids, d, j - 1), LogConfigMsgs(ids)[j]) = AfterSome(ids, d, j)
<1> DEFINE G == MaskGroups(ids)
           n == Len(G)
           c == NDebug(ids)
           m == AfterSome(ids, d, j - 1)
           cmd == LogConfigMsgs(ids)[j]
           debug(i) == d \/ (ModemDebugId \in ids /\ i >= 1)
           logged(i) == UNION {G[k] : k \in 1..(i - c)}
<1>1. /\ c \in {0, 1} /\ G \in Seq(SUBSET MaskedIds(ids)) /\ n \in Nat
      /\ Len(LogConfigMsgs(ids)) = c + n
      /\ c = 1 <=> ModemDebugId \in ids
      /\ c = 1 => LogConfigMsgs(ids)[1] = DebugWcdma
      /\ \A k \in 1..n : LogConfigMsgs(ids)[c + k] = SetMask(G[k]) /\ MaskGroup(G[k])
  BY LogConfigMsgsAre, NDebugIs
<1>2. /\ \A i : AfterSome(ids, d, i) = [ids |-> logged(i), debug |-> debug(i)]
      /\ m = [ids |-> logged(j - 1), debug |-> debug(j - 1)]
  BY DEF AfterSome
<1>3. m \in ModemState /\ j \in Nat /\ j <= c + n /\ j >= 1
  <2>1. j - 1 \in Nat /\ j - 1 <= Len(LogConfigMsgs(ids))
    BY <1>1
  <2> QED BY <1>1, <2>1, AfterSomeType
<1>4. MaskedIds(ids) \in SUBSET Nat
  BY DEF MaskedIds
<1>5. \A a, b \in 1..n : a # b => \A x \in G[a], y \in G[b] : EquipId(x) # EquipId(y)
  BY <1>4, GroupsOfTypeIds DEF MaskGroups
<1> HIDE DEF G, n, c, m, debug, logged
<1>6. CASE j <= c
  <2>1. c = 1 /\ j = 1 /\ ModemDebugId \in ids
    BY <1>1, <1>3, <1>6
  <2>2. cmd = DebugWcdma
    BY <1>1, <2>1
  <2>3. Obeyed(m, cmd) = [ids |-> m.ids, debug |-> TRUE]
    BY <1>3, <2>2, PlainIsObeyed
  <2>4. logged(j - 1) = logged(j)
    <3>1. 1..(j - 1 - c) = {} /\ 1..(j - c) = {}
      BY <2>1
    <3> QED BY <3>1 DEF logged
  <2>5. debug(j) = TRUE
    BY <2>1 DEF debug
  <2>6. m.ids = logged(j - 1)
    BY <1>2
  <2> QED BY <1>2, <2>3, <2>4, <2>5, <2>6 DEF cmd
<1>7. CASE ~(j <= c)
  <2> DEFINE k == j - c
  <2>1. k \in 1..n /\ j = c + k /\ j - 1 - c = k - 1 /\ k - 1 \in Nat
    BY <1>1, <1>3, <1>7
  <2> HIDE DEF k
  <2>2. cmd = SetMask(G[k]) /\ MaskGroup(G[k])
    BY <1>1, <2>1
  <2>3. G[k] \in SUBSET Nat
    BY <1>1, <1>4, <2>1, ElementOfSeq DEF n
  <2>4. PICK e \in 0..15 : \A i \in G[k] : EquipId(i) = e
    BY <2>2 DEF MaskGroup
  <2>5. Obeyed(m, cmd) = [ids |-> {i \in m.ids : EquipId(i) # e} \cup G[k], debug |-> m.debug]
    BY <1>3, <2>2, <2>3, <2>4, MaskIsObeyed DEF MaskGroup, ModemState
  <2>6. \A i \in logged(j - 1) : EquipId(i) # e
    <3>1. PICK y \in G[k] : TRUE
      BY <2>2 DEF MaskGroup
    <3>2. ASSUME NEW a \in 1..(k - 1), NEW i \in G[a] PROVE EquipId(i) # e
      <4>1. a \in 1..n /\ a # k
        BY <1>1, <2>1
      <4> QED BY <1>5, <2>1, <2>4, <3>1, <3>2, <4>1
    <3> QED BY <2>1, <3>2 DEF logged
  <2>7. logged(j) = logged(j - 1) \cup G[k]
    <3>1. 1..k = 1..(k - 1) \cup {k}
      BY <2>1
    <3>2. logged(j) = UNION {G[a] : a \in 1..k} /\ logged(j - 1) = UNION {G[a] : a \in 1..(k - 1)}
      BY <2>1 DEF logged, k
    <3> QED BY <3>1, <3>2
  <2>8. debug(j) = debug(j - 1)
    <3>1. CASE c = 1
      <4>1. j >= 1 /\ j - 1 >= 1
        BY <1>1, <1>3, <1>7, <3>1
      <4> QED BY <4>1 DEF debug
    <3>2. CASE c # 1
      BY <1>1, <3>2 DEF debug
    <3> QED BY <3>1, <3>2
  <2>9. {i \in m.ids : EquipId(i) # e} = logged(j - 1) /\ m.debug = debug(j - 1)
    BY <1>2, <2>6
  <2> QED BY <1>2, <2>5, <2>7, <2>8, <2>9 DEF m, cmd
<1> QED BY <1>6, <1>7

(* After all of them it logs exactly the ids, and sends debug messages if   *)
(* it did before or they are asked for.                                    *)
LEMMA AfterAll ==
  ASSUME NEW ids \in SUBSET Nat, TypesFit(ids), NEW d \in BOOLEAN
  PROVE  LET m == AfterSome(ids, d, Len(LogConfigMsgs(ids))) IN
         m.ids = ids \ {ModemDebugId} /\ m.debug = (d \/ ModemDebugId \in ids)
<1> DEFINE n == Len(MaskGroups(ids))
           c == NDebug(ids)
<1>1. /\ c \in {0, 1} /\ n \in Nat /\ Len(LogConfigMsgs(ids)) = c + n
      /\ c = 1 <=> ModemDebugId \in ids
  BY LogConfigMsgsAre, NDebugIs
<1>2. MaskedIds(ids) = UNION {MaskGroups(ids)[k] : k \in 1..n}
  <2>1. MaskedIds(ids) \in SUBSET Nat
    BY DEF MaskedIds
  <2> QED BY <2>1, GroupsOfTypeIds DEF MaskGroups
<1> HIDE DEF n, c
<1>3. (c + n) - c = n /\ (c = 1 => c + n >= 1)
  BY <1>1
<1>4. AfterSome(ids, d, c + n) =
        [ids   |-> UNION {MaskGroups(ids)[k] : k \in 1..((c + n) - c)},
         debug |-> d \/ (ModemDebugId \in ids /\ c + n >= 1)]
  BY DEF AfterSome, c
<1>5. AfterSome(ids, d, c + n).ids = MaskedIds(ids)
  BY <1>2, <1>3, <1>4
<1>6. AfterSome(ids, d, c + n).debug = (d \/ ModemDebugId \in ids)
  <2>1. (ModemDebugId \in ids /\ c + n >= 1) <=> ModemDebugId \in ids
    BY <1>1, <1>3
  <2>2. AfterSome(ids, d, c + n).debug = (d \/ (ModemDebugId \in ids /\ c + n >= 1))
    BY <1>4
  <2> QED BY <2>1, <2>2
<1> QED BY <1>1, <1>5, <1>6 DEF MaskedIds

(* What a modem does with a sequence of commands: the states it passes.    *)
LEMMA ObeyedAllIs ==
  ASSUME NEW n \in Nat, NEW cmds, Len(cmds) = n, NEW g, NEW m, g[0] = m,
         \A i \in 1..n : g[i] = Obeyed(g[i - 1], cmds[i])
  PROVE  ObeyedAll(m, cmds) = g[n]
<1> DEFINE Unfolds(a) == a = [k \in 0..n |-> IF k = 0 THEN m ELSE Obeyed(a[k - 1], cmds[k])]
           after == CHOOSE a : Unfolds(a)
<1>1. ObeyedAll(m, cmds) = after[n]
  BY Zenon DEF ObeyedAll
<1>2. \E a : Unfolds(a)
  <2> DEFINE a == [k \in 0..n |-> g[k]]
  <2>1. \A k \in 0..n : k # 0 => k \in 1..n /\ k - 1 \in 0..n
    OBVIOUS
  <2>2. ASSUME NEW k \in 0..n
        PROVE  a[k] = IF k = 0 THEN m ELSE Obeyed(a[k - 1], cmds[k])
    BY <2>1
  <2>3. Unfolds(a)
    BY <2>2
  <2> QED BY <2>3
<1>3. Unfolds(after)
  BY <1>2, Zenon
<1> HIDE DEF after
<1>4. after[0] = m /\ \A k \in 1..n : after[k] = Obeyed(after[k - 1], cmds[k])
  BY <1>3
<1> HIDE DEF Unfolds
<1> DEFINE T == {k \in 0..n : after[k] = g[k]}
<1>5. 0..n \subseteq T
  <2>1. 0 \in T
    BY <1>4
  <2>2. \A k \in 1..n : k - 1 \in T => k \in T
    BY <1>4
  <2> HIDE DEF T
  <2> QED BY <2>1, <2>2, InductionUpTo
<1>6. n \in T
  <2>1. n \in 0..n
    OBVIOUS
  <2> HIDE DEF T
  <2> QED BY <1>5, <2>1
<1> QED BY <1>1, <1>6

(* A modem that has obeyed a Diag.cfg logs exactly the ids it was written  *)
(* for, whatever it logged before.                                         *)
LEMMA DiagCfgIsObeyed ==
  ASSUME NEW ids \in SUBSET Nat, TypesFit(ids), NEW m \in ModemState
  PROVE  LET after == ObeyedAll(m, DiagCfg(ids)) IN
         after \in ModemState /\ LogsExactly(after, ids)
<1> DEFINE msgs == LogConfigMsgs(ids)
           l == Len(msgs)
           A(j) == AfterSome(ids, FALSE, j)
           cmds == DiagCfg(ids)
           g == [i \in 0..(l + 15) |->
                   IF i <= 12 THEN m
                   ELSE IF i = 13 THEN [ids |-> m.ids, debug |-> FALSE]
                   ELSE IF i <= 14 + l THEN A(i - 14)
                   ELSE A(l)]
<1>1. l \in Nat /\ msgs \in Seq(Commands)
  <2>1. msgs \in Seq(Commands)
    BY LogConfigMsgsAre
  <2> QED BY <2>1, LenProperties
<1>2. \A op \in PlainOps : Simple(op) \in Commands
  BY DEF Commands
<1>3. cmds = Headers \o <<DisableDebug, Disable>> \o msgs \o Ends
  BY DEF DiagCfg
<1> HIDE DEF msgs, l, cmds
<1>4. /\ Headers \in Seq(Commands) /\ Len(Headers) = 12
      /\ \A i \in 1..12 : Headers[i] = Simple("DIAG_BEGIN")
  <2>1. Simple("DIAG_BEGIN") \in Commands
    BY <1>2 DEF PlainOps
  <2> HIDE DEF Commands
  <2> QED BY <2>1 DEF Headers
<1>5. /\ <<DisableDebug, Disable>> \in Seq(Commands)
      /\ Ends \in Seq(Commands) /\ Len(Ends) = 1 /\ Ends[1] = Simple("DIAG_END")
  <2>1. DisableDebug \in Commands /\ Disable \in Commands /\ Simple("DIAG_END") \in Commands
    BY <1>2 DEF PlainOps, DisableDebug, Disable
  <2> HIDE DEF Commands
  <2> QED BY <2>1 DEF Ends
<1> DEFINE two == <<DisableDebug, Disable>>
<1>6. two \in Seq(Commands) /\ Len(two) = 2 /\ two[1] = DisableDebug /\ two[2] = Disable
  BY <1>5
<1> HIDE DEF two
<1> DEFINE head == Headers \o two
           most == head \o msgs
<1>7. /\ head \in Seq(Commands) /\ Len(head) = 14
      /\ \A i \in 1..14 : head[i] = IF i <= 12 THEN Headers[i] ELSE two[i - 12]
  <2>1. /\ head \in Seq(Commands) /\ Len(head) = Len(Headers) + Len(two)
        /\ \A i \in 1..(Len(Headers) + Len(two)) :
              head[i] = IF i <= Len(Headers) THEN Headers[i] ELSE two[i - Len(Headers)]
    BY <1>4, <1>6, ConcatProperties
  <2>2. Len(head) = 14
    BY <1>4, <1>6, <2>1
  <2>3. \A i \in 1..14 : head[i] = IF i <= 12 THEN Headers[i] ELSE two[i - 12]
    <3> HIDE DEF head
    <3> QED BY ONLY <1>4, <1>6, <2>1
  <2> QED BY <2>1, <2>2, <2>3
<1> HIDE DEF head
<1>8. /\ most \in Seq(Commands) /\ Len(most) = 14 + l
      /\ \A i \in 1..(14 + l) : most[i] = IF i <= 14 THEN head[i] ELSE msgs[i - 14]
  <2>1. /\ most \in Seq(Commands) /\ Len(most) = Len(head) + Len(msgs)
        /\ \A i \in 1..(Len(head) + Len(msgs)) :
              most[i] = IF i <= Len(head) THEN head[i] ELSE msgs[i - Len(head)]
    BY <1>1, <1>7, ConcatProperties
  <2> QED BY <1>1, <1>7, <2>1 DEF l
<1>9. cmds = most \o Ends
  BY <1>3 DEF most, head, two
<1> HIDE DEF most
<1>10. /\ Len(cmds) = l + 15
       /\ \A i \in 1..(l + 15) : cmds[i] = IF i <= 14 + l THEN most[i] ELSE Ends[i - (14 + l)]
  <2>1. /\ Len(most \o Ends) = Len(most) + Len(Ends)
        /\ \A i \in 1..(Len(most) + Len(Ends)) :
              (most \o Ends)[i] = IF i <= Len(most) THEN most[i] ELSE Ends[i - Len(most)]
    BY <1>5, <1>8, ConcatProperties
  <2> QED BY <1>1, <1>5, <1>8, <1>9, <2>1
<1>11. /\ \A j \in 0..l : A(j) \in ModemState
       /\ A(0) = [ids |-> {}, debug |-> FALSE]
  <2>1. \A j \in 0..l : j \in Nat /\ j <= Len(msgs)
    BY <1>1 DEF l
  <2>2. 0 \in 0..l
    BY <1>1
  <2> QED BY <2>1, <2>2, AfterSomeType DEF msgs
<1>12. ASSUME NEW j \in 1..l PROVE Obeyed(A(j - 1), msgs[j]) = A(j)
  BY AfterSomeNext DEF msgs, l
<1>13. /\ Obeyed(m, Simple("DIAG_BEGIN")) = m
       /\ Obeyed(m, DisableDebug) = [ids |-> m.ids, debug |-> FALSE]
       /\ Obeyed([ids |-> m.ids, debug |-> FALSE], Disable) = [ids |-> {}, debug |-> FALSE]
       /\ Obeyed(A(l), Simple("DIAG_END")) = A(l)
  <2>1. m.ids \in SUBSET Nat
    BY DEF ModemState
  <2>2. [ids |-> m.ids, debug |-> FALSE] \in ModemState
    BY <2>1, ModemStateIs
  <2>3. A(l) \in ModemState
    <3>1. l \in 0..l
      BY <1>1
    <3> QED BY <1>11, <3>1
  <2>4. Obeyed([ids |-> m.ids, debug |-> FALSE], Disable) = [ids |-> {}, debug |-> FALSE]
    BY <2>2, PlainIsObeyed
  <2>5. Obeyed(A(l), Simple("DIAG_END")) = A(l)
    BY <2>3, PlainIsObeyed
  <2> HIDE DEF A
  <2> QED BY <2>4, <2>5, PlainIsObeyed
<1> HIDE DEF A
<1>14. /\ g[0] = m /\ g[l + 15] = A(l)
       /\ \A i \in 0..12 : g[i] = m
       /\ g[13] = [ids |-> m.ids, debug |-> FALSE]
       /\ \A i \in 14..(14 + l) : g[i] = A(i - 14)
  BY <1>1
<1> HIDE DEF g
<1>15. ASSUME NEW i \in 1..(l + 15) PROVE g[i] = Obeyed(g[i - 1], cmds[i])
  <2>0. l \in Nat /\ i \in Nat /\ i >= 1 /\ i <= l + 15
    BY <1>1
  <2>1. CASE i <= 12
    <3>1. i \in 1..12 /\ i \in 0..12 /\ i - 1 \in 0..12 /\ i \in 1..14 /\ i \in 1..(14 + l)
      BY <2>0, <2>1
    <3>2. cmds[i] = most[i] /\ most[i] = head[i] /\ head[i] = Headers[i]
      BY <1>7, <1>8, <1>10, <2>1, <3>1
    <3>3. cmds[i] = Simple("DIAG_BEGIN")
      BY <1>4, <3>1, <3>2
    <3> QED BY <1>13, <1>14, <3>1, <3>3
  <2>2. CASE i = 13
    <3>1. cmds[i] = DisableDebug
      <4>1. i \in 1..14 /\ i \in 1..(14 + l) /\ i <= 14 /\ i <= 14 + l /\ ~(i <= 12)
            /\ i - 12 = 1
        BY <2>0, <2>2
      <4>2. cmds[i] = most[i] /\ most[i] = head[i]
        BY <1>8, <1>10, <2>0, <4>1
      <4>3. head[i] = two[1]
        BY <1>7, <4>1
      <4> QED BY <1>6, <4>2, <4>3
    <3>2. g[i - 1] = m /\ g[i] = [ids |-> m.ids, debug |-> FALSE]
      <4>1. i - 1 = 12 /\ 12 \in 0..12
        BY <2>2
      <4> QED BY <1>14, <2>2, <4>1
    <3> QED BY <1>13, <3>1, <3>2
  <2>3. CASE i = 14
    <3>1. cmds[i] = Disable
      <4>1. i \in 1..14 /\ i \in 1..(14 + l) /\ i <= 14 /\ i <= 14 + l /\ ~(i <= 12)
            /\ i - 12 = 2
        BY <2>0, <2>3
      <4>2. cmds[i] = most[i] /\ most[i] = head[i]
        BY <1>8, <1>10, <2>0, <4>1
      <4>3. head[i] = two[2]
        BY <1>7, <4>1
      <4> QED BY <1>6, <4>2, <4>3
    <3>2. g[14] = A(0)
      BY <1>1, <1>14
    <3>3. g[i - 1] = [ids |-> m.ids, debug |-> FALSE] /\ g[i] = A(0)
      <4>1. i - 1 = 13
        BY <2>3
      <4> QED BY <1>14, <2>3, <3>2, <4>1
    <3>4. g[i] = [ids |-> {}, debug |-> FALSE]
      BY <1>11, <3>3
    <3> QED BY <1>13, <3>1, <3>3, <3>4
  <2>4. CASE i > 14 /\ i <= 14 + l
    <3>1. i - 14 \in 1..l /\ i \in 14..(14 + l) /\ i - 1 \in 14..(14 + l)
          /\ (i - 1) - 14 = (i - 14) - 1 /\ i \in 1..(14 + l) /\ ~(i <= 14)
      BY <2>0, <2>4
    <3>2. cmds[i] = msgs[i - 14]
      BY <1>8, <1>10, <2>4, <3>1
    <3> QED BY <1>12, <1>14, <3>1, <3>2
  <2>5. CASE i > 14 + l
    <3>1. i = l + 15 /\ i - 1 = 14 + l /\ (14 + l) - 14 = l /\ 14 + l \in 14..(14 + l)
          /\ i - (14 + l) = 1 /\ ~(i <= 14 + l)
      BY <2>0, <2>5
    <3>2. cmds[i] = Simple("DIAG_END")
      BY <1>5, <1>10, <3>1
    <3>3. g[i - 1] = A(l)
      BY <1>14, <3>1
    <3> QED BY <1>13, <1>14, <3>1, <3>2, <3>3
  <2> QED BY <2>0, <2>1, <2>2, <2>3, <2>4, <2>5
<1>16. ObeyedAll(m, cmds) = A(l)
  <2>1. l + 15 \in Nat
    BY <1>1
  <2> QED BY <1>10, <1>14, <1>15, <2>1, ObeyedAllIs
<1>17. A(l) \in ModemState
  <2>1. l \in 0..l
    BY <1>1
  <2> QED BY <1>11, <2>1
<1>18. LogsExactly(A(l), ids)
  <2>1. A(l).ids = ids \ {ModemDebugId} /\ A(l).debug = (FALSE \/ ModemDebugId \in ids)
    BY AfterAll DEF A, l, msgs
  <2> QED BY <2>1 DEF LogsExactly
<1> QED BY <1>16, <1>17, <1>18 DEF cmds
=============================================================================
