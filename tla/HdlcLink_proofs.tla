--------------------------- MODULE HdlcLink_proofs ---------------------------
(***************************************************************************)
(* Theorems about HdlcLink, for all payloads, all sizes of reads, any      *)
(* number of damaged frames and every checksum of 16 bits.  What stands    *)
(* behind the last delimiter of a damaged frame is left open, and whatever *)
(* comes next is read together with it; so the bytes between the writer    *)
(* and the reader are, one behind the other, frames that were written      *)
(* intact and broken ones, and LinkInv says that the reader has taken the  *)
(* intact ones that stood in front of them.                                *)
(***************************************************************************)
EXTENDS HdlcLink, Encoding_proofs

-----------------------------------------------------------------------------
(* Three sequences of bytes.                                               *)
LEMMA ThreeConcat ==
  \A s, t, u \in Seq(Byte) : (s \o t) \o u = s \o (t \o u)
BY ConcatAssociative

(* The first frame of a buffer is the first frame of whatever the buffer is *)
(* the beginning of.                                                       *)
LEMMA FirstFrame ==
  ASSUME NEW buf \in Seq(Byte), NEW more \in Seq(Byte), HasFrame(buf)
  PROVE  /\ HasFrame(buf \o more)
         /\ RawFrame(buf \o more) = RawFrame(buf)
         /\ AfterFrame(buf \o more) = AfterFrame(buf) \o more
         /\ AfterFrame(buf) \in Seq(Byte)
<1> DEFINE all == buf \o more
           n == FrameEnd(buf)
<1>1. /\ Len(buf) \in Nat /\ Len(more) \in Nat
      /\ DOMAIN buf = 1..Len(buf)
  BY LenProperties
<1>2. /\ all \in Seq(Byte) /\ Len(all) = Len(buf) + Len(more)
      /\ \A i \in 1..(Len(buf) + Len(more)) :
            all[i] = IF i <= Len(buf) THEN buf[i] ELSE more[i - Len(buf)]
  BY ConcatProperties
<1> HIDE DEF all
<1>3. n \in 1..Len(buf) /\ buf[n] = DELIM /\ \A j \in 1..(n - 1) : buf[j] # DELIM
  BY FrameEndIsFirst
<1> HIDE DEF n
<1>4. \A i \in 1..Len(buf) : all[i] = buf[i] /\ i \in 1..Len(all)
  BY <1>1, <1>2
<1>5. HasFrame(all)
  <2>1. DOMAIN all = 1..Len(all)
    BY <1>2, LenProperties
  <2> QED BY <1>3, <1>4, <2>1 DEF HasFrame
<1>6. FrameEnd(all) = n
  <2>1. /\ FrameEnd(all) \in 1..Len(all) /\ all[FrameEnd(all)] = DELIM
        /\ \A j \in 1..(FrameEnd(all) - 1) : all[j] # DELIM
    BY <1>2, <1>5, FrameEndIsFirst
  <2>2. FrameEnd(all) \notin 1..(n - 1)
    <3>1. \A j \in 1..(n - 1) : j \in 1..Len(buf)
      BY <1>1, <1>3
    <3> QED BY <1>3, <1>4, <2>1, <3>1
  <2>3. n \notin 1..(FrameEnd(all) - 1)
    BY <1>3, <1>4, <2>1
  <2> QED BY <1>1, <1>2, <1>3, <2>1, <2>2, <2>3
<1>7. RawFrame(all) = RawFrame(buf)
  <2> DEFINE r == SubSeq(all, 1, n - 1)
             t == SubSeq(buf, 1, n - 1)
  <2>1. /\ n - 1 \in Nat /\ 1 <= (n - 1) + 1 /\ n - 1 <= Len(buf) /\ n - 1 <= Len(all)
        /\ (n - 1) - 1 + 1 = n - 1 /\ \A i \in 1..(n - 1) : 1 + i - 1 = i /\ i \in 1..Len(buf)
    BY <1>1, <1>2, <1>3
  <2>2. r \in Seq(Byte) /\ Len(r) = n - 1 /\ \A i \in 1..(n - 1) : r[i] = all[i]
    <3>1. /\ r \in Seq(Byte) /\ Len(r) = (n - 1) - 1 + 1
          /\ \A i \in 1..((n - 1) - 1 + 1) : r[i] = all[1 + i - 1]
      BY <1>2, <2>1, Stretch
    <3> HIDE DEF r
    <3> QED BY <2>1, <3>1
  <2>3. t \in Seq(Byte) /\ Len(t) = n - 1 /\ \A i \in 1..(n - 1) : t[i] = buf[i]
    <3>1. /\ t \in Seq(Byte) /\ Len(t) = (n - 1) - 1 + 1
          /\ \A i \in 1..((n - 1) - 1 + 1) : t[i] = buf[1 + i - 1]
      BY <2>1, Stretch
    <3> HIDE DEF t
    <3> QED BY <2>1, <3>1
  <2> HIDE DEF r, t
  <2>4. \A i \in 1..(n - 1) : r[i] = t[i]
    BY <1>4, <2>1, <2>2, <2>3
  <2>5. r = t
    BY <2>2, <2>3, <2>4, SeqEqual
  <2> QED BY <1>6, <2>5 DEF r, t, RawFrame, n
<1>8. AfterFrame(all) = AfterFrame(buf) \o more /\ AfterFrame(buf) \in Seq(Byte)
  <2> DEFINE r == SubSeq(all, n + 1, Len(all))
             t == SubSeq(buf, n + 1, Len(buf))
             k == Len(buf) - n
  <2>1. /\ n \in Nat /\ n + 1 \in Nat \ {0} /\ n + 1 <= Len(buf) + 1 /\ Len(buf) <= Len(buf)
        /\ n + 1 <= Len(all) + 1 /\ Len(all) <= Len(all) /\ Len(all) \in Nat
        /\ k \in Nat /\ Len(buf) - (n + 1) + 1 = k
        /\ Len(all) - (n + 1) + 1 = k + Len(more)
        /\ \A i \in 1..(k + Len(more)) : (n + 1) + i - 1 = n + i
    BY <1>1, <1>2, <1>3
  <2>2. /\ r \in Seq(Byte) /\ Len(r) = k + Len(more)
        /\ \A i \in 1..(k + Len(more)) : r[i] = all[n + i]
    <3>1. /\ r \in Seq(Byte) /\ Len(r) = Len(all) - (n + 1) + 1
          /\ \A i \in 1..(Len(all) - (n + 1) + 1) : r[i] = all[(n + 1) + i - 1]
      BY <1>2, <2>1, Stretch
    <3> HIDE DEF r
    <3> QED BY <2>1, <3>1
  <2>3. t \in Seq(Byte) /\ Len(t) = k /\ \A i \in 1..k : t[i] = buf[n + i]
    <3>1. /\ t \in Seq(Byte) /\ Len(t) = Len(buf) - (n + 1) + 1
          /\ \A i \in 1..(Len(buf) - (n + 1) + 1) : t[i] = buf[(n + 1) + i - 1]
      <4> DEFINE from == n + 1
                 end == Len(buf)
      <4>1. from \in Nat \ {0} /\ end \in Nat /\ from <= end + 1 /\ end <= Len(buf)
        BY <1>1, <2>1
      <4> HIDE DEF from, end
      <4>2. /\ SubSeq(buf, from, end) \in Seq(Byte)
            /\ Len(SubSeq(buf, from, end)) = end - from + 1
            /\ \A i \in 1..(end - from + 1) : SubSeq(buf, from, end)[i] = buf[from + i - 1]
        BY <4>1, Stretch
      <4> QED BY <4>2 DEF from, end
    <3>2. \A i \in 1..k : i \in 1..(k + Len(more))
      BY <1>1, <2>1
    <3> HIDE DEF t
    <3> QED BY <2>1, <3>1, <3>2
  <2> HIDE DEF r, t
  <2>4. /\ t \o more \in Seq(Byte) /\ Len(t \o more) = k + Len(more)
        /\ \A i \in 1..(k + Len(more)) :
              (t \o more)[i] = IF i <= k THEN t[i] ELSE more[i - k]
    <3>1. /\ t \o more \in Seq(Byte) /\ Len(t \o more) = Len(t) + Len(more)
          /\ \A i \in 1..(Len(t) + Len(more)) :
                (t \o more)[i] = IF i <= Len(t) THEN t[i] ELSE more[i - Len(t)]
      BY <2>3, ConcatProperties
    <3> QED BY <2>3, <3>1
  <2>5. ASSUME NEW i \in 1..(k + Len(more)) PROVE r[i] = (t \o more)[i]
    <3>1. /\ n + i \in 1..(Len(buf) + Len(more)) /\ (n + i <= Len(buf) <=> i <= k)
          /\ (n + i) - Len(buf) = i - k /\ (i <= k => i \in 1..k)
      BY <1>1, <1>3, <2>1
    <3>2. all[n + i] = IF i <= k THEN buf[n + i] ELSE more[i - k]
      BY <1>2, <3>1
    <3> QED BY <2>2, <2>3, <2>4, <3>1, <3>2
  <2>6. r = t \o more
    BY <2>2, <2>4, <2>5, SeqEqual
  <2> QED BY <1>6, <2>3, <2>6 DEF r, t, AfterFrame, n
<1> QED BY <1>5, <1>7, <1>8 DEF all

(* A buffer that starts with some bytes and the first delimiter has them as *)
(* its first frame.                                                        *)
LEMMA FirstRaw ==
  ASSUME NEW raw \in Seq(NoDelim), NEW rest \in Seq(Byte),
         NEW buf, buf = (raw \o <<DELIM>>) \o rest
  PROVE  HasFrame(buf) /\ RawFrame(buf) = raw /\ AfterFrame(buf) = rest
<1> DEFINE m == Len(raw)
           w == raw \o <<DELIM>>
<1>1. /\ raw \in Seq(Byte) /\ <<DELIM>> \in Seq(Byte) /\ m \in Nat
      /\ \A i \in 1..m : raw[i] # DELIM
  <2>1. NoDelim \subseteq Byte /\ \A i \in 1..m : raw[i] \in NoDelim
    BY ElementOfSeq DEF NoDelim
  <2>2. <<DELIM>> \in Seq(Byte)
    BY DEF DELIM, Byte
  <2> QED BY <2>1, <2>2, SeqMonotonic, LenProperties DEF NoDelim
<1>2. /\ w \in Seq(Byte) /\ Len(w) = m + 1 /\ w[m + 1] = DELIM
      /\ \A i \in 1..m : w[i] = raw[i]
  <2>1. DELIM \in Byte /\ w = Append(raw, DELIM)
    BY <1>1, AppendIsConcat DEF DELIM, Byte
  <2> QED BY <1>1, <2>1, AppendProperties
<1>3. SubSeq(w, 1, m) = raw
  <2>1. m \in 0..m
    BY <1>1
  <2>2. SubSeq(w, 1, m) = SubSeq(raw, 1, m)
    BY <1>1, <2>1, TakenFromFront
  <2>3. SubSeq(raw, 1, m) = raw
    BY <1>1, SubSeqFull
  <2> QED BY <2>2, <2>3
<1> HIDE DEF w, m
<1>4. HasFrame(w)
  <2>1. m + 1 \in DOMAIN w
    BY <1>1, <1>2, LenProperties
  <2> QED BY <1>2, <2>1 DEF HasFrame
<1>5. FrameEnd(w) = m + 1
  <2>1. /\ FrameEnd(w) \in 1..Len(w) /\ w[FrameEnd(w)] = DELIM
        /\ \A j \in 1..(FrameEnd(w) - 1) : w[j] # DELIM
    BY <1>2, <1>4, FrameEndIsFirst
  <2>2. FrameEnd(w) \notin 1..m
    BY <1>1, <1>2, <2>1
  <2> QED BY <1>1, <1>2, <2>1, <2>2
<1>6. RawFrame(w) = raw
  <2>1. (m + 1) - 1 = m
    BY <1>1
  <2> QED BY <1>3, <1>5, <2>1 DEF RawFrame
<1>7. AfterFrame(w) = <<>>
  <2>1. m + 1 \in 0..Len(w) /\ Len(w) - (m + 1) = 0
    BY <1>1, <1>2
  <2>2. /\ SubSeq(w, (m + 1) + 1, Len(w)) \in Seq(Byte)
        /\ Len(SubSeq(w, (m + 1) + 1, Len(w))) = Len(w) - (m + 1)
    <3> DEFINE k == m + 1
    <3>1. k \in 0..Len(w)
      BY <2>1
    <3> HIDE DEF k
    <3>2. /\ SubSeq(w, k + 1, Len(w)) \in Seq(Byte)
          /\ Len(SubSeq(w, k + 1, Len(w))) = Len(w) - k
      BY <1>2, <3>1, CutAt
    <3> QED BY <3>2 DEF k
  <2>3. SubSeq(w, (m + 1) + 1, Len(w)) = <<>>
    BY <2>1, <2>2, EmptySeq
  <2> QED BY <1>5, <2>3 DEF AfterFrame
<1>8. buf = w \o rest
  BY DEF w
<1>9. <<>> \o rest = rest
  BY ConcatEmptySeq
<1> QED BY <1>2, <1>4, <1>6, <1>7, <1>8, <1>9, FirstFrame

-----------------------------------------------------------------------------
(* The stretch of bytes that is open in front of a byte: from behind the   *)
(* last delimiter.                                                         *)

(* Nothing is open in front of the first byte.                             *)
LEMMA OpenAtFirst ==
  ASSUME NEW d \in Seq(Byte)
  PROVE  FrameStart(d, 1) = 1 /\ FrameEndingAt(d, 1) = <<>>
<1>1. 1 \in 1..1 /\ \A i \in 1..(1 - 1) : d[i] # DELIM
  OBVIOUS
<1>2. FrameStart(d, 1) = 1
  BY <1>1, FrameStartIs
<1>3. SubSeq(d, 1, 0) \in Seq(Byte) /\ Len(SubSeq(d, 1, 0)) = 0
  <2>1. 1 \in Nat \ {0} /\ 0 \in Nat /\ 1 <= 0 + 1 /\ 0 <= Len(d) /\ 0 - 1 + 1 = 0
    BY LenProperties
  <2> QED BY <2>1, Stretch
<1>4. SubSeq(d, 1, 0) = <<>>
  BY <1>3, EmptySeq
<1> QED BY <1>2, <1>4 DEF FrameEndingAt

(* The open stretch holds no delimiter.                                    *)
LEMMA OpenType ==
  ASSUME NEW d \in Seq(Byte), NEW e \in 1..(Len(d) + 1)
  PROVE  /\ FrameEndingAt(d, e) \in Seq(NoDelim)
         /\ FrameStart(d, e) \in 1..e /\ Len(FrameEndingAt(d, e)) = e - FrameStart(d, e)
         /\ \A i \in 1..(e - FrameStart(d, e)) :
               FrameEndingAt(d, e)[i] = d[FrameStart(d, e) + i - 1]
<1>1. PICK s \in 1..e : /\ s = 1 \/ d[s - 1] = DELIM
                        /\ \A i \in s..(e - 1) : d[i] # DELIM
  <2>1. e \in Nat \ {0}
    BY LenProperties
  <2> QED BY <2>1, FrameStartExists
<1>2. FrameStart(d, e) = s
  <2>1. e \in Nat
    BY LenProperties
  <2> QED BY <1>1, <2>1, FrameStartIs
<1> DEFINE t == SubSeq(d, s, e - 1)
           n == e - 1
<1>3. /\ s \in Nat \ {0} /\ n \in Nat /\ s <= n + 1 /\ n <= Len(d) /\ n - s + 1 = e - s
  BY LenProperties
<1>4. /\ t \in Seq(Byte) /\ Len(t) = e - s
      /\ \A i \in 1..(e - s) : t[i] = d[s + i - 1]
  <2>1. /\ SubSeq(d, s, n) \in Seq(Byte) /\ Len(SubSeq(d, s, n)) = n - s + 1
        /\ \A i \in 1..(n - s + 1) : SubSeq(d, s, n)[i] = d[s + i - 1]
    <3> HIDE DEF n
    <3> QED BY <1>3, Stretch
  <2> HIDE DEF t
  <2> QED BY <1>3, <2>1 DEF t
<1> HIDE DEF t
<1>5. \A i \in 1..(e - s) : t[i] \in NoDelim
  <2> SUFFICES ASSUME NEW i \in 1..(e - s) PROVE t[i] \in NoDelim
    OBVIOUS
  <2>1. s + i - 1 \in s..(e - 1) /\ i \in 1..Len(t)
    BY <1>3, <1>4
  <2>2. t[i] \in Byte
    BY <1>4, <2>1, ElementOfSeq
  <2> QED BY <1>1, <1>4, <2>1, <2>2 DEF NoDelim
<1>6. t \in Seq(NoDelim)
  BY <1>4, <1>5, IsASeq
<1>7. FrameEndingAt(d, e) = t
  BY <1>2 DEF FrameEndingAt, t
<1> QED BY <1>2, <1>4, <1>6, <1>7

(* One byte later, the open stretch has this byte as well, or nothing.     *)
LEMMA OpenStep ==
  ASSUME NEW d \in Seq(Byte), NEW i \in 1..Len(d)
  PROVE  /\ d[i] = DELIM => FrameStart(d, i + 1) = i + 1 /\ FrameEndingAt(d, i + 1) = <<>>
         /\ d[i] # DELIM => /\ FrameStart(d, i + 1) = FrameStart(d, i)
                            /\ FrameEndingAt(d, i + 1) = FrameEndingAt(d, i) \o <<d[i]>>
<1>1. /\ i \in Nat \ {0} /\ i + 1 \in 1..(Len(d) + 1) /\ i \in 1..(Len(d) + 1)
      /\ Len(d) \in Nat /\ (i + 1) - 1 = i
  BY LenProperties
<1>2. CASE d[i] = DELIM
  <2>1. i + 1 \in 1..(i + 1) /\ d[(i + 1) - 1] = DELIM
        /\ \A k \in (i + 1)..((i + 1) - 1) : d[k] # DELIM
    BY <1>1, <1>2
  <2>2. FrameStart(d, i + 1) = i + 1
    <3>1. i + 1 \in Nat
      BY <1>1
    <3> QED BY <2>1, <3>1, FrameStartIs
  <2>3. FrameEndingAt(d, i + 1) \in Seq(NoDelim) /\ Len(FrameEndingAt(d, i + 1)) = 0
    <3>1. (i + 1) - (i + 1) = 0
      BY <1>1
    <3> QED BY <1>1, <2>2, <3>1, OpenType
  <2> QED BY <1>2, <2>2, <2>3, EmptySeq
<1>3. CASE d[i] # DELIM
  <2> DEFINE s == FrameStart(d, i)
             t == FrameEndingAt(d, i)
             u == FrameEndingAt(d, i + 1)
  <2>1. /\ s \in 1..i /\ t \in Seq(NoDelim) /\ Len(t) = i - s
        /\ \A k \in 1..(i - s) : t[k] = d[s + k - 1]
    BY <1>1, OpenType
  <2>2. /\ s = 1 \/ d[s - 1] = DELIM
        /\ \A k \in s..(i - 1) : d[k] # DELIM
    <3>1. PICK r \in 1..i : /\ r = 1 \/ d[r - 1] = DELIM
                            /\ \A k \in r..(i - 1) : d[k] # DELIM
      BY <1>1, FrameStartExists
    <3>2. s = r
      BY <1>1, <3>1, FrameStartIs
    <3> QED BY <3>1, <3>2
  <2> HIDE DEF s
  <2>3. FrameStart(d, i + 1) = s
    <3>1. s \in 1..(i + 1) /\ i + 1 \in Nat
      BY <1>1, <2>1
    <3>2. \A k \in s..((i + 1) - 1) : d[k] # DELIM
      <4>1. \A k \in s..((i + 1) - 1) : k = i \/ k \in s..(i - 1)
        BY <1>1, <2>1
      <4> QED BY <1>3, <2>2, <4>1
    <3> QED BY <2>2, <3>1, <3>2, FrameStartIs
  <2>4. /\ u \in Seq(NoDelim) /\ Len(u) = (i + 1) - s
        /\ \A k \in 1..((i + 1) - s) : u[k] = d[s + k - 1]
    BY <1>1, <2>3, OpenType
  <2> HIDE DEF t, u
  <2>5. d[i] \in NoDelim /\ <<d[i]>> \in Seq(NoDelim) /\ Len(<<d[i]>>) = 1
    <3>1. d[i] \in Byte
      BY ElementOfSeq
    <3>2. d[i] \in NoDelim
      BY <1>3, <3>1 DEF NoDelim
    <3> QED BY <3>2
  <2> DEFINE b == <<d[i]>>
  <2>6. b[1] = d[i]
    OBVIOUS
  <2>7. /\ t \o b \in Seq(NoDelim) /\ Len(t \o b) = Len(t) + Len(b)
        /\ \A k \in 1..(Len(t) + Len(b)) :
              (t \o b)[k] = IF k <= Len(t) THEN t[k] ELSE b[k - Len(t)]
    <3> HIDE DEF b
    <3>1. b \in Seq(NoDelim)
      BY <2>5 DEF b
    <3> QED BY <2>1, <3>1, ConcatProperties DEF t
  <2>8. Len(b) = 1
    BY <2>5
  <2> HIDE DEF b
  <2>9. \A k \in 1..((i + 1) - s) : u[k] = (t \o b)[k]
    <3> SUFFICES ASSUME NEW k \in 1..((i + 1) - s) PROVE u[k] = (t \o b)[k]
      OBVIOUS
    <3>1. Len(t) = i - s /\ k \in 1..(Len(t) + Len(b))
      BY <1>1, <2>1, <2>8 DEF t
    <3>2. CASE k = (i + 1) - s
      <4>1. s + k - 1 = i /\ ~(k <= Len(t)) /\ k - Len(t) = 1
        BY <1>1, <2>1, <3>1, <3>2
      <4> QED BY <2>4, <2>6, <2>7, <3>1, <4>1
    <3>3. CASE k # (i + 1) - s
      <4>1. k \in 1..(i - s) /\ k <= Len(t)
        BY <1>1, <2>1, <3>1, <3>3
      <4>2. t[k] = d[s + k - 1]
        BY <2>1, <4>1 DEF t
      <4> QED BY <2>4, <2>7, <3>1, <4>1, <4>2
    <3> QED BY <3>2, <3>3
  <2>10. Len(t \o b) = (i + 1) - s
    <3>1. Len(t) = i - s
      BY <2>1 DEF t
    <3> QED BY <1>1, <2>1, <2>7, <2>8, <3>1
  <2>11. u = t \o b
    BY <2>4, <2>7, <2>9, <2>10, SeqEqual
  <2> QED BY <1>3, <2>3, <2>11 DEF s, t, u, b
<1> QED BY <1>2, <1>3
-----------------------------------------------------------------------------
(* What the line makes of a frame *)

(* A payload is a sequence of bytes, and its frame is one, of two bytes at  *)
(* least and with its only delimiter at its end.                           *)
LEMMA PayloadBytes ==
  ASSUME Checksum16, NEW p \in Payloads
  PROVE  /\ p \in Seq(Byte) /\ p # <<>> /\ EncodeHdlcFrame(p) \in Seq(Byte)
         /\ Len(EncodeHdlcFrame(p)) > 1
         /\ Front(EncodeHdlcFrame(p)) \in Seq(NoDelim)
         /\ EncodeHdlcFrame(p) = Front(EncodeHdlcFrame(p)) \o <<DELIM>>
<1> DEFINE frame == EncodeHdlcFrame(p)
<1>1. p \in Seq(Byte) /\ p # <<>> /\ Is16Bits(Crc(p))
  BY HdlcLinkAssumption DEF HdlcLinkAssumption, Checksum16
<1>2. frame \in Seq(Byte)
  BY <1>1, EncodeType
<1>3. PICK body \in Seq(NoDelim) :
            /\ frame = body \o <<DELIM>>
            /\ Unescape(body) = p \o <<Crc(p) % 256, Crc(p) \div 256>>
  BY <1>1, EncodedBody
<1> HIDE DEF frame
<1>4. body \in Seq(Byte) /\ <<DELIM>> \in Seq(Byte) /\ Len(<<DELIM>>) = 1
  BY DEF NoDelim, DELIM, Byte
<1>5. body # <<>>
  <2> SUFFICES ASSUME body = <<>> PROVE FALSE
    OBVIOUS
  <2>1. Unescape(body) = <<>>
    <3>1. Len(body) = 0
      OBVIOUS
    <3>2. PICK out : Unescape(body) = out[Len(body)] /\ out[0] = <<>>
      BY <1>4, UnescapeSteps
    <3> QED BY <3>1, <3>2
  <2>2. <<Crc(p) % 256, Crc(p) \div 256>> \in Seq(Byte)
    BY <1>1, TwoBytes
  <2>3. Len(<<Crc(p) % 256, Crc(p) \div 256>>) = 2
    OBVIOUS
  <2> DEFINE c == <<Crc(p) % 256, Crc(p) \div 256>>
  <2> HIDE DEF c
  <2>4. Len(p \o c) = Len(p) + Len(c) /\ Len(p) \in Nat /\ Len(c) \in Nat
    BY <1>1, <2>2, ConcatProperties, LenProperties DEF c
  <2>5. Len(c) = 2 /\ p \o c = <<>>
    BY <1>3, <2>1, <2>3 DEF c
  <2>6. Len(p \o c) = 0
    BY <2>5
  <2> QED BY <2>4, <2>5, <2>6
<1>6. /\ Len(frame) = Len(body) + 1 /\ Len(body) \in Nat /\ Len(body) # 0
      /\ SubSeq(frame, 1, Len(body)) = body
  <2>1. Len(body) \in 0..Len(body) /\ Len(body) \in Nat
    BY <1>4, LenProperties
  <2>2. Len(frame) = Len(body) + Len(<<DELIM>>)
    BY <1>3, <1>4, ConcatProperties
  <2>3. SubSeq(frame, 1, Len(body)) = SubSeq(body, 1, Len(body))
    BY <1>3, <1>4, <2>1, TakenFromFront
  <2>4. SubSeq(body, 1, Len(body)) = body
    BY <1>4, SubSeqFull
  <2>5. Len(body) # 0
    BY <1>4, <1>5, EmptySeq
  <2> QED BY <1>4, <2>1, <2>2, <2>3, <2>4, <2>5
<1>7. Front(frame) = body
  <2>1. Len(frame) - 1 = Len(body)
    BY <1>6
  <2> QED BY <1>6, <2>1 DEF Front
<1>8. Len(frame) > 1
  BY <1>6
<1> QED BY <1>1, <1>2, <1>3, <1>7, <1>8 DEF frame

(* A frame that was damaged is still bytes, one at least.                  *)
LEMMA NoisyType ==
  ASSUME Checksum16, NEW d \in NoisyFrames
  PROVE  d \in Seq(Byte) /\ Len(d) \in Nat \ {0}
<1>1. PICK p \in Payloads : d \in Damaged(EncodeHdlcFrame(p))
  BY DEF NoisyFrames
<1> DEFINE frame == EncodeHdlcFrame(p)
<1>2. frame \in Seq(Byte) /\ Len(frame) > 1 /\ Len(frame) \in Nat /\ DOMAIN frame = 1..Len(frame)
  BY PayloadBytes, LenProperties
<1> HIDE DEF frame
<1>3. CASE \E i \in DOMAIN frame : d = RemoveAt(frame, i)
  <2>1. PICK i \in 1..Len(frame) : d = RemoveAt(frame, i)
    BY <1>2, <1>3
  <2> DEFINE n == i - 1
             m == i + 1
             a == SubSeq(frame, 1, n)
             b == SubSeq(frame, m, Len(frame))
  <2>2. /\ n \in Nat /\ m \in Nat \ {0} /\ 1 <= n + 1 /\ n <= Len(frame)
        /\ m <= Len(frame) + 1 /\ Len(frame) <= Len(frame) /\ 1 \in Nat \ {0}
        /\ n - 1 + 1 = n /\ Len(frame) - m + 1 = Len(frame) - i
    BY <1>2
  <2>3. a \in Seq(Byte) /\ Len(a) = n - 1 + 1
    <3> HIDE DEF n
    <3> QED BY <1>2, <2>2, Stretch
  <2>4. b \in Seq(Byte) /\ Len(b) = Len(frame) - m + 1
    <3> HIDE DEF m
    <3> QED BY <1>2, <2>2, Stretch
  <2>5. d = a \o b
    BY <2>1 DEF RemoveAt
  <2> HIDE DEF a, b
  <2>6. d \in Seq(Byte) /\ Len(d) = Len(a) + Len(b)
    BY <2>3, <2>4, <2>5, ConcatProperties
  <2> QED BY <1>2, <2>2, <2>3, <2>4, <2>6
<1>4. CASE \E i \in DOMAIN frame, b \in NoiseBytes : d = [frame EXCEPT ![i] = b]
  <2>1. PICK i \in 1..Len(frame), b \in NoiseBytes : d = [frame EXCEPT ![i] = b]
    BY <1>2, <1>4
  <2>2. b \in Byte
    BY HdlcLinkAssumption DEF HdlcLinkAssumption
  <2>3. d \in Seq(Byte) /\ Len(d) = Len(frame)
    BY <1>2, <2>1, <2>2, ExceptSeq
  <2> QED BY <1>2, <2>3
<1> QED BY <1>1, <1>3, <1>4 DEF Damaged, frame

(* What is left open holds no delimiter; nothing may be left open; another  *)
(* damaged frame may leave more bytes open, or only its own.               *)
LEMMA LeftOpenType ==
  ASSUME Checksum16, NEW n \in Int
  PROVE  /\ LeftOpen(n) \subseteq Seq(NoDelim)
         /\ n \in Nat => <<>> \in LeftOpen(n)
         /\ \A m \in Int : n <= m => LeftOpen(n) \subseteq LeftOpen(m)
<1> DEFINE open == {FrameEndingAt(d, Len(d) + 1) : d \in NoisyFrames}
           Left(k) == UNION {[1..i -> open] : i \in 0..k}
<1>1. open \subseteq Seq(NoDelim)
  <2> SUFFICES ASSUME NEW d \in NoisyFrames
               PROVE  FrameEndingAt(d, Len(d) + 1) \in Seq(NoDelim)
    OBVIOUS
  <2>1. d \in Seq(Byte) /\ Len(d) + 1 \in 1..(Len(d) + 1)
    BY NoisyType
  <2> QED BY <2>1, OpenType
<1>2. \A k : LeftOpen(k) = {FlattenSeq(s) : s \in Left(k)}
  BY DEF LeftOpen
<1> HIDE DEF open
<1>3. Left(n) \subseteq Seq(Seq(NoDelim))
  <2> SUFFICES ASSUME NEW i \in 0..n, NEW s \in [1..i -> open]
               PROVE  s \in Seq(Seq(NoDelim))
    OBVIOUS
  <2>1. s \in [1..i -> Seq(NoDelim)] /\ i \in Nat
    BY <1>1
  <2> QED BY <2>1, FunctionIsSeq
<1>4. n \in Nat => <<>> \in LeftOpen(n)
  <2> SUFFICES ASSUME n \in Nat PROVE <<>> \in LeftOpen(n)
    OBVIOUS
  <2>1. <<>> \in [1..0 -> open] /\ 0 \in 0..n
    OBVIOUS
  <2>2. <<>> \in Left(n)
    BY <2>1
  <2>3. FlattenSeq(<<>>) = <<>>
    <3>1. <<>> \in Seq(Seq(NoDelim))
      OBVIOUS
    <3> QED BY <3>1, FlattenAny
  <2> HIDE DEF Left
  <2> QED BY <1>2, <2>2, <2>3
<1>5. ASSUME NEW m \in Int, n <= m PROVE LeftOpen(n) \subseteq LeftOpen(m)
  <2>1. \A i \in 0..n : i \in 0..m
    BY <1>5
  <2>2. Left(n) \subseteq Left(m)
    BY <2>1
  <2> HIDE DEF Left
  <2> QED BY <1>2, <2>2
<1>6. LeftOpen(n) \subseteq Seq(NoDelim)
  <2>1. \A s \in Left(n) : FlattenSeq(s) \in Seq(NoDelim)
    <3> HIDE DEF Left
    <3> QED BY <1>3, FlattenAny
  <2> HIDE DEF Left
  <2> QED BY <1>2, <2>1
<1> QED BY <1>4, <1>5, <1>6

LEMMA LeftOpenGrows ==
  ASSUME Checksum16, NEW n \in Nat, NEW t \in LeftOpen(n), NEW d \in NoisyFrames
  PROVE  t \o FrameEndingAt(d, Len(d) + 1) \in LeftOpen(n + 1)
<1> DEFINE open == {FrameEndingAt(e, Len(e) + 1) : e \in NoisyFrames}
           Left(k) == UNION {[1..i -> open] : i \in 0..k}
           x == FrameEndingAt(d, Len(d) + 1)
<1>1. open \subseteq Seq(NoDelim)
  <2> SUFFICES ASSUME NEW e \in NoisyFrames
               PROVE  FrameEndingAt(e, Len(e) + 1) \in Seq(NoDelim)
    OBVIOUS
  <2>1. e \in Seq(Byte) /\ Len(e) + 1 \in 1..(Len(e) + 1)
    BY NoisyType
  <2> QED BY <2>1, OpenType
<1>2. \A k : LeftOpen(k) = {FlattenSeq(s) : s \in Left(k)}
  BY DEF LeftOpen
<1>3. x \in open
  OBVIOUS
<1> HIDE DEF open, x
<1>4. PICK s \in Left(n) : t = FlattenSeq(s)
  <2> HIDE DEF Left
  <2> QED BY <1>2
<1>5. PICK i \in 0..n : s \in [1..i -> open]
  BY <1>4
<1>6. s \in Seq(open) /\ Len(s) = i
  BY <1>5, FunctionIsSeq
<1> DEFINE longer == Append(s, x)
<1>7. longer \in [1..(i + 1) -> open]
  <2>1. /\ longer \in Seq(open) /\ Len(longer) = i + 1
    BY <1>3, <1>6, AppendProperties
  <2> HIDE DEF longer
  <2>2. DOMAIN longer = 1..(i + 1) /\ longer \in [1..Len(longer) -> open]
    BY <2>1, LenProperties
  <2> QED BY <2>1, <2>2
<1>8. longer \in Left(n + 1)
  <2>1. i + 1 \in 0..(n + 1)
    OBVIOUS
  <2> HIDE DEF longer
  <2> QED BY <1>7, <2>1
<1>9. FlattenSeq(longer) = t \o x
  <2>1. s \in Seq(Seq(NoDelim)) /\ x \in Seq(NoDelim) /\ <<x>> \in Seq(Seq(NoDelim))
    BY <1>1, <1>3, <1>6
  <2>2. longer = s \o <<x>>
    BY <2>1, AppendIsConcat
  <2>3. FlattenSeq(s \o <<x>>) = FlattenSeq(s) \o FlattenSeq(<<x>>)
    BY <2>1, FlattenBoth
  <2>4. FlattenSeq(<<x>>) = x
    BY <2>1, FlattenSingle
  <2> HIDE DEF longer
  <2> QED BY <1>4, <2>2, <2>3, <2>4
<1> HIDE DEF longer, Left
<1> QED BY <1>2, <1>8, <1>9 DEF x
-----------------------------------------------------------------------------
(* What has been read and what is on the line: frames, one behind the      *)
(* other, each either the next of those written intact or a broken one,    *)
(* and behind them what the line has left open.                            *)

\* F[k] is what stands behind the first k frames, and E[k] how many frames of
\* list were written intact up to there
IntactFrame(F, E, k, list) ==
    /\ E[k - 1] + 1 = E[k] /\ E[k] \in 1..Len(list)
    /\ F[k - 1] = EncodeHdlcFrame(list[E[k]]) \o F[k]

BrokenFrame(F, E, k) ==
    /\ E[k - 1] = E[k]
    /\ \E raw \in BrokenFrames \cap Seq(NoDelim) : F[k - 1] = (raw \o <<DELIM>>) \o F[k]

Line(F, E, n, list) ==
    /\ F \in [0..n -> Seq(Byte)] /\ E \in [0..n -> 0..Len(list)] /\ E[n] = Len(list)
    /\ \A k \in 1..n : IntactFrame(F, E, k, list) \/ BrokenFrame(F, E, k)

\* The first n + 1 entries of G and D are those of F and E
Keeps(G, D, F, E, n) == \A k \in 0..n : G[k] = F[k] /\ D[k] = E[k]

\* So they are, with x behind everything
Extends(G, D, m, F, E, n, x) ==
    n <= m /\ \A k \in 0..n : G[k] = F[k] \o x /\ D[k] = E[k]

(* More bytes come behind everything.                                      *)
LEMMA LineGrows ==
  ASSUME Checksum16, NEW list \in Seq(Payloads), NEW n \in Nat, NEW F, NEW E,
         Line(F, E, n, list), NEW x \in Seq(Byte)
  PROVE  \E G : Line(G, E, n, list) /\ Extends(G, E, n, F, E, n, x)
<1> DEFINE G == [k \in 0..n |-> F[k] \o x]
<1>1. /\ F \in [0..n -> Seq(Byte)] /\ E \in [0..n -> 0..Len(list)] /\ E[n] = Len(list)
      /\ \A k \in 1..n : IntactFrame(F, E, k, list) \/ BrokenFrame(F, E, k)
  BY DEF Line
<1>2. \A k \in 0..n : F[k] \in Seq(Byte) /\ G[k] = F[k] \o x
  BY <1>1
<1>3. G \in [0..n -> Seq(Byte)]
  <2>1. \A k \in 0..n : F[k] \o x \in Seq(Byte)
    BY <1>2, ConcatProperties
  <2> QED BY <2>1
<1> HIDE DEF G
<1>4. ASSUME NEW k \in 1..n PROVE IntactFrame(G, E, k, list) \/ BrokenFrame(G, E, k)
  <2>1. k \in 0..n /\ k - 1 \in 0..n
    OBVIOUS
  <2>2. G[k] = F[k] \o x /\ G[k - 1] = F[k - 1] \o x /\ F[k] \in Seq(Byte)
    BY <1>2, <2>1
  <2>3. CASE IntactFrame(F, E, k, list)
    <3>1. EncodeHdlcFrame(list[E[k]]) \in Seq(Byte)
      <4>1. E[k] \in 1..Len(list)
        BY <2>3 DEF IntactFrame
      <4>2. list[E[k]] \in Payloads
        BY <4>1, ElementOfSeq
      <4> QED BY <4>2, PayloadBytes
    <3>2. (EncodeHdlcFrame(list[E[k]]) \o F[k]) \o x = EncodeHdlcFrame(list[E[k]]) \o (F[k] \o x)
      BY <2>2, <3>1, ThreeConcat
    <3> QED BY <2>2, <2>3, <3>2 DEF IntactFrame
  <2>4. CASE BrokenFrame(F, E, k)
    <3>1. PICK raw \in BrokenFrames \cap Seq(NoDelim) : F[k - 1] = (raw \o <<DELIM>>) \o F[k]
      BY <2>4 DEF BrokenFrame
    <3>2. raw \o <<DELIM>> \in Seq(Byte)
      <4>1. raw \in Seq(Byte) /\ <<DELIM>> \in Seq(Byte)
        BY DEF NoDelim, DELIM, Byte
      <4> QED BY <4>1, ConcatProperties
    <3>3. ((raw \o <<DELIM>>) \o F[k]) \o x = (raw \o <<DELIM>>) \o (F[k] \o x)
      BY <2>2, <3>2, ThreeConcat
    <3> QED BY <2>2, <2>4, <3>1, <3>3 DEF BrokenFrame
  <2> QED BY <1>1, <2>3, <2>4
<1>5. Line(G, E, n, list)
  BY <1>1, <1>3, <1>4 DEF Line
<1>6. Extends(G, E, n, F, E, n, x)
  BY <1>2 DEF Extends
<1> QED BY <1>5, <1>6

(* What is behind everything becomes a frame, broken or intact.            *)
LEMMA LineCloses ==
  ASSUME NEW list \in Seq(Payloads), NEW more \in Seq(Payloads), NEW n \in Nat, NEW F, NEW E,
         Line(F, E, n, list),
         \/ /\ more = list
            /\ \E raw \in BrokenFrames \cap Seq(NoDelim) : F[n] = raw \o <<DELIM>>
         \/ \E p \in Payloads : more = Append(list, p) /\ F[n] = EncodeHdlcFrame(p)
  PROVE  \E G, D : Line(G, D, n + 1, more) /\ G[n + 1] = <<>> /\ Keeps(G, D, F, E, n)
<1> DEFINE m == n + 1
           G == [k \in 0..m |-> IF k = m THEN <<>> ELSE F[k]]
           D == [k \in 0..m |-> IF k = m THEN Len(more) ELSE E[k]]
<1>1. /\ F \in [0..n -> Seq(Byte)] /\ E \in [0..n -> 0..Len(list)] /\ E[n] = Len(list)
      /\ \A k \in 1..n : IntactFrame(F, E, k, list) \/ BrokenFrame(F, E, k)
  BY DEF Line
<1>2. /\ Len(list) \in Nat /\ Len(more) \in Nat /\ Len(list) <= Len(more)
      /\ \A i \in 1..Len(list) : more[i] = list[i]
  <2>1. Len(list) \in Nat /\ Len(more) \in Nat
    BY LenProperties
  <2>2. ASSUME NEW p \in Payloads, more = Append(list, p)
        PROVE  Len(list) <= Len(more) /\ \A i \in 1..Len(list) : more[i] = list[i]
    BY <2>1, <2>2, AppendProperties
  <2> QED BY <2>1, <2>2
<1>3. /\ \A k \in 0..n : G[k] = F[k] /\ D[k] = E[k]
      /\ G[m] = <<>> /\ D[m] = Len(more)
  BY SMT
<1>4. G \in [0..m -> Seq(Byte)] /\ D \in [0..m -> 0..Len(more)]
  <2>1. \A k \in 0..m : k = m \/ k \in 0..n
    OBVIOUS
  <2>2. \A k \in 0..n : F[k] \in Seq(Byte) /\ E[k] \in 0..Len(more)
    BY <1>1, <1>2
  <2>3. <<>> \in Seq(Byte) /\ Len(more) \in 0..Len(more)
    BY <1>2
  <2>4. \A k \in 0..m : (IF k = m THEN <<>> ELSE F[k]) \in Seq(Byte)
    BY <2>1, <2>2, <2>3
  <2>5. \A k \in 0..m : (IF k = m THEN Len(more) ELSE E[k]) \in 0..Len(more)
    BY <2>1, <2>2, <2>3
  <2> QED BY <2>4, <2>5
<1> HIDE DEF G, D
<1>5. ASSUME NEW k \in 1..n PROVE IntactFrame(G, D, k, more) \/ BrokenFrame(G, D, k)
  <2>1. k \in 0..n /\ k - 1 \in 0..n
    OBVIOUS
  <2>2. G[k] = F[k] /\ D[k] = E[k] /\ G[k - 1] = F[k - 1] /\ D[k - 1] = E[k - 1]
    BY <1>3, <2>1
  <2>3. CASE IntactFrame(F, E, k, list)
    <3>1. E[k] \in 1..Len(list) /\ E[k] \in 1..Len(more) /\ more[E[k]] = list[E[k]]
      BY <1>2, <2>3 DEF IntactFrame
    <3>2. E[k - 1] + 1 = E[k] /\ F[k - 1] = EncodeHdlcFrame(list[E[k]]) \o F[k]
      BY <2>3 DEF IntactFrame
    <3>3. G[k - 1] = EncodeHdlcFrame(more[D[k]]) \o G[k]
      BY <2>2, <3>1, <3>2
    <3> QED BY <2>2, <3>1, <3>2, <3>3 DEF IntactFrame
  <2>4. CASE BrokenFrame(F, E, k)
    BY <2>2, <2>4 DEF BrokenFrame
  <2> QED BY <1>1, <2>3, <2>4
<1>6. IntactFrame(G, D, m, more) \/ BrokenFrame(G, D, m)
  <2>1. n \in 0..n /\ m - 1 = n
    OBVIOUS
  <2>2. G[m - 1] = F[n] /\ D[m - 1] = Len(list) /\ G[m] = <<>> /\ D[m] = Len(more)
    BY <1>1, <1>3, <2>1
  <2>3. F[n] = F[n] \o <<>>
    <3>1. F[n] \in Seq(Byte)
      BY <1>1, <2>1
    <3> QED BY <3>1, ConcatEmptySeq
  <2> HIDE DEF m
  <2>4. CASE more = list /\ \E raw \in BrokenFrames \cap Seq(NoDelim) : F[n] = raw \o <<DELIM>>
    <3>1. PICK raw \in BrokenFrames \cap Seq(NoDelim) : F[n] = raw \o <<DELIM>>
      BY <2>4
    <3>2. G[m - 1] = (raw \o <<DELIM>>) \o G[m] /\ D[m - 1] = D[m]
      BY <2>2, <2>3, <2>4, <3>1
    <3> QED BY <3>2 DEF BrokenFrame
  <2>5. CASE \E p \in Payloads : more = Append(list, p) /\ F[n] = EncodeHdlcFrame(p)
    <3>1. PICK p \in Payloads : more = Append(list, p) /\ F[n] = EncodeHdlcFrame(p)
      BY <2>5
    <3>2. Len(more) = Len(list) + 1 /\ more[Len(list) + 1] = p
      BY <3>1, AppendProperties
    <3>3. D[m] = Len(list) + 1 /\ D[m] \in 1..Len(more) /\ more[D[m]] = p
      BY <1>2, <2>2, <3>2
    <3>4. G[m - 1] = EncodeHdlcFrame(more[D[m]]) \o G[m]
      BY <2>2, <2>3, <3>1, <3>3
    <3>5. D[m - 1] + 1 = D[m]
      BY <2>2, <3>3
    <3> QED BY <3>3, <3>4, <3>5 DEF IntactFrame
  <2> QED BY <2>4, <2>5
<1>7. Line(G, D, m, more)
  <2>1. \A k \in 1..m : k \in 1..n \/ k = m
    OBVIOUS
  <2> HIDE DEF m
  <2> QED BY <1>3, <1>4, <1>5, <1>6, <2>1 DEF Line
<1>8. Keeps(G, D, F, E, n)
  BY <1>3 DEF Keeps
<1> QED BY <1>3, <1>7, <1>8

-----------------------------------------------------------------------------
(* A damaged frame *)

\* What is behind everything once the first i - 1 bytes of d came behind t
OpenBehind(t, d, i) == (IF FrameStart(d, i) = 1 THEN t ELSE <<>>) \o FrameEndingAt(d, i)

\* The first i bytes of d came behind the line that F and E are
Reached(F, E, n, list, d, i) ==
    \E m \in Nat : \E G, D :
        /\ Line(G, D, m, list) /\ Extends(G, D, m, F, E, n, SubSeq(d, 1, i))
        /\ G[m] = OpenBehind(F[n], d, i + 1)

(* A frame that ends in a damaged one is broken.                           *)
LEMMA BrokenType ==
  ASSUME Checksum16, NEW t \in LeftOpen(MaxNoise - 1), NEW d \in NoisyFrames,
         NEW i \in 1..Len(d), d[i] = DELIM
  PROVE  OpenBehind(t, d, i) \in BrokenFrames \cap Seq(NoDelim)
<1>1. d \in Seq(Byte) /\ Len(d) \in Nat
  BY NoisyType
<1>2. i \in DOMAIN d /\ i \in 1..(Len(d) + 1)
  BY <1>1, LenProperties
<1>3. <<>> \in LeftOpen(MaxNoise - 1) /\ t \in Seq(NoDelim) /\ <<>> \in Seq(NoDelim)
  <2>1. MaxNoise - 1 \in Int
    BY HdlcLinkAssumption DEF HdlcLinkAssumption
  <2>2. MaxNoise - 1 \in Nat
    <3> SUFFICES ASSUME MaxNoise = 0 PROVE FALSE
      BY HdlcLinkAssumption DEF HdlcLinkAssumption
    <3>1. 0..(MaxNoise - 1) = {}
      OBVIOUS
    <3> QED BY <3>1 DEF LeftOpen
  <2> QED BY <2>1, <2>2, LeftOpenType
<1> DEFINE u == IF FrameStart(d, i) = 1 THEN t ELSE <<>>
<1>4. u \in LeftOpen(MaxNoise - 1) /\ u \in Seq(NoDelim)
  BY <1>3
<1> HIDE DEF u
<1>5. u \o FrameEndingAt(d, i) \in BrokenFrames
  <2> DEFINE ends == {j \in DOMAIN d : d[j] = DELIM}
             at(e) == {v \o FrameEndingAt(d, e) : v \in LeftOpen(MaxNoise - 1)}
  <2>1. i \in ends
    BY <1>2
  <2>2. u \o FrameEndingAt(d, i) \in at(i)
    BY <1>4
  <2>3. EndingInside(d) = UNION {at(e) : e \in ends}
    BY DEF EndingInside
  <2> HIDE DEF ends, at
  <2>4. u \o FrameEndingAt(d, i) \in EndingInside(d)
    BY <2>1, <2>2, <2>3
  <2> QED BY <2>4, Zenon DEF BrokenFrames
<1>6. u \o FrameEndingAt(d, i) \in Seq(NoDelim)
  <2>1. FrameEndingAt(d, i) \in Seq(NoDelim)
    BY <1>1, <1>2, OpenType
  <2> QED BY <1>4, <2>1, ConcatProperties
<1> QED BY <1>5, <1>6 DEF OpenBehind, u

(* One more byte of a damaged frame.                                       *)
LEMMA DamageStep ==
  ASSUME Checksum16, NEW list \in Seq(Payloads), NEW n \in Nat, NEW F, NEW E,
         Line(F, E, n, list), F[n] \in LeftOpen(MaxNoise - 1), F[n] \in Seq(NoDelim),
         NEW d \in NoisyFrames, NEW i \in 1..Len(d), Reached(F, E, n, list, d, i - 1)
  PROVE  Reached(F, E, n, list, d, i)
<1> DEFINE t == F[n]
           b == <<d[i]>>
<1>1. /\ d \in Seq(Byte) /\ Len(d) \in Nat /\ i \in Nat /\ i \in 1..(Len(d) + 1)
      /\ i - 1 \in Nat /\ (i - 1) + 1 = i /\ b \in Seq(Byte) /\ t \in Seq(NoDelim)
  <2>1. d \in Seq(Byte) /\ Len(d) \in Nat
    BY NoisyType
  <2> QED BY <2>1, ElementOfSeq
<1>9. PICK m \in Nat : \E G, D :
            /\ Line(G, D, m, list) /\ Extends(G, D, m, F, E, n, SubSeq(d, 1, i - 1))
            /\ G[m] = OpenBehind(t, d, (i - 1) + 1)
  BY DEF Reached
<1>10. PICK G, D :
            /\ Line(G, D, m, list) /\ Extends(G, D, m, F, E, n, SubSeq(d, 1, i - 1))
            /\ G[m] = OpenBehind(t, d, (i - 1) + 1)
  BY <1>9
<1> HIDE DEF b, t
<1>2. /\ n <= m /\ Line(G, D, m, list) /\ G[m] = OpenBehind(t, d, i)
      /\ \A k \in 0..n : G[k] = F[k] \o SubSeq(d, 1, i - 1) /\ D[k] = E[k]
  BY <1>1, <1>10 DEF Extends
<1>11. PICK H : Line(H, D, m, list) /\ Extends(H, D, m, G, D, m, b)
  <2>1. Line(G, D, m, list) /\ b \in Seq(Byte) /\ list \in Seq(Payloads) /\ m \in Nat
    BY <1>1, <1>2
  <2> QED BY ONLY Checksum16, <2>1, LineGrows
<1>3. Line(H, D, m, list) /\ \A k \in 0..m : H[k] = G[k] \o b
  BY <1>11 DEF Extends
<1>4. SubSeq(d, 1, i - 1) \in Seq(Byte) /\ SubSeq(d, 1, i - 1) \o b = SubSeq(d, 1, i)
  <2>1. i - 1 \in 0..Len(d)
    BY <1>1
  <2>2. SubSeq(d, 1, i - 1) \in Seq(Byte)
    BY <1>1, <2>1, CutAt
  <2>3. SubSeq(d, 1, i - 1) \o b = SubSeq(d, 1, i)
    <3>1. \A k \in 1..i : d[k] \in Byte
      BY <1>1, ElementOfSeq
    <3> QED BY <1>1, <3>1, SubSeqRecursiveSecond, AppendIsConcat DEF b
  <2> QED BY <2>2, <2>3
<1>5. \A k \in 0..n : H[k] = F[k] \o SubSeq(d, 1, i) /\ D[k] = E[k]
  <2> SUFFICES ASSUME NEW k \in 0..n PROVE H[k] = F[k] \o SubSeq(d, 1, i) /\ D[k] = E[k]
    OBVIOUS
  <2>1. k \in 0..m /\ F[k] \in Seq(Byte)
    BY <1>2 DEF Line
  <2>2. H[k] = (F[k] \o SubSeq(d, 1, i - 1)) \o b
    BY <1>2, <1>3, <2>1
  <2>3. (F[k] \o SubSeq(d, 1, i - 1)) \o b = F[k] \o (SubSeq(d, 1, i - 1) \o b)
    BY <1>1, <1>4, <2>1, ThreeConcat
  <2> QED BY <1>2, <1>4, <2>2, <2>3
<1>6. H[m] = OpenBehind(t, d, i) \o b
  <2>1. m \in 0..m
    OBVIOUS
  <2> QED BY <1>2, <1>3, <2>1
<1>7. CASE d[i] # DELIM
  <2> DEFINE u == IF FrameStart(d, i) = 1 THEN t ELSE <<>>
  <2>1. FrameStart(d, i + 1) = FrameStart(d, i) /\ FrameEndingAt(d, i + 1) = FrameEndingAt(d, i) \o b
    BY <1>1, <1>7, OpenStep DEF b
  <2>2. u \in Seq(Byte) /\ FrameEndingAt(d, i) \in Seq(Byte)
    <3>1. FrameEndingAt(d, i) \in Seq(NoDelim)
      BY <1>1, OpenType
    <3>2. Seq(NoDelim) \subseteq Seq(Byte)
      BY SeqMonotonic DEF NoDelim
    <3>3. <<>> \in Seq(NoDelim)
      OBVIOUS
    <3> QED BY <1>1, <3>1, <3>2, <3>3
  <2> HIDE DEF u
  <2>3. (u \o FrameEndingAt(d, i)) \o b = u \o (FrameEndingAt(d, i) \o b)
    BY <1>1, <2>2, ThreeConcat
  <2>4. OpenBehind(t, d, i + 1) = H[m]
    BY <1>6, <2>1, <2>3 DEF OpenBehind, u
  <2>5. Extends(H, D, m, F, E, n, SubSeq(d, 1, i))
    BY <1>2, <1>5 DEF Extends
  <2> QED BY <1>3, <2>4, <2>5 DEF Reached, t
<1>8. CASE d[i] = DELIM
  <2>1. OpenBehind(t, d, i) \in BrokenFrames \cap Seq(NoDelim) /\ b = <<DELIM>>
    <3>1. t \in LeftOpen(MaxNoise - 1)
      BY DEF t
    <3>2. b = <<DELIM>>
      BY <1>8 DEF b
    <3> QED BY <1>8, <3>1, <3>2, BrokenType
  <2>2. PICK I, J : Line(I, J, m + 1, list) /\ I[m + 1] = <<>> /\ Keeps(I, J, H, D, m)
    <3>1. Line(H, D, m, list) /\ list \in Seq(Payloads) /\ m \in Nat
      BY <1>3
    <3>2. list = list /\ \E raw \in BrokenFrames \cap Seq(NoDelim) : H[m] = raw \o <<DELIM>>
      BY <1>6, <2>1
    <3> QED BY ONLY <3>1, <3>2, LineCloses
  <2>3. OpenBehind(t, d, i + 1) = <<>>
    <3>1. FrameStart(d, i + 1) = i + 1 /\ FrameEndingAt(d, i + 1) = <<>>
      BY <1>1, <1>8, OpenStep
    <3>2. <<>> \o <<>> = <<>> /\ i + 1 # 1
      BY <1>1, ConcatEmptySeq
    <3> QED BY <3>1, <3>2 DEF OpenBehind
  <2>4. \A k \in 0..n : I[k] = F[k] \o SubSeq(d, 1, i) /\ J[k] = E[k]
    <3>1. \A k \in 0..n : k \in 0..m
      BY <1>2
    <3> QED BY <1>5, <2>2, <3>1 DEF Keeps
  <2>5. m + 1 \in Nat /\ n <= m + 1
    BY <1>2
  <2>6. Extends(I, J, m + 1, F, E, n, SubSeq(d, 1, i))
    BY <2>4, <2>5 DEF Extends
  <2> QED BY <2>2, <2>3, <2>5, <2>6 DEF Reached, t
<1> QED BY <1>7, <1>8

(* A damaged frame, whole.                                                 *)
LEMMA DamageReached ==
  ASSUME Checksum16, NEW list \in Seq(Payloads), NEW n \in Nat, NEW F, NEW E,
         Line(F, E, n, list), F[n] \in LeftOpen(MaxNoise - 1), F[n] \in Seq(NoDelim),
         NEW d \in NoisyFrames
  PROVE  \E m \in Nat : \E G, D :
            /\ Line(G, D, m, list) /\ Extends(G, D, m, F, E, n, d)
            /\ G[m] = OpenBehind(F[n], d, Len(d) + 1)
<1>1. d \in Seq(Byte) /\ Len(d) \in Nat
  BY NoisyType
<1> DEFINE T == {i \in 0..Len(d) : Reached(F, E, n, list, d, i)}
<1>2. 0 \in T
  <2>1. \A k \in 0..n : F[k] = F[k] \o SubSeq(d, 1, 0)
    <3>1. SubSeq(d, 1, 0) \in Seq(Byte) /\ Len(SubSeq(d, 1, 0)) = 0
      <4>1. 0 \in 0..Len(d)
        BY <1>1
      <4> QED BY <1>1, <4>1, CutAt
    <3>2. SubSeq(d, 1, 0) = <<>>
      BY <3>1, EmptySeq
    <3>3. \A k \in 0..n : F[k] \in Seq(Byte)
      BY DEF Line
    <3> QED BY <3>2, <3>3, ConcatEmptySeq
  <2>2. F[n] = OpenBehind(F[n], d, 1)
    <3>1. FrameStart(d, 1) = 1 /\ FrameEndingAt(d, 1) = <<>>
      BY <1>1, OpenAtFirst
    <3>2. F[n] \o <<>> = F[n]
      BY ConcatEmptySeq
    <3> QED BY <3>1, <3>2 DEF OpenBehind
  <2>3. 0 + 1 = 1 /\ 0 \in 0..Len(d) /\ n <= n
    BY <1>1
  <2>4. Extends(F, E, n, F, E, n, SubSeq(d, 1, 0))
    BY <2>1, <2>3 DEF Extends
  <2>5. Reached(F, E, n, list, d, 0)
    BY <2>2, <2>3, <2>4 DEF Reached
  <2> QED BY <2>3, <2>5
<1>3. ASSUME NEW i \in 1..Len(d), i - 1 \in T PROVE i \in T
  <2>1. i \in 0..Len(d)
    BY <1>1
  <2>2. Reached(F, E, n, list, d, i - 1)
    BY <1>3
  <2> QED BY <2>1, <2>2, DamageStep
<1> HIDE DEF T
<1>4. 0..Len(d) \subseteq T
  BY <1>1, <1>2, <1>3, InductionUpTo
<1>5. Reached(F, E, n, list, d, Len(d))
  <2>1. Len(d) \in 0..Len(d)
    BY <1>1
  <2> QED BY <1>4, <2>1 DEF T
<1>6. SubSeq(d, 1, Len(d)) = d
  BY <1>1, SubSeqFull
<1> QED BY <1>5, <1>6 DEF Reached

-----------------------------------------------------------------------------
(* The invariant: what was read and not taken, and what is on the line, is  *)
(* such a line of frames, and what stood in front of it has been taken.    *)

\* The first m of list are among those taken, in their order
Survive(m, taken, list) ==
    \E h \in [1..m -> 1..Len(taken)] :
        /\ \A i \in 1..m : taken[h[i]] = list[i]
        /\ \A i, k \in 1..m : i < k => h[i] < h[k]

\* Nothing else was taken
Exactly(m, taken, list) == Len(taken) = m /\ \A i \in 1..m : taken[i] = list[i]

Arrived(m, taken, list) ==
    Survive(m, taken, list) /\ (DamageIsDetected => Exactly(m, taken, list))

LinkType ==
    /\ wire \in Seq(Byte) /\ buffer \in Seq(Byte)
    /\ got \in Seq(Seq(Byte)) /\ expected \in Seq(Payloads)
    /\ clean \in BOOLEAN /\ nNoise \in 0..MaxNoise

\* j of the n frames have been taken
Rest(F, E, n, j) ==
    /\ Line(F, E, n, expected) /\ j \in 0..n /\ buffer \o wire = F[j]
    /\ F[n] \in LeftOpen(nNoise) /\ (clean <=> F[n] = <<>>)
    /\ Arrived(E[j], got, expected)

LinkInv == LinkType /\ \E n \in Nat : \E F, E, j : Rest(F, E, n, j)

(* What arrived stays so when more is written.                             *)
LEMMA ArrivedStays ==
  ASSUME NEW m \in Nat, NEW taken, NEW list, NEW longer, Arrived(m, taken, list),
         \A i \in 1..m : longer[i] = list[i]
  PROVE  Arrived(m, taken, longer)
<1>1. Survive(m, taken, longer)
  <2>1. PICK h \in [1..m -> 1..Len(taken)] :
             /\ \A i \in 1..m : taken[h[i]] = list[i]
             /\ \A i, k \in 1..m : i < k => h[i] < h[k]
    BY DEF Arrived, Survive
  <2>2. \A i \in 1..m : taken[h[i]] = longer[i]
    BY <2>1
  <2> QED BY <2>1, <2>2 DEF Survive
<1>2. DamageIsDetected => Exactly(m, taken, longer)
  BY DEF Arrived, Exactly
<1> QED BY <1>1, <1>2 DEF Arrived

(* One more packet was taken.                                              *)
LEMMA ArrivedGrows ==
  ASSUME NEW S, NEW m \in Nat, NEW taken \in Seq(S), NEW list, NEW p \in S,
         Arrived(m, taken, list), list[m + 1] = p
  PROVE  Arrived(m + 1, Append(taken, p), list)
<1> DEFINE more == Append(taken, p)
           l == Len(taken)
<1>1. /\ l \in Nat /\ Len(more) = l + 1 /\ more[l + 1] = p
      /\ \A i \in 1..l : more[i] = taken[i]
  BY AppendProperties, LenProperties
<1>2. PICK h \in [1..m -> 1..l] :
           /\ \A i \in 1..m : taken[h[i]] = list[i]
           /\ \A i, k \in 1..m : i < k => h[i] < h[k]
  BY DEF Arrived, Survive
<1>3. DamageIsDetected => Exactly(m, taken, list)
  BY DEF Arrived
<1> HIDE DEF more
<1>4. Survive(m + 1, more, list)
  <2> DEFINE g == [i \in 1..(m + 1) |-> IF i = m + 1 THEN l + 1 ELSE h[i]]
  <2> HIDE DEF l
  <2>1. \A i \in 1..m : h[i] \in 1..l
    BY <1>2
  <2>2. g \in [1..(m + 1) -> 1..(l + 1)]
    <3>1. \A i \in 1..(m + 1) : i = m + 1 \/ i \in 1..m
      OBVIOUS
    <3>2. \A i \in 1..(m + 1) : (IF i = m + 1 THEN l + 1 ELSE h[i]) \in 1..(l + 1)
      BY <1>1, <2>1, <3>1
    <3> QED BY <3>2
  <2>3. g[m + 1] = l + 1 /\ \A i \in 1..m : g[i] = h[i] /\ i # m + 1
    OBVIOUS
  <2> HIDE DEF g
  <2>4. \A i \in 1..(m + 1) : more[g[i]] = list[i]
    <3> SUFFICES ASSUME NEW i \in 1..(m + 1) PROVE more[g[i]] = list[i]
      OBVIOUS
    <3>1. CASE i = m + 1
      BY <1>1, <2>3, <3>1
    <3>2. CASE i \in 1..m
      <4>1. h[i] \in 1..l /\ more[h[i]] = taken[h[i]]
        BY <1>1, <2>1, <3>2
      <4> QED BY <1>2, <2>3, <3>2, <4>1
    <3> QED BY <3>1, <3>2
  <2>5. \A i, k \in 1..(m + 1) : i < k => g[i] < g[k]
    <3> SUFFICES ASSUME NEW i \in 1..(m + 1), NEW k \in 1..(m + 1), i < k
                 PROVE  g[i] < g[k]
      OBVIOUS
    <3>1. i \in 1..m /\ g[i] = h[i] /\ h[i] \in 1..l
      <4>1. i \in 1..m
        OBVIOUS
      <4> QED BY <2>1, <2>3, <4>1
    <3>2. CASE k = m + 1
      BY <1>1, <2>3, <3>1, <3>2
    <3>3. CASE k \in 1..m
      BY <1>2, <2>3, <3>1, <3>3
    <3> QED BY <3>2, <3>3
  <2>6. Len(more) = l + 1
    BY <1>1
  <2> QED BY <2>2, <2>4, <2>5, <2>6 DEF Survive
<1>5. DamageIsDetected => Exactly(m + 1, more, list)
  <2> SUFFICES ASSUME DamageIsDetected PROVE Exactly(m + 1, more, list)
    OBVIOUS
  <2>1. l = m /\ \A i \in 1..m : taken[i] = list[i]
    BY <1>3 DEF Exactly
  <2> HIDE DEF l
  <2>2. \A i \in 1..(m + 1) : i = m + 1 \/ i \in 1..m
    OBVIOUS
  <2> QED BY <1>1, <2>1, <2>2 DEF Exactly
<1> QED BY <1>4, <1>5 DEF Arrived, more

(* A broken frame was taken, or left out because of its CRC.               *)
LEMMA ArrivedDespite ==
  ASSUME NEW S, NEW m \in Nat, NEW taken \in Seq(S), NEW list, NEW p \in S,
         ~DamageIsDetected, Arrived(m, taken, list)
  PROVE  Arrived(m, Append(taken, p), list)
<1> DEFINE more == Append(taken, p)
           l == Len(taken)
<1>1. /\ l \in Nat /\ Len(more) = l + 1
      /\ \A i \in 1..l : more[i] = taken[i]
  BY AppendProperties, LenProperties
<1>2. PICK h \in [1..m -> 1..l] :
           /\ \A i \in 1..m : taken[h[i]] = list[i]
           /\ \A i, k \in 1..m : i < k => h[i] < h[k]
  BY DEF Arrived, Survive
<1> HIDE DEF more, l
<1>3. h \in [1..m -> 1..(l + 1)]
  <2>1. 1..l \subseteq 1..(l + 1)
    BY <1>1
  <2> QED BY <1>2, <2>1
<1>4. \A i \in 1..m : more[h[i]] = list[i]
  <2>1. \A i \in 1..m : h[i] \in 1..l
    BY <1>2
  <2> QED BY <1>1, <1>2, <2>1
<1>5. Survive(m, more, list)
  BY <1>1, <1>2, <1>3, <1>4 DEF Survive
<1> QED BY <1>5 DEF Arrived, more

(* A frame that is written comes behind everything, as it is or, behind    *)
(* bytes that were left open, broken.                                      *)
LEMMA LineSends ==
  ASSUME Checksum16, NEW list \in Seq(Payloads), NEW n \in Nat, NEW F, NEW E,
         Line(F, E, n, list), F[n] \in LeftOpen(MaxNoise), NEW p \in Payloads,
         NEW more, more = IF F[n] = <<>> THEN Append(list, p) ELSE list
  PROVE  \E G, D : /\ Line(G, D, n + 1, more) /\ G[n + 1] = <<>>
                   /\ Extends(G, D, n + 1, F, E, n, EncodeHdlcFrame(p))
<1> DEFINE x == EncodeHdlcFrame(p)
           t == F[n]
<1>1. /\ x \in Seq(Byte) /\ Front(x) \in Seq(NoDelim) /\ x = Front(x) \o <<DELIM>>
      /\ n \in 0..n /\ list \in Seq(Payloads) /\ n \in Nat
  BY PayloadBytes
<1>2. t \in Seq(Byte) /\ t \in Seq(NoDelim)
  <2>1. MaxNoise \in Int
    BY HdlcLinkAssumption DEF HdlcLinkAssumption
  <2>2. t \in Seq(NoDelim)
    BY <2>1, LeftOpenType
  <2> QED BY <1>1, <2>2 DEF Line
<1> HIDE DEF x
<1>8. PICK H : Line(H, E, n, list) /\ Extends(H, E, n, F, E, n, x)
  <2>1. Line(F, E, n, list) /\ x \in Seq(Byte) /\ list \in Seq(Payloads) /\ n \in Nat
    BY <1>1
  <2> QED BY ONLY Checksum16, <2>1, LineGrows
<1>3. Line(H, E, n, list) /\ \A k \in 0..n : H[k] = F[k] \o x
  BY <1>8 DEF Extends
<1>4. more \in Seq(Payloads)
  BY <1>1, AppendProperties
<1>5. \/ /\ more = list
         /\ \E raw \in BrokenFrames \cap Seq(NoDelim) : H[n] = raw \o <<DELIM>>
      \/ \E q \in Payloads : more = Append(list, q) /\ H[n] = EncodeHdlcFrame(q)
  <2>1. CASE t = <<>>
    <3>1. H[n] = x
      BY <1>1, <1>3, <2>1, ConcatEmptySeq
    <3> QED BY <2>1, <3>1 DEF x
  <2>2. CASE t # <<>>
    <3> DEFINE raw == t \o Front(x)
    <3>1. raw \in BehindOpenBytes
      <4> DEFINE behind(q) == {s \o Front(EncodeHdlcFrame(q)) : s \in LeftOpen(MaxNoise) \ {<<>>}}
      <4>1. raw \in behind(p)
        BY <2>2 DEF x
      <4>2. BehindOpenBytes = UNION {behind(q) : q \in Payloads}
        BY DEF BehindOpenBytes
      <4> HIDE DEF behind, raw
      <4> QED BY <4>1, <4>2
    <3>2. raw \in Seq(NoDelim)
      BY <1>1, <1>2, ConcatProperties
    <3>3. H[n] = raw \o <<DELIM>>
      <4>1. Front(x) \in Seq(Byte) /\ <<DELIM>> \in Seq(Byte)
        BY <1>1, SeqMonotonic DEF NoDelim, DELIM, Byte
      <4>2. (t \o Front(x)) \o <<DELIM>> = t \o (Front(x) \o <<DELIM>>)
        BY <1>2, <4>1, ThreeConcat
      <4> QED BY <1>1, <1>3, <4>2
    <3> HIDE DEF raw
    <3>4. raw \in BrokenFrames
      BY <3>1, Zenon DEF BrokenFrames
    <3> QED BY <2>2, <3>2, <3>3, <3>4
  <2> QED BY <2>1, <2>2
<1>6. PICK G, D : Line(G, D, n + 1, more) /\ G[n + 1] = <<>> /\ Keeps(G, D, H, E, n)
  <2>1. Line(H, E, n, list) /\ list \in Seq(Payloads) /\ n \in Nat /\ more \in Seq(Payloads)
    BY <1>1, <1>3, <1>4
  <2> QED BY ONLY <2>1, <1>5, LineCloses
<1>7. Extends(G, D, n + 1, F, E, n, x)
  <2>1. \A k \in 0..n : G[k] = F[k] \o x /\ D[k] = E[k]
    BY <1>3, <1>6, Zenon DEF Keeps
  <2>2. n <= n + 1
    OBVIOUS
  <2> QED BY <2>1, <2>2, Zenon DEF Extends
<1> QED BY <1>6, <1>7 DEF x

(* Whatever is written comes behind what was written before.               *)
LEMMA WrittenBehind ==
  ASSUME LinkType, NEW n \in Nat, NEW F, NEW E, NEW j, Rest(F, E, n, j),
         NEW x \in Seq(Byte), wire' = wire \o x, UNCHANGED <<buffer, got>>,
         NEW m \in Nat, NEW G, NEW D, Line(G, D, m, expected'), Extends(G, D, m, F, E, n, x),
         G[m] \in LeftOpen(nNoise'), clean' <=> G[m] = <<>>,
         \A i \in 1..Len(expected) : expected'[i] = expected[i]
  PROVE  wire' \in Seq(Byte) /\ buffer' \in Seq(Byte) /\ Rest(G, D, m, j)'
<1>1. /\ wire \in Seq(Byte) /\ buffer \in Seq(Byte) /\ expected \in Seq(Payloads)
  BY DEF LinkType
<1>2. wire' \in Seq(Byte) /\ buffer' \in Seq(Byte)
  BY <1>1, ConcatProperties
<1>3. /\ j \in 0..n /\ buffer \o wire = F[j] /\ Arrived(E[j], got, expected)
      /\ Line(F, E, n, expected)
  BY DEF Rest
<1>4. j \in 0..m /\ G[j] = F[j] \o x /\ D[j] = E[j]
  <2>1. j \in 0..n /\ n <= m /\ m \in Nat /\ n \in Nat
    BY <1>3 DEF Extends
  <2>2. j \in 0..m
    BY ONLY <2>1
  <2> QED BY <2>1, <2>2, Zenon DEF Extends
<1>5. buffer' \o wire' = G[j]
  <2>1. buffer \o (wire \o x) = (buffer \o wire) \o x
    BY <1>1, ThreeConcat
  <2> QED BY <1>3, <1>4, <2>1
<1>6. Arrived(D[j], got, expected')
  <2>1. E[j] \in 0..Len(expected) /\ Len(expected) \in Nat
    BY <1>1, <1>3, LenProperties DEF Line
  <2>2. E[j] \in Nat /\ \A i \in 1..E[j] : i \in 1..Len(expected)
    BY <2>1
  <2>3. \A i \in 1..E[j] : expected'[i] = expected[i]
    BY <2>2
  <2> QED BY <1>3, <1>4, <2>2, <2>3, ArrivedStays
<1>7. got' = got
  OBVIOUS
<1> QED BY <1>2, <1>4, <1>5, <1>6, <1>7 DEF Rest

(* A frame that is sent.                                                   *)
LEMMA SendStep ==
  ASSUME Checksum16, LinkInv, NEW p \in Payloads, SendMsg(p)
  PROVE  LinkInv'
<1> DEFINE x == EncodeHdlcFrame(p)
<1>1a. PICK n \in Nat : \E F, E, j : Rest(F, E, n, j)
  BY DEF LinkInv
<1>1. PICK F, E, j : Rest(F, E, n, j)
  BY <1>1a
<1>2. /\ LinkType /\ expected \in Seq(Payloads) /\ x \in Seq(Byte)
      /\ nNoise \in Nat /\ MaxNoise \in Nat /\ nNoise <= MaxNoise
  BY PayloadBytes, HdlcLinkAssumption DEF LinkInv, LinkType, HdlcLinkAssumption
<1>3. /\ Line(F, E, n, expected) /\ F[n] \in LeftOpen(nNoise) /\ (clean <=> F[n] = <<>>)
  BY <1>1 DEF Rest
<1>4. /\ wire' = wire \o x /\ clean' = TRUE /\ UNCHANGED <<buffer, got, nNoise>>
      /\ expected' = IF F[n] = <<>> THEN Append(expected, p) ELSE expected
  BY <1>3 DEF SendMsg
<1>5. F[n] \in LeftOpen(MaxNoise)
  BY <1>2, <1>3, LeftOpenType
<1>6. PICK G, D : /\ Line(G, D, n + 1, expected') /\ G[n + 1] = <<>>
                  /\ Extends(G, D, n + 1, F, E, n, x)
  <2>1. /\ Line(F, E, n, expected) /\ F[n] \in LeftOpen(MaxNoise) /\ expected \in Seq(Payloads)
        /\ n \in Nat /\ p \in Payloads
    BY <1>2, <1>3, <1>5
  <2>2. expected' = IF F[n] = <<>> THEN Append(expected, p) ELSE expected
    BY <1>4
  <2> QED BY ONLY Checksum16, <2>1, <2>2, LineSends
<1> HIDE DEF x
<1>7. /\ expected' \in Seq(Payloads)
      /\ \A i \in 1..Len(expected) : expected'[i] = expected[i]
  <2>1. CASE F[n] = <<>>
    BY <1>2, <1>4, <2>1, AppendProperties
  <2>2. CASE F[n] # <<>>
    BY <1>2, <1>4, <2>2
  <2> QED BY <2>1, <2>2
<1>8. G[n + 1] \in LeftOpen(nNoise') /\ (clean' <=> G[n + 1] = <<>>)
  <2>1. <<>> \in LeftOpen(nNoise)
    BY <1>2, LeftOpenType
  <2> QED BY <1>4, <1>6, <2>1
<1>9. wire' \in Seq(Byte) /\ buffer' \in Seq(Byte) /\ Rest(G, D, n + 1, j)'
  <2> DEFINE m == n + 1
  <2>1. m \in Nat /\ Extends(G, D, m, F, E, n, x)
    BY <1>6
  <2>2. Line(G, D, m, expected') /\ G[m] \in LeftOpen(nNoise') /\ (clean' <=> G[m] = <<>>)
    BY <1>6, <1>8
  <2> HIDE DEF m
  <2>3. wire' \in Seq(Byte) /\ buffer' \in Seq(Byte) /\ Rest(G, D, m, j)'
    <3>1. LinkType /\ Rest(F, E, n, j) /\ n \in Nat /\ x \in Seq(Byte)
      BY <1>1, <1>2
    <3>2. wire' = wire \o x /\ UNCHANGED <<buffer, got>>
      BY <1>4
    <3>4. \A i \in 1..Len(expected) : expected'[i] = expected[i]
      BY <1>7
    <3> QED BY ONLY <3>1, <3>2, <3>4, <2>1, <2>2, WrittenBehind
  <2> QED BY <2>3 DEF m
<1>10. LinkType'
  BY <1>2, <1>4, <1>7, <1>9 DEF LinkType
<1> QED BY <1>9, <1>10 DEF LinkInv

(* What is open behind a damaged frame: nothing, when it ends with a        *)
(* delimiter, and else what one damaged frame more may leave.              *)
LEMMA OpenBehindAll ==
  ASSUME Checksum16, NEW n \in Nat, NEW t \in LeftOpen(n), NEW d \in NoisyFrames
  PROVE  /\ OpenBehind(t, d, Len(d) + 1) \in LeftOpen(n + 1)
         /\ Last(d) = DELIM <=> OpenBehind(t, d, Len(d) + 1) = <<>>
<1> DEFINE l == Len(d)
           u == IF FrameStart(d, l + 1) = 1 THEN t ELSE <<>>
           x == FrameEndingAt(d, l + 1)
<1>1. d \in Seq(Byte) /\ l \in Nat \ {0} /\ l \in 1..l /\ Last(d) = d[l]
  BY NoisyType DEF Last
<1>2. u \in LeftOpen(n) /\ u \in Seq(NoDelim)
  <2>1. <<>> \in LeftOpen(n) /\ LeftOpen(n) \subseteq Seq(NoDelim)
    BY LeftOpenType
  <2> QED BY <2>1
<1>3. u \o x \in LeftOpen(n + 1)
  <2> HIDE DEF u
  <2> QED BY <1>2, LeftOpenGrows
<1>4. CASE d[l] = DELIM
  <2>1. FrameStart(d, l + 1) = l + 1 /\ x = <<>>
    BY <1>1, <1>4, OpenStep
  <2>2. l + 1 # 1
    BY <1>1
  <2>3. u = <<>>
    BY <2>1, <2>2
  <2>4. <<>> \o <<>> = <<>>
    BY ConcatEmptySeq
  <2> HIDE DEF u, x
  <2>5. u \o x = <<>>
    BY <2>1, <2>3, <2>4
  <2> QED BY <1>1, <1>3, <1>4, <2>5 DEF OpenBehind, u, x
<1>5. CASE d[l] # DELIM
  <2> DEFINE y == FrameEndingAt(d, l)
             b == <<d[l]>>
  <2>1. x = y \o b
    BY <1>1, <1>5, OpenStep
  <2>2. y \in Seq(Byte) /\ b \in Seq(Byte) /\ Len(b) = 1
    <3>1. l \in 1..(l + 1)
      BY <1>1
    <3>2. y \in Seq(NoDelim)
      BY <1>1, <3>1, OpenType
    <3>3. Seq(NoDelim) \subseteq Seq(Byte)
      BY SeqMonotonic DEF NoDelim
    <3>4. d[l] \in Byte
      BY <1>1, ElementOfSeq
    <3> QED BY <3>2, <3>3, <3>4
  <2> HIDE DEF x, y, b
  <2>3. x \in Seq(Byte) /\ Len(x) = Len(y) + 1 /\ Len(y) \in Nat
    <3>1. y \o b \in Seq(Byte) /\ Len(y \o b) = Len(y) + Len(b)
      BY <2>2, ConcatProperties
    <3>2. Len(y) \in Nat
      BY <2>2, LenProperties
    <3> QED BY <2>1, <2>2, <3>1, <3>2
  <2>4. u \in Seq(Byte)
    <3>1. Seq(NoDelim) \subseteq Seq(Byte)
      BY SeqMonotonic DEF NoDelim
    <3> HIDE DEF u
    <3> QED BY <1>2, <3>1
  <2> HIDE DEF u
  <2>5. Len(u \o x) = Len(u) + Len(x) /\ Len(u) \in Nat
    BY <2>3, <2>4, ConcatProperties, LenProperties
  <2>6. Len(u \o x) # 0
    BY <2>3, <2>5
  <2>7. u \o x # <<>>
    BY <2>6
  <2> QED BY <1>1, <1>3, <1>5, <2>7 DEF OpenBehind, u, x
<1> QED BY <1>4, <1>5

(* A frame that is damaged on the line.                                    *)
LEMMA NoiseStep ==
  ASSUME Checksum16, LinkInv, NEW p \in Payloads, SendThroughNoise(p)
  PROVE  LinkInv'
<1>1a. PICK n \in Nat : \E F, E, j : Rest(F, E, n, j)
  BY DEF LinkInv
<1>1. PICK F, E, j : Rest(F, E, n, j)
  BY <1>1a
<1>2. PICK d \in Damaged(EncodeHdlcFrame(p)) : wire' = wire \o d /\ clean' = (Last(d) = DELIM)
  BY DEF SendThroughNoise
<1>3. d \in NoisyFrames
  <2> DEFINE noisy(q) == Damaged(EncodeHdlcFrame(q))
  <2>1. NoisyFrames = UNION {noisy(q) : q \in Payloads}
    BY DEF NoisyFrames
  <2>2. d \in noisy(p)
    OBVIOUS
  <2> HIDE DEF noisy
  <2> QED BY <2>1, <2>2
<1>4. d \in Seq(Byte)
  BY <1>3, NoisyType
<1>5. /\ nNoise' = nNoise + 1 /\ nNoise < MaxNoise /\ UNCHANGED <<buffer, got, expected>>
  BY DEF SendThroughNoise
<1>6. /\ LinkType /\ expected \in Seq(Payloads)
      /\ nNoise \in Nat /\ MaxNoise \in Nat /\ nNoise <= MaxNoise - 1
      /\ nNoise' \in 0..MaxNoise
  BY <1>5, HdlcLinkAssumption DEF LinkInv, LinkType, HdlcLinkAssumption
<1>7. /\ Line(F, E, n, expected) /\ F[n] \in LeftOpen(nNoise)
  BY <1>1 DEF Rest
<1>8. F[n] \in LeftOpen(MaxNoise - 1) /\ F[n] \in Seq(NoDelim)
  <2>1. nNoise \in Int /\ MaxNoise - 1 \in Int /\ nNoise <= MaxNoise - 1
    BY <1>6
  <2>2. LeftOpen(nNoise) \subseteq LeftOpen(MaxNoise - 1) /\ LeftOpen(nNoise) \subseteq Seq(NoDelim)
    BY <2>1, LeftOpenType
  <2> QED BY <1>7, <2>2
<1>9. PICK m \in Nat : \E G, D :
            /\ Line(G, D, m, expected) /\ Extends(G, D, m, F, E, n, d)
            /\ G[m] = OpenBehind(F[n], d, Len(d) + 1)
  <2>1. expected \in Seq(Payloads) /\ n \in Nat /\ Line(F, E, n, expected) /\ d \in NoisyFrames
    BY <1>1, <1>3, <1>6, <1>7
  <2> QED BY ONLY Checksum16, <1>8, <2>1, DamageReached
<1>10. PICK G, D :
            /\ Line(G, D, m, expected) /\ Extends(G, D, m, F, E, n, d)
            /\ G[m] = OpenBehind(F[n], d, Len(d) + 1)
  BY <1>9
<1>11. G[m] \in LeftOpen(nNoise') /\ (clean' <=> G[m] = <<>>)
  <2>1. /\ OpenBehind(F[n], d, Len(d) + 1) \in LeftOpen(nNoise + 1)
        /\ Last(d) = DELIM <=> OpenBehind(F[n], d, Len(d) + 1) = <<>>
    BY <1>3, <1>6, <1>7, OpenBehindAll
  <2> QED BY <1>2, <1>5, <1>10, <2>1
<1>12. wire' \in Seq(Byte) /\ buffer' \in Seq(Byte) /\ Rest(G, D, m, j)'
  <2>1. LinkType /\ Rest(F, E, n, j) /\ n \in Nat /\ d \in Seq(Byte) /\ m \in Nat
    BY <1>1, <1>4, <1>6
  <2>2. wire' = wire \o d /\ UNCHANGED <<buffer, got>>
    BY <1>2, <1>5
  <2>3. /\ Line(G, D, m, expected') /\ Extends(G, D, m, F, E, n, d)
        /\ \A i \in 1..Len(expected) : expected'[i] = expected[i]
    BY <1>5, <1>10
  <2> QED BY ONLY <1>11, <2>1, <2>2, <2>3, WrittenBehind
<1>13. LinkType'
  <2>1. clean' \in BOOLEAN
    BY <1>2
  <2> QED BY <1>5, <1>6, <1>12, <2>1 DEF LinkType
<1> QED BY <1>12, <1>13 DEF LinkInv

(* A read moves bytes from the line to the buffer.                         *)
LEMMA FeedStep ==
  ASSUME LinkInv, NEW c \in ChunkSizes, FeedBinary(c)
  PROVE  LinkInv'
<1> DEFINE k == IF c < Len(wire) THEN c ELSE Len(wire)
<1>1. wire \in Seq(Byte) /\ buffer \in Seq(Byte) /\ Len(wire) \in Nat /\ c \in Nat
  BY LenProperties, HdlcLinkAssumption DEF LinkInv, LinkType, HdlcLinkAssumption
<1>2. /\ buffer' = buffer \o SubSeq(wire, 1, k) /\ wire' = SubSeq(wire, k + 1, Len(wire))
      /\ UNCHANGED <<got, expected, clean, nNoise>>
  BY DEF FeedBinary
<1>3. k \in 0..Len(wire)
  BY <1>1
<1> HIDE DEF k
<1>4. /\ SubSeq(wire, 1, k) \in Seq(Byte) /\ SubSeq(wire, k + 1, Len(wire)) \in Seq(Byte)
      /\ wire = SubSeq(wire, 1, k) \o SubSeq(wire, k + 1, Len(wire))
  BY <1>1, <1>3, CutAt
<1>5. buffer' \o wire' = buffer \o wire /\ buffer' \in Seq(Byte) /\ wire' \in Seq(Byte)
  <2>1. (buffer \o SubSeq(wire, 1, k)) \o SubSeq(wire, k + 1, Len(wire))
           = buffer \o (SubSeq(wire, 1, k) \o SubSeq(wire, k + 1, Len(wire)))
    BY <1>1, <1>4, ThreeConcat
  <2>2. buffer \o SubSeq(wire, 1, k) \in Seq(Byte)
    BY <1>1, <1>4, ConcatProperties
  <2> QED BY <1>2, <1>4, <2>1, <2>2
<1>6. LinkType'
  BY <1>2, <1>5 DEF LinkInv, LinkType
<1>7a. PICK n \in Nat : \E F, E, j : Rest(F, E, n, j)
  BY DEF LinkInv
<1>7. PICK F, E, j : Rest(F, E, n, j)
  BY <1>7a
<1>8. Rest(F, E, n, j)'
  BY <1>2, <1>5, <1>7 DEF Rest
<1> QED BY <1>6, <1>8 DEF LinkInv

(* The frame that is taken is the next of the line: one that was written   *)
(* intact, or a broken one.                                                *)
LEMMA GetStep ==
  ASSUME Checksum16, LinkInv, GetNextFrame
  PROVE  LinkInv'
<1> DEFINE all == buffer \o wire
           raw == RawFrame(buffer)
<1>1a. PICK n \in Nat : \E F, E, j : Rest(F, E, n, j)
  BY DEF LinkInv
<1>1. PICK F, E, j : Rest(F, E, n, j)
  BY <1>1a
<1>2. /\ wire \in Seq(Byte) /\ buffer \in Seq(Byte)
      /\ got \in Seq(Seq(Byte)) /\ expected \in Seq(Payloads)
  BY DEF LinkInv, LinkType
<1>3. HasFrame(buffer) /\ buffer' = AfterFrame(buffer) /\ UNCHANGED <<wire, expected, clean, nNoise>>
  BY DEF GetNextFrame
<1>4. got' = IF CrcCorrect(raw) THEN Append(got, Payload(raw)) ELSE got
  BY DEF GetNextFrame
<1>5. /\ HasFrame(all) /\ RawFrame(all) = raw /\ AfterFrame(all) = AfterFrame(buffer) \o wire
      /\ AfterFrame(buffer) \in Seq(Byte)
  BY <1>2, <1>3, FirstFrame
<1> HIDE DEF all, raw
<1>6. /\ Line(F, E, n, expected) /\ j \in 0..n /\ all = F[j] /\ Arrived(E[j], got, expected)
      /\ F[n] \in LeftOpen(nNoise) /\ (clean <=> F[n] = <<>>)
  BY <1>1 DEF Rest, all
<1>7. /\ F \in [0..n -> Seq(Byte)] /\ E \in [0..n -> 0..Len(expected)] /\ Len(expected) \in Nat
      /\ \A k \in 1..n : IntactFrame(F, E, k, expected) \/ BrokenFrame(F, E, k)
  BY <1>2, <1>6, LenProperties DEF Line
<1>8. j # n
  <2> SUFFICES ASSUME j = n PROVE FALSE
    OBVIOUS
  <2>1. nNoise \in Int
    BY HdlcLinkAssumption DEF LinkInv, LinkType, HdlcLinkAssumption
  <2>2. all \in Seq(NoDelim)
    BY <1>6, <2>1, LeftOpenType
  <2>3. \A i \in DOMAIN all : all[i] \in NoDelim
    BY <2>2, LenProperties, ElementOfSeq
  <2> QED BY <1>5, <2>3 DEF HasFrame, NoDelim
<1> DEFINE k == j + 1
<1>9. k \in 1..n /\ k \in 0..n /\ k - 1 = j
  BY <1>6, <1>8
<1> HIDE DEF k
<1>10. F[k] \in Seq(Byte) /\ E[k] \in Nat /\ E[j] \in Nat
  BY <1>6, <1>7, <1>9
<1>11. CASE IntactFrame(F, E, k, expected)
  <2> DEFINE p == expected[E[k]]
             m == E[j]
  <2>1. m + 1 = E[k] /\ E[k] \in 1..Len(expected) /\ all = EncodeHdlcFrame(p) \o F[k]
    BY <1>6, <1>9, <1>11 DEF IntactFrame
  <2>2. p \in Payloads
    BY <1>2, <2>1, ElementOfSeq
  <2>3. p \in Seq(Byte) /\ p # <<>> /\ Is16Bits(Crc(p))
    BY <2>2, PayloadBytes DEF Checksum16
  <2> HIDE DEF p, m
  <2>4. AfterFrame(all) = F[k] /\ CrcCorrect(raw) /\ Payload(raw) = p
    <3> DEFINE rest == F[k]
    <3>1. rest \in Seq(Byte) /\ all = EncodeHdlcFrame(p) \o rest
      BY <1>10, <2>1
    <3> HIDE DEF rest
    <3>2. /\ AfterFrame(all) = rest
          /\ CrcCorrect(RawFrame(all)) /\ Payload(RawFrame(all)) = p
      BY <2>3, <3>1, EncodedFrameDecodes
    <3> QED BY <1>5, <3>2 DEF rest
  <2>5. got' = Append(got, p)
    BY <1>4, <2>4
  <2>6. got' \in Seq(Seq(Byte))
    BY <1>2, <2>3, <2>5, AppendProperties
  <2>7. Arrived(m + 1, Append(got, p), expected)
    <3>1. Arrived(m, got, expected) /\ expected[m + 1] = p /\ m \in Nat
      BY <1>6, <1>10, <2>1 DEF p, m
    <3> QED BY <1>2, <2>3, <3>1, ArrivedGrows
  <2>8. Arrived(E[k], got', expected)
    BY <2>1, <2>5, <2>7
  <2>9. Rest(F, E, n, k)'
    BY <1>3, <1>5, <1>6, <1>9, <2>4, <2>8 DEF Rest
  <2>10. LinkType'
    BY <1>3, <1>5, <2>6 DEF LinkInv, LinkType
  <2> QED BY <2>9, <2>10 DEF LinkInv
<1>12. CASE BrokenFrame(F, E, k)
  <2>1. PICK w \in BrokenFrames \cap Seq(NoDelim) : all = (w \o <<DELIM>>) \o F[k]
    BY <1>6, <1>9, <1>12 DEF BrokenFrame
  <2>2. AfterFrame(all) = F[k] /\ raw = w
    <3> DEFINE rest == F[k]
    <3>1. rest \in Seq(Byte) /\ all = (w \o <<DELIM>>) \o rest
      BY <1>10, <2>1
    <3> HIDE DEF rest
    <3>2. AfterFrame(all) = rest /\ RawFrame(all) = w
      BY <3>1, FirstRaw
    <3> QED BY <1>5, <3>2 DEF rest
  <2>3. E[k] = E[j]
    BY <1>9, <1>12 DEF BrokenFrame
  <2>4. got' \in Seq(Seq(Byte)) /\ Arrived(E[j], got', expected)
    <3>1. CASE ~CrcCorrect(raw)
      BY <1>2, <1>4, <1>6, <3>1
    <3>2. CASE CrcCorrect(raw)
      <4>1. ~DamageIsDetected
        BY <2>2, <3>2 DEF DamageIsDetected
      <4>2. Payload(raw) \in Seq(Byte)
        <5>1. raw \in Seq(Byte)
          <6>1. Seq(NoDelim) \subseteq Seq(Byte)
            BY SeqMonotonic DEF NoDelim
          <6> QED BY <2>2, <6>1
        <5>2. Len(Unescape(raw)) > 2
          BY <3>2 DEF CrcCorrect
        <5> QED BY <5>1, <5>2, PayloadType
      <4>3. got' = Append(got, Payload(raw))
        BY <1>4, <3>2
      <4>4. Arrived(E[j], Append(got, Payload(raw)), expected)
        BY <1>2, <1>6, <1>10, <4>1, <4>2, ArrivedDespite
      <4> QED BY <1>2, <4>2, <4>3, <4>4, AppendProperties
    <3> QED BY <3>1, <3>2
  <2> QED BY <1>3, <1>5, <1>6, <1>9, <2>2, <2>3, <2>4 DEF Rest, LinkInv, LinkType
<1> QED BY <1>7, <1>9, <1>11, <1>12

-----------------------------------------------------------------------------
(* The theorems *)

LEMMA LinkInvHolds ==
  ASSUME Checksum16
  PROVE  LinkSpec => []LinkInv
<1>1. LinkInit => LinkInv
  <2> SUFFICES ASSUME LinkInit PROVE LinkInv
    OBVIOUS
  <2>1. /\ wire = <<>> /\ buffer = <<>> /\ got = <<>> /\ expected = <<>>
        /\ clean = TRUE /\ nNoise = 0
    BY DEF LinkInit
  <2>2. /\ <<>> \in Seq(Byte) /\ <<>> \in Seq(Payloads) /\ <<>> \in Seq(Seq(Byte))
        /\ Len(expected) = 0 /\ <<>> \in LeftOpen(0) /\ nNoise \in 0..MaxNoise
    BY <2>1, LeftOpenType, HdlcLinkAssumption DEF HdlcLinkAssumption
  <2> DEFINE F == [k \in 0..0 |-> <<>>]
             E == [k \in 0..0 |-> 0]
  <2>3. F \in [0..0 -> Seq(Byte)] /\ F[0] = <<>>
    BY <2>2
  <2>4. E \in [0..0 -> 0..0] /\ E[0] = 0
    OBVIOUS
  <2> HIDE DEF F, E
  <2>5. Line(F, E, 0, expected)
    <3>1. 1..0 = {}
      OBVIOUS
    <3> QED BY <2>2, <2>3, <2>4, <3>1 DEF Line
  <2>6. Arrived(0, got, expected)
    <3> DEFINE h == [i \in 1..0 |-> 1]
    <3>1. h \in [1..0 -> 1..Len(got)] /\ 1..0 = {}
      OBVIOUS
    <3> HIDE DEF h
    <3>2. Survive(0, got, expected)
      BY <3>1 DEF Survive
    <3>3. Exactly(0, got, expected)
      BY <2>1, <3>1 DEF Exactly
    <3> QED BY <3>2, <3>3 DEF Arrived
  <2>7. buffer \o wire = F[0]
    BY <2>1, <2>2, <2>3, ConcatEmptySeq
  <2>8. Rest(F, E, 0, 0)
    BY <2>1, <2>2, <2>3, <2>4, <2>5, <2>6, <2>7 DEF Rest
  <2> QED BY <2>1, <2>2, <2>8 DEF LinkInv, LinkType
<1>2. LinkInv /\ [LinkNext]_vars => LinkInv'
  <2> SUFFICES ASSUME LinkInv, [LinkNext]_vars PROVE LinkInv'
    OBVIOUS
  <2>1. CASE UNCHANGED vars
    <3>1. LinkType'
      BY <2>1 DEF vars, LinkInv, LinkType
    <3>2a. PICK n \in Nat : \E F, E, j : Rest(F, E, n, j)
      BY DEF LinkInv
    <3>2. PICK F, E, j : Rest(F, E, n, j)
      BY <3>2a
    <3>3. Rest(F, E, n, j)'
      BY <2>1, <3>2 DEF vars, Rest
    <3> QED BY <3>1, <3>3 DEF LinkInv
  <2>2. CASE \E p \in Payloads : SendMsg(p) \/ SendThroughNoise(p)
    BY <2>2, SendStep, NoiseStep
  <2>3. CASE \E c \in ChunkSizes : FeedBinary(c)
    BY <2>3, FeedStep
  <2>4. CASE GetNextFrame
    BY <2>4, GetStep
  <2> QED BY <2>1, <2>2, <2>3, <2>4 DEF LinkNext
<1> QED BY <1>1, <1>2, PTL DEF LinkSpec

(* Everything has been read, and all that can be taken has been.           *)
AllRead == wire = <<>> /\ ~HasFrame(buffer)

LEMMA AllReadIsTaken ==
  ASSUME Checksum16, LinkInv, AllRead
  PROVE  Arrived(Len(expected), got, expected)
<1>1a. PICK n \in Nat : \E F, E, j : Rest(F, E, n, j)
  BY DEF LinkInv
<1>1. PICK F, E, j : Rest(F, E, n, j)
  BY <1>1a
<1>2. /\ buffer \in Seq(Byte) /\ wire = <<>> /\ expected \in Seq(Payloads) /\ ~HasFrame(buffer)
  BY DEF LinkInv, LinkType, AllRead
<1>3. buffer = F[j] /\ j \in 0..n /\ Line(F, E, n, expected) /\ Arrived(E[j], got, expected)
  BY <1>1, <1>2, ConcatEmptySeq DEF Rest
<1>4. j = n
  <2> SUFFICES ASSUME j # n PROVE FALSE
    OBVIOUS
  <2> DEFINE k == j + 1
             rest == F[k]
  <2>1. k \in 1..n /\ k \in 0..n /\ k - 1 = j
    BY <1>3
  <2>2. rest \in Seq(Byte)
    BY <1>3, <2>1 DEF Line
  <2>3. IntactFrame(F, E, k, expected) \/ BrokenFrame(F, E, k)
    BY <1>3, <2>1 DEF Line
  <2> HIDE DEF k, rest
  <2>4. CASE IntactFrame(F, E, k, expected)
    <3> DEFINE p == expected[E[k]]
    <3>1. E[k] \in 1..Len(expected) /\ buffer = EncodeHdlcFrame(p) \o rest
      BY <1>3, <2>1, <2>4 DEF IntactFrame, rest
    <3>2. p \in Payloads
      BY <1>2, <3>1, ElementOfSeq
    <3>3. p \in Seq(Byte) /\ p # <<>> /\ Is16Bits(Crc(p))
      BY <3>2, PayloadBytes DEF Checksum16
    <3> HIDE DEF p
    <3>4. HasFrame(buffer)
      BY <2>2, <3>1, <3>3, EncodedFrameDecodes
    <3> QED BY <1>2, <3>4
  <2>5. CASE BrokenFrame(F, E, k)
    <3>1. PICK w \in Seq(NoDelim) : buffer = (w \o <<DELIM>>) \o rest
      BY <1>3, <2>1, <2>5 DEF BrokenFrame, rest
    <3>2. HasFrame(buffer)
      BY <2>2, <3>1, FirstRaw
    <3> QED BY <1>2, <3>2
  <2> QED BY <2>3, <2>4, <2>5
<1>5. E[n] = Len(expected)
  BY <1>3 DEF Line
<1> QED BY <1>3, <1>4, <1>5

(* Whatever the CRC makes of the damage: once everything has been read, all *)
(* the frames written intact behind a delimiter are among those taken, in   *)
(* the order they were written.                                            *)
IntactFramesArrive == AllRead => Survive(Len(expected), got, expected)

THEOREM DamageLosesNothingElse ==
  ASSUME Checksum16
  PROVE  LinkSpec => []IntactFramesArrive
<1>1. LinkInv => IntactFramesArrive
  BY AllReadIsTaken DEF IntactFramesArrive, Arrived
<1> QED BY <1>1, LinkInvHolds, PTL

(* If the CRC tells the frames that the damage breaks, only what was       *)
(* written intact is taken, in order and each frame once; and once          *)
(* everything has been read, all of it.                                    *)
THEOREM OnlyIntactFramesAreTaken ==
  ASSUME Checksum16, DamageIsDetected
  PROVE  LinkSpec => [](OnlyIntactFramesInOrder /\ Resynchronises)
<1>1. LinkInv => OnlyIntactFramesInOrder
  <2> SUFFICES ASSUME LinkInv PROVE OnlyIntactFramesInOrder
    OBVIOUS
  <2>1a. PICK n \in Nat : \E F, E, j : Rest(F, E, n, j)
    BY DEF LinkInv
  <2>1. PICK F, E, j : Rest(F, E, n, j)
    BY <2>1a
  <2>2. got \in Seq(Seq(Byte)) /\ expected \in Seq(Payloads) /\ expected \in Seq(Seq(Byte))
    <3>1. Payloads \subseteq Seq(Byte)
      BY HdlcLinkAssumption DEF HdlcLinkAssumption
    <3>2. Seq(Payloads) \subseteq Seq(Seq(Byte))
      BY <3>1, SeqMonotonic
    <3> QED BY <3>2 DEF LinkInv, LinkType
  <2>3. E[j] \in 0..Len(expected) /\ Exactly(E[j], got, expected)
    <3>1. Line(F, E, n, expected) /\ j \in 0..n /\ Arrived(E[j], got, expected)
      BY <2>1 DEF Rest
    <3> QED BY <3>1 DEF Line, Arrived
  <2> DEFINE m == Len(got)
             t == SubSeq(expected, 1, m)
  <2>4. m \in 0..Len(expected) /\ \A i \in 1..m : got[i] = expected[i]
    BY <2>3 DEF Exactly
  <2>5. Len(expected) \in Nat /\ m \in Nat
    BY <2>2, LenProperties
  <2>6. t \in Seq(Seq(Byte)) /\ Len(t) = m /\ \A i \in 1..m : t[i] = expected[i]
    <3> HIDE DEF m
    <3>1. 1 <= m + 1 /\ m <= Len(expected) /\ m - 1 + 1 = m /\ \A i \in 1..m : 1 + i - 1 = i
      BY <2>4, <2>5
    <3>2. /\ t \in Seq(Seq(Byte)) /\ Len(t) = m - 1 + 1
          /\ \A i \in 1..(m - 1 + 1) : t[i] = expected[1 + i - 1]
      BY <2>2, <2>5, <3>1, Stretch
    <3> HIDE DEF t
    <3> QED BY <3>1, <3>2
  <2> HIDE DEF t
  <2>7. t = got
    BY <2>2, <2>4, <2>6, SeqEqual
  <2>8. SubSeq(got, 1, m) = got
    BY <2>2, SubSeqFull
  <2> QED BY <2>4, <2>7, <2>8 DEF t, OnlyIntactFramesInOrder, IsPrefix
<1>2. LinkInv => Resynchronises
  <2> SUFFICES ASSUME LinkInv, AllRead PROVE got = expected
    BY DEF Resynchronises, AllRead
  <2>1. Exactly(Len(expected), got, expected)
    BY AllReadIsTaken DEF Arrived
  <2>2. got \in Seq(Seq(Byte)) /\ expected \in Seq(Payloads) /\ expected \in Seq(Seq(Byte))
    <3>1. Payloads \subseteq Seq(Byte)
      BY HdlcLinkAssumption DEF HdlcLinkAssumption
    <3>2. Seq(Payloads) \subseteq Seq(Seq(Byte))
      BY <3>1, SeqMonotonic
    <3> QED BY <3>2 DEF LinkInv, LinkType
  <2> QED BY <2>1, <2>2, SeqEqual DEF Exactly
<1> QED BY <1>1, <1>2, LinkInvHolds, PTL

(* On a line that damages nothing the CRC has nothing to tell.             *)
THEOREM CleanLineDelivers ==
  ASSUME MaxNoise = 0, Checksum16
  PROVE  LinkSpec => [](OnlyIntactFramesInOrder /\ Resynchronises)
<1>1. DamageIsDetected
  <2>1. LeftOpen(MaxNoise - 1) = {}
    <3>1. 0..(MaxNoise - 1) = {}
      OBVIOUS
    <3> QED BY <3>1 DEF LeftOpen
  <2>2. LeftOpen(MaxNoise) \ {<<>>} = {}
    <3> SUFFICES ASSUME NEW t \in LeftOpen(0) PROVE t = <<>>
      OBVIOUS
    <3> DEFINE open == {FrameEndingAt(d, Len(d) + 1) : d \in NoisyFrames}
               Left == UNION {[1..i -> open] : i \in 0..0}
    <3>1. LeftOpen(0) = {FlattenSeq(s) : s \in Left}
      BY DEF LeftOpen
    <3> HIDE DEF open
    <3>2. Left = [1..0 -> open]
      OBVIOUS
    <3> HIDE DEF Left
    <3>3. PICK s \in Left : t = FlattenSeq(s)
      BY <3>1
    <3>4. s = <<>>
      BY <3>2, <3>3
    <3>5. FlattenSeq(<<>>) = <<>>
      <4>1. <<>> \in Seq(Seq(Byte))
        OBVIOUS
      <4> QED BY <4>1, FlattenAny
    <3> QED BY <3>3, <3>4, <3>5
  <2>3. \A d : EndingInside(d) = {}
    BY <2>1 DEF EndingInside
  <2>4. BehindOpenBytes = {}
    BY <2>2 DEF BehindOpenBytes
  <2>5. BrokenFrames = {}
    BY <2>3, <2>4 DEF BrokenFrames
  <2> QED BY <2>5 DEF DamageIsDetected
<1> QED BY <1>1, OnlyIntactFramesAreTaken
=============================================================================
