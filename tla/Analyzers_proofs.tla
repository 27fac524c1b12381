-------------------------- MODULE Analyzers_proofs --------------------------
(***************************************************************************)
(* Theorems about Analyzers, for every set of monitors, whatever the user  *)
(* makes and includes, and any number of analyzers and messages.           *)
(***************************************************************************)
EXTENDS Analyzers, Encoding_proofs

-----------------------------------------------------------------------------
(* Lists of which no element occurs twice *)

Lists(S) == {list \in Seq(S) : IsInjective(list)}

(* ToSet in terms of positions.                                            *)
LEMMA InToSet ==
  ASSUME NEW S, NEW list \in Seq(S), NEW e
  PROVE  e \in ToSet(list) <=> \E k \in 1..Len(list) : list[k] = e
BY DEF ToSet

(* AppendNew adds its element, and none twice.                             *)
LEMMA AppendNewList ==
  ASSUME NEW S, NEW list \in Lists(S), NEW e \in S
  PROVE  /\ AppendNew(list, e) \in Lists(S)
         /\ ToSet(AppendNew(list, e)) = ToSet(list) \cup {e}
<1>1. list \in Seq(S) /\ IsInjective(list)
  BY DEF Lists
<1>2. CASE e \in ToSet(list)
  BY <1>2 DEF AppendNew
<1>3. CASE e \notin ToSet(list)
  <2>1. AppendNew(list, e) = Append(list, e) /\ Append(list, e) \in Seq(S)
    BY <1>1, <1>3 DEF AppendNew
  <2>2. /\ Len(Append(list, e)) = Len(list) + 1
        /\ \A k \in 1..Len(list) : Append(list, e)[k] = list[k]
        /\ Append(list, e)[Len(list) + 1] = e
    BY <1>1
  <2>3. ToSet(Append(list, e)) = ToSet(list) \cup {e}
    <3> DEFINE longer == Append(list, e)
    <3>1. /\ longer \in Seq(S) /\ Len(list) \in Nat /\ Len(longer) = Len(list) + 1
          /\ \A k \in 1..Len(list) : longer[k] = list[k]
          /\ longer[Len(list) + 1] = e
      BY <1>1, <2>1, <2>2
    <3> HIDE DEF longer
    <3>2. ASSUME NEW v, v \in ToSet(longer)
          PROVE  v \in ToSet(list) \/ v = e
      <4>1. PICK k \in 1..Len(longer) : longer[k] = v
        BY <3>1, <3>2, InToSet
      <4>2. k \in 1..Len(list) \/ k = Len(list) + 1
        BY <3>1, <4>1
      <4> QED BY <1>1, <3>1, <4>1, <4>2, InToSet
    <3>3. ASSUME NEW v, v \in ToSet(list)
          PROVE  v \in ToSet(longer)
      <4>1. PICK k \in 1..Len(list) : list[k] = v
        BY <1>1, <3>3, InToSet
      <4>2. k \in 1..Len(longer) /\ longer[k] = v
        BY <3>1, <4>1
      <4> QED BY <3>1, <4>2, InToSet
    <3>4. e \in ToSet(longer)
      <4>1. Len(longer) \in 1..Len(longer) /\ longer[Len(longer)] = e
        BY <3>1
      <4> QED BY <3>1, <4>1, InToSet
    <3>5. ToSet(longer) = ToSet(list) \cup {e}
      BY <3>2, <3>3, <3>4
    <3> QED BY <3>5 DEF longer
  <2>4. \A k \in 1..Len(list) : list[k] # e
    BY <1>1, <1>3, InToSet
  <2>5. IsInjective(Append(list, e))
    <3>1. \A j, k \in 1..Len(list) : list[j] = list[k] => j = k
      BY <1>1 DEF IsInjective
    <3>2. DOMAIN Append(list, e) = 1..(Len(list) + 1)
      BY <1>1, <2>1, <2>2
    <3> QED BY <1>1, <2>2, <2>4, <3>1, <3>2 DEF IsInjective
  <2> QED BY <2>1, <2>3, <2>5 DEF Lists
<1> QED BY <1>2, <1>3

(* Without removes its element and nothing else.                           *)
LEMMA WithoutList ==
  ASSUME NEW S, NEW list \in Lists(S), NEW e
  PROVE  /\ Without(list, e) \in Lists(S)
         /\ ToSet(Without(list, e)) = ToSet(list) \ {e}
<1>1. list \in Seq(S) /\ \A j, k \in 1..Len(list) : list[j] = list[k] => j = k
  BY DEF Lists, IsInjective
<1>2. CASE e \notin ToSet(list)
  BY <1>2 DEF Without
<1>3. CASE e \in ToSet(list)
  <2> DEFINE p == Position(list, e)
             rest == RemoveAt(list, p)
  <2>1. p \in 1..Len(list) /\ list[p] = e
    BY <1>1, <1>3, InToSet DEF Position
  <2>2. Without(list, e) = rest
    BY <1>3 DEF Without
  <2>3. Len(list) \in Nat
    BY <1>1
  <2> HIDE DEF p
  <2>4. /\ rest \in Seq(S) /\ Len(rest) = Len(list) - 1
        /\ \A k \in 1..(Len(list) - 1) : rest[k] = IF k < p THEN list[k] ELSE list[k + 1]
    <3>1. SubSeq(list, 1, p - 1) \in Seq(S) /\ Len(SubSeq(list, 1, p - 1)) = p - 1
      BY <1>1, <2>1, <2>3
    <3>2. /\ SubSeq(list, p + 1, Len(list)) \in Seq(S)
          /\ Len(SubSeq(list, p + 1, Len(list))) = Len(list) - p
      BY <1>1, <2>1, <2>3
    <3> DEFINE before == SubSeq(list, 1, p - 1)
               after  == SubSeq(list, p + 1, Len(list))
    <3>3. /\ \A k \in 1..(p - 1) : before[k] = list[k]
          /\ \A k \in 1..(Len(list) - p) : after[k] = list[p + k]
      BY <1>1, <2>1, <2>3
    <3>4. rest = before \o after
      BY DEF RemoveAt, rest
    <3> HIDE DEF before, after, rest
    <3>5. /\ before \in Seq(S) /\ Len(before) = p - 1
          /\ after \in Seq(S) /\ Len(after) = Len(list) - p
      BY <3>1, <3>2 DEF before, after
    <3>6. rest \in Seq(S) /\ Len(rest) = Len(list) - 1
      BY <2>1, <2>3, <3>4, <3>5
    <3>7. ASSUME NEW k \in 1..(Len(list) - 1)
          PROVE  rest[k] = IF k < p THEN list[k] ELSE list[k + 1]
      <4>1. CASE k < p
        <5>1. rest[k] = before[k]
          BY <2>1, <2>3, <3>4, <3>5, <4>1
        <5> QED BY <2>1, <3>3, <4>1, <5>1
      <4>2. CASE ~(k < p)
        <5>1. rest[k] = after[k - (p - 1)]
          <6>1. k \in 1..(Len(before) + Len(after)) /\ ~(k <= Len(before))
            BY <2>1, <2>3, <3>5, <4>2
          <6>2. (before \o after)[k] = after[k - Len(before)]
            BY <3>5, <6>1, ConcatProperties
          <6> QED BY <3>4, <3>5, <6>2
        <5>2. k - (p - 1) \in 1..(Len(list) - p) /\ p + (k - (p - 1)) = k + 1
          BY <2>1, <2>3, <4>2
        <5>3. after[k - (p - 1)] = list[p + (k - (p - 1))]
          BY <3>3, <5>2
        <5> QED BY <4>2, <5>1, <5>2, <5>3
      <4> QED BY <4>1, <4>2
    <3> QED BY <3>6, <3>7
  <2> HIDE DEF rest
  <2>5. \A v : v \in ToSet(rest) <=> v \in ToSet(list) /\ v # e
    <3>1. ASSUME NEW v, v \in ToSet(rest)
          PROVE  v \in ToSet(list) /\ v # e
      <4>1. PICK k \in 1..(Len(list) - 1) : rest[k] = v
        BY <2>4, <3>1, InToSet
      <4>2. PICK j \in 1..Len(list) : list[j] = v /\ j # p
        BY <2>1, <2>3, <2>4, <4>1
      <4> QED BY <1>1, <2>1, <4>2, InToSet
    <3>2. ASSUME NEW v, v \in ToSet(list), v # e
          PROVE  v \in ToSet(rest)
      <4>1. PICK j \in 1..Len(list) : list[j] = v
        BY <1>1, <3>2, InToSet
      <4>2. j # p
        BY <2>1, <3>2, <4>1
      <4>3. \E k \in 1..(Len(list) - 1) : rest[k] = v
        <5>1. CASE j < p
          BY <2>1, <2>3, <2>4, <4>1, <5>1
        <5>2. CASE j > p
          <6>1. j - 1 \in 1..(Len(list) - 1) /\ ~(j - 1 < p) /\ (j - 1) + 1 = j
            BY <2>1, <2>3, <5>2
          <6>2. rest[j - 1] = list[j]
            BY <2>4, <6>1
          <6> QED BY <4>1, <6>1, <6>2
        <5> QED BY <2>1, <4>2, <5>1, <5>2
      <4> QED BY <2>4, <4>3, InToSet
    <3> QED BY <3>1, <3>2
  <2>6. IsInjective(rest)
    <3>1. DOMAIN rest = 1..(Len(list) - 1)
      BY <2>4
    <3>2. ASSUME NEW j \in 1..(Len(list) - 1), NEW k \in 1..(Len(list) - 1), rest[j] = rest[k]
          PROVE  j = k
      BY <1>1, <2>1, <2>3, <2>4, <3>2
    <3> QED BY <3>1, <3>2 DEF IsInjective
  <2> QED BY <2>2, <2>4, <2>5, <2>6 DEF Lists
<1> QED BY <1>2, <1>3

(* More analyzers, the same lists.                                         *)
LEMMA ListsGrow ==
  ASSUME NEW S, NEW T, S \subseteq T
  PROVE  Lists(S) \subseteq Lists(T)
BY DEF Lists

-----------------------------------------------------------------------------
(* The inductive invariant: what is linked was made, the two ends of each   *)
(* link agree, and the calls that are running are all of one function.      *)

Made     == 1..Len(class)
Elements == Analyzers \cup Monitors

Messages == [n : Nat, ota : BOOLEAN, signals : Seq(CdrxEvents \cup OtaElements)]

IncludeCalls == [fn : {"include", "check_kpis"}, of : Made, arg : {Nobody}, todo : Seq(Classes)]
SetCalls     == [fn : {"set_source"}, of : Made, arg : Monitors, todo : Seq(Made)]
SendCalls    == {c \in [fn : {"send"}, of : Elements, arg : Messages, todo : Seq(Made)] :
                    ToSet(c.todo) \subseteq ToSet(to_list[c.of])}

OneKindOfCalls ==
    \/ calls \in Seq(IncludeCalls) \/ calls \in Seq(SetCalls) \/ calls \in Seq(SendCalls)

LinksType ==
    /\ class \in Seq(Classes) /\ Len(class) <= MaxAnalyzers
    /\ analyzer_array \in [Classes -> Made \cup {Nobody}]
    /\ from_list \in [Analyzers -> Lists(Made)]
    /\ to_list \in [Elements -> Lists(Made)]
    /\ source \in [Analyzers -> Monitors \cup {Nobody}]
    /\ events \in Nat /\ batch \in Seq(CdrxEvents)

EndsAgree ==
    \A a \in Analyzers :
        /\ \A m \in Monitors : a \in ToSet(to_list[m]) <=> source[a] = m
        /\ \A other \in Analyzers : a \in ToSet(to_list[other]) <=> other \in ToSet(from_list[a])

LinksInv == LinksType /\ EndsAgree /\ OneKindOfCalls

(* What a constructor includes are classes.                                *)
LEMMA IncludedType == Included \in [Classes -> Seq(Classes)]
<1>1. Classes = {"WcdmaRrcAnalyzer", "LteRrcAnalyzer", "RrcAnalyzer", "MobilityMngt",
                 "HandoffLoopAnalyzer", "TrackCellInfoAnalyzer", "AttachSrAnalyzer",
                 "TauSrAnalyzer", "KPIManager"}
  BY DEF Classes, Included
<1>2. /\ <<>> \in Seq(Classes)
      /\ <<"WcdmaRrcAnalyzer", "LteRrcAnalyzer">> \in Seq(Classes)
      /\ <<"RrcAnalyzer">> \in Seq(Classes)
      /\ <<"TrackCellInfoAnalyzer">> \in Seq(Classes)
  BY <1>1
<1>3. \A c \in Classes :
         Included[c] \in {<<>>, <<"WcdmaRrcAnalyzer", "LteRrcAnalyzer">>, <<"RrcAnalyzer">>,
                         <<"TrackCellInfoAnalyzer">>}
  BY <1>1 DEF Included
<1>4. Included = [c \in Classes |-> Included[c]]
  BY DEF Included, Classes
<1> QED BY <1>2, <1>3, <1>4

(* The KPIs that can be enabled are KPI analyzers.                         *)
LEMMA KpisAre == Kpis \subseteq {"AttachSrAnalyzer", "TauSrAnalyzer"} /\ Kpis \subseteq Classes
<1>1. ToSet(KpiAnalyzers) = {"AttachSrAnalyzer", "TauSrAnalyzer"}
  BY DEF ToSet, KpiAnalyzers
<1>2. {"AttachSrAnalyzer", "TauSrAnalyzer"} \subseteq Classes
  BY DEF Classes, Included
<1> QED BY <1>1, <1>2, AnalyzersAssumption DEF AnalyzersAssumption

(* Analyzers made are analyzers; monitors are none.                        *)
LEMMA MadeAnalyzers ==
  ASSUME LinksType
  PROVE  /\ Len(class) \in Nat /\ Made \subseteq Analyzers
         /\ MaxAnalyzers \in Nat
         /\ Monitors \cap Analyzers = {} /\ Nobody \notin Monitors \cup Analyzers
<1>1. MaxAnalyzers \in Nat /\ Monitors \cap Analyzers = {} /\ Nobody \notin Monitors \cup Analyzers
  BY AnalyzersAssumption DEF AnalyzersAssumption
<1>2. Len(class) \in Nat /\ Len(class) <= MaxAnalyzers
  BY DEF LinksType
<1> QED BY <1>1, <1>2 DEF Made, Analyzers

(* The call that runs tells of what function all calls are.                *)
LEMMA RunningCalls ==
  ASSUME OneKindOfCalls, calls # <<>>
  PROVE  /\ Head(calls).fn \in {"include", "check_kpis"} => calls \in Seq(IncludeCalls)
         /\ Head(calls).fn = "set_source" => calls \in Seq(SetCalls)
         /\ Head(calls).fn = "send" => calls \in Seq(SendCalls)
<1>1. CASE calls \in Seq(IncludeCalls)
  <2>1. Head(calls) \in IncludeCalls
    BY <1>1
  <2> QED BY <1>1, <2>1 DEF IncludeCalls
<1>2. CASE calls \in Seq(SetCalls)
  <2>1. Head(calls) \in SetCalls
    BY <1>2
  <2> QED BY <1>2, <2>1 DEF SetCalls
<1>3. CASE calls \in Seq(SendCalls)
  <2>1. Head(calls) \in SendCalls
    BY <1>3
  <2> QED BY <1>3, <2>1 DEF SendCalls
<1> QED BY <1>1, <1>2, <1>3 DEF OneKindOfCalls

(* A call on top of calls, and the first of `todo' gone.                   *)
LEMMA DescendCalls ==
  ASSUME NEW S, NEW T, NEW F, NEW O, NEW A,
         S = [fn : F, of : O, arg : A, todo : Seq(T)],
         calls \in Seq(S), calls # <<>>, Head(calls).todo # <<>>,
         NEW called \in Seq(S)
  PROVE  Descend(called) \in Seq(S)
<1>1. Head(calls) \in S /\ Tail(calls) \in Seq(S)
  BY HeadTailProperties
<1>2. Tail(Head(calls).todo) \in Seq(T)
  BY <1>1, HeadTailProperties
<1>3. [Head(calls) EXCEPT !.todo = Tail(@)] \in S
  BY <1>1, <1>2
<1>4. <<[Head(calls) EXCEPT !.todo = Tail(@)]>> \in Seq(S)
  BY <1>3
<1>5. called \o <<[Head(calls) EXCEPT !.todo = Tail(@)]>> \in Seq(S)
  BY <1>4
<1> QED BY <1>1, <1>5 DEF Descend

-----------------------------------------------------------------------------
(* The steps that change links *)

(* One more analyzer was made, and nothing is linked to it yet.            *)
LEMMA ConstructKeeps ==
  ASSUME LinksInv, NEW c \in Classes, NEW caller \in Seq(IncludeCalls), Construct(c, caller)
  PROVE  LinksInv'
<1> DEFINE a == Len(class) + 1
<1>1. /\ Len(class) \in Nat /\ class' = Append(class, c) /\ Len(class) < MaxAnalyzers
      /\ MaxAnalyzers \in Nat
  BY MadeAnalyzers DEF LinksInv, Construct
<1>2. class' \in Seq(Classes) /\ Len(class') = a /\ Len(class') <= MaxAnalyzers
  BY <1>1 DEF LinksInv, LinksType
<1>3. Made \subseteq Made' /\ a \in Made'
  BY <1>1, <1>2 DEF Made
<1>4. Lists(Made) \subseteq Lists(Made')
  BY <1>3, ListsGrow
<1>5. /\ UNCHANGED <<from_list, to_list, source, events, batch>>
      /\ calls' = <<Constructor(c, a)>> \o caller
      /\ analyzer_array' = IF analyzer_array[c] = Nobody
                           THEN [analyzer_array EXCEPT ![c] = a] ELSE analyzer_array
  BY DEF Construct, phoneVars
<1>6. analyzer_array' \in [Classes -> Made' \cup {Nobody}]
  BY <1>3, <1>5 DEF LinksInv, LinksType
<1>7. LinksType'
  <2>1. from_list' \in [Analyzers -> Lists(Made')] /\ to_list' \in [Elements -> Lists(Made')]
    BY <1>4, <1>5 DEF LinksInv, LinksType
  <2> QED BY <1>2, <1>5, <1>6, <2>1 DEF LinksInv, LinksType, Elements
<1>8. EndsAgree'
  BY <1>5 DEF LinksInv, EndsAgree
<1>9. calls' \in Seq(IncludeCalls')
  <2>1. IncludeCalls \subseteq IncludeCalls'
    BY <1>3 DEF IncludeCalls
  <2>2. caller \in Seq(IncludeCalls')
    BY <2>1
  <2>3. Constructor(c, a) \in IncludeCalls'
    <3>1. KpiAnalyzers \in Seq(Classes)
      BY DEF KpiAnalyzers, Classes, Included
    <3> QED BY <1>3, <3>1, IncludedType DEF IncludeCalls, Constructor, Call
  <2> QED BY <1>5, <2>2, <2>3
<1> QED BY <1>7, <1>8, <1>9 DEF LinksInv, OneKindOfCalls

(* KPIManager makes one KPI.                                               *)
LEMMA CheckKpisKeeps ==
  ASSUME LinksInv, check_kpis
  PROVE  LinksInv'
<1>1. calls # <<>> /\ Head(calls).fn = "check_kpis" /\ Head(calls).todo # <<>>
  BY DEF check_kpis, Running, Idle
<1>2. calls \in Seq(IncludeCalls)
  BY <1>1, RunningCalls DEF LinksInv
<1>3. Head(calls) \in IncludeCalls
  BY <1>1, <1>2, HeadTailProperties
<1>4. Head(Head(calls).todo) \in Classes
  BY <1>1, <1>3, HeadTailProperties DEF IncludeCalls
<1>5. <<>> \in Seq(IncludeCalls)
  OBVIOUS
<1>6. Descend(<<>>) \in Seq(IncludeCalls)
  BY <1>1, <1>2, <1>5, DescendCalls DEF IncludeCalls
<1> QED BY <1>4, <1>6, ConstructKeeps DEF check_kpis

(* Including links both ends.                                              *)
LEMMA LinkKeeps ==
  ASSUME LinksInv, NEW a \in Made, NEW other \in Made, Link(a, other),
         UNCHANGED <<class, analyzer_array, source, events, batch>>
  PROVE  LinksType' /\ EndsAgree'
<1>1. a \in Analyzers /\ other \in Analyzers /\ other \in Elements
      /\ Monitors \cap Analyzers = {}
  BY MadeAnalyzers DEF LinksInv, Elements
<1>2. from_list[a] \in Lists(Made) /\ to_list[other] \in Lists(Made)
  BY <1>1 DEF LinksInv, LinksType
<1>3. /\ AppendNew(from_list[a], other) \in Lists(Made)
      /\ ToSet(AppendNew(from_list[a], other)) = ToSet(from_list[a]) \cup {other}
      /\ AppendNew(to_list[other], a) \in Lists(Made)
      /\ ToSet(AppendNew(to_list[other], a)) = ToSet(to_list[other]) \cup {a}
  BY <1>2, AppendNewList
<1>4. /\ from_list' = [from_list EXCEPT ![a] = AppendNew(from_list[a], other)]
      /\ to_list' = [to_list EXCEPT ![other] = AppendNew(to_list[other], a)]
  BY DEF Link
<1>5. Made' = Made /\ Lists(Made)' = Lists(Made)
  BY DEF Made, Lists
<1>6. LinksType'
  <2>1. /\ from_list' \in [Analyzers -> Lists(Made)] /\ to_list' \in [Elements -> Lists(Made)]
    BY <1>3, <1>4 DEF LinksInv, LinksType
  <2> QED BY <1>5, <2>1 DEF LinksInv, LinksType
<1>7. EndsAgree'
  <2>1. ASSUME NEW b \in Analyzers, NEW m \in Monitors
        PROVE  b \in ToSet(to_list'[m]) <=> source'[b] = m
    <3>1. m # other
      BY <1>1
    <3>2. m \in Elements /\ to_list'[m] = to_list[m]
      BY <1>4, <3>1 DEF LinksInv, LinksType, Elements
    <3> QED BY <3>2 DEF LinksInv, EndsAgree
  <2>2. ASSUME NEW b \in Analyzers, NEW o \in Analyzers
        PROVE  b \in ToSet(to_list'[o]) <=> o \in ToSet(from_list'[b])
    <3>1. ToSet(to_list'[o]) = IF o = other THEN ToSet(to_list[o]) \cup {a} ELSE ToSet(to_list[o])
      BY <1>3, <1>4 DEF LinksInv, LinksType, Elements
    <3>2. ToSet(from_list'[b]) = IF b = a THEN ToSet(from_list[b]) \cup {other}
                                 ELSE ToSet(from_list[b])
      BY <1>3, <1>4 DEF LinksInv, LinksType
    <3>3. b \in ToSet(to_list[o]) <=> o \in ToSet(from_list[b])
      BY DEF LinksInv, EndsAgree
    <3>4. other \in ToSet(from_list[a]) <=> a \in ToSet(to_list[other])
      BY <1>1 DEF LinksInv, EndsAgree
    <3> QED BY <3>1, <3>2, <3>3, <3>4
  <2> QED BY <2>1, <2>2 DEF EndsAgree
<1> QED BY <1>6, <1>7

(* A step of include_analyzer.                                             *)
LEMMA IncludeKeeps ==
  ASSUME LinksInv, include_analyzer
  PROVE  LinksInv'
<1> DEFINE name  == Head(Head(calls).todo)
           other == analyzer_array[name]
<1>1. calls # <<>> /\ Head(calls).fn = "include" /\ Head(calls).todo # <<>>
  BY DEF include_analyzer, Running, Idle
<1>2. calls \in Seq(IncludeCalls)
  BY <1>1, RunningCalls DEF LinksInv
<1>3. Head(calls) \in IncludeCalls
  BY <1>1, <1>2, HeadTailProperties
<1>4. name \in Classes /\ Head(calls).of \in Made
  BY <1>1, <1>3, HeadTailProperties DEF IncludeCalls
<1>5. CASE other = Nobody
  <2>1. Construct(name, calls)
    BY <1>5 DEF include_analyzer
  <2> QED BY <1>2, <1>4, <2>1, ConstructKeeps
<1>6. CASE other # Nobody
  <2>1. /\ Link(Head(calls).of, other) /\ calls' = Descend(<<>>)
        /\ UNCHANGED <<class, analyzer_array, source, events, batch>>
    BY <1>6 DEF include_analyzer, phoneVars
  <2>2. other \in Made
    BY <1>4, <1>6 DEF LinksInv, LinksType
  <2>3. LinksType' /\ EndsAgree'
    BY <1>4, <2>1, <2>2, LinkKeeps
  <2>4. Descend(<<>>) \in Seq(IncludeCalls)
    <3>1. <<>> \in Seq(IncludeCalls)
      OBVIOUS
    <3> QED BY <1>1, <1>2, <3>1, DescendCalls DEF IncludeCalls
  <2>5. IncludeCalls' = IncludeCalls
    BY <2>1 DEF IncludeCalls, Made
  <2>6. calls' \in Seq(IncludeCalls')
    BY <2>1, <2>4, <2>5
  <2> QED BY <2>3, <2>6 DEF LinksInv, OneKindOfCalls
<1> QED BY <1>5, <1>6

(* An analyzer is registered with one source, the new one.                 *)
LEMMA RegisterKeeps ==
  ASSUME LinksInv, NEW a \in Made, NEW m \in Monitors, Register(a, m),
         UNCHANGED <<class, analyzer_array, from_list, events, batch>>
  PROVE  LinksType' /\ EndsAgree'
<1> DEFINE off == IF source[a] = Nobody THEN to_list
                  ELSE [to_list EXCEPT ![source[a]] = Without(to_list[source[a]], a)]
<1>1. /\ a \in Analyzers /\ m \in Elements /\ Monitors \cap Analyzers = {}
      /\ Nobody \notin Monitors /\ source[a] \in Monitors \cup {Nobody}
      /\ source[a] # Nobody => source[a] \in Elements
  BY MadeAnalyzers DEF LinksInv, LinksType, Elements
<1>2. /\ off \in [Elements -> Lists(Made)]
      /\ \A e \in Elements :
            ToSet(off[e]) = IF e = source[a] THEN ToSet(to_list[e]) \ {a} ELSE ToSet(to_list[e])
  <2>1. CASE source[a] = Nobody
    <3>1. \A e \in Elements : e # Nobody
      BY MadeAnalyzers DEF LinksInv, Elements
    <3> QED BY <2>1, <3>1 DEF LinksInv, LinksType
  <2>2. CASE source[a] # Nobody
    <3>1. to_list[source[a]] \in Lists(Made)
      BY <1>1, <2>2 DEF LinksInv, LinksType
    <3>2. /\ Without(to_list[source[a]], a) \in Lists(Made)
          /\ ToSet(Without(to_list[source[a]], a)) = ToSet(to_list[source[a]]) \ {a}
      BY <3>1, WithoutList
    <3> QED BY <1>1, <2>2, <3>2 DEF LinksInv, LinksType
  <2> QED BY <2>1, <2>2
<1>3. to_list' = [off EXCEPT ![m] = AppendNew(off[m], a)] /\ source' = [source EXCEPT ![a] = m]
  BY DEF Register
<1> HIDE DEF off
<1>4. /\ AppendNew(off[m], a) \in Lists(Made)
      /\ ToSet(AppendNew(off[m], a)) = ToSet(off[m]) \cup {a}
  BY <1>1, <1>2, AppendNewList
<1>5. LinksType'
  <2>1. Made' = Made /\ Lists(Made)' = Lists(Made)
    BY DEF Made, Lists
  <2>2. to_list' \in [Elements -> Lists(Made)]
    BY <1>2, <1>3, <1>4
  <2>3. source' \in [Analyzers -> Monitors \cup {Nobody}]
    BY <1>1, <1>3 DEF LinksInv, LinksType
  <2> QED BY <2>1, <2>2, <2>3 DEF LinksInv, LinksType
<1>6. \A e \in Elements :
         ToSet(to_list'[e]) = IF e = m THEN ToSet(off[e]) \cup {a} ELSE ToSet(off[e])
  BY <1>2, <1>3, <1>4
<1>7. ASSUME NEW b \in Analyzers, NEW e \in Monitors
      PROVE  b \in ToSet(to_list'[e]) <=> source'[b] = e
  <2>1. e \in Elements /\ (b \in ToSet(to_list[e]) <=> source[b] = e)
    BY DEF Elements, LinksInv, EndsAgree
  <2>2. source'[b] = IF b = a THEN m ELSE source[b]
    BY <1>3 DEF LinksInv, LinksType
  <2> QED BY <1>2, <1>6, <2>1, <2>2
<1>8. ASSUME NEW b \in Analyzers, NEW o \in Analyzers
      PROVE  b \in ToSet(to_list'[o]) <=> o \in ToSet(from_list'[b])
  <2>1. o \in Elements /\ o # m /\ o # source[a]
    BY <1>1, MadeAnalyzers DEF Elements, LinksInv
  <2>2. ToSet(to_list'[o]) = ToSet(to_list[o])
    BY <1>2, <1>6, <2>1
  <2> QED BY <2>2 DEF LinksInv, EndsAgree
<1> QED BY <1>5, <1>7, <1>8 DEF EndsAgree

(* set_source returns.                                                     *)
LEMMA SourceSetKeeps ==
  ASSUME LinksInv, SourceSet
  PROVE  LinksInv'
<1>1. calls # <<>> /\ Head(calls).fn = "set_source"
  BY DEF SourceSet, Running, Idle
<1>2. calls \in Seq(SetCalls)
  BY <1>1, RunningCalls DEF LinksInv
<1>3. Head(calls) \in SetCalls /\ Tail(calls) \in Seq(SetCalls)
  BY <1>1, <1>2, HeadTailProperties
<1>4. /\ Register(Head(calls).of, Head(calls).arg) /\ calls' = Tail(calls)
      /\ UNCHANGED <<class, analyzer_array, from_list, events, batch>>
  BY DEF SourceSet, phoneVars
<1>5. Head(calls).of \in Made /\ Head(calls).arg \in Monitors
  BY <1>3 DEF SetCalls
<1>6. LinksType' /\ EndsAgree'
  BY <1>4, <1>5, RegisterKeeps
<1>7. SetCalls' = SetCalls
  BY <1>4 DEF SetCalls, Made
<1>8. calls' \in Seq(SetCalls')
  BY <1>3, <1>4, <1>7
<1> QED BY <1>6, <1>8 DEF LinksInv, OneKindOfCalls

-----------------------------------------------------------------------------
(* The steps that only call and return *)

(* Links that stay as they are agree.                                      *)
LEMMA SameLinks ==
  ASSUME LinksInv, UNCHANGED <<class, from_list, to_list, source>>,
         analyzer_array' \in [Classes -> Made \cup {Nobody}],
         events' \in Nat, batch' \in Seq(CdrxEvents)
  PROVE  /\ LinksType' /\ EndsAgree' /\ Made' = Made
         /\ IncludeCalls' = IncludeCalls /\ SetCalls' = SetCalls /\ SendCalls' = SendCalls
<1>1. Made' = Made /\ Lists(Made)' = Lists(Made)
  BY DEF Made, Lists
<1>2. LinksType' /\ EndsAgree'
  BY <1>1 DEF LinksInv, LinksType, EndsAgree
<1>3. IncludeCalls' = IncludeCalls /\ SetCalls' = SetCalls /\ SendCalls' = SendCalls
  BY <1>1 DEF IncludeCalls, SetCalls, SendCalls
<1> QED BY <1>1, <1>2, <1>3

(* A step of set_source calls it for an analyzer that is included.         *)
LEMMA SetSourceKeeps ==
  ASSUME LinksInv, set_source
  PROVE  LinksInv'
<1> DEFINE other == Head(Head(calls).todo)
           called == Call("set_source", other, Head(calls).arg, from_list[other])
<1>1. calls # <<>> /\ Head(calls).fn = "set_source" /\ Head(calls).todo # <<>>
  BY DEF set_source, Running, Idle
<1>2. calls \in Seq(SetCalls)
  BY <1>1, RunningCalls DEF LinksInv
<1>3. Head(calls) \in SetCalls
  BY <1>1, <1>2, HeadTailProperties
<1>4. other \in Made /\ Head(calls).arg \in Monitors
  BY <1>1, <1>3, HeadTailProperties DEF SetCalls
<1>5. from_list[other] \in Seq(Made)
  <2>1. other \in Analyzers
    BY <1>4, MadeAnalyzers DEF LinksInv
  <2> QED BY <2>1 DEF LinksInv, LinksType, Lists
<1>6. called \in SetCalls
  BY <1>4, <1>5 DEF SetCalls, Call
<1>7. <<called>> \in Seq(SetCalls)
  BY <1>6
<1>8. calls' = Descend(<<called>>)
  BY DEF set_source
<1> HIDE DEF called
<1>9. Descend(<<called>>) \in Seq(SetCalls)
  BY <1>1, <1>2, <1>7, DescendCalls DEF SetCalls
<1>10. UNCHANGED <<class, analyzer_array, from_list, to_list, source, events, batch>>
  BY DEF set_source, linkVars, phoneVars
<1>11. LinksType' /\ EndsAgree' /\ SetCalls' = SetCalls
  BY <1>10, SameLinks DEF LinksInv, LinksType
<1>12. calls' \in Seq(SetCalls')
  BY <1>8, <1>9, <1>11
<1> QED BY <1>11, <1>12 DEF LinksInv, OneKindOfCalls

(* A list that is sent to makes a call of send.                            *)
LEMMA SendCallType ==
  ASSUME LinksInv, NEW e \in Elements, NEW message \in Messages
  PROVE  Call("send", e, message, to_list[e]) \in SendCalls
<1>1. to_list[e] \in Seq(Made)
  BY DEF LinksInv, LinksType, Lists
<1> QED BY <1>1 DEF SendCalls, Call

(* What is left of the innermost send is still to be sent to.              *)
LEMMA SendGoesOn ==
  ASSUME LinksInv, calls # <<>>, calls \in Seq(SendCalls), Head(calls).todo # <<>>
  PROVE  /\ Head(Head(calls).todo) \in Made
         /\ Head(Head(calls).todo) \in ToSet(to_list[Head(calls).of])
         /\ [Head(calls) EXCEPT !.todo = Tail(@)] \in SendCalls
<1> DEFINE c == Head(calls)
           rest == Tail(c.todo)
<1>1. c \in SendCalls
  BY HeadTailProperties
<1>2. /\ c \in [fn : {"send"}, of : Elements, arg : Messages, todo : Seq(Made)]
      /\ ToSet(c.todo) \subseteq ToSet(to_list[c.of])
  BY <1>1 DEF SendCalls
<1>3. c.todo \in Seq(Made) /\ c.todo # <<>>
  BY <1>2
<1> HIDE DEF c
<1>4. /\ Head(c.todo) \in Made /\ Head(c.todo) = c.todo[1] /\ Len(c.todo) \in Nat \ {0}
      /\ rest \in Seq(Made) /\ Len(rest) = Len(c.todo) - 1
      /\ \A k \in 1..Len(rest) : rest[k] = c.todo[k + 1]
  BY <1>3, HeadTailProperties
<1>5. Head(c.todo) \in ToSet(c.todo)
  BY <1>3, <1>4, InToSet
<1>6. ToSet(rest) \subseteq ToSet(c.todo)
  <2>1. ASSUME NEW v, v \in ToSet(rest)
        PROVE  v \in ToSet(c.todo)
    <3>1. PICK k \in 1..Len(rest) : rest[k] = v
      BY <1>4, <2>1, InToSet
    <3>2. k + 1 \in 1..Len(c.todo) /\ c.todo[k + 1] = v
      BY <1>4, <3>1
    <3> QED BY <1>3, <3>2, InToSet
  <2> QED BY <2>1
<1>7. [c EXCEPT !.todo = Tail(@)] = [c EXCEPT !.todo = rest]
  BY <1>2
<1>8. [c EXCEPT !.todo = rest] \in SendCalls
  BY <1>2, <1>4, <1>6 DEF SendCalls
<1> QED BY <1>2, <1>4, <1>5, <1>7, <1>8 DEF c

(* recv: with the sends of LteRrcAnalyzer and RrcAnalyzer that it causes.  *)
LEMMA RecvKeeps ==
  ASSUME LinksInv, recv
  PROVE  LinksInv'
<1> DEFINE a     == Head(Head(calls).todo)
           event == Head(calls).arg
           rest  == [Head(calls) EXCEPT !.todo = Tail(@)]
           called == IF SendsOn(a, Head(calls).of, event)
                     THEN <<Call("send", a, event, to_list[a])>> ELSE <<>>
<1>1. calls # <<>> /\ Head(calls).fn = "send" /\ Head(calls).todo # <<>>
  BY DEF recv, Running, Idle
<1>2. calls \in Seq(SendCalls)
  BY <1>1, RunningCalls DEF LinksInv
<1>3. a \in Made /\ rest \in SendCalls
  BY <1>1, <1>2, SendGoesOn
<1>4. event \in Messages /\ Tail(calls) \in Seq(SendCalls)
  <2>1. Head(calls) \in SendCalls /\ Tail(calls) \in Seq(SendCalls)
    BY <1>1, <1>2, HeadTailProperties
  <2> QED BY <2>1 DEF SendCalls
<1>5. called \in Seq(SendCalls)
  <2>1. a \in Elements
    BY <1>3, MadeAnalyzers DEF LinksInv, Elements
  <2>2. Call("send", a, event, to_list[a]) \in SendCalls
    BY <1>4, <2>1, SendCallType
  <2>3. <<Call("send", a, event, to_list[a])>> \in Seq(SendCalls)
    BY <2>2
  <2> QED BY <2>3
<1>6. calls' = called \o <<rest>> \o Tail(calls)
  BY DEF recv, Descend
<1> HIDE DEF called, rest
<1>7. calls' \in Seq(SendCalls)
  <2>1. <<rest>> \in Seq(SendCalls)
    BY <1>3
  <2>2. called \o <<rest>> \in Seq(SendCalls)
    BY <1>5, <2>1
  <2> QED BY <1>4, <1>6, <2>2
<1>8. UNCHANGED <<class, analyzer_array, from_list, to_list, source, events, batch>>
  BY DEF recv, linkVars, phoneVars
<1>9. LinksType' /\ EndsAgree' /\ SendCalls' = SendCalls
  BY <1>8, SameLinks DEF LinksInv, LinksType
<1>10. calls' \in Seq(SendCalls')
  BY <1>7, <1>9
<1> QED BY <1>9, <1>10 DEF LinksInv, OneKindOfCalls

(* A call returns.                                                         *)
LEMMA ReturnKeeps ==
  ASSUME LinksInv, Return
  PROVE  LinksInv'
<1>1. calls # <<>> /\ calls' = Tail(calls)
  BY DEF Return, Running, Idle
<1>2. UNCHANGED <<class, analyzer_array, from_list, to_list, source, events, batch>>
  BY DEF Return, linkVars, phoneVars
<1>3. /\ LinksType' /\ EndsAgree'
      /\ IncludeCalls' = IncludeCalls /\ SetCalls' = SetCalls /\ SendCalls' = SendCalls
  BY <1>2, SameLinks DEF LinksInv, LinksType
<1>4. CASE calls \in Seq(IncludeCalls)
  <2>1. calls' \in Seq(IncludeCalls')
    BY <1>1, <1>3, <1>4, HeadTailProperties
  <2> QED BY <1>3, <2>1 DEF LinksInv, OneKindOfCalls
<1>5. CASE calls \in Seq(SetCalls)
  <2>1. calls' \in Seq(SetCalls')
    BY <1>1, <1>3, <1>5, HeadTailProperties
  <2> QED BY <1>3, <2>1 DEF LinksInv, OneKindOfCalls
<1>6. CASE calls \in Seq(SendCalls)
  <2>1. calls' \in Seq(SendCalls')
    BY <1>1, <1>3, <1>6, HeadTailProperties
  <2> QED BY <1>3, <2>1 DEF LinksInv, OneKindOfCalls
<1> QED BY <1>4, <1>5, <1>6 DEF LinksInv, OneKindOfCalls

(* The user makes an analyzer, sets a source, enables a KPI or resets.     *)
LEMMA UserKeeps ==
  ASSUME LinksInv, User
  PROVE  LinksInv'
<1>1. ASSUME NEW c \in Tops, Make(c)
      PROVE  LinksInv'
  <2>1. c \in Classes /\ Construct(c, <<>>)
    BY <1>1, AnalyzersAssumption DEF Make, AnalyzersAssumption
  <2>2. <<>> \in Seq(IncludeCalls)
    OBVIOUS
  <2> QED BY <2>1, <2>2, ConstructKeeps
<1>2. ASSUME NEW a \in 1..Len(class), NEW m \in Monitors, SetSource(a, m)
      PROVE  LinksInv'
  <2>1. UNCHANGED <<class, analyzer_array, from_list, to_list, source, events, batch>>
    BY <1>2 DEF SetSource, linkVars, phoneVars
  <2>2. LinksType' /\ EndsAgree' /\ SetCalls' = SetCalls
    BY <2>1, SameLinks DEF LinksInv, LinksType
  <2>3. a \in Made /\ from_list[a] \in Seq(Made)
    BY MadeAnalyzers DEF Made, LinksInv, LinksType, Lists
  <2>4. Call("set_source", a, m, from_list[a]) \in SetCalls
    BY <2>3 DEF SetCalls, Call
  <2>5. calls' = <<Call("set_source", a, m, from_list[a])>>
    BY <1>2 DEF SetSource
  <2>6. calls' \in Seq(SetCalls')
    BY <2>2, <2>4, <2>5
  <2> QED BY <2>2, <2>6 DEF LinksInv, OneKindOfCalls
<1>3. ASSUME NEW a \in 1..Len(class), NEW c \in Kpis, EnableKpi(a, c)
      PROVE  LinksInv'
  <2>1. UNCHANGED <<class, analyzer_array, from_list, to_list, source, events, batch>>
    BY <1>3 DEF EnableKpi, phoneVars
  <2>2. LinksType' /\ EndsAgree' /\ IncludeCalls' = IncludeCalls
    BY <2>1, SameLinks DEF LinksInv, LinksType
  <2>3. a \in Made /\ <<c>> \in Seq(Classes)
    BY KpisAre DEF Made
  <2>4. Call("include", a, Nobody, <<c>>) \in IncludeCalls
    BY <2>3 DEF IncludeCalls, Call
  <2>5. calls' = <<Call("include", a, Nobody, <<c>>)>>
    BY <1>3 DEF EnableKpi
  <2>6. calls' \in Seq(IncludeCalls')
    BY <2>2, <2>4, <2>5
  <2> QED BY <2>2, <2>6 DEF LinksInv, OneKindOfCalls
<1>4. ASSUME Reset
      PROVE  LinksInv'
  <2>1. /\ UNCHANGED <<class, from_list, to_list, source, events, batch, calls>>
        /\ analyzer_array' \in [Classes -> Made \cup {Nobody}]
    BY <1>4 DEF Reset, phoneVars
  <2>2. /\ LinksType' /\ EndsAgree'
        /\ IncludeCalls' = IncludeCalls /\ SetCalls' = SetCalls /\ SendCalls' = SendCalls
    BY <2>1, SameLinks DEF LinksInv, LinksType
  <2>3. OneKindOfCalls'
    BY <2>1, <2>2 DEF LinksInv, OneKindOfCalls
  <2> QED BY <2>2, <2>3 DEF LinksInv
<1> QED BY <1>1, <1>2, <1>3, <1>4 DEF User

(* The phone has a message logged, and a monitor sends it.                 *)
LEMMA PhoneKeeps ==
  ASSUME LinksInv, Phone
  PROVE  LinksInv'
<1>1. ASSUME NEW m \in Monitors, NEW message \in Messages, NEW inOrder,
             Send(m, message, inOrder), batch' \in Seq(CdrxEvents)
      PROVE  LinksInv'
  <2>1. /\ UNCHANGED <<class, analyzer_array, from_list, to_list, source>>
        /\ events' = events + 1
        /\ calls' = <<Call("send", m, message, to_list[m])>>
    BY <1>1 DEF Send, linkVars
  <2>2. LinksType' /\ EndsAgree' /\ SendCalls' = SendCalls
    BY <1>1, <2>1, SameLinks DEF LinksInv, LinksType
  <2>3. Call("send", m, message, to_list[m]) \in SendCalls
    BY SendCallType DEF Elements
  <2>4. calls' \in Seq(SendCalls')
    BY <2>1, <2>2, <2>3
  <2> QED BY <2>2, <2>4 DEF LinksInv, OneKindOfCalls
<1>2. ASSUME NEW change \in Changes, Records(change)
      PROVE  LinksInv'
  <2>1. /\ UNCHANGED <<class, analyzer_array, from_list, to_list, source, events, calls>>
        /\ batch' = Append(batch, change[2]) /\ change[2] \in CdrxEvents
    BY <1>2 DEF Records, linkVars
  <2>2. batch' \in Seq(CdrxEvents)
    BY <2>1 DEF LinksInv, LinksType
  <2>3. /\ LinksType' /\ EndsAgree'
        /\ IncludeCalls' = IncludeCalls /\ SetCalls' = SetCalls /\ SendCalls' = SendCalls
    BY <2>1, <2>2, SameLinks DEF LinksInv, LinksType
  <2>4. OneKindOfCalls'
    BY <2>1, <2>3 DEF LinksInv, OneKindOfCalls
  <2> QED BY <2>3, <2>4 DEF LinksInv
<1>3. ASSUME NEW m \in Monitors, SendCdrx(m)
      PROVE  LinksInv'
  <2>1. Send(m, Cdrx, ~overtaken) /\ batch' = <<>>
    BY <1>3 DEF SendCdrx
  <2>2. Cdrx \in Messages
    <3>1. events + 1 \in Nat /\ batch \in Seq(CdrxEvents \cup OtaElements)
      BY DEF LinksInv, LinksType
    <3> QED BY <3>1 DEF Cdrx, Messages
  <2>3. <<>> \in Seq(CdrxEvents)
    OBVIOUS
  <2> QED BY <1>1, <2>1, <2>2, <2>3
<1>4. ASSUME NEW m \in Monitors, NEW change \in Changes, SendOta(m, change)
      PROVE  LinksInv'
  <2>1. /\ Send(m, Ota(change[2]), batch = <<>>) /\ batch' = batch
        /\ change[2] \in OtaElements
    BY <1>4 DEF SendOta
  <2>2. Ota(change[2]) \in Messages
    <3>1. events + 1 \in Nat /\ <<change[2]>> \in Seq(CdrxEvents \cup OtaElements)
      BY <2>1 DEF LinksInv, LinksType
    <3> QED BY <3>1 DEF Ota, Messages
  <2>3. batch' \in Seq(CdrxEvents)
    BY <2>1 DEF LinksInv, LinksType
  <2> QED BY <1>1, <2>1, <2>2, <2>3
<1> QED BY <1>2, <1>3, <1>4 DEF Phone

-----------------------------------------------------------------------------
(* Nothing is linked at first.                                             *)
LEMMA LinksInit ==
  ASSUME Init
  PROVE  LinksInv
<1>1. /\ class = <<>> /\ analyzer_array = [c \in Classes |-> Nobody]
      /\ from_list = [a \in Analyzers |-> <<>>]
      /\ to_list = [e \in Elements |-> <<>>]
      /\ source = [a \in Analyzers |-> Nobody]
      /\ calls = <<>> /\ events = 0 /\ batch = <<>>
  BY DEF Init, Elements
<1>2. /\ MaxAnalyzers \in Nat /\ Nobody \notin Monitors
      /\ <<>> \in Seq(Classes) /\ Len(<<>>) = 0 /\ <<>> \in Seq(CdrxEvents)
  BY AnalyzersAssumption DEF AnalyzersAssumption
<1>3. <<>> \in Lists(Made) /\ ToSet(<<>>) = {}
  BY DEF Lists, IsInjective, ToSet
<1>4. LinksType
  <2>1. from_list \in [Analyzers -> Lists(Made)] /\ to_list \in [Elements -> Lists(Made)]
    BY <1>1, <1>3
  <2> QED BY <1>1, <1>2, <2>1 DEF LinksType
<1>5. EndsAgree
  BY <1>1, <1>2, <1>3 DEF EndsAgree, Elements
<1>6. OneKindOfCalls
  BY <1>1 DEF OneKindOfCalls
<1> QED BY <1>4, <1>5, <1>6 DEF LinksInv

(* The invariant says that there is no KeyError.                           *)
LEMMA LinksInvImplies ==
  ASSUME LinksInv
  PROVE  LinksAgree
<1>1. /\ \A a \in 1..Len(class), m \in Monitors : a \in ToSet(to_list[m]) <=> source[a] = m
      /\ \A a, other \in 1..Len(class) :
            a \in ToSet(to_list[other]) <=> other \in ToSet(from_list[a])
  BY MadeAnalyzers DEF LinksInv, EndsAgree, Made
<1>2. ASSUME Running("send"), Head(calls).todo # <<>>
      PROVE  LET a == Head(Head(calls).todo)
             IN  Head(calls).of = source[a] \/ Head(calls).of \in ToSet(from_list[a])
  <2> DEFINE a == Head(Head(calls).todo)
             e == Head(calls).of
  <2>1. calls # <<>> /\ Head(calls).fn = "send"
    BY <1>2 DEF Running, Idle
  <2>2. calls \in Seq(SendCalls)
    BY <2>1, RunningCalls DEF LinksInv
  <2>3. a \in Made /\ a \in ToSet(to_list[e])
    BY <1>2, <2>1, <2>2, SendGoesOn
  <2>4. e \in Elements
    <3>1. Head(calls) \in SendCalls
      BY <2>1, <2>2, HeadTailProperties
    <3> QED BY <3>1 DEF SendCalls
  <2>5. a \in Analyzers
    BY <2>3, MadeAnalyzers DEF LinksInv
  <2> HIDE DEF a, e
  <2>6. e = source[a] \/ e \in ToSet(from_list[a])
    BY <2>3, <2>4, <2>5 DEF Elements, LinksInv, EndsAgree
  <2> QED BY <2>6 DEF a, e
<1> QED BY <1>1, <1>2 DEF LinksAgree

(* Every step keeps the invariant.                                         *)
LEMMA LinksNext ==
  ASSUME LinksInv, [Next]_vars
  PROVE  LinksInv'
<1>1. CASE User
  BY <1>1, UserKeeps
<1>2. CASE Phone
  BY <1>2, PhoneKeeps
<1>3. CASE include_analyzer
  BY <1>3, IncludeKeeps
<1>4. CASE set_source
  BY <1>4, SetSourceKeeps
<1>5. CASE SourceSet
  BY <1>5, SourceSetKeeps
<1>6. CASE recv
  BY <1>6, RecvKeeps
<1>7. CASE Return
  BY <1>7, ReturnKeeps
<1>8. CASE check_kpis
  BY <1>8, CheckKpisKeeps
<1>9. CASE UNCHANGED vars
  <2>1. /\ UNCHANGED <<class, analyzer_array, from_list, to_list, source, events, batch>>
        /\ UNCHANGED calls
    BY <1>9 DEF vars, linkVars, phoneVars
  <2>2. /\ LinksType' /\ EndsAgree'
        /\ IncludeCalls' = IncludeCalls /\ SetCalls' = SetCalls /\ SendCalls' = SendCalls
    BY <2>1, SameLinks DEF LinksInv, LinksType
  <2>3. OneKindOfCalls'
    BY <2>1, <2>2 DEF LinksInv, OneKindOfCalls
  <2> QED BY <2>2, <2>3 DEF LinksInv
<1> QED BY <1>1, <1>2, <1>3, <1>4, <1>5, <1>6, <1>7, <1>8, <1>9 DEF Next

(* Both ends of every link agree, whatever is made, included, moved to      *)
(* another source and reset, in whatever order: recv never raises KeyError. *)
THEOREM AnalyzersLinksAgree == Spec => []LinksAgree
<1>1. Init => LinksInv
  BY LinksInit
<1>2. LinksInv /\ [Next]_vars => LinksInv'
  BY LinksNext
<1>3. LinksInv => LinksAgree
  BY LinksInvImplies
<1> QED BY <1>1, <1>2, <1>3, PTL DEF Spec

-----------------------------------------------------------------------------
(* The automaton of LteRrcStates *)

Known == States \cup {Unknown}

(* The table's first column, as it stands.                                 *)
LEMMA StatesAre == States = {"RRC_IDLE", "RRC_CRX", "RRC_SDRX", "RRC_LDRX"}
BY DEF States, create_state_machine

(* A state that is known is none of "None".                                *)
LEMMA UnknownIsNone == Unknown \notin States
BY StatesAre DEF Unknown

(* Whatever is shown to the automaton, its state is one of the table.      *)
LEMMA UpdateType ==
  ASSUME NEW s \in Known, NEW signal
  PROVE  update_state(s, signal) \in Known
<1> DEFINE enabled == {row \in create_state_machine : row[1] = s /\ signal \in row[3]}
<1>1. CASE s = Unknown
  BY <1>1 DEF update_state, Known
<1>2. CASE s # Unknown /\ Cardinality(enabled) = 1
  <2>1. enabled # {}
    BY <1>2, FS_EmptySet
  <2>2. (CHOOSE row \in enabled : TRUE) \in enabled
    BY <2>1
  <2>3. \A row \in create_state_machine : row[2] \in States
    BY StatesAre DEF create_state_machine
  <2>4. (CHOOSE row \in enabled : TRUE)[2] \in States
    BY <2>2, <2>3
  <2>5. update_state(s, signal) = (CHOOSE row \in enabled : TRUE)[2]
    BY <1>2 DEF update_state
  <2> QED BY <2>4, <2>5 DEF Known
<1>3. CASE s # Unknown /\ Cardinality(enabled) # 1
  BY <1>3 DEF update_state
<1> QED BY <1>1, <1>2, <1>3

(* One transition is enabled: it is taken.                                 *)
LEMMA OneEnabled ==
  ASSUME NEW s \in States, NEW signal, NEW row \in create_state_machine,
         \A other \in create_state_machine :
             other[1] = s /\ signal \in other[3] <=> other = row
  PROVE  update_state(s, signal) = row[2]
<1> DEFINE enabled == {r \in create_state_machine : r[1] = s /\ signal \in r[3]}
<1>1. enabled = {row}
  OBVIOUS
<1>2. Cardinality(enabled) = 1
  BY <1>1, FS_Singleton
<1>3. (CHOOSE r \in enabled : TRUE) = row
  BY <1>1
<1>4. s # Unknown
  BY UnknownIsNone
<1> HIDE DEF enabled
<1>5. update_state(s, signal) = (CHOOSE r \in enabled : TRUE)[2]
  BY <1>2, <1>4 DEF update_state, enabled
<1> QED BY <1>3, <1>5

(* None is enabled: the state stays.                                       *)
LEMMA NoneEnabled ==
  ASSUME NEW s \in States, NEW signal,
         \A row \in create_state_machine : ~(row[1] = s /\ signal \in row[3])
  PROVE  update_state(s, signal) = s
<1> DEFINE enabled == {r \in create_state_machine : r[1] = s /\ signal \in r[3]}
<1>1. enabled = {}
  OBVIOUS
<1>2. Cardinality(enabled) # 1
  BY <1>1, FS_EmptySet
<1>3. s # Unknown
  BY UnknownIsNone
<1> QED BY <1>2, <1>3 DEF update_state

(* The automaton follows each change of the phone from the state before    *)
(* it, or if it knows none; shown the message again, it stays.             *)
LEMMA ChangeIsSeen ==
  ASSUME NEW change \in Changes
  PROVE  /\ change[1] \in States /\ change[3] \in States
         /\ update_state(change[1], change[2]) = change[3]
         /\ update_state(Unknown, change[2]) = change[3]
         /\ change[2] \in OtaElements => update_state(change[3], change[2]) = change[3]
<1>1. change[1] \in States /\ change[3] \in States
  BY StatesAre DEF Changes
<1>2. update_state(Unknown, change[2]) = change[3]
  <2>1. init_protocol_state(change[2]) = change[3]
    BY DEF Changes, init_protocol_state, TimerEvents
  <2> QED BY <1>1, <2>1 DEF update_state
<1>3. update_state(change[1], change[2]) = change[3]
  <2>1. CASE change = <<"RRC_IDLE", "rrcConnectionSetupComplete", "RRC_CRX">>
    <3> DEFINE row == <<"RRC_IDLE", "RRC_CRX",  {"rrcConnectionSetupComplete"}>>
    <3>1. /\ row \in create_state_machine
          /\ \A other \in create_state_machine :
                other[1] = change[1] /\ change[2] \in other[3] <=> other = row
      BY <2>1 DEF create_state_machine, TimerEvents
    <3> QED BY <1>1, <2>1, <3>1, OneEnabled
  <2>2. CASE change = <<"RRC_CRX", "rrcConnectionRelease", "RRC_IDLE">>
    <3> DEFINE row == <<"RRC_CRX",  "RRC_IDLE", {"rrcConnectionRelease"}>>
    <3>1. /\ row \in create_state_machine
          /\ \A other \in create_state_machine :
                other[1] = change[1] /\ change[2] \in other[3] <=> other = row
      BY <2>2 DEF create_state_machine, TimerEvents
    <3> QED BY <1>1, <2>2, <3>1, OneEnabled
  <2>3. CASE change = <<"RRC_CRX", "SHORT_CYCLE_START", "RRC_SDRX">>
    <3> DEFINE row == <<"RRC_CRX",  "RRC_SDRX", {"SHORT_CYCLE_START"}>>
    <3>1. /\ row \in create_state_machine
          /\ \A other \in create_state_machine :
                other[1] = change[1] /\ change[2] \in other[3] <=> other = row
      BY <2>3 DEF create_state_machine, TimerEvents
    <3> QED BY <1>1, <2>3, <3>1, OneEnabled
  <2>4. CASE change = <<"RRC_CRX", "LONG_CYCLE_START", "RRC_LDRX">>
    <3> DEFINE row == <<"RRC_CRX",  "RRC_LDRX", {"LONG_CYCLE_START"}>>
    <3>1. /\ row \in create_state_machine
          /\ \A other \in create_state_machine :
                other[1] = change[1] /\ change[2] \in other[3] <=> other = row
      BY <2>4 DEF create_state_machine, TimerEvents
    <3> QED BY <1>1, <2>4, <3>1, OneEnabled
  <2>5. CASE change = <<"RRC_SDRX", "LONG_CYCLE_START", "RRC_LDRX">>
    <3> DEFINE row == <<"RRC_SDRX", "RRC_LDRX", {"LONG_CYCLE_START"}>>
    <3>1. /\ row \in create_state_machine
          /\ \A other \in create_state_machine :
                other[1] = change[1] /\ change[2] \in other[3] <=> other = row
      BY <2>5 DEF create_state_machine, TimerEvents
    <3> QED BY <1>1, <2>5, <3>1, OneEnabled
  <2>6. CASE change = <<"RRC_SDRX", "INACTIVITY_TIMER_START", "RRC_CRX">>
    <3> DEFINE row == <<"RRC_SDRX", "RRC_CRX",  TimerEvents>>
    <3>1. /\ row \in create_state_machine
          /\ \A other \in create_state_machine :
                other[1] = change[1] /\ change[2] \in other[3] <=> other = row
      BY <2>6 DEF create_state_machine, TimerEvents
    <3> QED BY <1>1, <2>6, <3>1, OneEnabled
  <2>7. CASE change = <<"RRC_LDRX", "INACTIVITY_TIMER_START", "RRC_CRX">>
    <3> DEFINE row == <<"RRC_LDRX", "RRC_CRX",  TimerEvents>>
    <3>1. /\ row \in create_state_machine
          /\ \A other \in create_state_machine :
                other[1] = change[1] /\ change[2] \in other[3] <=> other = row
      BY <2>7 DEF create_state_machine, TimerEvents
    <3> QED BY <1>1, <2>7, <3>1, OneEnabled
  <2>8. CASE /\ change[1] = "RRC_CRX" /\ change[3] = "RRC_CRX"
             /\ change[2] \in {"rrcConnectionReconfiguration", "INACTIVITY_TIMER_START",
                              "INACTIVITY_TIMER_END"}
    <3>1. \A row \in create_state_machine : ~(row[1] = change[1] /\ change[2] \in row[3])
      BY <2>8 DEF create_state_machine, TimerEvents
    <3> QED BY <1>1, <2>8, <3>1, NoneEnabled
  <2> QED BY <2>1, <2>2, <2>3, <2>4, <2>5, <2>6, <2>7, <2>8 DEF Changes
<1>4. ASSUME change[2] \in OtaElements
      PROVE  update_state(change[3], change[2]) = change[3]
  <2>1. \A row \in create_state_machine : ~(row[1] = change[3] /\ change[2] \in row[3])
    BY <1>4 DEF create_state_machine, TimerEvents, Changes, OtaElements
  <2> QED BY <1>1, <2>1, NoneEnabled
<1> QED BY <1>1, <1>2, <1>3, <1>4

(* The state after some signals is where their states, one after the       *)
(* other, end.                                                             *)
LEMMA AfterIs ==
  ASSUME NEW n \in Nat, NEW signals, Len(signals) = n, NEW g, NEW s, g[0] = s,
         \A i \in 1..n : g[i] = update_state(g[i - 1], signals[i])
  PROVE  After(s, signals) = g[n]
<1> DEFINE Unfolds(a) ==
               a = [k \in 0..n |-> IF k = 0 THEN s ELSE update_state(a[k - 1], signals[k])]
           after == CHOOSE a : Unfolds(a)
<1>1. After(s, signals) = after[n]
  BY Zenon DEF After
<1>2. \E a : Unfolds(a)
  <2> DEFINE a == [k \in 0..n |-> g[k]]
  <2>1. \A k \in 0..n : k # 0 => k \in 1..n /\ k - 1 \in 0..n
    OBVIOUS
  <2>2. ASSUME NEW k \in 0..n
        PROVE  a[k] = IF k = 0 THEN s ELSE update_state(a[k - 1], signals[k])
    BY <2>1
  <2>3. Unfolds(a)
    BY <2>2
  <2> QED BY <2>3
<1>3. Unfolds(after)
  BY <1>2, Zenon
<1> HIDE DEF after
<1>4. after[0] = s /\ \A k \in 1..n : after[k] = update_state(after[k - 1], signals[k])
  BY <1>3
<1> HIDE DEF Unfolds
<1> DEFINE T == {k \in 0..n : after[k] = g[k]}
<1>5. 0..n \subseteq T
  <2>1. 0 \in T
    BY <1>4
  <2>2. \A k \in 1..n : k - 1 \in T => k \in T
    BY <1>4
  <2> HIDE DEF T
  <2> QED BY <2>1, <2>2, InductionUpTo
<1>6. n \in T
  <2>1. n \in 0..n
    OBVIOUS
  <2> HIDE DEF T
  <2> QED BY <1>5, <2>1
<1> QED BY <1>1, <1>6

(* There are such states.                                                  *)
LEMMA AfterSteps ==
  ASSUME NEW n \in Nat, NEW signals, Len(signals) = n, NEW s \in Known
  PROVE  \E g \in [0..n -> Known] :
            /\ g[0] = s /\ \A i \in 1..n : g[i] = update_state(g[i - 1], signals[i])
            /\ After(s, signals) = g[n]
<1> DEFINE h == [i \in 1..n |-> [x \in Known |-> update_state(x, signals[i])]]
<1>1. h \in [1..n -> [Known -> Known]]
  BY UpdateType
<1>2. \A i \in 1..n : \A x \in Known : h[i][x] = update_state(x, signals[i])
  OBVIOUS
<1> HIDE DEF h
<1>3. PICK g \in [0..n -> Known] : Follows(g, n, s, h)
  BY <1>1, RecursionExists
<1>4. ASSUME NEW i \in 1..n
      PROVE  g[i] = update_state(g[i - 1], signals[i])
  <2>1. i - 1 \in 0..n
    OBVIOUS
  <2> QED BY <1>2, <1>3, <2>1 DEF Follows
<1>5. g[0] = s
  BY <1>3 DEF Follows
<1>6. After(s, signals) = g[n]
  BY <1>4, <1>5, AfterIs
<1> QED BY <1>4, <1>5, <1>6

(* What After returns.                                                     *)
LEMMA AfterType ==
  ASSUME NEW signals, Len(signals) \in Nat, NEW s \in Known
  PROVE  After(s, signals) \in Known
<1> DEFINE n == Len(signals)
<1>1. PICK g \in [0..n -> Known] : After(s, signals) = g[n]
  BY AfterSteps
<1> QED BY <1>1

(* No signal leaves the state as it is.                                    *)
LEMMA AfterNone ==
  ASSUME NEW s
  PROVE  After(s, <<>>) = s
<1> DEFINE g == [i \in 0..0 |-> s]
           none == <<>>
<1>1. PICK n \in Nat : n = 0
  OBVIOUS
<1>2. g[0] = s /\ g[n] = s /\ Len(none) = n /\ 1..n = {}
  BY <1>1
<1> HIDE DEF g, none
<1>3. \A i \in 1..n : g[i] = update_state(g[i - 1], none[i])
  BY <1>2
<1>4. After(s, none) = g[n]
  BY <1>2, <1>3, AfterIs
<1> QED BY <1>2, <1>4 DEF none

(* One more signal.                                                        *)
LEMMA AfterMore ==
  ASSUME NEW S, NEW signals \in Seq(S), NEW signal \in S, NEW s \in Known
  PROVE  After(s, Append(signals, signal)) = update_state(After(s, signals), signal)
<1> DEFINE n == Len(signals)
           more == Append(signals, signal)
<1>1. /\ n \in Nat /\ Len(more) = n + 1 /\ more[n + 1] = signal
      /\ \A i \in 1..n : more[i] = signals[i]
  OBVIOUS
<1>2. PICK g \in [0..n -> Known] :
         /\ g[0] = s /\ \A i \in 1..n : g[i] = update_state(g[i - 1], signals[i])
         /\ After(s, signals) = g[n]
  <2>1. Len(signals) \in Nat
    BY <1>1
  <2> HIDE DEF more
  <2> QED BY ONLY <2>1, s \in Known, AfterSteps, Zenon DEF n
<1> DEFINE f == [i \in 0..(n + 1) |-> IF i <= n THEN g[i] ELSE update_state(g[n], signal)]
<1> HIDE DEF more
<1>3. ASSUME NEW i \in 1..(n + 1)
      PROVE  f[i] = update_state(f[i - 1], more[i])
  <2>1. CASE i \in 1..n
    BY <1>1, <1>2, <2>1
  <2>2. CASE i = n + 1
    BY <1>1, <2>2
  <2> QED BY <1>1, <2>1, <2>2
<1>4. f[0] = s /\ f[n + 1] = update_state(g[n], signal) /\ n + 1 \in Nat
  BY <1>1, <1>2
<1> HIDE DEF f
<1>5. After(s, more) = f[n + 1]
  BY <1>1, <1>3, <1>4, AfterIs
<1> QED BY <1>2, <1>4, <1>5 DEF more

(* A signal that is shown twice.                                           *)
LEMMA AfterTwice ==
  ASSUME NEW signal, NEW s \in Known
  PROVE  After(s, <<signal>> \o <<signal>>) = update_state(update_state(s, signal), signal)
<1> DEFINE S == {signal}
<1>1. /\ <<>> \in Seq(S) /\ <<signal>> \in Seq(S)
      /\ Append(<<>>, signal) = <<signal>>
      /\ Append(<<signal>>, signal) = <<signal>> \o <<signal>>
  OBVIOUS
<1>2. After(s, <<signal>>) = update_state(s, signal)
  BY <1>1, AfterMore, AfterNone
<1> QED BY <1>1, <1>2, AfterMore

-----------------------------------------------------------------------------
(* What the variables hold.  That a name stands for an analyzer of its     *)
(* class is not said by the links.                                         *)

NamesAgree == \A c \in Classes : analyzer_array[c] # Nobody => class[analyzer_array[c]] = c

StatesType == rrc \in [Analyzers -> Known] /\ phone \in States /\ overtaken \in BOOLEAN

TypeInv == LinksInv /\ NamesAgree /\ StatesType

(* What is new when an analyzer was made.                                  *)
LEMMA ConstructIs ==
  ASSUME LinksInv, NEW c \in Classes, NEW caller, Construct(c, caller)
  PROVE  LET a == Len(class) + 1 IN
         /\ a \in Analyzers /\ a \notin Made /\ Made' = Made \cup {a}
         /\ class'[a] = c /\ \A b \in Made : class'[b] = class[b]
         /\ ToSet(from_list[a]) = {} /\ calls' = <<Constructor(c, a)>> \o caller
         /\ analyzer_array' = IF analyzer_array[c] = Nobody
                              THEN [analyzer_array EXCEPT ![c] = a] ELSE analyzer_array
         /\ UNCHANGED <<from_list, to_list, source, latest, phoneVars, hearVars>>
<1> DEFINE a == Len(class) + 1
<1>1. /\ Len(class) \in Nat /\ class' = Append(class, c) /\ Len(class) < MaxAnalyzers
      /\ MaxAnalyzers \in Nat /\ class \in Seq(Classes)
  BY MadeAnalyzers DEF LinksInv, LinksType, Construct
<1>2. /\ a \in Analyzers /\ a \notin Made
      /\ class'[a] = c /\ \A b \in Made : class'[b] = class[b]
      /\ Len(class') = a
  BY <1>1 DEF Analyzers, Made
<1>3. Made' = Made \cup {a}
  BY <1>1, <1>2 DEF Made
<1>4. ToSet(from_list[a]) = {}
  <2>1. ASSUME NEW o \in ToSet(from_list[a])
        PROVE  FALSE
    <3>1. from_list[a] \in Seq(Made)
      BY <1>2 DEF LinksInv, LinksType, Lists
    <3>2. PICK k \in 1..Len(from_list[a]) : from_list[a][k] = o
      BY <2>1, <3>1, InToSet
    <3>3. o \in Made
      BY <3>1, <3>2
    <3>4. o \in Analyzers /\ o \in Elements
      BY <3>3, MadeAnalyzers DEF LinksInv, Elements
    <3>5. a \in ToSet(to_list[o])
      BY <1>2, <2>1, <3>4 DEF LinksInv, EndsAgree
    <3>6. to_list[o] \in Seq(Made)
      BY <3>4 DEF LinksInv, LinksType, Lists
    <3>7. PICK j \in 1..Len(to_list[o]) : to_list[o][j] = a
      BY <3>5, <3>6, InToSet
    <3>8. a \in Made
      BY <3>6, <3>7
    <3> QED BY <1>2, <3>8
  <2> QED BY <2>1
<1> QED BY <1>2, <1>3, <1>4 DEF Construct

(* The constructor or include_analyzer that runs, and what it comes to.    *)
LEMMA RunningInclude ==
  ASSUME LinksInv, calls # <<>>, Head(calls).fn \in {"include", "check_kpis"},
         Head(calls).todo # <<>>
  PROVE  /\ calls \in Seq(IncludeCalls) /\ Head(calls) \in IncludeCalls
         /\ Head(calls).of \in Made /\ Head(Head(calls).todo) \in Classes
<1>1. calls \in Seq(IncludeCalls)
  BY RunningCalls DEF LinksInv
<1>2. Head(calls) \in IncludeCalls
  BY <1>1, HeadTailProperties
<1>3. Head(calls).of \in Made /\ Head(calls).todo \in Seq(Classes)
  BY <1>2 DEF IncludeCalls
<1>4. Head(Head(calls).todo) \in Classes
  BY <1>3, HeadTailProperties
<1> QED BY <1>1, <1>2, <1>3, <1>4

(* An analyzer made is in the array under the name of its class.           *)
LEMMA ConstructKeepsNames ==
  ASSUME LinksInv, NamesAgree, NEW c \in Classes, NEW caller, Construct(c, caller)
  PROVE  NamesAgree'
<1> DEFINE a == Len(class) + 1
<1>1. /\ class'[a] = c /\ \A b \in Made : class'[b] = class[b]
      /\ analyzer_array' = IF analyzer_array[c] = Nobody
                           THEN [analyzer_array EXCEPT ![c] = a] ELSE analyzer_array
  BY ConstructIs
<1>2. analyzer_array \in [Classes -> Made \cup {Nobody}]
  BY DEF LinksInv, LinksType
<1> HIDE DEF a
<1> QED BY <1>1, <1>2 DEF NamesAgree

(* A message that is heard leaves a state of the table.                    *)
LEMMA TrackedType ==
  ASSUME NEW s \in Known, NEW message \in Messages
  PROVE  Tracked(s, message) \in Known
<1> DEFINE shown == message.signals \o (IF message.ota THEN message.signals ELSE <<>>)
<1>1. message.signals \in Seq(CdrxEvents \cup OtaElements)
  BY DEF Messages
<1>2. shown \in Seq(CdrxEvents \cup OtaElements)
  <2>1. (IF message.ota THEN message.signals ELSE <<>>) \in Seq(CdrxEvents \cup OtaElements)
    BY <1>1
  <2> QED BY <1>1, <2>1
<1> HIDE DEF shown
<1>3. Len(shown) \in Nat
  BY <1>2, LenProperties
<1> QED BY <1>3, AfterType DEF Tracked, shown

(* The call of send that runs, and what it sends to next.                  *)
LEMMA RecvIs ==
  ASSUME LinksInv, recv
  PROVE  /\ calls # <<>> /\ Head(calls).fn = "send" /\ Head(calls).todo # <<>>
         /\ calls \in Seq(SendCalls) /\ Head(calls) \in SendCalls
         /\ Head(calls).of \in Elements /\ Head(calls).arg \in Messages
         /\ Head(Head(calls).todo) \in Made /\ Head(Head(calls).todo) \in Analyzers
         /\ Head(Head(calls).todo) \in ToSet(to_list[Head(calls).of])
<1>1. calls # <<>> /\ Head(calls).fn = "send" /\ Head(calls).todo # <<>>
  BY DEF recv, Running, Idle
<1>2. calls \in Seq(SendCalls)
  BY <1>1, RunningCalls DEF LinksInv
<1>3. Head(calls) \in SendCalls
  BY <1>1, <1>2, HeadTailProperties
<1>4. Head(calls).of \in Elements /\ Head(calls).arg \in Messages
  BY <1>3 DEF SendCalls
<1>5. /\ Head(Head(calls).todo) \in Made
      /\ Head(Head(calls).todo) \in ToSet(to_list[Head(calls).of])
  BY <1>1, <1>2, SendGoesOn
<1>6. Head(Head(calls).todo) \in Analyzers
  BY <1>5, MadeAnalyzers DEF LinksInv
<1> QED BY <1>1, <1>2, <1>3, <1>4, <1>5, <1>6

(* recv changes the state of one analyzer at most.                         *)
LEMMA RecvKeepsStates ==
  ASSUME LinksInv, StatesType, recv
  PROVE  StatesType'
<1> DEFINE a == Head(Head(calls).todo)
           message == Head(calls).arg
<1>1. a \in Analyzers /\ message \in Messages
  BY RecvIs
<1>2. /\ rrc' = rrc \/ rrc' = [rrc EXCEPT ![a] = Tracked(rrc[a], message)]
      /\ phone' = phone /\ overtaken' = overtaken
  BY DEF recv, phoneVars
<1>3. Tracked(rrc[a], message) \in Known
  BY <1>1, TrackedType DEF StatesType
<1> HIDE DEF a, message
<1> QED BY <1>1, <1>2, <1>3 DEF StatesType

(* The phone changes to states of the table.                               *)
LEMMA PhoneKeepsStates ==
  ASSUME StatesType, Phone
  PROVE  StatesType'
<1>1. ASSUME NEW change \in Changes, Records(change)
      PROVE  StatesType'
  <2>1. phone' = change[3] /\ rrc' = rrc /\ overtaken' = overtaken
    BY <1>1 DEF Records, hearVars
  <2> QED BY <2>1, ChangeIsSeen DEF StatesType
<1>2. ASSUME NEW m \in Monitors, SendCdrx(m)
      PROVE  StatesType'
  BY <1>2 DEF SendCdrx, Send, hearVars, StatesType
<1>3. ASSUME NEW m \in Monitors, NEW change \in Changes, SendOta(m, change)
      PROVE  StatesType'
  <2>1. phone' = change[3] /\ rrc' = rrc /\ overtaken' \in BOOLEAN
    BY <1>3 DEF SendOta, Send, hearVars
  <2> QED BY <2>1, ChangeIsSeen DEF StatesType
<1> QED BY <1>1, <1>2, <1>3 DEF Phone

(* Every step keeps the types.                                             *)
LEMMA TypeNext ==
  ASSUME TypeInv, [Next]_vars
  PROVE  TypeInv'
<1>0. LinksInv /\ NamesAgree /\ StatesType
  BY DEF TypeInv
<1>1. LinksInv'
  BY <1>0, LinksNext
<1> SUFFICES NamesAgree' /\ StatesType'
  BY <1>1 DEF TypeInv
<1>2. ASSUME NEW c \in Classes, NEW caller, Construct(c, caller)
      PROVE  NamesAgree' /\ StatesType'
  <2>1. UNCHANGED <<rrc, phone, overtaken>>
    BY <1>2 DEF Construct, phoneVars, hearVars
  <2>2. NamesAgree'
    BY <1>0, <1>2, ConstructKeepsNames
  <2> QED BY <1>0, <2>1, <2>2 DEF StatesType
<1>3. ASSUME UNCHANGED <<class, analyzer_array, rrc, phone, overtaken>>
      PROVE  NamesAgree' /\ StatesType'
  BY <1>0, <1>3 DEF NamesAgree, StatesType
<1>4. CASE User
  <2>1. ASSUME NEW c \in Tops, Make(c)
        PROVE  NamesAgree' /\ StatesType'
    <3>1. c \in Classes /\ Construct(c, <<>>)
      BY <2>1, AnalyzersAssumption DEF Make, AnalyzersAssumption
    <3> QED BY <1>2, <3>1
  <2>2. ASSUME NEW a \in 1..Len(class), NEW m \in Monitors, SetSource(a, m)
        PROVE  NamesAgree' /\ StatesType'
    BY <1>3, <2>2 DEF SetSource, linkVars, phoneVars, hearVars
  <2>3. ASSUME NEW a \in 1..Len(class), NEW c \in Kpis, EnableKpi(a, c)
        PROVE  NamesAgree' /\ StatesType'
    BY <1>3, <2>3 DEF EnableKpi, phoneVars, hearVars
  <2>4. ASSUME Reset
        PROVE  NamesAgree' /\ StatesType'
    BY <1>0, <2>4 DEF Reset, phoneVars, hearVars, NamesAgree, StatesType
  <2> QED BY <1>4, <2>1, <2>2, <2>3, <2>4 DEF User
<1>5. CASE Phone
  <2>1. UNCHANGED <<class, analyzer_array>>
    BY <1>5 DEF Phone, Records, SendCdrx, SendOta, Send, linkVars
  <2>2. StatesType'
    BY <1>0, <1>5, PhoneKeepsStates
  <2> QED BY <1>0, <2>1, <2>2 DEF NamesAgree
<1>6. CASE check_kpis
  <2>1. /\ calls # <<>> /\ Head(calls).fn = "check_kpis" /\ Head(calls).todo # <<>>
        /\ Construct(Head(Head(calls).todo), Descend(<<>>))
    BY <1>6 DEF check_kpis, Running, Idle
  <2>3. Head(Head(calls).todo) \in Classes
    BY <1>0, <2>1, RunningInclude
  <2> QED BY <1>2, <2>1, <2>3
<1>7. CASE include_analyzer
  <2> DEFINE name == Head(Head(calls).todo)
  <2>1. calls # <<>> /\ Head(calls).fn = "include" /\ Head(calls).todo # <<>>
    BY <1>7 DEF include_analyzer, Running, Idle
  <2>3. name \in Classes
    BY <1>0, <2>1, RunningInclude
  <2>4. CASE analyzer_array[name] = Nobody
    <3>1. Construct(name, calls)
      BY <1>7, <2>4 DEF include_analyzer
    <3> QED BY <1>2, <2>3, <3>1
  <2>5. CASE analyzer_array[name] # Nobody
    BY <1>3, <1>7, <2>5 DEF include_analyzer, phoneVars, hearVars
  <2> QED BY <2>4, <2>5
<1>8. CASE set_source
  BY <1>3, <1>8 DEF set_source, linkVars, phoneVars, hearVars
<1>9. CASE SourceSet
  BY <1>3, <1>9 DEF SourceSet, phoneVars, hearVars
<1>10. CASE recv
  <2>1. UNCHANGED <<class, analyzer_array>>
    BY <1>10 DEF recv, linkVars
  <2>2. StatesType'
    BY <1>0, <1>10, RecvKeepsStates
  <2> QED BY <1>0, <2>1, <2>2 DEF NamesAgree
<1>11. CASE Return
  BY <1>3, <1>11 DEF Return, linkVars, phoneVars, hearVars
<1>12. CASE UNCHANGED vars
  BY <1>3, <1>12 DEF vars, linkVars, phoneVars, hearVars
<1> QED BY <1>4, <1>5, <1>6, <1>7, <1>8, <1>9, <1>10, <1>11, <1>12 DEF Next

(* At first there are no analyzers, and the phone is in one state.         *)
LEMMA TypeInit ==
  ASSUME Init
  PROVE  TypeInv
<1>1. LinksInv
  BY LinksInit
<1>2. NamesAgree /\ StatesType
  BY DEF Init, NamesAgree, StatesType, Known
<1> QED BY <1>1, <1>2 DEF TypeInv

(* Every variable holds what it is declared to hold, whatever is made,     *)
(* included, set and sent.                                                 *)
THEOREM AnalyzersTypeOK == Spec => []TypeOK
<1>1. Init => TypeInv
  BY TypeInit
<1>2. TypeInv /\ [Next]_vars => TypeInv'
  BY TypeNext
<1>3. TypeInv => TypeOK
  <2> SUFFICES ASSUME TypeInv PROVE TypeOK
    OBVIOUS
  <2>1. class \in Seq(Classes) /\ Len(class) <= MaxAnalyzers /\ batch \in Seq(CdrxEvents)
    BY DEF TypeInv, LinksInv, LinksType
  <2>2. \A c \in Classes : analyzer_array[c] = Nobody \/ class[analyzer_array[c]] = c
    BY DEF TypeInv, NamesAgree
  <2>3. /\ \A a \in Analyzers : /\ source[a] \in Monitors \cup {Nobody}
                                /\ from_list[a] \in Seq(1..Len(class))
                                /\ IsInjective(from_list[a])
        /\ \A e \in Analyzers \cup Monitors : /\ to_list[e] \in Seq(1..Len(class))
                                              /\ IsInjective(to_list[e])
    BY DEF TypeInv, LinksInv, LinksType, Lists, Made, Elements
  <2>4. /\ phone \in States /\ overtaken \in BOOLEAN
        /\ \A a \in Analyzers : rrc[a] \in States \cup {Unknown}
    BY DEF TypeInv, StatesType, Known
  <2> QED BY <2>1, <2>2, <2>3, <2>4 DEF TypeOK
<1> QED BY <1>1, <1>2, <1>3, PTL DEF Spec

-----------------------------------------------------------------------------
(* The calls of send that run                                              *)

Sending == calls # <<>> /\ Head(calls).fn = "send"

\* The monitor's call, the first to begin and the last to return
Outer == calls[Len(calls)]

\* One message goes from the monitor to analyzers, from them to others
SendShape ==
    Sending =>
        /\ Outer.of \in Monitors
        /\ \A i \in 1..(Len(calls) - 1) : calls[i].of \in Analyzers
        /\ \A i \in 1..Len(calls) : calls[i].arg = Outer.arg /\ IsInjective(calls[i].todo)

(* No call of another function runs then.                                  *)
LEMMA SendingCalls ==
  ASSUME LinksInv
  PROVE  /\ Sending => /\ calls \in Seq(SendCalls) /\ Head(calls) \in SendCalls
                       /\ Len(calls) \in Nat \ {0} /\ Head(calls) = calls[1]
                       /\ \A i \in 1..Len(calls) : calls[i] \in SendCalls
         /\ calls \in Seq(IncludeCalls) \/ calls \in Seq(SetCalls) => ~Sending
<1>1. ASSUME Sending
      PROVE  /\ calls \in Seq(SendCalls) /\ Head(calls) \in SendCalls
             /\ Len(calls) \in Nat \ {0} /\ Head(calls) = calls[1]
             /\ \A i \in 1..Len(calls) : calls[i] \in SendCalls
  <2>1. calls \in Seq(SendCalls) /\ calls # <<>>
    BY <1>1, RunningCalls DEF LinksInv, Sending
  <2>2. Len(calls) \in Nat \ {0} /\ Head(calls) = calls[1] /\ Head(calls) \in SendCalls
    BY <2>1, HeadTailProperties
  <2>3. \A i \in 1..Len(calls) : calls[i] \in SendCalls
    BY <2>1, ElementOfSeq
  <2> QED BY <2>1, <2>2, <2>3
<1>2. ASSUME calls \in Seq(IncludeCalls) \/ calls \in Seq(SetCalls), Sending
      PROVE  FALSE
  <2>1. Head(calls) \in IncludeCalls \/ Head(calls) \in SetCalls
    BY <1>2, HeadTailProperties DEF Sending
  <2> QED BY <1>2, <2>1 DEF Sending, IncludeCalls, SetCalls
<1> QED BY <1>1, <1>2

(* Two sequences of calls, one behind the other.                           *)
LEMMA Joined ==
  ASSUME NEW T, NEW m \in Nat, NEW n \in Nat, NEW s \in Seq(T), NEW r \in Seq(T),
         Len(s) = m, Len(r) = n
  PROVE  /\ s \o r \in Seq(T) /\ Len(s \o r) = m + n
         /\ \A i \in 1..m : (s \o r)[i] = s[i]
         /\ \A i \in 1..n : (s \o r)[m + i] = r[i]
<1>1. /\ s \o r \in Seq(T) /\ Len(s \o r) = m + n
      /\ \A i \in 1..(m + n) : (s \o r)[i] = IF i <= m THEN s[i] ELSE r[i - m]
  BY ConcatProperties
<1>2. ASSUME NEW i \in 1..m
      PROVE  (s \o r)[i] = s[i]
  BY <1>1
<1>3. ASSUME NEW i \in 1..n
      PROVE  (s \o r)[m + i] = r[i]
  <2>1. m + i \in 1..(m + n) /\ ~(m + i <= m) /\ (m + i) - m = i
    OBVIOUS
  <2> QED BY <1>1, <2>1
<1> QED BY <1>1, <1>2, <1>3

(* Where the calls are after one of them has come to the next of its list. *)
LEMMA DescendIs ==
  ASSUME NEW T, calls \in Seq(T), calls # <<>>,
         NEW rest \in T, rest = [Head(calls) EXCEPT !.todo = Tail(@)]
  PROVE  /\ Descend(<<>>) \in Seq(T) /\ Len(Descend(<<>>)) = Len(calls)
         /\ Descend(<<>>)[1] = rest
         /\ \A i \in 2..Len(calls) : Descend(<<>>)[i] = calls[i]
         /\ \A c \in T :
               /\ Descend(<<c>>) \in Seq(T) /\ Len(Descend(<<c>>)) = Len(calls) + 1
               /\ Descend(<<c>>)[1] = c /\ Descend(<<c>>)[2] = rest
               /\ \A i \in 2..Len(calls) : Descend(<<c>>)[i + 1] = calls[i]
<1> DEFINE others == Tail(calls)
           one == <<rest>>
           n == Len(calls) - 1
<1>1. /\ others \in Seq(T) /\ Len(others) = n /\ n \in Nat /\ Len(calls) = n + 1
      /\ \A i \in 1..n : others[i] = calls[i + 1]
  BY HeadTailProperties
<1>2. one \in Seq(T) /\ Len(one) = 1 /\ one[1] = rest
  OBVIOUS
<1>3. /\ Descend(<<>>) = <<>> \o one \o others
      /\ \A c \in T : Descend(<<c>>) = <<c>> \o one \o others
  BY DEF Descend
<1> HIDE DEF others, one, n
<1>4. <<>> \o one = one
  BY <1>2
<1>5. ASSUME NEW m \in Nat, NEW s \in Seq(T), Len(s) = m
      PROVE  /\ s \o others \in Seq(T) /\ Len(s \o others) = m + n
             /\ \A i \in 1..m : (s \o others)[i] = s[i]
             /\ \A i \in 2..(n + 1) : (s \o others)[m + i - 1] = calls[i]
  <2>1. /\ s \o others \in Seq(T) /\ Len(s \o others) = m + n
        /\ \A i \in 1..m : (s \o others)[i] = s[i]
        /\ \A i \in 1..n : (s \o others)[m + i] = others[i]
    <3>1. others \in Seq(T) /\ Len(others) = n /\ n \in Nat
      BY <1>1
    <3> QED BY <1>5, <3>1, Joined
  <2>2. ASSUME NEW i \in 2..(n + 1)
        PROVE  (s \o others)[m + i - 1] = calls[i]
    <3>1. i - 1 \in 1..n /\ (i - 1) + 1 = i /\ m + i - 1 = m + (i - 1)
      BY <1>1
    <3> QED BY <1>1, <2>1, <3>1
  <2> QED BY <2>1, <2>2
<1>6. /\ one \o others \in Seq(T) /\ Len(one \o others) = n + 1 /\ (one \o others)[1] = rest
      /\ \A i \in 2..(n + 1) : (one \o others)[i] = calls[i]
  <2>1. /\ one \o others \in Seq(T) /\ Len(one \o others) = 1 + n
        /\ \A i \in 1..1 : (one \o others)[i] = one[i]
        /\ \A i \in 2..(n + 1) : (one \o others)[1 + i - 1] = calls[i]
    <3>1. 1 \in Nat
      OBVIOUS
    <3> QED BY <1>2, <1>5, <3>1, Zenon
  <2>2. /\ 1 + n = n + 1 /\ 1 \in 1..1
        /\ \A i \in 2..(n + 1) : 1 + i - 1 = i
    BY <1>1
  <2> QED BY <1>2, <2>1, <2>2
<1>7. ASSUME NEW c \in T
      PROVE  /\ <<c>> \o one \o others \in Seq(T)
             /\ Len(<<c>> \o one \o others) = (n + 1) + 1
             /\ (<<c>> \o one \o others)[1] = c /\ (<<c>> \o one \o others)[2] = rest
             /\ \A i \in 2..(n + 1) : (<<c>> \o one \o others)[i + 1] = calls[i]
  <2> DEFINE two == <<c>> \o one
  <2>1. two \in Seq(T) /\ Len(two) = 2 /\ two[1] = c /\ two[2] = rest
    BY ONLY c \in T, rest \in T DEF one
  <2> HIDE DEF two
  <2>2. /\ two \o others \in Seq(T) /\ Len(two \o others) = 2 + n
        /\ \A i \in 1..2 : (two \o others)[i] = two[i]
        /\ \A i \in 2..(n + 1) : (two \o others)[2 + i - 1] = calls[i]
    <3>1. 2 \in Nat
      OBVIOUS
    <3> QED BY <1>5, <2>1, <3>1, Zenon
  <2>3. /\ 2 + n = (n + 1) + 1 /\ 1 \in 1..2 /\ 2 \in 1..2
        /\ \A i \in 2..(n + 1) : 2 + i - 1 = i + 1
    BY <1>1
  <2>4. /\ two \o others \in Seq(T) /\ Len(two \o others) = (n + 1) + 1
        /\ (two \o others)[1] = c /\ (two \o others)[2] = rest
        /\ \A i \in 2..(n + 1) : (two \o others)[i + 1] = calls[i]
    BY <2>1, <2>2, <2>3
  <2> QED BY <2>4 DEF two
<1>8. /\ Descend(<<>>) \in Seq(T) /\ Len(Descend(<<>>)) = Len(calls)
      /\ Descend(<<>>)[1] = rest
      /\ \A i \in 2..Len(calls) : Descend(<<>>)[i] = calls[i]
  <2>1. Descend(<<>>) = one \o others
    BY <1>3, <1>4
  <2>2. Len(calls) = n + 1
    BY <1>1
  <2> QED BY ONLY <1>6, <2>1, <2>2, Zenon
<1>9. ASSUME NEW c \in T
      PROVE  /\ Descend(<<c>>) \in Seq(T) /\ Len(Descend(<<c>>)) = Len(calls) + 1
             /\ Descend(<<c>>)[1] = c /\ Descend(<<c>>)[2] = rest
             /\ \A i \in 2..Len(calls) : Descend(<<c>>)[i + 1] = calls[i]
  <2> DEFINE s == <<c>> \o one \o others
             called == Descend(<<c>>)
  <2>1. called = s /\ Len(calls) = n + 1
    BY <1>1, <1>3
  <2>2. /\ s \in Seq(T) /\ Len(s) = (n + 1) + 1 /\ s[1] = c /\ s[2] = rest
        /\ \A i \in 2..(n + 1) : s[i + 1] = calls[i]
    BY <1>7
  <2> HIDE DEF s, called
  <2>3. /\ called \in Seq(T) /\ Len(called) = Len(calls) + 1
        /\ called[1] = c /\ called[2] = rest
        /\ \A i \in 2..Len(calls) : called[i + 1] = calls[i]
    BY ONLY <2>1, <2>2, Zenon
  <2> QED BY <2>3 DEF called
<1> QED BY ONLY <1>8, <1>9, Zenon

(* Where they are after recv: d is 1 if the analyzer sends the message on. *)
LEMMA RecvCalls ==
  ASSUME LinksInv, recv
  PROVE  LET a == Head(Head(calls).todo) IN
         /\ Sending /\ Sending'
         /\ \E d \in {0, 1} :
            /\ Len(calls') = Len(calls) + d
            /\ calls'[1 + d] = [Head(calls) EXCEPT !.todo = Tail(@)]
            /\ \A i \in 2..Len(calls) : calls'[i + d] = calls[i]
            /\ d = 1 => /\ calls'[1] = Call("send", a, Head(calls).arg, to_list[a])
                        /\ SendsOn(a, Head(calls).of, Head(calls).arg)
<1> DEFINE a == Head(Head(calls).todo)
           message == Head(calls).arg
           rest == [Head(calls) EXCEPT !.todo = Tail(@)]
           sent == Call("send", a, message, to_list[a])
           on == SendsOn(a, Head(calls).of, message)
<1>1. /\ calls # <<>> /\ Head(calls).fn = "send" /\ calls \in Seq(SendCalls)
      /\ Head(calls).todo # <<>> /\ message \in Messages /\ a \in Analyzers
  BY RecvIs
<1>2. rest \in SendCalls
  BY <1>1, SendGoesOn
<1>3. sent \in SendCalls
  <2>1. a \in Elements
    BY <1>1 DEF Elements
  <2> QED BY <1>1, <2>1, SendCallType
<1>4. rest.fn = "send" /\ sent.fn = "send"
  BY <1>2, <1>3 DEF SendCalls
<1>5. calls' = IF on THEN Descend(<<sent>>) ELSE Descend(<<>>)
  BY DEF recv
<1>6. Sending
  BY <1>1 DEF Sending
<1>7. Len(calls) \in Nat \ {0}
  BY <1>1, HeadTailProperties
<1> HIDE DEF a, message, sent, on
<1>8. /\ Descend(<<>>) \in Seq(SendCalls) /\ Len(Descend(<<>>)) = Len(calls)
      /\ Descend(<<>>)[1] = rest /\ \A i \in 2..Len(calls) : Descend(<<>>)[i] = calls[i]
      /\ Descend(<<sent>>) \in Seq(SendCalls) /\ Len(Descend(<<sent>>)) = Len(calls) + 1
      /\ Descend(<<sent>>)[1] = sent /\ Descend(<<sent>>)[2] = rest
      /\ \A i \in 2..Len(calls) : Descend(<<sent>>)[i + 1] = calls[i]
  <2> HIDE DEF rest
  <2>1. rest = [Head(calls) EXCEPT !.todo = Tail(@)]
    BY DEF rest
  <2>2. calls \in Seq(SendCalls) /\ calls # <<>>
    BY <1>1
  <2> QED BY <1>2, <1>3, <2>1, <2>2, DescendIs, SMTT(30)
<1> HIDE DEF rest
<1>9. CASE on
  <2>1. calls' # <<>> /\ Head(calls') = sent
    BY <1>5, <1>7, <1>8, <1>9, HeadTailProperties
  <2>2. Sending'
    BY <1>4, <2>1 DEF Sending
  <2>3. \E d \in {0, 1} :
            /\ Len(calls') = Len(calls) + d /\ calls'[1 + d] = rest
            /\ \A i \in 2..Len(calls) : calls'[i + d] = calls[i]
            /\ d = 1 => calls'[1] = sent /\ on
    <3>1. 1 + 1 = 2
      OBVIOUS
    <3> WITNESS 1 \in {0, 1}
    <3> QED BY <1>5, <1>8, <1>9, <3>1
  <2> QED BY <1>6, <2>2, <2>3 DEF rest, sent, on, a, message
<1>10. CASE ~on
  <2>1. calls' # <<>> /\ Head(calls') = rest
    BY <1>5, <1>7, <1>8, <1>10, HeadTailProperties
  <2>2. Sending'
    BY <1>4, <2>1 DEF Sending
  <2>3. \E d \in {0, 1} :
            /\ Len(calls') = Len(calls) + d /\ calls'[1 + d] = rest
            /\ \A i \in 2..Len(calls) : calls'[i + d] = calls[i]
            /\ d = 1 => calls'[1] = sent /\ on
    <3>1. 1 + 0 = 1 /\ Len(calls) + 0 = Len(calls) /\ \A i \in 2..Len(calls) : i + 0 = i
      BY <1>7
    <3> WITNESS 0 \in {0, 1}
    <3> QED BY <1>5, <1>8, <1>10, <3>1
  <2> QED BY <1>6, <2>2, <2>3 DEF rest, sent, on, a, message
<1> QED BY <1>9, <1>10

(* The rest of a list of which no element occurs twice.                    *)
LEMMA RestOfList ==
  ASSUME NEW S, NEW list \in Lists(S), list # <<>>
  PROVE  /\ Tail(list) \in Lists(S) /\ Head(list) \in S
         /\ ToSet(Tail(list)) = ToSet(list) \ {Head(list)}
<1> DEFINE rest == Tail(list)
           first == Head(list)
           n == Len(list)
<1>1. list \in Seq(S) /\ \A j, k \in 1..n : list[j] = list[k] => j = k
  BY DEF Lists, IsInjective
<1>2. /\ rest \in Seq(S) /\ Len(rest) = n - 1 /\ n \in Nat \ {0}
      /\ \A k \in 1..(n - 1) : rest[k] = list[k + 1]
      /\ first = list[1] /\ first \in S /\ DOMAIN rest = 1..(n - 1)
  BY <1>1, HeadTailProperties
<1> HIDE DEF rest, first, n
<1>3. IsInjective(rest)
  <2>1. ASSUME NEW j \in 1..(n - 1), NEW k \in 1..(n - 1), rest[j] = rest[k]
        PROVE  j = k
    <3>1. j + 1 \in 1..n /\ k + 1 \in 1..n
      BY <1>2
    <3>2. list[j + 1] = list[k + 1]
      BY <1>2, <2>1
    <3>3. j + 1 = k + 1
      BY <1>1, <3>1, <3>2
    <3> QED BY <1>2, <3>3
  <2> QED BY <1>2, <2>1 DEF IsInjective
<1>4. ASSUME NEW v, v \in ToSet(rest)
      PROVE  v \in ToSet(list) /\ v # first
  <2>1. PICK k \in 1..(n - 1) : rest[k] = v
    BY <1>2, <1>4, InToSet
  <2>2. k + 1 \in 1..n /\ k + 1 # 1 /\ 1 \in 1..n /\ list[k + 1] = v
    BY <1>2, <2>1
  <2>3. v \in ToSet(list)
    BY <1>1, <2>2, InToSet DEF n
  <2>4. v # first
    BY <1>1, <1>2, <2>2
  <2> QED BY <2>3, <2>4
<1>5. ASSUME NEW v, v \in ToSet(list), v # first
      PROVE  v \in ToSet(rest)
  <2>1. PICK k \in 1..n : list[k] = v
    BY <1>1, <1>5, InToSet DEF n
  <2>2. k # 1
    BY <1>2, <1>5, <2>1
  <2>3. k - 1 \in 1..(n - 1) /\ (k - 1) + 1 = k
    BY <1>2, <2>1, <2>2
  <2>4. rest[k - 1] = v
    BY <1>2, <2>1, <2>3
  <2> QED BY <1>2, <2>3, <2>4, InToSet
<1> QED BY <1>2, <1>3, <1>4, <1>5 DEF Lists, rest, first

(* A message goes on with the same outermost call.                         *)
LEMMA RecvShape ==
  ASSUME LinksInv, SendShape, recv
  PROVE  /\ Sending /\ Sending' /\ SendShape' /\ Len(calls) \in Nat \ {0}
         /\ Len(calls) = 1 =>
               /\ Outer = Head(calls) /\ Outer' = [Head(calls) EXCEPT !.todo = Tail(@)]
         /\ Len(calls) > 1 => Outer' = Outer /\ Head(calls).of \in Analyzers
<1> DEFINE a == Head(Head(calls).todo)
           n == Len(calls)
           rest == [Head(calls) EXCEPT !.todo = Tail(@)]
           sent == Call("send", a, Head(calls).arg, to_list[a])
           Same(c) == c.arg = Outer.arg /\ IsInjective(c.todo)
<1>1. PICK d \in {0, 1} :
         /\ Len(calls') = n + d /\ calls'[1 + d] = rest
         /\ \A i \in 2..n : calls'[i + d] = calls[i]
         /\ d = 1 => calls'[1] = sent
  BY RecvCalls
<1>2. Sending /\ Sending'
  BY RecvCalls
<1>3. /\ n \in Nat \ {0} /\ Head(calls) = calls[1] /\ Head(calls) \in SendCalls
  BY <1>2, SendingCalls
<1>4. /\ Outer.of \in Monitors
      /\ \A i \in 1..(n - 1) : calls[i].of \in Analyzers
      /\ \A i \in 1..n : Same(calls[i])
  BY <1>2 DEF SendShape
<1>5. rest.of = Head(calls).of /\ rest.arg = Head(calls).arg /\ rest.todo = Tail(Head(calls).todo)
  BY <1>3 DEF SendCalls
<1>6. Same(Head(calls)) /\ Head(calls).todo \in Lists(Made) /\ Head(calls).todo # <<>>
  <2>1. Same(Head(calls))
    BY <1>3, <1>4
  <2>2. Head(calls).todo \in Seq(Made)
    BY <1>3 DEF SendCalls
  <2> QED BY <2>1, <2>2, RecvIs DEF Lists
<1>7. Same(rest)
  <2>1. IsInjective(Tail(Head(calls).todo))
    BY <1>6, RestOfList DEF Lists
  <2> QED BY <1>5, <1>6, <2>1
<1>8. a \in Analyzers /\ Same(sent) /\ sent.of = a
  <2>1. a \in Analyzers /\ a \in Elements
    BY RecvIs DEF Elements
  <2>2. to_list[a] \in Lists(Made)
    BY <2>1 DEF LinksInv, LinksType
  <2> QED BY <1>6, <2>1, <2>2 DEF Lists, Call
<1> HIDE DEF a, rest, sent
<1>9. Outer = calls[n] /\ Outer' = calls'[n + d]
  BY <1>1 DEF Outer
<1>10. /\ n = 1 => Outer = Head(calls) /\ Outer' = rest
       /\ n > 1 => Outer' = Outer /\ Head(calls).of \in Analyzers
  <2>1. ASSUME n = 1
        PROVE  Outer = Head(calls) /\ Outer' = rest
    BY <1>1, <1>3, <1>9, <2>1
  <2>2. ASSUME n > 1
        PROVE  Outer' = Outer /\ Head(calls).of \in Analyzers
    <3>1. n \in 2..n /\ 1 \in 1..(n - 1)
      BY <1>3, <2>2
    <3> QED BY <1>1, <1>3, <1>4, <1>9, <3>1
  <2> QED BY <2>1, <2>2
<1>11. Outer'.of = Outer.of /\ Outer'.arg = Outer.arg
  <2>1. CASE n = 1
    BY <1>5, <1>10, <2>1
  <2>2. CASE n > 1
    BY <1>10, <2>2
  <2>3. n = 1 \/ n > 1
    BY <1>3
  <2> QED BY <2>1, <2>2, <2>3
<1> HIDE DEF Same
<1>12. ASSUME NEW i \in 1..(n + d)
       PROVE  Same(calls'[i]) /\ (i < n + d => calls'[i].of \in Analyzers)
  <2>1. CASE d = 1 /\ i = 1
    BY <1>1, <1>8, <2>1
  <2>2. CASE i = 1 + d
    <3>1. i < n + d => 1 \in 1..(n - 1)
      BY <1>3, <2>2
    <3> QED BY <1>1, <1>3, <1>4, <1>5, <1>7, <2>2, <3>1
  <2>3. CASE i > 1 + d
    <3>1. /\ i - d \in 2..n /\ i - d \in 1..n /\ (i - d) + d = i
          /\ i < n + d => i - d \in 1..(n - 1)
      BY <1>3, <2>3
    <3>2. calls'[i] = calls[i - d]
      BY <1>1, <3>1
    <3> QED BY <1>4, <3>1, <3>2
  <2> QED BY <1>3, <2>1, <2>2, <2>3
<1>13. SendShape'
  <2>1. Len(calls') = n + d /\ \A i \in 1..(n + d - 1) : i \in 1..(n + d) /\ i < n + d
    BY <1>1, <1>3
  <2>2. Outer'.of \in Monitors
    BY <1>4, <1>11
  <2>3. \A i \in 1..Len(calls') : calls'[i].arg = Outer'.arg /\ IsInjective(calls'[i].todo)
    BY <1>11, <1>12, <2>1 DEF Same
  <2>4. \A i \in 1..(Len(calls') - 1) : calls'[i].of \in Analyzers
    BY <1>12, <2>1
  <2> QED BY <2>2, <2>3, <2>4, Zenon DEF SendShape
<1> QED BY <1>2, <1>3, <1>10, <1>13 DEF rest

(* A call of send returns to the one that called it.                       *)
LEMMA ReturnShape ==
  ASSUME LinksInv, SendShape, Sending, Return
  PROVE  /\ SendShape' /\ Len(calls) \in Nat \ {0} /\ Head(calls).todo = <<>>
         /\ Len(calls) = 1 => ~Sending' /\ Outer = Head(calls)
         /\ Len(calls) > 1 => Sending' /\ Outer' = Outer
<1> DEFINE n == Len(calls)
<1>1. /\ calls \in Seq(SendCalls) /\ n \in Nat \ {0} /\ Head(calls) = calls[1]
      /\ \A i \in 1..n : calls[i] \in SendCalls
  BY SendingCalls
<1>2. calls' = Tail(calls) /\ Head(calls).todo = <<>>
  BY DEF Return
<1>3. /\ calls' \in Seq(SendCalls) /\ Len(calls') = n - 1
      /\ \A i \in 1..(n - 1) : calls'[i] = calls[i + 1]
      /\ n > 1 => calls' # <<>> /\ Head(calls') = calls'[1]
      /\ n = 1 => calls' = <<>>
  <2>1. calls # <<>>
    BY DEF Sending
  <2>2. /\ calls' \in Seq(SendCalls) /\ Len(calls') = n - 1
        /\ \A i \in 1..(n - 1) : calls'[i] = calls[i + 1]
    BY <1>1, <1>2, <2>1, HeadTailProperties
  <2>3. ASSUME n > 1
        PROVE  calls' # <<>> /\ Head(calls') = calls'[1]
    <3>1. Len(calls') # 0
      BY <1>1, <2>2, <2>3
    <3> QED BY <2>2, <3>1, HeadTailProperties
  <2>4. ASSUME n = 1
        PROVE  calls' = <<>>
    BY <2>2, <2>4
  <2> QED BY <2>2, <2>3, <2>4
<1> HIDE DEF n
<1>4. CASE n = 1
  <2>1. ~Sending' /\ Outer = Head(calls)
    BY <1>1, <1>3, <1>4 DEF Sending, Outer, n
  <2>2. SendShape'
    BY <2>1 DEF SendShape
  <2> QED BY <1>1, <1>2, <1>4, <2>1, <2>2 DEF n
<1>5. CASE n > 1
  <2>1. Sending'
    <3>1. Head(calls') \in SendCalls
      BY <1>1, <1>3, <1>5
    <3> QED BY <1>3, <1>5, <3>1 DEF Sending, SendCalls
  <2>2. Outer' = calls'[n - 1] /\ Outer = calls[n]
    BY <1>3 DEF Outer, n
  <2>3. Outer' = Outer
    <3>1. n - 1 \in 1..(n - 1) /\ (n - 1) + 1 = n
      BY <1>1, <1>5
    <3> QED BY <1>3, <2>2, <3>1
  <2>4. /\ Outer.of \in Monitors
        /\ \A i \in 1..(n - 1) : calls[i].of \in Analyzers
        /\ \A i \in 1..n : calls[i].arg = Outer.arg /\ IsInjective(calls[i].todo)
    BY DEF SendShape, n
  <2>5. ASSUME NEW i \in 1..(n - 1)
        PROVE  calls'[i].arg = Outer.arg /\ IsInjective(calls'[i].todo)
    <3>1. i + 1 \in 1..n
      BY <1>1
    <3> QED BY <1>3, <2>4, <3>1
  <2>6. ASSUME NEW i \in 1..(n - 1 - 1)
        PROVE  calls'[i].of \in Analyzers
    <3>1. i + 1 \in 1..(n - 1) /\ i \in 1..(n - 1)
      BY <1>1
    <3> QED BY <1>3, <2>4, <3>1
  <2>7. SendShape'
    <3>1. Outer'.of \in Monitors
      BY <2>3, <2>4
    <3>2. \A i \in 1..Len(calls') : calls'[i].arg = Outer'.arg /\ IsInjective(calls'[i].todo)
      BY <1>3, <2>3, <2>5
    <3>3. \A i \in 1..(Len(calls') - 1) : calls'[i].of \in Analyzers
      BY <1>3, <2>6
    <3> QED BY <3>1, <3>2, <3>3, Zenon DEF SendShape
  <2> QED BY <1>1, <1>2, <1>5, <2>1, <2>3, <2>7 DEF n
<1> QED BY <1>1, <1>4, <1>5 DEF n

(* A monitor begins to send.                                               *)
LEMMA SendBegins ==
  ASSUME LinksInv, NEW m \in Monitors, NEW message \in Messages, NEW inOrder,
         Send(m, message, inOrder)
  PROVE  /\ ~Sending /\ Sending' /\ SendShape' /\ Len(calls') = 1
         /\ Outer' = Call("send", m, message, to_list[m])
         /\ UNCHANGED <<linkVars, settings, hearVars>> /\ events' = events + 1
         /\ missed' = missed \cup {a \in Made : rrc[a] # Unknown /\ a \notin ToSet(to_list[m])}
                   \cup (IF inOrder THEN {} ELSE ToSet(to_list[m]))
                      \cup (IF inOrder THEN {} ELSE ToSet(to_list[m]))
<1> DEFINE c == Call("send", m, message, to_list[m])
<1>1. /\ calls = <<>> /\ calls' = <<c>> /\ events' = events + 1
      /\ UNCHANGED <<linkVars, settings, hearVars>>
      /\ missed' = missed \cup {a \in Made : rrc[a] # Unknown /\ a \notin ToSet(to_list[m])}
                   \cup (IF inOrder THEN {} ELSE ToSet(to_list[m]))
  BY DEF Send, Idle, Made
<1>2. c.fn = "send" /\ c.of = m /\ c.arg = message /\ c.todo = to_list[m]
  BY DEF Call
<1>3. IsInjective(to_list[m])
  BY DEF LinksInv, LinksType, Lists, Elements
<1> HIDE DEF c
<1>4. Len(calls') = 1 /\ calls'[1] = c /\ Head(calls') = c /\ calls' # <<>>
  BY <1>1
<1>5. ~Sending /\ Sending' /\ Outer' = c
  BY <1>1, <1>2, <1>4 DEF Sending, Outer
<1>6. SendShape'
  BY <1>2, <1>3, <1>4, <1>5 DEF SendShape
<1> QED BY <1>1, <1>4, <1>5, <1>6 DEF c

-----------------------------------------------------------------------------
(* Steps at which no message is sent                                       *)

\* Calls of the other functions
OtherCalls ==
    [fn : {"include", "check_kpis", "set_source"}, of : Analyzers, arg : Monitors \cup {Nobody},
     todo : Seq(Classes \cup Analyzers)]

\* Analyzers may be made and linked
Quiet ==
    /\ UNCHANGED <<phoneVars, hearVars>>
    /\ Made \subseteq Made' /\ \A a \in Made : class'[a] = class[a]
    /\ ~Sending /\ ~Sending'

(* What runs when no message is sent.                                      *)
LEMMA OtherCallsRun ==
  ASSUME LinksInv, ~Sending
  PROVE  calls \in Seq(OtherCalls)
<1>1. Made \subseteq Analyzers
  BY MadeAnalyzers DEF LinksInv
<1>2. IncludeCalls \subseteq OtherCalls
  <2>1. Seq(Classes) \subseteq Seq(Classes \cup Analyzers)
    OBVIOUS
  <2> QED BY <1>1, <2>1 DEF IncludeCalls, OtherCalls
<1>3. SetCalls \subseteq OtherCalls
  <2>1. Seq(Made) \subseteq Seq(Classes \cup Analyzers)
    BY <1>1
  <2> QED BY <1>1, <2>1 DEF SetCalls, OtherCalls
<1>4. CASE calls \in Seq(IncludeCalls)
  BY <1>2, <1>4
<1>5. CASE calls \in Seq(SetCalls)
  BY <1>3, <1>5
<1>6. CASE calls \in Seq(SendCalls)
  <2>1. calls # <<>> => Head(calls) \in SendCalls
    BY <1>6, HeadTailProperties
  <2>2. calls = <<>>
    BY <2>1 DEF Sending, SendCalls
  <2> QED BY <2>2
<1> QED BY <1>4, <1>5, <1>6 DEF LinksInv, OneKindOfCalls

(* None of them is send.                                                   *)
LEMMA OthersAreNotSend ==
  ASSUME calls' \in Seq(OtherCalls)
  PROVE  ~Sending'
<1>1. calls' # <<>> => Head(calls') \in OtherCalls
  BY HeadTailProperties
<1> QED BY <1>1 DEF Sending, OtherCalls

(* One of them on top of others.                                           *)
LEMMA OtherOnTop ==
  ASSUME NEW c \in OtherCalls, NEW s \in Seq(OtherCalls)
  PROVE  <<c>> \o s \in Seq(OtherCalls)
OBVIOUS

(* An analyzer is made.                                                    *)
LEMMA ConstructIsQuiet ==
  ASSUME LinksInv, ~Sending, NEW c \in Classes, NEW caller \in Seq(OtherCalls),
         Construct(c, caller)
  PROVE  Quiet
<1> DEFINE a == Len(class) + 1
<1>1. /\ a \in Analyzers /\ Made' = Made \cup {a} /\ \A b \in Made : class'[b] = class[b]
      /\ calls' = <<Constructor(c, a)>> \o caller
      /\ UNCHANGED <<phoneVars, hearVars>>
  BY ConstructIs
<1>2. Constructor(c, a) \in OtherCalls
  <2>1. KpiAnalyzers \in Seq(Classes \cup Analyzers) /\ Included[c] \in Seq(Classes \cup Analyzers)
    <3>1. KpiAnalyzers \in Seq(Classes)
      BY DEF KpiAnalyzers, Classes, Included
    <3>2. Included[c] \in Seq(Classes)
      BY IncludedType
    <3> QED BY <3>1, <3>2
  <2> HIDE DEF a
  <2> QED BY <1>1, <2>1 DEF Constructor, Call, OtherCalls
<1> HIDE DEF a
<1>3. calls' \in Seq(OtherCalls)
  BY <1>1, <1>2, OtherOnTop
<1>4. ~Sending'
  BY <1>3, OthersAreNotSend
<1> QED BY <1>1, <1>4 DEF Quiet

(* An analyzer is made, included or given a source, or nothing is done.    *)
LEMMA OtherStepsAreQuiet ==
  ASSUME LinksInv, ~Sending,
         \/ User \/ check_kpis \/ include_analyzer \/ set_source \/ SourceSet \/ Return
         \/ UNCHANGED vars
  PROVE  Quiet
<1>1. calls \in Seq(OtherCalls)
  BY OtherCallsRun
<1>2. ASSUME UNCHANGED <<phoneVars, hearVars, class>>, calls' \in Seq(OtherCalls)
      PROVE  Quiet
  <2>1. ~Sending'
    BY <1>2, OthersAreNotSend
  <2>2. Made' = Made
    BY <1>2 DEF Made
  <2> QED BY <1>2, <2>1, <2>2 DEF Quiet
<1>3. ASSUME calls # <<>>
      PROVE  /\ Head(calls) \in OtherCalls /\ Tail(calls) \in Seq(OtherCalls)
             /\ Head(calls).todo # <<>> =>
                   /\ Descend(<<>>) \in Seq(OtherCalls)
                   /\ \A c \in OtherCalls : Descend(<<c>>) \in Seq(OtherCalls)
  <2>1. Head(calls) \in OtherCalls /\ Tail(calls) \in Seq(OtherCalls)
    BY <1>1, <1>3, HeadTailProperties
  <2>2. ASSUME Head(calls).todo # <<>>, NEW called \in Seq(OtherCalls)
        PROVE  Descend(called) \in Seq(OtherCalls)
    BY <1>1, <1>3, <2>2, DescendCalls DEF OtherCalls
  <2>3. /\ <<>> \in Seq(OtherCalls)
        /\ \A c \in OtherCalls : <<c>> \in Seq(OtherCalls)
    OBVIOUS
  <2> QED BY <2>1, <2>2, <2>3
<1>4. CASE User
  <2>1. ASSUME NEW c \in Tops, Make(c)
        PROVE  Quiet
    <3>1. c \in Classes /\ Construct(c, <<>>) /\ <<>> \in Seq(OtherCalls)
      BY <2>1, AnalyzersAssumption DEF Make, AnalyzersAssumption
    <3> QED BY <3>1, ConstructIsQuiet
  <2>2. ASSUME NEW a \in 1..Len(class), NEW m \in Monitors, SetSource(a, m)
        PROVE  Quiet
    <3>1. a \in Analyzers /\ from_list[a] \in Seq(Made)
      BY MadeAnalyzers DEF LinksInv, LinksType, Lists, Made
    <3>2. from_list[a] \in Seq(Classes \cup Analyzers)
      BY <3>1, MadeAnalyzers DEF LinksInv
    <3>3. Call("set_source", a, m, from_list[a]) \in OtherCalls
      BY <3>1, <3>2 DEF Call, OtherCalls
    <3>4. calls' \in Seq(OtherCalls)
      BY <2>2, <3>3 DEF SetSource
    <3> QED BY <1>2, <2>2, <3>4 DEF SetSource, linkVars
  <2>3. ASSUME NEW a \in 1..Len(class), NEW c \in Kpis, EnableKpi(a, c)
        PROVE  Quiet
    <3>1. a \in Analyzers /\ c \in Classes
      BY MadeAnalyzers, KpisAre DEF LinksInv, Made
    <3>2. <<c>> \in Seq(Classes \cup Analyzers)
      BY <3>1
    <3>3. Call("include", a, Nobody, <<c>>) \in OtherCalls
      BY <3>1, <3>2 DEF Call, OtherCalls
    <3>4. calls' \in Seq(OtherCalls)
      BY <2>3, <3>3 DEF EnableKpi
    <3> QED BY <1>2, <2>3, <3>4 DEF EnableKpi
  <2>4. ASSUME Reset
        PROVE  Quiet
    BY <1>1, <1>2, <2>4 DEF Reset
  <2> QED BY <1>4, <2>1, <2>2, <2>3, <2>4 DEF User
<1>5. CASE check_kpis
  <2>1. /\ calls # <<>> /\ Head(calls).fn = "check_kpis" /\ Head(calls).todo # <<>>
        /\ Construct(Head(Head(calls).todo), Descend(<<>>))
    BY <1>5 DEF check_kpis, Running, Idle
  <2>2. Head(Head(calls).todo) \in Classes
    BY <2>1, RunningInclude
  <2>3. Descend(<<>>) \in Seq(OtherCalls)
    BY <1>3, <2>1
  <2> QED BY <2>1, <2>2, <2>3, ConstructIsQuiet
<1>6. CASE include_analyzer
  <2> DEFINE name == Head(Head(calls).todo)
  <2>1. calls # <<>> /\ Head(calls).fn = "include" /\ Head(calls).todo # <<>>
    BY <1>6 DEF include_analyzer, Running, Idle
  <2>2. name \in Classes
    BY <2>1, RunningInclude
  <2>3. CASE analyzer_array[name] = Nobody
    <3>1. Construct(name, calls)
      BY <1>6, <2>3 DEF include_analyzer
    <3> QED BY <1>1, <2>2, <3>1, ConstructIsQuiet
  <2>4. CASE analyzer_array[name] # Nobody
    <3>1. calls' \in Seq(OtherCalls)
      BY <1>3, <1>6, <2>1, <2>4 DEF include_analyzer
    <3> QED BY <1>2, <1>6, <2>4, <3>1 DEF include_analyzer
  <2> QED BY <2>3, <2>4
<1>7. CASE set_source
  <2> DEFINE other == Head(Head(calls).todo)
             called == Call("set_source", other, Head(calls).arg, from_list[other])
  <2>1. /\ calls # <<>> /\ Head(calls).fn = "set_source" /\ Head(calls).todo # <<>>
        /\ calls' = Descend(<<called>>)
    BY <1>7 DEF set_source, Running, Idle
  <2>2. Head(calls) \in SetCalls
    BY <2>1, RunningCalls, HeadTailProperties DEF LinksInv
  <2>3. other \in Made /\ Head(calls).arg \in Monitors
    BY <2>1, <2>2, HeadTailProperties DEF SetCalls
  <2>4. other \in Analyzers /\ from_list[other] \in Seq(Classes \cup Analyzers)
    <3>1. other \in Analyzers /\ Made \subseteq Analyzers
      BY <2>3, MadeAnalyzers DEF LinksInv
    <3>2. from_list[other] \in Seq(Made)
      BY <3>1 DEF LinksInv, LinksType, Lists
    <3> QED BY <3>1, <3>2
  <2>5. called \in OtherCalls
    BY <2>3, <2>4 DEF Call, OtherCalls
  <2> HIDE DEF called
  <2>6. calls' \in Seq(OtherCalls)
    BY <1>3, <2>1, <2>5
  <2> QED BY <1>2, <1>7, <2>6 DEF set_source, linkVars
<1>8. CASE SourceSet \/ Return
  <2>1. calls # <<>> /\ calls' = Tail(calls)
    BY <1>8 DEF SourceSet, Return, Running, Idle
  <2>2. calls' \in Seq(OtherCalls)
    BY <1>3, <2>1
  <2> QED BY <1>2, <1>8, <2>2 DEF SourceSet, Return, linkVars
<1>9. CASE UNCHANGED vars
  BY <1>1, <1>2, <1>9 DEF vars, linkVars
<1> QED BY <1>4, <1>5, <1>6, <1>7, <1>8, <1>9

(* While a message is sent nothing else is done.                           *)
LEMMA StepKinds ==
  ASSUME LinksInv, [Next]_vars
  PROVE  \/ Sending /\ recv
         \/ Sending /\ Return
         \/ UNCHANGED vars
         \/ ~Sending /\ Phone
         \/ Quiet
<1>1. CASE Sending
  <2>1. calls # <<>> /\ Head(calls).fn = "send"
    BY <1>1 DEF Sending
  <2>2. ~Idle /\ ~Running("check_kpis") /\ ~Running("include") /\ ~Running("set_source")
    BY <2>1 DEF Idle, Running
  <2>3. ~User
    BY <2>2 DEF User, Make, SetSource, EnableKpi, Reset
  <2>4. ~Phone
    <3>1. \A change \in Changes : ~Records(change)
      BY <2>2, Zenon DEF Records
    <3>2. \A m \in Monitors : ~SendCdrx(m)
      BY <2>2, Zenon DEF SendCdrx, Send
    <3>3. \A m \in Monitors : \A change \in Changes : ~SendOta(m, change)
      BY <2>2, Zenon DEF SendOta, Send
    <3> QED BY <3>1, <3>2, <3>3, Zenon DEF Phone
  <2>5. ~check_kpis /\ ~include_analyzer /\ ~set_source /\ ~SourceSet
    BY <2>2, Zenon DEF check_kpis, include_analyzer, set_source, SourceSet
  <2> QED BY <1>1, <2>3, <2>4, <2>5, Zenon DEF Next
<1>2. CASE ~Sending
  <2>1. ~recv
    BY <1>2 DEF recv, Running, Idle, Sending
  <2>2. CASE Phone
    BY <1>2, <2>2
  <2>3. CASE ~Phone
    <3>1. \/ User \/ check_kpis \/ include_analyzer \/ set_source \/ SourceSet \/ Return
          \/ UNCHANGED vars
      BY <2>1, <2>3 DEF Next
    <3> QED BY <1>2, <3>1, OtherStepsAreQuiet
  <2> QED BY <2>2, <2>3
<1> QED BY <1>1, <1>2

-----------------------------------------------------------------------------
(* The inductive invariant of the states that are followed: all that have  *)
(* missed nothing are in one state, from which the records that the phone  *)
(* has not yet written lead to its state; and so they do from no state.    *)
(* While a message is sent, those that have got it are in the phone's      *)
(* state, the others still in the one before.  Nobody follows from a       *)
(* message that overtakes records to the end of the one that has these.    *)

Knows(a) == class[a] = "LteRrcAnalyzer" /\ rrc[a] # Unknown /\ a \notin missed

FollowsIdle(from) ==
    /\ After(from, batch) = phone
    /\ batch # <<>> => After(Unknown, batch) = phone
    /\ \A a \in Made : Knows(a) => rrc[a] = from

FollowsSend(from) ==
    /\ batch = <<>> /\ Tracked(from, Outer.arg) = phone /\ Tracked(Unknown, Outer.arg) = phone
    /\ \A a \in Made : Knows(a) => rrc[a] = IF a \in ToSet(Outer.todo) THEN from ELSE phone

NoneFollows ==
    /\ \A a \in Made : ~Knows(a)
    /\ batch # <<>> => overtaken
    /\ IF Sending THEN ToSet(Outer.todo) \subseteq missed ELSE overtaken

AllFollow ==
    /\ ~overtaken
    /\ \E from \in States : IF Sending THEN FollowsSend(from) ELSE FollowsIdle(from)

FollowInv ==
    /\ \A a \in Analyzers \ Made : rrc[a] = Unknown
    /\ overtaken => batch # <<>>
    /\ NoneFollows \/ AllFollow

(* An analyzer that was just made knows no state.                          *)
LEMMA QuietFollows ==
  ASSUME TypeInv, Made' \subseteq Analyzers, FollowInv, Quiet
  PROVE  FollowInv'
<1>1. /\ UNCHANGED <<rrc, phone, batch, overtaken, missed>> /\ ~Sending /\ ~Sending'
      /\ Made \subseteq Made' /\ \A a \in Made : class'[a] = class[a]
  BY DEF Quiet, phoneVars, hearVars
<1>2. \A a \in Analyzers \ Made' : rrc'[a] = Unknown
  BY <1>1 DEF FollowInv
<1>3. ASSUME NEW a \in Made', Knows(a)'
      PROVE  a \in Made /\ Knows(a)
  <2>1. a \in Analyzers /\ rrc[a] # Unknown
    BY <1>1, <1>3 DEF Knows
  <2>2. a \in Made
    BY <2>1 DEF FollowInv
  <2>3. Knows(a)
    BY <1>1, <1>3, <2>2 DEF Knows
  <2> QED BY <2>2, <2>3
<1>4. CASE NoneFollows
  <2>1. NoneFollows'
    BY <1>1, <1>3, <1>4 DEF NoneFollows
  <2> QED BY <1>1, <1>2, <2>1 DEF FollowInv
<1>5. CASE AllFollow
  <2>1. PICK from \in States : FollowsIdle(from)
    BY <1>1, <1>5 DEF AllFollow
  <2>2. \A a \in Made' : Knows(a)' => rrc'[a] = from
    BY <1>1, <1>3, <2>1 DEF FollowsIdle
  <2>3. FollowsIdle(from)'
    BY <1>1, <2>1, <2>2 DEF FollowsIdle
  <2>4. AllFollow'
    BY <1>1, <1>5, <2>3 DEF AllFollow
  <2> QED BY <1>1, <1>2, <2>4 DEF FollowInv
<1> QED BY <1>4, <1>5 DEF FollowInv

(* None follows a message that is out of order: those that get it do not,  *)
(* and those that do not get it miss it.                                   *)
LEMMA OutOfOrderFollows ==
  ASSUME TypeInv, FollowInv, NEW m \in Monitors, NEW message \in Messages,
         Send(m, message, FALSE), overtaken' <=> batch' # <<>>
  PROVE  FollowInv'
<1>1. LinksInv
  BY DEF TypeInv
<1>2. /\ Sending' /\ Outer' = Call("send", m, message, to_list[m]) /\ UNCHANGED <<class, rrc>>
      /\ missed' = missed \cup {a \in Made : rrc[a] # Unknown /\ a \notin ToSet(to_list[m])}
                   \cup ToSet(to_list[m])
  BY <1>1, SendBegins DEF linkVars, hearVars
<1>3. Outer'.todo = to_list[m]
  BY <1>2 DEF Call
<1>4. Made' = Made
  BY <1>2 DEF Made
<1>5. \A a \in Made' : ~Knows(a)'
  BY <1>2, <1>4 DEF Knows
<1>6. ToSet(Outer'.todo) \subseteq missed'
  BY <1>2, <1>3
<1>7. NoneFollows'
  BY <1>2, <1>5, <1>6 DEF NoneFollows
<1>8. \A a \in Analyzers \ Made' : rrc'[a] = Unknown
  BY <1>2, <1>4 DEF FollowInv
<1> QED BY <1>7, <1>8 DEF FollowInv

(* So with an over-the-air message that overtakes records.                 *)
LEMMA OvertakingFollows ==
  ASSUME TypeInv, FollowInv, NEW m \in Monitors, NEW change \in Changes,
         SendOta(m, change), batch # <<>>
  PROVE  FollowInv'
<1> DEFINE message == Ota(change[2])
<1>1. /\ change[2] \in OtaElements /\ Send(m, message, batch = <<>>)
      /\ batch' = batch /\ overtaken' = (batch # <<>>)
  BY DEF SendOta
<1>2. message \in Messages
  <2>1. events + 1 \in Nat /\ <<change[2]>> \in Seq(CdrxEvents \cup OtaElements)
    BY <1>1 DEF TypeInv, LinksInv, LinksType
  <2> QED BY <2>1 DEF Ota, Messages
<1> HIDE DEF message
<1>3. (batch = <<>>) = FALSE
  OBVIOUS
<1>4. Send(m, message, FALSE)
  BY <1>1, <1>3
<1> QED BY <1>1, <1>2, <1>4, OutOfOrderFollows

(* The phone's records and messages lead from its state to its next.       *)
LEMMA InOrderFollows ==
  ASSUME TypeInv, FollowInv, AllFollow, ~Sending, Phone
  PROVE  FollowInv'
<1>0. LinksInv /\ StatesType /\ batch \in Seq(CdrxEvents)
  BY DEF TypeInv, LinksInv, LinksType
<1>1. PICK from \in States : FollowsIdle(from)
  BY DEF AllFollow
<1>8. ~overtaken
  BY DEF AllFollow
<1>2. from \in Known /\ Unknown \in Known /\ phone \in States
  BY <1>0 DEF Known, StatesType
<1>3. ASSUME NEW change \in Changes, Records(change)
      PROVE  FollowInv'
  <2>1. /\ change[1] = phone /\ change[2] \in CdrxEvents
        /\ phone' = change[3] /\ batch' = Append(batch, change[2])
        /\ UNCHANGED <<class, calls, rrc, overtaken, missed>>
    BY <1>3 DEF Records, linkVars, hearVars
  <2>2. batch' # <<>>
    BY <1>0, <2>1
  <2>3. /\ update_state(phone, change[2]) = phone'
        /\ update_state(Unknown, change[2]) = phone'
    BY <2>1, ChangeIsSeen
  <2>4. /\ After(from, batch') = update_state(After(from, batch), change[2])
        /\ After(Unknown, batch') = update_state(After(Unknown, batch), change[2])
    BY <1>0, <1>2, <2>1, AfterMore
  <2>5. After(from, batch') = phone'
    BY <1>1, <2>3, <2>4 DEF FollowsIdle
  <2>6. After(Unknown, batch') = phone'
    <3>1. CASE batch = <<>>
      <4>1. After(Unknown, batch) = Unknown
        BY <3>1, AfterNone
      <4> QED BY <2>3, <2>4, <4>1
    <3>2. CASE batch # <<>>
      BY <1>1, <2>3, <2>4, <3>2 DEF FollowsIdle
    <3> QED BY <3>1, <3>2
  <2>7. Made' = Made /\ ~Sending' /\ \A a : Knows(a)' <=> Knows(a)
    BY <2>1 DEF Made, Sending, Knows
  <2>8. FollowsIdle(from)'
    BY <1>1, <2>1, <2>5, <2>6, <2>7 DEF FollowsIdle
  <2>9. AllFollow'
    BY <1>8, <2>1, <2>7, <2>8 DEF AllFollow
  <2> QED BY <2>1, <2>2, <2>7, <2>9 DEF FollowInv
<1>4. ASSUME NEW m \in Monitors, NEW message \in Messages, Send(m, message, TRUE),
             batch' = <<>>, ~overtaken',
             Tracked(from, message) = phone', Tracked(Unknown, message) = phone'
      PROVE  FollowInv'
  <2> DEFINE c == Call("send", m, message, to_list[m])
  <2>1. /\ Sending' /\ Outer' = c /\ UNCHANGED <<class, rrc>>
        /\ missed' = missed \cup {a \in Made : rrc[a] # Unknown /\ a \notin ToSet(to_list[m])}
    BY <1>0, <1>4, SendBegins DEF linkVars, hearVars
  <2>2. c.arg = message /\ c.todo = to_list[m]
    BY DEF Call
  <2> HIDE DEF c
  <2>3. Made' = Made
    BY <2>1 DEF Made
  <2>4. ASSUME NEW a \in Made', Knows(a)'
        PROVE  a \in ToSet(to_list[m]) /\ rrc'[a] = from
    <3>1. Knows(a) /\ a \in ToSet(to_list[m])
      BY <2>1, <2>3, <2>4 DEF Knows
    <3> QED BY <1>1, <2>1, <2>3, <3>1 DEF FollowsIdle
  <2>5. FollowsSend(from)'
    <3>1. \A a \in Made' : Knows(a)' =>
             rrc'[a] = IF a \in ToSet(Outer'.todo) THEN from ELSE phone'
      BY <2>1, <2>2, <2>4
    <3>2. batch' = <<>> /\ Tracked(from, Outer'.arg) = phone' /\ Tracked(Unknown, Outer'.arg) = phone'
      BY <1>4, <2>1, <2>2
    <3> QED BY <3>1, <3>2 DEF FollowsSend
  <2>6. \A a \in Analyzers \ Made' : rrc'[a] = Unknown
    BY <2>1, <2>3 DEF FollowInv
  <2>7. AllFollow'
    BY <1>4, <2>1, <2>5 DEF AllFollow
  <2> QED BY <1>4, <2>6, <2>7 DEF FollowInv
<1>5. ASSUME NEW m \in Monitors, SendCdrx(m)
      PROVE  FollowInv'
  <2>1. /\ Send(m, Cdrx, ~overtaken) /\ batch' = <<>> /\ batch # <<>>
        /\ ~overtaken' /\ phone' = phone
    BY <1>5 DEF SendCdrx
  <2>2. Cdrx \in Messages
    <3>1. events + 1 \in Nat /\ batch \in Seq(CdrxEvents \cup OtaElements)
      BY <1>0 DEF LinksInv, LinksType
    <3> QED BY <3>1 DEF Cdrx, Messages
  <2>3. \A s : Tracked(s, Cdrx) = After(s, batch)
    <3>1. batch \o <<>> = batch
      BY <1>0
    <3>2. ~Cdrx.ota /\ Cdrx.signals = batch
      BY DEF Cdrx
    <3> QED BY <3>1, <3>2 DEF Tracked
  <2>4. Tracked(from, Cdrx) = phone' /\ Tracked(Unknown, Cdrx) = phone'
    BY <1>1, <2>1, <2>3 DEF FollowsIdle
  <2>5. (~overtaken) = TRUE
    BY <1>8
  <2>6. Send(m, Cdrx, TRUE)
    BY <2>1, <2>5
  <2> QED BY <1>4, <2>1, <2>2, <2>4, <2>6
<1>6. ASSUME NEW m \in Monitors, NEW change \in Changes, SendOta(m, change), batch = <<>>
      PROVE  FollowInv'
  <2> DEFINE signal == change[2]
             message == Ota(signal)
  <2>1. /\ change[1] = phone /\ signal \in OtaElements
        /\ Send(m, message, TRUE) /\ phone' = change[3] /\ batch' = <<>> /\ ~overtaken'
    <3>1. /\ change[1] = phone /\ signal \in OtaElements
          /\ Send(m, message, batch = <<>>) /\ phone' = change[3] /\ batch' = batch
          /\ overtaken' = (batch # <<>>)
      BY <1>6 DEF SendOta
    <3>2. (batch = <<>>) = TRUE
      BY <1>6
    <3> HIDE DEF message
    <3>3. Send(m, message, TRUE)
      BY <3>1, <3>2
    <3> QED BY <1>6, <3>1, <3>3
  <2>2. message \in Messages
    <3>1. events + 1 \in Nat /\ <<signal>> \in Seq(CdrxEvents \cup OtaElements)
      BY <1>0, <2>1 DEF LinksInv, LinksType
    <3> QED BY <3>1 DEF Ota, Messages
  <2>3. message.ota /\ message.signals = <<signal>>
    BY DEF Ota
  <2>4. from = phone
    BY <1>1, <1>6, AfterNone DEF FollowsIdle
  <2>5. ASSUME NEW s \in Known
        PROVE  Tracked(s, message) = update_state(update_state(s, signal), signal)
    <3>1. Tracked(s, message) = After(s, <<signal>> \o <<signal>>)
      BY <2>3 DEF Tracked
    <3> QED BY <3>1, AfterTwice
  <2> HIDE DEF message
  <2>6. /\ update_state(change[1], signal) = change[3]
        /\ update_state(Unknown, signal) = change[3]
        /\ update_state(change[3], signal) = change[3]
    BY <2>1, ChangeIsSeen
  <2>7. Tracked(from, message) = phone' /\ Tracked(Unknown, message) = phone'
    BY <1>2, <2>1, <2>4, <2>5, <2>6
  <2> QED BY <1>4, <2>1, <2>2, <2>7
<1>7. ASSUME NEW m \in Monitors, NEW change \in Changes, SendOta(m, change), batch # <<>>
      PROVE  FollowInv'
  BY <1>7, OvertakingFollows
<1> QED BY <1>3, <1>5, <1>6, <1>7 DEF Phone

(* The phone's steps, whether or not records were overtaken.               *)
LEMMA PhoneFollows ==
  ASSUME TypeInv, FollowInv, ~Sending, Phone
  PROVE  FollowInv'
<1>1. CASE AllFollow
  BY <1>1, InOrderFollows
<1>2. CASE NoneFollows
  <2>1. overtaken /\ batch # <<>> /\ \A a \in Made : ~Knows(a)
    BY <1>2 DEF NoneFollows, FollowInv
  <2>2. ASSUME NEW change \in Changes, Records(change)
        PROVE  FollowInv'
    <3>1. /\ batch' = Append(batch, change[2]) /\ UNCHANGED <<class, calls, rrc, overtaken, missed>>
      BY <2>2 DEF Records, linkVars, hearVars
    <3>2. batch' # <<>>
      BY <3>1 DEF TypeInv, LinksInv, LinksType
    <3>3. Made' = Made /\ ~Sending' /\ \A a : Knows(a)' <=> Knows(a)
      BY <3>1 DEF Made, Sending, Knows
    <3>4. NoneFollows'
      BY <2>1, <3>1, <3>3 DEF NoneFollows
    <3> QED BY <3>1, <3>2, <3>3, <3>4 DEF FollowInv
  <2>3. ASSUME NEW m \in Monitors, SendCdrx(m)
        PROVE  FollowInv'
    <3>1. Send(m, Cdrx, ~overtaken) /\ batch' = <<>> /\ ~overtaken'
      BY <2>3 DEF SendCdrx
    <3>2. Cdrx \in Messages
      <4>1. events + 1 \in Nat /\ batch \in Seq(CdrxEvents \cup OtaElements)
        BY DEF TypeInv, LinksInv, LinksType
      <4> QED BY <4>1 DEF Cdrx, Messages
    <3>3. (~overtaken) = FALSE
      BY <2>1
    <3>4. Send(m, Cdrx, FALSE)
      BY <3>1, <3>3
    <3> QED BY <3>1, <3>2, <3>4, OutOfOrderFollows
  <2>4. ASSUME NEW m \in Monitors, NEW change \in Changes, SendOta(m, change)
        PROVE  FollowInv'
    BY <2>1, <2>4, OvertakingFollows
  <2> QED BY <2>2, <2>3, <2>4 DEF Phone
<1> QED BY <1>1, <1>2 DEF FollowInv

(* An analyzer gets the message from its source and is in the phone's      *)
(* state; from another analyzer, it leaves its state as it is.             *)
LEMMA RecvFollows ==
  ASSUME TypeInv, SendShape, FollowInv, recv
  PROVE  FollowInv'
<1> DEFINE a == Head(Head(calls).todo)
           e == Head(calls).of
           message == Head(calls).arg
<1>0. LinksInv /\ StatesType
  BY DEF TypeInv
<1>1. /\ Sending /\ Sending' /\ Len(calls) \in Nat \ {0}
      /\ Len(calls) = 1 =>
            /\ Outer = Head(calls) /\ Outer' = [Head(calls) EXCEPT !.todo = Tail(@)]
      /\ Len(calls) > 1 => Outer' = Outer /\ Head(calls).of \in Analyzers
  BY <1>0, RecvShape
<1>2. overtaken => batch # <<>>
  BY DEF FollowInv
<1>3. /\ a \in Made /\ a \in Analyzers /\ a \in ToSet(to_list[e])
      /\ Head(calls) \in SendCalls /\ Head(calls).todo # <<>>
  BY <1>0, RecvIs
<1>4. /\ UNCHANGED <<class, phone, batch, overtaken, missed>> /\ rrc \in [Analyzers -> Known]
      /\ rrc' = IF class[a] = "LteRrcAnalyzer" /\ e = source[a]
                THEN [rrc EXCEPT ![a] = Tracked(rrc[a], message)] ELSE rrc
  BY <1>0 DEF recv, linkVars, phoneVars, StatesType
<1>5. Made' = Made
  BY <1>4 DEF Made
<1>6. \A b \in Analyzers \ Made' : rrc'[b] = Unknown
  <2>1. \A b \in Analyzers \ Made : rrc'[b] = rrc[b]
    BY <1>3, <1>4
  <2> QED BY <1>5, <2>1 DEF FollowInv
<1>7. CASE Len(calls) > 1
  <2>1. source[a] # e
    <3>1. source[a] \in Monitors \cup {Nobody}
      BY <1>0, <1>3 DEF LinksInv, LinksType
    <3> QED BY <1>0, <1>1, <1>7, <3>1, MadeAnalyzers DEF LinksInv
  <2>2. rrc' = rrc /\ Outer' = Outer
    BY <1>1, <1>4, <1>7, <2>1
  <2>3. \A b : Knows(b)' <=> Knows(b)
    BY <1>4, <2>2 DEF Knows
  <2>4. \A from : FollowsSend(from)' <=> FollowsSend(from)
    BY <1>4, <1>5, <2>2, <2>3 DEF FollowsSend
  <2>5. AllFollow => AllFollow'
    BY <1>1, <1>4, <2>4 DEF AllFollow
  <2>6. NoneFollows => NoneFollows'
    BY <1>1, <1>4, <1>5, <2>2, <2>3 DEF NoneFollows
  <2> QED BY <1>2, <1>4, <1>6, <2>5, <2>6 DEF FollowInv
<1>8. CASE Len(calls) = 1
  <2> DEFINE rest == Tail(Head(calls).todo)
  <2>1. /\ Outer = Head(calls) /\ Outer'.arg = message /\ Outer'.todo = rest
        /\ Outer.of \in Monitors /\ IsInjective(Head(calls).todo)
    <3>1. Outer = Head(calls) /\ Outer' = [Head(calls) EXCEPT !.todo = Tail(@)]
      BY <1>1, <1>8
    <3>2. Outer'.arg = message /\ Outer'.todo = rest
      BY <1>3, <3>1 DEF SendCalls
    <3>3. IsInjective(Outer.todo) /\ Outer.of \in Monitors
      <4>1. Outer = calls[1] /\ 1 \in 1..Len(calls)
        BY <1>8 DEF Outer
      <4> QED BY <1>1, <4>1 DEF SendShape
    <3> QED BY <3>1, <3>2, <3>3
  <2>2. source[a] = e
    BY <1>0, <1>3, <2>1 DEF LinksInv, EndsAgree
  <2>3. Head(calls).todo \in Lists(Made)
    BY <1>3, <2>1 DEF SendCalls, Lists
  <2>4. ToSet(rest) = ToSet(Head(calls).todo) \ {a} /\ a \in ToSet(Head(calls).todo)
    <3>1. ToSet(rest) = ToSet(Head(calls).todo) \ {a}
      BY <1>3, <2>3, RestOfList
    <3>2. 1 \in 1..Len(Head(calls).todo) /\ Head(calls).todo[1] = a
      BY <1>3, <2>3, HeadTailProperties DEF Lists
    <3> QED BY <2>3, <3>1, <3>2, InToSet DEF Lists
  <2> HIDE DEF rest, a, e, message
  <2>5. ASSUME NoneFollows
        PROVE  NoneFollows'
    <3>1. a \in missed
      BY <1>1, <2>1, <2>4, <2>5 DEF NoneFollows
    <3>2. ASSUME NEW b \in Made'
          PROVE  ~Knows(b)'
      <4>1. CASE b = a
        BY <1>4, <3>1, <4>1 DEF Knows
      <4>2. CASE b # a
        <5>1. rrc'[b] = rrc[b]
          BY <1>4, <4>2
        <5>2. ~Knows(b)
          BY <1>5, <2>5, <3>2 DEF NoneFollows
        <5> QED BY <1>4, <5>1, <5>2 DEF Knows
      <4> QED BY <4>1, <4>2
    <3>3. ToSet(Outer'.todo) \subseteq missed'
      BY <1>1, <1>4, <2>1, <2>4, <2>5 DEF NoneFollows
    <3> QED BY <1>1, <1>4, <2>5, <3>2, <3>3 DEF NoneFollows
  <2>6. ASSUME NEW from \in States, FollowsSend(from)
        PROVE  FollowsSend(from)'
    <3>1. ASSUME NEW b \in Made', Knows(b)'
          PROVE  rrc'[b] = IF b \in ToSet(rest) THEN from ELSE phone
      <4>1. CASE b = a
        <5>1. class[a] = "LteRrcAnalyzer" /\ a \notin missed
          BY <1>4, <3>1, <4>1 DEF Knows
        <5>2. rrc'[a] = Tracked(rrc[a], message)
          BY <1>3, <1>4, <2>2, <5>1
        <5>3. rrc[a] = Unknown \/ rrc[a] = from
          <6>1. ASSUME rrc[a] # Unknown
                PROVE  rrc[a] = from
            <7>1. Knows(a) /\ a \in ToSet(Outer.todo)
              BY <2>1, <2>4, <5>1, <6>1 DEF Knows
            <7> QED BY <1>3, <2>6, <7>1 DEF FollowsSend
          <6> QED BY <6>1
        <5>4. Tracked(from, message) = phone /\ Tracked(Unknown, message) = phone
          BY <2>1, <2>6 DEF FollowsSend, message
        <5>5. rrc'[a] = phone
          BY <5>2, <5>3, <5>4
        <5> QED BY <2>4, <4>1, <5>5
      <4>2. CASE b # a
        <5>1. rrc'[b] = rrc[b]
          BY <1>4, <4>2
        <5>2. Knows(b) /\ b \in Made
          BY <1>4, <1>5, <3>1, <5>1 DEF Knows
        <5>3. rrc[b] = IF b \in ToSet(Outer.todo) THEN from ELSE phone
          BY <2>6, <5>2 DEF FollowsSend
        <5> QED BY <2>1, <2>4, <4>2, <5>1, <5>3
      <4> QED BY <4>1, <4>2
    <3>2. batch' = <<>> /\ Tracked(from, Outer'.arg) = phone' /\ Tracked(Unknown, Outer'.arg) = phone'
      BY <1>4, <2>1, <2>6 DEF FollowsSend, message
    <3>3. \A b \in Made' : Knows(b)' =>
             rrc'[b] = IF b \in ToSet(Outer'.todo) THEN from ELSE phone'
      BY <1>4, <2>1, <3>1
    <3> QED BY <3>2, <3>3 DEF FollowsSend
  <2>7. AllFollow => AllFollow'
    BY <1>1, <1>4, <2>6 DEF AllFollow
  <2> QED BY <1>2, <1>4, <1>6, <2>7, <2>5 DEF FollowInv
<1>9. Len(calls) = 1 \/ Len(calls) > 1
  <2> DEFINE n == Len(calls)
  <2>1. n \in Nat /\ n # 0
    BY <1>1
  <2> HIDE DEF n
  <2>2. n = 1 \/ n > 1
    BY <2>1
  <2> QED BY <2>2 DEF n
<1> QED BY <1>7, <1>8, <1>9

(* Once the monitor's call returns, all have got the message.              *)
LEMMA ReturnFollows ==
  ASSUME TypeInv, SendShape, FollowInv, Sending, Return
  PROVE  FollowInv'
<1>0. LinksInv /\ StatesType
  BY DEF TypeInv
<1>1. /\ Len(calls) \in Nat \ {0} /\ Head(calls).todo = <<>>
      /\ Len(calls) = 1 => ~Sending' /\ Outer = Head(calls)
      /\ Len(calls) > 1 => Sending' /\ Outer' = Outer
  BY <1>0, ReturnShape
<1>2. overtaken => batch # <<>>
  BY DEF FollowInv
<1>3. UNCHANGED <<class, rrc, phone, batch, overtaken, missed>>
  BY DEF Return, linkVars, phoneVars, hearVars
<1>4. Made' = Made /\ \A b : Knows(b)' <=> Knows(b)
  BY <1>3 DEF Made, Knows
<1>5. \A b \in Analyzers \ Made' : rrc'[b] = Unknown
  BY <1>3, <1>4 DEF FollowInv
<1>6. CASE Len(calls) = 1
  <2>1. ~Sending' /\ ToSet(Outer.todo) = {}
    BY <1>1, <1>6 DEF ToSet
  <2>2. CASE overtaken
    <3>1. NoneFollows
      BY <2>2 DEF FollowInv, AllFollow
    <3>2. NoneFollows'
      BY <1>3, <1>4, <2>1, <2>2, <3>1 DEF NoneFollows
    <3> QED BY <1>2, <1>3, <1>5, <3>2 DEF FollowInv
  <2>3. CASE ~overtaken
    <3>1. batch = <<>> /\ \A b \in Made : Knows(b) => rrc[b] = phone
      <4>1. CASE NoneFollows
        BY <2>3, <4>1 DEF NoneFollows
      <4>2. CASE AllFollow
        <5>1. PICK from \in States : FollowsSend(from)
          BY <4>2 DEF AllFollow
        <5> QED BY <2>1, <5>1 DEF FollowsSend
      <4> QED BY <4>1, <4>2 DEF FollowInv
    <3>2. After(phone, batch) = phone
      BY <3>1, AfterNone
    <3>3. FollowsIdle(phone)'
      BY <1>3, <1>4, <3>1, <3>2 DEF FollowsIdle
    <3>4. phone' \in States
      BY <1>0, <1>3 DEF StatesType
    <3>5. \E s \in States : FollowsIdle(s)'
      BY <1>3, <3>3, <3>4
    <3>6. AllFollow'
      BY <1>3, <2>1, <2>3, <3>5 DEF AllFollow
    <3> QED BY <1>2, <1>3, <1>5, <3>6 DEF FollowInv
  <2> QED BY <2>2, <2>3
<1>7. CASE Len(calls) > 1
  <2>1. Sending' /\ Outer' = Outer
    BY <1>1, <1>7
  <2>2. \A from : FollowsSend(from)' <=> FollowsSend(from)
    BY <1>3, <1>4, <2>1 DEF FollowsSend
  <2>3. AllFollow => AllFollow'
    BY <1>3, <2>1, <2>2 DEF AllFollow
  <2>4. NoneFollows => NoneFollows'
    BY <1>3, <1>4, <2>1 DEF NoneFollows
  <2> QED BY <1>2, <1>3, <1>5, <2>3, <2>4 DEF FollowInv
<1>8. Len(calls) = 1 \/ Len(calls) > 1
  <2> DEFINE n == Len(calls)
  <2>1. n \in Nat /\ n # 0
    BY <1>1
  <2> HIDE DEF n
  <2>2. n = 1 \/ n > 1
    BY <2>1
  <2> QED BY <2>2 DEF n
<1> QED BY <1>6, <1>7, <1>8

(* The calls of send keep their shape.                                     *)
LEMMA ShapeNext ==
  ASSUME LinksInv, SendShape, [Next]_vars
  PROVE  SendShape'
<1>1. CASE Sending /\ recv
  BY <1>1, RecvShape
<1>2. CASE Sending /\ Return
  BY <1>2, ReturnShape
<1>3. CASE UNCHANGED vars
  BY <1>3 DEF vars, SendShape, Sending, Outer
<1>4. CASE ~Sending /\ Phone
  <2>1. ASSUME NEW change \in Changes, Records(change)
        PROVE  ~Sending'
    BY <1>4, <2>1 DEF Records, Sending
  <2>2. ASSUME NEW m \in Monitors, SendCdrx(m)
        PROVE  SendShape'
    <3>1. events + 1 \in Nat /\ batch \in Seq(CdrxEvents \cup OtaElements)
      BY DEF LinksInv, LinksType
    <3>2. Cdrx \in Messages
      BY <3>1 DEF Cdrx, Messages
    <3> QED BY <2>2, <3>2, SendBegins DEF SendCdrx
  <2>3. ASSUME NEW m \in Monitors, NEW change \in Changes, SendOta(m, change)
        PROVE  SendShape'
    <3>1. events + 1 \in Nat /\ <<change[2]>> \in Seq(CdrxEvents \cup OtaElements)
      BY <2>3 DEF LinksInv, LinksType, SendOta
    <3>2. Ota(change[2]) \in Messages
      BY <3>1 DEF Ota, Messages
    <3> QED BY <2>3, <3>2, SendBegins DEF SendOta
  <2> QED BY <1>4, <2>1, <2>2, <2>3 DEF Phone, SendShape
<1>5. CASE Quiet
  BY <1>5 DEF Quiet, SendShape
<1> QED BY <1>1, <1>2, <1>3, <1>4, <1>5, StepKinds

(* However an LteRrcAnalyzer is included, given sources and sent to: as    *)
(* long as it is sent the messages in the phone's order and none passes by *)
(* it, its state is the phone's once the phone has written all records,    *)
(* whichever message it began with, although it is shown some twice.       *)
THEOREM AnalyzersFollowPhone == Spec => []FollowsPhone
<1> DEFINE Inv == TypeInv /\ SendShape /\ FollowInv
<1>1. Init => Inv
  <2> SUFFICES ASSUME Init PROVE Inv
    OBVIOUS
  <2>1. TypeInv
    BY TypeInit
  <2>2. ~Sending
    BY DEF Init, Sending
  <2>3. SendShape
    BY <2>2 DEF SendShape
  <2>4. phone \in States /\ batch = <<>> /\ \A a \in Analyzers : rrc[a] = Unknown
    BY DEF Init
  <2>5. After(phone, batch) = phone /\ ~overtaken
    BY <2>4, AfterNone DEF Init
  <2>6. Made \subseteq Analyzers
    BY <2>1, MadeAnalyzers DEF TypeInv, LinksInv
  <2>7. FollowsIdle(phone)
    BY <2>4, <2>5, <2>6 DEF FollowsIdle, Knows
  <2>8. FollowInv
    BY <2>2, <2>4, <2>5, <2>7 DEF FollowInv, AllFollow
  <2> QED BY <2>1, <2>3, <2>8
<1>2. Inv /\ [Next]_vars => Inv'
  <2> SUFFICES ASSUME TypeInv, SendShape, FollowInv, [Next]_vars PROVE Inv'
    OBVIOUS
  <2>1. TypeInv'
    BY TypeNext
  <2>2. LinksInv
    BY DEF TypeInv
  <2>3. SendShape'
    BY <2>2, ShapeNext
  <2>4. Made' \subseteq Analyzers
    <3>1. class' \in Seq(Classes) /\ Len(class') <= MaxAnalyzers /\ MaxAnalyzers \in Nat
      BY <2>1, AnalyzersAssumption DEF TypeInv, LinksInv, LinksType, AnalyzersAssumption
    <3> QED BY <3>1 DEF Made, Analyzers
  <2>5. CASE Sending /\ recv
    BY <2>1, <2>3, <2>5, RecvFollows
  <2>6. CASE Sending /\ Return
    BY <2>1, <2>3, <2>6, ReturnFollows
  <2>7. CASE UNCHANGED vars
    <3>1. UNCHANGED <<class, calls, rrc, phone, batch, overtaken, missed>>
      BY <2>7 DEF vars, linkVars, phoneVars, hearVars
    <3>2. Made' = Made /\ Sending' = Sending /\ Outer' = Outer /\ \A a : Knows(a)' <=> Knows(a)
      BY <3>1 DEF Made, Sending, Outer, Knows
    <3>3. \A s : (FollowsIdle(s)' <=> FollowsIdle(s)) /\ (FollowsSend(s)' <=> FollowsSend(s))
      BY <3>1, <3>2 DEF FollowsIdle, FollowsSend
    <3>4. (AllFollow => AllFollow') /\ (NoneFollows => NoneFollows')
      BY <3>1, <3>2, <3>3 DEF AllFollow, NoneFollows
    <3>5. FollowInv'
      BY <3>1, <3>2, <3>4 DEF FollowInv
    <3> QED BY <2>1, <2>3, <3>5
  <2>8. CASE ~Sending /\ Phone
    BY <2>1, <2>3, <2>8, PhoneFollows
  <2>9. CASE Quiet
    BY <2>1, <2>3, <2>4, <2>9, QuietFollows
  <2> QED BY <2>2, <2>5, <2>6, <2>7, <2>8, <2>9, StepKinds
<1>3. Inv => FollowsPhone
  <2> SUFFICES ASSUME FollowInv, Idle, batch = <<>>, NEW a \in Made, Knows(a)
               PROVE  rrc[a] = phone
    BY DEF FollowsPhone, Knows, Made
  <2>1. ~Sending
    BY DEF Idle, Sending
  <2>2. PICK from \in States : FollowsIdle(from)
    BY <2>1 DEF FollowInv, NoneFollows, AllFollow
  <2>3. from = phone
    BY <2>2, AfterNone DEF FollowsIdle
  <2> QED BY <2>2, <2>3 DEF FollowsIdle
<1> QED BY <1>1, <1>2, <1>3, PTL DEF Spec

-----------------------------------------------------------------------------
(* What includes what                                                      *)

Including == calls # <<>> /\ Head(calls).fn \in {"include", "check_kpis"}
Setting   == calls # <<>> /\ Head(calls).fn = "set_source"

\* The classes of the analyzers that one of class c may include
Includable(c) == IF c = "KPIManager" THEN Kpis ELSE ToSet(Included[c])

Rank(c) ==
    CASE c \in {"WcdmaRrcAnalyzer", "LteRrcAnalyzer", "TrackCellInfoAnalyzer"} -> 0
      [] c \in {"RrcAnalyzer", "MobilityMngt", "AttachSrAnalyzer", "TauSrAnalyzer"} -> 1
      [] c = "HandoffLoopAnalyzer" -> 2
      [] OTHER -> 3

\* What a call of include_analyzer has yet to include
FrameOK(c, cls, from) ==
    c.fn = "include" =>
        /\ ToSet(c.todo) \subseteq Includable(cls[c.of]) /\ IsInjective(c.todo)
        /\ cls[c.of] = "RrcAnalyzer" /\ "LteRrcAnalyzer" \in ToSet(c.todo) =>
              \A x \in ToSet(from[c.of]) : cls[x] # "LteRrcAnalyzer"

\* No two of the calls are of one analyzer
Frames(s, cls, from) ==
    /\ \A i \in 1..Len(s) : FrameOK(s[i], cls, from)
    /\ \A i, j \in 1..Len(s) : s[i].of = s[j].of => i = j

IncludedInv ==
    /\ \A a \in Made : \A x \in ToSet(from_list[a]) : class[x] \in Includable(class[a])
    /\ \A a \in Made : \A x, y \in ToSet(from_list[a]) :
          class[a] = "RrcAnalyzer" /\ class[x] = "LteRrcAnalyzer" /\ class[y] = "LteRrcAnalyzer"
              => x = y
    /\ Including => Frames(calls, class, from_list)

(* The table of the constructors has no cycles.                            *)
LEMMA IncludableIs ==
  /\ \A c \in Classes : /\ Rank(c) \in 0..3
                        /\ \A d \in Includable(c) : Rank(d) < Rank(c) /\ d # "KPIManager"
  /\ \A c \in Classes : c # "KPIManager" => Rank(c) < 3
  /\ \A c \in Classes \ {"KPIManager"} :
        ToSet(Included[c]) = Includable(c) /\ IsInjective(Included[c])
  /\ Includable("RrcAnalyzer") = {"WcdmaRrcAnalyzer", "LteRrcAnalyzer"}
  /\ Rank("KPIManager") = 3
<1>1. Classes = {"WcdmaRrcAnalyzer", "LteRrcAnalyzer", "RrcAnalyzer", "MobilityMngt",
                 "HandoffLoopAnalyzer", "TrackCellInfoAnalyzer", "AttachSrAnalyzer",
                 "TauSrAnalyzer", "KPIManager"}
  BY DEF Classes, Included
<1>2. /\ ToSet(<<>>) = {} /\ IsInjective(<<>>)
      /\ ToSet(<<"WcdmaRrcAnalyzer", "LteRrcAnalyzer">>) = {"WcdmaRrcAnalyzer", "LteRrcAnalyzer"}
      /\ IsInjective(<<"WcdmaRrcAnalyzer", "LteRrcAnalyzer">>)
      /\ ToSet(<<"RrcAnalyzer">>) = {"RrcAnalyzer"} /\ IsInjective(<<"RrcAnalyzer">>)
      /\ ToSet(<<"TrackCellInfoAnalyzer">>) = {"TrackCellInfoAnalyzer"}
      /\ IsInjective(<<"TrackCellInfoAnalyzer">>)
  BY DEF ToSet, IsInjective
<1>3. /\ Included["WcdmaRrcAnalyzer"] = <<>> /\ Included["LteRrcAnalyzer"] = <<>>
      /\ Included["RrcAnalyzer"] = <<"WcdmaRrcAnalyzer", "LteRrcAnalyzer">>
      /\ Included["MobilityMngt"] = <<"WcdmaRrcAnalyzer", "LteRrcAnalyzer">>
      /\ Included["HandoffLoopAnalyzer"] = <<"RrcAnalyzer">>
      /\ Included["TrackCellInfoAnalyzer"] = <<>>
      /\ Included["AttachSrAnalyzer"] = <<"TrackCellInfoAnalyzer">>
      /\ Included["TauSrAnalyzer"] = <<"TrackCellInfoAnalyzer">>
  BY DEF Included
<1>4. \A c \in Classes \ {"KPIManager"} :
         ToSet(Included[c]) = Includable(c) /\ IsInjective(Included[c])
  <2>1. \A c \in Classes \ {"KPIManager"} : ToSet(Included[c]) = Includable(c)
    BY DEF Includable
  <2>2. \A c \in Classes \ {"KPIManager"} : IsInjective(Included[c])
    BY <1>1, <1>2, <1>3
  <2> QED BY <2>1, <2>2
<1>5. /\ Includable("WcdmaRrcAnalyzer") = {} /\ Includable("LteRrcAnalyzer") = {}
      /\ Includable("RrcAnalyzer") = {"WcdmaRrcAnalyzer", "LteRrcAnalyzer"}
      /\ Includable("MobilityMngt") = {"WcdmaRrcAnalyzer", "LteRrcAnalyzer"}
      /\ Includable("HandoffLoopAnalyzer") = {"RrcAnalyzer"}
      /\ Includable("TrackCellInfoAnalyzer") = {}
      /\ Includable("AttachSrAnalyzer") = {"TrackCellInfoAnalyzer"}
      /\ Includable("TauSrAnalyzer") = {"TrackCellInfoAnalyzer"}
      /\ Includable("KPIManager") \subseteq {"AttachSrAnalyzer", "TauSrAnalyzer"}
  <2>1. Includable("KPIManager") = Kpis
    BY DEF Includable
  <2> QED BY <1>2, <1>3, <2>1, KpisAre DEF Includable
<1>6. /\ Rank("WcdmaRrcAnalyzer") = 0 /\ Rank("LteRrcAnalyzer") = 0
      /\ Rank("TrackCellInfoAnalyzer") = 0 /\ Rank("RrcAnalyzer") = 1 /\ Rank("MobilityMngt") = 1
      /\ Rank("AttachSrAnalyzer") = 1 /\ Rank("TauSrAnalyzer") = 1
      /\ Rank("HandoffLoopAnalyzer") = 2 /\ Rank("KPIManager") = 3
  BY DEF Rank
<1>7. \A c \in Classes : Rank(c) \in 0..3 /\ (c # "KPIManager" => Rank(c) < 3)
  BY <1>1, <1>6
<1>8. ASSUME NEW c \in Classes, NEW d \in Includable(c)
      PROVE  Rank(d) < Rank(c) /\ d # "KPIManager"
  BY <1>1, <1>5, <1>6, <1>8
<1> QED BY <1>4, <1>5, <1>6, <1>7, <1>8

(* A call on top of others.                                                *)
LEMMA OnTop ==
  ASSUME NEW T, NEW c \in T, NEW s \in Seq(T)
  PROVE  LET t == <<c>> \o s IN
         /\ t \in Seq(T) /\ t # <<>> /\ Head(t) = c /\ Len(t) = Len(s) + 1 /\ t[1] = c
         /\ \A i \in 1..Len(s) : t[i + 1] = s[i]
<1> DEFINE t == <<c>> \o s
           n == Len(s)
<1>1. n \in Nat /\ Len(<<c>>) = 1 /\ <<c>> \in Seq(T) /\ <<c>>[1] = c
  OBVIOUS
<1>2. /\ t \in Seq(T) /\ Len(t) = 1 + n
      /\ \A i \in 1..(1 + n) : t[i] = IF i <= 1 THEN <<c>>[i] ELSE s[i - 1]
  BY ONLY c \in T, s \in Seq(T), ConcatProperties
<1> HIDE DEF t, n
<1>3. t[1] = c
  BY <1>1, <1>2
<1>4. ASSUME NEW i \in 1..n
      PROVE  t[i + 1] = s[i]
  <2>1. i + 1 \in 1..(1 + n) /\ ~(i + 1 <= 1) /\ (i + 1) - 1 = i
    BY <1>1
  <2> QED BY <1>2, <2>1
<1>5. t # <<>> /\ Head(t) = t[1]
  <2>1. Len(t) # 0
    BY <1>1, <1>2
  <2> QED BY <1>2, <2>1, HeadTailProperties
<1> QED BY <1>1, <1>2, <1>3, <1>4, <1>5 DEF t, n

(* A call returns.                                                         *)
LEMMA FramesRest ==
  ASSUME NEW T, NEW s \in Seq(T), s # <<>>, NEW cls, NEW from, Frames(s, cls, from)
  PROVE  Frames(Tail(s), cls, from)
<1> DEFINE n == Len(s)
           r == Tail(s)
<1>1. /\ n \in Nat \ {0} /\ Len(r) = n - 1
      /\ \A i \in 1..(n - 1) : r[i] = s[i + 1]
  BY HeadTailProperties
<1>2. /\ \A i \in 1..n : FrameOK(s[i], cls, from)
      /\ \A i, j \in 1..n : s[i].of = s[j].of => i = j
  BY DEF Frames
<1> HIDE DEF n, r
<1>3. ASSUME NEW i \in 1..(n - 1)
      PROVE  FrameOK(r[i], cls, from)
  <2>1. i + 1 \in 1..n
    BY <1>1
  <2> QED BY <1>1, <1>2, <2>1
<1>4. ASSUME NEW i \in 1..(n - 1), NEW j \in 1..(n - 1), r[i].of = r[j].of
      PROVE  i = j
  <2>1. i + 1 \in 1..n /\ j + 1 \in 1..n
    BY <1>1
  <2>2. i + 1 = j + 1
    BY <1>1, <1>2, <1>4, <2>1
  <2> QED BY <2>2
<1>5. Frames(r, cls, from)
  BY <1>1, <1>3, <1>4 DEF Frames
<1> QED BY <1>5 DEF r

(* The calls of constructors and include_analyzer, one of which has come   *)
(* to the next of its list and included it, or made it.                    *)
LEMMA FramesDescend ==
  ASSUME LinksInv, Including, Head(calls).todo # <<>>, Frames(calls, class, from_list),
         NEW from,
         \/ from = from_list
         \/ /\ Head(calls).fn = "include"
            /\ \A a \in Analyzers \ {Head(calls).of} : from[a] = from_list[a]
            /\ \A x \in ToSet(from[Head(calls).of]) :
                  x \in ToSet(from_list[Head(calls).of]) \/ class[x] = Head(Head(calls).todo)
  PROVE  Frames(Descend(<<>>), class, from) /\ Descend(<<>>) \in Seq(IncludeCalls)
<1> DEFINE n == Len(calls)
           c == Head(calls)
           rest == [c EXCEPT !.todo = Tail(@)]
           d == Descend(<<>>)
<1>1. /\ calls \in Seq(IncludeCalls) /\ calls # <<>> /\ c \in IncludeCalls
      /\ n \in Nat \ {0} /\ c = calls[1] /\ \A i \in 1..n : calls[i] \in IncludeCalls
  <2>1. calls \in Seq(IncludeCalls) /\ calls # <<>> /\ c \in IncludeCalls
    BY RunningInclude DEF Including
  <2>2. n \in Nat \ {0} /\ c = calls[1]
    BY <2>1, HeadTailProperties
  <2>3. \A i \in 1..n : calls[i] \in IncludeCalls
    BY <2>1, ElementOfSeq
  <2> QED BY <2>1, <2>2, <2>3
<1>2. c.todo \in Seq(Classes) /\ c.of \in Made /\ Made \subseteq Analyzers
  BY <1>1, MadeAnalyzers DEF IncludeCalls, LinksInv
<1>3. Tail(c.todo) \in Seq(Classes)
  BY <1>2, HeadTailProperties
<1>4. /\ rest \in IncludeCalls /\ rest.of = c.of /\ rest.fn = c.fn /\ rest.todo = Tail(c.todo)
  BY <1>1, <1>3 DEF IncludeCalls
<1>5. /\ d \in Seq(IncludeCalls) /\ Len(d) = n /\ d[1] = rest
      /\ \A i \in 2..n : d[i] = calls[i]
  <2>1. rest = [Head(calls) EXCEPT !.todo = Tail(@)]
    OBVIOUS
  <2> HIDE DEF rest
  <2> QED BY <1>1, <1>4, <2>1, DescendIs
<1>6. /\ \A i \in 1..n : FrameOK(calls[i], class, from_list)
      /\ \A i, j \in 1..n : calls[i].of = calls[j].of => i = j
  BY DEF Frames
<1>7. FrameOK(rest, class, from)
  <2> SUFFICES ASSUME c.fn = "include" PROVE FrameOK(rest, class, from)
    BY <1>4 DEF FrameOK
  <2>1. FrameOK(c, class, from_list)
    BY <1>1, <1>6
  <2>2. ToSet(c.todo) \subseteq Includable(class[c.of]) /\ IsInjective(c.todo)
    BY <2>1 DEF FrameOK
  <2>3. c.todo \in Lists(Classes)
    BY <1>2, <2>2 DEF Lists
  <2>4. /\ IsInjective(rest.todo) /\ ToSet(rest.todo) = ToSet(c.todo) \ {Head(c.todo)}
    BY <1>4, <2>3, RestOfList DEF Lists
  <2>5. ASSUME class[c.of] = "RrcAnalyzer", "LteRrcAnalyzer" \in ToSet(rest.todo),
               NEW x \in ToSet(from[c.of])
        PROVE  class[x] # "LteRrcAnalyzer"
    <3>1. "LteRrcAnalyzer" \in ToSet(c.todo) /\ Head(c.todo) # "LteRrcAnalyzer"
      BY <2>4, <2>5
    <3>2. \A y \in ToSet(from_list[c.of]) : class[y] # "LteRrcAnalyzer"
      BY <2>1, <2>5, <3>1 DEF FrameOK
    <3>3. x \in ToSet(from_list[c.of]) \/ class[x] = Head(c.todo)
      BY <2>5
    <3> QED BY <3>1, <3>2, <3>3
  <2> HIDE DEF c, rest
  <2> QED BY <1>4, <2>2, <2>4, <2>5 DEF FrameOK
<1>8. ASSUME NEW i \in 2..n
      PROVE  FrameOK(d[i], class, from)
  <2>1. i \in 1..n /\ 1 \in 1..n /\ i # 1
    BY <1>1
  <2>2. calls[i].of # c.of
    BY <1>1, <1>6, <2>1
  <2>3. calls[i].of \in Analyzers
    <3>1. calls[i] \in IncludeCalls
      BY <1>1, <2>1
    <3> QED BY <1>2, <3>1 DEF IncludeCalls
  <2>4. from[calls[i].of] = from_list[calls[i].of]
    BY <2>2, <2>3
  <2>5. FrameOK(calls[i], class, from_list)
    BY <1>6, <2>1
  <2>6. FrameOK(calls[i], class, from)
    BY <2>4, <2>5 DEF FrameOK
  <2> QED BY <1>5, <2>6
<1>9. \A i \in 1..n : d[i].of = calls[i].of
  <2>1. \A i \in 1..n : i = 1 \/ i \in 2..n
    BY <1>1
  <2> QED BY <1>1, <1>4, <1>5, <2>1
<1> HIDE DEF n, c, rest, d
<1>10. \A i \in 1..n : FrameOK(d[i], class, from)
  <2>1. \A i \in 1..n : i = 1 \/ i \in 2..n
    BY <1>1
  <2> QED BY <1>5, <1>7, <1>8, <2>1
<1>11. Frames(d, class, from)
  BY <1>5, <1>6, <1>9, <1>10 DEF Frames
<1> QED BY <1>5, <1>11 DEF d

(* A call for an analyzer that was just made.                              *)
LEMMA FramesConstruct ==
  ASSUME LinksInv, NEW c \in Classes, NEW caller \in Seq(IncludeCalls),
         Frames(caller, class, from_list), Construct(c, caller)
  PROVE  Frames(calls', class', from_list')
<1> DEFINE a == Len(class) + 1
           n == Len(caller)
           call == Constructor(c, a)
<1>1. /\ a \in Analyzers /\ a \notin Made /\ class'[a] = c /\ \A b \in Made : class'[b] = class[b]
      /\ ToSet(from_list[a]) = {} /\ calls' = <<call>> \o caller
      /\ from_list' = from_list
  BY ConstructIs
<1>2. call.of = a /\ FrameOK(call, class', from_list')
  <2>1. CASE c = "KPIManager"
    BY <2>1 DEF Constructor, Call, FrameOK
  <2>2. CASE c # "KPIManager"
    <3>1. call.fn = "include" /\ call.of = a /\ call.todo = Included[c]
      BY <2>2 DEF Constructor, Call
    <3>2. ToSet(Included[c]) = Includable(c) /\ IsInjective(Included[c])
      BY <2>2, IncludableIs
    <3> HIDE DEF call, a
    <3> QED BY <1>1, <3>1, <3>2 DEF FrameOK
  <2> QED BY <2>1, <2>2
<1>3. /\ \A i \in 1..n : FrameOK(caller[i], class, from_list)
      /\ \A i, j \in 1..n : caller[i].of = caller[j].of => i = j
  BY DEF Frames
<1>4. \A i \in 1..n : caller[i] \in IncludeCalls
  BY ElementOfSeq
<1>5. ASSUME NEW i \in 1..n
      PROVE  caller[i].of # a /\ FrameOK(caller[i], class', from_list')
  <2>1. caller[i].of \in Made
    BY <1>4 DEF IncludeCalls
  <2>2. \A x \in ToSet(from_list[caller[i].of]) : class'[x] = class[x]
    <3>1. from_list[caller[i].of] \in Seq(Made)
      <4>1. caller[i].of \in Analyzers
        BY <2>1, MadeAnalyzers DEF LinksInv
      <4> QED BY <4>1 DEF LinksInv, LinksType, Lists
    <3>2. \A x \in ToSet(from_list[caller[i].of]) : x \in Made
      BY <3>1, InToSet
    <3> QED BY <1>1, <3>2
  <2>3. FrameOK(caller[i], class, from_list)
    BY <1>3
  <2> QED BY <1>1, <2>1, <2>2, <2>3 DEF FrameOK
<1>6. call \in [fn : {"include", "check_kpis"}, of : {a}, arg : {Nobody}, todo : Seq(Classes)]
  <2>1. KpiAnalyzers \in Seq(Classes)
    BY DEF KpiAnalyzers, Classes, Included
  <2> HIDE DEF a
  <2> QED BY <2>1, IncludedType DEF Constructor, Call
<1> DEFINE T == IncludeCalls \cup {call}
<1>7. caller \in Seq(T) /\ call \in T /\ n \in Nat
  OBVIOUS
<1> HIDE DEF T, call, a
<1>8. /\ Len(calls') = n + 1 /\ calls'[1] = call
      /\ \A i \in 1..n : calls'[i + 1] = caller[i]
  BY <1>1, <1>7, OnTop
<1> HIDE DEF n
<1>9. \A i \in 1..(n + 1) : i = 1 \/ (i - 1 \in 1..n /\ (i - 1) + 1 = i)
  BY <1>7
<1>10. \A i \in 1..(n + 1) : FrameOK(calls'[i], class', from_list')
  BY <1>2, <1>5, <1>8, <1>9
<1>11. ASSUME NEW i \in 1..(n + 1), NEW j \in 1..(n + 1), calls'[i].of = calls'[j].of
       PROVE  i = j
  <2>1. CASE i = 1 /\ j = 1
    BY <2>1
  <2>2. CASE i = 1 /\ j # 1
    BY <1>2, <1>5, <1>8, <1>9, <1>11, <2>2
  <2>3. CASE i # 1 /\ j = 1
    BY <1>2, <1>5, <1>8, <1>9, <1>11, <2>3
  <2>4. CASE i # 1 /\ j # 1
    <3>1. /\ i - 1 \in 1..n /\ j - 1 \in 1..n
          /\ calls'[i] = caller[i - 1] /\ calls'[j] = caller[j - 1]
      BY <1>8, <1>9, <2>4
    <3>2. i - 1 = j - 1
      BY <1>3, <1>11, <3>1
    <3> QED BY <1>7, <3>2
  <2> QED BY <2>1, <2>2, <2>3, <2>4
<1> QED BY <1>8, <1>10, <1>11 DEF Frames

-----------------------------------------------------------------------------
(* The steps, by what they do to links                                     *)

\* An analyzer is made, by the user or one that includes it
Constructed(c, caller) ==
    /\ Construct(c, caller)
    /\ \/ caller = <<>>
       \/ Including /\ caller = calls
       \/ Including /\ Head(calls).todo # <<>> /\ caller = Descend(<<>>)

Linked ==
    /\ Including /\ Head(calls).fn = "include" /\ Head(calls).todo # <<>>
    /\ LET other == analyzer_array[Head(Head(calls).todo)]
       IN  other # Nobody /\ Link(Head(calls).of, other)
    /\ calls' = Descend(<<>>)
    /\ UNCHANGED <<class, analyzer_array, source, latest>>

SameLinked ==
    /\ UNCHANGED <<class, from_list, to_list, source, latest>>
    /\ calls' = calls \/ (~Including' /\ ~Setting')

\* Constructors and include_analyzer, of any analyzers
AnyIncludes ==
    [fn : {"include", "check_kpis"}, of : Analyzers, arg : {Nobody}, todo : Seq(Classes)]

(* They do not set sources.                                                *)
LEMMA IncludesAreNotSetting ==
  ASSUME calls' \in Seq(AnyIncludes)
  PROVE  ~Setting'
<1>1. calls' # <<>> => Head(calls') \in AnyIncludes
  BY HeadTailProperties
<1> QED BY <1>1 DEF Setting, AnyIncludes

(* What runs is one of them.                                               *)
LEMMA IncludesRun ==
  ASSUME LinksInv
  PROVE  Seq(IncludeCalls) \subseteq Seq(AnyIncludes)
<1>1. Made \subseteq Analyzers
  BY MadeAnalyzers DEF LinksInv
<1>2. IncludeCalls \subseteq AnyIncludes
  BY <1>1 DEF IncludeCalls, AnyIncludes
<1> QED BY <1>2

(* Each step makes, links, gives a source or leaves links alone.           *)
LEMMA LinkSteps ==
  ASSUME LinksInv, [Next]_vars
  PROVE  \/ ~Setting' /\ \E c \in Classes, caller \in Seq(IncludeCalls) : Constructed(c, caller)
         \/ ~Setting' /\ Linked
         \/ ~Setting' /\ \E a \in Made, c \in Kpis : EnableKpi(a, c)
         \/ ~Setting' /\ Including /\ Return
         \/ ~Including' /\ \E a \in Made, m \in Monitors : SetSource(a, m)
         \/ ~Including' /\ Setting /\ set_source
         \/ ~Including' /\ Setting /\ SourceSet
         \/ SameLinked
<1>0. Made \subseteq Analyzers /\ Seq(IncludeCalls) \subseteq Seq(AnyIncludes)
  BY MadeAnalyzers, IncludesRun DEF LinksInv
<1>1. ASSUME NEW c \in Classes, NEW caller \in Seq(IncludeCalls), Constructed(c, caller)
      PROVE  ~Setting'
  <2> DEFINE a == Len(class) + 1
  <2>1. a \in Analyzers /\ calls' = <<Constructor(c, a)>> \o caller
    BY <1>1, ConstructIs DEF Constructed
  <2>2. Constructor(c, a) \in AnyIncludes
    <3>1. KpiAnalyzers \in Seq(Classes)
      BY DEF KpiAnalyzers, Classes, Included
    <3> HIDE DEF a
    <3> QED BY <2>1, <3>1, IncludedType DEF Constructor, Call, AnyIncludes
  <2>3. caller \in Seq(AnyIncludes)
    BY <1>0
  <2> HIDE DEF a
  <2>4. calls' \in Seq(AnyIncludes)
    BY <2>1, <2>2, <2>3, OnTop
  <2> QED BY <2>4, IncludesAreNotSetting
<1>2. ASSUME Including, Head(calls).todo # <<>>
      PROVE  /\ calls \in Seq(IncludeCalls) /\ Head(Head(calls).todo) \in Classes
             /\ Descend(<<>>) \in Seq(IncludeCalls)
  <2>1. calls \in Seq(IncludeCalls) /\ Head(Head(calls).todo) \in Classes /\ calls # <<>>
    BY <1>2, RunningInclude DEF Including
  <2>2. <<>> \in Seq(IncludeCalls)
    OBVIOUS
  <2>3. Descend(<<>>) \in Seq(IncludeCalls)
    BY <1>2, <2>1, <2>2, DescendCalls DEF IncludeCalls
  <2> QED BY <2>1, <2>3
<1>3. CASE User
  <2>1. ASSUME NEW c \in Tops, Make(c)
        PROVE  /\ ~Setting'
               /\ \E b \in Classes, caller \in Seq(IncludeCalls) : Constructed(b, caller)
    <3>1. c \in Classes /\ Constructed(c, <<>>) /\ <<>> \in Seq(IncludeCalls)
      BY <2>1, AnalyzersAssumption DEF Make, AnalyzersAssumption, Constructed
    <3> QED BY <1>1, <3>1
  <2>2. ASSUME NEW a \in Made, NEW m \in Monitors, SetSource(a, m)
        PROVE  ~Including'
    <3>1. calls' # <<>> /\ Head(calls') = Call("set_source", a, m, from_list[a])
      BY <2>2 DEF SetSource
    <3> QED BY <3>1 DEF Including, Call
  <2>3. ASSUME NEW a \in Made, NEW c \in Kpis, EnableKpi(a, c)
        PROVE  ~Setting'
    <3>1. calls' # <<>> /\ Head(calls') = Call("include", a, Nobody, <<c>>)
      BY <2>3 DEF EnableKpi
    <3> QED BY <3>1 DEF Setting, Call
  <2>4. ASSUME Reset
        PROVE  SameLinked
    BY <2>4 DEF Reset, SameLinked
  <2> QED BY <1>3, <2>1, <2>2, <2>3, <2>4, Zenon DEF User, Made
<1>4. CASE Phone
  <2>1. ASSUME NEW m, NEW message, NEW inOrder, Send(m, message, inOrder)
        PROVE  SameLinked
    <3>1. calls' # <<>> /\ Head(calls') = Call("send", m, message, to_list[m])
      BY <2>1 DEF Send
    <3>2. ~Including' /\ ~Setting'
      BY <3>1 DEF Including, Setting, Call
    <3> QED BY <2>1, <3>2 DEF Send, SameLinked, linkVars
  <2>2. ASSUME NEW change \in Changes, Records(change)
        PROVE  SameLinked
    BY <2>2 DEF Records, SameLinked, linkVars
  <2> QED BY <1>4, <2>1, <2>2, Zenon DEF Phone, SendCdrx, SendOta
<1>5. CASE check_kpis
  <2>1. /\ Including /\ Head(calls).todo # <<>>
        /\ Construct(Head(Head(calls).todo), Descend(<<>>))
    BY <1>5 DEF check_kpis, Running, Idle, Including
  <2>2. Constructed(Head(Head(calls).todo), Descend(<<>>))
    BY <2>1, Zenon DEF Constructed
  <2> QED BY <1>1, <1>2, <2>1, <2>2, Zenon
<1>6. CASE include_analyzer
  <2> DEFINE name == Head(Head(calls).todo)
  <2>1. Including /\ Head(calls).fn = "include" /\ Head(calls).todo # <<>>
    BY <1>6 DEF include_analyzer, Running, Idle, Including
  <2>2. CASE analyzer_array[name] = Nobody
    <3>1. Construct(name, calls)
      BY <1>6, <2>2 DEF include_analyzer
    <3>2. Constructed(name, calls)
      BY <2>1, <3>1, Zenon DEF Constructed
    <3> QED BY <1>1, <1>2, <2>1, <3>2, Zenon
  <2>3. CASE analyzer_array[name] # Nobody
    <3>1. Linked
      BY <1>6, <2>1, <2>3 DEF include_analyzer, Linked
    <3>2. calls' \in Seq(AnyIncludes)
      BY <1>0, <1>2, <2>1, <3>1 DEF Linked
    <3> QED BY <3>1, <3>2, IncludesAreNotSetting
  <2> QED BY <2>2, <2>3
<1>7. CASE set_source
  <2> DEFINE other == Head(Head(calls).todo)
             called == Call("set_source", other, Head(calls).arg, from_list[other])
             rest == [Head(calls) EXCEPT !.todo = Tail(@)]
  <2>1. /\ Setting /\ Head(calls).todo # <<>> /\ calls # <<>> /\ calls' = Descend(<<called>>)
    BY <1>7 DEF set_source, Running, Idle, Setting
  <2>2. calls' = <<called>> \o <<rest>> \o Tail(calls)
    BY <2>1 DEF Descend
  <2>3. called.fn = "set_source"
    BY DEF Call
  <2> DEFINE T == {called, rest} \cup {calls[i] : i \in 1..Len(calls)}
  <2>4. calls \in Seq(T)
    BY DEF LinksInv, OneKindOfCalls
  <2>5. Tail(calls) \in Seq(T) /\ rest \in T /\ called \in T
    BY <2>1, <2>4, HeadTailProperties
  <2> HIDE DEF T, called, rest
  <2>6. <<called>> \o <<rest>> \in Seq(T) /\ Head(calls') = called /\ calls' # <<>>
    BY <2>2, <2>5
  <2>7. ~Including'
    BY <2>3, <2>6 DEF Including
  <2> QED BY <1>7, <2>1, <2>7
<1>8. CASE SourceSet
  <2>1. Setting /\ calls' = Tail(calls) /\ calls # <<>> /\ Head(calls).fn = "set_source"
    BY <1>8 DEF SourceSet, Running, Idle, Setting
  <2>2. calls \in Seq(SetCalls)
    BY <2>1, RunningCalls DEF LinksInv
  <2>3. calls' \in Seq(SetCalls)
    BY <2>1, <2>2, HeadTailProperties
  <2>4. calls' # <<>> => Head(calls') \in SetCalls
    BY <2>3, HeadTailProperties
  <2>5. ~Including'
    BY <2>4 DEF Including, SetCalls
  <2> QED BY <1>8, <2>1, <2>5
<1>9. CASE recv
  <2>1. Sending'
    BY <1>9, RecvCalls
  <2>2. ~Including' /\ ~Setting'
    BY <2>1 DEF Sending, Including, Setting
  <2> QED BY <1>9, <2>2 DEF recv, SameLinked, linkVars
<1>10. CASE Return
  <2>1. /\ calls # <<>> /\ calls' = Tail(calls) /\ UNCHANGED linkVars
        /\ Including \/ Sending
    BY <1>10 DEF Return, Running, Idle, Including, Sending
  <2>2. CASE Including
    <3>1. calls \in Seq(IncludeCalls)
      BY <2>1, <2>2, RunningCalls DEF LinksInv, Including
    <3>2. calls' \in Seq(IncludeCalls)
      BY <2>1, <3>1, HeadTailProperties
    <3> QED BY <1>0, <1>10, <2>2, <3>2, IncludesAreNotSetting
  <2>3. CASE Sending
    <3>1. calls \in Seq(SendCalls)
      BY <2>3, SendingCalls
    <3>2. calls' \in Seq(SendCalls)
      BY <2>1, <3>1, HeadTailProperties
    <3>3. calls' # <<>> => Head(calls') \in SendCalls
      BY <3>2, HeadTailProperties
    <3>4. ~Including' /\ ~Setting'
      BY <3>3 DEF Including, Setting, SendCalls
    <3> QED BY <2>1, <3>4 DEF SameLinked, linkVars
  <2> QED BY <2>1, <2>2, <2>3
<1>11. CASE UNCHANGED vars
  BY <1>11 DEF vars, linkVars, SameLinked
<1> QED BY <1>3, <1>4, <1>5, <1>6, <1>7, <1>8, <1>9, <1>10, <1>11, Zenon DEF Next

(* Only what a constructor or the user names is included, once.            *)
LEMMA IncludedNext ==
  ASSUME LinksInv, NamesAgree, IncludedInv, [Next]_vars
  PROVE  IncludedInv'
<1>0. Made \subseteq Analyzers
  BY MadeAnalyzers DEF LinksInv
<1>1. \A a \in Made : ToSet(from_list[a]) \subseteq Made
  <2>1. ASSUME NEW a \in Made
        PROVE  ToSet(from_list[a]) \subseteq Made
    <3>1. from_list[a] \in Seq(Made)
      BY <1>0 DEF LinksInv, LinksType, Lists
    <3> QED BY <3>1, InToSet
  <2> QED BY <2>1
<1>2. ASSUME UNCHANGED <<class, from_list>>, Including' => Frames(calls', class', from_list')
      PROVE  IncludedInv'
  BY <1>2 DEF IncludedInv, Made
<1>3. ASSUME NEW c \in Classes, NEW caller \in Seq(IncludeCalls), Constructed(c, caller)
      PROVE  IncludedInv'
  <2>1. Frames(caller, class, from_list)
    <3>1. CASE caller = <<>>
      BY <3>1 DEF Frames
    <3>2. CASE Including /\ caller = calls
      BY <3>2 DEF IncludedInv
    <3>3. CASE Including /\ Head(calls).todo # <<>> /\ caller = Descend(<<>>)
      BY <3>3, FramesDescend DEF IncludedInv
    <3> QED BY <1>3, <3>1, <3>2, <3>3 DEF Constructed
  <2>2. Frames(calls', class', from_list')
    BY <1>3, <2>1, FramesConstruct DEF Constructed
  <2> DEFINE new == Len(class) + 1
  <2>3. /\ Made' = Made \cup {new} /\ \A b \in Made : class'[b] = class[b]
        /\ ToSet(from_list[new]) = {} /\ from_list' = from_list
    BY <1>3, ConstructIs DEF Constructed
  <2> HIDE DEF new
  <2>4. ASSUME NEW a \in Made', NEW x \in ToSet(from_list'[a])
        PROVE  a \in Made /\ x \in Made /\ x \in ToSet(from_list[a])
    BY <1>1, <2>3, <2>4
  <2>5. \A a \in Made' : \A x \in ToSet(from_list'[a]) : class'[x] \in Includable(class'[a])
    BY <2>3, <2>4 DEF IncludedInv
  <2>6. \A a \in Made' : \A x, y \in ToSet(from_list'[a]) :
           class'[a] = "RrcAnalyzer" /\ class'[x] = "LteRrcAnalyzer"
           /\ class'[y] = "LteRrcAnalyzer" => x = y
    BY <2>3, <2>4 DEF IncludedInv
  <2> QED BY <2>2, <2>5, <2>6 DEF IncludedInv
<1>4. CASE Linked
  <2> DEFINE name == Head(Head(calls).todo)
             other == analyzer_array[name]
             e == Head(calls).of
  <2>1. /\ Including /\ Head(calls).fn = "include" /\ Head(calls).todo # <<>>
        /\ other # Nobody /\ calls' = Descend(<<>>) /\ UNCHANGED class
        /\ from_list' = [from_list EXCEPT ![e] = AppendNew(@, other)]
    BY <1>4 DEF Linked, Link
  <2>2. /\ calls \in Seq(IncludeCalls) /\ Head(calls) \in IncludeCalls
        /\ e \in Made /\ name \in Classes
    BY <2>1, RunningInclude DEF Including
  <2>3. other \in Made /\ class[other] = name
    BY <2>1, <2>2 DEF LinksInv, LinksType, NamesAgree
  <2>4. Frames(calls, class, from_list)
    BY <2>1 DEF IncludedInv
  <2>5. FrameOK(Head(calls), class, from_list)
    <3>1. Head(calls) = calls[1] /\ 1 \in 1..Len(calls)
      BY <2>1, <2>2, HeadTailProperties DEF Including
    <3> QED BY <2>4, <3>1 DEF Frames
  <2>6. name \in ToSet(Head(calls).todo)
    <3>1. Head(calls).todo \in Seq(Classes)
      BY <2>2 DEF IncludeCalls
    <3>2. name = Head(calls).todo[1] /\ 1 \in 1..Len(Head(calls).todo)
      BY <2>1, <3>1, HeadTailProperties
    <3> QED BY <3>1, <3>2, InToSet
  <2>7. /\ name \in Includable(class[e])
        /\ class[e] = "RrcAnalyzer" /\ name = "LteRrcAnalyzer" =>
              \A x \in ToSet(from_list[e]) : class[x] # "LteRrcAnalyzer"
    BY <2>1, <2>5, <2>6 DEF FrameOK
  <2> HIDE DEF name, other, e
  <2>8. /\ \A a \in Analyzers \ {e} : from_list'[a] = from_list[a]
        /\ ToSet(from_list'[e]) = ToSet(from_list[e]) \cup {other}
    <3>1. e \in Analyzers /\ from_list \in [Analyzers -> Lists(Made)]
      BY <1>0, <2>2 DEF LinksInv, LinksType
    <3>2. ToSet(AppendNew(from_list[e], other)) = ToSet(from_list[e]) \cup {other}
      BY <2>3, <3>1, AppendNewList
    <3> QED BY <2>1, <3>1, <3>2
  <2>9. Frames(calls', class', from_list')
    <3>1. \A x \in ToSet(from_list'[e]) : x \in ToSet(from_list[e]) \/ class[x] = name
      BY <2>3, <2>8
    <3> DEFINE from == from_list'
    <3>2. /\ \A a \in Analyzers \ {e} : from[a] = from_list[a]
          /\ \A x \in ToSet(from[e]) : x \in ToSet(from_list[e]) \/ class[x] = name
      BY <2>8, <3>1
    <3> HIDE DEF from
    <3>3. Frames(Descend(<<>>), class, from)
      BY <2>1, <2>4, <3>2, FramesDescend DEF e, name
    <3> QED BY <2>1, <3>3 DEF from
  <2>10. ASSUME NEW a \in Made, NEW x \in ToSet(from_list'[a])
         PROVE  x \in ToSet(from_list[a]) \/ (a = e /\ x = other)
    BY <1>0, <2>8, <2>10
  <2>11. \A a \in Made : \A x \in ToSet(from_list'[a]) : class[x] \in Includable(class[a])
    BY <2>3, <2>7, <2>10 DEF IncludedInv
  <2>12. ASSUME NEW a \in Made, NEW x \in ToSet(from_list'[a]), NEW y \in ToSet(from_list'[a]),
                class[a] = "RrcAnalyzer", class[x] = "LteRrcAnalyzer", class[y] = "LteRrcAnalyzer"
         PROVE  x = y
    <3>1. CASE x \in ToSet(from_list[a]) /\ y \in ToSet(from_list[a])
      BY <2>12, <3>1 DEF IncludedInv
    <3>2. CASE x \in ToSet(from_list[a]) /\ a = e /\ y = other
      BY <2>3, <2>7, <2>12, <3>2
    <3>3. CASE y \in ToSet(from_list[a]) /\ a = e /\ x = other
      BY <2>3, <2>7, <2>12, <3>3
    <3>4. CASE a = e /\ x = other /\ y = other
      BY <3>4
    <3> QED BY <2>10, <3>1, <3>2, <3>3, <3>4
  <2>13. Made' = Made /\ class' = class
    BY <2>1 DEF Made
  <2> QED BY <2>9, <2>11, <2>12, <2>13 DEF IncludedInv
<1>5. ASSUME NEW a \in Made, NEW c \in Kpis, EnableKpi(a, c)
      PROVE  IncludedInv'
  <2> DEFINE call == Call("include", a, Nobody, <<c>>)
  <2>1. calls' = <<call>> /\ UNCHANGED <<class, from_list>> /\ class[a] = "KPIManager"
    BY <1>5 DEF EnableKpi
  <2>2. FrameOK(call, class, from_list)
    <3>1. call.of = a /\ call.todo = <<c>>
      BY DEF Call
    <3>2. ToSet(<<c>>) = {c} /\ IsInjective(<<c>>)
      BY DEF ToSet, IsInjective
    <3>3. Includable("KPIManager") = Kpis
      BY DEF Includable
    <3> HIDE DEF call
    <3> QED BY <2>1, <3>1, <3>2, <3>3 DEF FrameOK
  <2> HIDE DEF call
  <2>3. Frames(calls', class', from_list')
    BY <2>1, <2>2 DEF Frames
  <2> QED BY <1>2, <2>1, <2>3
<1>6. CASE Including /\ Return
  <2>1. calls \in Seq(IncludeCalls) /\ calls # <<>> /\ calls' = Tail(calls)
    BY <1>6, RunningCalls DEF Including, Return, LinksInv
  <2>2. UNCHANGED <<class, from_list>>
    BY <1>6 DEF Return, linkVars
  <2>3. Frames(calls, class, from_list)
    BY <1>6 DEF IncludedInv
  <2>4. Frames(Tail(calls), class, from_list)
    BY <2>1, <2>3, FramesRest
  <2> QED BY <1>2, <2>1, <2>2, <2>4
<1>7. CASE ~Including' /\ (\/ \E a \in Made, m \in Monitors : SetSource(a, m)
                           \/ set_source
                           \/ SourceSet)
  BY <1>2, <1>7 DEF SetSource, set_source, SourceSet, linkVars
<1>8. CASE SameLinked
  <2>1. CASE calls' = calls
    BY <1>2, <1>8, <2>1 DEF SameLinked, Including, IncludedInv
  <2>2. CASE ~Including'
    BY <1>2, <1>8, <2>2 DEF SameLinked
  <2> QED BY <1>8, <2>1, <2>2 DEF SameLinked
<1> QED BY <1>3, <1>4, <1>5, <1>6, <1>7, <1>8, LinkSteps

-----------------------------------------------------------------------------
(* The inductive invariant of what is heard.  Of the message that is being *)
(* sent: an analyzer that sends it on has got it from where it sends on    *)
(* from, so that it does once; and those that are yet to be sent to have   *)
(* not got it from there.                                                  *)

HeardType == heard \in [Analyzers -> Seq(Elements \X (0..events))]

InOrder(list) ==
    \A j, k \in 1..Len(list) :
        j < k /\ list[j][1] = list[k][1] => list[j][2] < list[k][2]

\* It has got from where it sends on from the message that is being sent
HasIt(f, cls, from, got, top, n) ==
    /\ f \in 1..Len(cls)
    /\ \/ cls[f] = "LteRrcAnalyzer" /\ <<top, n>> \in ToSet(got[f])
       \/ /\ cls[f] = "RrcAnalyzer"
          /\ \E x \in ToSet(from[f]) :
                cls[x] = "LteRrcAnalyzer" /\ <<x, n>> \in ToSet(got[f])

SendInv ==
    Sending =>
        /\ Outer.arg.n = events
        /\ \A i \in 1..Len(calls) : \A a \in ToSet(calls[i].todo) :
              <<calls[i].of, events>> \notin ToSet(heard[a])
        /\ \A i \in 1..(Len(calls) - 1) :
              HasIt(calls[i].of, class, from_list, heard, Outer.of, events)
        /\ \A i, j \in 1..Len(calls) : calls[i].of = calls[j].of => i = j
        /\ \A a \in Made : \A h \in ToSet(heard[a]) :
              h[2] = events =>
                  h[1] = Outer.of \/ HasIt(h[1], class, from_list, heard, Outer.of, events)

HeardInv == HeardType /\ (\A a \in Analyzers : InOrder(heard[a])) /\ SendInv

(* One more element.                                                       *)
LEMMA AppendToSet ==
  ASSUME NEW S, NEW list \in Seq(S), NEW e \in S
  PROVE  /\ Append(list, e) \in Seq(S) /\ Len(Append(list, e)) = Len(list) + 1
         /\ Append(list, e)[Len(list) + 1] = e
         /\ \A k \in 1..Len(list) : Append(list, e)[k] = list[k]
         /\ ToSet(Append(list, e)) = ToSet(list) \cup {e}
<1> DEFINE longer == Append(list, e)
           n == Len(list)
<1>1. /\ longer \in Seq(S) /\ n \in Nat /\ Len(longer) = n + 1
      /\ \A k \in 1..n : longer[k] = list[k]
      /\ longer[n + 1] = e
  OBVIOUS
<1> HIDE DEF longer, n
<1>2. ASSUME NEW v, v \in ToSet(longer)
      PROVE  v \in ToSet(list) \/ v = e
  <2>1. PICK k \in 1..(n + 1) : longer[k] = v
    BY <1>1, <1>2, InToSet
  <2>2. k \in 1..n \/ k = n + 1
    BY <1>1, <2>1
  <2> QED BY <1>1, <2>1, <2>2, InToSet DEF n
<1>3. ASSUME NEW v, v \in ToSet(list)
      PROVE  v \in ToSet(longer)
  <2>1. PICK k \in 1..n : list[k] = v
    BY <1>3, InToSet DEF n
  <2>2. k \in 1..(n + 1) /\ longer[k] = v
    BY <1>1, <2>1
  <2> QED BY <1>1, <2>2, InToSet
<1>4. e \in ToSet(longer)
  <2>1. n + 1 \in 1..(n + 1)
    BY <1>1
  <2> QED BY <1>1, <2>1, InToSet
<1>5. ToSet(longer) = ToSet(list) \cup {e}
  BY <1>2, <1>3, <1>4
<1> QED BY <1>1, <1>5 DEF longer, n

(* An analyzer that sends a message on begins to.                          *)
LEMMA SendsOnOnce ==
  ASSUME LinksInv, IncludedInv, SendShape, HeardInv, recv,
         SendsOn(Head(Head(calls).todo), Head(calls).of, Head(calls).arg)
  PROVE  LET a == Head(Head(calls).todo)
             e == Head(calls).of
         IN  /\ ~HasIt(a, class, from_list, heard, Outer.of, events)
             /\ \/ class[a] = "LteRrcAnalyzer" /\ e = Outer.of
                \/ /\ class[a] = "RrcAnalyzer"
                   /\ e \in ToSet(from_list[a]) /\ class[e] = "LteRrcAnalyzer"
<1> DEFINE Started(f) == HasIt(f, class, from_list, heard, Outer.of, events)
           a == Head(Head(calls).todo)
           e == Head(calls).of
           n == Len(calls)
<1>1. /\ Sending /\ n \in Nat \ {0}
      /\ n = 1 => Outer = Head(calls)
      /\ n > 1 => e \in Analyzers
  BY RecvShape
<1>2. /\ a \in Made /\ a \in Analyzers /\ a \in ToSet(to_list[e]) /\ e \in Elements
      /\ Head(calls) \in SendCalls /\ Head(calls).todo # <<>>
  BY RecvIs
<1>3. a \in ToSet(Head(calls).todo) /\ Head(calls) = calls[1]
  <2>1. Head(calls).todo \in Seq(Made)
    BY <1>2 DEF SendCalls
  <2>2. a = Head(calls).todo[1] /\ 1 \in 1..Len(Head(calls).todo)
    BY <1>2, <2>1, HeadTailProperties
  <2>3. Head(calls) = calls[1]
    BY <1>1, SendingCalls
  <2> QED BY <2>1, <2>2, <2>3, InToSet
<1>4. <<e, events>> \notin ToSet(heard[a])
  <2>1. 1 \in 1..n
    BY <1>1
  <2> QED BY <1>1, <1>3, <2>1 DEF HeardInv, SendInv
<1>5. Outer.of \in Monitors
  BY <1>1 DEF SendShape
<1>6. n = 1 \/ n > 1
  <2>1. n \in Nat \ {0}
    BY <1>1
  <2> HIDE DEF n
  <2> QED BY <2>1
<1>7. Monitors \cap Analyzers = {} /\ Nobody \notin Monitors \cup Analyzers
  BY MadeAnalyzers DEF LinksInv
<1>8. source[a] \in Monitors \cup {Nobody}
  BY <1>2 DEF LinksInv, LinksType
<1>9. n > 1 => Started(e)
  <2>1. ASSUME n > 1
        PROVE  Started(e)
    <3>1. 1 \in 1..(n - 1)
      BY <1>1, <2>1
    <3> QED BY <1>1, <1>3, <3>1 DEF HeardInv, SendInv
  <2> QED BY <2>1
<1> HIDE DEF a, e, n, Started
<1>10. CASE class[a] = "LteRrcAnalyzer" /\ e = source[a]
  <2>1. n = 1 /\ e = Outer.of
    BY <1>1, <1>2, <1>6, <1>7, <1>8, <1>10 DEF Elements, e
  <2> QED BY <1>4, <1>10, <2>1 DEF Started, HasIt, Made, a, e
<1>11. CASE class[a] = "RrcAnalyzer" /\ e # source[a]
  <2>1. e \in Analyzers
    BY <1>2, <1>11 DEF Elements, LinksInv, EndsAgree
  <2>2. n > 1
    BY <1>1, <1>5, <1>6, <1>7, <2>1 DEF e
  <2>3. e \in ToSet(from_list[a])
    BY <1>2, <2>1 DEF LinksInv, EndsAgree
  <2>4. class[e] \in {"WcdmaRrcAnalyzer", "LteRrcAnalyzer"}
    BY <1>2, <1>11, <2>3, IncludableIs DEF IncludedInv
  <2>5. class[e] = "LteRrcAnalyzer"
    BY <1>9, <2>2, <2>4 DEF Started, HasIt, Made
  <2>6. \A x \in ToSet(from_list[a]) : class[x] = "LteRrcAnalyzer" => x = e
    BY <1>2, <1>11, <2>3, <2>5 DEF IncludedInv
  <2>7. ~Started(a)
    BY <1>4, <1>11, <2>6 DEF Started, HasIt, Made
  <2> QED BY <1>11, <2>3, <2>5, <2>7 DEF Started, a, e
<1>12. \/ class[a] = "LteRrcAnalyzer" /\ e = source[a]
       \/ class[a] = "RrcAnalyzer" /\ e # source[a]
  BY DEF SendsOn, a, e
<1> QED BY <1>10, <1>11, <1>12 DEF Started, a, e

(* An analyzer hears the message from one more of those that send to it.   *)
LEMMA RecvHeard ==
  ASSUME LinksInv, IncludedInv, SendShape, HeardInv, recv
  PROVE  HeardInv'
<1> DEFINE Started(f) == HasIt(f, class, from_list, heard, Outer.of, events)
           Starts(f) == HasIt(f, class', from_list', heard', Outer'.of, events')
           a == Head(Head(calls).todo)
           e == Head(calls).of
           n == Len(calls)
           got == <<e, events>>
           rest == [Head(calls) EXCEPT !.todo = Tail(@)]
           sent == Call("send", a, Head(calls).arg, to_list[a])
<1>1. PICK d \in {0, 1} :
         /\ Len(calls') = n + d /\ calls'[1 + d] = rest
         /\ \A i \in 2..n : calls'[i + d] = calls[i]
         /\ d = 1 => calls'[1] = sent /\ SendsOn(a, e, Head(calls).arg)
  BY RecvCalls
<1>2. /\ Sending /\ Sending' /\ n \in Nat \ {0}
      /\ n = 1 => Outer = Head(calls) /\ Outer' = rest
      /\ n > 1 => Outer' = Outer /\ e \in Analyzers
  BY RecvShape
<1>3. /\ a \in Made /\ a \in Analyzers /\ e \in Elements
      /\ Head(calls) \in SendCalls /\ Head(calls).todo # <<>>
  BY RecvIs
<1>4. /\ Head(calls) = calls[1] /\ Outer.of \in Monitors
      /\ \A i \in 1..n : calls[i] \in SendCalls /\ calls[i].arg = Outer.arg
                         /\ IsInjective(calls[i].todo)
      /\ \A i \in 1..(n - 1) : calls[i].of \in Analyzers
  BY <1>2, SendingCalls DEF SendShape
<1>5. /\ Outer.arg.n = events
      /\ \A i \in 1..n : \A b \in ToSet(calls[i].todo) :
            <<calls[i].of, events>> \notin ToSet(heard[b])
      /\ \A i \in 1..(n - 1) : Started(calls[i].of)
      /\ \A i, j \in 1..n : calls[i].of = calls[j].of => i = j
      /\ \A b \in Made : \A h \in ToSet(heard[b]) :
            h[2] = events => h[1] = Outer.of \/ Started(h[1])
  BY <1>2 DEF HeardInv, SendInv
<1>6. 1 \in 1..n /\ (n = 1 \/ n > 1) /\ (n > 1 => 1 \in 1..(n - 1))
  <2>1. n \in Nat \ {0}
    BY <1>2
  <2> HIDE DEF n
  <2> QED BY <2>1
<1>7. /\ rest.of = e /\ rest.arg = Head(calls).arg /\ Head(calls).todo \in Lists(Made)
      /\ ToSet(rest.todo) = ToSet(Head(calls).todo) \ {a}
      /\ a \in ToSet(Head(calls).todo)
  <2>1. rest.of = e /\ rest.arg = Head(calls).arg /\ rest.todo = Tail(Head(calls).todo)
    BY <1>3 DEF SendCalls
  <2>2. Head(calls).todo \in Lists(Made)
    BY <1>3, <1>4, <1>6 DEF SendCalls, Lists
  <2>3. ToSet(rest.todo) = ToSet(Head(calls).todo) \ {a}
    BY <1>3, <2>1, <2>2, RestOfList
  <2>4. a = Head(calls).todo[1] /\ 1 \in 1..Len(Head(calls).todo)
    BY <1>3, <2>2, HeadTailProperties DEF Lists
  <2> QED BY <2>1, <2>2, <2>3, <2>4, InToSet DEF Lists
<1>8. UNCHANGED <<class, from_list, events>> /\ Made' = Made
  BY DEF recv, linkVars, phoneVars, Made
<1>9. Head(calls).arg.n = events
  BY <1>4, <1>5, <1>6
<1>10. heard' = [heard EXCEPT ![a] = Append(@, got)]
  BY <1>9 DEF recv
<1>11. sent.of = a /\ sent.arg = Head(calls).arg /\ sent.todo = to_list[a]
  BY DEF Call
<1>12. heard \in [Analyzers -> Seq(Elements \X (0..events))] /\ events \in Nat
  BY DEF HeardInv, HeardType, LinksInv, LinksType
<1>13. got \in Elements \X (0..events) /\ got[1] = e /\ got[2] = events
  BY <1>3, <1>12
<1> HIDE DEF a, e, n, got, rest, sent, Started, Starts
<1>14. Outer'.of = Outer.of /\ Outer'.arg = Outer.arg /\ (n = 1 => e = Outer.of)
  BY <1>2, <1>6, <1>7 DEF e
<1>15. /\ heard'[a] = Append(heard[a], got)
       /\ \A b \in Analyzers \ {a} : heard'[b] = heard[b]
       /\ heard' \in [Analyzers -> Seq(Elements \X (0..events))]
  <2>1. heard[a] \in Seq(Elements \X (0..events))
    BY <1>3, <1>12
  <2>2. Append(heard[a], got) \in Seq(Elements \X (0..events))
    BY <1>13, <2>1, AppendToSet
  <2> QED BY <1>3, <1>10, <1>12, <2>2
<1>16. /\ ToSet(heard'[a]) = ToSet(heard[a]) \cup {got}
       /\ \A b \in Analyzers \ {a} : ToSet(heard'[b]) = ToSet(heard[b])
  <2>1. heard[a] \in Seq(Elements \X (0..events))
    BY <1>3, <1>12
  <2> QED BY <1>13, <1>15, <2>1, AppendToSet
<1>17. got \notin ToSet(heard[a])
  BY <1>4, <1>5, <1>6, <1>7 DEF got, e
<1>18. Made \subseteq Analyzers
  BY MadeAnalyzers DEF LinksInv
<1>19. ASSUME NEW f, Started(f)
       PROVE  Starts(f)
  <2>1. f \in Analyzers /\ ToSet(heard[f]) \subseteq ToSet(heard'[f])
    BY <1>16, <1>18, <1>19 DEF Started, HasIt, Made
  <2> QED BY <1>8, <1>14, <1>19, <2>1 DEF Started, Starts, HasIt
<1>20. e = Outer.of \/ Started(e)
  BY <1>4, <1>5, <1>6, <1>14 DEF e
<1>21. ASSUME d = 1
       PROVE  /\ Starts(a) /\ ~Started(a) /\ a # Outer.of
              /\ \A b \in Made : <<a, events>> \notin ToSet(heard'[b])
              /\ \A i \in 1..n : calls[i].of # a
  <2>1. /\ ~Started(a)
        /\ \/ class[a] = "LteRrcAnalyzer" /\ e = Outer.of
           \/ /\ class[a] = "RrcAnalyzer"
              /\ e \in ToSet(from_list[a]) /\ class[e] = "LteRrcAnalyzer"
    BY <1>1, <1>21, SendsOnOnce DEF a, e, Started
  <2>2. Starts(a)
    <3>1. <<e, events>> \in ToSet(heard'[a])
      BY <1>16 DEF got
    <3> QED BY <1>3, <1>8, <1>14, <2>1, <3>1 DEF Starts, HasIt, Made
  <2>3. a # Outer.of
    BY <1>3, <1>4, MadeAnalyzers DEF LinksInv
  <2>4. e # a
    BY <1>20, <2>1, <2>3
  <2>5. ASSUME NEW b \in Made, <<a, events>> \in ToSet(heard'[b])
        PROVE  FALSE
    <3>1. <<a, events>> # got
      BY <2>4 DEF got
    <3>2. <<a, events>> \in ToSet(heard[b])
      BY <1>16, <1>18, <2>5, <3>1
    <3>3. <<a, events>>[1] = a /\ <<a, events>>[2] = events
      OBVIOUS
    <3> QED BY <1>5, <2>1, <2>3, <3>2, <3>3
  <2>6. ASSUME NEW i \in 1..n
        PROVE  calls[i].of # a
    <3>1. CASE i = n
      <4>1. calls[i] = Outer
        BY <3>1 DEF Outer, n
      <4> QED BY <2>3, <4>1
    <3>2. CASE i # n
      <4>1. i \in 1..(n - 1)
        BY <1>2, <3>2
      <4> QED BY <1>5, <2>1, <4>1
    <3> QED BY <3>1, <3>2
  <2> QED BY <2>1, <2>2, <2>3, <2>5, <2>6
<1>22. InOrder(heard'[a])
  <2> DEFINE old == heard[a]
             new == heard'[a]
             m == Len(old)
  <2>1. /\ old \in Seq(Elements \X (0..events)) /\ m \in Nat /\ Len(new) = m + 1
        /\ new[m + 1] = got /\ \A k \in 1..m : new[k] = old[k]
    <3>1. old \in Seq(Elements \X (0..events))
      BY <1>3, <1>12
    <3> QED BY <1>13, <1>15, <3>1, AppendToSet
  <2>2. InOrder(old) /\ got \notin ToSet(old)
    BY <1>3, <1>17 DEF HeardInv
  <2> HIDE DEF old, new, m
  <2>3. ASSUME NEW j \in 1..m, old[j][1] = e
        PROVE  old[j][2] < events
    <3>1. old[j] \in Elements \X (0..events)
      BY <2>1, ElementOfSeq DEF m
    <3>2. old[j] \in ToSet(old)
      BY <2>1, InToSet DEF m
    <3>3. old[j] = <<old[j][1], old[j][2]>> /\ old[j][2] \in 0..events
      BY <3>1
    <3>4. old[j][2] # events
      BY <2>2, <2>3, <3>2, <3>3 DEF got
    <3> QED BY <1>12, <3>3, <3>4
  <2>4. ASSUME NEW j \in 1..(m + 1), NEW k \in 1..(m + 1), j < k, new[j][1] = new[k][1]
        PROVE  new[j][2] < new[k][2]
    <3>1. CASE k = m + 1
      <4>1. j \in 1..m
        BY <2>1, <2>4, <3>1
      <4> QED BY <1>13, <2>1, <2>3, <2>4, <3>1, <4>1
    <3>2. CASE k # m + 1
      <4>1. j \in 1..m /\ k \in 1..m
        BY <2>1, <2>4, <3>2
      <4> QED BY <2>1, <2>2, <2>4, <4>1 DEF InOrder, m
    <3> QED BY <3>1, <3>2
  <2>5. InOrder(new)
    BY <2>1, <2>4 DEF InOrder
  <2> QED BY <2>5 DEF new
<1>23. \A b \in Analyzers : InOrder(heard'[b])
  BY <1>15, <1>22 DEF HeardInv
<1>24. ASSUME NEW i \in 1..(n + d)
       PROVE  \/ d = 1 /\ i = 1 /\ calls'[i] = sent
              \/ i = 1 + d /\ calls'[i] = rest
              \/ i - d \in 2..n /\ i - d \in 1..n /\ calls'[i] = calls[i - d]
  <2>1. \/ d = 1 /\ i = 1
        \/ i = 1 + d
        \/ i - d \in 2..n /\ i - d \in 1..n /\ (i - d) + d = i
    BY <1>2
  <2> QED BY <1>1, <2>1
<1>25. ASSUME NEW i \in 1..(n + d), NEW b \in ToSet(calls'[i].todo)
       PROVE  <<calls'[i].of, events>> \notin ToSet(heard'[b])
  <2>1. CASE d = 1 /\ i = 1 /\ calls'[i] = sent
    <3>1. b \in Made
      <4>1. to_list[a] \in Seq(Made)
        BY <1>3 DEF LinksInv, LinksType, Lists, Elements
      <4> QED BY <1>11, <1>25, <2>1, <4>1, InToSet
    <3> QED BY <1>11, <1>21, <2>1, <3>1
  <2>2. CASE i = 1 + d /\ calls'[i] = rest
    <3>1. b # a /\ b \in ToSet(calls[1].todo) /\ calls[1].of = e
      BY <1>4, <1>7, <1>25, <2>2 DEF e
    <3>2. b \in Made
      BY <1>4, <1>7, <3>1, InToSet DEF Lists
    <3>3. ToSet(heard'[b]) = ToSet(heard[b])
      BY <1>16, <1>18, <3>1, <3>2
    <3> QED BY <1>5, <1>6, <1>7, <2>2, <3>1, <3>3
  <2>3. CASE i - d \in 2..n /\ i - d \in 1..n /\ calls'[i] = calls[i - d]
    <3> DEFINE k == i - d
    <3>1. k \in 1..n /\ k # 1 /\ calls'[i] = calls[k] /\ b \in ToSet(calls[k].todo)
      BY <1>25, <2>3
    <3> HIDE DEF k
    <3>2. b \in Made
      <4>1. calls[k].todo \in Seq(Made)
        BY <1>4, <3>1 DEF SendCalls
      <4> QED BY <3>1, <4>1, InToSet
    <3>3. calls[k].of # e
      BY <1>4, <1>5, <1>6, <3>1 DEF e
    <3>4. <<calls[k].of, events>> # got
      BY <3>3 DEF got
    <3>5. <<calls[k].of, events>> \notin ToSet(heard[b])
      BY <1>5, <3>1
    <3>6. <<calls[k].of, events>> \notin ToSet(heard'[b])
      BY <1>16, <1>18, <3>2, <3>4, <3>5
    <3> QED BY <3>1, <3>6
  <2> QED BY <1>24, <2>1, <2>2, <2>3
<1>26. ASSUME NEW i \in 1..(n + d - 1)
       PROVE  Starts(calls'[i].of)
  <2>0. i \in 1..(n + d)
    BY <1>2
  <2>1. CASE d = 1 /\ i = 1 /\ calls'[i] = sent
    BY <1>11, <1>21, <2>1
  <2>2. CASE i = 1 + d /\ calls'[i] = rest
    <3>1. 1 \in 1..(n - 1)
      BY <1>2, <2>2
    <3>2. Started(e)
      BY <1>4, <1>5, <3>1 DEF e
    <3>3. Starts(e)
      BY <1>19, <3>2
    <3> QED BY <1>7, <2>2, <3>3
  <2>3. CASE i - d \in 2..n /\ i - d \in 1..n /\ calls'[i] = calls[i - d]
    <3>1. i - d \in 1..(n - 1)
      BY <1>2, <2>3
    <3>2. Started(calls[i - d].of)
      BY <1>5, <3>1
    <3> QED BY <1>19, <2>3, <3>2
  <2> QED BY <1>24, <2>0, <2>1, <2>2, <2>3
<1>27. ASSUME NEW i \in 1..(n + d), NEW j \in 1..(n + d), calls'[i].of = calls'[j].of
       PROVE  i = j
  <2>1. \/ d = 1 /\ i = 1 /\ calls'[i].of = a
        \/ i - d \in 1..n /\ calls'[i].of = calls[i - d].of
    <3>1. i = 1 + d => i - d = 1
      OBVIOUS
    <3> QED BY <1>4, <1>6, <1>7, <1>11, <1>24, <3>1 DEF e
  <2>2. \/ d = 1 /\ j = 1 /\ calls'[j].of = a
        \/ j - d \in 1..n /\ calls'[j].of = calls[j - d].of
    <3>1. j = 1 + d => j - d = 1
      OBVIOUS
    <3> QED BY <1>4, <1>6, <1>7, <1>11, <1>24, <3>1 DEF e
  <2>3. i - d \in 1..n /\ j - d \in 1..n => (i - d = j - d => i = j)
    OBVIOUS
  <2> QED BY <1>5, <1>21, <1>27, <2>1, <2>2, <2>3
<1>28. ASSUME NEW b \in Made, NEW h \in ToSet(heard'[b]), h[2] = events
       PROVE  h[1] = Outer.of \/ Starts(h[1])
  <2>1. CASE h = got
    BY <1>13, <1>19, <1>20, <2>1
  <2>2. CASE h # got
    <3>1. h \in ToSet(heard[b])
      BY <1>16, <1>18, <2>2
    <3>2. h[1] = Outer.of \/ Started(h[1])
      BY <1>5, <1>28, <3>1
    <3> QED BY <1>19, <3>2
  <2> QED BY <2>1, <2>2
<1>29. SendInv'
  <2>1. Outer'.arg.n = events'
    BY <1>5, <1>8, <1>14
  <2>2. \A i \in 1..Len(calls') : \A b \in ToSet(calls'[i].todo) :
           <<calls'[i].of, events'>> \notin ToSet(heard'[b])
    BY <1>1, <1>8, <1>25
  <2>3. \A i \in 1..(Len(calls') - 1) : Starts(calls'[i].of)
    <3>0. Len(calls') = n + d /\ n \in Nat
      BY <1>1, <1>2
    <3>1. Len(calls') - 1 = n + d - 1
      BY <3>0
    <3> QED BY <1>26, <3>1, Zenon
  <2>4. \A i, j \in 1..Len(calls') : calls'[i].of = calls'[j].of => i = j
    BY <1>1, <1>27
  <2>5. \A b \in Made' : \A h \in ToSet(heard'[b]) :
           h[2] = events' => h[1] = Outer'.of \/ Starts(h[1])
    BY <1>8, <1>14, <1>28
  <2> QED BY <2>1, <2>2, <2>3, <2>4, <2>5, Zenon DEF SendInv, Starts
<1>30. HeardType'
  BY <1>8, <1>15 DEF HeardType, Elements
<1> QED BY <1>23, <1>29, <1>30 DEF HeardInv

(* The monitor that begins to send has sent no message of this number.     *)
LEMMA SendHeard ==
  ASSUME LinksInv, HeardInv, NEW m \in Monitors, NEW message \in Messages, NEW inOrder,
         Send(m, message, inOrder), message.n = events + 1
  PROVE  HeardInv'
<1> DEFINE c == Call("send", m, message, to_list[m])
<1>1. /\ Sending' /\ Len(calls') = 1 /\ Outer' = c
      /\ UNCHANGED <<class, from_list, heard>> /\ events' = events + 1
  BY SendBegins DEF linkVars, hearVars
<1>2. c.of = m /\ c.arg = message
  BY DEF Call
<1> HIDE DEF c
<1>3. heard \in [Analyzers -> Seq(Elements \X (0..events))] /\ events \in Nat
  BY DEF HeardInv, HeardType, LinksInv, LinksType
<1>4. heard' \in [Analyzers -> Seq(Elements \X (0..events'))]
  <2>1. Elements \X (0..events) \subseteq Elements \X (0..events')
    BY <1>1, <1>3
  <2>2. Seq(Elements \X (0..events)) \subseteq Seq(Elements \X (0..events'))
    BY <2>1
  <2> QED BY <1>1, <1>3, <2>2
<1>5. ASSUME NEW a \in Analyzers, NEW h \in ToSet(heard'[a])
      PROVE  h[2] # events' /\ h = <<h[1], h[2]>>
  <2>1. heard[a] \in Seq(Elements \X (0..events)) /\ h \in ToSet(heard[a])
    BY <1>1, <1>3, <1>5
  <2>2. PICK k \in 1..Len(heard[a]) : heard[a][k] = h
    BY <2>1, InToSet
  <2>3. h \in Elements \X (0..events)
    BY <2>1, <2>2, ElementOfSeq
  <2>4. h[2] \in 0..events
    BY <2>3
  <2> QED BY <1>1, <1>3, <2>3, <2>4
<1>6. ToSet(to_list[m]) \subseteq Analyzers /\ Made \subseteq Analyzers
  <2>1. to_list[m] \in Seq(Made)
    BY DEF LinksInv, LinksType, Lists, Elements
  <2>2. \A a \in ToSet(to_list[m]) : a \in Made
    BY <2>1, InToSet
  <2> QED BY <2>2, MadeAnalyzers DEF LinksInv
<1>7. calls' = <<c>> /\ c.todo = to_list[m]
  BY DEF Send, c, Call
<1>8. \A i \in 1..Len(calls') : i = 1 /\ calls'[i] = c
  BY <1>1, <1>7
<1>9. SendInv'
  <2>1. Outer'.arg.n = events'
    BY <1>1, <1>2
  <2>2. ASSUME NEW i \in 1..Len(calls'), NEW a \in ToSet(calls'[i].todo)
        PROVE  <<calls'[i].of, events'>> \notin ToSet(heard'[a])
    <3>1. a \in Analyzers
      BY <1>6, <1>7, <1>8, <2>2
    <3>2. <<calls'[i].of, events'>>[2] = events'
      OBVIOUS
    <3> QED BY <1>5, <3>1, <3>2
  <2>3. 1..(Len(calls') - 1) = {}
    BY <1>1
  <2>4. \A i, j \in 1..Len(calls') : calls'[i].of = calls'[j].of => i = j
    BY <1>8
  <2>5. \A a \in Made' : \A h \in ToSet(heard'[a]) : h[2] # events'
    BY <1>1, <1>5, <1>6 DEF Made
  <2> QED BY <2>1, <2>2, <2>3, <2>4, <2>5, Zenon DEF SendInv
<1>10. \A a \in Analyzers : InOrder(heard'[a])
  BY <1>1 DEF HeardInv
<1>11. HeardType'
  BY <1>4 DEF HeardType, Elements
<1> QED BY <1>9, <1>10, <1>11 DEF HeardInv

(* An analyzer or the monitor has sent to all of its list.                 *)
LEMMA ReturnHeard ==
  ASSUME LinksInv, SendShape, HeardInv, Sending, Return
  PROVE  HeardInv'
<1> DEFINE n == Len(calls)
           Started(f) == HasIt(f, class, from_list, heard, Outer.of, events)
<1>1. /\ n \in Nat \ {0}
      /\ n = 1 => ~Sending'
      /\ n > 1 => Sending' /\ Outer' = Outer
  BY ReturnShape
<1>2. UNCHANGED <<class, from_list, heard, events>> /\ Made' = Made
  BY DEF Return, linkVars, phoneVars, hearVars, Made
<1>3. Len(calls') = n - 1 /\ \A i \in 1..(n - 1) : calls'[i] = calls[i + 1]
  <2>1. calls \in Seq(SendCalls) /\ calls # <<>> /\ calls' = Tail(calls)
    BY SendingCalls DEF Sending, Return
  <2> QED BY <2>1, HeadTailProperties
<1>4. /\ Outer.arg.n = events
      /\ \A i \in 1..n : \A b \in ToSet(calls[i].todo) :
            <<calls[i].of, events>> \notin ToSet(heard[b])
      /\ \A i \in 1..(n - 1) : Started(calls[i].of)
      /\ \A i, j \in 1..n : calls[i].of = calls[j].of => i = j
      /\ \A b \in Made : \A h \in ToSet(heard[b]) :
            h[2] = events => h[1] = Outer.of \/ Started(h[1])
  BY DEF HeardInv, SendInv
<1>5. (HeardType /\ \A a \in Analyzers : InOrder(heard[a]))'
  BY <1>2 DEF HeardInv, HeardType, Elements
<1> HIDE DEF n, Started
<1>6. CASE n = 1
  BY <1>1, <1>5, <1>6 DEF HeardInv, SendInv
<1>7. CASE n > 1
  <2>1. \A i \in 1..(n - 1) : i + 1 \in 1..n /\ (i < n - 1 => i + 1 \in 1..(n - 1))
    BY <1>1
  <2>2. Outer'.arg.n = events' /\ Outer' = Outer
    BY <1>1, <1>2, <1>4, <1>7
  <2>3. \A i \in 1..(n - 1) : \A b \in ToSet(calls'[i].todo) :
           <<calls'[i].of, events'>> \notin ToSet(heard'[b])
    BY <1>2, <1>3, <1>4, <2>1
  <2>4. ASSUME NEW i \in 1..(n - 1 - 1)
        PROVE  Started(calls'[i].of)
    <3>1. i \in 1..(n - 1) /\ i + 1 \in 1..(n - 1)
      BY <1>1
    <3> QED BY <1>3, <1>4, <3>1
  <2>5. ASSUME NEW i \in 1..(n - 1), NEW j \in 1..(n - 1), calls'[i].of = calls'[j].of
        PROVE  i = j
    <3>1. i + 1 = j + 1
      BY <1>3, <1>4, <2>1, <2>5
    <3> QED BY <3>1
  <2>6. SendInv'
    <3>1. \A i \in 1..Len(calls') : \A b \in ToSet(calls'[i].todo) :
             <<calls'[i].of, events'>> \notin ToSet(heard'[b])
      BY <1>3, <2>3
    <3>2. \A i \in 1..(Len(calls') - 1) :
             HasIt(calls'[i].of, class', from_list', heard', Outer'.of, events')
      <4>1. Len(calls') - 1 = n - 1 - 1
        BY <1>3
      <4>2. \A f : HasIt(f, class', from_list', heard', Outer'.of, events') <=> Started(f)
        BY <1>2, <2>2 DEF Started
      <4> QED BY <2>4, <4>1, <4>2, Zenon
    <3>3. \A i, j \in 1..Len(calls') : calls'[i].of = calls'[j].of => i = j
      BY <1>3, <2>5
    <3>4. \A b \in Made' : \A h \in ToSet(heard'[b]) :
             h[2] = events' => h[1] = Outer'.of
                               \/ HasIt(h[1], class', from_list', heard', Outer'.of, events')
      BY <1>2, <1>4, <2>2 DEF Started
    <3> QED BY <2>2, <3>1, <3>2, <3>3, <3>4, Zenon DEF SendInv
  <2> QED BY <1>5, <2>6 DEF HeardInv
<1>8. n = 1 \/ n > 1
  BY <1>1
<1> QED BY <1>6, <1>7, <1>8

(* Every step keeps the order.                                             *)
LEMMA HeardNext ==
  ASSUME LinksInv, IncludedInv, SendShape, HeardInv, [Next]_vars
  PROVE  HeardInv'
<1>1. CASE Sending /\ recv
  BY <1>1, RecvHeard
<1>2. CASE Sending /\ Return
  BY <1>2, ReturnHeard
<1>3. ASSUME UNCHANGED <<heard, events>>, ~Sending'
      PROVE  HeardInv'
  BY <1>3 DEF HeardInv, HeardType, Elements, SendInv
<1>4. CASE UNCHANGED vars
  <2>1. UNCHANGED <<class, from_list, calls, heard, events>>
    BY <1>4 DEF vars, linkVars, phoneVars, hearVars
  <2>2. Sending' = Sending /\ Outer' = Outer /\ Made' = Made
    BY <2>1 DEF Sending, Outer, Made
  <2> QED BY <2>1, <2>2 DEF HeardInv, HeardType, Elements, SendInv
<1>5. CASE ~Sending /\ Phone
  <2>1. ASSUME NEW change \in Changes, Records(change)
        PROVE  HeardInv'
    <3>1. UNCHANGED <<heard, events, calls>>
      BY <2>1 DEF Records, linkVars, hearVars
    <3> QED BY <1>3, <1>5, <3>1 DEF Sending
  <2>2. ASSUME NEW m \in Monitors, SendCdrx(m)
        PROVE  HeardInv'
    <3>1. events + 1 \in Nat /\ batch \in Seq(CdrxEvents \cup OtaElements)
      BY DEF LinksInv, LinksType
    <3>2. Cdrx \in Messages /\ Cdrx.n = events + 1
      BY <3>1 DEF Cdrx, Messages
    <3> QED BY <2>2, <3>2, SendHeard DEF SendCdrx
  <2>3. ASSUME NEW m \in Monitors, NEW change \in Changes, SendOta(m, change)
        PROVE  HeardInv'
    <3>1. events + 1 \in Nat /\ <<change[2]>> \in Seq(CdrxEvents \cup OtaElements)
      BY <2>3 DEF LinksInv, LinksType, SendOta
    <3>2. Ota(change[2]) \in Messages /\ Ota(change[2]).n = events + 1
      BY <3>1 DEF Ota, Messages
    <3> QED BY <2>3, <3>2, SendHeard DEF SendOta
  <2> QED BY <1>5, <2>1, <2>2, <2>3 DEF Phone
<1>6. CASE Quiet
  BY <1>3, <1>6 DEF Quiet, phoneVars, hearVars
<1> QED BY <1>1, <1>2, <1>4, <1>5, <1>6, StepKinds

(* Nothing is included and heard at first.                                 *)
LEMMA IncludedInit ==
  ASSUME Init
  PROVE  IncludedInv
<1>1. class = <<>> /\ calls = <<>>
  BY DEF Init
<1>2. Made = {} /\ ~Including
  BY <1>1 DEF Made, Including
<1> QED BY <1>2 DEF IncludedInv

(* However often an analyzer is included, given a source or shared by      *)
(* analyzers that are: it hears each message once at most from each of     *)
(* those that send to it, in the order of the messages.                    *)
THEOREM AnalyzersHearOnceInOrder == Spec => []HeardOnceInOrder
<1> DEFINE Inv == TypeInv /\ IncludedInv /\ SendShape /\ HeardInv
<1>1. Init => Inv
  <2> SUFFICES ASSUME Init PROVE Inv
    OBVIOUS
  <2>1. TypeInv /\ IncludedInv
    BY TypeInit, IncludedInit
  <2>2. ~Sending
    BY DEF Init, Sending
  <2>3. heard = [a \in Analyzers |-> <<>>]
    BY DEF Init
  <2>4. HeardType /\ \A a \in Analyzers : InOrder(heard[a])
    BY <2>3 DEF HeardType, InOrder
  <2> QED BY <2>1, <2>2, <2>4 DEF SendShape, HeardInv, SendInv
<1>2. Inv /\ [Next]_vars => Inv'
  <2> SUFFICES ASSUME TypeInv, IncludedInv, SendShape, HeardInv, [Next]_vars PROVE Inv'
    OBVIOUS
  <2>1. TypeInv'
    BY TypeNext
  <2>2. LinksInv /\ NamesAgree
    BY DEF TypeInv
  <2>3. IncludedInv'
    BY <2>2, IncludedNext
  <2>4. SendShape'
    BY <2>2, ShapeNext
  <2>5. HeardInv'
    BY <2>2, HeardNext
  <2> QED BY <2>1, <2>3, <2>4, <2>5
<1>3. Inv => HeardOnceInOrder
  <2> SUFFICES ASSUME Inv PROVE HeardOnceInOrder
    OBVIOUS
  <2>1. 1..Len(class) \subseteq Analyzers
    BY MadeAnalyzers DEF TypeInv, LinksInv, Made
  <2> QED BY <2>1 DEF HeardOnceInOrder, HeardInv, InOrder
<1> QED BY <1>1, <1>2, <1>3, PTL DEF Spec

-----------------------------------------------------------------------------
(* The inductive invariant of the sources.  While set_source runs, what it *)
(* is done with has the source and includes nothing else; what a call was  *)
(* made for includes that, what it has yet to go through, and what the     *)
(* call within it is for.  Afterwards, the analyzer last given a source    *)
(* has what it includes in such a set without itself, as no class includes *)
(* its own, and nothing in the set includes more: only new analyzers and   *)
(* KPI managers do.                                                        *)

Settled(D, m, src, from) == \A d \in D : src[d] = m /\ ToSet(from[d]) \subseteq D

SettingInv ==
    Setting => \E m \in Monitors : \E D \in SUBSET Made :
        /\ Settled(D, m, source, from_list)
        /\ \A i \in 1..Len(calls) :
              /\ calls[i].arg = m
              /\ \A x \in ToSet(from_list[calls[i].of]) :
                    \/ x \in D \/ x \in ToSet(calls[i].todo)
                    \/ i > 1 /\ x = calls[i - 1].of

\* None of the calls includes for one of E
OutOf(s, E) == \A i \in 1..Len(s) : s[i].fn = "include" => s[i].of \notin E

LatestInv ==
    latest # Nobody =>
        /\ latest \in Made /\ source[latest] \in Monitors
        /\ Len(to_list[source[latest]]) \in Nat \ {0}
        /\ to_list[source[latest]][Len(to_list[source[latest]])] = latest
        /\ \E D \in SUBSET Made :
              /\ Settled(D, source[latest], source, from_list) /\ ToSet(from_list[latest]) \subseteq D
              /\ latest \notin D /\ \A x \in D : class[x] # "KPIManager"
              /\ Including => OutOf(calls, D \cup {latest})

(* All that an analyzer includes is in a set that is closed.               *)
LEMMA BelowIn ==
  ASSUME LinksInv, NEW D \in SUBSET Made, \A d \in D : ToSet(from_list[d]) \subseteq D,
         NEW a \in Analyzers, ToSet(from_list[a]) \subseteq D
  PROVE  Below[a] \subseteq D
<1> DEFINE N == MaxAnalyzers
           Reach(f, b) == UNION {{other} \cup f[other] : other \in ToSet(from_list[b])}
           Step(f) == [b \in Analyzers |-> Reach(f, b)]
           Unfolds(w) ==
               w = [depth \in 0..N |->
                       IF depth = 0 THEN [b \in Analyzers |-> {}]
                       ELSE [b \in Analyzers |-> Reach(w[depth - 1], b)]]
           within == CHOOSE w : Unfolds(w)
           none == [b \in Analyzers |-> {}]
           S == [Analyzers -> SUBSET Analyzers]
           h == [i \in 1..N |-> [f \in S |-> Step(f)]]
<1>1. Below = within[N]
  BY Zenon DEF Below
<1>2. N \in Nat /\ Made \subseteq Analyzers
  BY MadeAnalyzers DEF LinksInv
<1>3. \A b \in Analyzers : ToSet(from_list[b]) \subseteq Analyzers
  <2>1. ASSUME NEW b \in Analyzers, NEW x \in ToSet(from_list[b])
        PROVE  x \in Analyzers
    <3>1. from_list[b] \in Seq(Made)
      BY DEF LinksInv, LinksType, Lists
    <3> QED BY <1>2, <2>1, <3>1, InToSet
  <2> QED BY <2>1
<1>4. none \in S
  OBVIOUS
<1>5. ASSUME NEW f \in S
      PROVE  Step(f) \in S
  BY <1>3
<1>6. h \in [1..N -> [S -> S]] /\ \A i \in 1..N : \A f \in S : h[i][f] = Step(f)
  BY <1>5
<1>7. PICK g \in [0..N -> S] : Follows(g, N, none, h)
  <2> HIDE DEF N, none, S, h, Step
  <2> QED BY <1>2, <1>4, <1>6, RecursionExists
<1>8. \E w : Unfolds(w)
  <2> DEFINE w == [depth \in 0..N |-> g[depth]]
  <2> HIDE DEF h, S, none
  <2>1. g[0] = none /\ \A k \in 1..N : g[k] = h[k][g[k - 1]]
    BY <1>7 DEF Follows
  <2>2. \A k \in 0..N : k # 0 => k \in 1..N /\ k - 1 \in 0..N
    BY <1>2
  <2>3. \A k \in 1..N : g[k] = Step(g[k - 1])
    <3>1. \A k \in 1..N : g[k - 1] \in S
      BY <1>2, <1>7
    <3> HIDE DEF Step
    <3> QED BY <1>6, <2>1, <3>1
  <2>4. ASSUME NEW k \in 0..N
        PROVE  w[k] = IF k = 0 THEN [b \in Analyzers |-> {}]
                      ELSE [b \in Analyzers |-> Reach(w[k - 1], b)]
    <3>1. CASE k = 0
      BY <2>1, <3>1 DEF none
    <3>2. CASE k # 0
      <4>1. w[k] = Step(g[k - 1]) /\ w[k - 1] = g[k - 1]
        BY <2>2, <2>3, <3>2
      <4> HIDE DEF w, Step
      <4>2. w[k] = Step(w[k - 1])
        BY <4>1
      <4> HIDE DEF Reach
      <4> QED BY <3>2, <4>2 DEF Step
    <3> QED BY <3>1, <3>2
  <2>5. Unfolds(w)
    <3>1. w = [depth \in 0..N |-> w[depth]]
      OBVIOUS
    <3> HIDE DEF w
    <3> QED BY <2>4, <3>1
  <2> QED BY <2>5
<1>9. Unfolds(within)
  BY <1>8, Zenon
<1> HIDE DEF within
<1>10. /\ within[0] = [b \in Analyzers |-> {}]
       /\ \A k \in 1..N : within[k] = [b \in Analyzers |-> Reach(within[k - 1], b)]
  <2>1. 0 \in 0..N /\ \A k \in 1..N : k \in 0..N /\ k # 0
    BY <1>2
  <2> HIDE DEF Reach
  <2> QED BY <1>9, <2>1
<1> HIDE DEF Unfolds, N
<1> DEFINE T == {k \in 0..N : \A b \in Analyzers :
                                 ToSet(from_list[b]) \subseteq D => within[k][b] \subseteq D}
<1>11. 0..N \subseteq T
  <2>1. 0 \in T
    BY <1>2, <1>10
  <2>2. ASSUME NEW k \in 1..N, k - 1 \in T
        PROVE  k \in T
    <3>1. ASSUME NEW b \in Analyzers, ToSet(from_list[b]) \subseteq D,
                 NEW x \in within[k][b]
          PROVE  x \in D
      <4>0. x \in Reach(within[k - 1], b)
        <5> HIDE DEF Reach
        <5> QED BY <1>10, <3>1
      <4>1. PICK other \in ToSet(from_list[b]) : x \in {other} \cup within[k - 1][other]
        BY <4>0
      <4>2. other \in D /\ other \in Analyzers
        BY <1>3, <3>1
      <4>3. within[k - 1][other] \subseteq D
        BY <2>2, <4>2
      <4> QED BY <4>1, <4>2, <4>3
    <3>2. k \in 0..N
      BY <1>2
    <3> QED BY <3>1, <3>2
  <2> HIDE DEF T
  <2> QED BY <1>2, <2>1, <2>2, InductionUpTo
<1>12. N \in T
  <2>1. N \in 0..N
    BY <1>2
  <2> HIDE DEF T
  <2> QED BY <1>11, <2>1
<1> QED BY <1>1, <1>12

(* The registration puts the analyzer last.                                *)
LEMMA RegisterLast ==
  ASSUME LinksInv, NEW x \in Made, NEW m \in Monitors, Register(x, m)
  PROVE  /\ source' = [source EXCEPT ![x] = m]
         /\ Len(to_list'[m]) \in Nat \ {0} /\ to_list'[m][Len(to_list'[m])] = x
<1> DEFINE off == IF source[x] = Nobody THEN to_list
                  ELSE [to_list EXCEPT ![source[x]] = Without(@, x)]
<1>1. /\ to_list' = [off EXCEPT ![m] = AppendNew(@, x)]
      /\ source' = [source EXCEPT ![x] = m]
  BY DEF Register
<1>2. x \in Analyzers /\ to_list \in [Elements -> Lists(Made)] /\ m \in Elements
  BY MadeAnalyzers DEF LinksInv, LinksType, Elements
<1>3. /\ source[x] \in Monitors \cup {Nobody}
      /\ x \in ToSet(to_list[m]) <=> source[x] = m
      /\ Nobody \notin Monitors
  BY <1>2, MadeAnalyzers DEF LinksInv, LinksType, EndsAgree
<1>4. DOMAIN off = Elements /\ off[m] \in Lists(Made) /\ x \notin ToSet(off[m])
  <2>1. CASE source[x] = m
    <3>1. off = [to_list EXCEPT ![m] = Without(@, x)]
      BY <1>3, <2>1
    <3>2. Without(to_list[m], x) \in Lists(Made) /\ x \notin ToSet(Without(to_list[m], x))
      BY <1>2, WithoutList
    <3> QED BY <1>2, <3>1, <3>2
  <2>2. CASE source[x] # m
    <3>1. off[m] = to_list[m] /\ DOMAIN off = Elements
      BY <1>2, <2>2
    <3> QED BY <1>2, <1>3, <2>2, <3>1
  <2> QED BY <2>1, <2>2
<1> HIDE DEF off
<1>5. to_list'[m] = Append(off[m], x)
  <2>1. to_list'[m] = AppendNew(off[m], x)
    BY <1>1, <1>2, <1>4
  <2> QED BY <1>4, <2>1 DEF AppendNew
<1>6. /\ Len(Append(off[m], x)) = Len(off[m]) + 1 /\ Append(off[m], x)[Len(off[m]) + 1] = x
      /\ Len(off[m]) \in Nat
  BY <1>4, AppendToSet, LenProperties DEF Lists
<1> QED BY <1>1, <1>5, <1>6

(* set_source goes down to what an analyzer includes, and comes back up.   *)
LEMMA SettingNext ==
  ASSUME LinksInv, SettingInv, [Next]_vars
  PROVE  SettingInv'
<1>0. Made \subseteq Analyzers
  BY MadeAnalyzers DEF LinksInv
<1>1. CASE ~Setting'
  BY <1>1 DEF SettingInv
<1>2. ASSUME NEW a \in Made, NEW m \in Monitors, SetSource(a, m)
      PROVE  SettingInv'
  <2> DEFINE c == Call("set_source", a, m, from_list[a])
  <2>1. calls' = <<c>> /\ UNCHANGED <<class, from_list, source>>
    BY <1>2 DEF SetSource, linkVars
  <2>2. c.of = a /\ c.arg = m /\ c.todo = from_list[a]
    BY DEF Call
  <2> HIDE DEF c
  <2>3. \A i \in 1..Len(calls') :
           /\ calls'[i].arg = m
           /\ \A x \in ToSet(from_list'[calls'[i].of]) : x \in ToSet(calls'[i].todo)
    BY <2>1, <2>2
  <2>4. Settled({}, m, source', from_list') /\ {} \in SUBSET Made'
    BY DEF Settled
  <2>5. \E D \in SUBSET Made' :
           /\ Settled(D, m, source', from_list')
           /\ \A i \in 1..Len(calls') :
                 /\ calls'[i].arg = m
                 /\ \A x \in ToSet(from_list'[calls'[i].of]) :
                       \/ x \in D \/ x \in ToSet(calls'[i].todo)
                       \/ i > 1 /\ x = calls'[i - 1].of
    BY <2>3, <2>4
  <2> QED BY <2>5, Zenon DEF SettingInv
<1>3. ASSUME Setting
      PROVE  /\ calls \in Seq(SetCalls) /\ Head(calls) \in SetCalls /\ calls # <<>>
             /\ Len(calls) \in Nat \ {0} /\ Head(calls) = calls[1]
             /\ \A i \in 1..Len(calls) : calls[i] \in SetCalls
  <2>1. calls \in Seq(SetCalls) /\ calls # <<>>
    BY <1>3, RunningCalls DEF LinksInv, Setting
  <2>2. Len(calls) \in Nat \ {0} /\ Head(calls) = calls[1] /\ Head(calls) \in SetCalls
    BY <2>1, HeadTailProperties
  <2>3. \A i \in 1..Len(calls) : calls[i] \in SetCalls
    BY <2>1, ElementOfSeq
  <2> QED BY <2>1, <2>2, <2>3
<1>4. CASE Setting /\ set_source
  <2> DEFINE n == Len(calls)
             other == Head(Head(calls).todo)
             called == Call("set_source", other, Head(calls).arg, from_list[other])
             rest == [Head(calls) EXCEPT !.todo = Tail(@)]
             d == Descend(<<called>>)
  <2>1. PICK m \in Monitors, D \in SUBSET Made :
           /\ Settled(D, m, source, from_list)
           /\ \A i \in 1..n :
                 /\ calls[i].arg = m
                 /\ \A x \in ToSet(from_list[calls[i].of]) :
                       \/ x \in D \/ x \in ToSet(calls[i].todo)
                       \/ i > 1 /\ x = calls[i - 1].of
    BY <1>4, Zenon DEF SettingInv
  <2>2. /\ Head(calls).todo # <<>> /\ calls' = d
        /\ UNCHANGED <<class, from_list, source>>
    BY <1>4 DEF set_source, linkVars
  <2>3. /\ calls \in Seq(SetCalls) /\ Head(calls) \in SetCalls /\ calls # <<>>
        /\ n \in Nat \ {0} /\ Head(calls) = calls[1]
    BY <1>3, <1>4
  <2>4. Head(calls).todo \in Seq(Made) /\ Head(calls).of \in Made /\ Head(calls).arg \in Monitors
    BY <2>3 DEF SetCalls
  <2>5. other \in Made /\ Tail(Head(calls).todo) \in Seq(Made)
    BY <2>2, <2>4, HeadTailProperties
  <2>6. \A x \in ToSet(Head(calls).todo) : x = other \/ x \in ToSet(Tail(Head(calls).todo))
    <3> DEFINE todo == Head(calls).todo
               k == Len(todo)
    <3>1. /\ todo \in Seq(Made) /\ k \in Nat \ {0} /\ other = todo[1]
          /\ Len(Tail(todo)) = k - 1 /\ \A i \in 1..(k - 1) : Tail(todo)[i] = todo[i + 1]
      BY <2>2, <2>4, HeadTailProperties
    <3> HIDE DEF todo, k, other
    <3>2. ASSUME NEW x \in ToSet(todo), x # other
          PROVE  x \in ToSet(Tail(todo))
      <4>1. PICK i \in 1..k : todo[i] = x
        BY <3>1, InToSet DEF k
      <4>2. i - 1 \in 1..(k - 1) /\ (i - 1) + 1 = i
        BY <3>1, <3>2, <4>1
      <4>3. Tail(todo)[i - 1] = x
        BY <3>1, <4>1, <4>2
      <4> QED BY <2>5, <3>1, <4>2, <4>3, InToSet DEF todo
    <3> QED BY <3>2 DEF todo
  <2>7. rest \in SetCalls /\ rest.of = Head(calls).of /\ rest.arg = Head(calls).arg
        /\ rest.todo = Tail(Head(calls).todo)
    BY <2>3, <2>5 DEF SetCalls
  <2>8. called \in SetCalls /\ called.of = other /\ called.arg = Head(calls).arg
        /\ called.todo = from_list[other]
    <3>1. from_list[other] \in Seq(Made)
      BY <1>0, <2>5 DEF LinksInv, LinksType, Lists
    <3> HIDE DEF other
    <3> QED BY <2>4, <2>5, <3>1 DEF SetCalls, Call
  <2>9. /\ Len(d) = n + 1 /\ d[1] = called /\ d[2] = rest
        /\ \A i \in 2..n : d[i + 1] = calls[i]
    <3>1. rest = [Head(calls) EXCEPT !.todo = Tail(@)]
      OBVIOUS
    <3> HIDE DEF rest, called
    <3> QED BY <2>3, <2>7, <2>8, <3>1, DescendIs
  <2> HIDE DEF n, other, called, rest, d
  <2>10. 1 \in 1..n /\ calls[1].arg = m
    BY <2>1, <2>3
  <2>11. ASSUME NEW i \in 1..(n + 1)
         PROVE  /\ d[i].arg = m
                /\ \A x \in ToSet(from_list[d[i].of]) :
                      \/ x \in D \/ x \in ToSet(d[i].todo)
                      \/ i > 1 /\ x = d[i - 1].of
    <3>1. CASE i = 1
      BY <2>3, <2>8, <2>9, <2>10, <3>1
    <3>2. CASE i = 2
      <4>1. d[i].of = calls[1].of /\ d[i].todo = Tail(Head(calls).todo) /\ d[i].arg = m
        BY <2>3, <2>7, <2>9, <2>10, <3>2
      <4>2. i > 1 /\ d[i - 1].of = other
        BY <2>8, <2>9, <3>2
      <4>3. \A x \in ToSet(from_list[calls[1].of]) : x \in D \/ x \in ToSet(calls[1].todo)
        BY <2>1, <2>10
      <4> QED BY <2>3, <2>6, <4>1, <4>2, <4>3
    <3>3. CASE i > 2
      <4>1. i - 1 \in 2..n /\ i - 1 \in 1..n /\ (i - 1) + 1 = i /\ i > 1 /\ i - 1 > 1
        BY <2>3, <3>3
      <4>2. d[i] = calls[i - 1]
        BY <2>9, <4>1
      <4>3. d[i - 1].of = calls[i - 1 - 1].of
        <5>1. CASE i = 3
          BY <2>3, <2>7, <2>9, <5>1
        <5>2. CASE i # 3
          <6>1. i - 1 - 1 \in 2..n /\ (i - 1 - 1) + 1 = i - 1
            BY <2>3, <3>3, <5>2
          <6> QED BY <2>9, <6>1
        <5> QED BY <5>1, <5>2
      <4> QED BY <2>1, <4>1, <4>2, <4>3
    <3> QED BY <3>1, <3>2, <3>3
  <2>12. Settled(D, m, source', from_list') /\ D \in SUBSET Made'
    BY <2>1, <2>2 DEF Settled, Made
  <2>13. \A i \in 1..Len(calls') :
            /\ calls'[i].arg = m
            /\ \A x \in ToSet(from_list'[calls'[i].of]) :
                  \/ x \in D \/ x \in ToSet(calls'[i].todo)
                  \/ i > 1 /\ x = calls'[i - 1].of
    BY <2>2, <2>9, <2>11
  <2>14. \E D2 \in SUBSET Made' :
            /\ Settled(D2, m, source', from_list')
            /\ \A i \in 1..Len(calls') :
                  /\ calls'[i].arg = m
                  /\ \A x \in ToSet(from_list'[calls'[i].of]) :
                        \/ x \in D2 \/ x \in ToSet(calls'[i].todo)
                        \/ i > 1 /\ x = calls'[i - 1].of
    BY <2>12, <2>13
  <2> QED BY <2>14, Zenon DEF SettingInv
<1>5. CASE Setting /\ SourceSet
  <2> DEFINE n == Len(calls)
             a == Head(calls).of
  <2>1. PICK m \in Monitors, D \in SUBSET Made :
           /\ Settled(D, m, source, from_list)
           /\ \A i \in 1..n :
                 /\ calls[i].arg = m
                 /\ \A x \in ToSet(from_list[calls[i].of]) :
                       \/ x \in D \/ x \in ToSet(calls[i].todo)
                       \/ i > 1 /\ x = calls[i - 1].of
    BY <1>5, Zenon DEF SettingInv
  <2>2. /\ Head(calls).todo = <<>> /\ calls' = Tail(calls) /\ Register(a, Head(calls).arg)
        /\ UNCHANGED <<class, from_list>>
    BY <1>5 DEF SourceSet
  <2>3. /\ calls \in Seq(SetCalls) /\ Head(calls) \in SetCalls /\ calls # <<>>
        /\ n \in Nat \ {0} /\ Head(calls) = calls[1]
    BY <1>3, <1>5
  <2>4. a \in Made /\ a \in Analyzers
    BY <1>0, <2>3 DEF SetCalls
  <2>5. Len(calls') = n - 1 /\ \A i \in 1..(n - 1) : calls'[i] = calls[i + 1]
    BY <2>2, <2>3, HeadTailProperties
  <2>6. 1 \in 1..n /\ Head(calls).arg = m
    BY <2>1, <2>3
  <2>7. source' = [source EXCEPT ![a] = m]
    BY <2>2, <2>4, <2>6, RegisterLast
  <2>8. ToSet(from_list[a]) \subseteq D
    <3>1. ToSet(Head(calls).todo) = {}
      BY <2>2 DEF ToSet
    <3> QED BY <2>1, <2>3, <2>6, <3>1
  <2> HIDE DEF n, a
  <2>9. \A x \in Analyzers : source'[x] = IF x = a THEN m ELSE source[x]
    BY <2>4, <2>7 DEF LinksInv, LinksType
  <2>10. ASSUME NEW i \in 1..(n - 1)
         PROVE  /\ calls'[i].arg = m
                /\ \A x \in ToSet(from_list'[calls'[i].of]) :
                      \/ x \in D \cup {a} \/ x \in ToSet(calls'[i].todo)
                      \/ i > 1 /\ x = calls'[i - 1].of
    <3>1. i + 1 \in 1..n /\ calls'[i] = calls[i + 1] /\ (i + 1) - 1 = i
      BY <2>3, <2>5
    <3>2. \A x \in ToSet(from_list[calls[i + 1].of]) :
             x \in D \/ x \in ToSet(calls[i + 1].todo) \/ x = calls[i].of
      BY <2>1, <3>1
    <3>3. calls[i].of = a \/ (i > 1 /\ calls[i].of = calls'[i - 1].of)
      <4>1. CASE i = 1
        BY <2>3, <4>1 DEF a
      <4>2. CASE i # 1
        <5>1. i - 1 \in 1..(n - 1) /\ (i - 1) + 1 = i /\ i > 1
          BY <2>3, <4>2
        <5> QED BY <2>5, <5>1
      <4> QED BY <4>1, <4>2
    <3> QED BY <2>1, <2>2, <3>1, <3>2, <3>3
  <2>11. \A i \in 1..Len(calls') :
            /\ calls'[i].arg = m
            /\ \A x \in ToSet(from_list'[calls'[i].of]) :
                  \/ x \in D \cup {a} \/ x \in ToSet(calls'[i].todo)
                  \/ i > 1 /\ x = calls'[i - 1].of
    BY <2>5, <2>10
  <2>12. PICK E : E = D \cup {a}
    OBVIOUS
  <2>13. Settled(E, m, source', from_list') /\ E \in SUBSET Made'
    <3>1. Made' = Made
      BY <2>2 DEF Made
    <3>2. ASSUME NEW x \in E
          PROVE  source'[x] = m /\ ToSet(from_list'[x]) \subseteq E
      BY <1>0, <2>1, <2>2, <2>4, <2>8, <2>9, <2>12, <3>2 DEF Settled
    <3> QED BY <2>4, <2>12, <3>1, <3>2 DEF Settled
  <2>14. \A i \in 1..Len(calls') :
            /\ calls'[i].arg = m
            /\ \A x \in ToSet(from_list'[calls'[i].of]) :
                  \/ x \in E \/ x \in ToSet(calls'[i].todo)
                  \/ i > 1 /\ x = calls'[i - 1].of
    BY <2>11, <2>12
  <2>15. \E D2 \in SUBSET Made' :
            /\ Settled(D2, m, source', from_list')
            /\ \A i \in 1..Len(calls') :
                  /\ calls'[i].arg = m
                  /\ \A x \in ToSet(from_list'[calls'[i].of]) :
                        \/ x \in D2 \/ x \in ToSet(calls'[i].todo)
                        \/ i > 1 /\ x = calls'[i - 1].of
    BY <2>13, <2>14
  <2> QED BY <2>15, Zenon DEF SettingInv
<1>6. CASE SameLinked
  <2>1. CASE calls' = calls
    <3>1. UNCHANGED <<class, from_list, source, calls>>
      BY <1>6, <2>1 DEF SameLinked
    <3>2. Made' = Made /\ Setting' = Setting
      BY <3>1 DEF Made, Setting
    <3> QED BY <3>1, <3>2 DEF SettingInv
  <2> QED BY <1>1, <1>6, <2>1 DEF SameLinked
<1> QED BY <1>1, <1>2, <1>4, <1>5, <1>6, LinkSteps

(* A call for none of E, on top of such calls; and a call that goes on.    *)
LEMMA OutOfDescend ==
  ASSUME LinksInv, Including, Head(calls).todo # <<>>, NEW E, OutOf(calls, E)
  PROVE  OutOf(Descend(<<>>), E) /\ Descend(<<>>) \in Seq(IncludeCalls)
<1> DEFINE rest == [Head(calls) EXCEPT !.todo = Tail(@)]
           d == Descend(<<>>)
           n == Len(calls)
<1>1. calls \in Seq(IncludeCalls) /\ calls # <<>> /\ Head(calls) \in IncludeCalls
  BY RunningInclude DEF Including
<1>2. n \in Nat \ {0} /\ Head(calls) = calls[1]
  BY <1>1, HeadTailProperties
<1>3. Tail(Head(calls).todo) \in Seq(Classes)
  <2>1. Head(calls).todo \in Seq(Classes)
    BY <1>1 DEF IncludeCalls
  <2> QED BY <2>1, HeadTailProperties
<1>4. rest \in IncludeCalls /\ rest.of = Head(calls).of /\ rest.fn = Head(calls).fn
  BY <1>1, <1>3 DEF IncludeCalls
<1>5. /\ d \in Seq(IncludeCalls) /\ Len(d) = n /\ d[1] = rest
      /\ \A i \in 2..n : d[i] = calls[i]
  <2>1. rest = [Head(calls) EXCEPT !.todo = Tail(@)]
    OBVIOUS
  <2> HIDE DEF rest
  <2> QED BY <1>1, <1>4, <2>1, DescendIs
<1> HIDE DEF d, n, rest
<1>6. \A i \in 1..n : i = 1 \/ i \in 2..n
  BY <1>2
<1>7. \A i \in 1..n : calls[i].fn = "include" => calls[i].of \notin E
  BY DEF OutOf, n
<1>8. 1 \in 1..n
  BY <1>2
<1>9. \A i \in 1..n : d[i].fn = "include" => d[i].of \notin E
  BY <1>2, <1>4, <1>5, <1>6, <1>7, <1>8
<1>10. OutOf(d, E)
  BY <1>5, <1>9 DEF OutOf
<1> QED BY <1>5, <1>10 DEF d

(* A new analyzer is none of E.                                            *)
LEMMA OutOfConstruct ==
  ASSUME LinksInv, NEW c \in Classes, NEW caller \in Seq(IncludeCalls), Construct(c, caller),
         NEW E \in SUBSET Made, OutOf(caller, E)
  PROVE  OutOf(calls', E)
<1> DEFINE a == Len(class) + 1
           call == Constructor(c, a)
           T == IncludeCalls \cup {call}
           n == Len(caller)
<1>1. a \notin Made /\ calls' = <<call>> \o caller
  BY ConstructIs
<1>2. call.of = a
  BY DEF Constructor, Call
<1>3. caller \in Seq(T) /\ call \in T /\ n \in Nat
  OBVIOUS
<1>4. \A i \in 1..n : caller[i].fn = "include" => caller[i].of \notin E
  BY DEF OutOf
<1> HIDE DEF T, call, a, n
<1>5. /\ Len(calls') = n + 1 /\ calls'[1] = call
      /\ \A i \in 1..n : calls'[i + 1] = caller[i]
  BY <1>1, <1>3, OnTop DEF n
<1>6. \A i \in 1..(n + 1) : i = 1 \/ (i - 1 \in 1..n /\ (i - 1) + 1 = i)
  BY <1>3
<1>7. \A i \in 1..(n + 1) : calls'[i].fn = "include" => calls'[i].of \notin E
  BY <1>1, <1>2, <1>4, <1>5, <1>6
<1> QED BY <1>5, <1>7 DEF OutOf

(* A call returns.                                                         *)
LEMMA OutOfRest ==
  ASSUME NEW T, NEW s \in Seq(T), s # <<>>, NEW E, OutOf(s, E)
  PROVE  OutOf(Tail(s), E)
<1>1. /\ Len(s) \in Nat \ {0} /\ Len(Tail(s)) = Len(s) - 1
      /\ \A i \in 1..(Len(s) - 1) : Tail(s)[i] = s[i + 1]
  BY HeadTailProperties
<1>2. \A i \in 1..(Len(s) - 1) : i + 1 \in 1..Len(s)
  BY <1>1
<1> QED BY <1>1, <1>2 DEF OutOf

(* Steps that leave alone the analyzer last given a source, and what it    *)
(* includes.                                                               *)
LEMMA LatestKept ==
  ASSUME LinksInv, LatestInv, latest' = latest, source' = source, Made \subseteq Made',
         \A a \in Made : class'[a] = class[a],
         \A m \in Monitors : to_list'[m] = to_list[m],
         \A E \in SUBSET Made :
             /\ latest \in E /\ \A x \in E \ {latest} : class[x] # "KPIManager"
             /\ Including => OutOf(calls, E)
             => /\ \A x \in E : from_list'[x] = from_list[x]
                /\ Including' => OutOf(calls', E)
  PROVE  LatestInv'
<1>1. CASE latest = Nobody
  BY <1>1 DEF LatestInv
<1>2. CASE latest # Nobody
  <2>1. /\ latest \in Made /\ source[latest] \in Monitors
        /\ Len(to_list[source[latest]]) \in Nat \ {0}
        /\ to_list[source[latest]][Len(to_list[source[latest]])] = latest
    BY <1>2 DEF LatestInv
  <2>2. PICK D \in SUBSET Made :
           /\ Settled(D, source[latest], source, from_list) /\ ToSet(from_list[latest]) \subseteq D
           /\ latest \notin D /\ \A x \in D : class[x] # "KPIManager"
           /\ Including => OutOf(calls, D \cup {latest})
    BY <1>2, Zenon DEF LatestInv
  <2>3. PICK E : E = D \cup {latest}
    OBVIOUS
  <2>4. /\ \A x \in E : from_list'[x] = from_list[x]
        /\ Including' => OutOf(calls', E)
    <3>1. E \in SUBSET Made /\ latest \in E /\ E \ {latest} \subseteq D
      BY <2>1, <2>3
    <3>2. \A x \in E \ {latest} : class[x] # "KPIManager"
      BY <2>2, <3>1
    <3>3. Including => OutOf(calls, E)
      BY <2>2, <2>3
    <3> QED BY <3>1, <3>2, <3>3
  <2>5. /\ latest' \in Made' /\ source'[latest'] \in Monitors
        /\ Len(to_list'[source'[latest']]) \in Nat \ {0}
        /\ to_list'[source'[latest']][Len(to_list'[source'[latest']])] = latest'
    BY <2>1
  <2>6. D \in SUBSET Made' /\ latest' \notin D /\ \A x \in D : class'[x] # "KPIManager"
    BY <2>2
  <2>7. Settled(D, source'[latest'], source', from_list')
    BY <2>2, <2>3, <2>4 DEF Settled
  <2>8. ToSet(from_list'[latest']) \subseteq D
    BY <2>2, <2>3, <2>4
  <2>9. Including' => OutOf(calls', D \cup {latest'})
    BY <2>3, <2>4
  <2> QED BY <2>5, <2>6, <2>7, <2>8, <2>9, Zenon DEF LatestInv
<1> QED BY <1>1, <1>2

(* What set_source has returned for is the analyzer last given a source:   *)
(* what it includes is of lower rank.                                      *)
LEMMA LatestSet ==
  ASSUME LinksInv, IncludedInv, SettingInv, Setting, SourceSet, ~Including'
  PROVE  LatestInv'
<1> DEFINE x == Head(calls).of
<1>1. /\ Head(calls).todo = <<>> /\ Register(x, Head(calls).arg)
      /\ latest' = x /\ UNCHANGED <<class, from_list>>
  BY DEF SourceSet
<1>2. calls \in Seq(SetCalls) /\ calls # <<>>
  BY RunningCalls DEF LinksInv, Setting
<1>3. Head(calls) \in SetCalls /\ Head(calls) = calls[1] /\ 1 \in 1..Len(calls)
  BY <1>2, HeadTailProperties
<1>4. x \in Made /\ Made \subseteq Analyzers
  BY <1>3, MadeAnalyzers DEF SetCalls, LinksInv
<1>5. PICK m \in Monitors, D \in SUBSET Made :
         /\ Settled(D, m, source, from_list)
         /\ \A i \in 1..Len(calls) :
               /\ calls[i].arg = m
               /\ \A y \in ToSet(from_list[calls[i].of]) :
                     \/ y \in D \/ y \in ToSet(calls[i].todo)
                     \/ i > 1 /\ y = calls[i - 1].of
  BY Zenon DEF SettingInv
<1>6. Head(calls).arg = m
  BY <1>3, <1>5
<1>7. ToSet(from_list[x]) \subseteq D
  <2>1. ToSet(Head(calls).todo) = {}
    BY <1>1 DEF ToSet
  <2> QED BY <1>3, <1>5, <2>1
<1> HIDE DEF x
<1>8. /\ source' = [source EXCEPT ![x] = m]
      /\ Len(to_list'[m]) \in Nat \ {0} /\ to_list'[m][Len(to_list'[m])] = x
  BY <1>1, <1>4, <1>6, RegisterLast
<1>9. \A y \in Analyzers : source'[y] = IF y = x THEN m ELSE source[y]
  BY <1>4, <1>8 DEF LinksInv, LinksType
<1>10. \A y \in Made : class[y] \in Classes /\ Rank(class[y]) \in 0..3
  <2>1. \A y \in Made : class[y] \in Classes
    BY DEF LinksInv, LinksType, Made
  <2> QED BY <2>1, IncludableIs
<1>11. \A y \in Made : \A z \in ToSet(from_list[y]) : Rank(class[z]) < Rank(class[y])
  BY <1>10, IncludableIs DEF IncludedInv
<1>12. PICK E : E = {d \in D : Rank(class[d]) < Rank(class[x])}
  OBVIOUS
<1>13. E \in SUBSET Made /\ x \notin E
  <2>1. ~(Rank(class[x]) < Rank(class[x]))
    BY <1>4, <1>10
  <2> QED BY <1>12, <2>1
<1>14. ToSet(from_list[x]) \subseteq E
  BY <1>4, <1>7, <1>11, <1>12
<1>15. ASSUME NEW d \in E
       PROVE  source'[d] = m /\ ToSet(from_list[d]) \subseteq E /\ class[d] # "KPIManager"
  <2>1. d \in D /\ d \in Made /\ Rank(class[d]) < Rank(class[x]) /\ d # x
    BY <1>12, <1>13
  <2>2. source'[d] = m /\ ToSet(from_list[d]) \subseteq D
    BY <1>4, <1>5, <1>9, <2>1 DEF Settled
  <2>3. ASSUME NEW z \in ToSet(from_list[d])
        PROVE  z \in E
    <3>1. z \in D /\ z \in Made /\ Rank(class[z]) < Rank(class[d])
      BY <1>11, <2>1, <2>2
    <3>2. Rank(class[z]) < Rank(class[x])
      BY <1>4, <1>10, <2>1, <3>1
    <3> QED BY <1>12, <3>1, <3>2
  <2>4. Rank(class[d]) # 3
    BY <1>4, <1>10, <2>1
  <2> QED BY <2>2, <2>3, <2>4, IncludableIs
<1>16. source'[latest'] = m /\ latest' \in Made'
  BY <1>1, <1>4, <1>9 DEF Made, x
<1>17. /\ latest' \in Made' /\ source'[latest'] \in Monitors
       /\ Len(to_list'[source'[latest']]) \in Nat \ {0}
       /\ to_list'[source'[latest']][Len(to_list'[source'[latest']])] = latest'
  BY <1>1, <1>8, <1>16 DEF x
<1>18. Settled(E, source'[latest'], source', from_list')
  BY <1>1, <1>15, <1>16 DEF Settled
<1>19. /\ E \in SUBSET Made' /\ ToSet(from_list'[latest']) \subseteq E
       /\ latest' \notin E /\ \A d \in E : class'[d] # "KPIManager"
  BY <1>1, <1>13, <1>14, <1>15 DEF Made, x
<1> QED BY <1>17, <1>18, <1>19, Zenon DEF LatestInv

(* Every step leaves the analyzer last given a source with its own.        *)
LEMMA LatestNext ==
  ASSUME LinksInv, IncludedInv, SettingInv, LatestInv, [Next]_vars
  PROVE  LatestInv'
<1>0. Made \subseteq Analyzers /\ Monitors \cap Analyzers = {}
  BY MadeAnalyzers DEF LinksInv
<1>1. ASSUME UNCHANGED <<class, from_list, to_list, source, latest>>, ~Including'
      PROVE  LatestInv'
  <2>1. Made' = Made
    BY <1>1 DEF Made
  <2> QED BY <1>1, <2>1, LatestKept
<1>2. ASSUME NEW c \in Classes, NEW caller \in Seq(IncludeCalls), Constructed(c, caller)
      PROVE  LatestInv'
  <2>1. /\ Made \subseteq Made' /\ \A b \in Made : class'[b] = class[b]
        /\ UNCHANGED <<from_list, to_list, source, latest>>
    BY <1>2, ConstructIs DEF Constructed
  <2>2. ASSUME NEW E \in SUBSET Made, Including => OutOf(calls, E)
        PROVE  OutOf(calls', E)
    <3>1. OutOf(caller, E)
      <4>1. CASE caller = <<>>
        BY <4>1 DEF OutOf
      <4>2. CASE Including /\ caller = calls
        BY <2>2, <4>2
      <4>3. CASE Including /\ Head(calls).todo # <<>> /\ caller = Descend(<<>>)
        BY <2>2, <4>3, OutOfDescend
      <4> QED BY <1>2, <4>1, <4>2, <4>3 DEF Constructed
    <3> QED BY <1>2, <3>1, OutOfConstruct DEF Constructed
  <2> QED BY <2>1, <2>2, LatestKept
<1>3. CASE Linked
  <2> DEFINE e == Head(calls).of
             other == analyzer_array[Head(Head(calls).todo)]
  <2>1. /\ Including /\ Head(calls).fn = "include" /\ Head(calls).todo # <<>>
        /\ other # Nobody /\ calls' = Descend(<<>>) /\ UNCHANGED <<class, source, latest>>
        /\ from_list' = [from_list EXCEPT ![e] = AppendNew(@, other)]
        /\ to_list' = [to_list EXCEPT ![other] = AppendNew(@, e)]
    BY <1>3 DEF Linked, Link
  <2>2. /\ calls \in Seq(IncludeCalls) /\ calls # <<>>
        /\ e \in Made /\ Head(Head(calls).todo) \in Classes
    BY <2>1, RunningInclude DEF Including
  <2>3. other \in Made
    BY <2>1, <2>2 DEF LinksInv, LinksType
  <2>4. Head(calls) = calls[1] /\ 1 \in 1..Len(calls)
    BY <2>2, HeadTailProperties
  <2>5. Made' = Made
    BY <2>1 DEF Made
  <2>6. e = calls[1].of
    BY <2>4
  <2> HIDE DEF e, other
  <2>7. \A m \in Monitors : to_list'[m] = to_list[m]
    BY <1>0, <2>1, <2>3 DEF LinksInv, LinksType, Elements
  <2>8. ASSUME NEW E \in SUBSET Made, Including => OutOf(calls, E)
        PROVE  /\ \A x \in E : from_list'[x] = from_list[x]
               /\ OutOf(calls', E)
    <3>1. OutOf(calls, E)
      BY <2>1, <2>8
    <3>2. e \notin E
      BY <2>1, <2>4, <2>6, <3>1 DEF OutOf
    <3>3. \A x \in E : x \in Analyzers /\ x # e
      BY <1>0, <3>2
    <3>4. \A x \in E : from_list'[x] = from_list[x]
      BY <2>1, <3>3 DEF LinksInv, LinksType
    <3> QED BY <2>1, <3>1, <3>4, OutOfDescend
  <2> QED BY <2>1, <2>5, <2>7, <2>8, LatestKept
<1>4. ASSUME NEW a \in Made, NEW c \in Kpis, EnableKpi(a, c)
      PROVE  LatestInv'
  <2> DEFINE call == Call("include", a, Nobody, <<c>>)
  <2>1. /\ calls' = <<call>> /\ UNCHANGED <<class, from_list, to_list, source>>
        /\ class[a] = "KPIManager"
        /\ latest' = IF latest = a THEN Nobody ELSE latest
    BY <1>4 DEF EnableKpi
  <2>2. CASE latest = a
    BY <2>1, <2>2 DEF LatestInv
  <2>3. CASE latest # a
    <3>1. call.of = a
      BY DEF Call
    <3> HIDE DEF call
    <3>2. ASSUME NEW E \in SUBSET Made, latest \in E,
                 \A x \in E \ {latest} : class[x] # "KPIManager"
          PROVE  OutOf(calls', E)
      <4>1. a \notin E
        BY <2>1, <2>3, <3>2
      <4>2. Len(calls') = 1 /\ calls'[1] = call
        BY <2>1
      <4> QED BY <3>1, <4>1, <4>2 DEF OutOf
    <3>3. Made' = Made
      BY <2>1 DEF Made
    <3> QED BY <2>1, <2>3, <3>2, <3>3, LatestKept
  <2> QED BY <2>2, <2>3
<1>5. CASE Including /\ Return
  <2>1. /\ calls \in Seq(IncludeCalls) /\ calls # <<>> /\ calls' = Tail(calls)
        /\ UNCHANGED <<class, from_list, to_list, source, latest>>
    BY <1>5, RunningCalls DEF Including, Return, LinksInv, linkVars
  <2>2. ASSUME NEW E \in SUBSET Made, Including => OutOf(calls, E)
        PROVE  OutOf(calls', E)
    <3>1. OutOf(calls, E)
      BY <1>5, <2>2
    <3> QED BY <2>1, <3>1, OutOfRest
  <2>3. Made' = Made
    BY <2>1 DEF Made
  <2> QED BY <2>1, <2>2, <2>3, LatestKept
<1>6. CASE ~Including' /\ Setting /\ SourceSet
  BY <1>6, LatestSet
<1>7. CASE ~Including' /\ (set_source \/ \E a \in Made, m \in Monitors : SetSource(a, m))
  BY <1>1, <1>7 DEF set_source, SetSource, linkVars
<1>8. CASE SameLinked
  <2>1. CASE calls' = calls
    <3>1. Made' = Made /\ Including' = Including
      BY <1>8, <2>1 DEF SameLinked, Made, Including
    <3> QED BY <1>8, <2>1, <3>1, LatestKept DEF SameLinked
  <2>2. CASE ~Including'
    BY <1>1, <1>8, <2>2 DEF SameLinked
  <2> QED BY <1>8, <2>1, <2>2 DEF SameLinked
<1> QED BY <1>2, <1>3, <1>4, <1>5, <1>6, <1>7, <1>8, LinkSteps

(* What the analyzer last given a source includes has that source, and is  *)
(* before it in what the source sends to.                                  *)
LEMMA LatestIsLast ==
  ASSUME LinksInv, LatestInv
  PROVE  TopHearsLast
<1> SUFFICES ASSUME latest # Nobody, NEW a \in Below[latest]
             PROVE  /\ source[a] = source[latest]
                    /\ Position(to_list[source[latest]], a)
                          < Position(to_list[source[latest]], latest)
  BY Zenon DEF TopHearsLast
<1> DEFINE m == source[latest]
           list == to_list[m]
           n == Len(list)
<1>1. latest \in Made /\ m \in Monitors /\ n \in Nat \ {0} /\ list[n] = latest
  BY DEF LatestInv
<1>2. PICK D \in SUBSET Made :
         Settled(D, m, source, from_list) /\ ToSet(from_list[latest]) \subseteq D /\ latest \notin D
  BY Zenon DEF LatestInv
<1>3. Made \subseteq Analyzers
  BY MadeAnalyzers DEF LinksInv
<1>4. a \in D
  <2>1. \A d \in D : ToSet(from_list[d]) \subseteq D
    BY <1>2 DEF Settled
  <2> QED BY <1>1, <1>2, <1>3, <2>1, BelowIn
<1>5. source[a] = m /\ a # latest /\ a \in Analyzers
  BY <1>2, <1>3, <1>4 DEF Settled
<1> HIDE DEF m
<1>6. a \in ToSet(list)
  BY <1>1, <1>5 DEF LinksInv, EndsAgree
<1>7. list \in Seq(Made) /\ \A j, k \in 1..n : list[j] = list[k] => j = k
  <2>1. list \in Lists(Made)
    BY <1>1 DEF LinksInv, LinksType, Elements
  <2> QED BY <2>1 DEF Lists, IsInjective
<1> HIDE DEF list
<1>8. \E k \in 1..n : list[k] = a
  BY <1>6, <1>7, InToSet
<1>9. Position(list, a) \in 1..n /\ list[Position(list, a)] = a
  BY <1>8 DEF Position
<1>10. Position(list, latest) \in 1..n /\ list[Position(list, latest)] = latest
  <2>1. n \in 1..n
    BY <1>1
  <2> QED BY <1>1, <2>1 DEF Position
<1> HIDE DEF n
<1>11. Position(list, latest) = n
  <2>1. n \in 1..n
    BY <1>1
  <2> QED BY <1>1, <1>7, <1>10, <2>1
<1>12. Position(list, a) # n
  BY <1>1, <1>5, <1>9
<1>13. Position(list, a) < Position(list, latest)
  BY <1>1, <1>9, <1>11, <1>12
<1> QED BY <1>5, <1>13 DEF m, list

(* Once set_source has returned, the same source drives all that the       *)
(* analyzer includes, directly or not, and each hears before it does.      *)
THEOREM AnalyzersTopHearsLast == Spec => []TopHearsLast
<1> DEFINE Inv == TypeInv /\ IncludedInv /\ SettingInv /\ LatestInv
<1>1. Init => Inv
  <2> SUFFICES ASSUME Init PROVE Inv
    OBVIOUS
  <2>1. TypeInv /\ IncludedInv
    BY TypeInit, IncludedInit
  <2>2. ~Setting /\ latest = Nobody
    BY DEF Init, Setting
  <2> QED BY <2>1, <2>2 DEF SettingInv, LatestInv
<1>2. Inv /\ [Next]_vars => Inv'
  <2> SUFFICES ASSUME TypeInv, IncludedInv, SettingInv, LatestInv, [Next]_vars PROVE Inv'
    OBVIOUS
  <2>1. LinksInv /\ NamesAgree
    BY DEF TypeInv
  <2>2. TypeInv'
    BY TypeNext
  <2>3. IncludedInv' /\ SettingInv' /\ LatestInv'
    BY <2>1, IncludedNext, SettingNext, LatestNext
  <2> QED BY <2>2, <2>3
<1>3. Inv => TopHearsLast
  BY LatestIsLast DEF TypeInv
<1> QED BY <1>1, <1>2, <1>3, PTL DEF Spec
=============================================================================
