-------------------------- MODULE SchemeRunProofs --------------------------
(***************************************************************************)
(* The exit code, the vouching and the grounding of SchemeRun, for every       *)
(* scheme, every number of findings and every answer.                           *)
(***************************************************************************)
EXTENDS SchemeRun, FiniteSetTheorems, TLAPS

AnswerEntry == [query : Nat, sub : Nat, on : SUBSET Names, answer : Answers]

TypeOK ==
  /\ scheme \in Schemes
  /\ pc \in {"scheme", "refused", "configs", "queries", "query", "running", "done", "raised"}
  /\ at \in Nat \ {0} /\ sub \in Nat \ {0} /\ global_res \in Nat /\ network_configs \subseteq Names
  /\ tracker \in BOOLEAN /\ full \in BOOLEAN
  /\ acc \in [result : Nat, notExecuted : Nat]
  /\ last \in [res : Nat, comparing_err : {0, 1}, not_executed : Nat]
  /\ found \in Seq(Findings \cup {Failed})
  /\ answered \in Seq(AnswerEntry)
  /\ different \subseteq Nat \X Nat

\* run_queries has begun: every configuration is there.
Querying == pc \in {"queries", "query", "running", "done"}
\* The sub-query has run to its end, or is running.
Ended(q, k) == q < at \/ (q = at /\ k < sub /\ pc \in {"query", "running"})
Running(q, k) == pc = "running" /\ q = at /\ k = sub

\* Where the run is in the scheme, and how far the history has come.
InPlace ==
  /\ Len(found) <= Len(scheme.configs)
  /\ pc \in {"scheme", "refused", "configs"} => answered = << >> /\ different = {}
  /\ pc \in {"scheme", "configs"} => Len(found) = at - 1 /\ at <= Len(scheme.configs) + 1
  /\ Querying => Len(found) = Len(scheme.configs) /\ at <= Len(scheme.queries) + 1
  /\ pc \in {"query", "running"} => at <= Len(scheme.queries) /\ sub <= Len(query.subs) + 1
  /\ pc = "running" => sub <= Len(query.subs)
  /\ pc = "done" => at = Len(scheme.queries) + 1

\* Every answer is of a sub-query of the scheme that has run or is running, and the
\* queries answer in their order.
HistoryFits ==
  /\ \A i \in DOMAIN answered :
       /\ answered[i].query \in DOMAIN scheme.queries
       /\ answered[i].sub \in DOMAIN scheme.queries[answered[i].query].subs
       /\ Querying => \/ Ended(answered[i].query, answered[i].sub)
                      \/ Running(answered[i].query, answered[i].sub)
       /\ \A j \in DOMAIN answered : j < i => answered[j].query <= answered[i].query
  /\ \A q, k \in Nat : Querying /\ <<q, k>> \in different => Ended(q, k)

\* A sub-query has answers for each of its iterations, the ones it has left excepted.
SubQueryOf(sch, q, k) == sch.queries[q].subs[k]
Comparing(sch, q, k) ==
  SubQueryOf(sch, q, k).kind \in SingleKinds \/ Len(SubQueryOf(sch, q, k).configs) > 1
Answered(sch, a, q, k, left) ==
  \A t \in Iterations(SubQueryOf(sch, q, k)) \ left :
    \E i \in DOMAIN a : /\ a[i].query = q /\ a[i].sub = k
                        /\ a[i].on = On(SubQueryOf(sch, q, k), t)
EveryIteration ==
  Querying =>
    \A q \in DOMAIN scheme.queries : \A k \in DOMAIN scheme.queries[q].subs :
      /\ Ended(q, k) \/ Running(q, k) => Comparing(scheme, q, k)
      /\ Ended(q, k) => Answered(scheme, answered, q, k, {})
      /\ Running(q, k) => Answered(scheme, answered, q, k, todo)

\* The sums and the counts of the properties, over the history they are told of.
UnitsIn(a, q, k, f) ==
  UNION {{i} \X (1 .. a[i].answer[f]) : i \in {j \in DOMAIN a : a[j].query = q /\ a[j].sub = k}}
Total(a, q, k, f) == Cardinality(UnitsIn(a, q, k, f))
WarningsIn(sch, f) ==
  {i \in DOMAIN f : /\ f[i] # Failed /\ sch.configs[i].expectedWarnings # Unspecified
                    /\ sch.configs[i].expectedWarnings # f[i]}
ErrorsIn(sch, f) ==
  {i \in DOMAIN f : sch.configs[i].expectedError = IF f[i] = Failed THEN 0 ELSE 1}
ConfigCount(sch, f) == Cardinality(WarningsIn(sch, f)) + Cardinality(ErrorsIn(sch, f))
SubsOf(sch, q) == Len(sch.queries[q].subs)
ResultsIn(sch, a, n) ==
  {q \in 1 .. n : sch.queries[q].expected \notin {Unspecified, Total(a, q, SubsOf(sch, q), "result")}}
SkipsIn(sch, a, n) ==
  {q \in 1 .. n : sch.queries[q].expectedNotExecuted # Total(a, q, SubsOf(sch, q), "notExecuted")}
OutputsIn(sch, d, n) == {q \in 1 .. n : <<q, SubsOf(sch, q)>> \in d}
QueryCount(sch, a, d, n) ==
  Cardinality(ResultsIn(sch, a, n)) + Cardinality(SkipsIn(sch, a, n)) + Cardinality(OutputsIn(sch, d, n))

\* What was counted so far, and what the running and the last sub-query add up to.
Counted ==
  /\ pc \in {"scheme", "configs"} => global_res = ConfigCount(scheme, found)
  /\ Querying =>
       global_res = ConfigCount(scheme, found) + QueryCount(scheme, answered, different, at - 1)
  /\ pc = "running" => /\ acc.result = Total(answered, at, sub, "result")
                       /\ acc.notExecuted = Total(answered, at, sub, "notExecuted")
  /\ pc = "query" => /\ last.res = Total(answered, at, sub - 1, "result")
                     /\ last.not_executed = Total(answered, at, sub - 1, "notExecuted")
                     /\ last.comparing_err = One(<<at, sub - 1>> \in different)

\* What is stored is what could be parsed, and the answers are about nothing else.
Grounded ==
  /\ network_configs = Built
  /\ \A i \in DOMAIN answered : answered[i].on \subseteq Built
  /\ pc \notin {"scheme", "refused"} =>
       /\ SafeToExplain(scheme.queries)
       /\ tracker = \E i \in DOMAIN scheme.queries : scheme.queries[i].html

IInv == TypeOK /\ InPlace /\ HistoryFits /\ EveryIteration /\ Counted /\ Grounded
-----------------------------------------------------------------------------
(***************************************************************************)
(* Sums over the answers, as numbers of units.                              *)
(***************************************************************************)
Fields == {"result", "notExecuted"}

\* What an answer holds are numbers.
LEMMA EntryFields ==
  ASSUME NEW e \in AnswerEntry
  PROVE  /\ e.query \in Nat /\ e.sub \in Nat /\ e.on \subseteq Names /\ e.answer \in Answers
         /\ e.answer.result \in Nat /\ e.answer.notExecuted \in {0, 1}
         /\ \A f \in Fields : e.answer[f] \in Nat
<1>1. e.answer \in [result : Nat, notExecuted : {0, 1}]
  BY SchemeAssumption DEF AnswerEntry
<1>2. e.answer["result"] \in Nat /\ e.answer["notExecuted"] \in Nat
  BY <1>1
<1> QED
  BY <1>1, <1>2 DEF AnswerEntry, Fields

\* A unit is one of those of an answer of the sub-query.
LEMMA UnitsAre ==
  ASSUME NEW a, NEW q, NEW k, NEW f, NEW v
  PROVE  v \in UnitsIn(a, q, k, f) <=>
           \E i \in DOMAIN a : /\ a[i].query = q /\ a[i].sub = k
                               /\ v \in {i} \X (1 .. a[i].answer[f])
BY DEF UnitsIn

\* An answer of m units has m units.
LEMMA UnitsOfOne ==
  ASSUME NEW i, NEW m \in Nat
  PROVE  IsFiniteSet({i} \X (1 .. m)) /\ Cardinality({i} \X (1 .. m)) = m
<1>1. IsFiniteSet(1 .. m) /\ Cardinality(1 .. m) = m
  BY FS_Interval
<1>2. IsFiniteSet({i}) /\ Cardinality({i}) = 1
  BY FS_Singleton
<1>3. IsFiniteSet({i} \X (1 .. m)) /\ Cardinality({i} \X (1 .. m)) = 1 * m
  BY <1>1, <1>2, FS_Product
<1> QED
  BY <1>3

\* The units of a sub-query are finitely many.
LEMMA UnitsFinite ==
  ASSUME NEW a \in Seq(AnswerEntry), NEW q, NEW k, NEW f \in Fields
  PROVE  IsFiniteSet(UnitsIn(a, q, k, f)) /\ Total(a, q, k, f) \in Nat
<1> DEFINE Is == {j \in DOMAIN a : a[j].query = q /\ a[j].sub = k}
           Own == [i \in Is |-> {i} \X (1 .. a[i].answer[f])]
           Spans == {{i} \X (1 .. a[i].answer[f]) : i \in Is}
<1>1. IsFiniteSet(Is)
  <2>1. DOMAIN a = 1 .. Len(a) /\ Len(a) \in Nat
    OBVIOUS
  <2>2. IsFiniteSet(1 .. Len(a))
    BY <2>1, FS_Interval
  <2> QED
    BY <2>1, <2>2, FS_Subset
<1>2. Own \in Surjection(Is, Spans)
  BY DEF Surjection
<1>3. IsFiniteSet(Spans)
  <2> HIDE DEF Is, Own, Spans
  <2> QED
    BY <1>1, <1>2, FS_Surjection
<1>4. \A T \in Spans : IsFiniteSet(T)
  <2> SUFFICES ASSUME NEW i \in Is PROVE IsFiniteSet({i} \X (1 .. a[i].answer[f]))
    OBVIOUS
  <2>1. a[i] \in AnswerEntry
    OBVIOUS
  <2>2. a[i].answer[f] \in Nat
    BY <2>1, EntryFields
  <2> QED
    BY <2>2, UnitsOfOne
<1>5. IsFiniteSet(UNION Spans)
  <2> HIDE DEF Spans
  <2> QED
    BY <1>3, <1>4, FS_UNION
<1>6. UNION Spans = UnitsIn(a, q, k, f)
  BY DEF UnitsIn
<1> QED
  BY <1>5, <1>6, FS_CardinalityType DEF Total

\* Another answer of the sub-query adds what it holds.
LEMMA TotalGrows ==
  ASSUME NEW a \in Seq(AnswerEntry), NEW e \in AnswerEntry, NEW f \in Fields
  PROVE  Total(Append(a, e), e.query, e.sub, f) = Total(a, e.query, e.sub, f) + e.answer[f]
<1> DEFINE n == Len(a) + 1
           b == Append(a, e)
           Old == UnitsIn(a, e.query, e.sub, f)
           New == {n} \X (1 .. e.answer[f])
<1>1. /\ Len(a) \in Nat /\ DOMAIN a = 1 .. Len(a) /\ DOMAIN b = 1 .. n
      /\ \A i \in 1 .. Len(a) : b[i] = a[i]
      /\ b[n] = e
  OBVIOUS
<1>2. e.answer[f] \in Nat
  BY EntryFields
<1>3. UnitsIn(b, e.query, e.sub, f) = Old \cup New
  <2> SUFFICES ASSUME NEW v
               PROVE  v \in UnitsIn(b, e.query, e.sub, f) <=> v \in Old \/ v \in New
    OBVIOUS
  <2> HIDE DEF b, New
  <2>1. v \in UnitsIn(b, e.query, e.sub, f) <=>
          \E i \in DOMAIN b : /\ b[i].query = e.query /\ b[i].sub = e.sub
                              /\ v \in {i} \X (1 .. b[i].answer[f])
    BY UnitsAre
  <2>2. v \in Old <=> \E i \in DOMAIN a : /\ a[i].query = e.query /\ a[i].sub = e.sub
                                          /\ v \in {i} \X (1 .. a[i].answer[f])
    BY UnitsAre
  <2>3. v \in New <=> v \in {n} \X (1 .. b[n].answer[f])
    BY <1>1 DEF New
  <2>4. \A i : i \in DOMAIN b <=> i \in DOMAIN a \/ i = n
    BY <1>1
  <2>5. \A i \in DOMAIN a : b[i] = a[i]
    BY <1>1
  <2>6. b[n].query = e.query /\ b[n].sub = e.sub
    BY <1>1
  <2> HIDE DEF n, Old
  <2> QED
    BY <2>1, <2>2, <2>3, <2>4, <2>5, <2>6, ZenonT(30)
<1>4. Old \cap New = {}
  <2> SUFFICES ASSUME NEW v \in Old, v \in New PROVE FALSE
    OBVIOUS
  <2>1. PICK i \in DOMAIN a : v \in {i} \X (1 .. a[i].answer[f])
    BY UnitsAre
  <2>2. v[1] = i /\ v[1] = n
    BY <2>1
  <2> QED
    BY <2>2, <1>1
<1>5. IsFiniteSet(New) /\ Cardinality(New) = e.answer[f]
  BY <1>2, UnitsOfOne
<1>6. IsFiniteSet(Old) /\ Cardinality(Old) \in Nat
  BY UnitsFinite DEF Total
<1>7. Cardinality(Old \cup New) = Cardinality(Old) + Cardinality(New) - Cardinality({})
  <2> HIDE DEF Old, New
  <2> QED
    BY <1>4, <1>5, <1>6, FS_Union
<1>8. Cardinality(UnitsIn(b, e.query, e.sub, f)) = Cardinality(Old) + e.answer[f]
  <2> HIDE DEF Old, New
  <2> QED
    BY <1>2, <1>3, <1>5, <1>6, <1>7, FS_EmptySet
<1> QED
  BY <1>8 DEF Total

\* An answer of another sub-query adds nothing.
LEMMA TotalStays ==
  ASSUME NEW a \in Seq(AnswerEntry), NEW e \in AnswerEntry, NEW q, NEW k, NEW f,
         ~(e.query = q /\ e.sub = k)
  PROVE  Total(Append(a, e), q, k, f) = Total(a, q, k, f)
<1> DEFINE n == Len(a) + 1
           b == Append(a, e)
<1>1. /\ Len(a) \in Nat /\ DOMAIN a = 1 .. Len(a) /\ DOMAIN b = 1 .. n
      /\ \A i \in 1 .. Len(a) : b[i] = a[i]
      /\ b[n] = e
  OBVIOUS
<1>2. \A i : i \in DOMAIN b <=> i \in DOMAIN a \/ i = n
  BY <1>1
<1>3. \A i \in DOMAIN a : b[i] = a[i]
  BY <1>1
<1>4. UnitsIn(b, q, k, f) = UnitsIn(a, q, k, f)
  <2> SUFFICES ASSUME NEW v
               PROVE  v \in UnitsIn(b, q, k, f) <=> v \in UnitsIn(a, q, k, f)
    OBVIOUS
  <2> HIDE DEF b, n
  <2>1. v \in UnitsIn(b, q, k, f) <=>
          \E i \in DOMAIN b : /\ b[i].query = q /\ b[i].sub = k
                              /\ v \in {i} \X (1 .. b[i].answer[f])
    BY UnitsAre
  <2>2. v \in UnitsIn(a, q, k, f) <=>
          \E i \in DOMAIN a : /\ a[i].query = q /\ a[i].sub = k
                              /\ v \in {i} \X (1 .. a[i].answer[f])
    BY UnitsAre
  <2> QED
    BY <2>1, <2>2, <1>1, <1>2, <1>3, ZenonT(30)
<1> QED
  BY <1>4 DEF Total

\* A sub-query without answers adds up to nothing.
LEMMA TotalNone ==
  ASSUME NEW a, NEW q, NEW k, NEW f, \A i \in DOMAIN a : ~(a[i].query = q /\ a[i].sub = k)
  PROVE  Total(a, q, k, f) = 0
<1>1. UnitsIn(a, q, k, f) = {}
  BY UnitsAre
<1> QED
  BY <1>1, FS_EmptySet DEF Total

\* The iterations that were not executed are counted one by one.
LEMMA SkipsCount ==
  ASSUME NEW a \in Seq(AnswerEntry), NEW q, NEW k
  PROVE  Cardinality({i \in {j \in DOMAIN a : a[j].query = q /\ a[j].sub = k} :
                        a[i].answer.notExecuted = 1}) = Total(a, q, k, "notExecuted")
<1> DEFINE Is == {i \in {j \in DOMAIN a : a[j].query = q /\ a[j].sub = k} :
                    a[i].answer.notExecuted = 1}
           Us == UnitsIn(a, q, k, "notExecuted")
           g == [i \in Is |-> <<i, 1>>]
<1>1. \A i \in DOMAIN a : a[i].answer.notExecuted \in {0, 1}
  <2> SUFFICES ASSUME NEW i \in DOMAIN a PROVE a[i].answer.notExecuted \in {0, 1}
    OBVIOUS
  <2>1. a[i] \in AnswerEntry
    OBVIOUS
  <2> QED
    BY <2>1, EntryFields
<1>2. \A i \in Is : <<i, 1>> \in Us
  <2> SUFFICES ASSUME NEW i \in Is PROVE <<i, 1>> \in Us
    OBVIOUS
  <2>1. <<i, 1>> \in {i} \X (1 .. a[i].answer["notExecuted"])
    OBVIOUS
  <2> QED
    BY <2>1, UnitsAre
<1>3. \A v \in Us : \E i \in Is : v = <<i, 1>>
  <2> SUFFICES ASSUME NEW v \in Us PROVE \E i \in Is : v = <<i, 1>>
    OBVIOUS
  <2>1. PICK i \in DOMAIN a : /\ a[i].query = q /\ a[i].sub = k
                              /\ v \in {i} \X (1 .. a[i].answer["notExecuted"])
    BY UnitsAre
  <2>2. a[i].answer.notExecuted = 1
    BY <2>1, <1>1
  <2>3. v = <<i, 1>>
    BY <2>1, <2>2
  <2> QED
    BY <2>1, <2>2, <2>3
<1>4. g \in Bijection(Is, Us)
  <2> HIDE DEF Us, Is
  <2>1. g \in [Is -> Us]
    BY <1>2
  <2>2. \A i, j \in Is : g[i] = g[j] => i = j
    OBVIOUS
  <2>3. \A v \in Us : \E i \in Is : g[i] = v
    BY <1>3
  <2> QED
    BY <2>1, <2>2, <2>3 DEF Bijection, Injection, Surjection, IsInjective
<1>5. IsFiniteSet(Is)
  <2>1. DOMAIN a = 1 .. Len(a) /\ Len(a) \in Nat
    OBVIOUS
  <2>2. IsFiniteSet(1 .. Len(a))
    BY <2>1, FS_Interval
  <2>3. Is \in SUBSET (1 .. Len(a))
    BY <2>1
  <2> QED
    BY <2>2, <2>3, FS_Subset
<1>6. Cardinality(Us) = Cardinality(Is)
  <2> HIDE DEF Us, Is, g
  <2>1. ExistsBijection(Is, Us)
    BY <1>4 DEF ExistsBijection
  <2> QED
    BY <2>1, <1>5, FS_Bijection
<1> QED
  BY <1>6 DEF Total
-----------------------------------------------------------------------------
-----------------------------------------------------------------------------
(***************************************************************************)
(* Counts of the expectations that are contradicted.                        *)
(***************************************************************************)
\* A set of numbers with one more candidate has one more element, or none.
LEMMA CountOne ==
  ASSUME NEW S, IsFiniteSet(S), NEW x, x \notin S, NEW T, NEW c \in BOOLEAN,
         T = IF c THEN S \cup {x} ELSE S
  PROVE  Cardinality(T) = Cardinality(S) + One(c) /\ Cardinality(S) \in Nat
<1>1. Cardinality(S) \in Nat
  BY FS_CardinalityType
<1>2. CASE c
  BY <1>1, <1>2, FS_AddElement DEF One
<1>3. CASE ~c
  BY <1>1, <1>3 DEF One
<1> QED
  BY <1>1, <1>2, <1>3

\* What the entries of a scheme are made of.
LEMMA SchemeShape ==
  ASSUME NEW sch \in Schemes
  PROVE  /\ sch.configs \in Seq(ConfigEntry) /\ sch.queries \in Seq(QueryEntry)
         /\ \A q \in DOMAIN sch.queries :
              /\ sch.queries[q].subs \in Seq(SubQuery) /\ sch.queries[q].expectedNotExecuted \in Nat
              /\ SubsOf(sch, q) \in Nat /\ DOMAIN sch.queries[q].subs = 1 .. SubsOf(sch, q)
<1>1. sch \in [configs : Seq(ConfigEntry), queries : Seq(QueryEntry)]
  BY SchemeAssumption
<1>2. sch.configs \in Seq(ConfigEntry) /\ sch.queries \in Seq(QueryEntry)
  BY <1>1
<1>3. ASSUME NEW q \in DOMAIN sch.queries
      PROVE  /\ sch.queries[q].subs \in Seq(SubQuery) /\ sch.queries[q].expectedNotExecuted \in Nat
             /\ SubsOf(sch, q) \in Nat /\ DOMAIN sch.queries[q].subs = 1 .. SubsOf(sch, q)
  <2>1. sch.queries[q] \in QueryEntry
    BY <1>2
  <2>2. sch.queries[q].subs \in Seq(SubQuery) /\ sch.queries[q].expectedNotExecuted \in Nat
    BY <2>1 DEF QueryEntry
  <2> QED
    BY <2>2 DEF SubsOf
<1> QED
  BY <1>2, <1>3

\* The count of configurations is made of two numbers.
LEMMA ConfigCountType ==
  ASSUME NEW sch, NEW S, NEW f \in Seq(S)
  PROVE  /\ IsFiniteSet(WarningsIn(sch, f)) /\ Cardinality(WarningsIn(sch, f)) \in Nat
         /\ IsFiniteSet(ErrorsIn(sch, f)) /\ Cardinality(ErrorsIn(sch, f)) \in Nat
         /\ ConfigCount(sch, f) \in Nat
<1>1. DOMAIN f = 1 .. Len(f) /\ Len(f) \in Nat
  OBVIOUS
<1>2. IsFiniteSet(1 .. Len(f))
  BY <1>1, FS_Interval
<1>3. WarningsIn(sch, f) \in SUBSET (1 .. Len(f)) /\ ErrorsIn(sch, f) \in SUBSET (1 .. Len(f))
  BY <1>1 DEF WarningsIn, ErrorsIn
<1>4. /\ IsFiniteSet(WarningsIn(sch, f)) /\ Cardinality(WarningsIn(sch, f)) \in Nat
      /\ IsFiniteSet(ErrorsIn(sch, f)) /\ Cardinality(ErrorsIn(sch, f)) \in Nat
  BY <1>2, <1>3, FS_Subset, FS_CardinalityType
<1> QED
  BY <1>4 DEF ConfigCount

\* One more configuration counts its warnings and its error.
LEMMA ConfigCounted ==
  ASSUME NEW sch \in Schemes, NEW f \in Seq(Findings \cup {Failed}),
         NEW n \in Findings \cup {Failed}, Len(f) + 1 <= Len(sch.configs)
  PROVE  LET entry == sch.configs[Len(f) + 1] IN
         /\ ConfigCount(sch, Append(f, n)) =
              ConfigCount(sch, f) + WarningMismatch(entry, n) + ErrorMismatch(entry, n)
         /\ ConfigCount(sch, f) \in Nat
<1> DEFINE x == Len(f) + 1
           g == Append(f, n)
           entry == sch.configs[x]
           w == n # Failed /\ entry.expectedWarnings \notin {Unspecified, n}
           e == entry.expectedError # Unspecified /\ entry.expectedError # One(n = Failed)
<1>1. /\ Len(f) \in Nat /\ DOMAIN f = 1 .. Len(f) /\ DOMAIN g = 1 .. x
      /\ \A i \in 1 .. Len(f) : g[i] = f[i]
      /\ g[x] = n
  OBVIOUS
<1>2. entry.expectedError \in {0, 1, Unspecified}
  <2>1. x \in DOMAIN sch.configs
    BY <1>1, SchemeShape
  <2>2. entry \in ConfigEntry
    BY <2>1, SchemeShape
  <2> QED
    BY <2>2 DEF ConfigEntry
<1>3. IsFiniteSet(WarningsIn(sch, f)) /\ IsFiniteSet(ErrorsIn(sch, f))
  BY ConfigCountType
<1>4. x \notin WarningsIn(sch, f) /\ x \notin ErrorsIn(sch, f)
  BY <1>1 DEF WarningsIn, ErrorsIn
<1>5. WarningsIn(sch, g) = IF w THEN WarningsIn(sch, f) \cup {x} ELSE WarningsIn(sch, f)
  BY <1>1 DEF WarningsIn
<1>6. ErrorsIn(sch, g) = IF e THEN ErrorsIn(sch, f) \cup {x} ELSE ErrorsIn(sch, f)
  BY <1>1, <1>2, SchemeAssumption DEF ErrorsIn, One
<1>7. Cardinality(WarningsIn(sch, g)) = Cardinality(WarningsIn(sch, f)) + One(w)
        /\ Cardinality(WarningsIn(sch, f)) \in Nat
  <2> HIDE DEF w, g, x
  <2> w \in BOOLEAN
    BY DEF w
  <2> QED
    BY <1>3, <1>4, <1>5, CountOne
<1>8. Cardinality(ErrorsIn(sch, g)) = Cardinality(ErrorsIn(sch, f)) + One(e)
        /\ Cardinality(ErrorsIn(sch, f)) \in Nat
  <2> HIDE DEF e, g, x
  <2> e \in BOOLEAN
    BY DEF e
  <2> QED
    BY <1>3, <1>4, <1>6, CountOne
<1>9. One(w) \in Nat /\ One(e) \in Nat
  BY DEF One
<1>10. One(w) = WarningMismatch(entry, n) /\ One(e) = ErrorMismatch(entry, n)
  BY DEF WarningMismatch, ErrorMismatch
<1> HIDE DEF w, e, g, entry
<1>11. ConfigCount(sch, g) = ConfigCount(sch, f) + One(w) + One(e) /\ ConfigCount(sch, f) \in Nat
  BY <1>7, <1>8, <1>9 DEF ConfigCount
<1> QED
  BY <1>10, <1>11 DEF g, entry

\* The count of query entries depends on the totals and outputs of their last sub-queries.
LEMMA CountStays ==
  ASSUME NEW sch, NEW a, NEW b, NEW c, NEW d, NEW n,
         \A q \in 1 .. n : \A f \in Fields : Total(b, q, SubsOf(sch, q), f) = Total(a, q, SubsOf(sch, q), f),
         \A q \in 1 .. n : <<q, SubsOf(sch, q)>> \in d <=> <<q, SubsOf(sch, q)>> \in c
  PROVE  QueryCount(sch, b, d, n) = QueryCount(sch, a, c, n)
<1>1. ResultsIn(sch, b, n) = ResultsIn(sch, a, n) /\ SkipsIn(sch, b, n) = SkipsIn(sch, a, n)
  BY DEF ResultsIn, SkipsIn, Fields
<1>2. OutputsIn(sch, d, n) = OutputsIn(sch, c, n)
  BY DEF OutputsIn
<1> QED
  BY <1>1, <1>2 DEF QueryCount

\* The count of some query entries is made of three numbers.
LEMMA CountType ==
  ASSUME NEW sch, NEW a, NEW d, NEW n \in Nat
  PROVE  /\ IsFiniteSet(ResultsIn(sch, a, n)) /\ Cardinality(ResultsIn(sch, a, n)) \in Nat
         /\ IsFiniteSet(SkipsIn(sch, a, n)) /\ Cardinality(SkipsIn(sch, a, n)) \in Nat
         /\ IsFiniteSet(OutputsIn(sch, d, n)) /\ Cardinality(OutputsIn(sch, d, n)) \in Nat
<1>1. IsFiniteSet(1 .. n)
  BY FS_Interval
<1>2. /\ ResultsIn(sch, a, n) \in SUBSET (1 .. n) /\ SkipsIn(sch, a, n) \in SUBSET (1 .. n)
      /\ OutputsIn(sch, d, n) \in SUBSET (1 .. n)
  BY DEF ResultsIn, SkipsIn, OutputsIn
<1> QED
  BY <1>1, <1>2, FS_Subset, FS_CardinalityType

\* One more query entry counts its result, its skipped iterations and its output.
LEMMA QueryCounted ==
  ASSUME NEW sch, NEW a, NEW d, NEW q \in Nat \ {0},
         NEW r, r = Total(a, q, SubsOf(sch, q), "result"),
         NEW m, m = Total(a, q, SubsOf(sch, q), "notExecuted"),
         NEW o \in BOOLEAN, o <=> <<q, SubsOf(sch, q)>> \in d
  PROVE  QueryCount(sch, a, d, q) =
           QueryCount(sch, a, d, q - 1) + One(sch.queries[q].expected \notin {Unspecified, r})
             + One(m # sch.queries[q].expectedNotExecuted) + One(o)
<1> DEFINE p == q - 1
           x == sch.queries[q].expected \notin {Unspecified, r}
           y == m # sch.queries[q].expectedNotExecuted
<1>1. p \in Nat /\ q \notin 1 .. p /\ \A i : i \in 1 .. q <=> i \in 1 .. p \/ i = q
  OBVIOUS
<1>2. ResultsIn(sch, a, q) = IF x THEN ResultsIn(sch, a, p) \cup {q} ELSE ResultsIn(sch, a, p)
  <2> HIDE DEF p
  <2> QED
    BY <1>1 DEF ResultsIn
<1>3. SkipsIn(sch, a, q) = IF y THEN SkipsIn(sch, a, p) \cup {q} ELSE SkipsIn(sch, a, p)
  <2> HIDE DEF p
  <2> QED
    BY <1>1 DEF SkipsIn
<1>4. OutputsIn(sch, d, q) = IF o THEN OutputsIn(sch, d, p) \cup {q} ELSE OutputsIn(sch, d, p)
  <2> HIDE DEF p
  <2> QED
    BY <1>1 DEF OutputsIn
<1>5. q \notin ResultsIn(sch, a, p) /\ q \notin SkipsIn(sch, a, p) /\ q \notin OutputsIn(sch, d, p)
  <2> HIDE DEF p
  <2> QED
    BY <1>1 DEF ResultsIn, SkipsIn, OutputsIn
<1>6. x \in BOOLEAN /\ y \in BOOLEAN
  OBVIOUS
<1> HIDE DEF p, x, y
<1>7. Cardinality(ResultsIn(sch, a, q)) = Cardinality(ResultsIn(sch, a, p)) + One(x)
  BY <1>1, <1>2, <1>5, <1>6, CountType, CountOne
<1>8. Cardinality(SkipsIn(sch, a, q)) = Cardinality(SkipsIn(sch, a, p)) + One(y)
  BY <1>1, <1>3, <1>5, <1>6, CountType, CountOne
<1>9. Cardinality(OutputsIn(sch, d, q)) = Cardinality(OutputsIn(sch, d, p)) + One(o)
  BY <1>1, <1>4, <1>5, CountType, CountOne
<1>10. One(x) \in Nat /\ One(y) \in Nat /\ One(o) \in Nat
  BY DEF One
<1>11. QueryCount(sch, a, d, q) = QueryCount(sch, a, d, p) + One(x) + One(y) + One(o)
  BY <1>1, <1>7, <1>8, <1>9, <1>10, CountType DEF QueryCount
<1> QED
  BY <1>11 DEF p, x, y
-----------------------------------------------------------------------------
(***************************************************************************)
(* The types, and where a run is in its scheme.                             *)
(***************************************************************************)
\* A mismatch counts for nothing or for one.
LEMMA OneType ==
  /\ \A c : One(c) \in {0, 1}
  /\ \A entry, n : WarningMismatch(entry, n) \in {0, 1} /\ ErrorMismatch(entry, n) \in {0, 1}
BY DEF One, WarningMismatch, ErrorMismatch

\* The first of the iterations left is one of them.
LEMMA FirstIsLeft == ASSUME NEW ts, NEW t \in First(ts) PROVE t \in ts
BY DEF First

\* Every state of a run has its type.
LEMMA TypeStep == TypeOK /\ [Next]_vars => TypeOK'
<1> SUFFICES ASSUME TypeOK, [Next]_vars PROVE TypeOK'
  OBVIOUS
<1> USE DEF TypeOK
<1>1. CASE ReadScheme
  BY <1>1 DEF ReadScheme, history
<1>2. CASE AddConfig
  <2>1. PICK entry : entry = scheme.configs[at]
    OBVIOUS
  <2>2. entry \in ConfigEntry
    BY <1>2, <2>1, SchemeShape DEF AddConfig
  <2>3. entry.name \in Names
    BY <2>2 DEF ConfigEntry
  <2>4. UNCHANGED <<scheme, sub, tracker, full, todo, acc, last, answered, different>>
    BY <1>2 DEF AddConfig
  <2>5. CASE Raise /\ UNCHANGED <<at, network_configs, global_res, found>>
    BY <2>4, <2>5 DEF Raise
  <2>6. ASSUME NEW n \in Builds, found' = Append(found, n),
               Raise \/ pc' = pc,
               \/ UNCHANGED <<at, network_configs, global_res>>
               \/ /\ at' = at + 1 /\ network_configs' = network_configs \cup Stored(entry, n)
                  /\ global_res' = global_res + WarningMismatch(entry, n) + ErrorMismatch(entry, n)
        PROVE  TypeOK'
    <3>1. found' \in Seq(Findings \cup {Failed})
      BY <2>6 DEF Builds
    <3>2. at' \in Nat \ {0} /\ network_configs' \subseteq Names /\ global_res' \in Nat
      <4>1. WarningMismatch(entry, n) \in {0, 1} /\ ErrorMismatch(entry, n) \in {0, 1}
        BY OneType
      <4>2. Stored(entry, n) \subseteq Names
        BY <2>3 DEF Stored
      <4> QED
        BY <2>6, <4>1, <4>2
    <3> QED
      BY <2>4, <2>6, <3>1, <3>2 DEF Raise
  <2> QED
    BY <1>2, <2>1, <2>5, <2>6 DEF AddConfig
<1>3. CASE RunQueries
  BY <1>3 DEF RunQueries, history
<1>4. CASE NextQuery
  <2>1. pc' = "query" => at \in DOMAIN scheme.queries
    BY <1>4, SchemeShape DEF NextQuery
  <2>2. pc' = "query" => scheme.queries[at] \in QueryEntry
    BY <2>1, SchemeShape
  <2>3. full' \in BOOLEAN
    BY <1>4, <2>2 DEF NextQuery, QueryEntry
  <2>4. last' \in [res : Nat, comparing_err : {0, 1}, not_executed : Nat]
    BY <1>4 DEF NextQuery, NothingYet
  <2> QED
    BY <1>4, <2>3, <2>4 DEF NextQuery, history
<1>5. CASE StartSubQuery
  BY <1>5 DEF StartSubQuery, Raise, NoResult, history
<1>6. CASE Iterate
  <2>0. UNCHANGED <<scheme, at, sub, network_configs, global_res, tracker, last, found, different>>
    BY <1>6 DEF Iterate
  <2>1. PICK t, s :
          /\ t \in First(todo) /\ s = query.subs[sub]
          /\ \/ Raise /\ UNCHANGED <<todo, acc, full, answered>>
             \/ \E a \in Answers :
                  /\ On(s, t) \subseteq network_configs
                  /\ todo' = todo \ {t} /\ acc' = Update(acc, a)
                  /\ full' = (full \/ (s.kind \in AlwaysExplained /\ a.notExecuted = 0))
                  /\ answered' = Append(answered, [query |-> at, sub |-> sub, on |-> On(s, t), answer |-> a])
                  /\ UNCHANGED pc
    BY <1>6 DEF Iterate
  <2>2. CASE Raise /\ UNCHANGED <<todo, acc, full, answered>>
    BY <2>0, <2>2 DEF Raise
  <2>3. ASSUME NEW a \in Answers, On(s, t) \subseteq network_configs,
               acc' = Update(acc, a),
               full' = (full \/ (s.kind \in AlwaysExplained /\ a.notExecuted = 0)),
               answered' = Append(answered, [query |-> at, sub |-> sub, on |-> On(s, t), answer |-> a]),
               UNCHANGED pc
        PROVE  TypeOK'
    <3>1. a.result \in Nat /\ a.notExecuted \in Nat
      <4>1. a \in [result : Nat, notExecuted : {0, 1}]
        BY SchemeAssumption
      <4> QED
        BY <4>1
    <3>2. acc' \in [result : Nat, notExecuted : Nat]
      BY <2>3, <3>1 DEF Update
    <3>3. [query |-> at, sub |-> sub, on |-> On(s, t), answer |-> a] \in AnswerEntry
      BY <2>3 DEF AnswerEntry
    <3>4. answered' \in Seq(AnswerEntry)
      BY <2>3, <3>3
    <3> QED
      BY <2>0, <2>3, <3>2, <3>4
  <2> QED
    BY <2>1, <2>2, <2>3
<1>7. CASE EndSubQuery
  <2>1. PICK err \in {0, 1} :
          /\ last' = [res |-> acc.result, comparing_err |-> err, not_executed |-> acc.notExecuted]
          /\ different' = different \cup {d \in {<<at, sub>>} : err = 1}
    BY <1>7 DEF EndSubQuery
  <2>2. last' \in [res : Nat, comparing_err : {0, 1}, not_executed : Nat]
    BY <2>1
  <2>3. different' \subseteq Nat \X Nat
    BY <2>1
  <2> QED
    BY <1>7, <2>2, <2>3 DEF EndSubQuery
<1>8. CASE Judge
  <2>1. global_res' \in Nat
    BY <1>8, OneType DEF Judge
  <2> QED
    BY <1>8, <2>1 DEF Judge, history
<1>9. CASE UNCHANGED vars
  BY <1>9 DEF vars, history
<1> QED
  BY <1>1, <1>2, <1>3, <1>4, <1>5, <1>6, <1>7, <1>8, <1>9 DEF Next

\* A run goes through its scheme entry by entry.
LEMMA InPlaceStep == TypeOK /\ InPlace /\ [Next]_vars => InPlace'
<1> SUFFICES ASSUME TypeOK, InPlace, [Next]_vars PROVE InPlace'
  OBVIOUS
<1>0. /\ scheme \in Schemes /\ Len(scheme.configs) \in Nat /\ Len(scheme.queries) \in Nat
      /\ at \in Nat \ {0} /\ sub \in Nat \ {0} /\ Len(found) \in Nat
  BY SchemeShape DEF TypeOK
<1> USE DEF InPlace, Querying
<1>1. CASE ReadScheme
  BY <1>0, <1>1 DEF ReadScheme, history, query
<1>2. CASE AddConfig
  <2>0. pc = "configs" /\ at <= Len(scheme.configs) /\ UNCHANGED <<scheme, answered, different>>
    BY <1>2 DEF AddConfig
  <2>1. CASE Raise /\ UNCHANGED <<at, network_configs, global_res, found>>
    BY <1>0, <2>0, <2>1 DEF Raise
  <2>2. ASSUME NEW n \in Builds, found' = Append(found, n), Raise
        PROVE  InPlace'
    <3>1. Len(found') = Len(found) + 1
      BY <2>2 DEF TypeOK
    <3> QED
      BY <1>0, <2>0, <2>2, <3>1 DEF Raise
  <2>3. ASSUME NEW n \in Builds, found' = Append(found, n), at' = at + 1, UNCHANGED pc
        PROVE  InPlace'
    <3>1. Len(found') = Len(found) + 1
      BY <2>3 DEF TypeOK
    <3> QED
      BY <1>0, <2>0, <2>3, <3>1
  <2> QED
    BY <1>2, <2>1, <2>2, <2>3 DEF AddConfig
<1>3. CASE RunQueries
  BY <1>0, <1>3 DEF RunQueries, history
<1>4. CASE NextQuery
  <2>1. CASE at > Len(scheme.queries) /\ pc' = "done"
    BY <1>0, <1>4, <2>1 DEF NextQuery, history
  <2>2. CASE at <= Len(scheme.queries) /\ pc' = "query" /\ sub' = 1
    <3>1. SubsOf(scheme, at) \in Nat
      BY <1>0, <2>2, SchemeShape
    <3>2. sub' <= Len(query'.subs) + 1
      BY <1>4, <2>2, <3>1 DEF NextQuery, SubsOf, query
    <3> QED
      BY <1>0, <1>4, <2>2, <3>2 DEF NextQuery, history
  <2> QED
    BY <1>0, <1>4, <2>1, <2>2 DEF NextQuery
<1>5. CASE StartSubQuery
  BY <1>0, <1>5 DEF StartSubQuery, Raise, history, query
<1>6. CASE Iterate
  <2>1. pc = "running" /\ (pc' = "raised" \/ pc' = pc) /\ UNCHANGED <<scheme, at, sub, found, different>>
    BY <1>6 DEF Iterate, Raise
  <2> QED
    BY <1>0, <2>1 DEF query
<1>7. CASE EndSubQuery
  <2>1. /\ pc = "running" /\ pc' = "query" /\ sub' = sub + 1 /\ UNCHANGED <<scheme, at, found, answered>>
    BY <1>7 DEF EndSubQuery
  <2>2. SubsOf(scheme, at) \in Nat
    BY <1>0, <2>1, SchemeShape
  <2>3. sub' <= Len(query'.subs) + 1
    BY <1>0, <2>1, <2>2 DEF SubsOf, query
  <2> QED
    BY <1>0, <2>1, <2>3
<1>8. CASE Judge
  BY <1>0, <1>8 DEF Judge, history
<1>9. CASE UNCHANGED vars
  BY <1>9 DEF vars, history, query
<1> QED
  BY <1>1, <1>2, <1>3, <1>4, <1>5, <1>6, <1>7, <1>8, <1>9 DEF Next

\* The action Iterate, taken apart: the run ends, or the first iteration left is answered.
AnswerStep(t, a, e) ==
  /\ t \in todo /\ a \in Answers /\ On(query.subs[sub], t) \subseteq network_configs
  /\ e = [query |-> at, sub |-> sub, on |-> On(query.subs[sub], t), answer |-> a]
  /\ todo' = todo \ {t} /\ acc' = Update(acc, a) /\ answered' = Append(answered, e)
  /\ pc' = pc
\* A step of the loop of a query raises, or appends the answer on one of the pairs to do.
LEMMA IterateSteps ==
  ASSUME TypeOK, Iterate
  PROVE  /\ pc = "running"
         /\ UNCHANGED <<scheme, at, sub, network_configs, global_res, tracker, last, found, different>>
         /\ \/ pc' = "raised" /\ UNCHANGED <<todo, acc, answered>>
            \/ \E t \in todo, a \in Answers, e \in AnswerEntry : AnswerStep(t, a, e)
<1>1. /\ pc = "running"
      /\ UNCHANGED <<scheme, at, sub, network_configs, global_res, tracker, last, found, different>>
  BY DEF Iterate
<1>2. PICK t, s :
        /\ t \in First(todo) /\ s = query.subs[sub]
        /\ \/ Raise /\ UNCHANGED <<todo, acc, full, answered>>
           \/ \E a \in Answers :
                /\ On(s, t) \subseteq network_configs
                /\ todo' = todo \ {t} /\ acc' = Update(acc, a)
                /\ answered' = Append(answered, [query |-> at, sub |-> sub, on |-> On(s, t), answer |-> a])
                /\ UNCHANGED pc
  BY DEF Iterate
<1>3. t \in todo
  BY <1>2, FirstIsLeft
<1>4. ASSUME NEW a \in Answers, On(s, t) \subseteq network_configs,
             todo' = todo \ {t}, acc' = Update(acc, a),
             answered' = Append(answered, [query |-> at, sub |-> sub, on |-> On(s, t), answer |-> a]),
             pc' = pc
      PROVE  \E e \in AnswerEntry : AnswerStep(t, a, e)
  <2> DEFINE e == [query |-> at, sub |-> sub, on |-> On(s, t), answer |-> a]
  <2>1. e \in AnswerEntry
    BY <1>4 DEF AnswerEntry, TypeOK
  <2>2. AnswerStep(t, a, e)
    BY <1>2, <1>3, <1>4 DEF AnswerStep
  <2> QED
    BY <2>1, <2>2
<1> QED
  BY <1>1, <1>2, <1>3, <1>4 DEF Raise

\* One more answer is the last of the history and leaves the earlier ones alone.
LEMMA Appended ==
  ASSUME NEW S, NEW a \in Seq(S), NEW e \in S
  PROVE  /\ Len(a) \in Nat /\ DOMAIN a = 1 .. Len(a)
         /\ Len(Append(a, e)) = Len(a) + 1 /\ DOMAIN Append(a, e) = 1 .. Len(a) + 1
         /\ \A i \in DOMAIN a : i \in DOMAIN Append(a, e) /\ Append(a, e)[i] = a[i]
         /\ Append(a, e)[Len(a) + 1] = e
OBVIOUS

\* What is stored and what the answers are about stays grounded.
LEMMA GroundedStep == TypeOK /\ InPlace /\ Grounded /\ [Next]_vars => Grounded'
<1> SUFFICES ASSUME TypeOK, InPlace, Grounded, [Next]_vars PROVE Grounded'
  OBVIOUS
<1>0. UNCHANGED <<scheme, found>> => Built' = Built
  BY DEF Built
<1>1. CASE ReadScheme
  <2>1. Built' = Built
    BY <1>0, <1>1 DEF ReadScheme, history
  <2>2. UNCHANGED <<scheme, network_configs, answered>>
    BY <1>1 DEF ReadScheme, history
  <2>3. pc' \notin {"scheme", "refused"} =>
          SafeToExplain(scheme.queries) /\ tracker' = \E i \in DOMAIN scheme.queries : scheme.queries[i].html
    BY <1>1 DEF ReadScheme
  <2> QED
    BY <2>1, <2>2, <2>3 DEF Grounded
<1>2. CASE AddConfig
  <2>0. /\ pc = "configs" /\ at <= Len(scheme.configs)
        /\ UNCHANGED <<scheme, tracker, answered>> /\ pc' \in {"configs", "raised"}
    BY <1>2 DEF AddConfig, Raise
  <2>1. CASE Raise /\ UNCHANGED <<at, network_configs, global_res, found>>
    BY <1>0, <2>0, <2>1 DEF Grounded, Raise
  <2>2. ASSUME NEW n \in Builds, found' = Append(found, n),
               network_configs' = network_configs \cup Stored(scheme.configs[at], n)
        PROVE  Grounded'
    <3>1. n \in Findings \cup {Failed}
      BY DEF Builds
    <3>2. /\ Len(found) + 1 = at /\ DOMAIN found = 1 .. Len(found) /\ DOMAIN found' = 1 .. Len(found) + 1
          /\ \A i \in DOMAIN found : i \in DOMAIN found' /\ found'[i] = found[i]
          /\ found'[Len(found) + 1] = n /\ Len(found) \in Nat
      BY <2>0, <2>2, <3>1, Appended DEF TypeOK, InPlace
    <3>3. \A i : i \in DOMAIN found' <=> i \in DOMAIN found \/ i = at
      BY <3>2
    <3>4. Built' = Built \cup Stored(scheme.configs[at], n)
      BY <2>0, <3>2, <3>3, Zenon DEF Built, Stored
    <3> QED
      BY <2>0, <2>2, <3>4 DEF Grounded
  <2>3. ASSUME NEW n \in Builds, n = Failed, UNCHANGED network_configs
        PROVE  network_configs' = network_configs \cup Stored(scheme.configs[at], n)
    BY <2>3 DEF Stored
  <2> QED
    BY <1>2, <2>1, <2>2, <2>3 DEF AddConfig
<1>3. CASE RunQueries
  BY <1>0, <1>3 DEF RunQueries, history, Grounded
<1>4. CASE NextQuery
  BY <1>0, <1>4 DEF NextQuery, history, Grounded
<1>5. CASE StartSubQuery
  BY <1>0, <1>5 DEF StartSubQuery, history, Grounded, Raise
<1>6. CASE Iterate
  <2>1. /\ pc = "running" /\ pc' \in {"running", "raised"} /\ Built' = Built
        /\ UNCHANGED <<scheme, network_configs, tracker>>
    BY <1>0, <1>6, IterateSteps DEF AnswerStep
  <2>2. CASE UNCHANGED answered
    BY <2>1, <2>2 DEF Grounded
  <2>3. ASSUME NEW t \in todo, NEW a \in Answers, NEW e \in AnswerEntry, AnswerStep(t, a, e)
        PROVE  Grounded'
    <3>1. e.on \subseteq Built
      BY <2>3 DEF AnswerStep, Grounded
    <3>2. answered' = Append(answered, e)
      BY <2>3 DEF AnswerStep
    <3>3. \A i \in DOMAIN answered' : (i \in DOMAIN answered /\ answered'[i] = answered[i]) \/ answered'[i] = e
      BY <3>2, Appended DEF TypeOK
    <3>4. \A i \in DOMAIN answered' : answered'[i].on \subseteq Built
      BY <3>1, <3>3 DEF Grounded
    <3> QED
      BY <2>1, <3>4 DEF Grounded
  <2> QED
    BY <1>6, <2>2, <2>3, IterateSteps
<1>7. CASE EndSubQuery
  BY <1>0, <1>7 DEF EndSubQuery, Grounded
<1>8. CASE Judge
  BY <1>0, <1>8 DEF Judge, history, Grounded
<1>9. CASE UNCHANGED vars
  BY <1>0, <1>9 DEF vars, history, Grounded
<1> QED
  BY <1>1, <1>2, <1>3, <1>4, <1>5, <1>6, <1>7, <1>8, <1>9 DEF Next
-----------------------------------------------------------------------------
(***************************************************************************)
(* Sub-queries that have run to their end, one after the other.             *)
(***************************************************************************)
\* The facts about the place in the scheme that the next lemmas use.
LEMMA Place ==
  ASSUME TypeOK, InPlace
  PROVE  /\ scheme \in Schemes /\ at \in Nat \ {0} /\ sub \in Nat \ {0}
         /\ Len(scheme.queries) \in Nat /\ DOMAIN scheme.queries = 1 .. Len(scheme.queries)
         /\ pc \in {"query", "running"} =>
              /\ at \in DOMAIN scheme.queries /\ SubsOf(scheme, at) \in Nat
              /\ DOMAIN query.subs = 1 .. SubsOf(scheme, at)
              /\ sub <= SubsOf(scheme, at) + 1
         /\ pc = "running" => sub <= SubsOf(scheme, at)
BY SchemeShape DEF TypeOK, InPlace, SubsOf, query

\* A sub-query that has run or is running stays so, until the run ends with an error.
LEMMA EndedStays ==
  ASSUME TypeOK, InPlace, [Next]_vars, Querying, Querying', NEW q \in Nat, NEW k \in Nat
  PROVE  /\ Ended(q, k) => Ended(q, k)'
         /\ Running(q, k) => Ended(q, k)' \/ Running(q, k)'
<1> USE Place DEF Querying, Ended, Running
<1>1. CASE ReadScheme
  BY <1>1 DEF ReadScheme
<1>2. CASE AddConfig
  BY <1>2 DEF AddConfig
<1>3. CASE RunQueries
  BY <1>3 DEF RunQueries
<1>4. CASE NextQuery
  BY <1>4 DEF NextQuery
<1>5. CASE StartSubQuery
  BY <1>5 DEF StartSubQuery, Raise
<1>6. CASE Iterate
  BY <1>6, IterateSteps DEF AnswerStep
<1>7. CASE EndSubQuery
  BY <1>7 DEF EndSubQuery
<1>8. CASE Judge
  BY <1>8 DEF Judge
<1>9. CASE UNCHANGED vars
  BY <1>9 DEF vars
<1> QED
  BY <1>1, <1>2, <1>3, <1>4, <1>5, <1>6, <1>7, <1>8, <1>9 DEF Next

\* A sub-query ends when no iteration is left, and runs since it was started.
LEMMA EndedCame ==
  ASSUME TypeOK, InPlace, [Next]_vars, Querying,
         NEW q \in DOMAIN scheme.queries, NEW k \in DOMAIN scheme.queries[q].subs
  PROVE  /\ Ended(q, k)' => Ended(q, k) \/ (Running(q, k) /\ todo = {} /\ EndSubQuery)
         /\ Running(q, k)' => Running(q, k) \/ (StartSubQuery /\ q = at /\ k = sub)
<1>0. q \in Nat \ {0} /\ k \in Nat \ {0} /\ k <= SubsOf(scheme, q)
  BY SchemeShape DEF TypeOK
<1> USE Place, <1>0 DEF Querying, Ended, Running
<1>1. CASE ReadScheme
  BY <1>1 DEF ReadScheme
<1>2. CASE AddConfig
  BY <1>2 DEF AddConfig
<1>3. CASE RunQueries
  BY <1>3 DEF RunQueries
<1>4. CASE NextQuery
  BY <1>4 DEF NextQuery
<1>5. CASE StartSubQuery
  BY <1>5 DEF StartSubQuery, Raise
<1>6. CASE Iterate
  BY <1>6, IterateSteps DEF AnswerStep
<1>7. CASE EndSubQuery
  <2>1. pc = "running" /\ todo = {} /\ pc' = "query" /\ at' = at /\ sub' = sub + 1
    BY <1>7 DEF EndSubQuery
  <2> QED
    BY <1>7, <2>1
<1>8. CASE Judge
  <2>1. pc = "query" /\ pc' = "queries" /\ at' = at + 1 /\ sub > SubsOf(scheme, at)
    BY <1>8 DEF Judge, query, SubsOf
  <2>2. q = at => k < sub
    BY <2>1
  <2> QED
    BY <2>1, <2>2
<1>9. CASE UNCHANGED vars
  BY <1>9 DEF vars
<1> QED
  BY <1>1, <1>2, <1>3, <1>4, <1>5, <1>6, <1>7, <1>8, <1>9 DEF Next

\* The history tells of the sub-queries that have run or are running.
LEMMA HistoryStep == TypeOK /\ InPlace /\ HistoryFits /\ [Next]_vars => HistoryFits'
<1> SUFFICES ASSUME TypeOK, InPlace, HistoryFits, [Next]_vars PROVE HistoryFits'
  OBVIOUS
<1>0. /\ scheme' = scheme
      /\ Querying' => Querying \/ (answered = << >> /\ different = {} /\ UNCHANGED <<answered, different>>)
  BY DEF Next, ReadScheme, AddConfig, RunQueries, NextQuery, StartSubQuery, Iterate, EndSubQuery,
         Judge, vars, history, Querying, InPlace, Raise
<1>1. CASE UNCHANGED <<answered, different>>
  <2>1. ASSUME NEW i \in DOMAIN answered', Querying'
        PROVE  Ended(answered[i].query, answered[i].sub)' \/ Running(answered[i].query, answered[i].sub)'
    <3>1. i \in DOMAIN answered /\ Querying
      BY <1>0, <1>1, <2>1
    <3>2. answered[i].query \in Nat /\ answered[i].sub \in Nat
      BY <3>1, EntryFields DEF TypeOK
    <3>3. PICK q \in Nat, k \in Nat : q = answered[i].query /\ k = answered[i].sub
      BY <3>2
    <3>4. Ended(q, k) \/ Running(q, k)
      BY <3>1, <3>3 DEF HistoryFits
    <3>5. Ended(q, k)' \/ Running(q, k)'
      BY <2>1, <3>1, <3>4, EndedStays
    <3> QED
      BY <1>1, <3>3, <3>5 DEF Ended, Running
  <2>2. ASSUME NEW q \in Nat, NEW k \in Nat, Querying', <<q, k>> \in different'
        PROVE  Ended(q, k)'
    BY <1>0, <1>1, <2>2, EndedStays DEF HistoryFits
  <2> QED
    BY <1>0, <1>1, <2>1, <2>2 DEF HistoryFits
<1>2. ASSUME Iterate, NEW t \in todo, NEW a \in Answers, NEW e \in AnswerEntry, AnswerStep(t, a, e)
      PROVE  HistoryFits'
  <2>1. /\ pc = "running" /\ pc' = pc /\ UNCHANGED <<scheme, at, sub, different>>
        /\ answered' = Append(answered, e) /\ e.query = at /\ e.sub = sub
    BY <1>2, IterateSteps DEF AnswerStep
  <2>2. Querying /\ Querying'
    BY <2>1 DEF Querying
  <2>3. \A q, k : (Ended(q, k)' <=> Ended(q, k)) /\ (Running(q, k)' <=> Running(q, k))
    BY <2>1 DEF Ended, Running
  <2>4. /\ DOMAIN answered = 1 .. Len(answered) /\ DOMAIN answered' = 1 .. Len(answered) + 1
        /\ \A i \in DOMAIN answered : i \in DOMAIN answered' /\ answered'[i] = answered[i]
        /\ answered'[Len(answered) + 1] = e /\ Len(answered) \in Nat
    BY <2>1, Appended DEF TypeOK
  <2>5. at \in DOMAIN scheme.queries /\ sub \in DOMAIN scheme.queries[at].subs
    BY <2>1, Place DEF query
  <2>6. \A i \in DOMAIN answered : answered[i].query <= at /\ answered[i].query \in Nat
    <3> SUFFICES ASSUME NEW i \in DOMAIN answered
                 PROVE  answered[i].query <= at /\ answered[i].query \in Nat
      OBVIOUS
    <3>1. answered[i].query \in Nat
      BY EntryFields DEF TypeOK
    <3> QED
      BY <2>2, <3>1, Place DEF HistoryFits, Ended, Running
  <2>7. ASSUME NEW i \in DOMAIN answered'
        PROVE  /\ answered'[i].query \in DOMAIN scheme.queries
               /\ answered'[i].sub \in DOMAIN scheme.queries[answered'[i].query].subs
               /\ Ended(answered[i].query, answered[i].sub)' \/ Running(answered[i].query, answered[i].sub)'
               /\ \A j \in DOMAIN answered' : j < i => answered'[j].query <= answered'[i].query
    <3>1. CASE i \in DOMAIN answered
      <4>1. answered'[i] = answered[i]
        BY <2>4, <3>1
      <4>2. \A j \in DOMAIN answered' : j < i => j \in DOMAIN answered /\ answered'[j] = answered[j]
        BY <2>4, <3>1
      <4>3. Ended(answered[i].query, answered[i].sub) \/ Running(answered[i].query, answered[i].sub)
        BY <2>2, <3>1 DEF HistoryFits
      <4>4. Ended(answered[i].query, answered[i].sub)' \/ Running(answered[i].query, answered[i].sub)'
        BY <2>1, <4>1, <4>3 DEF Ended, Running
      <4> QED
        BY <3>1, <4>1, <4>2, <4>4 DEF HistoryFits
    <3>2. CASE i = Len(answered) + 1
      <4>1. answered'[i] = e
        BY <2>4, <3>2
      <4>2. \A j \in DOMAIN answered' : j < i => j \in DOMAIN answered /\ answered'[j] = answered[j]
        BY <2>4, <3>2
      <4>3. Running(answered[i].query, answered[i].sub)'
        BY <2>1, <4>1 DEF Running
      <4> QED
        BY <2>1, <2>5, <2>6, <4>1, <4>2, <4>3
    <3> QED
      BY <2>4, <3>1, <3>2
  <2>8. \A q, k \in Nat : <<q, k>> \in different' => Ended(q, k)'
    BY <2>1, <2>2, <2>3 DEF HistoryFits
  <2> QED
    BY <2>1, <2>7, <2>8 DEF HistoryFits
<1>3. CASE EndSubQuery
  <2>1. /\ pc = "running" /\ pc' = "query" /\ sub' = sub + 1
        /\ UNCHANGED <<scheme, at, answered>> /\ different' \subseteq different \cup {<<at, sub>>}
    BY <1>3 DEF EndSubQuery
  <2>2. Querying /\ Querying'
    BY <2>1 DEF Querying
  <2>3. \A i \in DOMAIN answered : answered[i].query \in Nat /\ answered[i].sub \in Nat
    BY EntryFields DEF TypeOK
  <2>4. ASSUME NEW i \in DOMAIN answered'
        PROVE  Ended(answered[i].query, answered[i].sub)' \/ Running(answered[i].query, answered[i].sub)'
    <3>1. Ended(answered[i].query, answered[i].sub) \/ Running(answered[i].query, answered[i].sub)
      BY <2>1, <2>2 DEF HistoryFits
    <3> QED
      BY <2>1, <2>3, <3>1, Place DEF Ended, Running
  <2>5. ASSUME NEW q \in Nat, NEW k \in Nat, <<q, k>> \in different'
        PROVE  Ended(q, k)'
    BY <2>1, <2>2, <2>5, Place DEF HistoryFits, Ended
  <2> QED
    BY <2>1, <2>4, <2>5 DEF HistoryFits
<1>4. \/ UNCHANGED <<answered, different>> \/ Iterate \/ EndSubQuery
  BY DEF Next, ReadScheme, AddConfig, RunQueries, NextQuery, StartSubQuery, Judge, vars, history
<1> QED
  BY <1>1, <1>2, <1>3, <1>4, IterateSteps

\* Answers stay.
LEMMA AnsweredStays ==
  ASSUME NEW sch, NEW a \in Seq(AnswerEntry), NEW b, NEW q, NEW k, NEW left,
         Answered(sch, a, q, k, left),
         b = a \/ \E e \in AnswerEntry : b = Append(a, e)
  PROVE  Answered(sch, b, q, k, left)
<1>1. \A i \in DOMAIN a : i \in DOMAIN b /\ b[i] = a[i]
  BY Appended
<1> QED
  BY <1>1 DEF Answered

\* Every iteration of a sub-query is answered before it ends.
LEMMA IterationStep ==
  TypeOK /\ InPlace /\ EveryIteration /\ [Next]_vars => EveryIteration'
<1> SUFFICES ASSUME TypeOK, InPlace, EveryIteration, [Next]_vars PROVE EveryIteration'
  OBVIOUS
<1>0. scheme' = scheme
  BY DEF Next, ReadScheme, AddConfig, RunQueries, NextQuery, StartSubQuery, Iterate, EndSubQuery,
         Judge, vars
<1> SUFFICES ASSUME Querying', NEW q \in DOMAIN scheme.queries, NEW k \in DOMAIN scheme.queries[q].subs
             PROVE  /\ Ended(q, k)' => Comparing(scheme, q, k) /\ Answered(scheme, answered', q, k, {})
                    /\ Running(q, k)' => Comparing(scheme, q, k) /\ Answered(scheme, answered', q, k, todo')
  BY <1>0 DEF EveryIteration
<1>q. q \in Nat \ {0} /\ k \in Nat
  BY SchemeShape DEF TypeOK
<1>1. CASE ~Querying
  <2>1. pc' = "queries" /\ at' = 1
    BY <1>1, Place DEF Next, ReadScheme, AddConfig, RunQueries, NextQuery, StartSubQuery, Iterate,
           EndSubQuery, Judge, vars, Querying, Raise
  <2> QED
    BY <1>0, <1>q, <2>1 DEF Ended, Running
<1>2. CASE Querying
  <2> DEFINE s == SubQueryOf(scheme, q, k)
  <2>0. /\ Ended(q, k) \/ Running(q, k) => Comparing(scheme, q, k)
        /\ Ended(q, k) => Answered(scheme, answered, q, k, {})
        /\ Running(q, k) => Answered(scheme, answered, q, k, todo)
    BY <1>2 DEF EveryIteration
  <2>1. /\ answered \in Seq(AnswerEntry)
        /\ \/ answered' = answered
           \/ \E e \in AnswerEntry : answered' = Append(answered, e)
    BY IterateSteps DEF AnswerStep, Next, ReadScheme, AddConfig, RunQueries, NextQuery, StartSubQuery,
           EndSubQuery, Judge, vars, history, TypeOK
  <2>2. ASSUME Ended(q, k)'
        PROVE  Comparing(scheme, q, k) /\ Answered(scheme, answered', q, k, {})
    <3>1. Ended(q, k) \/ (Running(q, k) /\ todo = {})
      BY <1>2, <2>2, EndedCame
    <3>2. Comparing(scheme, q, k) /\ Answered(scheme, answered, q, k, {})
      BY <2>0, <3>1
    <3> QED
      BY <2>1, <3>2, AnsweredStays
  <2>3. ASSUME Running(q, k)', Running(q, k)
        PROVE  Comparing(scheme, q, k) /\ Answered(scheme, answered', q, k, todo')
    <3>1. Comparing(scheme, q, k) /\ Answered(scheme, answered', q, k, todo)
      BY <2>0, <2>1, <2>3, AnsweredStays
    <3>2. CASE todo' = todo
      BY <3>1, <3>2
    <3>3. CASE todo' # todo
      <4>1. pc = "running" /\ pc' = "running" /\ at = q /\ sub = k
        BY <2>3 DEF Running
      <4>2. Iterate
        BY <3>3, <4>1 DEF Next, ReadScheme, AddConfig, RunQueries, NextQuery, StartSubQuery,
             EndSubQuery, Judge, vars
      <4>3. PICK t \in todo, a \in Answers, e \in AnswerEntry : AnswerStep(t, a, e)
        BY <3>3, <4>2, IterateSteps
      <4>4. /\ Len(answered) + 1 \in DOMAIN answered' /\ answered'[Len(answered) + 1] = e
            /\ e.query = q /\ e.sub = k /\ e.on = On(s, t) /\ todo' = todo \ {t}
        BY <4>1, <4>3, Appended DEF AnswerStep, TypeOK, SubQueryOf, query
      <4>5. \A u : u \in todo' <=> u \in todo /\ u # t
        BY <4>4
      <4> QED
        BY <3>1, <4>4, <4>5 DEF Answered
    <3> QED
      BY <3>2, <3>3
  <2>4. ASSUME Running(q, k)', ~Running(q, k)
        PROVE  Comparing(scheme, q, k) /\ Answered(scheme, answered', q, k, todo')
    <3>1. StartSubQuery /\ q = at /\ k = sub /\ pc' = "running"
      BY <1>2, <2>4, EndedCame DEF Running
    <3>2. todo' = Iterations(s) /\ (s.kind \in SingleKinds \/ ~(Len(s.configs) <= 1))
      BY <3>1 DEF StartSubQuery, Raise, SubQueryOf, query
    <3>3. Len(s.configs) \in Nat
      <4>1. s \in SubQuery
        BY SchemeShape DEF TypeOK, SubQueryOf
      <4> QED
        BY <4>1 DEF SubQuery
    <3> QED
      BY <3>2, <3>3 DEF Answered, Comparing
  <2> QED
    BY <1>2, <2>2, <2>3, <2>4
<1> QED
  BY <1>1, <1>2
-----------------------------------------------------------------------------
(***************************************************************************)
(* What run_scheme will return counts what the history contradicts.         *)
(***************************************************************************)
\* No answer is of a sub-query that is not started yet, and no output of one not ended.
LEMMA NothingAhead ==
  ASSUME TypeOK, HistoryFits, Querying, NEW q \in Nat, NEW k \in Nat
  PROVE  /\ ~Ended(q, k) /\ ~Running(q, k) =>
              \A f \in Fields : Total(answered, q, k, f) = 0
         /\ ~Ended(q, k) => <<q, k>> \notin different
<1>1. ASSUME ~Ended(q, k), ~Running(q, k), NEW f \in Fields PROVE Total(answered, q, k, f) = 0
  BY <1>1, TotalNone DEF HistoryFits
<1> QED
  BY <1>1 DEF HistoryFits

\* The count of the query entries before the current one is not disturbed by the history
\* of the current one.
LEMMA EarlierCount ==
  ASSUME TypeOK, InPlace, pc \in {"query", "running"}, NEW b, NEW d,
         b = answered \/ \E e \in AnswerEntry : e.query = at /\ b = Append(answered, e),
         d \subseteq different \cup {<<at, sub>>}, different \subseteq d
  PROVE  QueryCount(scheme, b, d, at - 1) = QueryCount(scheme, answered, different, at - 1)
<1>1. ASSUME NEW q \in 1 .. at - 1, NEW f \in Fields
      PROVE  Total(b, q, SubsOf(scheme, q), f) = Total(answered, q, SubsOf(scheme, q), f)
  <2>1. q # at
    BY <1>1, Place
  <2>2. CASE b = answered
    BY <2>2
  <2>3. ASSUME NEW e \in AnswerEntry, e.query = at, b = Append(answered, e)
        PROVE  Total(b, q, SubsOf(scheme, q), f) = Total(answered, q, SubsOf(scheme, q), f)
    <3>1. ~(e.query = q /\ e.sub = SubsOf(scheme, q))
      BY <2>1, <2>3
    <3>2. answered \in Seq(AnswerEntry)
      BY DEF TypeOK
    <3> QED
      BY <2>3, <3>1, <3>2, TotalStays
  <2> QED
    BY <2>2, <2>3
<1>2. ASSUME NEW q \in 1 .. at - 1
      PROVE  <<q, SubsOf(scheme, q)>> \in d <=> <<q, SubsOf(scheme, q)>> \in different
  BY <1>2, Place
<1> QED
  BY <1>1, <1>2, CountStays

\* The counts are kept by every step.
LEMMA CountedStep ==
  TypeOK /\ InPlace /\ HistoryFits /\ Counted /\ [Next]_vars => Counted'
<1> SUFFICES ASSUME TypeOK, InPlace, HistoryFits, Counted, [Next]_vars PROVE Counted'
  OBVIOUS
<1>0. at \in Nat \ {0} /\ sub \in Nat \ {0} /\ scheme \in Schemes
  BY DEF TypeOK
<1>1. CASE ReadScheme
  BY <1>1 DEF ReadScheme, history, Counted, Querying
<1>2. CASE AddConfig
  <2>0. pc = "configs" /\ at <= Len(scheme.configs) /\ scheme' = scheme
    BY <1>2 DEF AddConfig
  <2>1. CASE pc' = "raised"
    BY <2>1 DEF Counted, Querying
  <2>2. CASE pc' # "raised"
    <3>1. PICK n \in Builds :
            /\ found' = Append(found, n) /\ pc' = pc
            /\ global_res' = global_res + WarningMismatch(scheme.configs[at], n)
                                        + ErrorMismatch(scheme.configs[at], n)
      BY <1>2, <2>2 DEF AddConfig, Raise
    <3>2. Len(found) + 1 = at /\ found \in Seq(Findings \cup {Failed}) /\ n \in Findings \cup {Failed}
      BY <2>0, <1>0 DEF InPlace, TypeOK, Builds
    <3>3. ConfigCount(scheme, found') = ConfigCount(scheme, found)
            + WarningMismatch(scheme.configs[at], n) + ErrorMismatch(scheme.configs[at], n)
      BY <1>0, <2>0, <3>1, <3>2, ConfigCounted
    <3> QED
      BY <2>0, <3>1, <3>3 DEF Counted, Querying
  <2> QED
    BY <2>1, <2>2
<1>3. CASE RunQueries
  <2>1. /\ pc = "configs" /\ pc' = "queries" /\ at' = 1
        /\ UNCHANGED <<scheme, global_res, found, answered, different>>
    BY <1>3 DEF RunQueries, history
  <2>2. QueryCount(scheme, answered, different, 0) = 0
    <3>1. /\ ResultsIn(scheme, answered, 0) = {} /\ SkipsIn(scheme, answered, 0) = {}
          /\ OutputsIn(scheme, different, 0) = {}
      BY DEF ResultsIn, SkipsIn, OutputsIn
    <3> QED
      BY <3>1, FS_EmptySet DEF QueryCount
  <2>3. ConfigCount(scheme, found) \in Nat /\ global_res = ConfigCount(scheme, found)
    BY <2>1 DEF Counted, TypeOK
  <2>4. at' - 1 = 0
    BY <2>1
  <2>5. QueryCount(scheme, answered, different, at' - 1) = 0
    BY <2>2, <2>4
  <2> QED
    BY <2>1, <2>3, <2>5 DEF Counted
<1>4. CASE NextQuery
  <2>1. /\ pc = "queries" /\ (pc' = "done" \/ (pc' = "query" /\ sub' = 1 /\ last' = NothingYet))
        /\ UNCHANGED <<scheme, at, global_res, found, answered, different>>
    BY <1>4 DEF NextQuery, history
  <2>2. Querying /\ ~Ended(at, 0) /\ ~Running(at, 0)
    BY <1>0, <2>1 DEF Querying, Ended, Running
  <2>3. /\ Total(answered, at, 0, "result") = 0 /\ Total(answered, at, 0, "notExecuted") = 0
        /\ One(<<at, 0>> \in different) = 0
    BY <1>0, <2>2, NothingAhead DEF Fields, One
  <2>4. pc' = "query" => sub' - 1 = 0 /\ last'.res = 0 /\ last'.comparing_err = 0 /\ last'.not_executed = 0
    BY <2>1 DEF NothingYet
  <2>5. pc' = "query" => /\ last'.res = Total(answered, at, sub' - 1, "result")
                         /\ last'.not_executed = Total(answered, at, sub' - 1, "notExecuted")
                         /\ last'.comparing_err = One(<<at, sub' - 1>> \in different)
    BY <2>3, <2>4
  <2> QED
    BY <2>1, <2>2, <2>5 DEF Counted
<1>5. CASE StartSubQuery
  <2>1. /\ pc = "query" /\ (pc' = "raised" \/ (pc' = "running" /\ acc' = NoResult))
        /\ UNCHANGED <<scheme, at, sub, global_res, found, answered, different>>
    BY <1>5 DEF StartSubQuery, Raise, history
  <2>2. Querying /\ ~Ended(at, sub) /\ ~Running(at, sub)
    BY <1>0, <2>1 DEF Querying, Ended, Running
  <2>3. Total(answered, at, sub, "result") = 0 /\ Total(answered, at, sub, "notExecuted") = 0
    BY <1>0, <2>2, NothingAhead DEF Fields
  <2>4. pc' = "running" => acc'.result = 0 /\ acc'.notExecuted = 0
    BY <2>1 DEF NoResult
  <2>5. pc' # "query" /\ pc' # "scheme" /\ pc' # "configs"
    BY <2>1
  <2> QED
    BY <2>1, <2>2, <2>3, <2>4, <2>5 DEF Counted
<1>6. CASE Iterate
  <2>1. pc = "running" /\ UNCHANGED <<scheme, at, sub, global_res, last, found, different>> /\ Querying
    BY <1>6, IterateSteps DEF Querying
  <2>2. CASE pc' = "raised"
    BY <2>2 DEF Counted, Querying
  <2>3. ASSUME NEW t \in todo, NEW a \in Answers, NEW e \in AnswerEntry, AnswerStep(t, a, e)
        PROVE  Counted'
    <3>1. /\ pc' = "running" /\ answered' = Append(answered, e) /\ e.query = at /\ e.sub = sub
          /\ acc'.result = acc.result + e.answer.result
          /\ acc'.notExecuted = acc.notExecuted + e.answer.notExecuted
      BY <2>1, <2>3 DEF AnswerStep, Update
    <3>2. /\ Total(answered', at, sub, "result") = Total(answered, at, sub, "result") + e.answer["result"]
          /\ Total(answered', at, sub, "notExecuted") =
               Total(answered, at, sub, "notExecuted") + e.answer["notExecuted"]
      BY <3>1, TotalGrows DEF TypeOK, Fields
    <3>3. QueryCount(scheme, answered', different, at - 1) = QueryCount(scheme, answered, different, at - 1)
      <4>1. \E x \in AnswerEntry : x.query = at /\ answered' = Append(answered, x)
        BY <3>1
      <4> QED
        BY <2>1, <4>1, EarlierCount
    <3>4. /\ acc'.result = Total(answered', at, sub, "result")
          /\ acc'.notExecuted = Total(answered', at, sub, "notExecuted")
      BY <2>1, <3>1, <3>2 DEF Counted
    <3> QED
      BY <2>1, <3>1, <3>3, <3>4 DEF Counted
  <2> QED
    BY <1>6, <2>2, <2>3, IterateSteps
<1>7. CASE EndSubQuery
  <2>1. PICK err \in {0, 1} :
          /\ last' = [res |-> acc.result, comparing_err |-> err, not_executed |-> acc.notExecuted]
          /\ different' = different \cup {d \in {<<at, sub>>} : err = 1}
    BY <1>7 DEF EndSubQuery
  <2>2. /\ pc = "running" /\ pc' = "query" /\ sub' = sub + 1 /\ Querying
        /\ UNCHANGED <<scheme, at, global_res, found, answered>>
    BY <1>7 DEF EndSubQuery, Querying
  <2>3. <<at, sub>> \notin different
    BY <1>0, <2>2, NothingAhead DEF Ended
  <2>4. err = One(<<at, sub>> \in different')
    BY <2>1, <2>3 DEF One
  <2>5. sub' - 1 = sub
    BY <1>0, <2>2
  <2>6. QueryCount(scheme, answered, different', at - 1) = QueryCount(scheme, answered, different, at - 1)
    <3>1. different' \subseteq different \cup {<<at, sub>>} /\ different \subseteq different'
      BY <2>1
    <3> QED
      BY <2>2, <3>1, EarlierCount
  <2>7. last'.res = acc.result /\ last'.comparing_err = err /\ last'.not_executed = acc.notExecuted
    BY <2>1
  <2>8. /\ last'.res = Total(answered, at, sub, "result")
        /\ last'.not_executed = Total(answered, at, sub, "notExecuted")
    BY <2>2, <2>7 DEF Counted
  <2>9. /\ last'.res = Total(answered, at, sub' - 1, "result")
        /\ last'.not_executed = Total(answered, at, sub' - 1, "notExecuted")
        /\ last'.comparing_err = One(<<at, sub' - 1>> \in different')
    BY <2>4, <2>5, <2>7, <2>8
  <2> QED
    BY <2>2, <2>6, <2>9 DEF Counted
<1>8. CASE Judge
  <2>1. /\ pc = "query" /\ pc' = "queries" /\ at' = at + 1 /\ sub > SubsOf(scheme, at) /\ Querying
        /\ UNCHANGED <<scheme, found, answered, different>>
        /\ global_res' = global_res + One(scheme.queries[at].expected \notin {Unspecified, last.res})
             + One(last.not_executed # scheme.queries[at].expectedNotExecuted)
             + One(last.comparing_err # 0)
    BY <1>8 DEF Judge, history, Querying, query, SubsOf
  <2>2. sub - 1 = SubsOf(scheme, at)
    BY <1>0, <2>1, Place
  <2>3. PICK o \in BOOLEAN : o <=> <<at, SubsOf(scheme, at)>> \in different
    OBVIOUS
  <2>4. /\ last.res = Total(answered, at, SubsOf(scheme, at), "result")
        /\ last.not_executed = Total(answered, at, SubsOf(scheme, at), "notExecuted")
        /\ last.comparing_err = One(<<at, SubsOf(scheme, at)>> \in different)
    BY <2>1, <2>2 DEF Counted
  <2>5. One(last.comparing_err # 0) = One(o)
    BY <2>3, <2>4 DEF One
  <2>6. QueryCount(scheme, answered, different, at) =
          QueryCount(scheme, answered, different, at - 1)
            + One(scheme.queries[at].expected \notin {Unspecified, last.res})
            + One(last.not_executed # scheme.queries[at].expectedNotExecuted) + One(o)
    BY <1>0, <2>3, <2>4, QueryCounted
  <2>7. QueryCount(scheme, answered, different, at - 1) \in Nat
    <3>1. at - 1 \in Nat
      BY <1>0
    <3> QED
      BY <3>1, CountType DEF QueryCount
  <2>8. ConfigCount(scheme, found) \in Nat
    BY ConfigCountType DEF TypeOK
  <2>9. /\ One(scheme.queries[at].expected \notin {Unspecified, last.res}) \in Nat
        /\ One(last.not_executed # scheme.queries[at].expectedNotExecuted) \in Nat
        /\ One(o) \in Nat
    BY DEF One
  <2>10. global_res = ConfigCount(scheme, found) + QueryCount(scheme, answered, different, at - 1)
    BY <2>1 DEF Counted
  <2>11. global_res' = ConfigCount(scheme, found) + QueryCount(scheme, answered, different, at)
    BY <2>1, <2>5, <2>6, <2>7, <2>8, <2>9, <2>10
  <2>12. at' - 1 = at
    BY <1>0, <2>1
  <2> QED
    BY <2>1, <2>11, <2>12 DEF Counted
<1>9. CASE UNCHANGED vars
  BY <1>9 DEF vars, history, Counted, Querying
<1> QED
  BY <1>1, <1>2, <1>3, <1>4, <1>5, <1>6, <1>7, <1>8, <1>9 DEF Next
-----------------------------------------------------------------------------
\* Every scheme begins inside the invariant.
LEMMA InitInvariant == Init => IInv
<1> SUFFICES ASSUME Init PROVE IInv
  OBVIOUS
<1>0. /\ scheme \in Schemes /\ pc = "scheme" /\ at = 1 /\ global_res = 0 /\ network_configs = {}
      /\ found = << >> /\ answered = << >> /\ different = {}
      /\ Len(scheme.configs) \in Nat
  BY SchemeShape DEF Init
<1>1. TypeOK
  <2>1. acc \in [result : Nat, notExecuted : Nat]
    BY DEF Init, NoResult
  <2>2. last \in [res : Nat, comparing_err : {0, 1}, not_executed : Nat]
    BY DEF Init, NothingYet
  <2>3. sub \in Nat \ {0}
    BY DEF Init
  <2>5. tracker \in BOOLEAN /\ full \in BOOLEAN
    BY Zenon DEF Init
  <2>4. found \in Seq(Findings \cup {Failed}) /\ answered \in Seq(AnswerEntry)
    BY <1>0
  <2> QED
    BY <1>0, <2>1, <2>2, <2>3, <2>4, <2>5 DEF TypeOK
<1>2. InPlace
  BY <1>0 DEF InPlace, Querying
<1>3. HistoryFits /\ EveryIteration
  BY <1>0 DEF HistoryFits, EveryIteration, Querying
<1>4. Counted
  <2>1. WarningsIn(scheme, found) = {} /\ ErrorsIn(scheme, found) = {}
    BY <1>0 DEF WarningsIn, ErrorsIn
  <2>2. ConfigCount(scheme, found) = 0
    BY <2>1, FS_EmptySet DEF ConfigCount
  <2> QED
    BY <1>0, <2>2 DEF Counted, Querying
<1>5. Grounded
  BY <1>0 DEF Grounded, Built
<1> QED
  BY <1>1, <1>2, <1>3, <1>4, <1>5 DEF IInv

\* Every state of a run of a scheme satisfies the inductive invariant (SchemeRunner.run_scheme).
THEOREM Invariance == Spec => []IInv
<1>1. IInv /\ [Next]_vars => IInv'
  BY TypeStep, InPlaceStep, HistoryStep, IterationStep, CountedStep, GroundedStep DEF IInv
<1> QED
  BY InitInvariant, <1>1, PTL DEF Spec

\* A run that is done has judged every query entry.
LEMMA DonePlace ==
  ASSUME IInv, pc = "done"
  PROVE  /\ at = Len(scheme.queries) + 1 /\ at - 1 = Len(scheme.queries)
         /\ DOMAIN scheme.queries = 1 .. Len(scheme.queries) /\ Len(scheme.queries) \in Nat
<1>1. DOMAIN scheme.queries = 1 .. Len(scheme.queries) /\ Len(scheme.queries) \in Nat
  <2>1. scheme.queries \in Seq(QueryEntry)
    BY SchemeShape DEF IInv, TypeOK
  <2> QED
    BY <2>1
<1>2. at = Len(scheme.queries) + 1
  BY DEF IInv, InPlace
<1> QED
  BY <1>1, <1>2

\* Where the sub-queries of an entry but the last found nothing, the last one's answers add up
\* to those of all.
LEMMA LastIsAll ==
  ASSUME NEW q, OnlyLastFinds(q), NEW f \in Fields
  PROVE  SumOf(q, f) = Total(answered, q, SubsOf(scheme, q), f)
<1>1. ASSUME NEW i \in DOMAIN answered, answered[i].query = q, answered[i].sub # LastSub(q)
      PROVE  1 .. answered[i].answer[f] = {}
  <2>1. answered[i].answer = NoResult
    BY <1>1 DEF OnlyLastFinds
  <2>2. NoResult["result"] = 0 /\ NoResult["notExecuted"] = 0
    BY DEF NoResult
  <2>3. answered[i].answer[f] = 0
    BY <2>1, <2>2 DEF Fields
  <2> QED
    BY <2>3
<1>2. ASSUME NEW v PROVE v \in Units(q, f) <=> v \in UnitsIn(answered, q, LastSub(q), f)
  <2>1. v \in Units(q, f) <=>
          \E i \in DOMAIN answered : answered[i].query = q /\ v \in {i} \X (1 .. answered[i].answer[f])
    BY DEF Units
  <2>2. \A i \in DOMAIN answered :
          answered[i].query = q /\ v \in {i} \X (1 .. answered[i].answer[f]) => answered[i].sub = LastSub(q)
    BY <1>1
  <2> QED
    BY <2>1, <2>2, UnitsAre
<1>3. Units(q, f) = UnitsIn(answered, q, LastSub(q), f)
  BY <1>2
<1> QED
  BY <1>3 DEF SumOf, Total, LastSub, SubsOf

\* The same of what differs from the expected output.
LEMMA LastDiffers ==
  ASSUME NEW q, OnlyLastFinds(q), different \subseteq Nat \X Nat
  PROVE  (\E d \in different : d[1] = q) <=> <<q, SubsOf(scheme, q)>> \in different
<1>1. ASSUME NEW d \in different, d[1] = q PROVE d = <<q, SubsOf(scheme, q)>>
  <2>1. d[2] = SubsOf(scheme, q)
    BY <1>1 DEF OnlyLastFinds, LastSub, SubsOf
  <2>2. d \in Nat \X Nat
    OBVIOUS
  <2> QED
    BY <1>1, <2>1, <2>2
<1>2. <<q, SubsOf(scheme, q)>>[1] = q
  OBVIOUS
<1> QED
  BY <1>1, <1>2

\* The exit code of a scheme is the number of its expectations that the answers contradict
\* (SchemeRunner._add_config, run_queries), whatever the scheme and the answers are, where
\* overwritten sub-queries and configurations without queries make no difference.
THEOREM ExitCodeExact == Spec => []ExitCodeCounts
<1>1. IInv => ExitCodeCounts
  <2> SUFFICES ASSUME IInv, pc = "done", \A q \in DOMAIN scheme.queries : OnlyLastFinds(q) PROVE
        global_res = Cardinality(BadWarnings) + Cardinality(BadErrors)
                       + Cardinality(BadResults(DOMAIN scheme.queries))
                       + Cardinality(BadSkips(DOMAIN scheme.queries))
                       + Cardinality(BadOutputs(DOMAIN scheme.queries))
    BY DEF ExitCodeCounts
  <2>1. at - 1 = Len(scheme.queries) /\ DOMAIN scheme.queries = 1 .. Len(scheme.queries)
    BY DonePlace
  <2>2. global_res = ConfigCount(scheme, found) + QueryCount(scheme, answered, different, Len(scheme.queries))
    BY <2>1 DEF IInv, Counted, Querying
  <2>3. BadWarnings = WarningsIn(scheme, found) /\ BadErrors = ErrorsIn(scheme, found)
    BY DEF BadWarnings, WarningsIn, BadErrors, ErrorsIn
  <2>4. \A q \in DOMAIN scheme.queries :
          /\ SumOf(q, "result") = Total(answered, q, SubsOf(scheme, q), "result")
          /\ SumOf(q, "notExecuted") = Total(answered, q, SubsOf(scheme, q), "notExecuted")
          /\ (\E d \in different : d[1] = q) <=> <<q, SubsOf(scheme, q)>> \in different
    BY LastIsAll, LastDiffers DEF Fields, IInv, TypeOK
  <2>5. /\ BadResults(DOMAIN scheme.queries) = ResultsIn(scheme, answered, Len(scheme.queries))
        /\ BadSkips(DOMAIN scheme.queries) = SkipsIn(scheme, answered, Len(scheme.queries))
        /\ BadOutputs(DOMAIN scheme.queries) = OutputsIn(scheme, different, Len(scheme.queries))
    BY <2>1, <2>4 DEF BadResults, ResultsIn, BadSkips, SkipsIn, BadOutputs, OutputsIn
  <2>6. /\ Cardinality(WarningsIn(scheme, found)) \in Nat /\ Cardinality(ErrorsIn(scheme, found)) \in Nat
    BY ConfigCountType DEF IInv, TypeOK
  <2>7. Len(scheme.queries) \in Nat
    BY DonePlace
  <2>8. /\ Cardinality(ResultsIn(scheme, answered, Len(scheme.queries))) \in Nat
        /\ Cardinality(SkipsIn(scheme, answered, Len(scheme.queries))) \in Nat
        /\ Cardinality(OutputsIn(scheme, different, Len(scheme.queries))) \in Nat
    BY <2>7, CountType
  <2> QED
    BY <2>2, <2>3, <2>5, <2>6, <2>8 DEF ConfigCount, QueryCount
<1> QED
  BY Invariance, <1>1, PTL

\* When a run is done, every sub-query of the scheme has compared what it had to, and every
\* iteration of it has an answer.
LEMMA AllEnded ==
  ASSUME IInv, pc = "done", NEW q \in DOMAIN scheme.queries, NEW k \in DOMAIN scheme.queries[q].subs
  PROVE  /\ scheme.queries[q].subs[k] \in SubQuery
         /\ Comparing(scheme, q, k) /\ Answered(scheme, answered, q, k, {})
<1>1. q < at
  BY DonePlace
<1>2. Ended(q, k) /\ Querying
  BY <1>1 DEF Ended, Querying
<1>3. scheme.queries[q].subs[k] \in SubQuery
  BY SchemeShape DEF IInv, TypeOK
<1> QED
  BY <1>2, <1>3 DEF IInv, EveryIteration

\* An answer of an iteration is about the two configurations of the pair.
LEMMA IterationAnswered ==
  ASSUME IInv, pc = "done", NEW q \in DOMAIN scheme.queries, NEW k \in DOMAIN scheme.queries[q].subs,
         NEW t \in Iterations(scheme.queries[q].subs[k])
  PROVE  LET cs == scheme.queries[q].subs[k].configs IN
         /\ {cs[t[1]], cs[t[2]]} \in {answered[i].on : i \in AnswersOf(q, k)}
         /\ cs[t[1]] \in Built /\ cs[t[2]] \in Built
<1>1. Answered(scheme, answered, q, k, {})
  BY AllEnded
<1>2. PICK i \in DOMAIN answered : /\ answered[i].query = q /\ answered[i].sub = k
                                   /\ answered[i].on = On(scheme.queries[q].subs[k], t)
  BY <1>1 DEF Answered, SubQueryOf
<1>3. answered[i].on \subseteq Built
  BY DEF IInv, Grounded
<1> QED
  BY <1>2, <1>3 DEF AnswersOf, On

\* The shape of a sub-query.
LEMMA SubQueryShape ==
  ASSUME NEW s \in SubQuery
  PROVE  /\ s.kind \in SingleKinds \cup BaseKinds \cup PairKinds \cup AllPairsKinds
         /\ s.configs \in Seq(Names) /\ Len(s.configs) \in Nat /\ DOMAIN s.configs = 1 .. Len(s.configs)
BY DEF SubQuery

\* The iterations reach every configuration the sub-query names, but for one name alone.
LEMMA ComparedAll ==
  ASSUME NEW s \in SubQuery, s.kind \in SingleKinds \/ Len(s.configs) > 1,
         \A t \in Iterations(s) : s.configs[t[1]] \in Built /\ s.configs[t[2]] \in Built
  PROVE  Compared(s)
<1> DEFINE cs == s.configs
<1>2. /\ s.kind \in SingleKinds \cup BaseKinds \cup PairKinds \cup AllPairsKinds
      /\ cs \in Seq(Names) /\ Len(cs) \in Nat /\ DOMAIN cs = 1 .. Len(cs)
      /\ s.kind \in SingleKinds \/ Len(cs) > 1
  BY SubQueryShape
<1>3. \A t \in Iterations(s) : cs[t[1]] \in Built /\ cs[t[2]] \in Built
  OBVIOUS
<1>4. CASE s.kind \in SingleKinds
  <2>1. \A i \in DOMAIN cs : <<i, i>> \in Iterations(s)
    BY <1>4 DEF Iterations, Singles
  <2>2. \A i \in DOMAIN cs : cs[i] \in Built
    BY <1>3, <2>1
  <2> QED
    BY <1>4, <2>2 DEF Compared
<1>5. CASE s.kind \notin SingleKinds /\ s.kind \in BaseKinds
  <2>1. \A i \in 2 .. Len(cs) : <<i, 1>> \in Iterations(s)
    BY <1>5 DEF Iterations, VersusBase
  <2>2. \A i \in 2 .. Len(cs) : cs[i] \in Built /\ cs[1] \in Built
    BY <1>3, <2>1
  <2>3. 2 \in 2 .. Len(cs) /\ \A i \in DOMAIN cs : i = 1 \/ i \in 2 .. Len(cs)
    BY <1>2, <1>5
  <2>4. \A i \in DOMAIN cs : cs[i] \in Built
    BY <2>2, <2>3
  <2> QED
    BY <1>2, <2>4 DEF Compared
<1>6. CASE s.kind \notin SingleKinds \cup BaseKinds /\ s.kind \in PairKinds
  <2>1. \A i, j \in DOMAIN cs : i < j => <<i, j>> \in Iterations(s)
    BY <1>6 DEF Iterations, Followed
  <2>2. \A i, j \in DOMAIN cs : i < j => cs[i] \in Built /\ cs[j] \in Built
    BY <1>3, <2>1
  <2>3. \A i \in DOMAIN cs : (1 \in DOMAIN cs /\ 1 < i) \/ (2 \in DOMAIN cs /\ i < 2)
    BY <1>2, <1>6
  <2>4. \A i \in DOMAIN cs : cs[i] \in Built
    BY <2>2, <2>3
  <2> QED
    BY <1>2, <2>4 DEF Compared
<1>7. CASE s.kind \notin SingleKinds \cup BaseKinds \cup PairKinds
  <2>1. \A i, j \in DOMAIN cs : cs[i] # cs[j] => <<i, j>> \in Iterations(s)
    BY <1>7 DEF Iterations, AllPairs
  <2>2. \A i, j \in DOMAIN cs : cs[i] # cs[j] => cs[i] \in Built /\ cs[j] \in Built
    BY <1>3, <2>1
  <2>3. s.kind \in AllPairsKinds
    BY <1>2, <1>7
  <2>4. ASSUME NEW i \in DOMAIN cs, NEW j \in DOMAIN cs, cs[i] # cs[j]
        PROVE  \A n \in DOMAIN cs : cs[n] \in Built
    BY <2>2, <2>4
  <2> QED
    BY <1>2, <1>7, <2>3, <2>4 DEF Compared
<1> QED
  BY <1>4, <1>5, <1>6, <1>7

\* Every answer is about configurations that could be parsed, explanations come from a
\* tracker that has served no other query, and a run comes to its end only when every
\* sub-query has compared all that it names (SchemeRunner.activate_exp_tracker, _add_config,
\* NetworkConfigQueryRunner.run_query).
THEOREM Grounding == Spec => []AnswersAreGrounded
<1>1. ASSUME IInv, NEW i \in DOMAIN answered, scheme.queries[answered[i].query].html
      PROVE  tracker /\ \A j \in DOMAIN answered : j < i => answered[j].query = answered[i].query
  <2>1. pc \notin {"scheme", "refused"}
    BY <1>1 DEF IInv, InPlace
  <2>2. answered[i].query \in DOMAIN scheme.queries
    BY <1>1 DEF IInv, HistoryFits
  <2>3. tracker /\ answered[i].query = 1
    BY <1>1, <2>1, <2>2 DEF IInv, Grounded, SafeToExplain
  <2>4. \A j \in DOMAIN answered : j < i => answered[j].query <= 1
    BY <1>1, <2>3 DEF IInv, HistoryFits
  <2>5. \A j \in DOMAIN answered : answered[j].query \in Nat \ {0}
    BY <1>1, SchemeShape DEF IInv, TypeOK, HistoryFits
  <2> QED
    BY <2>3, <2>4, <2>5
<1>2. ASSUME IInv, pc = "done", NEW q \in DOMAIN scheme.queries, NEW k \in DOMAIN scheme.queries[q].subs
      PROVE  Compared(scheme.queries[q].subs[k])
  <2>1. \A t \in Iterations(scheme.queries[q].subs[k]) :
          LET cs == scheme.queries[q].subs[k].configs IN cs[t[1]] \in Built /\ cs[t[2]] \in Built
    BY <1>2, IterationAnswered
  <2>2. /\ scheme.queries[q].subs[k] \in SubQuery
        /\ \/ scheme.queries[q].subs[k].kind \in SingleKinds
           \/ Len(scheme.queries[q].subs[k].configs) > 1
    BY <1>2, AllEnded DEF Comparing, SubQueryOf
  <2> QED
    BY <2>1, <2>2, ComparedAll
<1>3. IInv => AnswersAreGrounded
  BY <1>1, <1>2 DEF AnswersAreGrounded, IInv, Grounded
<1> QED
  BY Invariance, <1>3, PTL

\* The pairs of the iterations are all the pairs the kind of the query promises.
LEMMA PromisedAll ==
  ASSUME NEW s \in SubQuery, NEW Ons,
         \A t \in Iterations(s) : {s.configs[t[1]], s.configs[t[2]]} \in Ons
  PROVE  Promised(s) \subseteq Ons
<1> DEFINE cs == s.configs
<1>2. /\ s.kind \in SingleKinds \cup BaseKinds \cup PairKinds \cup AllPairsKinds
      /\ cs \in Seq(Names) /\ Len(cs) \in Nat /\ DOMAIN cs = 1 .. Len(cs)
  BY SubQueryShape
<1>3. \A t \in Iterations(s) : {cs[t[1]], cs[t[2]]} \in Ons
  OBVIOUS
<1>4. CASE s.kind \in SingleKinds
  <2>1. \A i \in DOMAIN cs : <<i, i>> \in Iterations(s)
    BY <1>4 DEF Iterations, Singles
  <2>2. \A i \in DOMAIN cs : {cs[i], cs[i]} \in Ons
    BY <1>3, <2>1
  <2>3. \A n : {n, n} = {n}
    OBVIOUS
  <2> QED
    BY <1>4, <2>2, <2>3 DEF Promised
<1>5. CASE s.kind \notin SingleKinds /\ s.kind \in BaseKinds
  <2>1. \A i \in 2 .. Len(cs) : <<i, 1>> \in Iterations(s)
    BY <1>5 DEF Iterations, VersusBase
  <2>2. \A i \in 2 .. Len(cs) : {cs[i], cs[1]} \in Ons
    BY <1>3, <2>1
  <2>3. \A m, n : {m, n} = {n, m}
    OBVIOUS
  <2> QED
    BY <1>5, <2>2, <2>3 DEF Promised
<1>6. CASE s.kind \notin SingleKinds \cup BaseKinds
  <2>1. \A i, j \in DOMAIN cs : i < j /\ cs[i] # cs[j] => <<i, j>> \in Iterations(s)
    BY <1>6 DEF Iterations, Followed, AllPairs
  <2>2. \A i, j \in DOMAIN cs : i < j /\ cs[i] # cs[j] => {cs[i], cs[j]} \in Ons
    BY <1>3, <2>1
  <2>3. \A m, n : {m, n} = {n, m}
    OBVIOUS
  <2>4. \A i, j \in DOMAIN cs : i < j \/ j < i \/ i = j
    BY <1>2
  <2>5. \A i, j \in DOMAIN cs : cs[i] # cs[j] => {cs[i], cs[j]} \in Ons
    BY <2>2, <2>3, <2>4
  <2> DEFINE names == {s.configs[i] : i \in DOMAIN s.configs}
  <2>6. Promised(s) = {{m, n} : m, n \in names} \ {{n} : n \in names}
    <3>1. s.kind \notin SingleKinds /\ s.kind \notin BaseKinds
      BY <1>6
    <3>2. Promised(s) = IF s.kind \in SingleKinds THEN {{n} : n \in names}
                        ELSE IF s.kind \in BaseKinds
                          THEN {{s.configs[1], s.configs[i]} : i \in 2 .. Len(s.configs)}
                          ELSE {{m, n} : m, n \in names} \ {{n} : n \in names}
      BY DEF Promised
    <3> HIDE DEF names
    <3> QED
      BY <3>1, <3>2
  <2>7. ASSUME NEW p \in Promised(s) PROVE p \in Ons
    <3>1. PICK i \in DOMAIN cs, j \in DOMAIN cs : p = {cs[i], cs[j]}
      BY <2>6, <2>7
    <3>2. cs[i] # cs[j]
      BY <2>6, <3>1
    <3> QED
      BY <2>5, <3>1, <3>2
  <2> QED
    BY <2>7
<1> QED
  BY <1>4, <1>5, <1>6

\* A clean exit vouches for every pair the kind of a query promises to compare, and for the
\* number of iterations that were not executed (NetworkConfigQueryRunner._run_query_for_each_config
\* and its three siblings, QueryResult.update, SchemeRunner.run_queries).
THEOREM Vouching == Spec => []CleanExitVouches
<1>1. ASSUME IInv, pc = "done", NEW q \in DOMAIN scheme.queries, 1 \in DOMAIN scheme.queries[q].subs
      PROVE  Promised(scheme.queries[q].subs[1]) \subseteq {answered[i].on : i \in AnswersOf(q, 1)}
  BY <1>1, AllEnded, IterationAnswered, PromisedAll
<1>2. ASSUME IInv, pc = "done", global_res = 0, NEW q \in DOMAIN scheme.queries
      PROVE  scheme.queries[q].expectedNotExecuted = Total(answered, q, SubsOf(scheme, q), "notExecuted")
  <2>1. /\ at - 1 = Len(scheme.queries) /\ DOMAIN scheme.queries = 1 .. Len(scheme.queries)
        /\ Len(scheme.queries) \in Nat
    BY <1>2, DonePlace
  <2>2. 0 = ConfigCount(scheme, found) + QueryCount(scheme, answered, different, Len(scheme.queries))
    BY <1>2, <2>1 DEF IInv, Counted, Querying
  <2>3. ConfigCount(scheme, found) \in Nat
    BY <1>2, ConfigCountType DEF IInv, TypeOK
  <2>4. Cardinality(SkipsIn(scheme, answered, Len(scheme.queries))) = 0
    BY <2>1, <2>2, <2>3, CountType DEF QueryCount
  <2>5. SkipsIn(scheme, answered, Len(scheme.queries)) = {}
    BY <2>1, <2>4, CountType, FS_EmptySet
  <2> QED
    BY <2>1, <2>5 DEF SkipsIn
<1>3. ASSUME IInv, NEW q
      PROVE  Cardinality({i \in AnswersOf(q, 1) : answered[i].answer.notExecuted = 1})
               = Total(answered, q, 1, "notExecuted")
  BY <1>3, SkipsCount DEF IInv, TypeOK, AnswersOf
<1>4. ASSUME IInv, pc = "done", global_res = 0, NEW q \in DOMAIN scheme.queries,
             Len(scheme.queries[q].subs) = 1
      PROVE  /\ Promised(scheme.queries[q].subs[1]) \subseteq {answered[i].on : i \in AnswersOf(q, 1)}
             /\ Cardinality({i \in AnswersOf(q, 1) : answered[i].answer.notExecuted = 1})
                  = scheme.queries[q].expectedNotExecuted
  <2>1. 1 \in DOMAIN scheme.queries[q].subs /\ SubsOf(scheme, q) = 1
    BY <1>4, SchemeShape DEF IInv, TypeOK, SubsOf
  <2>2. scheme.queries[q].expectedNotExecuted = Total(answered, q, 1, "notExecuted")
    BY <1>2, <1>4, <2>1
  <2> QED
    BY <1>1, <1>3, <1>4, <2>1, <2>2
<1>5. IInv => CleanExitVouches
  BY <1>4 DEF CleanExitVouches
<1> QED
  BY Invariance, <1>5, PTL
=============================================================================
