------------------------ MODULE ConfigQueriesProofs ------------------------
(***************************************************************************)
(* What the comparing queries answer about any two configurations on any two   *)
(* topologies: their numbers fit together, and a query that does not speak of   *)
(* sides does not depend on them.  The connections of a configuration are not    *)
(* looked into.                                                                  *)
(***************************************************************************)
EXTENDS ConfigQueries, Recursion, FunctionTheorems, FiniteSetTheorems

(***************************************************************************)
(* The configurations are lists of policies on one of the topologies, and the   *)
(* answers so far are those of the queries to the questions so far.             *)
(***************************************************************************)
AnswerTo(k, c1, c2) ==
  LET q == Questions[k]
  IN  Exec(q, IF q.flipped THEN c2 ELSE c1, IF q.flipped THEN c1 ELSE c2)
ConfigType == [pods : {OldPods, NewPods}, arrived : Seq(Policies)]
IInv ==
  /\ config1 \in ConfigType /\ config2 \in ConfigType
  /\ answers \in Seq({AnswerTo(k, config1, config2) : k \in 1 .. Len(Questions)})
  /\ Len(answers) <= Len(Questions)
  /\ \A k \in 1 .. Len(answers) : answers[k] = AnswerTo(k, config1, config2)

\* The questions the properties are about.
LEMMA QuestionsAre ==
  /\ Len(Questions) = 15 /\ DOMAIN Questions = 1 .. 15
  /\ Questions[1] = Question("equivalence", FALSE, FALSE)
  /\ Questions[2] = Question("equivalence", TRUE, FALSE)
  /\ Questions[3] = Question("strongEquivalence", FALSE, FALSE)
  /\ Questions[4] = Question("strongEquivalence", TRUE, FALSE)
  /\ Questions[5] = Question("containment", FALSE, FALSE)
  /\ Questions[6] = Question("containment", TRUE, FALSE)
  /\ Questions[7] = Question("twoWayContainment", FALSE, FALSE)
  /\ Questions[8] = Question("twoWayContainment", FALSE, TRUE)
  /\ Questions[13] = Question("semanticDiff", FALSE, FALSE)
  /\ Questions[14] = Question("semanticDiff", TRUE, FALSE)
BY DEF Questions

\* Configurations are loaded before the first question and stay as they are after it.
THEOREM Invariance == Spec => []IInv
<1>1. Init => IInv
  <2> SUFFICES ASSUME Init PROVE IInv
    OBVIOUS
  <2> DEFINE S == {AnswerTo(k, config1, config2) : k \in 1 .. Len(Questions)}
  <2>1. answers = << >>
    BY DEF Init
  <2> HIDE DEF S
  <2>2. answers \in Seq(S) /\ Len(answers) = 0
    BY <2>1
  <2>3. config1 \in ConfigType /\ config2 \in ConfigType
    BY DEF Init, NoPoliciesOn, ConfigType
  <2> QED
    BY <2>2, <2>3, QuestionsAre DEF IInv, S
<1>2. IInv /\ [Next]_vars => IInv'
  <2> SUFFICES ASSUME IInv, [Next]_vars PROVE IInv'
    OBVIOUS
  <2> DEFINE S(c1, c2) == {AnswerTo(k, c1, c2) : k \in 1 .. Len(Questions)}
  <2>1. /\ answers \in Seq(S(config1, config2)) /\ Len(answers) <= Len(Questions)
        /\ \A k \in 1 .. Len(answers) : answers[k] = AnswerTo(k, config1, config2)
        /\ config1 \in ConfigType /\ config2 \in ConfigType
    BY DEF IInv
  <2>2. CASE Ask
    <3> DEFINE n == Len(answers) + 1
               a == AnswerTo(n, config1, config2)
    <3>1. /\ answers' = Append(answers, a) /\ Len(answers) < Len(Questions)
          /\ config1' = config1 /\ config2' = config2
      BY <2>2 DEF Ask, AnswerTo
    <3>2. n \in 1 .. Len(Questions) /\ Len(answers) \in Nat
      BY <2>1, <3>1, QuestionsAre
    <3>3. a \in S(config1, config2)
      BY <3>2
    <3> HIDE DEF a, S
    <3>4. /\ answers' \in Seq(S(config1, config2)) /\ Len(answers') = n
          /\ \A k \in 1 .. Len(answers) : answers'[k] = answers[k]
          /\ answers'[n] = a
      BY <2>1, <3>1, <3>3
    <3>5. ASSUME NEW k \in 1 .. n PROVE answers'[k] = AnswerTo(k, config1, config2)
      BY <2>1, <3>2, <3>4 DEF a
    <3>6. n <= Len(Questions)
      BY <3>2
    <3> QED
      BY <2>1, <3>1, <3>4, <3>5, <3>6 DEF IInv, S
  <2>3. ASSUME answers = << >>, answers' = answers, config1' \in ConfigType, config2' \in ConfigType
        PROVE  IInv'
    <3> HIDE DEF S
    <3>1. answers' \in Seq(S(config1', config2')) /\ Len(answers') = 0
      BY <2>3
    <3> QED
      BY <2>3, <3>1, QuestionsAre DEF IInv, S
  <2>4. CASE UNCHANGED vars
    BY <2>1, <2>4 DEF vars, IInv
  <2>5. ASSUME NEW p \in Policies, NEW c \in ConfigType
        PROVE  [c EXCEPT !.arrived = Append(@, p)] \in ConfigType
    BY DEF ConfigType
  <2>6. ASSUME NEW p \in Policies, Load1(p) \/ Load2(p) PROVE IInv'
    BY <2>1, <2>3, <2>5, <2>6 DEF Load1, Load2
  <2> QED
    BY <2>2, <2>4, <2>6 DEF Next
<1> QED
  BY <1>1, <1>2, PTL DEF Spec

\* What a query said when all questions are answered.
LEMMA Told ==
  ASSUME IInv, AllAnswered, NEW query, NEW flipped \in BOOLEAN, NEW cli,
         \E i \in DOMAIN Questions : Questions[i] = Question(query, flipped, cli)
  PROVE  To(query, flipped, cli) =
           Exec(Question(query, flipped, cli), IF flipped THEN config2 ELSE config1,
                IF flipped THEN config1 ELSE config2)
<1> DEFINE q == Question(query, flipped, cli)
           i == CHOOSE j \in DOMAIN Questions : Questions[j] = q
<1>1. i \in DOMAIN Questions /\ Questions[i] = q
  OBVIOUS
<1>2. To(query, flipped, cli) = answers[i]
  BY DEF To
<1>3. q.flipped = flipped
  BY DEF Question
<1> HIDE DEF q, i
<1>4. answers[i] = AnswerTo(i, config1, config2)
  BY <1>1, QuestionsAre DEF IInv, AllAnswered
<1> QED
  BY <1>1, <1>2, <1>3, <1>4 DEF AnswerTo, q

\* The answers the properties are about.
LEMMA ToldAre ==
  ASSUME IInv, AllAnswered
  PROVE  /\ To("equivalence", FALSE, FALSE) = Equivalence(config1, config2)
         /\ To("equivalence", TRUE, FALSE) = Equivalence(config2, config1)
         /\ To("strongEquivalence", FALSE, FALSE) = StrongEquivalence(config1, config2)
         /\ To("strongEquivalence", TRUE, FALSE) = StrongEquivalence(config2, config1)
         /\ To("containment", FALSE, FALSE) = Containment(config1, config2, FALSE)
         /\ To("containment", TRUE, FALSE) = Containment(config2, config1, FALSE)
         /\ To("twoWayContainment", FALSE, FALSE) = TwoWayContainment(config1, config2, FALSE)
         /\ To("twoWayContainment", FALSE, TRUE) = TwoWayContainment(config1, config2, TRUE)
         /\ To("semanticDiff", FALSE, FALSE) = SemanticDiff(config1, config2, FALSE)
         /\ To("semanticDiff", TRUE, FALSE) = SemanticDiff(config2, config1, FALSE)
<1> DEFINE Asked(query, flipped, cli) ==
             \E i \in DOMAIN Questions : Questions[i] = Question(query, flipped, cli)
           Said(query, flipped, cli) ==
             Exec(Question(query, flipped, cli), IF flipped THEN config2 ELSE config1,
                  IF flipped THEN config1 ELSE config2)
<1>2. ASSUME NEW query, NEW flipped \in BOOLEAN, NEW cli \in BOOLEAN, Asked(query, flipped, cli)
      PROVE  To(query, flipped, cli) = Said(query, flipped, cli)
  BY <1>2, Told
<1> HIDE DEF Asked
<1>3. ASSUME NEW cli \in BOOLEAN
      PROVE  /\ \A c1, c2 : Exec(Question("equivalence", FALSE, cli), c1, c2)
                           = Equivalence(c1, c2)
             /\ \A c1, c2 : Exec(Question("equivalence", TRUE, cli), c1, c2)
                           = Equivalence(c1, c2)
             /\ \A c1, c2 : Exec(Question("strongEquivalence", FALSE, cli), c1, c2)
                           = StrongEquivalence(c1, c2)
             /\ \A c1, c2 : Exec(Question("strongEquivalence", TRUE, cli), c1, c2)
                           = StrongEquivalence(c1, c2)
             /\ \A c1, c2 : Exec(Question("containment", FALSE, cli), c1, c2)
                           = Containment(c1, c2, cli)
             /\ \A c1, c2 : Exec(Question("containment", TRUE, cli), c1, c2)
                           = Containment(c1, c2, cli)
             /\ \A c1, c2 : Exec(Question("twoWayContainment", FALSE, cli), c1, c2)
                           = TwoWayContainment(c1, c2, cli)
             /\ \A c1, c2 : Exec(Question("semanticDiff", FALSE, cli), c1, c2)
                           = SemanticDiff(c1, c2, cli)
             /\ \A c1, c2 : Exec(Question("semanticDiff", TRUE, cli), c1, c2)
                           = SemanticDiff(c1, c2, cli)
  BY DEF Exec, Question
<1>4. To("equivalence", FALSE, FALSE) = Equivalence(config1, config2)
  <2>1. Asked("equivalence", FALSE, FALSE)
    <3> 1 \in DOMAIN Questions
      BY QuestionsAre
    <3> QED
      BY QuestionsAre, Zenon DEF Asked
  <2>2. To("equivalence", FALSE, FALSE) = Exec(Question("equivalence", FALSE, FALSE), config1, config2)
    BY <1>2, <2>1
  <2> QED
    BY <2>2, <1>3
<1>5. To("equivalence", TRUE, FALSE) = Equivalence(config2, config1)
  <2>1. Asked("equivalence", TRUE, FALSE)
    <3> 2 \in DOMAIN Questions
      BY QuestionsAre
    <3> QED
      BY QuestionsAre, Zenon DEF Asked
  <2>2. To("equivalence", TRUE, FALSE) = Exec(Question("equivalence", TRUE, FALSE), config2, config1)
    BY <1>2, <2>1
  <2> QED
    BY <2>2, <1>3
<1>6. To("strongEquivalence", FALSE, FALSE) = StrongEquivalence(config1, config2)
  <2>1. Asked("strongEquivalence", FALSE, FALSE)
    <3> 3 \in DOMAIN Questions
      BY QuestionsAre
    <3> QED
      BY QuestionsAre, Zenon DEF Asked
  <2>2. To("strongEquivalence", FALSE, FALSE) = Exec(Question("strongEquivalence", FALSE, FALSE), config1, config2)
    BY <1>2, <2>1
  <2> QED
    BY <2>2, <1>3
<1>7. To("strongEquivalence", TRUE, FALSE) = StrongEquivalence(config2, config1)
  <2>1. Asked("strongEquivalence", TRUE, FALSE)
    <3> 4 \in DOMAIN Questions
      BY QuestionsAre
    <3> QED
      BY QuestionsAre, Zenon DEF Asked
  <2>2. To("strongEquivalence", TRUE, FALSE) = Exec(Question("strongEquivalence", TRUE, FALSE), config2, config1)
    BY <1>2, <2>1
  <2> QED
    BY <2>2, <1>3
<1>8. To("containment", FALSE, FALSE) = Containment(config1, config2, FALSE)
  <2>1. Asked("containment", FALSE, FALSE)
    <3> 5 \in DOMAIN Questions
      BY QuestionsAre
    <3> QED
      BY QuestionsAre, Zenon DEF Asked
  <2>2. To("containment", FALSE, FALSE) = Exec(Question("containment", FALSE, FALSE), config1, config2)
    BY <1>2, <2>1
  <2> QED
    BY <2>2, <1>3
<1>9. To("containment", TRUE, FALSE) = Containment(config2, config1, FALSE)
  <2>1. Asked("containment", TRUE, FALSE)
    <3> 6 \in DOMAIN Questions
      BY QuestionsAre
    <3> QED
      BY QuestionsAre, Zenon DEF Asked
  <2>2. To("containment", TRUE, FALSE) = Exec(Question("containment", TRUE, FALSE), config2, config1)
    BY <1>2, <2>1
  <2> QED
    BY <2>2, <1>3
<1>10. To("twoWayContainment", FALSE, FALSE) = TwoWayContainment(config1, config2, FALSE)
  <2>1. Asked("twoWayContainment", FALSE, FALSE)
    <3> 7 \in DOMAIN Questions
      BY QuestionsAre
    <3> QED
      BY QuestionsAre, Zenon DEF Asked
  <2>2. To("twoWayContainment", FALSE, FALSE) = Exec(Question("twoWayContainment", FALSE, FALSE), config1, config2)
    BY <1>2, <2>1
  <2> QED
    BY <2>2, <1>3
<1>11. To("twoWayContainment", FALSE, TRUE) = TwoWayContainment(config1, config2, TRUE)
  <2>1. Asked("twoWayContainment", FALSE, TRUE)
    <3> 8 \in DOMAIN Questions
      BY QuestionsAre
    <3> QED
      BY QuestionsAre, Zenon DEF Asked
  <2>2. To("twoWayContainment", FALSE, TRUE) = Exec(Question("twoWayContainment", FALSE, TRUE), config1, config2)
    BY <1>2, <2>1
  <2> QED
    BY <2>2, <1>3
<1>12. To("semanticDiff", FALSE, FALSE) = SemanticDiff(config1, config2, FALSE)
  <2>1. Asked("semanticDiff", FALSE, FALSE)
    <3> 13 \in DOMAIN Questions
      BY QuestionsAre
    <3> QED
      BY QuestionsAre, Zenon DEF Asked
  <2>2. To("semanticDiff", FALSE, FALSE) = Exec(Question("semanticDiff", FALSE, FALSE), config1, config2)
    BY <1>2, <2>1
  <2> QED
    BY <2>2, <1>3
<1>13. To("semanticDiff", TRUE, FALSE) = SemanticDiff(config2, config1, FALSE)
  <2>1. Asked("semanticDiff", TRUE, FALSE)
    <3> 14 \in DOMAIN Questions
      BY QuestionsAre
    <3> QED
      BY QuestionsAre, Zenon DEF Asked
  <2>2. To("semanticDiff", TRUE, FALSE) = Exec(Question("semanticDiff", TRUE, FALSE), config2, config1)
    BY <1>2, <2>1
  <2> QED
    BY <2>2, <1>3
<1> QED
  BY <1>4, <1>5, <1>6, <1>7, <1>8, <1>9, <1>10, <1>11, <1>12, <1>13

(***************************************************************************)
(* What the numbers of the queries say of the configurations.                *)
(***************************************************************************)
\* Equivalence is having the same policies or the same allowed connections.
LEMMA EquivalenceSays ==
  ASSUME NEW c1, NEW c2
  PROVE  /\ Equivalence(c1, c2).result \in {0, 1}
         /\ Equivalence(c1, c2).result = 0
              <=> Comparable(c1, c2) /\ (SamePolicies(c1, c2) \/ AllAllowed(c1) = AllAllowed(c2))
BY DEF Equivalence, Answer, Skipped, Bit

\* Containment is that of the peers and of all allowed connections.
LEMMA ContainmentSays ==
  ASSUME NEW c1, NEW c2
  PROVE  Containment(c1, c2, FALSE).result = 1
           <=> PeersOf(c1) \subseteq PeersOf(c2) /\ AllAllowed(c1) \subseteq AllAllowed(c2)
BY DEF Containment, Answer, Bit, Contained

\* The two-way query puts the two containments into one number.
LEMMA TwoWaySays ==
  ASSUME NEW c1, NEW c2
  PROVE  LET in12 == Containment(c1, c2, FALSE).result = 1
             in21 == Containment(c2, c1, FALSE).result = 1
             same == SamePolicies(c1, c2)
         IN  /\ same => TwoWayContainment(c1, c2, FALSE).result = 0
             /\ ~same => TwoWayContainment(c1, c2, FALSE).result
                           = (IF in12 THEN 2 ELSE 0) + (IF in21 THEN 1 ELSE 0)
             /\ TwoWayContainment(c1, c2, TRUE).result = 0 <=> same \/ (in12 /\ in21)
<1> DEFINE A == Contained(c1, c2, FALSE)
           B == Contained(c2, c1, FALSE)
<1>1. /\ Contained(c1, c2, FALSE) <=> Containment(c1, c2, FALSE).result = 1
      /\ Contained(c2, c1, FALSE) <=> Containment(c2, c1, FALSE).result = 1
  BY ContainmentSays DEF Contained
<1>2. ASSUME NEW cli \in BOOLEAN
      PROVE  TwoWayContainment(c1, c2, cli).result
               = IF SamePolicies(c1, c2) THEN 0 ELSE TwoWay(A, B, cli)
  BY DEF TwoWayContainment, Answer
<1>3. /\ TwoWay(A, B, FALSE) = (IF A THEN 2 ELSE 0) + (IF B THEN 1 ELSE 0)
      /\ TwoWay(A, B, TRUE) = IF A /\ B THEN 0 ELSE 1
  BY DEF TwoWay, OneOfTwo, Bit, Contained
<1>4. ASSUME NEW cli \in BOOLEAN
      PROVE  /\ SamePolicies(c1, c2) => TwoWayContainment(c1, c2, cli).result = 0
             /\ ~SamePolicies(c1, c2) =>
                  TwoWayContainment(c1, c2, cli).result = TwoWay(A, B, cli)
  BY <1>2
<1> HIDE DEF A, B
<1> DEFINE in12 == Containment(c1, c2, FALSE).result = 1
           in21 == Containment(c2, c1, FALSE).result = 1
           same == SamePolicies(c1, c2)
           twoWay == TwoWayContainment(c1, c2, FALSE).result
           exit == TwoWayContainment(c1, c2, TRUE).result
<1>5. (A <=> in12) /\ (B <=> in21)
  BY <1>1 DEF A, B
<1>6. same => twoWay = 0 /\ exit = 0
  BY <1>4
<1>7. ~same => /\ twoWay = (IF A THEN 2 ELSE 0) + (IF B THEN 1 ELSE 0)
               /\ exit = IF A /\ B THEN 0 ELSE 1
  BY <1>3, <1>4
<1> HIDE DEF in12, in21, same, twoWay, exit
<1>8. /\ same => twoWay = 0
      /\ ~same => twoWay = (IF in12 THEN 2 ELSE 0) + (IF in21 THEN 1 ELSE 0)
      /\ exit = 0 <=> same \/ (in12 /\ in21)
  BY <1>5, <1>6, <1>7
<1> QED
  BY <1>8 DEF in12, in21, same, twoWay, exit

\* Equivalence, containment and the two-way query tell the same story about every two
\* configurations.
THEOREM AnswersFit == Spec => []AnswersFitTogether
<1>1. IInv => AnswersFitTogether
  <2> SUFFICES ASSUME IInv, AllAnswered PROVE AnswersFitTogether
    BY DEF AnswersFitTogether
  <2> DEFINE in12 == Containment(config1, config2, FALSE).result = 1
             in21 == Containment(config2, config1, FALSE).result = 1
             equal == Equivalence(config1, config2).result = 0
             same == SamePolicies(config1, config2)
             comparable == Comparable(config1, config2)
             alike == AllAllowed(config1) = AllAllowed(config2)
             twoWay == TwoWayContainment(config1, config2, FALSE).result
             twoWayExit == TwoWayContainment(config1, config2, TRUE).result
  <2>1. equal <=> comparable /\ (same \/ alike)
    BY EquivalenceSays
  <2>2. in12 /\ in21 <=> comparable /\ alike
    <3>1. /\ in12 <=> PeersOf(config1) \subseteq PeersOf(config2)
                       /\ AllAllowed(config1) \subseteq AllAllowed(config2)
          /\ in21 <=> PeersOf(config2) \subseteq PeersOf(config1)
                       /\ AllAllowed(config2) \subseteq AllAllowed(config1)
      BY ContainmentSays
    <3>2. ASSUME NEW X, NEW Y PROVE X \subseteq Y /\ Y \subseteq X <=> X = Y
      BY Zenon
    <3> HIDE DEF in12, in21
    <3> QED
      BY <3>1, <3>2, Zenon DEF Comparable
  <2>3. same => comparable
    BY DEF SamePolicies
  <2>4. /\ same => twoWay = 0
        /\ ~same => twoWay = (IF in12 THEN 2 ELSE 0) + (IF in21 THEN 1 ELSE 0)
        /\ twoWayExit = 0 <=> same \/ (in12 /\ in21)
    BY TwoWaySays
  <2>5. /\ Result("containment") = Containment(config1, config2, FALSE).result
        /\ To("containment", TRUE, FALSE).result = Containment(config2, config1, FALSE).result
        /\ Result("equivalence") = Equivalence(config1, config2).result
        /\ Result("twoWayContainment") = twoWay
        /\ To("twoWayContainment", FALSE, TRUE).result = twoWayExit
    BY ToldAre DEF Result
  <2> HIDE DEF in12, in21, equal, same, comparable, alike, twoWay, twoWayExit
  <2>6. /\ same => equal /\ twoWay = 0
        /\ ~same => (equal <=> in12 /\ in21 /\ comparable)
                    /\ twoWay = (IF in12 THEN 2 ELSE 0) + (IF in21 THEN 1 ELSE 0)
        /\ twoWayExit = 0 <=> equal \/ (in12 /\ in21 /\ ~same)
    BY <2>1, <2>2, <2>3, <2>4
  <2> QED
    BY <2>5, <2>6 DEF AnswersFitTogether, in12, in21, equal, same, comparable
<1> QED
  BY <1>1, Invariance, PTL

(***************************************************************************)
(* Sides.                                                                    *)
(***************************************************************************)
\* Equivalence has no sides.
LEMMA EquivalenceTurned ==
  ASSUME NEW c1, NEW c2
  PROVE  /\ Comparable(c1, c2) <=> Comparable(c2, c1)
         /\ SamePolicies(c1, c2) <=> SamePolicies(c2, c1)
         /\ Equivalence(c1, c2).result = Equivalence(c2, c1).result
<1>1. /\ Comparable(c1, c2) <=> Comparable(c2, c1)
      /\ SamePolicies(c1, c2) <=> SamePolicies(c2, c1)
  BY DEF Comparable, SamePolicies
<1> QED
  BY <1>1, EquivalenceSays

\* Two lists of ten sets, one the other in another order, have as many that are not empty.
LEMMA SameCount ==
  ASSUME NEW s, NEW t, DOMAIN s = 1 .. 10, DOMAIN t = 1 .. 10,
         NEW m \in [1 .. 10 -> 1 .. 10], \A i \in 1 .. 10 : m[m[i]] = i,
         \A i \in 1 .. 10 : t[i] = s[m[i]]
  PROVE  CountOf(s) = CountOf(t)
<1> DEFINE S == {i \in 1 .. 10 : s[i] # {}}
           T == {i \in 1 .. 10 : t[i] # {}}
           f == [i \in S |-> m[i]]
<1>1. f \in [S -> T]
  <2>1. ASSUME NEW i \in S PROVE m[i] \in T
    OBVIOUS
  <2> QED
    BY <2>1
<1>2. \A i, j \in S : f[i] = f[j] => i = j
  OBVIOUS
<1>3. \A j \in T : \E i \in S : f[i] = j
  <2> SUFFICES ASSUME NEW j \in T PROVE \E i \in S : f[i] = j
    OBVIOUS
  <2> m[j] \in S /\ f[m[j]] = j
    OBVIOUS
  <2> QED
    OBVIOUS
<1> IsFiniteSet(S)
  <2>1. ASSUME NEW n \in Nat PROVE IsFiniteSet(1 .. n)
    BY FS_Interval
  <2> IsFiniteSet(1 .. 10)
    BY <2>1
  <2> QED
    BY FS_Subset
<1> HIDE DEF S, T, f
<1>4. f \in Bijection(S, T)
  BY <1>1, <1>2, <1>3, Fun_IsBij
<1>5. ExistsBijection(S, T)
  BY <1>4 DEF ExistsBijection
<1>6. Cardinality(S) = Cardinality(T)
  BY <1>5, FS_Bijection
<1> QED
  BY <1>6 DEF CountOf, S, T

\* What one configuration lost is what the other has new: the categories of the semantic
\* diff change places when the configurations do.
LEMMA CategoriesTurned ==
  ASSUME NEW c1, NEW c2
  PROVE  CountOf(Categories(c1, c2)) = CountOf(Categories(c2, c1))
<1> DEFINE s == Categories(c1, c2)
           t == Categories(c2, c1)
           m == [i \in 1 .. 10 |-> CASE i = 1 -> 9 [] i = 9 -> 1 [] i = 2 -> 10 [] i = 10 -> 2
                                     [] i = 3 -> 8 [] i = 8 -> 3 [] i = 4 -> 5 [] i = 5 -> 4
                                     [] i = 6 -> 7 [] i = 7 -> 6]
<1>1. DOMAIN s = 1 .. 10 /\ DOMAIN t = 1 .. 10
  BY DEF Categories, CategoriesOf
<1>2. m \in [1 .. 10 -> 1 .. 10] /\ \A i \in 1 .. 10 : m[m[i]] = i
  OBVIOUS
<1>3. ASSUME NEW S, NEW A, NEW B
      PROVE  Across(S, A, B) = Across(S, B, A)
  BY DEF Across
<1>4. /\ CapturedPods(c1, c2) = CapturedPods(c2, c1)
      /\ PeersOf(c1) \cap PeersOf(c2) = PeersOf(c2) \cap PeersOf(c1)
  BY DEF CapturedPods
<1>5. /\ t[1] = s[9] /\ t[2] = s[10] /\ t[3] = s[8] /\ t[4] = s[5] /\ t[5] = s[4]
      /\ t[6] = s[7] /\ t[7] = s[6] /\ t[8] = s[3] /\ t[9] = s[1] /\ t[10] = s[2]
  BY <1>3, <1>4 DEF Categories, CategoriesOf
<1>6. \A i \in 1 .. 10 : t[i] = s[m[i]]
  <2> HIDE DEF s, t
  <2> SUFFICES ASSUME NEW i \in 1 .. 10 PROVE t[i] = s[m[i]]
    OBVIOUS
  <2>1. \/ i = 1 \/ i = 2 \/ i = 3 \/ i = 4 \/ i = 5
        \/ i = 6 \/ i = 7 \/ i = 8 \/ i = 9 \/ i = 10
    OBVIOUS
  <2>2. /\ m[1] = 9 /\ m[2] = 10 /\ m[3] = 8 /\ m[4] = 5 /\ m[5] = 4
        /\ m[6] = 7 /\ m[7] = 6 /\ m[8] = 3 /\ m[9] = 1 /\ m[10] = 2
    OBVIOUS
  <2> HIDE DEF m
  <2> QED
    BY <1>5, <2>1, <2>2
<1> HIDE DEF s, t, m
<1>7. CountOf(s) = CountOf(t)
  BY <1>1, <1>2, <1>6, SameCount
<1> QED
  BY <1>7 DEF s, t

\* The number of categories with changes has no sides.
LEMMA SemanticDiffTurned ==
  ASSUME NEW c1, NEW c2
  PROVE  SemanticDiff(c1, c2, FALSE).result = SemanticDiff(c2, c1, FALSE).result
BY CategoriesTurned, EquivalenceTurned DEF SemanticDiff, Answer

(***************************************************************************)
(* Which policies a configuration has, by name and kind: those that arrived.  *)
(***************************************************************************)
\* f tells the configurations that the loop over the list of policies goes through.
Building(f, list, N) ==
  /\ f[0] = New!NoPolicies
  /\ \A n \in 1 .. N : f[n] = New!AppendPolicy(f[n - 1], list[n])

\* A configuration is what such a loop ends with.
LEMMA BuildingExists ==
  ASSUME NEW list, Len(list) \in Nat
  PROVE  \E f : Building(f, list, Len(list)) /\ New!ConfigOf(list) = f[Len(list)]
<1> DEFINE N == Len(list)
           T == {k \in 0 .. N : \E f : Building(f, list, k)}
           Loop(f) == [n \in 0 .. N |-> IF n = 0 THEN New!NoPolicies
                                        ELSE IF New!Key(list[n]) \in {} THEN f[n - 1]
                                        ELSE New!AppendPolicy(f[n - 1], list[n])]
           clone == CHOOSE f : f = Loop(f)
<1> N \in Nat
  OBVIOUS
<1> HIDE DEF N
<1>1. 0 \in T
  <2> DEFINE f == [n \in {0} |-> New!NoPolicies]
  <2>1. Building(f, list, 0)
    BY DEF Building
  <2> HIDE DEF f
  <2> QED
    BY <2>1
<1>2. ASSUME NEW k \in 1 .. N, k - 1 \in T PROVE k \in T
  <2>1. PICK f : Building(f, list, k - 1)
    BY <1>2
  <2> DEFINE last == New!AppendPolicy(f[k - 1], list[k])
             g == [n \in 0 .. N |-> IF n = k THEN last ELSE f[n]]
  <2> HIDE DEF last
  <2>2. g[k] = last /\ k \in 0 .. N /\ \A n \in 0 .. N : n # k => g[n] = f[n]
    OBVIOUS
  <2> HIDE DEF g
  <2>3. g[0] = New!NoPolicies
    BY <2>1, <2>2 DEF Building
  <2>4. ASSUME NEW n \in 1 .. k PROVE g[n] = New!AppendPolicy(g[n - 1], list[n])
    <3>1. g[n - 1] = f[n - 1]
      BY <2>2
    <3>2. CASE n = k
      BY <3>1, <3>2, <2>2 DEF last
    <3>3. CASE n # k
      <4>1. n \in 1 .. k - 1 /\ g[n] = f[n]
        BY <3>3, <2>2
      <4> QED
        BY <3>1, <4>1, <2>1 DEF Building
    <3> QED
      BY <3>2, <3>3
  <2>5. Building(g, list, k)
    BY <2>3, <2>4 DEF Building
  <2> QED
    BY <2>2, <2>5
<1>3. PICK f : Building(f, list, N)
  <2> HIDE DEF T
  <2>1. 0 .. N \subseteq T
    BY <1>1, <1>2, UpTo
  <2>2. N \in T
    BY <2>1
  <2> QED
    BY <2>2 DEF T
<1>4. \E h : h = Loop(h)
  <2> DEFINE h == [n \in 0 .. N |-> f[n]]
  <2>1. ASSUME NEW n \in 0 .. N
        PROVE  h[n] = IF n = 0 THEN New!NoPolicies
                      ELSE IF New!Key(list[n]) \in {} THEN h[n - 1]
                      ELSE New!AppendPolicy(h[n - 1], list[n])
    <3>1. CASE n = 0
      BY <3>1, <1>3 DEF Building
    <3>2. CASE n # 0
      <4>1. n \in 1 .. N /\ h[n] = f[n] /\ h[n - 1] = f[n - 1]
        BY <3>2
      <4> HIDE DEF h
      <4> QED
        BY <3>2, <4>1, <1>3 DEF Building
    <3> QED
      BY <3>1, <3>2
  <2>2. h = [n \in 0 .. N |-> h[n]]
    OBVIOUS
  <2> HIDE DEF h
  <2>3. h = Loop(h)
    BY <2>1, <2>2
  <2> HIDE DEF Loop
  <2> QED
    BY <2>3
<1>5. clone = Loop(clone)
  <2> HIDE DEF Loop
  <2> QED
    BY <1>4
<1>6. New!ConfigOf(list) = clone[N]
  BY DEF New!ConfigOf, New!Clone, N
<1> HIDE DEF clone
<1>7. clone[0] = New!NoPolicies
  BY <1>5
<1>8. ASSUME NEW n \in 1 .. N PROVE clone[n] = New!AppendPolicy(clone[n - 1], list[n])
  <2>1. n \in 0 .. N /\ n # 0
    OBVIOUS
  <2> QED
    BY <1>5, <2>1
<1> QED
  BY <1>6, <1>7, <1>8 DEF Building, N

\* A configuration has a policy of each name and kind in the list, and no others.
LEMMA KeysBuilt ==
  ASSUME NEW S, NEW list \in Seq(S)
  PROVE  {New!Key(p) : p \in ToSet(New!ConfigOf(list).policies)}
           = {New!Key(list[i]) : i \in 1 .. Len(list)}
<1> DEFINE N == Len(list)
           Keys(c) == {New!Key(p) : p \in ToSet(c.policies)}
           KeysTo(n) == {New!Key(list[i]) : i \in 1 .. n}
<1>1. N \in Nat /\ \A n \in 1 .. N : list[n] \in S
  OBVIOUS
<1>2. PICK f : Building(f, list, N) /\ New!ConfigOf(list) = f[N]
  BY <1>1, BuildingExists
<1> HIDE DEF N
<1> DEFINE T == {n \in 0 .. N : f[n].policies \in Seq(S) /\ Keys(f[n]) = KeysTo(n)}
<1>3. 0 \in T
  <2>1. f[0].policies = << >>
    BY <1>2 DEF Building, New!NoPolicies
  <2>2. Keys(f[0]) = {}
    BY <2>1 DEF ToSet
  <2>3. KeysTo(0) = {}
    OBVIOUS
  <2> HIDE DEF Keys, KeysTo
  <2>4. f[0].policies \in Seq(S) /\ Keys(f[0]) = KeysTo(0)
    BY <2>1, <2>2, <2>3
  <2> QED
    BY <1>1, <2>4
<1>4. ASSUME NEW n \in 1 .. N, n - 1 \in T PROVE n \in T
  <2> DEFINE c == f[n - 1]
             p == list[n]
  <2>1. c.policies \in Seq(S) /\ Keys(c) = KeysTo(n - 1) /\ p \in S /\ n \in 0 .. N
    <3> HIDE DEF Keys, KeysTo
    <3> QED
      BY <1>1, <1>4
  <2>2. f[n] = New!AppendPolicy(c, p)
    BY <1>2 DEF Building
  <2>3. KeysTo(n) = KeysTo(n - 1) \cup {New!Key(p)}
    <3>1. 1 .. n = (1 .. n - 1) \cup {n}
      OBVIOUS
    <3> QED
      BY <3>1
  <2> HIDE DEF c, p, KeysTo
  <2>4. Keys(c) = {New!Key(q) : q \in New!ToSet(c.policies)}
    BY DEF ToSet, New!ToSet
  <2>5. CASE New!Key(p) \in Keys(c)
    <3>1. f[n] = c
      BY <2>2, <2>4, <2>5 DEF New!AppendPolicy
    <3> HIDE DEF Keys
    <3> QED
      BY <2>1, <2>3, <2>5, <3>1
  <2>6. CASE New!Key(p) \notin Keys(c)
    <3>1. f[n].policies = Append(c.policies, p)
      <4>1. f[n] = [policies |-> Append(c.policies, p), layers |-> New!AddPolicy(c.layers, p)]
        BY <2>2, <2>4, <2>6 DEF New!AppendPolicy
      <4> QED
        BY <4>1
    <3>2. f[n].policies \in Seq(S)
      BY <2>1, <3>1
    <3>3. ToSet(Append(c.policies, p)) = ToSet(c.policies) \cup {p}
      <4> DEFINE new == Append(c.policies, p)
                 m == Len(c.policies)
      <4>1. /\ m \in Nat /\ DOMAIN c.policies = 1 .. m /\ DOMAIN new = 1 .. m + 1
            /\ new[m + 1] = p /\ \A i \in 1 .. m : new[i] = c.policies[i]
        BY <2>1
      <4> HIDE DEF new, m
      <4>2. 1 .. m + 1 = (1 .. m) \cup {m + 1}
        BY <4>1
      <4>3. ToSet(new) = ToSet(c.policies) \cup {p}
        BY <4>1, <4>2 DEF ToSet
      <4> QED
        BY <4>3 DEF new
    <3>4. Keys(f[n]) = Keys(c) \cup {New!Key(p)}
      BY <3>1, <3>3
    <3> HIDE DEF Keys
    <3> QED
      BY <2>1, <2>3, <3>2, <3>4
  <2> QED
    BY <2>5, <2>6
<1>5. N \in T
  <2> HIDE DEF T
  <2>1. 0 .. N \subseteq T
    BY <1>1, <1>3, <1>4, UpTo
  <2> QED
    BY <1>1, <2>1
<1>6. Keys(f[N]) = KeysTo(N)
  <2> HIDE DEF Keys, KeysTo
  <2> QED
    BY <1>5
<1> QED
  BY <1>2, <1>6 DEF N

\* Configurations whose policies have the same names and kinds have arrived with the same
\* names.
LEMMA SameNamesArrived ==
  ASSUME NEW c1 \in ConfigType, NEW c2 \in ConfigType, SameNames(c1, c2)
  PROVE  \A i \in DOMAIN c1.arrived : \E j \in DOMAIN c2.arrived :
           c1.arrived[i].name = c2.arrived[j].name
<1>1. ASSUME NEW c \in ConfigType
      PROVE  {New!Key(p) : p \in PoliciesOf(c)}
               = {New!Key(c.arrived[i]) : i \in DOMAIN c.arrived}
  <2> DEFINE a == c.arrived
             list == Parsed(c)
             S == {OnPods(p, c.pods) : p \in Policies}
  <2>1. a \in Seq(Policies) /\ DOMAIN a = 1 .. Len(a) /\ Len(a) \in Nat
    BY DEF ConfigType
  <2>2. list = [i \in DOMAIN a |-> OnPods(a[i], c.pods)]
    BY DEF Parsed
  <2>3. ASSUME NEW p \in Policies PROVE New!Key(OnPods(p, c.pods)) = New!Key(p)
    <3>1. DOMAIN p = {"name", "kind", "action", "order", "selected", "affects", "ingress", "egress"}
      BY PolicyAssumption
    <3>2. OnPods(p, c.pods).name = p.name /\ OnPods(p, c.pods).kind = p.kind
      BY <3>1 DEF OnPods
    <3> QED
      BY <3>2 DEF New!Key
  <2>4. PoliciesOf(c) = ToSet(New!ConfigOf(list).policies)
    BY DEF PoliciesOf, Built
  <2> HIDE DEF a, list, S
  <2>5. \A i \in 1 .. Len(a) : a[i] \in Policies /\ list[i] = OnPods(a[i], c.pods)
    BY <2>1, <2>2
  <2>6. list \in Seq(S) /\ Len(list) = Len(a)
    <3>1. \A i \in 1 .. Len(a) : list[i] \in S
      BY <2>5 DEF S
    <3> QED
      BY <2>1, <2>2, <3>1
  <2>7. {New!Key(p) : p \in PoliciesOf(c)} = {New!Key(list[i]) : i \in 1 .. Len(a)}
    BY <2>4, <2>6, KeysBuilt
  <2>8. \A i \in 1 .. Len(a) : New!Key(list[i]) = New!Key(a[i])
    BY <2>3, <2>5
  <2>9. {New!Key(list[i]) : i \in 1 .. Len(a)} = {New!Key(a[i]) : i \in 1 .. Len(a)}
    BY <2>8
  <2> QED
    BY <2>1, <2>7, <2>9 DEF a
<1> SUFFICES ASSUME NEW i \in DOMAIN c1.arrived
             PROVE  \E j \in DOMAIN c2.arrived : c1.arrived[i].name = c2.arrived[j].name
  OBVIOUS
<1>2. New!Key(c1.arrived[i]) \in {New!Key(c2.arrived[j]) : j \in DOMAIN c2.arrived}
  BY <1>1 DEF SameNames
<1>3. PICK j \in DOMAIN c2.arrived : New!Key(c1.arrived[i]) = New!Key(c2.arrived[j])
  BY <1>2
<1> QED
  BY <1>3 DEF New!Key

\* What makes the loop over the policies end early: a name that is twice in one of the
\* configurations, or one whose policies are not equivalent.
Ends(c1, c2, name) ==
  \/ Len(Named(c1, name)) > 1 \/ Len(Named(c2, name)) > 1
  \/ Equivalence(JustOne(c1, name), JustOne(c2, name)).result = 1

\* The loop ends early for one of the names, or gives 0.
LEMMA PolicyByPolicySays ==
  ASSUME NEW c1, NEW c2, NEW names
  PROVE  /\ PolicyByPolicy(c1, c2, names).result \in {-1, 0, 1}
         /\ PolicyByPolicy(c1, c2, names).result = 0
              <=> ~ \E i \in DOMAIN names : Ends(c1, c2, names[i])
<1> DEFINE twice == {i \in DOMAIN names :
                       Len(Named(c1, names[i])) > 1 \/ Len(Named(c2, names[i])) > 1}
           differ == {i \in DOMAIN names \ twice :
                        Equivalence(JustOne(c1, names[i]), JustOne(c2, names[i])).result = 1}
<1>1. PolicyByPolicy(c1, c2, names) = FirstOf(twice, differ)
  BY DEF PolicyByPolicy
<1>2. twice \cup differ = {} <=> ~ \E i \in DOMAIN names : Ends(c1, c2, names[i])
  BY DEF Ends
<1> HIDE DEF twice, differ
<1>3. /\ FirstOf(twice, differ).result \in {-1, 0, 1}
      /\ FirstOf(twice, differ).result = 0 <=> twice \cup differ = {}
  BY DEF FirstOf, Answer, Raised
<1> QED
  BY <1>1, <1>2, <1>3

\* A loop that finds nothing finds nothing from the other side.
LEMMA LoopTurned ==
  ASSUME NEW c1 \in ConfigType, NEW c2 \in ConfigType, SameNames(c1, c2),
         StrongEquivalence(c1, c2).result = 0, Comparable(c1, c2), ~SamePolicies(c1, c2)
  PROVE  StrongEquivalence(c2, c1).result = 0
<1> DEFINE names(c) == [i \in DOMAIN c.arrived |-> c.arrived[i].name]
<1>1. /\ Comparable(c2, c1) /\ ~SamePolicies(c2, c1) /\ SameNames(c2, c1)
  BY EquivalenceTurned DEF SameNames
<1>2. /\ StrongEquivalence(c1, c2) = PolicyByPolicy(c1, c2, names(c1))
      /\ StrongEquivalence(c2, c1) = PolicyByPolicy(c2, c1, names(c2))
  BY <1>1 DEF StrongEquivalence
<1>3. \A i \in DOMAIN names(c1) : ~Ends(c1, c2, names(c1)[i])
  BY <1>2, PolicyByPolicySays
<1>4. ASSUME NEW name, Ends(c2, c1, name) PROVE Ends(c1, c2, name)
  BY <1>4, EquivalenceTurned DEF Ends
<1>5. ASSUME NEW j \in DOMAIN names(c2) PROVE ~Ends(c2, c1, names(c2)[j])
  <2>1. PICK i \in DOMAIN c1.arrived : c2.arrived[j].name = c1.arrived[i].name
    BY <1>1, SameNamesArrived
  <2>2. names(c2)[j] = names(c1)[i] /\ i \in DOMAIN names(c1)
    BY <2>1
  <2> QED
    BY <1>3, <1>4, <2>2
<1> QED
  BY <1>2, <1>5, PolicyByPolicySays

\* Strong equivalence has no sides, but for the exception it raises.
LEMMA StrongEquivalenceTurned ==
  ASSUME NEW c1 \in ConfigType, NEW c2 \in ConfigType
  PROVE  LET r12 == StrongEquivalence(c1, c2).result
             r21 == StrongEquivalence(c2, c1).result
         IN  r12 \in {-1, r21} \/ r21 = -1
<1> DEFINE r12 == StrongEquivalence(c1, c2).result
           r21 == StrongEquivalence(c2, c1).result
<1>1. CASE ~Comparable(c1, c2)
  <2>1. r12 = 1 /\ r21 = 1
    BY <1>1, EquivalenceTurned DEF StrongEquivalence, Skipped
  <2> QED
    BY <2>1
<1>2. CASE Comparable(c1, c2) /\ SamePolicies(c1, c2)
  <2>1. r12 = 0 /\ r21 = 0
    BY <1>2, EquivalenceTurned DEF StrongEquivalence, Answer
  <2> QED
    BY <2>1
<1>3. CASE Comparable(c1, c2) /\ ~SamePolicies(c1, c2) /\ ~SameNames(c1, c2)
  <2>1. ~SameNames(c2, c1)
    BY <1>3 DEF SameNames
  <2>2. r12 = 1 /\ r21 = 1
    BY <1>3, <2>1, EquivalenceTurned DEF StrongEquivalence, Answer
  <2> QED
    BY <2>2
<1>4. CASE Comparable(c1, c2) /\ ~SamePolicies(c1, c2) /\ SameNames(c1, c2)
  <2>1. Comparable(c2, c1) /\ ~SamePolicies(c2, c1) /\ SameNames(c2, c1)
    BY <1>4, EquivalenceTurned DEF SameNames
  <2>2. r12 = 0 <=> r21 = 0
    BY <1>4, <2>1, LoopTurned
  <2>3. r12 \in {-1, 0, 1} /\ r21 \in {-1, 0, 1}
    BY <1>4, <2>1, PolicyByPolicySays DEF StrongEquivalence
  <2> HIDE DEF r12, r21
  <2>4. r12 \in {-1, r21} \/ r21 = -1
    BY <2>2, <2>3
  <2> QED
    BY <2>4 DEF r12, r21
<1> QED
  BY <1>1, <1>2, <1>3, <1>4

\* Equivalence, strong equivalence and the semantic diff answer the same whichever of any
\* two configurations comes first, unless strong equivalence raises an exception.
THEOREM NoSides == Spec => []SidesDoNotMatter
<1>1. IInv => SidesDoNotMatter
  <2> SUFFICES ASSUME IInv, AllAnswered,
                      NEW q \in {"equivalence", "strongEquivalence", "semanticDiff"}
               PROVE  To(q, FALSE, FALSE).result \in {-1, To(q, TRUE, FALSE).result}
                        \/ To(q, TRUE, FALSE).result = -1
    BY DEF SidesDoNotMatter
  <2>1. config1 \in ConfigType /\ config2 \in ConfigType
    BY DEF IInv
  <2>2. CASE q = "equivalence"
    BY <2>2, ToldAre, EquivalenceTurned
  <2>3. CASE q = "strongEquivalence"
    BY <2>1, <2>3, ToldAre, StrongEquivalenceTurned
  <2>4. CASE q = "semanticDiff"
    BY <2>4, ToldAre, SemanticDiffTurned
  <2> QED
    BY <2>2, <2>3, <2>4
<1> QED
  BY <1>1, Invariance, PTL
=============================================================================
