------------------------ MODULE NetworkLayersProofs ------------------------
(***************************************************************************)
(* What the queries on one configuration compute is what the set of its       *)
(* policies means, for any set of peers, protocols and policies.              *)
(*                                                                           *)
(* The folds over rules and policies are unfolded with the induction of        *)
(* Recursion: a loop decides a connection as the first of its policies that is *)
(* about it (CollectGives).  A sorted list puts that policy where the order of *)
(* evaluation has it (DecisionIs), bisect keeps the list sorted                *)
(* (AppendInOrder), and the algebra of the defaults does the rest (AllIs,      *)
(* ExplicitIs).                                                               *)
(***************************************************************************)
EXTENDS SingleQueries, Recursion, SequenceTheorems, FiniteSetTheorems, TLAPS

\* The library's insertion.
LEMMA InsertAtIs ==
  ASSUME NEW s, NEW i, NEW e
  PROVE  InsertAt(s, i, e) = SubSeq(s, 1, i - 1) \o <<e>> \o SubSeq(s, i, Len(s))
BY DEF InsertAt

\* What a list holds after something is put into it.
LEMMA Inserted ==
  ASSUME NEW S, NEW list \in Seq(S), NEW p \in S, NEW r \in 0 .. Len(list)
  PROVE  LET t == InsertAt(list, r + 1, p)
         IN  /\ t \in Seq(S) /\ Len(t) = Len(list) + 1
             /\ \A i \in 1 .. Len(list) + 1 :
                  t[i] = IF i <= r THEN list[i] ELSE IF i = r + 1 THEN p ELSE list[i - 1]
<1> DEFINE before == SubSeq(list, 1, r)
           after == SubSeq(list, r + 1, Len(list))
           t == InsertAt(list, r + 1, p)
<1>1. Len(list) \in Nat /\ \A i \in 1 .. Len(list) : list[i] \in S
  OBVIOUS
<1>2. before \in Seq(S) /\ Len(before) = r /\ \A i \in 1 .. r : before[i] = list[i]
  BY <1>1, SubSeqProperties
<1>3. /\ after \in Seq(S) /\ Len(after) = Len(list) - r
      /\ \A i \in 1 .. Len(list) - r : after[i] = list[r + i]
  BY <1>1, SubSeqProperties
<1> DEFINE u == before \o <<p>>
<1>4. t = u \o after
  <2>1. (r + 1) - 1 = r
    BY <1>1
  <2>2. t = SubSeq(list, 1, (r + 1) - 1) \o <<p>> \o SubSeq(list, r + 1, Len(list))
    BY InsertAtIs
  <2> QED
    BY <2>1, <2>2
<1> HIDE DEF before, after, t
<1>5. u \in Seq(S) /\ Len(u) = r + 1 /\ \A i \in 1 .. r + 1 : u[i] = IF i <= r THEN list[i] ELSE p
  <2>1. <<p>> \in Seq(S) /\ Len(<<p>>) = 1 /\ <<p>>[1] = p
    OBVIOUS
  <2> QED
    BY <1>1, <1>2, <2>1, ConcatProperties
<1> HIDE DEF u
<1>7. /\ t \in Seq(S) /\ Len(t) = Len(list) + 1
      /\ \A i \in 1 .. Len(list) + 1 : t[i] = IF i <= r + 1 THEN u[i] ELSE after[i - (r + 1)]
  BY <1>1, <1>3, <1>4, <1>5, ConcatProperties
<1>6. ASSUME NEW i \in 1 .. Len(list) + 1
      PROVE  t[i] = IF i <= r THEN list[i] ELSE IF i = r + 1 THEN p ELSE list[i - 1]
  <2>1. CASE i <= r
    BY <1>1, <1>5, <1>7, <2>1
  <2>2. CASE i = r + 1
    BY <1>1, <1>5, <1>7, <2>2
  <2>3. CASE i > r + 1
    <3>1. t[i] = after[i - (r + 1)]
      BY <1>1, <1>7, <2>3
    <3>2. i - (r + 1) \in 1 .. Len(list) - r /\ r + (i - (r + 1)) = i - 1
      BY <1>1, <2>3
    <3> QED
      BY <1>1, <1>3, <2>3, <3>1, <3>2
  <2> QED
    BY <1>1, <2>1, <2>2, <2>3
<1> QED
  BY <1>1, <1>6, <1>7 DEF t

-----------------------------------------------------------------------------
(***************************************************************************)
(* Where bisect_right puts a policy.                                         *)
(***************************************************************************)
\* The loop of bisect_right ends between the policies that p does not go before and
\* those it goes before; it stays inside the list whatever the comparison says.
LEMMA BisectRightSplits ==
  ASSUME NEW S, NEW list \in Seq(S), NEW p
  PROVE  /\ BisectRight(list, p) \in 0 .. Len(list)
         /\ (\A i, j \in 1 .. Len(list) : i < j /\ Less(p, list[i]) => Less(p, list[j])) =>
              /\ \A i \in 1 .. BisectRight(list, p) : ~Less(p, list[i])
              /\ \A i \in BisectRight(list, p) + 1 .. Len(list) : Less(p, list[i])
<1> DEFINE N == Len(list)
           Bounds == [lo : 0 .. N, hi : 0 .. N]
           first == [lo |-> 0, hi |-> N]
           turn == CHOOSE f : f = [n \in 0 .. N |-> IF n = 0 THEN first ELSE Halved(f[n - 1], list, p)]
           up == \A i, j \in 1 .. N : i < j /\ Less(p, list[i]) => Less(p, list[j])
           Inside(x) == /\ x \in Bounds /\ x.lo <= x.hi
                        /\ up => /\ \A i \in 1 .. x.lo : ~Less(p, list[i])
                                 /\ \A i \in x.hi + 1 .. N : Less(p, list[i])
           T == {n \in 0 .. N : Inside(turn[n]) /\ turn[n].hi - turn[n].lo <= N - n}
<1>1. N \in Nat /\ first \in Bounds
  OBVIOUS
<1>2. ASSUME NEW x \in Bounds
      PROVE  /\ Halved(x, list, p) \in Bounds
             /\ Inside(x) => Inside(Halved(x, list, p))
             /\ Inside(x) => \/ Halved(x, list, p).hi - Halved(x, list, p).lo <= x.hi - x.lo - 1
                              \/ Halved(x, list, p).hi - Halved(x, list, p).lo = 0
  <2> DEFINE mid == (x.lo + x.hi) \div 2
             y == Halved(x, list, p)
  <2>0. x.lo \in 0 .. N /\ x.hi \in 0 .. N /\ x = [lo |-> x.lo, hi |-> x.hi]
    OBVIOUS
  <2> SUFFICES /\ y \in Bounds
               /\ Inside(x) => Inside(y)
               /\ Inside(x) => y.hi - y.lo <= x.hi - x.lo - 1 \/ y.hi - y.lo = 0
    OBVIOUS
  <2>1. CASE x.lo >= x.hi
    <3>1. y = x
      BY <2>1 DEF Halved
    <3>2. x.lo \in Int /\ x.hi \in Int
      BY <2>0
    <3> HIDE DEF y, up
    <3>3. Inside(x) => x.hi - x.lo = 0
      BY <2>1, <3>2
    <3> HIDE DEF Inside
    <3> QED
      BY <3>1, <3>3
  <2>2. CASE x.lo < x.hi
    <3>1. mid \in Nat /\ x.lo <= mid /\ mid < x.hi /\ mid + 1 \in 1 .. N
      BY <1>1, <2>2
    <3> HIDE DEF mid
    <3>2. CASE Less(p, list[mid + 1])
      <4>1. y = [x EXCEPT !.hi = mid]
        BY <2>2, <3>2 DEF Halved, mid
      <4>2. y = [lo |-> x.lo, hi |-> mid]
        BY <2>0, <4>1
      <4>3. Inside(x) /\ up => \A i \in mid + 1 .. N : Less(p, list[i])
        BY <1>1, <3>1, <3>2
      <4> HIDE DEF y, up
      <4>4. y.lo = x.lo /\ y.hi = mid /\ y \in Bounds
        BY <1>1, <2>0, <3>1, <4>2
      <4>5. Inside(x) => Inside(y)
        BY <3>1, <4>3, <4>4
      <4>6. y.hi - y.lo <= x.hi - x.lo - 1
        BY <2>0, <3>1, <4>4
      <4> HIDE DEF Inside, Bounds
      <4> QED
        BY <4>4, <4>5, <4>6
    <3>3. CASE ~Less(p, list[mid + 1])
      <4>1. y = [x EXCEPT !.lo = mid + 1]
        BY <2>2, <3>3 DEF Halved, mid
      <4>2. y = [lo |-> mid + 1, hi |-> x.hi]
        BY <2>0, <4>1
      <4>3. Inside(x) /\ up => \A i \in 1 .. mid + 1 : ~Less(p, list[i])
        BY <1>1, <3>1, <3>3
      <4> HIDE DEF y, up
      <4>4. y.lo = mid + 1 /\ y.hi = x.hi /\ y \in Bounds
        BY <1>1, <2>0, <3>1, <4>2
      <4>5. Inside(x) => Inside(y)
        BY <2>0, <3>1, <4>3, <4>4
      <4>6. y.hi - y.lo <= x.hi - x.lo - 1
        BY <2>0, <3>1, <4>4
      <4> HIDE DEF Inside, Bounds
      <4> QED
        BY <4>4, <4>5, <4>6
    <3> QED
      BY <3>2, <3>3
  <2> QED
    BY <1>1, <2>1, <2>2
<1> HIDE DEF first
<1>3. \E f : f = [n \in 0 .. N |-> IF n = 0 THEN first ELSE Halved(f[n - 1], list, p)]
  <2> DEFINE G == [z \in (1 .. N) \X Bounds |-> Halved(z[2], list, p)]
  <2>1. G \in [(1 .. N) \X Bounds -> Bounds]
    BY <1>2
  <2> HIDE DEF G
  <2>2. PICK f : Iterates(f, N, Bounds, first, G)
    BY <1>1, <2>1, IterationExists
  <2>3. ASSUME NEW n \in 0 .. N, n # 0 PROVE f[n] = Halved(f[n - 1], list, p)
    <3>1. <<n, f[n - 1]>> \in (1 .. N) \X Bounds
      BY <1>1, <2>2, <2>3 DEF Iterates
    <3> QED
      BY <2>2, <3>1 DEF G, Iterates
  <2>4. f = [n \in 0 .. N |-> IF n = 0 THEN first ELSE Halved(f[n - 1], list, p)]
    BY <2>2, <2>3 DEF Iterates
  <2> QED
    BY <2>4
<1>4. turn = [n \in 0 .. N |-> IF n = 0 THEN first ELSE Halved(turn[n - 1], list, p)]
  BY <1>3
<1>5. BisectRight(list, p) = turn[N].lo
  BY DEF BisectRight, first
<1> HIDE DEF turn, Inside, Bounds
<1>6. 0 \in T
  BY <1>1, <1>4 DEF first, Inside
<1>7. ASSUME NEW n \in 1 .. N, n - 1 \in T PROVE n \in T
  <2>1. turn[n] = Halved(turn[n - 1], list, p) /\ n \in 0 .. N /\ n - 1 \in 0 .. N
    BY <1>1, <1>4
  <2>2. Inside(turn[n - 1]) /\ turn[n - 1].hi - turn[n - 1].lo <= N - (n - 1) /\ turn[n - 1] \in Bounds
    <3>1. Inside(turn[n - 1]) /\ turn[n - 1].hi - turn[n - 1].lo <= N - (n - 1)
      BY <1>7
    <3> QED
      BY <3>1 DEF Inside
  <2>3. Inside(turn[n]) /\ turn[n] \in Bounds
    BY <1>2, <2>1, <2>2
  <2>4. turn[n].hi - turn[n].lo <= N - n
    BY <1>1, <1>2, <2>1, <2>2, <2>3 DEF Bounds
  <2> QED
    BY <2>1, <2>3, <2>4
<1>8. N \in T
  <2> HIDE DEF T
  <2>1. 0 .. N \subseteq T
    BY <1>1, <1>6, <1>7, UpTo
  <2> QED
    BY <1>1, <2>1
<1>9. Inside(turn[N]) /\ turn[N].lo = turn[N].hi
  <2>1. Inside(turn[N]) /\ turn[N].hi - turn[N].lo <= N - N
    BY <1>8
  <2>2. turn[N].lo \in 0 .. N /\ turn[N].hi \in 0 .. N /\ turn[N].lo <= turn[N].hi
    BY <2>1 DEF Inside, Bounds
  <2> HIDE DEF N
  <2> QED
    BY <1>1, <2>1, <2>2
<1>10. turn[N].lo \in 0 .. N
  BY <1>9 DEF Inside, Bounds
<1>11. up => /\ \A i \in 1 .. turn[N].lo : ~Less(p, list[i])
             /\ \A i \in turn[N].lo + 1 .. N : Less(p, list[i])
  BY <1>9 DEF Inside
<1> QED
  BY <1>5, <1>10, <1>11

-----------------------------------------------------------------------------
(***************************************************************************)
(* What the folds over rules and over policies decide for one connection.    *)
(***************************************************************************)
Verdicts == [allow : SUBSET Conns, deny : SUBSET Conns, pass : SUBSET Conns]
Outcomes == {"allow", "deny", "pass", "none"}
\* v is what x says of c.
Gives(x, c, v) ==
  /\ c \in x.allow <=> v = "allow"
  /\ c \in x.deny <=> v = "deny"
  /\ c \in x.pass <=> v = "pass"
\* The rule is about c.
Speaks(r, c) == r.action # "log" /\ c \in r.conns
\* v is the action of the first of n rules that is about c.
FirstRule(rules, n, c, v) ==
  \/ v = "none" /\ \A i \in 1 .. n : ~Speaks(rules[i], c)
  \/ \E i \in 1 .. n : /\ Speaks(rules[i], c) /\ v = rules[i].action
                       /\ \A j \in 1 .. i - 1 : ~Speaks(rules[j], c)

\* What came first decides.
LEMMA AndThenGives ==
  ASSUME NEW x \in Verdicts, NEW y \in Verdicts
  PROVE  /\ AndThen(x, y) \in Verdicts
         /\ \A c, v, w : Gives(x, c, v) /\ Gives(y, c, w) /\ v \in Outcomes /\ w \in Outcomes =>
              Gives(AndThen(x, y), c, IF v = "none" THEN w ELSE v)
<1>1. AndThen(x, y) \in Verdicts
  BY DEF AndThen, Verdicts
<1>2. ASSUME NEW c, NEW v \in Outcomes, NEW w \in Outcomes, Gives(x, c, v), Gives(y, c, w)
      PROVE  Gives(AndThen(x, y), c, IF v = "none" THEN w ELSE v)
  BY <1>2 DEF AndThen, Gives, Outcomes
<1> QED
  BY <1>1, <1>2

\* A single rule has its action where it is about a connection.
LEMMA OfRuleGives ==
  ASSUME NEW r \in Rules
  PROVE  /\ OfRule(r) \in Verdicts
         /\ \A c : Gives(OfRule(r), c, IF Speaks(r, c) THEN r.action ELSE "none")
<1>1. r.action \in Actions /\ r.conns \in SUBSET Conns
  BY DEF Rules
<1>2. CASE r.action = "log"
  <2>1. OfRule(r) = [allow |-> {}, deny |-> {}, pass |-> {}]
    BY <1>2 DEF OfRule, Nothing
  <2> QED
    BY <1>2, <2>1 DEF Gives, Speaks, Verdicts
<1>3. CASE r.action = "allow"
  <2>1. OfRule(r) = [allow |-> r.conns, deny |-> {}, pass |-> {}]
    BY <1>3 DEF OfRule, Nothing
  <2> QED
    BY <1>1, <1>3, <2>1 DEF Gives, Speaks, Verdicts
<1>4. CASE r.action = "deny"
  <2>1. OfRule(r) = [allow |-> {}, deny |-> r.conns, pass |-> {}]
    BY <1>4 DEF OfRule, Nothing
  <2> QED
    BY <1>1, <1>4, <2>1 DEF Gives, Speaks, Verdicts
<1>5. CASE r.action = "pass"
  <2>1. OfRule(r) = [allow |-> {}, deny |-> {}, pass |-> r.conns]
    BY <1>5 DEF OfRule, Nothing
  <2> QED
    BY <1>1, <1>5, <2>1 DEF Gives, Speaks, Verdicts
<1> QED
  BY <1>1, <1>2, <1>3, <1>4, <1>5 DEF Actions

\* One more rule.
LEMMA OneMoreRule ==
  ASSUME NEW rules \in Seq(Rules), NEW n \in 1 .. Len(rules), NEW c, NEW v,
         FirstRule(rules, n - 1, c, v)
  PROVE  /\ v \in Outcomes
         /\ FirstRule(rules, n, c,
                      IF v = "none" THEN IF Speaks(rules[n], c) THEN rules[n].action ELSE "none" ELSE v)
<1>1. n \in Nat /\ Len(rules) \in Nat
  OBVIOUS
<1>2. ASSUME NEW i \in 1 .. Len(rules) PROVE rules[i].action \in Actions
  <2>1. rules[i] \in Rules
    OBVIOUS
  <2> QED
    BY <2>1 DEF Rules
<1>3. CASE v = "none"
  <2>1. \A i \in 1 .. n - 1 : ~Speaks(rules[i], c)
    BY <1>1, <1>2, <1>3 DEF FirstRule, Actions
  <2>2. CASE Speaks(rules[n], c)
    <3>1. n \in 1 .. n
      BY <1>1
    <3> QED
      BY <1>3, <2>1, <2>2, <3>1 DEF FirstRule, Outcomes
  <2>3. CASE ~Speaks(rules[n], c)
    <3>1. \A i \in 1 .. n : i \in 1 .. n - 1 \/ i = n
      BY <1>1
    <3> QED
      BY <1>3, <2>1, <2>3, <3>1 DEF FirstRule, Outcomes
  <2> QED
    BY <2>2, <2>3
<1>4. CASE v # "none"
  <2>1. PICK i \in 1 .. n - 1 : /\ Speaks(rules[i], c) /\ v = rules[i].action
                                /\ \A j \in 1 .. i - 1 : ~Speaks(rules[j], c)
    BY <1>4 DEF FirstRule
  <2>2. i \in 1 .. n /\ i \in 1 .. Len(rules)
    BY <1>1
  <2> QED
    BY <1>2, <1>4, <2>1, <2>2 DEF FirstRule, Outcomes, Actions, Speaks
<1> QED
  BY <1>3, <1>4

\* The fold of sync_props over the rules of a policy: the first rule that is about a
\* connection decides.
LEMMA OfPolicyGives ==
  ASSUME NEW p, NEW dir, p[dir] \in Seq(Rules)
  PROVE  /\ OfPolicy(p, dir) \in Verdicts
         /\ \A c : \E v \in Outcomes : /\ FirstRule(p[dir], Len(p[dir]), c, v)
                                       /\ Gives(OfPolicy(p, dir), c, v)
<1> DEFINE rules == p[dir]
           N == Len(rules)
           after == CHOOSE f : f = [n \in 0 .. N |-> IF n = 0 THEN Nothing
                                                     ELSE AndThen(f[n - 1], OfRule(rules[n]))]
           Decided(n, c) == \E v \in Outcomes : FirstRule(rules, n, c, v) /\ Gives(after[n], c, v)
           T == {n \in 0 .. N : after[n] \in Verdicts /\ \A c : Decided(n, c)}
<1>1. N \in Nat /\ Nothing \in Verdicts /\ \A n \in 1 .. N : OfRule(rules[n]) \in Verdicts
  BY OfRuleGives DEF Nothing, Verdicts
<1>2. \E f : f = [n \in 0 .. N |-> IF n = 0 THEN Nothing ELSE AndThen(f[n - 1], OfRule(rules[n]))]
  <2> DEFINE G == [z \in (1 .. N) \X Verdicts |-> AndThen(z[2], OfRule(rules[z[1]]))]
  <2>1. G \in [(1 .. N) \X Verdicts -> Verdicts]
    BY <1>1, AndThenGives
  <2> HIDE DEF G
  <2>2. PICK f : Iterates(f, N, Verdicts, Nothing, G)
    BY <1>1, <2>1, IterationExists
  <2>3. ASSUME NEW n \in 0 .. N, n # 0 PROVE f[n] = AndThen(f[n - 1], OfRule(rules[n]))
    <3>1. n \in 1 .. N /\ n - 1 \in 0 .. N
      BY <1>1, <2>3
    <3>2. f[n - 1] \in Verdicts
      BY <2>2, <3>1 DEF Iterates
    <3> QED
      BY <2>2, <3>1, <3>2 DEF G, Iterates
  <2>4. f = [n \in 0 .. N |-> IF n = 0 THEN Nothing ELSE AndThen(f[n - 1], OfRule(rules[n]))]
    BY <2>2, <2>3 DEF Iterates
  <2> QED
    BY <2>4
<1>3. after = [n \in 0 .. N |-> IF n = 0 THEN Nothing ELSE AndThen(after[n - 1], OfRule(rules[n]))]
  BY <1>2
<1>4. OfPolicy(p, dir) = after[N]
  BY DEF OfPolicy
<1> HIDE DEF after
<1>5. 0 \in T
  <2>1. after[0] = Nothing
    BY <1>1, <1>3
  <2>2. ASSUME NEW c PROVE Decided(0, c)
    BY <2>1 DEF FirstRule, Gives, Nothing, Outcomes
  <2> QED
    BY <1>1, <2>1, <2>2
<1>6. ASSUME NEW n \in 1 .. N, n - 1 \in T PROVE n \in T
  <2>1. after[n] = AndThen(after[n - 1], OfRule(rules[n])) /\ rules[n] \in Rules
    BY <1>1, <1>3
  <2>2. after[n - 1] \in Verdicts /\ after[n] \in Verdicts
    BY <1>1, <1>6, <2>1, AndThenGives
  <2>3. ASSUME NEW c PROVE Decided(n, c)
    <3> DEFINE w == IF Speaks(rules[n], c) THEN rules[n].action ELSE "none"
    <3>1. PICK v \in Outcomes : FirstRule(rules, n - 1, c, v) /\ Gives(after[n - 1], c, v)
      BY <1>6
    <3>2. Gives(OfRule(rules[n]), c, w) /\ w \in Outcomes
      <4>1. rules[n].action \in Actions
        BY <2>1 DEF Rules
      <4> QED
        BY <2>1, <4>1, OfRuleGives DEF Outcomes, Actions, Speaks
    <3> DEFINE u == IF v = "none" THEN w ELSE v
    <3>3. FirstRule(rules, n, c, u)
      BY <3>1, OneMoreRule
    <3> HIDE DEF w
    <3>4. Gives(after[n], c, u)
      BY <1>1, <2>1, <2>2, <3>1, <3>2, AndThenGives
    <3> QED
      BY <3>1, <3>2, <3>3, <3>4
  <2> QED
    BY <2>2, <2>3
<1>7. N \in T
  <2> HIDE DEF T
  <2>1. 0 .. N \subseteq T
    BY <1>1, <1>5, <1>6, UpTo
  <2> QED
    BY <1>1, <2>1
<1> QED
  BY <1>4, <1>7

\* What the assumption on policies says of one in a direction.
LEMMA PolicyShape ==
  ASSUME NEW p \in Policies, NEW dir \in Directions
  PROVE  /\ p[dir] \in Seq(Rules) /\ Len(p[dir]) \in Nat /\ DOMAIN p[dir] = 1 .. Len(p[dir])
         /\ \A i \in DOMAIN p[dir] : p[dir][i] \in Rules
         /\ p.selected \in SUBSET (Clusters \cup DnsEntries)
<1>1. p.ingress \in Seq(Rules) /\ p.egress \in Seq(Rules) /\ p.selected \in SUBSET (Clusters \cup DnsEntries)
  BY PolicyAssumption
<1>2. p[dir] \in Seq(Rules)
  BY <1>1 DEF Directions
<1> QED
  BY <1>1, <1>2

\* p is about c.
Deciding(p, dir, c) == \E i \in DOMAIN p[dir] : Decides(p, dir, i, c)
\* v is the action of the first rule of p that decides c.
PolicySays(p, dir, c, v) ==
  \E i \in DOMAIN p[dir] : /\ Decides(p, dir, i, c) /\ v = p[dir][i].action
                           /\ \A j \in 1 .. i - 1 : ~Decides(p, dir, j, c)
\* v is what the first of n policies that is about c says.
FirstPolicy(list, n, dir, c, v) ==
  \/ v = "none" /\ \A k \in 1 .. n : ~Deciding(list[k], dir, c)
  \/ \E k \in 1 .. n : /\ PolicySays(list[k], dir, c, v)
                       /\ \A j \in 1 .. k - 1 : ~Deciding(list[j], dir, c)

\* The effect of a policy that captures something: what its first rule about a
\* connection says.
LEMMA PolicyGives ==
  ASSUME NEW p \in Policies, NEW dir \in Directions, CapturedBy(p, dir) # {}, NEW c
  PROVE  \E w \in Outcomes : /\ Gives(OfPolicy(p, dir), c, w)
                             /\ w = "none" => ~Deciding(p, dir, c)
                             /\ w # "none" => PolicySays(p, dir, c, w)
<1>1. /\ p[dir] \in Seq(Rules) /\ Len(p[dir]) \in Nat /\ DOMAIN p[dir] = 1 .. Len(p[dir])
      /\ \A i \in DOMAIN p[dir] : p[dir][i] \in Rules
  BY PolicyShape
<1>2. PICK w \in Outcomes : FirstRule(p[dir], Len(p[dir]), c, w) /\ Gives(OfPolicy(p, dir), c, w)
  BY <1>1, OfPolicyGives
<1>3. \A i \in 1 .. Len(p[dir]) : Decides(p, dir, i, c) <=> Speaks(p[dir][i], c)
  BY <1>1 DEF Decides, Speaks
<1>4. CASE \A i \in 1 .. Len(p[dir]) : ~Speaks(p[dir][i], c)
  <2>1. ~Deciding(p, dir, c)
    BY <1>1, <1>3, <1>4 DEF Deciding
  <2>2. w = "none"
    BY <1>2, <1>4 DEF FirstRule
  <2> QED
    BY <1>2, <2>1, <2>2
<1>5. CASE \E i \in 1 .. Len(p[dir]) : Speaks(p[dir][i], c)
  <2>1. PICK i \in 1 .. Len(p[dir]) : /\ Speaks(p[dir][i], c) /\ w = p[dir][i].action
                                      /\ \A j \in 1 .. i - 1 : ~Speaks(p[dir][j], c)
    BY <1>2, <1>5 DEF FirstRule
  <2>2. \A j \in 1 .. i - 1 : j \in 1 .. Len(p[dir])
    BY <1>1
  <2>3. PolicySays(p, dir, c, w)
    BY <1>1, <1>3, <2>1, <2>2 DEF PolicySays
  <2>4. w # "none"
    BY <1>1, <2>1 DEF Rules, Actions
  <2> QED
    BY <1>2, <2>3, <2>4
<1> QED
  BY <1>4, <1>5

\* What a policy says is an action, and it is about what it says something of.
LEMMA SaysIsAction ==
  ASSUME NEW p \in Policies, NEW dir \in Directions, NEW c, NEW v, PolicySays(p, dir, c, v)
  PROVE  v \in {"allow", "deny", "pass"} /\ Deciding(p, dir, c)
<1>1. PICK i \in DOMAIN p[dir] : Decides(p, dir, i, c) /\ v = p[dir][i].action
  BY DEF PolicySays
<1>2. p[dir][i] \in Rules
  BY PolicyShape
<1> QED
  BY <1>1, <1>2 DEF Rules, Actions, Decides, Deciding

\* One more policy.
LEMMA OneMorePolicy ==
  ASSUME NEW list \in Seq(Policies), NEW n \in 1 .. Len(list), NEW dir \in Directions, NEW c, NEW v,
         FirstPolicy(list, n - 1, dir, c, v), NEW w,
         w = "none" => ~Deciding(list[n], dir, c), w # "none" => PolicySays(list[n], dir, c, w)
  PROVE  v \in Outcomes /\ FirstPolicy(list, n, dir, c, IF v = "none" THEN w ELSE v)
<1>1. n \in Nat /\ Len(list) \in Nat /\ n \in 1 .. n /\ \A i \in 1 .. n : i \in 1 .. n - 1 \/ i = n
  OBVIOUS
<1>2. CASE \A k \in 1 .. n - 1 : ~Deciding(list[k], dir, c)
  <2>1. v = "none"
    <3>1. \A k \in 1 .. n - 1 : list[k] \in Policies
      BY <1>1
    <3> QED
      BY <1>2, <3>1, SaysIsAction DEF FirstPolicy
  <2> QED
    BY <1>1, <1>2, <2>1 DEF FirstPolicy, Outcomes
<1>3. CASE \E k \in 1 .. n - 1 : Deciding(list[k], dir, c)
  <2>1. PICK k \in 1 .. n - 1 : /\ PolicySays(list[k], dir, c, v)
                                /\ \A j \in 1 .. k - 1 : ~Deciding(list[j], dir, c)
    BY <1>3 DEF FirstPolicy
  <2>2. v \in {"allow", "deny", "pass"}
    <3>1. list[k] \in Policies
      BY <1>1
    <3> QED
      BY <2>1, <3>1, SaysIsAction
  <2>3. k \in 1 .. n
    BY <1>1
  <2> QED
    BY <2>1, <2>2, <2>3 DEF FirstPolicy, Outcomes
<1> QED
  BY <1>2, <1>3

\* The fold of collect_policies_conns_optimized over a list of policies: the first
\* policy that is about a connection decides, and the captured peers are those of the
\* policies whose capturing counts.
LEMMA CollectGives ==
  ASSUME NEW list \in Seq(Policies), NEW dir \in Directions
  PROVE  /\ Collect(list, dir).eff \in Verdicts
         /\ \A c : \E v \in Outcomes : /\ FirstPolicy(list, Len(list), dir, c, v)
                                       /\ Gives(Collect(list, dir).eff, c, v)
         /\ \A x : x \in Collect(list, dir).captured <=>
                     \E k \in 1 .. Len(list) : Captures(list[k]) /\ x \in CapturedBy(list[k], dir)
<1> DEFINE N == Len(list)
           none == [eff |-> Nothing, captured |-> {}]
           Results == [eff : Verdicts, captured : SUBSET (Clusters \cup DnsEntries)]
           after == CHOOSE f : f = [n \in 0 .. N |-> IF n = 0 THEN none
                                                     ELSE WithPolicy(f[n - 1], list[n], dir)]
           Decided(n, c) == \E v \in Outcomes : FirstPolicy(list, n, dir, c, v) /\ Gives(after[n].eff, c, v)
           Taken(n) == \A x : x \in after[n].captured <=>
                         \E k \in 1 .. n : Captures(list[k]) /\ x \in CapturedBy(list[k], dir)
           T == {n \in 0 .. N : after[n] \in Results /\ Taken(n) /\ \A c : Decided(n, c)}
<1>1. N \in Nat /\ \A n \in 1 .. N : list[n] \in Policies
  OBVIOUS
<1>2. none \in Results
  BY DEF Nothing, Verdicts
<1>3. ASSUME NEW p \in Policies, NEW x \in Results
      PROVE  /\ WithPolicy(x, p, dir) \in Results
             /\ CapturedBy(p, dir) = {} => WithPolicy(x, p, dir) = x
             /\ CapturedBy(p, dir) # {} =>
                  /\ WithPolicy(x, p, dir).eff = AndThen(x.eff, OfPolicy(p, dir))
                  /\ WithPolicy(x, p, dir).captured
                     = IF Captures(p) THEN x.captured \cup CapturedBy(p, dir) ELSE x.captured
  <2>1. OfPolicy(p, dir) \in Verdicts
    BY PolicyShape, OfPolicyGives
  <2>2. AndThen(x.eff, OfPolicy(p, dir)) \in Verdicts
    BY <2>1, AndThenGives
  <2>3. CapturedBy(p, dir) \in SUBSET (Clusters \cup DnsEntries)
    BY PolicyShape DEF CapturedBy
  <2> QED
    BY <2>2, <2>3 DEF WithPolicy
<1>4. \E f : f = [n \in 0 .. N |-> IF n = 0 THEN none ELSE WithPolicy(f[n - 1], list[n], dir)]
  <2> DEFINE G == [z \in (1 .. N) \X Results |-> WithPolicy(z[2], list[z[1]], dir)]
  <2>1. G \in [(1 .. N) \X Results -> Results]
    <3> HIDE DEF Results, N
    <3> QED
      BY <1>1, <1>3
  <2> HIDE DEF G, none
  <2>2. PICK f : Iterates(f, N, Results, none, G)
    BY <1>1, <1>2, <2>1, IterationExists
  <2>3. ASSUME NEW n \in 0 .. N, n # 0 PROVE f[n] = WithPolicy(f[n - 1], list[n], dir)
    <3>1. n \in 1 .. N /\ n - 1 \in 0 .. N
      BY <1>1, <2>3
    <3>2. f[n - 1] \in Results
      BY <2>2, <3>1 DEF Iterates
    <3> QED
      BY <2>2, <3>1, <3>2 DEF G, Iterates
  <2>4. f = [n \in 0 .. N |-> IF n = 0 THEN none ELSE WithPolicy(f[n - 1], list[n], dir)]
    BY <2>2, <2>3 DEF Iterates
  <2> QED
    BY <2>4
<1>5. after = [n \in 0 .. N |-> IF n = 0 THEN none ELSE WithPolicy(after[n - 1], list[n], dir)]
  BY <1>4
<1>6. Collect(list, dir) = after[N]
  BY DEF Collect
<1> HIDE DEF after
<1>7. 0 \in T
  <2>1. after[0] = none
    BY <1>1, <1>5
  <2>2. ASSUME NEW c PROVE Decided(0, c)
    BY <2>1 DEF FirstPolicy, Gives, Nothing, Outcomes
  <2>3. Taken(0)
    BY <2>1
  <2> HIDE DEF Results, Taken, Decided, none
  <2> QED
    BY <1>1, <1>2, <2>1, <2>2, <2>3
<1>8. ASSUME NEW n \in 1 .. N, n - 1 \in T PROVE n \in T
  <2> DEFINE p == list[n]
             x == after[n - 1]
  <2>0. n \in 0 .. N /\ n # 0 /\ p \in Policies
    BY <1>1
  <2>3. \A i \in 1 .. n : i \in 1 .. n - 1 \/ i = n
    BY <1>1
  <2>4. x \in Results /\ Taken(n - 1) /\ \A c : Decided(n - 1, c)
    <3> HIDE DEF Results, Taken, Decided
    <3> QED
      BY <1>8
  <2> HIDE DEF Results
  <2>7. after[n] = WithPolicy(after[n - 1], list[n], dir)
    <3> HIDE DEF N, none, p, x
    <3> QED
      BY <1>5, <2>0
  <2> HIDE DEF p, x
  <2>1. after[n] = WithPolicy(x, p, dir) /\ p \in Policies /\ x \in Results
    BY <2>0, <2>4, <2>7 DEF p, x
  <2>2. after[n] \in Results
    BY <1>3, <2>1
  <2>5. Taken(n)
    <3>1. CASE CapturedBy(p, dir) = {}
      <4>1. after[n].captured = x.captured
        BY <1>3, <2>1, <3>1
      <4> QED
        BY <2>3, <2>4, <3>1, <4>1 DEF p, x
    <3>2. CASE CapturedBy(p, dir) # {}
      <4>1. after[n].captured = IF Captures(p) THEN x.captured \cup CapturedBy(p, dir) ELSE x.captured
        BY <1>3, <2>1, <3>2
      <4>2. n \in 1 .. n /\ \A i \in 1 .. n - 1 : i \in 1 .. n
        BY <1>1
      <4> QED
        BY <2>3, <2>4, <4>1, <4>2 DEF p, x
    <3> QED
      BY <3>1, <3>2
  <2>6. ASSUME NEW c PROVE Decided(n, c)
    <3>1. PICK v \in Outcomes : FirstPolicy(list, n - 1, dir, c, v) /\ Gives(x.eff, c, v)
      BY <2>4 DEF x
    <3>2. CASE CapturedBy(p, dir) = {}
      <4>1. after[n].eff = x.eff /\ ~Deciding(p, dir, c)
        BY <1>3, <2>1, <3>2 DEF Deciding, Decides
      <4>2. FirstPolicy(list, n, dir, c, IF v = "none" THEN "none" ELSE v)
        BY <1>1, <3>1, <4>1, OneMorePolicy DEF p
      <4> QED
        BY <3>1, <4>1, <4>2
    <3>3. CASE CapturedBy(p, dir) # {}
      <4>1. PICK w \in Outcomes : /\ Gives(OfPolicy(p, dir), c, w)
                                  /\ w = "none" => ~Deciding(p, dir, c)
                                  /\ w # "none" => PolicySays(p, dir, c, w)
        BY <2>1, <3>3, PolicyGives
      <4>2. FirstPolicy(list, n, dir, c, IF v = "none" THEN w ELSE v)
        BY <1>1, <3>1, <4>1, OneMorePolicy DEF p
      <4>3. Gives(AndThen(x.eff, OfPolicy(p, dir)), c, IF v = "none" THEN w ELSE v)
        <5>1. OfPolicy(p, dir) \in Verdicts /\ x.eff \in Verdicts
          BY <2>1, PolicyShape, OfPolicyGives DEF Results
        <5> QED
          BY <3>1, <4>1, <5>1, AndThenGives
      <4>4. after[n].eff = AndThen(x.eff, OfPolicy(p, dir))
        BY <1>3, <2>1, <3>3
      <4> QED
        BY <3>1, <4>1, <4>2, <4>3, <4>4
    <3> QED
      BY <3>2, <3>3
  <2> HIDE DEF Taken, Decided
  <2> QED
    BY <1>1, <2>2, <2>5, <2>6
<1>9. N \in T
  <2> HIDE DEF T
  <2>1. 0 .. N \subseteq T
    BY <1>1, <1>7, <1>8, UpTo
  <2> QED
    BY <1>1, <2>1
<1> QED
  BY <1>6, <1>9

-----------------------------------------------------------------------------
(***************************************************************************)
(* The decision of a layer, told from its list.                              *)
(***************************************************************************)
\* Authorization policies with one action: which of them comes first makes no
\* difference, and a Deny goes before those that came earlier.
SameVoice(p, q) == p.kind = "authz" /\ q.kind = "authz" /\ p.action = q.action
\* Policies that are never about the same connection in one direction.
Apart(p, q) == p.selected \cap q.selected = {}
\* The list holds the policies of layer n, each once, those that are evaluated
\* sooner first where it makes a difference.
Sorted(cfg, n, list) ==
  /\ list \in Seq(Policies) /\ ToSet(list) = InLayer(cfg, n)
  /\ \A i, j \in 1 .. Len(list) : i < j =>
       /\ list[i] # list[j]
       /\ Sooner(cfg, list[i], list[j]) \/ SameVoice(list[i], list[j]) \/ Apart(list[i], list[j])

\* The members of a list.
LEMMA Members ==
  ASSUME NEW S, NEW list \in Seq(S)
  PROVE  /\ Len(list) \in Nat /\ DOMAIN list = 1 .. Len(list)
         /\ ToSet(list) \subseteq S
         /\ \A x : x \in ToSet(list) <=> \E i \in 1 .. Len(list) : list[i] = x
<1>1. ToSet(list) = {list[i] : i \in DOMAIN list}
  BY DEF ToSet
<1> QED
  BY <1>1

\* The place of a policy in the order of arrival.
LEMMA ArrivalIs ==
  ASSUME NEW cfg, cfg.policies \in Seq(Policies), NEW p \in ToSet(cfg.policies)
  PROVE  Arrival(cfg, p) \in 1 .. Len(cfg.policies) /\ cfg.policies[Arrival(cfg, p)] = p /\ p \in Policies
<1>1. \E i \in DOMAIN cfg.policies : cfg.policies[i] = p
  BY Members
<1> QED
  BY <1>1, Members DEF Arrival

\* What the assumption says of the fields the order of policies is told from.
LEMMA PolicyFields ==
  ASSUME NEW p \in Policies
  PROVE  /\ p.kind \in Kinds /\ p.action \in {"allow", "deny"}
         /\ p.order \in Nat \cup {NoOrder}
         /\ p.kind \in {"authz", "sidecar", "ingress", "gateway"} => p.order = NoOrder
BY PolicyAssumption

\* Sooner goes one way.
LEMMA SoonerOneWay ==
  ASSUME NEW cfg, cfg.policies \in Seq(Policies), NEW p \in ToSet(cfg.policies), NEW q \in ToSet(cfg.policies),
         Sooner(cfg, p, q)
  PROVE  ~Sooner(cfg, q, p)
<1>1. /\ Arrival(cfg, p) \in Int /\ Arrival(cfg, q) \in Int
      /\ p \in Policies /\ q \in Policies
  BY ArrivalIs, Members
<1>2. /\ p.order \in Nat \cup {NoOrder} /\ q.order \in Nat \cup {NoOrder}
      /\ p.action \in {"allow", "deny"} /\ q.action \in {"allow", "deny"}
  BY <1>1, PolicyFields
<1> DEFINE a == Arrival(cfg, p)
           b == Arrival(cfg, q)
<1>3. a \in Int /\ b \in Int
  BY <1>1
<1>4. IF p.kind = "authz" /\ q.kind = "authz" /\ p.action # q.action THEN p.action = "deny"
      ELSE IF p.order # q.order THEN p.order # NoOrder /\ (q.order = NoOrder \/ p.order < q.order)
      ELSE a < b
  BY DEF Sooner
<1>5. Sooner(cfg, q, p) <=>
      IF q.kind = "authz" /\ p.kind = "authz" /\ q.action # p.action THEN q.action = "deny"
      ELSE IF q.order # p.order THEN q.order # NoOrder /\ (p.order = NoOrder \/ q.order < p.order)
      ELSE b < a
  BY DEF Sooner
<1> HIDE DEF a, b
<1>6. CASE q.kind = "authz" /\ p.kind = "authz" /\ q.action # p.action
  BY <1>2, <1>4, <1>5, <1>6
<1>7. CASE ~(q.kind = "authz" /\ p.kind = "authz" /\ q.action # p.action)
  BY <1>2, <1>3, <1>4, <1>5, <1>7 DEF NoOrder
<1> QED
  BY <1>6, <1>7

\* The rules of an authorization policy have its action.
LEMMA VoiceIsAction ==
  ASSUME NEW p \in Policies, p.kind = "authz", NEW dir \in Directions, NEW i \in DOMAIN p[dir]
  PROVE  p[dir][i].action = p.action
BY PolicyAssumption

\* Of the policies that speak with the voice of p, the one that came first.
LEMMA FirstOfVoice ==
  ASSUME NEW cfg, cfg.policies \in Seq(Policies), NEW D \in SUBSET ToSet(cfg.policies), NEW p \in D
  PROVE  \E f \in D : /\ f = p \/ SameVoice(p, f)
                      /\ Arrival(cfg, f) <= Arrival(cfg, p)
                      /\ \A q \in D : SameVoice(p, q) => Arrival(cfg, f) <= Arrival(cfg, q)
<1> DEFINE V == {q \in D : q = p \/ SameVoice(p, q)}
           T == {Arrival(cfg, q) : q \in V}
<1>1. \A q \in V : Arrival(cfg, q) \in Nat
  BY ArrivalIs, Members
<1>2. T \in SUBSET Nat /\ Arrival(cfg, p) \in T
  BY <1>1
<1> HIDE DEF T
<1>3. PICK m \in T : \A n \in T : m <= n
  BY <1>2, LeastNatural
<1>4. PICK f \in V : m = Arrival(cfg, f)
  BY DEF T
<1>5. \A q \in V : Arrival(cfg, f) <= Arrival(cfg, q)
  BY <1>3, <1>4 DEF T
<1> QED
  BY <1>4, <1>5

\* The end of a connection that a direction is about.
Own(dir, c) == IF dir = "ingress" THEN c.dst ELSE c.src
\* A policy is about connections of the peers it selects.
LEMMA AboutSelected ==
  ASSUME NEW p \in Policies, NEW dir \in Directions, NEW c, Deciding(p, dir, c)
  PROVE  Own(dir, c) \in p.selected
<1>1. PICK i \in DOMAIN p[dir] : c \in p[dir][i].conns
  BY DEF Deciding, Decides
<1> QED
  BY <1>1, PolicyAssumption DEF Own, Directions

\* The decision of a layer is what the first policy of its list that is about a
\* connection says: the order of the list is fine enough.
LEMMA DecisionIs ==
  ASSUME NEW cfg, cfg.policies \in Seq(Policies), NEW n, NEW list, Sorted(cfg, n, list),
         NEW dir \in Directions, NEW c, NEW v, FirstPolicy(list, Len(list), dir, c, v)
  PROVE  Decision(cfg, n, dir, c) = v
<1> DEFINE D == {p \in InLayer(cfg, n) : \E i \in DOMAIN p[dir] : Decides(p, dir, i, c)}
           First(p) == p \in D /\ \A q \in D \ {p} : Sooner(cfg, p, q)
           first == CHOOSE p \in D : \A q \in D \ {p} : Sooner(cfg, p, q)
           Rule(i) == Decides(first, dir, i, c) /\ \A j \in 1 .. i - 1 : ~Decides(first, dir, j, c)
           rule == CHOOSE i \in DOMAIN first[dir] :
                     Decides(first, dir, i, c) /\ \A j \in 1 .. i - 1 : ~Decides(first, dir, j, c)
<1>1. Decision(cfg, n, dir, c) = IF D = {} THEN "none" ELSE first[dir][rule].action
  BY DEF Decision
<1>2. /\ Len(list) \in Nat /\ list \in Seq(Policies)
      /\ \A x : x \in InLayer(cfg, n) <=> \E i \in 1 .. Len(list) : list[i] = x
      /\ \A i \in 1 .. Len(list) : list[i] \in Policies
  BY Members DEF Sorted
<1>3. InLayer(cfg, n) \in SUBSET ToSet(cfg.policies)
  BY DEF InLayer
<1>4. \A p : p \in D <=> p \in InLayer(cfg, n) /\ Deciding(p, dir, c)
  BY DEF Deciding
<1>5. CASE v = "none" /\ \A k \in 1 .. Len(list) : ~Deciding(list[k], dir, c)
  <2>1. D = {}
    BY <1>2, <1>4, <1>5
  <2> QED
    BY <1>1, <1>5, <2>1
<1>6. CASE \E k \in 1 .. Len(list) : /\ PolicySays(list[k], dir, c, v)
                                     /\ \A j \in 1 .. k - 1 : ~Deciding(list[j], dir, c)
  <2>1. PICK k \in 1 .. Len(list) : /\ PolicySays(list[k], dir, c, v)
                                    /\ \A j \in 1 .. k - 1 : ~Deciding(list[j], dir, c)
    BY <1>6
  <2> DEFINE p == list[k]
  <2>2. p \in Policies /\ p \in D
    BY <1>2, <1>4, <2>1, SaysIsAction
  <2> HIDE DEF D
  <2>3. ASSUME NEW q \in D, q # p PROVE Sooner(cfg, p, q) \/ SameVoice(p, q)
    <3>1. PICK j \in 1 .. Len(list) : list[j] = q /\ Deciding(q, dir, c)
      BY <1>2, <1>4
    <3>2. k < j
      BY <1>2, <2>1, <2>3, <3>1
    <3>3. ~Apart(p, q)
      <4>1. Own(dir, c) \in p.selected /\ Own(dir, c) \in q.selected
        BY <1>2, <2>1, <3>1, SaysIsAction, AboutSelected
      <4> QED
        BY <4>1 DEF Apart
    <3>4. Sooner(cfg, list[k], list[j]) \/ SameVoice(list[k], list[j]) \/ Apart(list[k], list[j])
      BY <3>2 DEF Sorted
    <3> QED
      BY <3>1, <3>3, <3>4
  <2> DEFINE a(q) == Arrival(cfg, q)
  <2>4. \A q \in D : q \in ToSet(cfg.policies) /\ q \in Policies
    BY <1>3, <1>4, ArrivalIs
  <2> HIDE DEF p
  <2>5. PICK f \in D : /\ f = p \/ SameVoice(p, f)
                       /\ Arrival(cfg, f) <= Arrival(cfg, p)
                       /\ \A q \in D : SameVoice(p, q) => Arrival(cfg, f) <= Arrival(cfg, q)
    <3>1. D \in SUBSET ToSet(cfg.policies)
      BY <2>4
    <3> QED
      BY <2>2, <3>1, FirstOfVoice
  <2>6. ASSUME NEW q \in D, q # f PROVE Sooner(cfg, f, q)
    <3>1. f \in Policies /\ q \in Policies /\ p \in Policies
      BY <2>2, <2>4
    <3>2. /\ f.order \in Nat \cup {NoOrder} /\ q.order \in Nat \cup {NoOrder}
          /\ f.kind = "authz" => f.order = NoOrder
          /\ p.kind = "authz" => p.order = NoOrder
          /\ q.kind = "authz" => q.order = NoOrder
      BY <3>1, PolicyFields
    <3>3. a(f) \in Int /\ a(q) \in Int /\ a(p) \in Int /\ a(f) # a(q)
      BY <2>2, <2>4, <2>6, ArrivalIs
    <3>4. CASE SameVoice(p, q)
      <4>1. a(f) <= a(q) /\ SameVoice(f, q)
        BY <2>5, <3>4 DEF SameVoice
      <4> HIDE DEF a
      <4>2. a(f) < a(q)
        BY <3>3, <4>1
      <4> QED
        BY <3>2, <4>1, <4>2 DEF Sooner, SameVoice, a
    <3>5. CASE ~SameVoice(p, q) /\ f = p
      BY <2>3, <2>6, <3>5
    <3>6. CASE ~SameVoice(p, q) /\ SameVoice(p, f)
      <4>1. Sooner(cfg, p, q)
        <5>1. q # p
          BY <3>6 DEF SameVoice
        <5> QED
          BY <2>3, <3>6, <5>1
      <4>2. CASE q.kind = "authz"
        BY <3>6, <4>1, <4>2 DEF Sooner, SameVoice
      <4>3. CASE q.kind # "authz"
        <5>1. p.order = q.order /\ a(p) < a(q) /\ f.order = q.order
          BY <3>2, <3>6, <4>1, <4>3 DEF Sooner, SameVoice
        <5>2. a(f) < a(q)
          <6> HIDE DEF a
          <6>1. a(f) <= a(p)
            BY <2>5 DEF a
          <6> QED
            BY <3>3, <5>1, <6>1
        <5> QED
          BY <4>3, <5>1, <5>2 DEF Sooner
      <4> QED
        BY <4>2, <4>3
    <3> QED
      BY <2>5, <3>4, <3>5, <3>6
  <2>7. first = f
    <3>1. First(first)
      BY <2>6
    <3> HIDE DEF first
    <3>2. first # f => Sooner(cfg, first, f) /\ Sooner(cfg, f, first)
      BY <2>6, <3>1
    <3> QED
      BY <2>4, <3>1, <3>2, SoonerOneWay
  <2>8. PICK i \in DOMAIN f[dir] : Decides(f, dir, i, c) /\ \A j \in 1 .. i - 1 : ~Decides(f, dir, j, c)
    <3>1. f \in Policies
      BY <2>4
    <3>2. Deciding(f, dir, c)
      BY <1>4
    <3>3. DOMAIN f[dir] \in SUBSET Nat /\ \A i \in DOMAIN f[dir] : \A j \in 1 .. i - 1 : j \in DOMAIN f[dir]
      BY <3>1, PolicyShape
    <3> DEFINE T == {i \in DOMAIN f[dir] : Decides(f, dir, i, c)}
    <3>4. T \in SUBSET Nat /\ T # {}
      BY <3>2, <3>3 DEF Deciding
    <3>5. PICK m \in T : \A j \in T : m <= j
      <4> HIDE DEF T
      <4> QED
        BY <3>4, LeastNatural
    <3> QED
      BY <3>3, <3>5
  <2>9. Rule(rule) /\ rule \in DOMAIN f[dir]
    BY <2>7, <2>8
  <2>10. first[dir][rule].action = v
    <3>1. f \in Policies
      BY <2>4
    <3>2. CASE f = p
      <4>1. PICK j \in DOMAIN p[dir] : /\ Decides(p, dir, j, c) /\ v = p[dir][j].action
                                       /\ \A l \in 1 .. j - 1 : ~Decides(p, dir, l, c)
        BY <2>1 DEF PolicySays, p
      <4>2. DOMAIN f[dir] \in SUBSET Nat /\ \A l \in DOMAIN f[dir] : l >= 1
        BY <3>1, PolicyShape
      <4> HIDE DEF first, rule
      <4>3. rule = j
        BY <2>7, <2>9, <3>2, <4>1, <4>2
      <4> QED
        BY <2>7, <3>2, <4>1, <4>3
    <3>3. CASE SameVoice(p, f)
      <4> HIDE DEF rule, first
      <4>1. f[dir][rule].action = p.action
        BY <2>9, <3>1, <3>3, VoiceIsAction DEF SameVoice
      <4>2. PICK j \in DOMAIN p[dir] : v = p[dir][j].action
        BY <2>1 DEF PolicySays, p
      <4>3. p[dir][j].action = p.action
        BY <2>2, <3>3, VoiceIsAction DEF SameVoice
      <4> QED
        BY <2>7, <4>1, <4>2, <4>3
    <3> QED
      BY <2>5, <3>2, <3>3
  <2> QED
    BY <1>1, <2>2, <2>10
<1> QED
  BY <1>5, <1>6 DEF FirstPolicy

-----------------------------------------------------------------------------
(***************************************************************************)
(* What a layer allows.                                                      *)
(***************************************************************************)
\* What layer n allows in one direction.
Allows(cfg, n, dir, c) ==
  IF n \in {"K8s_Calico", "K8sGateway"} THEN CalicoAllows(cfg, n, dir, c) ELSE IstioAllows(cfg, n, dir, c)

\* The fold over the list of a layer gives the decisions of the layer and the peers
\* captured in it.
LEMMA CollectIs ==
  ASSUME NEW cfg, cfg.policies \in Seq(Policies), NEW n, NEW list, Sorted(cfg, n, list), NEW dir \in Directions
  PROVE  /\ \A c : Gives(Collect(list, dir).eff, c, Decision(cfg, n, dir, c))
         /\ \A x : x \in Collect(list, dir).captured <=> x \in CapturedIn(cfg, n, dir)
<1>1. list \in Seq(Policies)
  BY DEF Sorted
<1>2. ASSUME NEW c PROVE Gives(Collect(list, dir).eff, c, Decision(cfg, n, dir, c))
  <2>1. PICK v \in Outcomes : FirstPolicy(list, Len(list), dir, c, v) /\ Gives(Collect(list, dir).eff, c, v)
    BY <1>1, CollectGives
  <2>2. Decision(cfg, n, dir, c) = v
    BY <2>1, DecisionIs
  <2> QED
    BY <2>1, <2>2
<1>3. \A p : p \in InLayer(cfg, n) <=> \E k \in 1 .. Len(list) : list[k] = p
  BY <1>1, Members DEF Sorted
<1>4. \A x : x \in CapturedIn(cfg, n, dir) <=>
               \E p \in InLayer(cfg, n) : Captures(p) /\ x \in CapturedBy(p, dir)
  BY DEF CapturedIn
<1>5. \A x : x \in Collect(list, dir).captured <=>
               \E k \in 1 .. Len(list) : Captures(list[k]) /\ x \in CapturedBy(list[k], dir)
  BY <1>1, CollectGives
<1>6. \A x : x \in Collect(list, dir).captured <=> x \in CapturedIn(cfg, n, dir)
  BY <1>3, <1>4, <1>5
<1> QED
  BY <1>2, <1>6

\* The ends of a connection queries look at.
LEMMA RealEnds ==
  ASSUME NEW c \in RealConns
  PROVE  /\ c = [src |-> c.src, dst |-> c.dst, prot |-> c.prot]
         /\ c.src \in Clusters \cup {Ip} /\ c.dst \in Clusters \cup DnsEntries \cup {Ip}
         /\ c.src = Ip => c.dst \in Clusters
         /\ c.prot \in Protocols
BY DEF RealConns, Conns, Peers

\* Membership in the sets of connections the layers are told in.
LEMMA BetweenIs ==
  ASSUME NEW c \in RealConns, NEW S, NEW D, NEW P
  PROVE  /\ c \in [src : S, dst : D, prot : P] <=> c.src \in S /\ c.dst \in D /\ c.prot \in P
         /\ c \in Between(S, D) <=> c.src \in S /\ c.dst \in D
         /\ c \in TcpBetween(S, D) <=> c.src \in S /\ c.dst \in D /\ c.prot = "TCP"
         /\ \A dir : c \in Ends(dir, S, D) <=>
              IF dir = "ingress" THEN c.dst \in S /\ c.src \in D ELSE c.src \in S /\ c.dst \in D
<1>1. \A A, B, Q : c \in [src : A, dst : B, prot : Q] <=> c.src \in A /\ c.dst \in B /\ c.prot \in Q
  BY RealEnds
<1>2. c.prot \in Protocols
  BY RealEnds
<1>3. \A A, B : c \in Between(A, B) <=> c.src \in A /\ c.dst \in B
  BY <1>1, <1>2 DEF Between
<1> QED
  BY <1>1, <1>3 DEF TcpBetween, Ends

\* A layer of Calico's kind, in one direction.
LEMMA CalicoIs ==
  ASSUME NEW cfg, cfg.policies \in Seq(Policies), NEW n, NEW list, Sorted(cfg, n, list),
         NEW dir \in Directions, NEW filter, filter.all, NEW c \in RealConns
  PROVE  c \in CalicoXgress(Collect(list, dir), dir, filter).all \/ Own(dir, c) = Ip <=> CalicoAllows(cfg, n, dir, c)
<1> DEFINE col == Collect(list, dir)
           notHep == Pods \cup DnsEntries
           own == Own(dir, c)
           decision == Decision(cfg, n, dir, c)
<1>1. /\ c \in col.eff.allow <=> decision = "allow"
      /\ c \in col.eff.pass <=> decision = "pass"
      /\ \A x : x \in col.captured <=> x \in CapturedIn(cfg, n, dir)
  BY CollectIs DEF Gives
<1>2. /\ c.src \in Clusters \cup {Ip} /\ c.dst \in Clusters \cup DnsEntries \cup {Ip}
      /\ own \in Clusters \cup DnsEntries \cup {Ip} /\ c.src \in Peers /\ c.dst \in Peers
  BY RealEnds DEF Own, Peers
<1>3. /\ own # Ip => (own \in notHep <=> own \notin Heps)
      /\ Ip \notin notHep
  BY <1>2, PeerAssumption DEF Clusters
<1>4. CalicoXgress(col, dir, filter).all =
        Ends(dir, notHep \ col.captured, Peers)
        \cup (col.eff.allow \cup (col.eff.pass \cap Ends(dir, notHep \cap col.captured, Peers)))
  BY DEF CalicoXgress, Where
<1>5. CalicoAllows(cfg, n, dir, c) <=>
        \/ own = Ip \/ decision = "allow"
        \/ own \notin Heps /\ (decision = "pass" \/ own \notin CapturedIn(cfg, n, dir))
  BY DEF CalicoAllows, Own
<1>6. \A S : c \in Ends(dir, S, Peers) <=> own \in S
  BY <1>2, BetweenIs DEF Own
<1> HIDE DEF col, own, decision, notHep
<1> QED
  BY <1>1, <1>3, <1>4, <1>5, <1>6 DEF col, own

\* A layer of Istio's kind, in one direction.
LEMMA IstioIs ==
  ASSUME NEW cfg, cfg.policies \in Seq(Policies), NEW n, NEW list, Sorted(cfg, n, list),
         NEW dir \in Directions, NEW filter, filter.all, NEW c \in RealConns
  PROVE  c \in IstioXgress(Collect(list, dir), dir, filter).all \/ Own(dir, c) = Ip <=> IstioAllows(cfg, n, dir, c)
<1> DEFINE col == Collect(list, dir)
           noDns == Clusters \cup {Ip}
           unbound == Clusters \ col.captured
           own == Own(dir, c)
           decision == Decision(cfg, n, dir, c)
           nonTcp == [src : noDns, dst : noDns, prot : OtherProtocols]
           inwards == Between(noDns, unbound) \cup Where(unbound # {}, TcpBetween(noDns, DnsEntries \ col.captured))
           outwards == Between(unbound, noDns) \cup TcpBetween(unbound, DnsEntries)
           free == /\ own \notin CapturedIn(cfg, n, dir) /\ decision # "deny"
                   /\ Clusters \ CapturedIn(cfg, n, dir) # {}
<1>1. /\ c \in col.eff.allow <=> decision = "allow"
      /\ c \in col.eff.deny <=> decision = "deny"
      /\ \A x : x \in col.captured <=> x \in CapturedIn(cfg, n, dir)
  BY CollectIs DEF Gives
<1>2. /\ c.src \in Clusters \cup {Ip} /\ c.dst \in Clusters \cup DnsEntries \cup {Ip}
      /\ c.src = Ip => c.dst \in Clusters
      /\ c.prot \in {"TCP"} \cup OtherProtocols
  BY RealEnds DEF Protocols
<1>3. c.prot \in OtherProtocols <=> c.prot # "TCP"
  BY <1>2, PeerAssumption
<1>4. /\ c.src \in noDns
      /\ c.dst \in noDns <=> c.dst \notin DnsEntries
      /\ c.dst \in DnsEntries => c.dst \notin Clusters /\ c.dst # Ip
      /\ Ip \notin Clusters
  BY <1>2, PeerAssumption
<1>5. IstioXgress(col, dir, filter).all =
        col.eff.allow \cup nonTcp \cup ((IF dir = "ingress" THEN inwards ELSE outwards) \ col.eff.deny)
  BY DEF IstioXgress, Where
<1>6. c \in nonTcp <=> c.dst \notin DnsEntries /\ c.prot # "TCP"
  BY <1>3, <1>4, BetweenIs
<1>7. c \in inwards <=> \/ c.dst \in unbound
                        \/ unbound # {} /\ c.dst \in DnsEntries \ col.captured /\ c.prot = "TCP"
  <2> HIDE DEF noDns, unbound
  <2>1. c \in Between(noDns, unbound) <=> c.dst \in unbound
    BY <1>4, BetweenIs
  <2>2. c \in TcpBetween(noDns, DnsEntries \ col.captured) <=>
          c.dst \in DnsEntries \ col.captured /\ c.prot = "TCP"
    <3>1. \A S, D : c \in TcpBetween(S, D) <=> c.src \in S /\ c.dst \in D /\ c.prot = "TCP"
      BY BetweenIs
    <3> QED
      BY <1>4, <3>1
  <2> HIDE DEF col
  <2> QED
    BY <2>1, <2>2 DEF Where
<1>8. c \in outwards <=> c.src \in unbound /\ (c.dst \notin DnsEntries \/ c.prot = "TCP")
  <2> HIDE DEF noDns, unbound
  <2> QED
    BY <1>4, BetweenIs
<1>9. IstioAllows(cfg, n, dir, c) <=>
        \/ own = Ip \/ decision = "allow"
        \/ IF c.dst \in DnsEntries THEN c.prot = "TCP" /\ free ELSE c.prot # "TCP" \/ free
  BY DEF IstioAllows, Own
<1>10. unbound = Clusters \ CapturedIn(cfg, n, dir)
  BY <1>1
<1> HIDE DEF nonTcp, inwards, outwards, col, decision, noDns, unbound
<1>11. CASE dir = "ingress"
  <2>1. own = c.dst
    BY <1>11 DEF Own
  <2>2. own # Ip => (c \in inwards /\ decision # "deny" <=>
                     free /\ (c.dst \in DnsEntries => c.prot = "TCP"))
    BY <1>1, <1>2, <1>4, <1>7, <1>10, <2>1
  <2> HIDE DEF own, free
  <2> QED
    BY <1>1, <1>5, <1>6, <1>9, <1>11, <2>1, <2>2 DEF col, own
<1>12. CASE dir # "ingress"
  <2>1. own = c.src
    BY <1>12 DEF Own
  <2>2. own # Ip => (c \in outwards /\ decision # "deny" <=>
                     free /\ (c.dst \in DnsEntries => c.prot = "TCP"))
    BY <1>1, <1>2, <1>4, <1>8, <1>10, <2>1
  <2> HIDE DEF own, free
  <2> QED
    BY <1>1, <1>5, <1>6, <1>9, <1>12, <2>1, <2>2 DEF col, own
<1> QED
  BY <1>11, <1>12

\* What a layer allows in both directions is what its decisions and defaults allow.
LEMMA LayerIs ==
  ASSUME NEW cfg, cfg.policies \in Seq(Policies), NEW n, NEW list, Sorted(cfg, n, list),
         NEW filter, filter.all, NEW c \in RealConns
  PROVE  c \in LayerConns(n, list, filter).all <=> LayerAllows(cfg, n, c)
<1> DEFINE in == Xgress(n, list, "ingress", filter)
           out == Xgress(n, list, "egress", filter)
<1>1. \A dir \in Directions :
        c \in Xgress(n, list, dir, filter).all \/ Own(dir, c) = Ip <=> Allows(cfg, n, dir, c)
  BY CalicoIs, IstioIs DEF Xgress, Allows
<1>2. LayerAllows(cfg, n, c) <=> Allows(cfg, n, "ingress", c) /\ Allows(cfg, n, "egress", c)
  BY DEF LayerAllows, Allows, Directions
<1>3. /\ c \in Between(Clusters, {Ip}) <=> Own("ingress", c) = Ip
      /\ c \in Between({Ip}, Clusters) <=> Own("egress", c) = Ip
  <2>1. /\ c.src \in Clusters \cup {Ip} /\ c.dst \in Clusters \cup DnsEntries \cup {Ip}
        /\ c.src = Ip => c.dst \in Clusters
        /\ Ip \notin Clusters
    BY RealEnds, PeerAssumption
  <2> QED
    BY <2>1, BetweenIs DEF Own
<1>4. LayerConns(n, list, filter).all = (in.all \cup Between(Clusters, {Ip})) \cap (out.all \cup Between({Ip}, Clusters))
  BY DEF LayerConns, InAndOut, Where
<1> HIDE DEF in, out
<1> QED
  BY <1>1, <1>2, <1>3, <1>4 DEF Directions, in, out

-----------------------------------------------------------------------------
(***************************************************************************)
(* What the layers allow together.                                           *)
(***************************************************************************)
\* The layers of a configuration hold its policies, each layer those of its kinds in
\* the order they are evaluated in.
InLayers(cfg) ==
  /\ cfg.policies \in Seq(Policies)
  /\ DOMAIN cfg.layers = IF cfg.policies = << >> THEN {"K8s_Calico"}
                         ELSE {policy_type_to_layer(p) : p \in ToSet(cfg.policies)}
  /\ \A n \in DOMAIN cfg.layers : Sorted(cfg, n, cfg.layers[n])

\* The filters of the queries, and what they become for the layers that leave host
\* endpoints alone.
LEMMA Filters ==
  /\ only_all_allowed_connections = [allowed |-> FALSE, denied |-> FALSE, all |-> TRUE]
  /\ WithoutAll(only_all_allowed_connections) = [allowed |-> FALSE, denied |-> FALSE, all |-> FALSE]
  /\ only_allowed_connections = [allowed |-> TRUE, denied |-> FALSE, all |-> TRUE]
  /\ WithoutAll(only_allowed_connections) = [allowed |-> TRUE, denied |-> FALSE, all |-> TRUE]
BY DEF only_all_allowed_connections, only_allowed_connections, WithoutAll, Filter

\* The layers there are, and the ones the meaning is told from.
LEMMA LayersThere ==
  ASSUME NEW cfg, InLayers(cfg)
  PROVE  /\ DOMAIN cfg.layers \subseteq ActiveLayers(cfg)
         /\ \A n \in ActiveLayers(cfg) : n \in DOMAIN cfg.layers \/ (n = "K8s_Calico" /\ Heps # {})
         /\ Heps # {} => "K8s_Calico" \in ActiveLayers(cfg)
         /\ "K8s_Calico" \notin DOMAIN cfg.layers => Sorted(cfg, "K8s_Calico", << >>)
<1> DEFINE layers == {policy_type_to_layer(p) : p \in ToSet(cfg.policies)}
<1>1. cfg.policies = << >> <=> layers = {}
  <2>1. cfg.policies = << >> <=> Len(cfg.policies) = 0
    BY EmptySeq DEF InLayers
  <2>2. CASE cfg.policies = << >>
    <3>1. Len(cfg.policies) = 0
      BY <2>1, <2>2
    <3>2. ToSet(cfg.policies) = {}
      BY <3>1, Members DEF InLayers
    <3> QED
      BY <2>2, <3>2
  <2>3. CASE cfg.policies # << >>
    <3>1. Len(cfg.policies) \in Nat /\ Len(cfg.policies) # 0
      BY <2>1, <2>3 DEF InLayers
    <3>2. cfg.policies[1] \in ToSet(cfg.policies)
      BY <3>1, Members DEF InLayers
    <3>3. policy_type_to_layer(cfg.policies[1]) \in layers
      BY <3>2
    <3> QED
      BY <2>3, <3>3
  <2> QED
    BY <2>2, <2>3
<1>2. ActiveLayers(cfg) = IF layers = {} \/ Heps # {} THEN layers \cup {"K8s_Calico"} ELSE layers
  BY DEF ActiveLayers
<1>3. DOMAIN cfg.layers = IF layers = {} THEN {"K8s_Calico"} ELSE layers
  BY <1>1 DEF InLayers
<1>4. ASSUME "K8s_Calico" \notin DOMAIN cfg.layers PROVE Sorted(cfg, "K8s_Calico", << >>)
  <2>1. InLayer(cfg, "K8s_Calico") = {}
    BY <1>3, <1>4 DEF InLayer
  <2>2. << >> \in Seq(Policies) /\ Len(<< >>) = 0 /\ DOMAIN << >> = {}
    OBVIOUS
  <2>3. ToSet(<< >>) = {}
    <3>1. ToSet(<< >>) = {<< >>[i] : i \in DOMAIN << >>}
      BY DEF ToSet
    <3> QED
      BY <2>2, <3>1
  <2> DEFINE s == << >>
  <2>4. s \in Seq(Policies) /\ Len(s) = 0 /\ ToSet(s) = InLayer(cfg, "K8s_Calico")
    BY <2>1, <2>2, <2>3
  <2> HIDE DEF s
  <2>5. Sorted(cfg, "K8s_Calico", s)
    BY <2>4 DEF Sorted
  <2> QED
    BY <2>5 DEF s
<1> HIDE DEF layers
<1> QED
  BY <1>2, <1>3, <1>4

\* What every active layer allows, the connections of host endpoints included.
EveryLayerAllows(cfg) == {c \in RealConns : \A n \in ActiveLayers(cfg) : LayerAllows(cfg, n, c)}

\* All connections together: what is computed is what every active layer allows.
LEMMA AllIs ==
  ASSUME NEW cfg, InLayers(cfg)
  PROVE  AllAllowed(cfg) = EveryLayerAllows(cfg)
<1> DEFINE filter == only_all_allowed_connections
           start == IF Heps # {} /\ "K8s_Calico" \notin DOMAIN cfg.layers
                      THEN AndBy(LayerConns("K8s_Calico", << >>, filter), HepConns, WithoutAll(filter))
                      ELSE [allowed |-> {}, denied |-> {}, all |-> Where(filter.all, Conns)]
           of == [n \in DOMAIN cfg.layers |-> OwnConns(n, LayerConns(n, cfg.layers[n], filter), filter)]
<1>1. filter.all /\ ~WithoutAll(filter).all
  BY Filters
<1>2. AllowedConnections(cfg, filter).all = {c \in start.all : \A n \in DOMAIN of : c \in of[n].all}
  <2>1. AllowedConnections(cfg, filter) = AllLayers(start, of, filter)
    BY DEF AllowedConnections
  <2> HIDE DEF start, of, filter
  <2> QED
    BY <1>1, <2>1 DEF AllLayers, Where
<1>3. start.all = IF Heps # {} /\ "K8s_Calico" \notin DOMAIN cfg.layers
                    THEN LayerConns("K8s_Calico", << >>, filter).all ELSE Conns
  <2> HIDE DEF filter
  <2> QED
    BY <1>1 DEF AndBy, Where
<1>4. \A n \in DOMAIN cfg.layers : of[n].all = LayerConns(n, cfg.layers[n], filter).all
  <2> HIDE DEF filter
  <2> QED
    BY <1>1 DEF OwnConns, SubBy, AndBy
<1>5. DOMAIN of = DOMAIN cfg.layers
  OBVIOUS
<1> HIDE DEF start, of, filter
<1>6. ASSUME NEW c \in RealConns
      PROVE  c \in AllowedConnections(cfg, filter).all <=> \A n \in ActiveLayers(cfg) : LayerAllows(cfg, n, c)
  <2>1. c \in Conns
    BY DEF RealConns
  <2>2. \A n \in DOMAIN cfg.layers : c \in of[n].all <=> LayerAllows(cfg, n, c)
    BY <1>1, <1>4, LayerIs DEF InLayers
  <2>3. c \in start.all <=>
          (Heps # {} /\ "K8s_Calico" \notin DOMAIN cfg.layers => LayerAllows(cfg, "K8s_Calico", c))
    <3>1. "K8s_Calico" \notin DOMAIN cfg.layers =>
            (c \in LayerConns("K8s_Calico", << >>, filter).all <=> LayerAllows(cfg, "K8s_Calico", c))
      BY <1>1, LayerIs, LayersThere DEF InLayers
    <3> QED
      BY <1>3, <2>1, <3>1
  <2>4. \A n : n \in ActiveLayers(cfg) <=> n \in DOMAIN cfg.layers \/ (n = "K8s_Calico" /\ Heps # {})
    BY LayersThere
  <2>5. c \in AllowedConnections(cfg, filter).all <=>
          c \in start.all /\ \A n \in DOMAIN cfg.layers : c \in of[n].all
    BY <1>2, <1>5
  <2>6. c \in AllowedConnections(cfg, filter).all <=>
          c \in start.all /\ \A n \in DOMAIN cfg.layers : LayerAllows(cfg, n, c)
    BY <2>2, <2>5
  <2> QED
    BY <2>3, <2>4, <2>6
<1> QED
  BY <1>6 DEF AllAllowed, EveryLayerAllows, filter

\* The meaning leaves host endpoints to the one layer; with no other layer there it is
\* the same.
LEMMA MeaningIs ==
  ASSUME NEW cfg
  PROVE  /\ EveryLayerAllows(cfg) \subseteq Meaning(cfg)
         /\ EveryLayerAllows(cfg) \ HepConns = Meaning(cfg) \ HepConns
         /\ ActiveLayers(cfg) \subseteq {"K8s_Calico"} => EveryLayerAllows(cfg) = Meaning(cfg)
  BY DEF EveryLayerAllows, Meaning

\* A layer passes to the profiles only what one of Calico's policies, which captures
\* its peers, passes.
LEMMA PassIsCaptured ==
  ASSUME NEW cfg, cfg.policies \in Seq(Policies), NEW n, NEW list, Sorted(cfg, n, list),
         NEW dir \in Directions, NEW c, Decision(cfg, n, dir, c) = "pass"
  PROVE  /\ Own(dir, c) \in CapturedIn(cfg, n, dir) /\ Own(dir, c) \in Clusters \cup DnsEntries
         /\ n = "K8s_Calico"
<1>1. list \in Seq(Policies) /\ ToSet(list) = InLayer(cfg, n)
  BY DEF Sorted
<1>2. PICK v \in Outcomes : FirstPolicy(list, Len(list), dir, c, v)
  BY <1>1, CollectGives
<1>3. v = "pass"
  BY <1>2, DecisionIs
<1>4. PICK k \in 1 .. Len(list) : PolicySays(list[k], dir, c, "pass")
  BY <1>2, <1>3 DEF FirstPolicy
<1> DEFINE p == list[k]
<1>5. p \in Policies /\ p \in InLayer(cfg, n)
  BY <1>1, Members
<1> HIDE DEF p
<1>6. PICK i \in DOMAIN p[dir] : Decides(p, dir, i, c) /\ p[dir][i].action = "pass"
  BY <1>4 DEF PolicySays, p
<1>7. p.kind = "calico"
  <2>1. p.action \in {"allow", "deny"}
    BY <1>5, PolicyFields
  <2>2. p.kind # "calico" => \A d \in Directions : \A j \in DOMAIN p[d] : p[d][j].action = p.action
    BY <1>5, PolicyAssumption
  <2> QED
    BY <1>6, <2>1, <2>2
<1>8. Own(dir, c) \in p.selected
  BY <1>5, <1>6, AboutSelected DEF Deciding
<1>9. p.selected \in SUBSET (Clusters \cup DnsEntries)
  BY <1>5, PolicyShape
<1>10. Captures(p) /\ CapturedBy(p, dir) = p.selected
  BY <1>6, <1>7 DEF Captures, CapturedBy, Decides
<1>11. n = "K8s_Calico"
  BY <1>5, <1>7 DEF InLayer, policy_type_to_layer
<1> QED
  BY <1>5, <1>8, <1>9, <1>10, <1>11 DEF CapturedIn

\* What a layer allows explicitly in one direction.
LEMMA ExplicitInLayer ==
  ASSUME NEW cfg, cfg.policies \in Seq(Policies), NEW n, NEW list, Sorted(cfg, n, list),
         NEW dir \in Directions, NEW filter, NEW c \in RealConns, Own(dir, c) \notin Heps
  PROVE  c \in Xgress(n, list, dir, filter).allowed <=> Decision(cfg, n, dir, c) \in {"allow", "pass"}
<1> DEFINE col == Collect(list, dir)
           notHep == Pods \cup DnsEntries
<1>1. /\ c \in col.eff.allow <=> Decision(cfg, n, dir, c) = "allow"
      /\ c \in col.eff.pass <=> Decision(cfg, n, dir, c) = "pass"
      /\ \A x : x \in col.captured <=> x \in CapturedIn(cfg, n, dir)
  BY CollectIs DEF Gives
<1>2. \A S : c \in Ends(dir, S, Peers) <=> Own(dir, c) \in S
  <2>1. c.src \in Peers /\ c.dst \in Peers
    BY RealEnds DEF Peers
  <2> QED
    BY <2>1, BetweenIs DEF Own
<1>3. Decision(cfg, n, dir, c) = "pass" => Own(dir, c) \in notHep \cap col.captured /\ n = "K8s_Calico"
  BY <1>1, PassIsCaptured DEF Clusters
<1>4. Xgress(n, list, dir, filter).allowed =
        IF n \in {"K8s_Calico", "K8sGateway"}
          THEN col.eff.allow \cup (col.eff.pass \cap Ends(dir, notHep \cap col.captured, Peers))
          ELSE col.eff.allow
  BY DEF Xgress, CalicoXgress, IstioXgress
<1> HIDE DEF col, notHep
<1> QED
  BY <1>1, <1>2, <1>3, <1>4

\* What is explicitly allowed between peers that are no host endpoints, when the layers
\* that are there are the active ones.
LEMMA ExplicitIs ==
  ASSUME NEW cfg, InLayers(cfg), Heps = {} \/ "K8s_Calico" \in DOMAIN cfg.layers
  PROVE  Allowed(cfg) \ HepConns = Explicit(cfg) \ HepConns
<1> DEFINE filter == only_allowed_connections
           start == IF Heps # {} /\ "K8s_Calico" \notin DOMAIN cfg.layers
                      THEN AndBy(LayerConns("K8s_Calico", << >>, filter), HepConns, WithoutAll(filter))
                      ELSE [allowed |-> {}, denied |-> {}, all |-> Where(filter.all, Conns)]
           of == [n \in DOMAIN cfg.layers |-> OwnConns(n, LayerConns(n, cfg.layers[n], filter), filter)]
           layer(n) == LayerConns(n, cfg.layers[n], filter)
<1>1. filter.all /\ filter.allowed /\ WithoutAll(filter).all /\ WithoutAll(filter).allowed
  BY Filters
<1>2. start = [allowed |-> {}, denied |-> {}, all |-> Conns]
  <2> HIDE DEF filter
  <2> QED
    BY <1>1 DEF Where
<1>3. AllowedConnections(cfg, filter).allowed =
        (UNION {of[n].allowed : n \in DOMAIN of}) \cap {c \in Conns : \A n \in DOMAIN of : c \in of[n].all}
  <2>1. AllowedConnections(cfg, filter) = AllLayers(start, of, filter)
    BY DEF AllowedConnections
  <2> HIDE DEF start, of, filter
  <2> QED
    BY <1>1, <1>2, <2>1 DEF AllLayers, Where
<1>4. DOMAIN of = DOMAIN cfg.layers
  OBVIOUS
<1>5. ASSUME NEW n \in DOMAIN cfg.layers, NEW c \in Conns \ HepConns
      PROVE  (c \in of[n].all <=> c \in layer(n).all) /\ (c \in of[n].allowed <=> c \in layer(n).allowed)
  <2>1. of[n] = OwnConns(n, layer(n), filter)
    OBVIOUS
  <2> HIDE DEF filter, of, layer
  <2> QED
    BY <1>1, <2>1 DEF OwnConns, SubBy, AndBy
<1> HIDE DEF start, of, filter
<1>6. ASSUME NEW c \in RealConns \ HepConns
      PROVE  c \in AllowedConnections(cfg, filter).allowed <=> c \in Explicit(cfg)
  <2>1. c \in Conns \ HepConns /\ c \in RealConns
    BY DEF RealConns
  <2>2. \A n \in DOMAIN cfg.layers : c \in layer(n).all <=> LayerAllows(cfg, n, c)
    BY <1>1, LayerIs DEF InLayers
  <2>3. \A dir \in Directions : Own(dir, c) \notin Heps
    <3>1. c \notin Between(Heps, Peers) /\ c \notin Between(Peers, Heps) /\ c.src \in Peers /\ c.dst \in Peers
      BY RealEnds DEF HepConns, Peers
    <3>2. c.src \notin Heps /\ c.dst \notin Heps
      BY <3>1, BetweenIs
    <3> QED
      BY <3>2 DEF Own
  <2>4. ASSUME NEW n \in DOMAIN cfg.layers, c \in layer(n).all
        PROVE  c \in layer(n).allowed <=> \E dir \in Directions : Decision(cfg, n, dir, c) \in {"allow", "pass"}
    <3> DEFINE in == Xgress(n, cfg.layers[n], "ingress", filter)
               out == Xgress(n, cfg.layers[n], "egress", filter)
               inAll == in.all \cup Between(Clusters, {Ip})
               outAll == out.all \cup Between({Ip}, Clusters)
    <3>1. layer(n).all = inAll \cap outAll
      BY <1>1 DEF LayerConns, InAndOut, Where
    <3>2. layer(n).allowed = (in.allowed \cap outAll) \cup (out.allowed \cap inAll)
      BY <1>1 DEF LayerConns, InAndOut, Where
    <3>3. \A dir \in Directions :
            c \in Xgress(n, cfg.layers[n], dir, filter).allowed <=> Decision(cfg, n, dir, c) \in {"allow", "pass"}
      BY <2>3, ExplicitInLayer DEF InLayers
    <3>4. c \in layer(n).allowed <=> c \in in.allowed \/ c \in out.allowed
      <4> HIDE DEF in, out, inAll, outAll, layer
      <4> QED
        BY <2>4, <3>1, <3>2
    <3> HIDE DEF inAll, outAll, layer
    <3> QED
      BY <3>3, <3>4 DEF Directions
  <2>5. \A n : n \in ActiveLayers(cfg) <=> n \in DOMAIN cfg.layers
    BY LayersThere
  <2>6. \A n, dir : dir \in Directions =>
          (Decision(cfg, n, dir, c) \in {"allow"} \cup (IF Own(dir, c) \in Heps THEN {} ELSE {"pass"})
           <=> Decision(cfg, n, dir, c) \in {"allow", "pass"})
    BY <2>3
  <2>7. c \in Explicit(cfg) <=>
          /\ \A n \in DOMAIN cfg.layers : LayerAllows(cfg, n, c)
          /\ \E n \in DOMAIN cfg.layers, dir \in Directions : Decision(cfg, n, dir, c) \in {"allow", "pass"}
    BY <2>1, <2>5, <2>6 DEF Explicit, Meaning, Own
  <2>8. c \in AllowedConnections(cfg, filter).allowed <=>
          /\ \A n \in DOMAIN cfg.layers : c \in of[n].all
          /\ \E n \in DOMAIN cfg.layers : c \in of[n].allowed
    BY <1>3, <1>4, <2>1
  <2> HIDE DEF layer
  <2> QED
    BY <1>5, <2>1, <2>2, <2>4, <2>7, <2>8
<1>7. Explicit(cfg) \subseteq RealConns
  BY DEF Explicit, Meaning
<1> QED
  BY <1>6, <1>7 DEF Allowed, filter

-----------------------------------------------------------------------------
(***************************************************************************)
(* How the layers stay as they are while policies are appended.              *)
(***************************************************************************)
\* Each policy is once in the list of its layer and in no other, for policies of U.
Laid(cfg, U) ==
  /\ cfg.policies \in Seq(U)
  /\ \A i, j \in 1 .. Len(cfg.policies) : Key(cfg.policies[i]) = Key(cfg.policies[j]) => i = j
  /\ DOMAIN cfg.layers = IF cfg.policies = << >> THEN {"K8s_Calico"}
                         ELSE {policy_type_to_layer(p) : p \in ToSet(cfg.policies)}
  /\ \A n \in DOMAIN cfg.layers :
       /\ cfg.layers[n] \in Seq(U) /\ ToSet(cfg.layers[n]) = InLayer(cfg, n)
       /\ \A i, j \in 1 .. Len(cfg.layers[n]) : i < j => cfg.layers[n][i] # cfg.layers[n][j]
\* The lists are sorted, and what comes at the end has come at the end.
InOrder(cfg) ==
  /\ \A i, j \in 1 .. Len(cfg.policies) : i < j /\ AtEnd(cfg.policies[i]) => AtEnd(cfg.policies[j])
  /\ \A n \in DOMAIN cfg.layers : \A i, j \in 1 .. Len(cfg.layers[n]) : i < j =>
       Sooner(cfg, cfg.layers[n][i], cfg.layers[n][j]) \/ SameVoice(cfg.layers[n][i], cfg.layers[n][j])

\* An element more at the end of a list.
LEMMA Appending ==
  ASSUME NEW S, NEW list \in Seq(S), NEW p \in S
  PROVE  /\ Append(list, p) \in Seq(S) /\ Len(Append(list, p)) = Len(list) + 1
         /\ \A i \in 1 .. Len(list) : Append(list, p)[i] = list[i]
         /\ Append(list, p)[Len(list) + 1] = p
         /\ ToSet(Append(list, p)) = ToSet(list) \cup {p}
<1>1. /\ Append(list, p) \in Seq(S) /\ Len(Append(list, p)) = Len(list) + 1
      /\ \A i \in 1 .. Len(list) : Append(list, p)[i] = list[i]
      /\ Append(list, p)[Len(list) + 1] = p /\ Len(list) \in Nat
  OBVIOUS
<1> DEFINE t == Append(list, p)
<1> HIDE DEF t
<1>2. ToSet(t) = ToSet(list) \cup {p}
  <2>1. \A x : x \in ToSet(t) <=> \E i \in 1 .. Len(list) + 1 : t[i] = x
    <3>1. t \in Seq(S) /\ Len(t) = Len(list) + 1
      BY <1>1 DEF t
    <3> QED
      BY <3>1, Members
  <2>2. \A x : x \in ToSet(list) <=> \E i \in 1 .. Len(list) : list[i] = x
    BY Members
  <2>3. \A i \in 1 .. Len(list) + 1 : i \in 1 .. Len(list) \/ i = Len(list) + 1
    BY <1>1
  <2>4. Len(list) + 1 \in 1 .. Len(list) + 1 /\ \A i \in 1 .. Len(list) : i \in 1 .. Len(list) + 1
    BY <1>1
  <2>5. \A i \in 1 .. Len(list) : t[i] = list[i]
    BY <1>1 DEF t
  <2>6. t[Len(list) + 1] = p
    BY <1>1 DEF t
  <2> QED
    BY <2>1, <2>2, <2>3, <2>4, <2>5, <2>6
<1> QED
  BY <1>1, <1>2 DEF t

\* A policy put into a list, whatever the comparison says of it.
LEMMA Sorting ==
  ASSUME NEW S, NEW list \in Seq(S), NEW p \in S
  PROVE  /\ BisectRight(list, p) \in 0 .. Len(list)
         /\ insort(list, p) \in Seq(S) /\ Len(insort(list, p)) = Len(list) + 1
         /\ \A i \in 1 .. Len(list) + 1 :
              insort(list, p)[i] = IF i <= BisectRight(list, p) THEN list[i]
                                   ELSE IF i = BisectRight(list, p) + 1 THEN p ELSE list[i - 1]
         /\ ToSet(insort(list, p)) = ToSet(list) \cup {p}
<1> DEFINE r == BisectRight(list, p)
           t == insort(list, p)
<1>1. r \in 0 .. Len(list) /\ Len(list) \in Nat
  BY BisectRightSplits
<1>2. /\ t \in Seq(S) /\ Len(t) = Len(list) + 1
      /\ \A i \in 1 .. Len(list) + 1 :
           t[i] = IF i <= r THEN list[i] ELSE IF i = r + 1 THEN p ELSE list[i - 1]
  <2>1. t = InsertAt(list, r + 1, p)
    BY DEF insort
  <2>2. \A k \in 0 .. Len(list) :
          /\ InsertAt(list, k + 1, p) \in Seq(S) /\ Len(InsertAt(list, k + 1, p)) = Len(list) + 1
          /\ \A i \in 1 .. Len(list) + 1 :
               InsertAt(list, k + 1, p)[i] = IF i <= k THEN list[i] ELSE IF i = k + 1 THEN p ELSE list[i - 1]
    BY Inserted
  <2> HIDE DEF r, t
  <2> QED
    BY <1>1, <2>1, <2>2
<1>3. ToSet(t) = ToSet(list) \cup {p}
  <2> HIDE DEF t, r
  <2>1. \A x : x \in ToSet(t) <=> \E i \in 1 .. Len(list) + 1 : t[i] = x
    BY <1>2, Members
  <2>2. \A x : x \in ToSet(list) <=> \E i \in 1 .. Len(list) : list[i] = x
    BY Members
  <2>3. ASSUME NEW x \in ToSet(t) PROVE x \in ToSet(list) \cup {p}
    <3>1. PICK i \in 1 .. Len(list) + 1 : t[i] = x
      BY <2>1
    <3>2. CASE i <= r
      <4>1. i \in 1 .. Len(list)
        BY <1>1, <3>2
      <4> QED
        BY <1>2, <2>2, <3>1, <3>2, <4>1
    <3>3. CASE i = r + 1
      BY <1>1, <1>2, <3>1, <3>3
    <3>4. CASE i > r + 1
      <4>1. i - 1 \in 1 .. Len(list) /\ x = list[i - 1]
        BY <1>1, <1>2, <3>1, <3>4
      <4> QED
        BY <2>2, <4>1
    <3> QED
      BY <1>1, <3>2, <3>3, <3>4
  <2>4. ASSUME NEW x \in ToSet(list) PROVE x \in ToSet(t)
    <3>1. PICK i \in 1 .. Len(list) : list[i] = x
      BY <2>2
    <3>2. CASE i <= r
      <4>1. i \in 1 .. Len(list) + 1 /\ t[i] = x
        BY <1>1, <1>2, <3>1, <3>2
      <4> QED
        BY <2>1, <4>1
    <3>3. CASE i > r
      <4>1. i + 1 \in 1 .. Len(list) + 1 /\ (i + 1) - 1 = i /\ i + 1 > r + 1
        BY <1>1, <3>3
      <4>2. t[i + 1] = x
        BY <1>1, <1>2, <3>1, <4>1
      <4> QED
        BY <2>1, <4>1, <4>2
    <3> QED
      BY <1>1, <3>2, <3>3
  <2>5. p \in ToSet(t)
    <3>1. r + 1 \in 1 .. Len(list) + 1 /\ t[r + 1] = p
      BY <1>1, <1>2
    <3> QED
      BY <2>1, <3>1
  <2> QED
    BY <2>3, <2>4, <2>5
<1> QED
  BY <1>1, <1>2, <1>3

\* Lists that are empty.
LEMMA EmptyList ==
  ASSUME NEW S, NEW list \in Seq(S)
  PROVE  (list = << >> <=> ToSet(list) = {}) /\ (list = << >> <=> Len(list) = 0)
<1>1. list = << >> <=> Len(list) = 0
  BY EmptySeq
<1>2. CASE Len(list) = 0
  <2>1. \A x : x \in ToSet(list) <=> \E i \in 1 .. Len(list) : list[i] = x
    BY Members
  <2>2. 1 .. Len(list) = {}
    BY <1>2
  <2>3. \A x : x \notin ToSet(list)
    BY <2>1, <2>2
  <2> QED
    BY <1>1, <1>2, <2>3
<1>3. CASE Len(list) # 0
  <2>1. 1 \in 1 .. Len(list)
    BY <1>3, Members
  <2>2. list[1] \in ToSet(list)
    BY <2>1, Members
  <2> QED
    BY <1>1, <1>3, <2>2
<1> QED
  BY <1>2, <1>3

\* What append_policy makes of a configuration, for a policy that is not there: the
\* default layer goes exactly when it has no policy.
LEMMA AppendedLayers ==
  ASSUME NEW U, NEW cfg, Laid(cfg, U), NEW p \in U,
         Key(p) \notin {Key(q) : q \in ToSet(cfg.policies)}
  PROVE  LET new == AppendPolicy(cfg, p)
             name == policy_type_to_layer(p)
         IN  /\ new.policies = Append(cfg.policies, p)
             /\ DOMAIN new.layers = {policy_type_to_layer(q) : q \in ToSet(cfg.policies)} \cup {name}
             /\ \A n \in DOMAIN new.layers \ {name} :
                  n \in DOMAIN cfg.layers /\ new.layers[n] = cfg.layers[n]
             /\ name \in DOMAIN cfg.layers => new.layers[name] = insort(cfg.layers[name], p)
             /\ name \notin DOMAIN cfg.layers => new.layers[name] = <<p>>
<1> DEFINE name == policy_type_to_layer(p)
           D == DOMAIN cfg.layers
           there == {policy_type_to_layer(q) : q \in ToSet(cfg.policies)}
           added == [n \in D \cup {name} |->
                       IF n \notin D THEN <<p>>
                       ELSE IF n = name THEN insort(cfg.layers[n], p) ELSE cfg.layers[n]]
           kept == {n \in DOMAIN added : n # "K8s_Calico" \/ added[n] # << >>}
           layers == AddPolicy(cfg.layers, p)
<1>1. /\ AppendPolicy(cfg, p).policies = Append(cfg.policies, p)
      /\ AppendPolicy(cfg, p).layers = layers
  BY DEF AppendPolicy
<1>2. layers = [n \in kept |-> added[n]]
  BY DEF AddPolicy
<1>3. /\ DOMAIN added = D \cup {name}
      /\ \A n \in (D \cup {name}) \ {name} : n \in D /\ added[n] = cfg.layers[n]
      /\ name \in D => added[name] = insort(cfg.layers[name], p)
      /\ name \notin D => added[name] = <<p>>
  BY Zenon
<1>4. added[name] # << >>
  <2>1. CASE name \in D
    <3> DEFINE list == cfg.layers[name]
               t == insort(list, p)
    <3>1. list \in Seq(U)
      BY <2>1 DEF Laid
    <3> HIDE DEF list
    <3>2. t \in Seq(U) /\ Len(t) = Len(list) + 1 /\ Len(list) \in Nat
      BY <3>1, Sorting
    <3> HIDE DEF t
    <3>3. t # << >>
      BY <3>2, EmptyList
    <3> QED
      BY <1>3, <2>1, <3>3 DEF t, list
  <2>2. CASE name \notin D
    BY <1>3, <2>2
  <2> QED
    BY <2>1, <2>2
<1>5. \A n \in D : cfg.layers[n] = << >> <=> InLayer(cfg, n) = {}
  BY EmptyList DEF Laid
<1>6. D = IF cfg.policies = << >> THEN {"K8s_Calico"} ELSE there
  BY DEF Laid
<1>7. cfg.policies = << >> <=> ToSet(cfg.policies) = {}
  BY EmptyList DEF Laid
<1>8. \A n : n \in there <=> InLayer(cfg, n) # {}
  BY DEF InLayer
<1> HIDE DEF D, there, added
<1>9. kept = there \cup {name}
  <2>1. CASE cfg.policies = << >>
    <3>1. there = {}
      BY <1>7, <2>1 DEF there
    <3>2. D = {"K8s_Calico"} /\ cfg.layers["K8s_Calico"] = << >>
      BY <1>5, <1>6, <1>8, <2>1, <3>1
    <3> HIDE DEF name
    <3> QED
      BY <1>3, <1>4, <3>1, <3>2
  <2>2. CASE cfg.policies # << >>
    <3>1. D = there
      BY <1>6, <2>2
    <3>2. \A n \in D : cfg.layers[n] # << >>
      BY <1>5, <1>8, <3>1
    <3> HIDE DEF name
    <3> QED
      BY <1>3, <1>4, <3>1, <3>2
  <2> QED
    BY <2>1, <2>2
<1>10. kept \subseteq D \cup {name}
  BY <1>3
<1> HIDE DEF kept, layers, name
<1>11. DOMAIN layers = kept /\ \A n \in kept : layers[n] = added[n]
  BY <1>2
<1>12. name \in kept
  BY <1>9
<1>13. \A n \in kept \ {name} : n \in D /\ layers[n] = cfg.layers[n]
  BY <1>3, <1>10, <1>11
<1> QED
  BY <1>1, <1>3, <1>9, <1>11, <1>12, <1>13 DEF there, D, name

\* Appending keeps each policy once in its layer.
LEMMA AppendLaid ==
  ASSUME NEW U, NEW cfg, Laid(cfg, U), NEW p \in U
  PROVE  Laid(AppendPolicy(cfg, p), U)
<1>1. CASE Key(p) \in {Key(q) : q \in ToSet(cfg.policies)}
  BY <1>1 DEF AppendPolicy
<1>2. CASE Key(p) \notin {Key(q) : q \in ToSet(cfg.policies)}
  <2> DEFINE new == AppendPolicy(cfg, p)
             name == policy_type_to_layer(p)
             old == cfg.policies
  <2>1. /\ new.policies = Append(old, p)
        /\ DOMAIN new.layers = {policy_type_to_layer(q) : q \in ToSet(old)} \cup {name}
        /\ \A n \in DOMAIN new.layers \ {name} :
             n \in DOMAIN cfg.layers /\ new.layers[n] = cfg.layers[n]
        /\ name \in DOMAIN cfg.layers => new.layers[name] = insort(cfg.layers[name], p)
        /\ name \notin DOMAIN cfg.layers => new.layers[name] = <<p>>
    BY <1>2, AppendedLayers
  <2> HIDE DEF new
  <2>2. /\ old \in Seq(U) /\ Len(old) \in Nat
        /\ new.policies \in Seq(U) /\ Len(new.policies) = Len(old) + 1
        /\ \A i \in 1 .. Len(old) : new.policies[i] = old[i] /\ old[i] \in ToSet(old)
        /\ new.policies[Len(old) + 1] = p
        /\ ToSet(new.policies) = ToSet(old) \cup {p}
    <3>1. old \in Seq(U)
      BY DEF Laid
    <3>2. \A i \in 1 .. Len(old) : old[i] \in ToSet(old)
      BY <3>1, Members
    <3> QED
      BY <2>1, <3>1, <3>2, Appending
  <2>3. \A i \in 1 .. Len(old) + 1 : i \in 1 .. Len(old) \/ i = Len(old) + 1
    BY <2>2
  <2>4. ASSUME NEW i \in 1 .. Len(new.policies), NEW j \in 1 .. Len(new.policies),
               Key(new.policies[i]) = Key(new.policies[j])
        PROVE  i = j
    <3>1. \A a, b \in 1 .. Len(old) : Key(old[a]) = Key(old[b]) => a = b
      BY DEF Laid
    <3>2. \A a \in 1 .. Len(old) : Key(old[a]) # Key(p)
      BY <1>2, <2>2
    <3> HIDE DEF old
    <3> QED
      BY <2>2, <2>3, <2>4, <3>1, <3>2
  <2>5. p \notin ToSet(old)
    BY <1>2
  <2>6. \A n : InLayer(new, n) = IF n = name THEN InLayer(cfg, n) \cup {p} ELSE InLayer(cfg, n)
    BY <2>2 DEF InLayer
  <2>7. DOMAIN new.layers = IF new.policies = << >> THEN {"K8s_Calico"}
                            ELSE {policy_type_to_layer(q) : q \in ToSet(new.policies)}
    <3>1. new.policies # << >>
      BY <2>2, EmptyList
    <3>2. {policy_type_to_layer(q) : q \in ToSet(new.policies)}
          = {policy_type_to_layer(q) : q \in ToSet(old)} \cup {name}
      BY <2>2
    <3> QED
      BY <2>1, <3>1, <3>2
  <2> DEFINE Good(list, S) ==
               /\ list \in Seq(U) /\ ToSet(list) = S
               /\ \A i, j \in 1 .. Len(list) : i < j => list[i] # list[j]
  <2>8. \A n \in DOMAIN cfg.layers : Good(cfg.layers[n], InLayer(cfg, n))
    BY DEF Laid
  <2>9. Good(new.layers[name], InLayer(new, name))
    <3>1. CASE name \in DOMAIN cfg.layers
      <4> DEFINE list == cfg.layers[name]
                 r == BisectRight(list, p)
                 t == insort(list, p)
      <4>1. Good(list, InLayer(cfg, name)) /\ Len(list) \in Nat
        BY <2>8, <3>1, Members
      <4> HIDE DEF list
      <4>2. /\ r \in 0 .. Len(list) /\ t \in Seq(U) /\ Len(t) = Len(list) + 1
            /\ \A i \in 1 .. Len(list) + 1 :
                 t[i] = IF i <= r THEN list[i] ELSE IF i = r + 1 THEN p ELSE list[i - 1]
            /\ ToSet(t) = ToSet(list) \cup {p}
        <5>1. list \in Seq(U)
          BY <4>1
        <5>2. /\ r \in 0 .. Len(list) /\ t \in Seq(U) /\ Len(t) = Len(list) + 1
              /\ ToSet(t) = ToSet(list) \cup {p}
          BY <5>1, Sorting
        <5>3. \A i \in 1 .. Len(list) + 1 :
                t[i] = IF i <= r THEN list[i] ELSE IF i = r + 1 THEN p ELSE list[i - 1]
          BY <5>1, Sorting, SMTT(30)
        <5> QED
          BY <5>2, <5>3
      <4>3. \A i \in 1 .. Len(list) : list[i] # p
        BY <2>5, <4>1, Members DEF InLayer
      <4> HIDE DEF list, r, t
      <4>4. ASSUME NEW i \in 1 .. Len(t), NEW j \in 1 .. Len(t), i < j PROVE t[i] # t[j]
        <5> DEFINE at(k) == IF k <= r THEN k ELSE k - 1
        <5>1. \A k \in 1 .. Len(t) : k # r + 1 => at(k) \in 1 .. Len(list) /\ t[k] = list[at(k)]
          BY <4>1, <4>2
        <5>2. t[r + 1] = p
          BY <4>1, <4>2
        <5>3. CASE i # r + 1 /\ j # r + 1
          <6>1. at(i) < at(j)
            BY <4>1, <4>2, <4>4, <5>3
          <6> HIDE DEF at
          <6> QED
            BY <4>1, <5>1, <5>3, <6>1
        <5> HIDE DEF at
        <5> QED
          BY <4>1, <4>2, <4>3, <4>4, <5>1, <5>2, <5>3
      <4>5. t = new.layers[name] /\ InLayer(new, name) = InLayer(cfg, name) \cup {p}
        BY <2>1, <2>6, <3>1 DEF t, list
      <4> HIDE DEF name
      <4> QED
        BY <4>1, <4>2, <4>4, <4>5
    <3>2. CASE name \notin DOMAIN cfg.layers
      <4>1. InLayer(cfg, name) = {}
        <5>1. CASE old = << >>
          <6>1. ToSet(old) = {}
            BY <2>2, <5>1, EmptyList
          <6> QED
            BY <6>1 DEF InLayer
        <5>2. CASE old # << >>
          BY <3>2, <5>2 DEF Laid, InLayer
        <5> QED
          BY <5>1, <5>2
      <4>2. InLayer(new, name) = {p}
        BY <2>6, <4>1
      <4>3. <<p>> \in Seq(U) /\ Len(<<p>>) = 1 /\ <<p>>[1] = p
        OBVIOUS
      <4> DEFINE t == <<p>>
      <4>4. t \in Seq(U) /\ Len(t) = 1 /\ t[1] = p
        BY <4>3
      <4> HIDE DEF t
      <4>5. ToSet(t) = {p}
        BY <4>4, Members
      <4>6. Good(t, InLayer(new, name))
        BY <4>2, <4>4, <4>5
      <4>7. new.layers[name] = t
        BY <2>1, <3>2 DEF t
      <4> HIDE DEF Good
      <4> QED
        BY <4>6, <4>7
    <3> QED
      BY <3>1, <3>2
  <2>10. ASSUME NEW n \in DOMAIN new.layers PROVE Good(new.layers[n], InLayer(new, n))
    <3> HIDE DEF Good, name
    <3> QED
      BY <2>1, <2>6, <2>8, <2>9
  <2>11. Laid(new, U)
    BY <2>2, <2>4, <2>7, <2>10 DEF Laid
  <2> QED
    BY <2>11 DEF new
<1> QED
  BY <1>1, <1>2

\* The policies of one layer.
LEMMA LayerKinds ==
  ASSUME NEW p \in Policies, NEW q \in Policies, policy_type_to_layer(p) = policy_type_to_layer(q)
  PROVE  \/ p.kind \in {"k8s", "calico"} /\ q.kind \in {"k8s", "calico"}
         \/ p.kind \in {"authz", "sidecar"} /\ q.kind \in {"authz", "sidecar"}
         \/ p.kind = "ingress" /\ q.kind = "ingress"
         \/ p.kind = "gateway" /\ q.kind = "gateway"
<1>1. p.kind \in Kinds /\ q.kind \in Kinds
  BY PolicyFields
<1>2. \A x \in {p, q} :
        /\ x.kind \in {"k8s", "calico"} => policy_type_to_layer(x) = "K8s_Calico"
        /\ x.kind \in {"authz", "sidecar"} => policy_type_to_layer(x) = "Istio"
        /\ x.kind = "ingress" => policy_type_to_layer(x) = "K8sGateway"
        /\ x.kind = "gateway" => policy_type_to_layer(x) = "IstioGateway"
  BY DEF policy_type_to_layer
<1> QED
  BY <1>1, <1>2 DEF Kinds

\* Once p goes before a policy of its layer it goes before those that are evaluated
\* after it, and where bisect_right puts p it is evaluated after those before it and
\* before those after it.
LEMMA LessFits ==
  ASSUME NEW p \in Policies, NEW a \in Policies, policy_type_to_layer(a) = policy_type_to_layer(p),
         ~AtEnd(p) => ~AtEnd(a)
  PROVE  /\ \A cfg : Less(p, a) => Sooner(cfg, p, a) \/ SameVoice(p, a)
         /\ \A cfg : ~Less(p, a) /\ Arrival(cfg, a) < Arrival(cfg, p) => Sooner(cfg, a, p) \/ SameVoice(a, p)
<1>1. /\ p.order \in Nat \cup {NoOrder} /\ a.order \in Nat \cup {NoOrder}
      /\ p.action \in {"allow", "deny"} /\ a.action \in {"allow", "deny"}
      /\ p.kind \in {"authz", "sidecar", "ingress", "gateway"} => p.order = NoOrder
      /\ a.kind \in {"authz", "sidecar", "ingress", "gateway"} => a.order = NoOrder
  BY PolicyFields
<1>2. p.kind = "authz" => a.kind = "authz"
  BY LayerKinds DEF AtEnd
<1>3. CASE p.kind = "authz"
  <2>1. a.kind = "authz"
    BY <1>2, <1>3
  <2> QED
    BY <1>1, <1>3, <2>1 DEF Less, Sooner, SameVoice
<1>4. CASE p.kind # "authz"
  <2>1. Less(p, a) <=> p.order # NoOrder /\ (a.order = NoOrder \/ p.order < a.order)
    BY <1>4 DEF Less
  <2>2. \A cfg : /\ Sooner(cfg, p, a) <=>
                      IF p.order # a.order THEN p.order # NoOrder /\ (a.order = NoOrder \/ p.order < a.order)
                      ELSE Arrival(cfg, p) < Arrival(cfg, a)
                 /\ Sooner(cfg, a, p) <=>
                      IF a.order # p.order THEN a.order # NoOrder /\ (p.order = NoOrder \/ a.order < p.order)
                      ELSE Arrival(cfg, a) < Arrival(cfg, p)
    BY <1>4 DEF Sooner
  <2> QED
    BY <1>1, <2>1, <2>2 DEF NoOrder
<1> QED
  BY <1>3, <1>4

\* The comparison is monotone along a sorted list.
LEMMA LessUpwards ==
  ASSUME NEW p \in Policies, NEW a \in Policies, NEW b \in Policies,
         policy_type_to_layer(a) = policy_type_to_layer(p), policy_type_to_layer(b) = policy_type_to_layer(p),
         ~AtEnd(p) => ~AtEnd(a) /\ ~AtEnd(b),
         NEW cfg, Sooner(cfg, a, b) \/ SameVoice(a, b), Less(p, a)
  PROVE  Less(p, b)
<1>1. /\ p.order \in Nat \cup {NoOrder} /\ a.order \in Nat \cup {NoOrder} /\ b.order \in Nat \cup {NoOrder}
      /\ p.kind \in {"authz", "sidecar", "ingress", "gateway"} => p.order = NoOrder
      /\ a.kind \in {"authz", "sidecar", "ingress", "gateway"} => a.order = NoOrder
      /\ b.kind \in {"authz", "sidecar", "ingress", "gateway"} => b.order = NoOrder
  BY PolicyFields
<1>2. p.kind = "authz" => a.kind = "authz" /\ b.kind = "authz"
  BY LayerKinds DEF AtEnd
<1>3. CASE p.kind = "authz"
  BY <1>2, <1>3 DEF Less
<1>4. CASE p.kind # "authz"
  <2>1. p.order # NoOrder /\ (a.order = NoOrder \/ p.order < a.order)
    BY <1>4 DEF Less
  <2>2. a.kind \in {"k8s", "calico"} /\ b.kind \in {"k8s", "calico"}
    BY <1>1, <2>1, LayerKinds
  <2>3. a.order # b.order => a.order # NoOrder /\ (b.order = NoOrder \/ a.order < b.order)
    BY <2>2 DEF Sooner, SameVoice
  <2>4. Less(p, b) <=> p.order # NoOrder /\ (b.order = NoOrder \/ p.order < b.order)
    BY <1>4 DEF Less
  <2> QED
    BY <1>1, <2>1, <2>3, <2>4 DEF NoOrder
<1> QED
  BY <1>3, <1>4

\* Appending keeps the order of arrival of what is there.
LEMMA ArrivalKept ==
  ASSUME NEW cfg, Laid(cfg, Policies), NEW p \in Policies,
         Key(p) \notin {Key(q) : q \in ToSet(cfg.policies)}
  PROVE  /\ \A q \in ToSet(cfg.policies) :
              /\ Arrival(AppendPolicy(cfg, p), q) = Arrival(cfg, q)
              /\ Arrival(cfg, q) < Arrival(AppendPolicy(cfg, p), p)
<1> DEFINE new == AppendPolicy(cfg, p)
           old == cfg.policies
<1>1. new.policies = Append(old, p)
  BY AppendedLayers
<1>2. Laid(new, Policies)
  BY AppendLaid
<1> HIDE DEF new
<1>3. /\ old \in Seq(Policies) /\ Len(old) \in Nat
      /\ new.policies \in Seq(Policies) /\ Len(new.policies) = Len(old) + 1
      /\ \A i \in 1 .. Len(old) : new.policies[i] = old[i]
      /\ new.policies[Len(old) + 1] = p
      /\ ToSet(new.policies) = ToSet(old) \cup {p}
  <2>1. old \in Seq(Policies) /\ Len(old) \in Nat
    BY DEF Laid
  <2> QED
    BY <1>1, <2>1, Appending
<1>4. ASSUME NEW q, NEW i \in 1 .. Len(old) + 1, new.policies[i] = q
      PROVE  Arrival(new, q) = i
  <2>1. q \in ToSet(new.policies)
    BY <1>3, <1>4, Members
  <2>2. Arrival(new, q) \in 1 .. Len(old) + 1 /\ new.policies[Arrival(new, q)] = q
    BY <1>3, <2>1, ArrivalIs
  <2> QED
    BY <1>2, <1>3, <1>4, <2>2 DEF Laid
<1>5. Arrival(new, p) = Len(old) + 1
  BY <1>3, <1>4
<1>6. ASSUME NEW q \in ToSet(old) PROVE Arrival(new, q) = Arrival(cfg, q) /\ Arrival(cfg, q) < Arrival(new, p)
  <2>1. Arrival(cfg, q) \in 1 .. Len(old) /\ old[Arrival(cfg, q)] = q
    BY <1>3, ArrivalIs
  <2>2. Arrival(cfg, q) \in 1 .. Len(old) + 1 /\ new.policies[Arrival(cfg, q)] = q /\ Arrival(cfg, q) < Len(old) + 1
    BY <1>3, <2>1
  <2> QED
    BY <1>4, <1>5, <2>2
<1> QED
  BY <1>6 DEF new

\* Appending keeps the lists sorted, when what comes at the end comes after the rest.
LEMMA AppendInOrder ==
  ASSUME NEW cfg, Laid(cfg, Policies), InOrder(cfg), NEW p \in Policies,
         ~AtEnd(p) => \A q \in ToSet(cfg.policies) : ~AtEnd(q)
  PROVE  InOrder(AppendPolicy(cfg, p))
<1>1. CASE Key(p) \in {Key(q) : q \in ToSet(cfg.policies)}
  BY <1>1 DEF AppendPolicy
<1>2. CASE Key(p) \notin {Key(q) : q \in ToSet(cfg.policies)}
  <2> DEFINE new == AppendPolicy(cfg, p)
             name == policy_type_to_layer(p)
             old == cfg.policies
  <2>1. /\ new.policies = Append(old, p)
        /\ DOMAIN new.layers = {policy_type_to_layer(q) : q \in ToSet(old)} \cup {name}
        /\ \A n \in DOMAIN new.layers \ {name} :
             n \in DOMAIN cfg.layers /\ new.layers[n] = cfg.layers[n]
        /\ name \in DOMAIN cfg.layers => new.layers[name] = insort(cfg.layers[name], p)
        /\ name \notin DOMAIN cfg.layers => new.layers[name] = <<p>>
    BY <1>2, AppendedLayers
  <2>2. \A q \in ToSet(old) : Arrival(new, q) = Arrival(cfg, q) /\ Arrival(cfg, q) < Arrival(new, p)
    BY <1>2, ArrivalKept
  <2> HIDE DEF new
  <2>3. /\ old \in Seq(Policies) /\ Len(old) \in Nat
        /\ Len(new.policies) = Len(old) + 1
        /\ \A i \in 1 .. Len(old) : new.policies[i] = old[i] /\ old[i] \in ToSet(old)
        /\ new.policies[Len(old) + 1] = p
    <3>1. old \in Seq(Policies) /\ Len(old) \in Nat
      BY DEF Laid
    <3>2. \A i \in 1 .. Len(old) : old[i] \in ToSet(old)
      BY <3>1, Members
    <3> QED
      BY <2>1, <3>1, <3>2, Appending
  <2>4. ASSUME NEW i \in 1 .. Len(new.policies), NEW j \in 1 .. Len(new.policies), i < j,
               AtEnd(new.policies[i])
        PROVE  AtEnd(new.policies[j])
    <3>1. \A a, b \in 1 .. Len(old) : a < b /\ AtEnd(old[a]) => AtEnd(old[b])
      BY DEF InOrder
    <3>2. i \in 1 .. Len(old) /\ (j \in 1 .. Len(old) \/ j = Len(old) + 1)
      BY <2>3, <2>4
    <3> HIDE DEF old
    <3> QED
      BY <2>3, <2>4, <3>1, <3>2 DEF old
  <2>5. \A a, b \in ToSet(old) : Sooner(cfg, a, b) => Sooner(new, a, b)
    BY <2>2 DEF Sooner
  <2> DEFINE Fits(c, a, b) == Sooner(c, a, b) \/ SameVoice(a, b)
             Good(c, list) == \A i, j \in 1 .. Len(list) : i < j => Fits(c, list[i], list[j])
  <2>6. \A n \in DOMAIN cfg.layers :
          /\ cfg.layers[n] \in Seq(Policies) /\ Len(cfg.layers[n]) \in Nat
          /\ \A i \in 1 .. Len(cfg.layers[n]) : cfg.layers[n][i] \in InLayer(cfg, n)
    BY Members DEF Laid
  <2>7. \A n : InLayer(cfg, n) \subseteq ToSet(old) \cap Policies
    <3>1. ToSet(old) \subseteq Policies
      BY <2>3, Members
    <3> QED
      BY <3>1 DEF InLayer
  <2>8. \A n \in DOMAIN cfg.layers : Good(cfg, cfg.layers[n])
    BY DEF InOrder
  <2>9. \A n \in DOMAIN cfg.layers : Good(new, cfg.layers[n])
    BY <2>5, <2>6, <2>7, <2>8
  <2>10. Good(new, new.layers[name])
    <3>1. CASE name \in DOMAIN cfg.layers
      <4> DEFINE list == cfg.layers[name]
                 r == BisectRight(list, p)
                 t == insort(list, p)
      <4>1. /\ list \in Seq(Policies) /\ Len(list) \in Nat /\ Good(cfg, list) /\ Good(new, list)
            /\ \A i \in 1 .. Len(list) : list[i] \in InLayer(cfg, name)
        BY <2>6, <2>8, <2>9, <3>1
      <4> HIDE DEF list
      <4>2. r \in 0 .. Len(list) /\ Len(t) = Len(list) + 1
        BY <4>1, Sorting
      <4>3. \A i \in 1 .. Len(list) + 1 :
              t[i] = IF i <= r THEN list[i] ELSE IF i = r + 1 THEN p ELSE list[i - 1]
        BY <4>1, Sorting, SMTT(30)
      <4>4. \A a \in InLayer(cfg, name) :
              /\ a \in Policies /\ a \in ToSet(old) /\ policy_type_to_layer(a) = name
              /\ ~AtEnd(p) => ~AtEnd(a)
        BY <2>7 DEF InLayer
      <4>5. \A a \in InLayer(cfg, name) :
              /\ Less(p, a) => Fits(new, p, a)
              /\ ~Less(p, a) => Fits(new, a, p)
        <5>1. \A a \in InLayer(cfg, name) : Arrival(new, a) < Arrival(new, p)
          BY <2>2, <4>4
        <5> HIDE DEF old
        <5> QED
          BY <4>4, <5>1, LessFits
      <4>6. \A i, j \in 1 .. Len(list) : i < j /\ Less(p, list[i]) => Less(p, list[j])
        <5> SUFFICES ASSUME NEW i \in 1 .. Len(list), NEW j \in 1 .. Len(list), i < j, Less(p, list[i])
                     PROVE  Less(p, list[j])
          OBVIOUS
        <5>1. Sooner(cfg, list[i], list[j]) \/ SameVoice(list[i], list[j])
          BY <4>1
        <5> DEFINE a == list[i]
                   b == list[j]
        <5>2. a \in InLayer(cfg, name) /\ b \in InLayer(cfg, name)
          BY <4>1
        <5> HIDE DEF a, b, old
        <5>3. Less(p, a) /\ (Sooner(cfg, a, b) \/ SameVoice(a, b))
          BY <5>1 DEF a, b
        <5>4. Less(p, b)
          BY <4>4, <5>2, <5>3, LessUpwards
        <5> QED
          BY <5>4 DEF b
      <4>7. /\ \A i \in 1 .. r : ~Less(p, list[i])
            /\ \A i \in r + 1 .. Len(list) : Less(p, list[i])
        BY <4>1, <4>6, BisectRightSplits
      <4> HIDE DEF r, t
      <4>8. ASSUME NEW i \in 1 .. Len(t), NEW j \in 1 .. Len(t), i < j PROVE Fits(new, t[i], t[j])
        <5> DEFINE at(k) == IF k <= r THEN k ELSE k - 1
        <5>1. \A k \in 1 .. Len(t) : k # r + 1 => at(k) \in 1 .. Len(list) /\ t[k] = list[at(k)]
          BY <4>1, <4>2, <4>3
        <5>2. t[r + 1] = p
          BY <4>1, <4>2, <4>3
        <5>3. CASE i # r + 1 /\ j # r + 1
          <6>1. at(i) < at(j)
            BY <4>1, <4>2, <4>8, <5>3
          <6> HIDE DEF at, Fits
          <6> QED
            BY <4>1, <5>1, <5>3, <6>1
        <5>4. CASE i = r + 1
          <6>1. j - 1 \in r + 1 .. Len(list) /\ t[j] = list[j - 1] /\ j - 1 \in 1 .. Len(list)
            BY <4>1, <4>2, <4>3, <4>8, <5>4
          <6> HIDE DEF Fits
          <6> QED
            BY <4>1, <4>5, <4>7, <5>2, <5>4, <6>1
        <5>5. CASE j = r + 1
          <6>1. i \in 1 .. r /\ t[i] = list[i] /\ i \in 1 .. Len(list)
            BY <4>1, <4>2, <4>3, <4>8, <5>5
          <6> HIDE DEF Fits
          <6> QED
            BY <4>1, <4>5, <4>7, <5>2, <5>5, <6>1
        <5> QED
          BY <5>3, <5>4, <5>5
      <4>9. new.layers[name] = t
        BY <2>1, <3>1 DEF t, list
      <4> HIDE DEF Fits, name
      <4> QED
        BY <4>8, <4>9
    <3>2. CASE name \notin DOMAIN cfg.layers
      <4>1. new.layers[name] = <<p>> /\ Len(<<p>>) = 1
        BY <2>1, <3>2
      <4> HIDE DEF Fits, name
      <4> QED
        BY <4>1
    <3> QED
      BY <3>1, <3>2
  <2>11. ASSUME NEW n \in DOMAIN new.layers PROVE Good(new, new.layers[n])
    <3> HIDE DEF Good, name
    <3> QED
      BY <2>1, <2>9, <2>10
  <2>12. InOrder(new)
    BY <2>4, <2>11 DEF InOrder
  <2> QED
    BY <2>12 DEF new
<1> QED
  BY <1>1, <1>2

\* A configuration without policies has the default layer, empty.
LEMMA NothingLaid ==
  ASSUME NEW U
  PROVE  Laid(NoPolicies, U) /\ InOrder(NoPolicies)
<1> DEFINE none == << >>
<1>1. none \in Seq(U) /\ Len(none) = 0 /\ 1 .. Len(none) = {}
  OBVIOUS
<1>2. NoPolicies.policies = none /\ DOMAIN NoPolicies.layers = {"K8s_Calico"} /\ NoPolicies.layers["K8s_Calico"] = none
  BY DEF NoPolicies
<1>3. none = << >>
  OBVIOUS
<1> HIDE DEF none
<1>4. ToSet(none) = {}
  BY <1>1, Members
<1>5. \A n : InLayer(NoPolicies, n) = {}
  BY <1>2, <1>4 DEF InLayer
<1> QED
  BY <1>1, <1>2, <1>3, <1>4, <1>5 DEF Laid, InOrder

\* f tells the configurations that the loop of clone_without_policy goes through.
Cloning(f, list, excluded, U) ==
  /\ f[0] = NoPolicies /\ Clone(list, excluded) = f[Len(list)]
  /\ \A n \in 1 .. Len(list) :
       f[n] = IF Key(list[n]) \in excluded THEN f[n - 1] ELSE AppendPolicy(f[n - 1], list[n])
  /\ \A n \in 0 .. Len(list) : Laid(f[n], U)

\* The configurations of the loop have each of their policies once in its layer.
LEMMA CloneSteps ==
  ASSUME NEW U, NEW list \in Seq(U), NEW excluded
  PROVE  \E f : Cloning(f, list, excluded, U)
<1> DEFINE N == Len(list)
           Names == {policy_type_to_layer(q) : q \in U} \cup {"K8s_Calico"}
           V == {x \in [policies : Seq(U), layers : UNION {[S -> Seq(U)] : S \in SUBSET Names}] : Laid(x, U)}
           Turn(x, p) == IF Key(p) \in excluded THEN x ELSE AppendPolicy(x, p)
           clone == CHOOSE f : f = [n \in 0 .. N |->
                                      IF n = 0 THEN NoPolicies
                                      ELSE IF Key(list[n]) \in excluded THEN f[n - 1]
                                      ELSE AppendPolicy(f[n - 1], list[n])]
           T == {n \in 0 .. N : clone[n] \in V}
<1>1. N \in Nat /\ \A n \in 1 .. N : list[n] \in U
  OBVIOUS
<1>2. NoPolicies \in V
  <2>1. NoPolicies = [policies |-> << >>, layers |-> [n \in {"K8s_Calico"} |-> << >>]] /\ << >> \in Seq(U)
    BY DEF NoPolicies
  <2>2. [n \in {"K8s_Calico"} |-> << >>] \in [{"K8s_Calico"} -> Seq(U)] /\ {"K8s_Calico"} \in SUBSET Names
    OBVIOUS
  <2>3. [n \in {"K8s_Calico"} |-> << >>] \in UNION {[S -> Seq(U)] : S \in SUBSET Names}
    BY <2>2
  <2> QED
    BY <2>1, <2>3, NothingLaid
<1>3. ASSUME NEW x \in V, NEW p \in U PROVE AppendPolicy(x, p) \in V
  <2>1. CASE Key(p) \in {Key(q) : q \in ToSet(x.policies)}
    BY <2>1 DEF AppendPolicy
  <2>2. CASE Key(p) \notin {Key(q) : q \in ToSet(x.policies)}
    <3> DEFINE new == AppendPolicy(x, p)
    <3>1. Laid(x, U) /\ Laid(new, U)
      BY AppendLaid
    <3>2. DOMAIN new.layers = {policy_type_to_layer(q) : q \in ToSet(x.policies)} \cup {policy_type_to_layer(p)}
      BY <2>2, <3>1, AppendedLayers
    <3>3. new = [policies |-> new.policies, layers |-> new.layers]
      BY <2>2 DEF AppendPolicy
    <3>4. new.layers = [n \in DOMAIN new.layers |-> new.layers[n]]
      <4>1. new.layers = AddPolicy(x.layers, p)
        BY <2>2 DEF AppendPolicy
      <4> HIDE DEF new
      <4> QED
        BY <4>1 DEF AddPolicy
    <3>5. ToSet(x.policies) \subseteq U
      BY <3>1, Members DEF Laid
    <3> HIDE DEF new
    <3>6. DOMAIN new.layers \in SUBSET Names
      BY <3>2, <3>5
    <3>7. new.policies \in Seq(U) /\ \A n \in DOMAIN new.layers : new.layers[n] \in Seq(U)
      BY <3>1 DEF Laid
    <3>8. new.layers \in [DOMAIN new.layers -> Seq(U)]
      BY <3>4, <3>7
    <3> HIDE DEF Names
    <3>9. new.layers \in UNION {[S -> Seq(U)] : S \in SUBSET Names}
      BY <3>6, <3>8
    <3>10. new \in V
      BY <3>1, <3>3, <3>7, <3>9
    <3> QED
      BY <3>10 DEF new
  <2> QED
    BY <2>1, <2>2
<1> HIDE DEF V
<1>4. \E f : f = [n \in 0 .. N |-> IF n = 0 THEN NoPolicies
                                   ELSE IF Key(list[n]) \in excluded THEN f[n - 1]
                                   ELSE AppendPolicy(f[n - 1], list[n])]
  <2> DEFINE G == [z \in (1 .. N) \X V |-> Turn(z[2], list[z[1]])]
  <2>1. G \in [(1 .. N) \X V -> V]
    <3> HIDE DEF N
    <3> QED
      BY <1>1, <1>3
  <2> HIDE DEF G
  <2>2. PICK f : Iterates(f, N, V, NoPolicies, G)
    BY <1>1, <1>2, <2>1, IterationExists
  <2>3. ASSUME NEW n \in 0 .. N, n # 0
        PROVE  f[n] = IF Key(list[n]) \in excluded THEN f[n - 1] ELSE AppendPolicy(f[n - 1], list[n])
    <3>1. n \in 1 .. N /\ n - 1 \in 0 .. N
      BY <1>1, <2>3
    <3>2. f[n - 1] \in V
      BY <2>2, <3>1 DEF Iterates
    <3> QED
      BY <2>2, <3>1, <3>2 DEF G, Iterates
  <2>4. f = [n \in 0 .. N |-> IF n = 0 THEN NoPolicies
                              ELSE IF Key(list[n]) \in excluded THEN f[n - 1]
                              ELSE AppendPolicy(f[n - 1], list[n])]
    BY <2>2, <2>3 DEF Iterates
  <2> QED
    BY <2>4
<1>5. clone = [n \in 0 .. N |-> IF n = 0 THEN NoPolicies
                                ELSE IF Key(list[n]) \in excluded THEN clone[n - 1]
                                ELSE AppendPolicy(clone[n - 1], list[n])]
  BY <1>4
<1>6. Clone(list, excluded) = clone[N]
  BY DEF Clone
<1> HIDE DEF clone
<1>7. 0 \in T
  <2>1. clone[0] = NoPolicies
    BY <1>1, <1>5
  <2> QED
    BY <1>1, <1>2, <2>1
<1>8. ASSUME NEW n \in 1 .. N, n - 1 \in T PROVE n \in T
  <2>1. n \in 0 .. N /\ n # 0 /\ list[n] \in U
    BY <1>1
  <2>2. clone[n] = IF Key(list[n]) \in excluded THEN clone[n - 1] ELSE AppendPolicy(clone[n - 1], list[n])
    <3> HIDE DEF N
    <3> QED
      BY <1>5, <2>1
  <2>3. clone[n - 1] \in V
    BY <1>8
  <2>4. clone[n] \in V
    BY <1>3, <2>1, <2>2, <2>3
  <2> QED
    BY <2>1, <2>4
<1>9. \A n \in 0 .. N : Laid(clone[n], U)
  <2> HIDE DEF T
  <2>1. 0 .. N \subseteq T
    BY <1>1, <1>7, <1>8, UpTo
  <2> QED
    BY <2>1 DEF T, V
<1>10. clone[0] = NoPolicies
  BY <1>1, <1>5
<1>11. \A n \in 1 .. N :
         clone[n] = IF Key(list[n]) \in excluded THEN clone[n - 1] ELSE AppendPolicy(clone[n - 1], list[n])
  <2> SUFFICES ASSUME NEW n \in 1 .. N
               PROVE  clone[n] = IF Key(list[n]) \in excluded THEN clone[n - 1]
                                 ELSE AppendPolicy(clone[n - 1], list[n])
    OBVIOUS
  <2>1. n \in 0 .. N /\ n # 0
    BY <1>1
  <2> HIDE DEF N
  <2> QED
    BY <1>5, <2>1
<1>12. Cloning(clone, list, excluded, U)
  BY <1>6, <1>9, <1>10, <1>11 DEF Cloning
<1> QED
  BY <1>12

\* A clone has each of its policies once in its layer.
LEMMA CloneLaid ==
  ASSUME NEW U, NEW list \in Seq(U), NEW excluded
  PROVE  Laid(Clone(list, excluded), U)
<1>1. PICK f : Cloning(f, list, excluded, U)
  BY CloneSteps
<1>2. Len(list) \in 0 .. Len(list)
  BY Members
<1> QED
  BY <1>1, <1>2 DEF Cloning

\* A list without repetition is as long as the set of its members is large.
LEMMA LengthIsSize ==
  ASSUME NEW S, NEW list \in Seq(S), \A i, j \in 1 .. Len(list) : i < j => list[i] # list[j]
  PROVE  Len(list) = Cardinality(ToSet(list))
<1>1. /\ Len(list) \in Nat /\ DOMAIN list = 1 .. Len(list)
      /\ \A x : x \in ToSet(list) <=> \E i \in 1 .. Len(list) : list[i] = x
  BY Members
<1>2. list \in Bijection(1 .. Len(list), ToSet(list))
  <2>1. list \in [1 .. Len(list) -> ToSet(list)]
    <3>1. list = [i \in 1 .. Len(list) |-> list[i]]
      BY <1>1
    <3> QED
      BY <1>1, <3>1
  <2>2. \A i, j \in 1 .. Len(list) : list[i] = list[j] => i = j
    <3>1. \A i, j \in 1 .. Len(list) : i < j \/ j < i \/ i = j
      BY <1>1
    <3> QED
      BY <3>1
  <2> QED
    BY <1>1, <2>1, <2>2 DEF Bijection, Injection, Surjection, IsInjective
<1>3. ExistsBijection(1 .. Len(list), ToSet(list))
  BY <1>2 DEF ExistsBijection
<1> QED
  BY <1>1, <1>3, FS_CountingElements

-----------------------------------------------------------------------------
(***************************************************************************)
(* The invariant.                                                            *)
(***************************************************************************)
\* The policies of configurations and their clones.
Versions ==
  Policies \cup UNION {{WithoutRule(x[1], x[2], i) : i \in DOMAIN x[1][x[2]]} : x \in Policies \X Directions}
\* The configuration is laid out in sorted layers, and what a query makes of it in layers.
IInv ==
  /\ Laid(config, Policies) /\ InOrder(config)
  /\ variant = NoVariant \/ Laid(variant, Versions)

\* Policies are versions of themselves.
LEMMA LaidWider ==
  ASSUME NEW cfg, NEW U, NEW W, U \subseteq W, Laid(cfg, U)
  PROVE  Laid(cfg, W)
<1>1. \A s \in Seq(U) : s \in Seq(W)
  OBVIOUS
<1> QED
  BY <1>1 DEF Laid

\* Every step keeps the layers, the one of a clone included.
LEMMA NextKeeps ==
  ASSUME IInv, [Next]_vars
  PROVE  IInv'
<1>1. Policies \subseteq Versions
  BY DEF Versions
<1>2. config.policies \in Seq(Policies)
  BY DEF IInv, Laid
<1>3. ASSUME NEW p \in Policies, AppendParsed(p) PROVE IInv'
  <2>1. /\ config' = AppendPolicy(config, p) /\ variant' = variant
        /\ ~AtEnd(p) => \A q \in ToSet(config.policies) : ~AtEnd(q)
    BY <1>3 DEF AppendParsed
  <2>2. Laid(AppendPolicy(config, p), Policies)
    BY AppendLaid DEF IInv
  <2>3. InOrder(AppendPolicy(config, p))
    BY <2>1, AppendInOrder DEF IInv
  <2> QED
    BY <2>1, <2>2, <2>3 DEF IInv
<1>4. ASSUME NEW p \in Policies, RemovePolicy(p) PROVE IInv'
  <2>1. config' = config /\ variant' = Clone(config.policies, {Key(p)})
    BY <1>4 DEF RemovePolicy, WithoutPolicy
  <2>2. Laid(Clone(config.policies, {Key(p)}), Policies)
    BY <1>2, CloneLaid
  <2>3. Laid(Clone(config.policies, {Key(p)}), Versions)
    BY <1>1, <2>2, LaidWider
  <2> QED
    BY <2>1, <2>3 DEF IInv
<1>5. ASSUME NEW p \in Policies, NEW dir \in Directions, NEW i \in DOMAIN p[dir], RemoveRule(p, dir, i)
      PROVE  IInv'
  <2> DEFINE clone == Clone(config.policies, {Key(p)})
             q == WithoutRule(p, dir, i)
  <2>1. config' = config /\ variant' = AppendPolicy(clone, q)
    BY <1>5 DEF RemoveRule, WithoutPolicy
  <2>2. Laid(clone, Policies)
    BY <1>2, CloneLaid
  <2>3. q \in Versions
    <3>1. <<p, dir>> \in Policies \X Directions
      OBVIOUS
    <3>2. q \in {WithoutRule(<<p, dir>>[1], <<p, dir>>[2], j) : j \in DOMAIN <<p, dir>>[1][<<p, dir>>[2]]}
      OBVIOUS
    <3> HIDE DEF q
    <3> QED
      BY <3>1, <3>2 DEF Versions
  <2> HIDE DEF clone, q
  <2>4. Laid(clone, Versions)
    BY <1>1, <2>2, LaidWider
  <2>5. Laid(AppendPolicy(clone, q), Versions)
    BY <2>3, <2>4, AppendLaid
  <2> QED
    BY <2>1, <2>5 DEF IInv
<1>6. CASE UNCHANGED vars
  BY <1>6 DEF IInv, vars
<1> QED
  BY <1>3, <1>4, <1>5, <1>6 DEF Next

\* The inductive invariant holds in every reachable state.
THEOREM Invariance == Spec => []IInv
<1>1. Init => IInv
  BY NothingLaid DEF Init, IInv
<1> QED
  BY <1>1, NextKeeps, PTL DEF Spec

\* A configuration that is laid out has sorted layers.
LEMMA SortedLayers ==
  ASSUME NEW cfg, Laid(cfg, Policies), InOrder(cfg)
  PROVE  InLayers(cfg)
<1>1. ASSUME NEW n \in DOMAIN cfg.layers PROVE Sorted(cfg, n, cfg.layers[n])
  BY DEF Laid, InOrder, Sorted
<1> QED
  BY <1>1 DEF Laid, InLayers

\* NetworkLayersContainer's two assumptions, "the default layer alone when there are no
\* policies, and no other layer without one", hold of every configuration and of every
\* clone a query makes, and each policy is once in the list of its layer.
THEOREM LayersAsAssumed == Spec => []LayersHold
<1>1. IInv => LayersHold
  <2> SUFFICES ASSUME IInv, NEW cfg \in {config, variant} \ {NoVariant}
               PROVE  /\ DOMAIN cfg.layers = IF cfg.policies = << >> THEN {"K8s_Calico"}
                                             ELSE {policy_type_to_layer(p) : p \in ToSet(cfg.policies)}
                      /\ \A n \in DOMAIN cfg.layers :
                           /\ ToSet(cfg.layers[n]) = InLayer(cfg, n)
                           /\ Len(cfg.layers[n]) = Cardinality(InLayer(cfg, n))
                      /\ \A i, j \in DOMAIN cfg.policies : Key(cfg.policies[i]) = Key(cfg.policies[j]) => i = j
    BY DEF LayersHold
  <2>1. PICK U : Laid(cfg, U)
    BY DEF IInv
  <2>2. DOMAIN cfg.policies = 1 .. Len(cfg.policies)
    BY <2>1, Members DEF Laid
  <2>3. \A n \in DOMAIN cfg.layers :
          /\ ToSet(cfg.layers[n]) = InLayer(cfg, n)
          /\ Len(cfg.layers[n]) = Cardinality(InLayer(cfg, n))
    <3> SUFFICES ASSUME NEW n \in DOMAIN cfg.layers
                 PROVE  /\ ToSet(cfg.layers[n]) = InLayer(cfg, n)
                        /\ Len(cfg.layers[n]) = Cardinality(InLayer(cfg, n))
      OBVIOUS
    <3> DEFINE list == cfg.layers[n]
    <3>1. /\ list \in Seq(U) /\ ToSet(list) = InLayer(cfg, n)
          /\ \A i, j \in 1 .. Len(list) : i < j => list[i] # list[j]
      BY <2>1 DEF Laid
    <3> HIDE DEF list
    <3>2. Len(list) = Cardinality(ToSet(list))
      BY <3>1, LengthIsSize
    <3> QED
      BY <3>1, <3>2 DEF list
  <2> QED
    BY <2>1, <2>2, <2>3 DEF Laid
<1> QED
  BY <1>1, Invariance, PTL

\* The connections that AllowedConnections computes with bisect, folds over the policies and
\* layers are those that the first deciding rule of each layer and the defaults
\* allow: whatever the policies are, and however many, in whatever order they arrived.
\* Of the connections of host endpoints no more than the one layer allows is computed,
\* and all of it when it is the only layer.
THEOREM VerdictsAreExact == Spec => []VerdictsExact
<1>1. IInv => VerdictsExact
  <2> SUFFICES ASSUME IInv PROVE VerdictsExact
    OBVIOUS
  <2>1. InLayers(config)
    BY SortedLayers DEF IInv
  <2>2. AllAllowed(config) = EveryLayerAllows(config)
    BY <2>1, AllIs
  <2>3. DOMAIN config.layers = {"K8s_Calico"} => ActiveLayers(config) \subseteq {"K8s_Calico"}
    BY <2>1, LayersThere
  <2> QED
    BY <2>2, <2>3, MeaningIs DEF VerdictsExact
<1> QED
  BY <1>1, Invariance, PTL

\* What queries see as explicitly allowed, which is computed under a filter of its own, is
\* what some policy allows or passes on, and every layer allows.
THEOREM ExplicitIsExact == Spec => []ExplicitIsAllowed
<1>1. IInv => ExplicitIsAllowed
  BY SortedLayers, ExplicitIs DEF IInv, ExplicitIsAllowed
<1> QED
  BY <1>1, Invariance, PTL

\* Policies of the layer of Kubernetes and Calico capture whatever they select.
LEMMA CapturedIsAffected ==
  ASSUME NEW cfg, InLayers(cfg), "K8s_Calico" \in DOMAIN cfg.layers, NEW dir
  PROVE  CapturedIn(cfg, "K8s_Calico", dir) = AffectedPods(cfg, "K8s_Calico", dir)
<1> DEFINE here == InLayer(cfg, "K8s_Calico")
<1>1. ToSet(cfg.layers["K8s_Calico"]) = here
  BY DEF InLayers, Sorted
<1>2. ASSUME NEW p \in here PROVE Captures(p)
  <2>1. p \in Policies /\ policy_type_to_layer(p) = "K8s_Calico"
    BY Members DEF InLayers, InLayer
  <2>2. p.kind \notin {"authz", "gateway"}
    <3>1. p.kind = "authz" => policy_type_to_layer(p) = "Istio"
      BY DEF policy_type_to_layer
    <3>2. p.kind = "gateway" => policy_type_to_layer(p) = "IstioGateway"
      BY DEF policy_type_to_layer
    <3> QED
      BY <2>1, <3>1, <3>2
  <2> QED
    BY <2>2 DEF Captures
<1> HIDE DEF here
<1>3. \A x : x \in CapturedIn(cfg, "K8s_Calico", dir) <=> \E p \in here : x \in CapturedBy(p, dir)
  BY <1>2 DEF CapturedIn, here
<1>4. \A x : x \in AffectedPods(cfg, "K8s_Calico", dir) <=> \E p \in here : dir \in p.affects /\ x \in p.selected
  BY <1>1 DEF AffectedPods
<1> QED
  BY <1>3, <1>4 DEF CapturedBy

\* When the query finds every peer captured, whatever is allowed is allowed by a rule.
LEMMA CapturedIs ==
  ASSUME NEW cfg, InLayers(cfg), AllCaptured(cfg), DOMAIN cfg.layers = {"K8s_Calico"}
  PROVE  AllAllowed(cfg) = Explicit(cfg)
<1> DEFINE n == "K8s_Calico"
<1>1. \A dir \in Directions, x \in Clusters : x \in CapturedIn(cfg, n, dir)
  <2>1. ASSUME NEW dir \in Directions, NEW x \in Clusters PROVE x \in AffectedPods(cfg, n, dir)
    <3>1. Uncaptured(cfg, n) = {}
      BY DEF AllCaptured
    <3>2. Uncaptured(cfg, n) = {y \in Directions \X Clusters : y[2] \notin AffectedPods(cfg, n, y[1])}
      BY DEF Uncaptured
    <3>3. <<dir, x>> \in Directions \X Clusters
      OBVIOUS
    <3> QED
      BY <3>1, <3>2, <3>3
  <2> QED
    BY <2>1, CapturedIsAffected
<1>2. n \in ActiveLayers(cfg)
  BY LayersThere
<1>3. ASSUME NEW c \in Meaning(cfg) PROVE c \in Explicit(cfg)
  <2>1. c \in RealConns /\ LayerAllows(cfg, n, c)
    BY <1>2, <1>3 DEF Meaning
  <2>2. PICK dir \in Directions : Own(dir, c) \in Clusters
    <3>1. "ingress" \in Directions /\ "egress" \in Directions
      BY DEF Directions
    <3>2. Own("ingress", c) \in Clusters \/ Own("egress", c) \in Clusters
      BY <2>1, RealEnds DEF Own
    <3> QED
      BY <3>1, <3>2
  <2>3. CalicoAllows(cfg, n, dir, c)
    BY <2>1 DEF LayerAllows
  <2>4. Own(dir, c) # Ip
    BY <2>2, PeerAssumption
  <2>5. Decision(cfg, n, dir, c) \in {"allow"} \cup (IF Own(dir, c) \in Heps THEN {} ELSE {"pass"})
    BY <1>1, <2>2, <2>3, <2>4 DEF CalicoAllows, Own
  <2> HIDE DEF n
  <2> QED
    BY <1>2, <1>3, <2>5 DEF Explicit, Own
<1> QED
  <2>1. ActiveLayers(cfg) \subseteq {n}
    BY LayersThere
  <2>2. AllAllowed(cfg) = Meaning(cfg)
    BY <2>1, AllIs, MeaningIs
  <2> QED
    BY <1>3, <2>2 DEF Explicit

\* When every pod is captured in the only layer nothing is allowed by default, as the
\* query allCaptured promises.
THEOREM CapturedIsExplicit == Spec => []CapturedMeansExplicit
<1>1. IInv => CapturedMeansExplicit
  BY SortedLayers, CapturedIs DEF IInv, CapturedMeansExplicit
<1> QED
  BY <1>1, Invariance, PTL
-----------------------------------------------------------------------------
(***************************************************************************)
(* What the queries on one configuration answer, for any policies: that of     *)
(* each name redundancy reports a policy can go, that disjoint policies do not *)
(* depend on their order, and that sanity finds what the other queries find.   *)
(* A clone keeps the order of what it keeps (CloneKeeps), so the list of a      *)
(* layer it leaves alone is sorted for the clone too (SameDecisions).           *)
(***************************************************************************)
-----------------------------------------------------------------------------
(***************************************************************************)
(* Clones.                                                                   *)
(***************************************************************************)
\* Each policy of the list has a key of its own.
KeysDiffer(list) == \A i, j \in 1 .. Len(list) : Key(list[i]) = Key(list[j]) => i = j
\* What comes at the end of the list is at its end.
EndsLast(list) == \A i, j \in 1 .. Len(list) : i < j /\ AtEnd(list[i]) => AtEnd(list[j])

\* A configuration without policies.
LEMMA NothingThere == ToSet(NoPolicies.policies) = {}
<1> DEFINE none == << >>
<1>1. none \in Seq({}) /\ 1 .. Len(none) = {}
  OBVIOUS
<1>2. NoPolicies.policies = none
  BY DEF NoPolicies
<1> HIDE DEF none
<1> QED
  BY <1>1, <1>2, Members

\* What is there after a policy is appended.
LEMMA AppendedPolicies ==
  ASSUME NEW cfg, Laid(cfg, Policies), NEW p \in Policies, Key(p) \notin {Key(q) : q \in ToSet(cfg.policies)}
  PROVE  ToSet(AppendPolicy(cfg, p).policies) = ToSet(cfg.policies) \cup {p}
<1>1. AppendPolicy(cfg, p).policies = Append(cfg.policies, p)
  BY AppendedLayers
<1>2. cfg.policies \in Seq(Policies)
  BY DEF Laid
<1> QED
  BY <1>1, <1>2, Appending

\* A clone has the policies of the list that are not excluded, and keeps their order.
LEMMA CloneKeeps ==
  ASSUME NEW list \in Seq(Policies), KeysDiffer(list), NEW excluded
  PROVE  LET new == Clone(list, excluded)
         IN  /\ \A q : q \in ToSet(new.policies) <=> q \in ToSet(list) /\ Key(q) \notin excluded
             /\ \A i, j \in 1 .. Len(list) :
                  list[i] \in ToSet(new.policies) /\ list[j] \in ToSet(new.policies) =>
                    (Arrival(new, list[i]) < Arrival(new, list[j]) <=> i < j)
             /\ EndsLast(list) => InOrder(new)
<1> DEFINE N == Len(list)
           There(c, n) == \A q : q \in ToSet(c.policies) <=>
                            Key(q) \notin excluded /\ \E i \in 1 .. n : list[i] = q
           Placed(c, n) == \A i, j \in 1 .. n :
                             list[i] \in ToSet(c.policies) /\ list[j] \in ToSet(c.policies) =>
                               (Arrival(c, list[i]) < Arrival(c, list[j]) <=> i < j)
           Ordered(c) == EndsLast(list) => InOrder(c)
<1>1. PICK f : Cloning(f, list, excluded, Policies)
  BY CloneSteps
<1> DEFINE T == {n \in 0 .. N : There(f[n], n) /\ Placed(f[n], n) /\ Ordered(f[n])}
<1>2. N \in Nat /\ \A n \in 1 .. N : list[n] \in Policies
  OBVIOUS
<1>3. 0 \in T
  <2>1. f[0] = NoPolicies /\ 1 .. 0 = {} /\ 0 \in 0 .. N
    BY <1>1, <1>2 DEF Cloning
  <2> HIDE DEF N
  <2> QED
    BY <2>1, NothingThere, NothingLaid
<1>4. ASSUME NEW n \in 1 .. N, n - 1 \in T PROVE n \in T
  <2> DEFINE old == f[n - 1]
             p == list[n]
             new == f[n]
  <2>1. /\ n \in 0 .. N /\ n - 1 \in 0 .. N /\ p \in Policies
        /\ \A i \in 1 .. n : i \in 1 .. N /\ (i \in 1 .. n - 1 \/ i = n)
        /\ \A i \in 1 .. n - 1 : i \in 1 .. n /\ i < n
    BY <1>2
  <2>2. /\ new = IF Key(p) \in excluded THEN old ELSE AppendPolicy(old, p)
        /\ Laid(old, Policies) /\ Laid(new, Policies)
    BY <1>1, <2>1 DEF Cloning
  <2>3. There(old, n - 1) /\ Placed(old, n - 1) /\ Ordered(old)
    <3> HIDE DEF There, Placed, Ordered
    <3> QED
      BY <1>4
  <2>4. \A i \in 1 .. n - 1 : Key(list[i]) # Key(p)
    BY <2>1 DEF KeysDiffer
  <2>5. Key(p) \notin {Key(q) : q \in ToSet(old.policies)}
    <3> HIDE DEF old, p
    <3> QED
      BY <2>3, <2>4
  <2> HIDE DEF new, old, N
  <2>6. CASE Key(p) \in excluded
    <3>1. new = old
      BY <2>2, <2>6
    <3>2. p \notin ToSet(old.policies)
      BY <2>5
    <3>3. There(old, n)
      BY <2>1, <2>3, <2>6
    <3>4. Placed(old, n)
      BY <2>1, <2>3, <3>2
    <3> HIDE DEF There, Placed, Ordered
    <3> QED
      BY <2>1, <2>3, <3>1, <3>3, <3>4 DEF new
  <2>7. CASE Key(p) \notin excluded
    <3>1. new = AppendPolicy(old, p)
      BY <2>2, <2>7
    <3> HIDE DEF p
    <3>2. ToSet(new.policies) = ToSet(old.policies) \cup {p}
      BY <2>1, <2>2, <2>5, <3>1, AppendedPolicies
    <3>3. There(new, n)
      BY <2>1, <2>3, <2>7, <3>2 DEF p
    <3>4. \A q \in ToSet(old.policies) : Arrival(new, q) = Arrival(old, q) /\ Arrival(old, q) < Arrival(new, p)
      BY <2>1, <2>2, <2>5, <3>1, ArrivalKept
    <3>5. \A q \in ToSet(new.policies) : Arrival(new, q) \in Int
      <4>1. \A q \in ToSet(new.policies) : Arrival(new, q) \in 1 .. Len(new.policies)
        BY <2>2, ArrivalIs DEF Laid
      <4> QED
        BY <4>1
    <3>6. Placed(new, n)
      <4> SUFFICES ASSUME NEW i \in 1 .. n, NEW j \in 1 .. n,
                          list[i] \in ToSet(new.policies), list[j] \in ToSet(new.policies)
                   PROVE  Arrival(new, list[i]) < Arrival(new, list[j]) <=> i < j
        OBVIOUS
      <4>1. \A k \in 1 .. n - 1 : list[k] # p
        BY <2>4
      <4>2. \A k \in 1 .. n - 1 : list[k] \in ToSet(new.policies) => list[k] \in ToSet(old.policies)
        BY <3>2, <4>1
      <4>3. CASE i # n /\ j # n
        BY <2>1, <2>3, <3>4, <4>2, <4>3
      <4>4. CASE i = n /\ j # n
        <5>1. Arrival(new, list[j]) < Arrival(new, list[i]) /\ j < i
          BY <2>1, <3>4, <4>2, <4>4 DEF p
        <5> QED
          BY <2>1, <3>5, <5>1
      <4>5. CASE i # n /\ j = n
        <5>1. Arrival(new, list[i]) < Arrival(new, list[j]) /\ i < j
          BY <2>1, <3>4, <4>2, <4>5 DEF p
        <5> QED
          BY <5>1
      <4>6. CASE i = n /\ j = n
        BY <3>5, <4>6
      <4> QED
        BY <4>3, <4>4, <4>5, <4>6
    <3>7. Ordered(new)
      <4> SUFFICES ASSUME EndsLast(list) PROVE InOrder(new)
        OBVIOUS
      <4>1. ASSUME NEW q \in ToSet(old.policies), ~AtEnd(p) PROVE ~AtEnd(q)
        <5>1. PICK i \in 1 .. n - 1 : list[i] = q
          BY <2>3
        <5>2. i \in 1 .. Len(list) /\ n \in 1 .. Len(list) /\ i < n
          BY <2>1 DEF N
        <5> QED
          BY <4>1, <5>1, <5>2 DEF EndsLast, p
      <4> QED
        BY <2>1, <2>2, <2>3, <3>1, <4>1, AppendInOrder
    <3> HIDE DEF There, Placed, Ordered
    <3> QED
      BY <2>1, <3>3, <3>6, <3>7 DEF new
  <2> QED
    BY <2>6, <2>7
<1>5. N \in T
  <2> HIDE DEF T
  <2>1. 0 .. N \subseteq T
    BY <1>2, <1>3, <1>4, UpTo
  <2> QED
    BY <1>2, <2>1
<1>6. Clone(list, excluded) = f[N]
  BY <1>1 DEF Cloning
<1>7. \A q : q \in ToSet(list) <=> \E i \in 1 .. N : list[i] = q
  BY Members
<1> DEFINE new == Clone(list, excluded)
<1>8. There(new, N) /\ Placed(new, N) /\ Ordered(new)
  BY <1>5, <1>6
<1> HIDE DEF new
<1>9. \A q : q \in ToSet(new.policies) <=> q \in ToSet(list) /\ Key(q) \notin excluded
  BY <1>7, <1>8
<1> QED
  BY <1>8, <1>9 DEF new
-----------------------------------------------------------------------------
(***************************************************************************)
(* A clone of a configuration, and the layers it leaves alone.               *)
(***************************************************************************)
\* A policy stands where it arrived.
LEMMA PlaceIs ==
  ASSUME NEW cfg, Laid(cfg, Policies)
  PROVE  /\ KeysDiffer(cfg.policies)
         /\ \A i \in 1 .. Len(cfg.policies) : Arrival(cfg, cfg.policies[i]) = i
<1> DEFINE list == cfg.policies
<1>1. list \in Seq(Policies) /\ KeysDiffer(list)
  BY DEF Laid, KeysDiffer
<1>2. DOMAIN list = 1 .. Len(list)
  BY <1>1
<1>3. ASSUME NEW i \in 1 .. Len(list) PROVE Arrival(cfg, list[i]) = i
  <2>1. \A j \in 1 .. Len(list) : list[j] = list[i] => j = i
    BY <1>1 DEF KeysDiffer
  <2> HIDE DEF list
  <2> QED
    BY <1>2, <2>1 DEF Arrival, list
<1> QED
  BY <1>1, <1>3

\* A clone without some of the policies evaluates the others in the same order.
LEMMA CloneOrders ==
  ASSUME NEW cfg, Laid(cfg, Policies), NEW excluded
  PROVE  LET new == Clone(cfg.policies, excluded)
         IN  /\ Laid(new, Policies)
             /\ \A q : q \in ToSet(new.policies) <=> q \in ToSet(cfg.policies) /\ Key(q) \notin excluded
             /\ \A p, q \in ToSet(new.policies) : Sooner(new, p, q) <=> Sooner(cfg, p, q)
             /\ InOrder(cfg) => InLayers(new)
<1> DEFINE list == cfg.policies
           new == Clone(list, excluded)
<1>1. /\ list \in Seq(Policies) /\ KeysDiffer(list)
      /\ \A i \in 1 .. Len(list) : Arrival(cfg, list[i]) = i
  BY PlaceIs DEF Laid
<1> HIDE DEF list
<1>2. /\ \A q : q \in ToSet(new.policies) <=> q \in ToSet(list) /\ Key(q) \notin excluded
      /\ \A i, j \in 1 .. Len(list) :
           list[i] \in ToSet(new.policies) /\ list[j] \in ToSet(new.policies) =>
             (Arrival(new, list[i]) < Arrival(new, list[j]) <=> i < j)
      /\ EndsLast(list) => InOrder(new)
  BY <1>1, CloneKeeps
<1>3. Laid(new, Policies)
  BY <1>1, CloneLaid
<1>4. InOrder(cfg) => InLayers(new)
  <2>1. InOrder(cfg) => EndsLast(list)
    BY DEF InOrder, EndsLast, list
  <2> HIDE DEF new
  <2> QED
    BY <1>2, <1>3, <2>1, SortedLayers
<1>5. ASSUME NEW p \in ToSet(new.policies), NEW q \in ToSet(new.policies)
      PROVE  Sooner(new, p, q) <=> Sooner(cfg, p, q)
  <2> HIDE DEF new
  <2>1. p \in ToSet(list) /\ q \in ToSet(list)
    BY <1>2
  <2>2. PICK i \in 1 .. Len(list) : list[i] = p
    BY <1>1, <2>1, Members
  <2>3. PICK j \in 1 .. Len(list) : list[j] = q
    BY <1>1, <2>1, Members
  <2>4. Arrival(new, p) < Arrival(new, q) <=> Arrival(cfg, p) < Arrival(cfg, q)
    BY <1>1, <1>2, <2>2, <2>3
  <2> QED
    BY <2>4 DEF Sooner
<1> HIDE DEF new
<1> QED
  BY <1>2, <1>3, <1>4, <1>5 DEF new, list

\* Two configurations for which one list is sorted decide alike in its layer.
LEMMA SameDecisions ==
  ASSUME NEW cfg, cfg.policies \in Seq(Policies), NEW other, other.policies \in Seq(Policies),
         NEW n, NEW list, Sorted(cfg, n, list), Sorted(other, n, list), NEW c
  PROVE  LayerAllows(cfg, n, c) <=> LayerAllows(other, n, c)
<1>1. list \in Seq(Policies) /\ InLayer(cfg, n) = InLayer(other, n)
  BY DEF Sorted
<1>2. ASSUME NEW dir \in Directions PROVE Decision(cfg, n, dir, c) = Decision(other, n, dir, c)
  <2>1. PICK v \in Outcomes : FirstPolicy(list, Len(list), dir, c, v)
    BY <1>1, CollectGives
  <2> QED
    BY <2>1, DecisionIs
<1>3. \A dir : CapturedIn(cfg, n, dir) = CapturedIn(other, n, dir)
  BY <1>1 DEF CapturedIn
<1>4. ASSUME NEW dir \in Directions
      PROVE  /\ CalicoAllows(cfg, n, dir, c) <=> CalicoAllows(other, n, dir, c)
             /\ IstioAllows(cfg, n, dir, c) <=> IstioAllows(other, n, dir, c)
  BY <1>2, <1>3 DEF CalicoAllows, IstioAllows
<1> QED
  BY <1>4 DEF LayerAllows

\* The list of a layer, empty when the layer is not there, is sorted.
LEMMA LayerListSorted ==
  ASSUME NEW cfg, InLayers(cfg), NEW n
  PROVE  Sorted(cfg, n, LayerList(cfg, n))
<1>1. CASE n \in DOMAIN cfg.layers
  BY <1>1 DEF LayerList, InLayers
<1>2. CASE n \notin DOMAIN cfg.layers
  <2> DEFINE none == << >>
  <2>1. none \in Seq(Policies) /\ Len(none) = 0
    OBVIOUS
  <2>4. ToSet(none) = {}
    BY <2>1, EmptyList
  <2>2. InLayer(cfg, n) = {}
    <3>1. ASSUME NEW p \in ToSet(cfg.policies) PROVE policy_type_to_layer(p) \in DOMAIN cfg.layers
      <4>1. cfg.policies \in Seq(Policies) /\ cfg.policies # << >>
        BY EmptyList DEF InLayers
      <4> QED
        BY <4>1 DEF InLayers
    <3> QED
      BY <1>2, <3>1 DEF InLayer
  <2>3. LayerList(cfg, n) = none
    BY <1>2 DEF LayerList
  <2> HIDE DEF none
  <2> QED
    BY <2>1, <2>2, <2>3, <2>4 DEF Sorted
<1> QED
  BY <1>1, <1>2

\* What exec(layer_name) computes is what the layer means.
LEMMA AllInLayer ==
  ASSUME NEW cfg, InLayers(cfg), NEW n
  PROVE  AllAllowedIn(cfg, n) = LayerMeaning(cfg, n)
<1> DEFINE filter == only_all_allowed_connections
<1>1. Sorted(cfg, n, LayerList(cfg, n)) /\ cfg.policies \in Seq(Policies)
  BY LayerListSorted DEF InLayers
<1>2. filter.all
  BY Filters
<1> HIDE DEF filter
<1>3. \A c \in RealConns : c \in LayerConns(n, LayerList(cfg, n), filter).all <=> LayerAllows(cfg, n, c)
  BY <1>1, <1>2, LayerIs
<1>4. AllAllowedIn(cfg, n) = LayerConns(n, LayerList(cfg, n), filter).all \cap RealConns
  BY DEF AllAllowedIn, filter
<1> QED
  BY <1>3, <1>4 DEF LayerMeaning
-----------------------------------------------------------------------------
(***************************************************************************)
(* Redundancy.                                                               *)
(***************************************************************************)
\* Removing a policy leaves the other layers as they are, and the layers that are
\* active when its own layer has another policy.
LEMMA RemovalKeeps ==
  ASSUME NEW cfg, Laid(cfg, Policies), InOrder(cfg), NEW q \in ToSet(cfg.policies)
  PROVE  LET clone == WithoutPolicy(cfg, q)
             name == policy_type_to_layer(q)
         IN  /\ InLayers(clone)
             /\ \A m : m # name => \A c : LayerAllows(clone, m, c) <=> LayerAllows(cfg, m, c)
             /\ InLayer(cfg, name) # {q} => ActiveLayers(clone) = ActiveLayers(cfg)
<1> DEFINE clone == WithoutPolicy(cfg, q)
           name == policy_type_to_layer(q)
<1>1. /\ InLayers(clone)
      /\ \A p : p \in ToSet(clone.policies) <=> p \in ToSet(cfg.policies) /\ Key(p) \notin {Key(q)}
      /\ \A a, b \in ToSet(clone.policies) : Sooner(clone, a, b) <=> Sooner(cfg, a, b)
  BY CloneOrders DEF WithoutPolicy
<1> HIDE DEF clone
<1>2. cfg.policies \in Seq(Policies) /\ clone.policies \in Seq(Policies) /\ InLayers(cfg)
  BY <1>1, SortedLayers DEF Laid, InLayers
<1>3. \A p \in ToSet(cfg.policies) : Key(p) = Key(q) => p = q
  <2>1. KeysDiffer(cfg.policies)
    BY PlaceIs
  <2>2. \A p \in ToSet(cfg.policies) : \E i \in 1 .. Len(cfg.policies) : cfg.policies[i] = p
    BY <1>2, Members
  <2> QED
    BY <2>1, <2>2 DEF KeysDiffer
<1>4. \A p : p \in ToSet(clone.policies) <=> p \in ToSet(cfg.policies) /\ p # q
  BY <1>1, <1>3
<1>5. ASSUME NEW m, m # name, NEW c PROVE LayerAllows(clone, m, c) <=> LayerAllows(cfg, m, c)
  <2> DEFINE list == LayerList(cfg, m)
  <2>1. Sorted(cfg, m, list)
    BY <1>2, LayerListSorted
  <2> HIDE DEF list
  <2>2. InLayer(clone, m) = InLayer(cfg, m)
    BY <1>4, <1>5 DEF InLayer
  <2>3. \A i \in 1 .. Len(list) : list[i] \in ToSet(clone.policies)
    <3>1. ToSet(list) = InLayer(clone, m) /\ \A i \in 1 .. Len(list) : list[i] \in ToSet(list)
      BY <2>1, <2>2, Members DEF Sorted
    <3> QED
      BY <3>1 DEF InLayer
  <2>4. Sorted(clone, m, list)
    BY <1>1, <2>1, <2>2, <2>3 DEF Sorted
  <2> QED
    BY <1>2, <2>1, <2>4, SameDecisions
<1>6. ASSUME InLayer(cfg, name) # {q} PROVE ActiveLayers(clone) = ActiveLayers(cfg)
  <2>1. PICK a \in ToSet(cfg.policies) : a # q /\ policy_type_to_layer(a) = name
    BY <1>6 DEF InLayer
  <2>2. {policy_type_to_layer(p) : p \in ToSet(clone.policies)} = {policy_type_to_layer(p) : p \in ToSet(cfg.policies)}
    BY <1>4, <2>1
  <2> QED
    BY <2>2 DEF ActiveLayers
<1> QED
  BY <1>1, <1>5, <1>6 DEF clone

\* Comparing the connections of one layer, as the query does, tells whether the layer
\* allows the same without the policy, and then all layers together do.
LEMMA RedundantIs ==
  ASSUME NEW cfg, Laid(cfg, Policies), InOrder(cfg), NEW n \in DOMAIN cfg.layers, NEW q \in ToSet(cfg.layers[n])
  PROVE  /\ SameWithout(cfg, n, q) <=> Unchanged(cfg, n, q)
         /\ Len(cfg.layers[n]) > 1 /\ SameWithout(cfg, n, q) => Meaning(WithoutPolicy(cfg, q)) = Meaning(cfg)
<1> DEFINE clone == WithoutPolicy(cfg, q)
<1>1. InLayers(cfg) /\ Sorted(cfg, n, cfg.layers[n])
  BY SortedLayers DEF InLayers
<1>2. q \in ToSet(cfg.policies) /\ policy_type_to_layer(q) = n
  BY <1>1 DEF Sorted, InLayer
<1>3. /\ InLayers(clone)
      /\ \A m : m # n => \A c : LayerAllows(clone, m, c) <=> LayerAllows(cfg, m, c)
      /\ InLayer(cfg, n) # {q} => ActiveLayers(clone) = ActiveLayers(cfg)
  BY <1>2, RemovalKeeps
<1> HIDE DEF clone
<1>4. AllAllowedIn(cfg, n) = LayerMeaning(cfg, n) /\ AllAllowedIn(clone, n) = LayerMeaning(clone, n)
  BY <1>1, <1>3, AllInLayer
<1>5. SameWithout(cfg, n, q) <=> LayerMeaning(cfg, n) = LayerMeaning(clone, n)
  BY <1>4 DEF SameWithout, clone
<1>6. ASSUME Len(cfg.layers[n]) > 1, SameWithout(cfg, n, q) PROVE Meaning(clone) = Meaning(cfg)
  <2> DEFINE list == cfg.layers[n]
  <2>1. /\ list \in Seq(Policies) /\ ToSet(list) = InLayer(cfg, n)
        /\ \A i, j \in 1 .. Len(list) : i < j => list[i] # list[j]
    BY <1>1 DEF Sorted
  <2>2. InLayer(cfg, n) # {q}
    <3>0. Len(list) > 1
      BY <1>6
    <3> HIDE DEF list
    <3>1. 1 \in 1 .. Len(list) /\ 2 \in 1 .. Len(list)
      BY <2>1, <3>0
    <3>2. list[1] \in ToSet(list) /\ list[2] \in ToSet(list)
      BY <2>1, <3>1, Members
    <3>3. list[1] # list[2]
      BY <2>1, <3>1
    <3> QED
      BY <2>1, <3>2, <3>3
  <2>3. \A c \in RealConns : LayerAllows(clone, n, c) <=> LayerAllows(cfg, n, c)
    BY <1>5, <1>6 DEF LayerMeaning
  <2>4. \A m : \A c \in RealConns : LayerAllows(clone, m, c) <=> LayerAllows(cfg, m, c)
    BY <1>3, <2>3
  <2> QED
    BY <1>3, <2>2, <2>4 DEF Meaning
<1> QED
  BY <1>5, <1>6 DEF Unchanged, clone

\* Of each name the redundancy query reports some policy can be removed without changing
\* what is allowed, and a policy of a name it does not report cannot, from a layer of
\* several: each policy is compared in its layer only, on a clone without it.
THEOREM RedundancyIsReal == Spec => []RedundantCanGo
<1>1. IInv => RedundantCanGo
  <2> SUFFICES ASSUME IInv, variant = NoVariant, NEW n \in PolicyLayers(config), NEW p \in ToSet(config.layers[n])
               PROVE  IF p.name \in RedundantPolicies(config, n)
                        THEN \E q \in ToSet(config.layers[n]) :
                               q.name = p.name /\ Meaning(WithoutPolicy(config, q)) = Meaning(config)
                        ELSE Len(config.layers[n]) > 1 => ~Unchanged(config, n, p)
    BY DEF RedundantCanGo
  <2>1. Laid(config, Policies) /\ InOrder(config) /\ n \in DOMAIN config.layers
    BY DEF IInv, PolicyLayers
  <2>2. LayerList(config, n) = config.layers[n]
    BY <2>1 DEF LayerList
  <2>3. ASSUME p.name \in RedundantPolicies(config, n)
        PROVE  \E q \in ToSet(config.layers[n]) : q.name = p.name /\ Meaning(WithoutPolicy(config, q)) = Meaning(config)
    <3>1. PICK q \in ToSet(config.layers[n]) :
            q.name = p.name /\ Len(config.layers[n]) > 1 /\ SameWithout(config, n, q)
      BY <2>2, <2>3 DEF RedundantPolicies
    <3> QED
      BY <2>1, <3>1, RedundantIs
  <2>4. ASSUME p.name \notin RedundantPolicies(config, n), Len(config.layers[n]) > 1
        PROVE  ~Unchanged(config, n, p)
    <3>1. ~SameWithout(config, n, p)
      BY <2>2, <2>4 DEF RedundantPolicies
    <3> QED
      BY <2>1, <3>1, RedundantIs
  <2> QED
    BY <2>3, <2>4
<1> QED
  BY <1>1, Invariance, PTL
-----------------------------------------------------------------------------
(***************************************************************************)
(* Disjointness.                                                             *)
(***************************************************************************)
\* Policies of one layer never capture the same peer.
AllApart(cfg) ==
  \A p, q \in ToSet(cfg.policies) : p # q /\ policy_type_to_layer(p) = policy_type_to_layer(q) => Apart(p, q)

\* Any order of policies that are apart is as good as another.
LEMMA ApartSorted ==
  ASSUME NEW cfg, AllApart(cfg), NEW n, NEW list \in Seq(Policies), ToSet(list) = InLayer(cfg, n),
         \A i, j \in 1 .. Len(list) : i < j => list[i] # list[j]
  PROVE  Sorted(cfg, n, list)
<1>1. \A i \in 1 .. Len(list) : list[i] \in ToSet(cfg.policies) /\ policy_type_to_layer(list[i]) = n
  <2>1. \A i \in 1 .. Len(list) : list[i] \in ToSet(list)
    BY Members
  <2> QED
    BY <2>1 DEF InLayer
<1>2. \A i, j \in 1 .. Len(list) : i < j => Apart(list[i], list[j])
  BY <1>1 DEF AllApart
<1> QED
  BY <1>2 DEF Sorted

\* So the order their configuration was built in makes no difference.
LEMMA ApartMeans ==
  ASSUME NEW cfg, Laid(cfg, Policies), AllApart(cfg), NEW other, Laid(other, Policies),
         ToSet(other.policies) = ToSet(cfg.policies)
  PROVE  AllAllowed(other) = AllAllowed(cfg)
<1>1. AllApart(other)
  BY DEF AllApart
<1>2. ASSUME NEW x, Laid(x, Policies), AllApart(x) PROVE InLayers(x)
  BY <1>2, ApartSorted DEF InLayers, Laid
<1>3. InLayers(cfg) /\ InLayers(other)
  BY <1>1, <1>2
<1>4. cfg.policies \in Seq(Policies) /\ other.policies \in Seq(Policies)
  BY DEF Laid
<1>5. ASSUME NEW n, NEW c PROVE LayerAllows(other, n, c) <=> LayerAllows(cfg, n, c)
  <2> DEFINE list == LayerList(cfg, n)
  <2>1. Sorted(cfg, n, list)
    BY <1>3, LayerListSorted
  <2> HIDE DEF list
  <2>2. InLayer(other, n) = InLayer(cfg, n)
    BY DEF InLayer
  <2>3. Sorted(other, n, list)
    <3>1. /\ list \in Seq(Policies) /\ ToSet(list) = InLayer(other, n)
          /\ \A i, j \in 1 .. Len(list) : i < j => list[i] # list[j]
      BY <2>1, <2>2 DEF Sorted
    <3> QED
      BY <1>1, <3>1, ApartSorted
  <2> QED
    BY <1>4, <2>1, <2>3, SameDecisions
<1>6. ActiveLayers(other) = ActiveLayers(cfg)
  BY DEF ActiveLayers
<1>7. EveryLayerAllows(other) = EveryLayerAllows(cfg)
  BY <1>5, <1>6 DEF EveryLayerAllows
<1> QED
  BY <1>3, <1>7, AllIs

\* The query finds no overlap exactly when the policies of each layer are apart.
LEMMA DisjointnessIs ==
  ASSUME NEW cfg, Laid(cfg, Policies), DOMAIN cfg.layers \cap GatewayLayers = {}
  PROVE  Disjointness(cfg) = {} => AllApart(cfg)
<1> SUFFICES ASSUME Disjointness(cfg) = {}, NEW p \in ToSet(cfg.policies), NEW q \in ToSet(cfg.policies), p # q,
                    policy_type_to_layer(p) = policy_type_to_layer(q)
             PROVE  Apart(p, q)
  BY DEF AllApart
<1> DEFINE n == policy_type_to_layer(p)
           list == cfg.layers[n]
<1>1. n \in PolicyLayers(cfg)
  <2>1. cfg.policies \in Seq(Policies) /\ cfg.policies # << >>
    BY EmptyList DEF Laid
  <2> QED
    BY <2>1 DEF Laid, PolicyLayers
<1>2. list \in Seq(Policies) /\ ToSet(list) = InLayer(cfg, n)
  BY <1>1 DEF Laid, PolicyLayers
<1>3. Overlaps(list) = {}
  <2> SUFFICES ASSUME NEW x \in Overlaps(list) PROVE FALSE
    OBVIOUS
  <2>1. <<n, x>> \in {<<n, pair>> : pair \in Overlaps(cfg.layers[n])}
    OBVIOUS
  <2> HIDE DEF n
  <2>2. <<n, x>> \in Disjointness(cfg)
    BY <1>1, <2>1 DEF Disjointness
  <2> QED
    BY <2>2
<1>4. p \in ToSet(list) /\ q \in ToSet(list)
  BY <1>2 DEF InLayer
<1> HIDE DEF list
<1>5. PICK i \in 1 .. Len(list) : list[i] = p
  BY <1>2, <1>4, Members
<1>6. PICK j \in 1 .. Len(list) : list[j] = q
  BY <1>2, <1>4, Members
<1>7. i \in DOMAIN list /\ j \in DOMAIN list /\ (i < j \/ j < i)
  BY <1>2, <1>5, <1>6
<1>8. ASSUME NEW a \in DOMAIN list, NEW b \in DOMAIN list, b < a PROVE list[a].selected \cap list[b].selected = {}
  <2>1. <<a, b>> \in (DOMAIN list) \X (DOMAIN list)
    OBVIOUS
  <2>2. is_policy_empty(list[a]) \/ list[a].selected \cap list[b].selected = {}
    BY <1>3, <1>8, <2>1 DEF Overlaps
  <2> QED
    BY <2>2 DEF is_policy_empty
<1> QED
  BY <1>5, <1>6, <1>7, <1>8 DEF Apart

\* A list the other way around.
LEMMA ReverseIs ==
  ASSUME NEW list \in Seq(Policies), KeysDiffer(list)
  PROVE  Reverse(list) \in Seq(Policies) /\ KeysDiffer(Reverse(list)) /\ ToSet(Reverse(list)) = ToSet(list)
<1> DEFINE N == Len(list)
           rev == Reverse(list)
<1>1. /\ rev = [j \in 1 .. N |-> list[(N - j) + 1]] /\ N \in Nat
      /\ \A j \in 1 .. N : (N - j) + 1 \in 1 .. N /\ list[j] \in Policies
  BY DEF Reverse
<1> HIDE DEF rev, N
<1>2. rev \in Seq(Policies) /\ Len(rev) = N /\ \A j \in 1 .. N : rev[j] = list[(N - j) + 1]
  BY <1>1
<1>3. \A i, j \in 1 .. N : (N - i) + 1 = (N - j) + 1 => i = j
  BY <1>1
<1>4. KeysDiffer(rev)
  BY <1>1, <1>2, <1>3 DEF KeysDiffer, N
<1>5. \A i \in 1 .. N : list[i] = rev[(N - i) + 1]
  <2>1. \A i \in 1 .. N : (N - ((N - i) + 1)) + 1 = i
    BY <1>1
  <2> QED
    BY <1>1, <1>2, <2>1
<1>6. \A x : x \in ToSet(rev) <=> \E i \in 1 .. N : rev[i] = x
  BY <1>2, Members
<1>7. \A x : x \in ToSet(list) <=> \E i \in 1 .. N : list[i] = x
  BY Members DEF N
<1>8. ASSUME NEW x \in ToSet(rev) PROVE x \in ToSet(list)
  BY <1>1, <1>2, <1>6, <1>7
<1>9. ASSUME NEW x \in ToSet(list) PROVE x \in ToSet(rev)
  BY <1>1, <1>5, <1>6, <1>7
<1> QED
  BY <1>2, <1>4, <1>8, <1>9 DEF rev

\* When the disjointness query finds no two policies of a layer that capture a common
\* peer, the policies may arrive the other way around without changing what is allowed.
THEOREM DisjointnessFreesOrder == Spec => []DisjointMeansOrderFree
<1>1. IInv => DisjointMeansOrderFree
  <2> SUFFICES ASSUME IInv, Disjointness(config) = {}, DOMAIN config.layers \cap GatewayLayers = {}
               PROVE  AllAllowed(ConfigOf(Reverse(config.policies))) = AllAllowed(config)
    BY DEF DisjointMeansOrderFree
  <2> DEFINE rev == Reverse(config.policies)
  <2>1. Laid(config, Policies) /\ AllApart(config)
    BY DisjointnessIs DEF IInv
  <2>2. config.policies \in Seq(Policies) /\ KeysDiffer(config.policies)
    BY <2>1, PlaceIs DEF Laid
  <2>3. rev \in Seq(Policies) /\ KeysDiffer(rev) /\ ToSet(rev) = ToSet(config.policies)
    BY <2>2, ReverseIs
  <2> HIDE DEF rev
  <2>4. Laid(ConfigOf(rev), Policies)
    BY <2>3, CloneLaid DEF ConfigOf
  <2>5. \A q : q \in ToSet(ConfigOf(rev).policies) <=> q \in ToSet(rev)
    BY <2>3, CloneKeeps DEF ConfigOf
  <2>6. ToSet(ConfigOf(rev).policies) = ToSet(config.policies)
    BY <2>3, <2>5
  <2>7. AllAllowed(ConfigOf(rev)) = AllAllowed(config)
    BY <2>1, <2>4, <2>6, ApartMeans
  <2> QED
    BY <2>7 DEF rev
<1> QED
  BY <1>1, Invariance, PTL
-----------------------------------------------------------------------------
(***************************************************************************)
(* The pass over the sorted policies that looks for conflicts.               *)
(***************************************************************************)
\* The comparison of Calico's policies, and what a sorted list says of two of them.
LEMMA CalicoOrder ==
  ASSUME NEW a \in Policies, a.kind = "calico", NEW b \in Policies, b.kind = "calico"
  PROVE  /\ Less(a, b) => a.order # b.order
         /\ \A c \in Policies : c.kind = "calico" /\ Less(b, c) => (Less(a, b) \/ a.order = b.order => Less(a, c))
         /\ \A cfg : Sooner(cfg, a, b) \/ SameVoice(a, b) => Less(a, b) \/ a.order = b.order
<1>1. \A c \in Policies : c.order \in Nat \cup {NoOrder}
  BY PolicyFields
<1>2. a.order \in Int /\ b.order \in Int /\ \A c \in Policies : c.order \in Int /\ (c.order # NoOrder => c.order >= 0)
  BY <1>1 DEF NoOrder
<1>3. \A x, y \in Policies : x.kind = "calico" =>
        (Less(x, y) <=> x.order # NoOrder /\ (y.order = NoOrder \/ x.order < y.order))
  BY DEF Less
<1>4. Less(a, b) => a.order # b.order
  BY <1>2, <1>3
<1>5. ASSUME NEW c \in Policies, Less(b, c), Less(a, b) \/ a.order = b.order PROVE Less(a, c)
  BY <1>2, <1>3, <1>5
<1>6. \A cfg : Sooner(cfg, a, b) \/ SameVoice(a, b) => Less(a, b) \/ a.order = b.order
  BY <1>3 DEF Sooner, SameVoice
<1> QED
  BY <1>4, <1>5, <1>6

\* Two of the first n policies of the list are Calico's and conflict.
ConflictIn(list, n) ==
  \E i, j \in 1 .. n : /\ i < j /\ list[i].kind = "calico" /\ list[j].kind = "calico"
                       /\ is_conflicting(list[i], list[j])
\* What the pass has after n policies: those of Calico's last order, which are all of
\* that order, and whether two conflicted.
Grouped(list, n, x) ==
  /\ \A q \in ToSet(x.curr) : q.kind = "calico" /\ (\E i \in 1 .. n : list[i] = q) /\ q.order = x.curr[1].order
  /\ \A i \in 1 .. n : list[i].kind = "calico" =>
       x.curr # << >> /\ (list[i] \in ToSet(x.curr) \/ Less(list[i], x.curr[1]))
  /\ x.found <=> ConflictIn(list, n)
\* The list is sorted by the order of evaluation.
Ordered(cfg, list) ==
  \A i, j \in 1 .. Len(list) : i < j =>
    list[i] # list[j] /\ (Sooner(cfg, list[i], list[j]) \/ SameVoice(list[i], list[j]))

\* A conflict has no direction.
LEMMA ConflictsBothWays ==
  ASSUME NEW p, NEW q
  PROVE  is_conflicting(p, q) <=> is_conflicting(q, p)
BY DEF is_conflicting

\* One more policy, not of Calico.
LEMMA OtherScanned ==
  ASSUME NEW list \in Seq(Policies), NEW n \in 1 .. Len(list), NEW x, Grouped(list, n - 1, x),
         list[n].kind # "calico"
  PROVE  Grouped(list, n, x)
<1>1. \A i \in 1 .. n : list[i].kind = "calico" => i \in 1 .. n - 1
  OBVIOUS
<1>2. \A i \in 1 .. n - 1 : i \in 1 .. n
  OBVIOUS
<1>3. ConflictIn(list, n) <=> ConflictIn(list, n - 1)
  BY <1>1, <1>2 DEF ConflictIn
<1> QED
  BY <1>1, <1>2, <1>3 DEF Grouped

\* One more policy of Calico: it conflicts with one before it exactly if it does with one
\* of the group that it joins.
LEMMA CalicoScanned ==
  ASSUME NEW cfg, NEW list \in Seq(Policies), Ordered(cfg, list), NEW n \in 1 .. Len(list),
         NEW x, x.curr \in Seq(Policies), Grouped(list, n - 1, x), list[n].kind = "calico"
  PROVE  Grouped(list, n, Scanned(x, list[n]))
<1> DEFINE p == list[n]
           old == x.curr
           curr == SameOrder(old, p)
           new == Scanned(x, p)
<1>1. p \in Policies /\ p.kind = "calico" /\ old \in Seq(Policies)
  OBVIOUS
<1>2. new.curr = curr /\ (new.found <=> x.found \/ \E q \in ToSet(curr) \ {p} : is_conflicting(p, q))
  BY <1>1 DEF Scanned
<1> HIDE DEF new
<1>3. \A i \in 1 .. n - 1 : i \in 1 .. n /\ i \in 1 .. Len(list) /\ i < n
  OBVIOUS
<1>4. \A i \in 1 .. n : i = n \/ i \in 1 .. n - 1
  OBVIOUS
<1>5. /\ \A q \in ToSet(old) : q.kind = "calico" /\ (\E i \in 1 .. n - 1 : list[i] = q) /\ q.order = old[1].order
      /\ \A i \in 1 .. n - 1 : list[i].kind = "calico" =>
           old # << >> /\ (list[i] \in ToSet(old) \/ Less(list[i], old[1]))
      /\ x.found <=> ConflictIn(list, n - 1)
  BY DEF Grouped
<1>6. \A i \in 1 .. n - 1 : list[i] \in Policies /\ list[i] # p /\ (Sooner(cfg, list[i], p) \/ SameVoice(list[i], p))
  BY <1>3 DEF Ordered
<1>7. ASSUME NEW q \in ToSet(old) PROVE q \in Policies /\ q # p /\ (Less(q, p) \/ q.order = p.order)
  <2>1. PICK i \in 1 .. n - 1 : list[i] = q
    BY <1>5
  <2>2. q \in Policies /\ q.kind = "calico" /\ q # p /\ (Sooner(cfg, q, p) \/ SameVoice(q, p))
    BY <1>5, <1>6, <2>1
  <2> QED
    BY <1>1, <2>2, CalicoOrder
<1>8. old # << >> => old[1] \in ToSet(old)
  <2> SUFFICES ASSUME old # << >> PROVE old[1] \in ToSet(old)
    OBVIOUS
  <2>1. 1 \in 1 .. Len(old)
    BY <1>1
  <2> QED
    BY <1>1, <2>1, Members
<1> HIDE DEF p, old
<1>9. ASSUME new.curr = curr, curr # << >>,
             \A q \in ToSet(curr) : q.kind = "calico" /\ (\E i \in 1 .. n : list[i] = q) /\ q.order = curr[1].order,
             p \in ToSet(curr),
             \A i \in 1 .. n - 1 : list[i].kind = "calico" => list[i] \in ToSet(curr) \/ Less(list[i], curr[1]),
             curr[1].order = p.order, curr[1] \in Policies
      PROVE  Grouped(list, n, new)
  <2>1. \A i \in 1 .. n : list[i].kind = "calico" => list[i] \in ToSet(curr) \/ Less(list[i], curr[1])
    BY <1>4, <1>9 DEF p
  <2>2. curr[1].kind = "calico"
    <3>1. curr \in Seq(Policies)
      BY <1>1, Appending DEF SameOrder
    <3> HIDE DEF curr
    <3>2. 1 \in 1 .. Len(curr)
      BY <1>9, <3>1
    <3> QED
      BY <1>9, <3>1, <3>2, Members
  <2> HIDE DEF curr
  <2>3. ASSUME NEW i \in 1 .. n - 1, list[i].kind = "calico", is_conflicting(list[i], p)
        PROVE  \E q \in ToSet(curr) \ {p} : is_conflicting(p, q)
    <3>1. list[i].order = p.order
      BY <2>3 DEF is_conflicting
    <3>2. ~Less(list[i], curr[1])
      BY <1>6, <1>9, <2>2, <2>3, <3>1, CalicoOrder
    <3>3. list[i] \in ToSet(curr)
      BY <1>9, <2>3, <3>2
    <3> QED
      BY <1>6, <2>3, <3>3, ConflictsBothWays
  <2>4. ASSUME NEW q \in ToSet(curr) \ {p}, is_conflicting(p, q)
        PROVE  \E i \in 1 .. n - 1 : list[i].kind = "calico" /\ is_conflicting(list[i], p)
    <3>1. PICK i \in 1 .. n : list[i] = q
      BY <1>9
    <3>2. i \in 1 .. n - 1 /\ q.kind = "calico"
      BY <1>4, <1>9, <3>1 DEF p
    <3> QED
      BY <2>4, <3>1, <3>2, ConflictsBothWays
  <2>5. ConflictIn(list, n) <=>
          ConflictIn(list, n - 1) \/ \E i \in 1 .. n - 1 : list[i].kind = "calico" /\ is_conflicting(list[i], p)
    <3>1. n \in 1 .. n /\ \A i, j \in 1 .. n : i < j => i \in 1 .. n - 1 /\ (j = n \/ j \in 1 .. n - 1)
      BY <1>4
    <3> QED
      BY <1>1, <1>3, <3>1 DEF ConflictIn, p
  <2>6. new.found <=> ConflictIn(list, n)
    BY <1>2, <1>5, <2>3, <2>4, <2>5
  <2> QED
    BY <1>9, <2>1, <2>6 DEF Grouped
<1>10. ASSUME old # << >>, Less(old[1], p) PROVE Grouped(list, n, new)
  <2>1. curr = <<p>>
    BY <1>10 DEF SameOrder
  <2>2. ToSet(<<p>>) = {p} /\ <<p>> # << >> /\ <<p>>[1] = p
    <3>1. <<p>> \in Seq(Policies) /\ 1 .. Len(<<p>>) = {1} /\ <<p>>[1] = p
      BY <1>1
    <3>2. \A z : z \in ToSet(<<p>>) <=> z = p
      BY <3>1, Members
    <3> QED
      BY <3>1, <3>2
  <2> HIDE DEF curr
  <2>3. ASSUME NEW i \in 1 .. n - 1, list[i].kind = "calico" PROVE Less(list[i], p)
    <3>1. old[1] \in Policies /\ old[1].kind = "calico"
      BY <1>5, <1>7, <1>8, <1>10
    <3>2. Less(list[i], old[1]) \/ list[i].order = old[1].order
      BY <1>5, <2>3
    <3> QED
      BY <1>1, <1>6, <1>10, <2>3, <3>1, <3>2, CalicoOrder
  <2>4. n \in 1 .. n /\ list[n] = p
    BY DEF p
  <2> QED
    BY <1>1, <1>2, <1>9, <2>1, <2>2, <2>3, <2>4
<1>11. ASSUME old = << >> \/ ~Less(old[1], p) PROVE Grouped(list, n, new)
  <2>1. curr = Append(old, p)
    BY <1>11 DEF SameOrder
  <2>2. /\ curr \in Seq(Policies) /\ ToSet(curr) = ToSet(old) \cup {p} /\ Len(curr) = Len(old) + 1
        /\ \A i \in 1 .. Len(old) : curr[i] = old[i]
        /\ curr[Len(old) + 1] = p
    BY <1>1, <2>1, Appending
  <2> HIDE DEF curr
  <2>3. curr # << >> /\ Len(old) \in Nat
    BY <1>1, <2>2
  <2>4. CASE old = << >>
    <3>1. Len(old) = 0 /\ ToSet(old) = {}
      BY <1>1, <2>4, EmptyList
    <3>2. curr[1] = p /\ ToSet(curr) = {p}
      BY <2>2, <3>1
    <3>3. n \in 1 .. n /\ list[n] = p
      BY DEF p
    <3>4. \A i \in 1 .. n - 1 : list[i].kind # "calico"
      BY <1>5, <2>4
    <3> QED
      BY <1>1, <1>2, <1>9, <2>3, <3>2, <3>3, <3>4
  <2>5. CASE old # << >>
    <3>1. curr[1] = old[1] /\ old[1] \in ToSet(old)
      <4>1. Len(old) # 0
        BY <1>1, <2>5, EmptyList
      <4> QED
        BY <1>8, <2>2, <2>3, <2>5, <4>1
    <3>2. old[1].order = p.order
      BY <1>7, <1>11, <2>5, <3>1
    <3>3. n \in 1 .. n /\ list[n] = p
      BY DEF p
    <3>4. \A q \in ToSet(curr) : q.kind = "calico" /\ (\E i \in 1 .. n : list[i] = q) /\ q.order = curr[1].order
      BY <1>1, <1>3, <1>5, <2>2, <3>1, <3>2, <3>3
    <3>5. \A i \in 1 .. n - 1 : list[i].kind = "calico" => list[i] \in ToSet(curr) \/ Less(list[i], curr[1])
      BY <1>5, <2>2, <3>1
    <3> QED
      BY <1>2, <1>7, <1>9, <2>2, <2>3, <3>1, <3>2, <3>4, <3>5
  <2> QED
    BY <2>4, <2>5
<1> QED
  BY <1>10, <1>11 DEF new, p
\* The pass over a sorted list finds a conflict exactly if there is one.
LEMMA ConflictsFound ==
  ASSUME NEW cfg, Laid(cfg, Policies), InOrder(cfg)
  PROVE  ConflictScan(cfg) <=> Conflicting(cfg)
<1> DEFINE list == LayerList(cfg, "K8s_Calico")
           N == Len(list)
           none == [curr |-> << >>, found |-> FALSE]
           Results == [curr : Seq(Policies), found : BOOLEAN]
           scan == CHOOSE f : f = [n \in 0 .. N |-> IF n = 0 THEN none ELSE Scanned(f[n - 1], list[n])]
           T == {n \in 0 .. N : scan[n] \in Results /\ Grouped(list, n, scan[n])}
<1>1. InLayers(cfg) /\ Sorted(cfg, "K8s_Calico", list)
  BY SortedLayers, LayerListSorted
<1>2. Ordered(cfg, list)
  <2>1. CASE "K8s_Calico" \in DOMAIN cfg.layers
    BY <1>1, <2>1 DEF InOrder, LayerList, Ordered, Sorted
  <2>2. CASE "K8s_Calico" \notin DOMAIN cfg.layers
    <3>1. 1 .. Len(list) = {}
      BY <2>2 DEF LayerList
    <3> HIDE DEF list
    <3> QED
      BY <3>1 DEF Ordered
  <2> QED
    BY <2>1, <2>2
<1>3. list \in Seq(Policies) /\ ToSet(list) = InLayer(cfg, "K8s_Calico")
  BY <1>1 DEF Sorted
<1>4. ConflictScan(cfg) = scan[N].found
  BY DEF ConflictScan, LayerList
<1> HIDE DEF list
<1>5. N \in Nat /\ \A n \in 1 .. N : list[n] \in Policies
  BY <1>3
<1>6. none \in Results
  OBVIOUS
<1>7. ASSUME NEW p \in Policies, NEW x \in Results PROVE Scanned(x, p) \in Results
  <2>1. SameOrder(x.curr, p) \in Seq(Policies)
    <3>1. x.curr \in Seq(Policies)
      OBVIOUS
    <3> QED
      BY <3>1, Appending DEF SameOrder
  <2> QED
    BY <2>1 DEF Scanned
<1>8. \E f : f = [n \in 0 .. N |-> IF n = 0 THEN none ELSE Scanned(f[n - 1], list[n])]
  <2> DEFINE G == [z \in (1 .. N) \X Results |-> Scanned(z[2], list[z[1]])]
  <2>1. G \in [(1 .. N) \X Results -> Results]
    <3> HIDE DEF Results, N
    <3> QED
      BY <1>5, <1>7
  <2> HIDE DEF G, none
  <2>2. PICK f : Iterates(f, N, Results, none, G)
    BY <1>5, <1>6, <2>1, IterationExists
  <2>3. ASSUME NEW n \in 0 .. N, n # 0 PROVE f[n] = Scanned(f[n - 1], list[n])
    <3>1. n \in 1 .. N /\ n - 1 \in 0 .. N
      BY <1>5, <2>3
    <3>2. f[n - 1] \in Results
      BY <2>2, <3>1 DEF Iterates
    <3> QED
      BY <2>2, <3>1, <3>2 DEF G, Iterates
  <2>4. f = [n \in 0 .. N |-> IF n = 0 THEN none ELSE Scanned(f[n - 1], list[n])]
    BY <2>2, <2>3 DEF Iterates
  <2> QED
    BY <2>4
<1>9. scan = [n \in 0 .. N |-> IF n = 0 THEN none ELSE Scanned(scan[n - 1], list[n])]
  BY <1>8
<1> HIDE DEF scan
<1>10. 0 \in T
  <2>1. scan[0] = none /\ 0 \in 0 .. N
    BY <1>5, <1>9
  <2>2. Grouped(list, 0, none)
    <3>1. none.curr \in Seq(Policies) /\ none.curr = << >> /\ 1 .. 0 = {} /\ none.found = FALSE
      OBVIOUS
    <3> HIDE DEF none
    <3>2. ToSet(none.curr) = {}
      BY <3>1, EmptyList
    <3> QED
      BY <3>1, <3>2 DEF Grouped, ConflictIn
  <2> HIDE DEF Results, none
  <2> QED
    BY <1>6, <2>1, <2>2
<1>11. ASSUME NEW n \in 1 .. N, n - 1 \in T PROVE n \in T
  <2> DEFINE x == scan[n - 1]
             p == list[n]
  <2>1. n \in 0 .. N /\ n # 0 /\ p \in Policies
    BY <1>5
  <2>2. x \in Results /\ Grouped(list, n - 1, x)
    BY <1>11
  <2>3. scan[n] = Scanned(x, p)
    <3> HIDE DEF N, none
    <3> QED
      BY <1>9, <2>1
  <2>4. x.curr \in Seq(Policies)
    BY <2>2
  <2> HIDE DEF x, Results
  <2>5. Grouped(list, n, scan[n])
    <3>1. CASE p.kind = "calico"
      BY <1>2, <1>3, <2>2, <2>3, <2>4, <3>1, CalicoScanned
    <3>2. CASE p.kind # "calico"
      <4>1. scan[n] = x
        BY <2>3, <3>2 DEF Scanned
      <4> QED
        BY <1>3, <2>2, <3>2, <4>1, OtherScanned
    <3> QED
      BY <3>1, <3>2
  <2>6. scan[n] \in Results
    BY <1>7, <2>1, <2>2, <2>3
  <2> QED
    BY <2>1, <2>5, <2>6
<1>12. N \in T
  <2> HIDE DEF T
  <2>1. 0 .. N \subseteq T
    BY <1>5, <1>10, <1>11, UpTo
  <2> QED
    BY <1>5, <2>1
<1>13. scan[N].found <=> ConflictIn(list, N)
  BY <1>12 DEF Grouped
<1>14. ConflictIn(list, N) <=> Conflicting(cfg)
  <2>1. ASSUME ConflictIn(list, N) PROVE Conflicting(cfg)
    <3>1. PICK i \in 1 .. N, j \in 1 .. N :
            /\ i < j /\ list[i].kind = "calico" /\ list[j].kind = "calico" /\ is_conflicting(list[i], list[j])
      BY <2>1 DEF ConflictIn
    <3>2. list[i] # list[j]
      BY <1>2, <3>1 DEF Ordered
    <3>3. list[i] \in InLayer(cfg, "K8s_Calico") /\ list[j] \in InLayer(cfg, "K8s_Calico")
      BY <1>3, Members
    <3> QED
      BY <3>1, <3>2, <3>3 DEF Conflicting
  <2>2. ASSUME Conflicting(cfg) PROVE ConflictIn(list, N)
    <3>1. PICK p \in ToSet(list), q \in ToSet(list) :
            p # q /\ p.kind = "calico" /\ q.kind = "calico" /\ is_conflicting(p, q)
      BY <1>3, <2>2 DEF Conflicting
    <3>2. PICK i \in 1 .. N : list[i] = p
      BY <1>3, Members
    <3>3. PICK j \in 1 .. N : list[j] = q
      BY <1>3, Members
    <3>4. i < j \/ j < i
      BY <3>1, <3>2, <3>3
    <3> QED
      BY <3>1, <3>2, <3>3, <3>4, ConflictsBothWays DEF ConflictIn
  <2> QED
    BY <2>1, <2>2
<1> QED
  BY <1>4, <1>13, <1>14
-----------------------------------------------------------------------------
(***************************************************************************)
(* Sanity.                                                                   *)
(***************************************************************************)
\* Without gateway layers the layers that the queries look at have all the policies.
LEMMA LayersCover ==
  ASSUME NEW cfg, Laid(cfg, Policies), DOMAIN cfg.layers \cap GatewayLayers = {}
  PROVE  /\ PolicyLayers(cfg) = DOMAIN cfg.layers
         /\ \A n \in PolicyLayers(cfg) : LayerList(cfg, n) = cfg.layers[n]
         /\ \A p : p \in ToSet(cfg.policies) <=> \E n \in PolicyLayers(cfg) : p \in ToSet(cfg.layers[n])
<1>1. PolicyLayers(cfg) = DOMAIN cfg.layers
  BY DEF PolicyLayers
<1>2. ASSUME NEW p \in ToSet(cfg.policies) PROVE \E n \in DOMAIN cfg.layers : p \in ToSet(cfg.layers[n])
  <2>1. cfg.policies # << >>
    BY EmptyList DEF Laid
  <2>2. policy_type_to_layer(p) \in DOMAIN cfg.layers
    BY <2>1 DEF Laid
  <2> QED
    BY <2>2 DEF Laid, InLayer
<1>3. ASSUME NEW n \in DOMAIN cfg.layers, NEW p \in ToSet(cfg.layers[n]) PROVE p \in ToSet(cfg.policies)
  BY DEF Laid, InLayer
<1>4. \A n \in DOMAIN cfg.layers : LayerList(cfg, n) = cfg.layers[n]
  BY DEF LayerList
<1> QED
  BY <1>1, <1>2, <1>3, <1>4

\* A policy with nothing for the emptiness query to report.
Filled(p) == ~is_policy_empty(p) /\ \A dir \in Directions : EmptyRules(p, dir) = {}

\* The emptiness query finds nothing.
LEMMA EmptinessIs ==
  ASSUME NEW cfg
  PROVE  Emptiness(cfg) = {} <=> \A p \in ToSet(cfg.policies) : Filled(p)
<1> DEFINE Found(p) == Where(is_policy_empty(p), {<<"policy", Key(p)>>})
                       \cup UNION {{<<"rule", Key(p), dir, i>> : i \in EmptyRules(p, dir)} : dir \in Directions}
<1>1. Emptiness(cfg) = {} <=> \A p \in ToSet(cfg.policies) : Found(p) = {}
  <2> HIDE DEF Found
  <2>1. Emptiness(cfg) = UNION {Found(p) : p \in ToSet(cfg.policies)}
    BY DEF Emptiness, Found
  <2> QED
    BY <2>1
<1>2. ASSUME NEW p PROVE Found(p) = {} <=> Filled(p)
  <2>1. ASSUME Found(p) = {} PROVE Filled(p)
    <3>1. ~is_policy_empty(p)
      BY <2>1 DEF Where
    <3>2. ASSUME NEW dir \in Directions, NEW i \in EmptyRules(p, dir) PROVE FALSE
      <4>1. <<"rule", Key(p), dir, i>> \in Found(p)
        OBVIOUS
      <4> QED
        BY <2>1, <4>1
    <3> QED
      BY <3>1, <3>2 DEF Filled
  <2>2. ASSUME Filled(p) PROVE Found(p) = {}
    BY <2>2 DEF Filled, Where
  <2> QED
    BY <2>1, <2>2
<1> HIDE DEF Found
<1> QED
  BY <1>1, <1>2
\* A policy with nothing for the redundancy query to report.
Needed(cfg, n, p) ==
  p.name \notin RedundantPolicies(cfg, n) /\ \A dir \in Directions : RedundantRules(cfg, n, p, dir) = {}

\* The redundancy query finds nothing, though it looks at the rules of no policy it
\* reports.
LEMMA RedundancyIs ==
  ASSUME NEW cfg, \A n \in PolicyLayers(cfg) : LayerList(cfg, n) = cfg.layers[n]
  PROVE  Redundancy(cfg) = {} <=> \A n \in PolicyLayers(cfg) : \A p \in ToSet(cfg.layers[n]) : Needed(cfg, n, p)
<1> DEFINE OfNames(n) == {<<"policy", n, name>> : name \in RedundantPolicies(cfg, n)}
           OfRules(n, p, dir) == {<<"rule", n, Key(p), dir, i>> : i \in RedundantRules(cfg, n, p, dir)}
           Found(n) == OfNames(n) \cup UNION {OfRules(n, x[1], x[2]) : x \in RulesToCheck(cfg, n) \X Directions}
<1>1. Redundancy(cfg) = UNION {Found(n) : n \in PolicyLayers(cfg)}
  BY DEF Redundancy
<1>2. ASSUME NEW n \in PolicyLayers(cfg)
      PROVE  Found(n) = {} <=> \A p \in ToSet(cfg.layers[n]) : Needed(cfg, n, p)
  <2>1. ASSUME Found(n) = {}, NEW p \in ToSet(cfg.layers[n]) PROVE Needed(cfg, n, p)
    <3>1. OfNames(n) = {}
      BY <2>1
    <3>2. p.name \notin RedundantPolicies(cfg, n)
      BY <3>1
    <3>3. p \in RulesToCheck(cfg, n)
      BY <3>2 DEF RulesToCheck
    <3> HIDE DEF OfNames
    <3>4. ASSUME NEW dir \in Directions, NEW i \in RedundantRules(cfg, n, p, dir) PROVE FALSE
      <4> DEFINE x == <<p, dir>>
      <4>1. x \in RulesToCheck(cfg, n) \X Directions /\ x[1] = p /\ x[2] = dir
        BY <3>3
      <4>2. <<"rule", n, Key(p), dir, i>> \in OfRules(n, p, dir)
        OBVIOUS
      <4> HIDE DEF OfRules, x
      <4>3. <<"rule", n, Key(p), dir, i>> \in Found(n)
        BY <4>1, <4>2
      <4> QED
        BY <2>1, <4>3
    <3> QED
      BY <3>2, <3>4 DEF Needed
  <2>2. ASSUME \A p \in ToSet(cfg.layers[n]) : Needed(cfg, n, p) PROVE Found(n) = {}
    <3>1. RedundantPolicies(cfg, n) = {}
      <4> SUFFICES ASSUME NEW name \in RedundantPolicies(cfg, n) PROVE FALSE
        OBVIOUS
      <4>1. PICK p \in ToSet(cfg.layers[n]) : p.name = name
        BY DEF RedundantPolicies
      <4> QED
        BY <2>2, <4>1 DEF Needed
    <3>2. ASSUME NEW x \in RulesToCheck(cfg, n) \X Directions PROVE OfRules(n, x[1], x[2]) = {}
      <4>1. x[1] \in ToSet(cfg.layers[n]) /\ x[2] \in Directions
        BY DEF RulesToCheck
      <4>2. RedundantRules(cfg, n, x[1], x[2]) = {}
        BY <2>2, <4>1 DEF Needed
      <4> QED
        BY <4>2
    <3>3. OfNames(n) = {}
      BY <3>1
    <3> HIDE DEF OfNames, OfRules
    <3> QED
      BY <3>2, <3>3
  <2> QED
    BY <2>1, <2>2
<1> HIDE DEF Found
<1>3. Redundancy(cfg) = {} <=> \A n \in PolicyLayers(cfg) : Found(n) = {}
  BY <1>1
<1> QED
  BY <1>2, <1>3

\* Sanity reports nothing of a policy, when the configuration is not vacuous, exactly
\* if the other queries do not, though it skips the rules of what it reports and empty rules.
LEMMA PolicyIssuesAre ==
  ASSUME NEW cfg, NEW n, NEW p
  PROVE  PolicyIssues(cfg, n, p, FALSE) = {} <=> Filled(p) /\ Needed(cfg, n, p)
<1> DEFINE empty == UNION {{<<"empty rule", Key(p), dir, i>> : i \in EmptyRules(p, dir)} : dir \in Directions}
           redundant == UNION {{<<"redundant rule", Key(p), dir, i, OtherRuleContaining(cfg.layers[n], p, dir, i)>> :
                                  i \in RedundantRules(cfg, n, p, dir) \ EmptyRules(p, dir)} : dir \in Directions}
<1>1. PolicyIssues(cfg, n, p, FALSE) = {} <=>
        ~is_policy_empty(p) /\ empty = {} /\ p.name \notin RedundantPolicies(cfg, n) /\ redundant = {}
  <2>1. PolicyIssues(cfg, n, p, FALSE) =
          IF is_policy_empty(p) THEN {<<"empty policy", Key(p)>>}
          ELSE empty \cup IF p.name \in RedundantPolicies(cfg, n)
                            THEN {<<"redundant policy", Key(p), PolicyText(cfg, n, p)>>} ELSE redundant
    BY DEF PolicyIssues
  <2> HIDE DEF empty, redundant
  <2> QED
    BY <2>1
<1>2. empty = {} <=> \A dir \in Directions : EmptyRules(p, dir) = {}
  <2>1. ASSUME empty = {}, NEW dir \in Directions, NEW i \in EmptyRules(p, dir) PROVE FALSE
    <3>1. <<"empty rule", Key(p), dir, i>> \in empty
      OBVIOUS
    <3> QED
      BY <2>1, <3>1
  <2>2. ASSUME \A dir \in Directions : EmptyRules(p, dir) = {} PROVE empty = {}
    BY <2>2
  <2> HIDE DEF empty
  <2> QED
    BY <2>1, <2>2
<1>3. redundant = {} <=> \A dir \in Directions : RedundantRules(cfg, n, p, dir) \ EmptyRules(p, dir) = {}
  <2>1. ASSUME redundant = {}, NEW dir \in Directions, NEW i \in RedundantRules(cfg, n, p, dir) \ EmptyRules(p, dir)
        PROVE  FALSE
    <3>1. <<"redundant rule", Key(p), dir, i, OtherRuleContaining(cfg.layers[n], p, dir, i)>> \in redundant
      OBVIOUS
    <3> QED
      BY <2>1, <3>1
  <2>2. ASSUME \A dir \in Directions : RedundantRules(cfg, n, p, dir) \ EmptyRules(p, dir) = {} PROVE redundant = {}
    BY <2>2
  <2> HIDE DEF redundant
  <2> QED
    BY <2>1, <2>2
<1> HIDE DEF empty, redundant
<1> QED
  BY <1>1, <1>2, <1>3 DEF Filled, Needed

\* Sanity finds no issue exactly if the three queries it includes find nothing.
LEMMA SanityIssuesAre ==
  ASSUME NEW cfg, Laid(cfg, Policies), DOMAIN cfg.layers \cap GatewayLayers = {}
  PROVE  SanityIssues(cfg) = {} <=> ~Vacuity(cfg) /\ Emptiness(cfg) = {} /\ Redundancy(cfg) = {}
<1> DEFINE Found(n, p) == PolicyIssues(cfg, n, p, Vacuity(cfg))
           In(n) == UNION {Found(n, p) : p \in ToSet(cfg.layers[n])}
<1>1. SanityIssues(cfg) = Where(Vacuity(cfg), {<<"vacuous">>}) \cup UNION {In(n) : n \in PolicyLayers(cfg)}
  BY DEF SanityIssues
<1>2. CASE Vacuity(cfg)
  <2> HIDE DEF In
  <2> QED
    BY <1>1, <1>2 DEF Where
<1>3. CASE ~Vacuity(cfg)
  <2>1. \A n, p : Found(n, p) = {} <=> Filled(p) /\ Needed(cfg, n, p)
    <3>1. ~Vacuity(cfg) <=> Vacuity(cfg) = FALSE
      BY DEF Vacuity
    <3> QED
      BY <1>3, <3>1, PolicyIssuesAre
  <2> HIDE DEF Found
  <2>2. \A n : In(n) = {} <=> \A p \in ToSet(cfg.layers[n]) : Found(n, p) = {}
    OBVIOUS
  <2> HIDE DEF In
  <2>3. SanityIssues(cfg) = {} <=> \A n \in PolicyLayers(cfg) : In(n) = {}
    BY <1>1, <1>3 DEF Where
  <2>4. Redundancy(cfg) = {} <=> \A n \in PolicyLayers(cfg) : \A p \in ToSet(cfg.layers[n]) : Needed(cfg, n, p)
    BY LayersCover, RedundancyIs
  <2>5. Emptiness(cfg) = {} <=> \A n \in PolicyLayers(cfg) : \A p \in ToSet(cfg.layers[n]) : Filled(p)
    BY LayersCover, EmptinessIs
  <2> QED
    BY <1>3, <2>1, <2>2, <2>3, <2>4, <2>5
<1> QED
  BY <1>2, <1>3

\* Sanity "includes emptiness, vacuity and redundancies": a configuration without gateway
\* layers passes exactly if no two policies conflict and those queries find nothing.
THEOREM SanityIsTheRest == Spec => []SanityIncludes
<1>1. IInv => SanityIncludes
  <2> SUFFICES ASSUME IInv, HasPolicies(config), DOMAIN config.layers \cap GatewayLayers = {}
               PROVE  Sanity(config) <=> /\ ~Conflicting(config) /\ ~Vacuity(config)
                                         /\ Emptiness(config) = {} /\ Redundancy(config) = {}
    BY DEF SanityIncludes
  <2>1. Laid(config, Policies) /\ InOrder(config)
    BY DEF IInv
  <2>2. ConflictScan(config) <=> Conflicting(config)
    BY <2>1, ConflictsFound
  <2>3. SanityIssues(config) = {} <=> ~Vacuity(config) /\ Emptiness(config) = {} /\ Redundancy(config) = {}
    BY <2>1, SanityIssuesAre
  <2> QED
    BY <2>2, <2>3 DEF Sanity
<1> QED
  BY <1>1, Invariance, PTL
=============================================================================
