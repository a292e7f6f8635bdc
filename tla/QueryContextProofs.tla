------------------------- MODULE QueryContextProofs -------------------------
(***************************************************************************)
(* Proofs about QueryContext: whatever the configurations, their pods, the   *)
(* sharing of pods between them and the queries asked, no query sees a rule   *)
(* or a policy as an earlier query left it.                                   *)
(***************************************************************************)
EXTENDS QueryContext, FiniteSetTheorems, TLAPS

(***************************************************************************)
(* The inductive invariant.  It says of every phase what the narrowed domain *)
(* is, how far the loop over the policies has come, and in which of three     *)
(* states each rule is.                                                       *)
(***************************************************************************)
LoadedPolicies == UNION {PoliciesOf[c] : c \in loaded}
InQuery == phase \in {"reorganizing", "executing", "restoring"}
Narrowed == phase \in {"reorganizing", "executing"}
\* The loop has still to visit p.
Left(p) == \E i \in 1 .. 2 : <<i, p>> \in todo

\* The pods are numbered without gaps or repetitions.
Numbered ==
  /\ \A i, j \in DOMAIN ordered : i # j => ordered[i] # ordered[j]
  /\ \A c \in loaded : PodsOf[c] \subseteq ToSet(ordered)

DomainFits ==
  domain = IF Narrowed THEN IndicesOf(QueryPeers(query), ordered) ELSE GeneralDomain

QueryFits ==
  /\ \A i \in DOMAIN query : i \in 1 .. 2 /\ query[i] \in Named
  /\ todo \subseteq Visits(query)
  /\ phase \notin {"reorganizing", "restoring"} => todo = {}
  /\ ~InQuery => query = << >>

\* What the manifest of r says.
Exact(r) == Only(Meaning(Selects[r]))
AsParsed(r) == props[r] = Exact(r) /\ copy[r] = Empty
Reduced(r) == copy[r] = Exact(r) /\ props[r] = Reduce(Exact(r), domain)
\* restore_props will find the right copy, or none and nothing to restore.
Saved(r) == copy[r] = Exact(r) /\ (Exact(r) = Empty => props[r] = Empty)

RulesFit ==
  /\ phase = "parsing" => \A r \in Rules : copy[r] = Empty
  /\ phase # "idle" =>
       \A p \in LoadedPolicies : \A r \in RulesOf[p] :
         IF ~InQuery \/ p \notin QueryPolicies(query) THEN AsParsed(r)
         ELSE IF Narrowed THEN Reduced(r) \/ (Left(p) /\ AsParsed(r))
         ELSE AsParsed(r) \/ (Left(p) /\ Saved(r))

\* The peers that the rules R select between them.
SelectedBy(R) == UNION {Selects[r] : r \in R}
Computed(R) == Reduce(Only(Meaning(SelectedBy(R))), domain)

SyncFits ==
  /\ \A p \in Policies : inSync[p] =>
       \/ phase = "executing" /\ p \in QueryPolicies(query)
                              /\ derived[p] = Computed(RulesOf[p])
       \/ phase = "restoring" /\ Left(p)
  /\ \A p \in syncing :
       /\ phase = "executing" /\ p \in QueryPolicies(query) /\ syncing = {p}
       /\ unread \subseteq RulesOf[p]
       /\ derived[p] = Computed(RulesOf[p] \ unread)

Sound == DomainFits /\ QueryFits /\ RulesFit /\ SyncFits
\* A query that raised leaves the context as it was, so nothing is said of a
\* process after one.
IInv == TypeOK /\ Numbered /\ (raised \/ Sound)

(***************************************************************************)
(* The numbering of peers.                                                 *)
(***************************************************************************)
\* A sequence without repetitions is no longer than the set it is over.
LEMMA DistinctLength ==
  ASSUME NEW list \in Seq(Pods),
         \A i, j \in DOMAIN list : i # j => list[i] # list[j]
  PROVE  Len(list) =< Cardinality(Pods)
  <1>1. list \in Injection(1 .. Len(list), Pods)
    BY DEF Injection, IsInjective
  <1>2. Cardinality(1 .. Len(list)) =< Cardinality(Pods)
    BY <1>1, FS_Injection, RoomAssumption
  <1>3. Cardinality(1 .. Len(list)) = Len(list)
    <2>1. Len(list) \in Nat
      OBVIOUS
    <2> QED
      BY <2>1, FS_Interval
  <1> QED
    BY <1>2, <1>3

\* A listing of a finite set has each of its elements.
LEMMA Listing ==
  ASSUME NEW S, IsFiniteSet(S), NEW s \in SetToSeqs(S)
  PROVE  /\ s \in Seq(S)
         /\ \A i, j \in DOMAIN s : i # j => s[i] # s[j]
         /\ ToSet(s) = S
  <1> DEFINE D == 1 .. Cardinality(S)
  <1>1. Cardinality(S) \in Nat
    BY FS_CardinalityType
  <1>2. /\ s \in [D -> S]
        /\ \A i, j \in D : i # j => s[i] # s[j]
    BY DEF SetToSeqs
  <1>3. s \in Injection(D, S)
    BY <1>2 DEF Injection, IsInjective
  <1>4. Cardinality(D) = Cardinality(S)
    BY <1>1, FS_Interval
  <1>5. s \in Surjection(D, S)
    BY <1>3, <1>4, FS_Injection
  <1>6. s \in Seq(S) /\ DOMAIN s = D
    BY <1>1, <1>2
  <1> QED
    BY <1>2, <1>5, <1>6 DEF Surjection, ToSet

\* add_peer leaves the numbers of the peers it finds alone, and gives each new
\* peer a number of its own.
LEMMA Adding ==
  ASSUME NEW list \in Seq(Pods),
         \A i, j \in DOMAIN list : i # j => list[i] # list[j],
         NEW S \in SUBSET Pods, NEW longer \in AddedTo(list, S)
  PROVE  /\ longer \in Seq(Pods) /\ Len(longer) =< Cardinality(Pods)
         /\ \A i, j \in DOMAIN longer : i # j => longer[i] # longer[j]
         /\ ToSet(list) \cup S \subseteq ToSet(longer)
         /\ \A i \in DOMAIN list : i \in DOMAIN longer /\ longer[i] = list[i]
         /\ \A i \in DOMAIN longer \ DOMAIN list : longer[i] \notin ToSet(list)
  <1> DEFINE fresh == S \ ToSet(list)
  <1>1. PICK s \in SetToSeqs(fresh) : longer = list \o s
    BY DEF AddedTo
  <1>2. IsFiniteSet(fresh)
    BY RoomAssumption, FS_Subset
  <1>3. /\ s \in Seq(fresh)
        /\ \A i, j \in DOMAIN s : i # j => s[i] # s[j]
        /\ ToSet(s) = fresh
    BY <1>2, Listing
  <1>4. s \in Seq(Pods)
    BY <1>3
  <1>5. /\ longer \in Seq(Pods) /\ Len(longer) = Len(list) + Len(s)
        /\ \A i \in 1 .. Len(list) : longer[i] = list[i]
        /\ \A i \in 1 .. Len(s) : longer[Len(list) + i] = s[i]
        /\ \A i \in DOMAIN longer \ DOMAIN list :
             i - Len(list) \in 1 .. Len(s) /\ longer[i] = s[i - Len(list)]
    BY <1>1, <1>4
  <1>6. \A i \in DOMAIN longer \ DOMAIN list : longer[i] \notin ToSet(list)
    BY <1>3, <1>5
  <1>7. \A i \in DOMAIN list : i \in DOMAIN longer /\ longer[i] = list[i]
    BY <1>4, <1>5
  <1>8. ASSUME NEW i \in DOMAIN longer, NEW j \in DOMAIN longer, i # j
        PROVE  longer[i] # longer[j]
    <2>1. CASE i \in DOMAIN list /\ j \in DOMAIN list
      BY <1>7, <1>8, <2>1
    <2>2. CASE i \in DOMAIN list /\ j \notin DOMAIN list
      BY <1>6, <1>7, <2>2 DEF ToSet
    <2>3. CASE i \notin DOMAIN list /\ j \in DOMAIN list
      BY <1>6, <1>7, <2>3 DEF ToSet
    <2>4. CASE i \notin DOMAIN list /\ j \notin DOMAIN list
      <3>1. i \in Int /\ j \in Int /\ Len(list) \in Nat /\ Len(s) \in Nat
        BY <1>4, <1>5
      <3>2. /\ i - Len(list) \in DOMAIN s /\ j - Len(list) \in DOMAIN s
            /\ i - Len(list) # j - Len(list)
        BY <1>3, <1>5, <1>8, <2>4, <3>1
      <3> QED
        BY <1>3, <1>5, <2>4, <3>2
    <2> QED
      BY <2>1, <2>2, <2>3, <2>4
  <1>9. ToSet(list) \cup S \subseteq ToSet(longer)
    <2>1. ToSet(list) \subseteq ToSet(longer)
      BY <1>7 DEF ToSet
    <2>2. ASSUME NEW x \in fresh PROVE x \in ToSet(longer)
      <3>1. PICK i \in DOMAIN s : s[i] = x
        BY <1>3 DEF ToSet
      <3>2. Len(list) + i \in DOMAIN longer /\ longer[Len(list) + i] = x
        BY <1>3, <1>4, <1>5, <3>1
      <3> QED
        BY <3>2 DEF ToSet
    <2> QED
      BY <2>1, <2>2
  <1>10. Len(longer) =< Cardinality(Pods)
    BY <1>5, <1>8, DistinctLength
  <1> QED
    BY <1>5, <1>6, <1>7, <1>8, <1>9, <1>10

\* A set of peers has its indices for good once all of it is numbered.
LEMMA IndicesKept ==
  ASSUME NEW list \in Seq(Pods),
         \A i, j \in DOMAIN list : i # j => list[i] # list[j],
         NEW S \in SUBSET Pods, NEW longer \in AddedTo(list, S),
         NEW T, T \subseteq ToSet(list) \cup {Ip}
  PROVE  IndicesOf(T, longer) = IndicesOf(T, list)
  <1>1. /\ longer \in Seq(Pods)
        /\ \A i \in DOMAIN list : i \in DOMAIN longer /\ longer[i] = list[i]
        /\ \A i \in DOMAIN longer \ DOMAIN list : longer[i] \notin ToSet(list)
    BY Adding
  <1>2. \A i \in DOMAIN longer : longer[i] # Ip
    BY <1>1, IpAssumption
  <1> QED
    BY <1>1, <1>2 DEF IndicesOf

\* The indices of peers never fill BasePeerSet, so the domain that
\* DimensionsManager starts with never reduces a dimension.
LEMMA NeverGeneral ==
  ASSUME NEW list \in Seq(Pods), Len(list) =< Cardinality(Pods), NEW S
  PROVE  /\ IndicesOf(S, list) \in SUBSET Indices
         /\ Reduce(Only(IndicesOf(S, list)), GeneralDomain) = Only(IndicesOf(S, list))
  <1>1. Cardinality(Pods) \in Nat
    BY RoomAssumption, FS_CardinalityType
  <1>2. MaxPods \in Indices \ IndicesOf(S, list)
    BY <1>1, RoomAssumption DEF Indices, IndicesOf
  <1> QED
    BY <1>2 DEF IndicesOf, GeneralDomain, Reduce, Only

(***************************************************************************)
(* Properties under a domain.                                              *)
(***************************************************************************)
\* `|=` of two reduced properties is the reduced union.
LEMMA IorReduced ==
  ASSUME NEW D, NEW A \in SUBSET D, NEW B \in SUBSET D
  PROVE  Ior(Reduce(Only(A), D), Reduce(Only(B), D), D) = Reduce(Only(A \cup B), D)
  <1>1. Only(A).active /\ Only(B).active /\ ~All.active
        /\ Only(A).val = A /\ Only(B).val = B
        /\ Only(A \cup B).active /\ Only(A \cup B).val = A \cup B
    BY DEF Only, All
  <1>2. CASE A # {} /\ A = D
    BY <1>1, <1>2 DEF Ior, Reduce
  <1>3. CASE B # {} /\ B = D
    BY <1>1, <1>3 DEF Ior, Reduce
  <1>4. CASE ~(A # {} /\ A = D) /\ ~(B # {} /\ B = D)
    <2>1. Reduce(Only(A), D) = Only(A) /\ Reduce(Only(B), D) = Only(B)
      BY <1>1, <1>4 DEF Reduce
    <2>2. CASE B = {}
      BY <1>1, <2>1, <2>2 DEF Ior
    <2>3. CASE B # {} /\ A = {}
      BY <1>1, <2>1, <2>3 DEF Ior
    <2>4. CASE B # {} /\ A # {}
      BY <1>1, <2>1, <2>4 DEF Ior
    <2> QED
      BY <2>2, <2>3, <2>4
  <1> QED
    BY <1>2, <1>3, <1>4

\* Reduction and union stay within Props.
LEMMA PropsTypes ==
  /\ Empty \in Props
  /\ \A S \in SUBSET Indices : Only(S) \in Props
  /\ \A D : \A x \in Props : Reduce(x, D) \in Props
  /\ \A D : \A x, y \in Props : Ior(x, y, D) \in Props
  <1>1. All \in Props /\ \A S \in SUBSET Indices : Only(S) \in Props
    BY DEF Props
  <1>2. Empty \in Props
    BY <1>1 DEF Empty
  <1>3. \A D : \A x \in Props : Reduce(x, D) \in Props
    BY <1>1 DEF Reduce
  <1>4. \A x \in Props : x.active => x.val \in SUBSET Indices
    BY DEF Props, All, Only
  <1>5. ASSUME NEW D, NEW x \in Props, NEW y \in Props
        PROVE  Ior(x, y, D) \in Props
    <2>1. CASE x.active /\ y.active
      <3>1. Only(x.val \cup y.val) \in Props
        BY <1>1, <1>4, <2>1
      <3> QED
        BY <1>3, <2>1, <3>1 DEF Ior
    <2>2. CASE ~(x.active /\ y.active)
      BY <1>1, <2>2 DEF Ior
    <2> QED
      BY <2>1, <2>2
  <1> QED
    BY <1>1, <1>2, <1>3, <1>5

\* No properties are left alone by any reduction.
LEMMA ReduceEmpty == \A D : Reduce(Empty, D) = Empty
  BY DEF Reduce, Empty, Only

(***************************************************************************)
(* What the invariant says of the rules.                                   *)
(***************************************************************************)
\* A rule belongs to one policy.
LEMMA RuleOwner ==
  ASSUME NEW p \in Policies, NEW q \in Policies, p # q
  PROVE  RulesOf[p] \cap RulesOf[q] = {}
  BY OwnerAssumption

\* A rule of a loaded policy selects numbered peers.
LEMMA LoadedRule ==
  ASSUME TypeOK, Numbered, NEW p \in LoadedPolicies
  PROVE  /\ p \in Policies /\ RulesOf[p] \subseteq Rules
         /\ \A r \in RulesOf[p] :
              /\ Selects[r] \subseteq ToSet(ordered) \cup {Ip}
              /\ Exact(r) \in Props
              /\ Reduce(Exact(r), GeneralDomain) = Exact(r)
  <1>1. PICK c \in loaded : p \in PoliciesOf[c]
    BY DEF LoadedPolicies
  <1>2. c \in Configs /\ p \in Policies /\ RulesOf[p] \subseteq Rules
    BY <1>1, ConfigAssumption DEF TypeOK
  <1>3. \A r \in RulesOf[p] : Selects[r] \subseteq ToSet(ordered) \cup {Ip}
    BY <1>1, <1>2, ConfigAssumption DEF Numbered
  <1>4. ASSUME NEW r \in RulesOf[p]
        PROVE  Exact(r) \in Props /\ Reduce(Exact(r), GeneralDomain) = Exact(r)
    <2>1. ordered \in Seq(Pods) /\ Len(ordered) =< Cardinality(Pods)
      BY DEF TypeOK
    <2>2. /\ Meaning(Selects[r]) \in SUBSET Indices
          /\ Reduce(Only(Meaning(Selects[r])), GeneralDomain) = Only(Meaning(Selects[r]))
      BY <2>1, NeverGeneral DEF Meaning
    <2> QED
      BY <2>2, PropsTypes DEF Exact
  <1> QED
    BY <1>2, <1>3, <1>4

\* What a query names is loaded, and its rules select peers of the query.
LEMMA QueryRule ==
  ASSUME TypeOK, QueryFits, NEW p \in QueryPolicies(query)
  PROVE  /\ p \in LoadedPolicies /\ p \in Policies
         /\ \E i \in 1 .. 2 : <<i, p>> \in Visits(query)
         /\ \A r \in RulesOf[p] :
              Meaning(Selects[r]) \subseteq IndicesOf(QueryPeers(query), ordered)
  <1>1. PICK i \in DOMAIN query : p \in query[i].policies
    BY DEF QueryPolicies
  <1>2. i \in 1 .. 2 /\ query[i] \in Named
    BY DEF QueryFits
  <1>3. query[i].config \in loaded /\ query[i].policies \subseteq PoliciesOf[query[i].config]
    BY <1>2 DEF Named, Views
  <1>4. query[i].config \in Configs /\ p \in PoliciesOf[query[i].config] /\ p \in Policies
    BY <1>1, <1>3, ConfigAssumption DEF TypeOK
  <1>5. p \in LoadedPolicies
    BY <1>3, <1>4 DEF LoadedPolicies
  <1>6. <<i, p>> \in Visits(query)
    BY <1>1, <1>4 DEF Visits
  <1>7. ASSUME NEW r \in RulesOf[p]
        PROVE  Meaning(Selects[r]) \subseteq IndicesOf(QueryPeers(query), ordered)
    <2>1. Selects[r] \subseteq PeersOf(query[i])
      BY <1>4, ConfigAssumption DEF PeersOf
    <2>2. Selects[r] \subseteq QueryPeers(query)
      BY <1>1, <2>1 DEF QueryPeers
    <2> QED
      BY <2>2 DEF Meaning, IndicesOf
  <1> QED
    BY <1>2, <1>4, <1>5, <1>6, <1>7

(***************************************************************************)
(* Types and the numbering, which survive a query that raises.             *)
(***************************************************************************)
\* Init establishes the invariant.
LEMMA InitInv == Init => IInv
  <1> SUFFICES ASSUME Init PROVE IInv
    OBVIOUS
  <1>1. TypeOK
    <2>1. Len(ordered) =< Cardinality(Pods)
      BY RoomAssumption, FS_CardinalityType DEF Init
    <2>2. runs \in 0 .. MaxRuns
      BY MaxRunsAssumption DEF Init
    <2>3. /\ props \in [Rules -> Props] /\ copy \in [Rules -> Props]
          /\ derived \in [Policies -> Props]
      BY PropsTypes DEF Init
    <2>4. inSync \in [Policies -> BOOLEAN]
      BY DEF Init
    <2>5. /\ ordered \in Seq(Pods) /\ Len(query) =< 2
          /\ query \in Seq([config : Configs, policies : SUBSET Policies])
      BY DEF Init
    <2> QED
      BY <2>1, <2>2, <2>3, <2>4, <2>5 DEF Init, TypeOK, GeneralDomain
  <1>2. Numbered
    BY DEF Init, Numbered
  <1>3. Sound
    <2>1. DomainFits
      BY DEF Init, DomainFits, Narrowed
    <2>2. QueryFits
      BY DEF Init, QueryFits, InQuery
    <2>3. RulesFit
      BY DEF Init, RulesFit
    <2>4. SyncFits
      BY DEF Init, SyncFits
    <2> QED
      BY <2>1, <2>2, <2>3, <2>4 DEF Sound
  <1> QED
    BY <1>1, <1>2, <1>3 DEF IInv

\* Parsing a configuration numbers its pods and keeps the numbers given.
LEMMA GetNetworkConfigNumbers ==
  ASSUME TypeOK, Numbered, NEW c \in Configs, GetNetworkConfig(c)
  PROVE  /\ Numbered'
         /\ ordered' \in Seq(Pods) /\ Len(ordered') =< Cardinality(Pods)
         /\ \A T : T \subseteq ToSet(ordered) \cup {Ip} =>
              IndicesOf(T, ordered') = IndicesOf(T, ordered)
  <1>1. /\ ordered \in Seq(Pods)
        /\ \A i, j \in DOMAIN ordered : i # j => ordered[i] # ordered[j]
        /\ PodsOf[c] \in SUBSET Pods /\ ordered' \in AddedTo(ordered, PodsOf[c])
    BY ConfigAssumption DEF TypeOK, Numbered, GetNetworkConfig
  <1>2. /\ ordered' \in Seq(Pods) /\ Len(ordered') =< Cardinality(Pods)
        /\ \A i, j \in DOMAIN ordered' : i # j => ordered'[i] # ordered'[j]
        /\ ToSet(ordered) \cup PodsOf[c] \subseteq ToSet(ordered')
    BY <1>1, Adding
  <1>3. Numbered'
    BY <1>2 DEF Numbered, GetNetworkConfig
  <1>4. ASSUME NEW T, T \subseteq ToSet(ordered) \cup {Ip}
        PROVE  IndicesOf(T, ordered') = IndicesOf(T, ordered)
    BY <1>1, <1>4, IndicesKept
  <1> QED
    BY <1>2, <1>3, <1>4

\* A query names one or two loaded configurations.
LEMMA QueriesType ==
  ASSUME TypeOK, NEW q \in Queries
  PROVE  /\ q \in Seq([config : Configs, policies : SUBSET Policies])
         /\ Len(q) =< 2 /\ DOMAIN q \subseteq 1 .. 2
         /\ \A i \in DOMAIN q : q[i] \in Named
  <1>1. ASSUME NEW v \in Named
        PROVE  v \in [config : Configs, policies : SUBSET Policies]
    BY ConfigAssumption DEF Named, Views, TypeOK
  <1>2. CASE \E v \in Named : q = <<v>>
    BY <1>1, <1>2
  <1>3. CASE \E v, w \in Named : q = <<v, w>>
    BY <1>1, <1>3
  <1> QED
    BY <1>2, <1>3 DEF Queries

\* Every step keeps the types and the numbering.
LEMMA TypeStep ==
  ASSUME TypeOK, Numbered, [Next]_vars
  PROVE  TypeOK' /\ Numbered'
  <1> USE DEF ruleVars, policyVars
  <1>1. CASE RunArgs
    <2>1. Len(ordered') =< Cardinality(Pods) /\ ordered' \in Seq(Pods)
      BY <1>1, RoomAssumption, FS_CardinalityType DEF RunArgs
    <2>2. runs' \in 0 .. MaxRuns
      BY <1>1, MaxRunsAssumption DEF RunArgs, TypeOK
    <2>3. /\ props' \in [Rules -> Props] /\ copy' \in [Rules -> Props]
          /\ derived' \in [Policies -> Props]
      BY <1>1, PropsTypes DEF RunArgs
    <2>4. inSync' \in [Policies -> BOOLEAN]
      BY <1>1 DEF RunArgs
    <2> QED
      BY <1>1, <2>1, <2>2, <2>3, <2>4 DEF RunArgs, TypeOK, Numbered
  <1>2. ASSUME NEW c \in Configs, GetNetworkConfig(c)
        PROVE  TypeOK' /\ Numbered'
    <2>1. ordered' \in Seq(Pods) /\ Len(ordered') =< Cardinality(Pods) /\ Numbered'
      BY <1>2, GetNetworkConfigNumbers
    <2>2. ASSUME NEW r \in Rules
          PROVE  Reduce(Only(IndicesOf(Selects[r], ordered')), domain) \in Props
      BY <2>1, NeverGeneral, PropsTypes
    <2>3. props' \in [Rules -> Props]
      BY <1>2, <2>2 DEF GetNetworkConfig, TypeOK
    <2> QED
      BY <1>2, <2>1, <2>3 DEF GetNetworkConfig, TypeOK
  <1>3. CASE ParseFails \/ ConfigsLoaded \/ Execute \/ RunReturns
    BY <1>3 DEF ParseFails, ConfigsLoaded, Execute, RunReturns, TypeOK, Numbered
  <1>13. CASE QueryReturns
    <2>1. query' \in Seq([config : Configs, policies : SUBSET Policies]) /\ Len(query') =< 2
      BY <1>13 DEF QueryReturns
    <2> QED
      BY <1>13, <2>1 DEF QueryReturns, TypeOK, Numbered
  <1>4. ASSUME NEW q \in Queries, StartQuery(q)
        PROVE  TypeOK' /\ Numbered'
    <2>1. /\ query' \in Seq([config : Configs, policies : SUBSET Policies])
          /\ Len(query') =< 2
      BY <1>4, QueriesType DEF StartQuery
    <2>2. todo' \in SUBSET ((1 .. 2) \X Policies)
      BY <1>4, QueriesType DEF StartQuery, Visits
    <2>3. domain' \in SUBSET Indices
      BY <1>4 DEF StartQuery, IndicesOf
    <2> QED
      BY <1>4, <2>1, <2>2, <2>3 DEF StartQuery, TypeOK, Numbered
  <1>5. ASSUME NEW i \in 1 .. 2, NEW p \in Policies, Reorganize(i, p)
        PROVE  TypeOK' /\ Numbered'
    <2>1. ASSUME NEW r \in Rules
          PROVE  Reorganized(r).copy \in Props /\ Reorganized(r).props \in Props
      BY PropsTypes DEF Reorganized, TypeOK
    <2>2. props' \in [Rules -> Props] /\ copy' \in [Rules -> Props]
      BY <1>5, <2>1 DEF Reorganize, TypeOK
    <2>3. inSync' \in [Policies -> BOOLEAN]
      BY <1>5 DEF Reorganize, TypeOK
    <2> QED
      BY <1>5, <2>2, <2>3 DEF Reorganize, TypeOK, Numbered
  <1>6. ASSUME NEW p \in Policies, SyncProps(p)
        PROVE  TypeOK' /\ Numbered'
    <2>1. derived' \in [Policies -> Props]
      BY <1>6, PropsTypes DEF SyncProps, InitProps, TypeOK
    <2>2. unread' \in SUBSET Rules
      BY <1>6, ConfigAssumption DEF SyncProps
    <2> QED
      BY <1>6, <2>1, <2>2 DEF SyncProps, TypeOK, Numbered
  <1>7. ASSUME NEW p \in Policies, NEW r \in Rules, SyncRule(p, r)
        PROVE  TypeOK' /\ Numbered'
    <2>1. Ior(derived[p], props[r], domain) \in Props
      BY PropsTypes DEF TypeOK
    <2>2. derived' \in [Policies -> Props]
      BY <1>7, <2>1 DEF SyncRule, TypeOK
    <2> QED
      BY <1>7, <2>2 DEF SyncRule, TypeOK, Numbered
  <1>8. ASSUME NEW p \in Policies, Synced(p)
        PROVE  TypeOK' /\ Numbered'
    <2>1. inSync' \in [Policies -> BOOLEAN]
      BY <1>8 DEF Synced, TypeOK
    <2> QED
      BY <1>8, <2>1 DEF Synced, TypeOK, Numbered
  <1>9. CASE QueryRaises
    BY <1>9 DEF QueryRaises, TypeOK, Numbered
  <1>10. CASE QueryDone
    <2>1. todo' \in SUBSET ((1 .. 2) \X Policies)
      BY <1>10 DEF QueryDone, Visits, TypeOK
    <2> QED
      BY <1>10, <2>1 DEF QueryDone, DomainAfter, GeneralDomain, TypeOK, Numbered
  <1>11. ASSUME NEW i \in 1 .. 2, NEW p \in Policies, Restore(i, p)
         PROVE  TypeOK' /\ Numbered'
    <2>1. props' \in [Rules -> Props] /\ copy' \in [Rules -> Props]
      BY <1>11, PropsTypes DEF Restore, TypeOK
    <2>2. inSync' \in [Policies -> BOOLEAN]
      BY <1>11 DEF Restore, InSyncAfter, TypeOK
    <2> QED
      BY <1>11, <2>1, <2>2 DEF Restore, TypeOK, Numbered
  <1>12. CASE UNCHANGED vars
    BY <1>12 DEF vars, TypeOK, Numbered
  <1> QED
    BY <1>1, <1>2, <1>3, <1>4, <1>5, <1>6, <1>7, <1>8, <1>9, <1>10, <1>11, <1>12, <1>13 DEF Next

(***************************************************************************)
(* The steps between queries.                                              *)
(***************************************************************************)
\* A run starts with nothing loaded, so nothing is out of place.
LEMMA RunArgsSound ==
  ASSUME TypeOK, Sound, RunArgs PROVE Sound'
  <1>1. LoadedPolicies' = {} /\ (\A r \in Rules : copy'[r] = Empty)
        /\ \A p \in Policies : ~inSync'[p]
    BY DEF RunArgs, LoadedPolicies
  <1>2. syncing' = {} /\ query' = << >> /\ todo' = {}
    BY DEF RunArgs, TypeOK, Sound, QueryFits, SyncFits, InQuery
  <1>3. DomainFits'
    BY DEF RunArgs, Sound, DomainFits, Narrowed
  <1>4. QueryFits'
    BY <1>2 DEF RunArgs, QueryFits, InQuery
  <1>5. RulesFit'
    BY <1>1 DEF RulesFit
  <1>6. SyncFits'
    BY <1>1, <1>2 DEF SyncFits
  <1> QED
    BY <1>3, <1>4, <1>5, <1>6 DEF Sound

\* Parsing a configuration gives its rules their exact properties, and leaves
\* those of the others exact though the numbering has grown.
LEMMA GetNetworkConfigSound ==
  ASSUME TypeOK, Numbered, Sound, NEW c \in Configs, GetNetworkConfig(c)
  PROVE  Sound'
  <1>1. /\ phase = "parsing" /\ phase' = "parsing" /\ c \notin loaded
        /\ loaded' = loaded \cup {c} /\ domain = GeneralDomain
        /\ query = << >> /\ todo = {} /\ copy' = copy
    BY DEF GetNetworkConfig, Sound, DomainFits, Narrowed, QueryFits, InQuery
  <1>2. DomainFits' /\ QueryFits'
    BY <1>1 DEF GetNetworkConfig, DomainFits, QueryFits, Narrowed, InQuery
  <1>3. SyncFits'
    BY <1>1 DEF GetNetworkConfig, policyVars, Sound, SyncFits
  <1>4. ASSUME NEW p \in LoadedPolicies', NEW r \in RulesOf[p]
        PROVE  AsParsed(r)'
    <2>1. Numbered' /\ TypeOK'
      BY GetNetworkConfigNumbers, TypeStep DEF Next
    <2>2. PICK d \in loaded \cup {c} : p \in PoliciesOf[d]
      BY <1>1 DEF LoadedPolicies
    <2>3. d \in Configs /\ p \in Policies /\ r \in Rules
      BY <2>2, ConfigAssumption DEF TypeOK
    <2>4. copy'[r] = Empty
      BY <1>1, <2>3 DEF Sound, RulesFit
    <2>5. CASE d = c
      <3>1. Reduce(Exact(r)', GeneralDomain) = Exact(r)'
        BY <2>1, <2>2, <2>5, GetNetworkConfigNumbers, NeverGeneral DEF Exact, Meaning
      <3>2. props'[r] = Reduce(Only(IndicesOf(Selects[r], ordered')), domain)
        BY <2>2, <2>3, <2>5 DEF GetNetworkConfig
      <3> QED
        BY <1>1, <2>4, <3>1, <3>2 DEF AsParsed, Exact, Meaning
    <2>6. CASE d # c
      <3>1. \A q \in PoliciesOf[c] : q \in Policies /\ q # p
        BY <2>2, <2>3, <2>6, ConfigAssumption, OwnerAssumption
      <3>2. \A q \in PoliciesOf[c] : r \notin RulesOf[q]
        BY <2>3, <3>1, RuleOwner
      <3>3. props'[r] = props[r]
        BY <2>3, <3>2 DEF GetNetworkConfig
      <3>4. p \in LoadedPolicies
        BY <2>2, <2>6 DEF LoadedPolicies
      <3>5. props[r] = Exact(r)
        BY <1>1, <3>4 DEF Sound, RulesFit, InQuery, AsParsed
      <3>6. Exact(r)' = Exact(r)
        BY <3>4, LoadedRule, GetNetworkConfigNumbers DEF Exact, Meaning
      <3> QED
        BY <2>4, <3>3, <3>5, <3>6 DEF AsParsed
    <2> QED
      BY <2>5, <2>6
  <1>5. RulesFit'
    BY <1>1, <1>4 DEF Sound, RulesFit, InQuery
  <1> QED
    BY <1>2, <1>3, <1>5 DEF Sound

\* Steps that only move between the phases in which no query runs.
LEMMA PhaseSound ==
  ASSUME TypeOK, Sound, ParseFails \/ ConfigsLoaded \/ RunReturns
  PROVE  Sound'
  <1> USE DEF ParseFails, ConfigsLoaded, RunReturns, ruleVars, policyVars
  <1>1. DomainFits'
    BY DEF Sound, DomainFits, Narrowed
  <1>2. QueryFits'
    BY DEF Sound, QueryFits, InQuery, Named, Views, Visits
  <1>3. RulesFit'
    BY DEF Sound, RulesFit, InQuery, LoadedPolicies, AsParsed, Exact, Meaning
  <1>4. SyncFits'
    BY DEF Sound, SyncFits
  <1> QED
    BY <1>1, <1>2, <1>3, <1>4 DEF Sound

(***************************************************************************)
(* The steps of a query.                                                   *)
(***************************************************************************)
\* A query starts with every rule as parsed and every policy to visit.
LEMMA StartQuerySound ==
  ASSUME TypeOK, Sound, NEW q \in Queries, StartQuery(q)
  PROVE  Sound'
  <1>1. /\ phase = "ready" /\ phase' = "reorganizing" /\ query' = q
        /\ todo' = Visits(q) /\ loaded' = loaded
        /\ \A p \in Policies : inSync'[p] = inSync[p]
        /\ syncing' = syncing
    BY DEF StartQuery, policyVars
  <1>2. DomainFits'
    BY DEF StartQuery, DomainFits, Narrowed
  <1>3. QueryFits'
    BY <1>1, QueriesType DEF QueryFits, InQuery, Named, Views, Visits
  <1>4. ASSUME NEW p \in LoadedPolicies', NEW r \in RulesOf[p]
        PROVE  AsParsed(r)' /\ (p \in QueryPolicies(query)' => Left(p)')
    <2>1. AsParsed(r)
      BY <1>1, <1>4 DEF Sound, RulesFit, InQuery, LoadedPolicies
    <2>2. AsParsed(r)'
      BY <2>1 DEF StartQuery, ruleVars, AsParsed, Exact, Meaning
    <2>3. p \in Policies
      BY <1>1, ConfigAssumption DEF LoadedPolicies, TypeOK
    <2>4. ASSUME p \in QueryPolicies(q) PROVE Left(p)'
      <3>1. PICK i \in DOMAIN q : p \in q[i].policies
        BY <2>4 DEF QueryPolicies
      <3>2. i \in 1 .. 2 /\ <<i, p>> \in Visits(q)
        BY <2>3, <3>1, QueriesType DEF Visits
      <3> QED
        BY <1>1, <3>2 DEF Left
    <2> QED
      BY <1>1, <2>2, <2>4
  <1>5. RulesFit'
    BY <1>1, <1>4 DEF RulesFit, Narrowed
  <1>6. SyncFits'
    BY <1>1 DEF Sound, SyncFits, TypeOK
  <1> QED
    BY <1>2, <1>3, <1>5, <1>6 DEF Sound

\* The loop of reorganize_props_by_new_domains reduces the rules of one policy,
\* unless an earlier visit did.
LEMMA ReorganizeSound ==
  ASSUME TypeOK, Numbered, Sound, NEW i \in 1 .. 2, NEW p \in Policies, Reorganize(i, p)
  PROVE  Sound'
  <1>1. /\ phase = "reorganizing" /\ phase' = "reorganizing" /\ domain' = domain
        /\ query' = query /\ loaded' = loaded /\ ordered' = ordered
        /\ syncing' = syncing /\ todo' = todo \ {<<i, p>>}
    BY DEF Reorganize
  <1>2. DomainFits'
    BY <1>1 DEF Sound, DomainFits, Narrowed
  <1>3. QueryFits'
    BY <1>1 DEF Sound, QueryFits, InQuery, Named, Views, Visits
  <1>4. SyncFits'
    BY <1>1 DEF Reorganize, Sound, SyncFits, TypeOK
  <1>5. p \in QueryPolicies(query)
    BY DEF Reorganize, Sound, QueryFits, Visits, QueryPolicies
  <1>6. ASSUME NEW r \in RulesOf[p], p \in LoadedPolicies
        PROVE  Reduced(r)'
    <2>1. r \in Rules
      BY ConfigAssumption
    <2>2. props'[r] = Reorganized(r).props /\ copy'[r] = Reorganized(r).copy
      BY <2>1 DEF Reorganize
    <2>3. Reduced(r) \/ AsParsed(r)
      BY <1>1, <1>5, <1>6 DEF Sound, RulesFit, InQuery, Narrowed
    <2>4. CASE AsParsed(r)
      BY <1>1, <2>2, <2>4 DEF AsParsed, Reorganized, Reduced, Exact, Meaning
    <2>5. CASE Reduced(r) /\ copy[r] # Empty
      BY <1>1, <2>2, <2>5 DEF Reorganized, Reduced, Exact, Meaning
    <2>6. CASE Reduced(r) /\ copy[r] = Empty
      <3>1. props[r] = Empty /\ Exact(r) = Empty
        BY <2>6, ReduceEmpty DEF Reduced
      <3>2. props'[r] = Empty /\ copy'[r] = Empty
        BY <2>2, <2>6, <3>1, ReduceEmpty DEF Reorganized
      <3> QED
        BY <1>1, <3>1, <3>2, ReduceEmpty DEF Reduced, Exact, Meaning
    <2> QED
      BY <2>3, <2>4, <2>5, <2>6
  <1>7. ASSUME NEW q \in LoadedPolicies, q # p, NEW r \in RulesOf[q]
        PROVE  props'[r] = props[r] /\ copy'[r] = copy[r] /\ (Left(q) => Left(q)')
    <2>1. q \in Policies /\ r \in Rules
      BY LoadedRule
    <2>2. r \notin RulesOf[p]
      BY <1>7, <2>1, RuleOwner
    <2> QED
      BY <1>1, <1>7, <2>1, <2>2 DEF Reorganize, Left
  <1>8. RulesFit'
    <2> SUFFICES ASSUME NEW q \in LoadedPolicies, NEW r \in RulesOf[q]
                 PROVE  IF q \notin QueryPolicies(query) THEN AsParsed(r)'
                        ELSE Reduced(r)' \/ (Left(q) /\ AsParsed(r))'
      BY <1>1 DEF RulesFit, InQuery, Narrowed, LoadedPolicies
    <2>1. IF q \notin QueryPolicies(query) THEN AsParsed(r)
          ELSE Reduced(r) \/ (Left(q) /\ AsParsed(r))
      BY <1>1 DEF Sound, RulesFit, InQuery, Narrowed
    <2>2. CASE q = p
      BY <1>5, <1>6, <2>2
    <2>3. CASE q # p
      BY <1>1, <1>7, <2>1, <2>3 DEF AsParsed, Reduced, Exact, Meaning
    <2> QED
      BY <2>2, <2>3
  <1> QED
    BY <1>2, <1>3, <1>4, <1>8 DEF Sound

\* Execution begins when every policy of the query has been visited.
LEMMA ExecuteSound ==
  ASSUME TypeOK, Sound, Execute PROVE Sound'
  <1> USE DEF Execute, ruleVars, policyVars
  <1>1. DomainFits'
    BY DEF Sound, DomainFits, Narrowed
  <1>2. QueryFits'
    BY DEF Sound, QueryFits, InQuery, Named, Views, Visits
  <1>3. RulesFit'
    BY DEF Sound, RulesFit, InQuery, Narrowed, LoadedPolicies, Left, AsParsed, Reduced,
           Exact, Meaning
  <1>4. SyncFits'
    BY DEF Sound, SyncFits
  <1> QED
    BY <1>1, <1>2, <1>3, <1>4 DEF Sound

\* The steps of sync_props leave the rules alone.
LEMMA SyncKeeps ==
  ASSUME Sound, phase = "executing",
         UNCHANGED <<phase, runs, ordered, domain, loaded, query, todo, ruleVars>>
  PROVE  DomainFits' /\ QueryFits' /\ RulesFit'
  <1> USE DEF ruleVars
  <1>1. DomainFits'
    BY DEF Sound, DomainFits, Narrowed
  <1>2. QueryFits'
    BY DEF Sound, QueryFits, InQuery, Named, Views, Visits
  <1>3. RulesFit'
    BY DEF Sound, RulesFit, InQuery, Narrowed, LoadedPolicies, Left, AsParsed, Reduced,
           Exact, Meaning
  <1> QED
    BY <1>1, <1>2, <1>3

\* What the rules R and one more of a policy allow, from what R allow.
LEMMA ComputedAdds ==
  ASSUME TypeOK, Sound, phase = "executing", NEW p \in QueryPolicies(query),
         NEW R \in SUBSET RulesOf[p], NEW r \in RulesOf[p]
  PROVE  Ior(Computed(R), props[r], domain) = Computed(R \cup {r})
  <1> DEFINE A == Meaning(SelectedBy(R))
             B == Meaning(Selects[r])
  <1>1. /\ p \in LoadedPolicies
        /\ \A s \in RulesOf[p] : Meaning(Selects[s]) \subseteq domain
    BY QueryRule DEF Sound, DomainFits, Narrowed
  <1>2. props[r] = Reduce(Only(B), domain)
    BY <1>1 DEF Sound, RulesFit, QueryFits, InQuery, Narrowed, Left, Reduced, Exact
  <1>3. A \subseteq domain /\ B \subseteq domain
    BY <1>1 DEF SelectedBy, Meaning, IndicesOf
  <1>4. Meaning(SelectedBy(R \cup {r})) = A \cup B
    BY DEF SelectedBy, Meaning, IndicesOf
  <1> HIDE DEF A, B
  <1>5. Ior(Reduce(Only(A), domain), Reduce(Only(B), domain), domain)
          = Reduce(Only(A \cup B), domain)
    BY <1>3, IorReduced
  <1> QED
    BY <1>2, <1>4, <1>5 DEF Computed, A

\* sync_props starts from nothing: what an earlier query computed is gone.
LEMMA SyncPropsSound ==
  ASSUME TypeOK, Sound, NEW p \in Policies, SyncProps(p) PROVE Sound'
  <1>1. /\ phase = "executing" /\ phase' = "executing" /\ p \in QueryPolicies(query)
        /\ query' = query /\ syncing' = {p} /\ unread' = RulesOf[p]
        /\ derived' = [derived EXCEPT ![p] = Empty] /\ ~inSync[p] /\ inSync' = inSync
        /\ ordered' = ordered /\ domain' = domain
    BY DEF SyncProps, InitProps
  <1>2. DomainFits' /\ QueryFits' /\ RulesFit'
    BY <1>1, SyncKeeps DEF SyncProps
  <1>3. RulesOf[p] \ unread' = {} /\ derived'[p] = Computed({})
    <2>1. Meaning({}) = {} /\ SelectedBy({}) = {}
      BY DEF Meaning, IndicesOf, SelectedBy
    <2>2. Computed({}) = Empty
      BY <2>1, ReduceEmpty DEF Computed, Empty
    <2>3. derived'[p] = Empty
      BY <1>1 DEF TypeOK
    <2> QED
      BY <1>1, <2>2, <2>3
  <1>4. ASSUME NEW q \in Policies, inSync'[q]
        PROVE  derived'[q] = derived[q] /\ derived[q] = Computed(RulesOf[q])
               /\ q \in QueryPolicies(query)
    BY <1>1, <1>4 DEF Sound, SyncFits, TypeOK
  <1>5. SyncFits'
    BY <1>1, <1>3, <1>4 DEF SyncFits, Computed, Meaning
  <1> QED
    BY <1>2, <1>5 DEF Sound

\* Its loop adds one rule after the other.
LEMMA SyncRuleSound ==
  ASSUME TypeOK, Sound, NEW p \in Policies, NEW r \in Rules, SyncRule(p, r)
  PROVE  Sound'
  <1>1. /\ phase = "executing" /\ phase' = "executing" /\ p \in syncing /\ r \in unread
        /\ query' = query /\ syncing' = syncing /\ unread' = unread \ {r}
        /\ derived' = [derived EXCEPT ![p] = Ior(derived[p], props[r], domain)]
        /\ inSync' = inSync /\ ordered' = ordered /\ domain' = domain
    BY DEF SyncRule
  <1>2. DomainFits' /\ QueryFits' /\ RulesFit'
    BY <1>1, SyncKeeps DEF SyncRule
  <1>3. /\ syncing = {p} /\ p \in QueryPolicies(query) /\ unread \subseteq RulesOf[p]
        /\ derived[p] = Computed(RulesOf[p] \ unread)
    BY <1>1 DEF Sound, SyncFits
  <1>4. derived'[p] = Computed(RulesOf[p] \ unread')
    <2>1. (RulesOf[p] \ unread) \cup {r} = RulesOf[p] \ unread'
      BY <1>1, <1>3
    <2>2. Ior(derived[p], props[r], domain) = Computed((RulesOf[p] \ unread) \cup {r})
      BY <1>1, <1>3, ComputedAdds
    <2> QED
      BY <1>1, <2>1, <2>2 DEF TypeOK
  <1>5. ASSUME NEW q \in Policies, inSync'[q]
        PROVE  /\ q \in QueryPolicies(query)
               /\ derived'[q] = Computed(RulesOf[q])
    <2>1. q \in QueryPolicies(query) /\ derived[q] = Computed(RulesOf[q])
      BY <1>1, <1>5 DEF Sound, SyncFits
    <2>2. CASE q # p
      BY <1>1, <2>1, <2>2 DEF TypeOK
    <2>3. CASE q = p
      <3>1. Ior(Computed(RulesOf[p]), props[r], domain) = Computed(RulesOf[p] \cup {r})
        BY <1>1, <1>3, ComputedAdds
      <3>2. RulesOf[p] \cup {r} = RulesOf[p]
        BY <1>1, <1>3
      <3> QED
        BY <1>1, <2>1, <2>3, <3>1, <3>2 DEF TypeOK
    <2> QED
      BY <2>1, <2>2, <2>3
  <1>6. SyncFits'
    BY <1>1, <1>3, <1>4, <1>5 DEF SyncFits, Computed, Meaning
  <1> QED
    BY <1>2, <1>6 DEF Sound

\* After the loop the policy allows what all of its rules do.
LEMMA SyncedSound ==
  ASSUME TypeOK, Sound, NEW p \in Policies, Synced(p) PROVE Sound'
  <1>1. /\ phase = "executing" /\ phase' = "executing" /\ p \in syncing /\ unread = {}
        /\ query' = query /\ syncing' = {} /\ derived' = derived
        /\ inSync' = [inSync EXCEPT ![p] = TRUE] /\ ordered' = ordered /\ domain' = domain
    BY DEF Synced
  <1>2. DomainFits' /\ QueryFits' /\ RulesFit'
    BY <1>1, SyncKeeps DEF Synced
  <1>3. p \in QueryPolicies(query) /\ derived[p] = Computed(RulesOf[p])
    BY <1>1 DEF Sound, SyncFits
  <1>4. \A q \in Policies : q # p => inSync'[q] = inSync[q]
    BY <1>1 DEF TypeOK
  <1>5. SyncFits'
    BY <1>1, <1>3, <1>4 DEF Sound, SyncFits, Computed, Meaning
  <1> QED
    BY <1>2, <1>5 DEF Sound

\* When the query is done the general domain is back, and each of its policies
\* is to be visited again.
LEMMA QueryDoneSound ==
  ASSUME TypeOK, Sound, QueryDone PROVE Sound'
  <1>1. /\ phase = "executing" /\ phase' = "restoring" /\ todo' = Visits(query)
        /\ query' = query /\ loaded' = loaded /\ domain' = GeneralDomain
        /\ ordered' = ordered /\ props' = props /\ copy' = copy
        /\ inSync' = inSync /\ syncing' = {}
    BY DEF QueryDone, DomainAfter, ruleVars, policyVars
  <1>2. DomainFits'
    BY <1>1 DEF DomainFits, Narrowed
  <1>3. QueryFits'
    BY <1>1 DEF Sound, QueryFits, InQuery, Named, Views, Visits
  <1>4. \A p \in QueryPolicies(query) : Left(p)'
    BY <1>1, QueryRule DEF Sound, Left
  <1>5. RulesFit'
    <2> SUFFICES ASSUME NEW p \in LoadedPolicies, NEW r \in RulesOf[p]
                 PROVE  IF p \notin QueryPolicies(query) THEN AsParsed(r)'
                        ELSE AsParsed(r)' \/ (Left(p)' /\ Saved(r)')
      BY <1>1 DEF RulesFit, InQuery, Narrowed, LoadedPolicies
    <2>1. CASE p \notin QueryPolicies(query)
      BY <1>1, <2>1 DEF Sound, RulesFit, InQuery, AsParsed, Exact, Meaning
    <2>2. CASE p \in QueryPolicies(query)
      <3>1. Reduced(r)
        BY <1>1, <2>2 DEF Sound, RulesFit, QueryFits, InQuery, Narrowed, Left
      <3>2. Saved(r)
        BY <3>1, ReduceEmpty DEF Reduced, Saved
      <3>3. Saved(r)'
        BY <1>1, <3>2 DEF Saved, Exact, Meaning
      <3> QED
        BY <1>4, <2>2, <3>3
    <2> QED
      BY <2>1, <2>2
  <1>6. SyncFits'
    BY <1>1, <1>4 DEF Sound, SyncFits
  <1> QED
    BY <1>2, <1>3, <1>5, <1>6 DEF Sound

\* restore_props puts the rules of one policy back, unless an earlier visit did.
LEMMA RestoreSound ==
  ASSUME TypeOK, Numbered, Sound, NEW i \in 1 .. 2, NEW p \in Policies, Restore(i, p)
  PROVE  Sound'
  <1>1. /\ phase = "restoring" /\ phase' = "restoring" /\ domain' = domain
        /\ query' = query /\ loaded' = loaded /\ ordered' = ordered
        /\ syncing' = syncing /\ todo' = todo \ {<<i, p>>}
    BY DEF Restore
  <1>2. DomainFits'
    BY <1>1 DEF Sound, DomainFits, Narrowed
  <1>3. QueryFits'
    BY <1>1 DEF Sound, QueryFits, InQuery, Named, Views, Visits
  <1>4. ASSUME NEW q \in Policies, q # p
        PROVE  inSync'[q] = inSync[q] /\ (Left(q) => Left(q)')
    BY <1>1, <1>4 DEF Restore, InSyncAfter, TypeOK, Left
  <1>5. SyncFits'
    <2>1. ~inSync'[p]
      BY DEF Restore, InSyncAfter, TypeOK
    <2>2. \A q \in syncing : FALSE
      BY <1>1 DEF Sound, SyncFits
    <2> QED
      BY <1>1, <1>4, <2>1, <2>2 DEF Sound, SyncFits
  <1>6. ASSUME NEW r \in RulesOf[p], p \in LoadedPolicies
        PROVE  AsParsed(r)'
    <2>1. r \in Rules
      BY ConfigAssumption
    <2>2. /\ copy'[r] = Empty
          /\ props'[r] = IF copy[r] # Empty THEN copy[r] ELSE props[r]
      BY <2>1 DEF Restore
    <2>3. AsParsed(r) \/ Saved(r)
      BY <1>1, <1>6 DEF Sound, RulesFit, InQuery, Narrowed
    <2>4. props'[r] = Exact(r)
      BY <2>2, <2>3 DEF AsParsed, Saved
    <2> QED
      BY <1>1, <2>2, <2>4 DEF AsParsed, Exact, Meaning
  <1>7. ASSUME NEW q \in LoadedPolicies, q # p, NEW r \in RulesOf[q]
        PROVE  props'[r] = props[r] /\ copy'[r] = copy[r] /\ (Left(q) => Left(q)')
    <2>1. q \in Policies /\ r \in Rules
      BY LoadedRule
    <2>2. r \notin RulesOf[p]
      BY <1>7, <2>1, RuleOwner
    <2> QED
      BY <1>4, <1>7, <2>1, <2>2 DEF Restore
  <1>8. RulesFit'
    <2> SUFFICES ASSUME NEW q \in LoadedPolicies, NEW r \in RulesOf[q]
                 PROVE  IF q \notin QueryPolicies(query) THEN AsParsed(r)'
                        ELSE AsParsed(r)' \/ (Left(q)' /\ Saved(r)')
      BY <1>1 DEF RulesFit, InQuery, Narrowed, LoadedPolicies
    <2>1. IF q \notin QueryPolicies(query) THEN AsParsed(r)
          ELSE AsParsed(r) \/ (Left(q) /\ Saved(r))
      BY <1>1 DEF Sound, RulesFit, InQuery, Narrowed
    <2>2. CASE q = p
      BY <1>6, <2>2
    <2>3. CASE q # p
      BY <1>1, <1>7, <2>1, <2>3 DEF AsParsed, Saved, Exact, Meaning
    <2> QED
      BY <2>2, <2>3
  <1> QED
    BY <1>2, <1>3, <1>5, <1>8 DEF Sound

\* A query returns when every policy has been restored.
LEMMA QueryReturnsSound ==
  ASSUME TypeOK, Sound, QueryReturns PROVE Sound'
  <1>1. /\ phase = "restoring" /\ phase' = "ready" /\ todo = {} /\ query' = << >>
        /\ todo' = todo /\ loaded' = loaded /\ domain' = domain /\ ordered' = ordered
        /\ props' = props /\ copy' = copy /\ inSync' = inSync /\ syncing' = syncing
    BY DEF QueryReturns, ruleVars, policyVars
  <1>2. DomainFits'
    BY <1>1 DEF Sound, DomainFits, Narrowed
  <1>3. QueryFits'
    BY <1>1 DEF QueryFits, InQuery
  <1>4. RulesFit'
    <2>1. \A p \in LoadedPolicies : \A r \in RulesOf[p] : AsParsed(r)
      BY <1>1 DEF Sound, RulesFit, InQuery, Narrowed, Left
    <2> QED
      BY <1>1, <2>1 DEF RulesFit, InQuery, LoadedPolicies, AsParsed, Exact, Meaning
  <1>5. SyncFits'
    BY <1>1 DEF Sound, SyncFits, Left
  <1> QED
    BY <1>2, <1>3, <1>4, <1>5 DEF Sound

\* A stuttering step keeps the rules and cubes sound.
LEMMA StutterSound ==
  ASSUME Sound, UNCHANGED vars PROVE Sound'
  <1> USE DEF vars
  <1>1. DomainFits' /\ QueryFits'
    BY DEF Sound, DomainFits, QueryFits, Narrowed, InQuery, Named, Views, Visits
  <1>2. RulesFit'
    BY DEF Sound, RulesFit, InQuery, Narrowed, LoadedPolicies, Left, AsParsed, Reduced,
           Saved, Exact, Meaning
  <1>3. SyncFits'
    BY DEF Sound, SyncFits, Left, Computed, Meaning
  <1> QED
    BY <1>1, <1>2, <1>3 DEF Sound

(***************************************************************************)
(* The theorems.                                                           *)
(***************************************************************************)
\* Every step keeps the invariant; the one that raises only its types.
LEMMA StepInv == IInv /\ [Next]_vars => IInv'
  <1> SUFFICES ASSUME IInv, [Next]_vars PROVE IInv'
    OBVIOUS
  <1>1. TypeOK /\ Numbered /\ TypeOK' /\ Numbered'
    BY TypeStep DEF IInv
  <1>2. CASE raised \/ QueryRaises
    <2>1. raised'
      <3>1. CASE raised
        BY <3>1 DEF Next, vars, RunArgs, ParseFails, ConfigsLoaded, GetNetworkConfig,
             StartQuery, Execute, QueryRaises, QueryDone, QueryReturns, RunReturns,
             Reorganize, Restore, SyncProps, Synced, SyncRule
      <3>2. CASE QueryRaises
        BY <3>2 DEF QueryRaises
      <3> QED
        BY <1>2, <3>1, <3>2
    <2> QED
      BY <1>1, <2>1 DEF IInv
  <1>3. CASE ~raised /\ ~QueryRaises
    <2>1. Sound
      BY <1>3 DEF IInv
    <2>2. Sound'
      <3>1. CASE RunArgs
        BY <1>1, <2>1, <3>1, RunArgsSound
      <3>2. CASE ParseFails \/ ConfigsLoaded \/ RunReturns
        BY <1>1, <2>1, <3>2, PhaseSound
      <3>3. CASE \E c \in Configs : GetNetworkConfig(c)
        BY <1>1, <2>1, <3>3, GetNetworkConfigSound
      <3>4. CASE \E q \in Queries : StartQuery(q)
        BY <1>1, <2>1, <3>4, StartQuerySound
      <3>5. CASE Execute
        BY <1>1, <2>1, <3>5, ExecuteSound
      <3>6. CASE QueryDone
        BY <1>1, <2>1, <3>6, QueryDoneSound
      <3>7. CASE QueryReturns
        BY <1>1, <2>1, <3>7, QueryReturnsSound
      <3>8. CASE \E i \in 1 .. 2, p \in Policies : Reorganize(i, p)
        BY <1>1, <2>1, <3>8, ReorganizeSound
      <3>9. CASE \E i \in 1 .. 2, p \in Policies : Restore(i, p)
        BY <1>1, <2>1, <3>9, RestoreSound
      <3>10. CASE \E p \in Policies : SyncProps(p)
        BY <1>1, <2>1, <3>10, SyncPropsSound
      <3>11. CASE \E p \in Policies : Synced(p)
        BY <1>1, <2>1, <3>11, SyncedSound
      <3>12. CASE \E p \in Policies, r \in Rules : SyncRule(p, r)
        BY <1>1, <2>1, <3>12, SyncRuleSound
      <3>13. CASE UNCHANGED vars
        BY <1>1, <2>1, <3>13, StutterSound
      <3> QED
        BY <1>3, <3>1, <3>2, <3>3, <3>4, <3>5, <3>6, <3>7, <3>8, <3>9, <3>10,
           <3>11, <3>12, <3>13 DEF Next
    <2> QED
      BY <1>1, <2>2 DEF IInv
  <1> QED
    BY <1>2, <1>3

\* The invariant holds throughout, for any configurations and any queries.
THEOREM Invariance == Spec => []IInv
  BY InitInv, StepInv, PTL DEF Spec

\* Every state is of its type: in particular BasePeerSet never runs out of
\* indices, and a query never has more than two configurations to visit.
THEOREM ContextTypes == Spec => []TypeOK
  <1>1. IInv => TypeOK
    BY DEF IInv
  <1> QED
    BY <1>1, Invariance, PTL

\* Whatever query runs, and whatever queries ran before it, each rule it uses
\* stands for exactly the peers its manifest selects, in the reduced form that
\* its domain asks for (reorganize_props_by_new_domains).
THEOREM RulesExact == Spec => []RulesAreExact
  <1>1. IInv => RulesAreExact
    <2> SUFFICES ASSUME IInv, phase = "executing", ~raised,
                        NEW p \in QueryPolicies(query), NEW r \in RulesOf[p]
                 PROVE  props[r] = Reduce(Only(Meaning(Selects[r])), domain)
      BY DEF RulesAreExact, QueryRules
    <2>1. p \in LoadedPolicies
      BY QueryRule DEF IInv, Sound
    <2>2. Reduced(r)
      BY <2>1 DEF IInv, Sound, RulesFit, QueryFits, InQuery, Narrowed, Left
    <2> QED
      BY <2>2 DEF Reduced, Exact
  <1> QED
    BY <1>1, Invariance, PTL

\* A policy whose properties are marked as in sync allows what its rules allow
\* under the domain of the query that runs now, never of an earlier one
\* (sync_props).
THEOREM PoliciesExact == Spec => []PoliciesAreExact
  <1>1. IInv => PoliciesAreExact
    <2> SUFFICES ASSUME IInv, phase = "executing", ~raised,
                        NEW p \in QueryPolicies(query), inSync[p]
                 PROVE  derived[p] = Computed(RulesOf[p])
      BY DEF PoliciesAreExact, Computed, SelectedBy
    <2>1. p \in Policies
      BY QueryRule DEF IInv, Sound
    <2> QED
      BY <2>1 DEF IInv, Sound, SyncFits
  <1> QED
    BY <1>1, Invariance, PTL

\* Between queries every rule is as it was parsed, and no policy claims to be in
\* sync, also when the configurations of a query shared policies
\* (restore_props, DimensionsManager.reset).
THEOREM QueriesRestore == Spec => []Restored
  <1>1. IInv => Restored
    <2> SUFFICES ASSUME IInv, phase = "ready", ~raised PROVE
          /\ domain = GeneralDomain
          /\ \A p \in LoadedPolicies : ~inSync[p] /\ \A r \in RulesOf[p] : AsParsed(r)
      BY DEF Restored, LoadedPolicies, AsParsed, Exact
    <2>1. domain = GeneralDomain
      BY DEF IInv, Sound, DomainFits, Narrowed
    <2>2. \A p \in LoadedPolicies : \A r \in RulesOf[p] : AsParsed(r)
      BY DEF IInv, Sound, RulesFit, InQuery
    <2>3. \A p \in LoadedPolicies : ~inSync[p]
      BY LoadedRule DEF IInv, Sound, SyncFits
    <2> QED
      BY <2>1, <2>2, <2>3
  <1> QED
    BY <1>1, Invariance, PTL
=============================================================================
