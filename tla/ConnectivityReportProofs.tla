---------------------- MODULE ConnectivityReportProofs ----------------------
(***************************************************************************)
(* The proofs about the connectivity report: what it shows is exactly the      *)
(* connectivity, as rules, as a drawing and as plain lines, whatever the        *)
(* cluster, its labels and the queries.                                         *)
(***************************************************************************)
EXTENDS ConnectivityReport, Recursion, FunctionTheorems, FiniteSetTheorems, TLAPS

(***************************************************************************)
(* Relations and their cubes.                                              *)
(***************************************************************************)
\* A relation has pairs only.
IsRelation(rel) == \A x \in rel : x = <<x[1], x[2]>>

\* What From and To are of a relation.
LEMMA FromTo ==
  ASSUME NEW rel, IsRelation(rel), NEW s, NEW d
  PROVE  /\ d \in From(rel, s) <=> <<s, d>> \in rel
         /\ s \in To(rel, d) <=> <<s, d>> \in rel
         /\ <<s, d>> \in rel => s \in Sources(rel) /\ d \in Targets(rel)
BY DEF From, To, IsRelation, Sources, Targets

\* A cube by sources is in the relation, and its sources are not none.
LEMMA CubeBySource ==
  ASSUME NEW rel, IsRelation(rel), NEW c \in CubesBySource(rel)
  PROVE  /\ c = <<c[1], c[2]>> /\ c[1] # {} /\ c[1] \subseteq Sources(rel) /\ c[2] \subseteq Targets(rel)
         /\ \A s \in c[1], d \in c[2] : <<s, d>> \in rel
<1>1. PICK s0 \in Sources(rel) :
        c = <<{t \in Sources(rel) : From(rel, t) = From(rel, s0)}, From(rel, s0)>>
  BY DEF CubesBySource
<1>2. s0 \in c[1] /\ c[1] \subseteq Sources(rel)
  BY <1>1
<1>3. ASSUME NEW s \in c[1], NEW d \in c[2] PROVE <<s, d>> \in rel
  <2>1. d \in From(rel, s)
    BY <1>1
  <2> QED
    BY <2>1, FromTo
<1>4. c[2] \subseteq Targets(rel)
  BY <1>2, <1>3, FromTo
<1> QED
  BY <1>1, <1>2, <1>3, <1>4

\* The same for a cube by targets.
LEMMA CubeByTarget ==
  ASSUME NEW rel, IsRelation(rel), NEW c \in CubesByTarget(rel)
  PROVE  /\ c = <<c[1], c[2]>> /\ c[2] # {} /\ c[1] \subseteq Sources(rel) /\ c[2] \subseteq Targets(rel)
         /\ \A s \in c[1], d \in c[2] : <<s, d>> \in rel
<1>1. PICK d0 \in Targets(rel) :
        c = <<To(rel, d0), {e \in Targets(rel) : To(rel, e) = To(rel, d0)}>>
  BY DEF CubesByTarget
<1>2. d0 \in c[2] /\ c[2] \subseteq Targets(rel)
  BY <1>1
<1>3. ASSUME NEW s \in c[1], NEW d \in c[2] PROVE <<s, d>> \in rel
  <2>1. s \in To(rel, d)
    BY <1>1
  <2> QED
    BY <2>1, FromTo
<1>4. c[1] \subseteq Sources(rel)
  BY <1>2, <1>3, FromTo
<1> QED
  BY <1>1, <1>2, <1>3, <1>4

\* The cubes have every pair of the relation.
LEMMA CubesCover ==
  ASSUME NEW rel, IsRelation(rel), NEW x \in rel
  PROVE  /\ \E c \in CubesBySource(rel) : x[1] \in c[1] /\ x[2] \in c[2]
         /\ \E c \in CubesByTarget(rel) : x[1] \in c[1] /\ x[2] \in c[2]
<1>1. x = <<x[1], x[2]>> /\ x[1] \in Sources(rel) /\ x[2] \in Targets(rel)
  BY DEF IsRelation, Sources, Targets
<1>2. x[2] \in From(rel, x[1]) /\ x[1] \in To(rel, x[2])
  BY <1>1, FromTo
<1>3. \E c \in CubesBySource(rel) : x[1] \in c[1] /\ x[2] \in c[2]
  <2> DEFINE c == <<{t \in Sources(rel) : From(rel, t) = From(rel, x[1])}, From(rel, x[1])>>
  <2>1. c \in CubesBySource(rel)
    BY <1>1 DEF CubesBySource
  <2>2. x[1] \in c[1] /\ x[2] \in c[2]
    BY <1>1, <1>2
  <2> QED
    BY <2>1, <2>2
<1>4. \E c \in CubesByTarget(rel) : x[1] \in c[1] /\ x[2] \in c[2]
  <2> DEFINE c == <<To(rel, x[2]), {e \in Targets(rel) : To(rel, e) = To(rel, x[2])}>>
  <2>1. c \in CubesByTarget(rel)
    BY <1>1 DEF CubesByTarget
  <2>2. x[1] \in c[1] /\ x[2] \in c[2]
    BY <1>1, <1>2
  <2> QED
    BY <2>1, <2>2
<1> QED
  BY <1>3, <1>4
-----------------------------------------------------------------------------
(***************************************************************************)
(* The sides of a group.                                                   *)
(***************************************************************************)
IsSide(x) == x = NsSide(x.of) \/ (x = PeerSide(x.of) /\ x.of \subseteq Peers)
IsGroup(pair) == pair = <<pair[1], pair[2]>> /\ IsSide(pair[1]) /\ IsSide(pair[2])

\* The peers of a side.
LEMMA SidePeersOf ==
  ASSUME NEW S
  PROVE  /\ SidePeers(NsSide(S)) = NsPeers(S) /\ SidePeers(PeerSide(S)) = S
         /\ NsSide(S).of = S /\ PeerSide(S).of = S
         /\ IsSide(NsSide(S)) /\ (S \subseteq Peers => IsSide(PeerSide(S)))
BY DEF SidePeers, NsSide, PeerSide, IsSide

\* The namespaces of a side have peers of the cluster.
LEMMA NsPeersArePeers == ASSUME NEW S PROVE NsPeers(S) \subseteq Named /\ NsPeers(S) \subseteq Peers
BY DEF NsPeers, ns_dict, Peers

\* A side has peers.
LEMMA SidesArePeers == ASSUME NEW x, IsSide(x) PROVE SidePeers(x) \subseteq Peers
BY SidePeersOf, NsPeersArePeers DEF IsSide

\* A pair of the product of a group.
LEMMA InProduct ==
  ASSUME NEW pair, NEW x
  PROVE  x \in Product(pair) <=> /\ x = <<x[1], x[2]>>
                                 /\ x[1] \in SidePeers(pair[1]) /\ x[2] \in SidePeers(pair[2])
BY DEF Product

\* Which side of a group is which.
LEMMA Sided ==
  ASSUME NEW x, NEW y
  PROVE  PairWith(TRUE, x, y) = <<x, y>> /\ PairWith(FALSE, x, y) = <<y, x>>
BY DEF PairWith

\* Relations of peers.
LEMMA PeerRelations ==
  ASSUME NEW rel, rel \subseteq Peers \X Peers
  PROVE  IsRelation(rel) /\ Sources(rel) \subseteq Peers /\ Targets(rel) \subseteq Peers
BY DEF IsRelation, Sources, Targets

\* An entry of ns_set_to_peer_set has namespaces that the peers of the other side are
\* covered with.
LEMMA NsEntriesFit ==
  ASSUME NEW cov, cov \subseteq Peers \X Peers, NEW namespaces, NEW isSrc \in BOOLEAN, NEW rest,
         NEW e \in NsEntries(cov, namespaces, isSrc, rest)
  PROVE  /\ e = <<e[1], e[2]>> /\ e[2] \subseteq Peers
         /\ Product(PairWith(isSrc, NsSide(e[1]), PeerSide(e[2]))) \subseteq cov
<1> DEFINE cubes == IF isSrc THEN CubesByTarget(cov) ELSE CubesBySource(cov)
           Dim(cube) == IF isSrc THEN cube[1] ELSE cube[2]
           Other(cube) == IF isSrc THEN cube[2] ELSE cube[1]
           Whole(cube) ==
             {ns \in namespaces :
                /\ ns_dict(ns) \subseteq Dim(cube)
                /\ rest \cap (IF isSrc THEN ns_dict(ns) \X Other(cube) ELSE Other(cube) \X ns_dict(ns)) # {}}
           sets == {Whole(cube) : cube \in cubes} \ {{}}
           Others(S) == UNION {Other(cube) : cube \in {c \in cubes : Whole(c) = S}}
<1>1. PICK S \in sets : e = <<S, Others(S)>>
  BY DEF NsEntries
<1>2. IsRelation(cov) /\ Sources(cov) \subseteq Peers /\ Targets(cov) \subseteq Peers
  BY PeerRelations
<1>3. ASSUME NEW cube \in cubes
      PROVE  /\ Other(cube) \subseteq Peers
             /\ \A p \in Dim(cube), q \in Other(cube) : (IF isSrc THEN <<p, q>> ELSE <<q, p>>) \in cov
  <2>1. CASE isSrc
    BY <2>1, <1>2, CubeByTarget
  <2>2. CASE ~isSrc
    BY <2>2, <1>2, CubeBySource
  <2> QED
    BY <2>1, <2>2
<1>4. \A cube \in cubes : \A ns \in Whole(cube) : ns_dict(ns) \subseteq Dim(cube)
  OBVIOUS
<1>5. ASSUME NEW q \in Others(S) PROVE \E cube \in cubes : Whole(cube) = S /\ q \in Other(cube)
  OBVIOUS
<1> HIDE DEF cubes, Dim, Other, Whole, sets, Others
<1>6. Others(S) \subseteq Peers
  BY <1>5, <1>3
<1>7. ASSUME NEW p \in NsPeers(S), NEW q \in Others(S) PROVE (IF isSrc THEN <<p, q>> ELSE <<q, p>>) \in cov
  <2>1. PICK cube \in cubes : Whole(cube) = S /\ q \in Other(cube)
    BY <1>5
  <2>2. PICK ns \in S : p \in ns_dict(ns)
    BY DEF NsPeers
  <2>3. p \in Dim(cube)
    BY <2>1, <2>2, <1>4
  <2> QED
    BY <2>1, <2>3, <1>3
<1>8. ASSUME NEW x \in Product(PairWith(isSrc, NsSide(S), PeerSide(Others(S)))) PROVE x \in cov
  <2>1. CASE isSrc
    <3>0. PairWith(isSrc, NsSide(S), PeerSide(Others(S))) = <<NsSide(S), PeerSide(Others(S))>>
      BY <2>1 DEF PairWith
    <3>1. x = <<x[1], x[2]>> /\ x[1] \in NsPeers(S) /\ x[2] \in Others(S)
      BY <3>0, <1>8, InProduct, SidePeersOf
    <3> QED
      BY <2>1, <3>1, <1>7
  <2>2. CASE ~isSrc
    <3>0. PairWith(isSrc, NsSide(S), PeerSide(Others(S))) = <<PeerSide(Others(S)), NsSide(S)>>
      BY <2>2 DEF PairWith
    <3>1. x = <<x[1], x[2]>> /\ x[2] \in NsPeers(S) /\ x[1] \in Others(S)
      BY <3>0, <1>8, InProduct, SidePeersOf
    <3> QED
      BY <2>2, <3>1, <1>7
  <2> QED
    BY <2>1, <2>2
<1> QED
  BY <1>1, <1>6, <1>8

\* All addresses, or a DNS name, with the peers that are covered with all of them.
LEMMA OutsideFit ==
  ASSUME covered \subseteq Peers \X Peers, NEW isSrc \in BOOLEAN, NEW rest,
         NEW pair \in OutsideEntries(isSrc, rest)
  PROVE  IsGroup(pair) /\ Product(pair) \subseteq covered
<1> DEFINE cubes == IF isSrc THEN CubesByTarget(covered) ELSE CubesBySource(covered)
           Dim(cube) == IF isSrc THEN cube[1] ELSE cube[2]
           Other(cube) == IF isSrc THEN cube[2] ELSE cube[1]
           Covers(cube, S) == rest \cap Product(PairWith(isSrc, PeerSide(S), PeerSide(Other(cube)))) # {}
           Whole(cube) == {S \in {Dim(cube) \cap Ips} \cap FullIps : Covers(cube, S)}
                          \cup {S \in {{d} : d \in Dim(cube) \cap DnsEntries} : Covers(cube, S)}
           sets == UNION {Whole(cube) : cube \in cubes}
           Others(S) == UNION {Other(cube) : cube \in {c \in cubes : S \in Whole(c)}}
<1>1. PICK S \in sets : pair = PairWith(isSrc, PeerSide(S), PeerSide(Others(S)))
  BY DEF OutsideEntries
<1>2. IsRelation(covered) /\ Sources(covered) \subseteq Peers /\ Targets(covered) \subseteq Peers
  BY PeerRelations
<1>3. ASSUME NEW cube \in cubes
      PROVE  /\ Other(cube) \subseteq Peers /\ Dim(cube) \subseteq Peers
             /\ \A p \in Dim(cube), q \in Other(cube) : (IF isSrc THEN <<p, q>> ELSE <<q, p>>) \in covered
  <2>1. CASE isSrc
    BY <2>1, <1>2, CubeByTarget
  <2>2. CASE ~isSrc
    BY <2>2, <1>2, CubeBySource
  <2> QED
    BY <2>1, <2>2
<1> HIDE DEF Covers
<1>4. \A cube \in cubes : \A T \in Whole(cube) : T \subseteq Dim(cube)
  OBVIOUS
<1>5. ASSUME NEW q \in Others(S) PROVE \E cube \in cubes : S \in Whole(cube) /\ q \in Other(cube)
  OBVIOUS
<1>50. \E cube \in cubes : S \in Whole(cube)
  OBVIOUS
<1> HIDE DEF cubes, Dim, Other, Whole, sets, Others
<1>6. Others(S) \subseteq Peers /\ S \subseteq Peers
  BY <1>5, <1>50, <1>4, <1>3
<1>7. ASSUME NEW p \in S, NEW q \in Others(S) PROVE (IF isSrc THEN <<p, q>> ELSE <<q, p>>) \in covered
  <2>1. PICK cube \in cubes : S \in Whole(cube) /\ q \in Other(cube)
    BY <1>5
  <2>3. p \in Dim(cube)
    BY <2>1, <1>4
  <2> QED
    BY <2>1, <2>3, <1>3
<1>8. CASE isSrc
  <2>1. pair = <<PeerSide(S), PeerSide(Others(S))>>
    BY <1>1, <1>8, Sided
  <2>2. IsGroup(pair)
    BY <2>1, <1>6, SidePeersOf DEF IsGroup
  <2>3. ASSUME NEW x \in Product(pair) PROVE x \in covered
    <3>1. x = <<x[1], x[2]>> /\ x[1] \in S /\ x[2] \in Others(S)
      BY <2>1, <2>3, InProduct, SidePeersOf
    <3> QED
      BY <3>1, <1>7, <1>8
  <2> QED
    BY <2>2, <2>3
<1>9. CASE ~isSrc
  <2>1. pair = <<PeerSide(Others(S)), PeerSide(S)>>
    BY <1>1, <1>9, Sided
  <2>2. IsGroup(pair)
    BY <2>1, <1>6, SidePeersOf DEF IsGroup
  <2>3. ASSUME NEW x \in Product(pair) PROVE x \in covered
    <3>1. x = <<x[1], x[2]>> /\ x[2] \in S /\ x[1] \in Others(S)
      BY <2>1, <2>3, InProduct, SidePeersOf
    <3> QED
      BY <3>1, <1>7, <1>9
  <2> QED
    BY <2>2, <2>3
<1> QED
  BY <1>8, <1>9
-----------------------------------------------------------------------------
(***************************************************************************)
(* The grouping of pairs loses none and adds none.                         *)
(***************************************************************************)
\* The pairs that may be in a group of the connections c.
Allowed(c) == props[c] \cup Containing(c) \cup AutoPairs
GroupsMade == ns_set_pairs \cup base_elem_pairs
InGroups == UNION {Product(pair) : pair \in GroupsMade}
Fits(e) ==
  /\ e = <<e[1], e[2]>> /\ e[2] \subseteq Peers
  /\ Product(PairWith(stage = "src ns", NsSide(e[1]), PeerSide(e[2]))) \subseteq covered

\* The connections that have rules or are to have some are those of props_to_peers.
FwTypeOK ==
  /\ \A c \in DOMAIN props : props[c] \subseteq Peers \X Peers
  /\ todo \subseteq DOMAIN props
  /\ stage \in {"next", "full ns", "dst ns", "src ns", "rules"}
  /\ stage # "next" => curr \in DOMAIN props /\ curr \notin todo
  /\ stage \notin {"dst ns", "src ns"} => pending = {}
\* What the steps of the grouping keep.
GroupingInv ==
  /\ stage # "next" => covered \subseteq Allowed(curr)
  /\ stage = "full ns" => props[curr] \subseteq covered /\ base_elem_pairs = {}
  /\ stage \in {"dst ns", "src ns", "rules"} =>
       /\ left \subseteq props[curr] /\ props[curr] \subseteq InGroups \cup left
       /\ InGroups \subseteq Allowed(curr)
       /\ \A pair \in GroupsMade : IsGroup(pair)
       /\ \A e \in pending : Fits(e)
FwInv == FwTypeOK /\ GroupingInv

\* What may be in a group are pairs of peers.
LEMMA AllowedArePeers ==
  ASSUME FwTypeOK, NEW c \in DOMAIN props
  PROVE  Allowed(c) \subseteq Peers \X Peers
<1>1. Containing(c) \subseteq Peers \X Peers
  BY DEF FwTypeOK, Containing
<1>2. AutoPairs \subseteq Peers \X Peers
  BY DEF AutoPairs
<1> QED
  BY <1>1, <1>2 DEF Allowed, FwTypeOK

\* What was covered is covered by pairs of peers.
LEMMA CoveredArePeers ==
  ASSUME FwInv, stage # "next"
  PROVE  covered \subseteq Peers \X Peers /\ props[curr] \subseteq Peers \X Peers
BY AllowedArePeers DEF FwInv, FwTypeOK, GroupingInv

\* Pairs of peers as a function of sets of connections.
LEMMA PropsArePeers ==
  ASSUME NEW conns, \A x \in conns : x \in Peers \X Peers \X Conns, NEW protocols,
         NEW c \in DOMAIN PropsToPeers(conns, protocols)
  PROVE  PropsToPeers(conns, protocols)[c] \subseteq Peers \X Peers
<1>1. PairsOf(conns) \subseteq Peers \X Peers
  BY DEF PairsOf
<1> DEFINE Of(pair) == ExtractConns(ConnsOf(conns, pair[1], pair[2]), protocols)
<1>2. PropsToPeers(conns, protocols)
        = [e \in {Of(pair) : pair \in PairsOf(conns)} |-> {pair \in PairsOf(conns) : Of(pair) = e}]
  BY DEF PropsToPeers
<1> HIDE DEF Of
<1>3. PropsToPeers(conns, protocols)[c] = {pair \in PairsOf(conns) : Of(pair) = c}
  BY <1>2
<1> QED
  BY <1>1, <1>3

\* The first step for a set of connections.
LEMMA StartPropsKeeps ==
  ASSUME FwInv, NEW c \in todo, StartProps(c)
  PROVE  FwInv'
<1>1. /\ stage = "next" /\ todo' = todo \ {c} /\ curr' = c /\ stage' = "full ns" /\ base_elem_pairs' = {}
      /\ pending' = {} /\ props' = props
  BY DEF StartProps
<1>2. c \in DOMAIN props /\ props[c] \subseteq Peers \X Peers
  BY DEF FwInv, FwTypeOK
<1>3. FwTypeOK'
  BY <1>1, <1>2 DEF FwInv, FwTypeOK
<1>4. props[c] \subseteq covered' /\ covered' \subseteq Allowed(c)
  <2> DEFINE peers == Sources(props[c]) \cup Targets(props[c])
  <2>1. covered' = props[c] \cup Containing(c)
                   \cup (IF Cardinality(peers) < AutoLimit THEN {<<p, p>> : p \in peers \cap Clusters} ELSE {})
    BY DEF StartProps
  <2>2. peers \subseteq Peers
    BY <1>2, PeerRelations
  <2> HIDE DEF peers
  <2>3. {<<p, p>> : p \in peers \cap Clusters} \subseteq AutoPairs
    BY <2>2 DEF AutoPairs
  <2> QED
    BY <2>1, <2>3 DEF Allowed
<1>5. Allowed(c)' = Allowed(c)
  BY <1>1 DEF Allowed, Containing
<1>6. GroupingInv'
  BY <1>1, <1>4, <1>5 DEF GroupingInv
<1> QED
  BY <1>3, <1>6 DEF FwInv

\* The products of pairs of namespaces are those of the cubes of the pairs.
LEMMA NsCubes ==
  ASSUME NEW own, IsRelation(own), NEW cubes \in {CubesBySource(own), CubesByTarget(own)}
  PROVE  UNION {Product(pair) : pair \in {<<NsSide(c[1]), NsSide(c[2])>> : c \in cubes}}
           = UNION {NsProduct(nm) : nm \in own}
<1> DEFINE G == {<<NsSide(c[1]), NsSide(c[2])>> : c \in cubes}
<1>1. ASSUME NEW x \in UNION {Product(pair) : pair \in G} PROVE x \in UNION {NsProduct(nm) : nm \in own}
  <2>1. PICK c \in cubes : x \in Product(<<NsSide(c[1]), NsSide(c[2])>>)
    BY <1>1
  <2>2. x = <<x[1], x[2]>> /\ x[1] \in NsPeers(c[1]) /\ x[2] \in NsPeers(c[2])
    BY <2>1, InProduct, SidePeersOf
  <2>3. PICK n \in c[1], m \in c[2] : x[1] \in ns_dict(n) /\ x[2] \in ns_dict(m)
    BY <2>2 DEF NsPeers
  <2>4. <<n, m>> \in own
    BY CubeBySource, CubeByTarget
  <2>5. x \in NsProduct(<<n, m>>)
    BY <2>2, <2>3 DEF NsProduct
  <2> QED
    BY <2>4, <2>5
<1>2. ASSUME NEW x \in UNION {NsProduct(nm) : nm \in own} PROVE x \in UNION {Product(pair) : pair \in G}
  <2>1. PICK nm \in own : x \in NsProduct(nm)
    BY <1>2
  <2>2. x = <<x[1], x[2]>> /\ x[1] \in ns_dict(nm[1]) /\ x[2] \in ns_dict(nm[2])
    BY <2>1 DEF NsProduct
  <2>3. PICK c \in cubes : nm[1] \in c[1] /\ nm[2] \in c[2]
    BY CubesCover
  <2>4. x[1] \in NsPeers(c[1]) /\ x[2] \in NsPeers(c[2])
    BY <2>2, <2>3 DEF NsPeers
  <2>5. x \in Product(<<NsSide(c[1]), NsSide(c[2])>>)
    BY <2>2, <2>4, InProduct, SidePeersOf
  <2> QED
    BY <2>5
<1> QED
  BY <1>1, <1>2

\* The grouping of whole namespaces on both sides.
LEMMA FullNsKeeps ==
  ASSUME FwInv, FullNsGrouping
  PROVE  FwInv'
<1> DEFINE grouped == {nm \in SrcNs \X DstNs : NsProduct(nm) \subseteq covered}
           own == {nm \in grouped : NsProduct(nm) \cap props[curr] # {}}
           cov == covered \ UNION {NsProduct(nm) : nm \in grouped}
           rest == props[curr] \cap ((WithoutNs \X Peers) \cup (Peers \X WithoutNs)
                                     \cup UNION {NsProduct(nm) : nm \in (SrcNs \X DstNs) \ grouped})
<1>1. /\ stage = "full ns" /\ stage' = "dst ns" /\ covered' = cov /\ left' = rest
      /\ pending' = NsEntries(cov, DstNs, FALSE, rest)
      /\ props' = props /\ todo' = todo /\ curr' = curr /\ base_elem_pairs' = base_elem_pairs
  BY DEF FullNsGrouping
<1>2. PICK cubes \in {CubesBySource(own), CubesByTarget(own)} :
        ns_set_pairs' = {<<NsSide(c[1]), NsSide(c[2])>> : c \in cubes}
  <2>1. ns_set_pairs' = {<<NsSide(c[1]), NsSide(c[2])>> :
                           c \in IF Cardinality(CubesBySource(own)) <= Cardinality(CubesByTarget(own))
                                   THEN CubesBySource(own) ELSE CubesByTarget(own)}
    BY DEF FullNsGrouping
  <2> QED
    BY <2>1
<1>3. covered \subseteq Peers \X Peers /\ props[curr] \subseteq Peers \X Peers /\ props[curr] \subseteq covered
  BY <1>1, CoveredArePeers DEF FwInv, GroupingInv
<1>4. InGroups' = UNION {NsProduct(nm) : nm \in own} /\ \A pair \in GroupsMade' : IsGroup(pair)
  <2>1. IsRelation(own)
    BY DEF IsRelation
  <2>2. GroupsMade' = {<<NsSide(c[1]), NsSide(c[2])>> : c \in cubes}
    BY <1>1, <1>2 DEF GroupsMade, FwInv, GroupingInv
  <2>3. ASSUME NEW pair \in GroupsMade' PROVE IsGroup(pair)
    BY <2>2, SidePeersOf DEF IsGroup
  <2>4. InGroups' = UNION {Product(pair) : pair \in GroupsMade'}
    BY DEF InGroups
  <2> HIDE DEF own
  <2> QED
    BY <2>1, <2>2, <2>3, <2>4, NsCubes
<1>5. ASSUME NEW x \in props[curr], x \notin rest PROVE x \in UNION {NsProduct(nm) : nm \in own}
  <2>1. x \in covered /\ x = <<x[1], x[2]>> /\ x[1] \in Pods /\ x[2] \in Pods
    <3>1. x \in covered /\ x = <<x[1], x[2]>> /\ x[1] \in Peers /\ x[2] \in Peers
      BY <1>3
    <3>2. x \notin WithoutNs \X Peers /\ x \notin Peers \X WithoutNs
      BY <1>5
    <3> QED
      BY <3>1, <3>2 DEF WithoutNs
  <2> DEFINE nm == <<NsOf[x[1]], NsOf[x[2]]>>
  <2>2. nm \in SrcNs \X DstNs
    <3>1. x[1] \in Sources(covered) /\ x[2] \in Targets(covered)
      BY <2>1 DEF Sources, Targets
    <3> QED
      BY <2>1, <3>1 DEF SrcNs, DstNs
  <2>3. x \in NsProduct(nm)
    <3>1. x[1] \in ns_dict(NsOf[x[1]]) /\ x[2] \in ns_dict(NsOf[x[2]])
      BY <2>1 DEF ns_dict, NamespaceOf, Named, Clusters
    <3> QED
      BY <2>1, <3>1 DEF NsProduct
  <2> HIDE DEF nm
  <2>4. nm \in grouped
    BY <2>2, <2>3, <1>5
  <2>5. nm \in own
    BY <2>4, <2>3
  <2> QED
    BY <2>3, <2>5
<1>6. UNION {NsProduct(nm) : nm \in own} \subseteq covered
  OBVIOUS
<1>7. rest \subseteq props[curr] /\ cov \subseteq covered
  OBVIOUS
<1> HIDE DEF grouped, own, cov, rest
<1>8. Allowed(curr)' = Allowed(curr) /\ covered \subseteq Allowed(curr)
  BY <1>1 DEF Allowed, Containing, FwInv, GroupingInv
<1>9. ASSUME NEW e \in pending' PROVE Fits(e)'
  <2>1. cov \subseteq Peers \X Peers /\ FALSE \in BOOLEAN
    BY <1>3, <1>7
  <2>2. /\ e = <<e[1], e[2]>> /\ e[2] \subseteq Peers
        /\ Product(PairWith(FALSE, NsSide(e[1]), PeerSide(e[2]))) \subseteq cov
    BY <1>1, <2>1, NsEntriesFit
  <2>3. (stage' = "src ns") = FALSE
    BY <1>1
  <2> QED
    BY <1>1, <2>2, <2>3 DEF Fits
<1>10. FwTypeOK'
  BY <1>1 DEF FwInv, FwTypeOK
<1>11. GroupingInv'
  BY <1>1, <1>3, <1>4, <1>5, <1>6, <1>7, <1>8, <1>9 DEF GroupingInv
<1> QED
  BY <1>10, <1>11 DEF FwInv

\* One entry of a namespace with a set of peers.
LEMMA TakeNsEntryKeeps ==
  ASSUME FwInv, NEW entry \in pending, TakeNsEntry(entry)
  PROVE  FwInv'
<1> DEFINE isSrc == stage = "src ns"
           named == PairWith(isSrc, NsSide(entry[1]), PeerSide(entry[2] \ Ips))
           ips == PairWith(isSrc, NsSide(entry[1]), PeerSide(entry[2] \cap Ips))
           both == PairWith(isSrc, NsSide(entry[1]), PeerSide(entry[2]))
           Useful(pair, rest) == Product(pair) \cap rest # {}
           new == {pair \in {named} : Useful(pair, left)}
                  \cup {pair \in {ips} : Useful(pair, left \ Product(named))}
<1>1. /\ pending' = pending \ {entry} /\ left' = left \ (Product(named) \cup Product(ips))
      /\ base_elem_pairs' = base_elem_pairs \cup new
      /\ props' = props /\ todo' = todo /\ curr' = curr /\ stage' = stage /\ covered' = covered
      /\ ns_set_pairs' = ns_set_pairs
  BY DEF TakeNsEntry
<1>2. stage \in {"dst ns", "src ns"}
  BY DEF FwInv, FwTypeOK
<1>3. /\ left \subseteq props[curr] /\ props[curr] \subseteq InGroups \cup left
      /\ InGroups \subseteq Allowed(curr) /\ covered \subseteq Allowed(curr)
      /\ \A pair \in GroupsMade : IsGroup(pair)
      /\ \A e \in pending : Fits(e)
  BY <1>2 DEF FwInv, GroupingInv
<1>4. entry[2] \subseteq Peers /\ Product(both) \subseteq covered
  BY <1>3 DEF Fits
<1>5. /\ IsGroup(named) /\ IsGroup(ips)
      /\ Product(named) \subseteq Product(both) /\ Product(ips) \subseteq Product(both)
  <2>1. CASE isSrc
    <3>1. /\ named = <<NsSide(entry[1]), PeerSide(entry[2] \ Ips)>>
          /\ ips = <<NsSide(entry[1]), PeerSide(entry[2] \cap Ips)>>
          /\ both = <<NsSide(entry[1]), PeerSide(entry[2])>>
      BY <2>1 DEF PairWith
    <3> HIDE DEF named, ips, both
    <3> QED
      BY <3>1, <1>4, SidePeersOf, InProduct DEF IsGroup
  <2>2. CASE ~isSrc
    <3>1. /\ named = <<PeerSide(entry[2] \ Ips), NsSide(entry[1])>>
          /\ ips = <<PeerSide(entry[2] \cap Ips), NsSide(entry[1])>>
          /\ both = <<PeerSide(entry[2]), NsSide(entry[1])>>
      BY <2>2 DEF PairWith
    <3> HIDE DEF named, ips, both
    <3> QED
      BY <3>1, <1>4, SidePeersOf, InProduct DEF IsGroup
  <2> QED
    BY <2>1, <2>2
<1> HIDE DEF named, ips, both, isSrc
<1>6. \A pair \in new : pair \in {named, ips}
  OBVIOUS
<1>7. ASSUME NEW x \in left, x \in Product(named) \cup Product(ips) PROVE \E pair \in new : x \in Product(pair)
  <2>1. CASE x \in Product(named)
    BY <2>1
  <2>2. CASE x \notin Product(named)
    <3>1. x \in Product(ips) /\ ips \in new
      BY <1>7, <2>2
    <3> QED
      BY <3>1
  <2> QED
    BY <2>1, <2>2
<1> HIDE DEF new
<1>8. GroupsMade' = GroupsMade \cup new
  BY <1>1 DEF GroupsMade
<1>9. InGroups' = InGroups \cup UNION {Product(pair) : pair \in new}
  <2>1. InGroups' = UNION {Product(pair) : pair \in GroupsMade'}
    BY DEF InGroups
  <2> QED
    BY <2>1, <1>8 DEF InGroups
<1>10. UNION {Product(pair) : pair \in new} \subseteq covered
  BY <1>4, <1>5, <1>6
<1>11. \A pair \in GroupsMade' : IsGroup(pair)
  BY <1>3, <1>5, <1>6, <1>8
<1>12. props[curr] \subseteq InGroups' \cup left'
  BY <1>1, <1>3, <1>7, <1>9
<1>13. Allowed(curr)' = Allowed(curr) /\ \A e \in pending' : Fits(e)'
  <2>1. ASSUME NEW e \in pending' PROVE Fits(e)'
    <3>1. Fits(e)
      BY <1>1, <1>3
    <3> QED
      BY <1>1, <3>1 DEF Fits
  <2> QED
    BY <1>1, <2>1 DEF Allowed, Containing
<1>14. FwTypeOK'
  BY <1>1, <1>2 DEF FwInv, FwTypeOK
<1>15. left' \subseteq props[curr] /\ InGroups' \subseteq Allowed(curr)
  BY <1>1, <1>3, <1>9, <1>10
<1>16. GroupingInv'
  BY <1>1, <1>2, <1>3, <1>11, <1>12, <1>13, <1>15 DEF GroupingInv
<1> QED
  BY <1>14, <1>16 DEF FwInv

\* The passage to the next of the partial groupings.
LEMMA NextGroupingKeeps ==
  ASSUME FwInv, NextGrouping
  PROVE  FwInv'
<1>1. /\ stage \in {"dst ns", "src ns"} /\ pending = {}
      /\ props' = props /\ todo' = todo /\ curr' = curr /\ covered' = covered /\ ns_set_pairs' = ns_set_pairs
  BY DEF NextGrouping
<1>2. /\ left \subseteq props[curr] /\ props[curr] \subseteq InGroups \cup left
      /\ InGroups \subseteq Allowed(curr) /\ covered \subseteq Allowed(curr)
      /\ \A pair \in GroupsMade : IsGroup(pair)
  BY <1>1 DEF FwInv, GroupingInv
<1>3. covered \subseteq Peers \X Peers
  BY <1>1, CoveredArePeers
<1>4. Allowed(curr)' = Allowed(curr)
  BY <1>1 DEF Allowed, Containing
<1>5. ASSUME stage = "dst ns", left # {} PROVE FwInv'
  <2>1. /\ stage' = "src ns" /\ pending' = NsEntries(covered, SrcNs, TRUE, left)
        /\ left' = left /\ base_elem_pairs' = base_elem_pairs
    BY <1>5 DEF NextGrouping
  <2>2. ASSUME NEW e \in pending' PROVE Fits(e)'
    <3>1. /\ e = <<e[1], e[2]>> /\ e[2] \subseteq Peers
          /\ Product(PairWith(TRUE, NsSide(e[1]), PeerSide(e[2]))) \subseteq covered
      <4> TRUE \in BOOLEAN
        OBVIOUS
      <4> QED
        BY <2>1, <1>3, NsEntriesFit
    <3>2. (stage' = "src ns") = TRUE
      BY <2>1
    <3> QED
      BY <1>1, <3>1, <3>2 DEF Fits
  <2>3. GroupsMade' = GroupsMade /\ InGroups' = InGroups
    BY <1>1, <2>1 DEF GroupsMade, InGroups
  <2>4. FwTypeOK'
    BY <1>1, <2>1 DEF FwInv, FwTypeOK
  <2>5. GroupingInv'
    BY <1>1, <1>2, <1>4, <2>1, <2>2, <2>3 DEF GroupingInv
  <2> QED
    BY <2>4, <2>5 DEF FwInv
<1>6. ASSUME ~(stage = "dst ns" /\ left # {}) PROVE FwInv'
  <2> DEFINE dst == IF left = {} THEN {} ELSE OutsideEntries(FALSE, left)
             rest == left \ UNION {Product(pair) : pair \in dst}
             src == IF rest = {} THEN {} ELSE OutsideEntries(TRUE, rest)
  <2>1. /\ stage' = "rules" /\ left' = rest \ UNION {Product(pair) : pair \in src}
        /\ base_elem_pairs' = base_elem_pairs \cup dst \cup src /\ pending' = pending
    BY <1>6 DEF NextGrouping
  <2>2. \A pair \in dst \cup src : IsGroup(pair) /\ Product(pair) \subseteq covered
    <3> TRUE \in BOOLEAN /\ FALSE \in BOOLEAN
      OBVIOUS
    <3> HIDE DEF rest
    <3> QED
      BY <1>3, OutsideFit
  <2>3. rest = left \ UNION {Product(pair) : pair \in dst}
    OBVIOUS
  <2> HIDE DEF dst, rest, src
  <2>4. GroupsMade' = GroupsMade \cup dst \cup src
    BY <1>1, <2>1 DEF GroupsMade
  <2>5. InGroups' = InGroups \cup (UNION {Product(pair) : pair \in dst}) \cup UNION {Product(pair) : pair \in src}
    <3>1. InGroups' = UNION {Product(pair) : pair \in GroupsMade'}
      BY DEF InGroups
    <3> QED
      BY <3>1, <2>4 DEF InGroups
  <2>6. \A pair \in GroupsMade' : IsGroup(pair)
    BY <1>2, <2>2, <2>4
  <2>7. left' \subseteq props[curr] /\ props[curr] \subseteq InGroups' \cup left'
    BY <1>2, <2>1, <2>3, <2>5
  <2>8. InGroups' \subseteq Allowed(curr)
    BY <1>2, <2>2, <2>5
  <2>9. FwTypeOK'
    BY <1>1, <2>1 DEF FwInv, FwTypeOK
  <2>10. GroupingInv'
    BY <1>1, <1>2, <1>4, <2>1, <2>6, <2>7, <2>8 DEF GroupingInv
  <2> QED
    BY <2>9, <2>10 DEF FwInv
<1> QED
  BY <1>5, <1>6

\* The rules are made.
LEMMA CreateRulesKeeps ==
  ASSUME FwInv, CreateRules
  PROVE  FwInv'
BY DEF FwInv, FwTypeOK, GroupingInv, CreateRules

\* A step of the rules keeps the invariant.
LEMMA FwStepKeeps ==
  ASSUME FwInv, FwStep
  PROVE  FwInv'
BY StartPropsKeeps, FullNsKeeps, TakeNsEntryKeeps, NextGroupingKeeps, CreateRulesKeeps DEF FwStep

\* So does a step of another part of the report.
LEMMA FwInvUnchanged ==
  ASSUME FwInv, UNCHANGED fwVars
  PROVE  FwInv'
<1>1. /\ props' = props /\ todo' = todo /\ curr' = curr /\ stage' = stage /\ covered' = covered
      /\ left' = left /\ ns_set_pairs' = ns_set_pairs /\ base_elem_pairs' = base_elem_pairs
      /\ pending' = pending
  BY DEF fwVars
<1>2. FwTypeOK'
  BY <1>1 DEF FwInv, FwTypeOK
<1>3. Allowed(curr)' = Allowed(curr) /\ GroupsMade' = GroupsMade /\ InGroups' = InGroups
  BY <1>1 DEF Allowed, Containing, InGroups, GroupsMade
<1>4. \A e : Fits(e)' <=> Fits(e)
  BY <1>1 DEF Fits
<1>5. GroupingInv'
  BY <1>1, <1>3, <1>4 DEF FwInv, GroupingInv
<1> QED
  BY <1>2, <1>5 DEF FwInv
-----------------------------------------------------------------------------
(***************************************************************************)
(* The parts of a report, one after the other.                             *)
(***************************************************************************)
\* The rules and the drawing are worked on only while a part is reported in that form.
ControlInv ==
  /\ query \in Queries
  /\ parts \in {<<"TCP", "non-TCP">>, <<"non-TCP">>, <<"all">>, << >>}
  /\ Range(parts) \subseteq Range(PartsOf(query))
  /\ part \in {"none"} \cup Range(PartsOf(query))
  /\ part = "none" => RulesDone /\ GraphDone
  /\ part # "none" => query.format \in {"rules", "dot"}
  /\ query.format # "rules" => RulesDone
  /\ query.format # "dot" => GraphDone

\* The connections of a part are connections of peers.
LEMMA ConnsOfPart ==
  ASSUME query \in Queries, NEW p
  PROVE  /\ PartConns(p) \subseteq AllConns(query)
         /\ \A x \in AllConns(query) : x \in Peers \X Peers \X Conns /\ RealPair(x[1], x[2])
BY QueriesAssumption DEF PartConns, AllConns

\* The parts of a query.
LEMMA PartsOfQuery ==
  ASSUME NEW q
  PROVE  /\ PartsOf(q) \in {<<"TCP", "non-TCP">>, <<"all">>}
         /\ Range(PartsOf(q)) \in {{"TCP", "non-TCP"}, {"all"}}
<1>1. Range(<<"TCP", "non-TCP">>) = {"TCP", "non-TCP"} /\ Range(<<"all">>) = {"all"}
  BY DEF Range
<1> QED
  BY <1>1 DEF PartsOf

\* The first of the parts that are left, and the others.
LEMMA FirstPart ==
  ASSUME ControlInv, parts # << >>
  PROVE  /\ Tail(parts) \in {<<"non-TCP">>, << >>}
         /\ Head(parts) # "none" /\ Range(parts) = Range(Tail(parts)) \cup {Head(parts)}
<1>1. CASE parts = <<"TCP", "non-TCP">>
  <2>1. Head(parts) = "TCP" /\ Tail(parts) = <<"non-TCP">>
    BY <1>1
  <2>2. Range(parts) = {"TCP", "non-TCP"} /\ Range(<<"non-TCP">>) = {"non-TCP"}
    BY <1>1 DEF Range
  <2> QED
    BY <2>1, <2>2
<1>2. CASE parts \in {<<"non-TCP">>, <<"all">>}
  <2>1. Tail(parts) = << >> /\ Head(parts) # "none"
    <3>1. CASE parts = <<"non-TCP">>
      BY <3>1
    <3>2. CASE parts = <<"all">>
      BY <3>2
    <3> QED
      BY <1>2, <3>1, <3>2
  <2>2. Range(parts) = {Head(parts)} /\ Range(Tail(parts)) = {}
    <3>1. parts = <<Head(parts)>> /\ DOMAIN parts = {1} /\ DOMAIN Tail(parts) = {}
      BY <1>2, <2>1
    <3> QED
      BY <3>1 DEF Range
  <2> QED
    BY <2>1, <2>2
<1> QED
  BY <1>1, <1>2 DEF ControlInv

\* Done with rules, there is no step of theirs.
LEMMA NoFwStep ==
  ASSUME FwInv, RulesDone, FwStep
  PROVE  FALSE
<1>1. stage = "next" /\ todo = {} /\ pending = {}
  BY DEF RulesDone, FwInv, FwTypeOK
<1> QED
  BY <1>1 DEF FwStep, FullNsGrouping, NextGrouping, CreateRules

\* Done with the drawing, there is no step of it.
LEMMA NoGraphStep ==
  ASSUME GraphDone, GraphStep
  PROVE  FALSE
BY DEF GraphDone, GraphStep, TakeBiclique, FinishDrawing

\* The cases of a step.
LEMMA StepCases ==
  ASSUME [Next]_vars
  PROVE  \/ StartPart \/ EndPart
         \/ FwStep /\ UNCHANGED <<graphVars, reportVars>>
         \/ GraphStep /\ UNCHANGED <<fwVars, reportVars>>
         \/ UNCHANGED vars
BY DEF Next

\* The query is never changed.
LEMMA QueryStays ==
  ASSUME [Next]_vars
  PROVE  query' = query
BY StepCases DEF StartPart, EndPart, reportVars, vars

\* Initially.
LEMMA ControlInit ==
  ASSUME Init
  PROVE  ControlInv /\ FwInv
<1>1. /\ query \in Queries /\ part = "none" /\ NoRules /\ NoGraph
  BY DEF Init
<1>2. ControlInv
  <2>1. RulesDone /\ GraphDone
    BY <1>1 DEF NoRules, NoGraph, RulesDone, GraphDone, NotDrawing
  <2>2. parts = PartsOf(query)
    BY DEF Init
  <2>3. parts \in {<<"TCP", "non-TCP">>, <<"non-TCP">>, <<"all">>, << >>}
    BY <2>2, PartsOfQuery
  <2> QED
    BY <1>1, <2>1, <2>2, <2>3 DEF ControlInv
<1>3. DOMAIN props = {}
  BY <1>1 DEF NoRules
<1>4. FwInv
  BY <1>1, <1>3 DEF FwInv, FwTypeOK, GroupingInv, NoRules
<1> QED
  BY <1>2, <1>4

\* The control of the report.
LEMMA ControlStep ==
  ASSUME ControlInv, FwInv, [Next]_vars
  PROVE  ControlInv'
<1>0. query' = query /\ query \in Queries
  BY QueryStays DEF ControlInv
<1>1. ASSUME StartPart PROVE ControlInv'
  <2>1. part = "none" /\ RulesDone /\ GraphDone /\ parts # << >> /\ parts' = Tail(parts)
    BY <1>1 DEF StartPart, ControlInv
  <2>2. /\ parts' \in {<<"non-TCP">>, << >>} /\ Head(parts) # "none" /\ Head(parts) \in Range(PartsOf(query))
        /\ Range(parts') \subseteq Range(PartsOf(query))
    BY <2>1, FirstPart DEF ControlInv
  <2>3. \/ query.format = "rules" /\ UNCHANGED graphVars /\ part' = Head(parts)
        \/ query.format = "dot" /\ UNCHANGED fwVars /\ part' = Head(parts)
        \/ UNCHANGED <<fwVars, graphVars, part>>
    BY <1>1 DEF StartPart
  <2>4. (UNCHANGED fwVars => RulesDone') /\ (UNCHANGED graphVars => GraphDone')
    BY <2>1 DEF fwVars, graphVars, RulesDone, GraphDone
  <2> QED
    BY <1>0, <2>1, <2>2, <2>3, <2>4 DEF ControlInv
<1>2. ASSUME EndPart PROVE ControlInv'
  <2>1. part' = "none" /\ RulesDone /\ GraphDone /\ UNCHANGED <<fwVars, graphVars>> /\ parts' = parts
    BY <1>2 DEF EndPart
  <2>2. RulesDone' /\ GraphDone'
    BY <2>1 DEF fwVars, graphVars, RulesDone, GraphDone
  <2> QED
    BY <1>0, <2>1, <2>2 DEF ControlInv
<1>3. ASSUME FwStep, UNCHANGED <<graphVars, reportVars>> PROVE ControlInv'
  <2>1. ~RulesDone
    BY <1>3, NoFwStep
  <2>2. parts' = parts /\ part' = part /\ (GraphDone => GraphDone')
    BY <1>3 DEF reportVars, graphVars, GraphDone
  <2> QED
    BY <1>0, <2>1, <2>2 DEF ControlInv
<1>4. ASSUME GraphStep, UNCHANGED <<fwVars, reportVars>> PROVE ControlInv'
  <2>1. ~GraphDone
    BY <1>4, NoGraphStep
  <2>2. parts' = parts /\ part' = part /\ (RulesDone => RulesDone')
    BY <1>4 DEF reportVars, fwVars, RulesDone
  <2> QED
    BY <1>0, <2>1, <2>2 DEF ControlInv
<1>5. ASSUME UNCHANGED vars PROVE ControlInv'
  <2>1. parts' = parts /\ part' = part /\ (RulesDone => RulesDone') /\ (GraphDone => GraphDone')
    BY <1>5 DEF vars, reportVars, fwVars, graphVars, RulesDone, GraphDone
  <2> QED
    BY <1>0, <2>1 DEF ControlInv
<1> QED
  BY <1>1, <1>2, <1>3, <1>4, <1>5, StepCases

\* The rules start anew with the pairs of a part.
LEMMA StartRulesKeeps ==
  ASSUME ControlInv, FwInv, RulesDone, NEW p, StartRules(PartConns(p), Protocols(p))
  PROVE  FwInv'
<1>1. stage = "next" /\ stage' = "next" /\ pending' = {} /\ todo' = DOMAIN props'
      /\ props' = PropsToPeers(PartConns(p), Protocols(p))
  BY DEF StartRules, RulesDone, FwInv, FwTypeOK
<1>2. \A x \in PartConns(p) : x \in Peers \X Peers \X Conns
  BY ConnsOfPart DEF ControlInv
<1>3. \A c \in DOMAIN props' : props'[c] \subseteq Peers \X Peers
  BY <1>1, <1>2, PropsArePeers
<1>4. FwTypeOK'
  BY <1>1, <1>3 DEF FwTypeOK
<1> QED
  BY <1>1, <1>4 DEF FwInv, GroupingInv

\* The grouping in every step of a report.
LEMMA FwInvStep ==
  ASSUME ControlInv, FwInv, [Next]_vars
  PROVE  FwInv'
<1>1. ASSUME StartPart PROVE FwInv'
  <2>1. \/ StartRules(PartConns(Head(parts)), Protocols(Head(parts))) /\ part = "none"
        \/ UNCHANGED fwVars
    BY <1>1 DEF StartPart
  <2> QED
    BY <2>1, StartRulesKeeps, FwInvUnchanged DEF ControlInv
<1>2. ASSUME EndPart PROVE FwInv'
  BY <1>2, FwInvUnchanged DEF EndPart
<1>3. ASSUME UNCHANGED vars PROVE FwInv'
  BY <1>3, FwInvUnchanged DEF vars
<1> QED
  BY <1>1, <1>2, <1>3, StepCases, FwStepKeeps, FwInvUnchanged

\* The inductive invariant implies that nothing is lost.
LEMMA FwInvNothingLost ==
  ASSUME FwInv
  PROVE  NothingLost
<1> SUFFICES ASSUME stage \in {"dst ns", "src ns", "rules"}
             PROVE  /\ props[curr] \subseteq InGroups \cup left
                    /\ InGroups \cup left \subseteq props[curr] \cup Containing(curr) \cup AutoPairs
  BY DEF NothingLost, InGroups, GroupsMade
<1> QED
  BY DEF FwInv, GroupingInv, Allowed

\* The grouping by namespaces, addresses and DNS names (MinimizeCsFwRules
\* ._compute_basic_grouping) loses no pair of peers and puts none into a group that
\* does not have the connections, for every cluster and every map of connections.
THEOREM NothingIsLost == Spec => []NothingLost
<1>1. Init => ControlInv /\ FwInv
  BY ControlInit
<1>2. ControlInv /\ FwInv /\ [Next]_vars => ControlInv' /\ FwInv'
  BY ControlStep, FwInvStep
<1>3. FwInv => NothingLost
  BY FwInvNothingLost
<1> QED
  BY <1>1, <1>2, <1>3, PTL DEF Spec
-----------------------------------------------------------------------------
(***************************************************************************)
(* The elements of rules.                                                  *)
(***************************************************************************)
IsLabels(e) ==
  \E ns : /\ e = OfLabels(e.key, e.values, ns)
          /\ e.key \in AllowedLabels /\ e.values \subseteq ValuesIn(e.key, ns)
IsElement(e) ==
  \/ e = OfNs(e.ns)
  \/ IsLabels(e)
  \/ \E ns : e = OfPeers(e.peers, ns) /\ e.peers \subseteq ns_dict(ns)
  \/ e = OfOutside("dns", e.peers)
  \/ e = OfOutside("ips", e.peers) /\ e.peers \subseteq Ips
\* The labels in the order of this process.
OrderInv == \A i \in DOMAIN labelOrder : labelOrder[i] \in AllowedLabels

\* The peers of each kind of element.
LEMMA PeersOfElements ==
  ASSUME NEW S, NEW ns, NEW key, NEW values
  PROVE  /\ PeersOf(OfNs(S)) = NsPeers(S)
         /\ PeersOf(OfLabels(key, values, ns)) = PodsByLabel(key, values, ns)
         /\ PeersOf(OfPeers(S, ns)) = S
         /\ PeersOf(OfOutside("dns", S)) = S /\ PeersOf(OfOutside("ips", S)) = S
<1>1. PeersOf(OfNs(S)) = NsPeers(S)
  BY DEF PeersOf, OfNs
<1>2. PeersOf(OfLabels(key, values, ns)) = PodsByLabel(key, values, ns)
  <2>1. NsPeers({ns}) = ns_dict(ns)
    BY DEF NsPeers
  <2> QED
    BY <2>1 DEF PeersOf, OfLabels, PodsByLabel
<1>3. PeersOf(OfPeers(S, ns)) = S
  BY DEF PeersOf, OfPeers
<1>4. PeersOf(OfOutside("dns", S)) = S /\ PeersOf(OfOutside("ips", S)) = S
  BY DEF PeersOf, OfOutside
<1> QED
  BY <1>1, <1>2, <1>3, <1>4

\* The kinds of element.
LEMMA ElementKinds ==
  ASSUME NEW S, NEW ns, NEW key, NEW values
  PROVE  /\ OfNs(S).kind = "ns" /\ OfNs(S).ns = S
         /\ OfLabels(key, values, ns).kind = "labels" /\ OfLabels(key, values, ns).ns = {ns}
         /\ OfLabels(key, values, ns).key = key /\ OfLabels(key, values, ns).values = values
         /\ OfPeers(S, ns).kind = "peers" /\ OfPeers(S, ns).ns = {ns} /\ OfPeers(S, ns).peers = S
         /\ OfOutside("dns", S).kind = "dns" /\ OfOutside("dns", S).ns = {} /\ OfOutside("dns", S).peers = S
         /\ OfOutside("ips", S).kind = "ips" /\ OfOutside("ips", S).ns = {} /\ OfOutside("ips", S).peers = S
BY DEF OfNs, OfLabels, OfPeers, OfOutside

\* Some labels are chosen, and what they do not cover is named.
LEMMA LabelsChosen ==
  ASSUME NEW pods, NEW ns
  PROVE  \E chosen \in SUBSET DOMAIN labelOrder :
           LET Values(i) == FullyCovered(pods, labelOrder[i], ns)
               rest == pods \ UNION {PodsByLabel(labelOrder[i], Values(i), ns) : i \in chosen}
           IN  GroupByLabels(pods, ns) = {OfLabels(labelOrder[i], Values(i), ns) : i \in chosen}
                                         \cup IF rest = {} THEN {} ELSE {OfPeers(rest, ns)}
<1> DEFINE values == [i \in DOMAIN labelOrder |-> FullyCovered(pods, labelOrder[i], ns)]
           covers == [i \in DOMAIN labelOrder |-> PodsByLabel(labelOrder[i], values[i], ns)]
           labels_rep_options ==
             {i \in DOMAIN labelOrder : Cardinality(covers[i]) > (IF GroupSinglePod THEN 0 ELSE 1)}
           Before(i, j) == \/ Cardinality(covers[i]) > Cardinality(covers[j])
                           \/ Cardinality(covers[i]) = Cardinality(covers[j]) /\ i < j
           taken[i \in labels_rep_options] ==
             \A j \in labels_rep_options : Before(j, i) => (taken[j] => covers[i] \cap covers[j] = {})
           chosen_rep == {i \in labels_rep_options : taken[i]}
           rest == pods \ UNION {covers[i] : i \in chosen_rep}
<1>1. GroupByLabels(pods, ns) = {OfLabels(labelOrder[i], values[i], ns) : i \in chosen_rep}
                                \cup IF rest = {} THEN {} ELSE {OfPeers(rest, ns)}
  BY DEF GroupByLabels
<1>2. chosen_rep \in SUBSET DOMAIN labelOrder
  OBVIOUS
<1>3. \A i \in DOMAIN labelOrder : /\ values[i] = FullyCovered(pods, labelOrder[i], ns)
                                   /\ covers[i] = PodsByLabel(labelOrder[i], values[i], ns)
  OBVIOUS
<1>4. rest = pods \ UNION {covers[i] : i \in chosen_rep}
  OBVIOUS
<1> HIDE DEF values, covers, labels_rep_options, taken, chosen_rep, rest
<1>5. /\ {OfLabels(labelOrder[i], values[i], ns) : i \in chosen_rep}
           = {OfLabels(labelOrder[i], FullyCovered(pods, labelOrder[i], ns), ns) : i \in chosen_rep}
      /\ {covers[i] : i \in chosen_rep}
           = {PodsByLabel(labelOrder[i], FullyCovered(pods, labelOrder[i], ns), ns) : i \in chosen_rep}
  BY <1>2, <1>3
<1> QED
  BY <1>1, <1>2, <1>4, <1>5

\* The elements for pods of a namespace have these pods and no others.
LEMMA GroupByLabelsFits ==
  ASSUME OrderInv, NEW ns, NEW pods, pods \subseteq ns_dict(ns)
  PROVE  /\ \A e \in GroupByLabels(pods, ns) : IsElement(e) /\ PeersOf(e) \subseteq pods
         /\ \A p \in pods : \E e \in GroupByLabels(pods, ns) : p \in PeersOf(e)
<1> DEFINE Values(i) == FullyCovered(pods, labelOrder[i], ns)
           Covers(i) == PodsByLabel(labelOrder[i], Values(i), ns)
<1>1. PICK chosen \in SUBSET DOMAIN labelOrder :
        LET rest == pods \ UNION {Covers(i) : i \in chosen}
        IN  GroupByLabels(pods, ns) = {OfLabels(labelOrder[i], Values(i), ns) : i \in chosen}
                                      \cup IF rest = {} THEN {} ELSE {OfPeers(rest, ns)}
  BY LabelsChosen
<1> DEFINE rest == pods \ UNION {Covers(i) : i \in chosen}
<1>2. GroupByLabels(pods, ns) = {OfLabels(labelOrder[i], Values(i), ns) : i \in chosen}
                                \cup IF rest = {} THEN {} ELSE {OfPeers(rest, ns)}
  BY <1>1
<1>3. ASSUME NEW i \in chosen
      PROVE  /\ labelOrder[i] \in AllowedLabels /\ Values(i) \subseteq ValuesIn(labelOrder[i], ns)
             /\ Covers(i) \subseteq pods
  BY DEF OrderInv, FullyCovered, PodsByLabel
<1>4. rest \subseteq pods /\ \A p \in pods : p \in rest \/ \E i \in chosen : p \in Covers(i)
  OBVIOUS
<1> DEFINE L(i) == OfLabels(labelOrder[i], Values(i), ns)
<1>5. ASSUME NEW i \in chosen PROVE IsElement(L(i)) /\ PeersOf(L(i)) = Covers(i)
  <2>1. L(i).key = labelOrder[i] /\ L(i).values = Values(i)
    BY DEF OfLabels
  <2>2. L(i) = OfLabels(L(i).key, L(i).values, ns)
    BY <2>1
  <2>3. IsLabels(L(i))
    BY <1>3, <2>1, <2>2 DEF IsLabels
  <2> QED
    BY <2>3, PeersOfElements DEF IsElement
<1>6. IsElement(OfPeers(rest, ns)) /\ PeersOf(OfPeers(rest, ns)) = rest
  <2>1. OfPeers(rest, ns).peers = rest
    BY DEF OfPeers
  <2>2. rest \subseteq ns_dict(ns)
    BY <1>4
  <2> HIDE DEF rest
  <2> QED
    BY <2>1, <2>2, PeersOfElements DEF IsElement
<1>7. GroupByLabels(pods, ns) = {L(i) : i \in chosen} \cup IF rest = {} THEN {} ELSE {OfPeers(rest, ns)}
  BY <1>2
<1> HIDE DEF rest, Values, Covers, L
<1>8. ASSUME NEW e \in GroupByLabels(pods, ns) PROVE IsElement(e) /\ PeersOf(e) \subseteq pods
  BY <1>3, <1>4, <1>5, <1>6, <1>7
<1>9. ASSUME NEW p \in pods PROVE \E e \in GroupByLabels(pods, ns) : p \in PeersOf(e)
  BY <1>4, <1>5, <1>6, <1>7
<1> QED
  BY <1>8, <1>9

\* The elements of a side have its peers and no others.
LEMMA ElementsFit ==
  ASSUME OrderInv, NEW x, IsSide(x)
  PROVE  /\ \A e \in Elements(x) : IsElement(e) /\ PeersOf(e) \subseteq SidePeers(x)
         /\ \A p \in SidePeers(x) : \E e \in Elements(x) : p \in PeersOf(e)
<1>1. CASE x = NsSide(x.of)
  <2>1. Elements(x) = {OfNs(x.of)} /\ SidePeers(x) = NsPeers(x.of)
    <3>1. x.side = "ns"
      BY <1>1 DEF NsSide
    <3> QED
      BY <3>1 DEF Elements, SidePeers
  <2>2. IsElement(OfNs(x.of)) /\ PeersOf(OfNs(x.of)) = NsPeers(x.of)
    BY ElementKinds, PeersOfElements DEF IsElement
  <2> QED
    BY <2>1, <2>2
<1>2. CASE x = PeerSide(x.of) /\ x.of \subseteq Peers
  <2> DEFINE peers == x.of
             Ns == {NamespaceOf(p) : p \in peers \cap Clusters}
             In(ns) == {p \in peers \cap Clusters : NamespaceOf(p) = ns}
             dns == {OfOutside("dns", {d}) : d \in peers \cap DnsEntries}
             ips == IF peers \cap Ips = {} THEN {} ELSE {OfOutside("ips", peers \cap Ips)}
  <2>1. Elements(x) = dns \cup ips \cup (UNION {GroupByLabels(In(ns), ns) : ns \in Ns}) /\ SidePeers(x) = peers
    <3>1. x.side = "peers"
      BY <1>2 DEF PeerSide
    <3> QED
      BY <3>1 DEF Elements, SidePeers, PeerElements
  <2>2. ASSUME NEW ns PROVE In(ns) \subseteq ns_dict(ns) /\ In(ns) \subseteq peers
    BY DEF ns_dict, Named
  <2>3. \A p \in peers \cap Clusters : NamespaceOf(p) \in Ns /\ p \in In(NamespaceOf(p))
    OBVIOUS
  <2>4. ASSUME NEW d \in peers \cap DnsEntries
        PROVE  IsElement(OfOutside("dns", {d})) /\ PeersOf(OfOutside("dns", {d})) = {d}
    BY ElementKinds, PeersOfElements DEF IsElement
  <2>5. /\ IsElement(OfOutside("ips", peers \cap Ips))
        /\ PeersOf(OfOutside("ips", peers \cap Ips)) = peers \cap Ips
    <3>1. OfOutside("ips", peers \cap Ips).peers = peers \cap Ips
      BY ElementKinds
    <3> QED
      BY <3>1, PeersOfElements DEF IsElement
  <2> HIDE DEF Ns, In
  <2>6. ASSUME NEW e \in Elements(x) PROVE IsElement(e) /\ PeersOf(e) \subseteq peers
    <3>1. CASE e \in dns
      BY <3>1, <2>4
    <3>2. CASE e \in ips
      BY <3>2, <2>5
    <3>3. CASE \E ns \in Ns : e \in GroupByLabels(In(ns), ns)
      BY <3>3, <2>2, GroupByLabelsFits
    <3> QED
      BY <2>1, <3>1, <3>2, <3>3
  <2>7. ASSUME NEW p \in peers PROVE \E e \in Elements(x) : p \in PeersOf(e)
    <3>1. CASE p \in DnsEntries
      <4>1. OfOutside("dns", {p}) \in Elements(x)
        BY <3>1, <2>1
      <4> QED
        BY <4>1, <2>4, <3>1
    <3>2. CASE p \in Ips
      <4>1. OfOutside("ips", peers \cap Ips) \in Elements(x)
        BY <3>2, <2>1
      <4> QED
        BY <4>1, <2>5, <3>2
    <3>3. CASE p \in Clusters
      <4>1. NamespaceOf(p) \in Ns /\ p \in In(NamespaceOf(p))
        BY <3>3, <2>3
      <4>2. PICK e \in GroupByLabels(In(NamespaceOf(p)), NamespaceOf(p)) : p \in PeersOf(e)
        BY <4>1, <2>2, GroupByLabelsFits
      <4>3. e \in Elements(x)
        BY <4>1, <4>2, <2>1
      <4> QED
        BY <4>2, <4>3
    <3> QED
      BY <1>2, <3>1, <3>2, <3>3 DEF Peers, Named
  <2> QED
    BY <2>1, <2>6, <2>7
<1> QED
  BY <1>1, <1>2 DEF IsSide
-----------------------------------------------------------------------------
(***************************************************************************)
(* The text of labels.                                                     *)
(***************************************************************************)
\* The elements with labels are of that kind only.
LEMMA LabelsByKind ==
  ASSUME NEW e, IsElement(e), e.kind = "labels"
  PROVE  IsLabels(e)
BY DEF IsElement, OfNs, OfPeers, OfOutside

\* A peer of a namespace has a value of every key that some peer there has.
LEMMA KnownInNs ==
  ASSUME NEW ns, NEW p \in ns_dict(ns), NEW key
  PROVE  /\ p \in Named
         /\ Known(p, key) <=> \A i \in DOMAIN key : \E q \in ns_dict(ns) : HasKey(q, key[i])
         /\ Known(p, key) => ValueOf(p, key) \in ValuesIn(key, ns)
BY DEF ns_dict, Known, ValuesIn

\* A peer has a label exactly if its value of the key is one.
LEMMA ValuesTell ==
  ASSUME NEW p \in Named, NEW key, NEW i \in DOMAIN key
  PROVE  /\ HasKey(p, key[i]) => ValueOf(p, key)[i] = LabelsOf[p][key[i]] /\ ValueOf(p, key)[i] # NoValue
         /\ ~HasKey(p, key[i]) => ValueOf(p, key)[i] = NoValue
         /\ DOMAIN ValueOf(p, key) = DOMAIN key
BY LabelsAssumption DEF HasKey, ValueOf

\* The values of one of the keys of a tuple.
LEMMA ValuesOfOne ==
  ASSUME NEW ns, NEW p \in ns_dict(ns), NEW k, \E q \in ns_dict(ns) : HasKey(q, k)
  PROVE  LET all == {v[1] : v \in ValuesIn(<<k>>, ns)}
         IN  /\ HasKey(p, k) => LabelsOf[p][k] \in all /\ LabelsOf[p][k] # NoValue
             /\ ~HasKey(p, k) => NoValue \in all
<1>1. p \in Named /\ Known(p, <<k>>) /\ ValueOf(p, <<k>>) \in ValuesIn(<<k>>, ns)
  BY KnownInNs
<1>2. 1 \in DOMAIN <<k>> /\ <<k>>[1] = k
  OBVIOUS
<1>3. /\ HasKey(p, k) => ValueOf(p, <<k>>)[1] = LabelsOf[p][k] /\ ValueOf(p, <<k>>)[1] # NoValue
      /\ ~HasKey(p, k) => ValueOf(p, <<k>>)[1] = NoValue
  BY <1>1, <1>2, ValuesTell
<1> QED
  BY <1>1, <1>3

\* Whatever form an expression for one key has, it describes the peers with the values.
LEMMA SimpleExprFits ==
  ASSUME NEW ns, NEW p \in ns_dict(ns), NEW k, \E q \in ns_dict(ns) : HasKey(q, k), NEW values
  PROVE  SimpleExpr(p, k, values, ns)
           <=> (IF HasKey(p, k) THEN LabelsOf[p][k] \in values ELSE NoValue \in values)
<1> DEFINE all == {v[1] : v \in ValuesIn(<<k>>, ns)}
           valid == values \ {NoValue}
           others == (all \ {NoValue}) \ valid
<1>1. SimpleExpr(p, k, values, ns) <=>
        \/ NoValue \in values /\ ~HasKey(p, k)
        \/ /\ valid # {}
           /\ IF others = {} /\ Cardinality(valid) > 1 THEN HasKey(p, k)
              ELSE IF others # {} /\ Cardinality(others) < Cardinality(valid)
                THEN NotInExpr(p, k, others, NoValue \in all)
              ELSE InExpr(p, k, valid)
  BY DEF SimpleExpr
<1>2. /\ HasKey(p, k) => LabelsOf[p][k] \in all /\ LabelsOf[p][k] # NoValue
      /\ ~HasKey(p, k) => NoValue \in all
  BY ValuesOfOne
<1>3. CASE HasKey(p, k)
  <2>1. NotInExpr(p, k, others, NoValue \in all) <=> LabelsOf[p][k] \notin others
    BY <1>3 DEF NotInExpr
  <2>2. InExpr(p, k, valid) <=> LabelsOf[p][k] \in valid
    BY <1>3 DEF InExpr
  <2>3. /\ LabelsOf[p][k] \in values <=> LabelsOf[p][k] \in valid
        /\ LabelsOf[p][k] \in values <=> LabelsOf[p][k] \notin others
    BY <1>2, <1>3
  <2>4. (LabelsOf[p][k] \in values => valid # {}) /\ (others = {} => LabelsOf[p][k] \in values)
    BY <2>3
  <2> HIDE DEF valid, others, all
  <2> QED
    BY <1>1, <1>3, <2>1, <2>2, <2>3, <2>4
<1>4. CASE ~HasKey(p, k)
  <2>1. ~NotInExpr(p, k, others, NoValue \in all) /\ ~InExpr(p, k, valid)
    BY <1>2, <1>4 DEF NotInExpr, InExpr
  <2> HIDE DEF valid, others, all
  <2> QED
    BY <1>1, <1>4, <2>1
<1> QED
  BY <1>3, <1>4

\* An element of labels has a peer if the peer's values are among its values.
LEMMA LabelPeers ==
  ASSUME NEW ns, NEW key, NEW values, NEW p
  PROVE  p \in PodsByLabel(key, values, ns)
           <=> p \in ns_dict(ns) /\ Known(p, key) /\ ValueOf(p, key) \in values
BY DEF PodsByLabel, PodsWith, ns_dict

\* The expression for labels describes the peers of the element.
LEMMA LabelTextHasAll ==
  ASSUME NEW ns, NEW e, e = OfLabels(e.key, e.values, ns),
         e.key \in AllowedLabels, e.values \subseteq ValuesIn(e.key, ns),
         NEW p \in PodsByLabel(e.key, e.values, ns)
  PROVE  p \in ns_dict(ns) /\ LabelExpr(p, e, ns)
<1>1. p \in ns_dict(ns) /\ p \in Named /\ Known(p, e.key) /\ ValueOf(p, e.key) \in e.values
  BY LabelPeers, KnownInNs
<1> DEFINE valid == {v \in ValuesIn(e.key, ns) : NoValue \notin Range(v)}
<1>2. LabelExpr(p, e, ns) <=>
        IF e.values = valid /\ Cardinality(valid) > 1 THEN \A i \in DOMAIN e.key : HasKey(p, e.key[i])
        ELSE \A i \in DOMAIN e.key : SimpleExpr(p, e.key[i], {v[i] : v \in e.values}, ns)
  BY DEF LabelExpr
<1>3. ASSUME e.values = valid, NEW i \in DOMAIN e.key PROVE HasKey(p, e.key[i])
  <2>1. NoValue \notin Range(ValueOf(p, e.key))
    BY <1>1, <1>3
  <2>2. i \in DOMAIN ValueOf(p, e.key)
    BY <1>1, ValuesTell
  <2>3. ValueOf(p, e.key)[i] # NoValue
    BY <2>1, <2>2 DEF Range
  <2> QED
    BY <1>1, <2>3, ValuesTell
<1>4. ASSUME NEW i \in DOMAIN e.key PROVE SimpleExpr(p, e.key[i], {v[i] : v \in e.values}, ns)
  <2>1. \E q \in ns_dict(ns) : HasKey(q, e.key[i])
    BY <1>1, KnownInNs
  <2>2. ValueOf(p, e.key)[i] \in {v[i] : v \in e.values}
    BY <1>1
  <2>3. IF HasKey(p, e.key[i]) THEN LabelsOf[p][e.key[i]] \in {v[i] : v \in e.values}
        ELSE NoValue \in {v[i] : v \in e.values}
    BY <1>1, <2>2, ValuesTell
  <2> QED
    BY <1>1, <2>1, <2>3, SimpleExprFits
<1> HIDE DEF valid
<1> QED
  BY <1>1, <1>2, <1>3, <1>4

\* With a single key, it describes no others.
LEMMA LabelTextHasOnly ==
  ASSUME NEW ns, NEW e, e = OfLabels(e.key, e.values, ns),
         e.key \in AllowedLabels, e.values \subseteq ValuesIn(e.key, ns), Len(e.key) = 1,
         NEW p \in ns_dict(ns), LabelExpr(p, e, ns)
  PROVE  p \in PodsByLabel(e.key, e.values, ns)
<1> DEFINE k == e.key[1]
           valid == {v \in ValuesIn(e.key, ns) : NoValue \notin Range(v)}
<1>1. DOMAIN e.key = {1} /\ p \in Named
  BY LabelsAssumption, KnownInNs
<1>2. IF e.values = valid /\ Cardinality(valid) > 1 THEN HasKey(p, k)
      ELSE SimpleExpr(p, k, {v[1] : v \in e.values}, ns)
  BY <1>1 DEF LabelExpr
<1>3. \A v \in e.values : DOMAIN v = {1}
  <2>1. ASSUME NEW v \in e.values PROVE DOMAIN v = {1}
    <3>1. PICK q \in ns_dict(ns) : v = ValueOf(q, e.key)
      BY <2>1 DEF ValuesIn
    <3> QED
      BY <3>1, <1>1 DEF ValueOf
  <2> QED
    BY <2>1
<1>4. DOMAIN ValueOf(p, e.key) = {1}
  BY <1>1 DEF ValueOf
<1>5. Known(p, e.key) <=> \E q \in ns_dict(ns) : HasKey(q, k)
  BY <1>1, KnownInNs
<1>6. /\ HasKey(p, k) => ValueOf(p, e.key)[1] = LabelsOf[p][k] /\ ValueOf(p, e.key)[1] # NoValue
      /\ ~HasKey(p, k) => ValueOf(p, e.key)[1] = NoValue
  BY <1>1, ValuesTell
<1>7. CASE e.values = valid /\ Cardinality(valid) > 1
  <2>1. HasKey(p, k) /\ Known(p, e.key)
    BY <1>2, <1>5, <1>7
  <2>2. ValueOf(p, e.key) \in ValuesIn(e.key, ns) /\ NoValue \notin Range(ValueOf(p, e.key))
    BY <2>1, <1>4, <1>6, KnownInNs DEF Range
  <2> QED
    BY <1>7, <2>1, <2>2, LabelPeers
<1>8. CASE ~(e.values = valid /\ Cardinality(valid) > 1)
  <2>1. SimpleExpr(p, k, {v[1] : v \in e.values}, ns)
    BY <1>2, <1>8
  <2>2. e.values # {}
    <3>1. {v[1] : v \in e.values} # {}
      BY <2>1 DEF SimpleExpr
    <3> QED
      BY <3>1
  <2>3. \E q \in ns_dict(ns) : HasKey(q, k)
    <3>1. PICK v \in ValuesIn(e.key, ns) : TRUE
      BY <2>2
    <3>2. PICK q \in ns_dict(ns) : Known(q, e.key)
      BY <3>1 DEF ValuesIn
    <3> QED
      BY <3>2, <1>1, KnownInNs
  <2>4. IF HasKey(p, k) THEN LabelsOf[p][k] \in {v[1] : v \in e.values}
        ELSE NoValue \in {v[1] : v \in e.values}
    BY <2>1, <2>3, SimpleExprFits
  <2>5. PICK v \in e.values : v[1] = ValueOf(p, e.key)[1]
    BY <2>4, <1>6
  <2>6. v = ValueOf(p, e.key)
    <3>1. PICK q \in ns_dict(ns) : v = ValueOf(q, e.key)
      BY <2>5 DEF ValuesIn
    <3>2. v = [i \in {1} |-> v[i]] /\ ValueOf(p, e.key) = [i \in {1} |-> ValueOf(p, e.key)[i]]
      BY <3>1, <1>1 DEF ValueOf
    <3> QED
      BY <3>2, <2>5
  <2> QED
    BY <2>3, <2>5, <2>6, <1>5, LabelPeers
<1> QED
  BY <1>7, <1>8

\* The text of an element with labels.
LEMMA TextFits ==
  ASSUME NEW e, IsLabels(e)
  PROVE  PeersOf(e) \subseteq TextPeers(e) /\ (Len(e.key) = 1 => TextPeers(e) = PeersOf(e))
<1>1. PICK ns : /\ e = OfLabels(e.key, e.values, ns)
                /\ e.key \in AllowedLabels /\ e.values \subseteq ValuesIn(e.key, ns)
  BY DEF IsLabels
<1>2. PeersOf(e) = PodsByLabel(e.key, e.values, ns) /\ e.ns = {ns}
  <2> DEFINE f == OfLabels(e.key, e.values, ns)
  <2>0. f.ns = {ns}
    BY DEF OfLabels
  <2>1. PeersOf(f) = PodsByLabel(e.key, e.values, ns)
    BY PeersOfElements
  <2> HIDE DEF f
  <2>2. e = f
    BY <1>1 DEF f
  <2> QED
    BY <2>0, <2>1, <2>2
<1>3. \A p : p \in TextPeers(e) <=> p \in ns_dict(ns) /\ LabelExpr(p, e, ns)
  BY <1>2 DEF TextPeers
<1>4. ASSUME NEW p \in PeersOf(e) PROVE p \in TextPeers(e)
  BY <1>1, <1>2, <1>3, <1>4, LabelTextHasAll
<1>5. ASSUME Len(e.key) = 1, NEW p \in TextPeers(e) PROVE p \in PeersOf(e)
  BY <1>1, <1>2, <1>3, <1>5, LabelTextHasOnly
<1> QED
  BY <1>4, <1>5
-----------------------------------------------------------------------------
(***************************************************************************)
(* The rules show the pairs.                                               *)
(***************************************************************************)
\* The rules of c have all its pairs.
Shown(c) ==
  \A x \in props[c] : \E r \in rules : r.props = c /\ x[1] \in PeersOf(r.src) /\ x[2] \in PeersOf(r.dst)
\* A rule is of connections of the report and has only pairs with them.
IsRule(r) ==
  /\ IsElement(r.src) /\ IsElement(r.dst) /\ r.props \in DOMAIN props
  /\ \A s \in PeersOf(r.src), d \in PeersOf(r.dst) : <<s, d>> \in Allowed(r.props)
RulesInv ==
  /\ OrderInv
  /\ \A r \in rules : IsRule(r)
  /\ \A c \in DOMAIN props : c \in todo \/ (stage # "next" /\ c = curr) \/ Shown(c)

\* Cubes as sides of groups.
LEMMA CubesAsGroups ==
  ASSUME NEW rel, rel \subseteq Peers \X Peers, NEW c \in CubesBySource(rel) \cup CubesByTarget(rel)
  PROVE  IsGroup(<<PeerSide(c[1]), PeerSide(c[2])>>) /\ Product(<<PeerSide(c[1]), PeerSide(c[2])>>) \subseteq rel
<1>1. IsRelation(rel) /\ Sources(rel) \subseteq Peers /\ Targets(rel) \subseteq Peers
  BY PeerRelations
<1>2. /\ c[1] \subseteq Peers /\ c[2] \subseteq Peers
      /\ \A s \in c[1], d \in c[2] : <<s, d>> \in rel
  BY <1>1, CubeBySource, CubeByTarget
<1>3. IsGroup(<<PeerSide(c[1]), PeerSide(c[2])>>)
  BY <1>2, SidePeersOf DEF IsGroup
<1>4. ASSUME NEW x \in Product(<<PeerSide(c[1]), PeerSide(c[2])>>) PROVE x \in rel
  <2>1. x = <<x[1], x[2]>> /\ x[1] \in c[1] /\ x[2] \in c[2]
    BY <1>4, InProduct, SidePeersOf
  <2> QED
    BY <2>1, <1>2
<1> QED
  BY <1>3, <1>4

\* The pairs that are left are made groups of their own.
LEMMA LeftPairsFit ==
  ASSUME left \subseteq Peers \X Peers
  PROVE  /\ \A pair \in LeftPairs : IsGroup(pair) /\ Product(pair) \subseteq left
         /\ \A x \in left : \E pair \in LeftPairs : x \in Product(pair)
<1> DEFINE fromIps == {x \in left : x[1] \in Ips}
           toIps == {x \in left \ fromIps : x[2] \in Ips}
           rest == left \ (fromIps \cup toIps)
           restCubes == IF Cardinality(CubesBySource(rest)) <= Cardinality(CubesByTarget(rest))
                          THEN CubesBySource(rest) ELSE CubesByTarget(rest)
           cubes == CubesByTarget(fromIps) \cup CubesBySource(toIps) \cup restCubes
           G(c) == <<PeerSide(c[1]), PeerSide(c[2])>>
<1>1. LeftPairs = {G(c) : c \in cubes}
  BY DEF LeftPairs
<1>2. restCubes \in {CubesBySource(rest), CubesByTarget(rest)}
  OBVIOUS
<1>3. /\ fromIps \subseteq left /\ toIps \subseteq left /\ rest \subseteq left
      /\ left = fromIps \cup toIps \cup rest
  OBVIOUS
<1>4. cubes = CubesByTarget(fromIps) \cup CubesBySource(toIps) \cup restCubes
  OBVIOUS
<1> HIDE DEF fromIps, toIps, rest, restCubes, cubes
<1>5. ASSUME NEW c \in cubes PROVE IsGroup(G(c)) /\ Product(G(c)) \subseteq left
  <2>1. PICK rel \in {fromIps, toIps, rest} : c \in CubesBySource(rel) \cup CubesByTarget(rel)
    BY <1>2, <1>4
  <2>2. rel \subseteq left /\ rel \subseteq Peers \X Peers
    BY <1>3
  <2>3. IsGroup(G(c)) /\ Product(G(c)) \subseteq rel
    BY <2>1, <2>2, CubesAsGroups
  <2> QED
    BY <2>2, <2>3
<1>6. ASSUME NEW x \in left PROVE \E c \in cubes : x \in Product(G(c))
  <2>1. PICK rel \in {fromIps, toIps, rest} : x \in rel
    BY <1>3
  <2>2. IsRelation(rel) /\ x = <<x[1], x[2]>>
    BY <1>3, PeerRelations DEF IsRelation
  <2>3. /\ \E c \in CubesBySource(rel) : x[1] \in c[1] /\ x[2] \in c[2]
        /\ \E c \in CubesByTarget(rel) : x[1] \in c[1] /\ x[2] \in c[2]
    BY <2>1, <2>2, CubesCover
  <2>4. PICK c \in cubes : x[1] \in c[1] /\ x[2] \in c[2]
    BY <2>1, <2>3, <1>2, <1>4
  <2>5. x \in Product(G(c))
    BY <2>2, <2>4, InProduct, SidePeersOf
  <2> QED
    BY <2>5
<1> HIDE DEF G
<1> QED
  BY <1>1, <1>5, <1>6

\* The rules of groups have the pairs of the groups and no others.
LEMMA RulesOfFit ==
  ASSUME OrderInv, NEW pair, IsGroup(pair), NEW conns
  PROVE  /\ \A r \in RulesOf(pair, conns) :
              /\ IsElement(r.src) /\ IsElement(r.dst) /\ r.props = conns
              /\ \A s \in PeersOf(r.src), d \in PeersOf(r.dst) : <<s, d>> \in Product(pair)
         /\ \A x \in Product(pair) : \E r \in RulesOf(pair, conns) :
              r.props = conns /\ x[1] \in PeersOf(r.src) /\ x[2] \in PeersOf(r.dst)
<1>1. /\ \A e \in Elements(pair[1]) : IsElement(e) /\ PeersOf(e) \subseteq SidePeers(pair[1])
      /\ \A p \in SidePeers(pair[1]) : \E e \in Elements(pair[1]) : p \in PeersOf(e)
  BY ElementsFit DEF IsGroup
<1>2. /\ \A e \in Elements(pair[2]) : IsElement(e) /\ PeersOf(e) \subseteq SidePeers(pair[2])
      /\ \A p \in SidePeers(pair[2]) : \E e \in Elements(pair[2]) : p \in PeersOf(e)
  BY ElementsFit DEF IsGroup
<1>3. ASSUME NEW r \in RulesOf(pair, conns)
      PROVE  /\ IsElement(r.src) /\ IsElement(r.dst) /\ r.props = conns
             /\ \A s \in PeersOf(r.src), d \in PeersOf(r.dst) : <<s, d>> \in Product(pair)
  <2>1. r.src \in Elements(pair[1]) /\ r.dst \in Elements(pair[2]) /\ r.props = conns
    BY DEF RulesOf
  <2> QED
    BY <2>1, <1>1, <1>2 DEF Product
<1>4. ASSUME NEW x \in Product(pair)
      PROVE  \E r \in RulesOf(pair, conns) :
               r.props = conns /\ x[1] \in PeersOf(r.src) /\ x[2] \in PeersOf(r.dst)
  <2>1. x[1] \in SidePeers(pair[1]) /\ x[2] \in SidePeers(pair[2])
    BY InProduct
  <2>2. PICK e \in Elements(pair[1]), f \in Elements(pair[2]) : x[1] \in PeersOf(e) /\ x[2] \in PeersOf(f)
    BY <2>1, <1>1, <1>2
  <2> DEFINE r == [src |-> e, dst |-> f, props |-> conns]
  <2>3. r \in RulesOf(pair, conns) /\ r.src = e /\ r.dst = f /\ r.props = conns
    BY <2>2 DEF RulesOf
  <2> HIDE DEF r
  <2> QED
    BY <2>2, <2>3
<1> QED
  BY <1>3, <1>4

\* CreateRules makes the rules of all pairs of its connections.
LEMMA CreateRulesShows ==
  ASSUME FwInv, RulesInv, CreateRules
  PROVE  RulesInv'
<1> DEFINE made == GroupsMade \cup LeftPairs
           new == UNION {RulesOf(pair, curr) : pair \in made}
<1>1. /\ stage = "rules" /\ stage' = "next" /\ rules' = rules \cup new
      /\ props' = props /\ todo' = todo /\ curr' = curr /\ labelOrder' = labelOrder
  <2>1. ns_set_pairs \cup LeftPairs \cup base_elem_pairs = made
    BY DEF GroupsMade
  <2> HIDE DEF made
  <2> QED
    BY <2>1 DEF CreateRules
<1>2. curr \in DOMAIN props /\ OrderInv
  BY <1>1 DEF FwInv, FwTypeOK, RulesInv
<1>3. /\ left \subseteq props[curr] /\ props[curr] \subseteq InGroups \cup left
      /\ InGroups \subseteq Allowed(curr)
      /\ \A pair \in GroupsMade : IsGroup(pair)
  BY <1>1 DEF FwInv, GroupingInv
<1>4. left \subseteq Peers \X Peers /\ left \subseteq Allowed(curr)
  BY <1>1, <1>3, CoveredArePeers DEF Allowed
<1>5. ASSUME NEW pair \in made PROVE IsGroup(pair) /\ Product(pair) \subseteq Allowed(curr)
  BY <1>3, <1>4, LeftPairsFit DEF InGroups
<1>6. ASSUME NEW x \in props[curr] PROVE \E pair \in made : x \in Product(pair)
  <2>1. CASE x \in left
    BY <1>4, <2>1, LeftPairsFit
  <2>2. CASE x \in InGroups
    BY <2>2 DEF InGroups
  <2> QED
    BY <1>3, <2>1, <2>2
<1> HIDE DEF made
<1>7. ASSUME NEW r \in new PROVE IsRule(r)
  <2>1. PICK pair \in made : r \in RulesOf(pair, curr)
    BY <1>7
  <2>2. /\ IsElement(r.src) /\ IsElement(r.dst) /\ r.props = curr
        /\ \A s \in PeersOf(r.src), d \in PeersOf(r.dst) : <<s, d>> \in Product(pair)
    BY <1>2, <1>5, <2>1, RulesOfFit
  <2> QED
    BY <1>2, <1>5, <2>1, <2>2 DEF IsRule
<1>8. ASSUME NEW x \in props[curr]
      PROVE  \E r \in new : r.props = curr /\ x[1] \in PeersOf(r.src) /\ x[2] \in PeersOf(r.dst)
  <2>1. PICK pair \in made : x \in Product(pair)
    BY <1>6
  <2>2. PICK r \in RulesOf(pair, curr) : r.props = curr /\ x[1] \in PeersOf(r.src) /\ x[2] \in PeersOf(r.dst)
    BY <1>2, <1>5, <2>1, RulesOfFit
  <2> QED
    BY <2>1, <2>2
<1> HIDE DEF new
<1>9. \A c : Allowed(c)' = Allowed(c)
  BY <1>1 DEF Allowed, Containing
<1>10. ASSUME NEW r \in rules' PROVE IsRule(r)'
  <2>1. IsRule(r)
    BY <1>1, <1>7 DEF RulesInv
  <2> QED
    BY <2>1, <1>1, <1>9 DEF IsRule
<1>11. ASSUME NEW c \in DOMAIN props, c \notin todo PROVE Shown(c)'
  <2>1. CASE c = curr
    BY <1>1, <1>8, <2>1 DEF Shown
  <2>2. CASE c # curr
    <3>1. Shown(c)
      BY <1>11, <2>2 DEF RulesInv
    <3> QED
      BY <3>1, <1>1 DEF Shown
  <2> QED
    BY <2>1, <2>2
<1> QED
  BY <1>1, <1>2, <1>10, <1>11 DEF RulesInv, OrderInv

\* The other steps leave the rules alone.
LEMMA RulesStay ==
  ASSUME RulesInv, rules' = rules, props' = props, labelOrder' = labelOrder,
         \A c \in DOMAIN props : c \in todo \/ (stage # "next" /\ c = curr)
                                => c \in todo' \/ (stage' # "next" /\ c = curr')
  PROVE  RulesInv'
<1>1. \A c : Allowed(c)' = Allowed(c)
  BY DEF Allowed, Containing
<1>2. \A r : IsRule(r) => IsRule(r)'
  BY <1>1 DEF IsRule
<1>3. \A c : Shown(c) => Shown(c)'
  BY DEF Shown
<1> QED
  BY <1>2, <1>3 DEF RulesInv, OrderInv

\* A step of the rules.
LEMMA FwStepShows ==
  ASSUME FwInv, RulesInv, FwStep
  PROVE  RulesInv'
<1>1. ASSUME NEW c \in todo, StartProps(c) PROVE RulesInv'
  BY <1>1, RulesStay DEF StartProps
<1>2. ASSUME FullNsGrouping PROVE RulesInv'
  BY <1>2, RulesStay DEF FullNsGrouping
<1>3. ASSUME NEW entry \in pending, TakeNsEntry(entry) PROVE RulesInv'
  BY <1>3, RulesStay DEF TakeNsEntry
<1>4. ASSUME NextGrouping PROVE RulesInv'
  <2>1. stage' # "next" /\ rules' = rules /\ props' = props /\ labelOrder' = labelOrder
        /\ todo' = todo /\ curr' = curr
    BY <1>4 DEF NextGrouping
  <2> QED
    BY <2>1, RulesStay
<1> QED
  BY <1>1, <1>2, <1>3, <1>4, CreateRulesShows DEF FwStep

\* The rules in every step of a report.
LEMMA RulesInvStep ==
  ASSUME ControlInv, FwInv, RulesInv, [Next]_vars
  PROVE  RulesInv'
<1>1. ASSUME UNCHANGED fwVars PROVE RulesInv'
  BY <1>1, RulesStay DEF fwVars
<1>2. ASSUME NEW conns, NEW protocols, StartRules(conns, protocols) PROVE RulesInv'
  <2>1. rules' = {} /\ todo' = DOMAIN props' /\ labelOrder' = labelOrder
    BY <1>2 DEF StartRules
  <2> QED
    BY <2>1 DEF RulesInv, OrderInv
<1>3. ASSUME StartPart PROVE RulesInv'
  BY <1>1, <1>2, <1>3 DEF StartPart
<1>4. ASSUME EndPart PROVE RulesInv'
  BY <1>1, <1>4 DEF EndPart
<1> QED
  BY <1>1, <1>3, <1>4, StepCases, FwStepShows DEF vars

\* Initially.
LEMMA RulesInit ==
  ASSUME Init
  PROVE  RulesInv
<1>1. rules = {} /\ DOMAIN props = {}
  BY DEF Init, NoRules
<1>2. OrderInv
  <2>1. labelOrder \in LabelOrders \cup {<< >>}
    BY DEF Init
  <2>2. CASE labelOrder = << >>
    BY <2>2 DEF OrderInv
  <2>3. CASE labelOrder \in LabelOrders
    BY <2>3 DEF OrderInv, LabelOrders
  <2> QED
    BY <2>1, <2>2, <2>3
<1> QED
  BY <1>1, <1>2 DEF RulesInv

\* The text that is printed for a group of labels (LabelExpr.__str__) describes the
\* peers of the group, and no others if it has one key, whatever the labels are.
THEOREM LabelTextsFit == Spec => []LabelTextFits
<1>1. Init => ControlInv /\ FwInv /\ RulesInv
  BY ControlInit, RulesInit
<1>2. ControlInv /\ FwInv /\ RulesInv /\ [Next]_vars => ControlInv' /\ FwInv' /\ RulesInv'
  BY ControlStep, FwInvStep, RulesInvStep
<1>3. RulesInv => LabelTextFits
  <2> SUFFICES ASSUME RulesInv, NEW r \in rules, NEW e \in {r.src, r.dst}, e.kind = "labels"
               PROVE  PeersOf(e) \subseteq TextPeers(e) /\ (Len(e.key) = 1 => TextPeers(e) = PeersOf(e))
    BY DEF LabelTextFits
  <2>1. IsElement(e)
    BY DEF RulesInv, IsRule
  <2> QED
    BY <2>1, LabelsByKind, TextFits
<1> QED
  BY <1>1, <1>2, <1>3, PTL DEF Spec
-----------------------------------------------------------------------------
(***************************************************************************)
(* Connections and their protocols.                                        *)
(***************************************************************************)
PartNames == {"all", "TCP", "non-TCP"}
InPart(k, p) == p # "all" => (k[1] = "TCP") = (p = "TCP")

\* Leaving out the protocol of connections that have all protocols of a part loses
\* nothing when the connections are read as those of the part.
LEMMA ExtractBack ==
  ASSUME NEW p \in PartNames, NEW X, X \subseteq Conns, \A k \in X : InPart(k, p)
  PROVE  OfPart(ExtractConns(X, Protocols(p)), p) = X
<1> DEFINE P == Protocols(p)
           Of(cube) == (IF cube[1] = P THEN Sources(Conns) ELSE cube[1]) \X cube[2]
<1>1. IsRelation(X)
  BY ConnsAssumption DEF IsRelation
<1>2. \A k : k \in ExtractConns(X, P) <=> \E cube \in CubesBySource(X) : k \in Of(cube)
  BY DEF ExtractConns
<1>3. P \in {{}, {"TCP"}, Sources(Conns) \ {"TCP"}}
  BY DEF Protocols, PartNames
<1>4. ASSUME NEW k \in X PROVE k \in ExtractConns(X, P) /\ InPart(k, p)
  <2>1. PICK cube \in CubesBySource(X) : k[1] \in cube[1] /\ k[2] \in cube[2]
    BY <1>1, CubesCover
  <2>2. k = <<k[1], k[2]>> /\ k[1] \in Sources(Conns)
    BY <1>1 DEF IsRelation, Sources
  <2>3. k \in Of(cube)
    BY <2>1, <2>2
  <2> QED
    BY <2>1, <2>3, <1>2
<1>5. ASSUME NEW k \in ExtractConns(X, P), InPart(k, p) PROVE k \in X
  <2>1. PICK cube \in CubesBySource(X) : k \in Of(cube)
    BY <1>2, <1>5
  <2>2. /\ cube[1] # {} /\ cube[1] \subseteq Sources(X)
        /\ \A s \in cube[1], d \in cube[2] : <<s, d>> \in X
    BY <1>1, CubeBySource
  <2>3. k = <<k[1], k[2]>> /\ k[2] \in cube[2]
    BY <2>1
  <2>4. k[1] \in cube[1]
    <3>1. CASE cube[1] # P
      BY <2>1, <3>1
    <3>2. CASE cube[1] = P
      <4>1. k[1] \in Sources(Conns)
        BY <2>1, <3>2
      <4>2. CASE p = "all"
        BY <4>2, <3>2, <2>2 DEF Protocols
      <4>3. CASE p = "TCP"
        <5>1. k[1] = "TCP"
          BY <1>5, <4>3 DEF InPart
        <5>2. P = {"TCP"}
          BY <4>3 DEF Protocols
        <5> QED
          BY <5>1, <5>2, <3>2
      <4>4. CASE p = "non-TCP"
        <5>1. k[1] # "TCP"
          BY <1>5, <4>4 DEF InPart
        <5>2. P = Sources(Conns) \ {"TCP"}
          BY <4>4 DEF Protocols
        <5> QED
          BY <5>1, <5>2, <3>2, <4>1
      <4> QED
        BY <4>2, <4>3, <4>4 DEF PartNames
    <3> QED
      BY <3>1, <3>2
  <2> QED
    BY <2>2, <2>3, <2>4
<1>6. \A k : k \in OfPart(ExtractConns(X, P), p) <=> k \in ExtractConns(X, P) /\ InPart(k, p)
  BY DEF OfPart, InPart
<1>7. OfPart(ExtractConns(X, P), p) = X
  <2> HIDE DEF P
  <2> QED
    BY <1>4, <1>5, <1>6
<1> QED
  BY <1>7

\* The connections of a part, one by one.
LEMMA PartConnsOne ==
  ASSUME query \in Queries, NEW p, NEW x
  PROVE  /\ x \in PartConns(p) <=> x \in AllConns(query) /\ InPart(x[3], p)
         /\ x \in PartConns(p) => /\ x = <<x[1], x[2], x[3]>> /\ x[1] \in Peers /\ x[2] \in Peers
                                  /\ x[3] \in Conns /\ RealPair(x[1], x[2])
<1>1. x \in PartConns(p) <=> x \in AllConns(query) /\ InPart(x[3], p)
  BY DEF PartConns, InPart
<1>2. x \in AllConns(query) => x \in Peers \X Peers \X Conns /\ RealPair(x[1], x[2])
  BY ConnsOfPart
<1> QED
  BY <1>1, <1>2

\* The sets of connections of props_to_peers tell the connections of a pair.
LEMMA PropsMeaning ==
  ASSUME query \in Queries, NEW p \in PartNames
  PROVE  LET pp == PropsToPeers(PartConns(p), Protocols(p))
         IN  /\ \A c \in DOMAIN pp : \A pair \in pp[c] : \A k :
                  k \in OfPart(c, p) <=> <<pair[1], pair[2], k>> \in PartConns(p)
             /\ \A x \in PartConns(p) : \E c \in DOMAIN pp : <<x[1], x[2]>> \in pp[c]
<1> DEFINE conns == PartConns(p)
           Of(pair) == ExtractConns(ConnsOf(conns, pair[1], pair[2]), Protocols(p))
           pp == PropsToPeers(conns, Protocols(p))
<1>1. pp = [c \in {Of(pair) : pair \in PairsOf(conns)} |-> {pair \in PairsOf(conns) : Of(pair) = c}]
  BY DEF PropsToPeers
<1>2. /\ DOMAIN pp = {Of(pair) : pair \in PairsOf(conns)}
      /\ \A c \in DOMAIN pp : pp[c] = {pair \in PairsOf(conns) : Of(pair) = c}
  <2> HIDE DEF Of, pp
  <2> QED
    BY <1>1
<1>3. ASSUME NEW pair PROVE \A k : k \in OfPart(Of(pair), p) <=> <<pair[1], pair[2], k>> \in conns
  <2> DEFINE X == ConnsOf(conns, pair[1], pair[2])
  <2>1. ASSUME NEW k PROVE k \in X <=> <<pair[1], pair[2], k>> \in conns
    <3>1. \A x \in conns : x = <<x[1], x[2], x[3]>>
      BY PartConnsOne
    <3>2. k \in X <=> \E x \in conns : x[1] = pair[1] /\ x[2] = pair[2] /\ k = x[3]
      BY DEF ConnsOf
    <3> HIDE DEF conns, X
    <3> QED
      BY <3>1, <3>2
  <2>2. ASSUME NEW k \in X PROVE k \in Conns /\ InPart(k, p)
    <3>1. <<pair[1], pair[2], k>> \in PartConns(p)
      BY <2>1
    <3> DEFINE x == <<pair[1], pair[2], k>>
    <3>2. x[3] \in Conns /\ InPart(x[3], p)
      BY <3>1, PartConnsOne
    <3> QED
      BY <3>2
  <2> HIDE DEF X
  <2>3. OfPart(ExtractConns(X, Protocols(p)), p) = X
    BY <2>2, ExtractBack
  <2> QED
    BY <2>1, <2>3 DEF X
<1>4. ASSUME NEW x \in conns PROVE <<x[1], x[2]>> \in PairsOf(conns)
  BY DEF PairsOf
<1> HIDE DEF conns, Of, pp
<1>5. ASSUME NEW c \in DOMAIN pp, NEW pair \in pp[c], NEW k
      PROVE  k \in OfPart(c, p) <=> <<pair[1], pair[2], k>> \in conns
  <2>1. c = Of(pair)
    BY <1>2
  <2> QED
    BY <2>1, <1>3
<1>6. ASSUME NEW x \in conns PROVE \E c \in DOMAIN pp : <<x[1], x[2]>> \in pp[c]
  <2>1. Of(<<x[1], x[2]>>) \in DOMAIN pp
    BY <1>2, <1>4
  <2> QED
    BY <2>1, <1>2, <1>4
<1> QED
  BY <1>5, <1>6 DEF conns, pp
-----------------------------------------------------------------------------
(***************************************************************************)
(* The rules show the connections of a part.                               *)
(***************************************************************************)
\* Of an element with one namespace, the peers are of that namespace.
LEMMA ElementsInNs ==
  ASSUME NEW e, IsElement(e)
  PROVE  /\ is_system_ns(e) => PeersOf(e) \subseteq SystemPeers
         /\ e.kind = "ips" => PeersOf(e) \subseteq Ips
<1>1. is_system_ns(e) => e.ns # {} /\ e.ns \subseteq SystemNs
  BY FS_EmptySet DEF is_system_ns
<1>2. \A S : S \subseteq SystemNs => NsPeers(S) \subseteq SystemPeers
  BY DEF NsPeers, SystemPeers
<1>3. CASE e = OfNs(e.ns)
  <2>1. PeersOf(e) = NsPeers(e.ns) /\ e.kind # "ips"
    BY <1>3 DEF PeersOf, OfNs
  <2> QED
    BY <2>1, <1>1, <1>2
<1>4. CASE IsLabels(e)
  <2>1. PICK ns : e = OfLabels(e.key, e.values, ns)
    BY <1>4 DEF IsLabels
  <2>2. e.kind = "labels"
    BY <2>1 DEF OfLabels
  <2>3. PeersOf(e) \subseteq NsPeers(e.ns)
    BY <2>2 DEF PeersOf
  <2> QED
    BY <2>2, <2>3, <1>1, <1>2
<1>5. CASE \E ns : e = OfPeers(e.peers, ns) /\ e.peers \subseteq ns_dict(ns)
  <2>1. PICK ns : e = OfPeers(e.peers, ns) /\ e.peers \subseteq ns_dict(ns)
    BY <1>5
  <2>2. e.kind = "peers" /\ e.ns = {ns}
    BY <2>1 DEF OfPeers
  <2>3. PeersOf(e) = e.peers
    BY <2>2 DEF PeersOf
  <2>4. NsPeers({ns}) = ns_dict(ns)
    BY DEF NsPeers
  <2> QED
    BY <2>1, <2>2, <2>3, <2>4, <1>1, <1>2
<1>6. CASE e = OfOutside("dns", e.peers)
  <2>1. e.kind = "dns" /\ e.ns = {}
    BY <1>6 DEF OfOutside
  <2> QED
    BY <2>1, <1>1
<1>7. CASE e = OfOutside("ips", e.peers) /\ e.peers \subseteq Ips
  <2>1. e.kind = "ips" /\ e.ns = {}
    BY <1>7 DEF OfOutside
  <2>2. PeersOf(e) = e.peers
    BY <2>1 DEF PeersOf
  <2> QED
    BY <2>1, <2>2, <1>7, <1>1
<1> QED
  BY <1>3, <1>4, <1>5, <1>6, <1>7 DEF IsElement

\* A rule that is left out has pairs of system namespaces only.
LEMMA FilteredAreSystem ==
  ASSUME NEW r, IsElement(r.src), IsElement(r.dst), FilteredOut(r),
         NEW s \in PeersOf(r.src), NEW d \in PeersOf(r.dst)
  PROVE  <<s, d>> \in SystemPairs
BY ElementsInNs DEF FilteredOut, SystemPairs

\* The rules of a part say what the part has: no pair of different peers that does not
\* have the connections, and every connection but those of system namespaces.
LEMMA RulesShowPart ==
  ASSUME query \in Queries, NEW p \in PartNames, RulesInv, RulesDone,
         props = PropsToPeers(PartConns(p), Protocols(p))
  PROVE  /\ \A x \in RulesShow(PrintedRules(query.filter_system), p) : x[1] = x[2] \/ x \in PartConns(p)
         /\ \A x \in PartConns(p) : \/ x \in RulesShow(PrintedRules(query.filter_system), p)
                                    \/ query.filter_system /\ <<x[1], x[2]>> \in SystemPairs
<1>1. /\ \A c \in DOMAIN props : \A pair \in props[c] : \A k :
           k \in OfPart(c, p) <=> <<pair[1], pair[2], k>> \in PartConns(p)
      /\ \A x \in PartConns(p) : \E c \in DOMAIN props : <<x[1], x[2]>> \in props[c]
  BY PropsMeaning
<1> DEFINE printed == PrintedRules(query.filter_system)
<1>2. /\ \A r \in rules : IsRule(r)
      /\ \A c \in DOMAIN props : Shown(c)
  BY DEF RulesInv, RulesDone
<1>3. printed \subseteq rules
  BY DEF PrintedRules
<1>4. ASSUME NEW r \in rules, r \notin printed PROVE query.filter_system /\ FilteredOut(r)
  BY <1>4 DEF PrintedRules
<1> HIDE DEF printed
<1>5. ASSUME NEW x \in RulesShow(printed, p), x[1] # x[2] PROVE x \in PartConns(p)
  <2>1. PICK r \in printed : x \in PeersOf(r.src) \X PeersOf(r.dst) \X OfPart(r.props, p)
    BY <1>5 DEF RulesShow
  <2>2. /\ x = <<x[1], x[2], x[3]>> /\ x[1] \in PeersOf(r.src) /\ x[2] \in PeersOf(r.dst)
        /\ x[3] \in OfPart(r.props, p)
    BY <2>1
  <2>3. r.props \in DOMAIN props /\ <<x[1], x[2]>> \in Allowed(r.props)
    BY <2>2, <1>2, <1>3 DEF IsRule
  <2>4. <<x[1], x[2]>> \notin AutoPairs
    BY <1>5 DEF AutoPairs
  <2>5. PICK c \in DOMAIN props : r.props \subseteq c /\ <<x[1], x[2]>> \in props[c]
    BY <2>3, <2>4 DEF Allowed, Containing
  <2>6. x[3] \in OfPart(c, p)
    BY <2>2, <2>5 DEF OfPart
  <2> DEFINE pair == <<x[1], x[2]>>
  <2>7. <<pair[1], pair[2], x[3]>> \in PartConns(p)
    BY <2>5, <2>6, <1>1
  <2> QED
    BY <2>2, <2>7
<1>6. ASSUME NEW x \in PartConns(p), x \notin RulesShow(printed, p)
      PROVE  query.filter_system /\ <<x[1], x[2]>> \in SystemPairs
  <2>1. x = <<x[1], x[2], x[3]>>
    BY PartConnsOne
  <2>2. PICK c \in DOMAIN props : <<x[1], x[2]>> \in props[c]
    BY <1>1
  <2> DEFINE pair == <<x[1], x[2]>>
  <2>3. pair[1] = x[1] /\ pair[2] = x[2]
    OBVIOUS
  <2>4. x[3] \in OfPart(c, p)
    <3>1. <<pair[1], pair[2], x[3]>> \in PartConns(p)
      BY <2>1, <2>3
    <3> QED
      BY <3>1, <2>2, <1>1
  <2> HIDE DEF pair
  <2>5. PICK r \in rules : r.props = c /\ x[1] \in PeersOf(r.src) /\ x[2] \in PeersOf(r.dst)
    <3>1. Shown(c) /\ pair \in props[c]
      BY <1>2, <2>2 DEF pair
    <3> QED
      BY <3>1, <2>3 DEF Shown
  <2>6. x \in PeersOf(r.src) \X PeersOf(r.dst) \X OfPart(r.props, p)
    BY <2>1, <2>4, <2>5
  <2>7. r \notin printed
    BY <2>6, <1>6 DEF RulesShow
  <2>8. query.filter_system /\ FilteredOut(r) /\ IsElement(r.src) /\ IsElement(r.dst)
    BY <2>7, <1>2, <1>4 DEF IsRule
  <2> QED
    BY <2>5, <2>8, FilteredAreSystem
<1> QED
  BY <1>5, <1>6 DEF printed
-----------------------------------------------------------------------------
(***************************************************************************)
(* Ranges of addresses, and edges.                                         *)
(***************************************************************************)
\* From an address of a finite set one comes to an end of its range, going down or up.
LEMMA RangeEnd ==
  ASSUME NEW S, IsFiniteSet(S), S \subseteq Int, NEW a \in S, NEW sign \in {1, -1}
  PROVE  \E m \in Nat : a + sign * (m + 1) \notin S /\ \A n \in 0 .. m : a + sign * n \in S
<1> DEFINE T == {n \in Nat : a + sign * n \notin S}
           N == Cardinality(S)
<1>1. N \in Nat
  BY FS_CardinalityType
<1>2. T # {}
  <2> SUFFICES ASSUME \A n \in Nat : a + sign * n \in S PROVE FALSE
    OBVIOUS
  <2>1. PICK lo \in Int, hi \in Int : hi = lo + N /\ lo .. hi \subseteq S
    <3>1. CASE sign = 1
      <4>1. \A b \in a .. a + N : b - a \in Nat /\ b = a + sign * (b - a)
        BY <3>1
      <4>2. a .. a + N \subseteq S
        BY <4>1
      <4> QED
        BY <1>1, <4>2
    <3>2. CASE sign = -1
      <4>1. \A b \in a - N .. a : a - b \in Nat /\ b = a + sign * (a - b)
        BY <3>2
      <4>2. a - N .. a \subseteq S
        BY <4>1
      <4>3. a - N \in Int /\ a \in Int /\ a = (a - N) + N
        BY <1>1
      <4> QED
        BY <4>2, <4>3
    <3> QED
      BY <3>1, <3>2
  <2>2. IsFiniteSet(lo .. hi) /\ Cardinality(lo .. hi) = hi - lo + 1
    BY <1>1, <2>1, FS_Interval
  <2>3. Cardinality(lo .. hi) <= N
    BY <2>1, FS_Subset
  <2> QED
    BY <1>1, <2>1, <2>2, <2>3
<1>3. PICK t \in T : \A n \in T : t <= n
  BY <1>2, LeastNatural
<1>4. t # 0
  OBVIOUS
<1>5. t - 1 \in Nat /\ (t - 1) + 1 = t
  BY <1>4
<1>6. ASSUME NEW n \in 0 .. t - 1 PROVE a + sign * n \in S
  <2>1. n \in Nat /\ ~(t <= n)
    BY <1>5
  <2>2. n \notin T
    BY <2>1, <1>3
  <2> QED
    BY <2>1, <2>2
<1>7. a + sign * ((t - 1) + 1) \notin S
  BY <1>5
<1> QED
  BY <1>5, <1>6, <1>7

\* The ranges of a set of addresses have exactly its addresses.
LEMMA RangesFit ==
  ASSUME NEW S \in SUBSET Ips
  PROVE  /\ \A r \in Ranges(S) : r \subseteq S
         /\ \A a \in S : \E r \in Ranges(S) : a \in r
<1>1. IsFiniteSet(S) /\ S \subseteq Int
  BY PeersAssumption, FS_Subset
<1>2. ASSUME NEW r \in Ranges(S) PROVE r \subseteq S
  BY DEF Ranges
<1>3. ASSUME NEW a \in S PROVE \E r \in Ranges(S) : a \in r
  <2>1. PICK u \in Nat : a + 1 * (u + 1) \notin S /\ \A n \in 0 .. u : a + 1 * n \in S
    BY <1>1, RangeEnd
  <2>2. PICK d \in Nat : a + (-1) * (d + 1) \notin S /\ \A n \in 0 .. d : a + (-1) * n \in S
    BY <1>1, RangeEnd
  <2> DEFINE lo == a - d
             hi == a + u
  <2>3. a \in Int /\ lo \in Int /\ hi \in Int /\ lo <= a /\ a <= hi
    BY <1>1
  <2>4. lo - 1 \notin S /\ hi + 1 \notin S
    <3>1. lo - 1 = a + (-1) * (d + 1) /\ hi + 1 = a + 1 * (u + 1)
      BY <2>3
    <3> QED
      BY <3>1, <2>1, <2>2
  <2>5. ASSUME NEW b \in lo .. hi PROVE b \in S
    <3>1. CASE b >= a
      <4>1. b - a \in 0 .. u /\ b = a + 1 * (b - a)
        BY <2>3, <3>1
      <4> QED
        BY <4>1, <2>1
    <3>2. CASE b < a
      <4>1. a - b \in 0 .. d /\ b = a + (-1) * (a - b)
        BY <2>3, <3>2
      <4> QED
        BY <4>1, <2>2
    <3> QED
      BY <2>3, <3>1, <3>2
  <2>6. lo \in S /\ hi \in S /\ lo <= hi /\ a \in lo .. hi
    BY <2>3, <2>5
  <2> HIDE DEF lo, hi
  <2>7. lo .. hi \in Ranges(S)
    <3> DEFINE y == <<lo, hi>>
    <3>1. /\ y \in S \X S /\ y[1] = lo /\ y[2] = hi
      BY <2>6
    <3>2. y[1] <= y[2] /\ (y[1] .. y[2]) \subseteq S /\ y[1] - 1 \notin S /\ y[2] + 1 \notin S
      BY <2>4, <2>5, <2>6
    <3> HIDE DEF y
    <3> QED
      BY <3>1, <3>2 DEF Ranges
  <2> QED
    BY <2>6, <2>7
<1> QED
  BY <1>2, <1>3

\* The nodes of a drawing: peers and sets of addresses.
Nodes == Named \cup SUBSET Ips

\* The nodes for a set of peers stand for these peers, each peer that is no address
\* for itself.
LEMMA SplitFits ==
  ASSUME NEW S \in SUBSET Peers
  PROVE  /\ \A n \in Split(S) : n \in Nodes /\ EdgePeers(n) \subseteq S
         /\ \A a \in S : \E n \in Split(S) :
              a \in EdgePeers(n) /\ (a \in Named => n = a) /\ (a \in Ips => n \in SUBSET Ips)
<1>1. \A a \in Named : a \notin Ips
  BY PeersAssumption
<1>2. S \cap Ips \in SUBSET Ips
  OBVIOUS
<1>3. /\ \A r \in Ranges(S \cap Ips) : r \subseteq S \cap Ips
      /\ \A a \in S \cap Ips : \E r \in Ranges(S \cap Ips) : a \in r
  BY <1>2, RangesFit
<1>4. \A T \in SUBSET Ips : T \notin Named
  BY PeersAssumption
<1>5. ASSUME NEW n \in Split(S) PROVE n \in Nodes /\ EdgePeers(n) \subseteq S
  <2>1. CASE n \in S \ Ips
    BY <2>1 DEF Nodes, EdgePeers, Peers
  <2>2. CASE n \in Ranges(S \cap Ips)
    BY <2>2, <1>3, <1>4 DEF Nodes, EdgePeers
  <2> QED
    BY <2>1, <2>2 DEF Split
<1>6. ASSUME NEW a \in S
      PROVE  \E n \in Split(S) : a \in EdgePeers(n) /\ (a \in Named => n = a) /\ (a \in Ips => n \in SUBSET Ips)
  <2>1. CASE a \in Named
    BY <2>1, <1>1 DEF Split, EdgePeers
  <2>2. CASE a \in Ips
    <3>1. PICK r \in Ranges(S \cap Ips) : a \in r
      BY <2>2, <1>3
    <3>2. r \in Split(S) /\ r \in SUBSET Ips /\ r \notin Named
      BY <3>1, <1>3, <1>4 DEF Split
    <3> QED
      BY <3>1, <3>2, <2>2, <1>1 DEF EdgePeers
  <2> QED
    BY <2>1, <2>2 DEF Peers
<1> QED
  BY <1>5, <1>6

\* The cubes of the connections of a part have exactly these, and none is empty.
LEMMA PeerCubesFit ==
  ASSUME query \in Queries, NEW p
  PROVE  LET conns == PartConns(p)
         IN  /\ \A cube \in PeerCubes(conns) :
                  /\ cube[1] \in SUBSET Peers /\ cube[2] \in SUBSET Peers /\ cube[3] \subseteq Conns
                  /\ cube[1] # {} /\ cube[2] # {}
                  /\ \A s \in cube[1], d \in cube[2], k \in cube[3] : <<s, d, k>> \in conns
             /\ \A x \in conns : \E cube \in PeerCubes(conns) :
                  x[1] \in cube[1] /\ x[2] \in cube[2] /\ x[3] \in cube[3]
<1> DEFINE conns == PartConns(p)
<1>1. ASSUME NEW s, NEW d, NEW k PROVE <<d, k>> \in Profile(conns, s) <=> <<s, d, k>> \in conns
  <2>1. \A x \in conns : x = <<x[1], x[2], x[3]>>
    BY PartConnsOne
  <2> HIDE DEF conns
  <2>2. <<d, k>> \in Profile(conns, s) <=> \E x \in conns : x[1] = s /\ <<d, k>> = <<x[2], x[3]>>
    BY DEF Profile
  <2> QED
    BY <2>1, <2>2
<1>2. ASSUME NEW s PROVE IsRelation(Profile(conns, s))
  BY DEF Profile, IsRelation
<1>3. ASSUME NEW s, NEW d, NEW k, <<s, d, k>> \in conns
      PROVE  s \in Peers /\ d \in Peers /\ k \in Conns /\ s \in Sources(conns)
  <2> DEFINE x == <<s, d, k>>
  <2>1. x[1] \in Peers /\ x[2] \in Peers /\ x[3] \in Conns
    BY <1>3, PartConnsOne
  <2>2. x[1] \in Sources(conns)
    BY <1>3 DEF Sources
  <2> QED
    BY <2>1, <2>2
<1>30. \A x \in conns : x = <<x[1], x[2], x[3]>>
  BY PartConnsOne
<1> HIDE DEF conns
<1>4. ASSUME NEW cube \in PeerCubes(conns)
      PROVE  /\ cube[1] \in SUBSET Peers /\ cube[2] \in SUBSET Peers /\ cube[3] \subseteq Conns
             /\ cube[1] # {} /\ cube[2] # {}
             /\ \A s \in cube[1], d \in cube[2], k \in cube[3] : <<s, d, k>> \in conns
  <2>1. PICK s0 \in Sources(conns) : \E c \in CubesBySource(Profile(conns, s0)) :
          cube = <<SourceClass(conns, Profile(conns, s0)), c[1], c[2]>>
    BY <1>4 DEF PeerCubes
  <2> DEFINE profile == Profile(conns, s0)
  <2>2. PICK c \in CubesBySource(profile) : cube = <<SourceClass(conns, profile), c[1], c[2]>>
    BY <2>1
  <2>3. /\ c[1] # {} /\ \A d \in c[1], k \in c[2] : <<d, k>> \in profile
        /\ c[1] \subseteq Sources(profile) /\ c[2] \subseteq Targets(profile)
    BY <1>2, CubeBySource
  <2>4. /\ s0 \in SourceClass(conns, profile)
        /\ \A s \in SourceClass(conns, profile) : Profile(conns, s) = profile
    BY DEF SourceClass
  <2>5. cube[1] = SourceClass(conns, profile) /\ cube[2] = c[1] /\ cube[3] = c[2]
    BY <2>2
  <2>6. \A y \in profile : y = <<y[1], y[2]>> /\ y[1] \in Peers /\ y[2] \in Conns
    <3>1. ASSUME NEW y \in profile PROVE y = <<y[1], y[2]>> /\ y[1] \in Peers /\ y[2] \in Conns
      <4>1. y = <<y[1], y[2]>>
        BY <1>2 DEF IsRelation
      <4>2. <<s0, y[1], y[2]>> \in conns
        BY <4>1, <1>1
      <4> QED
        BY <4>1, <4>2, <1>3
    <3> QED
      BY <3>1
  <2>7. c[1] \subseteq Peers /\ c[2] \subseteq Conns
    BY <2>3, <2>6 DEF Sources, Targets
  <2> HIDE DEF profile
  <2>8. ASSUME NEW s \in cube[1], NEW d \in cube[2], NEW k \in cube[3] PROVE <<s, d, k>> \in conns
    <3>1. Profile(conns, s) = profile /\ <<d, k>> \in profile
      BY <2>3, <2>4, <2>5
    <3> QED
      BY <3>1, <1>1
  <2>9. cube[1] \subseteq Peers
    <3>1. ASSUME NEW s \in SourceClass(conns, profile) PROVE s \in Peers
      <4>1. s \in Sources(conns)
        BY DEF SourceClass
      <4>2. PICK x \in conns : x[1] = s
        BY <4>1 DEF Sources
      <4> QED
        BY <4>2, <1>3, <1>30
    <3> QED
      BY <3>1, <2>5
  <2> QED
    BY <2>3, <2>4, <2>5, <2>7, <2>8, <2>9
<1>5. ASSUME NEW x \in conns
      PROVE  \E cube \in PeerCubes(conns) : x[1] \in cube[1] /\ x[2] \in cube[2] /\ x[3] \in cube[3]
  <2> DEFINE profile == Profile(conns, x[1])
             y == <<x[2], x[3]>>
  <2>1. x[1] \in Sources(conns) /\ y \in profile
    BY <1>1, <1>30 DEF Sources
  <2>2. x[1] \in SourceClass(conns, profile)
    BY <2>1 DEF SourceClass
  <2>3. PICK c \in CubesBySource(profile) : y[1] \in c[1] /\ y[2] \in c[2]
    BY <2>1, <1>2, CubesCover
  <2>4. <<SourceClass(conns, profile), c[1], c[2]>> \in PeerCubes(conns)
    BY <2>1, <2>3 DEF PeerCubes
  <2>5. x[2] \in c[1] /\ x[3] \in c[2]
    BY <2>3
  <2> HIDE DEF profile, y
  <2> QED
    BY <2>2, <2>4, <2>5
<1> QED
  BY <1>4, <1>5 DEF conns

\* The edges of a part: between nodes, and of connections that the peers of the two
\* nodes have.
LEMMA EdgesFit ==
  ASSUME query \in Queries, NEW p \in PartNames, NEW e \in EdgesOf(PartConns(p), Protocols(p))
  PROVE  /\ e = <<e[1], e[2], e[3]>> /\ e[1] \in Nodes /\ e[2] \in Nodes
         /\ \A s \in EdgePeers(e[1]), d \in EdgePeers(e[2]), k \in OfPart(e[3], p) : <<s, d, k>> \in PartConns(p)
<1> DEFINE conns == PartConns(p)
<1>1. PICK cube \in PeerCubes(conns) : \E c \in CubesBySource(cube[3]) :
        e \in Split(cube[1]) \X Split(cube[2]) \X {ExtractConns(c[1] \X c[2], Protocols(p))}
  BY DEF EdgesOf
<1>2. PICK c \in CubesBySource(cube[3]) :
        e \in Split(cube[1]) \X Split(cube[2]) \X {ExtractConns(c[1] \X c[2], Protocols(p))}
  BY <1>1
<1>3. /\ cube[1] \in SUBSET Peers /\ cube[2] \in SUBSET Peers /\ cube[3] \subseteq Conns
      /\ cube[1] # {} /\ cube[2] # {}
      /\ \A s \in cube[1], d \in cube[2], k \in cube[3] : <<s, d, k>> \in conns
  BY PeerCubesFit
<1>4. IsRelation(cube[3])
  BY <1>3, ConnsAssumption DEF IsRelation
<1>5. \A s \in c[1], d \in c[2] : <<s, d>> \in cube[3]
  BY <1>4, CubeBySource
<1> DEFINE X == c[1] \X c[2]
<1>6. ASSUME NEW k \in X PROVE k \in cube[3] /\ InPart(k, p)
  <2>1. k \in cube[3]
    BY <1>5
  <2>2. PICK s \in cube[1], d \in cube[2] : <<s, d, k>> \in PartConns(p)
    BY <2>1, <1>3
  <2> DEFINE x == <<s, d, k>>
  <2>3. InPart(x[3], p)
    BY <2>2, PartConnsOne
  <2> QED
    BY <2>1, <2>3
<1>7. e = <<e[1], e[2], e[3]>> /\ e[1] \in Split(cube[1]) /\ e[2] \in Split(cube[2])
      /\ e[3] = ExtractConns(X, Protocols(p))
  BY <1>2
<1> HIDE DEF X, conns
<1>8. OfPart(e[3], p) = X
  BY <1>3, <1>6, <1>7, ExtractBack
<1>9. ASSUME NEW s \in EdgePeers(e[1]), NEW d \in EdgePeers(e[2]), NEW k \in OfPart(e[3], p)
      PROVE  <<s, d, k>> \in conns
  <2>1. s \in cube[1] /\ d \in cube[2] /\ k \in cube[3]
    BY <1>3, <1>6, <1>7, <1>8, SplitFits
  <2> QED
    BY <2>1, <1>3
<1>10. e[1] \in Nodes /\ e[2] \in Nodes
  BY <1>3, <1>7, SplitFits
<1> QED
  BY <1>7, <1>9, <1>10 DEF conns

\* Every connection of a part has an edge, of two nodes if it is of two peers.
LEMMA EdgesCover ==
  ASSUME query \in Queries, NEW p \in PartNames, NEW x \in PartConns(p), x[1] # x[2]
  PROVE  \E e \in EdgesOf(PartConns(p), Protocols(p)) :
           e[1] # e[2] /\ x[1] \in EdgePeers(e[1]) /\ x[2] \in EdgePeers(e[2]) /\ x[3] \in OfPart(e[3], p)
<1> DEFINE conns == PartConns(p)
<1>1. PICK cube \in PeerCubes(conns) : x[1] \in cube[1] /\ x[2] \in cube[2] /\ x[3] \in cube[3]
  BY PeerCubesFit
<1>3. /\ cube[1] \in SUBSET Peers /\ cube[2] \in SUBSET Peers /\ cube[3] \subseteq Conns
      /\ \A s \in cube[1], d \in cube[2], k \in cube[3] : <<s, d, k>> \in conns
  BY PeerCubesFit
<1>4. IsRelation(cube[3])
  BY <1>3, ConnsAssumption DEF IsRelation
<1>5. PICK c \in CubesBySource(cube[3]) : x[3][1] \in c[1] /\ x[3][2] \in c[2]
  BY <1>1, <1>4, CubesCover
<1>6. \A s \in c[1], d \in c[2] : <<s, d>> \in cube[3]
  BY <1>4, CubeBySource
<1> DEFINE X == c[1] \X c[2]
<1>7. x[3] \in X /\ X \subseteq cube[3]
  <2>1. x[3] = <<x[3][1], x[3][2]>>
    BY <1>1, <1>4 DEF IsRelation
  <2> QED
    BY <2>1, <1>5, <1>6
<1>8. ASSUME NEW k \in X PROVE k \in Conns /\ InPart(k, p)
  <2>1. k \in cube[3]
    BY <1>7
  <2>2. <<x[1], x[2], k>> \in PartConns(p)
    BY <2>1, <1>1, <1>3
  <2> DEFINE y == <<x[1], x[2], k>>
  <2>3. InPart(y[3], p)
    BY <2>2, PartConnsOne
  <2> QED
    BY <2>1, <2>3, <1>3
<1> HIDE DEF X
<1>9. OfPart(ExtractConns(X, Protocols(p)), p) = X
  BY <1>8, ExtractBack
<1>10. PICK n \in Split(cube[1]) :
         x[1] \in EdgePeers(n) /\ (x[1] \in Named => n = x[1]) /\ (x[1] \in Ips => n \in SUBSET Ips)
  BY <1>1, <1>3, SplitFits
<1>11. PICK m \in Split(cube[2]) :
         x[2] \in EdgePeers(m) /\ (x[2] \in Named => m = x[2]) /\ (x[2] \in Ips => m \in SUBSET Ips)
  BY <1>1, <1>3, SplitFits
<1>12. n # m
  <2>1. x[1] \in Peers /\ x[2] \in Peers /\ (x[1] \in Ips => x[2] \in Named)
    BY PartConnsOne DEF RealPair, Named
  <2>2. \A q \in Named : q \notin SUBSET Ips
    BY PeersAssumption
  <2> QED
    BY <1>10, <1>11, <2>1, <2>2 DEF Peers
<1> DEFINE e == <<n, m, ExtractConns(X, Protocols(p))>>
<1>13. e \in EdgesOf(conns, Protocols(p))
  <2>1. e \in Split(cube[1]) \X Split(cube[2]) \X {ExtractConns(c[1] \X c[2], Protocols(p))}
    BY DEF X
  <2> HIDE DEF e, conns
  <2> DEFINE Of(b) == UNION {Split(b[1]) \X Split(b[2]) \X {ExtractConns(f[1] \X f[2], Protocols(p))}
                             : f \in CubesBySource(b[3])}
  <2>2. e \in Of(cube)
    BY <2>1, <1>5
  <2>3. EdgesOf(conns, Protocols(p)) = UNION {Of(b) : b \in PeerCubes(conns)}
    BY DEF EdgesOf
  <2> HIDE DEF Of
  <2> QED
    BY <2>2, <2>3, <1>1
<1>14. e[1] = n /\ e[2] = m /\ OfPart(e[3], p) = X
  BY <1>9
<1> HIDE DEF e
<1> QED
  BY <1>7, <1>10, <1>11, <1>12, <1>13, <1>14
-----------------------------------------------------------------------------
(***************************************************************************)
(* The report shows the connections.                                       *)
(***************************************************************************)
\* What may be missing from a report.
Excused(x) ==
  IF query.format = "dot" THEN GroupedTogether(x) ELSE query.filter_system /\ <<x[1], x[2]>> \in SystemPairs
Reported(p) == \A x \in PartConns(p) : x[1] # x[2] => x \in shown \/ Excused(x)
\* What is worked on is the part; the parts before it are shown.
ShownInv ==
  /\ part # "none" /\ query.format = "rules" => props = PropsToPeers(PartConns(part), Protocols(part))
  /\ part # "none" /\ query.format = "dot" =>
       /\ edges = EdgesOf(PartConns(part), Protocols(part))
       /\ groups = Groups(edges, AllPeers(AllConns(query)))
  /\ \A x \in shown : x[1] = x[2] \/ x \in AllConns(query)
  /\ ~raised => \A p \in Range(PartsOf(query)) : p \in Range(parts) \/ p = part \/ Reported(p)

\* Names of parts.
LEMMA PartsAreNamed == \A p \in Range(PartsOf(query)) : p \in PartNames
BY PartsOfQuery DEF PartNames

\* Lines and edges show exactly the connections.
LEMMA EdgesShowPart ==
  ASSUME query \in Queries, NEW p \in PartNames
  PROVE  LET es == EdgesOf(PartConns(p), Protocols(p))
         IN  /\ \A x \in EdgesShow(es, p) : x \in PartConns(p)
             /\ \A x \in PartConns(p) : x[1] # x[2] => x \in EdgesShow(es, p)
<1> DEFINE es == EdgesOf(PartConns(p), Protocols(p))
           Of(e) == EdgePeers(e[1]) \X EdgePeers(e[2]) \X OfPart(e[3], p)
<1>1. \A x : x \in EdgesShow(es, p) <=> \E e \in es : e[1] # e[2] /\ x \in Of(e)
  <2> HIDE DEF es
  <2> QED
    BY DEF EdgesShow
<1>2. ASSUME NEW x \in EdgesShow(es, p) PROVE x \in PartConns(p)
  <2>1. PICK e \in es : x \in Of(e)
    BY <1>1, <1>2
  <2>2. /\ x = <<x[1], x[2], x[3]>>
        /\ x[1] \in EdgePeers(e[1]) /\ x[2] \in EdgePeers(e[2]) /\ x[3] \in OfPart(e[3], p)
    BY <2>1
  <2> QED
    BY <2>1, <2>2, EdgesFit
<1>3. ASSUME NEW x \in PartConns(p), x[1] # x[2] PROVE x \in EdgesShow(es, p)
  <2>1. PICK e \in es :
          e[1] # e[2] /\ x[1] \in EdgePeers(e[1]) /\ x[2] \in EdgePeers(e[2]) /\ x[3] \in OfPart(e[3], p)
    BY <1>3, EdgesCover
  <2>2. x = <<x[1], x[2], x[3]>>
    BY PartConnsOne
  <2>3. x \in Of(e)
    BY <2>1, <2>2
  <2> QED
    BY <2>1, <2>3, <1>1
<1> QED
  BY <1>2, <1>3

\* A drawing shows them too, but for those inside a node with several.
LEMMA DrawnEdgesShowPart ==
  ASSUME query \in Queries, NEW p \in Range(PartsOf(query)),
         edges = EdgesOf(PartConns(p), Protocols(p)), groups = Groups(edges, AllPeers(AllConns(query))),
         NEW es \in DrawnEdges
  PROVE  /\ \A x \in EdgesShow(es, p) : x \in PartConns(p)
         /\ \A x \in PartConns(p) : x[1] # x[2] => x \in EdgesShow(es, p) \/ GroupedTogether(x)
<1> DEFINE Of(e) == EdgePeers(e[1]) \X EdgePeers(e[2]) \X OfPart(e[3], p)
           many == ManyConns(edges, groups)
<1>0. p \in PartNames
  BY PartsAreNamed
<1>1. PICK f : es = {e \in edges : \A g \in many : Inside(e, g) => e[3] = f[g]}
  BY DEF DrawnEdges
<1>2. \A x : x \in EdgesShow(es, p) <=> \E e \in es : e[1] # e[2] /\ x \in Of(e)
  BY DEF EdgesShow
<1> HIDE DEF many
<1>3. ASSUME NEW x \in EdgesShow(es, p) PROVE x \in PartConns(p)
  <2>1. PICK e \in edges : x \in Of(e)
    BY <1>1, <1>2, <1>3
  <2>2. /\ x = <<x[1], x[2], x[3]>>
        /\ x[1] \in EdgePeers(e[1]) /\ x[2] \in EdgePeers(e[2]) /\ x[3] \in OfPart(e[3], p)
    BY <2>1
  <2> QED
    BY <2>1, <2>2, <1>0, EdgesFit
<1>4. ASSUME NEW x \in PartConns(p), x[1] # x[2], x \notin EdgesShow(es, p) PROVE GroupedTogether(x)
  <2>1. PICK e \in edges :
          e[1] # e[2] /\ x[1] \in EdgePeers(e[1]) /\ x[2] \in EdgePeers(e[2]) /\ x[3] \in OfPart(e[3], p)
    BY <1>0, <1>4, EdgesCover
  <2>2. x \in Of(e)
    <3>1. x = <<x[1], x[2], x[3]>>
      BY PartConnsOne
    <3> QED
      BY <2>1, <3>1
  <2>3. e \notin es
    BY <1>2, <1>4, <2>1, <2>2
  <2>4. PICK g \in many : Inside(e, g)
    BY <1>1, <2>1, <2>3
  <2>5. e[1] \in g /\ e[2] \in g
    BY <2>4 DEF Inside
  <2>6. g \in ManyConns(edges, Groups(edges, AllPeers(AllConns(query))))
    BY <2>4 DEF many
  <2>7. \E n, m \in g : n # m /\ x[1] \in EdgePeers(n) /\ x[2] \in EdgePeers(m)
    BY <2>1, <2>5
  <2> QED
    BY <2>6, <2>7 DEF GroupedTogether
<1> QED
  BY <1>3, <1>4

\* What is excused, and what is reported, stays so.
LEMMA ReportedStays ==
  ASSUME query' = query, shown \subseteq shown', NEW p, Reported(p)
  PROVE  Reported(p)'
<1>1. \A q : PartConns(q)' = PartConns(q)
  BY DEF PartConns
<1>2. ASSUME NEW x PROVE GroupedTogether(x)' <=> GroupedTogether(x)
  BY <1>1 DEF GroupedTogether
<1>3. \A x : Excused(x)' <=> Excused(x)
  BY <1>2 DEF Excused
<1> QED
  BY <1>1, <1>3 DEF Reported

\* What is shown of a part now makes it reported.
LEMMA NowReported ==
  ASSUME query' = query, NEW p, \A x \in PartConns(p) : x[1] # x[2] => x \in shown' \/ Excused(x)
  PROVE  Reported(p)'
<1>1. \A q : PartConns(q)' = PartConns(q)
  BY DEF PartConns
<1>2. ASSUME NEW x PROVE GroupedTogether(x)' <=> GroupedTogether(x)
  BY <1>1 DEF GroupedTogether
<1>3. \A x : Excused(x)' <=> Excused(x)
  BY <1>2 DEF Excused
<1> QED
  BY <1>1, <1>3 DEF Reported

\* The parts of a report in the steps that do not show anything.
LEMMA ShownStays ==
  ASSUME ShownInv, query' = query, shown' = shown, raised' = raised, parts' = parts, part' = part,
         query.format = "rules" => props' = props,
         query.format = "dot" => edges' = edges /\ groups' = groups
  PROVE  ShownInv'
<1>1. \A q : PartConns(q)' = PartConns(q)
  BY DEF PartConns
<1>2. \A p : Reported(p) => Reported(p)'
  BY ReportedStays
<1> QED
  BY <1>1, <1>2 DEF ShownInv

\* A part is begun.
LEMMA StartPartShows ==
  ASSUME ControlInv, ShownInv, StartPart
  PROVE  ShownInv'
<1> DEFINE p == Head(parts)
           es == EdgesOf(PartConns(p), Protocols(p))
           all == AllPeers(AllConns(query))
<1>1. /\ ~raised /\ part = "none" /\ parts # << >> /\ parts' = Tail(parts) /\ query' = query
      /\ query \in Queries
  BY DEF StartPart, ControlInv
<1>2. Range(parts) = Range(parts') \cup {p} /\ p # "none" /\ p \in Range(PartsOf(query)) /\ p \in PartNames
  BY <1>1, FirstPart, PartsAreNamed DEF ControlInv
<1>3. \A q : PartConns(q)' = PartConns(q)
  BY <1>1 DEF PartConns
<1>4. \/ /\ query.format = "rules" /\ part' = p
         /\ StartRules(PartConns(p), Protocols(p)) /\ UNCHANGED <<graphVars, shown, raised>>
      \/ /\ query.format = "dot" /\ part' = p
         /\ StartGraph(es, all) /\ UNCHANGED <<fwVars, shown, raised>>
      \/ query.format = "dot" /\ raised' = TRUE /\ UNCHANGED <<fwVars, graphVars, part, shown>>
      \/ /\ query.format = "txt_no_fw_rules" /\ shown' = shown \cup EdgesShow(es, p)
         /\ UNCHANGED <<fwVars, graphVars, part, raised>>
  BY DEF StartPart
<1>5. \A q \in Range(PartsOf(query)) : q \in Range(parts') \/ q = p \/ Reported(q)
  <2>1. ASSUME NEW q \in Range(PartsOf(query)) PROVE q \in Range(parts) \/ Reported(q)
    <3>1. q # "none"
      BY PartsAreNamed DEF PartNames
    <3> QED
      BY <1>1, <3>1 DEF ShownInv
  <2> QED
    BY <1>2, <2>1
<1>6. \A x \in shown : x[1] = x[2] \/ x \in AllConns(query)
  BY DEF ShownInv
<1>7. ASSUME shown \subseteq shown', NEW q, Reported(q) PROVE Reported(q)'
  BY <1>1, <1>7, ReportedStays
<1> HIDE DEF p, all
<1>8. ASSUME query.format = "rules", part' = p, StartRules(PartConns(p), Protocols(p)),
             UNCHANGED <<graphVars, shown, raised>>
      PROVE  ShownInv'
  <2>1. props' = PropsToPeers(PartConns(p), Protocols(p)) /\ shown' = shown /\ raised' = raised
    BY <1>8 DEF StartRules
  <2> QED
    BY <1>1, <1>3, <1>5, <1>6, <1>7, <1>8, <2>1 DEF ShownInv
<1>9. ASSUME query.format = "dot", part' = p, StartGraph(es, all), UNCHANGED <<fwVars, shown, raised>>
      PROVE  ShownInv'
  <2>1. edges' = es /\ groups' = Groups(es, all) /\ shown' = shown /\ raised' = raised
    BY <1>9 DEF StartGraph
  <2> QED
    BY <1>1, <1>3, <1>5, <1>6, <1>7, <1>9, <2>1 DEF ShownInv, all
<1>10. ASSUME query.format = "dot", raised' = TRUE, UNCHANGED <<fwVars, graphVars, part, shown>>
       PROVE  ShownInv'
  BY <1>1, <1>6, <1>10 DEF ShownInv
<1>11. ASSUME query.format = "txt_no_fw_rules", shown' = shown \cup EdgesShow(es, p),
              UNCHANGED <<fwVars, graphVars, part, raised>>
       PROVE  ShownInv'
  <2>1. /\ \A x \in EdgesShow(es, p) : x \in PartConns(p)
        /\ \A x \in PartConns(p) : x[1] # x[2] => x \in EdgesShow(es, p)
    BY <1>1, <1>2, EdgesShowPart
  <2>2. PartConns(p) \subseteq AllConns(query)
    BY <1>1, ConnsOfPart
  <2>3. \A x \in shown' : x[1] = x[2] \/ x \in AllConns(query)
    BY <1>6, <1>11, <2>1, <2>2
  <2>4. \A q : q = p => Reported(q)'
    BY <1>1, <1>11, <2>1, NowReported
  <2>5. \A q \in Range(PartsOf(query)) : q \in Range(parts') \/ Reported(q)'
    <3>1. shown \subseteq shown'
      BY <1>11
    <3> QED
      BY <3>1, <1>5, <1>7, <2>4
  <2> QED
    BY <1>1, <1>11, <2>3, <2>5 DEF ShownInv
<1> QED
  BY <1>4, <1>8, <1>9, <1>10, <1>11

\* A part is ended.
LEMMA EndPartShows ==
  ASSUME ControlInv, RulesInv, ShownInv, EndPart
  PROVE  ShownInv'
<1>1. /\ part # "none" /\ part' = "none" /\ RulesDone /\ query' = query /\ parts' = parts /\ raised' = raised
      /\ query \in Queries /\ part \in Range(PartsOf(query)) /\ part \in PartNames
  BY PartsAreNamed DEF EndPart, ControlInv
<1>2. /\ \A q \in Range(PartsOf(query)) : ~raised => q \in Range(parts) \/ q = part \/ Reported(q)
      /\ \A x \in shown : x[1] = x[2] \/ x \in AllConns(query)
  BY DEF ShownInv
<1>3. PartConns(part) \subseteq AllConns(query)
  BY <1>1, ConnsOfPart
<1>4. PICK new : /\ shown' = shown \cup new
                 /\ \A x \in new : x[1] = x[2] \/ x \in PartConns(part)
                 /\ \A x \in PartConns(part) : x[1] # x[2] => x \in new \/ Excused(x)
  <2>1. CASE query.format = "rules" /\ shown' = shown \cup RulesShow(PrintedRules(query.filter_system), part)
    <3>1. props = PropsToPeers(PartConns(part), Protocols(part))
      BY <1>1, <2>1 DEF ShownInv
    <3>2. /\ \A x \in RulesShow(PrintedRules(query.filter_system), part) : x[1] = x[2] \/ x \in PartConns(part)
          /\ \A x \in PartConns(part) : \/ x \in RulesShow(PrintedRules(query.filter_system), part)
                                        \/ query.filter_system /\ <<x[1], x[2]>> \in SystemPairs
      BY <1>1, <3>1, RulesShowPart
    <3> QED
      BY <2>1, <3>2 DEF Excused
  <2>2. ASSUME query.format = "dot", NEW es \in DrawnEdges, shown' = shown \cup EdgesShow(es, part)
        PROVE  \E new : /\ shown' = shown \cup new
                        /\ \A x \in new : x[1] = x[2] \/ x \in PartConns(part)
                        /\ \A x \in PartConns(part) : x[1] # x[2] => x \in new \/ Excused(x)
    <3>1. /\ edges = EdgesOf(PartConns(part), Protocols(part))
          /\ groups = Groups(edges, AllPeers(AllConns(query)))
      BY <1>1, <2>2 DEF ShownInv
    <3>2. /\ \A x \in EdgesShow(es, part) : x \in PartConns(part)
          /\ \A x \in PartConns(part) : x[1] # x[2] => x \in EdgesShow(es, part) \/ GroupedTogether(x)
      BY <1>1, <3>1, DrawnEdgesShowPart
    <3> QED
      BY <2>2, <3>2 DEF Excused
  <2> QED
    BY <2>1, <2>2 DEF EndPart
<1>5. \A q : q = part => Reported(q)'
  BY <1>1, <1>4, NowReported
<1>6. \A q : Reported(q) => Reported(q)'
  BY <1>1, <1>4, ReportedStays
<1>7. \A x \in shown' : x[1] = x[2] \/ x \in AllConns(query)
  BY <1>2, <1>3, <1>4
<1>8. ~raised => \A q \in Range(PartsOf(query)) : q \in Range(parts) \/ Reported(q)'
  BY <1>2, <1>5, <1>6
<1> QED
  BY <1>1, <1>7, <1>8 DEF ShownInv

\* The report in every step.
LEMMA ShownInvStep ==
  ASSUME ControlInv, FwInv, RulesInv, ShownInv, [Next]_vars
  PROVE  ShownInv'
<1>0. query' = query
  BY QueryStays
<1>1. ASSUME FwStep, UNCHANGED <<graphVars, reportVars>> PROVE ShownInv'
  <2>1. props' = props
    BY <1>1 DEF FwStep, StartProps, FullNsGrouping, TakeNsEntry, NextGrouping, CreateRules
  <2> QED
    BY <1>1, <2>1, ShownStays DEF graphVars, reportVars
<1>2. ASSUME GraphStep, UNCHANGED <<fwVars, reportVars>> PROVE ShownInv'
  <2>1. edges' = edges /\ groups' = groups
    BY <1>2 DEF GraphStep, Draw, TakeBiclique, FinishDrawing
  <2> QED
    BY <1>2, <2>1, ShownStays DEF fwVars, reportVars
<1>3. ASSUME UNCHANGED vars PROVE ShownInv'
  BY <1>3, ShownStays DEF vars, fwVars, graphVars, reportVars
<1> QED
  BY <1>1, <1>2, <1>3, StepCases, StartPartShows, EndPartShows

\* Initially.
LEMMA ShownInit ==
  ASSUME Init
  PROVE  ShownInv
BY DEF Init, ShownInv

\* A report of which all parts are shown is exact.
LEMMA ShownIsExact ==
  ASSUME ControlInv, ShownInv
  PROVE  ReportExact
<1> SUFFICES ASSUME Finished
             PROVE  LET missing == {x \in AllConns(query) \ shown : x[1] # x[2]}
                        extra == {x \in shown \ AllConns(query) : x[1] # x[2]}
                    IN  extra = {} /\ \A x \in missing : Excused(x)
  BY DEF ReportExact, Excused
<1>1. ~raised /\ part = "none" /\ parts = << >>
  BY DEF Finished
<1>2. Range(parts) = {}
  BY <1>1 DEF Range
<1>3. \A p \in Range(PartsOf(query)) : Reported(p)
  <2>1. \A p \in Range(PartsOf(query)) : p # "none"
    BY PartsAreNamed DEF PartNames
  <2> QED
    BY <1>1, <1>2, <2>1 DEF ShownInv
<1>4. ASSUME NEW x \in AllConns(query) PROVE \E p \in Range(PartsOf(query)) : x \in PartConns(p)
  <2>1. \A p : x \in PartConns(p) <=> InPart(x[3], p)
    BY PartConnsOne DEF ControlInv
  <2>2. CASE Range(PartsOf(query)) = {"all"}
    BY <2>1, <2>2 DEF InPart
  <2>3. CASE Range(PartsOf(query)) = {"TCP", "non-TCP"}
    <3>1. InPart(x[3], "TCP") \/ InPart(x[3], "non-TCP")
      BY DEF InPart
    <3> QED
      BY <2>1, <2>3, <3>1
  <2> QED
    BY <2>2, <2>3, PartsOfQuery
<1>5. ASSUME NEW x \in AllConns(query), x \notin shown, x[1] # x[2] PROVE Excused(x)
  BY <1>3, <1>4, <1>5 DEF Reported
<1>6. ASSUME NEW x \in shown, x \notin AllConns(query) PROVE x[1] = x[2]
  BY <1>6 DEF ShownInv
<1> QED
  BY <1>5, <1>6

\* A finished connectivity report (ConnectivityMapQuery, as rules, drawing or lines, with
\* or without splitting by TCP) shows every connection that was asked for and none that
\* is not there, but for what it says that it leaves out.
THEOREM ReportIsExact == Spec => []ReportExact
<1>1. Init => ControlInv /\ FwInv /\ RulesInv /\ ShownInv
  BY ControlInit, RulesInit, ShownInit
<1>2. ControlInv /\ FwInv /\ RulesInv /\ ShownInv /\ [Next]_vars
        => ControlInv' /\ FwInv' /\ RulesInv' /\ ShownInv'
  BY ControlStep, FwInvStep, RulesInvStep, ShownInvStep
<1>3. ControlInv /\ ShownInv => ReportExact
  BY ShownIsExact
<1> QED
  BY <1>1, <1>2, <1>3, PTL DEF Spec
-----------------------------------------------------------------------------
(***************************************************************************)
(* The groups of peers of a drawing.                                       *)
(***************************************************************************)
\* Peers with the same edges in the same namespace: such groups are not empty and have
\* no peers in common.
LEMMA EqualGroupsFit ==
  ASSUME NEW pe, NEW g \in EqualGroups(pe)
  PROVE  /\ g # {} /\ g \subseteq DOMAIN pe
         /\ \A n, m \in g : pe[n] = pe[m]
         /\ \A h \in EqualGroups(pe) : g \cap h # {} => g = h
<1> DEFINE Of(n) == {m \in DOMAIN pe : NodeNs(m) = NodeNs(n) /\ pe[m] = pe[n]}
<1>1. EqualGroups(pe) = {Of(n) : n \in DOMAIN pe}
  BY DEF EqualGroups
<1>2. PICK n \in DOMAIN pe : g = Of(n)
  BY <1>1
<1>3. ASSUME NEW h \in EqualGroups(pe), g \cap h # {} PROVE g = h
  <2>1. PICK m \in DOMAIN pe : h = Of(m)
    BY <1>1
  <2>2. PICK k \in g : k \in h
    BY <1>3
  <2>3. NodeNs(m) = NodeNs(n) /\ pe[m] = pe[n]
    BY <1>2, <2>1, <2>2
  <2> QED
    BY <1>2, <2>1, <2>3
<1> QED
  BY <1>2, <1>3

\* A group of the drawing: its peers have the same edges, their own to each other
\* included or not.
LEMMA GroupsFit ==
  ASSUME NEW es, NEW all, NEW g \in Groups(es, all)
  PROVE  /\ g # {}
         /\ \A n, m \in g : WithSelf(es, n) = WithSelf(es, m) \/ OwnEdges(es, n) = OwnEdges(es, m)
         /\ \A h \in Groups(es, all) : g \cap h # {} => g = h
<1> DEFINE pe == [n \in all |-> WithSelf(es, n)]
           connected == {f \in EqualGroups(pe) : Cardinality(f) > 1}
           qe == [n \in all \ UNION connected |-> OwnEdges(es, n)]
<1>1. Groups(es, all) = connected \cup EqualGroups(qe)
  BY DEF Groups
<1>2. ASSUME NEW f \in connected
      PROVE  /\ f # {} /\ \A n, m \in f : WithSelf(es, n) = WithSelf(es, m)
             /\ \A h \in connected : f \cap h # {} => f = h
  <2>1. f \in EqualGroups(pe) /\ \A h \in connected : h \in EqualGroups(pe)
    OBVIOUS
  <2>2. \A n \in all : pe[n] = WithSelf(es, n)
    OBVIOUS
  <2>3. DOMAIN pe = all
    OBVIOUS
  <2> HIDE DEF pe, connected
  <2>4. f # {} /\ f \subseteq all /\ \A n, m \in f : pe[n] = pe[m]
    BY <2>1, <2>3, EqualGroupsFit
  <2>5. \A h \in connected : f \cap h # {} => f = h
    BY <2>1, EqualGroupsFit
  <2>6. \A n, m \in f : WithSelf(es, n) = WithSelf(es, m)
    BY <2>2, <2>4
  <2> QED
    BY <2>4, <2>5, <2>6
<1>3. ASSUME NEW f \in EqualGroups(qe)
      PROVE  /\ f # {} /\ f \subseteq all \ UNION connected
             /\ \A n, m \in f : OwnEdges(es, n) = OwnEdges(es, m)
             /\ \A h \in EqualGroups(qe) : f \cap h # {} => f = h
  <2> HIDE DEF connected
  <2>1. DOMAIN qe = all \ UNION connected /\ \A n \in all \ UNION connected : qe[n] = OwnEdges(es, n)
    OBVIOUS
  <2> HIDE DEF qe
  <2>2. f # {} /\ f \subseteq all \ UNION connected /\ \A n, m \in f : qe[n] = qe[m]
    BY <2>1, EqualGroupsFit
  <2>3. \A h \in EqualGroups(qe) : f \cap h # {} => f = h
    BY EqualGroupsFit
  <2>4. \A n, m \in f : OwnEdges(es, n) = OwnEdges(es, m)
    BY <2>1, <2>2
  <2> QED
    BY <2>2, <2>3, <2>4
<1> HIDE DEF connected, pe, qe
<1>4. \A h \in connected, f \in EqualGroups(qe) : h \cap f = {}
  BY <1>3
<1>5. CASE g \in connected
  BY <1>1, <1>2, <1>4, <1>5
<1>6. CASE g \in EqualGroups(qe)
  BY <1>1, <1>3, <1>4, <1>6
<1> QED
  BY <1>1, <1>5, <1>6

\* Of edges between nodes.
AreEdges(es) == \A e \in es : e = <<e[1], e[2], e[3]>> /\ e[1] \in Nodes /\ e[2] \in Nodes

\* The edges of a node, one by one.
LEMMA OwnEdgesOne ==
  ASSUME NEW es, AreEdges(es), NEW n, NEW m, n # m, NEW c
  PROVE  /\ <<m, c, "out">> \in OwnEdges(es, n) <=> <<n, m, c>> \in es
         /\ <<m, c, "in">> \in OwnEdges(es, n) <=> <<m, n, c>> \in es
         /\ \A dir : <<m, c, dir>> \in WithSelf(es, n) <=> <<m, c, dir>> \in OwnEdges(es, n)
<1>1. \A y : y \in OwnEdges(es, n) <=>
               \/ \E e \in es : e[1] = n /\ e[2] # n /\ y = <<e[2], e[3], "out">>
               \/ \E e \in es : e[2] = n /\ e[1] # n /\ y = <<e[1], e[3], "in">>
  BY DEF OwnEdges
<1>2. <<m, c, "out">> \in OwnEdges(es, n) <=> <<n, m, c>> \in es
  <2>1. <<m, c, "out">> \in OwnEdges(es, n) <=> \E e \in es : e[1] = n /\ e[2] = m /\ e[3] = c
    BY <1>1
  <2> QED
    BY <2>1 DEF AreEdges
<1>3. <<m, c, "in">> \in OwnEdges(es, n) <=> <<m, n, c>> \in es
  <2>1. <<m, c, "in">> \in OwnEdges(es, n) <=> \E e \in es : e[2] = n /\ e[1] = m /\ e[3] = c
    BY <1>1
  <2> QED
    BY <2>1 DEF AreEdges
<1>4. ASSUME NEW dir PROVE <<m, c, dir>> \in WithSelf(es, n) <=> <<m, c, dir>> \in OwnEdges(es, n)
  BY DEF WithSelf
<1> QED
  BY <1>2, <1>3, <1>4

\* The peers of a group have the same edges with a peer outside it.
LEMMA SameOutside ==
  ASSUME NEW es, AreEdges(es), NEW all, NEW g \in Groups(es, all),
         NEW n \in g, NEW k \in g, NEW m, m \notin g, NEW c
  PROVE  (<<n, m, c>> \in es <=> <<k, m, c>> \in es) /\ (<<m, n, c>> \in es <=> <<m, k, c>> \in es)
<1>1. WithSelf(es, n) = WithSelf(es, k) \/ OwnEdges(es, n) = OwnEdges(es, k)
  BY GroupsFit
<1>2. n # m /\ k # m
  OBVIOUS
<1>3. \A dir : <<m, c, dir>> \in OwnEdges(es, n) <=> <<m, c, dir>> \in OwnEdges(es, k)
  BY <1>1, <1>2, OwnEdgesOne
<1> QED
  BY <1>2, <1>3, OwnEdgesOne

\* So those of two groups are connected all alike.
LEMMA SameBetween ==
  ASSUME NEW es, AreEdges(es), NEW all, NEW g \in Groups(es, all), NEW h \in Groups(es, all), g # h,
         NEW n \in g, NEW k \in g, NEW m \in h, NEW l \in h, NEW c
  PROVE  <<n, m, c>> \in es <=> <<k, l, c>> \in es
<1>1. g \cap h = {}
  BY GroupsFit
<1>2. m \notin g /\ k \notin h
  BY <1>1
<1>3. <<n, m, c>> \in es <=> <<k, m, c>> \in es
  BY <1>2, SameOutside
<1>4. <<k, m, c>> \in es <=> <<k, l, c>> \in es
  BY <1>2, SameOutside
<1> QED
  BY <1>3, <1>4
-----------------------------------------------------------------------------
(***************************************************************************)
(* Cliques as stars.                                                       *)
(***************************************************************************)
\* A finite set with two elements, or with these two only.
LEMMA TwoElements ==
  ASSUME NEW S, IsFiniteSet(S), NEW a \in S, NEW b \in S, a # b
  PROVE  Cardinality(S) \in Nat /\ Cardinality(S) >= 2 /\ (Cardinality(S) = 2 <=> S = {a, b})
<1> DEFINE T == S \ {a}
           U == T \ {b}
<1>1. IsFiniteSet(T) /\ Cardinality(T) = Cardinality(S) - 1 /\ Cardinality(S) \in Nat
  BY FS_RemoveElement, FS_CardinalityType
<1>2. b \in T
  OBVIOUS
<1> HIDE DEF T
<1>3. IsFiniteSet(U) /\ Cardinality(U) = Cardinality(T) - 1
  BY <1>1, <1>2, FS_RemoveElement
<1> HIDE DEF U
<1>4. Cardinality(U) \in Nat /\ (Cardinality(U) = 0 <=> U = {})
  BY <1>3, FS_CardinalityType, FS_EmptySet
<1>5. U = {} <=> S = {a, b}
  BY DEF U, T
<1> QED
  BY <1>1, <1>3, <1>4, <1>5

\* An end of an edge of a clique: a star of the clique or one of its nodes.
IsStar(v, S) == v = <<"clique_star", S>> \/ \E ns : v = <<"namespace_star", S, ns>>
IsEnd(v, S) == IsStar(v, S) \/ \E n \in S : v = Node(n)

\* A star is of one clique, and a node is no star.
LEMMA StarsFit ==
  /\ \A v, S : IsStar(v, S) => v[1] \in {"clique_star", "namespace_star"} /\ v[1] # "node" /\ v[2] = S
  /\ \A n, m : Node(n)[1] = "node" /\ (Node(n) = Node(m) <=> n = m)
<1>1. ASSUME NEW v, NEW S, IsStar(v, S)
      PROVE  v[1] \in {"clique_star", "namespace_star"} /\ v[1] # "node" /\ v[2] = S
  <2>1. CASE v = <<"clique_star", S>>
    BY <2>1
  <2>2. CASE \E ns : v = <<"namespace_star", S, ns>>
    BY <2>2
  <2> QED
    BY <1>1, <2>1, <2>2 DEF IsStar
<1>2. ASSUME NEW n, NEW m PROVE Node(n)[1] = "node" /\ (Node(n) = Node(m) <=> n = m)
  <2>1. Node(n)[1] = "node" /\ Node(n)[2] = n /\ Node(m)[2] = m
    BY DEF Node
  <2> QED
    BY <2>1
<1> QED
  BY <1>1, <1>2

\* The names of CliqueEdges.
InNamespace(S, ns) == {Node(n) : n \in {m \in S : NodeNs(m) = ns}}
StarOf(S, ns) == <<"namespace_star", S, ns>>
Several(S) == {ns \in {NodeNs(n) : n \in S} : Cardinality(InNamespace(S, ns)) > 1}
Hubs(S) ==
  {StarOf(S, ns) : ns \in Several(S)}
  \cup UNION {InNamespace(S, ns) : ns \in {NodeNs(n) : n \in S} \ Several(S)}
Hub(S, k) == IF NodeNs(k) \in Several(S) THEN StarOf(S, NodeNs(k)) ELSE Node(k)

\* A hub is the hub of a node.
LEMMA HubsFit ==
  ASSUME NEW S, NEW h
  PROVE  h \in Hubs(S) <=> \E k \in S : h = Hub(S, k)
<1> DEFINE several == Several(S)
           rest == {NodeNs(n) : n \in S} \ several
<1>0. several \subseteq {NodeNs(n) : n \in S}
  BY DEF Several
<1> HIDE DEF several
<1>1. h \in Hubs(S) <=> \/ \E ns \in several : h = StarOf(S, ns)
                        \/ \E ns \in rest : h \in InNamespace(S, ns)
  BY DEF Hubs, several
<1>2. \A ns : h \in InNamespace(S, ns) <=> \E k \in S : NodeNs(k) = ns /\ h = Node(k)
  BY DEF InNamespace
<1>3. \A k : Hub(S, k) = IF NodeNs(k) \in several THEN StarOf(S, NodeNs(k)) ELSE Node(k)
  BY DEF Hub, several
<1>4. ASSUME NEW ns \in several, h = StarOf(S, ns) PROVE \E k \in S : h = Hub(S, k)
  BY <1>0, <1>3, <1>4
<1>5. ASSUME NEW ns \in rest, h \in InNamespace(S, ns) PROVE \E k \in S : h = Hub(S, k)
  BY <1>2, <1>3, <1>5
<1>6. ASSUME NEW k \in S, h = Hub(S, k) PROVE h \in Hubs(S)
  <2>1. CASE NodeNs(k) \in several
    BY <1>1, <1>3, <1>6, <2>1
  <2>2. CASE NodeNs(k) \notin several
    BY <1>1, <1>2, <1>3, <1>6, <2>2
  <2> QED
    BY <2>1, <2>2
<1> QED
  BY <1>1, <1>4, <1>5, <1>6

\* What is drawn for a clique: edges to the star of a namespace, and between the hubs
\* or to the star of the clique.
LEMMA CliqueEdgesFit ==
  ASSUME NEW S
  PROVE  /\ \A x \in CliqueEdges(S) : x = <<x[1], x[2]>> /\ IsEnd(x[1], S) /\ IsEnd(x[2], S)
         /\ \A k \in S : NodeNs(k) \in Several(S) => <<StarOf(S, NodeNs(k)), Node(k)>> \in CliqueEdges(S)
         /\ Cardinality(Hubs(S)) > 2 => \A h \in Hubs(S) : <<h, <<"clique_star", S>>>> \in CliqueEdges(S)
         /\ Cardinality(Hubs(S)) = 2 => \A h, i \in Hubs(S) : h # i => <<h, i>> \in CliqueEdges(S)
<1> DEFINE hubs == Hubs(S)
           Spokes(ns) == {StarOf(S, ns)} \X InNamespace(S, ns)
           own == UNION {Spokes(ns) : ns \in Several(S)}
           between == CASE Cardinality(hubs) > 2 -> hubs \X {<<"clique_star", S>>}
                        [] Cardinality(hubs) = 2 -> {x \in hubs \X hubs : x[1] # x[2]}
                        [] OTHER -> {}
<1>1. CliqueEdges(S) = own \cup between
  BY DEF CliqueEdges, Hubs, Several, InNamespace, StarOf
<1>0. \A ns : IsStar(StarOf(S, ns), S)
  BY DEF IsStar, StarOf
<1>2. \A h \in hubs : IsEnd(h, S)
  <2>1. \A h \in hubs : \E k \in S : h = StarOf(S, NodeNs(k)) \/ h = Node(k)
    BY HubsFit DEF Hub
  <2> QED
    BY <1>0, <2>1 DEF IsEnd
<1>3. ASSUME NEW x \in own PROVE x = <<x[1], x[2]>> /\ IsEnd(x[1], S) /\ IsEnd(x[2], S)
  <2>1. PICK ns : x \in Spokes(ns)
    BY <1>3
  <2>2. x = <<x[1], x[2]>> /\ x[1] = StarOf(S, ns) /\ x[2] \in InNamespace(S, ns)
    BY <2>1
  <2>3. \E k \in S : x[2] = Node(k)
    BY <2>2 DEF InNamespace
  <2> QED
    BY <1>0, <2>2, <2>3 DEF IsEnd
<1>4. ASSUME NEW k \in S, NodeNs(k) \in Several(S) PROVE <<StarOf(S, NodeNs(k)), Node(k)>> \in own
  <2>1. Node(k) \in InNamespace(S, NodeNs(k))
    BY DEF InNamespace
  <2>2. <<StarOf(S, NodeNs(k)), Node(k)>> \in Spokes(NodeNs(k))
    BY <2>1
  <2> HIDE DEF Spokes
  <2> QED
    BY <1>4, <2>2
<1> HIDE DEF own, hubs
<1>5. ASSUME NEW x \in between PROVE x = <<x[1], x[2]>> /\ IsEnd(x[1], S) /\ IsEnd(x[2], S)
  <2>0. IsEnd(<<"clique_star", S>>, S)
    BY DEF IsEnd, IsStar
  <2>1. x \in hubs \X {<<"clique_star", S>>} \/ x \in hubs \X hubs
    BY <1>5
  <2> QED
    BY <2>0, <2>1, <1>2
<1>6. Cardinality(hubs) > 2 => \A h \in hubs : <<h, <<"clique_star", S>>>> \in between
  OBVIOUS
<1>7. Cardinality(hubs) = 2 => \A h, i \in hubs : h # i => <<h, i>> \in between
  <2>1. CASE Cardinality(hubs) = 2
    <3>1. between = {x \in hubs \X hubs : x[1] # x[2]}
      BY <2>1
    <3> QED
      BY <3>1
  <2> QED
    BY <2>1
<1> HIDE DEF between
<1>8. \A x \in CliqueEdges(S) : x = <<x[1], x[2]>> /\ IsEnd(x[1], S) /\ IsEnd(x[2], S)
  BY <1>1, <1>3, <1>5
<1>9. \A k \in S : NodeNs(k) \in Several(S) => <<StarOf(S, NodeNs(k)), Node(k)>> \in CliqueEdges(S)
  BY <1>1, <1>4
<1>10. /\ Cardinality(hubs) > 2 => \A h \in hubs : <<h, <<"clique_star", S>>>> \in CliqueEdges(S)
       /\ Cardinality(hubs) = 2 => \A h, i \in hubs : h # i => <<h, i>> \in CliqueEdges(S)
  BY <1>1, <1>6, <1>7
<1> QED
  BY <1>8, <1>9, <1>10 DEF hubs

\* The edges of the cliques of a set, and their ends.
OfCliques(B) == UNION {CliqueEdges(S) : S \in B}
LEMMA OfCliquesFit ==
  ASSUME NEW B
  PROVE  /\ IsRelation(OfCliques(B))
         /\ \A x \in OfCliques(B) : \E S \in B : IsEnd(x[1], S) /\ IsEnd(x[2], S)
         /\ \A v \in StarsOf(OfCliques(B)) : v[1] # "node" /\ \E S : IsStar(v, S)
<1>1. \A x \in OfCliques(B) : \E S \in B : x \in CliqueEdges(S)
  BY DEF OfCliques
<1>2. \A x \in OfCliques(B) : x = <<x[1], x[2]>> /\ \E S \in B : IsEnd(x[1], S) /\ IsEnd(x[2], S)
  BY <1>1, CliqueEdgesFit
<1>3. ASSUME NEW v \in StarsOf(OfCliques(B)) PROVE v[1] # "node" /\ \E S : IsStar(v, S)
  <2>1. PICK x \in OfCliques(B) : v = x[1] \/ v = x[2]
    BY DEF StarsOf, Sources, Targets
  <2>2. PICK S \in B : IsEnd(v, S)
    BY <1>2, <2>1
  <2>3. v[1] # "node"
    BY DEF StarsOf
  <2> QED
    BY <2>2, <2>3, StarsFit DEF IsEnd
<1> QED
  BY <1>2, <1>3 DEF IsRelation

\* Two ends of an edge, in either direction.
Linked(rel, v, w) == <<v, w>> \in rel \/ <<w, v>> \in rel

\* An end of an edge that is no node is a star.
LEMMA LinkedStars ==
  ASSUME NEW rel, IsRelation(rel), NEW v, NEW w, Linked(rel, v, w)
  PROVE  /\ v[1] # "node" => v \in StarsOf(rel)
         /\ w[1] # "node" => w \in StarsOf(rel)
<1>1. \E x \in rel : (x[1] = v /\ x[2] = w) \/ (x[1] = w /\ x[2] = v)
  BY DEF Linked
<1> QED
  BY <1>1 DEF StarsOf, Sources, Targets

\* What is around a star or a node.
LEMMA AroundFits ==
  ASSUME IsRelation(cliqued), NEW v, NEW w
  PROVE  w \in Around(v) <=> Linked(cliqued, v, w)
<1>1. \A y : y \in Flip(cliqued) <=> \E x \in cliqued : y = <<x[2], x[1]>>
  BY DEF Flip
<1>2. w \in Around(v) <=> \E y \in cliqued \cup Flip(cliqued) : y[1] = v /\ y[2] = w
  BY DEF Around
<1>3. (\E y \in cliqued : y[1] = v /\ y[2] = w) <=> <<v, w>> \in cliqued
  BY DEF IsRelation
<1>4. (\E y \in Flip(cliqued) : y[1] = v /\ y[2] = w) <=> <<w, v>> \in cliqued
  <2>1. ASSUME NEW y \in Flip(cliqued), y[1] = v, y[2] = w PROVE <<w, v>> \in cliqued
    <3>1. PICK x \in cliqued : y = <<x[2], x[1]>>
      BY <1>1
    <3>2. x[2] = v /\ x[1] = w /\ x = <<x[1], x[2]>>
      BY <2>1, <3>1 DEF IsRelation
    <3> QED
      BY <3>2
  <2>2. ASSUME <<w, v>> \in cliqued PROVE <<v, w>> \in Flip(cliqued)
    <3> DEFINE x == <<w, v>>
    <3>1. x \in cliqued /\ <<v, w>> = <<x[2], x[1]>>
      BY <2>2
    <3> HIDE DEF x
    <3> QED
      BY <1>1, <3>1
  <2> QED
    BY <2>1, <2>2
<1> QED
  BY <1>2, <1>3, <1>4 DEF Linked

\* From a node to another over at most three stars.
IsChain(rel, stars, n, m, s, t, u) ==
  /\ s \in stars /\ Linked(rel, Node(n), s)
  /\ t \in stars /\ (t = s \/ Linked(rel, s, t))
  /\ u \in stars /\ (u = t \/ Linked(rel, t, u))
  /\ Linked(rel, u, Node(m))

\* The stars of what is drawn.
DrawnStars == {x[1] : x \in {y \in starLabels : y[2] = drawing}}

\* That is how a clique is read.
LEMMA ReadingIsChain ==
  ASSUME IsRelation(cliqued), IsRelation(starLabels), NEW n, NEW m
  PROVE  m \in CliqueReading(n) <=>
           /\ m \in Representatives /\ m # n
           /\ \E s, t, u : IsChain(cliqued, DrawnStars, n, m, s, t, u)
<1> DEFINE stars == Stars(Around(Node(n)))
           joined == stars \cup UNION {Stars(Around(s)) : s \in stars}
           all == joined \cup UNION {Stars(Around(s)) : s \in joined}
           ends == UNION {Around(s) : s \in all}
<1>1. CliqueReading(n) = {k \in Representatives : k # n /\ Node(k) \in ends}
  BY DEF CliqueReading
<1>0. \A v : <<v, drawing>> \in starLabels <=> v \in DrawnStars
  BY DEF DrawnStars, IsRelation
<1>2. \A v : v \in stars <=> v \in DrawnStars /\ v \in Around(Node(n))
  BY <1>0 DEF Stars
<1> HIDE DEF stars
<1>3. \A v : v \in joined <=> v \in stars \/ \E s \in stars : v \in DrawnStars /\ v \in Around(s)
  BY <1>0 DEF Stars
<1> HIDE DEF joined
<1>4. \A v : v \in all <=> v \in joined \/ \E s \in joined : v \in DrawnStars /\ v \in Around(s)
  BY <1>0 DEF Stars
<1> HIDE DEF all
<1>5. \A v : v \in ends <=> \E s \in all : v \in Around(s)
  OBVIOUS
<1> HIDE DEF ends
<1>6. \A t : t \in joined <=>
               /\ t \in DrawnStars
               /\ \E s : s \in DrawnStars /\ s \in Around(Node(n)) /\ (t = s \/ t \in Around(s))
  BY <1>2, <1>3
<1>7. \A u : u \in all <=> u \in DrawnStars /\ \E t \in joined : u = t \/ u \in Around(t)
  BY <1>4, <1>6
<1>8. \A v, w : w \in Around(v) <=> Linked(cliqued, v, w)
  BY AroundFits
<1>9. Node(m) \in ends <=> \E s, t, u : IsChain(cliqued, DrawnStars, n, m, s, t, u)
  BY <1>5, <1>6, <1>7, <1>8 DEF IsChain
<1> QED
  BY <1>1, <1>9

\* A chain over the stars of cliques is in one clique.
LEMMA ChainsAreInCliques ==
  ASSUME NEW B, NEW n, NEW m, NEW s, NEW t, NEW u,
         IsChain(OfCliques(B), StarsOf(OfCliques(B)), n, m, s, t, u)
  PROVE  \E S \in B : n \in S /\ m \in S
<1> DEFINE R == OfCliques(B)
<1>1. ASSUME NEW v, NEW w, Linked(R, v, w) PROVE \E S \in B : IsEnd(v, S) /\ IsEnd(w, S)
  <2>1. \E x \in R : (x[1] = v /\ x[2] = w) \/ (x[1] = w /\ x[2] = v)
    BY <1>1 DEF Linked
  <2> QED
    BY <2>1, OfCliquesFit
<1>2. ASSUME NEW v \in StarsOf(R), NEW S, IsEnd(v, S) PROVE v[2] = S
  BY <1>2, OfCliquesFit, StarsFit DEF IsEnd
<1>3. ASSUME NEW k, NEW S, IsEnd(Node(k), S) PROVE k \in S
  <2>1. Node(k)[1] = "node" /\ \A l : Node(k) = Node(l) => k = l
    BY StarsFit
  <2> QED
    BY <1>3, <2>1, StarsFit DEF IsEnd
<1> HIDE DEF R
<1>4. /\ s \in StarsOf(R) /\ Linked(R, Node(n), s)
      /\ t \in StarsOf(R) /\ (t = s \/ Linked(R, s, t))
      /\ u \in StarsOf(R) /\ (u = t \/ Linked(R, t, u))
      /\ Linked(R, u, Node(m))
  BY DEF IsChain, R
<1>5. PICK S \in B : IsEnd(Node(n), S) /\ IsEnd(s, S)
  BY <1>1, <1>4
<1>6. s[2] = S /\ n \in S
  BY <1>2, <1>3, <1>4, <1>5
<1>7. t[2] = S
  BY <1>1, <1>2, <1>4, <1>6
<1>8. u[2] = S
  BY <1>1, <1>2, <1>4, <1>7
<1>9. PICK T \in B : IsEnd(u, T) /\ IsEnd(Node(m), T)
  BY <1>1, <1>4
<1>10. T = S /\ m \in T
  BY <1>2, <1>3, <1>4, <1>8, <1>9
<1> QED
  BY <1>6, <1>10

\* Every two nodes of a clique are joined: over the star of their namespace, over the
\* star of the clique, or over the one or two stars that are joined.
LEMMA CliquesAreChains ==
  ASSUME NEW B, NEW S \in B, IsFiniteSet(S), Cardinality(S) > 2, NEW n \in S, NEW m \in S, n # m
  PROVE  \E s, t, u : IsChain(OfCliques(B), StarsOf(OfCliques(B)), n, m, s, t, u)
<1> DEFINE R == OfCliques(B)
           stars == StarsOf(R)
           c == <<"clique_star", S>>
           v == Hub(S, n)
           w == Hub(S, m)
<1>1. CliqueEdges(S) \subseteq R /\ IsRelation(R)
  BY OfCliquesFit DEF OfCliques
<1> HIDE DEF R
<1>2. \A x, y : <<x, y>> \in CliqueEdges(S) =>
                  /\ Linked(R, x, y) /\ Linked(R, y, x)
                  /\ (x[1] # "node" => x \in stars) /\ (y[1] # "node" => y \in stars)
  BY <1>1, LinkedStars DEF Linked
<1> HIDE DEF stars
<1>3. ASSUME NEW k \in S
      PROVE  \/ Hub(S, k) = Node(k) /\ NodeNs(k) \notin Several(S)
             \/ Hub(S, k) \in stars /\ Linked(R, Node(k), Hub(S, k)) /\ Linked(R, Hub(S, k), Node(k))
  <2>1. CASE NodeNs(k) \in Several(S)
    <3>1. <<StarOf(S, NodeNs(k)), Node(k)>> \in CliqueEdges(S)
      BY <2>1, CliqueEdgesFit
    <3>2. StarOf(S, NodeNs(k))[1] # "node"
      BY DEF StarOf
    <3>3. Hub(S, k) = StarOf(S, NodeNs(k))
      BY <2>1 DEF Hub
    <3> QED
      BY <1>2, <3>1, <3>2, <3>3
  <2>2. CASE NodeNs(k) \notin Several(S)
    BY <2>2 DEF Hub
  <2> QED
    BY <2>1, <2>2
<1>4. /\ \A k, l : Node(k) = Node(l) => k = l
      /\ \A k, ns : Node(k) # StarOf(S, ns)
  <2>1. \A k : Node(k)[1] = "node"
    BY StarsFit
  <2>2. \A ns : StarOf(S, ns)[1] = "namespace_star"
    BY DEF StarOf
  <2> QED
    BY <2>1, <2>2, StarsFit
<1>5. v \in Hubs(S) /\ w \in Hubs(S)
  BY HubsFit
<1>6. IsFiniteSet(Hubs(S))
  <2> DEFINE f == [k \in S |-> Hub(S, k)]
  <2>1. f \in Surjection(S, Hubs(S))
    <3>1. \A h \in Hubs(S) : \E k \in S : f[k] = h
      BY HubsFit
    <3>2. f \in [S -> Hubs(S)]
      BY HubsFit
    <3> QED
      BY <3>1, <3>2 DEF Surjection
  <2> HIDE DEF f
  <2> QED
    BY <2>1, FS_Surjection
<1>7. c[1] # "node"
  OBVIOUS
<1> HIDE DEF c, v, w
<1>8. /\ v = Node(n) \/ (v \in stars /\ Linked(R, Node(n), v) /\ Linked(R, v, Node(n)))
      /\ w = Node(m) \/ (w \in stars /\ Linked(R, Node(m), w) /\ Linked(R, w, Node(m)))
  BY <1>3 DEF v, w
<1>9. CASE v = w
  <2>1. v \in stars /\ Linked(R, Node(n), v) /\ Linked(R, v, Node(m))
    <3>1. v # Node(n) \/ w # Node(m)
      BY <1>4, <1>9
    <3>2. v # Node(m) /\ w # Node(n)
      <4>1. \A k, l \in S : Hub(S, k) = Node(l) => k = l
        BY <1>4 DEF Hub
      <4> QED
        BY <4>1 DEF v, w
    <3> QED
      BY <1>8, <1>9, <3>1, <3>2
  <2>2. IsChain(R, stars, n, m, v, v, v)
    BY <2>1 DEF IsChain
  <2> QED
    BY <2>2 DEF R, stars
<1>10. CASE v # w /\ Cardinality(Hubs(S)) > 2
  <2>1. c \in stars /\ Linked(R, v, c) /\ Linked(R, c, v) /\ Linked(R, w, c) /\ Linked(R, c, w)
    <3>1. <<v, c>> \in CliqueEdges(S) /\ <<w, c>> \in CliqueEdges(S)
      BY <1>5, <1>10, CliqueEdgesFit DEF c
    <3> QED
      BY <1>2, <1>7, <3>1
  <2>2. PICK s : s \in stars /\ Linked(R, Node(n), s) /\ (c = s \/ Linked(R, s, c))
    BY <1>8, <2>1
  <2>3. PICK u : u \in stars /\ (u = c \/ Linked(R, c, u)) /\ Linked(R, u, Node(m))
    BY <1>8, <2>1
  <2>4. IsChain(R, stars, n, m, s, c, u)
    BY <2>1, <2>2, <2>3 DEF IsChain
  <2> QED
    BY <2>4 DEF R, stars
<1>11. CASE v # w /\ Cardinality(Hubs(S)) = 2
  <2>1. Linked(R, v, w)
    BY <1>2, <1>5, <1>11, CliqueEdgesFit
  <2>2. ~(v = Node(n) /\ w = Node(m))
    <3> SUFFICES ASSUME v = Node(n), w = Node(m) PROVE FALSE
      OBVIOUS
    <3>1. Hubs(S) = {v, w}
      BY <1>5, <1>6, <1>11, TwoElements
    <3>2. ASSUME NEW k \in S PROVE k \in {n, m}
      <4>1. Hub(S, k) \in {Node(n), Node(m)}
        BY <3>1, HubsFit
      <4>2. Hub(S, k) = Node(k)
        BY <1>4, <4>1 DEF Hub
      <4> QED
        BY <4>1, <4>2, <1>4
    <3>3. S = {n, m}
      BY <3>2
    <3>4. Cardinality(S) = 2
      BY <3>3, TwoElements
    <3> QED
      BY <3>4
  <2>3. CASE v # Node(n) /\ w # Node(m)
    <3>1. IsChain(R, stars, n, m, v, w, w)
      BY <1>8, <2>1, <2>3 DEF IsChain
    <3> QED
      BY <3>1 DEF R, stars
  <2>4. CASE v # Node(n) /\ w = Node(m)
    <3>1. IsChain(R, stars, n, m, v, v, v)
      BY <1>8, <2>1, <2>4 DEF IsChain
    <3> QED
      BY <3>1 DEF R, stars
  <2>5. CASE v = Node(n) /\ w # Node(m)
    <3>1. IsChain(R, stars, n, m, w, w, w)
      BY <1>8, <2>1, <2>5 DEF IsChain
    <3> QED
      BY <3>1 DEF R, stars
  <2> QED
    BY <2>2, <2>3, <2>4, <2>5
<1>12. v # w => Cardinality(Hubs(S)) \in Nat /\ Cardinality(Hubs(S)) >= 2
  BY <1>5, <1>6, TwoElements
<1> QED
  BY <1>9, <1>10, <1>11, <1>12

\* The nodes are finitely many.
LEMMA NodesAreFinite == IsFiniteSet(Nodes)
<1>1. IsFiniteSet(Named) /\ IsFiniteSet(Ips)
  BY PeersAssumption
<1>2. IsFiniteSet(SUBSET Ips)
  BY <1>1, FS_SUBSET
<1> QED
  BY <1>1, <1>2, FS_Union DEF Nodes
-----------------------------------------------------------------------------
(***************************************************************************)
(* The stars under their names.                                            *)
(***************************************************************************)
\* The names of the stars of one set of connections are different.
LEMMA NamesFit ==
  ASSUME NEW stars, NEW num \in Numberings(stars), NEW c,
         \A v \in stars : \E S : IsStar(v, S)
  PROVE  /\ \A n : NameOf(num, c, Node(n)) = Node(n)
         /\ \A v \in stars : NameOf(num, c, v)[1] \in {"clique", "clique_of"}
         /\ \A v, w \in stars : NameOf(num, c, v) = NameOf(num, c, w) => v = w
<1>1. ASSUME NEW v \in stars
      PROVE  \/ v[1] = "namespace_star" /\ NameOf(num, c, v) = <<"clique", num[v]>>
             \/ v[1] = "clique_star" /\ NameOf(num, c, v) = <<"clique_of", c, num[v]>>
  BY StarsFit DEF NameOf
<1>2. \A v, w \in stars : num[v] = num[w] => v = w
  BY DEF Numberings, Injection, IsInjective
<1>3. ASSUME NEW v \in stars, NEW w \in stars, NameOf(num, c, v) = NameOf(num, c, w) PROVE v = w
  <2>1. CASE v[1] = "namespace_star"
    <3>1. NameOf(num, c, v) = <<"clique", num[v]>>
      BY <1>1, <2>1
    <3>2. NameOf(num, c, v)[1] = "clique" /\ NameOf(num, c, v)[2] = num[v]
      BY <3>1
    <3>3. NameOf(num, c, w) = <<"clique", num[w]>>
      BY <1>1, <1>3, <3>2
    <3>4. NameOf(num, c, w)[2] = num[w]
      BY <3>3
    <3> QED
      BY <1>2, <1>3, <3>2, <3>4
  <2>2. CASE v[1] = "clique_star"
    <3>1. NameOf(num, c, v) = <<"clique_of", c, num[v]>>
      BY <1>1, <2>2
    <3>2. NameOf(num, c, v)[1] = "clique_of" /\ NameOf(num, c, v)[3] = num[v]
      BY <3>1
    <3>3. NameOf(num, c, w) = <<"clique_of", c, num[w]>>
      BY <1>1, <1>3, <3>2
    <3>4. NameOf(num, c, w)[3] = num[w]
      BY <3>3
    <3> QED
      BY <1>2, <1>3, <3>2, <3>4
  <2> QED
    BY <1>1, <2>1, <2>2
<1>4. \A n : NameOf(num, c, Node(n)) = Node(n)
  BY StarsFit DEF NameOf
<1> QED
  BY <1>1, <1>3, <1>4

\* An end of an edge of connections drawn before.
IsOther(v) == (\E n : v = Node(n)) \/ \E y \in starLabels : y[1] = v /\ y[2] # drawing
\* The edges rel of the cliques are drawn under their names, among those drawn before.
Picture(rel, num) ==
  /\ num \in Numberings(StarsOf(rel))
  /\ \A x \in rel : <<NameOf(num, drawing, x[1]), NameOf(num, drawing, x[2])>> \in cliqued
  /\ \A v \in StarsOf(rel) : NameOf(num, drawing, v) \in DrawnStars
  /\ \A s \in DrawnStars : \E v \in StarsOf(rel) : s = NameOf(num, drawing, v)
  /\ \A x \in cliqued :
       \/ \E y \in rel : x = <<NameOf(num, drawing, y[1]), NameOf(num, drawing, y[2])>>
       \/ IsOther(x[1]) /\ IsOther(x[2])

\* A chain of stars is one of their names,
LEMMA ChainsAreDrawn ==
  ASSUME NEW B, NEW num, Picture(OfCliques(B), num), NEW n, NEW m,
         \E s, t, u : IsChain(OfCliques(B), StarsOf(OfCliques(B)), n, m, s, t, u)
  PROVE  \E s, t, u : IsChain(cliqued, DrawnStars, n, m, s, t, u)
<1> DEFINE R == OfCliques(B)
           N(v) == NameOf(num, drawing, v)
<1>0. \A v \in StarsOf(R) : \E S : IsStar(v, S)
  BY OfCliquesFit
<1>1. N(Node(n)) = Node(n) /\ N(Node(m)) = Node(m)
  BY <1>0, NamesFit DEF Picture
<1>2. /\ \A x \in R : <<N(x[1]), N(x[2])>> \in cliqued
      /\ \A v \in StarsOf(R) : N(v) \in DrawnStars
  BY DEF Picture
<1> HIDE DEF R, N
<1>3. ASSUME NEW v, NEW w, Linked(R, v, w) PROVE Linked(cliqued, N(v), N(w))
  <2>1. CASE <<v, w>> \in R
    <3> DEFINE x == <<v, w>>
    <3>1. x \in R /\ x[1] = v /\ x[2] = w
      BY <2>1
    <3> HIDE DEF x
    <3> QED
      BY <1>2, <3>1 DEF Linked
  <2>2. CASE <<w, v>> \in R
    <3> DEFINE x == <<w, v>>
    <3>1. x \in R /\ x[1] = w /\ x[2] = v
      BY <2>2
    <3> HIDE DEF x
    <3> QED
      BY <1>2, <3>1 DEF Linked
  <2> QED
    BY <1>3, <2>1, <2>2 DEF Linked
<1>4. PICK s, t, u : IsChain(R, StarsOf(R), n, m, s, t, u)
  BY DEF R
<1>5. IsChain(cliqued, DrawnStars, n, m, N(s), N(t), N(u))
  BY <1>1, <1>2, <1>3, <1>4 DEF IsChain
<1> QED
  BY <1>5

\* and a chain of names is one of their stars, if no name is one of other connections.
LEMMA DrawnChainsAreChains ==
  ASSUME NEW B, NEW num, Picture(OfCliques(B), num), NamesApart, NEW n, NEW m,
         \E s, t, u : IsChain(cliqued, DrawnStars, n, m, s, t, u)
  PROVE  \E s, t, u : IsChain(OfCliques(B), StarsOf(OfCliques(B)), n, m, s, t, u)
<1> DEFINE R == OfCliques(B)
           N(v) == NameOf(num, drawing, v)
           InPicture(v) == (\E k : v = Node(k)) \/ v \in StarsOf(R)
<1>0. \A v \in StarsOf(R) : \E S : IsStar(v, S)
  BY OfCliquesFit
<1>1. /\ \A k : N(Node(k)) = Node(k)
      /\ \A v \in StarsOf(R) : N(v)[1] \in {"clique", "clique_of"}
      /\ \A v, w \in StarsOf(R) : N(v) = N(w) => v = w
  BY <1>0, NamesFit DEF Picture
<1>2. /\ \A s \in DrawnStars : \E v \in StarsOf(R) : s = N(v)
      /\ \A x \in cliqued : \/ \E y \in R : x = <<N(y[1]), N(y[2])>>
                            \/ IsOther(x[1]) /\ IsOther(x[2])
  BY DEF Picture
<1>3. \A y \in R : y = <<y[1], y[2]>> /\ InPicture(y[1]) /\ InPicture(y[2])
  <2> SUFFICES ASSUME NEW y \in R PROVE y = <<y[1], y[2]>> /\ InPicture(y[1]) /\ InPicture(y[2])
    OBVIOUS
  <2>1. y = <<y[1], y[2]>> /\ \E S \in B : IsEnd(y[1], S) /\ IsEnd(y[2], S)
    BY OfCliquesFit DEF IsRelation
  <2>2. \A v : v = y[1] \/ v = y[2] => v[1] = "node" \/ v \in StarsOf(R)
    BY DEF StarsOf, Sources, Targets
  <2>3. \A v, S : IsEnd(v, S) => (\E k : v = Node(k)) \/ v[1] # "node"
    BY StarsFit DEF IsEnd
  <2> QED
    BY <2>1, <2>2, <2>3
<1> HIDE DEF R, N
<1>4. \A v, w : InPicture(v) /\ InPicture(w) /\ N(v) = N(w) => v = w
  <2>1. \A k : Node(k)[1] = "node"
    BY StarsFit
  <2>2. \A k, v : v \in StarsOf(R) => N(v) # Node(k)
    BY <1>1, <2>1
  <2> QED
    BY <1>1, <2>2
<1>5. \A s \in DrawnStars : ~IsOther(s)
  <2> SUFFICES ASSUME NEW s \in DrawnStars PROVE ~IsOther(s)
    OBVIOUS
  <2>1. PICK y \in starLabels : y[1] = s /\ y[2] = drawing
    BY DEF DrawnStars
  <2>2. \A k : Node(k)[1] = "node"
    BY StarsFit
  <2>3. s[1] # "node"
    BY <1>1, <1>2
  <2> QED
    BY <2>1, <2>2, <2>3 DEF IsOther, NamesApart
<1> HIDE DEF InPicture
<1>6. ASSUME NEW v, NEW w, InPicture(v), InPicture(w), N(v) \in DrawnStars \/ N(w) \in DrawnStars,
             Linked(cliqued, N(v), N(w))
      PROVE  Linked(R, v, w)
  <2>1. ASSUME NEW a, NEW b, InPicture(a), InPicture(b), <<N(a), N(b)>> \in cliqued,
               N(a) \in DrawnStars \/ N(b) \in DrawnStars
        PROVE  <<a, b>> \in R
    <3>1. PICK y \in R : <<N(a), N(b)>> = <<N(y[1]), N(y[2])>>
      <4> DEFINE x == <<N(a), N(b)>>
      <4>1. x \in cliqued /\ x[1] = N(a) /\ x[2] = N(b)
        BY <2>1
      <4> HIDE DEF x
      <4>2. ~(IsOther(x[1]) /\ IsOther(x[2]))
        BY <1>5, <2>1, <4>1
      <4>3. \E y \in R : x = <<N(y[1]), N(y[2])>>
        BY <1>2, <4>1, <4>2
      <4> QED
        BY <4>3 DEF x
    <3>2. N(a) = N(y[1]) /\ N(b) = N(y[2])
      BY <3>1
    <3>3. a = y[1] /\ b = y[2] /\ y = <<y[1], y[2]>>
      BY <1>3, <1>4, <2>1, <3>2
    <3> QED
      BY <3>3
  <2> QED
    BY <1>6, <2>1 DEF Linked
<1>7. PICK p, q, r : IsChain(cliqued, DrawnStars, n, m, p, q, r)
  OBVIOUS
<1>8. PICK s, t, u : /\ s \in StarsOf(R) /\ p = N(s)
                     /\ t \in StarsOf(R) /\ q = N(t)
                     /\ u \in StarsOf(R) /\ r = N(u)
  BY <1>2, <1>7 DEF IsChain
<1>9. /\ InPicture(s) /\ InPicture(t) /\ InPicture(u) /\ InPicture(Node(n)) /\ InPicture(Node(m))
      /\ Node(n) = N(Node(n)) /\ Node(m) = N(Node(m))
  BY <1>1, <1>8 DEF InPicture
<1>10. /\ Linked(R, Node(n), s)
       /\ t = s \/ Linked(R, s, t)
       /\ u = t \/ Linked(R, t, u)
       /\ Linked(R, u, Node(m))
  <2>1. Linked(R, Node(n), s)
    BY <1>6, <1>7, <1>8, <1>9 DEF IsChain
  <2>2. t = s \/ Linked(R, s, t)
    BY <1>4, <1>6, <1>7, <1>8, <1>9 DEF IsChain
  <2>3. u = t \/ Linked(R, t, u)
    BY <1>4, <1>6, <1>7, <1>8, <1>9 DEF IsChain
  <2>4. Linked(R, u, Node(m))
    BY <1>6, <1>7, <1>8, <1>9 DEF IsChain
  <2> QED
    BY <2>1, <2>2, <2>3, <2>4
<1>11. IsChain(R, StarsOf(R), n, m, s, t, u)
  BY <1>8, <1>10 DEF IsChain
<1> QED
  BY <1>11 DEF R

-----------------------------------------------------------------------------
(***************************************************************************)
(* A drawing is read as what was to be drawn.                              *)
(***************************************************************************)
\* What is drawn without cliques.
Direct == plain \cup directed \cup (UNION {b[1] \X b[2] : b \in bicliques})
\* The edges of a drawing are between nodes and stars that have been drawn, and those not
\* drawn yet have no star.  While connections are drawn, the cliques of their edges are
\* drawn as stars, and the other edges are drawn or still to be drawn.
IsDrawn(v) == (\E n : v = Node(n)) \/ \E y \in starLabels : y[1] = v
GraphInv ==
  /\ \A y \in starLabels : y = <<y[1], y[2]>> /\ y[2] \notin undrawn
  /\ \A x \in cliqued : x = <<x[1], x[2]>> /\ IsDrawn(x[1]) /\ IsDrawn(x[2])
  /\ drawing # NotDrawing =>
       LET all == NodeEdges(drawing)
           rel == Mutual(all)
       IN  /\ \E num : Picture(OfCliques(BigCliques(rel)), num)
           /\ Direct \subseteq all
           /\ all \subseteq Direct \cup InCliques(rel)

\* The edges of connections between nodes.
LEMMA NodeEdgesOne ==
  ASSUME AreEdges(edges), NEW c, NEW n \in Representatives, NEW m \in Representatives, n # m
  PROVE  <<n, m>> \in NodeEdges(c) <=> <<n, m, c>> \in edges
<1> DEFINE all == {<<e[1], e[2]>> : e \in {f \in edges : f[3] = c /\ f[1] # f[2]}}
<1>1. NodeEdges(c) = all \cap (Representatives \X Representatives)
  BY DEF NodeEdges
<1>2. <<n, m>> \in all <=> <<n, m, c>> \in edges
  <2>1. ASSUME <<n, m>> \in all PROVE <<n, m, c>> \in edges
    <3>1. PICK e \in edges : e[3] = c /\ <<n, m>> = <<e[1], e[2]>>
      BY <2>1
    <3>2. e = <<n, m, c>>
      BY <3>1 DEF AreEdges
    <3> QED
      BY <3>2
  <2>2. ASSUME <<n, m, c>> \in edges PROVE <<n, m>> \in all
    <3> DEFINE e == <<n, m, c>>
    <3>1. e \in edges /\ e[3] = c /\ e[1] # e[2] /\ <<n, m>> = <<e[1], e[2]>>
      BY <2>2
    <3> HIDE DEF e
    <3> QED
      BY <3>1
  <2> QED
    BY <2>1, <2>2
<1> QED
  BY <1>1, <1>2

\* They are pairs of different nodes.
LEMMA NodeEdgesFit ==
  ASSUME AreEdges(edges), NEW c
  PROVE  /\ IsRelation(NodeEdges(c))
         /\ \A x \in NodeEdges(c) : /\ x[1] \in Representatives /\ x[2] \in Representatives /\ x[1] # x[2]
                                    /\ x[1] \in Nodes /\ x[2] \in Nodes
<1>1. ASSUME NEW x \in NodeEdges(c)
      PROVE  /\ x = <<x[1], x[2]>> /\ x[1] \in Representatives /\ x[2] \in Representatives /\ x[1] # x[2]
             /\ x[1] \in Nodes /\ x[2] \in Nodes
  <2>1. PICK e \in edges : e[1] # e[2] /\ x = <<e[1], e[2]>> /\ x \in Representatives \X Representatives
    BY DEF NodeEdges
  <2> QED
    BY <2>1 DEF AreEdges
<1> QED
  BY <1>1 DEF IsRelation

\* Edges in both directions.
LEMMA MutualOne ==
  ASSUME NEW rel, IsRelation(rel), NEW n, NEW m
  PROVE  <<n, m>> \in Mutual(rel) <=> <<n, m>> \in rel /\ <<m, n>> \in rel
<1>1. <<n, m>> \in Flip(rel) <=> <<m, n>> \in rel
  <2>1. ASSUME <<n, m>> \in Flip(rel) PROVE <<m, n>> \in rel
    <3>1. PICK x \in rel : <<n, m>> = <<x[2], x[1]>>
      BY <2>1 DEF Flip
    <3>2. x = <<m, n>>
      BY <3>1 DEF IsRelation
    <3> QED
      BY <3>2
  <2>2. ASSUME <<m, n>> \in rel PROVE <<n, m>> \in Flip(rel)
    <3> DEFINE x == <<m, n>>
    <3>1. x \in rel /\ <<n, m>> = <<x[2], x[1]>>
      BY <2>2
    <3> HIDE DEF x
    <3> QED
      BY <3>1 DEF Flip
  <2> QED
    BY <2>1, <2>2
<1> QED
  BY <1>1 DEF Mutual

\* The big cliques are finite, have more than two nodes, and edges between any two.
LEMMA BigCliquesFit ==
  ASSUME AreEdges(edges), NEW c, NEW S \in BigCliques(Mutual(NodeEdges(c)))
  PROVE  /\ IsFiniteSet(S) /\ Cardinality(S) > 2 /\ S \subseteq Representatives
         /\ \A n, m \in S : n # m => <<n, m>> \in NodeEdges(c)
<1> DEFINE all == NodeEdges(c)
           rel == Mutual(all)
<1>1. S \subseteq Sources(rel) /\ IsClique(rel, S) /\ Cardinality(S) >= min_clique_size
  BY DEF BigCliques, MaximalCliques
<1>2. rel \subseteq all
  BY DEF Mutual
<1>3. \A n \in Sources(rel) : n \in Nodes /\ n \in Representatives
  BY <1>2, NodeEdgesFit DEF Sources
<1>4. IsFiniteSet(S)
  <2>1. S \subseteq Nodes
    BY <1>1, <1>3
  <2> QED
    BY <2>1, NodesAreFinite, FS_Subset
<1>5. Cardinality(S) > 2
  BY <1>1, <1>4, FS_CardinalityType, min_clique_sizeAssumption
<1>6. \A n, m \in S : n # m => <<n, m>> \in all
  BY <1>1, <1>2 DEF IsClique
<1> QED
  BY <1>1, <1>3, <1>4, <1>5, <1>6

\* What is read is what was to be drawn.
LEMMA ReadAsMeant ==
  ASSUME GraphInv, AreEdges(edges), drawing # NotDrawing,
         NEW n \in Representatives, NEW m \in Representatives, n # m
  PROVE  /\ <<n, m>> \in NodeEdges(drawing) => <<n, m>> \in Reading
         /\ NamesApart /\ <<n, m>> \in Reading => <<n, m>> \in NodeEdges(drawing)
<1> DEFINE all == NodeEdges(drawing)
           B == BigCliques(Mutual(all))
           Of(k) == {k} \X CliqueReading(k)
<1>1. /\ \E num : Picture(OfCliques(B), num)
      /\ Direct \subseteq all /\ all \subseteq Direct \cup InCliques(Mutual(all))
      /\ IsRelation(cliqued) /\ IsRelation(starLabels)
  BY DEF GraphInv, IsRelation
<1>2. <<n, m>> \in Reading <=> <<n, m>> \in Direct \/ m \in CliqueReading(n)
  <2>1. Reading = Direct \cup UNION {Of(k) : k \in Representatives}
    BY DEF Reading, Direct
  <2>2. \A k : <<n, m>> \in Of(k) <=> k = n /\ m \in CliqueReading(n)
    OBVIOUS
  <2> HIDE DEF Of
  <2> QED
    BY <2>1, <2>2
<1>3. ASSUME NEW S \in B
      PROVE  /\ IsFiniteSet(S) /\ Cardinality(S) > 2 /\ S \subseteq Representatives
             /\ \A k, l \in S : k # l => <<k, l>> \in all
  BY BigCliquesFit
<1> HIDE DEF all, B
<1>4. PICK num : Picture(OfCliques(B), num)
  BY <1>1
<1>5. ASSUME m \in CliqueReading(n), NamesApart PROVE <<n, m>> \in all
  <2>1. \E s, t, u : IsChain(cliqued, DrawnStars, n, m, s, t, u)
    BY <1>1, <1>5, ReadingIsChain
  <2>2. \E s, t, u : IsChain(OfCliques(B), StarsOf(OfCliques(B)), n, m, s, t, u)
    BY <1>4, <1>5, <2>1, DrawnChainsAreChains
  <2>3. PICK S \in B : n \in S /\ m \in S
    BY <2>2, ChainsAreInCliques
  <2> QED
    BY <1>3, <2>3
<1>6. ASSUME <<n, m>> \in InCliques(Mutual(all)) PROVE m \in CliqueReading(n)
  <2>1. PICK S \in B : <<n, m>> \in S \X S
    BY <1>6 DEF InCliques, B
  <2>2. n \in S /\ m \in S /\ IsFiniteSet(S) /\ Cardinality(S) > 2
    BY <1>3, <2>1
  <2>3. \E s, t, u : IsChain(OfCliques(B), StarsOf(OfCliques(B)), n, m, s, t, u)
    BY <2>2, CliquesAreChains
  <2>4. \E s, t, u : IsChain(cliqued, DrawnStars, n, m, s, t, u)
    BY <1>4, <2>3, ChainsAreDrawn
  <2> QED
    BY <1>1, <2>4, ReadingIsChain
<1> QED
  BY <1>1, <1>2, <1>5, <1>6 DEF all

\* The stars of other connections are drawn among those of earlier ones.
LEMMA DrawPictures ==
  ASSUME GraphInv, NEW c \in undrawn, NEW B, NEW num \in Numberings(StarsOf(OfCliques(B))),
         drawing' = c,
         cliqued' = cliqued \cup Renamed(OfCliques(B), num, c),
         starLabels' = starLabels \cup {<<NameOf(num, c, v), c>> : v \in StarsOf(OfCliques(B))}
  PROVE  /\ Picture(OfCliques(B), num)'
         /\ \A y \in starLabels' : y = <<y[1], y[2]>> /\ (y \in starLabels \/ y[2] = c)
         /\ \A x \in cliqued' : x = <<x[1], x[2]>> /\ IsDrawn(x[1])' /\ IsDrawn(x[2])'
<1> DEFINE R == OfCliques(B)
           stars == StarsOf(R)
           N(v) == NameOf(num, c, v)
<1>1. /\ \A y \in starLabels : y = <<y[1], y[2]>> /\ y[2] # c
      /\ \A x \in cliqued : x = <<x[1], x[2]>> /\ IsDrawn(x[1]) /\ IsDrawn(x[2])
  BY DEF GraphInv
<1>2. R' = R /\ stars' = stars /\ Numberings(stars)' = Numberings(stars)
  <2>1. R' = R
    BY DEF OfCliques, CliqueEdges, NodeNs, Node
  <2>2. stars' = stars
    BY <2>1 DEF StarsOf, Sources, Targets
  <2>3. Numberings(stars)' = Numberings(stars)
    BY <2>2 DEF Numberings
  <2> QED
    BY <2>1, <2>2, <2>3
<1>3. \A v : NameOf(num, drawing, v)' = N(v)
  BY DEF NameOf
<1>4. \A x \in R : (\E k : x[1] = Node(k)) \/ x[1] \in stars
  <2> SUFFICES ASSUME NEW x \in R PROVE (\E k : x[1] = Node(k)) \/ x[1] \in stars
    OBVIOUS
  <2>1. x[1] \in stars \/ x[1][1] = "node"
    BY DEF StarsOf, Sources
  <2>2. \E S \in B : IsEnd(x[1], S)
    BY OfCliquesFit
  <2> QED
    BY <2>1, <2>2, StarsFit DEF IsEnd
<1>5. \A x \in R : (\E k : x[2] = Node(k)) \/ x[2] \in stars
  <2> SUFFICES ASSUME NEW x \in R PROVE (\E k : x[2] = Node(k)) \/ x[2] \in stars
    OBVIOUS
  <2>1. x[2] \in stars \/ x[2][1] = "node"
    BY DEF StarsOf, Targets
  <2>2. \E S \in B : IsEnd(x[2], S)
    BY OfCliquesFit
  <2> QED
    BY <2>1, <2>2, StarsFit DEF IsEnd
<1>6. \A k : N(Node(k)) = Node(k)
  BY StarsFit DEF NameOf
<1> HIDE DEF R, stars, N
<1>7. \A y : y \in starLabels' <=> y \in starLabels \/ \E v \in stars : y = <<N(v), c>>
  BY DEF R, stars, N
<1>8. \A x : x \in cliqued' <=> x \in cliqued \/ \E y \in R : x = <<N(y[1]), N(y[2])>>
  BY DEF Renamed, R, N
<1>9. \A y \in starLabels' : y = <<y[1], y[2]>> /\ (y \in starLabels \/ y[2] = c)
  BY <1>1, <1>7
<1>10. \A s : s \in DrawnStars' <=> \E v \in stars : s = N(v)
  <2>1. \A s : s \in DrawnStars' <=> \E y \in starLabels' : y[1] = s /\ y[2] = c
    BY DEF DrawnStars
  <2>2. ASSUME NEW s, NEW y \in starLabels', y[1] = s, y[2] = c PROVE \E v \in stars : s = N(v)
    BY <1>1, <1>7, <2>2
  <2>3. ASSUME NEW v \in stars PROVE \E y \in starLabels' : y[1] = N(v) /\ y[2] = c
    <3> DEFINE y == <<N(v), c>>
    <3>1. y \in starLabels' /\ y[1] = N(v) /\ y[2] = c
      BY <1>7
    <3> HIDE DEF y
    <3> QED
      BY <3>1
  <2> QED
    BY <2>1, <2>2, <2>3
<1>11. \A v : IsDrawn(v) => IsDrawn(v)' /\ IsOther(v)'
  <2> SUFFICES ASSUME NEW v, IsDrawn(v) PROVE IsDrawn(v)' /\ IsOther(v)'
    OBVIOUS
  <2>1. IsDrawn(v)' <=> (\E n : v = Node(n)) \/ \E y \in starLabels' : y[1] = v
    BY DEF IsDrawn, Node
  <2>2. IsOther(v)' <=> (\E n : v = Node(n)) \/ \E y \in starLabels' : y[1] = v /\ y[2] # c
    BY DEF IsOther, Node
  <2>3. (\E n : v = Node(n)) \/ \E y \in starLabels : y[1] = v
    BY DEF IsDrawn
  <2> QED
    BY <1>1, <1>7, <2>1, <2>2, <2>3
<1>12. \A v : (\E k : v = Node(k)) \/ v \in stars => IsDrawn(N(v))'
  <2> SUFFICES ASSUME NEW v, (\E k : v = Node(k)) \/ v \in stars PROVE IsDrawn(N(v))'
    BY DEF N
  <2> DEFINE w == N(v)
  <2>1. (\E n : w = Node(n)) \/ w \in DrawnStars'
    BY <1>6, <1>10
  <2> HIDE DEF w
  <2>2. (\E n : w = Node(n)) \/ \E y \in starLabels' : y[1] = w
    BY <2>1 DEF DrawnStars
  <2>3. w' = w
    BY DEF w, N, NameOf
  <2> QED
    BY <2>2, <2>3 DEF IsDrawn, Node, w
<1>13. \A x \in cliqued' : x = <<x[1], x[2]>> /\ IsDrawn(x[1])' /\ IsDrawn(x[2])'
  <2> SUFFICES ASSUME NEW x \in cliqued' PROVE x = <<x[1], x[2]>> /\ IsDrawn(x[1])' /\ IsDrawn(x[2])'
    OBVIOUS
  <2>1. CASE x \in cliqued
    BY <1>1, <1>11, <2>1
  <2>2. CASE x \notin cliqued
    <3>1. PICK y \in R : x = <<N(y[1]), N(y[2])>>
      BY <1>8, <2>2
    <3>2. x = <<x[1], x[2]>> /\ x[1] = N(y[1]) /\ x[2] = N(y[2])
      BY <3>1
    <3> QED
      BY <1>4, <1>5, <1>12, <3>2
  <2> QED
    BY <2>1, <2>2
<1>14. /\ num \in Numberings(stars)
       /\ \A x \in R : <<N(x[1]), N(x[2])>> \in cliqued'
       /\ \A v \in stars : N(v) \in DrawnStars'
       /\ \A s \in DrawnStars' : \E v \in stars : s = N(v)
       /\ \A x \in cliqued' : \/ \E y \in R : x = <<N(y[1]), N(y[2])>>
                              \/ IsOther(x[1])' /\ IsOther(x[2])'
  BY <1>1, <1>8, <1>10, <1>11 DEF R, stars
<1>15. Picture(OfCliques(B), num)'
  BY <1>2, <1>3, <1>14 DEF Picture, R, stars
<1> QED
  BY <1>9, <1>13, <1>15

\* What is drawn starts with the cliques.
LEMMA DrawReads ==
  ASSUME GraphInv, NEW c, Draw(c)
  PROVE  GraphInv'
<1>0. PICK B : B = BigCliques(Mutual(NodeEdges(c)))
  OBVIOUS
<1>1. /\ drawing' = c /\ bicliques' = {} /\ plain' = {} /\ edges' = edges /\ groups' = groups
      /\ c \in undrawn /\ undrawn' = undrawn \ {c}
      /\ directed' = NodeEdges(c) \ InCliques(Mutual(NodeEdges(c)))
  BY DEF Draw
<1>2. PICK num \in Numberings(StarsOf(OfCliques(B))) :
        /\ cliqued' = cliqued \cup Renamed(OfCliques(B), num, c)
        /\ starLabels' = starLabels \cup {<<NameOf(num, c, v), c>> : v \in StarsOf(OfCliques(B))}
  BY <1>0 DEF Draw, OfCliques
<1>3. \A k : NodeEdges(k)' = NodeEdges(k)
  BY <1>1 DEF NodeEdges, Representatives
<1>4. NodeEdges(drawing)' = NodeEdges(c)
  BY <1>1, <1>3
<1>5. Direct' \subseteq NodeEdges(c) /\ NodeEdges(c) \subseteq Direct' \cup InCliques(Mutual(NodeEdges(c)))
  <2>1. Direct' = directed'
    BY <1>1 DEF Direct
  <2> QED
    BY <1>1, <2>1
<1>6. /\ Picture(OfCliques(B), num)'
      /\ \A y \in starLabels' : y = <<y[1], y[2]>> /\ (y \in starLabels \/ y[2] = c)
      /\ \A x \in cliqued' : x = <<x[1], x[2]>> /\ IsDrawn(x[1])' /\ IsDrawn(x[2])'
  BY <1>1, <1>2, DrawPictures
<1>7. \A y \in starLabels' : y = <<y[1], y[2]>> /\ y[2] \notin undrawn'
  BY <1>1, <1>6 DEF GraphInv
<1>8. BigCliques(Mutual(NodeEdges(drawing)))' = B
  BY <1>0, <1>4 DEF BigCliques, MaximalCliques, Mutual, Flip, IsClique, Sources
<1> QED
  BY <1>4, <1>5, <1>6, <1>7, <1>8 DEF GraphInv

\* A biclique has edges from all its sources to all its targets.
LEMMA BicliqueFits ==
  ASSUME NEW rel, IsRelation(rel), NEW b \in Bicliques(rel)
  PROVE  \A x \in b[1] \X b[2] : x \in rel
<1>1. PICK s \in Sources(rel) :
        b = <<{t \in Sources(rel) : From(rel, s) \subseteq From(rel, t)}, From(rel, s)>>
  BY DEF Bicliques
<1>2. ASSUME NEW x \in b[1] \X b[2] PROVE x \in rel
  <2>1. x = <<x[1], x[2]>> /\ x[1] \in b[1] /\ x[2] \in b[2]
    OBVIOUS
  <2>2. x[2] \in From(rel, x[1])
    BY <1>1, <2>1
  <2>3. PICK y \in rel : y[1] = x[1] /\ y[2] = x[2]
    BY <2>2 DEF From
  <2> QED
    BY <2>1, <2>3 DEF IsRelation
<1> QED
  BY <1>2

\* Steps that draw no clique.
LEMMA PicturesStay ==
  ASSUME UNCHANGED <<edges, groups, cliqued, starLabels, drawing>>
  PROVE  /\ NodeEdges(drawing)' = NodeEdges(drawing)
         /\ (\E num : Picture(OfCliques(BigCliques(Mutual(NodeEdges(drawing)))), num))'
              <=> \E num : Picture(OfCliques(BigCliques(Mutual(NodeEdges(drawing)))), num)
         /\ (\A x \in cliqued : x = <<x[1], x[2]>> /\ IsDrawn(x[1]) /\ IsDrawn(x[2]))'
              <=> \A x \in cliqued : x = <<x[1], x[2]>> /\ IsDrawn(x[1]) /\ IsDrawn(x[2])
<1>1. NodeEdges(drawing)' = NodeEdges(drawing)
  BY DEF NodeEdges, Representatives
<1>2. PICK R : R = OfCliques(BigCliques(Mutual(NodeEdges(drawing))))
  OBVIOUS
<1>3. OfCliques(BigCliques(Mutual(NodeEdges(drawing))))' = R
  <2>1. PICK rel : rel = NodeEdges(drawing)
    OBVIOUS
  <2>2. NodeEdges(drawing)' = rel
    BY <1>1, <2>1
  <2>3. OfCliques(BigCliques(Mutual(NodeEdges(drawing))))' = OfCliques(BigCliques(Mutual(rel)))
    BY <2>2
  <2> QED
    BY <1>2, <2>1, <2>3
<1>4. \A num : Picture(R, num)' <=> Picture(R, num)
  BY DEF Picture, IsOther, DrawnStars, NameOf, StarsOf, Sources, Targets, Numberings
<1>5. \A v : IsDrawn(v)' <=> IsDrawn(v)
  BY DEF IsDrawn
<1> QED
  BY <1>1, <1>2, <1>3, <1>4, <1>5

\* Then the invariant stays, if the edges without cliques do.
LEMMA GraphInvKept ==
  ASSUME GraphInv, UNCHANGED <<edges, groups, cliqued, starLabels, drawing, undrawn>>, Direct' = Direct
  PROVE  GraphInv'
<1>1. (\A y \in starLabels : y = <<y[1], y[2]>> /\ y[2] \notin undrawn)'
  BY DEF GraphInv
<1>2. (\A x \in cliqued : x = <<x[1], x[2]>> /\ IsDrawn(x[1]) /\ IsDrawn(x[2]))'
  BY PicturesStay DEF GraphInv
<1>3. ASSUME drawing # NotDrawing
      PROVE  /\ (\E num : Picture(OfCliques(BigCliques(Mutual(NodeEdges(drawing)))), num))'
             /\ Direct' \subseteq NodeEdges(drawing)'
             /\ NodeEdges(drawing)' \subseteq Direct' \cup InCliques(Mutual(NodeEdges(drawing)'))
  BY <1>3, PicturesStay DEF GraphInv
<1> QED
  BY <1>1, <1>2, <1>3 DEF GraphInv

\* Its edges are drawn as a biclique then.
LEMMA TakeBicliqueReads ==
  ASSUME GraphInv, AreEdges(edges), TakeBiclique
  PROVE  GraphInv'
<1> DEFINE all == NodeEdges(drawing)
<1>1. PICK b \in Bicliques(directed) : bicliques' = bicliques \cup {b} /\ directed' = directed \ (b[1] \X b[2])
  BY DEF TakeBiclique
<1>2. /\ drawing # NotDrawing /\ UNCHANGED <<edges, groups, drawing, undrawn, plain, cliqued, starLabels>>
  BY DEF TakeBiclique
<1>3. Direct \subseteq all /\ all \subseteq Direct \cup InCliques(Mutual(all))
  BY <1>2 DEF GraphInv
<1>4. IsRelation(directed)
  <2>1. directed \subseteq all
    BY <1>3 DEF Direct
  <2> QED
    BY <2>1, NodeEdgesFit DEF IsRelation
<1>5. \A x \in b[1] \X b[2] : x \in directed
  BY <1>4, BicliqueFits
<1>6. Direct' = Direct
  <2> DEFINE Of(d) == d[1] \X d[2]
  <2>0. /\ \A x : x \in Direct <=> x \in plain \/ x \in directed \/ \E d \in bicliques : x \in Of(d)
        /\ \A x : x \in Direct' <=> x \in plain' \/ x \in directed' \/ \E d \in bicliques' : x \in Of(d)
    BY DEF Direct
  <2>1. /\ \A x : x \in Of(b) => x \in directed
        /\ directed' = directed \ Of(b)
    BY <1>1, <1>5
  <2> HIDE DEF Of
  <2>2. \A x : x \in Direct' <=> x \in Direct
    BY <1>1, <1>2, <2>0, <2>1
  <2> QED
    BY <2>2 DEF Direct
<1> HIDE DEF all
<1> QED
  BY <1>2, <1>6, GraphInvKept

\* Steps that leave the drawing alone, or begin another one.
LEMMA GraphInvStays ==
  ASSUME GraphInv, UNCHANGED graphVars
  PROVE  GraphInv'
BY GraphInvKept DEF graphVars, Direct

\* While something is drawn, its edges are between nodes.
LEMMA DrawnAreEdges ==
  ASSUME ControlInv, ShownInv, drawing # NotDrawing
  PROVE  AreEdges(edges) /\ groups = Groups(edges, AllPeers(AllConns(query)))
<1>1. part # "none" /\ query.format = "dot"
  BY DEF ControlInv, GraphDone
<1>2. query \in Queries /\ part \in PartNames
  BY <1>1, PartsAreNamed DEF ControlInv
<1>3. /\ edges = EdgesOf(PartConns(part), Protocols(part))
      /\ groups = Groups(edges, AllPeers(AllConns(query)))
  BY <1>1 DEF ShownInv
<1> QED
  BY <1>2, <1>3, EdgesFit DEF AreEdges

\* The drawing in every step.
LEMMA GraphInvStep ==
  ASSUME ControlInv, ShownInv, GraphInv, [Next]_vars
  PROVE  GraphInv'
<1>1. ASSUME StartPart PROVE GraphInv'
  <2>1. \/ UNCHANGED graphVars
        \/ drawing = NotDrawing /\ drawing' = drawing /\ cliqued' = {} /\ starLabels' = {}
    BY <1>1 DEF StartPart, ControlInv, GraphDone, StartGraph
  <2> QED
    BY <2>1, GraphInvStays DEF GraphInv, NotDrawing
<1>2. ASSUME EndPart PROVE GraphInv'
  BY <1>2, GraphInvStays DEF EndPart
<1>3. ASSUME GraphStep PROVE GraphInv'
  <2>1. ASSUME TakeBiclique PROVE GraphInv'
    BY <2>1, DrawnAreEdges, TakeBicliqueReads DEF TakeBiclique
  <2>2. ASSUME FinishDrawing PROVE GraphInv'
    <3>1. drawing' = NotDrawing /\ UNCHANGED <<cliqued, starLabels, undrawn>>
      BY <2>2 DEF FinishDrawing
    <3>2. \A v : IsDrawn(v) => IsDrawn(v)'
      BY <3>1 DEF IsDrawn, Node
    <3> QED
      BY <3>1, <3>2 DEF GraphInv, NotDrawing
  <2> QED
    BY <1>3, <2>1, <2>2, DrawReads DEF GraphStep
<1>4. ASSUME UNCHANGED vars PROVE GraphInv'
  BY <1>4, GraphInvStays DEF vars
<1> QED
  BY <1>1, <1>2, <1>3, <1>4, StepCases, GraphInvStays

\* For all peers of two nodes, what is read between the nodes is what they have, as long
\* as the names of stars are apart.
LEMMA GraphReadsExactly ==
  ASSUME ControlInv, ShownInv, GraphInv
  PROVE  DrawingReadsExactly
<1> SUFFICES ASSUME drawing # NotDrawing PROVE DrawingReadsExactly
  BY DEF DrawingReadsExactly
<1>0. AreEdges(edges) /\ groups = Groups(edges, AllPeers(AllConns(query)))
  BY DrawnAreEdges
<1> DEFINE all == {<<e[1], e[2]>> : e \in {f \in edges : f[3] = drawing}}
           Rep(g) == CHOOSE n \in g : TRUE
<1>1. \A n, m : <<n, m>> \in all <=> <<n, m, drawing>> \in edges
  <2>1. ASSUME NEW n, NEW m, <<n, m>> \in all PROVE <<n, m, drawing>> \in edges
    <3>1. PICK e \in edges : e[3] = drawing /\ <<n, m>> = <<e[1], e[2]>>
      BY <2>1
    <3>2. e = <<n, m, drawing>>
      BY <1>0, <3>1 DEF AreEdges
    <3> QED
      BY <3>2
  <2>2. ASSUME NEW n, NEW m, <<n, m, drawing>> \in edges PROVE <<n, m>> \in all
    <3> DEFINE e == <<n, m, drawing>>
    <3>1. e \in edges /\ e[3] = drawing /\ <<n, m>> = <<e[1], e[2]>>
      BY <2>2
    <3> HIDE DEF e
    <3> QED
      BY <3>1
  <2> QED
    BY <2>1, <2>2
<1> HIDE DEF all
<1>2. \A g \in groups : Rep(g) \in g /\ Rep(g) \in Representatives
  <2>1. \A g \in groups : g # {}
    BY <1>0, GroupsFit
  <2> QED
    BY <2>1 DEF Representatives
<1> HIDE DEF Rep
<1>3. ASSUME NEW g \in groups, NEW h \in groups, g # h, NEW n \in g, NEW m \in h
      PROVE  /\ <<n, m>> \in all => <<Rep(g), Rep(h)>> \in Reading
             /\ NamesApart /\ <<Rep(g), Rep(h)>> \in Reading => <<n, m>> \in all
  <2>1. g \cap h = {}
    BY <1>0, <1>3, GroupsFit
  <2>2. Rep(g) # Rep(h)
    BY <1>2, <2>1
  <2>3. /\ <<Rep(g), Rep(h), drawing>> \in edges => <<Rep(g), Rep(h)>> \in Reading
        /\ NamesApart /\ <<Rep(g), Rep(h)>> \in Reading => <<Rep(g), Rep(h), drawing>> \in edges
    BY <1>0, <1>2, <2>2, ReadAsMeant, NodeEdgesOne
  <2>4. <<Rep(g), Rep(h), drawing>> \in edges <=> <<n, m, drawing>> \in edges
    BY <1>0, <1>2, <1>3, SameBetween
  <2> QED
    BY <1>1, <2>3, <2>4
<1> QED
  BY <1>3 DEF DrawingReadsExactly, all, Rep

\* What a reader sees between two nodes of a drawing (ConnectivityGraph.py), as an edge or
\* through a clique or a biclique, is at every step of the drawing all that the peers of
\* the two nodes may do, and nothing else as long as no star shares its name with one of
\* other connections.
THEOREM DrawingsReadExactly == Spec => []DrawingReadsExactly
<1>1. Init => ControlInv /\ FwInv /\ RulesInv /\ ShownInv /\ GraphInv
  <2>1. Init => GraphInv
    BY DEF Init, NoGraph, GraphInv, NotDrawing
  <2> QED
    BY <2>1, ControlInit, RulesInit, ShownInit
<1>2. ControlInv /\ FwInv /\ RulesInv /\ ShownInv /\ GraphInv /\ [Next]_vars
        => ControlInv' /\ FwInv' /\ RulesInv' /\ ShownInv' /\ GraphInv'
  BY ControlStep, FwInvStep, RulesInvStep, ShownInvStep, GraphInvStep
<1>3. ControlInv /\ ShownInv /\ GraphInv => DrawingReadsExactly
  BY GraphReadsExactly
<1> QED
  BY <1>1, <1>2, <1>3, PTL DEF Spec
=============================================================================
