----------------------- MODULE ResourceLoadingProofs -----------------------
(***************************************************************************)
(* Containers and finders share peer sets and dicts of namespaces by their     *)
(* addresses.  An input that takes the global topology works on addresses of   *)
(* its own, whatever was loaded before it, so that the global topology stays   *)
(* as it was read.                                                            *)
(***************************************************************************)
EXTENDS ResourceLoading, SequenceTheorems, TLAPS

IsSeq(s) == \E S : s \in Seq(S)
\* The addresses of a container or a parser, and that they are in the heap.
Addressed(c) == {"pods", "ns"} \subseteq DOMAIN c
InHeap(c) == c.pods \in 1 .. Len(pods_finders) /\ c.ns \in 1 .. Len(ns_finders)

HeapOK == IsSeq(pods_finders) /\ IsSeq(ns_finders)
ParserOK == phase = "topology" => Addressed(parser) /\ InHeap(parser)
ContainerOK ==
  phase \in {"container", "policies"} => Addressed(container) /\ InHeap(container) /\ Addressed(parser) /\ InHeap(parser)
GlobalOK ==
  global # Null => Addressed(global.container) /\ InHeap(global.container) /\ InHeap(global)
\* What has no documents has no topology, until it is given the copy of the global one.
NothingFound ==
  phase = "topology" /\ NoTopology(input) =>
    reading = << >> /\ pods_finders[parser.pods] = EmptyPods /\ ns_finders[parser.ns] = Empty
Apart(c, d) == c.pods # d.pods /\ c.ns # d.ns
CopyApart ==
  phase \in {"container", "policies"} /\ global # Null /\ ~input.save /\ NoTopology(input)
    => Apart(container, global.container)
PhaseOK == phase \in {"idle", "topology", "container", "policies"}
LInv == PhaseOK /\ HeapOK /\ ParserOK /\ ContainerOK /\ GlobalOK /\ NothingFound /\ CopyApart

(***************************************************************************)
(* The heap.                                                               *)
(***************************************************************************)
\* A new object at the end of the heap.
LEMMA Appended ==
  ASSUME NEW s, IsSeq(s), NEW x
  PROVE  /\ IsSeq(Append(s, x)) /\ Len(s) \in Nat /\ Len(Append(s, x)) = Len(s) + 1
         /\ Append(s, x)[Len(s) + 1] = x
         /\ \A i \in 1 .. Len(s) : Append(s, x)[i] = s[i]
<1>1. PICK S : s \in Seq(S)
  BY DEF IsSeq
<1>2. s \in Seq(S \cup {x})
  BY <1>1
<1>3. Append(s, x) \in Seq(S \cup {x})
  BY <1>2
<1> QED
  BY <1>2, <1>3 DEF IsSeq

\* An object that is changed.
ChangedAt(s, i, t) == \E x : t = [s EXCEPT ![i] = x]
\* The others stay where and as they are.
LEMMA Changed ==
  ASSUME NEW s, IsSeq(s), NEW i, NEW t, ChangedAt(s, i, t)
  PROVE  /\ IsSeq(t) /\ Len(t) = Len(s) /\ Len(s) \in Nat
         /\ \A j \in 1 .. Len(s) : j # i => t[j] = s[j]
<1>0. PICK x : t = [s EXCEPT ![i] = x]
  BY DEF ChangedAt
<1>1. PICK S : s \in Seq(S)
  BY DEF IsSeq
<1>2. s \in Seq(S \cup {x})
  BY <1>1
<1>3. t \in Seq(S \cup {x}) /\ Len(t) = Len(s)
  <2>1. CASE i \in 1 .. Len(s)
    BY <1>0, <1>2, <2>1, ExceptSeq
  <2>2. CASE i \notin 1 .. Len(s)
    <3>1. t = s
      BY <1>0, <1>2, <2>2
    <3> QED
      BY <1>2, <3>1
  <2> QED
    BY <2>1, <2>2
<1> QED
  BY <1>0, <1>2, <1>3 DEF IsSeq

\* Where the heap only grows, addresses stay in it.
LEMMA StaysInHeap ==
  ASSUME HeapOK, HeapOK', Len(pods_finders) =< Len(pods_finders'), Len(ns_finders) =< Len(ns_finders'),
         NEW c, InHeap(c)
  PROVE  c.pods \in 1 .. Len(pods_finders') /\ c.ns \in 1 .. Len(ns_finders')
<1>1. /\ Len(pods_finders) \in Nat /\ Len(ns_finders) \in Nat
      /\ Len(pods_finders') \in Nat /\ Len(ns_finders') \in Nat
  BY Appended DEF HeapOK
<1> QED
  BY <1>1 DEF InHeap
-----------------------------------------------------------------------------
(***************************************************************************)
(* The steps.                                                              *)
(***************************************************************************)
\* A new parser has new finders.
LEMMA StartParsingKeeps ==
  ASSUME LInv, NEW in, StartParsing(in), global' = global
  PROVE  LInv'
<1>1. /\ phase' = "topology" /\ input' = in /\ reading' = TopologyDocuments(in)
      /\ pods_finders' = Append(pods_finders, EmptyPods) /\ ns_finders' = Append(ns_finders, Empty)
      /\ parser' = NewParser(Len(pods_finders'), Len(ns_finders'))
  BY DEF StartParsing
<1>2. /\ HeapOK' /\ Len(pods_finders) \in Nat /\ Len(ns_finders) \in Nat
      /\ Len(pods_finders') = Len(pods_finders) + 1 /\ Len(ns_finders') = Len(ns_finders) + 1
      /\ pods_finders'[Len(pods_finders')] = EmptyPods /\ ns_finders'[Len(ns_finders')] = Empty
  BY <1>1, Appended DEF LInv, HeapOK
<1>3. /\ Addressed(parser') /\ parser'.pods = Len(pods_finders') /\ parser'.ns = Len(ns_finders')
  BY <1>1 DEF NewParser, Addressed
<1>4. PhaseOK' /\ ParserOK' /\ ContainerOK' /\ CopyApart'
  BY <1>1, <1>2, <1>3 DEF PhaseOK, ParserOK, ContainerOK, CopyApart, InHeap
<1>5. NothingFound'
  BY <1>1, <1>2, <1>3 DEF NothingFound, NoTopology
<1>6. GlobalOK'
  BY <1>2, StaysInHeap DEF LInv, GlobalOK, InHeap
<1> QED
  BY <1>2, <1>4, <1>5, <1>6 DEF LInv

\* What a document adds is found in the finders of the parser.
LEMMA StoreFoundKeeps ==
  ASSUME LInv, phase \in {"topology", "container", "policies"}, NEW t, StoreFound(t)
  PROVE  /\ HeapOK' /\ Len(pods_finders') = Len(pods_finders) /\ Len(ns_finders') = Len(ns_finders)
         /\ Addressed(parser') /\ InHeap(parser)' /\ parser'.pods = parser.pods /\ parser'.ns = parser.ns
<1>1. /\ ns_finders' = [ns_finders EXCEPT ![parser.ns] = t.namespaces]
      /\ parser' = [parser EXCEPT !.services = t.services]
  BY DEF StoreFound
<1>2. ChangedAt(pods_finders, parser.pods, pods_finders') /\ ChangedAt(ns_finders, parser.ns, ns_finders')
  BY DEF StoreFound, ChangedAt
<1>3. HeapOK' /\ Len(pods_finders') = Len(pods_finders) /\ Len(ns_finders') = Len(ns_finders)
  <2>1. IsSeq(pods_finders) /\ IsSeq(ns_finders)
    BY DEF LInv, HeapOK
  <2>2. IsSeq(pods_finders') /\ Len(pods_finders') = Len(pods_finders)
    BY <1>2, <2>1, Changed
  <2>3. IsSeq(ns_finders') /\ Len(ns_finders') = Len(ns_finders)
    BY <1>2, <2>1, Changed
  <2> QED
    BY <2>2, <2>3 DEF HeapOK
<1>4. Addressed(parser) /\ InHeap(parser)
  BY DEF LInv, ParserOK, ContainerOK
<1>5. Addressed(parser') /\ parser'.pods = parser.pods /\ parser'.ns = parser.ns
  BY <1>1, <1>4 DEF Addressed
<1> QED
  BY <1>3, <1>4, <1>5 DEF InHeap

\* Documents of a topology.
LEMMA ReadTopologyKeeps ==
  ASSUME LInv, ReadTopology
  PROVE  LInv'
<1>1. /\ phase = "topology" /\ phase' = phase /\ reading # << >> /\ input' = input /\ global' = global
      /\ \E t : StoreFound(t)
  BY DEF ReadTopology
<1>2. /\ HeapOK' /\ Len(pods_finders') = Len(pods_finders) /\ Len(ns_finders') = Len(ns_finders)
      /\ Addressed(parser') /\ InHeap(parser)'
  BY <1>1, StoreFoundKeeps
<1>3. ~NoTopology(input)
  BY <1>1 DEF LInv, NothingFound
<1>4. GlobalOK'
  BY <1>1, <1>2 DEF LInv, GlobalOK, InHeap
<1> QED
  BY <1>1, <1>2, <1>3, <1>4 DEF LInv, PhaseOK, ParserOK, ContainerOK, NothingFound, CopyApart

\* The global topology after a container was made from addresses of the heap.
LEMMA SaveKeeps ==
  ASSUME LInv, HeapOK', Len(pods_finders) =< Len(pods_finders'), Len(ns_finders) =< Len(ns_finders'),
         Addressed(container'), InHeap(container)', NEW c, SaveAsGlobal(c.pods, c.ns),
         c.pods \in 1 .. Len(pods_finders'), c.ns \in 1 .. Len(ns_finders')
  PROVE  GlobalOK' /\ (~input.save => global' = global)
<1>1. CASE input.save
  <2>1. global' = [container |-> container', pods |-> c.pods, ns |-> c.ns]
    BY <1>1 DEF SaveAsGlobal
  <2>2. global'.container = container' /\ global'.pods = c.pods /\ global'.ns = c.ns
    BY <2>1
  <2>3. InHeap(global)' /\ InHeap(global.container)' /\ Addressed(global.container)'
    BY <2>2 DEF InHeap
  <2> QED
    BY <1>1, <2>3 DEF GlobalOK
<1>2. CASE ~input.save
  <2>1. global' = global
    BY <1>2 DEF SaveAsGlobal
  <2>2. GlobalOK'
    BY <2>1, StaysInHeap DEF LInv, GlobalOK, InHeap
  <2> QED
    BY <2>1, <2>2
<1> QED
  BY <1>1, <1>2

\* Nothing was found by a parser that had nothing to read.
LEMMA NothingIsFound ==
  ASSUME LInv, TopologyRead, NoTopology(input)
  PROVE  TopologyFound = "nothing"
<1>1. pods_finders[parser.pods] = EmptyPods /\ ns_finders[parser.ns] = Empty
  BY DEF LInv, NothingFound, TopologyRead
<1>2. Found.peers = {} /\ Found.namespaces = Empty
  BY <1>1 DEF Found, EmptyPods
<1>3. DOMAIN Empty = {}
  BY DEF Empty
<1> QED
  BY <1>2, <1>3 DEF TopologyFound, NoTopology

\* A container of an input's own resources.
LEMMA OwnContainerKeeps ==
  ASSUME LInv, BuildOwnContainer
  PROVE  LInv'
<1> DEFINE pods == IF TopologyFound = "ns" /\ global # Null THEN global.pods ELSE parser.pods
           ns == IF TopologyFound = "pods" /\ global # Null THEN global.ns ELSE parser.ns
<1>1. /\ TopologyRead /\ TopologyFound # "nothing" /\ BuildPeerContainer(pods, ns, ns_finders)
      /\ parser' = [parser EXCEPT !.pods = pods, !.ns = ns] /\ SaveAsGlobal(pods, ns)
      /\ phase' = "container" /\ input' = input /\ pods_finders' = pods_finders
  BY DEF BuildOwnContainer, ContainerBuilt
<1>2. /\ Addressed(parser) /\ InHeap(parser) /\ (global # Null => InHeap(global))
  BY <1>1 DEF LInv, ParserOK, GlobalOK, TopologyRead
<1>3. pods \in 1 .. Len(pods_finders) /\ ns \in 1 .. Len(ns_finders)
  BY <1>2 DEF InHeap
<1> HIDE DEF pods, ns
<1>4. /\ Addressed(container') /\ container'.pods = pods /\ container'.ns = ns
      /\ \E x : ns_finders' = [ns_finders EXCEPT ![ns] = x]
  BY <1>1 DEF BuildPeerContainer, Addressed
<1>5. HeapOK' /\ Len(ns_finders') = Len(ns_finders) /\ Len(ns_finders) \in Nat /\ Len(pods_finders) \in Nat
  <2>1. IsSeq(pods_finders) /\ IsSeq(ns_finders)
    BY DEF LInv, HeapOK
  <2>2. ChangedAt(ns_finders, ns, ns_finders')
    BY <1>4 DEF ChangedAt
  <2>3. IsSeq(ns_finders') /\ Len(ns_finders') = Len(ns_finders)
    BY <2>1, <2>2, Changed
  <2> QED
    BY <1>1, <2>1, <2>3, Appended DEF HeapOK
<1>6. Addressed(parser') /\ parser'.pods = pods /\ parser'.ns = ns
  BY <1>1, <1>2 DEF Addressed
<1>7. InHeap(container)' /\ InHeap(parser)'
  BY <1>1, <1>3, <1>4, <1>5, <1>6 DEF InHeap
<1>8. GlobalOK'
  <2>1. SaveAsGlobal(container'.pods, container'.ns)
    BY <1>1, <1>4
  <2>2. container'.pods \in 1 .. Len(pods_finders') /\ container'.ns \in 1 .. Len(ns_finders')
    BY <1>1, <1>3, <1>4, <1>5
  <2> QED
    BY <1>1, <1>4, <1>5, <1>7, <2>1, <2>2, SaveKeeps
<1>9. ~NoTopology(input)
  BY <1>1, NothingIsFound
<1> QED
  BY <1>1, <1>4, <1>5, <1>6, <1>7, <1>8, <1>9 DEF LInv, PhaseOK, ParserOK, ContainerOK, NothingFound, CopyApart

\* A copy of the global container: at addresses that are new.
LEMMA CopyKeeps ==
  ASSUME LInv, CopyGlobalContainer
  PROVE  LInv'
<1>1. /\ TopologyRead /\ global # Null /\ SaveAsGlobal(parser.pods, parser.ns)
      /\ pods_finders' = Append(pods_finders, pods_finders[global.container.pods])
      /\ ns_finders' = Append(ns_finders, ns_finders[global.container.ns])
      /\ container' = [global.container EXCEPT !.pods = Len(pods_finders'), !.ns = Len(ns_finders')]
      /\ phase' = "container" /\ input' = input /\ parser' = parser
  BY DEF CopyGlobalContainer, CopyGlobal, ContainerBuilt
<1>2. /\ Addressed(parser) /\ InHeap(parser) /\ Addressed(global.container) /\ InHeap(global.container)
  BY <1>1 DEF LInv, ParserOK, GlobalOK, TopologyRead
<1>3. /\ HeapOK' /\ Len(pods_finders) \in Nat /\ Len(ns_finders) \in Nat
      /\ Len(pods_finders') = Len(pods_finders) + 1 /\ Len(ns_finders') = Len(ns_finders) + 1
  <2>1. IsSeq(pods_finders) /\ IsSeq(ns_finders)
    BY DEF LInv, HeapOK
  <2>2. IsSeq(pods_finders') /\ Len(pods_finders) \in Nat /\ Len(pods_finders') = Len(pods_finders) + 1
    BY <1>1, <2>1, Appended
  <2>3. IsSeq(ns_finders') /\ Len(ns_finders) \in Nat /\ Len(ns_finders') = Len(ns_finders) + 1
    BY <1>1, <2>1, Appended
  <2> QED
    BY <2>2, <2>3 DEF HeapOK
<1>4. Addressed(container') /\ container'.pods = Len(pods_finders') /\ container'.ns = Len(ns_finders')
  BY <1>1, <1>2 DEF Addressed
<1>5. InHeap(container)' /\ InHeap(parser)'
  BY <1>1, <1>2, <1>3, <1>4 DEF InHeap
<1>6. GlobalOK' /\ (~input.save => global' = global)
  <2>1. parser.pods \in 1 .. Len(pods_finders') /\ parser.ns \in 1 .. Len(ns_finders')
    BY <1>2, <1>3 DEF InHeap
  <2> QED
    BY <1>1, <1>3, <1>4, <1>5, <2>1, SaveKeeps
<1>7. CopyApart'
  <2>1. Apart(container', global.container)
    BY <1>2, <1>3, <1>4 DEF InHeap, Apart
  <2> QED
    BY <1>1, <1>6, <2>1 DEF CopyApart, Apart
<1> QED
  BY <1>1, <1>2, <1>3, <1>4, <1>5, <1>6, <1>7 DEF LInv, PhaseOK, ParserOK, ContainerOK, NothingFound

\* The topology of the live cluster.
LEMMA ClusterKeeps ==
  ASSUME LInv, BuildFromCluster
  PROVE  LInv'
<1>1. /\ TopologyRead /\ global = Null /\ SaveAsGlobal(parser.pods, parser.ns)
      /\ phase' = "container" /\ input' = input /\ \E t : StoreFound(t)
  BY DEF BuildFromCluster, ContainerBuilt
<1>2. Addressed(container') /\ container'.pods = parser.pods /\ container'.ns = parser.ns
  BY DEF BuildFromCluster, Addressed
<1>3. /\ HeapOK' /\ Len(pods_finders') = Len(pods_finders) /\ Len(ns_finders') = Len(ns_finders)
      /\ Addressed(parser') /\ InHeap(parser)' /\ parser'.pods = parser.pods /\ parser'.ns = parser.ns
  BY <1>1, StoreFoundKeeps DEF TopologyRead
<1>4. InHeap(container)'
  BY <1>2, <1>3 DEF InHeap
<1>5. GlobalOK' /\ (~input.save => global' = global)
  <2>1. parser.pods \in 1 .. Len(pods_finders') /\ parser.ns \in 1 .. Len(ns_finders')
    BY <1>3 DEF InHeap
  <2>2. Len(pods_finders) =< Len(pods_finders') /\ Len(ns_finders) =< Len(ns_finders')
    BY <1>3, Appended DEF LInv, HeapOK
  <2> QED
    BY <1>1, <1>2, <1>3, <1>4, <2>1, <2>2, SaveKeeps
<1> QED
  BY <1>1, <1>2, <1>3, <1>4, <1>5 DEF LInv, PhaseOK, ParserOK, ContainerOK, NothingFound, CopyApart

\* Policies are worked on at the addresses of the container, and nowhere else.
LEMMA StoreViewKeeps ==
  ASSUME HeapOK, NEW c, NEW v, StoreView(c, v)
  PROVE  /\ HeapOK' /\ Len(pods_finders') = Len(pods_finders) /\ Len(ns_finders') = Len(ns_finders)
         /\ \A j \in 1 .. Len(pods_finders) : j # c.pods => pods_finders'[j] = pods_finders[j]
         /\ \A j \in 1 .. Len(ns_finders) : j # c.ns => ns_finders'[j] = ns_finders[j]
<1>1. ChangedAt(pods_finders, c.pods, pods_finders') /\ ChangedAt(ns_finders, c.ns, ns_finders')
  BY DEF StoreView, ChangedAt
<1>2. IsSeq(pods_finders) /\ IsSeq(ns_finders)
  BY DEF HeapOK
<1>3. /\ IsSeq(pods_finders') /\ Len(pods_finders') = Len(pods_finders)
      /\ \A j \in 1 .. Len(pods_finders) : j # c.pods => pods_finders'[j] = pods_finders[j]
  BY <1>1, <1>2, Changed
<1>4. /\ IsSeq(ns_finders') /\ Len(ns_finders') = Len(ns_finders)
      /\ \A j \in 1 .. Len(ns_finders) : j # c.ns => ns_finders'[j] = ns_finders[j]
  BY <1>1, <1>2, Changed
<1> QED
  BY <1>3, <1>4 DEF HeapOK

\* Steps at the addresses of a container, with the policies of the input or of another.
LEMMA WorkKeeps ==
  ASSUME LInv, HeapOK', Len(pods_finders') = Len(pods_finders), Len(ns_finders') = Len(ns_finders),
         phase # "topology", phase' # "topology", phase' \in {phase, "idle"} \/ (phase = "container" /\ phase' = "policies"),
         input' = input, container' = container, global' = global,
         phase' # "idle" => Addressed(parser') /\ parser'.pods = parser.pods /\ parser'.ns = parser.ns
  PROVE  LInv'
<1>1. GlobalOK'
  BY DEF LInv, GlobalOK, InHeap
<1>2. ContainerOK'
  BY DEF LInv, PhaseOK, ContainerOK, InHeap
<1>3. CopyApart'
  BY DEF LInv, PhaseOK, CopyApart
<1> QED
  BY <1>1, <1>2, <1>3 DEF LInv, PhaseOK, ParserOK, NothingFound

\* The heap in each of these steps: written only where the container is.
LEMMA PolicySteps ==
  ASSUME LInv, phase # "topology",
         FinishGlobal \/ StartPolicies \/ ReadPolicies \/ ParsePolicy \/ BuildConfig
  PROVE  /\ LInv' /\ global' = global
         /\ Len(pods_finders') = Len(pods_finders) /\ Len(ns_finders') = Len(ns_finders)
         /\ \A j \in 1 .. Len(pods_finders) : j # container.pods => pods_finders'[j] = pods_finders[j]
         /\ \A j \in 1 .. Len(ns_finders) : j # container.ns => ns_finders'[j] = ns_finders[j]
<1>0. HeapOK
  BY DEF LInv
<1>1. /\ phase' # "topology"
      /\ phase' \in {phase, "idle"} \/ (phase = "container" /\ phase' = "policies")
      /\ input' = input /\ container' = container /\ global' = global
  BY DEF FinishGlobal, StartPolicies, ReadPolicies, ParsePolicy, BuildConfig, QueueRead, QueueParsed
<1>2. /\ HeapOK' /\ Len(pods_finders') = Len(pods_finders) /\ Len(ns_finders') = Len(ns_finders)
      /\ \A j \in 1 .. Len(pods_finders) : j # container.pods => pods_finders'[j] = pods_finders[j]
      /\ \A j \in 1 .. Len(ns_finders) : j # container.ns => ns_finders'[j] = ns_finders[j]
  <2>1. CASE UNCHANGED heap
    BY <1>0, <2>1 DEF heap, HeapOK
  <2>2. CASE StartPolicies
    <3>1. PICK x : pods_finders' = [pods_finders EXCEPT ![container.pods].peers = x]
      BY <2>2 DEF StartPolicies
    <3>2. ChangedAt(pods_finders, container.pods, pods_finders')
      BY <3>1 DEF ChangedAt
    <3>3. /\ IsSeq(pods_finders') /\ Len(pods_finders') = Len(pods_finders)
          /\ \A j \in 1 .. Len(pods_finders) : j # container.pods => pods_finders'[j] = pods_finders[j]
      BY <1>0, <3>2, Changed DEF HeapOK
    <3>4. ns_finders' = ns_finders
      BY <2>2 DEF StartPolicies
    <3> QED
      BY <1>0, <3>3, <3>4 DEF HeapOK
  <2>3. CASE ParsePolicy
    <3>1. PICK v : StoreView(container, v)
      BY <2>3 DEF ParsePolicy
    <3> QED
      BY <1>0, <3>1, StoreViewKeeps
  <2> QED
    BY <2>1, <2>2, <2>3 DEF FinishGlobal, ReadPolicies, BuildConfig
<1>3. ASSUME phase' # "idle" PROVE Addressed(parser') /\ parser'.pods = parser.pods /\ parser'.ns = parser.ns
  <2>1. Addressed(parser)
    BY <1>1, <1>3 DEF LInv, PhaseOK, ContainerOK
  <2>2. \/ parser' = parser
        \/ \E q : parser' = [parser EXCEPT !.queue = q]
        \/ \E a, b, c : parser' = [parser EXCEPT !.at = a, !.policies = b, !.missing = c]
    BY <1>3 DEF FinishGlobal, StartPolicies, ReadPolicies, ParsePolicy, BuildConfig
  <2> QED
    BY <2>1, <2>2 DEF Addressed
<1> QED
  BY <1>1, <1>2, <1>3, WorkKeeps

\* Policies that are parsed again over another topology.
LEMMA RebuildKeeps ==
  ASSUME LInv, NEW i, NEW j, RebuildByBase(i, j)
  PROVE  LInv'
<1>1. /\ phase = "idle" /\ phase' = phase /\ input' = input /\ container' = container /\ global' = global
      /\ \E v : StoreView(configs[j].container, v)
  BY DEF RebuildByBase
<1>2. PICK v : StoreView(configs[j].container, v)
  BY <1>1
<1>3. HeapOK' /\ Len(pods_finders') = Len(pods_finders) /\ Len(ns_finders') = Len(ns_finders)
  BY <1>2, StoreViewKeeps DEF LInv
<1> QED
  BY <1>1, <1>3, WorkKeeps

\* An input that is loaded, and one that is loaded again with simulated resources.
LEMMA ParsingStarts ==
  ASSUME LInv, Load \/ TryAgain
  PROVE  /\ LInv' /\ global' = global
         /\ \A j \in 1 .. Len(pods_finders) : pods_finders'[j] = pods_finders[j]
         /\ \A j \in 1 .. Len(ns_finders) : ns_finders'[j] = ns_finders[j]
<1>1. PICK in : StartParsing(in)
  BY DEF Load, TryAgain
<1>2. global' = global
  BY DEF Load, TryAgain
<1>3. LInv'
  BY <1>1, <1>2, StartParsingKeeps
<1>4. /\ \A j \in 1 .. Len(pods_finders) : pods_finders'[j] = pods_finders[j]
      /\ \A j \in 1 .. Len(ns_finders) : ns_finders'[j] = ns_finders[j]
  BY <1>1, Appended DEF StartParsing, LInv, HeapOK
<1> QED
  BY <1>2, <1>3, <1>4

\* Before anything is loaded there is nothing.
LEMMA InitLInv == Init => LInv
<1> SUFFICES ASSUME Init PROVE LInv
  OBVIOUS
<1>1. /\ phase = "idle" /\ global = Null /\ pods_finders = << >> /\ ns_finders = << >>
  BY DEF Init
<1>2. << >> \in Seq({})
  OBVIOUS
<1>3. HeapOK
  BY <1>1, <1>2 DEF HeapOK, IsSeq
<1> QED
  BY <1>1, <1>3 DEF LInv, PhaseOK, ParserOK, ContainerOK, GlobalOK, NothingFound, CopyApart

\* Every step keeps the addresses in the heap and the copies apart.
LEMMA NextLInv ==
  ASSUME LInv, [Next]_vars
  PROVE  LInv'
<1>1. CASE Load \/ TryAgain
  BY <1>1, ParsingStarts
<1>2. CASE ReadTopology
  BY <1>2, ReadTopologyKeeps
<1>3. CASE BuildOwnContainer
  BY <1>3, OwnContainerKeeps
<1>4. CASE CopyGlobalContainer
  BY <1>4, CopyKeeps
<1>5. CASE BuildFromCluster
  BY <1>5, ClusterKeeps
<1>6. CASE FinishGlobal \/ StartPolicies \/ ReadPolicies \/ ParsePolicy \/ BuildConfig
  <2>1. phase # "topology"
    BY <1>6 DEF FinishGlobal, StartPolicies, ReadPolicies, ParsePolicy, BuildConfig, QueueRead, QueueParsed
  <2> QED
    BY <1>6, <2>1, PolicySteps
<1>7. CASE \E i, j \in DOMAIN configs : i # j /\ RebuildByBase(i, j)
  BY <1>7, RebuildKeeps
<1>8. CASE UNCHANGED vars
  BY <1>8 DEF vars, LInv, PhaseOK, HeapOK, ParserOK, ContainerOK, GlobalOK, NothingFound, CopyApart, InHeap
<1> QED
  BY <1>1, <1>2, <1>3, <1>4, <1>5, <1>6, <1>7, <1>8 DEF Next

\* Where its objects are as they were, a container shows what it showed.
LEMMA ViewStays ==
  ASSUME GlobalOK, global # Null, global' = global,
         pods_finders'[global.container.pods] = pods_finders[global.container.pods],
         ns_finders'[global.container.ns] = ns_finders[global.container.ns]
  PROVE  View(global.container)' = View(global.container)
BY DEF View

\* A step that works on an input with a copy of the global topology.
LEMMA CopiesStep ==
  ASSUME LInv, [Next]_vars, global # Null, phase \in {"container", "policies"}, ~input.save, NoTopology(input)
  PROVE  View(global.container)' = View(global.container)
<1>1. /\ GlobalOK /\ InHeap(global.container) /\ Apart(container, global.container)
  BY DEF LInv, GlobalOK, CopyApart
<1>2. CASE Load \/ TryAgain
  <2>1. /\ global' = global
        /\ pods_finders'[global.container.pods] = pods_finders[global.container.pods]
        /\ ns_finders'[global.container.ns] = ns_finders[global.container.ns]
    BY <1>1, <1>2, ParsingStarts DEF InHeap
  <2> QED
    BY <1>1, <2>1, ViewStays
<1>3. CASE FinishGlobal \/ StartPolicies \/ ReadPolicies \/ ParsePolicy \/ BuildConfig
  <2>1. /\ global' = global
        /\ pods_finders'[global.container.pods] = pods_finders[global.container.pods]
        /\ ns_finders'[global.container.ns] = ns_finders[global.container.ns]
    BY <1>1, <1>3, PolicySteps DEF InHeap, Apart
  <2> QED
    BY <1>1, <2>1, ViewStays
<1>4. CASE UNCHANGED vars
  <2>1. global' = global /\ pods_finders' = pods_finders /\ ns_finders' = ns_finders
    BY <1>4 DEF vars
  <2> QED
    BY <1>1, <2>1, ViewStays
<1>5. ~ReadTopology /\ ~BuildOwnContainer /\ ~CopyGlobalContainer /\ ~BuildFromCluster
  BY DEF ReadTopology, BuildOwnContainer, CopyGlobalContainer, BuildFromCluster, TopologyRead
<1>6. ~\E i, j \in DOMAIN configs : i # j /\ RebuildByBase(i, j)
  BY DEF RebuildByBase
<1> QED
  BY <1>2, <1>3, <1>4, <1>5, <1>6 DEF Next

\* Whatever is loaded, in whichever order and with whichever documents, an input that
\* takes the global topology works on a copy that shares no object with it (the
\* deepcopy of _set_config_peer_container): clear_pods_extra_labels, the labels of profiles and the
\* namespaces that policies name never reach the topology the next input is given.
THEOREM GlobalIsLeftAlone == Spec => CopiesLeaveTheGlobalAlone
<1>1. Init => LInv
  BY InitLInv
<1>2. LInv /\ [Next]_vars => LInv'
  BY NextLInv
<1>3. LInv /\ [Next]_vars =>
        [global # Null /\ phase \in {"container", "policies"} /\ ~input.save /\ NoTopology(input)
           => View(global.container)' = View(global.container)]_vars
  BY CopiesStep
<1> QED
  BY <1>1, <1>2, <1>3, PTL DEF Spec, CopiesLeaveTheGlobalAlone
=============================================================================
