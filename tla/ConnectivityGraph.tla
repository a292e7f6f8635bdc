------------------------- MODULE ConnectivityGraph -------------------------
(***************************************************************************)
(* The connectivity map as a drawing (ConnectivityGraph.py).  Each cube of     *)
(* the connections gives edges between its peers.  Peers of a namespace with   *)
(* the same edges become one node; then, for each set of connections, cliques  *)
(* and bicliques of nodes are drawn as stars around nodes of their own.        *)
(***************************************************************************)
EXTENDS ClusterInfo

CONSTANT min_clique_size  \* 4: two nodes alone would be joined by no star
ASSUME min_clique_sizeAssumption == min_clique_size \in Nat /\ min_clique_size > 2

VARIABLES
  edges,     \* props_to_peers: <<source, target, connections>>
  groups,    \* peers_groups
  drawing,   \* the connections that are being drawn, or none
  undrawn,   \* those not drawn yet
  directed,  \* the directed edges of drawing that are still edges
  bicliques, plain,  \* what is drawn for it: see Reading
  cliqued,   \* the edges of the cliques of all connections drawn so far
  starLabels \* the stars at these edges, by name, with the connections they were drawn for
graphVars == <<edges, groups, drawing, undrawn, directed, bicliques, plain, cliqued, starLabels>>
NotDrawing == {}
NoGraph ==
  /\ edges = {} /\ groups = {} /\ drawing = NotDrawing /\ undrawn = {}
  /\ directed = {} /\ bicliques = {} /\ plain = {} /\ cliqued = {} /\ starLabels = {}

(***************************************************************************)
(* Edges and groups.                                                       *)
(***************************************************************************)
\* PeerSet.split: IP addresses as ranges; a node is a peer or a set of addresses.
Ranges(S) ==
  {x[1] .. x[2] : x \in {y \in S \X S : /\ y[1] <= y[2] /\ (y[1] .. y[2]) \subseteq S
                                        /\ y[1] - 1 \notin S /\ y[2] + 1 \notin S}}
Split(peers) == (peers \ Ips) \cup Ranges(peers \cap Ips)
\* The cubes of all connections: sources with the same connections to everyone, of
\* their targets those with the same connections, and these.
Profile(conns, s) == {<<x[2], x[3]>> : x \in {y \in conns : y[1] = s}}
SourceClass(conns, profile) == {t \in Sources(conns) : Profile(conns, t) = profile}
PeerCubes(conns) ==
  UNION {{<<SourceClass(conns, profile), cube[1], cube[2]>> : cube \in CubesBySource(profile)}
         : profile \in {Profile(conns, s) : s \in Sources(conns)}}
\* add_props_to_graph
EdgesOf(conns, protocols) ==
  UNION {UNION {Split(cube[1]) \X Split(cube[2]) \X {ExtractConns(c[1] \X c[2], protocols)}
                : c \in CubesBySource(cube[3])} : cube \in PeerCubes(conns)}
\* get_all_peers: the addresses of a cube are one block for each IP version.
Blocks(peers) == (peers \ Ips) \cup ({peers \cap Ipv6, (peers \cap Ips) \ Ipv6} \ {{}})
AllPeers(conns) == UNION {Blocks(cube[1]) \cup Blocks(cube[2]) : cube \in PeerCubes(conns)}
\* A range that is no block of all_peers is no key of peers_edges: KeyError.
KeyError(es, all) == \E e \in es : e[1] # e[2] /\ ~({e[1], e[2]} \subseteq all)

NodeNs(n) == IF n \in Pods THEN NsOf[n] ELSE NoNs
\* peers_edges, with a peer's own connections to itself added or not.
OwnEdges(es, n) ==
  {<<e[2], e[3], "out">> : e \in {f \in es : f[1] = n /\ f[2] # n}}
  \cup {<<e[1], e[3], "in">> : e \in {f \in es : f[2] = n /\ f[1] # n}}
WithSelf(es, n) == OwnEdges(es, n) \cup {<<n, x[2], dir>> : x \in OwnEdges(es, n), dir \in {"in", "out"}}
\* _find_equal_groups
EqualGroups(peers_edges) ==
  {{m \in DOMAIN peers_edges : NodeNs(m) = NodeNs(n) /\ peers_edges[m] = peers_edges[n]}
   : n \in DOMAIN peers_edges}
\* _get_equals_groups: first peers that are connected to each other as well.
Groups(es, all) ==
  LET connected == {g \in EqualGroups([n \in all |-> WithSelf(es, n)]) : Cardinality(g) > 1}
  IN  connected \cup EqualGroups([n \in all \ UNION connected |-> OwnEdges(es, n)])
\* The connections between peers of a group.  edges_props keeps the one that was stored
\* last, and only that one is drawn at the node.
Inside(e, g) == e[1] \in g /\ e[2] \in g /\ e[1] # e[2]
GroupConns(es, g) == {e[3] : e \in {f \in es : Inside(f, g)}}
ManyConns(es, gs) == {g \in gs : Cardinality(GroupConns(es, g)) > 1}
DrawnEdges ==
  LET many == ManyConns(edges, groups)
      kept == {f \in [many -> {e[3] : e \in edges}] : \A g \in many : f[g] \in GroupConns(edges, g)}
  IN  {{e \in edges : \A g \in many : Inside(e, g) => e[3] = f[g]} : f \in kept}

\* A DotGraph of its own for each part of the report.
StartGraph(es, all) ==
  /\ edges' = es /\ groups' = Groups(es, all) /\ undrawn' = {e[3] : e \in es}
  /\ cliqued' = {} /\ starLabels' = {}
  /\ UNCHANGED <<drawing, directed, bicliques, plain>>
-----------------------------------------------------------------------------
(***************************************************************************)
(* Cliques and bicliques.  The first peer of a group stands for it.         *)
(***************************************************************************)
Representatives == {CHOOSE n \in g : TRUE : g \in groups}
NodeEdges(c) ==
  LET all == {<<e[1], e[2]>> : e \in {f \in edges : f[3] = c /\ f[1] # f[2]}}
  IN  all \cap (Representatives \X Representatives)
Flip(rel) == {<<x[2], x[1]>> : x \in rel}
\* reformat_graph, undirected edges as both directions
Mutual(rel) == rel \cap Flip(rel)
\* networkx.find_cliques: the maximal ones
IsClique(rel, S) == \A n, m \in S : n # m => <<n, m>> \in rel
MaximalCliques(rel) ==
  {S \in SUBSET Sources(rel) :
     /\ S # {} /\ IsClique(rel, S)
     /\ \A n \in Sources(rel) \ S : ~IsClique(rel, S \cup {n})}
\* _creates_cliqued_graph: a star for each namespace with several nodes, joined if
\* they are two, else by another star that has the single nodes too.
Node(n) == <<"node", n>>
CliqueEdges(S) ==
  LET namespaces == {NodeNs(n) : n \in S}
      In(ns) == {Node(n) : n \in {m \in S : NodeNs(m) = ns}}
      Star(ns) == <<"namespace_star", S, ns>>
      several == {ns \in namespaces : Cardinality(In(ns)) > 1}
      hubs == {Star(ns) : ns \in several} \cup UNION {In(ns) : ns \in namespaces \ several}
  IN  (UNION {{Star(ns)} \X In(ns) : ns \in several})
      \cup CASE Cardinality(hubs) > 2 -> hubs \X {<<"clique_star", S>>}
             [] Cardinality(hubs) = 2 -> {x \in hubs \X hubs : x[1] # x[2]}
             [] OTHER -> {}
StarsOf(rel) == {v \in Sources(rel) \cup Targets(rel) : v[1] # "node"}
\* The stars are numbered from 0 for each set of connections, clique by clique, the star
\* of a clique after those of its namespaces.
Numberings(stars) ==
  {num \in Injection(stars, 0 .. Cardinality(stars) - 1) :
     \A v, w \in stars : num[v] < num[w] =>
       /\ v[2] = w[2] => v[1] = "namespace_star"
       /\ v[2] # w[2] => \A u \in stars : u[2] = v[2] => num[u] < num[w]}
\* Only the star of a clique has the connections in its name; a name is a node of the graph.
NameOf(num, c, v) ==
  CASE v[1] = "namespace_star" -> <<"clique", num[v]>>
    [] v[1] = "clique_star" -> <<"clique_of", c, num[v]>>
    [] OTHER -> v
Renamed(rel, num, c) == {<<NameOf(num, c, x[1]), NameOf(num, c, x[2])>> : x \in rel}
\* (mutant: what a clique of any size has is removed)
InCliquesOfAnySize(rel) == UNION {S \X S : S \in MaximalCliques(rel)}
BigCliques(rel) == {S \in MaximalCliques(rel) : Cardinality(S) >= min_clique_size}
InCliques(rel) == UNION {S \X S : S \in BigCliques(rel)}
Draw(c) ==
  /\ drawing = NotDrawing /\ c \in undrawn
  /\ drawing' = c /\ undrawn' = undrawn \ {c}
  /\ LET rel == Mutual(NodeEdges(c))
         stars == UNION {CliqueEdges(S) : S \in BigCliques(rel)}
     IN  /\ \E num \in Numberings(StarsOf(stars)) :
              /\ cliqued' = cliqued \cup Renamed(stars, num, c)
              /\ starLabels' = starLabels \cup {<<NameOf(num, c, v), c>> : v \in StarsOf(stars)}
         /\ directed' = NodeEdges(c) \ InCliques(rel)
  /\ bicliques' = {} /\ plain' = {}
  /\ UNCHANGED <<edges, groups>>

\* _creates_bicliqued_graph: for the targets of each source all sources that have
\* these targets; one of those that save most edges.
Bicliques(rel) ==
  {<<{t \in Sources(rel) : From(rel, s) \subseteq From(rel, t)}, From(rel, s)>> : s \in Sources(rel)}
Rank(b) == Cardinality(b[1]) * Cardinality(b[2]) - Cardinality(b[1]) - Cardinality(b[2])
Best(b, rel) == Rank(b) >= 1 /\ \A x \in Bicliques(rel) : Rank(x) <= Rank(b)
TakeBiclique ==
  /\ drawing # NotDrawing
  /\ \E b \in Bicliques(directed) :
       /\ Best(b, directed)
       /\ bicliques' = bicliques \cup {b} /\ directed' = directed \ (b[1] \X b[2])
  /\ UNCHANGED <<edges, groups, drawing, undrawn, plain, cliqued, starLabels>>
FinishDrawing ==
  /\ drawing # NotDrawing /\ ~\E b \in Bicliques(directed) : Best(b, directed)
  /\ plain' = directed /\ directed' = {} /\ drawing' = NotDrawing
  /\ UNCHANGED <<edges, groups, undrawn, bicliques, cliqued, starLabels>>

GraphStep == (\E c \in undrawn : Draw(c)) \/ TakeBiclique \/ FinishDrawing
GraphDone == drawing = NotDrawing /\ undrawn = {}
-----------------------------------------------------------------------------
(***************************************************************************)
(* Properties.                                                             *)
(***************************************************************************)
\* What is connected by a clique is at stars that are joined, or joined to one star.  A
\* star that has the connections as its label is one for them.
Around(v) == {x[2] : x \in {y \in cliqued \cup Flip(cliqued) : y[1] = v}}
Stars(V) == {v \in V : <<v, drawing>> \in starLabels}
CliqueReading(n) ==
  LET stars == Stars(Around(Node(n)))
      joined == stars \cup UNION {Stars(Around(s)) : s \in stars}
      all == joined \cup UNION {Stars(Around(s)) : s \in joined}
  IN  {m \in Representatives : m # n /\ Node(m) \in UNION {Around(s) : s \in all}}
Reading ==
  plain \cup directed \cup (UNION {b[1] \X b[2] : b \in bicliques})
  \cup UNION {{n} \X CliqueReading(n) : n \in Representatives}
\* No star of these connections has the name of a star of others ("clique_0").
NamesApart == \A x, y \in starLabels : x[1] = y[1] /\ x[2] = drawing => y[2] = drawing
\* The drawing shows an edge between two nodes, directly or through a clique or a
\* biclique ("Traffic allowed between any two workloads connected to the CLIQUE"), if
\* the connections are allowed for all peers of the two nodes; and only if they are,
\* as long as its stars share no name with those of other connections.
DrawingReadsExactly ==
  drawing # NotDrawing =>
    LET reading == Reading
        all == {<<e[1], e[2]>> : e \in {f \in edges : f[3] = drawing}}
    IN  \A g, h \in groups : g # h =>
          LET shown == <<CHOOSE n \in g : TRUE, CHOOSE n \in h : TRUE>> \in reading
          IN  \A n \in g, m \in h :
                /\ <<n, m>> \in all => shown
                /\ NamesApart /\ shown => <<n, m>> \in all
=============================================================================
