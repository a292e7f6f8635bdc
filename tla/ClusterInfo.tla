---------------------------- MODULE ClusterInfo ----------------------------
(***************************************************************************)
(* What a report of connectivity knows about the cluster (ClusterInfo.py):   *)
(* the peers, their namespaces, and their labels as far as the policies       *)
(* mention them.  A relation of peers stands for the properties a report      *)
(* groups; its cubes are those of the canonical hypercube set.                *)
(***************************************************************************)
EXTENDS Integers, FiniteSets, Sequences, Functions

CONSTANTS
  Pods, Heps, DnsEntries,  \* the peers that are not IP addresses
  Ips, Ipv6,               \* addresses as integers: adjacent ones form a range
  NsOf,                    \* the namespace of each pod
  NoNs,                    \* Python's None, the namespace of the other peers
  LabelsOf,                \* the labels of pods and host endpoints
  AllowedLabels,           \* the keys of the policies, tuples of keys for "and"
  Conns                    \* the connections: pairs of a protocol and a port

Clusters == Pods \cup Heps
Named == Clusters \cup DnsEntries
Peers == Named \cup Ips
\* Peers are finitely many, and an address or a range of them is no other peer.
ASSUME PeersAssumption ==
  /\ IsFiniteSet(Named) /\ IsFiniteSet(Ips) /\ Ips \subseteq Int /\ Ipv6 \subseteq Ips
  /\ \A p \in Named : p \notin Ips /\ \A S \in SUBSET Ips : p # S
  /\ DOMAIN NsOf = Pods /\ NoNs \notin {NsOf[p] : p \in Pods}
\* A connection has a protocol and a port.
ASSUME ConnsAssumption == \A c \in Conns : c = <<c[1], c[2]>>

NamespaceOf(p) == IF p \in Pods THEN NsOf[p] ELSE NoNs
ns_dict(ns) == {p \in Named : NamespaceOf(p) = ns}
NsPeers(namespaces) == UNION {ns_dict(ns) : ns \in namespaces}

NoValue == "#NO_LABEL_VALUE"
\* A key is a tuple of one or more; '#' is in no value of a label.
ASSUME LabelsAssumption ==
  /\ DOMAIN LabelsOf = Named
  /\ \A p \in Named : \A k \in DOMAIN LabelsOf[p] : LabelsOf[p][k] # NoValue
  /\ \A key \in AllowedLabels : Len(key) \in Nat \ {0} /\ DOMAIN key = 1 .. Len(key)
HasKey(p, k) == k \in DOMAIN LabelsOf[p]
\* A key has values, NoValue among them, in namespaces where some peer has it.
Known(p, key) == \A i \in DOMAIN key : \E q \in ns_dict(NamespaceOf(p)) : HasKey(q, key[i])
ValueOf(p, key) == [i \in DOMAIN key |-> IF HasKey(p, key[i]) THEN LabelsOf[p][key[i]] ELSE NoValue]
\* pods_labels_map[(key, value)] and all_label_values_per_ns[(key, ns)]
PodsWith(key, value) == {p \in Named : Known(p, key) /\ ValueOf(p, key) = value}
ValuesIn(key, ns) == {ValueOf(p, key) : p \in {q \in ns_dict(ns) : Known(q, key)}}
-----------------------------------------------------------------------------
\* The cubes of a relation: sources with the same targets, or (switched) targets
\* with the same sources.
Sources(rel) == {x[1] : x \in rel}
Targets(rel) == {x[2] : x \in rel}
From(rel, s) == {x[2] : x \in {y \in rel : y[1] = s}}
To(rel, d) == {x[1] : x \in {y \in rel : y[2] = d}}
CubesBySource(rel) ==
  {<<{t \in Sources(rel) : From(rel, t) = From(rel, s)}, From(rel, s)>> : s \in Sources(rel)}
CubesByTarget(rel) ==
  {<<To(rel, d), {e \in Targets(rel) : To(rel, e) = To(rel, d)}>> : d \in Targets(rel)}
\* The connections of a report: sets of pairs of peers and connections.
ConnsOf(conns, s, d) == {x[3] : x \in {y \in conns : y[1] = s /\ y[2] = d}}
PairsOf(conns) == {<<x[1], x[2]>> : x \in conns}
\* extract_src_dst_peers_from_cube: when a cube of connections has all the protocols
\* of the report, the protocol is left out.
ExtractConns(conns, protocols) ==
  UNION {(IF cube[1] = protocols THEN Sources(Conns) ELSE cube[1]) \X cube[2] : cube \in CubesBySource(conns)}
\* Of a peer with itself.
AutoPairs == {<<p, p>> : p \in Peers}
=============================================================================
