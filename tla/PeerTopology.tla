---------------------------- MODULE PeerTopology ----------------------------
(***************************************************************************)
(* The topology a configuration is analysed on: the peers, namespaces and    *)
(* services found in the input resources (TopologyObjectsFinder.py, Peer.py, *)
(* K8sService.py), and the PeerContainer the policies' selectors are          *)
(* evaluated against.  Operators only; the modules that parse resources       *)
(* build their actions from them.                                             *)
(*                                                                           *)
(* A dict is a function, an object that never changes after it is made (a     *)
(* namespace with its labels) is its value, a set of IP addresses is a set.   *)
(***************************************************************************)
EXTENDS Integers, Sequences, FiniteSets, SequencesExt, TLC

Empty == [x \in {} |-> x]                        \* {}
NoNamespace == [name |-> "None", labels |-> Empty]
NoOwner == [name |-> "None", kind |-> "None", hex |-> FALSE]
NoName == "None"
EmptyString == ""
Get(d, k, default) == IF k \in DOMAIN d THEN d[k] ELSE default
-----------------------------------------------------------------------------
(* The peers.  The name of the i-th pod of a workload w is <<w, i>>, any     *)
(* other name n is <<n, 0>>.                                                  *)

\* Every namespace gets a label with its name.
K8sNamespace(name, labels) == [name |-> name, labels |-> labels @@ ("metadata.name" :> name)]

Peer(kind, name, ns, labels) ==
  [kind |-> kind, name |-> name, namespace |-> ns, labels |-> labels, extra_labels |-> Empty,
   profiles |-> << >>, named_ports |-> Empty, workload |-> << >>, sa |-> NoName, ips |-> {}]

\* A pod belongs to its owner; a replica set whose name ends with a hexadecimal
\* suffix stands for the Deployment or StatefulSet that made it.
WorkloadName(name, owner) ==
  CASE owner = NoOwner -> <<"Pod", name[1], name[2]>>
    [] owner.kind = "ReplicaSet" /\ owner.hex -> <<"Deployment-StatefulSet", owner.name, 0>>
    [] OTHER -> <<owner.kind, owner.name, 0>>

\* What __eq__ and __hash__ look at: two peers with one key are one member of a set.
Key(p) ==
  CASE p.kind = "pod" -> <<"pod", p.namespace.name, p.name>>
    [] p.kind = "ips" -> <<"ips", p.ips>>
    [] OTHER -> <<p.kind, p.name>>
Keys(S) == {Key(p) : p \in S}

\* PeerSet.add keeps the member that is there.
AddTo(S, p) == IF Key(p) \in Keys(S) THEN S ELSE S \cup {p}

\* Isomorphic peers, which no selector can tell apart, have the same form.  The
\* first profile counts by its place, the others do not.
CanonicalForm(p) ==
  LET rest == {p.profiles[i] : i \in 2..Len(p.profiles)}
      base == <<IF p.profiles = << >> THEN << >> ELSE <<Head(p.profiles), rest>>, p.labels>>
  IN CASE p.kind = "pod" -> <<"pod", p.namespace.name, p.workload, base>>
       [] p.kind = "hep" -> <<"hep", base>>
       [] p.kind = "ips" /\ p.namespace # NoNamespace -> <<"ips", p.namespace.name, p.ips>>
       [] OTHER -> <<p.kind, p.name>>

IsGlobal(p) == p.kind = "hep" \/ (p.kind = "ips" /\ p.namespace = NoNamespace)

\* The members of a PeerSet as its operators see them: an IpBlock is its addresses.
Atoms(p) == IF p.kind = "ips" THEN {<<"ip", a>> : a \in p.ips} ELSE {Key(p)}
AtomsOf(S) == UNION {Atoms(p) : p \in S}
-----------------------------------------------------------------------------
(* The finders.  t is what one ResourcesParser has found so far:             *)
(* t.namespaces maps names to namespaces, t.peers is the peer set,            *)
(* t.representatives counts the peers of each form, t.services is a list;     *)
(* t.base is the BasePeerSet, the numbering of all peers of all               *)
(* configurations.                                                            *)

EmptyFinders(base) ==
  [namespaces |-> Empty, peers |-> {}, representatives |-> Empty, livesim |-> {},
   services |-> << >>, base |-> base]

\* A manifest of a namespace replaces what is known of it.
AddNamespace(t, d) ==
  [t EXCEPT !.namespaces = (d.name :> K8sNamespace(d.name, d.labels)) @@ @]

\* get_or_update_namespace: a namespace that is only mentioned has no labels.
Mention(t, name) ==
  IF name \in DOMAIN t.namespaces THEN t
  ELSE [t EXCEPT !.namespaces = (name :> K8sNamespace(name, Empty)) @@ @]

\* Mutant: one peer of each form.
OneIsEnough == 1
MaxIsomorphic == 2

AddToBase(base, p) ==
  IF p.kind = "ips" \/ Key(p) \in {Key(base[i]) : i \in DOMAIN base} THEN base ELSE Append(base, p)

AddPeer(t, p) ==
  LET form == CanonicalForm(p)
      known == Get(t.representatives, form, 0)
  IN IF known >= MaxIsomorphic THEN t
     ELSE [t EXCEPT !.representatives = (form :> known + 1) @@ @,
                    !.peers = AddTo(@, p),
                    !.base = AddToBase(@, p)]

Pod(d, name, ns, owner) ==
  [Peer("pod", name, ns, d.labels) EXCEPT !.named_ports = d.ports, !.sa = d.sa,
                                          !.workload = WorkloadName(name, owner)]

AddPodFromYaml(t, d) ==
  LET u == Mention(t, d.namespace)
  IN AddPeer(u, Pod(d, <<d.name, 0>>, u.namespaces[d.namespace], d.owner))

\* At most two pods of a workload; a paused job has none, the replicas of a job
\* are its parallelism, and those of any other kind default to 1.  The workload
\* owns them, so that the name of a replica set is read for its suffix here too.
AddPodsFromWorkloadYaml(t, d) ==
  LET u == Mention(t, d.namespace)
      replicas == IF d.workload = "CronJob" THEN 1 ELSE d.replicas
      wanted == IF replicas < MaxIsomorphic THEN replicas ELSE MaxIsomorphic
      owner == [name |-> d.name, kind |-> d.workload, hex |-> d.hex]
      pod(i) == Pod(d, <<d.name, i>>, u.namespaces[d.namespace], owner)
  IN FoldLeft(LAMBDA acc, i : AddPeer(acc, pod(i)), u, [i \in 1..wanted |-> i])

AddNetworkSetFromYaml(t, d) ==
  LET global == d.kind = "GlobalNetworkSet"
      u == IF global THEN t ELSE Mention(t, d.namespace)
      ns == IF global THEN NoNamespace ELSE u.namespaces[d.namespace]
  IN IF d.name = NoName THEN t
     ELSE AddPeer(u, [Peer("ips", <<d.name, 0>>, ns, d.labels) EXCEPT !.ips = d.nets])

AddHepFromYaml(t, d) ==
  AddPeer(t, [Peer("hep", <<d.name, 0>>, NoNamespace, d.labels) EXCEPT
                !.named_ports = d.ports, !.profiles = d.profiles])

\* A workload endpoint is the pod it names.
AddWepFromYaml(t, d) ==
  LET u == Mention(t, d.namespace)
      name == <<d.pod, 0>>
  IN AddPeer(u, [Peer("pod", name, u.namespaces[d.namespace], d.labels) EXCEPT
                   !.named_ports = d.ports, !.profiles = d.profiles,
                   !.workload = WorkloadName(name, NoOwner)])

\* Every host of a service entry is a peer of its own; one that is known is not
\* made again but counted again.
ParseServiceEntry(d) == {Peer("dns", <<host, 0>>, NoNamespace, Empty) : host \in d.hosts}
AddDnsEntriesFromYaml(t, d) == FoldLeft(AddPeer, t, SetToSeq(ParseServiceEntry(d)))

\* What a pods finder does with a resource that is not a list.
AddEp(t, d) ==
  CASE d.kind = "Pod" -> AddPodFromYaml(t, d)
    [] d.kind = "Workload" -> AddPodsFromWorkloadYaml(t, d)
    [] d.kind = "WorkloadEndpoint" -> AddWepFromYaml(t, d)
    [] d.kind = "HostEndpoint" -> AddHepFromYaml(t, d)
    [] d.kind \in {"NetworkSet", "GlobalNetworkSet"} -> AddNetworkSetFromYaml(t, d)
    [] d.kind = "ServiceEntry" -> AddDnsEntriesFromYaml(t, d)
    [] OTHER -> t

Items(d) == IF d.kind = "List" THEN d.items ELSE <<d>>
AddEpsFromYaml(t, d) == FoldLeft(AddEp, t, Items(d))

ParseYamlCodeForNs(t, d) ==
  FoldLeft(LAMBDA acc, item : IF item.kind = "Namespace" THEN AddNamespace(acc, item) ELSE acc,
           t, Items(d))

\* The ports of a service: a name is taken once, port 0 is no port.  The target
\* is the port itself unless another is given, by number or by name.
ServicePorts(d) ==
  FoldLeft(LAMBDA acc, p :
             IF p.port = 0 \/ \E i \in DOMAIN acc : acc[i].name = p.name THEN acc ELSE Append(acc, p),
           << >>, d.ports)

ParseService(t, d) ==
  LET u == Mention(t, d.namespace)
  IN [u EXCEPT !.services = Append(@, [name |-> d.name, namespace |-> u.namespaces[d.namespace],
        selector |-> d.selector, ports |-> ServicePorts(d), target_pods |-> {}])]

ParseYamlCodeForService(t, d) ==
  FoldLeft(LAMBDA acc, item : IF item.kind = "Service" THEN ParseService(acc, item) ELSE acc,
           t, Items(d))
-----------------------------------------------------------------------------
(* The container c: c.peers, c.namespaces, c.services (by namespace and      *)
(* name), c.livesim.  The queries answer with the atoms of a PeerSet.         *)

HasLabel(p, key, values) ==
  \/ key \in DOMAIN p.labels /\ p.labels[key] \in values
  \/ key \in DOMAIN p.extra_labels /\ p.extra_labels[key] \in values
HasKey(p, key) == key \in DOMAIN p.labels \/ key \in DOMAIN p.extra_labels

\* A namespace is compared by its name; NoNamespace restricts nothing.
InNamespace(p, ns) == ns = NoNamespace \/ p.namespace.name = ns.name

\* Only In and NotIn; the actions on parts of a value are those of Calico.
GetPeersWithLabel(c, key, values, action, ns) ==
  AtomsOf({p \in c.peers : InNamespace(p, ns) /\ (HasLabel(p, key, values) <=> action = "In")})

GetPeersWithKey(c, ns, key, does_not_exist) ==
  AtomsOf({p \in c.peers : InNamespace(p, ns) /\ (HasKey(p, key) # does_not_exist)})

\* A label the namespace does not have reads as the empty string.
GetNamespacePodsWithLabel(c, key, values, action) ==
  AtomsOf({p \in c.peers : /\ p.namespace # NoNamespace
                           /\ (Get(p.namespace.labels, key, EmptyString) \in values) <=> action = "In"})

GetNamespacePodsWithKey(c, key, does_not_exist) ==
  AtomsOf({p \in c.peers : /\ p.namespace # NoNamespace
                           /\ (key \in DOMAIN p.namespace.labels) # does_not_exist})

\* All peers but the DNS entries.
AllPeersGroup(c) == AtomsOf({p \in c.peers : p.kind # "dns"})
NonGlobalPeers(c) == AtomsOf({p \in c.peers : p.kind # "dns" /\ ~IsGlobal(p)})
GlobalPeers(c) == AtomsOf({p \in c.peers : IsGlobal(p)})
\* get_all_peers_group(add_external_ips=True, include_dns_entries=True)
AllPeersAndIps(c, ips) == AtomsOf(c.peers) \cup {<<"ip", a>> : a \in ips}

GetNamespacePods(c, ns) ==
  IF ns = NoNamespace THEN AllPeersGroup(c)
  ELSE AtomsOf({p \in c.peers : p.namespace.name = ns.name})

\* get_namespace of the container: a namespace a policy mentions is added.
GetNamespace(c, name) ==
  IF name \in DOMAIN c.namespaces THEN c
  ELSE [c EXCEPT !.namespaces = (name :> K8sNamespace(name, Empty)) @@ @]

GetProfilePods(c, profile, first_only) ==
  {p \in c.peers : /\ p.kind \in {"pod", "hep"} /\ p.profiles # << >>
                   /\ IF first_only THEN Head(p.profiles) = profile
                      ELSE \E i \in DOMAIN p.profiles : p.profiles[i] = profile}

\* labelsToApply: the labels of a profile go to all pods that have the profile.
ApplyExtraLabels(c, profile, labels) ==
  LET pods == GetProfilePods(c, profile, FALSE)
  IN [c EXCEPT !.peers = {IF p \in pods THEN [p EXCEPT !.extra_labels = labels @@ @] ELSE p : p \in @}]

ClearPodsExtraLabels(c) ==
  [c EXCEPT !.peers = {[p EXCEPT !.extra_labels = Empty] : p \in @}]

\* The pods behind a service: those of its namespace that have every label of the
\* selector and, for each target given by name, such a port of the same protocol.
TargetPods(c, srv) ==
  LET selected ==
        IF DOMAIN srv.selector = {} THEN {}
        ELSE {p \in c.peers : \A k \in DOMAIN srv.selector :
                InNamespace(p, srv.namespace) /\ HasLabel(p, k, {srv.selector[k]})}
      resolves(p, port) ==
        /\ port.target.named
        => port.target.name \in DOMAIN p.named_ports /\ p.named_ports[port.target.name][2] = port.protocol
  IN Keys({p \in selected : \A i \in DOMAIN srv.ports : resolves(p, srv.ports[i])})

\* A service replaces an earlier one of the same name and namespace.
SetServicesAndPopulateTargetPods(c, list) ==
  FoldLeft(LAMBDA acc, srv :
             [(IF DOMAIN srv.selector = {} THEN acc ELSE GetNamespace(acc, srv.namespace.name)) EXCEPT !.services =
                (<<srv.namespace.name, srv.name>> :> [srv EXCEPT !.target_pods = TargetPods(acc, srv)]) @@ @],
           c, list)

PeerContainer(peers, namespaces, services, livesim) ==
  SetServicesAndPopulateTargetPods(
    [peers |-> peers, namespaces |-> namespaces, services |-> Empty, livesim |-> livesim], services)

\* Two containers that a query may compare.
IsComparable(c, d) ==
  /\ AtomsOf(c.peers) = AtomsOf(d.peers)
  /\ DOMAIN c.services = DOMAIN d.services
=============================================================================
