--------------------------- MODULE ResourceLoading ---------------------------
(***************************************************************************)
(* From lists of resources to network configurations (ResourcesHandler.py,   *)
(* PoliciesFinder.py): the topology of each configuration is its own, the     *)
(* global one or that of the live cluster; its policies are queued and then   *)
(* parsed over the topology; when they ask for well-known pods that are not   *)
(* there, simulated ones are added and everything is parsed a second time.    *)
(*                                                                           *)
(* Finders and the containers built from them share their objects: they hold  *)
(* the addresses of a peer set and of a dict of namespaces.                   *)
(***************************************************************************)
EXTENDS K8sManifests

CONSTANTS
  Schemes,   \* the sequences of inputs that are loaded one after the other
  LiveSim,   \* the simulated resources: a set of items
  Cluster    \* the documents of the live cluster, << >> when it is out of reach

VARIABLES
  todo,         \* the inputs that are still to be loaded
  phase,        \* "idle", "topology", "container" or "policies"
  input,        \* the input that is being loaded
  attempt,      \* 1, or 2 with simulated resources
  reading,      \* the documents the current pass has not read yet
  parser,       \* the ResourcesParser
  container,    \* the PeerContainer of the input
  pods_finders, \* by address: peers, representatives, livesim
  ns_finders,   \* by address: the namespaces by their names
  base,         \* BasePeerSet
  global,       \* the global container and finders, or Null
  configs,      \* the configurations, in the order they were made
  rebuilt       \* policies parsed again over another topology, or Null

vars == <<todo, phase, input, attempt, reading, parser, container, pods_finders, ns_finders, base, global, configs,
          rebuilt>>
heap == <<pods_finders, ns_finders, base>>

\* An input has four lists; a list that is not given is not an empty one.  Its
\* items are files, directories or 'k8s', the live cluster.
NoList == [given |-> FALSE, items |-> << >>]
List(items) == [given |-> TRUE, items |-> items]
File(docs) == [cluster |-> FALSE, livesim |-> FALSE, docs |-> docs]
Live == [cluster |-> TRUE, livesim |-> FALSE, docs |-> << >>]

EmptyPods == [peers |-> {}, representatives |-> Empty, livesim |-> {}]
NewParser(pods, ns) ==
  [pods |-> pods, ns |-> ns, services |-> << >>, queue |-> << >>, at |-> 1, policies |-> << >>, missing |-> {}]

Init ==
  /\ todo \in Schemes
  /\ phase = "idle" /\ input = Null /\ attempt = 0 /\ reading = << >>
  /\ parser = Null /\ container = Null /\ global = Null /\ rebuilt = Null
  /\ pods_finders = << >> /\ ns_finders = << >> /\ base = << >> /\ configs = << >>
-----------------------------------------------------------------------------
(* The topology.                                                             *)

\* The documents of a list, each with what is looked for in it.
Documents(items, flags) ==
  FlattenSeq([i \in DOMAIN items |->
    IF items[i].cluster THEN <<[cluster |-> TRUE, livesim |-> FALSE, flags |-> flags]>>
    ELSE [j \in DOMAIN items[i].docs |->
            [cluster |-> FALSE, livesim |-> items[i].livesim, flags |-> flags, doc |-> items[i].docs[j]]]])

\* A list of its own, or the list of all resources.
Specific(list) == list.items # << >>
DetermineTopologyResource(list, resource_list) == IF Specific(list) THEN list ELSE resource_list

\* Mutant: the pods are read before the namespaces.
PodsFirst(in) ==
  LET ns == DetermineTopologyResource(in.ns_list, in.resource_list)
      pods == DetermineTopologyResource(in.pod_list, in.resource_list)
  IN IF pods = in.resource_list /\ ns = in.resource_list THEN Documents(ns.items, {"ns", "pods"})
     ELSE Documents(pods.items, {"pods"}) \o Documents(ns.items, {"ns"})

\* Namespaces and pods of one list are read together, in the order of the
\* documents; of two lists the namespaces come first.
TopologyDocuments(in) ==
  LET ns == DetermineTopologyResource(in.ns_list, in.resource_list)
      pods == DetermineTopologyResource(in.pod_list, in.resource_list)
  IN IF pods = in.resource_list /\ ns = in.resource_list THEN Documents(ns.items, {"ns", "pods"})
     ELSE Documents(ns.items, {"ns"}) \o Documents(pods.items, {"pods"})

\* parse_elements starts with a new parser and new finders.
StartParsing(in) ==
  /\ phase' = "topology" /\ input' = in /\ container' = Null
  /\ reading' = TopologyDocuments(in)
  /\ pods_finders' = Append(pods_finders, EmptyPods)
  /\ ns_finders' = Append(ns_finders, Empty)
  /\ parser' = NewParser(Len(pods_finders'), Len(ns_finders'))

Load ==
  /\ phase = "idle" /\ todo # << >>
  /\ StartParsing(Head(todo))
  /\ todo' = Tail(todo) /\ attempt' = 1
  /\ UNCHANGED <<base, global, configs, rebuilt>>

\* What the finders of the parser have found, and its place in the heap.
Found ==
  [namespaces |-> ns_finders[parser.ns], peers |-> pods_finders[parser.pods].peers,
   representatives |-> pods_finders[parser.pods].representatives,
   livesim |-> pods_finders[parser.pods].livesim, services |-> parser.services, base |-> base]
StoreFound(t) ==
  /\ ns_finders' = [ns_finders EXCEPT ![parser.ns] = t.namespaces]
  /\ pods_finders' = [pods_finders EXCEPT ![parser.pods] =
       [peers |-> t.peers, representatives |-> t.representatives, livesim |-> t.livesim]]
  /\ parser' = [parser EXCEPT !.services = t.services]
  /\ base' = t.base

\* The peers that come from simulated resources are remembered.
AddEps(t, step) ==
  LET added == AddEpsFromYaml(t, step.doc)
  IN IF step.livesim THEN [added EXCEPT !.livesim = @ \cup {p \in added.peers : Key(p) \notin Keys(t.peers)}]
     ELSE added
ReadDocument(t, step) ==
  LET u == IF "ns" \in step.flags THEN ParseYamlCodeForNs(t, step.doc) ELSE t
  IN IF "pods" \in step.flags THEN ParseYamlCodeForService(AddEps(u, step), step.doc) ELSE u

\* The cluster is asked for the namespaces, for the pods and for the services.
ReadCluster(t, flags) ==
  LET ns == IF "ns" \in flags THEN FoldLeft(ParseYamlCodeForNs, t, Cluster) ELSE t
  IN IF "pods" \in flags
     THEN FoldLeft(ParseYamlCodeForService,
                   FoldLeft(LAMBDA acc, d : IF d.kind = "Pod" THEN AddEpsFromYaml(acc, d) ELSE acc, ns, Cluster), Cluster)
     ELSE ns

ReadTopology ==
  /\ phase = "topology" /\ reading # << >>
  /\ StoreFound(IF Head(reading).cluster THEN ReadCluster(Found, Head(reading).flags)
                ELSE ReadDocument(Found, Head(reading)))
  /\ reading' = Tail(reading)
  /\ UNCHANGED <<todo, phase, input, attempt, container, global, configs, rebuilt>>

\* What parse_lists_for_topology returns, after the last document: everything,
\* "pods" or "ns" when the other has to come from the global topology, or nothing.
TopologyFound ==
  LET specific_ns == Specific(input.ns_list)
      specific_pods == Specific(input.pod_list)
      ns == DOMAIN Found.namespaces # {}
      pods == Found.peers # {}
  IN CASE (pods /\ ns) \/ (specific_pods /\ specific_ns) \/ (specific_pods /\ ns) -> "all"
       [] ~pods /\ ns /\ ~specific_pods -> "ns"
       [] specific_pods /\ ~ns /\ ~specific_ns -> "pods"
       [] OTHER -> "nothing"

\* The container over what the finders at these addresses have found.
BuildPeerContainer(pods, ns, nss) ==
  LET built == PeerContainer(pods_finders[pods].peers, nss[ns], parser.services, pods_finders[pods].livesim)
  IN /\ container' = [pods |-> pods, ns |-> ns, services |-> built.services]
     /\ ns_finders' = [nss EXCEPT ![ns] = built.namespaces]
SaveAsGlobal(pods, ns) ==
  global' = IF input.save THEN [container |-> container', pods |-> pods, ns |-> ns] ELSE global
TopologyRead == phase = "topology" /\ reading = << >>
ContainerBuilt ==
  /\ phase' = "container"
  /\ UNCHANGED <<todo, input, attempt, reading, configs, rebuilt>>

\* Own resources; _fill_empty_finder takes what is missing from the global finders.
BuildOwnContainer ==
  /\ TopologyRead /\ TopologyFound # "nothing"
  /\ LET pods == IF TopologyFound = "ns" /\ global # Null THEN global.pods ELSE parser.pods
         ns == IF TopologyFound = "pods" /\ global # Null THEN global.ns ELSE parser.ns
     IN /\ BuildPeerContainer(pods, ns, ns_finders)
        /\ parser' = [parser EXCEPT !.pods = pods, !.ns = ns]
        /\ SaveAsGlobal(pods, ns)
  /\ ContainerBuilt /\ UNCHANGED <<pods_finders, base>>

\* Mutant: the global container itself.
ShareGlobal ==
  /\ container' = global.container
  /\ UNCHANGED <<pods_finders, ns_finders>>
\* copy.deepcopy
CopyGlobal ==
  /\ pods_finders' = Append(pods_finders, pods_finders[global.container.pods])
  /\ ns_finders' = Append(ns_finders, ns_finders[global.container.ns])
  /\ container' = [global.container EXCEPT !.pods = Len(pods_finders'), !.ns = Len(ns_finders')]

CopyGlobalContainer ==
  /\ TopologyRead /\ TopologyFound = "nothing" /\ global # Null
  /\ CopyGlobal
  /\ SaveAsGlobal(parser.pods, parser.ns)
  /\ ContainerBuilt /\ UNCHANGED <<parser, base>>

\* No topology at all: that of the live cluster, if nothing else was named.
BuildFromCluster ==
  /\ TopologyRead /\ TopologyFound = "nothing" /\ global = Null
  /\ LET t == IF input.resource_list.given THEN Found ELSE ReadCluster(Found, {"ns", "pods"})
         built == PeerContainer(t.peers, t.namespaces, t.services, t.livesim)
     IN /\ StoreFound([t EXCEPT !.namespaces = built.namespaces])
        /\ container' = [pods |-> parser.pods, ns |-> parser.ns, services |-> built.services]
  /\ SaveAsGlobal(parser.pods, parser.ns)
  /\ ContainerBuilt

\* set_global_peer_container looks for no policies.
FinishGlobal ==
  /\ phase = "container" /\ input.global
  /\ phase' = "idle"
  /\ UNCHANGED <<heap, todo, input, attempt, reading, parser, container, global, configs, rebuilt>>
-----------------------------------------------------------------------------
(* The policies.                                                             *)

View(c) ==
  [peers |-> pods_finders[c.pods].peers, namespaces |-> ns_finders[c.ns], services |-> c.services,
   livesim |-> pods_finders[c.pods].livesim]

FromCluster(in) == ~in.np_list.given /\ in.resource_list.items = << >>
PolicyDocuments(in) ==
  IF in.np_list.given THEN Documents(in.np_list.items, {"policies"})
  ELSE IF FromCluster(in) THEN Documents(<<Live>>, {"policies"})
  ELSE Documents(in.resource_list.items, {"policies"})

\* set_peer_container forgets the labels that profiles have given to the pods.
StartPolicies ==
  /\ phase = "container" /\ ~input.global
  /\ phase' = "policies"
  /\ pods_finders' = [pods_finders EXCEPT ![container.pods].peers = ClearPodsExtraLabels(View(container)).peers]
  /\ reading' = PolicyDocuments(input)
  /\ UNCHANGED <<ns_finders, base, todo, input, attempt, parser, container, global, configs, rebuilt>>

PolicyKinds == {"K8sNetworkPolicy", "CalicoProfile"}
\* Mutant: a profile waits for its turn.
EnqueueLast(queue, d) == IF d.kind \in PolicyKinds THEN Append(queue, d) ELSE queue
\* Profiles must be parsed first.
Enqueue(queue, d) ==
  CASE d.kind = "CalicoProfile" -> <<d>> \o queue
    [] d.kind \in PolicyKinds \ {"CalicoProfile"} -> Append(queue, d)
    [] OTHER -> queue
EnqueueAll(queue, d) == FoldLeft(Enqueue, queue, Items(d))
\* Of the live cluster only the network policies are asked for.
ClusterPolicies == SelectSeq(Cluster, LAMBDA d : d.kind = "K8sNetworkPolicy")

ReadPolicies ==
  /\ phase = "policies" /\ reading # << >>
  /\ parser' = [parser EXCEPT !.queue =
       IF Head(reading).cluster THEN FoldLeft(EnqueueAll, @, ClusterPolicies) ELSE EnqueueAll(@, Head(reading).doc)]
  /\ reading' = Tail(reading)
  /\ UNCHANGED <<heap, todo, phase, input, attempt, container, global, configs, rebuilt>>

\* append_policy: the first of a name stays.
AppendPolicy(policies, policy) ==
  IF \E i \in DOMAIN policies : policies[i].name = policy.name /\ policies[i].namespace = policy.namespace
  THEN policies ELSE Append(policies, policy)

\* One turn of parse_policies_in_parse_queue; acc.c is the container.
AddParsed(acc, policy) ==
  [acc EXCEPT !.policies = AppendPolicy(@, policy), !.missing = @ \cup policy.missing]
ParseOne(acc, d) ==
  IF d.kind = "CalicoProfile" THEN [acc EXCEPT !.c = ApplyExtraLabels(@, d.name, d.labelsToApply)]
  ELSE AddParsed([acc EXCEPT !.c = GetNamespace(@, d.namespace)],
                 ParseK8sPolicy(GetNamespace(acc.c, d.namespace), base, d))
StoreView(address, view) ==
  /\ pods_finders' = [pods_finders EXCEPT ![address.pods].peers = view.peers]
  /\ ns_finders' = [ns_finders EXCEPT ![address.ns] = view.namespaces]

\* The queue is parsed when the last document has been read, unless the policies
\* come from the live cluster because no list was given.
QueueRead == phase = "policies" /\ reading = << >>
QueueParsed == QueueRead /\ (FromCluster(input) \/ parser.at > Len(parser.queue))
ParsePolicy ==
  /\ QueueRead /\ ~QueueParsed
  /\ LET acc == ParseOne([c |-> View(container), policies |-> parser.policies, missing |-> parser.missing],
                         parser.queue[parser.at])
     IN /\ StoreView(container, acc.c)
        /\ parser' = [parser EXCEPT !.at = @ + 1, !.policies = acc.policies, !.missing = acc.missing]
  /\ UNCHANGED <<base, todo, phase, input, attempt, reading, container, global, configs, rebuilt>>
-----------------------------------------------------------------------------
(* Simulated resources.                                                      *)

\* parse_livesim_yamls: the labels of the namespaces and the pods of an item.
ItemLabels(item) ==
  LET t == FoldLeft(LAMBDA acc, d : AddEpsFromYaml(ParseYamlCodeForNs(acc, d), d), EmptyFinders(<< >>), item.docs)
      of(labels) == {<<k, labels[k]>> : k \in DOMAIN labels}
  IN UNION {of(t.namespaces[n].labels) : n \in DOMAIN t.namespaces} \cup UNION {of(p.labels) : p \in t.peers}
AnalyzeLivesim(missing) == {item \in LiveSim : ItemLabels(item) \cap missing # {}}

\* The lists that have something get the new items at their ends.
Extended(list, addons) == IF list.items = << >> THEN list ELSE [list EXCEPT !.items = @ \o addons]
\* Mutant: the list of pods is left as it was.
WithAddonsForNamespaces(in, addons) ==
  [in EXCEPT !.ns_list = Extended(@, addons), !.resource_list = Extended(@, addons)]
WithAddons(in, addons) ==
  [in EXCEPT !.ns_list = Extended(@, addons), !.pod_list = Extended(@, addons),
             !.resource_list = Extended(@, addons)]

TryAgain ==
  /\ QueueParsed /\ attempt = 1 /\ AnalyzeLivesim(parser.missing) # {}
  /\ \E addons \in SetToSeqs(AnalyzeLivesim(parser.missing)) : StartParsing(WithAddons(input, addons))
  /\ attempt' = 2
  /\ UNCHANGED <<base, todo, global, configs, rebuilt>>

BuildConfig ==
  /\ QueueParsed /\ (attempt = 2 \/ AnalyzeLivesim(parser.missing) = {})
  /\ configs' = Append(configs, [input |-> input, container |-> container, queue |-> parser.queue,
                                 policies |-> parser.policies])
  /\ phase' = "idle"
  /\ UNCHANGED <<heap, todo, input, attempt, reading, parser, container, global, rebuilt>>

RebuildPolicies(i, c) == FoldLeft(ParseOne, [c |-> c, policies |-> << >>, missing |-> {}], configs[i].queue)

\* Forbids and permits parse the policies of i again over the topology of j.
RebuildByBase(i, j) ==
  /\ phase = "idle" /\ todo = << >> /\ rebuilt = Null
  /\ LET acc == RebuildPolicies(i, View(configs[j].container))
     IN /\ StoreView(configs[j].container, acc.c)
        /\ rebuilt' = [of |-> i, over |-> j, policies |-> acc.policies]
  /\ UNCHANGED <<base, todo, phase, input, attempt, reading, parser, container, global, configs>>

Next ==
  \/ Load \/ ReadTopology \/ BuildOwnContainer \/ CopyGlobalContainer \/ BuildFromCluster \/ FinishGlobal
  \/ StartPolicies \/ ReadPolicies \/ ParsePolicy \/ TryAgain \/ BuildConfig
  \/ \E i, j \in DOMAIN configs : i # j /\ RebuildByBase(i, j)
Spec == Init /\ [][Next]_vars
-----------------------------------------------------------------------------
(* Properties.                                                               *)

\* The documents of a kind among those a pass over an input reads.
Written(documents, kind) ==
  SelectSeq(FlattenSeq([i \in DOMAIN documents |->
              IF documents[i].cluster THEN Cluster ELSE Items(documents[i].doc)]), LAMBDA d : d.kind = kind)
PodsWritten(in) == Written(SelectSeq(TopologyDocuments(in), LAMBDA d : "pods" \in d.flags), "Pod")
NamespacesWritten(in) == Written(SelectSeq(TopologyDocuments(in), LAMBDA d : "ns" \in d.flags), "Namespace")

Alike(d, e) == d.labels = e.labels /\ d.namespace = e.namespace /\ d.owner = e.owner /\ (d.owner = NoOwner => d.name = e.name)
StandsFor(p, d) ==
  /\ p.kind = "pod" /\ p.labels = d.labels /\ p.namespace.name = d.namespace
  /\ p.workload = WorkloadName(<<d.name, 0>>, d.owner)

\* Of the pods of one workload that no selector tells apart the container keeps
\* two (_add_peer), so that the connections between them are seen, and of each
\* pod at least one that stands for it; a pod that is read twice is counted twice.
TwoOfAKind ==
  \A i \in DOMAIN configs : LET pods == PodsWritten(configs[i].input)
    IN \A n \in DOMAIN pods :
         LET alike == {m \in DOMAIN pods : Alike(pods[m], pods[n])}
             names == {pods[m].name : m \in alike}
             kept == {p \in View(configs[i].container).peers : StandsFor(p, pods[n])}
         IN IF Cardinality(names) = Cardinality(alike)
            THEN Cardinality(kept) = IF Cardinality(alike) = 1 THEN 1 ELSE 2
            ELSE kept # {}

\* A namespace is known before the pods of it: lists of their own are read in that
\* order, in one list for both its manifest has to come first.
NamespaceFirst(in, name) ==
  \/ Specific(in.ns_list) \/ Specific(in.pod_list)
  \/ LET documents == Documents(in.resource_list.items, {})
         Names(i) == {d.name : d \in ToSet(Written(<<documents[i]>>, "Namespace"))}
         Uses(i) == {d.namespace : d \in UNION {ToSet(Written(<<documents[i]>>, kind)) :
                                                   kind \in {"Pod", "Workload", "WorkloadEndpoint"}}}
     IN \A m, n \in DOMAIN documents : m < n /\ name \in Names(n) => name \notin Uses(m)

\* Pods that an input has itself, rather than those of the global topology, have the
\* labels of their namespaces as its manifests say, wherever the pods and the
\* namespaces are written ("we always want to parse for namespaces first"), but for
\* manifests that come too late in a list for both.
PodsSeeTheirNamespaces ==
  \A i \in DOMAIN configs : LET in == configs[i].input IN PodsWritten(in) # << >> =>
    \A p \in View(configs[i].container).peers : p.kind = "pod" /\ NamespaceFirst(in, p.namespace.name) =>
      LET written == SelectSeq(NamespacesWritten(in), LAMBDA d : d.name = p.namespace.name)
      IN written # << >> => p.namespace = K8sNamespace(Last(written).name, Last(written).labels)

PoliciesWritten == Written(PolicyDocuments(input), "K8sNetworkPolicy")
ProfilesWritten == Written(SelectSeq(PolicyDocuments(input), LAMBDA d : ~d.cluster), "CalicoProfile")
\* A pod has a label of its own or from a profile, wherever the profile is written.
HasLabelFor(p, kv) ==
  \/ kv[1] \in DOMAIN p.labels /\ p.labels[kv[1]] = kv[2]
  \/ \E i \in DOMAIN ProfilesWritten :
       LET profile == ProfilesWritten[i]
       IN /\ \E j \in DOMAIN p.profiles : p.profiles[j] = profile.name
          /\ kv[1] \in DOMAIN profile.labelsToApply /\ profile.labelsToApply[kv[1]] = kv[2]
SelectedBy(d) ==
  {p \in View(container).peers : /\ p.kind = "pod" /\ p.namespace.name = d.namespace
                                 /\ \A i \in DOMAIN d.spec.podSelector.matchLabels :
                                      HasLabelFor(p, d.spec.podSelector.matchLabels[i])}
SameName(p, d) == p.name = d.name /\ p.namespace = d.namespace

\* Such an input takes the global topology; a list of its own that turns out to be empty
\* still counts (_fill_empty_finder).
NoTopology(in) == ~Specific(in.ns_list) /\ ~Specific(in.pod_list) /\ TopologyDocuments(in) = << >>
HasProfile(config) == \E n \in DOMAIN config.queue : config.queue[n].kind = "CalicoProfile"
\* Parsed again over an equal topology (rebuild_by_base_config_resources), the
\* policies are those the configuration has.
RebuiltAlike ==
  (\A i \in {rebuilt.of, rebuilt.over} :
     NoTopology(configs[i].input) /\ ~FromCluster(configs[i].input) /\ ~HasProfile(configs[i]))
    => rebuilt.policies = configs[rebuilt.of].policies

\* Once the queue is parsed, each policy of the lists is there once, as the first
\* document of its name has it, and selects the pods by all their labels, those
\* of profiles read after it included; and parsing it again changes nothing.
PoliciesAsWritten ==
  /\ rebuilt # Null => RebuiltAlike
  /\ QueueParsed /\ ~FromCluster(input) =>
    /\ \A n \in DOMAIN PoliciesWritten :
         LET d == PoliciesWritten[n]
             same == SelectSeq(parser.policies, LAMBDA p : SameName(p, d))
         IN /\ Len(same) = 1
            /\ (~\E m \in 1..n - 1 : SameName(PoliciesWritten[m], d)) => same[1].selected = Keys(SelectedBy(d))
    /\ \A n \in DOMAIN parser.policies : \E m \in DOMAIN PoliciesWritten : SameName(parser.policies[n], PoliciesWritten[m])

OneLabel(sel) == sel = Null \/ Len(sel.matchLabels) <= 1
AsksForOneLabel(d) == \A s \in SelectorsOf(d.spec) : OneLabel(s[1])
\* After the second attempt no policy misses what the simulated resources offer,
\* provided the input has a list to add their pods to.
SimulatedAreFound ==
  /\ QueueParsed /\ attempt = 2 /\ (Specific(input.pod_list) \/ Specific(input.resource_list))
  /\ \A n \in DOMAIN PoliciesWritten : AsksForOneLabel(PoliciesWritten[n])
  => AnalyzeLivesim(parser.missing) = {}

\* "deepcopy is required since PoliciesFinder may change peer_container": forgetting and
\* applying the labels of profiles, and parsing the policies, of an input that takes the
\* global topology leaves that alone, for the next input to find as it was read.
CopiesLeaveTheGlobalAlone ==
  [][global # Null /\ phase \in {"container", "policies"} /\ ~input.save /\ NoTopology(input)
       => View(global.container)' = View(global.container)]_vars
=============================================================================
