# A TLA+ model of network-config-analyzer

network-config-analyzer (NCA) reads Kubernetes, Calico and Istio manifests, works out which
connections they allow between pods, host endpoints, DNS names and IP addresses, and answers
queries about one such configuration or two. It is a sequential Python program. What makes it
hard to get right is not concurrency but

* canonical data structures whose equality decides every answer (interval sets, hypercubes);
* process-wide singletons that give rules their meaning and must be put back after each query;
* an evaluation order among policies that comes from a comparison which is not a total order,
  and from the order in which manifests arrive;
* defaults that depend on which layers exist at all, and on which fields a manifest leaves out;
* two passes over the same resources, the first only to see what the second must add;
* reports that group connections by namespaces, blocks, labels and cliques, and must still say
  exactly what is allowed;
* a dozen queries that encode the same few facts in different numbers and exit codes.

This directory holds one TLA+ module per component, TLC configurations that check them on small
instances, and machine-checked proofs, for every instance, about the core data structure, the
context queries run in, the layers, the queries on one and on two configurations, the connectivity
report and the scheme runner.
`PROJECT.json` maps every definition to the lines it models and lists the hazards each property is for.

## 1. The system

| component (under `nca/`) | state | operations | interacts with |
|---|---|---|---|
| `CoreDS/CanonicalIntervalSet` | a sorted list of intervals | `\|=`, `-=`, `&=`, `contained_in`, `add_interval`, `add_hole` | every dimension of every cube |
| `CoreDS/CanonicalHyperCubeSet` | per layer of dimensions, a map from interval sets to sub-cubes; the active dimensions | set operations, `reduce_active_dimensions` | the domains of `DimensionsManager` |
| `CoreDS/ConnectivityProperties`, `ConnectivityCube` | a hypercube set over protocols, peers, ports, ... | construction from rules, named ports | `BasePeerSet`, `DimensionsManager` |
| `CoreDS/Peer` | `BasePeerSet`: the singleton that numbers the pods | `add_peer`, `get_peer_interval_of`, `reset` | parsers, queries, `nca_cli` |
| `CoreDS/DimensionsManager` | singleton: the domain of each dimension | `set_domain`, `reset` | hypercubes; changed by each query |
| `Resources/PolicyResources` | rules with `props` and `props_copy`, `props_in_sync` and derived properties | comparison, `sync_props`, `reorganize_props_by_new_domains`, `restore_props`, conflict and containment tests | layers, queries |
| `NetworkConfig/NetworkLayer` | layers of sorted policies; a default layer | `add_policy`, `allowed_connections` | policies |
| `NetworkConfig/NetworkConfig` | a peer container and a policies container | `append_policy`, clones, `allowed_connections` | layers, queries |
| `NetworkConfig/PeerContainer`, `TopologyObjectsFinder` | peers, namespaces, services; two representatives of each kind of pod | reading pods, workloads, namespaces, services; selection by labels | parsers, configurations |
| `NetworkConfig/ResourcesHandler`, `PoliciesFinder` | the global container and finders; the queue of policies | own, global and live topologies, the second attempt with simulated peers, rebuilding on other peers | finders, parsers |
| `NetworkConfig/NetworkConfigQuery` | none of its own | the queries on one and two configurations | the singletons, policies, configurations |
| `NetworkConfig/NetworkConfigQueryRunner` | a `QueryResult` | iterations over configurations | queries, scheme runner |
| `SchemeRunner`, `nca_cli` | `global_res`, the built configurations, `ExplTracker` active or not | `_add_config`, `run_queries`, exit codes | everything above |
| `FWRules` | the pairs of peers with each set of connections, and what of them is not grouped yet | grouping by namespaces, blocks, labels; cliques and bicliques of the drawing | connectivity properties |
| `Parsers` | lists of gateways, virtual services and sidecars that are put together at the end of the queue; else none that outlives a manifest | yaml to resources and policies | resources, containers |
| `FileScanners`, `Utils` | none that matters here | reading files, git, helm; logging; explanations | resources handler |

What makes each of them correct: an interval set or a hypercube must be the one canonical
representation of its contents; a policy must mean during a query what its manifest says, and be
unchanged after it; the layers must allow exactly what a reader of the set of policies, who knows
nothing of lists and folds, would say they allow; the queries must agree with that meaning and
with each other; a manifest must be read as it is written, wherever it comes in the input; a
configuration must be built from its own resources and leave the shared ones alone; a report must
show exactly the connections, however it groups them; the exit code must count what differs from
what was expected, and nothing else.

Hard behaviours, all listed line by line under `hazards` in `PROJECT.json`: sequences of calls
that reach a rare shape of a list; boundaries of searches and address families; shared objects
visited twice; singletons left behind by an exception; results of one loop iteration read in the
next; sorting with an inconsistent comparison; documents in any order; objects shared between a
global and a local topology; values that are absent, empty or false; partial failures that are
expected and swallowed.
Nothing runs in parallel and nothing is stored between processes, so there are no interleavings
and no crash recovery to model; the one thing that survives a failure is the state of a process
that calls `nca_main` again, as the test driver does.

## 2. The modules

### IntervalSet, ValueSet, MCIntervalSet, IntervalSetProofs

`IntervalSet` is `CanonicalIntervalSet` as a state machine: `Call` starts one of the four
operations with an operand, and every iteration of every loop (both binary searches, the splice of
`add_interval`, `add_hole`, the nested loops of `&=` and `contained_in`) is an action. `set` is
`interval_set`, `other` the operand, `low`, `high`, `left`, `right`, `key` the local variables of
the searches, `acc` a list under construction, `before` a history variable with the contents at
the call. `Succ` and `Pred` are `+ 1` and `- 1`, saturating at the last and first address of a
family as in `IPNetworkAddress`.

`ValueSet` is the abstract specification: a set of values with union, difference, intersection and
inclusion. `Implements` says that `IntervalSet` refines it: the object's value is its contents when no
call is running, and the contents before the call while one is. The loops that write into `set` itself
(`|=`, `-=`) thus stutter until the call returns, when the whole operation takes effect.

### HyperCube, MCHyperCube

`CanonicalHyperCubeSet` as trees: a node has its active dimensions and a map from disjoint sets of
values of the first of them to subtrees. `Or`, `And`, `Sub` are `__ior__`, `__iand__`, `__isub__` with
their early returns, `OrAux`, `AndAux`, `SubAux` the recursions over layers, `SetActive` and `Reduce`
the activation and the dropping of dimensions around each call, `ContainedIn` the case analysis of
`contained_in`. The values of a dimension are plain sets: that is what `IntervalSet` shows of
`CanonicalIntervalSet`. (For dimensions of regular expressions the library behind `MinDFA` is
trusted to do the same.) Two objects are changed by cubes, holes and each other; `inSelf` and `inOther` are
the points they should hold. The recursion over dimensions keeps this module to TLC.

### QueryContext, MCQueryContext, QueryContextProofs

The process-wide state a query runs in: `ordered` (the numbering in `BasePeerSet`), `domain` (of
the peer dimensions in `DimensionsManager`), `props` and `copy` of each rule, `inSync` and
`derived` of each policy. Actions follow
`execute_and_compute_output_in_required_format`: `StartQuery` narrows the domain, `Reorganize`
visits the policies of each configuration, `Execute` begins to compute, and the first time a policy is
asked for its properties `SyncProps` clears them, `SyncRule` reads one rule after the other and `Synced`
marks the policy (`syncing` and `unread` are where that loop is). `QueryDone`
resets the domain, `Restore` visits the policies again. `QueryRaises` leaves through `nca_main`,
and `RunArgs` starts another run in the same process. The configurations of a query may be clones
that share policy objects. One peer dimension stands for `src_peers` and `dst_peers`, which are
always narrowed together.

### NetworkLayers, MCNetworkLayers, Recursion, NetworkLayersProofs

Configurations: policies arrive (`AppendParsed`, in the order the parse queue gives them), go to
their layer, and are put in place by `insort` under the comparison of `NetworkPolicy.__lt__`
(the binary search of `bisect` is external; `Halved` is a turn of its loop). `AllowedConnections` computes the connections of a
configuration from the sorted lists exactly in the steps of the code: the folds over rules and over
policies with their subtractions, the defaults of a Kubernetes/Calico and of an Istio layer, the
filters, the host endpoints. `RemovePolicy` and `RemoveRule` are the clones of the redundancy
query, `ConflictScan` the one-pass check of the sanity query. A connection is a source, a
destination and a protocol, TCP or another one; ports and HTTP attributes add values to a
connection, not cases to this algorithm. The loops over rules, policies and lists are recursive
functions (`OfPolicy`, `Collect`, `Clone`, `ConflictScan`), each with its body as an operator of its own
(`WithPolicy`, `Scanned`), so that they can be proved about.

Two rules of a sidecar are always equal (`SameRule`: their class is a dataclass without fields), so a
sidecar without one of its rules has none; that a rule selects nobody is told from its peers, not from
its connections, which may be those of the IP addresses alone.

Beside the algorithm stands a declarative reading of a set of policies (`Decision`, `LayerAllows`,
`Meaning`, `Explicit`): the first rule that decides, and the defaults, told without lists. Of the connections
of host endpoints only the K8s_Calico layer has a say in it, as the comments in `NetworkConfig.py` want it. The
code lets what the other layers deny shrink them too, so `VerdictsExact` claims the inclusion for all configurations,
equality for all other connections, and equality throughout where no other layer is.

### SingleQueries

The queries on one configuration, as operators over `NetworkLayers` (it is the module that
`MCNetworkLayers` extends): `Disjointness`, `Emptiness`, `Vacuity`, `Redundancy` of policies and of rules, `Sanity` with
the searches for what a redundant policy or rule is contained in, `AllCaptured`. Their properties
say what an answer promises: of every name redundancy reports a policy can go (the query reports names,
which policies of two kinds may share), sanity includes the others, policies that
are disjoint do not depend on their order, and where all is captured nothing is allowed by default.

### ConfigQueries, MCConfigQueries, ConfigQueriesProofs

The queries on two configurations. It instantiates `NetworkLayers` twice, for the pods of an old and
of a new topology, and composes: two configurations are loaded, then fifteen questions are asked
about each pair, as a scheme asks them (results) or as the command line does (exit codes), and with
the two sides exchanged where the query does not speak of sides. `answers` collects what the
queries said; the properties relate the answers to each other and to `Meaning`.

### SchemeRun, MCSchemeRun, SchemeRunProofs

Running a scheme file: configurations are built one after the other (`AddConfig`, with expected
warnings and errors), then each entry of `queries` runs its sub-queries (`StartSubQuery`, one
`Iterate` per configuration or pair, `EndSubQuery`), and `Judge` compares with what the scheme
expects. `todo` holds the pairs of positions that the loops of a sub-query still have to come to. What a
configuration or a query answers is chosen by the environment and kept in three history variables:
`found`, the number of findings of each configuration, `answered`, each answer with the sub-query and the
configurations it is of, and `different`, the sub-queries whose output was not the expected one. From
these the properties recompute what the exit code should have been: an entry counts by the sum of what all its
sub-queries answered. The code keeps the last sub-query's results, and counts every configuration it
built; `ExitCodeCounts` is about the runs where that is the same (`OnlyLastFinds`, `Queried`).

### PeerTopology, PolicyConnections

Operators without state, used by the modules below. `PeerTopology` has the peers
(`Peer.py`), the finders of namespaces, pods and services with the rule that at most two pods of a
kind are kept (`AddPeer`), the services with their target pods, the `PeerContainer` and its
selection by labels, keys and namespaces. `PolicyConnections` has `PortSet` with named and
excluded ports, and the construction of connectivity properties, where a named port is resolved
against the peers of the process. A connection is a source, a destination, a protocol and two
numbers (ports, or type and code of ICMP).

### ResourceLoading, MCResourceLoading, ResourceLoadingProofs

`ResourcesHandler` and `PoliciesFinder` as a state machine. Inputs with four lists (namespaces,
pods, policies, all resources; files or the live cluster) are loaded one after the other.
`Load` chooses the lists, `ReadTopology` reads document by document, `BuildOwnContainer`,
`CopyGlobalContainer` and `BuildFromCluster` make the container in the code's three ways, `ReadPolicies` queues (profiles in
front), `ParsePolicy` parses, `TryAgain` starts the second attempt with simulated resources,
`BuildConfig` ends, `FinishGlobal` keeps the topology for all, `RebuildByBase` parses a
configuration's queue again over the peers of another one. Finders and containers share their
objects, so `pods_finders` and `ns_finders` are heaps and the others hold addresses.

### K8sManifests, CalicoManifests, GatewayManifests, MeshManifests, PolicyManifests, MCPolicyManifests

One module for each family of parsers: Kubernetes network policies; Calico's policies, global
policies and profiles with the splitting of selector expressions; Ingress resources, Istio's
gateways, virtual services and the generator that puts them together; Istio's authorization
policies and sidecars with the priorities among sidecars. Patterns of hosts, paths, principals
and namespaces are the sets of what they accept, CIDRs the sets of their addresses; a path is the
sequence of its segments, since prefixes of paths decide who gets a request. The exceptions that
parsers raise are kept (`IngressRaises`, `AuthorizationRaises`, `SidecarsRaise`, ...).

`PolicyManifests` takes any manifest of its constants, parses it in one action of its kind, and
keeps the result. Its properties compare the result with a reading of the manifest that knows no
sets of peers and no cubes: it asks of a single connection whether a rule, as it is written, is
about it.

### ClusterInfo, FwRules, ConnectivityGraph, ConnectivityReport, MCConnectivityReport, ConnectivityReportProofs

The connectivity map. `ClusterInfo` holds what a report knows of the peers. `FwRules` is
`MinimizeCsFWRules`, for each set of connections in turn (`StartProps`): `FullNsGrouping` forms pairs of
sets of namespaces, `TakeNsEntry` and `NextGrouping` pairs of a namespace, a full block or a DNS name with a set of peers in both
directions, `CreateRules` takes the pairs that are left and groups everything by labels. `left` holds
the pairs without a group, `covered` what may be borrowed to fill one. `ConnectivityGraph` is the
drawing: groups of peers with equal edges, then cliques and bicliques for each set of connections
(`Draw`, `TakeBiclique`, `FinishDrawing`). The stars of cliques have the names the code gives them (`Numberings`,
`NameOf`), counted anew for each set of connections, and a name is one node of the drawing: `cliqued` collects
the edges of all of them, `starLabels` which connections a star was drawn for. Whoever reads the drawing
follows the stars labelled with the connections in question (`CliqueReading`). Choices that come from the iteration order of sets are
nondeterministic. `ConnectivityReport` composes the two: the connections are filtered, split by TCP
where an Istio layer exists, and each part is reported in one of three formats.

## 3. The runs

| run | instance | what it shows |
|---|---|---|
| `intervals` | all sets over seven addresses of two families as operands, calls in any sequence | the list stays canonical, the searches are exact, every call returns, the object is a plain set, also where the families meet |
| `hypercubes` | all pairs of sets of points in three dimensions of two values | the trees are canonical and hold the right points; equality and containment of trees are those of sets |
| `empty_cubes` (violation) | same | subtracting from an empty object can make it count as not empty |
| `query_context` | two configurations that share a pod, four rules, two runs of `nca_main` | inside a query every rule and policy is exact and reduced; after it, all is restored |
| `layers` | up to 4 of 14 policies of all six kinds, in every order of arrival | layers and lists hold; computed connections are the meaning of the policies (of host endpoints beside other layers, no more than it); what rules allow is allowed; the queries on one configuration keep their promises |
| `host_endpoints` (violation) | same | with a host endpoint and no Calico policy, explicitly allowed connections between pods are lost |
| `queries` | pairs of configurations of up to 2 of 5 policies, two topologies | the comparing queries agree with one another, and equivalence, permits, forbids and the semantic diff with the meaning of the policies |
| `scheme` | 32 schemes of up to 3 configurations and 2 query entries | the exit code counts the contradicted expectations, unless a sub-query overwrites what an earlier one found; a clean exit vouches that every comparison was made; answers come from configurations that were built, with explanations switched on from the start |
| `manifests` | some 13000 manifests over topologies of 3 to 6 peers | rules, selectors, gateways, authorization policies and sidecars are turned into what they say, connection by connection |
| `ingress_default` (violation) | same | when the rules of an Ingress leave nothing for the default backend, it gets everything |
| `loading` | 182 sequences of one to three inputs, documents in every order | two pods of a kind are kept, an input's own pods have the labels of its namespaces, policies are what the documents say, simulated peers are found, the global topology is left alone |
| `report` | unions of two of 17 products over 12 peers and of two cliques that overlap, three formats, both orders of labels | the report shows exactly the connections; no stage loses or adds a pair; the text of a group of labels selects its pods, and no others if it has a single key; a drawing shows all that is allowed, and nothing else while its stars have names of their own |

Each property of a passing run has a mutant in `PROJECT.json`: a plausible bug in one definition,
written before it in its module, under which TLC finds the property violated.

**Bounds.** `Bound` (the largest value) is 6: a family of five addresses holds lists of three intervals,
the least with an interval lower than, overlapping and higher than another at once, the second
family adds one or two more, and both searches run their loop more than once. With three dimensions
(`NDims = 3`) each one is first, inner and last among the active ones of some tree, and every
combination of active dimensions of two operands occurs; the history of `HyperCube` ends with the
first tree that has an empty branch (`hollow`), since nothing can be said of what follows. Two policies that overlap, a third between them in order
and one of another layer are four (`MaxPolicies = 4` in `layers`); pairs of configurations need two
each (`MaxPolicies = 2`) since every answer is about one difference. `MaxPods = 4` exceeds the three pods by one so that the
general domain is never the domain of a query; `MaxRuns = 2` is a run and the one after it. Three configurations are the
least that tell the four ways of pairing configurations apart.
`MaxPort = 2` tells a port, the other one and a range apart; `IcmpTypes` and `IcmpCodes` have 0 and a
value that is not 0, which the code treats differently; three addresses are one inside a block, one
in its exception and one outside. `Hosts` has a host that no rule names, `Paths` two levels below a
prefix. The manifests are not random: each differs from another in what selects a branch
of a parser. In `loading` three pods of one owner are one more than the two that are kept, and three
inputs are a global topology and two that take it; an input may have a namespace with other labels than the global one, with pods of its own
or with the global pods. In `report` namespace `A` has four pods, since
`min_clique_size` is 4 as in the code, and the two cliques over it have two peers in common;
two sets of connections with a clique each, whose stars clash, occur among the products; `AutoLimit` is 500 in the code and 8 here, below and above the sizes of the
sets of peers that occur, so that both branches are taken.

**Fairness.** Only `Terminates` is a liveness property. It assumes weak fairness of the steps inside
a call, which is what sequential execution is; when the next call comes is not assumed. The other
modules have no liveness property: their loops are over finite sets of documents, configurations,
policies or pairs and would restate that the model counts down.

**Deadlock** is checked for `IntervalSet`. In the other modules a process that has answered its
queries really stops.

## 4. What is proved

TLC checks the instances above; TLAPS proves the following for every value of the constants, from the
assumptions the modules name. Each theorem is listed under `theorems` in `PROJECT.json`.

| proofs | theorems | for every |
|---|---|---|
| `IntervalSetProofs` | `Invariance`, `TypeCorrect`, `StaysCanonical`, `SearchesExact`, `CallInvariance`, `Refinement` (`Spec => Implements`) | range of values, finite or not, placing of the ends of address families, set of canonical operands |
| `QueryContextProofs` | `Invariance`, `ContextTypes`, `RulesExact`, `PoliciesExact`, `QueriesRestore` | finite set of pods, configurations sharing pods, clones sharing policies, number of runs |
| `NetworkLayersProofs` | `Invariance`, `LayersAsAssumed`, `VerdictsAreExact`, `ExplicitIsExact`, `CapturedIsExplicit`; of the queries on one configuration `RedundancyIsReal`, `DisjointnessFreesOrder`, `SanityIsTheRest` | set of peers, of protocols, of policies, and number of policies |
| `ConfigQueriesProofs` | `Invariance`, `AnswersFit`, `NoSides` | pair of topologies, set of policies and number of policies, whatever connections the layers allow |
| `ConnectivityReportProofs` | `NothingIsLost`, `LabelTextsFit`, `ReportIsExact`, `DrawingsReadExactly` | finite set of peers, namespaces, labels and order of labels, set of connections and query, `AutoLimit`, `min_clique_size` above 2 |
| `ResourceLoadingProofs` | `GlobalIsLeftAlone` (`Spec => CopiesLeaveTheGlobalAlone`) | set of sequences of inputs, simulated resources and documents of a cluster, whatever the parsers make of a document |
| `SchemeRunProofs` | `Invariance`, `ExitCodeExact`, `Vouching`, `Grounding` | set of schemes, of numbers of findings and of answers |

`Recursion` has the induction these rest on: every set of naturals that is not empty has a least element
(`LeastNatural`, from the well-foundedness of `<` in the library), what holds of 0 and is kept up to `N`
holds up to `N` (`UpTo`), and iterating a function is well defined (`IterationExists`). Sets and functions
stand in these lemmas where the library's theorems take an operator, which the installed provers cannot
instantiate. A loop that a module writes as a recursive function is unfolded by `IterationExists` and
followed by `UpTo`.

**The assumptions.** `IntervalSet`: values are integers and every integer between two of them is one
(`ValuesAssumption`, `RangeAssumption`), families end where they end (`FamiliesAssumption`), and operands
are canonical (`OperandsAssumption`), as every object the class makes is. `QueryContext`: pods are finitely
many and have room in the range of indices (`RoomAssumption`), the addresses are not a pod
(`IpAssumption`); configurations know their pods and own their policies and rules (`ConfigAssumption`,
`OwnerAssumption`). `NetworkLayers`: the classes of peers are apart (`PeerAssumption`), and each policy has
the shape its parser gives it (`PolicyAssumption`: the order of a Kubernetes policy, the single action of
an authorization policy, rules that are about the selected peers); `ConfigQueries` needs only the names of its
fields. `SchemeRun`: a scheme has the fields
`SchemeFileFormat.md` gives it (`SchemeAssumption`). The report: peers are finitely many, and neither an
address nor a set of addresses is another peer (`PeersAssumption`); a connection has a protocol and a port
(`ConnsAssumption`); the value that stands for an absent label is no value of a label, and a key has at
least one part (`LabelsAssumption`); a query is about connections of these peers and has one of the three formats
(`QueriesAssumption`); a clique that is drawn as a star has more than two nodes (`min_clique_sizeAssumption`; it is 4). TLC evaluates each of them on the instances.

**The interval set.** `Canonical` is not inductive. The splice keeps the list canonical only if
`left` and `right` are exact; they are exact only because of what the early return inside each
search loop implies about the elements the loop has not visited (`SearchInv`: `low` moves past an
interval only if the next one is lower too, so a loop that runs out has never moved it). The
lists that `add_hole` and `&=` build are canonical because they lie within the intervals already
visited (`HoleInv`, `AndInv`), and the intervals of a canonical list are apart (`LowerWithin`).
`SubPieces`, `AndPieces`, `ConcatCanonical`, `ReplaceCanonical` and `SplicedCanonical` are the lemmas
about operators; each action then has a lemma of its own. The refinement needs what each loop has done so
far in terms of values (`ContentsInv`: after `k` intervals of the operand `|=` holds the values before and
those of the `k` intervals, and so on for the other three); with it every step is a stutter but the one
that returns, which is the operation of `ValueSet`.

**The query context.** `RulesAreExact` says something of one phase only; `IInv` says of every phase what
the domain is (`DomainFits`), how far the loop over the policies has come (`QueryFits`), and in which of
three states each rule is: as it was parsed, reduced with a copy kept, or put back (`RulesFit`). A policy
that two configurations share is visited twice, and the invariant tells why the second visit changes
nothing: the copy is what the manifest says, unless that is nothing, and then there is nothing to put
back. `SyncFits` has the partial sums of `sync_props`: what has been read is the reduced form of what is
selected by the rules that are no longer unread. After a query that raised (`raised`) only the types and
the numbering are claimed, which is all the code gives (see section 5).

**The layers.** The comparison of policies is not a total order, so a list cannot be called sorted by
it. The inductive invariant (`Laid`, `InOrder`) says instead that of two policies in the list of a layer the
first is evaluated sooner, in the sense the properties tell from orders, actions and arrival (`Sooner`), or
both are authorization policies of one action (`SameVoice`), whose order makes no difference because their
rules all say the same. `bisect_right` keeps this because along such a list the comparison with a new
policy changes only once (`LessUpwards`, `LessFits`), and that needs one more fact of the parse queue:
sidecars and gateway policies, which compare with nothing, arrive after all others (`AtEnd`). Then the loops
over rules and policies decide a connection as the first rule of the first policy that is about it
(`OfPolicyGives`, `CollectGives`), which in a sorted list is the one the meaning chooses (`DecisionIs`), and the
defaults follow by cases (`CalicoIs`, `IstioIs`, `AllIs`, `ExplicitIs`). What is computed is what every layer
allows (`EveryLayerAllows`), which differs from the meaning only in connections of host endpoints that layers
other than K8s_Calico deny. Clones are laid out too, though
they need not be in order: a clone of the redundancy query appends the changed policy last.

**The queries on one configuration.** A clone evaluates the policies it keeps in the order they had
(`CloneKeeps`, `CloneOrders`), so the list of a layer that lost nothing is sorted for the clone as well, and two
configurations with one sorted list decide alike (`SameDecisions`): comparing connections in one layer, as
redundancy does, is enough (`RedundantIs`). For disjointness the same lemma is used with a weaker order:
policies that select no common peer may stand in any (`ApartSorted`). For sanity the pass over the sorted
list is followed policy by policy (`CalicoScanned`: the current group are all policies of the last order, all
others are of a smaller one), and the rest is about which reports are empty.

**The queries on two configurations.** The invariant says that the configurations are lists of policies on one
of the topologies and that each answer is the one its query gives to these two; configurations are only loaded
before the first question. That the answers fit together then follows from what each number stands for
(`EquivalenceSays`, `ContainmentSays`, `TwoWaySays`), with the connections a configuration allows left
as they are. Sides do not matter to equivalence because it compares for equality; to the semantic diff because
exchanging the sides permutes the ten categories (`CategoriesTurned`, `SameCount`); and to strong equivalence because
its loop takes the names from the first configuration only, but gets there only if both have the same ones:
the policies a configuration is built with have the names and kinds of those that arrived, no more and no fewer
(`KeysBuilt`, `SameNamesArrived`), so that a loop that finds nothing finds nothing from the other side (`LoopTurned`).
That the loop may end with an exception for one order and with a difference for the other is why the
property makes an exception for exceptions.

**The scheme runner.** The counts of the properties are sizes of sets over the history; `IInv` has what
each of them is up to the entry that is being run (`Counted`), that every iteration of an ended sub-query
has its answer (`EveryIteration`), that entries answer in order (`HistoryFits`), and that what is stored is what
could be parsed (`Grounded`). Sums of answers are counted in units (`Units`), so that one more answer adds as
many elements as its number; where the sub-queries before the last found nothing, the sum over an entry is the sum of its last
sub-query, which is what the code has kept. `Vouching` then is that the exit code, being a sum of sizes, is 0 only if
every set is empty.

**The report.** `ReportExact` speaks of a finished report, so the invariants have to say what is true on the
way. `ControlInv` has which of rules and drawing is at work for which part. `FwInv` has what `NothingLost`
says at every stage, and of the entries that are still to be taken that each is about pairs that may be
grouped: `left` shrinks while they wait, and that an entry was sound when it was found must be enough when
it is taken (`Fits`, `TakeNsEntryKeeps`). `RulesInv` has that the rules of a finished set of connections show
at least its pairs and no others than may have them (`Shown`), through the grouping by labels (`GroupByLabelsFits`: the
labels chosen so far and the peers without one are the peers), and that each element of a rule has the
shape its text is printed from (`IsElement`), from which `LabelTextFits` follows for every form of
expression. `ShownInv` then says that the parts before the current one are shown, all but what is excused, and that rules
or edges being worked on are those of the current part. Three facts carry the weight: cubes, with sources and
targets in either order, cover a relation exactly (`CubesCover`, `PeerCubesFit`); peers with connections of
one part get back exactly these from what is printed (`ExtractBack`); and ranges of addresses cover a set
of addresses (`RangesFit`, by induction on the distance to the end of a range).
For the drawing, peers of two groups are connected all alike (`SameBetween`), also where a group was found by
adding to each peer its connections to itself; the stars of a clique connect any two of its nodes over
at most three stars, in each of the shapes `CliqueEdges` has (`CliquesAreRead`), and a path over stars never leaves the
clique they are of (`ReadingOfCliques`). That is of the stars as they are meant; their names keep every such
path whatever was drawn before (`Picture`: the drawing has the renamed edges, labelled), and add none as long as
the names of a set of connections occur in no other (`NamesApart`), because within one set the numbering gives no name
twice. `GraphInv` has that what is drawn, with what is still to be, are the edges.

**Loading.** That the global topology is left alone is a property of steps, and follows from where objects are.
`LInv` has that the finders of a parser, the container being built and the global one are in the heap, that a
parser with nothing to read has found nothing, and so (`NothingIsFound`) takes the copy, and that the copy has other
addresses than the global container (`CopyApart`): `CopyGlobal` appends to a heap in which the global one already is, and
no later step moves either. A step over the policies writes at the addresses of the container only
(`PolicySteps`), and a second attempt only appends (`ParsingStarts`). What the folds over documents return
never matters.

The proofs corrected the model in four places. `CopiesLeaveTheGlobalAlone` was stated for every input without
documents of a topology, and is false of one with a list of pods or namespaces that turns out to be empty:
`_fill_empty_finder` gives it the global finders, not a copy (section 5). No input of the run was like that; `NoTopology` now
asks that there is no such list, and the property includes the step that forgets the labels of profiles. The filter of the connections (`AllConns`) read as an
implication from two conditions where the code has two filters. What may be missing inside a node of a drawing
(`GroupedTogether`) had to speak of the addresses of a node, since a node can be a range of them. And a
clique of two nodes in different namespaces would be drawn as a mere edge between two nodes that no
star joins; that drawings read exactly needs `min_clique_size` to be above two.

**Only model-checked.** Termination of the calls of `IntervalSet`, since liveness under fairness is out of
the prover's reach. `HyperCube`, `CalicoManifests` and so `PolicyManifests` compute with recursive operators
over trees and strings, which keep a module out of it too. What relates the queries on two configurations to
the meaning of the policies (`JudgedByMeaning`, `DiffCoversChanges`): `ConfigQueries` instantiates
`NetworkLayers` twice, and the prover does not accept the theorems of an instantiated module as facts; nor does
`JudgedByMeaning` hold of every constant, since a host endpoint in a configuration without Calico policies is
what the run `host_endpoints` is about. `ResourceLoading` reads lists of documents with the folds of the community
modules, whose definition is beyond the provers; its invariants (`TwoOfAKind`, `PodsSeeTheirNamespaces`,
`PoliciesAsWritten`, `SimulatedAreFound`) are about what these folds return. The modules that only
compute (`PeerTopology`, `PolicyConnections`, the manifests) have properties about what an operator returns
for each of the inputs of a run.

## 5. Disagreements between the code and what is said of it

Three runs end in a violation, each quoted under `findings`: `empty_cubes`, `host_endpoints`,
`ingress_default`. The first can be replayed on the class itself: with `x = {d2: 0}` over two-valued
dimensions, `x -= x; x -= {d1: 0}; x |= {d1: 0}` holds every point. `NetworkLayers` computes with
plain sets of connections and so does not show what this does to the rules of a Calico policy, which
are made by just such pairs of subtractions.

Met while modelling, modelled as the code does it, and not turned into runs of their own:

*Queries and schemes*

* A query that raises leaves the narrowed domain behind for the next `nca_main` of the process
  (`QueryRaises`); the comment at `nca_cli.py:145` speaks of a clean start.
* A later sub-query of an entry overwrites the results, the comparison of the output and the number of skipped
  pairs of the earlier ones (`SchemeRunner.py:236`); `docs/SchemeFileFormat.md:66` calls `expected` "the expected sum of
  returned results by all sub-queries in this query". `ExitCodeCounts` asks for the sum, of runs in which nothing was overwritten.
* The exit code counts every configuration with a wrong number of warnings or errors, where lines 121 and 122 there say
  "only networkConfigs that run in queries are counted"; `ExitCodeCounts` leaves out runs with others.
* `run_query` returns a single 0 where its callers unpack three values when a pair query has fewer
  than two configurations; the run ends with an error (`StartSubQuery`).
* A scheme refused because of where explanations are asked for makes `run_scheme` return `None`, and
  the process exits with 0.
* The exit codes of `--interferes` and of the `interferes` query in a scheme are opposites, and
  comparing a configuration with itself gives exit code 1 on the command line, where `docs/CmdLineQueriesResults.md:8`
  has 0 for identical ones. The docstring (`NetworkConfigQuery.py:1567`) checks "whether config2 extends config1's allowed
  connection"; the code answers whether config1 allows what config2 does not, also for pods no policy captures. With three
  meanings to choose from, no property speaks of it; `Interferes` is modelled as it is written.
* Connections of host endpoints can be taken away by policies of Istio or of gateways, although the comments at
  `NetworkConfig.py:210` and `212` say that only the K8s_Calico layer handles or determines them: what is
  subtracted there leaves the part of host endpoints in `all_allowed_conns`, which is intersected
  over all layers (`OwnConns`, `AllLayers`). `VerdictsExact` claims no more than the inclusion for these connections.
* A policy-wise strong equivalence can hold while equivalence fails, when Calico orders differ
  between the two configurations.
* `semanticDiff` ignores connections of a peer with itself, equivalence does not; connections to DNS
  names that uncaptured pods lose are in none of its categories.
* A difference that only concerns livesim peers is removed from the explanation of `permits` and
  `forbids`, and yet the query answers that there is one.
* Redundancy of rules clones the configuration without the policy and appends the policy without
  the rule (`NetworkConfigQuery.py:357`); it lands after policies of equal order. A rule without effect is then
  missed, since the clone differs by the new place, and a rule can be reported that has an effect where its policy is
  (both were seen in a run of `layers`). No property says that a reported rule can go.
* Every rule of a sidecar with several rules is reported as redundant: `IstioSidecarRule` is a dataclass
  without fields (`IstioSidecar.py:14`), so two of its objects are always equal and `clone_without_rule` (lines 112 to 114)
  drops all of them, which counts as a repeated rule.
* Of several layers only the last one's redundant policies are kept.
* The searches for explanations of sanity stop at the first policy with a smaller order, take order
  0 for none, and raise when two kinds of policy have one name (`NetworkConfig.py:106`).

*Loading*

* A pod that is read before the manifest of its namespace keeps a namespace without labels, when both
  are in one list (the comment at `ResourcesHandler.py:307` wants namespaces first).
* Pods taken from the global topology keep the labels of the global namespaces, also in a configuration with
  manifests of its own for them; an input with a list of pods only gets the global namespaces, but its pods were read
  without them and see namespaces without labels. `PodsSeeTheirNamespaces` is about pods an input has itself, and the
  manifests it has for their namespaces.
* `_fill_empty_finder` shares the global finders; the comment at line 219 asks for a deep copy.
* Rebuilding on other peers does not clear the labels that profiles added.
* With no lists at all, the policies of a live cluster are queued and never parsed.
* A pod manifest that is read twice takes both places of its kind; a list with only host endpoints
  counts as no topology; with only a list of policies and a global topology simulated peers are
  never added.
* Profiles are put in front of the queue one by one, so they are parsed in reverse.
* Named ports are resolved on the peer that was numbered first, also for a later configuration in
  which a pod of the same name has another port.

*Manifests*

* Calico: with `icmp` and `notICMP` in conflict the warning says that there is no traffic, and all ICMP matches; type 0
  counts as absent; after "notProtocol field has no effect" the rule matches nothing; a number in
  `notPorts` does not remove a named port that stands for it.
* Kubernetes: `Exists` and `DoesNotExist` of a pod selector are evaluated in the policy's own
  namespace, also beside a namespace selector.
* Ingress: with only a default backend the parser raises; a service without pods and without a
  default backend gets the peers of the path before it, or all; two identical prefixes
  annihilate each other; a rule whose paths are all ignored sends nothing to the default backend.
* Gateways: routes of different protocols with the same index through one gateway get one policy
  name, and the later policy is ignored; the items of an HTTP match are blended dimension by
  dimension; a destination without a port has no connections; a virtual service without hosts
  raises; traffic to an egress gateway is restricted to SNI hosts, not to those of the virtual service.
* Authorization policies: negative IP blocks alone raise, and so do principals when a host endpoint
  or a network set exists.
* Sidecars: a second default sidecar of a namespace is a syntax error, though
  `IstioSidecarYamlParser.py:163` says that it is ignored with a warning; DNS entries get all protocols
  through an ordinary host and only TCP through `./` of a global sidecar; the domain of
  `*/svc.ns.svc.cluster.local` is ignored, and `*.svc.cluster.local` includes DNS entries.

*Reports*

* A group of the drawing that has several connections shows one of them only; an IP block with a hole
  ends the drawing with a `KeyError`.
* The star of a clique in a namespace is called `clique_` and a number that starts from 0 for each set of connections
  (`ConnectivityGraph.py:166`), and a name is a node of the dot graph. Cliques of different connections, also in different
  namespaces, so share stars, and the edges of cliques carry no connections: the drawing then shows
  more than is allowed, where the tooltip of a star (`DotGraph.py:63`) says "Traffic allowed between any two workloads connected to
  the CLIQUE". Without `NamesApart` the run `report` violates `DrawingReadsExactly`.
* The grouping by labels depends on the iteration order of a set (`labelOrder`).

`query_context` is checked for processes in which no query raises before a second run, `report` for
drawings that are not ended by the exception, and the properties of `manifests` leave out exactly
the inputs of the bullets above: their definitions name each exception. So do those of `loading` (a namespace that is read
after its pods, a pod read twice, profiles when a configuration is rebuilt) and `ExitCodeCounts`.

## 6. Not modelled, and the plan

Left out: the text of reports and explanations, the rendering of the drawing as dot and svg
(`DotGraph`, `InteractiveConnectivityGraph`), what the explanation tracker records, the parsing of
arguments, logging, reading of files, git, helm and live clusters, the validation of the syntax of
fields, CIDR arithmetic, and the automata library behind `MinDFA`. They are input and output, or a
library; a model of them would repeat a table or a format. Of the sidecars, network sets that belong
to a namespace are left out: whether a global sidecar is for them depends on the iteration order of a set.

Theorems worth proving next: that two pods of a kind are kept and simulated ones found
(`TwoOfAKind`, `SimulatedAreFound` of `ResourceLoading`), with the folds written as recursive functions; and
`DiffCoversChanges`, once the lemmas about the layers take the pods as a parameter, which also needs what
captured pods say of changed connections.
