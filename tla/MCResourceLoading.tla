-------------------------- MODULE MCResourceLoading --------------------------
(***************************************************************************)
(* Inputs with every combination of lists, over one namespace with a label,  *)
(* or with another one, three pods of a replica set, a pod with a profile and *)
(* a service; policies that need the labels of a profile or a pod of the      *)
(* cluster's DNS; one to three inputs after one another, with and without a   *)
(* global topology, whose pods an input may take without its namespaces.      *)
(***************************************************************************)
EXTENDS ResourceLoading

Ns == [kind |-> "Namespace", name |-> "A", labels |-> "k" :> "v"]
NsAnew == [Ns EXCEPT !.labels = "k" :> "w"]
PodDoc(name, owner, labels, ports) ==
  [kind |-> "Pod", name |-> name, namespace |-> "A", owner |-> owner, labels |-> labels, ports |-> ports, sa |-> "default"]
Set == [name |-> "rs", kind |-> "ReplicaSet", hex |-> TRUE]
PodOf(name) == PodDoc(name, Set, "k" :> "v", Empty)
Replicas == [kind |-> "Workload", workload |-> "ReplicaSet", name |-> "rs", hex |-> TRUE, namespace |-> "A", replicas |-> 3,
             labels |-> "k" :> "v", ports |-> Empty, sa |-> "default"]
Wep == [kind |-> "WorkloadEndpoint", pod |-> "w", namespace |-> "A", labels |-> Empty, ports |-> Empty,
        profiles |-> <<"prof">>]
Hep == [kind |-> "HostEndpoint", name |-> "h", labels |-> "k" :> "v", ports |-> Empty, profiles |-> << >>]
Service == [kind |-> "Service", name |-> "s", namespace |-> "A", selector |-> "k" :> "v",
            ports |-> <<[name |-> "", port |-> 1, protocol |-> "TCP", target |-> [named |-> FALSE, number |-> 1]]>>]
Pods == [kind |-> "List", items |-> <<PodOf("a"), PodOf("b"), Wep>>]

Policy(name, labels, peers, ports) ==
  [kind |-> "K8sNetworkPolicy", name |-> name, namespace |-> "A",
   spec |-> [podSelector |-> Selector(labels, {}), policyTypes |-> {},
             ingress |-> [rules |-> <<[peers |-> peers, ports |-> ports]>>], egress |-> Null]]
Peers(ns, pods) == {[namespaceSelector |-> ns, podSelector |-> Selector(<<pods>>, {}), ipBlock |-> Null]}
ByLabel == Policy("np", <<<<"k", "v">>>>, {}, {})
ByProfile == Policy("pp", <<<<"l", "w">>>>, Peers(Null, <<"k", "v">>), {})
Again == Policy("np", << >>, {}, {})
Dns == Policy("dns", << >>, Peers(Selector(<<<<"name", "sys">>>>, {}), <<"app", "dns">>), {})
ByName == Policy("port", << >>, {}, {[protocol |-> "TCP", port |-> [named |-> TRUE, name |-> "http"], endPort |-> 0]})
Profile == [kind |-> "CalicoProfile", name |-> "prof", labelsToApply |-> "l" :> "w"]

MCLiveSim ==
  {[cluster |-> FALSE, livesim |-> TRUE, docs |->
      <<[kind |-> "Namespace", name |-> "sys", labels |-> "name" :> "sys"],
        [kind |-> "Pod", name |-> "dns", namespace |-> "sys", owner |-> NoOwner, labels |-> "app" :> "dns",
         ports |-> Empty, sa |-> "default"]>>]}
MCCluster == <<Ns, PodOf("a"), Service, ByLabel, Profile>>

In(ns, pods, np, resources) ==
  [ns_list |-> ns, pod_list |-> pods, np_list |-> np, resource_list |-> resources, save |-> FALSE, global |-> FALSE]
OneFile(docs) == List(<<File(docs)>>)
Global(in) == [in EXCEPT !.save = TRUE, !.global = TRUE]
Saved(in) == [in EXCEPT !.save = TRUE]

Topology == In(NoList, NoList, NoList, OneFile(<<Ns, Pods, Service>>))
OnlyPolicies(docs) == In(NoList, NoList, OneFile(docs), NoList)
PolicyLists == {<<ByLabel, Again>>, <<ByProfile, Profile, ByLabel>>, <<Dns, ByProfile>>}
Orders(S) == SetToSeqs(S)
MCSchemes ==
  \* one list with everything, in any order
  {<<In(NoList, NoList, NoList, OneFile(docs))>> : docs \in Orders({Ns, PodOf("a"), Wep, ByProfile, Profile})}
    \cup {<<In(NoList, NoList, NoList, OneFile(<<Ns>> \o docs))>> : docs \in Orders({PodOf("a"), PodOf("b"), PodOf("c"), Dns})}
    \cup {<<In(NoList, NoList, NoList, OneFile(<<Ns>> \o docs))>> :
            docs \in {<<PodOf("a"), PodOf("a"), PodOf("b"), ByLabel>>, <<Replicas, ByLabel>>}}
    \* lists of their own
    \cup {<<In(OneFile(<<Ns>>), OneFile(<<Pods, PodOf("c")>>), np, NoList)>> : np \in {OneFile(p) : p \in PolicyLists}}
    \cup {<<In(OneFile(<<Ns>>), NoList, NoList, OneFile(<<Pods, Service, Dns>>))>>,
          <<In(NoList, OneFile(<<Pods>>), OneFile(<<Dns>>), OneFile(<<Ns, ByLabel, NsAnew>>))>>,
          <<In(NoList, NoList, NoList, OneFile(<<Ns, NsAnew, Pods, ByLabel>>))>>,
          <<In(OneFile(<<Ns>>), NoList, OneFile(<<Dns>>), NoList)>>,
          <<In(NoList, List(<<Live>>), List(<<Live>>), NoList)>>,
          <<In(NoList, NoList, NoList, OneFile(<<Hep, ByLabel>>))>>, <<In(NoList, NoList, NoList, NoList)>>}
    \* a global topology, or a saved one, and what is left to the others
    \cup {<<Global(Topology), OnlyPolicies(p), OnlyPolicies(q)>> : p, q \in PolicyLists}
    \cup {<<Saved(In(NoList, NoList, OneFile(p), OneFile(<<Ns, Pods>>))), in>> :
            p \in PolicyLists, in \in {OnlyPolicies(<<ByLabel>>), In(OneFile(<<NsAnew>>), NoList, OneFile(<<Profile>>), NoList),
                                       In(NoList, OneFile(<< >>), OneFile(<<ByLabel>>), NoList),
                                       In(NoList, NoList, NoList, NoList)}}
    \cup {<<Global(In(NoList, NoList, NoList, NoList)), OnlyPolicies(<<ByLabel>>)>>}
    \* the same pod with another port
    \cup {<<In(NoList, OneFile(<<PodDoc("a", NoOwner, Empty, "http" :> <<p, "TCP">>)>>), OneFile(<<ByName>>), NoList),
            In(NoList, OneFile(<<PodDoc("a", NoOwner, Empty, "http" :> <<q, "TCP">>)>>), OneFile(<<ByName>>), NoList)>> :
            p, q \in 1..2}
=============================================================================
