---------------------------- MODULE QueryContext ----------------------------
(***************************************************************************)
(* The process-wide state a query runs in.  DimensionsManager holds the     *)
(* domain of the peer dimensions; BasePeerSet numbers the peers; every rule  *)
(* of every policy holds connectivity properties whose peer dimension is     *)
(* either active (a set of indices) or inactive, which reads as "the whole   *)
(* domain".  A query narrows the domain to its own peers, reduces the props  *)
(* of its policies to it, computes, and puts everything back                 *)
(* (BaseNetworkQuery.execute_and_compute_output_in_required_format).  An     *)
(* exception while it computes leaves through nca_main, which returns, and   *)
(* the process may run nca_main again.                                       *)
(*                                                                           *)
(* The other dimensions, whose domains never change, are left out, and one   *)
(* peer dimension stands for src_peers and dst_peers.                        *)
(***************************************************************************)
EXTENDS Integers, FiniteSets, Sequences, SequencesExt

CONSTANTS
  Pods,        \* the pods of all configurations
  Configs,     \* what the command line or the scheme file may name
  Policies,
  Rules,
  PodsOf,      \* [Configs -> SUBSET Pods]
  PoliciesOf,  \* [Configs -> SUBSET Policies]
  RulesOf,     \* [Policies -> SUBSET Rules]
  Selects,     \* [Rules -> SUBSET (Pods \cup {Ip})]: the peers a rule is about
  Ip,          \* the IP addresses, always in BasePeerSet
  MaxPods,     \* BasePeerSet.max_num_of_pods
  MaxRuns      \* bound: how often the process calls nca_main

ASSUME ConfigAssumption ==
  /\ PodsOf \in [Configs -> SUBSET Pods]
  /\ PoliciesOf \in [Configs -> SUBSET Policies]
  /\ RulesOf \in [Policies -> SUBSET Rules]
  /\ Selects \in [Rules -> SUBSET (Pods \cup {Ip})]
  /\ \A c \in Configs : \A p \in PoliciesOf[c] : \A r \in RulesOf[p] :
       Selects[r] \subseteq PodsOf[c] \cup {Ip}
\* A policy is parsed for one configuration, a rule for one policy.
ASSUME OwnerAssumption ==
  /\ \A c, d \in Configs : c # d => PoliciesOf[c] \cap PoliciesOf[d] = {}
  /\ \A p, q \in Policies : p # q => RulesOf[p] \cap RulesOf[q] = {}
\* An IpBlock is no pod.
ASSUME IpAssumption == Ip \notin Pods
\* There are always unused indices of pods.
ASSUME RoomAssumption ==
  IsFiniteSet(Pods) /\ MaxPods \in Nat /\ Cardinality(Pods) < MaxPods
ASSUME MaxRunsAssumption == MaxRuns \in Nat

\* Indices: 0 for the IP addresses, 1 .. MaxPods for the pods.
Indices == 0 .. MaxPods
GeneralDomain == Indices

VARIABLES
  phase,    \* where the process is
  runs,     \* the number of calls of nca_main so far
  ordered,  \* BasePeerSet().ordered_peer_list
  domain,   \* DimensionsManager: the domain of the peer dimensions
  loaded,   \* the configurations parsed so far
  query,    \* the configurations of the running query
  todo,     \* the policies a loop of the query has still to visit
  props, copy,      \* props and props_copy of each rule
  inSync, derived,  \* props_in_sync and the properties of each policy
  syncing, unread,  \* the policy in sync_props, its rules still to add
  raised    \* whether some query of an earlier run raised (a history variable)

ruleVars == <<props, copy>>
policyVars == <<inSync, derived, syncing, unread>>
vars == <<phase, runs, ordered, domain, loaded, query, todo, props, copy,
          inSync, derived, syncing, unread, raised>>

-----------------------------------------------------------------------------
\* Connectivity properties: the peer dimension active with a set of indices,
\* or inactive.
All == [active |-> FALSE, val |-> {}]
Only(S) == [active |-> TRUE, val |-> S]
Empty == Only({})
Props == {All} \cup {Only(S) : S \in SUBSET Indices}

\* The peers that properties allow, read under domain D.
Denotes(x, D) == IF x.active THEN x.val ELSE D

\* reduce_active_dimensions under domain D.
Reduce(x, D) == IF x.active /\ x.val # {} /\ x.val = D THEN All ELSE x

\* `x |= y` under domain D.
Ior(x, y, D) ==
  IF ~y.active \/ ~x.active THEN All
  ELSE IF y.val = {} THEN x
  ELSE IF x.val = {} THEN y
  ELSE Reduce(Only(x.val \cup y.val), D)

\* get_peer_interval_of, when the peers are numbered by list.
IndicesOf(S, list) ==
  {i \in Indices : \/ i = 0 /\ Ip \in S
                   \/ i \in DOMAIN list /\ list[i] \in S}

\* add_peer for each pod of S, in some order: those not yet numbered.
AddedTo(list, S) == {list \o s : s \in SetToSeqs(S \ ToSet(list))}

\* A configuration a query names: all of a loaded one, or one policy of it
\* (clone_with_just_one_policy), which shares the policy object.
Views == {[config |-> c, policies |-> PoliciesOf[c]] : c \in loaded}
         \cup {[config |-> c, policies |-> {p}] : c \in loaded, p \in Policies}
Named == {v \in Views : v.policies \subseteq PoliciesOf[v.config]}

PeersOf(v) == PodsOf[v.config] \cup {Ip}
QueryPeers(q) == UNION {PeersOf(q[i]) : i \in DOMAIN q}
QueryPolicies(q) == UNION {q[i].policies : i \in DOMAIN q}
\* What the two loops over get_configs() visit: a policy once per
\* configuration that has it.
Visits(q) == {v \in (DOMAIN q) \X Policies : v[2] \in q[v[1]].policies}

-----------------------------------------------------------------------------
Init ==
  /\ phase = "idle" /\ runs = 0 /\ ordered = << >> /\ domain = GeneralDomain
  /\ loaded = {} /\ query = << >> /\ todo = {}
  /\ props = [r \in Rules |-> Empty] /\ copy = [r \in Rules |-> Empty]
  /\ inSync = [p \in Policies |-> FALSE] /\ derived = [p \in Policies |-> Empty]
  /\ syncing = {} /\ unread = {} /\ raised = FALSE

\* nca_main starts: run_args resets BasePeerSet; the configurations of an
\* earlier run are garbage.
RunArgs ==
  /\ phase = "idle" /\ runs < MaxRuns
  /\ phase' = "parsing" /\ runs' = runs + 1
  /\ ordered' = << >> /\ loaded' = {}
  /\ props' = [r \in Rules |-> Empty] /\ copy' = [r \in Rules |-> Empty]
  /\ inSync' = [p \in Policies |-> FALSE]
  /\ derived' = [p \in Policies |-> Empty]
  /\ UNCHANGED <<domain, query, todo, syncing, unread, raised>>

\* get_network_config: the pods of c are numbered, then its rules parsed; a
\* cube that is the whole domain of a dimension loses it (_reduce_cube).
GetNetworkConfig(c) ==
  /\ phase = "parsing" /\ c \in Configs \ loaded
  /\ ordered' \in AddedTo(ordered, PodsOf[c])
  /\ loaded' = loaded \cup {c}
  /\ props' = [r \in Rules |->
                 IF \E p \in PoliciesOf[c] : r \in RulesOf[p]
                   THEN Reduce(Only(IndicesOf(Selects[r], ordered')), domain)
                   ELSE props[r]]
  /\ UNCHANGED <<phase, runs, domain, query, todo, copy, policyVars, raised>>

\* An exception while parsing leaves through nca_main.
ParseFails ==
  /\ phase = "parsing" /\ phase' = "idle"
  /\ UNCHANGED <<runs, ordered, domain, loaded, query, todo, ruleVars,
                 policyVars, raised>>

ConfigsLoaded ==
  /\ phase = "parsing" /\ loaded # {} /\ phase' = "ready"
  /\ UNCHANGED <<runs, ordered, domain, loaded, query, todo, ruleVars,
                 policyVars, raised>>

\* A query on the configurations q whose checks pass (all have peers, the
\* format is supported): the domain becomes the query's peers.  A query that
\* fails a check changes nothing.
StartQuery(q) ==
  /\ phase = "ready"
  /\ \A i \in DOMAIN q : PodsOf[q[i].config] # {}
  /\ query' = q /\ domain' = IndicesOf(QueryPeers(q), ordered)
  /\ todo' = Visits(q) /\ phase' = "reorganizing"
  /\ UNCHANGED <<runs, ordered, loaded, ruleVars, policyVars, raised>>

\* (mutant: a rule visited twice has its reduced props copied)
ReorganizedUnguarded(r) ==
  [copy |-> props[r], props |-> Reduce(props[r], domain)]
\* reorganize_props_by_new_domains on one rule: `if not rule.props_copy`.
Reorganized(r) ==
  IF copy[r] # Empty
    THEN [copy |-> copy[r], props |-> props[r]]
    ELSE [copy |-> props[r], props |-> Reduce(props[r], domain)]

Reorganize(i, p) ==
  /\ phase = "reorganizing" /\ <<i, p>> \in todo
  /\ todo' = todo \ {<<i, p>>}
  /\ props' = [r \in Rules |-> IF r \in RulesOf[p] THEN Reorganized(r).props
                                                   ELSE props[r]]
  /\ copy' = [r \in Rules |-> IF r \in RulesOf[p] THEN Reorganized(r).copy
                                                  ELSE copy[r]]
  /\ inSync' = [inSync EXCEPT ![p] = FALSE]
  /\ UNCHANGED <<phase, runs, ordered, domain, loaded, query, derived, syncing,
                 unread, raised>>

Execute ==
  /\ phase = "reorganizing" /\ todo = {} /\ phase' = "executing"
  /\ UNCHANGED <<runs, ordered, domain, loaded, query, todo, ruleVars,
                 policyVars, raised>>

OldDerived(p) == derived[p]  \* (mutant: no _init_props)
\* _init_props.
InitProps(p) == Empty

\* sync_props: the query reads the properties of a policy for the first time.
SyncProps(p) ==
  /\ phase = "executing" /\ syncing = {}
  /\ p \in QueryPolicies(query) /\ ~inSync[p]
  /\ derived' = [derived EXCEPT ![p] = InitProps(p)]
  /\ syncing' = {p} /\ unread' = RulesOf[p]
  /\ UNCHANGED <<phase, runs, ordered, domain, loaded, query, todo, ruleVars,
                 inSync, raised>>

\* Its loop over the rules of the policy.
SyncRule(p, r) ==
  /\ phase = "executing" /\ p \in syncing /\ r \in unread
  /\ derived' = [derived EXCEPT ![p] = Ior(derived[p], props[r], domain)]
  /\ unread' = unread \ {r}
  /\ UNCHANGED <<phase, runs, ordered, domain, loaded, query, todo, ruleVars,
                 inSync, syncing, raised>>

Synced(p) ==
  /\ phase = "executing" /\ p \in syncing /\ unread = {}
  /\ inSync' = [inSync EXCEPT ![p] = TRUE] /\ syncing' = {}
  /\ UNCHANGED <<phase, runs, ordered, domain, loaded, query, todo, ruleVars,
                 derived, unread, raised>>

\* The query raises: nothing is restored, and nca_main returns.
QueryRaises ==
  /\ phase = "executing" /\ phase' = "idle"
  /\ raised' = TRUE /\ query' = << >> /\ syncing' = {} /\ unread' = {}
  /\ UNCHANGED <<runs, ordered, domain, loaded, todo, ruleVars, inSync, derived>>

\* (mutant: DimensionsManager.reset() is forgotten)
DomainAfterKept == domain
\* DimensionsManager.reset(): the next use makes a new instance.
DomainAfter == GeneralDomain

QueryDone ==
  /\ phase = "executing" /\ syncing = {} /\ phase' = "restoring"
  /\ domain' = DomainAfter /\ todo' = Visits(query)
  /\ UNCHANGED <<runs, ordered, loaded, query, ruleVars, policyVars, raised>>

InSyncAfter(p) == [inSync EXCEPT ![p] = FALSE]

\* restore_props.
Restore(i, p) ==
  /\ phase = "restoring" /\ <<i, p>> \in todo
  /\ todo' = todo \ {<<i, p>>}
  /\ props' = [r \in Rules |-> IF r \in RulesOf[p] /\ copy[r] # Empty
                                 THEN copy[r] ELSE props[r]]
  /\ copy' = [r \in Rules |-> IF r \in RulesOf[p] THEN Empty ELSE copy[r]]
  /\ inSync' = InSyncAfter(p)
  /\ UNCHANGED <<phase, runs, ordered, domain, loaded, query, derived, syncing,
                 unread, raised>>

QueryReturns ==
  /\ phase = "restoring" /\ todo = {} /\ phase' = "ready" /\ query' = << >>
  /\ UNCHANGED <<runs, ordered, domain, loaded, todo, ruleVars, policyVars,
                 raised>>

RunReturns ==
  /\ phase = "ready" /\ phase' = "idle"
  /\ UNCHANGED <<runs, ordered, domain, loaded, query, todo, ruleVars,
                 policyVars, raised>>

Queries == {<<v>> : v \in Named} \cup {<<v, w>> : v \in Named, w \in Named}

Next ==
  \/ RunArgs \/ ParseFails \/ ConfigsLoaded
  \/ \E c \in Configs : GetNetworkConfig(c)
  \/ \E q \in Queries : StartQuery(q)
  \/ Execute \/ QueryRaises \/ QueryDone \/ QueryReturns \/ RunReturns
  \/ \E i \in 1 .. 2, p \in Policies : Reorganize(i, p) \/ Restore(i, p)
  \/ \E p \in Policies : SyncProps(p) \/ Synced(p)
  \/ \E p \in Policies, r \in Rules : SyncRule(p, r)

Spec == Init /\ [][Next]_vars
-----------------------------------------------------------------------------
(***************************************************************************)
(* Properties.                                                             *)
(***************************************************************************)
TypeOK ==
  /\ phase \in {"idle", "parsing", "ready", "reorganizing", "executing",
                "restoring"}
  /\ runs \in 0 .. MaxRuns
  /\ ordered \in Seq(Pods) /\ Len(ordered) =< Cardinality(Pods)
  /\ domain \in SUBSET Indices /\ loaded \in SUBSET Configs
  /\ query \in Seq([config : Configs, policies : SUBSET Policies]) /\ Len(query) =< 2
  /\ todo \in SUBSET ((1 .. 2) \X Policies)
  /\ props \in [Rules -> Props] /\ copy \in [Rules -> Props]
  /\ inSync \in [Policies -> BOOLEAN] /\ derived \in [Policies -> Props]
  /\ syncing \in SUBSET Policies /\ unread \in SUBSET Rules
  /\ raised \in BOOLEAN

QueryRules == UNION {RulesOf[p] : p \in QueryPolicies(query)}
Meaning(S) == IndicesOf(S, ordered)

\* While a query computes, every rule of its configurations stands for exactly
\* the peers its manifest selects, in the one representation the class comment
\* of DimensionsManager asks for: inactive when they are all the query's peers,
\* active otherwise.  Two rules, of any two of the configurations, that select
\* the same peers therefore compare equal.
RulesAreExact ==
  phase = "executing" /\ ~raised =>
    \A r \in QueryRules : props[r] = Reduce(Only(Meaning(Selects[r])), domain)

\* So do the properties the query computes from them, whenever it first asks
\* for them and whatever earlier query computed them under another domain.
PoliciesAreExact ==
  phase = "executing" /\ ~raised =>
    \A p \in QueryPolicies(query) :
      inSync[p] => derived[p] = Reduce(Only(Meaning(UNION {Selects[r] : r \in RulesOf[p]})), domain)

\* Between queries every rule of every loaded configuration is as it was parsed,
\* even when the two configurations of a query shared policies, and no policy
\* keeps properties computed under the domain of a query.
Restored ==
  phase = "ready" /\ ~raised =>
    /\ domain = GeneralDomain
    /\ \A c \in loaded : \A p \in PoliciesOf[c] :
         /\ ~inSync[p]
         /\ \A r \in RulesOf[p] : props[r] = Only(Meaning(Selects[r])) /\ copy[r] = Empty
=============================================================================
