------------------------- MODULE ConnectivityReport -------------------------
(***************************************************************************)
(* The connectivity query (ConnectivityMapQuery): the connections of a         *)
(* configuration are narrowed to what was asked for, split into TCP and the    *)
(* rest when a layer of Istio decides about TCP only, and each part is         *)
(* reported as rules, as a drawing or as plain lines.                          *)
(***************************************************************************)
EXTENDS FwRules, ConnectivityGraph

CONSTANT Queries  \* the queries with the connections that the configuration allows
ASSUME QueriesAssumption ==
  \A q \in Queries : /\ \A x \in q.conns : x \in Peers \X Peers \X Conns
                     /\ q.format \in {"rules", "dot", "txt_no_fw_rules"}

VARIABLES
  query,     \* the query that is answered
  parts,     \* the parts still to be reported
  part,      \* the one being reported, or none
  shown,     \* the connections that the reported parts show
  raised     \* whether an exception ended the report
reportVars == <<query, parts, part, shown, raised>>
vars == <<fwVars, graphVars, reportVars>>

Protocols(p) == CASE p = "all" -> {} [] p = "TCP" -> {"TCP"} [] p = "non-TCP" -> Sources(Conns) \ {"TCP"}
\* is_in_subset; a subset has namespaces, sets of labels, and the pods whose workload a
\* name in deployment_subset is a part of.
NoSubset == [namespaces |-> {}, deployments |-> {}, labels |-> {}]
InSubset(p, subset) ==
  \/ subset = NoSubset
  \/ NamespaceOf(p) \in subset.namespaces \ {NoNs}
  \/ p \in subset.deployments \cap Pods
  \/ p \in Named /\ \E labels \in subset.labels : \A k \in DOMAIN labels : InExpr(p, k, {labels[k]})
\* filter_conns_by_peer_types
RealPair(s, d) == s \notin DnsEntries /\ (s \in Ips => d \in Clusters)
\* compute_connectivity_output: one end in the subset is enough.
AllConns(q) ==
  {x \in q.conns : /\ RealPair(x[1], x[2])
                   /\ q.exclude_ipv6 => {x[1], x[2]} \cap Ipv6 = {}
                   /\ InSubset(x[1], q.subset) \/ InSubset(x[2], q.subset)}
\* convert_props_to_split_by_tcp
PartConns(p) == {x \in AllConns(query) : p # "all" => (x[3][1] = "TCP") = (p = "TCP")}

PartsOf(q) == IF q.istio THEN <<"TCP", "non-TCP">> ELSE <<"all">>
LabelOrders == {s \in [1 .. Cardinality(AllowedLabels) -> AllowedLabels] : Range(s) = AllowedLabels}
Init ==
  /\ query \in Queries /\ NoRules /\ NoGraph
  /\ labelOrder \in (IF query.format = "rules" THEN LabelOrders ELSE {<< >>})
  /\ parts = PartsOf(query)
  /\ part = "none" /\ shown = {} /\ raised = FALSE

EdgePeers(n) == IF n \in Named THEN {n} ELSE n
\* The connections that edges or rules stand for, in a part.
OfPart(conns, p) == {c \in conns : p # "all" => (c[1] = "TCP") = (p = "TCP")}
EdgesShow(es, p) ==
  UNION {EdgePeers(e[1]) \X EdgePeers(e[2]) \X OfPart(e[3], p) : e \in {f \in es : f[1] # f[2]}}
\* fw_rules_to_conn_props
RulesShow(rs, p) == UNION {PeersOf(r.src) \X PeersOf(r.dst) \X OfPart(r.props, p) : r \in rs}

\* get_props_output_full and get_props_output_split_by_tcp, for one part.  The peers of
\* the drawing are those of all parts.
StartPart ==
  /\ ~raised /\ part = "none" /\ parts # << >>
  /\ parts' = Tail(parts)
  /\ LET p == Head(parts)
         es == EdgesOf(PartConns(p), Protocols(p))
     IN  \/ /\ query.format = "rules" /\ part' = p
            /\ StartRules(PartConns(p), Protocols(p)) /\ UNCHANGED <<graphVars, shown, raised>>
         \/ /\ query.format = "dot" /\ ~KeyError(es, AllPeers(AllConns(query))) /\ part' = p
            /\ StartGraph(es, AllPeers(AllConns(query))) /\ UNCHANGED <<fwVars, shown, raised>>
         \/ /\ query.format = "dot" /\ KeyError(es, AllPeers(AllConns(query)))
            /\ raised' = TRUE /\ UNCHANGED <<fwVars, graphVars, part, shown>>
         \/ /\ query.format = "txt_no_fw_rules" /\ shown' = shown \cup EdgesShow(es, p)
            /\ UNCHANGED <<fwVars, graphVars, part, raised>>
  /\ UNCHANGED query

EndPart ==
  /\ part # "none" /\ RulesDone /\ GraphDone
  /\ \/ /\ query.format = "rules"
        /\ shown' = shown \cup RulesShow(PrintedRules(query.filter_system), part)
     \/ query.format = "dot" /\ \E es \in DrawnEdges : shown' = shown \cup EdgesShow(es, part)
  /\ part' = "none" /\ UNCHANGED <<fwVars, graphVars, query, parts, raised>>

Next ==
  \/ StartPart \/ EndPart
  \/ FwStep /\ UNCHANGED <<graphVars, reportVars>>
  \/ GraphStep /\ UNCHANGED <<fwVars, reportVars>>
Spec == Init /\ [][Next]_vars
Finished == ~raised /\ part = "none" /\ parts = << >>
-----------------------------------------------------------------------------
(***************************************************************************)
(* Properties.                                                             *)
(***************************************************************************)
\* Pairs whose rules may be left out: a system namespace with one, or with addresses.
SystemPeers == NsPeers(SystemNs)
SystemPairs == (SystemPeers \X (SystemPeers \cup Ips)) \cup (Ips \X SystemPeers)
\* A finished report, whatever its form, its parts and its grouping, shows exactly the
\* connections it was asked for.  Connections of a peer with itself do not count
\* ("differ only in auto-connections"); missing may be those of system namespaces from
\* rules when the query says so, and those in a node of a drawing that has several
\* ("For every group, also add the connection of the group (should be only one)").
GroupedTogether(x) ==
  \E p \in Range(PartsOf(query)) :
    LET es == EdgesOf(PartConns(p), Protocols(p))
    IN  \E g \in ManyConns(es, Groups(es, AllPeers(AllConns(query)))) :
          \E n, m \in g : n # m /\ x[1] \in EdgePeers(n) /\ x[2] \in EdgePeers(m)
ReportExact ==
  Finished =>
    LET missing == {x \in AllConns(query) \ shown : x[1] # x[2]}
        extra == {x \in shown \ AllConns(query) : x[1] # x[2]}
    IN  /\ extra = {}
        /\ \A x \in missing : IF query.format = "dot" THEN GroupedTogether(x)
                              ELSE query.filter_system /\ <<x[1], x[2]>> \in SystemPairs
=============================================================================
