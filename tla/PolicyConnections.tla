-------------------------- MODULE PolicyConnections --------------------------
(***************************************************************************)
(* The connections a rule of a policy denotes: the port sets a parser builds *)
(* (PortSet.py), and the ConnectivityProperties made of them, which resolve   *)
(* named ports (ConnectivityProperties.py, ConnectivityCube.py).              *)
(*                                                                           *)
(* A connection is <<source, destination, protocol, x, y>>: x and y are the   *)
(* source and destination port of a protocol with ports, the type and code of *)
(* ICMP, and 0 for any other protocol.                                        *)
(***************************************************************************)
EXTENDS PeerTopology

CONSTANTS
  Ips,        \* the IP addresses
  MaxPort,    \* bound: the ports are 1..MaxPort
  IcmpTypes,  \* the types and codes of ICMP
  IcmpCodes

ASSUME PortAssumption == MaxPort \in Nat \ {0}

Null == [null |-> TRUE]  \* a field that a manifest does not have
\* Where Null cannot be compared with what the field may have: an option.
None == << >>
Some(x) == <<x>>
OrElse(option, x) == IF option = None THEN x ELSE option[1]
Ports == 1..MaxPort
PortProtocols == {"TCP", "UDP"}
Protocols == PortProtocols \cup {"ICMP", "OTHER"}
ProtocolSupportsPorts(protocol) == protocol \in PortProtocols

\* A set of ports, and the names of ports that are in and out of it.
PortSet(all) == [port_set |-> IF all THEN Ports ELSE {}, named |-> {}, excluded |-> {}]
AddPort(s, n) == [s EXCEPT !.port_set = @ \cup {n}]
AddNamedPort(s, name) == [s EXCEPT !.named = @ \cup {name}, !.excluded = @ \ {name}]
AddPortRange(s, lo, hi) == [s EXCEPT !.port_set = @ \cup lo..hi]
PortUnion(s, o) ==
  [port_set |-> s.port_set \cup o.port_set, named |-> s.named \cup o.named,
   excluded |-> s.excluded \ o.named]
PortDifference(s, o) ==
  [port_set |-> s.port_set \ o.port_set, named |-> s.named \ o.named,
   excluded |-> s.excluded \cup o.named]

\* A cube restricts some of the dimensions; AllCube restricts none.
AllCube(src, dst) ==
  [src |-> src, dst |-> dst, protocols |-> Protocols, sports |-> PortSet(TRUE), dports |-> PortSet(TRUE),
   types |-> IcmpTypes, codes |-> IcmpCodes]

Details(cube, protocol, dports) ==
  CASE protocol \in PortProtocols -> cube.sports.port_set \X dports
    [] protocol = "ICMP" -> cube.types \X cube.codes
    [] OTHER -> {<<0, 0>>}

\* The connections of a cube whose destination ports are numbers; a cube with
\* an empty dimension has none.
NoNamedPorts(cube, dst, dports) ==
  IF cube.sports.port_set = {} \/ dports = {} \/ cube.types = {} \/ cube.codes = {} THEN {}
  ELSE UNION {{<<s, d, protocol, x[1], x[2]>> : s \in cube.src, d \in dst, x \in Details(cube, protocol, dports)} :
                protocol \in cube.protocols}

\* The port numbers that names stand for at a peer.  The peer is the one the
\* numbering of peers knows under this name.
ResolveNamedPorts(base, names, d, protocols) ==
  LET objects == {base[i] : i \in {j \in DOMAIN base : Key(base[j]) = d}}
      known == {q \in objects \X names : /\ q[2] \in DOMAIN q[1].named_ports
                                         /\ q[1].named_ports[q[2]][2] \in protocols}
  IN {q[1].named_ports[q[2]][1] : q \in known}

\* make_conn_props: the numbers, and for every destination what the names stand
\* for there, without what the excluded names stand for.
MakeConnProps(base, cube) ==
  LET named(d) == ResolveNamedPorts(base, cube.dports.named, d, cube.protocols)
      excluded(d) == ResolveNamedPorts(base, cube.dports.excluded, d, cube.protocols)
  IN IF cube.dports.named = {} /\ cube.dports.excluded = {}
     THEN NoNamedPorts(cube, cube.dst, cube.dports.port_set)
     ELSE UNION {(NoNamedPorts(cube, {d}, cube.dports.port_set) \cup NoNamedPorts(cube, {d}, named(d)))
                   \ NoNamedPorts(cube, {d}, excluded(d)) : d \in cube.dst}
=============================================================================
