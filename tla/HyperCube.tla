----------------------------- MODULE HyperCube -----------------------------
(***************************************************************************)
(* CanonicalHyperCubeSet (nca/CoreDS/CanonicalHyperCubeSet.py): a set of      *)
(* points of an n-dimensional space, held as a tree.  A node maps disjoint     *)
(* sets of values of its first active dimension to the nodes of the remaining *)
(* active dimensions; a dimension that is not active has all its values.        *)
(* The values of a dimension are plain sets here, which is what IntervalSet     *)
(* shows of CanonicalIntervalSet.                                               *)
(*                                                                           *)
(* Two objects are changed by the addition of cubes and holes and by |=, &= and  *)
(* -= of one with the other.                                                     *)
(***************************************************************************)
EXTENDS Integers, FiniteSets, FiniteSetsExt, Sequences

CONSTANTS
  NDims,    \* the number of dimensions; they are ordered as in all_dimensions_list
  Domain,   \* the domain of each dimension, as DimensionsManager has it
  Operands  \* the cubes that are added and removed: a set of values for each dimension

Dims == 1 .. NDims
ASSUME DomainAssumption ==
  /\ NDims \in Nat \ {0} /\ DOMAIN Domain = Dims
  /\ \A d \in Dims : Domain[d] # {} /\ IsFiniteSet(Domain[d])
Cubes == {c \in [Dims -> UNION {SUBSET Domain[d] : d \in Dims}] :
            \A d \in Dims : c[d] \subseteq Domain[d]}
ASSUME OperandsAssumption == Operands \subseteq Cubes

VARIABLES
  self, other,     \* two objects
  inSelf, inOther, \* history: the points they should hold
  hollow           \* history: a tree with an empty branch was made

vars == <<self, other, inSelf, inOther, hollow>>
-----------------------------------------------------------------------------
(***************************************************************************)
(* Trees.  layers maps sets of values of the first active dimension to        *)
(* subtrees, and to EmptyInterval in the last one.                            *)
(***************************************************************************)
EmptyInterval == << >>
Node(active, layers) == [active |-> active, layers |-> layers]
First(x) == Min(x.active)
IsLast(x) == Cardinality(x.active) = 1
NoLayers == [v \in {} |-> EmptyInterval]
AllCube == Node({}, NoLayers)
EmptyCube == Node(Dims, NoLayers)
IsAll(x) == x.active = {}
IsEmpty(x) == x.active # {} /\ DOMAIN x.layers = {}
SubCubes(x) == {x.layers[v] : v \in DOMAIN x.layers}

\* _create_from_cube_aux, of the dimensions in active.
RECURSIVE FromCube(_, _)
FromCube(cube, active) ==
  IF active = {} THEN EmptyInterval
  ELSE LET d == Min(active)
       IN  Node(active, [v \in {cube[d]} |-> FromCube(cube, active \ {d})])
\* create_from_cube, which leaves out the dimensions that have their whole domain.
CreateFromCube(cube) ==
  LET active == {d \in Dims : cube[d] # Domain[d]}
  IN  IF \E d \in Dims : cube[d] = {} THEN EmptyCube
      ELSE IF active = {} THEN AllCube ELSE FromCube(cube, active)

\* (mutant: subtrees that are equal stay apart)
NotUnited(pairs) == [v \in {p[1] : p \in pairs} |-> (CHOOSE p \in pairs : p[1] = v)[2]]
\* _apply_layer_elements_union, of layers given as pairs: one for each subtree.
ApplyUnion(pairs) ==
  LET Keys(sub) == UNION {p[1] : p \in {q \in pairs : q[2] = sub}}
      united == {<<Keys(p[2]), p[2]>> : p \in pairs}
  IN  [v \in {u[1] : u \in united} |-> (CHOOSE u \in united : u[1] = v)[2]]

Common(x, y) ==
  {p \in (DOMAIN x.layers) \X (DOMAIN y.layers) : p[1] \cap p[2] # {}}
\* (mutant: the part in common with y stays)
RemainingWhole(x, y) == {<<v, x.layers[v]>> : v \in {w \in DOMAIN x.layers : ~(w \subseteq UNION DOMAIN y.layers)}}
\* What is left of the layers of x outside those of y, with their subtrees.
Remaining(x, y) ==
  {p \in {<<v \ UNION DOMAIN y.layers, x.layers[v]>> : v \in DOMAIN x.layers} : p[1] # {}}

RECURSIVE AndAux(_, _)
AndAux(x, y) ==
  LET Sub(p) == IF IsLast(x) THEN EmptyInterval ELSE AndAux(x.layers[p[1]], y.layers[p[2]])
      pairs == {<<p[1] \cap p[2], Sub(p)>> : p \in Common(x, y)}
  IN  Node(x.active, ApplyUnion({p \in pairs : IsLast(x) \/ ~IsEmpty(p[2])}))

RECURSIVE OrAux(_, _)
OrAux(x, y) ==
  LET Sub(p) == IF IsLast(x) THEN EmptyInterval ELSE OrAux(x.layers[p[1]], y.layers[p[2]])
  IN  Node(x.active, ApplyUnion({<<p[1] \cap p[2], Sub(p)>> : p \in Common(x, y)}
                                \cup Remaining(x, y) \cup Remaining(y, x)))

RECURSIVE SubAux(_, _)
SubAux(x, y) ==
  LET pairs == IF IsLast(x) THEN {}
               ELSE {<<p[1] \cap p[2], SubAux(x.layers[p[1]], y.layers[p[2]])>> : p \in Common(x, y)}
  IN  Node(x.active, ApplyUnion({p \in pairs : ~IsEmpty(p[2])} \cup Remaining(x, y)))
-----------------------------------------------------------------------------
(***************************************************************************)
(* Active dimensions.                                                       *)
(***************************************************************************)
\* build_new_active_dimensions: a new dimension is a layer with its whole domain.
RECURSIVE Build(_, _)
Build(x, active) ==
  LET d == Min(active)
  IN  IF x = EmptyInterval THEN FromCube(Domain, active)
      ELSE IF x.active = active THEN x
      ELSE IF d = First(x)
           THEN Node(active, [v \in DOMAIN x.layers |-> Build(x.layers[v], active \ {d})])
      ELSE Node(active, [v \in {Domain[d]} |-> Build(x, active \ {d})])
\* _set_active_dimensions
SetActive(x, active) ==
  IF active \subseteq x.active THEN x
  ELSE IF IsAll(x) THEN FromCube(Domain, active) ELSE Build(x, x.active \cup active)

\* _get_values_sets_per_active_dimension, for one of them.
RECURSIVE ValuesIn(_, _)
ValuesIn(x, d) ==
  IF First(x) = d THEN DOMAIN x.layers ELSE UNION {ValuesIn(s, d) : s \in SubCubes(x)}
\* _remove_some_active_dimensions, down to those in active.
RECURSIVE Remove(_, _)
Remove(x, active) ==
  IF active = {} THEN EmptyInterval
  ELSE IF x.active = active THEN x
  ELSE IF First(x) \in active
       THEN Node(active, [v \in DOMAIN x.layers |-> Remove(x.layers[v], active \ {First(x)})])
  ELSE LET subs == SubCubes(x)
           inner == UNION {DOMAIN s.layers : s \in subs}
       IN  Remove(Node(x.active \ {First(x)},
                       [v \in inner |-> (CHOOSE s \in subs : v \in DOMAIN s.layers).layers[v]]),
                  active)
Reducible(x) == {d \in x.active : ValuesIn(x, d) = {Domain[d]}}
\* reduce_active_dimensions
Reduce(x) ==
  IF IsEmpty(x) \/ IsAll(x) THEN x
  ELSE IF Reducible(x) = x.active THEN AllCube
  ELSE Remove(x, x.active \ Reducible(x))

\* _prepare_common_active_dimensions, of one of the two.
Prepared(x, y) == SetActive(x, x.active \cup y.active)
-----------------------------------------------------------------------------
(***************************************************************************)
(* The operations.                                                          *)
(***************************************************************************)
\* __iand__
And(x, y) ==
  IF IsAll(y) THEN x
  ELSE IF IsEmpty(x) \/ IsEmpty(y) THEN EmptyCube
  ELSE IF IsAll(x) THEN y
  ELSE Reduce(AndAux(Prepared(x, y), Prepared(y, x)))
\* __ior__
Or(x, y) ==
  IF IsAll(x) \/ IsAll(y) THEN AllCube
  ELSE IF IsEmpty(y) THEN x
  ELSE IF IsEmpty(x) THEN y
  ELSE Reduce(OrAux(Prepared(x, y), Prepared(y, x)))
\* __isub__, which clears self and goes on when there is everything to subtract.
Sub(x, y) ==
  LET z == IF IsAll(y) THEN EmptyCube ELSE x
  IN  IF IsEmpty(y) THEN z ELSE Reduce(SubAux(Prepared(z, y), Prepared(y, z)))

\* _is_sub_elem_entire_sub_space
IsEntire(x) == x = FromCube(Domain, x.active)
\* (mutant: it is enough that every part of y contains x)
CoversAnything(y, d) == TRUE
Covers(y, d) == UNION DOMAIN y.layers = Domain[d]
\* _contained_in_aux, in the dimensions that are left.
RECURSIVE ContainedAux(_, _, _)
ContainedAux(x, y, dims) ==
  LET d == Min(dims)
      rest == dims \ {d}
      Part(v, w) ==
        /\ ~IsLast(x) /\ ~IsLast(y) => ContainedAux(x.layers[v], y.layers[w], rest)
        /\ IsLast(x) /\ ~IsLast(y) => IsEntire(y.layers[w])
  IN  IF d \notin y.active
      THEN IF IsLast(x) THEN rest = {} \/ IsEntire(y)
           ELSE \A s \in SubCubes(x) : ContainedAux(s, y, rest)
      ELSE IF d \notin x.active
      THEN IF IsLast(y) THEN IsEntire(y)
           ELSE Covers(y, d) /\ \A s \in SubCubes(y) : ContainedAux(x, s, rest)
      ELSE \A v \in DOMAIN x.layers :
             /\ v \subseteq UNION DOMAIN y.layers
             /\ \A w \in DOMAIN y.layers : v \cap w # {} => Part(v, w)
ContainedIn(x, y) ==
  \/ IsAll(y) \/ IsEmpty(x)
  \/ ~IsEmpty(y) /\ ~IsAll(x) /\ ContainedAux(x, y, x.active \cup y.active)

\* __contains__
RECURSIVE ContainsAux(_, _)
ContainsAux(x, item) ==
  \E v \in DOMAIN x.layers :
    item[First(x)] \in v /\ (IsLast(x) \/ ContainsAux(x.layers[v], item))
Contains(x, item) == IsAll(x) \/ (~IsEmpty(x) /\ ContainsAux(x, item))
-----------------------------------------------------------------------------
Space == {p \in [Dims -> UNION {Domain[d] : d \in Dims}] : \A d \in Dims : p[d] \in Domain[d]}
PointsOf(cube) == {p \in Space : \A d \in Dims : p[d] \in cube[d]}

RECURSIVE Nodes(_)
Nodes(x) == {x} \cup (IF IsLast(x) THEN {} ELSE UNION {Nodes(s) : s \in SubCubes(x)})
Hollow(x) == ~IsAll(x) /\ \E n \in Nodes(x) : n # x /\ IsEmpty(n)

Init == /\ self = EmptyCube /\ inSelf = {} /\ hollow = FALSE
        /\ \/ other = EmptyCube /\ inOther = {}
           \/ other = AllCube /\ inOther = Space

Becomes(x, points) ==
  /\ self' = x /\ inSelf' = points /\ hollow' = (hollow \/ Hollow(x))
  /\ UNCHANGED <<other, inOther>>
\* add_cube and add_hole
AddCube(cube) == Becomes(Or(self, CreateFromCube(cube)), inSelf \cup PointsOf(cube))
AddHole(cube) == Becomes(Sub(self, CreateFromCube(cube)), inSelf \ PointsOf(cube))
Ior == Becomes(Or(self, other), inSelf \cup inOther)
Iand == Becomes(And(self, other), inSelf \cap inOther)
Isub == Becomes(Sub(self, other), inSelf \ inOther)
\* The next calls are made on the other object.
Turn == /\ self' = other /\ other' = self /\ inSelf' = inOther /\ inOther' = inSelf
        /\ UNCHANGED hollow

\* The history ends with the first tree that has an empty branch.
Next == /\ ~hollow
        /\ \/ Ior \/ Iand \/ Isub \/ Turn
           \/ \E cube \in Operands : AddCube(cube) \/ AddHole(cube)
Spec == Init /\ [][Next]_vars
-----------------------------------------------------------------------------
(***************************************************************************)
(* Properties.  Subtracting from an empty object may leave a branch without   *)
(* layers in it, and nothing holds of what is computed from it afterwards:     *)
(* that is EmptyHasNoLayers, and the others are about histories without.       *)
(***************************************************************************)
\* What the class comment says of every node of the tree: the layers are disjoint and
\* lead to different subtrees, all of the same remaining dimensions, and no dimension is
\* active in which every cube has the whole domain; though dimensions come and go with
\* every operand.
WellFormed(x) ==
  \A n \in Nodes(x) :
    /\ {} \notin DOMAIN n.layers
    /\ \A v, w \in DOMAIN n.layers :
         v # w => v \cap w = {} /\ ~IsLast(n) /\ n.layers[v] # n.layers[w]
    /\ \A s \in SubCubes(n) :
         IF IsLast(n) THEN s = EmptyInterval ELSE s.active = n.active \ {First(n)}
Canonical ==
  ~hollow /\ ~IsAll(self) => WellFormed(self) /\ (~IsEmpty(self) => Reducible(self) = {})

\* The object holds the points that the calls so far should have left in it, point by
\* point, whichever dimensions were active in between.
ContentsExact == ~hollow => \A p \in Space : Contains(self, p) <=> p \in inSelf

\* __eq__
Equal(x, y) == (IsEmpty(x) /\ IsEmpty(y)) \/ x = y
\* Equality and containment of two objects, which decide the answers of queries and are
\* computed from the trees alone, are those of the sets of points, though the objects
\* have different active dimensions and were made by different calls.
ComparisonsExact ==
  ~hollow => /\ Equal(self, other) <=> inSelf = inOther
             /\ ContainedIn(self, other) <=> inSelf \subseteq inOther

\* "An empty object has at least one active dimension and an empty 'layers' map."
EmptyHasNoLayers == inSelf = {} => IsEmpty(self)
=============================================================================
