------------------------------ MODULE ValueSet ------------------------------
(***************************************************************************)
(* What CanonicalIntervalSet promises its callers: an object that holds a   *)
(* set of values and answers one call at a time; until a call answers, its  *)
(* caller sees nothing change.                                             *)
(***************************************************************************)
EXTENDS Integers

CONSTANT Values

VARIABLES value, arg, op, busy, result

vars == <<value, arg, op, busy, result>>

Init == value = {} /\ arg = {} /\ op = "none" /\ ~busy /\ result = FALSE

Ops == {"ior", "isub", "iand", "contained_in"}

\* The value after a call o with argument s on an object that holds v.
After(o, v, s) ==
  CASE o = "ior"          -> v \cup s
    [] o = "isub"         -> v \ s
    [] o = "iand"         -> v \cap s
    [] o = "contained_in" -> v

Call ==
  /\ ~busy
  /\ op' \in Ops /\ arg' \in SUBSET Values /\ busy' = TRUE /\ result' = FALSE
  /\ value' = value

Return ==
  /\ busy
  /\ value' = After(op, value, arg)
  /\ result' = (op = "contained_in" /\ value \subseteq arg)
  /\ busy' = FALSE /\ op' = "none" /\ arg' = {}

Next == Call \/ Return

Spec == Init /\ [][Next]_vars
=============================================================================
