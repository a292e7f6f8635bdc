---------------------------- MODULE MCHyperCube ----------------------------
(***************************************************************************)
(* Three dimensions of two values: every dimension may be the first, an inner *)
(* and the last active one.                                                     *)
(***************************************************************************)
EXTENDS HyperCube

MCDomain == <<{0, 1}, {0, 1}, {0, 1}>>
MCOperands == {<<{0}, {0, 1}, {0, 1}>>, <<{0, 1}, {0}, {0, 1}>>, <<{0, 1}, {0, 1}, {0}>>}
=============================================================================
