--------------------------- MODULE MCIntervalSet ---------------------------
(***************************************************************************)
(* The operands are the canonical lists of every set of values: addresses   *)
(* of two families that meet, the first of which is long enough to stand    *)
(* for plain integers as well.                                              *)
(***************************************************************************)
EXTENDS IntervalSet, FiniteSetsExt, SequencesExt

CONSTANT Bound  \* the values are 0 .. Bound

MCValues == 0 .. Bound

\* Two families of addresses: 0 .. Bound - 2, and the last two.
MCBottoms == {0, Bound - 1}
MCTops == {Bound - 2, Bound}

\* The intervals of the maximal runs of S, in order.
RunsOf(S) ==
  LET runs == {i \in Interval :
                 /\ i.start .. i.end \subseteq S
                 /\ i.start \in Bottoms \/ i.start - 1 \notin S
                 /\ i.end \in Tops \/ i.end + 1 \notin S}
  IN  SetToSortSeq(runs, LAMBDA a, b : a.start < b.start)

MCOperands == {RunsOf(S) : S \in SUBSET Values}
=============================================================================
