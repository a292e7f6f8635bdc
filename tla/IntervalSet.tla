---------------------------- MODULE IntervalSet ----------------------------
(***************************************************************************)
(* CanonicalIntervalSet (nca/CoreDS/CanonicalIntervalSet.py): a set of      *)
(* values held as a sorted list of closed intervals no two of which overlap *)
(* or touch.  Ports, protocols, methods, ICMP types and peer indices are    *)
(* sets of integers; IpBlock holds addresses of two families, whose +1 and  *)
(* -1 stop at the ends of a family (IPNetworkAddress, Peer.py).             *)
(*                                                                          *)
(* One object, self, executes one call after another.  The loops of the     *)
(* code, the two binary searches included, are executed one iteration per   *)
(* step, so that what they establish can be stated and proved.  Indices are *)
(* those of the code: element i of a list is at position i + 1 here.        *)
(***************************************************************************)
EXTENDS Integers, Sequences

CONSTANTS
  Values,    \* the values an interval may hold
  Bottoms,   \* the first address of each family; {} for plain integers
  Tops,      \* the last address of each family; {} for plain integers
  Operands   \* the interval sets a call may get as its argument

Interval ==
  {i \in [start : Values, end : Values] :
     /\ i.start =< i.end
     /\ \A t \in Tops : ~(i.start =< t /\ t < i.end)}

\* `+ 1` and `- 1` on a value: on an address they raise AddressValueError at
\* the ends of its family, and the address itself is returned.
SuccAcross(v) == v + 1     \* (mutant: goes on into the next family)
Succ(v) == IF v \in Tops THEN v ELSE v + 1
Pred(v) == IF v \in Bottoms THEN v ELSE v - 1

Iv(s, e) == [start |-> s, end |-> e]
Lesser(a, b)  == IF a =< b THEN a ELSE b
Greater(a, b) == IF a >= b THEN a ELSE b

(***************************************************************************)
(* The inner class Interval.                                               *)
(***************************************************************************)
Overlaps(a, b) == b.end >= a.start /\ b.start =< a.end

Touches(a, b) == \/ a.start > b.end /\ a.start = Succ(b.end)
                 \/ b.start > a.end /\ b.start = Succ(a.end)

IsSubset(a, b) == b.start =< a.start /\ b.end >= a.end

\* (mutant: the test for an empty intersection is dropped)
IntervalAndUnchecked(a, b) ==
  <<Iv(Greater(a.start, b.start), Lesser(a.end, b.end))>>
IntervalAnd(a, b) ==
  LET s == Greater(a.start, b.start)
      e == Lesser(a.end, b.end)
  IN  IF e < s THEN << >> ELSE <<Iv(s, e)>>

\* (mutant: the upper piece starts at the last value removed)
IntervalSubKeepsEnd(a, b) ==
  IF ~Overlaps(a, b) THEN <<a>>
  ELSE IF IsSubset(a, b) THEN << >>
  ELSE IF a.start < b.start /\ a.end > b.end
    THEN <<Iv(a.start, Pred(b.start)), Iv(b.end, a.end)>>
  ELSE IF a.start < b.start
    THEN <<Iv(a.start, Lesser(a.end, Pred(b.start)))>>
  ELSE <<Iv(Greater(a.start, b.end), a.end)>>
IntervalSub(a, b) ==
  IF ~Overlaps(a, b) THEN <<a>>
  ELSE IF IsSubset(a, b) THEN << >>
  ELSE IF a.start < b.start /\ a.end > b.end
    THEN <<Iv(a.start, Pred(b.start)), Iv(Succ(b.end), a.end)>>
  ELSE IF a.start < b.start
    THEN <<Iv(a.start, Lesser(a.end, Pred(b.start)))>>
  ELSE <<Iv(Greater(a.start, Succ(b.end)), a.end)>>

\* The tests of the two searches: an interval of the list is lower (higher)
\* than the one searched for, without overlapping or touching it.
Lower(a, key)  == a.end < Pred(key.start)
Higher(a, key) == a.start > Succ(key.end)

\* What the class comment promises of interval_set.
IsCanonical(s) ==
  /\ s \in Seq(Interval)
  /\ \A i, j \in 1 .. Len(s) : i < j => Lower(s[i], s[j])

Contents(s) ==
  {v \in Values : \E i \in 1 .. Len(s) : s[i].start =< v /\ v =< s[i].end}

ASSUME ValuesAssumption == Values \subseteq Int
ASSUME FamiliesAssumption ==
  /\ Tops \subseteq Values
  /\ Bottoms \subseteq Values
  /\ \A t \in Tops : t + 1 \in Values => t + 1 \in Bottoms
  /\ \A b \in Bottoms : b - 1 \in Values => b - 1 \in Tops
\* The values are a range: what lies between two of them is one of them.
ASSUME RangeAssumption == \A v, w \in Values : v .. w \subseteq Values
ASSUME OperandsAssumption == \A s \in Operands : IsCanonical(s)

-----------------------------------------------------------------------------
VARIABLES
  set,     \* self.interval_set
  other,   \* the interval set the running call got
  op,      \* the running call
  pc,      \* where it is
  j, k,    \* the loop counters over self and over other
  acc,     \* new_interval_set
  key,     \* the interval being added, or looked for
  low, high, left, right,   \* the searches: bounds and results
  before,  \* what self contained when the call started (a history variable)
  result   \* what contained_in returned

search == <<low, high, left, right>>
vars == <<set, other, op, pc, j, k, acc, key, low, high, left, right,
          before, result>>

NoKey == [start |-> 0, end |-> 0]

Init ==
  /\ set = << >> /\ other = << >> /\ op = "none" /\ pc = "idle"
  /\ j = 0 /\ k = 0 /\ acc = << >> /\ key = NoKey
  /\ low = 0 /\ high = 0 /\ left = -1 /\ right = -1
  /\ before = {} /\ result = FALSE

Ops == {"ior", "isub", "iand", "contained_in"}

\* A call: `self |= s`, `self -= s`, `self &= s` or `self.contained_in(s)`
\* (add_interval and add_hole are the first two with an s of one interval).
Call(o, s) ==
  /\ pc = "idle"
  /\ op' = o /\ pc' = o /\ other' = s /\ before' = Contents(set)
  /\ result' = FALSE
  /\ UNCHANGED <<set, j, k, acc, key, search>>

\* The call's locals are gone when it returns r, and a search's when it ends.
Return(r) ==
  /\ pc' = "idle" /\ op' = "none" /\ other' = << >> /\ before' = {}
  /\ j' = 0 /\ k' = 0 /\ acc' = << >> /\ result' = r
SearchOver ==
  /\ key' = NoKey /\ low' = 0 /\ high' = 0 /\ left' = -1 /\ right' = -1

(***************************************************************************)
(* __ior__: add_interval for each interval of other.                       *)
(***************************************************************************)
OrDone == pc = "ior" /\ k = Len(other) /\ Return(FALSE)
          /\ UNCHANGED <<set, key, search>>

\* add_interval on an empty list: the interval is the list.
AddFirst ==
  /\ pc = "ior" /\ k < Len(other) /\ set = << >>
  /\ set' = <<other[k + 1]>> /\ k' = k + 1
  /\ UNCHANGED <<other, op, pc, j, acc, key, search, before, result>>

AddStart ==
  /\ pc = "ior" /\ k < Len(other) /\ set # << >>
  /\ key' = other[k + 1] /\ pc' = "find_left"
  /\ low' = 0 /\ high' = Len(set)
  /\ UNCHANGED <<set, other, op, j, k, acc, left, right, before, result>>

\* The list a search looks in: contained_in searches its argument.
Searched == IF op = "contained_in" THEN other ELSE set

\* The loops of both searches move one of their bounds.
LowMoves(to) ==
  /\ low' = to
  /\ UNCHANGED <<set, other, op, pc, j, k, acc, key, high, left, right, before,
                 result>>
LowTo(mid) == LowMoves(mid)  \* (mutant: low does not pass the middle)
LowPast(mid) == LowMoves(mid + 1)
HighTo(mid) ==
  /\ high' = mid
  /\ UNCHANGED <<set, other, op, pc, j, k, acc, key, low, left, right, before,
                 result>>

Mid == (low + high) \div 2
\* After a loop: `if low == len(self.interval_set): low -= 1`.
LowInside(s) == IF low = Len(s) THEN low - 1 ELSE low

\* find_interval_left returns l to the call that made it.
FoundLeft(l) ==
  /\ left' = l
  /\ IF op = "contained_in"
       THEN pc' = "check" /\ UNCHANGED <<low, high>>
       ELSE pc' = "find_right" /\ low' = 0 /\ high' = Len(set)
  /\ UNCHANGED <<set, other, op, j, k, acc, key, right, before, result>>

\* The lower interval at index i is the last one: the early returns.
LastLowerAtEnd(s, i) == i = Len(s) - 1  \* (mutant: the successor is not looked at)
LastLower(s, i) == i = Len(s) - 1 \/ ~Lower(s[i + 2], key)
FirstHigher(s, i) == i = 0 \/ ~Higher(s[i], key)

FindLeft ==
  /\ pc = "find_left"
  /\ \/ /\ low # high /\ Lower(Searched[Mid + 1], key)
        /\ IF LastLower(Searched, Mid) THEN FoundLeft(Mid) ELSE LowPast(Mid)
     \/ /\ low # high /\ ~Lower(Searched[Mid + 1], key)
        /\ HighTo(Mid)
     \/ /\ low = high
        /\ LET i == LowInside(Searched)
           IN  FoundLeft(IF Lower(Searched[i + 1], key) THEN i ELSE -1)

FoundRight(r) ==
  /\ right' = r /\ pc' = "splice"
  /\ UNCHANGED <<set, other, op, j, k, acc, key, low, high, left, before,
                 result>>

FindRight ==
  /\ pc = "find_right"
  /\ \/ /\ low # high /\ Higher(set[Mid + 1], key)
        /\ IF FirstHigher(set, Mid) THEN FoundRight(Mid) ELSE HighTo(Mid)
     \/ /\ low # high /\ ~Higher(set[Mid + 1], key)
        /\ LowPast(Mid)
     \/ /\ low = high
        /\ LET i == LowInside(set)
           IN  FoundRight(IF Higher(set[i + 1], key) THEN i ELSE -1)

\* The list with its elements from..to-1 replaced by x: `insert(from, x)` when
\* from = to, `del list[from:to]; insert(from, x)` otherwise.
Replace(s, from, to, x) == SubSeq(s, 1, from) \o <<x>> \o SubSeq(s, to + 1, Len(s))

\* (mutant: `del self.interval_set[left:right]` forgets the last one merged)
MergedButLast(s, x, l, r) ==
  LET last == IF r >= 0 THEN r - 1 ELSE Len(s) - 1
  IN  Replace(s, l + 1, last, Iv(Lesser(x.start, s[l + 2].start),
                                 Greater(x.end, s[last + 1].end)))
\* (mutant: what only touches the new interval is not merged with it)
MergedOverlaps(s, x, l, r) ==
  LET last  == IF r >= 0 THEN r - 1 ELSE Len(s) - 1
      a     == s[l + 2]
      b     == s[last + 1]
      start == IF Overlaps(a, x) THEN Lesser(x.start, a.start) ELSE x.start
      end   == IF Overlaps(b, x) THEN Greater(x.end, b.end) ELSE x.end
  IN  Replace(s, l + 1, last + 1, Iv(start, end))

\* The rest of add_interval, once both searches have returned.
Merged(s, x, l, r) ==
  LET first == l + 1
      last  == IF r >= 0 THEN r - 1 ELSE Len(s) - 1
      a     == s[first + 1]
      b     == s[last + 1]
      start == IF Overlaps(a, x) \/ Touches(a, x)
                 THEN Lesser(x.start, a.start) ELSE x.start
      end   == IF Overlaps(b, x) \/ Touches(b, x)
                 THEN Greater(x.end, b.end) ELSE x.end
  IN  Replace(s, first, last + 1, Iv(start, end))

Spliced(s, x, l, r) ==
  IF l >= 0 /\ r >= 0 /\ r - l = 1 THEN Replace(s, l + 1, l + 1, x)
  ELSE IF l = -1 /\ r = 0 THEN Replace(s, 0, 0, x)
  ELSE IF r = -1 /\ l = Len(s) - 1 THEN Append(s, x)
  ELSE Merged(s, x, l, r)

Splice ==
  /\ pc = "splice"
  /\ set' = Spliced(set, key, left, right)
  /\ pc' = "ior" /\ k' = k + 1 /\ SearchOver
  /\ UNCHANGED <<other, op, j, acc, before, result>>

(***************************************************************************)
(* __isub__: add_hole for each interval of other, each of which rebuilds    *)
(* the list.                                                               *)
(***************************************************************************)
SubDone == pc = "isub" /\ k = Len(other) /\ Return(FALSE)
           /\ UNCHANGED <<set, key, search>>

HoleStep ==
  /\ pc = "isub" /\ k < Len(other) /\ j < Len(set)
  /\ acc' = acc \o IntervalSub(set[j + 1], other[k + 1])
  /\ j' = j + 1
  /\ UNCHANGED <<set, other, op, pc, k, key, search, before, result>>

HoleDone ==
  /\ pc = "isub" /\ k < Len(other) /\ j = Len(set)
  /\ set' = acc /\ acc' = << >> /\ j' = 0 /\ k' = k + 1
  /\ UNCHANGED <<other, op, pc, key, search, before, result>>

(***************************************************************************)
(* __iand__ (and __and__): every interval of self with every one of other.  *)
(***************************************************************************)
AndStep ==
  /\ pc = "iand" /\ j < Len(set) /\ k < Len(other)
  /\ acc' = acc \o IntervalAnd(set[j + 1], other[k + 1])
  /\ k' = k + 1
  /\ UNCHANGED <<set, other, op, pc, j, key, search, before, result>>

AndNext ==
  /\ pc = "iand" /\ j < Len(set) /\ k = Len(other)
  /\ j' = j + 1 /\ k' = 0
  /\ UNCHANGED <<set, other, op, pc, acc, key, search, before, result>>

AndDone ==
  /\ pc = "iand" /\ j = Len(set)
  /\ set' = acc /\ Return(FALSE)
  /\ UNCHANGED <<key, search>>

(***************************************************************************)
(* contained_in: two single intervals are compared; otherwise, a search in  *)
(* other for each interval of self.                                        *)
(***************************************************************************)
\* (mutant: the other intervals of the argument are forgotten)
TwoFirsts == Len(set) = 1 /\ Len(other) >= 1
TwoSingles == Len(set) = 1 /\ Len(other) = 1

ContainedShortcut ==
  /\ pc = "contained_in" /\ TwoSingles
  /\ Return(IsSubset(set[1], other[1]))
  /\ UNCHANGED <<set, key, search>>

ContainedDone ==
  /\ pc = "contained_in" /\ ~TwoSingles /\ k = Len(set) /\ Return(TRUE)
  /\ UNCHANGED <<set, key, search>>

\* find_interval_left answers -1 at once on an empty list.
ContainedSearch ==
  /\ pc = "contained_in" /\ ~TwoSingles /\ k < Len(set)
  /\ key' = set[k + 1]
  /\ IF other = << >>
       THEN left' = -1 /\ pc' = "check" /\ UNCHANGED <<low, high>>
       ELSE low' = 0 /\ high' = Len(other) /\ pc' = "find_left"
            /\ UNCHANGED left
  /\ UNCHANGED <<set, other, op, j, k, acc, right, before, result>>

ContainedCheck ==
  /\ pc = "check"
  /\ IF left = Len(other) - 1 \/ ~IsSubset(key, other[left + 2])
       THEN Return(FALSE)
       ELSE /\ pc' = "contained_in" /\ k' = k + 1
            /\ UNCHANGED <<other, op, j, acc, before, result>>
  /\ SearchOver /\ UNCHANGED set

-----------------------------------------------------------------------------
Step == \/ OrDone \/ AddFirst \/ AddStart \/ FindLeft \/ FindRight \/ Splice
        \/ SubDone \/ HoleStep \/ HoleDone
        \/ AndStep \/ AndNext \/ AndDone
        \/ ContainedShortcut \/ ContainedDone \/ ContainedSearch \/ ContainedCheck

Next == \/ \E o \in Ops, s \in Operands : Call(o, s)
        \/ Step

Spec == Init /\ [][Next]_vars

\* A call that has started runs to its end: the code is sequential.
FairSpec == Spec /\ WF_vars(Step)
-----------------------------------------------------------------------------
(***************************************************************************)
(* Properties.                                                             *)
(***************************************************************************)

\* The types of the variables; set is always a list of well-formed intervals
\* (start not after end, never across two address families).
TypeOK ==
  /\ set \in Seq(Interval) /\ other \in Seq(Interval)
  /\ op \in Ops \cup {"none"}
  /\ pc \in {"idle", "ior", "isub", "iand", "contained_in", "find_left",
             "find_right", "splice", "check"}
  /\ j \in Nat /\ k \in Nat /\ acc \in Seq(Interval)
  /\ key \in Interval \cup {NoKey}
  /\ low \in Nat /\ high \in Nat /\ left \in Int /\ right \in Int
  /\ before \subseteq Values /\ result \in BOOLEAN

\* The class comment's promise, in every state: interval_set is sorted and no
\* two of its intervals overlap or touch, whatever calls were made on it and
\* between the additions of one `|=` too.
Canonical == IsCanonical(set)

\* l is what find_interval_left promises: the index of the last interval that
\* is lower than x without touching it, -1 when there is none.
LeftExact(s, x, l) ==
  /\ l \in -1 .. Len(s) - 1
  /\ \A i \in 1 .. Len(s) : i =< l + 1 <=> Lower(s[i], x)

RightExact(s, x, r) ==
  /\ r \in -1 .. Len(s) - 1
  /\ \A i \in 1 .. Len(s) : (r >= 0 /\ i >= r + 1) <=> Higher(s[i], x)

\* Both binary searches return the index their comments promise, on every
\* list and key they are run on (and not one the early return cut short).
SearchExact ==
  /\ pc \in {"find_right", "splice"} => LeftExact(set, key, left)
  /\ pc = "check" => LeftExact(other, key, left)
  /\ pc = "splice" => RightExact(set, key, right)

\* Read as the set of values it holds, the object is a plain set: `|=` is
\* union, `-=` difference, `&=` intersection and contained_in inclusion.
Abstract == INSTANCE ValueSet WITH
  value  <- IF pc = "idle" THEN Contents(set) ELSE before,
  arg    <- Contents(other),
  op     <- op,
  busy   <- pc # "idle",
  result <- result

Implements == Abstract!Spec

\* Every call returns: the bounds of the searches never stop moving before
\* they meet.
Terminates == pc # "idle" ~> pc = "idle"

\* The loop invariants that make Canonical inductive.  The early return of a
\* search is what makes the test after its loop right: low only moves past an
\* interval whose successor is lower too, so a loop that runs out of elements
\* has never moved it (high, in the other search, likewise).  In the other two
\* loops, the list being built is canonical and lies within the intervals
\* already visited.
SearchInv ==
  /\ pc \in {"find_left", "find_right", "splice", "check"} => key \in Interval
  /\ pc \in {"find_left", "find_right"} =>
       Searched # << >> /\ low =< high /\ high =< Len(Searched)
  /\ pc = "find_left" =>
       /\ \A i \in 1 .. Len(Searched) : i > high => ~Lower(Searched[i], key)
       /\ low > 0 => low < Len(Searched) /\ Lower(Searched[low + 1], key)
  /\ pc = "find_right" =>
       /\ \A i \in 1 .. Len(set) : i =< low => ~Higher(set[i], key)
       /\ high < Len(set) => high > 0 /\ Higher(set[high], key)

Within(a, b) == b.start =< a.start /\ a.end =< b.end

HoleInv ==
  pc = "isub" =>
    /\ j =< Len(set) /\ k =< Len(other)
    /\ IsCanonical(acc)
    /\ \A i \in 1 .. Len(acc) : \E n \in 1 .. j : Within(acc[i], set[n])

AndInv ==
  pc = "iand" =>
    /\ j =< Len(set) /\ k =< Len(other)
    /\ IsCanonical(acc)
    /\ \A i \in 1 .. Len(acc) :
         \/ \E n \in 1 .. j : Within(acc[i], set[n])
         \/ /\ j < Len(set) /\ Within(acc[i], set[j + 1])
            /\ \E m \in 1 .. k : Within(acc[i], other[m])

\* Which call is running where.
ControlInv ==
  /\ pc = "idle" => j = 0 /\ k = 0 /\ acc = << >>
  /\ pc \in {"ior", "find_right", "splice"} => op = "ior"
  /\ pc = "find_left" => op \in {"ior", "contained_in"}
  /\ pc \in {"contained_in", "check"} => op = "contained_in"

IInv ==
  /\ TypeOK /\ Canonical /\ IsCanonical(other)
  /\ ControlInv /\ SearchInv /\ SearchExact /\ HoleInv /\ AndInv
=============================================================================
