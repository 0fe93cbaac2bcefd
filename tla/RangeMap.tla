------------------------------ MODULE RangeMap ------------------------------
(***************************************************************************)
(* core/mmap/range_map.h: a map from disjoint half-open ranges to values.  *)
(* The ordered std::map is the set of its entries; an iteration over the   *)
(* entries from overlap_begin up to end visits the entries that overlap.   *)
(***************************************************************************)
EXTENDS Integers, FiniteSetsExt

Entry(s, e, v) == [start |-> s, end |-> e, val |-> v]

\* The entries an iteration over [s, e) visits.
Overlapping(E, s, e) == {x \in E : x.start < e /\ s < x.end}

\* What is left of the entries cut at s and at e.
LeftStubs(O, s)  == {Entry(x.start, s, x.val) : x \in {y \in O : y.start < s}}
RightStubs(O, e) == {Entry(e, x.end, x.val) : x \in {y \in O : e < y.end}}

\* Mutants of the next operators.
RemoveNoRight(E, s, e) ==
    LET O == Overlapping(E, s, e) IN (E \ O) \cup LeftStubs(O, s)
CoalesceRightOnly(E, x) ==
    LET r == {y \in E : y.start = x.end /\ y.val = x.val} IN
    (E \ r) \cup {Entry(x.start, Max({x.end} \cup {y.end : y \in r}), x.val)}

Remove(E, s, e) ==
    LET O == Overlapping(E, s, e) IN
    (E \ O) \cup LeftStubs(O, s) \cup RightStubs(O, e)

\* Merge a new entry with the neighbours of the same value.
Coalesce(E, x) ==
    LET near == {y \in E : y.val = x.val /\ (y.end = x.start \/ y.start = x.end)} IN
    (E \ near) \cup {Entry(Min({x.start} \cup {y.start : y \in near}),
                           Max({x.end} \cup {y.end : y \in near}), x.val)}

Insert(E, s, e, v) == Coalesce(Remove(E, s, e), Entry(s, e, v))

\* The entry that holds page p, as a set of at most one.
Find(E, p) == {x \in E : x.start <= p /\ p < x.end}

\* No entry overlaps [s, e).
Vacant(E, s, e) == Overlapping(E, s, e) = {}
=============================================================================
