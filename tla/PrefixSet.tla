----------------------------- MODULE PrefixSet -----------------------------
(***************************************************************************)
(* The canonical prefix sets that policies are computed with               *)
(* (internal/prefix): a set grows by unions, shrinks by differences and by *)
(* address ranges, and every intermediate result feeds the next operation. *)
(***************************************************************************)
EXTENDS PrefixAlgebra

CONSTANT Operand        \* the values operations are given: sequences of raw prefixes

VARIABLES
    set,        \* Set.prefixes
    members     \* the addresses the operations so far leave in the set

vars == <<set, members>>

----------------------------------------------------------------------------
Init == set = <<>> /\ members = {}

Add(values) ==
    /\ set' = Union(set, Normalize(values))
    /\ members' = members \cup Extents(ToSet([i \in DOMAIN values |-> Masked(values[i])]))

Subtract(values) ==
    /\ set' = Difference(set, Normalize(values))
    /\ members' = members \ Extents(ToSet([i \in DOMAIN values |-> Masked(values[i])]))

AddRange(family, start, end) ==
    /\ start <= end
    /\ set' = Union(set, Normalize(AppendRange(family, start, end)))
    /\ members' = members \cup ({family} \X (start .. end))

Next ==
    \/ \E values \in Operand : Add(values) \/ Subtract(values)
    \/ \E family \in Family, start, end \in Address : AddRange(family, start, end)

Spec == Init /\ [][Next]_vars

----------------------------------------------------------------------------
\* Whatever the sequence of unions, differences and ranges (set.go Union,
\* Difference; range.go AppendRange), the set holds exactly the addresses the
\* operations say, in both families, in the form the binary searches rely on:
\* sorted, no prefix overlapping another, so that Contains finds just these.
Exact ==
    /\ Extents(ToSet(set)) = members
    /\ \A i, j \in DOMAIN set : i < j => less(set[i], set[j]) /\ ~Overlaps(set[i], set[j])
    /\ \A family \in Family, a \in Address : HasAddress(set, family, a) <=> <<family, a>> \in members
=============================================================================
