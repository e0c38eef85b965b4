----------------------------- MODULE Addresses -----------------------------
(***************************************************************************)
(* Addresses of a family of Width bits and the prefixes of both families   *)
(* (net/netip, as internal/prefix uses it).                                *)
(***************************************************************************)
EXTENDS Naturals, FiniteSets, Sequences, SequencesExt

CONSTANT Width          \* bits of an address, 32 and 128 in the code

Address == 0 .. (2^Width - 1)

Family == {4, 6}

\* A prefix as parsed: host bits may be set.
RawPrefix == [family : Family, addr : Address, bits : 0 .. Width]

Size(bits) == 2^(Width - bits)

Masked(p) == [p EXCEPT !.addr = (@ \div Size(p.bits)) * Size(p.bits)]

CanonicalPrefix == {p \in RawPrefix : Masked(p) = p}

\* The last address of a prefix.
prefixEnd(p) == p.addr + Size(p.bits) - 1

Within(p, family, a) == p.family = family /\ p.addr <= a /\ a <= prefixEnd(p)

\* netip.Prefix.Overlaps.
Overlaps(p, q) == Within(p, q.family, q.addr) \/ Within(q, p.family, p.addr)

Split(p) ==
    LET left == Masked([p EXCEPT !.bits = @ + 1])
    IN  <<left, [left EXCEPT !.addr = @ + Size(p.bits + 1)]>>

\* sort.Search: bisection over the positions 0 .. n - 1, which hits marks.
Search(hits) ==
    LET n == Len(hits)
        bisect[i \in 0 .. n, j \in 0 .. n] ==
            IF i >= j THEN i
            ELSE LET middle == (i + j) \div 2
                 IN  IF hits[middle + 1] THEN bisect[i, middle] ELSE bisect[middle + 1, j]
    IN  bisect[0, n]

\* The addresses of a prefix, and of a collection of prefixes.
Extent(p) == {p.family} \X (p.addr .. prefixEnd(p))

Extents(ps) == UNION {Extent(p) : p \in ps}
=============================================================================
