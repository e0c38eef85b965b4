--------------------------- MODULE PrefixAlgebra ---------------------------
(***************************************************************************)
(* The operations of internal/prefix on canonical prefix sequences: union, *)
(* difference, membership and the cover of an address range.               *)
(***************************************************************************)
EXTENDS Addresses

----------------------------------------------------------------------------
(* set.go *)

less(p, q) ==
    \/ p.family < q.family
    \/ p.family = q.family /\ p.addr < q.addr
    \/ p.family = q.family /\ p.addr = q.addr /\ p.bits < q.bits

\* The previous prefix kept already contains the candidate.
Contained(out, p) == out # <<>> /\ Within(Last(out), p.family, p.addr)

canonicalize(values) ==
    LET keep(out, p) == IF Contained(out, p) THEN out ELSE Append(out, p)
    IN  FoldLeft(keep, <<>>, SortSeq(values, less))

Normalize(values) == canonicalize([i \in DOMAIN values |-> Masked(values[i])])

Union(s, t) == canonicalize(s \o t)

v6Start(s) == Search([i \in DOMAIN s |-> s[i].family = 6])

OfFamily(s, family) ==
    IF family = 4 THEN SubSeq(s, 1, v6Start(s)) ELSE SubSeq(s, v6Start(s) + 1, Len(s))

\* Mutant: an exclusion that ends where the node starts is missed.
OverlapFromNext(node, ex) ==
    <<Search([i \in DOMAIN ex |-> prefixEnd(ex[i]) > node.addr]),
      Search([i \in DOMAIN ex |-> ex[i].addr > prefixEnd(node)])>>

\* The half-open range of exclusions that touch a node.
overlapRange(node, ex) ==
    <<Search([i \in DOMAIN ex |-> prefixEnd(ex[i]) >= node.addr]),
      Search([i \in DOMAIN ex |-> ex[i].addr > prefixEnd(node)])>>

RECURSIVE subtractNode(_, _)

subtractNode(node, ex) ==
    LET touching == overlapRange(node, ex)
        rest == SubSeq(ex, touching[1] + 1, touching[2])
    IN  CASE touching[1] = touching[2] -> <<node>>
          [] rest[1].bits <= node.bits /\ Within(rest[1], node.family, node.addr) -> <<>>
          [] node.bits >= Width -> <<>>
          [] OTHER -> subtractNode(Split(node)[1], rest) \o subtractNode(Split(node)[2], rest)

\* The cursor of processFamily skips the exclusions that end before a prefix.
processFamily(includes, excludes) ==
    LET ends(from, a) == {i \in from .. Len(excludes) : prefixEnd(excludes[i]) >= a}
        step(acc, p) ==
            LET live == ends(acc.cursor, p.addr)
                cursor == IF live = {} THEN Len(excludes) + 1 ELSE CHOOSE i \in live : \A j \in live : i <= j
                after == {i \in cursor .. Len(excludes) : excludes[i].addr > prefixEnd(p)}
                end == IF after = {} THEN Len(excludes) + 1 ELSE CHOOSE i \in after : \A j \in after : i <= j
            IN  [cursor |-> cursor,
                 out |-> acc.out \o IF cursor = end THEN <<p>>
                                    ELSE subtractNode(p, SubSeq(excludes, cursor, end - 1))]
    IN  FoldLeft(step, [cursor |-> 1, out |-> <<>>], includes).out

Difference(s, t) ==
    processFamily(OfFamily(s, 4), OfFamily(t, 4)) \o processFamily(OfFamily(s, 6), OfFamily(t, 6))

HasAddress(s, family, a) ==
    LET part == OfFamily(s, family)
        position == Search([i \in DOMAIN part |-> part[i].addr > a])
    IN  position # 0 /\ Within(part[position], family, a)

----------------------------------------------------------------------------
(* range.go *)

\* The block starting at start leaves the interval.
Exceeds(start, bits, end) == start + Size(bits) - 1 > end

\* The largest aligned block, shrunk until it fits.
Block(family, start, end) ==
    LET fits(bits) == start % Size(bits) = 0 /\ ~Exceeds(start, bits, end)
    IN  [family |-> family, addr |-> start,
         bits |-> IF \E b \in 0 .. Width : fits(b)
                  THEN CHOOSE b \in 0 .. Width : fits(b) /\ \A c \in 0 .. (b - 1) : ~fits(c)
                  ELSE Width]

RECURSIVE AppendRange(_, _, _)

AppendRange(family, start, end) ==
    LET block == Block(family, start, end)
    IN  <<block>> \o IF prefixEnd(block) >= end THEN <<>>
                     ELSE AppendRange(family, prefixEnd(block) + 1, end)
=============================================================================
