---------------------------- MODULE MCIPTBackend ----------------------------
(***************************************************************************)
(* Instances of IPTBackend for TLC.  Three generations: g1 covers both     *)
(* families on one attachment, g2 has one more attachment and hands on     *)
(* the dynamic generation of g1, g3 covers ipv4 only, on the other         *)
(* attachment, with a dynamic generation of its own.  The set budget has   *)
(* exactly room for g1 with either of the others, and not for g2 with g3.  *)
(***************************************************************************)
EXTENDS IPTBackend

CONSTANTS g1, g2, g3, d1, d2, a1, a2

MCCovers  == [g \in {g1, g2, g3} |-> IF g = g3 THEN {"ipv4"} ELSE {"ipv4", "ipv6"}]
MCHooks   == [g \in {g1, g2, g3} |-> CASE g = g1 -> {a1} [] g = g2 -> {a1, a2} [] g = g3 -> {a2}]
MCElems   == [g \in {g1, g2, g3} |-> CASE g = g1 -> {1} [] g = g2 -> {1, 2} [] g = g3 -> 1..4]
MCDynamic == [g \in {g1, g2, g3} |-> IF g = g3 THEN d2 ELSE d1]
=============================================================================
