------------------------------ MODULE MCEngine ------------------------------
(***************************************************************************)
(* Instances of Engine for TLC.  Three revisions: the previous one, the    *)
(* candidate, and one more to follow them.  r1 and r2 share one place and  *)
(* r3 is elsewhere, so that switches inside a place and between places     *)
(* both happen; in OneFamily, r2 covers ipv4 only.                         *)
(***************************************************************************)
EXTENDS Engine, TLC

CONSTANTS r1, r2, r3

\* r1 and r2 in iptables, r3 in an nftables table.
MixedPlace == (r1 :> "iptables") @@ (r2 :> "iptables") @@ (r3 :> "table")

AllFamilies == [r \in {r1, r2, r3} |-> Family]

OneFamily == (r1 :> Family) @@ (r2 :> {"ipv4"}) @@ (r3 :> Family)
=============================================================================
