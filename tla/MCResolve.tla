----------------------------- MODULE MCResolve -----------------------------
(* Instances of the source transactions for TLC. *)
EXTENDS Resolve

CONSTANTS c1, c2, l1

IntervalVal == (c1 :> 2) @@ (c2 :> 2) @@ (l1 :> 1)

Cfg(req, provider, ident) == [required |-> req, provider |-> provider, ident |-> ident]

Pair == {Cfg({c1}, "dbip-lite", 1), Cfg({c1, l1}, "dbip-lite", 1)}
=============================================================================
