----------------------------- MODULE Enforcement -----------------------------
(***************************************************************************)
(* What an iptables policy switch promises to packets, whatever the        *)
(* commands it is made of and wherever they stop: a family is filtered by  *)
(* one whole generation, on all of its attachments at once; the generation *)
(* is one that the records name; and a transaction closes only when every  *)
(* family has the generation that it closes on.                            *)
(***************************************************************************)
CONSTANTS Gen,        \* generation identities
          NoGen,      \* no target: no packet is filtered
          Attach,     \* places in the parent chains
          Path(_, _)  \* Path(g, f): the attachments of generation g in family f

VARIABLES policy,     \* policy[f][a]: the generation that filters a in family f
          allowed     \* the generations that the records name

Family == {"ipv4", "ipv6"}

Whole(g, f) == [a \in Attach |-> IF a \in Path(g, f) THEN g ELSE NoGen]

Nothing == [f \in Family |-> [a \in Attach |-> NoGen]]

Init ==
    /\ policy = Nothing
    /\ allowed = {NoGen}

\* One family moves to one recorded generation.
Select(f, g) ==
    /\ g \in allowed
    /\ policy' = [policy EXCEPT ![f] = Whole(g, f)]
    /\ UNCHANGED allowed

\* A transaction records another generation, or the intent to remove.
Open(g) ==
    /\ allowed' = allowed \cup {g}
    /\ UNCHANGED policy

\* A transaction ends with one generation in every family.
Close(g) ==
    /\ g \in allowed /\ allowed' = {g}
    /\ policy = [f \in Family |-> Whole(g, f)]
    /\ UNCHANGED policy

\* A power loss empties the packet filter.
Lose ==
    /\ policy' = Nothing
    /\ UNCHANGED allowed

Next ==
    \/ \E f \in Family, g \in Gen \cup {NoGen} : Select(f, g)
    \/ \E g \in Gen \cup {NoGen} : Open(g) \/ Close(g)
    \/ Lose

Spec == Init /\ [][Next]_<<policy, allowed>>
=============================================================================
