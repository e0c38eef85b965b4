------------------------------- MODULE Kernel -------------------------------
(***************************************************************************)
(* The native firewall as the writer's Backend sees it                     *)
(* (internal/firewall: router.go, nftables.go, iptables.go).               *)
(*                                                                         *)
(* A target is known by its generation.  A generation lives in a place: an *)
(* nftables table, or iptables.  installed holds the generations that have *)
(* owned objects in the kernel, live[f] those that packets of family f     *)
(* traverse.  Inside a place a switch replaces the old generation; between *)
(* two places the old generation stays live until it is retired.  nftables *)
(* commits both families in one batch, iptables one family after the       *)
(* other, with compensation of the attempted families on an error.         *)
(*                                                                         *)
(* A call is one step with the outcome ok.  A failed call may leave any of *)
(* the states the call passes through, so a crash inside a call is a       *)
(* failed call followed by a crash.                                        *)
(***************************************************************************)
EXTENDS Faults

CONSTANTS Gen,        \* generation identities
          NoGen,      \* no target: nil in the code
          Place,      \* the place of a generation
          Covers,     \* the families of a generation
          IPTables    \* the place that is iptables; the others are nft tables

Family == {"ipv4", "ipv6"}

ASSUME GenAssumption ==
    /\ NoGen \notin Gen
    /\ DOMAIN Place = Gen
    /\ Covers \in [Gen -> SUBSET Family]

VARIABLES installed, live

kernelVars == <<installed, live>>

KernelTypeOK ==
    /\ installed \subseteq Gen
    /\ live \in [Family -> SUBSET Gen]

KernelInit ==
    /\ installed = {}
    /\ live = [f \in Family |-> {}]

----------------------------------------------------------------------------
OnIPTables(g) == g # NoGen /\ Place[g] = IPTables

SamePlace(g, h) == g # NoGen /\ h # NoGen /\ Place[g] = Place[h]

\* The families an iptables call has attempted when it stops.
Attempted == {{}, {"ipv4"}, {"ipv4", "ipv6"}}

\* The places a call inspects may hold no object outside the targets G.
Authorized(places, G) == \A g \in installed : Place[g] \in places => g \in G

\* Native.Apply of a different backend also inspects the previous target.
ApplyPlaces(from, to) ==
    IF to = NoGen THEN {Place[from]}
    ELSE {Place[to]} \cup (IF from # NoGen /\ OnIPTables(from) # OnIPTables(to)
                           THEN {Place[from]} ELSE {})

\* Mutant: a replacement detaches the old generation and attaches nothing.
MovedDetachOnly(f, base, to) ==
    IF base = NoGen THEN live[f] \cup {g \in {to} \ {NoGen} : f \in Covers[g]}
    ELSE live[f] \ {base}

\* commitFamily, or the nft batch: family f moves from base to the target to.
Moved(f, base, to) ==
    (live[f] \ {base}) \cup {g \in {to} \ {NoGen} : f \in Covers[g]}

\* The families of an apply that failed at the last of the attempted ones.
\* An earlier family was selected and compensated, or its compensation failed;
\* the last one may also be untouched.
Interrupted(f, base, to, attempted) ==
    IF f \notin attempted THEN {live[f]}
    ELSE {Moved(f, base, to)}
         \cup (IF base \in installed \cup {NoGen} THEN {Moved(f, to, base)} ELSE {})
         \cup (IF f = "ipv6" \/ "ipv6" \notin attempted THEN {live[f]} ELSE {})

\* The candidate's objects exist and every family is moved to it.
Switched(base, to) ==
    /\ installed' = installed \cup ({to} \ {NoGen})
    /\ live' = [f \in Family |-> Moved(f, base, to)]

\* NFT.Apply: one batch for both families; its error may come after it is in.
NFTApply(base, to, ok) ==
    \/ ok /\ NoFault /\ Switched(base, to)
    \/ ~ok /\ Fault /\ (UNCHANGED kernelVars \/ Switched(base, to))

\* IPTables.Apply: stages the candidate, then selects family by family.
IPTApply(base, to, ok) ==
    \/ ok /\ NoFault /\ Switched(base, to)
    \/ ~ok /\ Fault /\ UNCHANGED kernelVars
    \/ /\ ~ok /\ Fault /\ installed' = installed \cup ({to} \ {NoGen})
       /\ live' \in [Family -> SUBSET Gen]
       /\ \E attempted \in Attempted : \A f \in Family :
            live'[f] \in Interrupted(f, base, to, attempted)

\* Native.Apply(previous, candidate): a previous target that is elsewhere is
\* not handed to the candidate's backend, and stays.
BackendApply(from, to, ok) ==
    LET base == IF to = NoGen \/ SamePlace(from, to) THEN from ELSE NoGen
    IN  IF from = NoGen /\ to = NoGen
        THEN UNCHANGED kernelVars /\ (IF ok THEN NoFault ELSE Fault)
        ELSE IF ~Authorized(ApplyPlaces(from, to), {from, to})
        THEN ~ok /\ UNCHANGED kernelVars /\ NoFault
        ELSE IF OnIPTables(IF to = NoGen THEN from ELSE to)
             THEN IPTApply(base, to, ok)
             ELSE NFTApply(base, to, ok)

----------------------------------------------------------------------------
\* The generations G leave the families F.
Detached(G, F) == [f \in Family |-> IF f \in F THEN live[f] \ G ELSE live[f]]

\* NFT.Retire: one batch, or one table deletion.
NFTRetire(G, ok) ==
    \/ /\ IF ok THEN NoFault ELSE Fault
       /\ installed' = installed \ G /\ live' = Detached(G, Family)
    \/ ~ok /\ Fault /\ UNCHANGED kernelVars

\* IPTables.remove: the hooks and chains of one family after the other, then
\* the sets.
IPTRemove(G, ok) ==
    \/ /\ IF ok THEN NoFault ELSE Fault
       /\ installed' = installed \ G /\ live' = Detached(G, Family)
    \/ ~ok /\ Fault /\ UNCHANGED installed /\ \E F \in Attempted : live' = Detached(G, F)

\* Native.Retire(previous, candidate): removes what the candidate does not
\* retain, and refuses while a retained rule still leads to it.
BackendRetire(old, new, ok) ==
    LET G == {old} \ {new} IN
    IF old = NoGen
    THEN UNCHANGED kernelVars /\ (IF ok THEN NoFault ELSE Fault)
    ELSE IF \/ ~Authorized({Place[old]}, {old, new})
            \/ SamePlace(old, new) /\ \E f \in Family : G \cap live[f] # {}
    THEN ~ok /\ UNCHANGED kernelVars /\ NoFault
    ELSE IF OnIPTables(old) THEN IPTRemove(G, ok) ELSE NFTRetire(G, ok)

----------------------------------------------------------------------------
\* What a backend's Cleanup of the targets G may do: it reports ok, gone are
\* removed, the others have left the families out.  A failed one leaves one of
\* the states in stops.  An object of the inspected places that no target names
\* makes it refuse.
Cleaned(G, stops) ==
    IF ~Authorized({Place[g] : g \in G}, G)
    THEN {[ok |-> FALSE, fault |-> FALSE, gone |-> {}, out |-> {}]}
    ELSE {[ok |-> TRUE, fault |-> FALSE, gone |-> G, out |-> Family]}
         \cup {[ok |-> FALSE, fault |-> TRUE, gone |-> s[1], out |-> s[2]] :
                   s \in IF G = {} THEN {} ELSE stops}

\* NFT.Cleanup deletes its tables in one batch; IPTables.Cleanup removes the
\* hooks and chains of one family after the other, then set by set.
NFTCleaned(G) ==
    LET N == {g \in G : ~OnIPTables(g)} IN Cleaned(N, {<<{}, {}>>, <<N, Family>>})

IPTCleaned(G) ==
    LET N == {g \in G : OnIPTables(g)}
    IN  Cleaned(N, ({{}} \X Attempted) \cup ((SUBSET N) \X {Family}))

\* Native.Cleanup(targets): an error of one backend does not stop the other.
BackendCleanup(G, ok) ==
    \E n \in NFTCleaned(G), i \in IPTCleaned(G) :
        /\ ok = (n.ok /\ i.ok)
        /\ IF n.fault \/ i.fault THEN Fault ELSE NoFault
        /\ installed' = installed \ (n.gone \cup i.gone)
        /\ live' = [f \in Family |-> live[f] \ (n.gone \cup i.gone
                        \cup {g \in G : OnIPTables(g) /\ f \in i.out})]

\* A power loss: the packet filter starts empty.
LoseKernel ==
    /\ installed' = {}
    /\ live' = [f \in Family |-> {}]
=============================================================================
