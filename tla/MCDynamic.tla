----------------------------- MODULE MCDynamic -----------------------------
(* What follows the clock and the packets, for TLC: the decisions of a     *)
(* LAPI client (Decisions), their leases in the kernel of each backend     *)
(* (Lease) and the accounting of each backend's counters (Telemetry).  The *)
(* parts share no state, so one of them moves at a time: which one is      *)
(* chosen in Init.                                                         *)
EXTENDS Naturals, Sequences, TLC

CONSTANTS Ban, ID, None

VARIABLES part,     \* the part that moves
          decisions, revision, sequence, clock, said,
          now, deadline, kernel, write, lease, validUntil, published, renewAt, dirty, retryAt, polls,
          live, active, journal, pc, on, pending, baselines, exported,
          unread, observed, reset, packets,
          faults

storeVars == <<decisions, revision, sequence, clock, said>>

leaseVars == <<now, deadline, kernel, write, lease, validUntil, published, renewAt, dirty, retryAt,
               polls>>

counterVars == <<live, active, journal, pc, on, pending, baselines, exported, unread, observed,
                 reset, packets>>

-----------------------------------------------------------------------------
(* The instances. *)

P(family, addr, bits) == [family |-> family, addr |-> addr, bits |-> bits]

\* Prefixes that nest, that touch and that end at the top of the addresses.
Store == INSTANCE Decisions WITH
    Width <- 3, Banned <- {P(4, 0, 0), P(4, 2, 2), P(4, 3, 3), P(4, 4, 2), P(6, 6, 2)},
    Horizon <- 2, MaxSequence <- 3, now <- clock

\* A second is two ticks.  The longest lease is two seconds and renewed several
\* times, or it is four and a native write may take a whole second.
NFTSet == INSTANCE Lease WITH
    Backend <- "nftables", Unit <- 2, MaxLease <- 4, MaxWrite <- 1, Horizon <- 10, Latest <- 12,
    MaxPoll <- 2, MaxFaults <- 1

IPSet == INSTANCE Lease WITH
    Backend <- "iptables", Unit <- 2, MaxLease <- 8, MaxWrite <- 2, Horizon <- 9, Latest <- 13,
    MaxPoll <- 2, MaxFaults <- 1

\* nftables: the processed counter, and a denial counter per reason, in one table.
NFTRules(g) == {"processed", IF g = 1 THEN "denied1" ELSE "denied2"}

NFTCounters == INSTANCE Telemetry WITH
    Generation <- {1, 2}, Identity <- {"processed", "denied1", "denied2"}, Rules <- NFTRules,
    Backend <- "nftables", Entry <- {}, First <- None, MaxPackets <- 3, MaxFaults <- 2

\* iptables: the entry rule, shared, and a denial rule of each generation.
IPTEntry == {<<0, 0>>}

IPTRules(g) == IPTEntry \cup {<<g, 1>>}

IPTCounters == INSTANCE Telemetry WITH
    Generation <- {1, 2}, Identity <- IPTEntry \cup {<<1, 1>>, <<2, 1>>}, Rules <- IPTRules,
    Backend <- "iptables", Entry <- IPTEntry, First <- 1, MaxPackets <- 2, MaxFaults <- 2

Symmetry == Permutations(Ban) \cup Permutations(ID)

-----------------------------------------------------------------------------
(* The parts together. *)

Init ==
    /\ part \in {"store", "nft set", "ipset", "nft counters", "ipt counters"}
    /\ Store!Init /\ NFTSet!Init
    /\ IF part = "ipt counters" THEN IPTCounters!Init ELSE NFTCounters!Init

Next ==
    /\ UNCHANGED part
    /\ \/ part = "store" /\ Store!Next /\ UNCHANGED <<leaseVars, counterVars, faults>>
       \/ part = "nft set" /\ NFTSet!Next /\ UNCHANGED <<storeVars, counterVars>>
       \/ part = "ipset" /\ IPSet!Next /\ UNCHANGED <<storeVars, counterVars>>
       \/ part = "nft counters" /\ NFTCounters!Next /\ UNCHANGED <<storeVars, leaseVars>>
       \/ part = "ipt counters" /\ IPTCounters!Next /\ UNCHANGED <<storeVars, leaseVars>>

Spec == Init /\ [][Next]_<<part, storeVars, leaseVars, counterVars, faults>>

-----------------------------------------------------------------------------
(* Properties of the parts. *)

\* Store.Apply and Expire: the store holds of every ID what the batches
\* last said, in their order, until that expires; an old batch changes nothing,
\* and an expired or deleted decision never returns.
StoreIsAuthority == part = "store" => Store!StoreIsAuthority

\* Store.Projection: an address is in exactly one projected prefix when a live
\* decision covers it, with the latest covering deadline, and in none otherwise;
\* no two prefixes overlap.
ProjectionExact == part = "store" => Store!ProjectionExact

\* What a lookup would report (lookup/evaluate.go) is what the kernel drops, in
\* both backends, however long the write took.
ViewIsKernel == (part = "nft set" => NFTSet!ViewIsKernel) /\ (part = "ipset" => IPSet!ViewIsKernel)

\* A ban lasts as long as its decision, in both backends (LeaseGrant,
\* recordLeasesLocked).
BanIsDecision == (part = "nft set" => NFTSet!BanIsDecision) /\ (part = "ipset" => IPSet!BanIsDecision)

\* What is exported is what was read, in both backends, however often recovery
\* repeats a final read (CounterRetired, CounterSnapshot).
ExportedIsRead ==
    /\ part = "nft counters" => NFTCounters!ExportedIsRead
    /\ part = "ipt counters" => IPTCounters!ExportedIsRead
=============================================================================
