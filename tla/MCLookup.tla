------------------------------ MODULE MCLookup ------------------------------
(* From a configuration to what an operator is told, for TLC: prefix sets  *)
(* (PrefixSet), the compiler of policies (Policy), the evaluation of a     *)
(* lookup (Query), the call around it (LookupCall) and the view it reads   *)
(* (LookupView).  The parts share no state, so one of them moves at a      *)
(* time: which one is chosen in AnyInit.  Addresses have two bits, in a    *)
(* lookup call one.                                                        *)
EXTENDS LookupView, Integers, Sequences, TLC

VARIABLES part,                                     \* the part that moves
          written, cfg, target, refused, reloads,   \* Policy
          dynamic, now, answer,                     \* Query
          at, asked, outcomes, wire,                \* LookupCall
          set, members                              \* PrefixSet

queryVars == <<written, cfg, target, refused, reloads, dynamic, now, answer>>

callVars == <<at, asked, outcomes, wire>>

setVars == <<set, members>>

-----------------------------------------------------------------------------
(* Policies and what is asked of them.  Address 0 is local in IPv6.        *)

P(family, addr, bits) == [family |-> family, addr |-> addr, bits |-> bits]

Prefixes == [k \in {"XX", "YY", "list"} |->
    CASE k = "XX" -> <<P(4, 0, 1), P(6, 2, 2)>>
      [] k = "YY" -> <<P(4, 1, 2), P(4, 2, 2)>>
      [] k = "list" -> <<P(4, 2, 1), P(6, 0, 0)>>]

Select(countries, direct, groups, rirs) ==
    [countries |-> countries, direct |-> direct, groups |-> groups, rirs |-> rirs]

Nothing == Select({}, {}, {}, {})

Ports(kind, start, end) == [kind |-> kind, start |-> start, end |-> end]

Plain(kind) == Ports(kind, 0, 0)

Pol(name, direction, priority, mode, choice, traffic) ==
    [name |-> name, direction |-> direction, priority |-> priority, mode |-> mode,
     include |-> choice[1], exclude |-> choice[2], traffic |-> traffic]

OneCountry == <<Select({"XX"}, {}, {}, {}), Nothing>>
Registry == <<Select({}, {}, {}, {"rir"}), Select({}, {"list"}, {}, {})>>
Group == <<Select({}, {}, {"group"}, {}), Select({"XX"}, {}, {}, {})>>

Entries == {<<Plain("any")>>,
            <<Ports("tcp", 2, 2), Plain("icmp"), Ports("tcp", 1, 3)>>,
            <<Ports("udp", 3, 3), Ports("udp", 1, 1), Plain("icmpv6")>>}

Raw(allow, block, crowdsec, ipv6, policies) ==
    [deny |-> "drop", ipv4 |-> TRUE, ipv6 |-> ipv6, backend |-> "nftables", table |-> "t", allow |-> allow,
     block |-> block, crowdsec |-> crowdsec, policies |-> policies, attachments |-> {}]

First == {Pol(2, "ingress", 7, m, c, t) :
            m \in {"allowlist", "blocklist"}, c \in {OneCountry, Registry}, t \in Entries}

Second == {Pol(1, d, p, m, c, t) : d \in {"ingress", "egress"}, p \in {3, 9},
             m \in {"allowlist", "blocklist"}, c \in {Registry, Group}, t \in Entries}
          \cup {Pol(1, "ingress", 3, "disabled", OneCountry, <<Plain("any")>>)}

\* A policy that concerns one family only.
PingOnly == Pol(2, "ingress", 7, "allowlist", OneCountry, <<Plain("icmp")>>)

\* Pairs of policies, and a policy under every kind of global list.
Compiled == {Raw(<<>>, <<>>, FALSE, TRUE, <<p, q>>) : p \in First, q \in Second} \cup
            {Raw(allow, block, crowdsec, ipv6, ps) :
                allow \in {<<>>, <<P(4, 3, 1)>>}, block \in {<<>>, <<P(4, 1, 0), P(6, 1, 2)>>},
                crowdsec \in BOOLEAN, ipv6 \in BOOLEAN, ps \in {<<>>, <<PingOnly>>} \cup {<<p>> : p \in First}}

Attached == {[chain |-> "INPUT", direction |-> "ingress", input |-> {}, output |-> {}],
             [chain |-> "FORWARD", direction |-> "ingress", input |-> {"eth"}, output |-> {}]}

\* The configurations that are asked about.
Queried == {[Raw(<<>>, block, crowdsec, ipv6, ps) EXCEPT !.backend = backend, !.attachments = Attached] :
    ipv6 \in BOOLEAN, block \in {<<>>, <<P(4, 2, 2)>>}, crowdsec \in BOOLEAN,
    backend \in {"nftables", "iptables"},
    ps \in {<<>>,
            <<Pol(1, "ingress", 3, "blocklist", Registry, <<Ports("tcp", 1, 1), Plain("icmp")>>),
              Pol(2, "ingress", 9, "allowlist", Group, <<Plain("any")>>)>>,
            <<Pol(1, "egress", 3, "allowlist", Registry, <<Ports("udp", 2, 2)>>),
              Pol(2, "ingress", 1, "blocklist", OneCountry, <<Ports("tcp", 2, 3)>>)>>}}

Leased(p, deadline) == [prefix |-> p, deadline |-> deadline]

Decided(id, p, deadline) == [id |-> id, prefix |-> p, deadline |-> deadline]

Leases == {[prefixes |-> {Leased(P(4, 1, 2), 1), Leased(P(4, 2, 1), 2)},
            decisions |-> {Decided(1, P(4, 1, 2), 1), Decided(2, P(4, 2, 1), 2)}],
           [prefixes |-> {Leased(P(4, 3, 2), 2)}, decisions |-> {Decided(3, P(4, 3, 2), 2)}]}

Question(prefix, direction, protocol, port) ==
    [prefix |-> prefix, direction |-> direction, protocol |-> protocol, port |-> port]

Questions == {Question(prefix, "", "", -1) : prefix \in {P(4, 1, 0), P(4, 2, 1), P(4, 3, 2), P(6, 1, 1)}}
             \cup {Question(P(4, 0, 0), "ingress", protocol, 1) : protocol \in {"tcp", "udp", ""}}

Evaluation == INSTANCE Query WITH
    Width <- 2, MaxPort <- 3, RIRs <- "rir" :> {"XX", "YY"}, Groups <- "group" :> {"YY"},
    Country <- {"XX", "YY"}, Direct <- {"list", "missing"}, Snapshot <- Prefixes,
    Locals <- <<P(6, 0, 2)>>, GeoBase <- <<P(4, 0, 0), P(6, 2, 1)>>,
    GeoExcluded <- <<P(4, 2, 1), P(6, 2, 1)>>, GeoRestored <- <<P(4, 2, 2), P(6, 2, 2)>>,
    RawConfig <- Queried, MaxReload <- 1, View <- Leases, Request <- Questions,
    Horizon <- 1, MaxRecords <- 100, MaxWork <- 4

-----------------------------------------------------------------------------
(* Prefix sets: one prefix per operation, host bits set or not, or two     *)
(* that arrive in the wrong order.                                         *)

Raws == {P(f, a, b) : f \in {4, 6}, a \in 0..3, b \in 0..2}

Sets == INSTANCE PrefixSet WITH
    Width <- 2,
    Operand <- {<<p>> : p \in Raws} \cup {<<P(4, 2, 1), P(4, a, 2)>> : a \in 0..3}

-----------------------------------------------------------------------------
(* A lookup call. *)

Calls == {Question(P(4, 1, 0), "ingress", "tcp", -1), Question(P(4, 1, 1), "ingress", "tcp", 1),
          Question(P(4, 0, 0), "", "icmp", -1), Question(P(4, 0, 1), "egress", "", -1),
          Question(P(4, 0, 1), "egress", "other", 1)}

Tcp(first, last) == [protocol |-> "tcp", ports |-> <<first, last>>]

Icmp == [protocol |-> "icmp", ports |-> <<>>]

Rest == {[protocol |-> "udp", ports |-> <<0, 1>>], [protocol |-> "other", ports |-> <<>>]}

Outcome(p, direction, scope, attachment, action) ==
    [prefix |-> p, direction |-> direction, scope |-> scope, attachment |-> attachment,
     action |-> action, stage |-> "policy", policy |-> 1, evidence |-> {}]

\* Attachment "b" only filters what comes in.
Outcomes ==
    LET halves == {P(4, 0, 0), P(4, 0, 1), P(4, 1, 1)}
        directions == {"ingress", "egress"}
    IN  {Outcome(p, d, s, "a", "drop") :
            p \in halves, d \in directions, s \in {Tcp(0, 0), Tcp(1, 1), Tcp(0, 1), Icmp}}
        \cup {Outcome(P(4, 0, 1), d, s, "a", "drop") : d \in directions, s \in Rest}
        \cup {Outcome(p, "ingress", Tcp(0, 1), "b", "return") : p \in halves}

Call == INSTANCE LookupCall WITH
    Width <- 1, MaxPort <- 1, MaxRecords <- 4, Request <- Calls, Answerable <- Outcomes, MaxOutcomes <- 4

-----------------------------------------------------------------------------
(* The parts together. *)

\* A part that does not move has one initial state.
AnyInit ==
    /\ part \in {"sets", "policy", "query", "call", "view"}
    /\ Sets!Init /\ Evaluation!QueryInit /\ Call!Init /\ Init
    /\ part # "call" => asked = CHOOSE q \in Calls : TRUE
    /\ part # "view" => enforced = CHOOSE s \in State : TRUE

AnyNext ==
    /\ UNCHANGED part
    /\ \/ part = "sets" /\ Sets!Next /\ UNCHANGED <<queryVars, callVars, vars>>
       \/ /\ part = "policy" /\ \E new \in Compiled : Evaluation!Reload(new)
          /\ UNCHANGED <<dynamic, now, answer, setVars, callVars, vars>>
       \/ part = "query" /\ Evaluation!QueryNext /\ UNCHANGED <<setVars, callVars, vars>>
       \/ part = "call" /\ Call!Next /\ UNCHANGED <<setVars, queryVars, vars>>
       \/ part = "view" /\ Next /\ UNCHANGED <<setVars, queryVars, callVars>>

AnySpec == AnyInit /\ [][AnyNext]_<<part, setVars, queryVars, callVars, vars>>

-----------------------------------------------------------------------------
(* Properties of the parts. *)

\* Whatever the sequence of unions, differences and ranges (set.go Union,
\* Difference; range.go AppendRange), a prefix set holds exactly the addresses
\* the operations say, and its binary searches find just these.
SetsExact == part = "sets" => Sets!Exact

\* The compiled rules decide every new flow the way the configuration, as
\* written, says (normalize, Compile, BuildTarget together).
CompiledAsWritten == part = "policy" => Evaluation!CompiledAsWritten

\* A definite answer says, for every packet it was asked about, once, what the
\* kernel does with it and why, whatever the kernel has made of leases that ran
\* out (Evaluate, partitionPrefixes, trafficScopes, explain, coalesceOutcomes).
AnswerTrue == part = "query" => Evaluation!AnswerTrue

\* What the operator is shown accounts for every flow asked about exactly
\* once, and an answer that does is shown, although validateCoverage only
\* compares volumes (HTTPHandler, callPath, isValidResponse).
ShownExact == part = "call" => Call!ShownExact /\ Call!ExactIsShown
=============================================================================
