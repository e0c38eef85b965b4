------------------------------- MODULE Policy -------------------------------
(***************************************************************************)
(* The target built from a configuration, reload after reload: identity,   *)
(* counters and the checks it passes before it may be applied              *)
(* (internal/firewall/nftables_model.go, internal/firewall/types.go).      *)
(***************************************************************************)
EXTENDS Compiler

CONSTANTS RawConfig,        \* the configurations read
          MaxReload         \* bound: configurations applied

VARIABLES
    written,    \* the configuration in force, as written
    cfg,        \* the same, normalized
    target,     \* the target built from it, NoTarget where nothing is enforced
    refused,    \* whether ValidateTarget refused the last candidate
    reloads     \* configurations applied; the latest one is the newest identity

policyVars == <<written, cfg, target, refused, reloads>>

----------------------------------------------------------------------------
(* firewall/nftables_model.go, firewall/types.go *)

NoTarget == [backend |-> "", table |-> "", families |-> <<>>, attachments |-> {}, counters |-> {},
             generation |-> 0, dynamic |-> 0]

Roles(families) ==
    UNION {UNION {{<<f, d, "processed", "">>} \cup
                  {<<f, d, rule.reason, rule.action>> :
                      rule \in {r \in ToSet(families[f].paths[d]) : r.reason # ""}} :
                  d \in Direction} : f \in DOMAIN families}

desiredCounters(t, previous) ==
    Roles(t.families) \cup
    IF previous.backend = t.backend /\ previous.table = t.table THEN previous.counters ELSE {}

\* Mutant: the identity of the previous target survives a change of its rules.
SamePlace(t, previous) == previous.backend = t.backend /\ previous.table = t.table

SameContent(t, previous) ==
    /\ previous.backend = t.backend /\ previous.table = t.table
    /\ previous.dynamic = t.dynamic /\ previous.families = t.families
    /\ previous.attachments = t.attachments

\* The identity and the counters of a target, given the one it replaces.
Identified(t, previous) ==
    [t EXCEPT !.generation = IF SameContent(t, previous) THEN previous.generation ELSE @,
              !.counters = desiredCounters(t, previous)]

Target(c, families, id, previous) ==
    LET table == IF c.backend = "iptables" THEN "filter" ELSE c.table
        dynamic == CASE ~c.crowdsec -> 0
                     [] c.crowdsec /\ previous.backend = c.backend /\ previous.table = table
                        /\ previous.dynamic # 0 -> previous.dynamic
                     [] OTHER -> id
    IN  IF families = <<>> THEN NoTarget
        ELSE Identified([backend |-> c.backend, table |-> table, families |-> families,
                         attachments |-> IF c.backend = "iptables" THEN c.attachments ELSE {},
                         counters |-> {}, generation |-> id, dynamic |-> dynamic], previous)

BuildTarget(c, id, previous) == Target(c, Compile(c), id, previous)

validTrafficScope(s) ==
    /\ s.any <=> s.tcp = <<>> /\ s.udp = <<>> /\ ~s.icmp
    /\ \A range \in ToSet(s.tcp) \cup ToSet(s.udp) : range.start # 0 /\ range.start <= range.end

validateRuntimeRule(rule, ids, direction) ==
    /\ rule.action \in {"return", "drop", "reject"} /\ validTrafficScope(rule.traffic)
    /\ rule.set # NoSet => rule.set \in ids
    /\ rule.negated => rule.set = <<"geo_eligible">>
    /\ rule.flow # "" => rule.traffic.any /\ rule.set = NoSet /\ rule.policy = 0
    /\ rule.reason # "" => rule.action # "return"
    /\ rule.reason = "geo_policy" => rule.policy # 0
    /\ rule.reason \in {"crowdsec", "global_blocklist"} => rule.policy = 0
    /\ rule.reason = "crowdsec" => rule.set = <<"crowdsec">>
    /\ rule.set = <<"crowdsec">> =>
          direction = "ingress" /\ rule.reason = "crowdsec" /\ rule.traffic.any /\ ~rule.negated

ValidateTarget(t) ==
    /\ t.families # <<>>
    /\ \A f \in DOMAIN t.families :
          LET plan == t.families[f]
          IN  /\ (<<"crowdsec">> \in DOMAIN plan.sets) <=> t.dynamic # 0
              /\ \A id \in DOMAIN plan.sets : \A p \in ToSet(plan.sets[id]) :
                    p.family = f /\ p = Masked(p)
              /\ \A d \in Direction : \A rule \in ToSet(plan.paths[d]) :
                    validateRuntimeRule(rule, DOMAIN plan.sets, d)
    /\ Roles(t.families) \subseteq t.counters

----------------------------------------------------------------------------
(* A configuration that is not accepted or does not compile changes nothing. *)

Unconfigured ==
    [deny |-> "drop", ipv4 |-> TRUE, ipv6 |-> TRUE, backend |-> "nftables", table |-> "", allow |-> <<>>,
     block |-> <<>>, crowdsec |-> FALSE, policies |-> <<>>, attachments |-> {}]

Init == written = Unconfigured /\ cfg = normalize(written) /\ target = NoTarget /\ refused = FALSE /\ reloads = 0

Validated(candidate) == candidate = NoTarget \/ ValidateTarget(candidate)

\* A candidate that ValidateTarget refuses leaves everything as it was.
Replace(new, candidate, valid) ==
    /\ refused' = ~valid
    /\ written' = IF valid THEN new ELSE written
    /\ cfg' = IF valid THEN normalize(new) ELSE cfg
    /\ target' = IF valid THEN candidate ELSE target

Reload(new) ==
    /\ reloads < MaxReload /\ Accepts(new) /\ Compiles(normalize(new))
    /\ \E candidate \in {BuildTarget(normalize(new), reloads + 1, target)} :
         Replace(new, candidate, Validated(candidate))
    /\ reloads' = reloads + 1

Next == \E new \in RawConfig : Reload(new)

Spec == Init /\ [][Next]_policyVars

----------------------------------------------------------------------------
(* Packets and what the configuration says of them.                        *)

\* A protocol and a destination port, 0 where the protocol has none.
Traffic == ({"tcp", "udp"} \X (0 .. MaxPort)) \cup {<<"icmp", 0>>, <<"other", 0>>}

InRanges(ranges, port) == \E r \in ToSet(ranges) : r.start <= port /\ port <= r.end

InScope(scope, traffic) ==
    \/ scope.any
    \/ traffic[1] = "tcp" /\ InRanges(scope.tcp, traffic[2])
    \/ traffic[1] = "udp" /\ InRanges(scope.udp, traffic[2])
    \/ traffic[1] = "icmp" /\ scope.icmp

\* The rule that decides the first packet of a flow; banned is the kernel's
\* dynamic set.
Deciding(t, family, direction, a, traffic, banned) ==
    LET plan == t.families[family]
        member(id) == IF id = <<"crowdsec">> THEN <<family, a>> \in banned
                      ELSE <<family, a>> \in Extents(ToSet(plan.sets[id]))
        matches(rule) == /\ rule.flow = "" /\ InScope(rule.traffic, traffic)
                         /\ rule.set # NoSet => (member(rule.set) # rule.negated)
        path == plan.paths[direction]
    IN  path[CHOOSE i \in DOMAIN path : matches(path[i]) /\ \A j \in 1 .. (i - 1) : ~matches(path[j])]

PacketAction(t, family, direction, a, traffic, banned) ==
    IF family \in DOMAIN t.families THEN Deciding(t, family, direction, a, traffic, banned).action
    ELSE "return"

Named(values) == Extents({Masked(values[i]) : i \in DOMAIN values})

Selected(s) ==
    UNION {Extents(ToSet(Snapshot[k])) :
           k \in s.countries \cup s.direct \cup (UNION {RIRs[r] : r \in s.rirs})
                \cup (UNION {Groups[g] : g \in s.groups})}

Concerns(p, family, direction, traffic) ==
    /\ p.mode # "disabled" /\ p.direction = direction
    /\ \E e \in ToSet(p.traffic) :
          \/ e.kind = "any"
          \/ e.kind = traffic[1] /\ e.kind \in {"tcp", "udp"} /\ e.start <= traffic[2] /\ traffic[2] <= e.end
          \/ traffic[1] = "icmp" /\ e.kind = (IF family = 4 THEN "icmp" ELSE "icmpv6")

\* What a configuration, as written, says of the first packet of a flow.
Intent(r, family, direction, a, traffic, banned) ==
    LET here == <<family, a>>
        deciders == {p \in ToSet(r.policies) : Concerns(p, family, direction, traffic)}
        first == CHOOSE p \in deciders : \A q \in deciders : p.priority <= q.priority
        chosen == here \in Selected(first.include) \ Selected(first.exclude)
        eligible == here \in (Extents(ToSet(GeoBase)) \ Extents(ToSet(GeoExcluded)))
                             \cup Extents(ToSet(GeoRestored))
    IN  CASE ~(IF family = 4 THEN r.ipv4 ELSE r.ipv6) -> "return"
          [] here \in Named(r.allow) \cup Named(Locals) -> "return"
          [] here \in Named(r.block) -> r.deny
          [] direction = "ingress" /\ r.crowdsec /\ here \in banned -> r.deny
          [] ~eligible \/ deciders = {} -> "return"
          [] OTHER -> IF chosen = (first.mode = "blocklist") THEN r.deny ELSE "return"

----------------------------------------------------------------------------
\* The compiled rules decide every new flow the way the configuration, as
\* written, says: allowlist and local ranges first, then the blocklist, then
\* CrowdSec on ingress, then the policy of least priority that concerns the
\* traffic (normalize, Compile, BuildTarget together).
CompiledAsWritten ==
    \A f \in Family, d \in Direction, a \in Address, t \in Traffic : \A banned \in {{}, {<<f, a>>}} :
        PacketAction(target, f, d, a, t, banned) = Intent(written, f, d, a, t, banned)

=============================================================================
