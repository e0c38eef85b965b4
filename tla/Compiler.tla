------------------------------ MODULE Compiler ------------------------------
(***************************************************************************)
(* From a configuration to ordered packet rules: normalization             *)
(* (internal/config/normalize.go) and compilation (internal/policy).       *)
(***************************************************************************)
EXTENDS PrefixAlgebra, Integers

CONSTANTS RIRs, Groups,     \* countries of each registry and group
          Country, Direct,  \* known countries; known ASNs, lists and providers
          Snapshot,         \* resolved selectors: canonical prefixes of each
          Locals,           \* BuiltinLocalRanges
          GeoBase, GeoExcluded, GeoRestored,    \* the classifier's tables
          MaxPort           \* the last port, 65535 in the code

Direction == {"ingress", "egress"}

----------------------------------------------------------------------------
(* config/normalize.go *)

rangeLess(r, s) == r.start < s.start \/ (r.start = s.start /\ r.end < s.end)

Extended(last, next) == [last EXCEPT !.end = IF next.end > @ THEN next.end ELSE @]

mergePortRanges(values) ==
    LET merge(merged, next) ==
            IF merged # <<>> /\ next.start <= Last(merged).end + 1
            THEN Append(Front(merged), Extended(Last(merged), next))
            ELSE Append(merged, next)
    IN  FoldLeft(merge, <<>>, SortSeq(values, rangeLess))

ValidTraffic(entries) ==
    /\ entries # <<>>
    /\ \A i \in DOMAIN entries :
          /\ entries[i].kind = "any" => Len(entries) = 1
          /\ entries[i].kind \in {"tcp", "udp"} =>
                entries[i].start \in 1 .. entries[i].end /\ entries[i].end <= MaxPort

normalizeTraffic(entries) ==
    LET has(kind) == \E i \in DOMAIN entries : entries[i].kind = kind
        ranges(kind) ==
            LET chosen == SelectSeq(entries, LAMBDA e : e.kind = kind)
            IN  [i \in DOMAIN chosen |-> [start |-> chosen[i].start, end |-> chosen[i].end]]
    IN  [any |-> has("any"), icmp |-> has("icmp"), icmpv6 |-> has("icmpv6"),
         tcp |-> mergePortRanges(ranges("tcp")), udp |-> mergePortRanges(ranges("udp"))]

ValidSelector(raw) ==
    /\ raw.countries \subseteq Country /\ raw.direct \subseteq Direct
    /\ raw.rirs \subseteq DOMAIN RIRs /\ raw.groups \subseteq DOMAIN Groups

normalizeSelector(raw) ==
    [raw EXCEPT !.countries = @ \cup UNION {Groups[g] : g \in raw.groups}]

ValidPolicy(raw) ==
    /\ raw.priority >= 0 /\ ValidTraffic(raw.traffic)
    /\ ValidSelector(raw.include) /\ ValidSelector(raw.exclude)
    /\ raw.mode # "disabled" =>
          raw.include.countries \cup raw.include.direct \cup raw.include.rirs \cup raw.include.groups # {}

normalizePolicy(raw) ==
    [raw EXCEPT !.traffic = normalizeTraffic(@),
                !.include = normalizeSelector(@), !.exclude = normalizeSelector(@)]

PoliciesUnique(policies) ==
    \A i, j \in DOMAIN policies : i # j =>
        /\ policies[i].name # policies[j].name
        /\ policies[i].direction = policies[j].direction => policies[i].priority # policies[j].priority

\* An attachment outside the host chains names the interface it polices.
ValidAttachment(a) ==
    a.chain \in {"INPUT", "OUTPUT"} \/ (IF a.direction = "ingress" THEN a.input # {} ELSE a.output # {})

Directed(p, q) == p.direction = "egress" /\ q.direction = "ingress"

\* By direction, then by priority.
Precedes(p, q) == Directed(p, q) \/ (p.direction = q.direction /\ p.priority < q.priority)

Accepts(raw) ==
    /\ \A i \in DOMAIN raw.policies : ValidPolicy(raw.policies[i])
    /\ PoliciesUnique(raw.policies)
    /\ \A a \in raw.attachments : ValidAttachment(a)

normalize(raw) ==
    [raw EXCEPT !.allow = Normalize(Normalize(@) \o Locals), !.block = Normalize(@),
                !.policies = SortSeq([i \in DOMAIN @ |-> normalizePolicy(@[i])], Precedes)]

----------------------------------------------------------------------------
(* policy/snapshot.go, policy/compile.go, policy/geo_sets.go *)

selectorKeys(s) == s.countries \cup s.direct \cup (UNION {RIRs[r] : r \in s.rirs})

RequiredSelectors(c) ==
    UNION {selectorKeys(c.policies[i].include) \cup selectorKeys(c.policies[i].exclude) :
           i \in {j \in DOMAIN c.policies : c.policies[j].mode # "disabled"}}

snapshotUnion(keys) == FoldSet(LAMBDA k, s : Union(s, Snapshot[k]), <<>>, keys)

\* Mutant: an excluded selector is ignored.
IncludeOnly(p) == snapshotUnion(selectorKeys(p.include))

Effective(p) == Difference(snapshotUnion(selectorKeys(p.include)), snapshotUnion(selectorKeys(p.exclude)))

compilePolicies(c) ==
    LET enabled == SelectSeq(c.policies, LAMBDA p : p.mode # "disabled")
    IN  [i \in DOMAIN enabled |-> [policy |-> enabled[i], included |-> Effective(enabled[i])]]

Compiles(c) ==
    /\ RequiredSelectors(c) \subseteq DOMAIN Snapshot
    /\ LET policies == compilePolicies(c)
       IN  /\ \A i \in DOMAIN policies : policies[i].included # <<>>
           /\ (policies # <<>> \/ c.block # <<>> \/ c.crowdsec) => c.ipv4 \/ c.ipv6

policyApplies(traffic, family) ==
    \/ traffic.any \/ traffic.tcp # <<>> \/ traffic.udp # <<>>
    \/ IF family = 4 THEN traffic.icmp ELSE traffic.icmpv6

AnyTraffic == [any |-> TRUE, tcp |-> <<>>, udp |-> <<>>, icmp |-> FALSE]

policyScope(traffic, family) ==
    [any |-> traffic.any, tcp |-> traffic.tcp, udp |-> traffic.udp,
     icmp |-> ~traffic.any /\ IF family = 4 THEN traffic.icmp ELSE traffic.icmpv6]

geoEligible(family) == OfFamily(Union(Difference(GeoBase, GeoExcluded), GeoRestored), family)

equalGeoSequence(sequence, set) == sequence = set.prefixes

\* Policies with the same prefixes share one set, named for the least of them.
compileGeoSets(family, policies) ==
    LET intern(acc, p) ==
            LET sequence == OfFamily(p.included, family)
                same == {i \in DOMAIN acc.sets : equalGeoSequence(sequence, acc.sets[i])}
                name == p.policy.name
            IN  IF same = {}
                THEN [sets |-> Append(acc.sets, [name |-> name, prefixes |-> sequence]),
                      bound |-> acc.bound @@ (name :> Len(acc.sets) + 1)]
                ELSE LET i == CHOOSE i \in same : TRUE
                     IN  [sets |-> [acc.sets EXCEPT ![i].name = IF name < @ THEN name ELSE @],
                          bound |-> acc.bound @@ (name :> i)]
    IN  FoldLeft(intern, [sets |-> <<>>, bound |-> <<>>], policies)

NoSet == <<>>

Geo(name) == <<"geo", name>>

Rule(flow, set, negated, traffic, action, policy, reason) ==
    [flow |-> flow, set |-> set, negated |-> negated, traffic |-> traffic, action |-> action,
     policy |-> policy, reason |-> reason]

PolicyRules(p, scope, set, deny) ==
    IF p.mode = "blocklist"
    THEN <<Rule("", set, FALSE, scope, deny, p.name, "geo_policy"),
           Rule("", NoSet, FALSE, scope, "return", p.name, "")>>
    ELSE <<Rule("", set, FALSE, scope, "return", p.name, ""),
           Rule("", NoSet, FALSE, scope, deny, p.name, "geo_policy")>>

compilePath(c, direction, family, policies, geo) ==
    LET deny == c.deny
        here == SelectSeq(policies, LAMBDA p : p.policy.direction = direction)
        when(condition, rule) == IF condition THEN <<rule>> ELSE <<>>
        global(set, negated, action, reason) == Rule("", <<set>>, negated, AnyTraffic, action, 0, reason)
        rulesOf(p) == PolicyRules(p.policy, policyScope(p.policy.traffic, family),
                                  Geo(geo.sets[geo.bound[p.policy.name]].name), deny)
    IN  <<Rule("established_related", NoSet, FALSE, AnyTraffic, "return", 0, ""),
          Rule("not_new", NoSet, FALSE, AnyTraffic, "return", 0, "")>>
        \o when(OfFamily(c.allow, family) # <<>>, global("global_allowlist", FALSE, "return", ""))
        \o when(OfFamily(c.block, family) # <<>>,
                global("global_blocklist", FALSE, deny, "global_blocklist"))
        \o when(c.crowdsec /\ direction = "ingress", global("crowdsec", FALSE, deny, "crowdsec"))
        \o when(here # <<>>, global("geo_eligible", TRUE, "return", ""))
        \o FoldLeft(LAMBDA rules, p : rules \o rulesOf(p), <<>>, here)
        \o <<Rule("", NoSet, FALSE, AnyTraffic, "return", 0, "")>>

familyPlan(c, family, policies, geo) ==
    LET static(id, prefixes) == IF prefixes = <<>> THEN <<>> ELSE <<id>> :> prefixes
    IN  [sets |-> static("global_allowlist", OfFamily(c.allow, family))
                  @@ static("global_blocklist", OfFamily(c.block, family))
                  @@ (IF c.crowdsec THEN <<"crowdsec">> :> <<>> ELSE <<>>)
                  @@ (IF policies # <<>> THEN <<"geo_eligible">> :> geoEligible(family) ELSE <<>>)
                  @@ [id \in {Geo(geo.sets[i].name) : i \in DOMAIN geo.sets} |->
                        geo.sets[CHOOSE i \in DOMAIN geo.sets : Geo(geo.sets[i].name) = id].prefixes],
         paths |-> [d \in Direction |-> compilePath(c, d, family, policies, geo)]]

compileFamily(c, family) ==
    LET policies == SelectSeq(compilePolicies(c), LAMBDA p : policyApplies(p.policy.traffic, family))
    IN  familyPlan(c, family, policies, compileGeoSets(family, policies))

Compile(c) ==
    IF compilePolicies(c) = <<>> /\ c.block = <<>> /\ ~c.crowdsec THEN <<>>
    ELSE [f \in (IF c.ipv4 THEN {4} ELSE {}) \cup (IF c.ipv6 THEN {6} ELSE {}) |-> compileFamily(c, f)]
=============================================================================
