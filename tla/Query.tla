------------------------------- MODULE Query -------------------------------
(***************************************************************************)
(* Lookup: what the enforced policy does with new flows of an address or a *)
(* range, and why (internal/lookup evaluate.go, static.go, attribution.go, *)
(* request.go), asked of the target in force and of the leases the last    *)
(* native write acknowledged.  An answer is computed on whole prefixes and *)
(* port ranges; what it must agree with is the fate of single packets.     *)
(***************************************************************************)
EXTENDS Policy

CONSTANTS View,         \* acknowledged dynamic evidence
          Request,      \* requests, canonical or not
          Horizon,      \* bound: the last instant
          MaxRecords,   \* outcomes and evidence of an answer
          MaxWork       \* prefixes of a partition, MaxRecords * 8 in the code

VARIABLES
    dynamic,    \* lookup.Dynamic
    now,        \* the clock
    answer      \* the last response

queryVars == <<written, cfg, target, refused, reloads, dynamic, now, answer>>

NoView == [prefixes |-> {}, decisions |-> {}]

Unknown == [query |-> <<>>, verdict |-> "unknown", outcomes |-> {}]

\* ValidUntil: the first acknowledged deadline to pass; 0 for none.
ValidUntil(d) == IF d.prefixes = {} THEN 0 ELSE Min({v.deadline : v \in d.prefixes})

ValidRequest(q) == q.port # -1 => q.protocol \in {"tcp", "udp"}

NormalizeRequest(q) == [q EXCEPT !.prefix = Masked(@)]

validateDynamic(d) ==
    \A v \in d.prefixes \cup d.decisions : v.prefix = Masked(v.prefix) /\ v.deadline # 0

----------------------------------------------------------------------------
(* static.go *)

Records == {k \in RequiredSelectors(cfg) : target # NoTarget}

\* buildIndexes: every prefix at which rules or evidence may change.
boundaries(family) ==
    LET plan == target.families[family]
        ofSets == IF family \in DOMAIN target.families
                  THEN UNION {ToSet(plan.sets[id]) : id \in DOMAIN plan.sets} ELSE {}
        ofRecords == UNION {ToSet(Snapshot[k]) : k \in Records}
        ofGlobals == IF target = NoTarget THEN {} ELSE ToSet(cfg.allow) \cup ToSet(cfg.block)
    IN  ofSets \cup {p \in ofRecords \cup ofGlobals : p.family = family}

attachmentsFor(direction) ==
    CASE target = NoTarget -> {}
      [] target.backend = "nftables" -> {[chain |-> "hook", direction |-> direction]}
      [] OTHER -> {a \in target.attachments : a.direction = direction}

\* containingPrefix: bisection in a canonical sequence.
containingPrefix(values, a) ==
    LET position == Search([i \in DOMAIN values |-> values[i].addr > a])
    IN  IF position # 0 /\ a <= prefixEnd(values[position]) THEN {values[position]} ELSE {}

----------------------------------------------------------------------------
(* evaluate.go *)

Inside(query, S) == {v \in S : v.prefix.bits > query.bits /\ Within(query, v.prefix.family, v.prefix.addr)}

StaticCuts(query) == {b \in boundaries(query.family) : Within(query, b.family, b.addr)}

Cuts(query, d) ==
    StaticCuts(query) \cup {v.prefix : v \in Inside(query, d.prefixes) \cup Inside(query, d.decisions)}

\* The cuts are bounded before those that are equal become one.
CutWork(query, d) ==
    Cardinality(StaticCuts(query)) + Cardinality(Inside(query, d.prefixes))
    + Cardinality(Inside(query, d.decisions))

RECURSIVE partitionPrefixes(_, _)

partitionPrefixes(node, cuts) ==
    IF \E b \in cuts : Within(node, b.family, b.addr) /\ b.bits > node.bits
    THEN partitionPrefixes(Split(node)[1], cuts) \cup partitionPrefixes(Split(node)[2], cuts)
    ELSE {node}

\* Mutant: the port after a range does not start a scope.
StartsOnly(ranges) == {r.start : r \in ranges}

Edges(ranges) == {r.start : r \in ranges} \cup {r.end + 1 : r \in {s \in ranges : s.end < MaxPort}}

trafficScopes(family, q) ==
    LET protocols == IF q.protocol = "" THEN {"tcp", "udp", "icmp", "other"} ELSE {q.protocol}
        rules == IF family \in DOMAIN target.families
                 THEN UNION {ToSet(target.families[family].paths[d]) : d \in Direction} ELSE {}
        ranges(protocol) ==
            UNION {ToSet(IF protocol = "udp" THEN r.traffic.udp ELSE r.traffic.tcp) : r \in rules}
        starts(protocol) == {0} \cup Edges(ranges(protocol))
        end(s, protocol) == IF \E e \in starts(protocol) : e > s
                            THEN Min({e \in starts(protocol) : e > s}) - 1 ELSE MaxPort
        scopes(protocol) ==
            CASE q.port # -1 -> {[protocol |-> protocol, ports |-> <<q.port, q.port>>]}
              [] q.port = -1 /\ protocol \in {"tcp", "udp"} ->
                    {[protocol |-> protocol, ports |-> <<s, end(s, protocol)>>] : s \in starts(protocol)}
              [] OTHER -> {[protocol |-> protocol, ports |-> <<>>]}
    IN  UNION {scopes(p) : p \in protocols}

portMatches(ranges, ports) ==
    \E i \in DOMAIN ranges : ranges[i].start <= ports[1] /\ ports[2] <= ranges[i].end

scopeMatches(traffic, scope) ==
    \/ traffic.any
    \/ scope.protocol = "tcp" /\ portMatches(traffic.tcp, scope.ports)
    \/ scope.protocol = "udp" /\ portMatches(traffic.udp, scope.ports)
    \/ scope.protocol = "icmp" /\ traffic.icmp

ruleMatches(plan, rule, p, d, scope) ==
    /\ rule.flow = "" /\ scopeMatches(rule.traffic, scope)
    /\ rule.set # NoSet =>
          LET member == IF rule.set = <<"crowdsec">>
                        THEN \E v \in d.prefixes : v.deadline > now /\ Within(v.prefix, p.family, p.addr)
                        ELSE containingPrefix(plan.sets[rule.set], p.addr) # {}
          IN  member # rule.negated

uncertainDynamic(d, p) ==
    \E v \in d.prefixes \cup d.decisions : v.deadline <= now /\ Overlaps(v.prefix, p)

classifyRule(rule) ==
    CASE rule.set = <<"global_allowlist">> -> "global_allow"
      [] rule.set = <<"global_blocklist">> -> "global_block"
      [] rule.set = <<"crowdsec">> -> "crowdsec"
      [] rule.set = <<"geo_eligible">> -> "classifier"
      [] rule.policy # 0 -> "policy"
      [] OTHER -> "pass"

----------------------------------------------------------------------------
(* attribution.go *)

Evidence(kind, name, policy, role, prefix, contributing) ==
    [kind |-> kind, name |-> name, policy |-> policy, role |-> role, prefix |-> prefix,
     contributing |-> contributing]

globalEvidence(values, name, family, a, contributing) ==
    {Evidence("global", name, 0, "entry", p, contributing) : p \in {q \in ToSet(values) : Within(q, family, a)}}

Covering(k, family, a) == containingPrefix(OfFamily(Snapshot[k], family), a)

policyEvidence(policy, deciding, family, a) ==
    LET matching(s) == {k \in selectorKeys(s) \cap Records : Covering(k, family, a) # {}}
        includes == matching(policy.include)
        excludes == matching(policy.exclude)
        of(keys, role, contributing) ==
            {Evidence("source", k, policy.name, role, CHOOSE p \in Covering(k, family, a) : TRUE, contributing) :
                k \in keys}
    IN  of(includes, "include", deciding /\ includes # {} /\ excludes = {})
        \cup of(excludes, "exclude", deciding /\ includes # {} /\ excludes # {})

explain(rule, d, p) ==
    LET stage == classifyRule(rule)
        enabled == {q \in ToSet(cfg.policies) : q.mode # "disabled"}
    IN  globalEvidence(cfg.allow, "global_allowlist", p.family, p.addr, stage = "global_allow")
        \cup globalEvidence(cfg.block, "global_blocklist", p.family, p.addr, stage = "global_block")
        \cup UNION {policyEvidence(q, stage = "policy" /\ rule.policy = q.name, p.family, p.addr) : q \in enabled}
        \cup {Evidence("crowdsec", v.prefix, 0, "decision", v.prefix, stage = "crowdsec") :
                v \in {w \in d.decisions : Within(w.prefix, p.family, p.addr)}}

----------------------------------------------------------------------------
(* evaluate.go: the answer.                                                *)

Outcome(p, direction, scope, attachment, action, stage, policy, evidence) ==
    [prefix |-> p, direction |-> direction, scope |-> scope, attachment |-> attachment, action |-> action,
     stage |-> stage, policy |-> policy, evidence |-> evidence]

evaluateScope(plan, d, p, direction, scope, attachment) ==
    LET path == plan.paths[direction]
        hit(i) == ruleMatches(plan, path[i], p, d, scope)
        rule == path[CHOOSE i \in DOMAIN path : hit(i) /\ \A j \in 1 .. (i - 1) : ~hit(j)]
    IN  Outcome(p, direction, scope, attachment, rule.action, classifyRule(rule), rule.policy,
                explain(rule, d, p))

NotManaged(p, direction, scope, attachment) ==
    Outcome(p, direction, scope, attachment, "return", "not_managed", 0, {})

NoAttachment == [chain |-> "", direction |-> ""]

directionsOf(q) == IF q.direction = "" THEN Direction ELSE {q.direction}

outcomesOf(q, d, p) ==
    LET family == p.family
        one(direction, scope, attachment) ==
            IF family \in DOMAIN target.families
            THEN evaluateScope(target.families[family], d, p, direction, scope, attachment)
            ELSE NotManaged(p, direction, scope, attachment)
    IN  UNION {IF attachmentsFor(direction) = {}
               THEN {NotManaged(p, direction, scope, NoAttachment) : scope \in trafficScopes(family, q)}
               ELSE {one(direction, scope, attachment) :
                        scope \in trafficScopes(family, q), attachment \in attachmentsFor(direction)} :
               direction \in directionsOf(q)}

RECURSIVE collapse(_)

\* Two sibling halves at the end become their parent, repeatedly.
collapse(out) ==
    LET left == out[Len(out) - 1]
        right == out[Len(out)]
        parent(p) == Masked([p EXCEPT !.bits = @ - 1])
    IN  IF Len(out) < 2 \/ left.bits = 0 \/ left.bits # right.bits THEN out
        ELSE IF parent(left) # parent(right) THEN out
        ELSE collapse(Append(SubSeq(out, 1, Len(out) - 2), parent(left)))

mergePrefixes(values) ==
    LET add(out, p) == IF Contained(out, p) /\ Last(out).bits <= p.bits THEN out
                       ELSE collapse(Append(out, p))
    IN  ToSet(FoldLeft(add, <<>>, SetToSortSeq(values, less)))

\* Mutant: outcomes with different evidence are merged.
SameDecision(o) == [o EXCEPT !.prefix = 0, !.evidence = {}]

\* outcomeSame compares everything but the prefix.
Prototype(o) == [o EXCEPT !.prefix = 0]

coalesceOutcomes(outcomes) ==
    LET group(o) == {u \in outcomes : Prototype(u) = Prototype(o)}
    IN  UNION {{[o EXCEPT !.prefix = p] : p \in mergePrefixes({u.prefix : u \in group(o)})} : o \in outcomes}

Verdict(outcomes) ==
    LET blocked == \E o \in outcomes : o.action # "return"
        clear == \E o \in outcomes : o.action = "return"
    IN  CASE blocked /\ clear -> "mixed" [] blocked /\ ~clear -> "blocked" [] OTHER -> "not_blocked"

Evaluate(request, d) ==
    LET q == NormalizeRequest(request)
        parts == partitionPrefixes(q.prefix, Cuts(q.prefix, d))
        outcomes == UNION {outcomesOf(q, d, p) : p \in parts}
        managed == /\ q.prefix.family \in DOMAIN target.families
                   /\ \E direction \in directionsOf(q) : attachmentsFor(direction) # {}
        size == Cardinality(outcomes) + Cardinality(UNION {{o} \X o.evidence : o \in outcomes})
    IN  IF \/ ~ValidRequest(request) \/ ~validateDynamic(d)
           \/ cfg.crowdsec /\ ValidUntil(d) # 0 /\ ValidUntil(d) <= now
           \/ CutWork(q.prefix, d) > MaxWork \/ Cardinality(parts) > MaxWork
           \/ managed /\ cfg.crowdsec /\ \E p \in parts : uncertainDynamic(d, p)
           \/ size > MaxRecords
        THEN Unknown
        ELSE [query |-> q, verdict |-> Verdict(outcomes), outcomes |-> coalesceOutcomes(outcomes)]

----------------------------------------------------------------------------
QueryInit == Init /\ dynamic = NoView /\ now = 0 /\ answer = Unknown

Applied ==
    /\ \E new \in RawConfig : Reload(new)
    /\ dynamic' = NoView /\ answer' = Unknown /\ UNCHANGED now

\* A native write was acknowledged; only an enabled CrowdSec has one.
Acknowledged(view) ==
    /\ cfg.crowdsec /\ target # NoTarget /\ dynamic = NoView
    /\ dynamic' = view /\ answer' = Unknown
    /\ UNCHANGED <<written, cfg, target, refused, reloads, now>>

Tick == now < Horizon /\ now' = now + 1 /\ answer' = Unknown
        /\ UNCHANGED <<written, cfg, target, refused, reloads, dynamic>>

Ask(request) ==
    /\ answer = Unknown
    /\ answer' = Evaluate(request, dynamic)
    /\ UNCHANGED <<written, cfg, target, refused, reloads, dynamic, now>>

QueryNext ==
    \/ Applied
    \/ \E view \in View : Acknowledged(view)
    \/ Tick
    \/ \E request \in Request : Ask(request)

QuerySpec == QueryInit /\ [][QueryNext]_queryVars

----------------------------------------------------------------------------
\* The traffic a request asks about.
Asked(q) ==
    {t \in Traffic : (q.protocol \in {"", t[1]}) /\ (q.port \in {-1, t[2]})}

Covers(o, a, direction, t, attachment) ==
    /\ o.prefix.addr <= a /\ a <= prefixEnd(o.prefix) /\ o.direction = direction
    /\ o.scope.protocol = t[1] /\ o.attachment = attachment
    /\ o.scope.ports # <<>> => o.scope.ports[1] <= t[2] /\ t[2] <= o.scope.ports[2]

\* Leases that have not run out are in the kernel; those that have may be.
Sure == Extents({v.prefix : v \in {w \in dynamic.prefixes : w.deadline > now}})
Perhaps == Extents({v.prefix : v \in dynamic.prefixes})

\* A definite answer says, for every packet it was asked about, once, what the
\* kernel does with it, whatever the kernel has made of leases that ran out
\* (Evaluate, partitionPrefixes, trafficScopes, ruleMatches, coalesceOutcomes).
AnswerIsPacket ==
    LET q == answer.query
        family == q.prefix.family
    IN  answer.verdict # "unknown" =>
          /\ \A a \in q.prefix.addr .. prefixEnd(q.prefix), direction \in directionsOf(q), t \in Asked(q) :
               \A attachment \in (IF attachmentsFor(direction) = {} THEN {NoAttachment}
                                  ELSE attachmentsFor(direction)) :
                 LET here == {o \in answer.outcomes : Covers(o, a, direction, t, attachment)}
                 IN  /\ Cardinality(here) = 1
                     /\ \A o \in here, banned \in {Sure, Perhaps} :
                          o.action = IF attachment = NoAttachment THEN "return"
                                     ELSE PacketAction(target, family, direction, a, t, banned)
          /\ answer.verdict = Verdict(answer.outcomes)

\* The evidence of an outcome holds at every address of its prefix, not only
\* at the first one, which is all the code looks at; and the selectors said to
\* contribute are those whose removal from the deciding policy would matter
\* (explain, buildIndexes, partitionPrefixes, outcomeSame).
EvidenceUniform ==
    \A o \in answer.outcomes : o.stage # "not_managed" =>
        \A a \in o.prefix.addr .. prefixEnd(o.prefix), p \in {q \in ToSet(cfg.policies) : q.mode # "disabled"} :
            LET here == <<o.prefix.family, a>>
                at(s) == {k \in selectorKeys(s) : here \in Extents(ToSet(Snapshot[k]))}
                claimed(role) == {e \in o.evidence : e.policy = p.name /\ e.role = role}
                deciding == o.stage = "policy" /\ o.policy = p.name
            IN  /\ {e.name : e \in claimed("include")} = at(p.include)
                /\ {e.name : e \in claimed("exclude")} = at(p.exclude)
                /\ \A e \in claimed("include") : e.contributing <=> deciding /\ at(p.exclude) = {}
                /\ \A e \in claimed("exclude") : e.contributing <=> deciding /\ at(p.include) # {}

Wire == INSTANCE Response

\* What a definite answer says is so: of every packet, with evidence that holds
\* all over the prefix it is given for; and it passes the checks the daemon and
\* the client make, so that a lookup the evaluator could answer is never turned
\* into a protocol failure (isValidResponse, validateCoverage).
AnswerTrue ==
    /\ AnswerIsPacket /\ EvidenceUniform
    /\ answer.verdict # "unknown" => Wire!isValidResponse(answer)
=============================================================================
