------------------------------ MODULE Response ------------------------------
(***************************************************************************)
(* What a lookup answer has to satisfy to be sent by the daemon and to be  *)
(* shown by the client (internal/lookup server.go): isValidResponse, with  *)
(* validateCoverage, which decides from volumes that the outcomes cover    *)
(* the query, without enumerating addresses or ports.                      *)
(***************************************************************************)
EXTENDS Addresses, FiniteSetsExt

CONSTANTS MaxPort,      \* the last port, 65535 in the code
          MaxRecords    \* outcomes and evidence of an answer

Protocol == {"tcp", "udp", "icmp", "other"}

HasPorts(protocol) == protocol \in {"tcp", "udp"}

\* The scopes a request leaves open.
Directions(q) == IF q.direction = "" THEN {"ingress", "egress"} ELSE {q.direction}
Protocols(q) == IF q.protocol = "" THEN Protocol ELSE {q.protocol}

Blocked(o) == o.action \in {"drop", "reject"}

\* The outcomes of one direction and one attachment.
Groups(outcomes) == {{u \in outcomes : u.direction = o.direction /\ u.attachment = o.attachment} : o \in outcomes}

InsideQuery(q, o) ==
    /\ o.prefix = Masked(o.prefix) /\ o.prefix.bits >= q.prefix.bits
    /\ Within(q.prefix, o.prefix.family, o.prefix.addr)
    /\ o.direction \in Directions(q) /\ o.scope.protocol \in Protocols(q)
    /\ IF HasPorts(o.scope.protocol)
       THEN /\ o.scope.ports # <<>> /\ o.scope.ports[1] <= o.scope.ports[2]
            /\ q.port # -1 => o.scope.ports = <<q.port, q.port>>
       ELSE o.scope.ports = <<>>

\* Mutant: outcomes that share addresses and ports are not looked for.
NoOverlap(o, u) == FALSE

Overlap(o, u) ==
    /\ o.scope.protocol = u.scope.protocol /\ Overlaps(o.prefix, u.prefix)
    /\ o.scope.ports # <<>> => /\ o.scope.ports[1] <= u.scope.ports[2]
                               /\ u.scope.ports[1] <= o.scope.ports[2]

Volume(o) == Size(o.prefix.bits) * (IF o.scope.ports = <<>> THEN 1
                                    ELSE o.scope.ports[2] - o.scope.ports[1] + 1)

Expected(q, protocol) ==
    Size(q.prefix.bits) * (IF q.port = -1 /\ HasPorts(protocol) THEN MaxPort + 1 ELSE 1)

validateCoverage(r) ==
    LET q == r.query
    IN  /\ \A o \in r.outcomes : InsideQuery(q, o)
        /\ \A group \in Groups(r.outcomes) :
              /\ \A o \in group, u \in group : o # u => ~Overlap(o, u)
              /\ \A protocol \in Protocols(q) :
                    MapThenSumSet(Volume, {o \in group : o.scope.protocol = protocol}) = Expected(q, protocol)
        /\ Directions(q) \subseteq {o.direction : o \in r.outcomes}

RecordsOf(r) == Cardinality(r.outcomes) + MapThenSumSet(LAMBDA o : Cardinality(o.evidence), r.outcomes)

VerdictHolds(r) ==
    CASE r.verdict = "blocked" -> \A o \in r.outcomes : Blocked(o)
      [] r.verdict = "not_blocked" -> \A o \in r.outcomes : ~Blocked(o)
      [] OTHER -> /\ \E o \in r.outcomes : Blocked(o)
                  /\ \E o \in r.outcomes : ~Blocked(o)

isValidResponse(r) ==
    IF r.verdict = "unknown" THEN r.outcomes = {}
    ELSE /\ r.verdict \in {"blocked", "not_blocked", "mixed"}
         /\ r.query.prefix = Masked(r.query.prefix)
         /\ r.query.port # -1 => HasPorts(r.query.protocol)
         /\ r.outcomes # {} /\ RecordsOf(r) <= MaxRecords
         /\ \A o \in r.outcomes : o.action \in {"drop", "reject", "return"}
         /\ VerdictHolds(r) /\ validateCoverage(r)
=============================================================================
