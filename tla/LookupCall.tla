----------------------------- MODULE LookupCall -----------------------------
(***************************************************************************)
(* One lookup over the control socket (internal/lookup server.go,          *)
(* client.go): the client normalizes and sends a request, the daemon's     *)
(* handler checks what the engine answered before it writes it, and the    *)
(* client checks what it read before the operator sees it.  The engine's   *)
(* answer is any collection of outcomes: Query shows which one it          *)
(* computes, here only what the two checks let through matters.            *)
(***************************************************************************)
EXTENDS Response

CONSTANTS Request,      \* requests an operator makes
          Answerable,   \* outcomes an engine may answer with
          MaxOutcomes   \* bound: outcomes of one answer

VARIABLES
    at,         \* "idle", "sent", "evaluating", "written" or "shown"
    asked,      \* the request
    outcomes,   \* the engine's answer so far
    wire        \* [response, status] as written, then as shown

vars == <<at, asked, outcomes, wire>>

Unknown(q) == [query |-> q, verdict |-> "unknown", outcomes |-> {}]

Normalized(q) == [q EXCEPT !.prefix = Masked(@)]

StatusForResponse(r) == IF r.verdict = "unknown" THEN 503 ELSE 200

Init ==
    /\ at = "idle" /\ asked \in Request /\ outcomes = {}
    /\ wire = [response |-> Unknown(asked), status |-> 503]

\* callPath: a request that does not normalize is never sent.
Send ==
    /\ at = "idle"
    /\ IF asked.port # -1 /\ ~HasPorts(asked.protocol)
       THEN at' = "shown" /\ UNCHANGED <<asked, wire>>
       ELSE /\ at' = "sent" /\ asked' = Normalized(asked)
            /\ wire' = [wire EXCEPT !.response = Unknown(asked')]
    /\ UNCHANGED outcomes

\* HTTPHandler, writeResponse: every evaluation slot is taken by other calls,
\* or the encoded answer is too large.
Refuse(status) ==
    /\ at = (IF status = 429 THEN "sent" ELSE "evaluating") /\ at' = "written"
    /\ wire' = [response |-> Unknown(asked), status |-> status]
    /\ outcomes' = {} /\ UNCHANGED asked

Admit == at = "sent" /\ at' = "evaluating" /\ UNCHANGED <<asked, outcomes, wire>>

\* The engine's answer grows by one outcome.
Compute(o) ==
    /\ at = "evaluating" /\ Cardinality(outcomes) < MaxOutcomes
    /\ outcomes' = outcomes \cup {o}
    /\ UNCHANGED <<at, asked, wire>>

\* What the handler writes for what the engine answered.
Served(r) == IF isValidResponse(r) THEN r ELSE Unknown(r.query)

\* handle returns; the slot is given back.  An unknown answer has no outcomes.
Respond(verdict) ==
    /\ at = "evaluating"
    /\ (verdict = "unknown") <=> (outcomes = {})
    /\ at' = "written"
    /\ LET r == Served([query |-> asked, verdict |-> verdict, outcomes |-> outcomes])
       IN  wire' = [response |-> r, status |-> StatusForResponse(r)]
    /\ outcomes' = {} /\ UNCHANGED asked

\* callPath: what the client makes of the answer it read.
Accepted(r, status) ==
    /\ isValidResponse(r) /\ r.query = asked
    /\ status \notin 200 .. 299 => r.verdict = "unknown"

Read ==
    /\ at = "written" /\ at' = "shown"
    /\ wire' = IF Accepted(wire.response, wire.status) THEN wire
               ELSE [wire EXCEPT !.response = Unknown(asked)]
    /\ UNCHANGED <<asked, outcomes>>

\* The call's deadline passes, or the connection is lost.
GiveUp ==
    /\ at \in {"sent", "evaluating", "written"} /\ at' = "shown"
    /\ wire' = [wire EXCEPT !.response = Unknown(asked)]
    /\ outcomes' = {} /\ UNCHANGED asked

Next ==
    \/ Send
    \/ \E status \in {429, 500} : Refuse(status)
    \/ Admit
    \/ \E o \in Answerable : Compute(o)
    \/ \E v \in {"blocked", "not_blocked", "mixed", "unknown"} : Respond(v)
    \/ Read
    \/ GiveUp

Spec == Init /\ [][Next]_vars

----------------------------------------------------------------------------
\* The flows a request asks about.
Flows(q) ==
    {f \in (q.prefix.addr .. prefixEnd(q.prefix)) \X Protocols(q) \X (0 .. MaxPort) :
        q.port \in {-1, f[3]} /\ (~HasPorts(f[2]) => f[3] = 0)}

Covers(o, f) ==
    /\ o.prefix.addr <= f[1] /\ f[1] <= prefixEnd(o.prefix) /\ o.scope.protocol = f[2]
    /\ o.scope.ports # <<>> => o.scope.ports[1] <= f[3] /\ f[3] <= o.scope.ports[2]

\* Every flow asked about, once in each direction and attachment, and nothing else.
Exact(r) ==
    /\ \A d \in Directions(r.query) : \E o \in r.outcomes : o.direction = d
    /\ \A o \in r.outcomes :
         /\ o.direction \in Directions(r.query)
         /\ {f \in Flows([r.query EXCEPT !.prefix = [@ EXCEPT !.bits = 0, !.addr = 0],
                          !.protocol = "", !.port = -1]) : Covers(o, f)} \subseteq Flows(r.query)
         /\ \A f \in Flows(r.query) :
              Cardinality({u \in r.outcomes : /\ Covers(u, f) /\ u.direction = o.direction
                                              /\ u.attachment = o.attachment}) = 1

\* What the operator is shown answers the request made, and a definite verdict
\* accounts for every flow asked about exactly once and agrees with what it
\* says of each, although validateCoverage only compares volumes (HTTPHandler,
\* callPath, isValidResponse).
ShownExact ==
    at = "shown" =>
        /\ wire.response.query = asked
        /\ wire.response.verdict # "unknown" =>
             /\ Exact(wire.response)
             /\ (\E o \in wire.response.outcomes : Blocked(o)) <=> wire.response.verdict \in {"blocked", "mixed"}
             /\ (\E o \in wire.response.outcomes : ~Blocked(o)) <=> wire.response.verdict \in {"not_blocked", "mixed"}

\* An answer that accounts for every flow once, with the verdict its outcomes
\* add up to, is neither replaced by the daemon nor refused by the client
\* (isValidResponse, StatusForResponse, callPath).
ExactIsShown ==
    at = "evaluating" =>
        \A v \in {"blocked", "not_blocked", "mixed"} :
            LET r == [query |-> asked, verdict |-> v, outcomes |-> outcomes]
            IN  outcomes # {} /\ Exact(r) /\ VerdictHolds(r) =>
                    Served(r) = r /\ Accepted(r, StatusForResponse(r))
=============================================================================
