------------------------------ MODULE Upstream ------------------------------
(***************************************************************************)
(* The OpenZiti upstream manager (internal/upstream): identity generations *)
(* shared by sessions and by HTTP operations, counted, retired outside the *)
(* locks, and dialled by workers whose SDK calls cannot be interrupted.    *)
(*                                                                         *)
(* A binding stands for the fingerprint of an identity file's content.     *)
(***************************************************************************)
EXTENDS Naturals, FiniteSets

CONSTANTS Binding,      \* identity contents
          Captures,     \* sets of identities a configuration may need
          Gen,          \* bound: generations that may be created, numbered
          Session,      \* bound: session handles that may be created, numbered
          Op,           \* HTTP operations, numbered
          None,
          MaxSDKDials   \* maxSDKDials

ASSUME UpstreamAssumption ==
    /\ None \notin Gen \cup Binding
    /\ Captures \subseteq SUBSET Binding

VARIABLES
    closed,     \* manager.closed
    waitFor,    \* the generations Manager.Close waits for
    index,      \* manager.generations
    gens,       \* the generations
    sess,       \* the session handles
    ops         \* boundTransport.RoundTrip calls, each with its dial worker

vars == <<closed, waitFor, index, gens, sess, ops>>

NewGen == [binding |-> None, refs |-> 0, closing |-> "no", pools |-> TRUE, sdk |-> "none",
           slot |-> FALSE]
NewOp  == [pc |-> "none", gen |-> None, cancelled |-> FALSE, worker |-> "none",
           conn |-> "none"]

Generation == [binding : Binding \cup {None}, refs : Nat,
               closing : {"no", "due", "cancelled", "drained", "closed"},
               pools : BOOLEAN, sdk : {"none", "open", "closed", "failed"}, slot : BOOLEAN]

Operation == [pc : {"none", "bound", "held", "registered", "slot", "wait", "body", "failing", "done"},
              gen : Gen \cup {None}, cancelled : BOOLEAN,
              worker : {"none", "context", "dial", "handoff"}, conn : {"none", "open"}]

\* The manager's state (manager.go): counts never go below zero, and every
\* operation and worker is in one of the places its code can be.
TypeOK ==
    /\ closed \in BOOLEAN /\ waitFor \subseteq Gen
    /\ index \in [Binding -> Gen \cup {None}]
    /\ gens \in [Gen -> Generation]
    /\ sess \in [Session -> [st : {"none", "open", "closed"}, gens : SUBSET Gen]]
    /\ ops \in [Op -> Operation]

Init ==
    /\ closed = FALSE /\ waitFor = {} /\ index = [b \in Binding |-> None]
    /\ gens = [g \in Gen |-> NewGen]
    /\ sess = [s \in Session |-> [st |-> "none", gens |-> {}]]
    /\ ops = [o \in Op |-> NewOp]

----------------------------------------------------------------------------
(* Sessions (manager.go).                                                  *)

\* Mutant: a manager that is closing still captures identities.
CanAlwaysLoad == TRUE

CanLoad == ~closed

\* Handles, generations and operations are created in the order of their numbers.
Lowest(unused, x) == x \in unused /\ \A y \in unused : x <= y

FreeSession == {s \in Session : sess[s].st = "none"}
FreeGen     == {g \in Gen : gens[g].binding = None}
FreeOp      == {o \in Op : ops[o].pc = "none"}

\* Load: the generation of a known binding is shared, any other is created.
Load(s, B) ==
    LET fresh == {b \in B : index[b] = None}
    IN  /\ Lowest(FreeSession, s) /\ CanLoad
        /\ \E f \in [fresh -> FreeGen] :
             /\ \A b, c \in fresh : f[b] = f[c] => b = c
             /\ \A b \in fresh, g \in FreeGen : g < f[b] => \E c \in fresh : f[c] = g
             /\ index' = [b \in Binding |-> IF b \in fresh THEN f[b] ELSE index[b]]
             /\ gens' = [g \in Gen |->
                   IF \E b \in fresh : f[b] = g
                   THEN [gens[g] EXCEPT !.binding = CHOOSE b \in fresh : f[b] = g, !.refs = 1]
                   ELSE IF \E b \in B : index[b] = g THEN [gens[g] EXCEPT !.refs = @ + 1]
                   ELSE gens[g]]
             /\ sess' = [sess EXCEPT ![s] = [st |-> "open", gens |-> {index'[b] : b \in B}]]
        /\ UNCHANGED <<closed, waitFor, ops>>

Retain(s, t) ==
    /\ sess[s].st = "open" /\ ~closed /\ Lowest(FreeSession, t)
    /\ gens' = [g \in Gen |-> IF g \in sess[s].gens THEN [gens[g] EXCEPT !.refs = @ + 1]
                              ELSE gens[g]]
    /\ sess' = [sess EXCEPT ![t] = sess[s]]
    /\ UNCHANGED <<closed, waitFor, index, ops>>

\* The handle is closed at once; its generations are released one by one.
Close(s) ==
    /\ sess[s].st = "open" /\ sess' = [sess EXCEPT ![s].st = "closed"]
    /\ UNCHANGED <<closed, waitFor, index, gens, ops>>

\* Mutant: a retired generation stays in the index.
ReleasedIndexed(g) == index

\* release, on the index: the last reference withdraws the generation.
ReleasedIndex(g) ==
    IF gens[g].refs = 1 THEN [index EXCEPT ![gens[g].binding] = None] ELSE index

\* The last reference makes the closing due.
ClosingAfter(g) ==
    IF gens[g].refs = 1 /\ gens[g].closing = "no" THEN "due" ELSE gens[g].closing

Release(g) ==
    /\ index' = ReleasedIndex(g)
    /\ gens' = [gens EXCEPT ![g].refs = @ - 1, ![g].closing = ClosingAfter(g)]

HeldAfter(s, g) == sess[s].gens \ {g}

CloseReleases(s, g) ==
    /\ sess[s].st = "closed" /\ g \in sess[s].gens
    /\ Release(g)
    /\ sess' = [sess EXCEPT ![s].gens = HeldAfter(s, g)]
    /\ UNCHANGED <<closed, waitFor, ops>>

----------------------------------------------------------------------------
(* Retirement.                                                             *)

Live == {g \in Gen : gens[g].binding # None /\ gens[g].closing # "closed"}

\* startClose, once: the lifetime context is cancelled.
StartClose(g) ==
    /\ gens[g].closing = "due" /\ gens' = [gens EXCEPT ![g].closing = "cancelled"]
    /\ UNCHANGED <<closed, waitFor, index, sess, ops>>

Retired(g) == gens[g].closing \in {"cancelled", "drained", "closed"}

\* shutdown: first the connection pools, then the SDK context under sdkMu.
DrainPools(g) ==
    /\ gens[g].closing = "cancelled"
    /\ gens' = [gens EXCEPT ![g].closing = "drained", ![g].pools = FALSE]
    /\ UNCHANGED <<closed, waitFor, index, sess, ops>>

Shutdown(g) ==
    /\ gens[g].closing = "drained"
    /\ gens' = [gens EXCEPT ![g].closing = "closed",
                            ![g].sdk = IF @ = "open" THEN "closed" ELSE @]
    /\ UNCHANGED <<closed, waitFor, index, sess, ops>>

\* Manager.Close: every live generation is closed, whatever still refers to it.
CloseManager ==
    /\ ~closed /\ closed' = TRUE /\ waitFor' = Live
    /\ gens' = [g \in Gen |-> IF g \in Live /\ gens[g].closing = "no"
                              THEN [gens[g] EXCEPT !.closing = "due"] ELSE gens[g]]
    /\ UNCHANGED <<index, sess, ops>>

----------------------------------------------------------------------------
(* HTTP operations (transport.go), up to the dial.                         *)

\* Session.Transport captures the generation; the round trip may come later.
Transport(o, s, g) ==
    /\ Lowest(FreeOp, o) /\ sess[s].st = "open" /\ g \in sess[s].gens /\ gens[g].pools
    /\ ops' = [ops EXCEPT ![o].pc = "bound", ![o].gen = g]
    /\ UNCHANGED <<closed, waitFor, index, gens, sess>>

\* acquireOperation: a generation without references is never revived.
Acquire(o) ==
    /\ ops[o].pc = "bound"
    /\ IF closed \/ gens[ops[o].gen].refs = 0
       THEN ops' = [ops EXCEPT ![o].pc = "done"] /\ UNCHANGED gens
       ELSE /\ ops' = [ops EXCEPT ![o].pc = "held"]
            /\ gens' = [gens EXCEPT ![ops[o].gen].refs = @ + 1]
    /\ UNCHANGED <<closed, waitFor, index, sess>>

RegisteredOrFailing(o) == IF gens[ops[o].gen].pools THEN "registered" ELSE "failing"

Register(o) ==
    /\ ops[o].pc = "held" /\ ops' = [ops EXCEPT ![o].pc = RegisteredOrFailing(o)]
    /\ UNCHANGED <<closed, waitFor, index, gens, sess>>

\* The operation's context is done, on its own or with its generation.
Ended(o) == ops[o].cancelled \/ Retired(ops[o].gen)

\* release, after an error or when the response body is closed.
Finish(o) ==
    /\ ops[o].pc \in {"failing", "body"}
    /\ Release(ops[o].gen)
    /\ ops' = [ops EXCEPT ![o].pc = "done", ![o].cancelled = TRUE,
                          ![o].conn = IF ops[o].pc = "body" THEN "none" ELSE @]
    /\ UNCHANGED <<closed, waitFor, sess>>

Cancel(o) ==
    /\ ops[o].pc # "none" /\ ~ops[o].cancelled
    /\ ops' = [ops EXCEPT ![o].cancelled = TRUE]
    /\ UNCHANGED <<closed, waitFor, index, gens, sess>>

----------------------------------------------------------------------------
(* generation.dial and its worker.                                         *)

Workers == {o \in Op : ops[o].worker # "none"}

\* One dial per generation, MaxSDKDials for the manager; both waits end with
\* the context.
TakeSlot(o) ==
    /\ ops[o].pc = "registered"
    /\ \/ Ended(o) /\ ops' = [ops EXCEPT ![o].pc = "failing"] /\ UNCHANGED gens
       \/ /\ ~gens[ops[o].gen].slot
          /\ ops' = [ops EXCEPT ![o].pc = "slot"]
          /\ gens' = [gens EXCEPT ![ops[o].gen].slot = TRUE]
    /\ UNCHANGED <<closed, waitFor, index, sess>>

DialFree == Cardinality(Workers) < MaxSDKDials

TakeDial(o) ==
    /\ ops[o].pc = "slot"
    /\ \/ /\ Ended(o) /\ ops' = [ops EXCEPT ![o].pc = "failing"]
          /\ gens' = [gens EXCEPT ![ops[o].gen].slot = FALSE]
       \/ /\ DialFree
          /\ ops' = [ops EXCEPT ![o].pc = "wait", ![o].worker = "context"]
          /\ UNCHANGED gens
    /\ UNCHANGED <<closed, waitFor, index, sess>>

ContextAllowed(g) == ~Retired(g)

\* sdkContext: built once, under the lock that shutdown takes to close it.
WorkerContext(o) ==
    LET g == ops[o].gen
    IN  /\ ops[o].worker = "context"
        /\ \E built \in IF gens[g].sdk = "none" /\ ContextAllowed(g) THEN {"open", "failed"}
                         ELSE {gens[g].sdk} :
             /\ gens' = [gens EXCEPT ![g].sdk = built]
             /\ ops' = [ops EXCEPT ![o].worker =
                           IF ContextAllowed(g) /\ built = "open" THEN "dial" ELSE "handoff"]
        /\ UNCHANGED <<closed, waitFor, index, sess>>

\* The SDK call may fail or take for ever; it may complete after the context
\* that was checked before it is done.
WorkerDial(o) ==
    /\ ops[o].worker = "dial"
    /\ \E conn \in {"none", "open"} :
         ops' = [ops EXCEPT ![o].worker = "handoff", ![o].conn = conn]
    /\ UNCHANGED <<closed, waitFor, index, gens, sess>>

\* Mutant: the result is left for a caller that may be gone.
HandedLate(o) == [ops EXCEPT ![o].worker = "none"]

\* Nobody receives the connection: the worker closes it.
HandedNone(o) == [ops EXCEPT ![o].worker = "none", ![o].conn = "none"]

\* The unbuffered handoff transfers the connection or closes it.
Handoff(o) ==
    /\ ops[o].worker = "handoff"
    /\ \/ /\ ops[o].pc = "wait"
          /\ ops' = [ops EXCEPT ![o].worker = "none",
                                ![o].pc = IF ops[o].conn = "open" THEN "body" ELSE "failing"]
       \/ Ended(o) /\ ops' = HandedNone(o)
    /\ gens' = [gens EXCEPT ![ops[o].gen].slot = FALSE]
    /\ UNCHANGED <<closed, waitFor, index, sess>>

\* Mutant: the caller watches its own context only.
GivesUpCancelled(o) == ops[o].pc = "wait" /\ ops[o].cancelled

GivesUp(o) == ops[o].pc = "wait" /\ Ended(o)

GiveUp(o) ==
    /\ GivesUp(o)
    /\ ops' = [ops EXCEPT ![o].pc = "failing"]
    /\ UNCHANGED <<closed, waitFor, index, gens, sess>>

----------------------------------------------------------------------------
Caller(o) == Acquire(o) \/ Register(o) \/ TakeSlot(o) \/ TakeDial(o) \/ GiveUp(o) \/ Finish(o)

Retirement(g) == StartClose(g) \/ DrainPools(g) \/ Shutdown(g)

Next ==
    \/ \E s \in Session : \/ \E B \in Captures : Load(s, B)
                           \/ \E t \in Session : Retain(s, t)
                           \/ Close(s)
                           \/ \E g \in Gen : CloseReleases(s, g)
    \/ \E g \in Gen : Retirement(g)
    \/ CloseManager
    \/ \E o \in Op : \/ \E s \in Session, g \in Gen : Transport(o, s, g)
                      \/ Caller(o) \/ Cancel(o)
                      \/ WorkerContext(o) \/ WorkerDial(o) \/ Handoff(o)

Spec == Init /\ [][Next]_vars

\* Goroutines run and response bodies are closed by their readers; nothing is
\* assumed of the SDK, whose calls may never return.
Fairness ==
    /\ \A g \in Gen : WF_vars(Retirement(g))
    /\ \A o \in Op : WF_vars(Caller(o))

FairSpec == Spec /\ Fairness

----------------------------------------------------------------------------
InFlight == {"held", "registered", "slot", "wait", "body", "failing"}

\* The handles that have captured a generation, and the operations in flight.
SessionsOf(g) == {s \in Session : g \in sess[s].gens}
OpsOf(g)      == {o \in Op : ops[o].gen = g /\ ops[o].pc \in InFlight}

Holders(g) == Cardinality(SessionsOf(g)) + Cardinality(OpsOf(g))

\* While the manager is open a generation that a session or an operation in
\* flight holds is not being retired (manager.go Load, retain, release;
\* transport.go RoundTrip): no path repeats a release, and a shared identity is
\* never closed under a new session, however release and Load interleave.
HeldNotRetired == \A g \in Gen : ~closed /\ Holders(g) > 0 => gens[g].closing = "no"

\* A connection is in the hands of its worker or of the operation's response
\* (manager.go dial): a dial that completes late leaks nothing.
ConnectionsOwned ==
    \A o \in Op : ops[o].conn = "open" => ops[o].worker = "handoff" \/ ops[o].pc = "body"

\* What Manager.Close waits for is everything (manager.go Close, Load): when
\* those generations are closed no other is alive.
CloseWaitsForAll ==
    closed /\ (\A g \in waitFor : gens[g].closing = "closed") => Live = {}

\* An operation whose context or generation ends returns, even if the SDK call
\* of its worker never does (manager.go dial).
EndedReturns == \A o \in Op : ops[o].gen # None /\ Ended(o) ~> ops[o].pc = "done"

=============================================================================
