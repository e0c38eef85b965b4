------------------------------ MODULE IPTBackend ------------------------------
(***************************************************************************)
(* The iptables backend, one native command per step                       *)
(* (internal/firewall: iptables.go, iptables_model.go,                     *)
(* iptables_inventory.go, router.go), driven by the writer's transactions  *)
(* (internal/app/engine.go).                                               *)
(*                                                                         *)
(* The kernel holds ipsets, generation chains, entry chains that dispatch  *)
(* to a generation, and hooks in the parent chains.  An iptables-restore   *)
(* is atomic for its family; an ipset restore stops at any line; a command *)
(* whose error is reported may have taken effect.  The process dies, or    *)
(* the machine loses power, between any two commands.                      *)
(*                                                                         *)
(* A static set is filled with the prefixes of its generation; the leases  *)
(* of a dynamic set are the subject of module Lease, here it only exists.  *)
(* An interface filter chain is part of its hook.                          *)
(***************************************************************************)
EXTENDS Faults, Sequences, SequencesExt, FiniteSets, FiniteSetsExt

CONSTANTS Gen,          \* generations, Target.Generation
          NoGen,        \* nil: no target, or one of the other backend
          Attach,       \* configured attachments
          Covers,       \* Covers[g]: the families of g
          Hooks,        \* Hooks[g]: the attachments of g
          Elems,        \* Elems[g]: the elements of its static sets
          Dynamic,      \* Dynamic[g]: its dynamic generation, or NoGen
          SetBudget,    \* maxInventoryBudgetBytes, of the sets
          OutputLimit,  \* maxNativeOutputBytes
          TableBudget   \* bound: size of the rule inventory of a family

Family == {"ipv4", "ipv6"}

Families == <<"ipv4", "ipv6">>

Targets == Gen \cup {NoGen}

VARIABLES sets,         \* existing ipsets and their elements
          chains,       \* chains[f]: generations whose chains exist
          entry,        \* entry[f][a]: where the entry chain dispatches to
          hooks,        \* hooks[f]: attachments hooked into their parents
          active,       \* target of the active revision
          txn,          \* the journal: previous and candidate target
          todo,         \* the next call of the writer
          call,         \* the call in progress
          failures      \* calls that ended in an error of the environment

nativeVars == <<sets, chains, entry, hooks>>
writerVars == <<active, txn, todo>>
vars == <<nativeVars, writerVars, call, failures, faults>>

NoTxn  == [op |-> "none", prev |-> NoGen, cand |-> NoGen, away |-> FALSE]

NoCall == [op |-> "none", from |-> {}, to |-> {}, work |-> <<>>, undo |-> FALSE,
           failed |-> FALSE, refused |-> FALSE, installed |-> {}, live |-> <<>>]

----------------------------------------------------------------------------
(* iptables_model.go: the names a target owns. *)

CoversOf(g) == IF g = NoGen THEN {} ELSE Covers[g]

\* The attachments of g in family f: an entry chain and a hook for each.
Path(g, f) == IF f \in CoversOf(g) THEN Hooks[g] ELSE {}

Paths(T, f) == UNION {Path(g, f) : g \in T}

\* iptSetName and iptDynamicSetName: a dynamic set outlives a generation that
\* hands its dynamic generation on.
StaticSet(g, f)  == <<"static", g, f>>
DynamicSet(g, f) == <<"dynamic", Dynamic[g], f>>

SetsOf(g, f) ==
    IF f \notin CoversOf(g) THEN {}
    ELSE {StaticSet(g, f)} \cup (IF Dynamic[g] = NoGen THEN {} ELSE {DynamicSet(g, f)})

AllSets(T) == UNION {SetsOf(g, f) : g \in T, f \in Family}

Elements(s) == IF s[1] = "static" THEN Elems[s[2]] ELSE {}

\* The sets that the rules of an existing generation chain match.
Referenced == UNION {UNION {SetsOf(g, f) : g \in chains[f]} : f \in Family}

----------------------------------------------------------------------------
(* iptables_inventory.go *)

\* Mutant: no set may be incomplete.
CompleteSetsAll(T) == AllSets(T) \cap DOMAIN sets

\* Only a set that no rule matches may be incomplete: an interrupted restore
\* leaves such a set.
CompleteSets(T) == AllSets(T) \cap DOMAIN sets \cap Referenced

\* The size of a set, in elements, and of those that inspectSets saves.
SetSize(E) == 1 + Cardinality(E)

SetBytes(S) == MapThenSumSet(LAMBDA s : SetSize(sets[s]), S \cap DOMAIN sets)

\* validateIPTInventory: every owned chain, rule, hook and set belongs to the
\* targets T; what inspectSets reads for them stays within the output limit.
ValidInventory(T) ==
    /\ \A f \in Family :
         /\ \A g \in chains[f] : g \in T /\ f \in CoversOf(g)
         /\ \A a \in Attach : entry[f][a] # NoGen =>
              entry[f][a] \in T /\ a \in Path(entry[f][a], f)
         /\ hooks[f] \subseteq Paths(T, f)
    /\ \A s \in CompleteSets(T) : Elements(s) \subseteq sets[s]
    /\ SetBytes(AllSets(T)) <= OutputLimit

\* iptChainInspectionSize, in chains, entries and hooks.
TableBytes(C, A, H) == 2 * Cardinality(C) + Cardinality(A) + Cardinality(H)

Entries(f) == {a \in Attach : entry[f][a] # NoGen}

\* What a set will take, once staging has filled it.
PlannedSet(s) ==
    IF s \in DOMAIN sets
    THEN SetSize(sets[s] \cup Elements(s)) ELSE SetSize(Elements(s))

\* validateIPTCapacity: what is there and what the targets T still add.
CapacityOK(T) ==
    /\ MapThenSumSet(PlannedSet, AllSets(T)) <= SetBudget
    /\ \A f \in Family :
         TableBytes(chains[f] \cup {g \in T : f \in CoversOf(g)},
                    Entries(f) \cup Paths(T, f), hooks[f] \cup Paths(T, f)) <= TableBudget

----------------------------------------------------------------------------
(* What a command does to the kernel. *)

\* The lines that create and fill set s.
SetLines(s) ==
    LET missing == IF s \in DOMAIN sets THEN Elements(s) \ sets[s] ELSE Elements(s)
    IN  (IF s \in DOMAIN sets THEN <<>> ELSE <<[set |-> s, add |-> {}]>>)
        \o [i \in 1..Cardinality(missing) |-> [set |-> s, add |-> {SetToSeq(missing)[i]}]]

\* stage: one ipset restore for the sets of both families.
StageLines(g) ==
    FlattenSeq([i \in 1..2 |->
        LET S == SetToSeq(SetsOf(g, Families[i]))
        IN  FlattenSeq([k \in 1..Len(S) |-> SetLines(S[k])])])

RunLine(S, line) ==
    [s \in DOMAIN S \cup {line.set} |->
        (IF s \in DOMAIN S THEN S[s] ELSE {}) \cup (IF s = line.set THEN line.add ELSE {})]

\* stage refuses to fill a set that packets are matched against.
Stageable(g) ==
    \A s \in AllSets({g}) \cap Referenced \cap DOMAIN sets : Elements(s) \subseteq sets[s]

\* Mutant: only a first installation inserts its hooks.
AttachFirst(f, old, new) ==
    (hooks[f] \ (Path(old, f) \ Path(new, f))) \cup {a \in Path(new, f) : hooks[f] = {}}

\* commitFamily: the hooks of the old target go, those of the new one come.
AttachHooks(f, old, new) == (hooks[f] \ (Path(old, f) \ Path(new, f))) \cup Path(new, f)

\* commitFamily: one iptables-restore dispatches every entry chain of the new
\* target to it and exchanges the hooks.
CommitFamily(f, old, new) ==
    /\ entry' = [entry EXCEPT ![f] =
                    [a \in Attach |-> IF a \in Path(new, f) THEN new ELSE @[a]]]
    /\ hooks' = [hooks EXCEPT ![f] = AttachHooks(f, old, new)]
    /\ UNCHANGED <<sets, chains>>

\* The kernel refuses a jump to a chain that does not exist.
Dispatchable(f, new) == f \in CoversOf(new) => new \in chains[f]

\* remove: what the dropped targets own and the kept ones do not.
ObsoleteChains(f) == {g \in call.from \ call.to : f \in CoversOf(g)}
ObsoletePaths(f)  == Paths(call.from, f) \ Paths(call.to, f)

ObsoleteSets(from, to) == AllSets(from) \ AllSets(to)

\* remove refuses while a retained entry chain dispatches to an obsolete chain.
Removable(f) ==
    \A a \in Attach \ ObsoletePaths(f) : entry[f][a] \notin ObsoleteChains(f) \cap chains[f]

\* remove: one iptables-restore deletes hooks, entry and generation chains.
RemoveFamily(f) ==
    /\ hooks' = [hooks EXCEPT ![f] = @ \ ObsoletePaths(f)]
    /\ entry' = [entry EXCEPT ![f] =
                    [a \in Attach |-> IF a \in ObsoletePaths(f) THEN NoGen ELSE @[a]]]
    /\ chains' = [chains EXCEPT ![f] = @ \ ObsoleteChains(f)]
    /\ UNCHANGED sets

----------------------------------------------------------------------------
(* The progress of a call.  work holds its remaining native commands. *)

Doing(cmd) == call.op # "none" /\ call.work # <<>> /\ Head(call.work)[1] = cmd

Proceed == call' = [call EXCEPT !.work = Tail(@)]

Fails(refused) ==
    call' = [call EXCEPT !.work = <<>>, !.failed = TRUE, !.refused = @ \/ refused]

\* Apply and remove return the error of every command but a selection.
CommandEnds ==
    /\ \/ NoFault /\ Proceed
       \/ Fault /\ Fails(FALSE)
    /\ UNCHANGED <<writerVars, failures>>

\* A command that reports an error before it had any effect, or a refusal.
CommandRefused(refused) ==
    /\ \/ refused /\ NoFault /\ Fails(TRUE)
       \/ ~refused /\ Fault /\ Fails(FALSE)
    /\ UNCHANGED <<nativeVars, writerVars, failures>>

RunSets ==
    /\ Doing("sets")
    /\ LET g == Head(call.work)[2]
           lines == StageLines(g) IN
       IF ~Stageable(g) THEN CommandRefused(TRUE)
       ELSE /\ \/ NoFault /\ Proceed /\ sets' = FoldLeft(RunLine, sets, lines)
               \/ /\ Fault /\ Fails(FALSE)
                  /\ \E n \in 0..Len(lines) :
                       sets' = FoldLeft(RunLine, sets, SubSeq(lines, 1, n))
            /\ UNCHANGED <<chains, entry, hooks, writerVars, failures>>

\* stage: the generation chains of one family, once their sets exist.
RunChains ==
    /\ Doing("chains")
    /\ LET f == Head(call.work)[2]
           g == Head(call.work)[3] IN
       \/ /\ chains' = [chains EXCEPT ![f] = @ \cup {h \in {g} : f \in CoversOf(h)}]
          /\ UNCHANGED <<sets, entry, hooks>>
          /\ CommandEnds
       \/ CommandRefused(FALSE)

\* Mutant: a family that the new target does not cover is left as it is.
AttemptsCovered(from, to, f) ==
    SelectSeq(IF f = "ipv4" THEN <<f>> ELSE Families, LAMBDA x : x \in CoversOf(to))

\* Apply: the families it selects, in order, up to and including f.
Attempts(from, to, f) ==
    SelectSeq(IF f = "ipv4" THEN <<f>> ELSE Families,
              LAMBDA x : x \in CoversOf(from) \cup CoversOf(to))

Selections(fams, from, to) == [i \in 1..Len(fams) |-> <<"select", fams[i], from, to>>]

\* Compensation selects the previous target in the families attempted so far,
\* the one that failed first.
Compensate(f, from, to) == Selections(Reverse(Attempts(from, to, f)), to, from)

\* A failed selection starts the compensation; inside it, the other families
\* are still compensated.
SelectFails(f, from, to, refused) ==
    call' = [call EXCEPT !.work = IF call.undo THEN Tail(@) ELSE Compensate(f, from, to),
                         !.undo = TRUE, !.failed = TRUE, !.refused = @ \/ refused]

\* selectFamily: inspects, commits the family, and records the selection in
\* the journal; the error of any of the three is the same error.
RunSelect ==
    /\ Doing("select")
    /\ LET f == Head(call.work)[2]
           from == Head(call.work)[3]
           to == Head(call.work)[4] IN
       IF ~ValidInventory(call.from \cup call.to) \/ ~Dispatchable(f, to)
       THEN NoFault /\ SelectFails(f, from, to, ~call.undo) /\ UNCHANGED nativeVars
       ELSE \/ CommitFamily(f, from, to)
               /\ (\/ NoFault /\ Proceed
                   \/ Fault /\ SelectFails(f, from, to, FALSE))
            \/ UNCHANGED nativeVars /\ Fault /\ SelectFails(f, from, to, FALSE)
    /\ UNCHANGED <<writerVars, failures>>

RunRemove ==
    /\ Doing("remove")
    /\ LET f == Head(call.work)[2] IN
       IF ~Removable(f) THEN CommandRefused(TRUE)
       ELSE \/ RemoveFamily(f) /\ CommandEnds
            \/ CommandRefused(FALSE)

\* The kernel refuses to destroy a set that a rule matches.
RunDestroy ==
    /\ Doing("destroy")
    /\ LET s == Head(call.work)[2] IN
       IF s \in Referenced THEN CommandRefused(TRUE)
       ELSE \/ /\ sets' = [x \in DOMAIN sets \ {s} |-> sets[x]]
               /\ UNCHANGED <<chains, entry, hooks>>
               /\ CommandEnds
            \/ CommandRefused(FALSE)

----------------------------------------------------------------------------
(* The calls. *)

Installed ==
    {g \in Gen : \E f \in Family : \/ g \in chains[f]
                                   \/ \E a \in Attach : entry[f][a] = g
                                   \/ StaticSet(g, f) \in DOMAIN sets}

Live == [f \in Family |-> {entry[f][a] : a \in hooks[f]}]

\* A call starts with its inspection of the kernel; without commands it ends.
StartCall(op, from, to, admitted, work) ==
    /\ NoFault \/ (admitted /\ Fault)
    /\ LET failed == ~admitted \/ faults' # faults IN
       call' = [op |-> op, from |-> from, to |-> to,
                work |-> IF failed THEN <<>> ELSE work, undo |-> FALSE, failed |-> failed,
                refused |-> ~admitted, installed |-> Installed, live |-> Live]
    /\ UNCHANGED <<nativeVars, writerVars, failures>>

\* IPTables.Apply(previous, candidate): stages the sets and chains of the
\* candidate, then selects it in one family after the other.
Apply(from, to) ==
    StartCall("apply", {from}, {to},
        ValidInventory({from, to}) /\ CapacityOK({from, to}),
        <<<<"sets", to>>, <<"chains", "ipv4", to>>, <<"chains", "ipv6", to>>>>
        \o Selections(Attempts(from, to, "ipv6"), from, to))

\* IPTables.remove(remove, keep), under Retire and Cleanup: each family's
\* hooks and chains, then the sets.
RemoveTargets(op, from, to) ==
    StartCall(op, from, to, ValidInventory(from \cup to),
        <<<<"remove", "ipv4">>, <<"remove", "ipv6">>>>
        \o LET S == SetToSeq(ObsoleteSets(from, to) \cap DOMAIN sets)
           IN  [i \in 1..Len(S) |-> <<"destroy", S[i]>>])

----------------------------------------------------------------------------
(* The writer: one transaction at a time, and what its journal recovers. *)

Idle == call.op = "none"

\* The targets that the active record and the journal name.
Recorded == {active} \cup (IF txn.op = "none" THEN {} ELSE {txn.prev, txn.cand})

\* A call that Native routes to the other backend, after a look at this one.
Elsewhere == StartCall("elsewhere", Recorded, {}, ValidInventory(Recorded), <<>>)

\* Preflight: a name that only the candidate owns is not in the kernel yet.
NoCollision(prev, cand) ==
    /\ \A s \in AllSets({cand}) \ AllSets({prev}) : s \notin DOMAIN sets
    /\ \A f \in Family : /\ cand \notin chains[f] \ {prev}
                         /\ \A a \in Path(cand, f) \ Path(prev, f) : entry[f][a] = NoGen

\* applyLocked up to Prepare.  The other side of a migration is NoGen here.
Begin ==
    /\ Idle /\ todo = "idle"
    /\ \E c \in Targets \ {active}, away \in BOOLEAN :
         /\ away => NoGen \in {active, c}
         /\ ValidInventory({active, c}) /\ CapacityOK({active, c})
         /\ NoCollision(active, c)
         /\ txn' = [op |-> "apply", prev |-> active, cand |-> c, away |-> away]
    /\ todo' = "forward"
    /\ NoFault /\ UNCHANGED <<nativeVars, active, call, failures>>

\* Engine.Cleanup: the durable intent to remove everything recorded.
BeginCleanup ==
    /\ Idle /\ todo \in {"idle", "recover"} /\ txn.op # "cleanup"
    /\ Recorded # {NoGen}
    /\ txn' = [txn EXCEPT !.op = "cleanup", !.prev = IF txn.op = "none" THEN active ELSE @]
    /\ todo' = "cleanup"
    /\ NoFault /\ UNCHANGED <<nativeVars, active, call, failures>>

\* Native.Apply(previous, candidate).
Switch ==
    /\ Idle /\ todo = "forward"
    /\ IF txn.away /\ txn.cand = NoGen THEN Elsewhere ELSE Apply(txn.prev, txn.cand)

\* Native.Apply(candidate, previous).
SwitchBack ==
    /\ Idle /\ todo = "back"
    /\ IF txn.away /\ txn.prev = NoGen THEN Elsewhere ELSE Apply(txn.cand, txn.prev)

\* Recover without a journal applies the active target over itself.
Reapply == Idle /\ todo = "reapply" /\ Apply(active, active)

\* Native.Retire(previous, candidate), and of the candidate in a rollback.
Retire ==
    /\ Idle
    /\ LET old == IF todo = "retire" THEN txn.prev ELSE txn.cand
           new == IF todo = "retire" THEN txn.cand ELSE txn.prev IN
       /\ todo \in {"retire", "unretire"}
       /\ IF old = NoGen THEN Elsewhere ELSE RemoveTargets("retire", {old}, {new})

Cleanup ==
    /\ Idle /\ todo = "cleanup"
    /\ RemoveTargets("cleanup", Recorded \ {NoGen}, {})

Goto(step) == todo' = step /\ UNCHANGED <<active, txn>>

Finish(g) == todo' = "idle" /\ active' = g /\ txn' = NoTxn

\* What the writer does with the result: a switch is committed, a failed one
\* rolled back unless it is already committed, and an error of anything else
\* leaves the journal to recovery.
Settle(ok) ==
    CASE todo = "forward"  -> IF ok THEN todo' = "retire" /\ active' = txn.cand /\ UNCHANGED txn
                              ELSE Goto(IF active = txn.cand THEN "recover" ELSE "back")
      [] todo = "back"     -> Goto(IF ok THEN "unretire" ELSE "recover")
      [] todo = "retire"   -> IF ok THEN Finish(txn.cand) ELSE Goto("recover")
      [] todo = "unretire" -> IF ok THEN Finish(active) ELSE Goto("recover")
      [] todo = "reapply"  -> Goto(IF ok THEN "idle" ELSE "recover")
      [] todo = "cleanup"  -> IF ok THEN Finish(NoGen) ELSE Goto("recover")

CountFailure(failed) ==
    failures' = IF failed /\ call.op \notin {"none", "elsewhere"} THEN failures + 1 ELSE failures

\* A call returns.
Return ==
    /\ ~Idle /\ call.work = <<>>
    /\ Settle(~call.failed)
    /\ call' = NoCall /\ CountFailure(call.failed)
    /\ NoFault /\ UNCHANGED nativeVars

\* The commit of a switched candidate fails.
CommitFails ==
    /\ ~Idle /\ call.work = <<>> /\ ~call.failed /\ todo = "forward" /\ active # txn.cand
    /\ Fault /\ Goto("back")
    /\ call' = NoCall /\ UNCHANGED <<nativeVars, failures>>

\* Engine.Recover: the records choose the way.
Recover ==
    /\ Idle /\ todo = "recover"
    /\ Goto(CASE txn.op = "cleanup" -> "cleanup"
              [] txn.op = "none"    -> IF active = NoGen THEN "idle" ELSE "reapply"
              [] txn.op = "apply"   -> IF active = txn.cand THEN "forward" ELSE "back")
    /\ NoFault /\ UNCHANGED <<nativeVars, call, failures>>

\* The process dies between two commands and starts again.
Crash ==
    /\ Fault /\ Goto("recover")
    /\ call' = NoCall /\ CountFailure(TRUE)
    /\ UNCHANGED nativeVars

Empty(s, c, e, h) ==
    /\ s = <<>>
    /\ c = [f \in Family |-> {}]
    /\ e = [f \in Family |-> [a \in Attach |-> NoGen]]
    /\ h = [f \in Family |-> {}]

\* The machine loses power: the packet filter starts empty.
PowerLoss ==
    /\ Fault /\ Goto("recover")
    /\ Empty(sets', chains', entry', hooks') /\ call' = NoCall /\ UNCHANGED failures

Init ==
    /\ Empty(sets, chains, entry, hooks) /\ active = NoGen /\ txn = NoTxn /\ todo = "idle"
    /\ call = NoCall /\ failures = 0 /\ faults = 0

Command == RunSets \/ RunChains \/ RunSelect \/ RunRemove \/ RunDestroy
Writer  == Begin \/ BeginCleanup \/ Switch \/ SwitchBack \/ Reapply \/ Retire \/ Cleanup
Next    == Command \/ Writer \/ Return \/ CommitFails \/ Recover \/ Crash \/ PowerLoss

Spec == Init /\ [][Next]_vars

----------------------------------------------------------------------------
Whole(g, f) ==
    g \in chains[f] /\ \A s \in SetsOf(g, f) : s \in DOMAIN sets /\ Elements(s) \subseteq sets[s]

\* The generation that filters the packets of an attachment, if it is whole.
PacketPath ==
    [f \in Family |-> [a \in Attach |->
        IF a \notin hooks[f] THEN NoGen
        ELSE IF Whole(entry[f][a], f) THEN entry[f][a] ELSE <<"partial", entry[f][a]>>]]

Promise == INSTANCE Enforcement WITH
    policy <- PacketPath,
    allowed <- Recorded \cup (IF txn.op = "cleanup" THEN {NoGen} ELSE {})

\* Packets see a switch as Enforcement promises it: at every step of stage,
\* commitFamily, compensation, remove and recovery, also after a failed command
\* or a crash, a family is filtered by one whole recorded generation on all of
\* its attachments, and a transaction finishes only with both families on the
\* generation that it leaves active.
Enforces == Promise!Spec

Calls == INSTANCE NativeCalls WITH
    Place <- [g \in Gen |-> "iptables"], IPTables <- "iptables", faults <- failures,
    installed <- IF Idle THEN Installed ELSE call.installed,
    live <- IF Idle THEN Live ELSE call.live

\* A call of Apply, Retire or Cleanup, seen when it has returned or died, is
\* one step of module Kernel: what the writer's own model assumes of an
\* iptables call, and of what a failed one leaves behind, is what the commands
\* of the call do.
CallsAsAssumed == Calls!Spec

\* A recorded transaction is never stuck on its own leftovers: whatever a
\* stopped restore, a failed compensation or a crash left in the kernel, no
\* later call refuses it, neither validateIPTInventory and validateIPTCapacity
\* nor the kernel for a chain or set still in use.
NeverRefused == ~call.refused

=============================================================================
