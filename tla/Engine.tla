------------------------------- MODULE Engine -------------------------------
(***************************************************************************)
(* The serialized firewall writer (internal/app/engine.go) over the state  *)
(* directory and the kernel: apply, rollback, the resolution of an         *)
(* uncertain commit, recovery, and cleanup by a separate process.          *)
(*                                                                         *)
(* applyMu admits one operation at a time, so pc is the next call of the   *)
(* operation in progress; "idle" is the daemon between operations,         *)
(* "recover" a degraded daemon about to run (or retry) Recover, "cleaned"  *)
(* a cleanup command about to report success, and "down" that no process   *)
(* runs.  prev and cand are the operation's revisions, target[r] is the    *)
(* target a revision records.                                              *)
(***************************************************************************)
EXTENDS StateStore, Kernel

ASSUME GenIsRev == Gen = Rev /\ NoGen = NoRev

VARIABLES pc, mode, healthy, prev, cand, target,
          acked,        \* the revision last reported committed or recovered
          rejected      \* the revision last reported rolled back

locals   == <<prev, cand, target>>
verdicts == <<acked, rejected>>
vars == <<faults, storeVars, kernelVars, pc, mode, healthy, locals, verdicts>>

ApplySteps    == {"prepare", "switch", "markSwitched", "commit", "markCommitted",
                  "retire", "finish", "readback"}
RollbackSteps == {"rollback", "rbRetire", "rbStabilize", "rbFinish"}
ResolveSteps  == {"uncertain", "decide", "rdStabilize", "rdMark"}
RecoverSteps  == {"rvStabilize", "rvDecide", "rvPrepare", "rvReapply", "rvMarkSwitched",
                  "rvSwitch", "rvCommit", "rvMark", "rvRetire", "rvFinish", "bkSwitch",
                  "bkRetire", "rvReturn", "collect"}
CleanupSteps  == {"clBegin", "clKernel", "clRemove", "clFinish", "cleaned"}
Pc == {"idle", "recover", "down"} \cup ApplySteps \cup RollbackSteps
      \cup ResolveSteps \cup RecoverSteps \cup CleanupSteps

\* The process: a daemon that is starting or running, or a cleanup command.
Mode == {"startup", "running", "cleanup"}

\* The writer's state: one operation at a time (applyMu), its next call, what it
\* last reported, and the records and kernel objects it owns.
TypeOK ==
    /\ faults \in 0..MaxFaults
    /\ StoreTypeOK /\ KernelTypeOK
    /\ pc \in Pc /\ mode \in Mode
    /\ healthy \in BOOLEAN
    /\ prev \in OptRev /\ cand \in OptRev
    /\ target \in [Rev -> OptRev]
    /\ acked \in OptRev /\ rejected \in OptRev

Init ==
    /\ faults = 0
    /\ StoreInit /\ KernelInit
    /\ pc = "down" /\ mode = "startup" /\ healthy = FALSE
    /\ prev = NoRev /\ cand = NoRev
    /\ target = [r \in Rev |-> NoGen]
    /\ acked = NoRev /\ rejected = NoRev

TargetOf(r) == IF r = NoRev THEN NoGen ELSE target[r]

Targets(R) == {TargetOf(r) : r \in R} \ {NoGen}

----------------------------------------------------------------------------
Goto(step) == pc' = step /\ UNCHANGED healthy

\* failLocked, recoveryFailureLocked and the degraded outcomes: the daemon
\* refuses everything but Recover until that succeeds; a cleanup command exits.
Degrade ==
    /\ healthy' = FALSE
    /\ pc' = IF mode = "cleanup" THEN "down" ELSE "recover"

\* committedFailureLocked and the other degraded outcomes with Committed set.
DegradeCommitted == Degrade /\ acked' = cand /\ UNCHANGED rejected

\* What surrounds a store call, or a backend call, that degrades on an error.
StoreStep(ok, next) ==
    /\ IF ok THEN Goto(next) ELSE Degrade
    /\ UNCHANGED <<kernelVars, mode, locals, verdicts>>

KernelStep(ok, next) ==
    /\ IF ok THEN Goto(next) ELSE Degrade
    /\ UNCHANGED <<storeVars, mode, locals, verdicts>>

\* ReadFails: an I/O error, or records that do not validate.
ReadFails == IF readable THEN Fault ELSE NoFault

\* transactionID: a random identity that nothing refers to.
Fresh(c) ==
    /\ c \notin files \cup unsynced \cup activeMay \cup installed \cup {acked}
    /\ \A j \in journalMay : c \notin j.revs
    /\ \A r \in files \cup unsynced : target[r] # c

\* firewall.BuildTarget: an empty model has no target, an unchanged one keeps
\* the previous generation, otherwise the transaction names the generation.
BuildTarget(p, c) == {NoGen, c, TargetOf(p)}

\* Backend.Preflight, before anything is recorded: the inspected places hold
\* nothing but the previous target, so no name of the candidate is taken.
Preflight(p, t) ==
    Authorized({Place[g] : g \in {TargetOf(p), t} \ {NoGen}}, {TargetOf(p)})

----------------------------------------------------------------------------
\* applyLocked up to Prepare.  A candidate that is stale, does not build or
\* does not pass the preflight changes nothing.
BeginApply ==
    /\ pc = "idle" /\ healthy
    /\ readable /\ journal = NoJournal
    /\ \E c \in Rev : \E t \in BuildTarget(active, c) :
         /\ Fresh(c) /\ Preflight(active, t)
         /\ prev' = active /\ cand' = c
         /\ target' = [target EXCEPT ![c] = t]
         /\ rejected' = IF rejected = c THEN NoRev ELSE rejected
    /\ Goto("prepare") /\ NoFault
    /\ UNCHANGED <<storeVars, kernelVars, mode, acked>>

\* applyLocked cannot read the records, or finds a pending journal.
ApplyReadFails ==
    /\ pc = "idle" /\ healthy
    /\ IF journal = NoJournal THEN ReadFails ELSE NoFault
    /\ Degrade
    /\ UNCHANGED <<storeVars, kernelVars, mode, locals, verdicts>>

ApplyPrepare ==
    /\ pc = "prepare"
    /\ \E ok \in BOOLEAN : Prepare(prev, cand, ok) /\ StoreStep(ok, "switch")

\* Mutant: the error of a switch is not looked at.
ApplySwitchUnchecked ==
    /\ pc = "switch"
    /\ \E ok \in BOOLEAN :
         /\ BackendApply(TargetOf(prev), TargetOf(cand), ok)
         /\ Goto("markSwitched")
    /\ UNCHANGED <<storeVars, mode, locals, verdicts>>

ApplySwitch ==
    /\ pc = "switch"
    /\ \E ok \in BOOLEAN :
         /\ BackendApply(TargetOf(prev), TargetOf(cand), ok)
         /\ Goto(IF ok THEN "markSwitched" ELSE "rollback")
    /\ UNCHANGED <<storeVars, mode, locals, verdicts>>

\* Mutant: the previous target is retired before the commit.
ApplyRetireBeforeCommit ==
    /\ pc = "markSwitched"
    /\ \E ok \in BOOLEAN :
         /\ BackendRetire(TargetOf(prev), TargetOf(cand), ok)
         /\ Goto(IF ok THEN "commit" ELSE "rollback")
    /\ UNCHANGED <<storeVars, mode, locals, verdicts>>

ApplyMarkSwitched ==
    /\ pc = "markSwitched"
    /\ \E ok \in BOOLEAN :
         /\ MarkPhase("switched", ok)
         /\ Goto(IF ok THEN "commit" ELSE "rollback")
    /\ UNCHANGED <<kernelVars, mode, locals, verdicts>>

\* Mutant: a failed commit is rolled back without asking what is active.
ApplyCommitRollsBack ==
    /\ pc = "commit"
    /\ \E ok \in BOOLEAN :
         /\ Commit(cand, ok)
         /\ Goto(IF ok THEN "markCommitted" ELSE "rollback")
    /\ UNCHANGED <<kernelVars, mode, locals, verdicts>>

ApplyCommit ==
    /\ pc = "commit"
    /\ \E ok \in BOOLEAN :
         /\ Commit(cand, ok)
         /\ Goto(IF ok THEN "markCommitted" ELSE "uncertain")
    /\ UNCHANGED <<kernelVars, mode, locals, verdicts>>

ApplyMarkCommitted ==
    /\ pc = "markCommitted"
    /\ \E ok \in BOOLEAN :
         /\ MarkPhase("committed", ok)
         /\ Goto(IF ok THEN "retire" ELSE "rdStabilize")
    /\ UNCHANGED <<kernelVars, mode, locals, verdicts>>

\* Retire, Finish and the read-back end applyLocked and resolveCommittedLocked.
ApplyRetire ==
    /\ pc = "retire"
    /\ \E ok \in BOOLEAN :
         /\ BackendRetire(TargetOf(prev), TargetOf(cand), ok)
         /\ IF ok THEN Goto("finish") /\ UNCHANGED verdicts ELSE DegradeCommitted
    /\ UNCHANGED <<storeVars, mode, locals>>

ApplyFinish ==
    /\ pc = "finish"
    /\ \E ok \in BOOLEAN :
         /\ Finish(ok)
         /\ IF ok THEN Goto("readback") /\ UNCHANGED verdicts ELSE DegradeCommitted
    /\ UNCHANGED <<kernelVars, mode, locals>>

\* readActiveLocked and the lookup publication.
ApplyReadback ==
    /\ pc = "readback"
    /\ \/ /\ readable /\ NoFault
          /\ pc' = "idle" /\ healthy' = TRUE
          /\ acked' = active /\ UNCHANGED rejected
       \/ ReadFails /\ DegradeCommitted
    /\ UNCHANGED <<storeVars, kernelVars, mode, locals>>

----------------------------------------------------------------------------
\* rollbackLocked with a cancelled context leaves the journal to recovery.
RollbackCancelled ==
    /\ pc = "rollback" /\ Fault /\ Degrade
    /\ UNCHANGED <<storeVars, kernelVars, mode, locals, verdicts>>

RollbackSwitch ==
    /\ pc = "rollback"
    /\ \E ok \in BOOLEAN : /\ BackendApply(TargetOf(cand), TargetOf(prev), ok)
                           /\ KernelStep(ok, "rbRetire")

RollbackRetire ==
    /\ pc = "rbRetire"
    /\ \E ok \in BOOLEAN : /\ BackendRetire(TargetOf(cand), TargetOf(prev), ok)
                           /\ KernelStep(ok, "rbStabilize")

RollbackStabilize ==
    /\ pc = "rbStabilize"
    /\ \E ok \in BOOLEAN : Stabilize(ok) /\ StoreStep(ok, "rbFinish")

RollbackFinish ==
    /\ pc = "rbFinish"
    /\ \E ok \in BOOLEAN :
         /\ Finish(ok)
         /\ IF ok THEN pc' = "idle" /\ healthy' = TRUE /\ rejected' = cand
                  ELSE Degrade /\ UNCHANGED rejected
    /\ UNCHANGED <<kernelVars, mode, locals, acked>>

\* Mutant: the visible active record is believed before it is stable.
CommitErrorTrusted ==
    /\ pc = "uncertain" /\ NoFault /\ Goto("decide")
    /\ UNCHANGED <<storeVars, kernelVars, mode, locals, verdicts>>

\* resolveCommitErrorLocked: once it is stable, the active record decides an
\* uncertain commit.
CommitErrorStabilize ==
    /\ pc = "uncertain"
    /\ \E ok \in BOOLEAN : Stabilize(ok) /\ StoreStep(ok, "decide")

CommitErrorDecide ==
    /\ pc = "decide"
    /\ \/ /\ readable /\ NoFault
          /\ Goto(IF active = cand THEN "rdStabilize" ELSE "rollback")
       \/ ReadFails /\ Degrade
    /\ UNCHANGED <<storeVars, kernelVars, mode, locals, verdicts>>

\* resolveCommittedLocked: Stabilize and MarkPhase, then Retire and Finish.
CommittedStabilize ==
    /\ pc = "rdStabilize"
    /\ \E ok \in BOOLEAN :
         /\ Stabilize(ok)
         /\ IF ok THEN Goto("rdMark") /\ UNCHANGED verdicts ELSE DegradeCommitted
    /\ UNCHANGED <<kernelVars, mode, locals>>

CommittedMark ==
    /\ pc = "rdMark"
    /\ \E ok \in BOOLEAN :
         /\ MarkPhase("committed", ok)
         /\ IF ok THEN Goto("retire") /\ UNCHANGED verdicts ELSE DegradeCommitted
    /\ UNCHANGED <<kernelVars, mode, locals>>

----------------------------------------------------------------------------
\* Recover: records that do not validate are not retryable, the daemon exits.
RecoverBegin ==
    /\ pc = "recover"
    /\ pc' = IF readable THEN "rvStabilize" ELSE "down"
    /\ healthy' = FALSE /\ NoFault
    /\ UNCHANGED <<storeVars, kernelVars, mode, locals, verdicts>>

RecoverStabilize ==
    /\ pc = "rvStabilize"
    /\ \E ok \in BOOLEAN : Stabilize(ok) /\ StoreStep(ok, "rvDecide")

\* Mutant: a pending apply that did not commit is left for the next attempt.
RecoverPathWaits ==
    CASE journal.op = "cleanup" -> "clKernel"
      [] journal.op = "none"    -> IF active = NoRev THEN "rvReturn" ELSE "rvPrepare"
      [] journal.op = "apply"   -> IF active = journal.cand THEN "rvSwitch" ELSE "recover"

\* The second Read chooses the path, from the observed records only.
RecoverPath ==
    CASE journal.op = "cleanup" -> "clKernel"
      [] journal.op = "none"    -> IF active = NoRev THEN "rvReturn" ELSE "rvPrepare"
      [] journal.op = "apply"   -> IF active = journal.cand THEN "rvSwitch" ELSE "bkSwitch"

RecoverDecide ==
    /\ pc = "rvDecide"
    /\ \/ /\ readable /\ NoFault /\ Goto(RecoverPath)
          /\ prev' = IF journal.op = "apply" THEN journal.prev ELSE active
          /\ cand' = IF journal.op = "apply" THEN journal.cand ELSE active
       \/ ReadFails /\ Degrade /\ UNCHANGED <<prev, cand>>
    /\ UNCHANGED <<storeVars, kernelVars, mode, target, verdicts>>

\* No journal: the active revision is applied over itself.
RecoverPrepare ==
    /\ pc = "rvPrepare"
    /\ \E ok \in BOOLEAN : Prepare(active, active, ok) /\ StoreStep(ok, "rvReapply")

RecoverReapply ==
    /\ pc = "rvReapply"
    /\ \E ok \in BOOLEAN : /\ BackendApply(TargetOf(prev), TargetOf(cand), ok)
                           /\ KernelStep(ok, "rvMarkSwitched")

RecoverMarkSwitched ==
    /\ pc = "rvMarkSwitched"
    /\ \E ok \in BOOLEAN : MarkPhase("switched", ok) /\ StoreStep(ok, "rvCommit")

\* Forward: the active record names the journal's candidate.
RecoverSwitch ==
    /\ pc = "rvSwitch"
    /\ \E ok \in BOOLEAN : /\ BackendApply(TargetOf(prev), TargetOf(cand), ok)
                           /\ KernelStep(ok, "rvCommit")

RecoverCommit ==
    /\ pc = "rvCommit"
    /\ \E ok \in BOOLEAN : Commit(cand, ok) /\ StoreStep(ok, "rvMark")

RecoverMark ==
    /\ pc = "rvMark"
    /\ \E ok \in BOOLEAN : MarkPhase("committed", ok) /\ StoreStep(ok, "rvRetire")

RecoverRetire ==
    /\ pc = "rvRetire"
    /\ \E ok \in BOOLEAN : /\ BackendRetire(TargetOf(prev), TargetOf(cand), ok)
                           /\ KernelStep(ok, "rvFinish")

\* Backward: the previous revision, or none, is authoritative.
RecoverBackSwitch ==
    /\ pc = "bkSwitch"
    /\ \E ok \in BOOLEAN : /\ BackendApply(TargetOf(cand), TargetOf(prev), ok)
                           /\ KernelStep(ok, "bkRetire")

RecoverBackRetire ==
    /\ pc = "bkRetire"
    /\ \E ok \in BOOLEAN : /\ BackendRetire(TargetOf(cand), TargetOf(prev), ok)
                           /\ KernelStep(ok, "rvFinish")

RecoverFinish ==
    /\ pc = "rvFinish"
    /\ \E ok \in BOOLEAN : Finish(ok) /\ StoreStep(ok, "rvReturn")

\* Recover returns the authoritative revision.  CrowdSec recovery and the
\* lookup publication follow; their failure degrades again.
RecoverReturn ==
    /\ pc = "rvReturn"
    /\ \/ /\ NoFault /\ healthy' = TRUE
          /\ pc' = IF mode = "startup" THEN "collect" ELSE "idle"
          /\ acked' = active /\ UNCHANGED rejected
       \/ Fault /\ Degrade /\ UNCHANGED verdicts
    /\ UNCHANGED <<storeVars, kernelVars, mode, locals>>

\* Run: orphan revisions are collected once, after the startup recovery.
StartupCollect ==
    /\ pc = "collect"
    /\ \E ok \in BOOLEAN :
         /\ CollectRevisions(ok)
         /\ IF ok THEN Goto("idle") /\ mode' = "running"
                  ELSE pc' = "down" /\ healthy' = FALSE /\ UNCHANGED mode
    /\ UNCHANGED <<kernelVars, locals, verdicts>>

----------------------------------------------------------------------------
\* Engine.Cleanup with nothing recorded succeeds at once.
CleanupNothing ==
    /\ pc = "clBegin" /\ readable /\ journal = NoJournal /\ active = NoRev
    /\ NoFault /\ Goto("cleaned") /\ acked' = NoRev
    /\ UNCHANGED <<storeVars, kernelVars, mode, locals, rejected>>

\* Otherwise a cleanup journal is the durable intent.
CleanupBegin ==
    /\ pc = "clBegin" /\ ~(readable /\ journal = NoJournal /\ active = NoRev)
    /\ \E ok \in BOOLEAN :
         /\ BeginCleanup(ok)
         /\ IF ok THEN Goto("clKernel") ELSE Degrade
    /\ acked' = IF journal'.op = "cleanup" THEN NoRev ELSE acked
    /\ UNCHANGED <<kernelVars, mode, locals, rejected>>

\* Mutant: only the target of the active revision is removed.
CleanupKernelActiveOnly ==
    /\ pc = "clKernel"
    /\ \E ok \in BOOLEAN :
         /\ BackendCleanup(Targets({active} \ {NoRev}), ok)
         /\ KernelStep(ok, "clRemove")

\* cleanupViewLocked: the kernel, then the active record, then the journal.
CleanupKernel ==
    /\ pc = "clKernel"
    /\ \E ok \in BOOLEAN :
         /\ BackendCleanup(Targets(journal.revs \cup ({active} \ {NoRev})), ok)
         /\ KernelStep(ok, "clRemove")

CleanupRemoveActive ==
    /\ pc = "clRemove"
    /\ \E ok \in BOOLEAN : RemoveActive(ok) /\ StoreStep(ok, "clFinish")

CleanupFinish ==
    /\ pc = "clFinish"
    /\ \E ok \in BOOLEAN :
         Finish(ok) /\ StoreStep(ok, IF mode = "cleanup" THEN "cleaned" ELSE "rvReturn")

----------------------------------------------------------------------------
\* The processes.  state.Open reads the records; the lifecycle lock keeps the
\* daemon and the cleanup command apart.
Start ==
    /\ pc = "down" /\ readable /\ NoFault /\ healthy' = FALSE
    /\ \/ mode' = "startup" /\ pc' = "recover"
       \/ mode' = "cleanup" /\ pc' = "clBegin"
    /\ prev' = NoRev /\ cand' = NoRev
    /\ UNCHANGED <<storeVars, kernelVars, target, verdicts>>

\* Shutdown between two operations, and the exit of a cleanup command.
Stop ==
    /\ pc \in {"idle", "recover", "cleaned"}
    /\ pc' = "down" /\ healthy' = FALSE /\ NoFault
    /\ UNCHANGED <<storeVars, kernelVars, mode, locals, verdicts>>

\* The process dies between any two calls.
Crash ==
    /\ pc # "down" /\ Fault
    /\ pc' = "down" /\ healthy' = FALSE
    /\ UNCHANGED <<storeVars, kernelVars, mode, locals, verdicts>>

\* The machine loses power: the process, the kernel state and what was not
\* yet synced are gone.
PowerLoss ==
    /\ Fault /\ LoseUnsynced /\ LoseKernel
    /\ pc' = "down" /\ healthy' = FALSE
    /\ UNCHANGED <<mode, locals, verdicts>>

Apply    == \/ BeginApply \/ ApplyReadFails \/ ApplyPrepare \/ ApplySwitch
            \/ ApplyMarkSwitched \/ ApplyCommit \/ ApplyMarkCommitted
            \/ ApplyRetire \/ ApplyFinish \/ ApplyReadback
Rollback == \/ RollbackCancelled \/ RollbackSwitch \/ RollbackRetire
            \/ RollbackStabilize \/ RollbackFinish
Resolve  == \/ CommitErrorStabilize \/ CommitErrorDecide
            \/ CommittedStabilize \/ CommittedMark
Recover  == \/ RecoverBegin \/ RecoverStabilize \/ RecoverDecide \/ RecoverPrepare
            \/ RecoverReapply \/ RecoverMarkSwitched \/ RecoverSwitch \/ RecoverCommit
            \/ RecoverMark \/ RecoverRetire \/ RecoverBackSwitch \/ RecoverBackRetire
            \/ RecoverFinish \/ RecoverReturn \/ StartupCollect
Cleanup  == \/ CleanupNothing \/ CleanupBegin \/ CleanupKernel
            \/ CleanupRemoveActive \/ CleanupFinish

Next == Apply \/ Rollback \/ Resolve \/ Recover \/ Cleanup \/ Start \/ Stop \/ Crash \/ PowerLoss

Spec == Init /\ [][Next]_vars

\* The runtime loop runs each operation to its end and retries recovery with
\* a bounded backoff; the restart of a stopped daemon is not assumed.
FairSpec == Spec /\ WF_vars(Apply \/ Rollback \/ Resolve \/ Recover \/ Cleanup)

----------------------------------------------------------------------------
\* Whatever a power loss leaves of the unsynced records, Store.read accepts
\* it: the active record and the journal name existing revision files, and an
\* apply journal agrees with the active record.  A start never fails on
\* records that the writer itself left behind.
RecordsSurvive ==
    \A a \in activeMay, j \in journalMay : ReadOK(a, j, files \ unsynced)

\* Every owned object in the kernel belongs to a target that the active
\* record or the journal names, so the ownership inspection that starts each
\* backend call never meets an object of the daemon's own that it must refuse.
KernelRecorded ==
    installed \subseteq Targets(journal.revs \cup ({active} \ {NoRev}))

\* A healthy daemon between operations enforces exactly the active revision,
\* in every family the revision covers; it is the revision it reported last,
\* and a power loss cannot change it.
HealthyEnforced ==
    pc = "idle" /\ healthy =>
        LET g == TargetOf(active) IN
        /\ journalMay = {NoJournal} /\ activeMay = {active} /\ active = acked
        /\ installed = {g} \ {NoGen}
        /\ \A f \in Family : live[f] = {h \in installed : f \in Covers[h]}

\* A reported rollback is final: the rejected candidate never becomes active
\* and never filters a packet again.
RejectionFinal ==
    rejected # NoRev =>
        /\ rejected \notin activeMay
        /\ \A f \in Family : rejected \notin live[f]

\* The committed phase is recorded only after the active record is durable,
\* also when the two records are torn apart by a power loss.
CommittedPhaseTrue ==
    \A j \in journalMay : j.phase = "committed" => activeMay = {j.cand}

\* The shape of a journal the store publishes.
JournalShape(j) ==
    /\ j.op = "none" => j = NoJournal
    /\ j.op = "apply" => j.cand \in Rev /\ j.revs = {j.prev, j.cand} \ {NoRev}
    /\ j.op = "cleanup" => j.prev = NoRev /\ j.cand = NoRev /\ j.phase = "cleanup"

StoreShape ==
    /\ active \in activeMay /\ journal \in journalMay
    /\ \A j \in journalMay : JournalShape(j)

\* The calls before which nothing is unsynced in the state directory.
SyncedSteps ==
    {"idle", "prepare", "switch", "markSwitched", "commit", "markCommitted", "retire",
     "finish", "readback", "rbFinish", "decide", "rdMark", "clKernel", "clRemove",
     "clFinish"} \cup (RecoverSteps \ {"rvStabilize"})

Synced == activeMay = {active} /\ journalMay = {journal}

\* The calls made under an apply journal, and those made once its candidate
\* is durably active.
PendingSteps ==
    {"switch", "markSwitched", "commit", "markCommitted", "retire", "finish", "uncertain",
     "decide", "rdStabilize", "rdMark", "rvReapply", "rvMarkSwitched", "rvSwitch",
     "rvCommit", "rvMark", "rvRetire"} \cup RollbackSteps

CommittedSteps ==
    {"markCommitted", "retire", "finish", "readback", "rdStabilize", "rdMark",
     "rvReapply", "rvMarkSwitched", "rvSwitch", "rvCommit", "rvMark", "rvRetire"}

\* What each call of the writer relies on: the records agree with the
\* operation's own view of them.
StepFacts ==
    /\ pc \in SyncedSteps => Synced
    /\ pc = "prepare" => cand \in Rev \ files
    /\ pc = "rvPrepare" => active \in Rev /\ cand = active
    /\ pc \in PendingSteps => journal.op = "apply" /\ journal.cand = cand
    /\ pc \in CommittedSteps => active = cand /\ activeMay = {cand}
    /\ pc \in {"clKernel", "clRemove", "clFinish"} => journal.op = "cleanup"

\* The strengthening of RecordsSurvive and CommittedPhaseTrue that every step
\* of the writer, and every failure, preserves.
DurableInv == StoreShape /\ RecordsSurvive /\ CommittedPhaseTrue /\ StepFacts

----------------------------------------------------------------------------
\* The kernel holds and enforces exactly the target of r, or at least has it
\* installed and filtering in every family it covers.
Enforced(r) ==
    /\ installed = {TargetOf(r)} \ {NoGen}
    /\ \A f \in Family : live[f] = {h \in installed : f \in Covers[h]}

Applied(r) ==
    LET g == TargetOf(r) IN
    g # NoGen => g \in installed /\ \A f \in Covers[g] : g \in live[f]

\* The calls after the candidate was applied, those after the previous target
\* was applied again, and those after the other target was retired.
SwitchedSteps ==
    {"markSwitched", "commit", "markCommitted", "retire", "rvMarkSwitched", "rvCommit",
     "rvMark", "rvRetire"} \cup ResolveSteps

RestoredSteps == {"rbRetire", "bkRetire"}

SettledSteps ==
    {"idle", "prepare", "finish", "readback", "rbStabilize", "rbFinish", "rvFinish",
     "rvReturn", "collect"}

\* What each call relies on in the kernel.
KernelFacts ==
    /\ \A f \in Family : live[f] \subseteq {h \in installed : f \in Covers[h]}
    /\ KernelRecorded
    /\ pc \in SwitchedSteps => Applied(cand)
    /\ pc \in RestoredSteps => Applied(prev)
    /\ pc \in SettledSteps => Enforced(active)
    /\ pc \in {"clRemove", "clFinish", "cleaned"} => installed = {}

\* The calls of an apply before it is decided, and those with no journal.
UndecidedSteps ==
    {"prepare", "switch", "markSwitched", "commit", "uncertain", "decide"} \cup RollbackSteps

UnjournalledSteps == {"idle", "prepare", "readback", "rvReturn", "collect", "cleaned"}

\* What each call relies on in the records, beyond StepFacts.
RecordFacts ==
    /\ pc \in PendingSteps \cup {"bkSwitch", "bkRetire", "rvFinish"} =>
         journal.op = "apply" /\ journal.prev = prev /\ journal.cand = cand
    /\ pc \in {"prepare", "switch", "markSwitched", "commit", "rvPrepare", "bkSwitch", "bkRetire"}
             \cup RollbackSteps => active = prev /\ activeMay = {prev}
    /\ pc \in UnjournalledSteps => journal = NoJournal
    /\ pc \in {"clFinish", "cleaned"} => active = NoRev
    /\ journal = NoJournal => activeMay = {active}

\* The revisions that authority may still pass through.
Reachable ==
    activeMay \cup (UNION {j.revs : j \in journalMay}) \cup (IF pc = "prepare" THEN {cand} ELSE {})

\* What was reported: the previous revision until an apply is decided, and a
\* rejected candidate is neither reachable nor the target of one that is.
VerdictFacts ==
    /\ pc \in UndecidedSteps => acked = prev /\ cand \notin {prev, TargetOf(prev)}
    /\ pc \in {"idle", "collect"} => acked = active
    /\ rejected # NoRev => \A r \in Reachable : rejected \notin {r, TargetOf(r)}

\* The strengthening of KernelRecorded, HealthyEnforced, RejectionFinal and
\* CleanupComplete that every step of the writer, and every failure, preserves.
KernelInv == KernelFacts /\ RecordFacts /\ VerdictFacts

\* A cleanup command that reports success leaves no owned object in the
\* kernel and no active record; a power loss brings no active record back,
\* and no journal from which recovery would restore a policy.
CleanupComplete ==
    pc = "cleaned" =>
        /\ installed = {}
        /\ activeMay = {NoRev}
        /\ \A j \in journalMay : j.prev = NoRev

\* A commit is reported only when no power loss can revoke it, and from then
\* on authority moves to nothing but the candidate of a journalled apply, or
\* to nothing at all by a journalled cleanup: no crash, failed recovery or
\* power loss brings an older revision back.
AuthorityStep ==
    /\ acked' \notin {acked, NoRev} => activeMay' = {acked'}
    /\ \A a \in activeMay' \ activeMay : \E j \in journalMay :
           \/ j.op = "apply" /\ a = j.cand /\ activeMay \subseteq {j.prev, j.cand}
           \/ j.op = "cleanup" /\ a = NoRev

\* Every step moves authority as AuthorityStep allows (Engine.Apply, Recover
\* and Cleanup over state.Store).
CommitDurable == [][AuthorityStep]_vars

\* While a transaction replaces a policy in its place by another that covers
\* the same family (Native.Apply, Retire and the compensation of both), some
\* policy filters the family at every step: no switch, rollback, recovery or
\* retirement opens a gap.
NoGap ==
    [][ \A f \in Family :
          journal.op = "apply" /\ live[f] # {} /\ ~LoseKernel
          /\ (\A r \in {journal.prev, journal.cand} :
                TargetOf(r) # NoGen /\ f \in Covers[TargetOf(r)])
          /\ SamePlace(TargetOf(journal.prev), TargetOf(journal.cand))
          => live'[f] # {} ]_vars

\* A migration to another place keeps the previous target filtering until the
\* candidate is committed, whatever fails on the way.
PreviousKept ==
    [][ \A f \in Family :
          LET p == TargetOf(journal.prev) IN
          journal.op = "apply" /\ active = journal.prev /\ ~LoseKernel
          /\ p # NoGen /\ TargetOf(journal.cand) # NoGen
          /\ ~SamePlace(p, TargetOf(journal.cand))
          /\ p \in live[f] => p \in live'[f] ]_vars

\* Until a cleanup, a step removes the last objects of a generation only when
\* no revision that a power loss could leave active records it.
RetireObsolete ==
    [][ journal.op # "cleanup" /\ ~LoseKernel =>
          \A a \in activeMay : TargetOf(a) \in installed => TargetOf(a) \in installed' ]_vars

\* A durable cleanup intent is never undone: it ends with the active record
\* gone, and no step of recovery lets a policy filter packets again.
CleanupMonotone ==
    [][ journalMay = {journal} /\ journal.op = "cleanup" =>
          /\ journal'.op = "cleanup" \/ (journal' = NoJournal /\ active' = NoRev)
          /\ \A f \in Family : live'[f] \subseteq live[f] ]_vars

\* Every operation settles: once failures stop, the daemon is idle and
\* healthy again or the process ends; recovery never retries for ever.
Settles ==
    pc \notin {"idle", "down", "cleaned"}
        ~> pc \in {"down", "cleaned"} \/ (pc = "idle" /\ healthy)
=============================================================================
