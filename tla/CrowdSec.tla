------------------------------ MODULE CrowdSec ------------------------------
(***************************************************************************)
(* The CrowdSec runtime (internal/app/crowdsec.go) and the applied lookup  *)
(* view (internal/app/lookup.go): an authenticated client and its store of *)
(* decisions, replaced by reloads and by reconnections, written to the     *)
(* dynamic container of the active target under the engine lock, while     *)
(* polls run outside it.                                                   *)
(*                                                                         *)
(* Each action is one section under Engine.mu or one call outside it.  The *)
(* durable transaction of applyLocked, which module Engine models step by  *)
(* step, is here one action with the outcomes it can have.  A store is the *)
(* set of addresses it bans; deadlines are left to module Lease.           *)
(***************************************************************************)
EXTENDS Naturals, FiniteSets, Faults

CONSTANTS Ban,          \* addresses the LAPI may ban
          Key,          \* bouncer keys
          None,
          MaxApply,     \* bound: applies
          MaxChange,    \* bound: changes of the LAPI's decisions
          MaxUnread     \* bound: failed reads of the store at the end of an apply

VARIABLES
    disk,       \* the durable active revision: its id, dynamic generation and CrowdSec settings
    journal,    \* the pending transaction's candidate, or None
    healthy,    \* Engine.healthy
    closing,    \* Engine.Close: "no", "flag" (announced), "done"
    c,          \* what Engine.mu protects, and the dynamic containers
    recovering, \* the coordinator awaits a recovery, and applies nothing meanwhile
    app,        \* the Apply call that holds Engine.applyMu
    applies,    \* applies so far; an apply's number names its client and its revision
    lapi,       \* the LAPI's decisions
    sent,       \* per key, the decisions the LAPI last answered with (its cursor)
    changes,
    unread      \* failed reads of the store at the end of an apply

vars == <<disk, journal, healthy, closing, c, recovering, app, applies, lapi, sent, changes,
          unread, faults>>

NoRevision == [rev |-> 0, gen |-> 0, crowd |-> FALSE, key |-> None]
Idle == [pc |-> "idle", kind |-> "reload", crowd |-> FALSE, key |-> None, store |-> {}]

\* A fresh process, on an empty disk or on a revision of an earlier process.
Init ==
    /\ disk \in {NoRevision} \cup {[rev |-> 1, gen |-> 1, crowd |-> TRUE, key |-> k] : k \in Key}
    /\ journal = None
    /\ healthy = TRUE /\ closing = "no" /\ app = Idle /\ recovering = FALSE /\ applies = 1
    /\ lapi \in SUBSET Ban /\ sent = [k \in Key |-> {}] /\ changes = 0
    /\ unread = 0 /\ faults = 0
    /\ c = [active |-> None, staged |-> None, transaction |-> 0, workers |-> {}, epoch |-> 0,
            dirty |-> FALSE, connected |-> FALSE, open |-> {}, wake |-> FALSE, timer |-> FALSE,
            view |-> None, fallback |-> None, base |-> None,
            cont |-> [g \in 0 .. MaxApply |-> {}]]

Spend(n) == faults + n <= MaxFaults /\ faults' = faults + n

Same(s, t) == IF s = None \/ t = None THEN s = t ELSE s.epoch = t.epoch

----------------------------------------------------------------------------
(* The applied view.                                                       *)

InvalidateLookup(r) ==
    [r EXCEPT !.fallback = IF r.view # None THEN r.view ELSE @, !.view = None]

AbortLookup(r) == [r EXCEPT !.view = None, !.fallback = None]

PublishLookup(r, v) == [r EXCEPT !.view = v, !.base = v, !.fallback = None]

RestoreLookup(r) == IF r.fallback = None THEN r ELSE PublishLookup(r, r.fallback)

\* dynamicFromCrowdState: the acknowledged leases, not the desired decisions.
Dynamic(s) == IF s = None THEN [epoch |-> 0, dyn |-> {}] ELSE [epoch |-> s.epoch, dyn |-> s.lease]

ViewOf(rev, s) == [rev |-> rev, epoch |-> Dynamic(s).epoch, dyn |-> Dynamic(s).dyn]

\* Only a view of the very revision written to is brought up to date.
PublishDynamicLookup(r, s, rev) ==
    LET current == IF r.view # None THEN r.view
                   ELSE IF r.fallback # None THEN r.fallback ELSE r.base
    IN  IF current = None \/ current.rev # rev THEN r ELSE PublishLookup(r, ViewOf(rev, s))

----------------------------------------------------------------------------
(* States, clients and workers.                                            *)

Worker(s, full) == [epoch |-> s.epoch, key |-> s.key, full |-> full, live |-> TRUE,
                    phase |-> "wait", batch |-> None]

\* pollCancel of the state is not nil.
Polled(r, s) == \E w \in r.workers : w.epoch = s.epoch /\ w.live

StopPoll(r, s) ==
    [r EXCEPT !.workers = {[w EXCEPT !.live = @ /\ w.epoch # s.epoch] : w \in @}]

StartPoll(r, s, full) == [r EXCEPT !.workers = @ \cup {Worker(s, full)}]

\* The active state is mutated in place: a staged alias of it is the same.
SetActive(r, s) == [r EXCEPT !.active = s, !.staged = IF Same(@, s) THEN s ELSE @]

\* A reconnection keeps the client, a reload's replacement closes it.
RetiredClient(old, s) ==
    IF old # None /\ (s = None \/ old.client # s.client) THEN {old.client} ELSE {}

Activate(r, s) ==
    LET old == r.active
        t   == [(IF old = None THEN r ELSE StopPoll(r, old)) EXCEPT
                  !.active = s, !.connected = s # None, !.dirty = FALSE,
                  !.open = @ \ RetiredClient(old, s), !.wake = s # None, !.timer = FALSE]
    IN  IF Same(old, s) THEN r ELSE IF s = None THEN t ELSE StartPoll(t, s, FALSE)

\* Mutant: the retained client continues from a cursor the replacement moved.
ResumesIncrementally(r) == StartPoll(r, r.active, FALSE)

\* The replacement may have moved the LAPI's cursor: synchronize in full.
Resynchronize(r) == StartPoll([r EXCEPT !.connected = FALSE], r.active, TRUE)

\* Mutant: a discarded replacement leaves the active state without a poll.
NeverResumes(r) == FALSE

Resumes(r) == r.active # None /\ ~Polled(r, r.active) /\ closing = "no"

Discard(r) ==
    LET t == [r EXCEPT !.open = @ \ (IF r.staged # None /\ ~Same(r.staged, r.active)
                                     THEN {r.staged.client} ELSE {}),
                       !.staged = None, !.transaction = 0]
    IN  IF Resumes(t) THEN Resynchronize(t) ELSE t

----------------------------------------------------------------------------
(* Writing the projection.                                                 *)

WakeOnFailure(r) == r.wake \/ r.active # None

\* Mutant: a failed write leaves the view it was meant to bring up to date.
FailedWriteKeepsView(r) == [r EXCEPT !.dirty = TRUE, !.wake = WakeOnFailure(r)]

FailedWrite(r) == [AbortLookup(r) EXCEPT !.dirty = TRUE, !.wake = WakeOnFailure(r)]

RecordLeases(s) == [s EXCEPT !.lease = s.store]

Written(r, d, content) == [r EXCEPT !.cont[d.gen] = content]

\* reconcileLocked(s) with the revision d and journal j on disk and the health
\* h: the results it can have, each with the failures it takes.  A failed
\* native update may have been made.
Reconcile(r, s, d, j, h) ==
    LET inv  == InvalidateLookup(r)
        done == RecordLeases(s)
        ok   == [Written(inv, d, s.store) EXCEPT !.dirty = FALSE, !.wake = TRUE]
    IN  IF closing # "no" THEN {[ok |-> FALSE, r |-> r, s |-> s, faults |-> 0]}
        ELSE IF j # None \/ ~h \/ d.gen = 0
        THEN {[ok |-> FALSE, r |-> FailedWrite(r), s |-> s, faults |-> 0]}
        ELSE {[ok |-> TRUE, r |-> PublishDynamicLookup(ok, done, d.rev), s |-> done, faults |-> 0]}
             \cup {[ok |-> FALSE, r |-> FailedWrite(t), s |-> s, faults |-> 1] :
                      t \in {r, inv, Written(inv, d, s.store)}}

\* The active state writes its own projection.
ReconcileActive(r, d, j, h) ==
    {[o EXCEPT !.r = SetActive(o.r, o.s)] : o \in Reconcile(r, r.active, d, j, h)}

----------------------------------------------------------------------------
(* Applying a candidate.                                                   *)

Degraded == ~healthy \/ c.dirty

\* stageForApply, up to the join: the active client's poll is stopped, unless
\* a source refresh keeps it.
Stage(kind, crowd, key) ==
    /\ app.pc = "idle" /\ ~recovering /\ applies < MaxApply /\ closing # "done"
    /\ kind = "refresh" => disk.rev # 0 /\ crowd = disk.crowd
    /\ applies' = applies + 1
    /\ LET a == [Idle EXCEPT !.kind = kind, !.crowd = crowd, !.key = key]
       IN  \/ /\ closing # "no" \/ Degraded
              /\ app' = [a EXCEPT !.pc = "failed"] /\ UNCHANGED c
           \/ /\ closing = "no" /\ ~Degraded
              /\ kind = "refresh" /\ c.active # None /\ crowd
              /\ app' = [a EXCEPT !.pc = "locked"] /\ UNCHANGED c
           \/ /\ closing = "no" /\ ~Degraded
              /\ ~(kind = "refresh" /\ c.active # None /\ crowd)
              /\ app' = [a EXCEPT !.pc = "join"]
              /\ c' = IF c.active = None THEN c ELSE StopPoll(c, c.active)
    /\ UNCHANGED <<recovering, disk, journal, healthy, closing, lapi, sent, changes, unread, faults>>

\* The old worker has returned; the new client is created.
Join ==
    /\ app.pc = "join"
    /\ c.active # None => \A w \in c.workers : w.epoch # c.active.epoch
    /\ \/ ~app.crowd /\ app' = [app EXCEPT !.pc = "locked"] /\ NoFault /\ UNCHANGED c
       \/ /\ app.crowd /\ app' = [app EXCEPT !.pc = "poll"] /\ NoFault
          /\ c' = [c EXCEPT !.open = @ \cup {applies}]
       \/ app.crowd /\ app' = [app EXCEPT !.pc = "failed"] /\ Fault /\ UNCHANGED c
    /\ UNCHANGED <<recovering, disk, journal, healthy, closing, applies, lapi, sent, changes, unread>>

\* The startup poll, which moves the cursor of its key even if the answer is lost.
StagePoll ==
    /\ app.pc = "poll"
    /\ \/ /\ closing = "no" /\ NoFault /\ sent' = [sent EXCEPT ![app.key] = lapi]
          /\ app' = [app EXCEPT !.pc = "polled", !.store = lapi] /\ UNCHANGED c
       \/ /\ IF closing = "no" THEN Fault ELSE NoFault
          /\ sent' \in {sent, [sent EXCEPT ![app.key] = lapi]}
          /\ app' = [app EXCEPT !.pc = "failed"] /\ c' = [c EXCEPT !.open = @ \ {applies}]
    /\ UNCHANGED <<recovering, disk, journal, healthy, closing, applies, lapi, changes, unread>>

StageDone ==
    /\ app.pc = "polled"
    /\ \/ /\ NoFault /\ app' = [app EXCEPT !.pc = "locked"]
          /\ c' = [c EXCEPT !.epoch = @ + 1,
                            !.staged = [epoch |-> c.epoch + 1, client |-> applies, key |-> app.key,
                                        store |-> app.store, lease |-> {}]]
       \/ /\ Fault /\ app' = [app EXCEPT !.pc = "failed"]
          /\ c' = [c EXCEPT !.open = @ \ {applies}]
    /\ UNCHANGED <<recovering, disk, journal, healthy, closing, applies, lapi, sent, changes, unread>>

Read(lost) == unread + lost <= MaxUnread /\ unread' = unread + lost

\* finishApplyLocked: what a pending transaction may still select is kept, and
\* everything is when the store cannot be read (lost = 1).
Finish(r, j, lost) == IF r.transaction # 0 /\ (j # None \/ lost = 1) THEN r ELSE Discard(r)

\* An apply that changed nothing durable.
Rejected(lost) ==
    /\ app' = Idle /\ Read(lost) /\ recovering' = Degraded
    /\ LET t == Finish(c, journal, lost)
       IN  c' = IF Degraded THEN AbortLookup(t) ELSE RestoreLookup(t)
    /\ UNCHANGED <<disk, journal, healthy, closing, applies, lapi, sent, changes>>

StageFailed(lost) == app.pc = "failed" /\ NoFault /\ Rejected(lost)

\* A refresh always uses the live authority.
Selected == IF app.kind = "refresh" THEN c.active ELSE IF app.crowd THEN c.staged ELSE None

\* sameAuthority: the same key may keep the container (the rest of the
\* configuration and the backend decide).
MayShare == /\ app.crowd /\ Selected # None /\ c.active # None /\ disk.gen # 0
            /\ Selected.key = c.active.key

Candidate(shared) ==
    [rev |-> applies, crowd |-> app.crowd,
     key |-> IF ~app.crowd THEN None ELSE IF app.kind = "refresh" THEN disk.key ELSE app.key,
     gen |-> IF ~app.crowd THEN 0 ELSE IF shared THEN disk.gen ELSE applies]

Activates(d) == d.gen # 0 /\ (d.gen # disk.gen \/ ~Same(Selected, c.active))

Switched(r, d) == IF Activates(d) THEN Written(r, d, Selected.store) ELSE r

\* Mutant: the previous target is restored with the candidate's projection.
NotRestored(r, d) == r

\* rollbackLocked: a container shared with the candidate gets its own content back.
Restored(r, d) ==
    IF d.gen # 0 /\ d.gen = disk.gen /\ c.active # None /\ ~Same(Selected, c.active)
    THEN Written(r, disk, c.active.store) ELSE r

Begun(d) == [c EXCEPT !.transaction = d.rev, !.staged = Selected]

\* activateLocked and recordLeasesLocked of a committed apply.
Committed(r, d) ==
    LET t == Activate(r, Selected)
    IN  IF Activates(d) THEN [SetActive(t, RecordLeases(t.active)) EXCEPT !.wake = TRUE] ELSE t

ApplyRejected(lost) ==
    /\ app.pc = "locked" /\ Rejected(lost)
    /\ IF closing # "no" \/ Degraded \/ (app.crowd /\ Selected = None) THEN NoFault ELSE Fault

\* The writer fence is held from here on: the transaction runs to its outcome.
Applying(lost) ==
    /\ app.pc = "locked" /\ closing = "no" /\ ~Degraded /\ (app.crowd => Selected # None)
    /\ app' = Idle /\ Read(lost) /\ UNCHANGED <<closing, applies, lapi, sent, changes>>

ApplyRolledBack(d, lost) ==
    /\ Applying(lost) /\ Fault
    /\ \E t \in {Begun(d), Switched(Begun(d), d)} :
         c' = RestoreLookup(Finish(Restored(InvalidateLookup(t), d), None, lost))
    /\ UNCHANGED <<disk, journal, healthy, recovering>>

\* Nothing is known to be committed: the journal may be pending, and the commit
\* may be durable.
ApplyUnknown(d, lost) ==
    /\ Applying(lost) /\ Fault /\ healthy' = FALSE /\ recovering' = TRUE
    /\ \E t \in {Begun(d), Switched(Begun(d), d), Restored(Begun(d), d)} :
         /\ \/ journal' = None /\ disk' = disk /\ t = Begun(d)
            \/ journal' = d /\ disk' = disk
            \/ journal' = d /\ disk' = d /\ t = Switched(Begun(d), d)
         /\ c' = AbortLookup(Finish(t, journal', lost))

\* Committed, and completed or left to recovery.
ApplyCommitted(d, lost) ==
    LET t == Committed(Switched(InvalidateLookup(Begun(d)), d), d)
    IN  /\ Applying(lost) /\ disk' = d
        /\ \/ /\ NoFault /\ UNCHANGED <<journal, healthy, recovering>>
              /\ c' = PublishLookup(Finish(t, None, lost), ViewOf(d.rev, t.active))
           \/ /\ Fault /\ healthy' = FALSE /\ recovering' = TRUE /\ journal' \in {None, d}
              /\ c' = AbortLookup(Finish(t, journal', lost))

ApplyStep ==
    \/ Join \/ StagePoll \/ StageDone
    \/ \E lost \in 0 .. 1 :
         \/ StageFailed(lost) \/ ApplyRejected(lost)
         \/ \E shared \in {FALSE, MayShare} :
              LET d == Candidate(shared)
              IN  ApplyRolledBack(d, lost) \/ ApplyUnknown(d, lost) \/ ApplyCommitted(d, lost)

----------------------------------------------------------------------------
(* The poll worker.                                                        *)

Others(w) == c.workers \ {w}

Current(w) == w.live /\ closing = "no" /\ c.active # None /\ w.epoch = c.active.epoch

\* The LAPI answers the worker: in full, or what changed since its last answer
\* to this key; or the answer is lost.
Poll(w) ==
    /\ Current(w) /\ w.phase = "wait" /\ c.active.client \in c.open
    /\ \/ /\ NoFault /\ sent' = [sent EXCEPT ![w.key] = lapi]
          /\ c' = [c EXCEPT !.workers = Others(w) \cup {[w EXCEPT !.phase = "done", !.batch =
                      IF w.full THEN [new |-> lapi, deleted |-> {}]
                      ELSE [new |-> lapi \ sent[w.key], deleted |-> sent[w.key] \ lapi]]}]
       \/ /\ Fault /\ sent' \in {sent, [sent EXCEPT ![w.key] = lapi]}
          /\ c' = [c EXCEPT !.workers = Others(w) \cup {[w EXCEPT !.phase = "done"]}]
    /\ UNCHANGED <<recovering, disk, journal, healthy, closing, app, applies, lapi, changes, unread>>

\* A client that was closed only fails.
PollClosed(w) ==
    /\ Current(w) /\ w.phase = "wait" /\ c.active.client \notin c.open
    /\ c' = [c EXCEPT !.workers = Others(w) \cup {[w EXCEPT !.phase = "done"]}]
    /\ UNCHANGED <<recovering, disk, journal, healthy, closing, app, applies, lapi, sent, changes, unread, faults>>

\* Cancelled or superseded: whatever was received is dropped.
PollStops(w) ==
    /\ ~Current(w)
    /\ c' = [c EXCEPT !.workers = Others(w)]
    /\ UNCHANGED <<recovering, disk, journal, healthy, closing, app, applies, lapi, sent, changes, unread, faults>>

Receives(w) ==
    /\ Current(w) /\ w.phase = "done"
    /\ UNCHANGED <<recovering, disk, journal, healthy, closing, app, applies, lapi, sent, changes, unread>>

\* The worker goes on, in full after an error.
Continues(w, r, full) ==
    [r EXCEPT !.workers = (@ \ {w}) \cup {[w EXCEPT !.phase = "wait", !.batch = None, !.full = full]}]

PollFailed(w) ==
    /\ Receives(w) /\ w.batch = None /\ NoFault
    /\ c' = Continues(w, [c EXCEPT !.connected = FALSE], TRUE)

\* A full answer becomes a new state of the same client, activated only once
\* its projection is written; else the current one is written again.
PollFull(w) ==
    LET next == [c.active EXCEPT !.epoch = c.epoch + 1, !.store = w.batch.new, !.lease = {}]
    IN  /\ Receives(w) /\ w.batch # None /\ w.full
        /\ \/ /\ IF c.dirty THEN NoFault ELSE Fault
              /\ c' = Continues(w, c, TRUE)
           \/ /\ ~c.dirty
              /\ \E o \in Reconcile(c, next, disk, journal, healthy) :
                   \/ /\ o.ok /\ Spend(o.faults)
                      /\ c' = Activate([o.r EXCEPT !.epoch = @ + 1, !.workers = @ \ {w}], o.s)
                   \/ /\ ~o.ok
                      /\ \E p \in ReconcileActive(o.r, disk, journal, healthy) :
                           Spend(o.faults + p.faults) /\ c' = Continues(w, p.r, TRUE)

\* An increment changes the active store, which is written if it can be.
PollIncrement(w) ==
    LET store == (c.active.store \ w.batch.deleted) \cup w.batch.new
        r     == SetActive([c EXCEPT !.connected = TRUE], [c.active EXCEPT !.store = store])
    IN  /\ Receives(w) /\ w.batch # None /\ ~w.full
        /\ \/ Fault /\ c' = Continues(w, [c EXCEPT !.connected = FALSE], TRUE)
           \/ /\ store = c.active.store \/ c.dirty
              /\ NoFault
              /\ c' = Continues(w, [r EXCEPT !.wake = @ \/ store # c.active.store], FALSE)
           \/ /\ store # c.active.store /\ ~c.dirty
              /\ \E o \in ReconcileActive([r EXCEPT !.wake = TRUE], disk, journal, healthy) :
                   Spend(o.faults) /\ c' = Continues(w, o.r, FALSE)

PollStep(w) ==
    Poll(w) \/ PollClosed(w) \/ PollStops(w) \/ PollFailed(w) \/ PollFull(w) \/ PollIncrement(w)

----------------------------------------------------------------------------
(* The expiry worker of the active state: it arms a timer only if something *)
(* will be due, and is woken to arm it again.                              *)

ExpiryArm ==
    /\ c.active # None /\ closing = "no" /\ c.wake
    /\ c' = [c EXCEPT !.wake = FALSE, !.timer = c.dirty \/ c.active.store # {}]
    /\ UNCHANGED <<recovering, disk, journal, healthy, closing, app, applies, lapi, sent, changes, unread, faults>>

\* maintainLocked: a retry, a renewal or an expiry is due.
Maintain ==
    /\ c.active # None /\ closing = "no" /\ c.timer
    /\ \E o \in ReconcileActive([c EXCEPT !.timer = FALSE, !.wake = TRUE], disk, journal, healthy) :
         Spend(o.faults) /\ c' = o.r
    /\ UNCHANGED <<recovering, disk, journal, healthy, closing, app, applies, lapi, sent, changes, unread>>

----------------------------------------------------------------------------
(* Recovery and shutdown.                                                  *)

\* Engine.Recover: static recovery settles the transaction on the revision the
\* disk holds, then the retained states are settled by its identity.
RecoverStatic ==
    /\ app.pc = "idle" /\ closing = "no" /\ recovering
    /\ UNCHANGED <<disk, closing, app, applies, lapi, sent, changes, unread>>

RecoverFails ==
    /\ RecoverStatic /\ Fault /\ healthy' = FALSE /\ UNCHANGED journal
    /\ c' = AbortLookup(c)

\* publishRecoveredLookupLocked, which may fail to load the manifest.
Recovered(r, n) ==
    \/ /\ healthy' = TRUE /\ Spend(n)
       /\ c' = IF disk.crowd /\ r.active = None THEN r
               ELSE PublishLookup(r, ViewOf(disk.rev, r.active))
    \/ healthy' = FALSE /\ Spend(n + 1) /\ c' = AbortLookup(r)

NotRecovered(r, n) == healthy' = FALSE /\ Spend(n) /\ c' = AbortLookup(r)

\* Mutant: whatever is staged is selected.
SelectsAlways == TRUE

SelectsStaged == disk.rev = c.transaction

\* The transaction of the staged state was committed.
RecoverStaged ==
    LET t == InvalidateLookup(c)
    IN  /\ RecoverStatic /\ journal' = None /\ c.transaction # 0 /\ SelectsStaged
        /\ \/ c.staged = None /\ Recovered([Activate(t, None) EXCEPT !.transaction = 0], 0)
           \/ /\ c.staged # None
              /\ \E o \in Reconcile(t, c.staged, disk, None, TRUE) :
                   LET u == IF Same(c.active, o.s) THEN SetActive(o.r, o.s) ELSE Activate(o.r, o.s)
                   IN  \/ /\ o.ok
                          /\ Recovered([u EXCEPT !.staged = None, !.transaction = 0], o.faults)
                       \/ ~o.ok /\ NotRecovered(o.r, o.faults)

RecoverActive ==
    LET t == Discard(InvalidateLookup(c))
    IN  /\ RecoverStatic /\ journal' = None /\ ~(c.transaction # 0 /\ SelectsStaged)
        /\ \/ t.active = None /\ Recovered(t, 0)
           \/ t.active # None /\ ~disk.crowd /\ Recovered(Activate(t, None), 0)
           \/ /\ t.active # None /\ disk.crowd
              /\ \E o \in ReconcileActive(t, disk, None, TRUE) :
                   \/ o.ok /\ Recovered(o.r, o.faults)
                   \/ ~o.ok /\ NotRecovered(o.r, o.faults)

Recover == (RecoverFails \/ RecoverStaged \/ RecoverActive) /\ recovering' = ~healthy'

\* Engine.Close: the workers are cancelled at once, the rest waits for the apply.
CloseBegins ==
    /\ closing = "no" /\ closing' = "flag"
    /\ c' = [c EXCEPT !.workers = {[w EXCEPT !.live = FALSE] : w \in @}]
    /\ UNCHANGED <<recovering, disk, journal, healthy, app, applies, lapi, sent, changes, unread, faults>>

CloseEnds ==
    /\ closing = "flag" /\ app.pc = "idle" /\ closing' = "done" /\ healthy' = FALSE
    /\ c' = [AbortLookup(c) EXCEPT !.connected = FALSE, !.active = None, !.staged = None,
               !.open = @ \ {s.client : s \in {c.active, c.staged} \ {None}}]
    /\ UNCHANGED <<recovering, disk, journal, app, applies, lapi, sent, changes, unread, faults>>

\* The LAPI adds or withdraws a decision.
LapiChanges(b) ==
    /\ changes < MaxChange /\ changes' = changes + 1
    /\ lapi' = IF b \in lapi THEN lapi \ {b} ELSE lapi \cup {b}
    /\ UNCHANGED <<recovering, disk, journal, healthy, closing, c, app, applies, sent, unread, faults>>

Next ==
    \/ \E kind \in {"reload", "refresh"}, crowd \in BOOLEAN, k \in Key : Stage(kind, crowd, k)
    \/ ApplyStep
    \/ \E w \in c.workers : PollStep(w)
    \/ ExpiryArm \/ Maintain
    \/ Recover
    \/ CloseBegins \/ CloseEnds
    \/ \E b \in Ban : LapiChanges(b)

Spec == Init /\ [][Next]_vars

\* Goroutines run, timers fire and calls return; the coordinator retries a
\* recovery, which only an apply makes it start.
Fairness ==
    /\ WF_vars(ApplyStep) /\ WF_vars(ExpiryArm) /\ WF_vars(Maintain) /\ WF_vars(Recover)
    /\ WF_vars(\E w \in c.workers : PollStep(w))

FairSpec == Spec /\ Fairness

----------------------------------------------------------------------------
State == [epoch : Nat, client : 1 .. MaxApply, key : Key, store : SUBSET Ban, lease : SUBSET Ban]
View  == [rev : 0 .. MaxApply, epoch : Nat, dyn : SUBSET Ban]
Revision == [rev : 0 .. MaxApply, gen : 0 .. MaxApply, crowd : BOOLEAN, key : Key \cup {None}]
Batch == [new : SUBSET Ban, deleted : SUBSET Ban]
Poller == [epoch : Nat, key : Key, full : BOOLEAN, live : BOOLEAN, phase : {"wait", "done"},
           batch : Batch \cup {None}]

Runtime ==
    [active : State \cup {None}, staged : State \cup {None}, transaction : 0 .. MaxApply,
     workers : SUBSET Poller, epoch : Nat, dirty : BOOLEAN, connected : BOOLEAN,
     open : SUBSET (1 .. MaxApply), wake : BOOLEAN, timer : BOOLEAN,
     view : View \cup {None}, fallback : View \cup {None}, base : View \cup {None},
     cont : [0 .. MaxApply -> SUBSET Ban]]

Call == [pc : {"idle", "join", "poll", "polled", "locked", "failed"},
         kind : {"reload", "refresh"}, crowd : BOOLEAN, key : Key \cup {None}, store : SUBSET Ban]

ASSUME CrowdAssumption ==
    /\ MaxApply \in Nat \ {0}
    /\ None \notin State /\ None \notin View /\ None \notin Revision /\ None \notin Batch

\* The runtime's state (crowdsec.go): at most one staged and one active client
\* state, the writer's place in an apply, and what the kernel was last given.
TypeOK ==
    /\ disk \in Revision /\ journal \in Revision \cup {None}
    /\ healthy \in BOOLEAN /\ recovering \in BOOLEAN /\ closing \in {"no", "flag", "done"}
    /\ c \in Runtime /\ app \in Call /\ (app.pc # "idle" => app.key \in Key)
    /\ applies \in 1 .. MaxApply /\ lapi \in SUBSET Ban /\ sent \in [Key -> SUBSET Ban]

Settled == healthy /\ ~c.dirty /\ journal = None /\ closing = "no"

\* While enforcement is reported healthy the container of the active revision
\* bans exactly what the active store holds (crowdsec.go reconcileLocked,
\* engine.go rollbackLocked): no reload, rollback, reconnection or recovery
\* leaves another state's decisions in the kernel.
EnforcedIsStore == Settled /\ c.active # None => c.cont[disk.gen] = c.active.store

\* The decisions enforced are those of the authority that the durable revision
\* names (crowdsec.go recoverLocked): a staged client is selected only by the
\* identity of its committed transaction, never by a transaction undone.
AuthorityIsDurable == Settled /\ c.active # None => disk.crowd /\ c.active.key = disk.key

\* A lookup answers from what the kernel enforces (lookup.go): a published view
\* is of the durable revision, of the active state, and of the bans acknowledged
\* in its container; in doubt there is none.
ViewCoherent ==
    c.view # None =>
        /\ healthy /\ ~c.dirty /\ journal = None /\ c.view.rev = disk.rev
        /\ disk.crowd => c.active # None /\ c.view.epoch = c.active.epoch
        /\ c.view.dyn = IF disk.crowd THEN c.cont[disk.gen] ELSE {}

\* No decision is missed (crowdsec.go pollLoop, discardLocked): when a worker is
\* about to ask for changes only, its store is what the LAPI last told this key,
\* whoever asked.
NoLostDecision ==
    \A w \in c.workers : w.live /\ w.phase = "wait" /\ ~w.full => c.active.store = sent[w.key]

\* What the kernel bans ends up as what the LAPI decides (crowdsec.go expiryLoop,
\* pollLoop), however writes, polls and applies fail meanwhile.
Converges == <>[](c.active # None /\ closing = "no" => c.cont[disk.gen] = lapi)

\* The active state's client is open, whatever reload is rejected
\* (docs/data-sources.md, the failure table: "its active client remains").
ActiveClientOpen == c.active # None => c.active.client \in c.open
=============================================================================
