---------------------------- MODULE Coordinator ----------------------------
(***************************************************************************)
(* The event loop of the daemon (internal/app/run.go) with the reload      *)
(* bridge, the source runtime and the runtime publication that it owns:    *)
(* who may reload, which staged result may be applied, what a caller is    *)
(* told, which listener and upstream session are published, and what is    *)
(* released when.                                                          *)
(*                                                                         *)
(* A revision is the candidate it was built from: the request epoch, the   *)
(* refresh sequence (0 for a reload) and the configuration bytes.  The     *)
(* writer is seen through its outcomes, which module Engine justifies:     *)
(* disk is the revision it will recover to, tx a candidate whose commit is *)
(* uncertain.  open are the session and listener handles not yet closed.   *)
(***************************************************************************)
EXTENDS Faults, FiniteSets

CONSTANTS Req,          \* reload requests through the control socket
          Digest,       \* contents of the configuration file
          None,         \* nil, or an empty string
          Expect,       \* digests a caller may expect, None for any
          Recovered,    \* what the writer may have committed before, or None
          Listen,       \* the metrics address a configuration asks for, or None
          MaxEpoch,     \* bound: the largest admission epoch
          MaxRefresh,   \* bound: the largest refresh sequence
          ReloadSlots   \* reload handlers that may wait at once

ASSUME ListenAssumption == DOMAIN Listen = Digest /\ None \notin Digest \cup Req

\* Epochs and refresh sequences are counted from zero.
ASSUME BoundsAssumption == MaxEpoch \in Nat /\ MaxRefresh \in Nat

VARIABLES
    pc,           \* where the loop is
    booting,      \* before startup is complete
    cancelled,    \* runCtx is done
    ready,        \* reloadBridge.ready
    eng,          \* the writer: admitted, activeEpoch, refreshSequence, healthy, enforced
    disk, tx,     \* the writer's durable choice, and a candidate in doubt
    req,          \* the reload handlers
    waiter,       \* the request the loop owes an answer
    producers,    \* staging goroutines
    results,      \* staged results on their way to the loop
    cur,          \* the result being applied, with the outcome of the apply
    pub,          \* runtimePublication
    src,          \* sourceRuntime
    recovery,     \* "none", "armed": the timer runs, "idle": recovering without one
    open,         \* handles that are open
    committed     \* history: every revision that became active

runVars  == <<booting, cancelled, ready>>
loopRest == <<runVars, waiter, cur, recovery>>
loopVars == <<pc, loopRest>>
writerVars == <<eng, disk, tx, committed>>
workVars == <<producers, results>>
heldVars == <<pub, src, open>>
vars == <<faults, loopVars, writerVars, req, workVars, heldVars>>

Epoch    == 0..MaxEpoch
Revision == [epoch : Epoch, refresh : 0..MaxRefresh, cfg : Digest \cup {None}]
Built    == [epoch : Epoch, refresh : 0..MaxRefresh, cfg : Digest]
OptRev   == Built \cup {None}
Answer   == [outcome : {"applied", "degraded", "rejected", "unknown"},
             rev : OptRev, cfg : Digest \cup {None}]
Waiter   == [req : Req, epoch : Epoch]
Refresh  == [epoch : Epoch, refresh : 0..MaxRefresh]

\* Handles: the staging owner's session, the publication's session, a listener.
Handle(kind, rev) == <<kind, rev.epoch, rev.refresh>>
Staged(rev)   == Handle("staged", rev)
Reserved(rev) == Handle("reserved", rev)
Listener(rev) == Handle("listener", rev)

Handles  == {"staged", "reserved", "listener"} \X Epoch \X (0..MaxRefresh)

\* What a staging goroutine works on, its result, and the result being applied.
Candidate == [rev : Revision, st : {"read", "resolve"}, expected : Digest \cup {None},
              cancelled : BOOLEAN, session : BOOLEAN]
Result    == [rev : Revision, err : BOOLEAN, session : BOOLEAN]
Outcomes  == [committed : BOOLEAN, degraded : BOOLEAN, tx : BOOLEAN, err : BOOLEAN]
Work      == [rev : Built, session : BOOLEAN, out : Outcomes \cup {None}]

\* A reservation, a metrics listener, the publication and the source runtime.
Reserving == [rev : Built, pending : BOOLEAN, session : BOOLEAN, replace : BOOLEAN,
              bound : BOOLEAN]
Serving   == [addr : {Listen[d] : d \in Digest}, handle : Handles]
Publication == [reservation : Reserving \cup {None}, listener : Serving \cup {None},
                telemetry : BOOLEAN, healthy : BOOLEAN]
Sources   == [active : OptRev, session : Handles \cup {None}, reloadEpoch : Epoch,
              refreshing : Refresh \cup {None}, timer : BOOLEAN]
Writer    == [admitted : Epoch, activeEpoch : Epoch, refreshSequence : 0..MaxRefresh,
              healthy : BOOLEAN, enforced : BOOLEAN]
Request   == [st : {"new", "offered", "accepted", "returned"}, expected : Digest \cup {None},
              expired : BOOLEAN, epoch : Epoch, box : Answer \cup {None},
              got : Answer \cup {None}]

\* Revisions the writer had committed are complete, callers expect digests, and
\* nil is none of the values it stands beside.
ASSUME InputAssumption == Recovered \subseteq OptRev /\ Expect \subseteq Digest \cup {None}

ASSUME NilAssumption ==
    /\ None \notin Built /\ None \notin Answer /\ None \notin Waiter /\ None \notin Refresh
    /\ None \notin Handles /\ None \notin Outcomes /\ None \notin Reserving
    /\ None \notin Serving

\* The loop's state (run.go): its place, the requests and their answers, one
\* waiter, the results of the producers it started, the one it applies, and
\* what it published.
TypeOK ==
    /\ pc \in {"recover", "stage", "reserve", "apply", "applied", "bootRecover",
               "announce", "notify", "select", "stop", "stopped"}
    /\ booting \in BOOLEAN /\ cancelled \in BOOLEAN /\ ready \in BOOLEAN
    /\ eng \in Writer /\ disk \in OptRev /\ tx \in OptRev /\ committed \subseteq Built
    /\ req \in [Req -> Request] /\ waiter \in Waiter \cup {None}
    /\ producers \subseteq Candidate /\ results \subseteq Result
    /\ \A p \in producers : p.st = "resolve" => p.rev \in Built
    /\ \A s \in results : ~s.err => s.rev \in Built
    /\ pc \in {"reserve", "apply", "applied", "bootRecover"} => cur \in Work
    /\ pc \in {"applied", "bootRecover"} => cur.out # None
    /\ pub \in Publication /\ src \in Sources
    /\ recovery \in {"none", "armed", "idle"} /\ open \subseteq Handles

Init ==
    /\ faults = 0
    /\ pc = "recover" /\ booting = TRUE /\ cancelled = FALSE /\ ready = FALSE
    /\ eng = [admitted |-> 0, activeEpoch |-> 0, refreshSequence |-> 0,
              healthy |-> FALSE, enforced |-> TRUE]
    /\ disk \in Recovered
    /\ tx = None /\ committed = {disk} \ {None}
    /\ req = [r \in Req |-> [st |-> "new", expected |-> None, expired |-> FALSE,
                             epoch |-> 0, box |-> None, got |-> None]]
    /\ waiter = None /\ producers = {} /\ results = {} /\ cur = None
    /\ pub = [reservation |-> None, listener |-> None, telemetry |-> FALSE,
              healthy |-> TRUE]
    /\ src = [active |-> None, session |-> None, reloadEpoch |-> 0,
              refreshing |-> None, timer |-> FALSE]
    /\ recovery = "none" /\ open = {}

----------------------------------------------------------------------------
(* The writer's admission metadata (engine.go).                            *)

Healthy == eng.healthy /\ eng.enforced

\* Mutant: a reload is never stale.
ReloadAlwaysCurrent(rev) ==
    rev.refresh # 0 => rev.epoch = eng.activeEpoch /\ rev.refresh = eng.refreshSequence

Current(rev) ==
    IF rev.refresh # 0
    THEN rev.epoch = eng.activeEpoch /\ rev.refresh = eng.refreshSequence
    ELSE rev.epoch = eng.admitted

\* adoptActiveEpochLocked, on the writer's record e.
Adopt(e, rev) ==
    IF rev = None THEN [e EXCEPT !.activeEpoch = 0, !.refreshSequence = 0]
    ELSE [e EXCEPT
            !.refreshSequence = IF rev.epoch # e.activeEpoch \/ rev.refresh > @
                                THEN rev.refresh ELSE @,
            !.activeEpoch = rev.epoch,
            !.admitted = IF rev.epoch > @ THEN rev.epoch ELSE @]

----------------------------------------------------------------------------
(* The source runtime (source.go).                                         *)

\* The producers after the context of candidate rev is cancelled.
CancelStaging(P, epoch, refresh) ==
    {IF p.rev.epoch = epoch /\ p.rev.refresh = refresh
     THEN [p EXCEPT !.cancelled = TRUE] ELSE p : p \in P}

CancelRefresh(P) ==
    IF src.refreshing = None THEN P
    ELSE CancelStaging(P, src.refreshing.epoch, src.refreshing.refresh)

\* A nil session keeps the one of the same revision.
NextSession(rev, session) ==
    IF session = None /\ rev # None /\ src.active = rev THEN src.session ELSE session

SameEpoch(rev) == src.active # None /\ rev # None /\ src.active.epoch = rev.epoch

\* selectRevision once the snapshot is loaded; it arms the refresh timer.
SelectRevision(rev, session) ==
    /\ src' = [src EXCEPT
                 !.active = rev, !.session = NextSession(rev, session),
                 !.refreshing = IF SameEpoch(rev) THEN @ ELSE None,
                 !.timer = rev # None]
    /\ producers' = IF SameEpoch(rev) THEN producers ELSE CancelRefresh(producers)

\* Mutant: the session that is replaced is not closed.
ReplacedSessionKept(rev, session) == {}

ReplacedSession(rev, session) == {src.session} \ {None, NextSession(rev, session)}

----------------------------------------------------------------------------
(* The runtime publication (publication.go).                               *)

Recovering == recovery # "none"
Pending    == pub.reservation # None /\ pub.reservation.pending

ReservationHandles(r) ==
    IF r = None THEN {}
    ELSE (IF r.session THEN {Reserved(r.rev)} ELSE {})
         \cup (IF r.bound THEN {Listener(r.rev)} ELSE {})

\* reserve: a listener is bound only when the address changes; the session is
\* retained a second time, because the apply consumes the staging handle.
Reservation(res) ==
    LET replace == pub.listener = None \/ pub.listener.addr # Listen[res.rev.cfg]
    IN  [rev |-> res.rev, pending |-> FALSE, session |-> res.session,
         replace |-> replace, bound |-> replace /\ Listen[res.rev.cfg] # None]

Reserve(res) ==
    LET r == Reservation(res)
    IN  /\ pub' = [pub EXCEPT !.reservation = r,
                              !.telemetry = @ \/ (pub.listener = None /\ r.bound)]
        /\ open' = open \cup ReservationHandles(r)

\* discard, and recover for another revision: without an active listener the
\* counter telemetry goes with the reservation.
Unreserved(p) == [p EXCEPT !.reservation = None, !.telemetry = @ /\ p.listener # None]

\* publishReservation: the source runtime takes the session over, the staged
\* listener serves and the old one is retired.
Publish(rev, r, retired) ==
    LET session == IF r.session THEN Reserved(r.rev) ELSE None
        listener == IF r.bound THEN [addr |-> Listen[r.rev.cfg], handle |-> Listener(r.rev)]
                               ELSE None
        old == IF r.replace THEN {pub.listener} \ {None} ELSE {}
    IN  /\ SelectRevision(rev, session)
        /\ pub' = IF ~r.replace THEN [pub EXCEPT !.reservation = None]
                  ELSE [reservation |-> None, listener |-> listener,
                        telemetry |-> pub.telemetry /\ listener # None, healthy |-> retired]
        /\ open' = open \ (ReplacedSession(rev, session) \cup {l.handle : l \in old})

\* The old listener may fail to retire in time, which costs the runtime health.
PublishOk(rev, r) ==
    \/ Publish(rev, r, TRUE) /\ NoFault
    \/ r.replace /\ pub.listener # None /\ Publish(rev, r, FALSE) /\ Fault

\* The committed snapshot cannot be loaded: the reservation is closed.
PublishFails(r) ==
    /\ Fault
    /\ pub' = Unreserved(pub) /\ open' = open \ ReservationHandles(r)
    /\ UNCHANGED <<src, producers>>

----------------------------------------------------------------------------
(* Answers.                                                                *)

Ans(outcome, rev, cfg) == [outcome |-> outcome, rev |-> rev, cfg |-> cfg]

Owed(res) ==
    res.rev.refresh = 0 /\ waiter # None /\ waiter.epoch = res.rev.epoch

\* finish, for a result res of a reload.
FinishReload(res, outcome, rev) ==
    IF Owed(res)
    THEN /\ req' = [req EXCEPT ![waiter.req].box = Ans(outcome, rev, res.rev.cfg)]
         /\ waiter' = None
    ELSE UNCHANGED <<req, waiter>>

\* control.validateResult: what is not consistent is reported as unknown.
Validated(a, expected) ==
    IF \/ a.outcome = "applied" /\ (a.rev = None \/ a.cfg = None
                                    \/ (expected # None /\ expected # a.cfg))
       \/ a.outcome = "degraded" /\ a.rev = None
    THEN Ans("unknown", None, None) ELSE a

Return(r, a) ==
    req' = [req EXCEPT ![r].st = "returned", ![r].got = Validated(a, req[r].expected)]

----------------------------------------------------------------------------
(* Reload handlers (reload.go, control/reload.go).                         *)

Waiting == {r \in Req : req[r].st \in {"offered", "accepted"}}

\* A request arrives: it is refused before readiness, after the run context is
\* done and when every slot is taken; otherwise it is offered to the loop.
Submit(r) ==
    /\ req[r].st = "new" /\ pc \notin {"recover", "stopped"}
    /\ IF cancelled \/ ~ready \/ Cardinality(Waiting) >= ReloadSlots
       THEN Return(r, Ans("rejected", None, None))
       ELSE \E d \in Expect :
               req' = [req EXCEPT ![r].st = "offered", ![r].expected = d]
    /\ UNCHANGED <<faults, loopVars, writerVars, workVars, heldVars>>

\* The handler returns the answer in its box, or gives up on its own deadline;
\* when the run context is done it still prefers the box.
HandlerReturns(r) ==
    /\ r \in Waiting
    /\ \/ req[r].box # None /\ Return(r, req[r].box)
       \/ /\ req[r].expired \/ (cancelled /\ req[r].box = None)
          /\ Return(r, Ans("unknown", None, None))
    /\ UNCHANGED <<faults, loopVars, writerVars, workVars, heldVars>>

\* The request's deadline passes; context.AfterFunc cancels its staging.
Expire(r) ==
    /\ r \in Waiting /\ ~req[r].expired
    /\ req' = [req EXCEPT ![r].expired = TRUE]
    /\ producers' = IF req[r].epoch = 0 THEN producers
                    ELSE CancelStaging(producers, req[r].epoch, 0)
    /\ UNCHANGED <<faults, loopVars, writerVars, results, pub, src, open>>

----------------------------------------------------------------------------
(* Staging goroutines (stageCandidate, stageSource).                       *)

Deliver(p, rev, err) ==
    /\ producers' = producers \ {p}
    /\ results' = results \cup {[rev |-> rev, err |-> err, session |-> p.session]}
    /\ UNCHANGED open

\* The file, which may have changed, is read once and its digest compared;
\* parsing, validation and the credentials may fail, and a cancelled context
\* fails the session.
ReadConfig(p) ==
    \E file \in Digest :
    LET read == [p EXCEPT !.rev.cfg = file]
        mismatch == p.expected \notin {None, file}
    IN  /\ p.st = "read"
        /\ \/ (mismatch \/ p.cancelled) /\ NoFault /\ Deliver(p, read.rev, TRUE)
           \/ Fault /\ (Deliver(p, p.rev, TRUE) \/ Deliver(p, read.rev, TRUE))
           \/ /\ ~mismatch /\ ~p.cancelled
              /\ producers' = (producers \ {p})
                              \cup {[read EXCEPT !.st = "resolve", !.session = TRUE]}
              /\ open' = open \cup {Staged(p.rev)}
              /\ NoFault /\ UNCHANGED results
        /\ UNCHANGED <<loopVars, writerVars, req, pub, src>>

\* Sources are resolved and the candidate compiled.
Resolve(p) ==
    /\ p.st = "resolve"
    /\ \/ NoFault /\ Deliver(p, p.rev, p.cancelled)
       \/ Fault /\ ~p.cancelled /\ Deliver(p, p.rev, TRUE)
    /\ UNCHANGED <<loopVars, writerVars, req, pub, src>>

\* Once the run context is done the producer may release its result instead.
DropResult(p) ==
    /\ cancelled /\ producers' = producers \ {p} /\ open' = open \ {Staged(p.rev)}
    /\ UNCHANGED <<faults, loopVars, writerVars, req, results, pub, src>>

----------------------------------------------------------------------------
(* Admission.                                                              *)

Refuse(r) ==
    /\ req' = IF r = None THEN req
              ELSE [req EXCEPT ![r].st = "accepted", ![r].box = Ans("rejected", None, None)]
    /\ UNCHANGED <<eng, waiter, producers, src>>

\* Mutant: a superseded request is forgotten.
WaiterForgotten == req

\* A waiting request is superseded: it is answered before it is replaced.
WaiterRejected ==
    IF waiter = None THEN req
    ELSE [req EXCEPT ![waiter.req].box = Ans("rejected", None, None)]

Admit(r) ==
    LET e == eng.admitted + 1
        expected == IF r = None THEN None ELSE req[r].expected
    IN  /\ eng' = [eng EXCEPT !.admitted = e]
        /\ waiter' = IF r = None THEN None ELSE [req |-> r, epoch |-> e]
        /\ req' = IF r = None THEN WaiterRejected
                  ELSE [WaiterRejected EXCEPT ![r].st = "accepted", ![r].epoch = e]
        /\ producers' = CancelStaging(producers, src.reloadEpoch, 0) \cup
                {[rev |-> [epoch |-> e, refresh |-> 0, cfg |-> None], st |-> "read",
                  expected |-> expected, cancelled |-> FALSE, session |-> FALSE]}
        /\ src' = [src EXCEPT !.reloadEpoch = e]

Refused(r) ==
    \/ cancelled \/ Recovering \/ Pending \/ ~Healthy \/ eng.admitted = MaxEpoch
    \/ r # None /\ req[r].expired

\* admitReload, for a handler's request or (r = None) for SIGHUP.
AdmitReload(r) ==
    /\ pc = "select"
    /\ IF Refused(r) THEN Refuse(r) ELSE Admit(r)
    /\ UNCHANGED <<faults, pc, runVars, cur, recovery, disk, tx, committed, results, pub, open>>

Accept(r) == req[r].st = "offered" /\ AdmitReload(r)
Hangup    == AdmitReload(None)

\* The refresh timer.  A refresh in flight, or a recovery, leaves the timer
\* off; when nothing is due, or the writer admits nothing, it is armed again.
SourceTimer ==
    /\ pc = "select" /\ src.timer
    /\ IF Recovering \/ src.refreshing # None
       THEN src' = [src EXCEPT !.timer = FALSE] /\ UNCHANGED <<eng, producers, open>>
       ELSE LET seq == eng.refreshSequence + 1
                rev == [src.active EXCEPT !.refresh = seq]
            IN  /\ Healthy /\ src.active.epoch = eng.activeEpoch /\ seq <= MaxRefresh
                /\ eng' = [eng EXCEPT !.refreshSequence = seq]
                /\ producers' = producers \cup
                        {[rev |-> rev, st |-> "resolve", expected |-> None,
                          cancelled |-> FALSE, session |-> src.session # None]}
                /\ open' = IF src.session = None THEN open ELSE open \cup {Staged(rev)}
                /\ src' = [src EXCEPT !.timer = FALSE,
                                      !.refreshing = [epoch |-> rev.epoch, refresh |-> seq]]
    /\ UNCHANGED <<faults, loopVars, disk, tx, committed, req, results, pub>>

----------------------------------------------------------------------------
(* A staged result reaches the loop.                                       *)

\* The refresh result res is taken for the one in flight: the comparison is by
\* sequence, which starts again with every active epoch.
EndsRefresh(res) ==
    /\ res.rev.refresh # 0 /\ src.refreshing # None
    /\ res.rev.refresh = src.refreshing.refresh

TimerAfter(res) == src.timer \/ EndsRefresh(res)

\* The tracking of the work in flight, reset before the result is judged.
ResetTracking(res) ==
    /\ src' = [src EXCEPT
                 !.reloadEpoch = IF res.rev.refresh = 0 /\ res.rev.epoch = @ THEN 0 ELSE @,
                 !.refreshing = IF EndsRefresh(res) THEN None ELSE @,
                 !.timer = TimerAfter(res)]
    /\ producers' = IF EndsRefresh(res) THEN CancelRefresh(producers) ELSE producers

Expired(res) ==
    /\ res.rev.refresh = 0 /\ waiter # None /\ waiter.epoch = res.rev.epoch
    /\ req[waiter.req].expired

Unusable(res) == ~Current(res.rev) \/ res.err \/ Recovering \/ Pending

\* Stale, failed and inopportune results are answered and release what they
\* staged; then the metrics listener must bind and the caller still wait.
RejectResult(res) ==
    /\ \/ Unusable(res) /\ NoFault /\ UNCHANGED pub
       \/ ~Unusable(res) /\ Expired(res) /\ NoFault /\ pub' = Unreserved(pub)
       \/ ~Unusable(res) /\ Reservation(res).bound /\ Fault /\ UNCHANGED pub
    /\ FinishReload(res, "rejected", None)
    /\ open' = open \ {Staged(res.rev)}
    /\ UNCHANGED <<pc, cur>>

AcceptResult(res) ==
    /\ ~Unusable(res) /\ ~Expired(res)
    /\ Reserve(res)
    /\ cur' = [rev |-> res.rev, session |-> res.session, out |-> None]
    /\ pc' = "apply"
    /\ NoFault /\ UNCHANGED <<req, waiter>>

HandleResult(res) ==
    /\ pc = "select"
    /\ results' = results \ {res}
    /\ ResetTracking(res)
    /\ RejectResult(res) \/ AcceptResult(res)
    /\ UNCHANGED <<runVars, recovery, writerVars>>

----------------------------------------------------------------------------
(* The writer, by the outcomes of its transaction (engine.go apply).       *)

Outcome(didCommit, degraded, inDoubt, err) ==
    cur' = [cur EXCEPT !.out = [committed |-> didCommit, degraded |-> degraded,
                                tx |-> inDoubt, err |-> err]]

\* apply: refused while degraded or cancelled; rolled back; failed without a
\* transaction; in doubt; committed, completely or not.  The staging handle is
\* closed in every case.
Apply ==
    /\ pc = "apply" /\ pc' = "applied"
    /\ open' = open \ {Staged(cur.rev)}
    /\ \/ /\ ~Healthy /\ NoFault /\ Outcome(FALSE, TRUE, FALSE, TRUE)
          /\ UNCHANGED writerVars
       \/ /\ Healthy /\ (Fault \/ ((cancelled \/ ~Current(cur.rev)) /\ NoFault))
          /\ Outcome(FALSE, FALSE, FALSE, TRUE)
          /\ UNCHANGED writerVars
       \/ /\ Healthy /\ Current(cur.rev) /\ Fault
          /\ \/ Outcome(FALSE, TRUE, FALSE, TRUE) /\ UNCHANGED tx
             \/ Outcome(FALSE, TRUE, TRUE, TRUE) /\ tx' = cur.rev
          /\ eng' = [eng EXCEPT !.healthy = FALSE]
          /\ UNCHANGED <<disk, committed>>
       \/ /\ Healthy /\ Current(cur.rev) /\ ~cancelled
          /\ disk' = cur.rev /\ committed' = committed \cup {cur.rev} /\ UNCHANGED tx
          /\ \/ NoFault /\ Outcome(TRUE, FALSE, FALSE, FALSE) /\ eng' = Adopt(eng, cur.rev)
             \/ Fault /\ Outcome(TRUE, FALSE, FALSE, TRUE) /\ eng' = Adopt(eng, cur.rev)
             \/ /\ Fault /\ Outcome(TRUE, TRUE, TRUE, TRUE)
                /\ eng' = [Adopt(eng, cur.rev) EXCEPT !.healthy = FALSE]
    /\ UNCHANGED <<runVars, waiter, recovery, req, workVars, pub, src>>

\* Recover: the writer settles on its active revision or on the candidate in
\* doubt; the CrowdSec projection may come back with it.
RecoverWriter(healthy) ==
    /\ disk' \in {disk} \cup ({tx} \ {None}) /\ tx' = None
    /\ committed' = committed \cup ({disk'} \ {None})
    /\ \E enforced \in {eng.enforced, TRUE} :
          eng' = [Adopt(eng, disk') EXCEPT !.healthy = healthy, !.enforced = enforced]

\* An attempt that fails, before the writer is settled or after it.
RecoverFails ==
    \/ eng' = [eng EXCEPT !.healthy = FALSE] /\ UNCHANGED <<disk, tx, committed>>
    \/ RecoverWriter(FALSE)

ScheduleRecovery == recovery' = IF Recovering THEN recovery ELSE "armed"

----------------------------------------------------------------------------
(* What the loop does with the outcome.                                    *)

\* Mutant: an apply in doubt is reported as rejected.
FailureAlwaysRejected == "rejected"

FailureOutcome == IF cur.out.degraded THEN "unknown" ELSE "rejected"

\* The reservation waits for the recovery of a candidate in doubt, and is
\* discarded otherwise.
NotCommitted ==
    /\ ~cur.out.committed
    /\ FinishReload(cur, FailureOutcome, None)
    /\ pub' = IF cur.out.degraded /\ cur.out.tx
              THEN [pub EXCEPT !.reservation.pending = TRUE] ELSE Unreserved(pub)
    /\ open' = IF cur.out.degraded /\ cur.out.tx THEN open
               ELSE open \ ReservationHandles(pub.reservation)
    /\ IF (cur.out.degraded /\ cur.out.tx) \/ ~Healthy THEN ScheduleRecovery
       ELSE UNCHANGED recovery
    /\ pc' = "select" /\ NoFault /\ UNCHANGED <<src, producers>>

\* The committed revision is published; only a completely healthy runtime
\* answers "applied".
Committed ==
    /\ cur.out.committed
    /\ \/ /\ PublishFails(pub.reservation)
          /\ FinishReload(cur, "degraded", cur.rev)
          /\ pc' = "stop" /\ UNCHANGED recovery
       \/ /\ PublishOk(cur.rev, pub.reservation)
          /\ FinishReload(cur, IF ~cur.out.err /\ Healthy /\ pub'.healthy /\ ~Recovering
                               THEN "applied" ELSE "degraded", cur.rev)
          /\ IF cur.out.degraded \/ ~Healthy THEN ScheduleRecovery ELSE UNCHANGED recovery
          /\ pc' = "select"

Applied ==
    /\ pc = "applied" /\ ~booting /\ cur' = None
    /\ NotCommitted \/ Committed
    /\ UNCHANGED <<runVars, writerVars, results>>

----------------------------------------------------------------------------
(* Recovery.                                                               *)

SelectOnly(rev) ==
    /\ SelectRevision(rev, None)
    /\ pub' = IF pub.reservation = None THEN pub ELSE Unreserved(pub)
    /\ open' = open \ (ReservationHandles(pub.reservation) \cup ReplacedSession(rev, None))
    /\ NoFault

\* Mutant: whatever the recovery settles on takes the reservation over.
PublicationRecoverAny(rev) ==
    IF pub.reservation = None THEN SelectOnly(rev) ELSE PublishOk(rev, pub.reservation)

\* publication.recover: the reservation is published only if the recovery
\* settled on the revision it was retained for.
PublicationRecover(rev) ==
    IF Pending /\ rev = pub.reservation.rev
    THEN PublishOk(rev, pub.reservation) ELSE SelectOnly(rev)

Rearmed == IF cancelled THEN "idle" ELSE "armed"

\* The recovery timer of the loop: a retryable failure arms it again, any other
\* ends the daemon.
RecoveryTimer ==
    /\ pc = "select" /\ recovery = "armed"
    /\ \/ /\ (Fault \/ (cancelled /\ NoFault)) /\ RecoverFails
          /\ \/ pc' = "stop" /\ UNCHANGED recovery
             \/ pc' = pc /\ recovery' = Rearmed
          /\ UNCHANGED <<pub, src, producers, open>>
       \/ /\ RecoverWriter(TRUE)
          /\ \/ PublicationRecover(disk') /\ pc' = pc /\ recovery' = "none"
             \/ PublishFails(pub.reservation) /\ pc' = "stop" /\ UNCHANGED recovery
    /\ UNCHANGED <<runVars, waiter, cur, req, results>>

----------------------------------------------------------------------------
(* Startup, sequential in Run before the loop.                             *)

\* recoverUntilReady, then the recovered revision becomes the active source.
BootRecover ==
    /\ pc = "recover"
    /\ \/ /\ Fault /\ RecoverFails /\ pc' \in {"recover", "stop"}
          /\ UNCHANGED <<src, producers>>
       \/ /\ RecoverWriter(TRUE) /\ SelectRevision(disk', None)
          /\ pc' = "stage" /\ NoFault
    /\ UNCHANGED <<loopRest, req, results, pub, open>>

\* Admission, configuration, credentials and sources of the first candidate.
BootStage ==
    LET e == eng.admitted + 1
    IN  /\ pc = "stage"
        /\ \/ /\ Healthy /\ e <= MaxEpoch /\ NoFault
              /\ \E file \in Digest : LET rev == [epoch |-> e, refresh |-> 0, cfg |-> file] IN
                    /\ cur' = [rev |-> rev, session |-> TRUE, out |-> None]
                    /\ open' = open \cup {Staged(rev)}
              /\ eng' = [eng EXCEPT !.admitted = e] /\ pc' = "reserve"
           \/ /\ (~Healthy /\ NoFault) \/ Fault
              /\ pc' = "stop" /\ UNCHANGED <<cur, open, eng>>
        /\ UNCHANGED <<runVars, waiter, recovery, disk, tx, committed, req, workVars, pub, src>>

BootReserve ==
    /\ pc = "reserve"
    /\ \/ Reserve(cur) /\ NoFault /\ pc' = "apply"
       \/ /\ Reservation(cur).bound /\ Fault
          /\ pc' = "stop" /\ open' = open \ {Staged(cur.rev)} /\ UNCHANGED pub
    /\ UNCHANGED <<loopRest, writerVars, req, producers, results, src>>

BootDiscard ==
    /\ pub' = Unreserved(pub) /\ open' = open \ ReservationHandles(pub.reservation)
    /\ pc' = "stop" /\ UNCHANGED <<src, producers>>

BootApplied ==
    /\ pc = "applied" /\ booting
    /\ IF cur.out.degraded
       THEN /\ pub' = [pub EXCEPT !.reservation.pending = cur.out.tx]
            /\ pc' = "bootRecover" /\ NoFault /\ UNCHANGED <<src, producers, open>>
       ELSE IF ~cur.out.committed THEN BootDiscard /\ NoFault
       ELSE \/ PublishOk(cur.rev, pub.reservation) /\ pc' = "announce"
            \/ PublishFails(pub.reservation) /\ pc' = "stop"
    /\ UNCHANGED <<loopRest, writerVars, req, results>>

\* Only the revision this startup tried may come out of the recovery.
BootRecoverDegraded ==
    /\ pc = "bootRecover"
    /\ \/ Fault /\ RecoverFails /\ pc' = pc /\ UNCHANGED <<pub, open, src, producers>>
       \/ (Fault \/ (cancelled /\ NoFault)) /\ RecoverFails /\ BootDiscard
       \/ /\ RecoverWriter(TRUE)
          /\ IF ~cur.out.tx \/ disk' # cur.rev THEN BootDiscard /\ NoFault
             ELSE \/ PublicationRecover(disk') /\ pc' = "announce"
                  \/ PublishFails(pub.reservation) /\ pc' = "stop"
    /\ UNCHANGED <<loopRest, req, results>>

\* notifyReady accepts requests before systemd is told.
BootAnnounce ==
    /\ pc = "announce" /\ ~cancelled
    /\ ready' = TRUE /\ pc' = "notify" /\ cur' = None
    /\ UNCHANGED <<faults, booting, cancelled, waiter, recovery, writerVars, req, workVars, heldVars>>

BootNotify ==
    /\ pc = "notify"
    /\ \/ NoFault /\ pc' = "select" /\ booting' = FALSE /\ UNCHANGED ready
       \/ Fault /\ pc' = "stop" /\ ready' = FALSE /\ UNCHANGED booting
    /\ UNCHANGED <<cancelled, waiter, cur, recovery, writerVars, req, workVars, heldVars>>

\* The startup context is checked between the steps.
BootCancelled ==
    /\ cancelled /\ pc \in {"recover", "stage", "reserve", "announce"} /\ pc' = "stop"
    /\ open' = IF pc = "reserve" THEN open \ {Staged(cur.rev)} ELSE open
    /\ UNCHANGED <<faults, loopRest, writerVars, req, workVars, pub, src>>

----------------------------------------------------------------------------
(* The end of the daemon, and what happens around it.                      *)

\* The select sees the run context done, or SIGTERM.
SeeCancel ==
    /\ pc = "select" /\ cancelled /\ pc' = "stop"
    /\ UNCHANGED <<faults, loopRest, writerVars, req, workVars, heldVars>>

\* Handles of the owners that are alive.
StagedOf(S) == {Staged(s.rev) : s \in {t \in S : t.session}}
SourceHandles == {src.session} \ {None}
ListenerHandles == {l.handle : l \in {pub.listener} \ {None}}

\* stopService, and the deferred calls of Run: the waiting request is answered,
\* the producers are cancelled and awaited, their results drained, the session,
\* the reservation and the listener closed.
StopService ==
    /\ pc = "stop" /\ pc' = "stopped"
    /\ ready' = FALSE /\ cancelled' = TRUE
    /\ req' = WaiterRejected /\ waiter' = None
    /\ producers' = {} /\ results' = {}
    /\ src' = [src EXCEPT !.session = None, !.timer = FALSE, !.reloadEpoch = 0,
                          !.refreshing = None]
    /\ pub' = [pub EXCEPT !.reservation = None, !.listener = None, !.telemetry = FALSE]
    /\ open' = open \ (StagedOf(producers) \cup StagedOf(results) \cup SourceHandles
                        \cup ListenerHandles \cup ReservationHandles(pub.reservation))
    /\ cur' = None /\ recovery' = "none"
    /\ UNCHANGED <<faults, booting, writerVars>>

\* SIGTERM, SIGINT or a failed control listener cancel the run context.
Cancel ==
    /\ ~cancelled /\ pc # "stopped" /\ cancelled' = TRUE
    /\ producers' = {[p EXCEPT !.cancelled = TRUE] : p \in producers}
    /\ UNCHANGED <<faults, pc, booting, ready, waiter, cur, recovery, writerVars, req, results, pub, src, open>>

MetricsFails ==
    /\ pc = "select" /\ pub.listener # None /\ Fault
    /\ pub' = [pub EXCEPT !.healthy = FALSE] /\ pc' = "stop"
    /\ UNCHANGED <<loopRest, writerVars, req, producers, results, src, open>>

\* The CrowdSec loop loses or restores the enforcement of its projection.
CrowdSec ==
    /\ pc # "stopped"
    /\ \/ eng.enforced /\ Fault
       \/ ~eng.enforced /\ NoFault
    /\ eng' = [eng EXCEPT !.enforced = ~@]
    /\ UNCHANGED <<loopVars, disk, tx, committed, req, workVars, heldVars>>

Terminated == pc = "stopped" /\ Waiting = {} /\ UNCHANGED vars

Boot == \/ BootRecover \/ BootStage \/ BootReserve \/ BootApplied
        \/ BootRecoverDegraded \/ BootAnnounce \/ BootNotify \/ BootCancelled

Loop == \/ \E r \in Req : Accept(r)
        \/ SourceTimer
        \/ \E res \in results : HandleResult(res)
        \/ Apply
        \/ Applied
        \/ RecoveryTimer
        \/ SeeCancel
        \/ StopService

Producer == \E p \in producers : ReadConfig(p) \/ Resolve(p) \/ DropResult(p)

Handlers == \E r \in Req : HandlerReturns(r)

Next == \/ Boot \/ Loop \/ Producer \/ Handlers
        \/ \E r \in Req : Submit(r) \/ Expire(r)
        \/ Hangup
        \/ Cancel
        \/ MetricsFails
        \/ CrowdSec
        \/ Terminated

Spec == Init /\ [][Next]_vars

\* Every goroutine that has something to do eventually does it.
Fairness == WF_vars(Boot) /\ WF_vars(Loop) /\ WF_vars(Producer) /\ WF_vars(Handlers)

FairSpec == Spec /\ Fairness

----------------------------------------------------------------------------
(* Properties.                                                             *)

Answers(r) == {req[r].box, req[r].got} \ {None}

\* A reload answer is true (run.go, control/reload.go): "applied" and "degraded"
\* name a committed revision of this very request, "applied" one with the digest
\* the caller expects, and a "rejected" request is never committed, neither then
\* nor by a later recovery.
TruthfulAnswers ==
    \A r \in Req : \A a \in Answers(r) :
        /\ a.outcome \in {"applied", "degraded"} =>
              a.rev \in committed /\ a.rev.epoch = req[r].epoch /\ a.rev.refresh = 0
        /\ a.outcome = "applied" =>
              a.cfg = a.rev.cfg /\ req[r].expected \in {None, a.cfg}
        /\ a.outcome = "rejected" =>
              \A c \in committed : c.epoch = req[r].epoch => req[r].epoch = 0

Newer(a, b) == a.epoch > b.epoch \/ (a.epoch = b.epoch /\ a.refresh > b.refresh)

\* The active revision only moves forward, and a superseded candidate never
\* becomes active (engine.go current): a reload that does is the newest admitted
\* one even if only a recovery settles it, a refresh belongs to the active epoch.
NoStaleCommit ==
    [][disk' # disk =>
         /\ disk' # None /\ (disk # None => Newer(disk', disk))
         /\ IF disk'.refresh = 0 THEN disk'.epoch = eng.admitted
                                 ELSE disk'.epoch = eng.activeEpoch]_vars

\* Whenever the loop waits and nothing is being recovered, what is published is
\* what is active (publication.go, source.go): the revision the sources follow,
\* the upstream session captured for its epoch, and its metrics address.
PublishedIsActive ==
    pc = "select" /\ ~Recovering =>
        /\ pub.reservation = None
        /\ src.active = disk /\ eng.activeEpoch = disk.epoch
        /\ src.session # None => src.session[2] = disk.epoch
        /\ Listen[disk.cfg] = IF pub.listener = None THEN None ELSE pub.listener.addr

Owned ==
    StagedOf(producers) \cup StagedOf(results) \cup SourceHandles \cup ListenerHandles
    \cup ReservationHandles(pub.reservation)
    \cup (IF pc \in {"reserve", "apply"} THEN StagedOf({cur}) ELSE {})

\* What is open is what somebody owns (run.go, publication.go,
\* staged_candidate.go): no session or listener leaks on any path, none is
\* closed under its owner, and none is open once the daemon has stopped.
HandlesOwned == open = Owned

\* A result that is not of the active epoch only releases what it staged
\* (run.go 466-507): it does not touch the refresh of the active configuration.
StaleResultInert ==
    [][\A res \in results : HandleResult(res) /\ res.rev.refresh # 0
          /\ res.rev.epoch # eng.activeEpoch
          => src'.refreshing = src.refreshing /\ producers' = producers]_vars

\* Every request that reached the handler gets its answer, whatever is
\* superseded, recovered or stopped meanwhile (reload.go handle).
RequestsAnswered == \A r \in Req : r \in Waiting ~> req[r].st = "returned"

=============================================================================
