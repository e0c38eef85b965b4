-------------------------- MODULE CoordinatorSteps --------------------------
(***************************************************************************)
(* The inductive invariant of the event loop (module Coordinator), and the *)
(* steps that keep it by leaving the writer's choice and what is published *)
(* alone: the handlers, the staging goroutines, cancellation, the end of   *)
(* the loop, admission and refreshes.  CoordinatorProofs has the others    *)
(* and the theorems.  The invariant relates what is in flight, what is     *)
(* committed or in doubt, what callers were told and what is published:    *)
(*                                                                         *)
(*   - candidates in flight have one holder, and could still be applied;   *)
(*   - a rejected reload is committed by nothing, and is superseded or no  *)
(*     longer in flight, so that it stays rejected;                        *)
(*   - the candidate in doubt is the newest one, is reserved for, and is   *)
(*     what a recovery settles on unless it settles on what is shown.      *)
(*                                                                         *)
(* For every action there is a lemma, or a step of one, named after it. It *)
(* shows that the action keeps the invariant and that the active revision  *)
(* advances.                                                               *)
(***************************************************************************)
EXTENDS Coordinator, TLAPS

----------------------------------------------------------------------------
(* The inductive invariant.                                                *)

\* Two candidates with the same identity: the admission epoch and the refresh
\* sequence (engine.go current).
SameId(a, b) == a.epoch = b.epoch /\ a.refresh = b.refresh

\* What is committed, or may turn out to be: the candidate in doubt included.
Taken == committed \cup ({tx} \ {None})

\* The writer's choice is the newest of what was ever committed.
Past ==
    IF disk = None THEN committed = {}
    ELSE disk \in committed /\ \A c \in committed : c = disk \/ Newer(disk, c)

\* The writer's epochs are those of its choice d, once the first recovery is done.
Chosen(e, d) ==
    IF d = None THEN e.activeEpoch = 0 /\ e.refreshSequence = 0
    ELSE e.activeEpoch = d.epoch /\ d.refresh <= e.refreshSequence

\* The writer never admitted less than it has active, and outside startup's first
\* recovery its epochs are those of its durable choice (adoptActiveEpochLocked).
Adopted ==
    /\ eng.activeEpoch <= eng.admitted
    /\ pc \notin {"recover", "stop", "stopped"} => Chosen(eng, disk)

\* The admission rule for a revision that may become active.
Newest(rev) == IF rev.refresh = 0 THEN rev.epoch = eng.admitted ELSE rev.epoch = eng.activeEpoch

\* A candidate in doubt was admissible, and nothing is admitted until it is settled.
Doubted ==
    tx # None =>
        /\ ~eng.healthy /\ Newest(tx) /\ (disk # None => Newer(tx, disk))
        /\ pc \in {"applied", "bootRecover", "select", "stop", "stopped"}

\* The loop holds a candidate it reserved for, applies or has just applied.
Held == pc \in {"reserve", "apply", "applied"}

\* Every candidate has one holder: one producer, or one result in the channel, or
\* the loop (stageCandidate hands it over exactly once).
Apart ==
    /\ \A p, q \in producers : SameId(p.rev, q.rev) => p = q
    /\ \A r, s \in results : SameId(r.rev, s.rev) => r = s
    /\ \A p \in producers, r \in results : ~SameId(p.rev, r.rev)
    /\ Held => /\ \A p \in producers : ~SameId(p.rev, cur.rev)
               /\ \A r \in results : ~SameId(r.rev, cur.rev)

\* The loop holds a candidate that is not applied yet.
InHand == pc \in {"reserve", "apply"}

\* The candidate of epoch e and refresh f is in flight and not applied yet.
Cand(e, f) ==
    \/ \E p \in producers : p.rev.epoch = e /\ p.rev.refresh = f
    \/ \E s \in results : s.rev.epoch = e /\ s.rev.refresh = f
    \/ InHand /\ cur.rev.epoch = e /\ cur.rev.refresh = f

\* The candidate of epoch e and refresh f is admitted, and nothing that is committed
\* or in doubt has its place: a reload's epoch is new, a refresh's sequence is.
Fresh(e, f) ==
    /\ e <= eng.admitted
    /\ IF f = 0 THEN \A c \in Taken : c.epoch # e
       ELSE /\ e <= eng.activeEpoch
            /\ e = eng.activeEpoch => f <= eng.refreshSequence
            /\ \A c \in Taken : ~(c.epoch = e /\ c.refresh = f)

\* Whatever is in flight could still be applied: nothing of it is taken.
AllFresh == \A e \in Epoch, f \in 0..MaxRefresh : Cand(e, f) => Fresh(e, f)

\* A request is bound to an admitted epoch, and to none before it is accepted; only
\* then it can have an answer (admitReload).
Asked ==
    \A r \in Req :
        /\ req[r].epoch <= eng.admitted
        /\ req[r].st \in {"new", "offered"} =>
             req[r].box = None /\ req[r].got = None /\ req[r].epoch = 0

\* The loop is about to finish the very reload the waiter is owed an answer for.
Settling == pc = "applied" /\ cur.rev.refresh = 0 /\ cur.rev.epoch = waiter.epoch

\* The waiter is an accepted request and, until its own reload is being finished,
\* nothing of its epoch is committed or in doubt (run.go waiting).
Waited ==
    waiter # None =>
        /\ 0 < waiter.epoch /\ req[waiter.req].epoch = waiter.epoch
        /\ req[waiter.req].st \notin {"new", "offered"}
        /\ ~Settling => \A c \in Taken : c.epoch # waiter.epoch

\* The candidate x is the reload that request r caused.
Wants(x, r) == x.refresh = 0 /\ req[r].epoch # 0 /\ x.epoch = req[r].epoch

\* What is staged for a request was read with the digest that the request expects
\* (stageCandidate compares before it parses).
Matching ==
    /\ \A p \in producers : p.st = "resolve" /\ p.rev.refresh = 0 => p.expected \in {None, p.rev.cfg}
    /\ \A r \in Req :
        /\ \A p \in producers : Wants(p.rev, r) => p.expected = req[r].expected
        /\ \A s \in results : ~s.err /\ Wants(s.rev, r) => req[r].expected \in {None, s.rev.cfg}
        /\ Held /\ Wants(cur.rev, r) => req[r].expected \in {None, cur.rev.cfg}

\* The reload of epoch e is not committed and never will be.
Ruled(e) == (\A c \in Taken : c.epoch # e) /\ (e < eng.admitted \/ ~Cand(e, 0))

\* The answer a to request q is true, and stays true.
TrueAnswer(a, q) ==
    /\ a.outcome \in {"applied", "degraded"} =>
         a.rev \in committed /\ a.rev.epoch = q.epoch /\ a.rev.refresh = 0
    /\ a.outcome = "applied" => a.cfg = a.rev.cfg /\ q.expected \in {None, a.cfg}
    /\ a.outcome = "rejected" /\ q.epoch # 0 => Ruled(q.epoch)

\* All answers, in their boxes and returned ones, are true.
Honest == \A r \in Req : \A a \in Answers(r) : TrueAnswer(a, req[r])

\* What the writer's outcome says of its state (engine.go apply): a committed
\* candidate is its choice, one in doubt is the one just applied, and one that is
\* neither will never be committed.
Told ==
    /\ pc = "applied" /\ cur.out.committed => disk = cur.rev /\ tx = None
    /\ pc = "applied" /\ ~cur.out.committed /\ ~cur.out.tx =>
         tx = None /\ (cur.rev.refresh = 0 => \A c \in committed : c.epoch # cur.rev.epoch)
    /\ pc = "applied" /\ cur.out.tx => cur.out.degraded
    /\ pc \in {"applied", "bootRecover"} /\ tx # None => tx = cur.rev /\ cur.out.tx /\ ~cur.out.committed

\* A reservation fits what is published: a listener is bound exactly if the address
\* changes, and its handles are no published ones (publication.go reserve).
Fits ==
    LET r == pub.reservation
    IN  r # None =>
          /\ r.replace <=> pub.listener = None \/ pub.listener.addr # Listen[r.rev.cfg]
          /\ r.bound <=> r.replace /\ Listen[r.rev.cfg] # None
          /\ Reserved(r.rev) # src.session
          /\ pub.listener # None => Listener(r.rev) # pub.listener.handle

\* What is published belongs to committed revisions, the session to the epoch the
\* sources follow.
Kept ==
    /\ src.session # None => /\ src.active # None /\ src.session[2] = src.active.epoch
                             /\ \E c \in committed : src.session = Reserved(c)
    /\ pub.listener # None => \E c \in committed : pub.listener.handle = Listener(c)

\* Revision rev is what the sources follow, and what the metrics listener serves.
Shows(rev) ==
    /\ rev # None /\ src.active = rev
    /\ Listen[rev.cfg] = IF pub.listener = None THEN None ELSE pub.listener.addr

\* Startup is alone: before it is complete there is no reload and no recovery
\* (Run before the loop).
Booted ==
    /\ booting => recovery = "none" /\ waiter = None /\ producers = {} /\ results = {}
    /\ pc \in {"recover", "stage", "reserve", "bootRecover", "announce", "notify"} => booting
    /\ pc = "select" => ~booting
    /\ pc = "recover" => src.session = None

\* What is reserved and shown at each place of the loop: an apply keeps its
\* reservation, a candidate in doubt keeps it pending, and whatever recovery settles
\* on is shown already or reserved (publication.go recover).
Phases ==
    /\ pc \in {"recover", "stage", "reserve"} => pub.reservation = None
    /\ pc \in {"apply", "applied", "bootRecover"} =>
         pub.reservation # None /\ pub.reservation.rev = cur.rev /\ recovery = "none"
    /\ pc = "bootRecover" => pub.reservation.pending = cur.out.tx
    /\ ~booting /\ (pc = "apply" \/ (pc = "applied" /\ ~cur.out.committed)) => Shows(disk)
    /\ pc \in {"announce", "notify"} \/ (pc = "select" /\ ~Recovering) =>
         pub.reservation = None /\ Shows(disk) /\ tx = None
    /\ pc = "select" /\ Recovering =>
         \/ Shows(disk) /\ (tx # None => Pending /\ pub.reservation.rev = tx)
         \/ disk # None /\ Pending /\ pub.reservation.rev = disk /\ tx = None

\* The inductive invariant.
IInv ==
    /\ TypeOK /\ Past /\ Adopted /\ Doubted /\ Apart /\ AllFresh
    /\ Asked /\ Waited /\ Matching /\ Honest /\ Told
    /\ Fits /\ Kept /\ Booted /\ Phases /\ HandlesOwned

\* The invariant holds when the process starts.
LEMMA InitHolds ==
    ASSUME Init
    PROVE  IInv
<1>1. /\ pc = "recover" /\ booting = TRUE /\ cancelled = FALSE /\ ready = FALSE
      /\ eng = [admitted |-> 0, activeEpoch |-> 0, refreshSequence |-> 0,
                healthy |-> FALSE, enforced |-> TRUE]
      /\ disk \in Recovered /\ tx = None /\ committed = {disk} \ {None}
      /\ waiter = None /\ producers = {} /\ results = {} /\ recovery = "none" /\ open = {}
      /\ pub = [reservation |-> None, listener |-> None, telemetry |-> FALSE, healthy |-> TRUE]
      /\ src = [active |-> None, session |-> None, reloadEpoch |-> 0,
                refreshing |-> None, timer |-> FALSE]
  BY Zenon DEF Init
<1> DEFINE q == [st |-> "new", expected |-> None, expired |-> FALSE, epoch |-> 0, box |-> None, got |-> None]
<1>2. req = [r \in Req |-> q]
  BY Zenon DEF Init
<1>3. 0 \in Epoch /\ 0 \in 0..MaxRefresh /\ 0 \in Nat
  BY BoundsAssumption DEF Epoch
<1>4. eng \in Writer /\ eng.admitted = 0 /\ eng.activeEpoch = 0 /\ eng.refreshSequence = 0
  BY <1>1, <1>3, Zenon DEF Writer
<1>5. q \in Request
  BY <1>3, Zenon DEF Request
<1>6. q.st = "new" /\ q.epoch = 0 /\ q.box = None /\ q.got = None
  BY Zenon
<1> HIDE DEF q
<1>7. req \in [Req -> Request] /\ \A r \in Req : req[r] = q
  BY <1>2, <1>5, Zenon
<1>8. disk \in OptRev /\ committed \subseteq Built
  BY <1>1, InputAssumption, Zenon DEF OptRev
<1>9. pub \in Publication /\ pub.reservation = None /\ pub.listener = None
  BY <1>1, Zenon DEF Publication
<1>10. src \in Sources /\ src.session = None
  BY <1>1, <1>3, Zenon DEF Sources, OptRev
<1>11. TypeOK
  BY <1>1, <1>4, <1>7, <1>8, <1>9, <1>10, Zenon DEF TypeOK, OptRev
<1>12. Past /\ Adopted /\ Doubted
  BY <1>1, <1>4 DEF Past, Adopted, Doubted
<1>13. Apart /\ AllFresh /\ Matching
  BY <1>1, Zenon DEF Apart, AllFresh, Cand, InHand, Matching, Held
<1>14. Asked /\ Waited
  BY <1>1, <1>3, <1>4, <1>6, <1>7 DEF Asked, Waited
<1>15. Honest
  BY <1>6, <1>7, Zenon DEF Honest, Answers
<1>16. Told /\ Fits /\ Kept /\ Booted /\ Phases
  BY <1>1, <1>9, <1>10, Zenon DEF Told, Fits, Kept, Booted, Phases
<1>17. HandlesOwned
  BY <1>1, <1>9, <1>10, Zenon DEF HandlesOwned, Owned, StagedOf, SourceHandles, ListenerHandles,
     ReservationHandles
<1> QED BY <1>11, <1>12, <1>13, <1>14, <1>15, <1>16, <1>17, Zenon DEF IInv

----------------------------------------------------------------------------
(* Candidates that are cancelled.                                          *)

\* p and q differ at most in that one is cancelled.
Same(p, q) == p.rev = q.rev /\ p.st = q.st /\ p.expected = q.expected /\ p.session = q.session

\* No two candidates of P have the same identity.
Single(P) == \A p, q \in P : SameId(p.rev, q.rev) => p = q

\* Q are candidates of P, some of them cancelled or gone.
Drawn(P, Q) ==
    /\ Q \subseteq Candidate
    /\ \A q \in Q : \E p \in P : Same(p, q)
    /\ Single(P) => Single(Q)

\* Q are the candidates of P, some of them cancelled (sourceRuntime.cancel).
Muted(P, Q) == Drawn(P, Q) /\ \A p \in P : \E q \in Q : Same(p, q)

\* Nothing is cancelled.
LEMMA MutedSelf ==
    ASSUME NEW P \in SUBSET Candidate
    PROVE  Muted(P, P)
BY Zenon DEF Muted, Drawn, Same

\* A cancelled candidate is the same candidate.
LEMMA CancelledSame ==
    ASSUME NEW p \in Candidate
    PROVE  LET q == [p EXCEPT !.cancelled = TRUE] IN q \in Candidate /\ Same(p, q)
BY Zenon DEF Candidate, Same

\* Cancelling one staging context only cancels.
LEMMA StagingMuted ==
    ASSUME NEW P \in SUBSET Candidate, NEW e, NEW f
    PROVE  Muted(P, CancelStaging(P, e, f))
<1> DEFINE G(p) == IF p.rev.epoch = e /\ p.rev.refresh = f THEN [p EXCEPT !.cancelled = TRUE] ELSE p
           Q == CancelStaging(P, e, f)
<1>1. \A p \in P : G(p) \in Candidate /\ Same(p, G(p))
  BY CancelledSame, Zenon DEF Same
<1>2. Q = {G(p) : p \in P}
  BY Zenon DEF CancelStaging
<1>3. \A q \in Q : \E p \in P : q = G(p)
  BY <1>2, Zenon
<1> HIDE DEF Q
<1>4. ASSUME Single(P) PROVE Single(Q)
  <2> SUFFICES ASSUME NEW a \in Q, NEW b \in Q, SameId(a.rev, b.rev) PROVE a = b
    BY Zenon DEF Single
  <2>1. PICK p \in P : a = G(p)
    BY <1>3, Zenon
  <2>2. PICK q \in P : b = G(q)
    BY <1>3, Zenon
  <2>3. p.rev = a.rev /\ q.rev = b.rev
    BY <1>1, <2>1, <2>2, Zenon DEF Same
  <2>4. p = q
    BY <1>4, <2>3, Zenon DEF Single
  <2> QED BY <2>1, <2>2, <2>4, Zenon
<1>5. \A q \in Q : q \in Candidate /\ \E p \in P : Same(p, q)
  BY <1>1, <1>3, Zenon
<1>6. \A p \in P : \E q \in Q : Same(p, q)
  BY <1>1, <1>2, Zenon
<1> QED BY <1>4, <1>5, <1>6, Zenon DEF Muted, Drawn, Q

\* Cancelling the refresh in flight only cancels.
LEMMA RefreshMuted ==
    ASSUME NEW P \in SUBSET Candidate
    PROVE  Muted(P, CancelRefresh(P))
BY StagingMuted, MutedSelf, Zenon DEF CancelRefresh

\* Where nothing is in flight, nothing is cancelled.
LEMMA MutedEmpty ==
    ASSUME NEW Q, Muted({}, Q)
    PROVE  Q = {}
BY Zenon DEF Muted, Drawn

\* A cancelled producer keeps the session it staged until it returns.
LEMMA MutedStaged ==
    ASSUME NEW P, NEW Q, Muted(P, Q), P \in SUBSET Candidate
    PROVE  StagedOf(Q) = StagedOf(P)
<1>1. \A q \in Q : \E p \in P : p.rev = q.rev /\ p.session = q.session
  BY Zenon DEF Muted, Drawn, Same
<1>2. \A p \in P : \E q \in Q : p.rev = q.rev /\ p.session = q.session
  BY Zenon DEF Muted, Drawn, Same
<1> QED BY <1>1, <1>2 DEF StagedOf

----------------------------------------------------------------------------
(* Revisions and the writer.                                               *)

\* The parts of a revision.
LEMMA RevTyped ==
    ASSUME NEW rev \in OptRev, rev # None
    PROVE  /\ rev \in Built /\ rev \in Revision
           /\ rev.epoch \in Nat /\ rev.refresh \in Nat /\ rev.epoch \in Epoch
           /\ rev.refresh \in 0..MaxRefresh /\ rev.cfg \in Digest
BY BoundsAssumption DEF OptRev, Built, Revision, Epoch

\* The parts of the writer's record.
LEMMA WriterTyped ==
    ASSUME NEW e \in Writer
    PROVE  /\ e.admitted \in Nat /\ e.activeEpoch \in Nat /\ e.refreshSequence \in Nat
           /\ e.admitted \in Epoch /\ e.activeEpoch \in Epoch
           /\ e.refreshSequence \in 0..MaxRefresh /\ e.healthy \in BOOLEAN /\ e.enforced \in BOOLEAN
BY BoundsAssumption DEF Writer, Epoch

\* Epochs are numbers, and the refresh sequence of a reload is one.
LEMMA EpochTyped == 0 \in 0..MaxRefresh /\ \A e \in Epoch : e \in Nat
BY BoundsAssumption DEF Epoch

\* The epoch of a complete revision is a number.
LEMMA BuiltTyped == \A c \in Built : c.epoch \in Nat
BY BoundsAssumption DEF Built, Epoch

\* A producer that resolves its sources has read the configuration.
LEMMA ResolvedBuilt == TypeOK => \A p \in producers : p.st = "resolve" => p.rev \in Built
BY Zenon DEF TypeOK

\* An epoch is at most itself: what Admit leaves at the admitted epoch.
LEMMA Ordered == \A a \in Nat : a <= a
OBVIOUS

\* What is at most an epoch is at most every later one, which Admit makes current.
LEMMA AtMost == \A a, b, c \in Nat : a <= b /\ b <= c => a <= c
OBVIOUS

\* What is at most the admitted epoch is below the one that Admit takes next.
LEMMA Beneath == \A a, b, c \in Nat : a <= b /\ c > b => a < c /\ a <= c /\ a # c
OBVIOUS

\* adoptActiveEpochLocked takes the epoch of the revision over, never lowers the
\* admitted epoch, and within an epoch never lowers the refresh sequence.
LEMMA AdoptFacts ==
    ASSUME NEW e \in Writer, NEW rev \in OptRev
    PROVE  LET a == Adopt(e, rev)
           IN  /\ a \in Writer /\ a.healthy = e.healthy /\ a.enforced = e.enforced
               /\ e.admitted <= a.admitted
               /\ rev = None => a.activeEpoch = 0 /\ a.refreshSequence = 0 /\ a.admitted = e.admitted
               /\ rev # None =>
                    /\ a.activeEpoch = rev.epoch /\ rev.refresh <= a.refreshSequence
                    /\ rev.epoch = e.activeEpoch => e.refreshSequence <= a.refreshSequence
                    /\ rev.epoch <= a.admitted
                    /\ rev.epoch <= e.admitted => a.admitted = e.admitted
<1>0. 0 \in Epoch /\ 0 \in 0..MaxRefresh
  BY BoundsAssumption DEF Epoch
<1>1. CASE rev = None
  <2>1. Adopt(e, rev) = [e EXCEPT !.activeEpoch = 0, !.refreshSequence = 0]
    BY <1>1, Zenon DEF Adopt
  <2>2. Adopt(e, rev) \in Writer
    BY <1>0, <2>1, Zenon DEF Writer
  <2> QED BY <1>1, <2>1, <2>2, WriterTyped DEF Writer
<1>2. CASE rev # None
  <2> DEFINE s == IF rev.epoch # e.activeEpoch \/ rev.refresh > e.refreshSequence
                  THEN rev.refresh ELSE e.refreshSequence
             m == IF rev.epoch > e.admitted THEN rev.epoch ELSE e.admitted
  <2>1. Adopt(e, rev) = [e EXCEPT !.refreshSequence = s, !.activeEpoch = rev.epoch, !.admitted = m]
    BY <1>2, Zenon DEF Adopt
  <2>2. s \in 0..MaxRefresh /\ m \in Epoch /\ rev.epoch \in Epoch
    BY <1>2, RevTyped, WriterTyped, Zenon
  <2>3. /\ rev.refresh <= s /\ (rev.epoch = e.activeEpoch => e.refreshSequence <= s)
        /\ e.admitted <= m /\ rev.epoch <= m /\ (rev.epoch <= e.admitted => m = e.admitted)
    BY <1>2, RevTyped, WriterTyped
  <2> HIDE DEF s, m
  <2>4. Adopt(e, rev) \in Writer
    BY <2>1, <2>2, Zenon DEF Writer
  <2>5. /\ Adopt(e, rev).activeEpoch = rev.epoch /\ Adopt(e, rev).refreshSequence = s
        /\ Adopt(e, rev).admitted = m /\ Adopt(e, rev).healthy = e.healthy
        /\ Adopt(e, rev).enforced = e.enforced
    BY <2>1, Zenon DEF Writer
  <2> QED BY <1>2, <2>3, <2>4, <2>5, Zenon
<1> QED BY <1>1, <1>2, Zenon

\* The writer has moved forward, and nothing new is committed or in doubt.
Forward ==
    /\ eng.admitted <= eng'.admitted /\ eng.activeEpoch <= eng'.activeEpoch
    /\ eng.activeEpoch = eng'.activeEpoch => eng.refreshSequence <= eng'.refreshSequence
    /\ Taken' \subseteq Taken

\* A candidate that could be applied still can be after the writer moved forward.
LEMMA FreshKept ==
    ASSUME eng \in Writer, eng' \in Writer, Forward, NEW e \in Nat, NEW f \in Nat, Fresh(e, f)
    PROVE  Fresh(e, f)'
<1>2. eng.admitted \in Nat /\ eng.activeEpoch \in Nat /\ eng.refreshSequence \in Nat
  BY WriterTyped, Zenon
<1>3. eng'.admitted \in Nat /\ eng'.activeEpoch \in Nat /\ eng'.refreshSequence \in Nat
  BY WriterTyped, Zenon
<1> QED BY <1>2, <1>3 DEF Fresh, Forward

\* A newer revision is another one, of no earlier epoch.
LEMMA NewerSame ==
    ASSUME NEW a \in Built, NEW b \in Built, Newer(a, b)
    PROVE  a # b /\ ~SameId(a, b) /\ b.epoch <= a.epoch
BY BoundsAssumption DEF Newer, SameId, Built, Epoch

\* Newer is transitive.
LEMMA NewerTrans ==
    ASSUME NEW a \in Built, NEW b \in Built, NEW c \in Built, Newer(a, b), Newer(b, c)
    PROVE  Newer(a, c)
BY BoundsAssumption DEF Newer, Built, Epoch

\* The writer's part of the step of NoStaleCommit.
Advance ==
    disk' # disk =>
         /\ disk' # None /\ (disk # None => Newer(disk', disk))
         /\ IF disk'.refresh = 0 THEN disk'.epoch = eng.admitted
                                 ELSE disk'.epoch = eng.activeEpoch

\* What a committed choice is to the past.
LEMMA PastExtended ==
    ASSUME Past, disk \in OptRev, committed \subseteq Built,
           NEW rev \in Built, disk' = rev, committed' = committed \cup {rev},
           disk # None => rev = disk \/ Newer(rev, disk)
    PROVE  Past'
<1>1. CASE disk = None
  BY <1>1, NilAssumption, Zenon DEF Past
<1>2. CASE disk # None
  <2>1. disk \in committed /\ \A c \in committed : c = disk \/ Newer(disk, c)
    BY <1>2, Zenon DEF Past
  <2>2. ASSUME NEW c \in committed PROVE c = rev \/ Newer(rev, c)
    BY <1>2, <2>1, <2>2, NewerTrans, Zenon
  <2> QED BY <2>2, NilAssumption, Zenon DEF Past
<1> QED BY <1>1, <1>2, Zenon

\* The part of the invariant that the writer's recovery needs.
WriterOK == TypeOK /\ Past /\ Adopted /\ Doubted

\* What a recovery of the writer, or an attempt at it, ensures.
Moved ==
    /\ eng' \in Writer /\ disk' \in OptRev /\ tx' \in OptRev /\ committed' \subseteq Built
    /\ Past' /\ eng'.activeEpoch <= eng'.admitted /\ eng.admitted <= eng'.admitted
    /\ disk' = disk \/ (tx # None /\ disk' = tx /\ tx' = None)
    /\ Taken' \subseteq Taken /\ committed \subseteq committed' /\ Advance
    /\ pc # "recover" => Chosen(eng', disk') /\ Forward /\ eng'.admitted = eng.admitted
    /\ tx' # None => /\ tx' = tx /\ disk' = disk /\ ~eng'.healthy
                     /\ eng'.admitted = eng.admitted /\ eng'.activeEpoch = eng.activeEpoch

\* Recover settles on the active revision or on the candidate in doubt, and leaves
\* nothing in doubt (engine.go Recover).
LEMMA RecoverWriterFacts ==
    ASSUME WriterOK, NEW h \in BOOLEAN, RecoverWriter(h), pc \notin {"stop", "stopped"}
    PROVE  Moved /\ tx' = None /\ Chosen(eng', disk') /\ eng'.healthy = h
<1>1. /\ eng \in Writer /\ disk \in OptRev /\ tx \in OptRev /\ committed \subseteq Built
      /\ Past /\ Adopted /\ Doubted
  BY Zenon DEF WriterOK, TypeOK
<1>2. /\ disk' \in {disk} \cup ({tx} \ {None}) /\ tx' = None
      /\ committed' = committed \cup ({disk'} \ {None})
  BY Zenon DEF RecoverWriter
<1>3. PICK b \in {eng.enforced, TRUE} :
         eng' = [Adopt(eng, disk') EXCEPT !.healthy = h, !.enforced = b]
  BY Zenon DEF RecoverWriter
<1>4. disk' \in OptRev
  BY <1>1, <1>2, Zenon
<1> DEFINE a == Adopt(eng, disk')
<1>5. a \in Writer
  BY <1>1, <1>4, AdoptFacts, Zenon
<1>6. b \in BOOLEAN
  BY <1>1, <1>3, WriterTyped, Zenon
<1> HIDE DEF a
<1>7. eng' \in Writer
  BY <1>3, <1>5, <1>6, Zenon DEF Writer, a
<1>8. /\ eng'.healthy = h /\ eng'.admitted = a.admitted /\ eng'.activeEpoch = a.activeEpoch
      /\ eng'.refreshSequence = a.refreshSequence
  BY <1>3, <1>5, Zenon DEF Writer, a
<1>9. /\ eng.admitted <= a.admitted
      /\ disk' = None => a.activeEpoch = 0 /\ a.refreshSequence = 0 /\ a.admitted = eng.admitted
      /\ disk' # None =>
           /\ a.activeEpoch = disk'.epoch /\ disk'.refresh <= a.refreshSequence
           /\ disk'.epoch = eng.activeEpoch => eng.refreshSequence <= a.refreshSequence
           /\ disk'.epoch <= a.admitted
           /\ disk'.epoch <= eng.admitted => a.admitted = eng.admitted
  BY <1>1, <1>4, AdoptFacts, Zenon DEF a
<1>10. Chosen(eng', disk')
  BY <1>8, <1>9, Zenon DEF Chosen
<1>11. eng'.activeEpoch <= eng'.admitted
  BY <1>7, <1>8, <1>9, WriterTyped
<1>12. committed' \subseteq Built /\ committed \subseteq committed'
  BY <1>1, <1>2, <1>4, Zenon DEF OptRev
<1>13. Taken' \subseteq Taken
  BY <1>1, <1>2, Zenon DEF Taken, Past
<1>14. tx # None => Newest(tx) /\ (disk # None => Newer(tx, disk)) /\ pc # "recover"
  BY <1>1, Zenon DEF Doubted
<1>15. Past'
  <2>1. CASE disk' = None
    BY <1>1, <1>2, <2>1, Zenon DEF Past
  <2>2. CASE disk' # None
    <3>1. disk # None => disk' = disk \/ Newer(disk', disk)
      BY <1>2, <1>14, Zenon
    <3>2. disk' \in Built /\ committed' = committed \cup {disk'}
      BY <1>2, <1>4, <2>2, Zenon DEF OptRev
    <3> QED BY <1>1, <3>1, <3>2, PastExtended, Zenon
  <2> QED BY <2>1, <2>2, Zenon
<1>16. Advance
  BY <1>2, <1>14, Zenon DEF Advance, Newest
<1>17. ASSUME pc # "recover" PROVE Forward /\ eng'.admitted = eng.admitted
  <2>1. Chosen(eng, disk) /\ eng.activeEpoch <= eng.admitted
    BY <1>1, <1>17, Zenon DEF Adopted
  <2>2. CASE disk' = None
    <3>1. disk = None
      BY <1>2, <2>2, Zenon
    <3> QED BY <1>1, <1>8, <1>9, <1>13, <2>1, <2>2, <3>1, WriterTyped DEF Forward, Chosen
  <2>3. CASE disk' # None
    <3>1. disk'.epoch \in Nat /\ disk'.refresh \in Nat
      BY <1>4, <2>3, RevTyped, Zenon
    <3>2. eng.admitted \in Nat /\ eng.activeEpoch \in Nat /\ eng.refreshSequence \in Nat
      BY <1>1, WriterTyped, Zenon
    <3>3. CASE disk' = disk
      <4>1. disk'.epoch = eng.activeEpoch
        BY <2>1, <2>3, <3>3, Zenon DEF Chosen
      <4> QED BY <1>8, <1>9, <1>13, <2>1, <2>3, <3>1, <3>2, <4>1 DEF Forward
    <3>4. CASE disk' # disk
      <4>1. disk' = tx /\ tx # None
        BY <1>2, <3>4, Zenon
      <4>2. disk'.epoch <= eng.admitted
        BY <1>14, <2>1, <3>1, <3>2, <4>1 DEF Newest
      <4>3. eng.activeEpoch <= disk'.epoch
        <5>1. CASE disk = None
          BY <2>1, <3>1, <5>1 DEF Chosen
        <5>2. CASE disk # None
          <6>1. Newer(disk', disk) /\ disk \in Built /\ disk' \in Built
            BY <1>1, <1>4, <1>14, <2>3, <4>1, <5>2, Zenon DEF OptRev
          <6>2. disk.epoch <= disk'.epoch
            BY <6>1, NewerSame, Zenon
          <6> QED BY <2>1, <5>2, <6>2, Zenon DEF Chosen
        <5> QED BY <5>1, <5>2, Zenon
      <4> QED BY <1>8, <1>9, <1>13, <2>3, <3>1, <3>2, <4>2, <4>3, Zenon DEF Forward
    <3> QED BY <3>3, <3>4, Zenon
  <2> QED BY <2>2, <2>3, Zenon
<1>18. /\ eng.admitted <= eng'.admitted
       /\ disk' = disk \/ (tx # None /\ disk' = tx /\ tx' = None)
  BY <1>2, <1>8, <1>9, Zenon
<1> QED BY <1>2, <1>4, <1>7, <1>8, <1>10, <1>11, <1>12, <1>13, <1>15, <1>16, <1>17, <1>18, Zenon
        DEF Moved, OptRev

\* An attempt that fails moves the writer forward or not at all.
LEMMA RecoverFailsFacts ==
    ASSUME WriterOK, RecoverFails, pc \notin {"stop", "stopped"}
    PROVE  Moved
<1>1. CASE RecoverWriter(FALSE)
  BY Zenon, <1>1, RecoverWriterFacts
<1>2. CASE eng' = [eng EXCEPT !.healthy = FALSE] /\ UNCHANGED <<disk, tx, committed>>
  <2>1. eng \in Writer /\ disk \in OptRev /\ tx \in OptRev /\ committed \subseteq Built /\ Past /\ Adopted
    BY Zenon DEF WriterOK, TypeOK
  <2>2. eng' \in Writer
    BY <1>2, <2>1, Zenon DEF Writer
  <2>3. /\ ~eng'.healthy /\ eng'.admitted = eng.admitted /\ eng'.activeEpoch = eng.activeEpoch
        /\ eng'.refreshSequence = eng.refreshSequence
    BY <1>2, <2>1, Zenon DEF Writer
  <2>4. Past' /\ Taken' = Taken /\ Advance
    BY <1>2, <2>1, Zenon DEF Past, Taken, Advance
  <2>5. Forward
    BY <2>1, <2>3, <2>4, WriterTyped DEF Forward
  <2>6. pc # "recover" => Chosen(eng', disk')
    BY <1>2, <2>1, <2>3, Zenon DEF Adopted, Chosen
  <2> QED BY <1>2, <2>1, <2>2, <2>3, <2>4, <2>5, <2>6, Zenon DEF Moved, Adopted, Forward
<1> QED BY <1>1, <1>2, Zenon DEF RecoverFails

----------------------------------------------------------------------------
(* Candidates and answers after a step.                                    *)

\* No candidate appears.
CandsKept == \A e \in Epoch, f \in 0..MaxRefresh : Cand(e, f)' => Cand(e, f)

\* With no new candidate, and the writer moved forward, all can still be applied.
LEMMA AllFreshKept ==
    ASSUME AllFresh, eng \in Writer, eng' \in Writer, Forward, CandsKept
    PROVE  AllFresh'
<1> SUFFICES ASSUME NEW e \in Epoch, NEW f \in 0..MaxRefresh, Cand(e, f)'
             PROVE  Fresh(e, f)'
  BY Zenon DEF AllFresh
<1>1. e \in Nat /\ f \in Nat
  BY BoundsAssumption DEF Epoch
<1>2. Cand(e, f)
  BY Zenon DEF CandsKept
<1>3. Fresh(e, f)
  BY <1>2, Zenon DEF AllFresh
<1> QED BY <1>1, <1>3, FreshKept, Zenon

\* The steps that leave the candidates as they are, or drop some.
StagingKept ==
    /\ Drawn(producers, producers') /\ results' \subseteq results
    /\ Held' => Held /\ cur'.rev = cur.rev
    /\ InHand' => InHand

\* Such a step brings no candidate.
LEMMA StagingCands ==
    ASSUME StagingKept
    PROVE  CandsKept
<1>1. \A q \in producers' : \E p \in producers : p.rev = q.rev
  BY Zenon DEF StagingKept, Drawn, Same
<1>2. InHand' => InHand /\ cur'.rev = cur.rev
  BY Zenon DEF StagingKept, InHand, Held
<1>3. results' \subseteq results
  BY Zenon DEF StagingKept
<1> QED BY <1>1, <1>2, <1>3 DEF CandsKept, Cand

\* Such a step leaves every candidate with one holder.
LEMMA StagingApart ==
    ASSUME StagingKept, Apart
    PROVE  Apart'
<1>1. \A q \in producers' : \E p \in producers : p.rev = q.rev
  BY Zenon DEF StagingKept, Drawn, Same
<1>2. Single(producers')
  BY Zenon DEF StagingKept, Drawn, Apart, Single
<1>3. results' \subseteq results /\ (Held' => Held /\ cur'.rev = cur.rev)
  BY Zenon DEF StagingKept
<1>4. \A p, q \in producers' : SameId(p.rev, q.rev) => p = q
  BY <1>2, Zenon DEF Single
<1>5. \A r, s \in results' : SameId(r.rev, s.rev) => r = s
  BY <1>3, Zenon DEF Apart
<1>6. \A p \in producers', r \in results' : ~SameId(p.rev, r.rev)
  BY <1>1, <1>3, Zenon DEF Apart
<1>7. Held' => /\ \A p \in producers' : ~SameId(p.rev, cur'.rev)
               /\ \A r \in results' : ~SameId(r.rev, cur'.rev)
  BY <1>1, <1>3, Zenon DEF Apart
<1> QED BY <1>4, <1>5, <1>6, <1>7, Zenon DEF Apart, SameId

\* What a request is bound to does not change once it is admitted.
Bound ==
    \A r \in Req : /\ req'[r].epoch = req[r].epoch
                   /\ req[r].epoch # 0 => req'[r].expected = req[r].expected

\* Such a step leaves the candidates as the requests expect them.
LEMMA StagingMatching ==
    ASSUME StagingKept, Matching, Bound
    PROVE  Matching'
<1>1. \A q \in producers' : \E p \in producers : Same(p, q)
  BY Zenon DEF StagingKept, Drawn
<1>2. \A q \in producers' : q.st = "resolve" /\ q.rev.refresh = 0 => q.expected \in {None, q.rev.cfg}
  BY <1>1 DEF Matching, Same
<1>3. results' \subseteq results /\ (Held' => Held /\ cur'.rev = cur.rev)
  BY Zenon DEF StagingKept
<1>4. ASSUME NEW r \in Req, NEW x, Wants(x, r)'
      PROVE  Wants(x, r) /\ req'[r].expected = req[r].expected
  BY <1>4, Zenon DEF Wants, Bound
<1>5. ASSUME NEW r \in Req
      PROVE  /\ \A p \in producers' : Wants(p.rev, r)' => p.expected = req'[r].expected
             /\ \A s \in results' : ~s.err /\ Wants(s.rev, r)' => req'[r].expected \in {None, s.rev.cfg}
             /\ Held' /\ Wants(cur.rev, r)' => req'[r].expected \in {None, cur'.rev.cfg}
  <2>1. ASSUME NEW q \in producers', Wants(q.rev, r)' PROVE q.expected = req'[r].expected
    <3>1. PICK p \in producers : Same(p, q)
      BY <1>1, Zenon
    <3>2. Wants(q.rev, r) /\ req'[r].expected = req[r].expected
      BY <2>1, <1>4, Zenon
    <3> QED BY <3>1, <3>2, Zenon DEF Matching, Same
  <2>2. ASSUME NEW s \in results', ~s.err, Wants(s.rev, r)' PROVE req'[r].expected \in {None, s.rev.cfg}
    <3>1. Wants(s.rev, r) /\ req'[r].expected = req[r].expected /\ s \in results
      BY <1>3, <1>4, <2>2, Zenon
    <3> QED BY <2>2, <3>1, Zenon DEF Matching
  <2>3. ASSUME Held', Wants(cur.rev, r)' PROVE req'[r].expected \in {None, cur'.rev.cfg}
    <3>1. Held /\ cur'.rev = cur.rev
      BY <1>3, <2>3, Zenon
    <3>2. Wants(cur.rev, r) /\ req'[r].expected = req[r].expected
      BY <2>3, <3>1, Zenon DEF Wants, Bound
    <3> QED BY <3>1, <3>2, Zenon DEF Matching
  <2> QED BY <2>1, <2>2, <2>3, Zenon
<1> QED BY <1>2, <1>5, Zenon DEF Matching, Wants

\* Ruled out is ruled out for good.
RuledStays == \A e \in Epoch : e <= eng.admitted /\ Ruled(e) => Ruled(e)'

\* Nothing is undone, and no reload that was ruled out comes back.
Grown ==
    /\ committed \subseteq committed' /\ Taken' \subseteq Taken
    /\ eng.admitted <= eng'.admitted /\ CandsKept

\* A rejected reload stays rejected when nothing new is committed or in doubt.
LEMMA RuledKept ==
    ASSUME eng \in Writer, eng' \in Writer, Grown
    PROVE  RuledStays
<1> SUFFICES ASSUME NEW e \in Epoch, Ruled(e) PROVE Ruled(e)'
  BY Zenon DEF RuledStays
<1>1. e \in Nat /\ 0 \in 0..MaxRefresh
  BY BoundsAssumption DEF Epoch
<1>2. eng.admitted \in Nat /\ eng'.admitted \in Nat
  BY WriterTyped, Zenon
<1> QED BY <1>1, <1>2 DEF Ruled, Grown, CandsKept

\* The requests after a step: old answers are kept, new ones are true.
Answered ==
    \A r \in Req :
        /\ req'[r].epoch = req[r].epoch
        /\ req[r].st \notin {"new", "offered"} => req'[r].st \notin {"new", "offered"}
        /\ req'[r].st \in {"new", "offered"} => req'[r].box = req[r].box /\ req'[r].got = req[r].got
        /\ \A a \in Answers(r)' :
             \/ a \in Answers(r) /\ req'[r].expected = req[r].expected
             \/ TrueAnswer(a, req[r])'

\* The waiter is answered, or still waits for the same.
WaiterKept == waiter' = None \/ (waiter' = waiter /\ (Settling => Settling'))

\* Answers stay true: the ones there were, because what they rest on is kept.
LEMMA HonestStep ==
    ASSUME Asked, Honest, req \in [Req -> Request], committed \subseteq committed', RuledStays,
           \A r \in Req : \A a \in Answers(r)' :
              \/ /\ a \in Answers(r) /\ req'[r].expected = req[r].expected
                 /\ req'[r].epoch = req[r].epoch
              \/ TrueAnswer(a, req[r])'
    PROVE  Honest'
<1> SUFFICES ASSUME NEW r \in Req, NEW a \in Answers(r)' PROVE TrueAnswer(a, req[r])'
  BY Zenon DEF Honest
<1>1. CASE /\ a \in Answers(r) /\ req'[r].expected = req[r].expected
           /\ req'[r].epoch = req[r].epoch
  <2>1. TrueAnswer(a, req[r])
    BY <1>1, Zenon DEF Honest
  <2>2. req[r].epoch \in Epoch /\ req[r].epoch <= eng.admitted
    BY Zenon DEF Request, Asked
  <2>3. PICK e \in Epoch : e = req[r].epoch
    BY <2>2, Zenon
  <2>4. Ruled(req[r].epoch) => Ruled(e)'
    BY <2>2, <2>3, Zenon DEF RuledStays
  <2> QED BY <1>1, <2>1, <2>3, <2>4, Zenon DEF TrueAnswer, Ruled, Cand
<1> QED BY <1>1, Zenon

\* The requests, the waiter and the answers after a step.
LEMMA RequestsStep ==
    ASSUME Asked, Waited, Honest, eng \in Writer, eng' \in Writer, req \in [Req -> Request],
           waiter \in Waiter \cup {None},
           committed \subseteq committed', Taken' \subseteq Taken, eng.admitted <= eng'.admitted,
           RuledStays, Answered, WaiterKept
    PROVE  Asked' /\ Waited' /\ Honest'
<1>1. ASSUME NEW r \in Req PROVE req[r].epoch \in Epoch /\ req[r].epoch \in Nat
  BY BoundsAssumption DEF Request, Epoch
<1>2. eng.admitted \in Nat /\ eng'.admitted \in Nat
  BY WriterTyped, Zenon
<1>3. Asked'
  BY <1>1, <1>2 DEF Asked, Answered
<1>4. Waited'
  <2> SUFFICES ASSUME waiter' # None
               PROVE  /\ 0 < waiter'.epoch /\ req'[waiter'.req].epoch = waiter'.epoch
                      /\ req'[waiter'.req].st \notin {"new", "offered"}
                      /\ ~Settling' => \A c \in Taken' : c.epoch # waiter'.epoch
    BY Zenon DEF Waited
  <2>1. waiter' = waiter /\ waiter # None /\ (Settling => Settling')
    BY Zenon DEF WaiterKept
  <2>2. waiter.req \in Req
    BY <2>1, Zenon DEF Waiter
  <2> QED BY <2>1, <2>2, Zenon DEF Waited, Answered
<1>5. Honest'
  BY HonestStep, Zenon DEF Answered
<1> QED BY <1>3, <1>4, <1>5, Zenon

----------------------------------------------------------------------------
(* Steps of the handlers.                                                  *)

\* The loop's place, in steps that are no recovery at startup.
PlaceKept ==
    \/ pc' = pc \/ pc' \in {"stop", "stopped"}
    \/ /\ pc \notin {"recover", "stop", "stopped"} /\ pc' # "recover"
       /\ tx # None => pc' \in {"applied", "bootRecover", "select"}

\* The writer's invariants when its choice, its doubt and its epochs stay.
LEMMA WriterSame ==
    ASSUME WriterOK, eng' \in Writer, UNCHANGED <<disk, tx, committed>>,
           eng'.admitted = eng.admitted, eng'.activeEpoch = eng.activeEpoch,
           eng'.refreshSequence = eng.refreshSequence, tx # None => ~eng'.healthy, PlaceKept
    PROVE  Past' /\ Adopted' /\ Doubted' /\ Advance /\ Forward /\ Taken' = Taken
<1>1. eng \in Writer /\ Past /\ Adopted /\ Doubted
  BY Zenon DEF WriterOK, TypeOK
<1>2. Past' /\ Taken' = Taken /\ Advance
  BY <1>1, Zenon DEF Past, Taken, Advance
<1>3. Adopted'
  BY <1>1, Zenon DEF Adopted, Chosen, PlaceKept
<1>4. Doubted'
  BY <1>1, Zenon DEF Doubted, Newest, PlaceKept
<1>5. Forward
  BY <1>1, <1>2, WriterTyped DEF Forward
<1> QED BY <1>2, <1>3, <1>4, <1>5, Zenon

\* The publication's invariants when it and the loop's place stay.
LEMMA PublicationSame ==
    ASSUME Told, Fits, Kept, Phases, UNCHANGED <<pc, cur, booting, recovery, pub, disk, tx, committed>>,
           src'.active = src.active, src'.session = src.session
    PROVE  Told' /\ Fits' /\ Kept' /\ Phases'
<1>1. Told'
  BY Zenon DEF Told
<1>2. Fits'
  BY Zenon DEF Fits, Reserved, Listener, Handle
<1>3. Kept'
  BY Zenon DEF Kept, Reserved, Listener, Handle
<1>4. Phases'
  BY Zenon DEF Phases, Shows, Recovering, Pending
<1> QED BY <1>1, <1>2, <1>3, <1>4, Zenon

\* Two handles are equal exactly if they are of one kind and one candidate.
LEMMA HandleFacts ==
    ASSUME NEW x, NEW y, NEW k, NEW j
    PROVE  Handle(k, x) = Handle(j, y) <=> k = j /\ SameId(x, y)
BY Zenon DEF Handle, SameId

\* The owners of handles when none of them changes.
LEMMA OwnedSame ==
    ASSUME HandlesOwned, open' = open, pc' = pc, cur' = cur, StagedOf(producers') = StagedOf(producers),
           results' = results, src'.session = src.session, pub' = pub
    PROVE  HandlesOwned'
<1>1. StagedOf(producers)' = StagedOf(producers')
  BY Zenon DEF StagedOf, Staged, Handle
<1>2. StagedOf(results)' = StagedOf(results)
  BY Zenon DEF StagedOf, Staged, Handle
<1>3. StagedOf({cur})' = StagedOf({cur})
  BY Zenon DEF StagedOf, Staged, Handle
<1>4. ReservationHandles(pub.reservation)' = ReservationHandles(pub.reservation)
  BY Zenon DEF ReservationHandles, Reserved, Listener, Handle
<1>5. SourceHandles' = SourceHandles /\ ListenerHandles' = ListenerHandles
  BY Zenon DEF SourceHandles, ListenerHandles
<1> QED BY <1>1, <1>2, <1>3, <1>4, <1>5, Zenon DEF HandlesOwned, Owned

\* A step of the handlers: the requests change, and candidates may be cancelled.
LEMMA HandlerFrame ==
    ASSUME IInv, UNCHANGED <<loopVars, writerVars, results, heldVars>>, Muted(producers, producers'),
           req' \in [Req -> Request], Answered, Bound
    PROVE  IInv' /\ Advance
<1>1. TypeOK /\ WriterOK /\ eng \in Writer
  BY Zenon DEF IInv, WriterOK, TypeOK
<1>2. /\ UNCHANGED <<pc, booting, cancelled, ready, waiter, cur, recovery, eng, disk, tx, committed>>
      /\ UNCHANGED <<results, pub, src, open>>
  BY Zenon DEF loopVars, loopRest, runVars, writerVars, heldVars
<1>3. producers' \subseteq Candidate /\ \A q \in producers' : \E p \in producers : Same(p, q)
  BY Zenon DEF Muted, Drawn
<1>4. TypeOK'
  BY <1>1, <1>2, <1>3 DEF TypeOK, Same
<1>5. Past' /\ Adopted' /\ Doubted' /\ Advance /\ Forward /\ Taken' = Taken
  BY <1>1, <1>2, WriterSame, Zenon DEF PlaceKept, Doubted, WriterOK
<1>6. StagingKept
  BY <1>2, Zenon DEF StagingKept, Muted, Held, InHand
<1>7. CandsKept
  BY <1>6, StagingCands, Zenon
<1>8. Apart' /\ AllFresh' /\ Matching'
  BY <1>1, <1>2, <1>5, <1>6, <1>7, StagingApart, AllFreshKept, StagingMatching, Zenon DEF IInv
<1>9. Grown
  BY <1>1, <1>2, <1>5, <1>7, WriterTyped DEF Grown
<1>10. RuledStays
  BY <1>1, <1>2, <1>9, RuledKept, Zenon
<1>11. WaiterKept
  BY <1>2, Zenon DEF WaiterKept, Settling
<1>12. Asked' /\ Waited' /\ Honest'
  BY <1>1, <1>2, <1>9, <1>10, <1>11, RequestsStep, Zenon DEF IInv, TypeOK, Grown
<1>13. Told' /\ Fits' /\ Kept' /\ Phases'
  BY <1>2, PublicationSame, Zenon DEF IInv
<1>14. Booted'
  BY <1>2, MutedEmpty, Zenon DEF Booted, IInv
<1>15. StagedOf(producers') = StagedOf(producers)
  BY <1>1, MutedStaged, Zenon DEF TypeOK
<1>16. HandlesOwned'
  BY <1>2, <1>15, OwnedSame, Zenon DEF IInv
<1> QED BY <1>4, <1>5, <1>8, <1>12, <1>13, <1>14, <1>16, Zenon DEF IInv

\* The parts of an answer.
LEMMA AnsTyped ==
    ASSUME NEW o \in {"applied", "degraded", "rejected", "unknown"}, NEW rev \in OptRev,
           NEW d \in Digest \cup {None}
    PROVE  /\ Ans(o, rev, d) \in Answer
           /\ Ans(o, rev, d).outcome = o /\ Ans(o, rev, d).rev = rev /\ Ans(o, rev, d).cfg = d
BY Zenon DEF Ans, Answer

\* The two answers without a revision.
LEMMA RefusalTyped ==
    /\ Ans("rejected", None, None) \in Answer /\ Ans("rejected", None, None).outcome = "rejected"
    /\ Ans("unknown", None, None) \in Answer /\ Ans("unknown", None, None).outcome = "unknown"
BY AnsTyped DEF OptRev

\* A request arrives, its handler returns or its deadline passes (control/reload.go).
LEMMA HandlerSteps ==
    IInv /\ (\E r \in Req : Submit(r) \/ HandlerReturns(r) \/ Expire(r)) => IInv' /\ Advance
\* validateResult passes an answer on or calls it unknown (control/reload.go).
<1>ValidatedFacts.
    ASSUME NEW a \in Answer, NEW d
    PROVE  /\ Validated(a, d) \in Answer
           /\ Validated(a, d) = a \/ Validated(a, d).outcome = "unknown"
           /\ a.outcome = "rejected" => Validated(a, d).outcome \in {"rejected", "unknown"}
  <2> USE <1>ValidatedFacts
  <2>1. None \in OptRev /\ None \in Digest \cup {None}
    BY Zenon DEF OptRev
  <2>2. Ans("unknown", None, None) \in Answer /\ Ans("unknown", None, None).outcome = "unknown"
    BY <2>1, AnsTyped
  <2>3. Validated(a, d) \in {a, Ans("unknown", None, None)}
    BY Zenon DEF Validated
  <2> QED BY <2>2, <2>3, Zenon

\* A handler that returns changes its own request only.
<1>ReturnFacts.
    ASSUME req \in [Req -> Request], NEW r \in Req, NEW a \in Answer, Return(r, a)
    PROVE  /\ req' \in [Req -> Request]
           /\ \A s \in Req : s # r => req'[s] = req[s]
           /\ req'[r].st = "returned" /\ req'[r].got = Validated(a, req[r].expected)
           /\ req'[r].box = req[r].box /\ req'[r].epoch = req[r].epoch
           /\ req'[r].expected = req[r].expected
  <2> USE <1>ReturnFacts
  <2> DEFINE v == Validated(a, req[r].expected)
             q == [req[r] EXCEPT !.st = "returned", !.got = v]
  <2>1. v \in Answer /\ req[r] \in Request
    BY <1>ValidatedFacts, Zenon
  <2>2. req' = [req EXCEPT ![r] = q]
    BY Zenon DEF Return
  <2> HIDE DEF v
  <2>3. q \in Request
    BY <2>1, Zenon DEF Request
  <2>4. /\ q.st = "returned" /\ q.got = v /\ q.box = req[r].box /\ q.epoch = req[r].epoch
        /\ q.expected = req[r].expected
    BY <2>1, Zenon DEF Request
  <2> HIDE DEF q
  <2> QED BY <2>2, <2>3, <2>4, Zenon DEF v

\* A handler returns: the answer is one there was, or says nothing of a commit.
<1>ReturnAnswered.
    ASSUME IInv, NEW r \in Req, NEW a \in Answer, Return(r, a),
           a = req[r].box \/ a.outcome = "unknown" \/ (a.outcome = "rejected" /\ req[r].epoch = 0)
    PROVE  req' \in [Req -> Request] /\ Answered /\ Bound
  <2> USE <1>ReturnAnswered
  <2>1. req \in [Req -> Request]
    BY Zenon DEF IInv, TypeOK
  <2>2. /\ req' \in [Req -> Request]
        /\ \A s \in Req : s # r => req'[s] = req[s]
        /\ req'[r].st = "returned" /\ req'[r].got = Validated(a, req[r].expected)
        /\ req'[r].box = req[r].box /\ req'[r].epoch = req[r].epoch
        /\ req'[r].expected = req[r].expected
    BY <2>1, <1>ReturnFacts, Zenon
  <2>3. Bound
    BY <2>2, Zenon DEF Bound
  <2>4. ASSUME NEW s \in Req, s # r
        PROVE  Answers(s)' = Answers(s) /\ req'[s] = req[s]
    BY <2>2, <2>4, Zenon DEF Answers
  <2>5. ASSUME NEW b \in Answers(r)'
        PROVE  b \in Answers(r) \/ TrueAnswer(b, req[r])'
    <3>1. CASE b = req[r].box
      BY <2>2, <2>5, <3>1, Zenon DEF Answers
    <3>2. CASE b = Validated(a, req[r].expected)
      <4>1. b = a \/ b.outcome = "unknown"
        BY <3>2, <1>ValidatedFacts, Zenon
      <4>2. CASE b = a /\ a = req[r].box
        BY <3>1, <4>2, Zenon
      <4>3. CASE b.outcome = "unknown"
        BY <4>3, Zenon DEF TrueAnswer
      <4>4. CASE b.outcome = "rejected" /\ req[r].epoch = 0
        BY <2>2, <4>4, Zenon DEF TrueAnswer
      <4> QED BY <4>1, <4>2, <4>3, <4>4, Zenon
    <3> QED BY <2>2, <2>5, <3>1, <3>2, Zenon DEF Answers
  <2>6. Answered
    BY <2>2, <2>4, <2>5, Zenon DEF Answered
  <2> QED BY <2>2, <2>3, <2>6, Zenon

\* A request arrives (reload.go handle).
<1>SubmitStep.
    ASSUME IInv, NEW r \in Req, Submit(r)
    PROVE  IInv' /\ Advance
  <2> USE <1>SubmitStep
  <2>1. /\ UNCHANGED <<loopVars, writerVars, results, heldVars>> /\ producers' = producers
        /\ req[r].st = "new"
    BY Zenon DEF Submit, workVars
  <2>2. Muted(producers, producers')
    BY <2>1, MutedSelf, Zenon DEF IInv, TypeOK
  <2>3. req \in [Req -> Request] /\ req[r].epoch = 0 /\ req[r].box = None /\ req[r].got = None
    BY <2>1, Zenon DEF IInv, TypeOK, Asked
  <2>4. CASE Return(r, Ans("rejected", None, None))
    BY <2>1, <2>2, <2>3, <2>4, <1>ReturnAnswered, RefusalTyped, HandlerFrame, Zenon
  <2>5. ASSUME NEW d \in Expect, req' = [req EXCEPT ![r].st = "offered", ![r].expected = d]
        PROVE  req' \in [Req -> Request] /\ Answered /\ Bound
    <3> DEFINE q == [req[r] EXCEPT !.st = "offered", !.expected = d]
    <3>1. req' = [req EXCEPT ![r] = q]
      BY <2>5, Zenon
    <3>2. req[r] \in Request /\ d \in Digest \cup {None}
      BY <2>3, InputAssumption, Zenon
    <3>3. q \in Request
      BY <3>2, Zenon DEF Request
    <3>4. q.st = "offered" /\ q.epoch = 0 /\ q.box = None /\ q.got = None
      BY <2>3, <3>2, Zenon DEF Request
    <3> HIDE DEF q
    <3>5. req' \in [Req -> Request] /\ req'[r] = q /\ \A s \in Req : s # r => req'[s] = req[s]
      BY <2>3, <3>1, <3>3, Zenon
    <3>6. Bound
      BY <2>3, <3>4, <3>5, Zenon DEF Bound
    <3>7. Answered
      BY <2>1, <2>3, <3>4, <3>5, Zenon DEF Answered, Answers
    <3> QED BY <3>5, <3>6, <3>7, Zenon
  <2>6. Return(r, Ans("rejected", None, None))
        \/ \E d \in Expect : req' = [req EXCEPT ![r].st = "offered", ![r].expected = d]
    BY Zenon DEF Submit
  <2> QED BY <2>1, <2>2, <2>4, <2>5, <2>6, HandlerFrame, Zenon

\* A handler returns what is in its box, or that it does not know.
<1>HandlerReturnsStep.
    ASSUME IInv, NEW r \in Req, HandlerReturns(r)
    PROVE  IInv' /\ Advance
  <2> USE <1>HandlerReturnsStep
  <2>1. /\ UNCHANGED <<loopVars, writerVars, results, heldVars>> /\ producers' = producers
        /\ \/ req[r].box # None /\ Return(r, req[r].box)
           \/ Return(r, Ans("unknown", None, None))
    BY Zenon DEF HandlerReturns, workVars
  <2>2. Muted(producers, producers')
    BY <2>1, MutedSelf, Zenon DEF IInv, TypeOK
  <2>3. req[r].box # None => req[r].box \in Answer
    BY Zenon DEF IInv, TypeOK, Request
  <2>4. req' \in [Req -> Request] /\ Answered /\ Bound
    BY <2>1, <2>3, <1>ReturnAnswered, RefusalTyped, Zenon
  <2> QED BY <2>1, <2>2, <2>4, HandlerFrame, Zenon

\* A request's deadline passes, which cancels its staging.
<1>ExpireStep.
    ASSUME IInv, NEW r \in Req, Expire(r)
    PROVE  IInv' /\ Advance
  <2> USE <1>ExpireStep
  <2>1. /\ UNCHANGED <<loopVars, writerVars, results, heldVars>>
        /\ req' = [req EXCEPT ![r].expired = TRUE]
        /\ producers' = IF req[r].epoch = 0 THEN producers
                        ELSE CancelStaging(producers, req[r].epoch, 0)
    BY Zenon DEF Expire, heldVars
  <2>2. req \in [Req -> Request] /\ producers \subseteq Candidate
    BY Zenon DEF IInv, TypeOK
  <2>3. Muted(producers, producers')
    BY <2>1, <2>2, MutedSelf, StagingMuted, Zenon
  <2> DEFINE q == [req[r] EXCEPT !.expired = TRUE]
  <2>4. req' = [req EXCEPT ![r] = q]
    BY <2>1, Zenon
  <2>5. q \in Request
    BY <2>2, Zenon DEF Request
  <2>6. /\ q.st = req[r].st /\ q.epoch = req[r].epoch /\ q.box = req[r].box /\ q.got = req[r].got
        /\ q.expected = req[r].expected
    BY <2>2, Zenon DEF Request
  <2> HIDE DEF q
  <2>7. req' \in [Req -> Request] /\ req'[r] = q /\ \A s \in Req : s # r => req'[s] = req[s]
    BY <2>2, <2>4, <2>5, Zenon
  <2>8. Bound /\ Answered
    BY <2>6, <2>7, Zenon DEF Bound, Answered, Answers
  <2> QED BY <2>1, <2>3, <2>7, <2>8, HandlerFrame, Zenon

<1> QED BY <1>SubmitStep, <1>HandlerReturnsStep, <1>ExpireStep, Zenon

----------------------------------------------------------------------------
(* Steps of the staging goroutines.                                        *)

\* The handles of the staging owners: producers and results.
StagedHandles == StagedOf(producers) \cup StagedOf(results)

\* The session of the candidate in the loop's hands.
HandHandles == IF pc \in {"reserve", "apply"} THEN StagedOf({cur}) ELSE {}

\* The handles of the source runtime, the listener and the reservation.
PublicHandles == SourceHandles \cup ListenerHandles \cup ReservationHandles(pub.reservation)

\* The owners, in these three groups.
LEMMA OwnedParts ==
    /\ Owned = StagedHandles \cup HandHandles \cup PublicHandles
    /\ Owned' = StagedHandles' \cup HandHandles' \cup PublicHandles'
BY Zenon DEF Owned, StagedHandles, HandHandles, PublicHandles

\* The publication's handles when session, listener and reservation stay.
LEMMA PublicKept ==
    ASSUME pub'.reservation = pub.reservation, pub'.listener = pub.listener, src'.session = src.session
    PROVE  PublicHandles' = PublicHandles
BY Zenon DEF PublicHandles, SourceHandles, ListenerHandles, ReservationHandles, Reserved,
   Listener, Handle

\* The session in hand when the loop stays where it is.
LEMMA HandSame ==
    ASSUME pc' = pc, cur' = cur
    PROVE  HandHandles' = HandHandles
BY Zenon DEF HandHandles, StagedOf, Staged, Handle

\* The handles of the staging owners after a step.
LEMMA StagedPrime == StagedHandles' = StagedOf(producers') \cup StagedOf(results')
BY Zenon DEF StagedHandles, StagedOf, Staged, Handle

\* The handle of a staging owner is none of the publication's.
LEMMA StagedIsStaged ==
    ASSUME NEW x, Kept
    PROVE  Staged(x) \notin PublicHandles
<1>1. ASSUME NEW c PROVE Staged(x) # Reserved(c) /\ Staged(x) # Listener(c)
  BY HandleFacts DEF Staged, Reserved, Listener
<1>2. Staged(x) \notin SourceHandles
  BY <1>1, Zenon DEF SourceHandles, Kept
<1>3. Staged(x) \notin ListenerHandles
  BY <1>1, Zenon DEF ListenerHandles, Kept
<1>4. Staged(x) \notin ReservationHandles(pub.reservation)
  BY <1>1, Zenon DEF ReservationHandles
<1> QED BY <1>2, <1>3, <1>4, Zenon DEF PublicHandles

\* A staged handle belongs to a candidate of that identity.
LEMMA StagedMember ==
    ASSUME NEW S, NEW x, Staged(x) \in StagedOf(S)
    PROVE  \E s \in S : s.session /\ SameId(x, s.rev)
<1>1. PICK s \in S : s.session /\ Staged(x) = Staged(s.rev)
  BY SMTT(30) DEF StagedOf
<1> QED BY <1>1, HandleFacts DEF Staged

\* A staging goroutine reads, resolves or gives up (staged_candidate.go).
LEMMA ProducerSteps ==
    IInv /\ Producer => IInv' /\ Advance
\* A step of the staging goroutines.
<1>StagingFrame.
    ASSUME IInv, UNCHANGED <<loopVars, writerVars, req, pub, src>>, ~booting,
           producers' \subseteq Candidate, results' \subseteq Result, open' \subseteq Handles,
           \A p \in producers' : p.st = "resolve" => p.rev \in Built,
           \A s \in results' : ~s.err => s.rev \in Built,
           Apart', CandsKept, Matching', HandlesOwned'
    PROVE  IInv' /\ Advance
  <2> USE <1>StagingFrame
  <2>1. TypeOK /\ WriterOK /\ eng \in Writer
    BY Zenon DEF IInv, WriterOK, TypeOK
  <2>2. UNCHANGED <<pc, booting, cancelled, ready, waiter, cur, recovery, eng, disk, tx, committed, req, pub, src>>
    BY Zenon DEF loopVars, loopRest, runVars, writerVars
  <2>4. TypeOK'
    BY <2>1, <2>2, Zenon DEF TypeOK
  <2>5. Past' /\ Adopted' /\ Doubted' /\ Advance /\ Forward /\ Taken' = Taken
    BY <2>1, <2>2, WriterSame, Zenon DEF PlaceKept, Doubted, WriterOK
  <2>8. AllFresh'
    BY <2>1, <2>2, <2>5, AllFreshKept, Zenon DEF IInv
  <2>9. Grown
    BY <2>1, <2>2, <2>5, WriterTyped DEF Grown
  <2>10. RuledStays
    BY <2>1, <2>2, <2>9, RuledKept, Zenon
  <2>11. WaiterKept
    BY <2>2, Zenon DEF WaiterKept, Settling
  <2>12. Answered
    BY <2>2, Zenon DEF Answered, Answers
  <2>13. Asked' /\ Waited' /\ Honest'
    BY <2>1, <2>2, <2>9, <2>10, <2>11, <2>12, RequestsStep, Zenon DEF IInv, TypeOK, Grown
  <2>14. Told' /\ Fits' /\ Kept' /\ Phases'
    BY <2>2, PublicationSame, Zenon DEF IInv
  <2>15. Booted'
    BY <2>2, Zenon DEF Booted, IInv
  <2> QED BY <2>4, <2>5, <2>8, <2>13, <2>14, <2>15, Zenon DEF IInv

\* A producer hands its result over (stageCandidate's send to the loop).
<1>DeliverStep.
    ASSUME IInv, UNCHANGED <<loopVars, writerVars, req, pub, src>>, NEW p \in producers,
           NEW rev \in Revision, NEW err \in BOOLEAN, SameId(rev, p.rev), Deliver(p, rev, err),
           ~err => rev \in Built /\ (rev.refresh = 0 => p.expected \in {None, rev.cfg})
    PROVE  IInv' /\ Advance
  <2> USE <1>DeliverStep
  <2> DEFINE n == [rev |-> rev, err |-> err, session |-> p.session]
  <2>1. /\ producers' = producers \ {p} /\ results' = results \cup {n} /\ open' = open
    BY Zenon DEF Deliver
  <2>2. /\ producers \subseteq Candidate /\ results \subseteq Result /\ open \subseteq Handles
        /\ \A q \in producers : q.st = "resolve" => q.rev \in Built
        /\ \A s \in results : ~s.err => s.rev \in Built
        /\ ~booting
    BY Zenon DEF IInv, TypeOK, Booted
  <2>3. n \in Result /\ n.rev = rev /\ n.err = err /\ n.session = p.session
    BY <2>2, Zenon DEF Result, Candidate
  <2> HIDE DEF n
  <2>4. UNCHANGED <<pc, cur, req, pub, src>>
    BY Zenon DEF loopVars, loopRest, writerVars
  <2>5. producers' \subseteq Candidate /\ results' \subseteq Result /\ open' \subseteq Handles
    BY <2>1, <2>2, <2>3, Zenon
  <2>6. /\ \A q \in producers' : q.st = "resolve" => q.rev \in Built
        /\ \A s \in results' : ~s.err => s.rev \in Built
    BY <2>1, <2>2, <2>3, Zenon
  <2>7. Apart'
    <3>1. Apart
      BY Zenon DEF IInv
    <3>2. \A q, t \in producers' : SameId(q.rev, t.rev) => q = t
      BY <2>1, <3>1, Zenon DEF Apart
    <3>3. \A s, t \in results' : SameId(s.rev, t.rev) => s = t
      BY <2>1, <2>3, <3>1 DEF Apart, SameId
    <3>4. \A q \in producers', s \in results' : ~SameId(q.rev, s.rev)
      BY <2>1, <2>3, <3>1 DEF Apart, SameId
    <3>5. Held' => /\ \A q \in producers' : ~SameId(q.rev, cur'.rev)
                   /\ \A s \in results' : ~SameId(s.rev, cur'.rev)
      BY <2>1, <2>3, <2>4, <3>1 DEF Apart, SameId, Held
    <3> QED BY <3>2, <3>3, <3>4, <3>5, Zenon DEF Apart, SameId
  <2>8. CandsKept
    BY <2>1, <2>3, <2>4, Zenon DEF CandsKept, Cand, InHand, SameId
  <2>9. Matching'
    <3>1. Matching
      BY Zenon DEF IInv
    <3>2. ASSUME NEW r \in Req, ~n.err, Wants(n.rev, r) PROVE req[r].expected \in {None, n.rev.cfg}
      <4>1. Wants(p.rev, r) /\ rev.refresh = 0
        BY <2>3, <3>2, Zenon DEF Wants, SameId
      <4> QED BY <2>3, <3>1, <3>2, <4>1, Zenon DEF Matching
    <3> QED BY <2>1, <2>4, <3>1, <3>2 DEF Matching, Wants, Held
  <2>10. HandlesOwned'
    <3>1. Staged(rev) = Staged(p.rev)
      BY HandleFacts DEF Staged
    <3>2. StagedOf(producers') \cup StagedOf(results') = StagedOf(producers) \cup StagedOf(results)
      BY <2>1, <2>3, <3>1, Zenon DEF StagedOf
    <3>3. PublicHandles' = PublicHandles /\ HandHandles' = HandHandles
      BY <2>4, PublicKept, HandSame, Zenon
    <3>4. StagedHandles' = StagedHandles
      BY <3>2, StagedPrime, Zenon DEF StagedHandles
    <3> QED BY <2>1, <3>3, <3>4, OwnedParts, Zenon DEF HandlesOwned, IInv
  <2> QED BY <2>2, <2>5, <2>6, <2>7, <2>8, <2>9, <2>10, <1>StagingFrame, Zenon

\* A producer reads the configuration file and compares its digest.
<1>ReadConfigStep.
    ASSUME IInv, NEW p \in producers, ReadConfig(p)
    PROVE  IInv' /\ Advance
  <2> USE <1>ReadConfigStep
  <2>1. PICK file \in Digest :
        LET read == [p EXCEPT !.rev.cfg = file]
            mismatch == p.expected \notin {None, file}
        IN  /\ p.st = "read"
            /\ \/ (mismatch \/ p.cancelled) /\ NoFault /\ Deliver(p, read.rev, TRUE)
               \/ Fault /\ (Deliver(p, p.rev, TRUE) \/ Deliver(p, read.rev, TRUE))
               \/ /\ ~mismatch /\ ~p.cancelled
                  /\ producers' = (producers \ {p})
                                  \cup {[read EXCEPT !.st = "resolve", !.session = TRUE]}
                  /\ open' = open \cup {Staged(p.rev)}
                  /\ NoFault /\ UNCHANGED results
            /\ UNCHANGED <<loopVars, writerVars, req, pub, src>>
    BY Zenon DEF ReadConfig
  <2> DEFINE read == [p EXCEPT !.rev.cfg = file]
             n == [read EXCEPT !.st = "resolve", !.session = TRUE]
  <2>2. p \in Candidate /\ ~booting
    BY Zenon DEF IInv, TypeOK, Booted
  <2>3. p.rev \in Revision
    BY <2>2, Zenon DEF Candidate
  <2> DEFINE x == [p.rev EXCEPT !.cfg = file]
  <2>4. x \in Built /\ x \in Revision /\ SameId(x, p.rev) /\ x.cfg = file
    BY <2>3, Zenon DEF Revision, Built, SameId
  <2>5. read = [p EXCEPT !.rev = x]
    BY <2>2, <2>3, Zenon DEF Candidate
  <2> HIDE DEF x
  <2>6. read \in Candidate /\ read.rev = x
    BY <2>2, <2>4, <2>5, Zenon DEF Candidate
  <2>7. read.expected = p.expected
    BY <2>2, <2>5, Zenon DEF Candidate
  <2> HIDE DEF read
  <2>8. n \in Candidate /\ n.rev = x /\ n.expected = p.expected /\ n.session = TRUE /\ n.st = "resolve"
    BY <2>6, <2>7, Zenon DEF Candidate
  <2> HIDE DEF n
  <2>9. UNCHANGED <<loopVars, writerVars, req, pub, src>>
    BY <2>1, Zenon
  <2>10. CASE Deliver(p, p.rev, TRUE) \/ Deliver(p, x, TRUE)
    BY <2>3, <2>4, <2>9, <2>10, <1>DeliverStep, Zenon DEF SameId
  <2>11. ASSUME p.expected \in {None, file}, producers' = (producers \ {p}) \cup {n},
                open' = open \cup {Staged(p.rev)}, results' = results
         PROVE  IInv' /\ Advance
    <3>1. UNCHANGED <<pc, cur, req, pub, src>>
      BY <2>9, Zenon DEF loopVars, loopRest, writerVars
    <3>2. /\ producers \subseteq Candidate /\ results \subseteq Result /\ open \subseteq Handles
          /\ \A q \in producers : q.st = "resolve" => q.rev \in Built
          /\ \A s \in results : ~s.err => s.rev \in Built
      BY Zenon DEF IInv, TypeOK
    <3>3. Staged(p.rev) \in Handles
      BY <2>3, Zenon DEF Staged, Handle, Handles, Revision
    <3>4. producers' \subseteq Candidate /\ results' \subseteq Result /\ open' \subseteq Handles
      BY <2>8, <2>11, <3>2, <3>3, Zenon
    <3>5. /\ \A q \in producers' : q.st = "resolve" => q.rev \in Built
          /\ \A s \in results' : ~s.err => s.rev \in Built
      BY <2>4, <2>8, <2>11, <3>2, Zenon
    <3>6. Apart'
      <4>1. Apart
        BY Zenon DEF IInv
      <4>2. \A q, t \in producers' : SameId(q.rev, t.rev) => q = t
        BY <2>4, <2>8, <2>11, <4>1 DEF Apart, SameId
      <4>3. \A q \in producers', s \in results' : ~SameId(q.rev, s.rev)
        BY <2>4, <2>8, <2>11, <4>1 DEF Apart, SameId
      <4>4. Held' => /\ \A q \in producers' : ~SameId(q.rev, cur'.rev)
                     /\ \A s \in results' : ~SameId(s.rev, cur'.rev)
        BY <2>4, <2>8, <2>11, <3>1, <4>1 DEF Apart, SameId, Held
      <4> QED BY <2>11, <4>1, <4>2, <4>3, <4>4, Zenon DEF Apart, SameId
    <3>7. CandsKept
      BY <2>4, <2>8, <2>11, <3>1, Zenon DEF CandsKept, Cand, InHand, SameId
    <3>8. Matching'
      <4>1. Matching
        BY Zenon DEF IInv
      <4>2. ASSUME NEW r \in Req, Wants(n.rev, r) PROVE n.expected = req[r].expected
        <5>1. Wants(p.rev, r)
          BY <2>4, <2>8, <4>2, Zenon DEF Wants, SameId
        <5> QED BY <2>8, <4>1, <5>1, Zenon DEF Matching
      <4>3. n.expected \in {None, n.rev.cfg}
        BY <2>4, <2>8, <2>11, Zenon
      <4> QED BY <2>11, <3>1, <4>1, <4>2, <4>3, Zenon DEF Matching, Wants, Held
    <3>9. HandlesOwned'
      <4>1. Staged(n.rev) = Staged(p.rev)
        BY <2>4, <2>8, HandleFacts DEF Staged
      <4>2. StagedOf(producers') \cup StagedOf(results')
              = StagedOf(producers) \cup StagedOf(results) \cup {Staged(p.rev)}
        BY <2>8, <2>11, <4>1, Zenon DEF StagedOf
      <4>3. PublicHandles' = PublicHandles /\ HandHandles' = HandHandles
        BY <3>1, PublicKept, HandSame, Zenon
      <4>4. StagedHandles' = StagedHandles \cup {Staged(p.rev)}
        BY <4>2, StagedPrime, Zenon DEF StagedHandles
      <4> QED BY <2>11, <4>3, <4>4, OwnedParts, Zenon DEF HandlesOwned, IInv
    <3> QED BY <2>2, <2>9, <3>4, <3>5, <3>6, <3>7, <3>8, <3>9, <1>StagingFrame, Zenon
  <2> QED BY <2>1, <2>6, <2>10, <2>11, Zenon DEF read, n

\* A producer resolves the sources and compiles.
<1>ResolveStep.
    ASSUME IInv, NEW p \in producers, Resolve(p)
    PROVE  IInv' /\ Advance
  <2> USE <1>ResolveStep
  <2>1. /\ p.st = "resolve" /\ UNCHANGED <<loopVars, writerVars, req, pub, src>>
        /\ Deliver(p, p.rev, p.cancelled) \/ Deliver(p, p.rev, TRUE)
    BY Zenon DEF Resolve
  <2>2. p.rev \in Revision /\ p.cancelled \in BOOLEAN /\ p.rev \in Built
    BY <2>1, Zenon DEF IInv, TypeOK, Candidate
  <2>3. SameId(p.rev, p.rev) /\ (p.rev.refresh = 0 => p.expected \in {None, p.rev.cfg})
    BY <2>1, Zenon DEF IInv, Matching, SameId
  <2> QED BY <2>1, <2>2, <2>3, <1>DeliverStep, Zenon

\* A producer releases its result once the run context is done.
<1>DropResultStep.
    ASSUME IInv, NEW p \in producers, DropResult(p)
    PROVE  IInv' /\ Advance
  <2> USE <1>DropResultStep
  <2>1. /\ producers' = producers \ {p} /\ open' = open \ {Staged(p.rev)} /\ results' = results
        /\ UNCHANGED <<loopVars, writerVars, req, pub, src>>
    BY Zenon DEF DropResult
  <2>2. UNCHANGED <<pc, cur, req, pub, src>>
    BY <2>1, Zenon DEF loopVars, loopRest, writerVars
  <2>3. /\ producers \subseteq Candidate /\ results \subseteq Result /\ open \subseteq Handles
        /\ \A q \in producers : q.st = "resolve" => q.rev \in Built
        /\ \A s \in results : ~s.err => s.rev \in Built
        /\ ~booting /\ Apart /\ Matching /\ Kept
    BY Zenon DEF IInv, TypeOK, Booted
  <2>4. StagingKept
    BY <2>1, <2>2, <2>3, Zenon DEF StagingKept, Drawn, Same, Single, Held, InHand
  <2>5. Bound
    BY <2>2, Zenon DEF Bound
  <2>6. CandsKept /\ Apart' /\ Matching'
    BY <2>3, <2>4, <2>5, StagingCands, StagingApart, StagingMatching, Zenon
  <2>7. HandlesOwned'
    <3>1. PublicHandles' = PublicHandles /\ HandHandles' = HandHandles
      BY <2>2, PublicKept, HandSame, Zenon
    <3>2. Staged(p.rev) \notin StagedOf(producers')
      BY <2>1, <2>3, StagedMember DEF Apart, SameId
    <3>3. Staged(p.rev) \notin StagedOf(results')
      BY <2>1, <2>3, StagedMember DEF Apart, SameId
    <3>4. Staged(p.rev) \notin HandHandles
      BY <2>3, StagedMember DEF HandHandles, Apart, SameId, Held
    <3>5. Staged(p.rev) \notin PublicHandles
      BY <2>3, StagedIsStaged, Zenon
    <3>6. StagedHandles' \subseteq StagedHandles /\ StagedHandles \subseteq StagedHandles' \cup {Staged(p.rev)}
      BY <2>1, StagedPrime, Zenon DEF StagedHandles, StagedOf
    <3>7. Staged(p.rev) \notin StagedHandles'
      BY <3>2, <3>3, StagedPrime, Zenon
    <3> QED BY <2>1, <3>1, <3>4, <3>5, <3>6, <3>7, OwnedParts, Zenon DEF HandlesOwned, IInv
  <2>8. producers' \subseteq producers
    BY <2>1, Zenon
  <2> QED BY <2>1, <2>3, <2>6, <2>7, <2>8, <1>StagingFrame, Zenon

<1> QED BY <1>ReadConfigStep, <1>ResolveStep, <1>DropResultStep, Zenon DEF Producer

----------------------------------------------------------------------------
(* Cancellation, CrowdSec and the end of the loop.                         *)

\* Candidates and requests after a step that brings no candidate and commits nothing new.
LEMMA RestKept ==
    ASSUME IInv, eng' \in Writer, Forward, committed \subseteq committed',
           StagingKept, WaiterKept, Answered, Bound
    PROVE  Apart' /\ AllFresh' /\ Asked' /\ Waited' /\ Matching' /\ Honest'
<1>1. eng \in Writer /\ req \in [Req -> Request] /\ waiter \in Waiter \cup {None}
  BY Zenon DEF IInv, TypeOK
<1>2. CandsKept
  BY StagingCands, Zenon
<1>3. Apart' /\ AllFresh' /\ Matching'
  BY <1>1, <1>2, StagingApart, AllFreshKept, StagingMatching, Zenon DEF IInv
<1>4. Grown
  BY <1>2, Zenon DEF Grown, Forward
<1>5. RuledStays
  BY <1>1, <1>4, RuledKept, Zenon
<1>6. Asked' /\ Waited' /\ Honest'
  BY <1>1, <1>4, <1>5, RequestsStep, Zenon DEF IInv, Grown
<1> QED BY <1>3, <1>6, Zenon

\* Requests that do not change.
LEMMA RequestsSame ==
    ASSUME req' = req
    PROVE  Answered /\ Bound
BY Zenon DEF Answered, Bound, Answers

\* Producers that do not change.
LEMMA DrawnSame ==
    ASSUME TypeOK, producers' = producers
    PROVE  Drawn(producers, producers') /\ Muted(producers, producers')
BY MutedSelf, Zenon DEF TypeOK, Muted

\* The staged handles when no producer and no result comes or goes.
LEMMA StagedSame ==
    ASSUME StagedOf(producers') = StagedOf(producers), results' = results
    PROVE  StagedHandles' = StagedHandles
BY StagedPrime, Zenon DEF StagedHandles

\* The loop ends: what it held is left to stopService.
LEMMA EndedPlace ==
    ASSUME pc' \in {"stop", "stopped"}
    PROVE  Told' /\ Phases' /\ HandHandles' = {}
BY Zenon DEF Told, Phases, HandHandles

\* A reservation still fits, and what is published is still committed, when neither
\* changes and commits are only added.
LEMMA FitsSame ==
    ASSUME Fits, Kept, pub'.reservation = pub.reservation, pub'.listener = pub.listener,
           src'.session = src.session, src'.active = src.active, committed \subseteq committed'
    PROVE  Fits' /\ Kept'
<1>1. Fits'
  BY Zenon DEF Fits, Reserved, Listener, Handle
<1>2. Kept'
  BY Zenon DEF Kept, Reserved, Listener, Handle
<1> QED BY <1>1, <1>2, Zenon

\* A step that changes nothing.
LEMMA StutterStep ==
    ASSUME IInv, UNCHANGED vars
    PROVE  IInv' /\ Advance
<1>1. UNCHANGED <<loopVars, writerVars, results, heldVars, producers, req>>
  BY Zenon DEF vars, workVars
<1>2. req' \in [Req -> Request] /\ Answered /\ Bound /\ Muted(producers, producers')
  BY <1>1, RequestsSame, DrawnSame, Zenon DEF IInv, TypeOK
<1> QED BY <1>1, <1>2, HandlerFrame, Zenon

\* The run context is cancelled, or the CrowdSec loop loses or restores its projection.
LEMMA OutsideSteps ==
    IInv /\ (Cancel \/ CrowdSec) => IInv' /\ Advance
\* Cancelling the run context only cancels the producers.
<1>MutedAll.
    ASSUME NEW P \in SUBSET Candidate
    PROVE  Muted(P, {[p EXCEPT !.cancelled = TRUE] : p \in P})
  <2> USE <1>MutedAll
  <2> DEFINE Q == {[p EXCEPT !.cancelled = TRUE] : p \in P}
  <2>1. \A p \in P : [p EXCEPT !.cancelled = TRUE] \in Candidate /\ Same(p, [p EXCEPT !.cancelled = TRUE])
    BY CancelledSame, Zenon
  <2>2. \A q \in Q : \E p \in P : q = [p EXCEPT !.cancelled = TRUE]
    BY Zenon
  <2>3. \A p \in P : \E q \in Q : Same(p, q)
    BY <2>1, Zenon
  <2> HIDE DEF Q
  <2>4. \A q \in Q : q \in Candidate /\ \E p \in P : Same(p, q)
    BY <2>1, <2>2
  <2>5. ASSUME Single(P) PROVE Single(Q)
    <3> SUFFICES ASSUME NEW a \in Q, NEW b \in Q, SameId(a.rev, b.rev) PROVE a = b
      BY Zenon DEF Single
    <3>1. PICK p \in P : a = [p EXCEPT !.cancelled = TRUE]
      BY <2>2, Zenon
    <3>2. PICK q \in P : b = [q EXCEPT !.cancelled = TRUE]
      BY <2>2, Zenon
    <3>3. p.rev = a.rev /\ q.rev = b.rev
      BY <2>1, <3>1, <3>2, Zenon DEF Same
    <3>4. p = q
      BY <2>5, <3>3, Zenon DEF Single
    <3> QED BY <3>1, <3>2, <3>4, Zenon
  <2> QED BY <2>3, <2>4, <2>5, Zenon DEF Muted, Drawn, Q

\* SIGTERM, SIGINT or a failed control listener.
<1>CancelStep.
    ASSUME IInv, Cancel
    PROVE  IInv' /\ Advance
  <2> USE <1>CancelStep
  <2>1. /\ cancelled' = TRUE /\ producers' = {[p EXCEPT !.cancelled = TRUE] : p \in producers}
        /\ UNCHANGED <<pc, booting, ready, waiter, cur, recovery, eng, disk, tx, committed>>
        /\ UNCHANGED <<req, results, pub, src, open>>
    BY Zenon DEF Cancel, writerVars
  <2>2. TypeOK /\ WriterOK /\ eng' \in Writer
    BY <2>1, Zenon DEF IInv, WriterOK, TypeOK
  <2>3. Muted(producers, producers')
    BY <2>1, <2>2, <1>MutedAll, Zenon DEF TypeOK
  <2>4. producers' \subseteq Candidate /\ \A q \in producers' : \E p \in producers : Same(p, q)
    BY <2>3, Zenon DEF Muted, Drawn
  <2>5. TypeOK'
    BY <2>1, <2>2, <2>4 DEF TypeOK, Same
  <2>6. Past' /\ Adopted' /\ Doubted' /\ Advance /\ Forward
    BY <2>1, <2>2, WriterSame, Zenon DEF PlaceKept, Doubted, WriterOK
  <2>7. StagingKept
    BY <2>1, <2>3, Zenon DEF StagingKept, Muted, Held, InHand
  <2>8. WaiterKept
    BY <2>1, Zenon DEF WaiterKept, Settling
  <2>9. Apart' /\ AllFresh' /\ Asked' /\ Waited' /\ Matching' /\ Honest'
    BY <2>1, <2>2, <2>6, <2>7, <2>8, RequestsSame, RestKept, Zenon
  <2>10. Told' /\ Fits' /\ Kept' /\ Phases'
    BY <2>1, PublicationSame, Zenon DEF IInv
  <2>11. Booted'
    BY <2>1, <2>3, MutedEmpty, Zenon DEF IInv, Booted
  <2>12. StagedOf(producers') = StagedOf(producers)
    BY <2>2, <2>3, MutedStaged, Zenon DEF TypeOK
  <2>13. HandlesOwned'
    BY <2>1, <2>12, OwnedSame, Zenon DEF IInv
  <2> QED BY <2>5, <2>6, <2>9, <2>10, <2>11, <2>13, Zenon DEF IInv

\* The CrowdSec loop loses or restores its projection.
<1>CrowdSecStep.
    ASSUME IInv, CrowdSec
    PROVE  IInv' /\ Advance
  <2> USE <1>CrowdSecStep
  <2>1. /\ eng' = [eng EXCEPT !.enforced = ~@]
        /\ UNCHANGED <<pc, booting, cancelled, ready, waiter, cur, recovery, disk, tx, committed>>
        /\ UNCHANGED <<req, producers, results, pub, src, open>>
    BY Zenon DEF CrowdSec, loopVars, loopRest, runVars, workVars, heldVars
  <2>2. TypeOK /\ WriterOK /\ eng \in Writer
    BY Zenon DEF IInv, WriterOK, TypeOK
  <2>3. (~eng.enforced) \in BOOLEAN
    BY Zenon
  <2>4. eng' \in Writer
    BY <2>1, <2>2, <2>3, Zenon DEF Writer
  <2>5. /\ eng'.admitted = eng.admitted /\ eng'.activeEpoch = eng.activeEpoch
        /\ eng'.refreshSequence = eng.refreshSequence /\ eng'.healthy = eng.healthy
    BY <2>1, <2>2, Zenon DEF Writer
  <2>6. TypeOK'
    BY <2>1, <2>2, <2>4, Zenon DEF TypeOK
  <2>7. Past' /\ Adopted' /\ Doubted' /\ Advance /\ Forward
    BY <2>1, <2>2, <2>4, <2>5, WriterSame, Zenon DEF PlaceKept, Doubted, WriterOK
  <2>8. StagingKept
    BY <2>1, <2>2, DrawnSame, Zenon DEF StagingKept, Held, InHand
  <2>9. WaiterKept
    BY <2>1, Zenon DEF WaiterKept, Settling
  <2>10. Apart' /\ AllFresh' /\ Asked' /\ Waited' /\ Matching' /\ Honest'
    BY <2>1, <2>4, <2>7, <2>8, <2>9, RequestsSame, RestKept, Zenon
  <2>11. Told' /\ Fits' /\ Kept' /\ Phases'
    BY <2>1, PublicationSame, Zenon DEF IInv
  <2>12. Booted'
    BY <2>1, Zenon DEF IInv, Booted
  <2>13. HandlesOwned'
    BY <2>1, OwnedSame, Zenon DEF IInv
  <2> QED BY <2>6, <2>7, <2>10, <2>11, <2>12, <2>13, Zenon DEF IInv

<1> QED BY <1>CancelStep, <1>CrowdSecStep, Zenon

\* What the handle in hand is.
LEMMA HandMember ==
    ASSUME NEW h \in HandHandles
    PROVE  pc \in {"reserve", "apply"} /\ cur.session /\ h = Staged(cur.rev)
BY Zenon DEF HandHandles, StagedOf

\* The candidate in hand is staged by nobody else, and not published.
LEMMA HandApart ==
    ASSUME IInv, Held
    PROVE  Staged(cur.rev) \notin StagedHandles \cup PublicHandles
<1>1. Apart /\ Kept
  BY Zenon DEF IInv
<1>2. Staged(cur.rev) \notin StagedOf(producers)
  BY <1>1, StagedMember DEF Apart, SameId
<1>3. Staged(cur.rev) \notin StagedOf(results)
  BY <1>1, StagedMember DEF Apart, SameId
<1>4. Staged(cur.rev) \notin PublicHandles
  BY <1>1, StagedIsStaged, Zenon
<1> QED BY <1>2, <1>3, <1>4, Zenon DEF StagedHandles

\* What is open without the session in hand.
LEMMA HandDropped ==
    ASSUME IInv
    PROVE  /\ open \ HandHandles = StagedHandles \cup PublicHandles
           /\ InHand => open \ {Staged(cur.rev)} = StagedHandles \cup PublicHandles
<1>1. open = StagedHandles \cup HandHandles \cup PublicHandles
  BY OwnedParts, Zenon DEF IInv, HandlesOwned
<1>2. HandHandles # {} => HandHandles = {Staged(cur.rev)} /\ InHand
  BY HandMember, Zenon DEF InHand
<1>3. InHand => Staged(cur.rev) \notin StagedHandles \cup PublicHandles
  BY HandApart, Zenon DEF InHand, Held
<1> QED BY <1>1, <1>2, <1>3, Zenon

\* The loop, or the startup, ends between two operations.
LEMMA EndStep ==
    ASSUME IInv, pc' = "stop", pc \notin {"applied", "stop", "stopped"},
           UNCHANGED <<booting, cancelled, waiter, recovery, disk, tx, committed>>,
           UNCHANGED <<eng, req, producers, results, src>>,
           ready' \in BOOLEAN, pub' \in Publication, pub'.reservation = pub.reservation,
           pub'.listener = pub.listener, open' = open \ HandHandles
    PROVE  IInv' /\ Advance
<1>2. TypeOK /\ WriterOK /\ eng' \in Writer
  BY Zenon DEF IInv, WriterOK, TypeOK
<1>3. TypeOK'
  BY <1>2, Zenon DEF TypeOK
<1>4. Past' /\ Adopted' /\ Doubted' /\ Advance /\ Forward
  BY <1>2, WriterSame, Zenon DEF PlaceKept, Doubted, WriterOK
<1>5. StagingKept
  BY <1>2, DrawnSame, Zenon DEF StagingKept, Held, InHand
<1>6. WaiterKept
  BY Zenon DEF WaiterKept, Settling
<1>7. Apart' /\ AllFresh' /\ Asked' /\ Waited' /\ Matching' /\ Honest'
  BY <1>2, <1>4, <1>5, <1>6, RequestsSame, RestKept, Zenon
<1>8. Told' /\ Phases' /\ HandHandles' = {}
  BY EndedPlace, Zenon
<1>9. Fits' /\ Kept'
  BY FitsSame, Zenon DEF IInv
<1>10. Booted'
  BY Zenon DEF IInv, Booted
<1>11. HandlesOwned'
  <2>1. StagedHandles' = StagedHandles /\ PublicHandles' = PublicHandles
    BY PublicKept, StagedSame, Zenon
  <2>2. open' = StagedHandles' \cup HandHandles' \cup PublicHandles'
    BY <1>8, <2>1, HandDropped, Zenon
  <2> QED BY <2>2, OwnedParts, Zenon DEF HandlesOwned
<1> QED BY <1>3, <1>4, <1>7, <1>8, <1>9, <1>10, <1>11, Zenon DEF IInv

\* There is no session in hand between two applies.
LEMMA NoHand ==
    ASSUME pc \notin {"reserve", "apply"}
    PROVE  HandHandles = {}
BY Zenon DEF HandHandles

\* The select sees the run context done.
LEMMA SeeCancelStep ==
    ASSUME IInv, SeeCancel
    PROVE  IInv' /\ Advance
<1>1. /\ pc = "select" /\ pc' = "stop"
      /\ UNCHANGED <<booting, cancelled, ready, waiter, recovery, eng, disk, tx, committed>>
      /\ UNCHANGED <<req, producers, results, pub, src, open>>
  BY Zenon DEF SeeCancel, loopRest, runVars, writerVars, workVars, heldVars
<1>2. ready' \in BOOLEAN /\ pub' \in Publication
  BY <1>1, Zenon DEF IInv, TypeOK
<1> QED BY <1>1, <1>2, NoHand, EndStep, Zenon

\* The metrics server fails and ends the loop.
LEMMA MetricsFailsStep ==
    ASSUME IInv, MetricsFails
    PROVE  IInv' /\ Advance
<1>1. /\ pc = "select" /\ pc' = "stop" /\ pub' = [pub EXCEPT !.healthy = FALSE]
      /\ UNCHANGED <<booting, cancelled, ready, waiter, recovery, eng, disk, tx, committed>>
      /\ UNCHANGED <<req, producers, results, src, open>>
  BY Zenon DEF MetricsFails, loopRest, runVars, writerVars
<1>2. ready' \in BOOLEAN /\ pub \in Publication
  BY <1>1, Zenon DEF IInv, TypeOK
<1>3. pub' \in Publication
  BY <1>1, <1>2, Zenon DEF Publication
<1>4. pub'.reservation = pub.reservation /\ pub'.listener = pub.listener
  BY <1>1, <1>2, Zenon DEF Publication
<1> QED BY <1>1, <1>2, <1>3, <1>4, NoHand, EndStep, Zenon

\* Startup sees its context done between two steps.
LEMMA BootCancelledStep ==
    ASSUME IInv, BootCancelled
    PROVE  IInv' /\ Advance
<1>1. /\ pc \in {"recover", "stage", "reserve", "announce"} /\ pc' = "stop"
      /\ open' = IF pc = "reserve" THEN open \ {Staged(cur.rev)} ELSE open
      /\ UNCHANGED <<booting, cancelled, ready, waiter, recovery, eng, disk, tx, committed>>
      /\ UNCHANGED <<req, producers, results, pub, src>>
  BY Zenon DEF BootCancelled, loopRest, runVars, writerVars, workVars
<1>2. ready' \in BOOLEAN /\ pub' \in Publication
  BY <1>1, Zenon DEF IInv, TypeOK
<1>3. open' = open \ HandHandles
  BY <1>1, HandDropped, NoHand, Zenon DEF InHand
<1> QED BY <1>1, <1>2, <1>3, EndStep, Zenon

\* systemd is told, or that fails.
LEMMA BootNotifyStep ==
    ASSUME IInv, BootNotify
    PROVE  IInv' /\ Advance
<1>1. /\ pc = "notify" /\ UNCHANGED <<cancelled, waiter, cur, recovery, eng, disk, tx, committed>>
      /\ UNCHANGED <<req, producers, results, pub, src, open>>
      /\ \/ pc' = "select" /\ booting' = FALSE /\ UNCHANGED ready
         \/ pc' = "stop" /\ ready' = FALSE /\ UNCHANGED booting
  BY Zenon DEF BootNotify, writerVars, workVars, heldVars
<1>2. TypeOK /\ WriterOK /\ eng' \in Writer /\ ready' \in BOOLEAN /\ pub' \in Publication
  BY <1>1, Zenon DEF IInv, WriterOK, TypeOK
<1>3. CASE pc' = "stop"
  BY <1>1, <1>2, <1>3, NoHand, EndStep, Zenon
<1>4. CASE pc' = "select" /\ booting' = FALSE /\ UNCHANGED ready
  <2>1. TypeOK'
    BY <1>1, <1>2, <1>4, Zenon DEF TypeOK
  <2>2. Past' /\ Adopted' /\ Doubted' /\ Advance /\ Forward
    BY <1>1, <1>2, <1>4, WriterSame, Zenon DEF PlaceKept, Doubted, WriterOK
  <2>3. StagingKept
    BY <1>1, <1>2, <1>4, DrawnSame, Zenon DEF StagingKept, Held, InHand
  <2>4. WaiterKept
    BY <1>1, Zenon DEF WaiterKept, Settling
  <2>5. Apart' /\ AllFresh' /\ Asked' /\ Waited' /\ Matching' /\ Honest'
    BY <1>1, <1>2, <2>2, <2>3, <2>4, RequestsSame, RestKept, Zenon
  <2>6. Told' /\ Booted'
    BY <1>1, <1>4, Zenon DEF Told, Booted, IInv
  <2>7. Phases'
    BY <1>1, <1>4, Zenon DEF Phases, Booted, IInv, Shows, Recovering
  <2>8. Fits' /\ Kept'
    BY <1>1, FitsSame, Zenon DEF IInv
  <2>9. HandHandles = {} /\ HandHandles' = {}
    BY <1>1, <1>4, Zenon DEF HandHandles
  <2>10. HandlesOwned'
    BY <1>1, <2>9, PublicKept, StagedSame, OwnedParts, Zenon DEF HandlesOwned, IInv
  <2> QED BY <2>1, <2>2, <2>5, <2>6, <2>7, <2>8, <2>10, Zenon DEF IInv
<1> QED BY <1>1, <1>3, <1>4, Zenon

\* notifyReady: requests are accepted from here on.
LEMMA BootAnnounceStep ==
    ASSUME IInv, BootAnnounce
    PROVE  IInv' /\ Advance
<1>1. /\ pc = "announce" /\ pc' = "notify" /\ ready' = TRUE
      /\ UNCHANGED <<booting, cancelled, waiter, recovery, eng, disk, tx, committed>>
      /\ UNCHANGED <<req, producers, results, pub, src, open>>
  BY Zenon DEF BootAnnounce, writerVars, workVars, heldVars
<1>2. TypeOK /\ WriterOK /\ eng' \in Writer
  BY <1>1, Zenon DEF IInv, WriterOK, TypeOK
<1>3. TypeOK'
  BY <1>1, <1>2, Zenon DEF TypeOK
<1>4. Past' /\ Adopted' /\ Doubted' /\ Advance /\ Forward
  BY <1>1, <1>2, WriterSame, Zenon DEF PlaceKept, Doubted, WriterOK, IInv
<1>5. StagingKept
  BY <1>1, <1>2, DrawnSame, Zenon DEF StagingKept, Held, InHand
<1>6. WaiterKept
  BY <1>1, Zenon DEF WaiterKept, Settling
<1>7. Apart' /\ AllFresh' /\ Asked' /\ Waited' /\ Matching' /\ Honest'
  BY <1>1, <1>2, <1>4, <1>5, <1>6, RequestsSame, RestKept, Zenon
<1>8. Told' /\ Booted'
  BY <1>1, Zenon DEF Told, Booted, IInv
<1>9. Phases'
  BY <1>1, Zenon DEF Phases, Booted, IInv, Shows, Recovering
<1>10. Fits' /\ Kept'
  BY <1>1, FitsSame, Zenon DEF IInv
<1>11. HandHandles = {} /\ HandHandles' = {}
  BY <1>1, Zenon DEF HandHandles
<1>12. HandlesOwned'
  BY <1>1, <1>11, PublicKept, StagedSame, OwnedParts, Zenon DEF HandlesOwned, IInv
<1> QED BY <1>3, <1>4, <1>7, <1>8, <1>9, <1>10, <1>12, Zenon DEF IInv

\* The loop answers request w, and changes no other request.
LEMMA BoxFacts ==
    ASSUME NEW f \in [Req -> Request], NEW w \in Req, NEW a \in Answer
    PROVE  LET R == [f EXCEPT ![w].box = a]
           IN  /\ R \in [Req -> Request] /\ \A s \in Req : s # w => R[s] = f[s]
               /\ R[w].box = a /\ R[w].st = f[w].st /\ R[w].got = f[w].got
               /\ R[w].epoch = f[w].epoch /\ R[w].expected = f[w].expected
<1> DEFINE R == [f EXCEPT ![w].box = a]
           q == [f[w] EXCEPT !.box = a]
<1>1. R = [f EXCEPT ![w] = q]
  BY Zenon
<1>2. f[w] \in Request
  BY Zenon
<1>3. q \in Request
  BY <1>2, Zenon DEF Request
<1>4. /\ q.box = a /\ q.st = f[w].st /\ q.got = f[w].got
      /\ q.epoch = f[w].epoch /\ q.expected = f[w].expected
  BY <1>2, Zenon DEF Request
<1> HIDE DEF q, R
<1>5. R \in [Req -> Request] /\ R[w] = q /\ \A s \in Req : s # w => R[s] = f[s]
  BY <1>1, <1>3, Zenon
<1> QED BY <1>4, <1>5, Zenon DEF R

\* A true answer in a request's box leaves all answers true.
LEMMA BoxAnswered ==
    ASSUME IInv, NEW w \in Req, NEW a \in Answer, req' = [req EXCEPT ![w].box = a],
           req[w].st \notin {"new", "offered"},
           req'[w].epoch = req[w].epoch /\ req'[w].expected = req[w].expected
             => TrueAnswer(a, req[w])'
    PROVE  req' \in [Req -> Request] /\ Answered /\ Bound
<1>1. req \in [Req -> Request]
  BY Zenon DEF IInv, TypeOK
<1>2. /\ req' \in [Req -> Request] /\ \A s \in Req : s # w => req'[s] = req[s]
      /\ req'[w].box = a /\ req'[w].st = req[w].st /\ req'[w].got = req[w].got
      /\ req'[w].epoch = req[w].epoch /\ req'[w].expected = req[w].expected
  BY <1>1, BoxFacts
<1>3. Bound
  BY <1>2, Zenon DEF Bound
<1>4. TrueAnswer(a, req[w])'
  BY <1>2, Zenon
<1>5. \A s \in Req : s # w => Answers(s)' = Answers(s)
  BY <1>2, Zenon DEF Answers
<1>6. \A b \in Answers(w)' : b \in Answers(w) \/ b = a
  BY <1>2, Zenon DEF Answers
<1>7. Answered
  BY <1>2, <1>4, <1>5, <1>6, Zenon DEF Answered
<1> QED BY <1>2, <1>3, <1>7, Zenon

\* "rejected" is true of a reload that is ruled out.
LEMMA RejectedTrue ==
    ASSUME NEW w \in Req, NEW a, a.outcome = "rejected",
           \A e \in Epoch : e = req'[w].epoch => Ruled(e)', req'[w].epoch \in Epoch
    PROVE  TrueAnswer(a, req[w])'
BY Zenon DEF TrueAnswer, Ruled, Cand

\* The waiter is answered "rejected" when its reload is ruled out.
LEMMA WaiterRejectedFacts ==
    ASSUME IInv, req' = WaiterRejected, \A e \in Epoch : waiter # None /\ e = waiter.epoch => Ruled(e)'
    PROVE  req' \in [Req -> Request] /\ Answered /\ Bound
<1>1. CASE waiter = None
  BY <1>1, RequestsSame, Zenon DEF WaiterRejected, IInv, TypeOK
<1>2. CASE waiter # None
  <2>1. PICK w \in Req : w = waiter.req
    BY <1>2, Zenon DEF IInv, TypeOK, Waiter
  <2>2. PICK a \in Answer : a = Ans("rejected", None, None) /\ a.outcome = "rejected"
    BY RefusalTyped, Zenon
  <2>3. req[w].epoch = waiter.epoch /\ req[w].st \notin {"new", "offered"} /\ waiter.epoch \in Epoch
    BY <1>2, <2>1, Zenon DEF IInv, TypeOK, Waited, Waiter
  <2>4. req' = [req EXCEPT ![w].box = a]
    BY <1>2, <2>1, <2>2, Zenon DEF WaiterRejected
  <2>5. req'[w].epoch = req[w].epoch => TrueAnswer(a, req[w])'
    BY <1>2, <2>2, <2>3, RejectedTrue, Zenon
  <2> QED BY <2>3, <2>4, <2>5, BoxAnswered, Zenon
<1> QED BY <1>1, <1>2, Zenon

\* stopService: the waiter is answered, everything is closed.
LEMMA StopServiceStep ==
    ASSUME IInv, StopService
    PROVE  IInv' /\ Advance
<1>1. /\ pc = "stop" /\ pc' = "stopped" /\ ready' = FALSE /\ cancelled' = TRUE
      /\ req' = WaiterRejected /\ waiter' = None /\ producers' = {} /\ results' = {}
      /\ src' = [src EXCEPT !.session = None, !.timer = FALSE, !.reloadEpoch = 0, !.refreshing = None]
      /\ pub' = [pub EXCEPT !.reservation = None, !.listener = None, !.telemetry = FALSE]
      /\ open' = open \ (StagedOf(producers) \cup StagedOf(results) \cup SourceHandles
                          \cup ListenerHandles \cup ReservationHandles(pub.reservation))
      /\ recovery' = "none" /\ UNCHANGED <<booting, eng, disk, tx, committed>>
  BY Zenon DEF StopService, writerVars
<1>2. TypeOK /\ WriterOK /\ eng' \in Writer /\ pub \in Publication /\ src \in Sources
  BY <1>1, Zenon DEF IInv, WriterOK, TypeOK
<1>3. src' \in Sources
  <2>1. 0 \in Epoch
    BY BoundsAssumption DEF Epoch
  <2> QED BY <1>1, <1>2, <2>1, Zenon DEF Sources
<1>4. pub' \in Publication
  BY <1>1, <1>2, Zenon DEF Publication
<1>5. src'.session = None /\ pub'.reservation = None /\ pub'.listener = None
  BY <1>1, <1>2, Zenon DEF Sources, Publication
<1>6. Past' /\ Adopted' /\ Doubted' /\ Advance /\ Forward /\ Taken' = Taken
  BY <1>1, <1>2, WriterSame, Zenon DEF PlaceKept, Doubted, WriterOK
<1>7. StagingKept
  BY <1>1, Zenon DEF StagingKept, Held, InHand, Drawn, Single
<1>8. WaiterKept
  BY <1>1, Zenon DEF WaiterKept
<1>9. \A e \in Epoch : waiter # None /\ e = waiter.epoch => Ruled(e)'
  BY <1>1, <1>6, Zenon DEF IInv, Waited, Settling, Ruled, Cand, InHand
<1>10. req' \in [Req -> Request] /\ Answered /\ Bound
  BY <1>1, <1>9, WaiterRejectedFacts, Zenon
<1>11. Apart' /\ AllFresh' /\ Asked' /\ Waited' /\ Matching' /\ Honest'
  BY <1>1, <1>2, <1>6, <1>7, <1>8, <1>10, RestKept, Zenon
<1>12. Told' /\ Phases' /\ HandHandles' = {}
  BY <1>1, EndedPlace, Zenon
<1>13. Fits' /\ Kept' /\ Booted'
  BY <1>1, <1>5, Zenon DEF Fits, Kept, Booted
<1>14. HandlesOwned'
  <2>1. PublicHandles' = {}
    BY <1>5, Zenon DEF PublicHandles, SourceHandles, ListenerHandles, ReservationHandles
  <2>2. StagedHandles' = {}
    BY <1>1, Zenon DEF StagedHandles, StagedOf
  <2>3. open' = open \ (StagedHandles \cup PublicHandles)
    BY <1>1, Zenon DEF StagedHandles, PublicHandles
  <2>4. open = StagedHandles \cup PublicHandles
    BY <1>1, NoHand, OwnedParts, Zenon DEF IInv, HandlesOwned
  <2> QED BY <1>12, <2>1, <2>2, <2>3, <2>4, OwnedParts, Zenon DEF HandlesOwned
<1>15. TypeOK'
  <2>1. open' \subseteq Handles
    BY <1>1, <1>2, Zenon DEF TypeOK
  <2> QED BY <1>1, <1>2, <1>3, <1>4, <1>10, <2>1, Zenon DEF TypeOK
<1> QED BY <1>6, <1>11, <1>12, <1>13, <1>14, <1>15, Zenon DEF IInv

----------------------------------------------------------------------------
(* Admission and refreshes.                                                *)

\* A goroutine starts to stage the candidate n.
LEMMA CandidateAdded ==
    ASSUME IInv, NEW Q, Muted(producers, Q), NEW n \in Candidate, producers' = Q \cup {n},
           results' = results, pc' = "select", pc = "select",
           ~Cand(n.rev.epoch, n.rev.refresh)
    PROVE  /\ Apart'
           /\ \A e \in Epoch, f \in 0..MaxRefresh :
                Cand(e, f)' => Cand(e, f) \/ (e = n.rev.epoch /\ f = n.rev.refresh)
<1>1. Apart
  BY Zenon DEF IInv
<1>2. \A q \in Q : \E p \in producers : p.rev = q.rev
  BY Zenon DEF Muted, Drawn, Same
<1>3. \A q, t \in Q : SameId(q.rev, t.rev) => q = t
  BY <1>1, Zenon DEF Muted, Drawn, Apart, Single
<1>4. /\ \A p \in producers : ~SameId(n.rev, p.rev)
      /\ \A s \in results : ~SameId(n.rev, s.rev)
  BY Zenon DEF Cand, SameId
<1>5. \A q, t \in producers' : SameId(q.rev, t.rev) => q = t
  BY <1>2, <1>3, <1>4 DEF SameId
<1>6. \A q \in producers', s \in results' : ~SameId(q.rev, s.rev)
  BY <1>1, <1>2, <1>4, Zenon DEF Apart
<1>7. Apart'
  BY <1>1, <1>5, <1>6, Zenon DEF Apart, SameId, Held
<1>8. \A e \in Epoch, f \in 0..MaxRefresh :
        Cand(e, f)' => Cand(e, f) \/ (e = n.rev.epoch /\ f = n.rev.refresh)
  BY <1>2 DEF Cand, InHand
<1> QED BY <1>7, <1>8, Zenon

\* One more candidate, which can be applied.
LEMMA AllFreshMore ==
    ASSUME AllFresh, eng \in Writer, eng' \in Writer, Forward, NEW m \in Epoch, NEW k \in 0..MaxRefresh,
           \A e \in Epoch, f \in 0..MaxRefresh : Cand(e, f)' => Cand(e, f) \/ (e = m /\ f = k),
           \A e \in Epoch, f \in 0..MaxRefresh : e = m /\ f = k => Fresh(e, f)'
    PROVE  AllFresh'
<1> SUFFICES ASSUME NEW e \in Epoch, NEW f \in 0..MaxRefresh, Cand(e, f)'
             PROVE  Fresh(e, f)'
  BY Zenon DEF AllFresh
<1>1. e \in Nat /\ f \in Nat
  BY BoundsAssumption DEF Epoch
<1>2. CASE Cand(e, f)
  BY <1>1, <1>2, FreshKept, Zenon DEF AllFresh
<1> QED BY <1>2, Zenon

\* The loop waits and recovers nothing: what the writer's state is.
LEMMA Quiet ==
    ASSUME IInv, pc = "select", ~Recovering
    PROVE  /\ pub.reservation = None /\ tx = None /\ Taken = committed
           /\ disk \in Built /\ disk # None /\ src.active = disk /\ Shows(disk)
           /\ eng.activeEpoch = disk.epoch /\ disk.refresh <= eng.refreshSequence
           /\ eng.activeEpoch <= eng.admitted
           /\ \A c \in committed : c = disk \/ Newer(disk, c)
<1>1. pub.reservation = None /\ tx = None /\ Shows(disk)
  BY Zenon DEF IInv, Phases
<1>2. disk # None /\ src.active = disk
  BY <1>1, Zenon DEF Shows
<1>3. disk \in Built
  BY <1>2, Zenon DEF IInv, TypeOK, OptRev
<1>4. Chosen(eng, disk) /\ eng.activeEpoch <= eng.admitted
  BY Zenon DEF IInv, Adopted
<1>5. \A c \in committed : c = disk \/ Newer(disk, c)
  BY <1>2, Zenon DEF IInv, Past
<1> QED BY <1>1, <1>2, <1>3, <1>4, <1>5, Zenon DEF Chosen, Taken

\* A request or a SIGHUP reaches the loop, which admits a reload or refuses it (run.go
\* admitReload).
LEMMA ReloadSteps ==
    IInv /\ ((\E r \in Req : Accept(r)) \/ Hangup) => IInv' /\ Advance
\* admitReload refuses a request.
<1>RefuseStep.
    ASSUME IInv, NEW r \in Req \cup {None}, r # None => req[r].st = "offered", Refuse(r),
           UNCHANGED <<faults, pc, runVars, cur, recovery, disk, tx, committed, results, pub, open>>
    PROVE  IInv' /\ Advance
  <2> USE <1>RefuseStep
  <2>1. /\ UNCHANGED <<loopVars, writerVars, results, heldVars>> /\ producers' = producers
        /\ req' = IF r = None THEN req
                  ELSE [req EXCEPT ![r].st = "accepted", ![r].box = Ans("rejected", None, None)]
    BY Zenon DEF Refuse, loopVars, loopRest, writerVars, heldVars
  <2>2. Muted(producers, producers')
    BY <2>1, DrawnSame, Zenon DEF IInv
  <2>3. CASE r = None
    BY <2>1, <2>2, <2>3, RequestsSame, HandlerFrame, Zenon DEF IInv, TypeOK
  <2>4. CASE r # None
    <3> DEFINE a == Ans("rejected", None, None)
               q == [req[r] EXCEPT !.st = "accepted", !.box = a]
    <3>1. r \in Req /\ req \in [Req -> Request] /\ req[r] \in Request
      BY <2>4, Zenon DEF IInv, TypeOK
    <3>2. req[r].epoch = 0 /\ req[r].box = None /\ req[r].got = None
      BY <2>4, <3>1, Zenon DEF IInv, Asked
    <3>3. a \in Answer /\ a.outcome = "rejected"
      BY RefusalTyped, Zenon
    <3>4. req' = [req EXCEPT ![r] = q]
      BY <2>1, <2>4, Zenon
    <3> HIDE DEF a
    <3>5. q \in Request
      BY <3>1, <3>3, Zenon DEF Request
    <3>6. q.st = "accepted" /\ q.box = a /\ q.epoch = 0 /\ q.got = None
      BY <3>1, <3>2, Zenon DEF Request
    <3> HIDE DEF q
    <3>7. req' \in [Req -> Request] /\ req'[r] = q /\ \A s \in Req : s # r => req'[s] = req[s]
      BY <3>1, <3>4, <3>5, Zenon
    <3>8. Bound
      BY <3>2, <3>6, <3>7, Zenon DEF Bound
    <3>9. \A b \in Answers(r)' : TrueAnswer(b, req[r])'
      BY <3>3, <3>6, <3>7, Zenon DEF Answers, TrueAnswer
    <3>10. \A s \in Req : s # r => Answers(s)' = Answers(s)
      BY <3>7, Zenon DEF Answers
    <3>11. Answered
      BY <3>1, <3>2, <3>6, <3>7, <3>9, <3>10, Zenon DEF Answered
    <3> QED BY <2>1, <2>2, <3>7, <3>8, <3>11, HandlerFrame, Zenon
  <2> QED BY <2>3, <2>4, Zenon

\* What superseding the waiter does to the requests.
<1>WaiterRejectedShape.
    ASSUME IInv, NEW s \in Req
    PROVE  LET W == WaiterRejected
           IN  /\ W \in [Req -> Request] /\ W[s].st = req[s].st /\ W[s].epoch = req[s].epoch
               /\ W[s].expected = req[s].expected /\ W[s].got = req[s].got
               /\ \/ W[s].box = req[s].box
                  \/ /\ waiter # None /\ s = waiter.req
                     /\ W[s].box = Ans("rejected", None, None)
  <2> USE <1>WaiterRejectedShape
  <2>1. req \in [Req -> Request]
    BY Zenon DEF IInv, TypeOK
  <2>2. CASE waiter = None
    BY <2>1, <2>2, Zenon DEF WaiterRejected
  <2>3. CASE waiter # None
    <3>1. waiter.req \in Req
      BY <2>3, Zenon DEF IInv, TypeOK, Waiter
    <3> DEFINE a == Ans("rejected", None, None)
               R == [req EXCEPT ![waiter.req].box = a]
    <3>2. a \in Answer
      BY RefusalTyped, Zenon
    <3> HIDE DEF a
    <3>3. /\ R \in [Req -> Request] /\ (s # waiter.req => R[s] = req[s])
          /\ LET w == waiter.req
             IN  /\ R[w].box = a /\ R[w].st = req[w].st /\ R[w].got = req[w].got
                 /\ R[w].epoch = req[w].epoch /\ R[w].expected = req[w].expected
      BY <2>1, <3>1, <3>2, BoxFacts
    <3>4. WaiterRejected = R
      BY <2>3, Zenon DEF WaiterRejected, a
    <3> HIDE DEF R
    <3> QED BY <2>3, <3>1, <3>3, <3>4, Zenon DEF a
  <2> QED BY <2>2, <2>3, Zenon

\* What admitReload does to the writer, the sources and the requests.
<1>AdmitFacts.
    ASSUME IInv, NEW r \in Req \cup {None}, r # None => req[r].st = "offered", Admit(r),
           eng.admitted # MaxEpoch
    PROVE  LET e == eng.admitted + 1
           IN  /\ e \in Epoch /\ eng' \in Writer /\ eng'.admitted = e /\ eng'.healthy = eng.healthy
               /\ eng'.activeEpoch = eng.activeEpoch /\ eng'.refreshSequence = eng.refreshSequence
               /\ src' \in Sources /\ src'.active = src.active /\ src'.session = src.session
               /\ req' \in [Req -> Request]
               /\ \A s \in Req : s # r => req'[s] = WaiterRejected[s]
               /\ r # None => /\ req'[r].st = "accepted" /\ req'[r].epoch = e
                              /\ req'[r].expected = req[r].expected
                              /\ req'[r].box = None /\ req'[r].got = None
  <2> USE <1>AdmitFacts
  <2> DEFINE e == eng.admitted + 1
             W == WaiterRejected
  <2>1. /\ eng' = [eng EXCEPT !.admitted = e]
        /\ req' = IF r = None THEN W ELSE [W EXCEPT ![r].st = "accepted", ![r].epoch = e]
        /\ src' = [src EXCEPT !.reloadEpoch = e]
    BY Zenon DEF Admit
  <2>2. eng \in Writer /\ src \in Sources /\ req \in [Req -> Request]
    BY Zenon DEF IInv, TypeOK
  <2>3. e \in Epoch
    BY <2>2, BoundsAssumption, WriterTyped DEF Epoch
  <2> HIDE DEF e
  <2>4. eng' \in Writer /\ src' \in Sources
    BY <2>1, <2>2, <2>3, Zenon DEF Writer, Sources
  <2>5. /\ eng'.admitted = e /\ eng'.healthy = eng.healthy
        /\ eng'.activeEpoch = eng.activeEpoch /\ eng'.refreshSequence = eng.refreshSequence
        /\ src'.active = src.active /\ src'.session = src.session
    BY <2>1, <2>2, Zenon DEF Writer, Sources
  <2>6. CASE r = None
    <3>1. req' = W
      BY <2>1, <2>6, Zenon
    <3>2. \A s \in Req : W \in [Req -> Request]
      BY <1>WaiterRejectedShape, Zenon
    <3>3. req' \in [Req -> Request]
      BY <2>2, <2>6, <3>1, <3>2, Zenon DEF WaiterRejected, IInv, TypeOK, Waiter
    <3> QED BY <2>3, <2>4, <2>5, <2>6, <3>1, <3>3, Zenon DEF e
  <2>7. CASE r # None
    <3> DEFINE q == [W[r] EXCEPT !.st = "accepted", !.epoch = e]
    <3>1. r \in Req
      BY <2>7, Zenon
    <3>2. W \in [Req -> Request] /\ W[r].expected = req[r].expected /\ W[r].got = req[r].got
      BY <3>1, <1>WaiterRejectedShape, Zenon
    <3>3. ~(waiter # None /\ r = waiter.req)
      BY <2>7, Zenon DEF IInv, Waited
    <3>4. W[r].box = req[r].box
      BY <3>1, <3>3, <1>WaiterRejectedShape, Zenon
    <3>5. req[r].box = None /\ req[r].got = None
      BY <2>7, <3>1, Zenon DEF IInv, Asked
    <3> HIDE DEF W
    <3>6. req' = [W EXCEPT ![r] = q]
      BY <2>1, <2>7, Zenon
    <3>7. W[r] \in Request
      BY <3>1, <3>2, Zenon
    <3>8. q \in Request
      BY <2>3, <3>7, Zenon DEF Request
    <3>9. q.st = "accepted" /\ q.epoch = e /\ q.expected = W[r].expected /\ q.box = W[r].box /\ q.got = W[r].got
      BY <3>7, Zenon DEF Request
    <3> HIDE DEF q
    <3>10. req' \in [Req -> Request] /\ req'[r] = q /\ \A s \in Req : s # r => req'[s] = W[s]
      BY <3>1, <3>2, <3>6, <3>8, Zenon
    <3> QED BY <2>3, <2>4, <2>5, <3>2, <3>4, <3>5, <3>9, <3>10, Zenon DEF e, W
  <2> QED BY <2>6, <2>7, Zenon

\* admitReload admits a reload under a new epoch: the waiter's reload, of an earlier
\* epoch, is ruled out for good, and no candidate or request had the new epoch.
<1>AdmitStep.
    ASSUME IInv, NEW r \in Req \cup {None}, r # None => req[r].st = "offered", Admit(r), ~Refused(r),
           pc = "select",
           UNCHANGED <<faults, pc, runVars, cur, recovery, disk, tx, committed, results, pub, open>>
    PROVE  IInv' /\ Advance
  <2> USE <1>AdmitStep
  <2> DEFINE m == eng.admitted + 1
             Q == CancelStaging(producers, src.reloadEpoch, 0)
             d == IF r = None THEN None ELSE req[r].expected
             x == [epoch |-> m, refresh |-> 0, cfg |-> None]
             n == [rev |-> x, st |-> "read", expected |-> d, cancelled |-> FALSE, session |-> FALSE]
  <2>1. /\ waiter' = IF r = None THEN None ELSE [req |-> r, epoch |-> m]
        /\ producers' = Q \cup {n}
        /\ UNCHANGED <<pc, booting, cancelled, ready, cur, recovery, disk, tx, committed, results, pub, open>>
    BY Zenon DEF Admit, runVars
  <2>2. ~Recovering /\ eng.admitted # MaxEpoch
    BY Zenon DEF Refused
  <2>3. TypeOK /\ WriterOK /\ eng \in Writer /\ req \in [Req -> Request] /\ producers \subseteq Candidate
    BY Zenon DEF IInv, WriterOK, TypeOK
  <2>4. /\ pub.reservation = None /\ tx = None /\ Taken = committed
        /\ disk \in Built /\ disk # None /\ eng.activeEpoch = disk.epoch
        /\ eng.activeEpoch <= eng.admitted
        /\ \A c \in committed : c = disk \/ Newer(disk, c)
    BY <2>2, Quiet, Zenon
  <2>5. /\ m \in Epoch /\ eng' \in Writer /\ eng'.admitted = m /\ eng'.healthy = eng.healthy
        /\ eng'.activeEpoch = eng.activeEpoch /\ eng'.refreshSequence = eng.refreshSequence
        /\ src' \in Sources /\ src'.active = src.active /\ src'.session = src.session
        /\ req' \in [Req -> Request]
        /\ \A s \in Req : s # r => req'[s] = WaiterRejected[s]
        /\ r # None => /\ req'[r].st = "accepted" /\ req'[r].epoch = m
                       /\ req'[r].expected = req[r].expected
                       /\ req'[r].box = None /\ req'[r].got = None
    BY <2>2, <1>AdmitFacts, Zenon
  <2>6. eng.admitted \in Nat /\ eng.activeEpoch \in Nat /\ eng.refreshSequence \in Nat /\ m \in Nat
        /\ m > eng.admitted /\ eng.admitted <= m /\ 0 < m
    BY <2>3, WriterTyped
  <2>7. d \in Digest \cup {None} /\ (r # None => d = req[r].expected)
    BY <2>3, Zenon DEF Request
  <2>8. x \in Revision /\ x.epoch = m /\ x.refresh = 0
    BY <2>5, BoundsAssumption DEF Revision
  <2> HIDE DEF x, d
  <2>9. n \in Candidate /\ n.rev = x /\ n.st = "read" /\ n.expected = d /\ n.session = FALSE
    BY <2>7, <2>8, Zenon DEF Candidate
  <2>10. Muted(producers, Q)
    BY <2>3, StagingMuted, Zenon
  <2> HIDE DEF n, Q, m
  <2>11. \A c \in Taken : c.epoch # m
    <3>1. ASSUME NEW c \in committed PROVE c.epoch # m
      <4>1. c \in Built /\ c.epoch \in Nat /\ disk.epoch \in Nat
        BY <2>3, <2>4, BuiltTyped, Zenon DEF TypeOK
      <4>2. c.epoch <= disk.epoch
        BY <2>4, <4>1, NewerSame, Ordered, Zenon
      <4>3. c.epoch <= eng.admitted
        <5>1. disk.epoch <= eng.admitted
          BY <2>4, Zenon
        <5> QED BY <2>6, <4>1, <4>2, <5>1, AtMost, Zenon
      <4> QED BY <2>6, <4>1, <4>3, Beneath, Zenon
    <3> QED BY <2>4, <3>1, Zenon
  <2>12. \A e \in Epoch, f \in 0..MaxRefresh : Cand(e, f) => e # m
    <3>1. ASSUME NEW e \in Epoch, NEW f \in 0..MaxRefresh, Cand(e, f) PROVE e <= eng.admitted
      BY <3>1, Zenon DEF IInv, AllFresh, Fresh
    <3> QED BY <2>6, <3>1, EpochTyped, Beneath, Zenon
  <2>13. ~Cand(n.rev.epoch, n.rev.refresh)
    BY <2>5, <2>8, <2>9, <2>12, EpochTyped, Zenon
  <2>14. /\ Apart'
         /\ \A e \in Epoch, f \in 0..MaxRefresh : Cand(e, f)' => Cand(e, f) \/ (e = m /\ f = 0)
    BY <2>1, <2>8, <2>9, <2>10, <2>13, CandidateAdded, Zenon
  <2>15. Past' /\ Adopted' /\ Doubted' /\ Advance /\ Taken' = Taken /\ Forward
    <3>1. Past' /\ Taken' = Taken /\ Advance
      BY <2>1, Zenon DEF IInv, Past, Taken, Advance
    <3>2. Adopted'
      <4>1. Chosen(eng, disk)
        BY <2>4, Zenon DEF IInv, Adopted
      <4>2. eng'.activeEpoch <= eng'.admitted
        BY <2>4, <2>5, <2>6, AtMost, Zenon
      <4>3. Chosen(eng', disk')
        BY <2>1, <2>5, <4>1, Zenon DEF Chosen
      <4> QED BY <4>2, <4>3, Zenon DEF Adopted
    <3>3. Doubted'
      BY <2>1, <2>4, Zenon DEF Doubted
    <3>4. Forward
      BY <2>5, <2>6, <3>1, Ordered, Zenon DEF Forward
    <3> QED BY <3>1, <3>2, <3>3, <3>4, Zenon
  <2>16. AllFresh'
    <3>1. \A e \in Epoch, f \in 0..MaxRefresh : e = m /\ f = 0 => Fresh(e, f)'
      BY <2>5, <2>6, <2>11, <2>15, Ordered, Zenon DEF Fresh
    <3>2. AllFresh /\ eng \in Writer /\ eng' \in Writer /\ Forward /\ m \in Epoch
      BY <2>3, <2>5, <2>15, Zenon DEF IInv
    <3> QED BY <2>14, <3>1, <3>2, AllFreshMore, EpochTyped, Zenon
  <2>17. /\ \A s \in Req : s # r => /\ req'[s].st = req[s].st /\ req'[s].epoch = req[s].epoch
                                    /\ req'[s].expected = req[s].expected /\ req'[s].got = req[s].got
                                    /\ \/ req'[s].box = req[s].box
                                       \/ /\ waiter # None /\ s = waiter.req
                                          /\ req'[s].box = Ans("rejected", None, None)
         /\ \A s \in Req : req[s].epoch \in Nat /\ req[s].epoch \in Epoch /\ req[s].epoch <= eng.admitted
    <3>1. \A s \in Req : req[s].epoch \in Nat /\ req[s].epoch \in Epoch /\ req[s].epoch <= eng.admitted
      <4>1. Asked
        BY Zenon DEF IInv
      <4> QED BY <2>3, <4>1, EpochTyped, Zenon DEF Request, Asked
    <3>2. \A s \in Req : s # r => req'[s] = WaiterRejected[s]
      BY <2>5, Zenon
    <3>3. ASSUME NEW s \in Req, s # r
          PROVE  /\ req'[s].st = req[s].st /\ req'[s].epoch = req[s].epoch
                 /\ req'[s].expected = req[s].expected /\ req'[s].got = req[s].got
                 /\ \/ req'[s].box = req[s].box
                    \/ /\ waiter # None /\ s = waiter.req
                       /\ req'[s].box = Ans("rejected", None, None)
      BY <3>2, <3>3, <1>WaiterRejectedShape, Zenon
    <3> QED BY <3>1, <3>3, Zenon
  <2>18. Asked'
    <3> SUFFICES ASSUME NEW s \in Req
                 PROVE  /\ req'[s].epoch <= eng'.admitted
                        /\ req'[s].st \in {"new", "offered"} =>
                             req'[s].box = None /\ req'[s].got = None /\ req'[s].epoch = 0
      BY Zenon DEF Asked
    <3>1. CASE s = r
      <4>1. r # None /\ req'[s].epoch = m /\ eng'.admitted = m /\ req'[s].st = "accepted"
        BY <2>5, <3>1, ListenAssumption, Zenon
      <4> QED BY <2>6, <4>1, Ordered, Zenon
    <3>2. CASE s # r
      <4>1. waiter # None /\ s = waiter.req => req[s].st \notin {"new", "offered"}
        BY Zenon DEF IInv, Waited
      <4>2. req[s].st \in {"new", "offered"} => req[s].box = None /\ req[s].got = None /\ req[s].epoch = 0
        BY Zenon DEF IInv, Asked
      <4>3. req'[s].epoch <= eng'.admitted
        BY <2>5, <2>6, <2>17, <3>2, AtMost, Zenon
      <4>4. req'[s].st \in {"new", "offered"} => req'[s].box = None /\ req'[s].got = None /\ req'[s].epoch = 0
        BY <2>17, <3>2, <4>1, <4>2, Zenon
      <4> QED BY <4>3, <4>4, Zenon
    <3> QED BY <3>1, <3>2, Zenon
  <2>19. Waited'
    <3> SUFFICES ASSUME waiter' # None
                 PROVE  /\ 0 < waiter'.epoch /\ req'[waiter'.req].epoch = waiter'.epoch
                        /\ req'[waiter'.req].st \notin {"new", "offered"}
                        /\ \A c \in Taken' : c.epoch # waiter'.epoch
      BY Zenon DEF Waited
    <3>1. r # None /\ waiter'.req = r /\ waiter'.epoch = m
      BY <2>1, Zenon
    <3> QED BY <2>5, <2>6, <2>11, <2>15, <3>1, Zenon
  <2>20. RuledStays
    <3> SUFFICES ASSUME NEW e \in Epoch, e <= eng.admitted, Ruled(e) PROVE Ruled(e)'
      BY Zenon DEF RuledStays
    <3>1. e < eng'.admitted
      BY <2>5, <2>6, EpochTyped, Beneath, Zenon
    <3> QED BY <2>15, <3>1, Zenon DEF Ruled
  <2>21. Honest'
    <3> SUFFICES ASSUME NEW s \in Req, NEW a \in Answers(s)'
                 PROVE  \/ /\ a \in Answers(s) /\ req'[s].expected = req[s].expected
                           /\ req'[s].epoch = req[s].epoch
                        \/ TrueAnswer(a, req[s])'
      BY <2>1, <2>3, <2>20, HonestStep, Zenon DEF IInv
    <3>1. s # r
      BY <2>5, ListenAssumption, Zenon DEF Answers
    <3>2. CASE a \in Answers(s)
      BY <2>17, <3>1, <3>2, Zenon
    <3>3. CASE a \notin Answers(s)
      <4>1. waiter # None /\ s = waiter.req /\ a = Ans("rejected", None, None)
        BY <2>17, <3>1, <3>3, Zenon DEF Answers
      <4>2. a.outcome = "rejected"
        BY <4>1, RefusalTyped, Zenon
      <4>3. req'[s].epoch = waiter.epoch /\ req'[s].epoch \in Epoch /\ req'[s].epoch <= eng.admitted
        BY <2>17, <3>1, <4>1, Zenon DEF IInv, Waited
      <4>4. \A c \in Taken' : c.epoch # waiter.epoch
        BY <2>15, <4>1, Zenon DEF IInv, Waited, Settling
      <4>5. \A e \in Epoch : e = req'[s].epoch => Ruled(e)'
        <5>1. req'[s].epoch < eng'.admitted
          BY <2>5, <2>6, <4>3, EpochTyped, Beneath, Zenon
        <5> QED BY <4>3, <4>4, <5>1, Zenon DEF Ruled
      <4> QED BY <4>2, <4>3, <4>5, RejectedTrue, Zenon
    <3> QED BY <3>2, <3>3, Zenon
  <2>22. Matching'
    <3>0. Matching
      BY Zenon DEF IInv
    <3>1. \A q \in Q : \E p \in producers : Same(p, q)
      BY <2>10, Zenon DEF Muted, Drawn
    <3>2. \A q \in producers' : q.st = "resolve" /\ q.rev.refresh = 0 => q.expected \in {None, q.rev.cfg}
      <4> SUFFICES ASSUME NEW q \in Q, q.st = "resolve", q.rev.refresh = 0
                   PROVE  q.expected \in {None, q.rev.cfg}
        BY <2>1, <2>9, Zenon
      <4>1. PICK p \in producers : Same(p, q)
        BY <3>1, Zenon
      <4>2. p.st = "resolve" /\ p.rev = q.rev /\ p.expected = q.expected
        BY <4>1, Zenon DEF Same
      <4>3. p.expected \in {None, p.rev.cfg}
        BY <3>0, <4>2, Zenon DEF Matching
      <4> QED BY <4>2, <4>3, Zenon
    <3>3. \A p \in producers : p.rev.epoch # m
      BY <2>3, <2>12, Zenon DEF Cand, Candidate, Revision
    <3>4. \A s \in results : s.rev.epoch # m
      BY <2>3, <2>12, Zenon DEF Cand, TypeOK, Result, Revision
    <3>5. ASSUME NEW s \in Req, NEW y, Wants(y, s)', y.epoch # m
          PROVE  Wants(y, s) /\ req'[s].expected = req[s].expected
      <4>1. y.refresh = 0 /\ req'[s].epoch # 0 /\ y.epoch = req'[s].epoch
        BY <3>5, Zenon DEF Wants
      <4>2. s # r
        BY <2>5, <3>5, <4>1, ListenAssumption, Zenon
      <4> QED BY <2>17, <4>1, <4>2, Zenon DEF Wants
    <3>6. ASSUME NEW s \in Req, NEW q \in producers', Wants(q.rev, s)' PROVE q.expected = req'[s].expected
      <4>1. CASE q = n
        <5>1. req'[s].epoch = m
          BY <2>8, <2>9, <3>6, <4>1, Zenon DEF Wants
        <5>2. s = r
          <6>1. s # r => req'[s].epoch = req[s].epoch
            BY <2>17, Zenon
          <6>2. req[s].epoch # m
            <7>1. req[s].epoch \in Nat /\ req[s].epoch <= eng.admitted
              BY <2>17, Zenon
            <7> QED BY <2>6, <7>1, Beneath, Zenon
          <6> QED BY <5>1, <6>1, <6>2, Zenon
        <5> QED BY <2>5, <2>7, <2>9, <4>1, <5>2, ListenAssumption, Zenon
      <4>2. CASE q \in Q
        <5>1. PICK p \in producers : Same(p, q)
          BY <3>1, <4>2, Zenon
        <5>2. Wants(q.rev, s) /\ req'[s].expected = req[s].expected
          BY <3>3, <3>5, <3>6, <5>1, Zenon DEF Same
        <5> QED BY <3>0, <5>1, <5>2, Zenon DEF Matching, Same
      <4> QED BY <2>1, <4>1, <4>2, Zenon
    <3>7. ASSUME NEW s \in Req, NEW t \in results', ~t.err, Wants(t.rev, s)'
          PROVE  req'[s].expected \in {None, t.rev.cfg}
      <4>1. Wants(t.rev, s) /\ req'[s].expected = req[s].expected /\ t \in results
        BY <2>1, <3>4, <3>5, <3>7, Zenon
      <4> QED BY <3>0, <3>7, <4>1, Zenon DEF Matching
    <3> QED BY <2>1, <3>2, <3>6, <3>7, Zenon DEF Matching, Wants, Held
  <2>23. Told' /\ Fits' /\ Kept' /\ Phases'
    BY <2>1, <2>5, PublicationSame, Zenon DEF IInv
  <2>24. Booted'
    BY <2>1, Zenon DEF IInv, Booted
  <2>25. HandlesOwned'
    <3>1. StagedOf(Q) = StagedOf(producers)
      BY <2>3, <2>10, MutedStaged, Zenon
    <3>2. StagedOf(producers') = StagedOf(Q)
      BY <2>1, <2>9, Zenon DEF StagedOf
    <3> QED BY <2>1, <2>5, <3>1, <3>2, OwnedSame, Zenon DEF IInv
  <2>26. TypeOK'
    <3>1. Q \subseteq Candidate /\ \A q \in Q : \E p \in producers : Same(p, q)
      BY <2>10, Zenon DEF Muted, Drawn
    <3>2. producers' \subseteq Candidate /\ \A q \in producers' : q.st = "resolve" => q.rev \in Built
      <4>1. \A p \in producers : p.st = "resolve" => p.rev \in Built
        BY <2>3, ResolvedBuilt, Zenon
      <4>2. \A q \in Q : q.st = "resolve" => q.rev \in Built
        <5> SUFFICES ASSUME NEW q \in Q, q.st = "resolve" PROVE q.rev \in Built
          BY Zenon
        <5>1. PICK p \in producers : Same(p, q)
          BY <3>1, Zenon
        <5>2. p.st = "resolve" /\ p.rev = q.rev
          BY <5>1, Zenon DEF Same
        <5> QED BY <4>1, <5>2, Zenon
      <4> QED BY <2>1, <2>9, <3>1, <4>2, Zenon
    <3>3. waiter' \in Waiter \cup {None}
      BY <2>1, <2>5, Zenon DEF Waiter
    <3> QED BY <2>1, <2>3, <2>5, <3>2, <3>3, Zenon DEF TypeOK
  <2> QED BY <2>14, <2>15, <2>16, <2>18, <2>19, <2>21, <2>22, <2>23, <2>24, <2>25, <2>26,
             Zenon DEF IInv

\* admitReload, either way.
<1>AdmitReloadStep.
    ASSUME IInv, NEW r \in Req \cup {None}, r # None => req[r].st = "offered", AdmitReload(r)
    PROVE  IInv' /\ Advance
  <2> USE <1>AdmitReloadStep
  <2>1. /\ pc = "select"
        /\ IF Refused(r) THEN Refuse(r) ELSE Admit(r)
        /\ UNCHANGED <<faults, pc, runVars, cur, recovery, disk, tx, committed, results, pub, open>>
    BY Zenon DEF AdmitReload
  <2>2. CASE Refused(r)
    BY <2>1, <2>2, <1>RefuseStep, Zenon
  <2>3. CASE ~Refused(r)
    BY <2>1, <2>3, <1>AdmitStep, Zenon
  <2> QED BY <2>2, <2>3, Zenon

\* A handler's request reaches the loop.
<1>AcceptStep.
    ASSUME IInv, NEW r \in Req, Accept(r)
    PROVE  IInv' /\ Advance
  BY <1>AcceptStep, <1>AdmitReloadStep, Zenon DEF Accept

\* SIGHUP reaches the loop.
<1>HangupStep.
    ASSUME IInv, Hangup
    PROVE  IInv' /\ Advance
  BY <1>HangupStep, <1>AdmitReloadStep, Zenon DEF Hangup

<1> QED BY <1>AcceptStep, <1>HangupStep, Zenon

\* The refresh timer fires, and a refresh starts or does not (run.go, source.go).
LEMMA RefreshSteps ==
    IInv /\ SourceTimer => IInv' /\ Advance
\* The refresh timer fires while a refresh or a recovery is under way.
<1>TimerStep.
    ASSUME IInv, pc = "select", src' = [src EXCEPT !.timer = FALSE], UNCHANGED <<eng, producers, open>>,
           UNCHANGED <<faults, loopVars, disk, tx, committed, req, results, pub>>
    PROVE  IInv' /\ Advance
  <2> USE <1>TimerStep
  <2>1. TypeOK /\ WriterOK /\ eng \in Writer /\ src \in Sources
    BY Zenon DEF IInv, WriterOK, TypeOK
  <2>2. src' \in Sources /\ src'.active = src.active /\ src'.session = src.session
    BY <2>1, Zenon DEF Sources
  <2>3. UNCHANGED <<pc, booting, cancelled, ready, waiter, cur, recovery>>
    BY Zenon DEF loopVars, loopRest, runVars
  <2>4. Past' /\ Adopted' /\ Doubted' /\ Advance /\ Forward
    BY <2>1, <2>3, WriterSame, Zenon DEF PlaceKept, Doubted, WriterOK
  <2>5. StagingKept /\ WaiterKept
    BY <2>1, <2>3, DrawnSame, Zenon DEF StagingKept, Held, InHand, WaiterKept, Settling
  <2>6. Apart' /\ AllFresh' /\ Asked' /\ Waited' /\ Matching' /\ Honest'
    BY <2>1, <2>4, <2>5, RequestsSame, RestKept, Zenon
  <2>7. Told' /\ Fits' /\ Kept' /\ Phases'
    BY <2>2, <2>3, PublicationSame, Zenon DEF IInv
  <2>8. Booted' /\ TypeOK'
    BY <2>1, <2>2, <2>3, Zenon DEF IInv, Booted, TypeOK
  <2>9. HandlesOwned'
    BY <2>2, <2>3, OwnedSame, Zenon DEF IInv
  <2> QED BY <2>4, <2>6, <2>7, <2>8, <2>9, Zenon DEF IInv

\* The next refresh of the active epoch is a new candidate, newer than every
\* committed one.
<1>RefreshStarted.
    ASSUME IInv, pc = "select", ~Recovering, src.active.epoch = eng.activeEpoch,
           eng.refreshSequence + 1 <= MaxRefresh
    PROVE  LET k == eng.refreshSequence + 1
               y == [src.active EXCEPT !.refresh = k]
           IN  /\ y \in Built /\ y.epoch = eng.activeEpoch /\ y.refresh = k
               /\ k \in 0..MaxRefresh /\ k > 0 /\ k > eng.refreshSequence
               /\ \A c \in Taken : ~(c.epoch = eng.activeEpoch /\ c.refresh = k)
               /\ ~Cand(eng.activeEpoch, k)
  <2> USE <1>RefreshStarted
  <2> DEFINE k == eng.refreshSequence + 1
             y == [src.active EXCEPT !.refresh = k]
  <2>1. eng \in Writer /\ committed \subseteq Built
    BY Zenon DEF IInv, TypeOK
  <2>2. /\ tx = None /\ Taken = committed /\ disk \in Built /\ disk # None /\ src.active = disk
        /\ eng.activeEpoch = disk.epoch /\ disk.refresh <= eng.refreshSequence
        /\ \A c \in committed : c = disk \/ Newer(disk, c)
    BY Quiet, Zenon
  <2>3. /\ eng.refreshSequence \in Nat /\ eng.activeEpoch \in Nat /\ eng.activeEpoch \in Epoch
    BY <2>1, WriterTyped, Zenon
  <2>4. k \in 0..MaxRefresh /\ k > 0 /\ k > eng.refreshSequence /\ k \in Nat
    BY <2>3, BoundsAssumption
  <2> HIDE DEF k
  <2>5. y \in Built /\ y.epoch = disk.epoch /\ y.refresh = k
    BY <2>2, <2>4, Zenon DEF Built
  <2>6. \A c \in Taken : ~(c.epoch = eng.activeEpoch /\ c.refresh = k)
    <3> SUFFICES ASSUME NEW c \in committed, c.epoch = disk.epoch, c.refresh = k PROVE FALSE
      BY <2>2, Zenon
    <3>1. disk.refresh \in Nat /\ disk.epoch \in Nat
      BY <2>2, BoundsAssumption DEF Built, Epoch
    <3> QED BY <2>2, <2>3, <2>4, <3>1 DEF Newer
  <2>7. ~Cand(eng.activeEpoch, k)
    <3> SUFFICES ASSUME Cand(eng.activeEpoch, k) PROVE FALSE
      BY Zenon
    <3>1. Fresh(eng.activeEpoch, k)
      BY <2>3, <2>4, Zenon DEF IInv, AllFresh
    <3> QED BY <2>3, <2>4, <3>1 DEF Fresh
  <2> HIDE DEF y
  <2>8. /\ y \in Built /\ y.epoch = eng.activeEpoch /\ y.refresh = k
        /\ k \in 0..MaxRefresh /\ k > 0 /\ k > eng.refreshSequence
        /\ \A c \in Taken : ~(c.epoch = eng.activeEpoch /\ c.refresh = k)
        /\ ~Cand(eng.activeEpoch, k)
    BY <2>2, <2>4, <2>5, <2>6, <2>7, Zenon
  <2> QED BY <2>8, Zenon DEF k, y

\* The refresh timer starts a refresh (run.go, AdmitRefresh of engine.go).
<1>RefreshStep.
    ASSUME IInv, pc = "select", ~Recovering, src.active.epoch = eng.activeEpoch,
           eng.refreshSequence + 1 <= MaxRefresh,
           UNCHANGED <<faults, loopVars, disk, tx, committed, req, results, pub>>,
           NEW k, k = eng.refreshSequence + 1, NEW y, y = [src.active EXCEPT !.refresh = k],
           eng' = [eng EXCEPT !.refreshSequence = k],
           producers' = producers \cup
                        {[rev |-> y, st |-> "resolve", expected |-> None,
                          cancelled |-> FALSE, session |-> src.session # None]},
           open' = IF src.session = None THEN open ELSE open \cup {Staged(y)},
           src' = [src EXCEPT !.timer = FALSE, !.refreshing = [epoch |-> y.epoch, refresh |-> k]]
    PROVE  IInv' /\ Advance
  <2> USE <1>RefreshStep
  <2> DEFINE n == [rev |-> y, st |-> "resolve", expected |-> None,
                   cancelled |-> FALSE, session |-> src.session # None]
  <2>1. /\ y \in Built /\ y.epoch = eng.activeEpoch /\ y.refresh = k
        /\ k \in 0..MaxRefresh /\ k > 0 /\ k > eng.refreshSequence
        /\ \A c \in Taken : ~(c.epoch = eng.activeEpoch /\ c.refresh = k)
        /\ ~Cand(eng.activeEpoch, k)
    BY <1>RefreshStarted, Zenon
  <2>2. /\ tx = None /\ disk \in Built /\ disk # None
        /\ eng.activeEpoch = disk.epoch /\ disk.refresh <= eng.refreshSequence
        /\ eng.activeEpoch <= eng.admitted
    BY Quiet, Zenon
  <2>3. TypeOK /\ WriterOK /\ eng \in Writer /\ src \in Sources /\ producers \subseteq Candidate
    BY Zenon DEF IInv, WriterOK, TypeOK
  <2>4. UNCHANGED <<pc, booting, cancelled, ready, waiter, cur, recovery>>
    BY Zenon DEF loopVars, loopRest, runVars
  <2>5. /\ eng.refreshSequence \in Nat /\ eng.activeEpoch \in Nat /\ eng.admitted \in Nat
        /\ eng.activeEpoch \in Epoch /\ disk.refresh \in Nat /\ k \in Nat
    BY <2>1, <2>2, <2>3, WriterTyped, BoundsAssumption DEF Built
  <2>6. eng' \in Writer
    BY <2>1, <2>3, Zenon DEF Writer
  <2>7. /\ eng'.refreshSequence = k /\ eng'.activeEpoch = eng.activeEpoch
        /\ eng'.admitted = eng.admitted /\ eng'.healthy = eng.healthy
    BY <2>3, Zenon DEF Writer
  <2>8. [epoch |-> y.epoch, refresh |-> k] \in Refresh
    BY <2>1, <2>5, Zenon DEF Refresh
  <2>9. src' \in Sources
    BY <2>3, <2>8, Zenon DEF Sources
  <2>10. src'.active = src.active /\ src'.session = src.session
    BY <2>3, Zenon DEF Sources
  <2>11. /\ n \in Candidate /\ n.rev = y /\ n.st = "resolve" /\ n.session = (src.session # None)
    <3>1. y \in Revision
      BY <2>1, Zenon DEF Built, Revision
    <3> QED BY <3>1, Zenon DEF Candidate
  <2> HIDE DEF n
  <2>12. producers' = producers \cup {n}
    BY Zenon DEF n
  <2>13. Past' /\ Adopted' /\ Doubted' /\ Advance /\ Forward /\ Taken' = Taken
    <3>1. Past' /\ Taken' = Taken /\ Advance
      BY Zenon DEF IInv, Past, Taken, Advance
    <3>2. Adopted' /\ Doubted'
      BY <2>2, <2>4, <2>5, <2>7, <2>1 DEF IInv, Adopted, Chosen, Doubted
    <3>3. Forward
      BY <2>1, <2>5, <2>7, <3>1 DEF Forward
    <3> QED BY <3>1, <3>2, <3>3, Zenon
  <2>14. /\ Apart'
         /\ \A e \in Epoch, f \in 0..MaxRefresh :
              Cand(e, f)' => Cand(e, f) \/ (e = eng.activeEpoch /\ f = k)
    <3>1. Muted(producers, producers)
      BY <2>3, MutedSelf, Zenon
    <3>2. ~Cand(n.rev.epoch, n.rev.refresh)
      BY <2>1, <2>11, Zenon
    <3>3. /\ Apart'
          /\ \A e \in Epoch, f \in 0..MaxRefresh :
               Cand(e, f)' => Cand(e, f) \/ (e = n.rev.epoch /\ f = n.rev.refresh)
      BY <2>4, <2>11, <2>12, <3>1, <3>2, CandidateAdded, Zenon
    <3> QED BY <2>1, <2>11, <3>3, Zenon
  <2>15. AllFresh'
    <3>1. \A e \in Epoch, f \in 0..MaxRefresh : e = eng.activeEpoch /\ f = k => Fresh(e, f)'
      BY <2>1, <2>2, <2>5, <2>7, <2>13 DEF Fresh
    <3> QED BY <2>1, <2>3, <2>5, <2>6, <2>13, <2>14, <3>1, AllFreshMore DEF IInv
  <2>16. RuledStays
    <3> SUFFICES ASSUME NEW e \in Epoch, Ruled(e) PROVE Ruled(e)'
      BY Zenon DEF RuledStays
    <3>1. 0 \in 0..MaxRefresh /\ k # 0
      BY <2>1, <2>5, BoundsAssumption
    <3>2. Cand(e, 0)' => Cand(e, 0)
      BY <2>14, <3>1, Zenon
    <3> QED BY <2>7, <2>13, <3>2, Zenon DEF Ruled
  <2>17. Asked' /\ Waited' /\ Honest'
    <3>1. WaiterKept
      BY <2>4, Zenon DEF WaiterKept, Settling
    <3>2. req \in [Req -> Request] /\ waiter \in Waiter \cup {None}
      BY <2>3, Zenon DEF TypeOK
    <3>3. committed \subseteq committed' /\ Taken' \subseteq Taken /\ eng.admitted <= eng'.admitted
      BY <2>5, <2>7, <2>13
    <3> QED BY <2>3, <2>6, <2>16, <3>1, <3>2, <3>3, RequestsSame, RequestsStep, Zenon DEF IInv
  <2>18. Matching'
    <3>1. n.rev.refresh # 0
      BY <2>1, <2>5, <2>11
    <3> QED BY <2>4, <2>12, <3>1, Zenon DEF IInv, Matching, Wants, Held
  <2>19. Told' /\ Fits' /\ Kept' /\ Phases'
    BY <2>4, <2>10, PublicationSame, Zenon DEF IInv
  <2>20. Booted'
    BY <2>4, Zenon DEF IInv, Booted
  <2>21. Staged(y) \in Handles
    BY <2>1, <2>5, Zenon DEF Staged, Handle, Handles
  <2>22. TypeOK'
    <3>1. open' \subseteq Handles
      BY <2>3, <2>21, Zenon DEF TypeOK
    <3>2. producers' \subseteq Candidate /\ \A p \in producers' : p.st = "resolve" => p.rev \in Built
      BY <2>1, <2>3, <2>11, <2>12, Zenon DEF TypeOK
    <3> QED BY <2>3, <2>4, <2>6, <2>9, <3>1, <3>2, Zenon DEF TypeOK
  <2>23. HandlesOwned'
    <3>1. StagedOf(producers') = StagedOf(producers) \cup (IF src.session = None THEN {} ELSE {Staged(y)})
      <4>1. CASE src.session = None
        BY <2>11, <2>12, <4>1, Zenon DEF StagedOf
      <4>2. CASE src.session # None
        <5>1. n.session = TRUE
          BY <2>11, <4>2, Zenon
        <5>2. {t \in producers' : t.session} = {t \in producers : t.session} \cup {n}
          BY <2>12, <5>1, Zenon
        <5> QED BY <2>11, <4>2, <5>2 DEF StagedOf
      <4> QED BY <4>1, <4>2, Zenon
    <3>2. HandHandles' = HandHandles /\ PublicHandles' = PublicHandles
      BY <2>4, <2>10, HandSame, PublicKept, Zenon
    <3> QED BY <3>1, <3>2, OwnedParts, Zenon DEF IInv, HandlesOwned, StagedHandles
  <2> QED BY <2>13, <2>14, <2>15, <2>17, <2>18, <2>19, <2>20, <2>22, <2>23, Zenon DEF IInv

\* The refresh timer fires.
<1>SourceTimerStep.
    ASSUME IInv, SourceTimer
    PROVE  IInv' /\ Advance
  <2> USE <1>SourceTimerStep
  <2>1. pc = "select" /\ UNCHANGED <<faults, loopVars, disk, tx, committed, req, results, pub>>
    BY Zenon DEF SourceTimer
  <2>2. CASE Recovering \/ src.refreshing # None
    <3>1. src' = [src EXCEPT !.timer = FALSE] /\ UNCHANGED <<eng, producers, open>>
      BY <2>2, Zenon DEF SourceTimer
    <3> QED BY <2>1, <3>1, <1>TimerStep, Zenon
  <2>3. CASE ~(Recovering \/ src.refreshing # None)
    <3> DEFINE k == eng.refreshSequence + 1
               y == [src.active EXCEPT !.refresh = k]
    <3>1. /\ src.active.epoch = eng.activeEpoch /\ k <= MaxRefresh
          /\ eng' = [eng EXCEPT !.refreshSequence = k]
          /\ producers' = producers \cup
                          {[rev |-> y, st |-> "resolve", expected |-> None,
                            cancelled |-> FALSE, session |-> src.session # None]}
          /\ open' = IF src.session = None THEN open ELSE open \cup {Staged(y)}
          /\ src' = [src EXCEPT !.timer = FALSE, !.refreshing = [epoch |-> y.epoch, refresh |-> k]]
      BY <2>3, Zenon DEF SourceTimer
    <3>2. eng.refreshSequence + 1 <= MaxRefresh
      BY <3>1, Zenon
    <3> HIDE DEF y
    <3> QED BY <2>1, <2>3, <3>1, <3>2, <1>RefreshStep, Zenon DEF y
  <2> QED BY <2>2, <2>3, Zenon

<1> QED BY <1>SourceTimerStep, Zenon

============================================================================
