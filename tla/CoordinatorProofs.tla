-------------------------- MODULE CoordinatorProofs -------------------------
(***************************************************************************)
(* Proofs about the event loop (module Coordinator), for every set of      *)
(* requests and digests and every bound.  CoordinatorSteps defines the     *)
(* inductive invariant and has the steps that commit and publish nothing.  *)
(* Here are those that do: a staged result, the writer's apply, its        *)
(* outcome, recovery and startup, and then the theorems.                   *)
(***************************************************************************)
EXTENDS CoordinatorSteps

----------------------------------------------------------------------------
(* A staged result reaches the loop.                                       *)

\* A reservation for x, which is not committed, fits what is published.
LEMMA ReservationFacts ==
    ASSUME IInv, NEW x, x.rev \in Built, x.session \in BOOLEAN
    PROVE  LET r == Reservation(x)
           IN  /\ r \in Reserving /\ r # None /\ r.rev = x.rev /\ r.session = x.session
               /\ ReservationHandles(r) \subseteq Handles
               /\ r.replace <=> pub.listener = None \/ pub.listener.addr # Listen[r.rev.cfg]
               /\ r.bound <=> r.replace /\ Listen[r.rev.cfg] # None
<1> DEFINE v == pub.listener = None \/ pub.listener.addr # Listen[x.rev.cfg]
           b == v /\ Listen[x.rev.cfg] # None
           r == [rev |-> x.rev, pending |-> FALSE, session |-> x.session, replace |-> v, bound |-> b]
<1>1. Reservation(x) = r
  BY Zenon DEF Reservation
<1>2. v \in BOOLEAN /\ b \in BOOLEAN
  BY Zenon
<1> HIDE DEF v, b
<1>3. r \in Reserving
  BY <1>2, Zenon DEF Reserving
<1>4. r.rev = x.rev /\ r.session = x.session /\ r.replace = v /\ r.bound = b
  BY Zenon
<1> HIDE DEF r
<1>5. r # None
  BY <1>3, NilAssumption, Zenon
<1>6. Reserved(x.rev) \in Handles /\ Listener(x.rev) \in Handles
  BY Zenon DEF Reserved, Listener, Handle, Handles, Built
<1>7. ReservationHandles(r) \subseteq Handles
  BY <1>4, <1>6, Zenon DEF ReservationHandles
<1>8. r.replace <=> pub.listener = None \/ pub.listener.addr # Listen[r.rev.cfg]
  BY <1>4, Zenon DEF v
<1>9. r.bound <=> r.replace /\ Listen[r.rev.cfg] # None
  BY <1>4, Zenon DEF b
<1> QED BY <1>1, <1>3, <1>4, <1>5, <1>7, <1>8, <1>9, Zenon

\* reserve: the publication with a reservation for x.
LEMMA ReserveFacts ==
    ASSUME IInv, NEW x, x.rev \in Built, x.session \in BOOLEAN,
           Fresh(x.rev.epoch, x.rev.refresh), pub.reservation = None, Reserve(x),
           src'.active = src.active, src'.session = src.session, committed' = committed
    PROVE  LET r == Reservation(x)
           IN  /\ pub' \in Publication /\ pub'.listener = pub.listener /\ pub'.reservation = r
               /\ r # None /\ r.rev = x.rev /\ open' = open \cup ReservationHandles(r)
               /\ open' \subseteq Handles
               /\ PublicHandles' = PublicHandles \cup ReservationHandles(r)
               /\ Fits' /\ Kept'
<1> DEFINE r == Reservation(x)
<1>1. /\ r \in Reserving /\ r # None /\ r.rev = x.rev
      /\ ReservationHandles(r) \subseteq Handles
      /\ r.replace <=> pub.listener = None \/ pub.listener.addr # Listen[r.rev.cfg]
      /\ r.bound <=> r.replace /\ Listen[r.rev.cfg] # None
  BY ReservationFacts, Zenon
<1>2. /\ pub' = [pub EXCEPT !.reservation = r, !.telemetry = @ \/ (pub.listener = None /\ r.bound)]
      /\ open' = open \cup ReservationHandles(r)
  BY Zenon DEF Reserve
<1> HIDE DEF r
<1>3. pub \in Publication /\ open \subseteq Handles /\ committed \subseteq Built
  BY Zenon DEF IInv, TypeOK
<1>4. pub' \in Publication /\ pub'.listener = pub.listener /\ pub'.reservation = r
  <2>1. (pub.telemetry \/ (pub.listener = None /\ r.bound)) \in BOOLEAN
    BY Zenon
  <2>2. pub' = [pub EXCEPT !.reservation = r, !.telemetry = pub.telemetry \/ (pub.listener = None /\ r.bound)]
    BY <1>2, Zenon
  <2> QED BY <1>1, <1>3, <2>1, <2>2, Zenon DEF Publication
<1>5. PublicHandles' = PublicHandles \cup ReservationHandles(r)
  <2>1. ReservationHandles(pub.reservation) = {}
    BY Zenon DEF ReservationHandles
  <2>2. ReservationHandles(pub.reservation)' = ReservationHandles(r)
    BY <1>4, Zenon DEF ReservationHandles, Reserved, Listener, Handle
  <2>3. SourceHandles' = SourceHandles /\ ListenerHandles' = ListenerHandles
    BY <1>4, Zenon DEF SourceHandles, ListenerHandles
  <2> QED BY <2>1, <2>2, <2>3, Zenon DEF PublicHandles
<1>6. \A c \in committed : ~SameId(c, x.rev)
  BY Zenon DEF Fresh, Taken, SameId
<1>7. Reserved(x.rev) # src.session
  <2>2. Reserved(x.rev) \in Handles
    BY Zenon DEF Reserved, Handle, Handles, Built
  <2> SUFFICES ASSUME src.session # None PROVE Reserved(x.rev) # src.session
    BY <2>2, NilAssumption, Zenon
  <2>1. PICK c \in committed : src.session = Reserved(c)
    BY Zenon DEF IInv, Kept
  <2> QED BY <1>6, <2>1, HandleFacts DEF Reserved, SameId
<1>8. pub.listener # None => Listener(x.rev) # pub.listener.handle
  <2> SUFFICES ASSUME pub.listener # None PROVE Listener(x.rev) # pub.listener.handle
    BY Zenon
  <2>1. PICK c \in committed : pub.listener.handle = Listener(c)
    BY Zenon DEF IInv, Kept
  <2> QED BY <1>6, <2>1, HandleFacts DEF Listener, SameId
<1>9. Fits'
  BY <1>1, <1>4, <1>7, <1>8, Zenon DEF Fits, Reserved, Listener, Handle
<1>10. Kept'
  BY <1>4, Zenon DEF IInv, Kept, Reserved, Listener, Handle
<1>11. open' \subseteq Handles
  BY <1>1, <1>2, <1>3, Zenon
<1> QED BY <1>1, <1>2, <1>4, <1>5, <1>9, <1>10, <1>11, Zenon DEF r

\* finish, for the result res: its waiter, if that is who waits, gets the answer, and
\* no other request changes (run.go finish).
LEMMA FinishFacts ==
    ASSUME IInv, NEW res, NEW o \in {"applied", "degraded", "rejected", "unknown"}, NEW rev \in OptRev,
           res.rev.cfg \in Digest \cup {None}, FinishReload(res, o, rev),
           \A w \in Req, a \in Answer :
              /\ waiter # None /\ w = waiter.req /\ Owed(res)
              /\ a = Ans(o, rev, res.rev.cfg)
              /\ req'[w].epoch = req[w].epoch /\ req'[w].expected = req[w].expected
              => TrueAnswer(a, req[w])'
    PROVE  /\ req' \in [Req -> Request] /\ Answered /\ Bound
           /\ waiter' \in {waiter, None} /\ (Owed(res) => waiter' = None)
<1>1. CASE Owed(res)
  <2>1. /\ req' = [req EXCEPT ![waiter.req].box = Ans(o, rev, res.rev.cfg)]
        /\ waiter' = None /\ waiter # None
    BY <1>1, Zenon DEF FinishReload, Owed
  <2>2. PICK a \in Answer : a = Ans(o, rev, res.rev.cfg)
    BY AnsTyped
  <2>3. PICK w \in Req : w = waiter.req
    BY <2>1, Zenon DEF IInv, TypeOK, Waiter
  <2>4. req[w].st \notin {"new", "offered"}
    BY <2>1, <2>3, Zenon DEF IInv, Waited
  <2>5. req' = [req EXCEPT ![w].box = a]
    BY <2>1, <2>2, <2>3, Zenon
  <2>6. ASSUME req'[w].epoch = req[w].epoch /\ req'[w].expected = req[w].expected
        PROVE  TrueAnswer(a, req[w])'
    BY <1>1, <2>1, <2>2, <2>3, <2>6, Zenon
  <2>7. req' \in [Req -> Request] /\ Answered /\ Bound
    BY <2>4, <2>5, <2>6, BoxAnswered, Zenon
  <2> QED BY <2>1, <2>7, Zenon
<1>2. CASE ~Owed(res)
  <2>1. req' = req /\ waiter' = waiter
    BY <1>2, Zenon DEF FinishReload
  <2> QED BY <1>2, <2>1, RequestsSame, Zenon DEF IInv, TypeOK
<1> QED BY <1>1, <1>2, Zenon

\* A staged result reaches the loop, which rejects it or reserves for it (run.go).
LEMMA ResultSteps ==
    IInv /\ (\E res \in results : HandleResult(res)) => IInv' /\ Advance
\* A result that reaches the loop resets the tracking of its own work only.
<1>TrackingFacts.
    ASSUME IInv, NEW res \in results, ResetTracking(res)
    PROVE  /\ src' \in Sources /\ src'.active = src.active /\ src'.session = src.session
           /\ Muted(producers, producers') /\ producers' \subseteq Candidate
           /\ \A p \in producers' : p.st = "resolve" => p.rev \in Built
           /\ StagedOf(producers') = StagedOf(producers)
  <2> USE <1>TrackingFacts
  <2>1. src \in Sources /\ producers \subseteq Candidate
        /\ \A p \in producers : p.st = "resolve" => p.rev \in Built
    BY Zenon DEF IInv, TypeOK
  <2> DEFINE a == IF res.rev.refresh = 0 /\ res.rev.epoch = src.reloadEpoch THEN 0 ELSE src.reloadEpoch
             b == IF EndsRefresh(res) THEN None ELSE src.refreshing
  <2>2. src' = [src EXCEPT !.reloadEpoch = a, !.refreshing = b, !.timer = TimerAfter(res)]
    BY Zenon DEF ResetTracking
  <2>3. a \in Epoch /\ b \in Refresh \cup {None} /\ TimerAfter(res) \in BOOLEAN
    BY <2>1, BoundsAssumption DEF Sources, Epoch, TimerAfter
  <2> HIDE DEF a, b
  <2>4. src' \in Sources
    BY <2>1, <2>2, <2>3, Zenon DEF Sources
  <2>5. src'.active = src.active /\ src'.session = src.session
    BY <2>1, <2>2, Zenon DEF Sources
  <2>6. Muted(producers, producers')
    BY <2>1, MutedSelf, RefreshMuted, Zenon DEF ResetTracking
  <2>7. producers' \subseteq Candidate /\ \A p \in producers' : p.st = "resolve" => p.rev \in Built
    BY <2>1, <2>6 DEF Muted, Drawn, Same
  <2>8. StagedOf(producers') = StagedOf(producers)
    BY <2>1, <2>6, MutedStaged, Zenon
  <2> QED BY <2>4, <2>5, <2>6, <2>7, <2>8, Zenon

\* A result leaves the channel: what is open for it, and what is not.
<1>ResultTaken.
    ASSUME IInv, NEW res \in results, pc = "select", results' = results \ {res},
           StagedOf(producers') = StagedOf(producers)
    PROVE  /\ res.rev \in Revision /\ res.session \in BOOLEAN
           /\ Staged(res.rev) \notin StagedHandles' \cup PublicHandles
           /\ StagedHandles = StagedHandles' \cup (IF res.session THEN {Staged(res.rev)} ELSE {})
           /\ HandHandles = {}
  <2> USE <1>ResultTaken
  <2>1. res.rev \in Revision /\ res.session \in BOOLEAN
    BY Zenon DEF IInv, TypeOK, Result
  <2>2. Staged(res.rev) \notin StagedOf(producers)
    BY StagedMember DEF IInv, Apart, SameId
  <2>3. Staged(res.rev) \notin StagedOf(results')
    BY StagedMember DEF IInv, Apart, SameId
  <2>4. StagedOf(results) = StagedOf(results') \cup (IF res.session THEN {Staged(res.rev)} ELSE {})
    BY Zenon DEF StagedOf
  <2>5. Staged(res.rev) \notin PublicHandles
    BY StagedIsStaged, Zenon DEF IInv
  <2>6. HandHandles = {}
    BY NoHand, Zenon
  <2>7. Staged(res.rev) \notin StagedHandles'
    BY <2>2, <2>3, StagedPrime, Zenon
  <2>8. StagedHandles = StagedHandles' \cup (IF res.session THEN {Staged(res.rev)} ELSE {})
    BY <2>4, StagedPrime, Zenon DEF StagedHandles
  <2> QED BY <2>1, <2>5, <2>6, <2>7, <2>8, Zenon

\* finish with "rejected", for a result that is gone: the answer is true, as nothing
\* of that reload is left in flight.
<1>FinishRejected.
    ASSUME IInv, NEW res, res.rev.cfg \in Digest \cup {None}, FinishReload(res, "rejected", None),
           \A e \in Epoch : waiter # None /\ e = waiter.epoch /\ Owed(res) => Ruled(e)'
    PROVE  /\ req' \in [Req -> Request] /\ Answered /\ Bound
           /\ waiter' \in {waiter, None}
  <2> USE <1>FinishRejected
  <2>1. None \in OptRev
    BY Zenon DEF OptRev
  <2>2. ASSUME NEW w \in Req, NEW a \in Answer, waiter # None, w = waiter.req, Owed(res),
               a = Ans("rejected", None, res.rev.cfg), req'[w].epoch = req[w].epoch
        PROVE  TrueAnswer(a, req[w])'
    <3>1. a.outcome = "rejected"
      BY <2>1, <2>2, AnsTyped
    <3>2. req[w].epoch = waiter.epoch /\ waiter.epoch \in Epoch
      BY <2>2, Zenon DEF IInv, TypeOK, Waiter, Waited
    <3>3. \A e \in Epoch : e = req'[w].epoch => Ruled(e)'
      BY <2>2, <3>2, Zenon
    <3> QED BY <2>2, <3>1, <3>2, <3>3, RejectedTrue, Zenon
  <2> QED BY <2>1, <2>2, FinishFacts

\* A stale, failed or inopportune result is answered and released.
<1>RejectResultStep.
    ASSUME IInv, NEW res \in results, pc = "select", results' = results \ {res},
           ResetTracking(res), RejectResult(res), UNCHANGED <<runVars, recovery, writerVars>>
    PROVE  IInv' /\ Advance
  <2> USE <1>RejectResultStep
  <2>1. TypeOK /\ WriterOK /\ eng \in Writer /\ pub \in Publication /\ results \subseteq Result
        /\ ~booting
    BY Zenon DEF IInv, WriterOK, TypeOK, Booted
  <2>2. UNCHANGED <<booting, cancelled, ready, recovery, eng, disk, tx, committed, pc, cur>>
        /\ FinishReload(res, "rejected", None) /\ open' = open \ {Staged(res.rev)}
    BY Zenon DEF RejectResult, runVars, writerVars
  <2>3. /\ src' \in Sources /\ src'.active = src.active /\ src'.session = src.session
        /\ Muted(producers, producers') /\ producers' \subseteq Candidate
        /\ \A p \in producers' : p.st = "resolve" => p.rev \in Built
        /\ StagedOf(producers') = StagedOf(producers)
    BY <1>TrackingFacts, Zenon
  <2>4. /\ res.rev \in Revision /\ res.session \in BOOLEAN
        /\ Staged(res.rev) \notin StagedHandles' \cup PublicHandles
        /\ StagedHandles = StagedHandles' \cup (IF res.session THEN {Staged(res.rev)} ELSE {})
        /\ HandHandles = {}
    BY <2>3, <1>ResultTaken, Zenon
  <2>5. pub' \in Publication /\ pub'.reservation = pub.reservation /\ pub'.listener = pub.listener
    <3>1. CASE pub' = pub
      BY <2>1, <3>1, Zenon
    <3>2. CASE ~Unusable(res) /\ pub' = Unreserved(pub)
      <4>1. pub.reservation = None
        BY <3>2, Quiet, Zenon DEF Unusable
      <4> DEFINE t == pub.telemetry /\ pub.listener # None
      <4>2. pub' = [pub EXCEPT !.reservation = None, !.telemetry = t]
        BY <3>2, Zenon DEF Unreserved
      <4>3. t \in BOOLEAN
        BY Zenon
      <4> HIDE DEF t
      <4>4. pub' \in Publication
        BY <2>1, <4>2, <4>3, Zenon DEF Publication
      <4> QED BY <2>1, <4>1, <4>2, <4>4, Zenon DEF Publication
    <3> QED BY <3>1, <3>2, Zenon DEF RejectResult
  <2>6. Past' /\ Adopted' /\ Doubted' /\ Advance /\ Forward /\ Taken' = Taken
    BY <2>1, <2>2, WriterSame, Zenon DEF PlaceKept, Doubted, WriterOK
  <2>7. StagingKept
    BY <2>2, <2>3, Zenon DEF StagingKept, Muted, Held, InHand
  <2>8. \A e \in Epoch : waiter # None /\ e = waiter.epoch /\ Owed(res) => Ruled(e)'
    <3> SUFFICES ASSUME NEW e \in Epoch, waiter # None, e = waiter.epoch, Owed(res)
                 PROVE  Ruled(e)'
      BY Zenon
    <3>1. \A c \in Taken' : c.epoch # e
      BY <2>6, Zenon DEF IInv, Waited, Settling
    <3>2. res.rev.epoch = e /\ res.rev.refresh = 0
      BY Zenon DEF Owed
    <3>3. \A p \in producers : ~SameId(p.rev, res.rev)
      BY Zenon DEF IInv, Apart
    <3>4. \A s \in results' : ~SameId(s.rev, res.rev)
      BY Zenon DEF IInv, Apart
    <3>5. \A q \in producers' : \E p \in producers : q.rev = p.rev
      BY <2>3, Zenon DEF Muted, Drawn, Same
    <3>6. ~Cand(e, 0)'
      BY <2>2, <3>2, <3>3, <3>4, <3>5, Zenon DEF Cand, InHand, SameId
    <3> QED BY <3>1, <3>6, Zenon DEF Ruled
  <2>9. req' \in [Req -> Request] /\ Answered /\ Bound /\ waiter' \in {waiter, None}
    BY <2>2, <2>4, <2>8, <1>FinishRejected, Zenon DEF Revision
  <2>10. WaiterKept
    BY <2>2, <2>9, Zenon DEF WaiterKept, Settling
  <2>11. Apart' /\ AllFresh' /\ Asked' /\ Waited' /\ Matching' /\ Honest'
    BY <2>1, <2>2, <2>6, <2>7, <2>9, <2>10, RestKept, Zenon
  <2>12. Fits' /\ Kept'
    BY <2>2, <2>3, <2>5, FitsSame, Zenon DEF IInv
  <2>13. Told' /\ Phases' /\ Booted'
    BY <2>2, <2>3, <2>5, Zenon DEF IInv, Told, Phases, Booted, Shows, Pending, Recovering
  <2>14. HandlesOwned'
    <3>1. PublicHandles' = PublicHandles
      BY <2>3, <2>5, PublicKept, Zenon
    <3>2. HandHandles' = {}
      BY <2>2, <2>4, HandSame, Zenon
    <3>3. open = StagedHandles \cup PublicHandles
      BY <2>4, OwnedParts, Zenon DEF IInv, HandlesOwned
    <3> QED BY <2>2, <2>4, <3>1, <3>2, <3>3, OwnedParts, Zenon DEF HandlesOwned
  <2>15. TypeOK'
    <3>1. open' \subseteq Handles /\ results' \subseteq Result /\ \A s \in results' : ~s.err => s.rev \in Built
      BY <2>1, <2>2, Zenon DEF TypeOK
    <3>2. waiter' \in Waiter \cup {None}
      BY <2>1, <2>9, Zenon DEF TypeOK
    <3> QED BY <2>1, <2>2, <2>3, <2>5, <2>9, <3>1, <3>2, Zenon DEF TypeOK
  <2> QED BY <2>6, <2>11, <2>12, <2>13, <2>14, <2>15, Zenon DEF IInv

\* A current result is reserved for and applied.
<1>AcceptResultStep.
    ASSUME IInv, NEW res \in results, pc = "select", results' = results \ {res},
           ResetTracking(res), AcceptResult(res), UNCHANGED <<runVars, recovery, writerVars>>
    PROVE  IInv' /\ Advance
  <2> USE <1>AcceptResultStep
  <2>1. TypeOK /\ WriterOK /\ eng \in Writer /\ results \subseteq Result /\ ~booting /\ req \in [Req -> Request]
        /\ waiter \in Waiter \cup {None}
    BY Zenon DEF IInv, WriterOK, TypeOK, Booted
  <2>2. /\ UNCHANGED <<booting, cancelled, ready, recovery, eng, disk, tx, committed, req, waiter>>
        /\ Reserve(res) /\ pc' = "apply" /\ cur' = [rev |-> res.rev, session |-> res.session, out |-> None]
        /\ ~res.err /\ ~Recovering
    BY Zenon DEF AcceptResult, runVars, writerVars, Unusable
  <2>3. /\ src' \in Sources /\ src'.active = src.active /\ src'.session = src.session
        /\ Muted(producers, producers') /\ producers' \subseteq Candidate
        /\ \A p \in producers' : p.st = "resolve" => p.rev \in Built
        /\ StagedOf(producers') = StagedOf(producers)
    BY <1>TrackingFacts, Zenon
  <2>4. /\ res.rev \in Revision /\ res.session \in BOOLEAN
        /\ StagedHandles = StagedHandles' \cup (IF res.session THEN {Staged(res.rev)} ELSE {})
        /\ HandHandles = {}
    BY <2>3, <1>ResultTaken, Zenon
  <2>5. res.rev \in Built /\ cur' \in Work /\ cur'.rev = res.rev /\ cur'.session = res.session
    BY <2>1, <2>2, <2>4, Zenon DEF TypeOK, Work
  <2>6. pub.reservation = None /\ tx = None /\ Shows(disk)
    BY <2>2, Quiet, Zenon
  <2>7. Fresh(res.rev.epoch, res.rev.refresh)
    BY <2>4, Zenon DEF IInv, AllFresh, Cand, Revision
  <2> DEFINE r == Reservation(res)
  <2>8. /\ pub' \in Publication /\ pub'.listener = pub.listener /\ pub'.reservation = r
        /\ r # None /\ r.rev = res.rev /\ open' = open \cup ReservationHandles(r)
        /\ open' \subseteq Handles
        /\ PublicHandles' = PublicHandles \cup ReservationHandles(r)
        /\ Fits' /\ Kept'
    BY <2>2, <2>3, <2>4, <2>5, <2>6, <2>7, ReserveFacts, Zenon
  <2> HIDE DEF r
  <2>9. Past' /\ Adopted' /\ Doubted' /\ Advance /\ Forward /\ Taken' = Taken
    BY <2>1, <2>2, <2>6, WriterSame, Zenon DEF PlaceKept
  <2>10. \A q \in producers' : \E p \in producers : Same(p, q)
    BY <2>3, Zenon DEF Muted, Drawn
  <2>11. CandsKept
    <3> SUFFICES ASSUME NEW e \in Epoch, NEW f \in 0..MaxRefresh, Cand(e, f)' PROVE Cand(e, f)
      BY Zenon DEF CandsKept
    <3> QED BY <2>5, <2>10 DEF Cand, Same
  <2>12. Apart'
    <3>1. Apart
      BY Zenon DEF IInv
    <3>2. \A p, q \in producers' : SameId(p.rev, q.rev) => p = q
      BY <2>3, <3>1, Zenon DEF Muted, Drawn, Single, Apart
    <3>3. \A p \in producers', s \in results' : ~SameId(p.rev, s.rev)
      BY <2>10, <3>1, Zenon DEF Same, Apart
    <3>4. (\A p \in producers' : ~SameId(p.rev, cur'.rev)) /\ (\A s \in results' : ~SameId(s.rev, cur'.rev))
      BY <2>5, <2>10, <3>1 DEF Same, Apart
    <3> QED BY <3>1, <3>2, <3>3, <3>4, Zenon DEF Apart, SameId
  <2>13. AllFresh'
    BY <2>1, <2>2, <2>9, <2>11, AllFreshKept, Zenon DEF IInv
  <2>14. Asked' /\ Waited' /\ Honest'
    <3>1. WaiterKept
      BY <2>2, Zenon DEF WaiterKept, Settling
    <3>2. /\ committed \subseteq committed' /\ Taken' \subseteq Taken /\ eng.admitted <= eng'.admitted
          /\ eng' \in Writer
      BY <2>1, <2>2, <2>9, WriterTyped
    <3>3. RuledStays
      BY <2>1, <2>11, <3>2, RuledKept, Zenon DEF Grown
    <3> QED BY <2>1, <2>2, <3>1, <3>2, <3>3, RequestsSame, RequestsStep, Zenon DEF IInv
  <2>15. Matching'
    BY <2>2, <2>5, <2>10 DEF IInv, Matching, Wants, Held, Same
  <2>16. Told' /\ Phases' /\ Booted'
    BY <2>1, <2>2, <2>3, <2>5, <2>6, <2>8, Zenon DEF Told, Phases, Booted, Shows, Recovering
  <2>17. HandlesOwned'
    <3>1. HandHandles' = IF res.session THEN {Staged(res.rev)} ELSE {}
      BY <2>2, <2>5, Zenon DEF HandHandles, StagedOf
    <3>2. open = StagedHandles \cup PublicHandles
      BY <2>4, OwnedParts, Zenon DEF IInv, HandlesOwned
    <3> QED BY <2>4, <2>8, <3>1, <3>2, OwnedParts, Zenon DEF HandlesOwned
  <2>18. TypeOK'
    BY <2>1, <2>2, <2>3, <2>5, <2>8, Zenon DEF TypeOK
  <2> QED BY <2>8, <2>9, <2>12, <2>13, <2>14, <2>15, <2>16, <2>17, <2>18, Zenon DEF IInv

\* A staged result reaches the loop.
<1>HandleResultStep.
    ASSUME IInv, NEW res \in results, HandleResult(res)
    PROVE  IInv' /\ Advance
  BY <1>HandleResultStep, <1>RejectResultStep, <1>AcceptResultStep, Zenon DEF HandleResult

<1> QED BY <1>HandleResultStep, Zenon

----------------------------------------------------------------------------
(* The writer's apply.                                                     *)

\* The candidate in the loop's hands, before it is applied.
LEMMA InHandFacts ==
    ASSUME IInv, InHand
    PROVE  /\ cur \in Work /\ cur.rev \in Built /\ cur.session \in BOOLEAN /\ tx = None
           /\ cur.rev.epoch \in Epoch /\ cur.rev.refresh \in 0..MaxRefresh
           /\ cur.rev.epoch \in Nat /\ cur.rev.refresh \in Nat
           /\ Cand(cur.rev.epoch, cur.rev.refresh) /\ Fresh(cur.rev.epoch, cur.rev.refresh)
           /\ Chosen(eng, disk) /\ Taken = committed
<1>1. cur \in Work
  BY Zenon DEF IInv, TypeOK, InHand
<1>2. cur.rev \in Built /\ cur.session \in BOOLEAN
  BY <1>1, Zenon DEF Work
<1>3. /\ cur.rev.epoch \in Epoch /\ cur.rev.refresh \in 0..MaxRefresh
      /\ cur.rev.epoch \in Nat /\ cur.rev.refresh \in Nat
  BY <1>2, BoundsAssumption DEF Built, Epoch
<1>4. Cand(cur.rev.epoch, cur.rev.refresh)
  BY Zenon DEF Cand
<1>5. Fresh(cur.rev.epoch, cur.rev.refresh)
  BY <1>3, <1>4, Zenon DEF IInv, AllFresh
<1>6. tx = None /\ Chosen(eng, disk)
  BY Zenon DEF IInv, Doubted, Adopted, InHand
<1>7. Taken = committed
  BY <1>6, Zenon DEF Taken
<1> QED BY <1>1, <1>2, <1>3, <1>4, <1>5, <1>6, <1>7, Zenon

\* The writer's apply returns with outcome o.
Outcoming(o) == pc = "apply" /\ pc' = "applied" /\ cur' = [cur EXCEPT !.out = o]

\* The writer applies the candidate (engine.go): it refuses, fails, leaves it in doubt
\* or commits it.
LEMMA ApplySteps ==
    IInv /\ Apply => IInv' /\ Advance
\* A candidate that passes the writer's admission check is newer than its choice.
<1>CurrentNewer.
    ASSUME IInv, InHand, Current(cur.rev)
    PROVE  /\ disk # None => Newer(cur.rev, disk)
           /\ Newest(cur.rev) /\ cur.rev.epoch <= eng.admitted /\ eng.activeEpoch <= cur.rev.epoch
           /\ cur.rev.refresh # 0 => disk # None /\ disk \in committed /\ disk.epoch = cur.rev.epoch
  <2> USE <1>CurrentNewer
  <2>1. /\ cur.rev.epoch \in Nat /\ cur.rev.refresh \in Nat
        /\ Fresh(cur.rev.epoch, cur.rev.refresh) /\ Chosen(eng, disk) /\ Taken = committed
    BY InHandFacts, Zenon
  <2>2. eng \in Writer /\ disk \in OptRev /\ eng.activeEpoch <= eng.admitted
    BY Zenon DEF IInv, TypeOK, Adopted
  <2>3. eng.admitted \in Nat /\ eng.activeEpoch \in Nat /\ eng.refreshSequence \in Nat
    BY <2>2, WriterTyped, Zenon
  <2>4. Newest(cur.rev) /\ cur.rev.epoch <= eng.admitted /\ eng.activeEpoch <= cur.rev.epoch
    BY <2>1, <2>2, <2>3 DEF Newest, Current
  <2>5. disk # None => disk \in committed
    BY Zenon DEF IInv, Past
  <2>6. cur.rev.refresh # 0 => disk # None /\ disk.epoch = cur.rev.epoch
    BY <2>1, <2>3, Zenon DEF Chosen, Current
  <2>7. ASSUME disk # None PROVE Newer(cur.rev, disk)
    <3>1. disk.epoch \in Nat /\ disk.refresh \in Nat
      BY <2>2, <2>7, RevTyped, Zenon
    <3>2. CASE cur.rev.refresh = 0
      <4>1. disk.epoch # cur.rev.epoch
        BY <2>1, <2>5, <2>7, <3>2, Zenon DEF Fresh
      <4> QED BY <2>1, <2>2, <2>3, <2>7, <3>1, <3>2, <4>1 DEF Newer, Chosen, Current
    <3>3. CASE cur.rev.refresh # 0
      <4>1. disk.refresh # cur.rev.refresh
        BY <2>1, <2>5, <2>6, <2>7, <3>3, Zenon DEF Fresh
      <4> QED BY <2>1, <2>3, <2>7, <3>1, <3>3, <4>1 DEF Newer, Chosen, Current
    <3> QED BY <3>2, <3>3, Zenon
  <2> QED BY <2>4, <2>5, <2>6, <2>7, Zenon

\* An apply changes nothing that is staged.
<1>AppliedStaging.
    ASSUME IInv, pc = "apply", pc' = "applied", cur'.rev = cur.rev, UNCHANGED <<producers, results>>
    PROVE  StagingKept
  BY <1>AppliedStaging, DrawnSame, Zenon DEF IInv, StagingKept, Held, InHand

\* The candidate is committed or in doubt: what that means for everything else.
<1>TakenMore.
    ASSUME IInv, pc = "apply", Current(cur.rev), pc' = "applied", cur'.rev = cur.rev,
           UNCHANGED <<producers, results, req, waiter>>, eng' \in Writer, eng'.admitted = eng.admitted,
           eng.activeEpoch <= eng'.activeEpoch,
           eng.activeEpoch = eng'.activeEpoch => eng.refreshSequence <= eng'.refreshSequence,
           Taken' \subseteq Taken \cup {cur.rev}, committed \subseteq committed'
    PROVE  Apart' /\ AllFresh' /\ Asked' /\ Waited' /\ Matching' /\ Honest'
  <2> USE <1>TakenMore
  <2>1. InHand /\ StagingKept /\ Answered /\ Bound
    BY <1>AppliedStaging, RequestsSame, Zenon DEF InHand
  <2>2. Apart' /\ Matching' /\ CandsKept
    BY <2>1, StagingApart, StagingMatching, StagingCands, Zenon DEF IInv
  <2>3. /\ cur.rev.epoch \in Nat /\ cur.rev.refresh \in Nat
        /\ Cand(cur.rev.epoch, cur.rev.refresh) /\ Taken = committed
    BY <2>1, InHandFacts, Zenon
  <2>4. /\ Newest(cur.rev)
        /\ cur.rev.refresh # 0 => disk \in Taken /\ disk.epoch = cur.rev.epoch
    BY <2>1, <2>3, <1>CurrentNewer, Zenon
  <2>5. eng \in Writer /\ req \in [Req -> Request] /\ waiter \in Waiter \cup {None}
    BY Zenon DEF IInv, TypeOK
  <2>6. /\ eng.admitted \in Nat /\ eng.activeEpoch \in Nat /\ eng.refreshSequence \in Nat
        /\ eng'.admitted \in Nat /\ eng'.activeEpoch \in Nat /\ eng'.refreshSequence \in Nat
    BY <2>5, WriterTyped, Zenon
  <2>7. \A e \in Epoch, f \in 0..MaxRefresh : Cand(e, f)' => ~(cur.rev.epoch = e /\ cur.rev.refresh = f)
    BY Zenon DEF IInv, Apart, Held, SameId, Cand, InHand
  <2>8. AllFresh'
    <3> SUFFICES ASSUME NEW e \in Epoch, NEW f \in 0..MaxRefresh, Cand(e, f)' PROVE Fresh(e, f)'
      BY Zenon DEF AllFresh
    <3>1. Fresh(e, f) /\ ~(cur.rev.epoch = e /\ cur.rev.refresh = f)
      BY <2>2, <2>7, Zenon DEF CandsKept, IInv, AllFresh
    <3>2. e \in Nat /\ f \in Nat
      BY BoundsAssumption DEF Epoch
    <3>3. CASE f = 0
      <4>1. cur.rev.epoch # e
        BY <2>4, <3>1, <3>3, Zenon DEF Fresh
      <4> QED BY <2>6, <3>1, <3>3, <4>1, Zenon DEF Fresh
    <3>4. CASE f # 0
      <4>1. \A c \in Taken' : ~(c.epoch = e /\ c.refresh = f)
        BY <3>1, <3>4, Zenon DEF Fresh
      <4>2. e <= eng'.admitted /\ e <= eng'.activeEpoch /\ (e = eng'.activeEpoch => f <= eng'.refreshSequence)
        BY <2>6, <3>1, <3>2, <3>4 DEF Fresh
      <4> QED BY <3>4, <4>1, <4>2, Zenon DEF Fresh
    <3> QED BY <3>3, <3>4, Zenon
  <2>9. RuledStays
    <3> SUFFICES ASSUME NEW e \in Epoch, e <= eng.admitted, Ruled(e) PROVE Ruled(e)'
      BY Zenon DEF RuledStays
    <3>1. e \in Nat /\ 0 \in 0..MaxRefresh
      BY BoundsAssumption DEF Epoch
    <3>2. cur.rev.epoch # e
      BY <2>3, <2>4, <2>6, <3>1 DEF Ruled, Newest
    <3>3. \A c \in Taken' : c.epoch # e
      BY <3>2, Zenon DEF Ruled
    <3>4. Cand(e, 0)' => Cand(e, 0)
      BY <2>2, <3>1, Zenon DEF CandsKept
    <3> QED BY <3>3, <3>4, Zenon DEF Ruled
  <2>10. Honest'
    BY <2>5, <2>9, HonestStep, Zenon DEF IInv, Answers
  <2>11. Asked'
    BY Zenon DEF IInv, Asked
  <2>12. Waited'
    <3> SUFFICES ASSUME waiter # None, ~Settling' PROVE \A c \in Taken' : c.epoch # waiter.epoch
      BY Zenon DEF IInv, Waited
    <3>1. \A c \in Taken : c.epoch # waiter.epoch
      BY Zenon DEF IInv, Waited, Settling
    <3>2. cur.rev.epoch # waiter.epoch
      BY <2>4, <3>1, Zenon DEF Settling
    <3> QED BY <3>1, <3>2, Zenon
  <2> QED BY <2>2, <2>8, <2>10, <2>11, <2>12, Zenon

\* The candidate is the same, with its outcome.
<1>OutcomeFacts.
    ASSUME IInv, NEW o \in Outcomes, Outcoming(o)
    PROVE  /\ cur' \in Work /\ cur'.rev = cur.rev /\ cur'.out = o /\ cur'.out # None /\ InHand
  <2> USE <1>OutcomeFacts
  <2>1. InHand
    BY Zenon DEF InHand, Outcoming
  <2>2. cur \in Work
    BY <2>1, InHandFacts, Zenon
  <2>3. cur' \in Work /\ cur'.rev = cur.rev /\ cur'.out = o
    BY <2>2, Zenon DEF Outcoming, Work
  <2> QED BY <2>1, <2>3, NilAssumption, Zenon

\* An apply leaves the publication as it is and closes the staged session.
<1>ApplyFrame.
    ASSUME IInv, NEW o \in Outcomes, Outcoming(o), open' = open \ {Staged(cur.rev)},
           UNCHANGED <<runVars, waiter, recovery, req, workVars, pub, src>>,
           eng' \in Writer, disk' \in OptRev, tx' \in OptRev, committed' \subseteq Built,
           Past', Adopted', Doubted', Advance, committed \subseteq committed',
           Apart', AllFresh', Asked', Waited', Matching', Honest', Told',
           ~o.committed => disk' = disk
    PROVE  IInv' /\ Advance
  <2> USE <1>ApplyFrame
  <2>1. cur' \in Work /\ cur'.rev = cur.rev /\ cur'.out = o /\ cur'.out # None /\ InHand
    BY <1>OutcomeFacts, Zenon
  <2>2. pc = "apply" /\ pc' = "applied"
    BY Zenon DEF Outcoming
  <2>3. UNCHANGED <<booting, cancelled, ready, waiter, recovery, req, producers, results, pub, src>>
    BY Zenon DEF runVars, workVars
  <2>4. Fits' /\ Kept'
    BY <2>3, FitsSame, Zenon DEF IInv
  <2>5. Phases'
    BY <2>1, <2>2, <2>3, Zenon DEF IInv, Phases, Shows
  <2>6. Booted'
    BY <2>2, <2>3, Zenon DEF IInv, Booted
  <2>7. HandlesOwned'
    <3>1. open' = StagedHandles \cup PublicHandles
      BY <2>1, HandDropped, Zenon
    <3>2. StagedHandles' = StagedHandles /\ PublicHandles' = PublicHandles
      BY <2>3, StagedSame, PublicKept, Zenon
    <3>3. HandHandles' = {}
      BY <2>2, Zenon DEF HandHandles
    <3> QED BY <3>1, <3>2, <3>3, OwnedParts, Zenon DEF HandlesOwned
  <2>8. TypeOK'
    BY <2>1, <2>2, <2>3, Zenon DEF IInv, TypeOK
  <2> QED BY <2>4, <2>5, <2>6, <2>7, <2>8, Zenon DEF IInv

\* The writer refuses, or fails without a candidate in doubt.
<1>ApplyFailsStep.
    ASSUME IInv, NEW o \in Outcomes, Outcoming(o), open' = open \ {Staged(cur.rev)},
           UNCHANGED <<runVars, waiter, recovery, req, workVars, pub, src>>,
           ~o.committed, ~o.tx, UNCHANGED <<disk, tx, committed>>,
           eng' = eng \/ eng' = [eng EXCEPT !.healthy = FALSE]
    PROVE  IInv' /\ Advance
  <2> USE <1>ApplyFailsStep
  <2>1. cur' \in Work /\ cur'.rev = cur.rev /\ cur'.out = o /\ InHand /\ pc = "apply" /\ pc' = "applied"
    BY <1>OutcomeFacts, Zenon DEF Outcoming
  <2>2. TypeOK /\ WriterOK /\ eng \in Writer
    BY Zenon DEF IInv, WriterOK, TypeOK
  <2>3. /\ eng' \in Writer /\ eng'.admitted = eng.admitted /\ eng'.activeEpoch = eng.activeEpoch
        /\ eng'.refreshSequence = eng.refreshSequence
    BY <2>2, Zenon DEF Writer
  <2>4. /\ tx = None /\ Fresh(cur.rev.epoch, cur.rev.refresh) /\ Taken = committed
    BY <2>1, InHandFacts, Zenon
  <2>5. Past' /\ Adopted' /\ Doubted' /\ Advance /\ Forward
    BY <2>1, <2>2, <2>3, <2>4, WriterSame, Zenon DEF PlaceKept
  <2>6. UNCHANGED <<producers, results, req, waiter>>
    BY Zenon DEF workVars
  <2>7. Apart' /\ AllFresh' /\ Asked' /\ Waited' /\ Matching' /\ Honest'
    <3>1. StagingKept /\ WaiterKept
      BY <2>1, <2>6, <1>AppliedStaging, Zenon DEF WaiterKept, Settling
    <3> QED BY <2>3, <2>5, <2>6, <3>1, RequestsSame, RestKept, Zenon
  <2>8. Told'
    BY <2>1, <2>4, Zenon DEF Told, Fresh
  <2>9. disk' \in OptRev /\ tx' \in OptRev /\ committed' \subseteq Built
    BY <2>2, Zenon DEF TypeOK
  <2> QED BY <2>3, <2>5, <2>7, <2>8, <2>9, <1>ApplyFrame, Zenon

\* The candidate is in doubt: the transaction's outcome is unknown, and the
\* reservation is kept for the recovery that decides.
<1>ApplyDoubtStep.
    ASSUME IInv, NEW o \in Outcomes, Outcoming(o), open' = open \ {Staged(cur.rev)},
           UNCHANGED <<runVars, waiter, recovery, req, workVars, pub, src>>,
           ~o.committed, o.tx, o.degraded, UNCHANGED <<disk, committed>>, tx' = cur.rev, Current(cur.rev),
           eng' = [eng EXCEPT !.healthy = FALSE]
    PROVE  IInv' /\ Advance
  <2> USE <1>ApplyDoubtStep
  <2>1. cur' \in Work /\ cur'.rev = cur.rev /\ cur'.out = o /\ InHand /\ pc = "apply" /\ pc' = "applied"
    BY <1>OutcomeFacts, Zenon DEF Outcoming
  <2>2. TypeOK /\ eng \in Writer /\ disk \in OptRev /\ committed \subseteq Built
    BY Zenon DEF IInv, TypeOK
  <2>3. /\ eng' \in Writer /\ eng'.admitted = eng.admitted /\ eng'.activeEpoch = eng.activeEpoch
        /\ eng'.refreshSequence = eng.refreshSequence /\ ~eng'.healthy
    BY <2>2, Zenon DEF Writer
  <2>4. /\ tx = None /\ Taken = committed /\ cur.rev \in Built /\ Chosen(eng, disk)
    BY <2>1, InHandFacts, Zenon
  <2>5. (disk # None => Newer(cur.rev, disk)) /\ Newest(cur.rev)
    BY <2>1, <1>CurrentNewer, Zenon
  <2>6. UNCHANGED <<producers, results, req, waiter>>
    BY Zenon DEF workVars
  <2>7. Taken' \subseteq Taken \cup {cur.rev}
    BY <2>4, Zenon DEF Taken
  <2>8. /\ eng.activeEpoch \in Nat /\ eng.refreshSequence \in Nat
    BY <2>2, WriterTyped, Zenon
  <2>9. Apart' /\ AllFresh' /\ Asked' /\ Waited' /\ Matching' /\ Honest'
    BY <2>1, <2>3, <2>6, <2>7, <2>8, <1>TakenMore
  <2>10. Past' /\ Advance
    BY Zenon DEF IInv, Past, Advance
  <2>11. Adopted'
    BY <2>3, <2>4, Zenon DEF IInv, Adopted, Chosen
  <2>12. Doubted'
    BY <2>1, <2>3, <2>5, Zenon DEF Doubted, Newest, Newer
  <2>13. Told'
    BY <2>1, Zenon DEF Told
  <2>14. tx' \in OptRev /\ disk' \in OptRev /\ committed' \subseteq Built
    BY <2>2, <2>4, Zenon DEF OptRev
  <2> QED BY <2>3, <2>9, <2>10, <2>11, <2>12, <2>13, <2>14, <1>ApplyFrame, Zenon

\* The candidate is committed, completely or not: it is newer than every committed
\* one.
<1>ApplyCommitStep.
    ASSUME IInv, NEW o \in Outcomes, Outcoming(o), open' = open \ {Staged(cur.rev)},
           UNCHANGED <<runVars, waiter, recovery, req, workVars, pub, src>>,
           o.committed, o.tx => o.degraded, disk' = cur.rev, committed' = committed \cup {cur.rev},
           tx' = tx, Current(cur.rev),
           eng' = Adopt(eng, cur.rev) \/ eng' = [Adopt(eng, cur.rev) EXCEPT !.healthy = FALSE]
    PROVE  IInv' /\ Advance
  <2> USE <1>ApplyCommitStep
  <2>1. cur' \in Work /\ cur'.rev = cur.rev /\ cur'.out = o /\ InHand /\ pc = "apply" /\ pc' = "applied"
    BY <1>OutcomeFacts, Zenon DEF Outcoming
  <2>2. TypeOK /\ eng \in Writer /\ disk \in OptRev /\ committed \subseteq Built
    BY Zenon DEF IInv, TypeOK
  <2>3. /\ tx = None /\ Taken = committed /\ cur.rev \in Built /\ Chosen(eng, disk)
        /\ cur.rev.epoch \in Nat /\ cur.rev.refresh \in Nat
    BY <2>1, InHandFacts, Zenon
  <2>4. /\ disk # None => Newer(cur.rev, disk)
        /\ Newest(cur.rev) /\ cur.rev.epoch <= eng.admitted /\ eng.activeEpoch <= cur.rev.epoch
    BY <2>1, <1>CurrentNewer, Zenon
  <2>5. cur.rev \in OptRev /\ cur.rev # None
    BY <2>3, NilAssumption, Zenon DEF OptRev
  <2> DEFINE a == Adopt(eng, cur.rev)
  <2>6. /\ a \in Writer /\ a.activeEpoch = cur.rev.epoch /\ cur.rev.refresh <= a.refreshSequence
        /\ cur.rev.epoch = eng.activeEpoch => eng.refreshSequence <= a.refreshSequence
        /\ a.admitted = eng.admitted
    BY <2>2, <2>4, <2>5, AdoptFacts, Zenon
  <2>7. eng' = a \/ eng' = [a EXCEPT !.healthy = FALSE]
    BY Zenon
  <2> HIDE DEF a
  <2>8. /\ eng' \in Writer /\ eng'.admitted = eng.admitted /\ eng'.activeEpoch = cur.rev.epoch
        /\ eng'.refreshSequence = a.refreshSequence
    BY <2>6, <2>7, Zenon DEF Writer
  <2>9. UNCHANGED <<producers, results, req, waiter>>
    BY Zenon DEF workVars
  <2>10. Taken' \subseteq Taken \cup {cur.rev}
    BY <2>3, Zenon DEF Taken
  <2>11. Apart' /\ AllFresh' /\ Asked' /\ Waited' /\ Matching' /\ Honest'
    BY <2>1, <2>4, <2>6, <2>8, <2>9, <2>10, <1>TakenMore, Zenon
  <2>12. Past'
    BY <2>2, <2>3, <2>4, PastExtended, Zenon DEF IInv
  <2>13. Adopted'
    BY <2>1, <2>4, <2>5, <2>6, <2>8, Zenon DEF Adopted, Chosen
  <2>14. Doubted' /\ Told'
    BY <2>1, <2>3, Zenon DEF Doubted, Told
  <2>15. Advance
    BY <2>4, <2>5, Zenon DEF Advance, Newest
  <2>16. tx' \in OptRev /\ disk' \in OptRev /\ committed' \subseteq Built
    BY <2>2, <2>3, <2>5, Zenon DEF OptRev
  <2> QED BY <2>8, <2>11, <2>12, <2>13, <2>14, <2>15, <2>16, <1>ApplyFrame, Zenon

\* The writer's apply, by its outcomes.
<1>ApplyStep.
    ASSUME IInv, Apply
    PROVE  IInv' /\ Advance
  <2> USE <1>ApplyStep
  <2> DEFINE o(c, d, t, e) == [committed |-> c, degraded |-> d, tx |-> t, err |-> e]
  <2>1. /\ open' = open \ {Staged(cur.rev)} /\ pc = "apply" /\ pc' = "applied"
        /\ UNCHANGED <<runVars, waiter, recovery, req, workVars, pub, src>>
    BY Zenon DEF Apply
  <2>2. \A c, d, t, e \in BOOLEAN :
          /\ o(c, d, t, e) \in Outcomes /\ o(c, d, t, e).committed = c
          /\ o(c, d, t, e).degraded = d /\ o(c, d, t, e).tx = t
    BY DEF Outcomes
  <2>3. \A c, d, t, e \in BOOLEAN : Outcome(c, d, t, e) => Outcoming(o(c, d, t, e))
    BY <2>1, Zenon DEF Outcome, Outcoming
  <2> HIDE DEF o
  <2>4. CASE /\ Outcome(FALSE, TRUE, FALSE, TRUE) \/ Outcome(FALSE, FALSE, FALSE, TRUE)
             /\ UNCHANGED <<disk, tx, committed>>
             /\ eng' = eng \/ eng' = [eng EXCEPT !.healthy = FALSE]
    BY <2>1, <2>2, <2>3, <2>4, <1>ApplyFailsStep, Zenon
  <2>5. CASE /\ Outcome(FALSE, TRUE, TRUE, TRUE) /\ tx' = cur.rev /\ Current(cur.rev)
             /\ eng' = [eng EXCEPT !.healthy = FALSE] /\ UNCHANGED <<disk, committed>>
    BY <2>1, <2>2, <2>3, <2>5, <1>ApplyDoubtStep, Zenon
  <2>6. CASE /\ disk' = cur.rev /\ committed' = committed \cup {cur.rev} /\ tx' = tx /\ Current(cur.rev)
             /\ \/ Outcome(TRUE, FALSE, FALSE, FALSE) /\ eng' = Adopt(eng, cur.rev)
                \/ Outcome(TRUE, FALSE, FALSE, TRUE) /\ eng' = Adopt(eng, cur.rev)
                \/ Outcome(TRUE, TRUE, TRUE, TRUE)
                   /\ eng' = [Adopt(eng, cur.rev) EXCEPT !.healthy = FALSE]
    BY <2>1, <2>2, <2>3, <2>6, <1>ApplyCommitStep, Zenon
  <2> QED BY <2>4, <2>5, <2>6, Zenon DEF Apply, writerVars

<1> QED BY <1>ApplyStep, Zenon

----------------------------------------------------------------------------
(* Publication.                                                            *)

\* The session, the listener and the reservation own different handles.
LEMMA PublicApart ==
    ASSUME IInv
    PROVE  /\ SourceHandles \cap ListenerHandles = {}
           /\ SourceHandles \cap ReservationHandles(pub.reservation) = {}
           /\ ListenerHandles \cap ReservationHandles(pub.reservation) = {}
           /\ StagedHandles \cap PublicHandles = {}
<1>1. Kept /\ Fits
  BY Zenon DEF IInv
<1>2. ASSUME NEW h \in SourceHandles PROVE h = src.session /\ \E c \in committed : h = Reserved(c)
  BY <1>1, <1>2, Zenon DEF SourceHandles, Kept
<1>3. ASSUME NEW h \in ListenerHandles
      PROVE  /\ pub.listener # None /\ h = pub.listener.handle
             /\ \E c \in committed : h = Listener(c)
  BY <1>1, <1>3, Zenon DEF ListenerHandles, Kept
<1>4. ASSUME NEW h \in ReservationHandles(pub.reservation)
      PROVE  /\ pub.reservation # None
             /\ h = Reserved(pub.reservation.rev) \/ h = Listener(pub.reservation.rev)
  BY <1>4, Zenon DEF ReservationHandles
<1>5. \A x, y : Reserved(x) # Listener(y)
  BY HandleFacts DEF Reserved, Listener
<1>6. SourceHandles \cap ListenerHandles = {}
  BY <1>2, <1>3, <1>5, Zenon
<1>7. SourceHandles \cap ReservationHandles(pub.reservation) = {}
  <2> SUFFICES ASSUME NEW h \in SourceHandles, h \in ReservationHandles(pub.reservation) PROVE FALSE
    BY Zenon
  <2>1. h # Listener(pub.reservation.rev) /\ h = src.session
    BY <1>2, <1>5, Zenon
  <2>2. pub.reservation # None /\ src.session = Reserved(pub.reservation.rev)
    BY <1>4, <2>1, Zenon
  <2> QED BY <1>1, <2>2, Zenon DEF Fits
<1>8. ListenerHandles \cap ReservationHandles(pub.reservation) = {}
  <2> SUFFICES ASSUME NEW h \in ListenerHandles, h \in ReservationHandles(pub.reservation) PROVE FALSE
    BY Zenon
  <2>1. h # Reserved(pub.reservation.rev) /\ h = pub.listener.handle /\ pub.listener # None
    BY <1>3, <1>5, Zenon
  <2>2. pub.reservation # None /\ pub.listener.handle = Listener(pub.reservation.rev)
    BY <1>4, <2>1, Zenon
  <2> QED BY <1>1, <2>1, <2>2, Zenon DEF Fits
<1>9. \A h \in StagedHandles : \E x : h = Staged(x)
  BY Zenon DEF StagedHandles, StagedOf
<1>10. StagedHandles \cap PublicHandles = {}
  BY <1>1, <1>9, StagedIsStaged, Zenon
<1> QED BY <1>6, <1>7, <1>8, <1>10, Zenon

\* selectRevision: the sources follow rev, and a session of another epoch is
\* replaced by the reserved one (source.go).
LEMMA SelectFacts ==
    ASSUME IInv, NEW rev \in OptRev, NEW s \in Handles \cup {None}, SelectRevision(rev, s)
    PROVE  /\ src' \in Sources /\ src'.active = rev /\ src'.session = NextSession(rev, s)
           /\ Muted(producers, producers')
<1>1. src \in Sources /\ producers \subseteq Candidate
  BY Zenon DEF IInv, TypeOK
<1> DEFINE n == NextSession(rev, s)
           f == IF SameEpoch(rev) THEN src.refreshing ELSE None
           t == rev # None
<1>2. src' = [src EXCEPT !.active = rev, !.session = n, !.refreshing = f, !.timer = t]
  BY Zenon DEF SelectRevision
<1>3. n \in Handles \cup {None} /\ f \in Refresh \cup {None} /\ t \in BOOLEAN
  BY <1>1, Zenon DEF NextSession, Sources
<1> HIDE DEF n, f, t
<1>4. src' \in Sources
  BY <1>1, <1>2, <1>3, Zenon DEF Sources
<1>5. src'.active = rev /\ src'.session = n
  BY <1>1, <1>2, Zenon DEF Sources
<1>6. Muted(producers, producers')
  BY <1>1, MutedSelf, RefreshMuted, Zenon DEF SelectRevision
<1> QED BY <1>4, <1>5, <1>6, Zenon DEF n

\* The publication without its reservation, whose handles are closed.
LEMMA UnreservedFacts ==
    ASSUME IInv, pub' = Unreserved(pub)
    PROVE  /\ pub' \in Publication /\ pub'.reservation = None /\ pub'.listener = pub.listener
           /\ ListenerHandles' = ListenerHandles
           /\ PublicHandles' = SourceHandles' \cup ListenerHandles
<1>1. pub \in Publication
  BY Zenon DEF IInv, TypeOK
<1> DEFINE t == pub.telemetry /\ pub.listener # None
<1>2. pub' = [pub EXCEPT !.reservation = None, !.telemetry = t]
  BY Zenon DEF Unreserved
<1>3. t \in BOOLEAN
  BY Zenon
<1> HIDE DEF t
<1>4. pub' \in Publication
  BY <1>1, <1>2, <1>3, Zenon DEF Publication
<1>5. pub'.reservation = None /\ pub'.listener = pub.listener
  BY <1>1, <1>2, Zenon DEF Publication
<1>6. ListenerHandles' = ListenerHandles
  BY <1>5, Zenon DEF ListenerHandles
<1>7. ReservationHandles(pub.reservation)' = {}
  BY <1>5, Zenon DEF ReservationHandles
<1> QED BY <1>4, <1>5, <1>6, <1>7, Zenon DEF PublicHandles

\* What is open when nothing is in hand.
LEMMA OpenParts ==
    ASSUME IInv, HandHandles = {}
    PROVE  open = StagedHandles \cup SourceHandles \cup ListenerHandles
                  \cup ReservationHandles(pub.reservation)
BY OwnedParts, Zenon DEF IInv, HandlesOwned, PublicHandles

\* The reservation is discarded and its handles are closed.
LEMMA DiscardFacts ==
    ASSUME IInv, HandHandles = {}, pub' = Unreserved(pub), src' = src, committed \subseteq committed',
           open' = open \ ReservationHandles(pub.reservation)
    PROVE  /\ pub' \in Publication /\ pub'.reservation = None /\ pub'.listener = pub.listener
           /\ Fits' /\ Kept' /\ open' = StagedHandles \cup PublicHandles'
<1>1. /\ pub' \in Publication /\ pub'.reservation = None /\ pub'.listener = pub.listener
      /\ PublicHandles' = SourceHandles' \cup ListenerHandles
  BY UnreservedFacts, Zenon
<1>2. SourceHandles' = SourceHandles
  BY Zenon DEF SourceHandles
<1>3. open = StagedHandles \cup SourceHandles \cup ListenerHandles
             \cup ReservationHandles(pub.reservation)
  BY OpenParts, Zenon
<1>4. /\ SourceHandles \cap ReservationHandles(pub.reservation) = {}
      /\ ListenerHandles \cap ReservationHandles(pub.reservation) = {}
      /\ StagedHandles \cap PublicHandles = {}
  BY PublicApart, Zenon
<1>5. open' = StagedHandles \cup PublicHandles'
  BY <1>1, <1>2, <1>3, <1>4, Zenon DEF PublicHandles
<1>6. Fits' /\ Kept'
  BY <1>1, Zenon DEF IInv, Fits, Kept
<1> QED BY <1>1, <1>5, <1>6, Zenon

\* The session after a revision is selected: the one replaced is closed.
LEMMA SessionFacts ==
    ASSUME IInv, NEW rev \in OptRev, NEW s \in Handles \cup {None}, SelectRevision(rev, s),
           s # None => rev # None /\ s = Reserved(rev) /\ rev \in committed' /\ s # src.session,
           committed \subseteq committed'
    PROVE  /\ src' \in Sources /\ src'.active = rev /\ Muted(producers, producers')
           /\ SourceHandles' = (SourceHandles \ ReplacedSession(rev, s)) \cup ({s} \ {None})
           /\ ReplacedSession(rev, s) \subseteq SourceHandles
           /\ src'.session # None => /\ rev # None /\ src'.session[2] = rev.epoch
                                     /\ \E c \in committed' : src'.session = Reserved(c)
<1>1. /\ src' \in Sources /\ src'.active = rev /\ src'.session = NextSession(rev, s)
      /\ Muted(producers, producers')
  BY SelectFacts, Zenon
<1>2. ReplacedSession(rev, s) = SourceHandles \ {NextSession(rev, s)}
  BY Zenon DEF ReplacedSession, SourceHandles
<1>3. SourceHandles' = {NextSession(rev, s)} \ {None}
  BY <1>1, Zenon DEF SourceHandles
<1>4. CASE s = None /\ rev # None /\ src.active = rev
  <2>1. NextSession(rev, s) = src.session
    BY <1>4, Zenon DEF NextSession
  <2>2. SourceHandles' = (SourceHandles \ ReplacedSession(rev, s)) \cup ({s} \ {None})
    BY <1>2, <1>3, <1>4, <2>1, Zenon DEF SourceHandles
  <2>3. src.session # None => /\ rev # None /\ src.session[2] = rev.epoch
                              /\ \E c \in committed' : src.session = Reserved(c)
    BY <1>4, Zenon DEF IInv, Kept
  <2> QED BY <1>1, <1>2, <2>1, <2>2, <2>3, Zenon
<1>5. CASE ~(s = None /\ rev # None /\ src.active = rev)
  <2>1. NextSession(rev, s) = s
    BY <1>5, Zenon DEF NextSession
  <2>2. SourceHandles' = (SourceHandles \ ReplacedSession(rev, s)) \cup ({s} \ {None})
    BY <1>2, <1>3, <2>1, Zenon DEF SourceHandles
  <2>3. s # None => s[2] = rev.epoch
    BY DEF Reserved, Handle
  <2> QED BY <1>1, <1>2, <2>1, <2>2, <2>3, Zenon
<1> QED BY <1>4, <1>5, Zenon

\* publishReservation: what is published is what was reserved.
LEMMA PublishFacts ==
    ASSUME IInv, HandHandles = {}, pub.reservation # None, NEW r \in Reserving, r = pub.reservation,
           NEW v \in BOOLEAN, Publish(r.rev, r, v), r.rev \in committed', committed \subseteq committed'
    PROVE  /\ src' \in Sources /\ pub' \in Publication /\ Muted(producers, producers')
           /\ pub'.reservation = None /\ src'.active = r.rev /\ r.rev # None
           /\ Listen[r.rev.cfg] = IF pub'.listener = None THEN None ELSE pub'.listener.addr
           /\ Fits' /\ Kept' /\ open' = StagedHandles \cup PublicHandles'
<1> DEFINE s == IF r.session THEN Reserved(r.rev) ELSE None
           l == [addr |-> Listen[r.rev.cfg], handle |-> Listener(r.rev)]
           m == IF r.bound THEN l ELSE None
           o == IF r.replace THEN {pub.listener} \ {None} ELSE {}
           t == pub.telemetry /\ m # None
<1>1. /\ SelectRevision(r.rev, s)
      /\ pub' = IF ~r.replace THEN [pub EXCEPT !.reservation = None]
                ELSE [reservation |-> None, listener |-> m, telemetry |-> t, healthy |-> v]
      /\ open' = open \ (ReplacedSession(r.rev, s) \cup {x.handle : x \in o})
  BY Zenon DEF Publish
<1>2. /\ r.replace <=> pub.listener = None \/ pub.listener.addr # Listen[r.rev.cfg]
      /\ r.bound <=> r.replace /\ Listen[r.rev.cfg] # None
      /\ Reserved(r.rev) # src.session
  BY Zenon DEF IInv, Fits
<1>3. r.rev \in Built /\ r.session \in BOOLEAN /\ r.replace \in BOOLEAN /\ r.bound \in BOOLEAN
  BY Zenon DEF Reserving
<1>4. r.rev \in OptRev /\ r.rev # None /\ r.rev.cfg \in Digest
  BY <1>3, NilAssumption, Zenon DEF OptRev, Built
<1>5. Reserved(r.rev) \in Handles /\ Listener(r.rev) \in Handles
  BY <1>3, Zenon DEF Reserved, Listener, Handle, Handles, Built
<1>6. s \in Handles \cup {None} /\ (s # None => s = Reserved(r.rev))
  BY <1>5, Zenon
<1>7. l \in Serving /\ l # None /\ l.addr = Listen[r.rev.cfg] /\ l.handle = Listener(r.rev)
  <2>1. l \in Serving
    BY <1>4, <1>5, Zenon DEF Serving
  <2> QED BY <2>1, NilAssumption, Zenon
<1>8. m \in Serving \cup {None} /\ t \in BOOLEAN /\ (m = None <=> ~r.bound) /\ (r.bound => m = l)
  BY <1>3, <1>7, Zenon
<1>9. ReservationHandles(r) = ({s} \ {None}) \cup (IF r.bound THEN {Listener(r.rev)} ELSE {})
  <2>1. {s} \ {None} = IF r.session THEN {Reserved(r.rev)} ELSE {}
    BY <1>5, NilAssumption, Zenon
  <2>2. r # None
    BY Zenon
  <2> QED BY <2>1, <2>2, Zenon DEF ReservationHandles
<1> HIDE DEF s, l, m, t
<1>10. pub \in Publication
  BY Zenon DEF IInv, TypeOK
<1>11. /\ pub' \in Publication /\ pub'.reservation = None
       /\ pub'.listener = IF r.replace THEN m ELSE pub.listener
  <2>1. CASE r.replace
    <3>1. pub' = [reservation |-> None, listener |-> m, telemetry |-> t, healthy |-> v]
      BY <1>1, <2>1, Zenon
    <3>2. pub' \in Publication
      BY <1>8, <3>1, Zenon DEF Publication
    <3> QED BY <2>1, <3>1, <3>2, Zenon
  <2>2. CASE ~r.replace
    <3>1. pub' = [pub EXCEPT !.reservation = None]
      BY <1>1, <2>2, Zenon
    <3> QED BY <1>10, <2>2, <3>1, Zenon DEF Publication
  <2> QED BY <1>3, <2>1, <2>2, Zenon
<1>12. Listen[r.rev.cfg] = IF pub'.listener = None THEN None ELSE pub'.listener.addr
  BY <1>2, <1>7, <1>8, <1>11, Zenon
<1>13. /\ src' \in Sources /\ src'.active = r.rev /\ Muted(producers, producers')
       /\ SourceHandles' = (SourceHandles \ ReplacedSession(r.rev, s)) \cup ({s} \ {None})
       /\ ReplacedSession(r.rev, s) \subseteq SourceHandles
       /\ src'.session # None => /\ r.rev # None /\ src'.session[2] = r.rev.epoch
                                 /\ \E c \in committed' : src'.session = Reserved(c)
  BY <1>1, <1>2, <1>4, <1>6, SessionFacts, Zenon
<1>14. pub'.listener # None => \E c \in committed' : pub'.listener.handle = Listener(c)
  <2>1. CASE r.replace
    BY <1>7, <1>8, <1>11, <2>1, Zenon
  <2>2. CASE ~r.replace
    BY <1>11, <2>2, Zenon DEF IInv, Kept
  <2> QED BY <2>1, <2>2, Zenon
<1>15. Fits' /\ Kept'
  <2>1. Fits'
    BY <1>11, Zenon DEF Fits
  <2>2. Kept'
    BY <1>13, <1>14, Zenon DEF Kept, Reserved, Listener, Handle
  <2> QED BY <2>1, <2>2, Zenon
<1> DEFINE O == {x.handle : x \in o}
           B == IF r.bound THEN {Listener(r.rev)} ELSE {}
<1>16. ListenerHandles' = (ListenerHandles \ O) \cup B /\ O \subseteq ListenerHandles
  <2>1. CASE r.replace
    <3>1. O = ListenerHandles
      BY <2>1, Zenon DEF ListenerHandles
    <3>2. ListenerHandles' = B
      BY <1>7, <1>8, <1>11, <2>1, Zenon DEF ListenerHandles
    <3> QED BY <3>1, <3>2, Zenon
  <2>2. CASE ~r.replace
    <3>1. O = {} /\ B = {}
      BY <1>2, <2>2, Zenon
    <3>2. ListenerHandles' = ListenerHandles
      BY <1>11, <2>2, Zenon DEF ListenerHandles
    <3> QED BY <3>1, <3>2, Zenon
  <2> QED BY <2>1, <2>2, Zenon
<1>17. open' = StagedHandles \cup PublicHandles'
  <2>1. open = StagedHandles \cup SourceHandles \cup ListenerHandles \cup ReservationHandles(r)
    BY OpenParts, Zenon
  <2>2. /\ SourceHandles \cap ListenerHandles = {}
        /\ SourceHandles \cap ReservationHandles(r) = {}
        /\ ListenerHandles \cap ReservationHandles(r) = {}
        /\ StagedHandles \cap PublicHandles = {}
    BY PublicApart, Zenon
  <2>3. ReservationHandles(pub.reservation)' = {}
    BY <1>11, Zenon DEF ReservationHandles
  <2>4. PublicHandles' = SourceHandles' \cup ListenerHandles'
    BY <2>3, Zenon DEF PublicHandles
  <2>5. StagedHandles \cap SourceHandles = {} /\ StagedHandles \cap ListenerHandles = {}
    BY <2>2, Zenon DEF PublicHandles
  <2> HIDE DEF O, B
  <2>6. open' = open \ (ReplacedSession(r.rev, s) \cup O)
    BY <1>1, Zenon DEF O
  <2>7. ReservationHandles(r) = ({s} \ {None}) \cup B
    BY <1>9, Zenon DEF B
  <2> QED BY <1>13, <1>16, <2>1, <2>2, <2>4, <2>5, <2>6, <2>7, Zenon
<1> QED BY <1>4, <1>11, <1>12, <1>13, <1>15, <1>17, Zenon

\* What a publication leaves: the revision rev is what is shown.
Published(rev) ==
    /\ src' \in Sources /\ pub' \in Publication /\ Muted(producers, producers')
    /\ pub'.reservation = None /\ src'.active = rev /\ rev # None
    /\ Listen[rev.cfg] = IF pub'.listener = None THEN None ELSE pub'.listener.addr
    /\ Fits' /\ Kept' /\ open' = StagedHandles \cup PublicHandles' /\ open' \subseteq open

\* publishReservation, whether or not the old listener retires in time.
LEMMA PublishOkFacts ==
    ASSUME IInv, HandHandles = {}, pub.reservation # None, NEW rev, rev = pub.reservation.rev,
           PublishOk(rev, pub.reservation), rev \in committed', committed \subseteq committed'
    PROVE  Published(rev)
<1>1. PICK r \in Reserving : r = pub.reservation
  BY Zenon DEF IInv, TypeOK, Publication
<1>2. PICK v \in BOOLEAN : Publish(rev, r, v)
  BY <1>1, Zenon DEF PublishOk
<1>3. open' \subseteq open
  BY <1>2, Zenon DEF Publish
<1> QED BY <1>1, <1>2, <1>3, PublishFacts, Zenon DEF Published

\* publication.recover for a revision that is shown already.
LEMMA SelectOnlyFacts ==
    ASSUME IInv, HandHandles = {}, NEW rev \in OptRev, SelectOnly(rev), Shows(rev),
           committed \subseteq committed'
    PROVE  Published(rev)
<1>1. /\ SelectRevision(rev, None)
      /\ pub' = IF pub.reservation = None THEN pub ELSE Unreserved(pub)
      /\ open' = open \ (ReservationHandles(pub.reservation) \cup ReplacedSession(rev, None))
  BY Zenon DEF SelectOnly
<1>2. /\ src' \in Sources /\ src'.active = rev /\ Muted(producers, producers')
      /\ SourceHandles' = (SourceHandles \ ReplacedSession(rev, None)) \cup ({None} \ {None})
      /\ ReplacedSession(rev, None) \subseteq SourceHandles
      /\ src'.session # None => /\ rev # None /\ src'.session[2] = rev.epoch
                                /\ \E c \in committed' : src'.session = Reserved(c)
  BY <1>1, SessionFacts, Zenon
<1>3. /\ pub' \in Publication /\ pub'.reservation = None /\ pub'.listener = pub.listener
  <2>1. CASE pub.reservation = None
    BY <1>1, <2>1, Zenon DEF IInv, TypeOK
  <2>2. CASE pub.reservation # None
    BY <1>1, <2>2, UnreservedFacts, Zenon
  <2> QED BY <2>1, <2>2, Zenon
<1>4. PublicHandles' = SourceHandles' \cup ListenerHandles
  <2>1. ReservationHandles(pub.reservation)' = {}
    BY <1>3, Zenon DEF ReservationHandles
  <2>2. ListenerHandles' = ListenerHandles
    BY <1>3, Zenon DEF ListenerHandles
  <2> QED BY <2>1, <2>2, Zenon DEF PublicHandles
<1>5. open' = StagedHandles \cup PublicHandles'
  <2>1. open = StagedHandles \cup SourceHandles \cup ListenerHandles
               \cup ReservationHandles(pub.reservation)
    BY OpenParts, Zenon
  <2>2. /\ SourceHandles \cap ListenerHandles = {}
        /\ SourceHandles \cap ReservationHandles(pub.reservation) = {}
        /\ ListenerHandles \cap ReservationHandles(pub.reservation) = {}
        /\ StagedHandles \cap PublicHandles = {}
    BY PublicApart, Zenon
  <2> QED BY <1>1, <1>2, <1>4, <2>1, <2>2, Zenon DEF PublicHandles
<1>6. Fits' /\ Kept'
  <2>1. pub.listener # None => \E c \in committed' : pub.listener.handle = Listener(c)
    BY Zenon DEF IInv, Kept
  <2>2. Kept'
    BY <1>2, <1>3, <2>1, Zenon DEF Kept, Reserved, Listener, Handle
  <2> QED BY <1>3, <2>2, Zenon DEF Fits
<1>7. rev # None /\ Listen[rev.cfg] = IF pub'.listener = None THEN None ELSE pub'.listener.addr
  BY <1>3, Zenon DEF Shows
<1>8. open' \subseteq open
  BY <1>1, Zenon
<1> QED BY <1>2, <1>3, <1>5, <1>6, <1>7, <1>8, Zenon DEF Published

----------------------------------------------------------------------------
(* What the loop does with the outcome.                                    *)

\* The loop's steps between an apply, a recovery and the wait.
LoopMove ==
    /\ pc \in {"applied", "bootRecover", "select"} /\ pc' \in {"select", "stop", "bootRecover", "announce"}
    /\ pc' = "bootRecover" => pc \in {"applied", "bootRecover"} /\ cur' = cur
    /\ UNCHANGED <<booting, cancelled, ready, results>>
    /\ recovery' \in {"none", "armed", "idle"}

\* The invariant after such a step, from its parts.
LEMMA LoopFrame ==
    ASSUME IInv, LoopMove, eng' \in Writer, disk' \in OptRev, tx' \in OptRev, committed' \subseteq Built,
           Past', Adopted', Doubted', Advance, Forward, committed \subseteq committed',
           Muted(producers, producers'), req' \in [Req -> Request], Answered, Bound,
           waiter' \in {waiter, None}, Settling => waiter' = None,
           src' \in Sources, pub' \in Publication, Told', Fits', Kept', Booted', Phases',
           open' = StagedHandles \cup PublicHandles', open' \subseteq open
    PROVE  IInv' /\ Advance
<1>1. TypeOK
  BY Zenon DEF IInv
<1>2. StagingKept /\ WaiterKept
  BY Zenon DEF StagingKept, LoopMove, Muted, Held, InHand, WaiterKept
<1>3. Apart' /\ AllFresh' /\ Asked' /\ Waited' /\ Matching' /\ Honest'
  BY <1>2, RestKept, Zenon
<1>4. producers' \subseteq Candidate /\ \A p \in producers' : p.st = "resolve" => p.rev \in Built
  BY <1>1 DEF TypeOK, Muted, Drawn, Same
<1>5. TypeOK'
  <2>1. pc' = "bootRecover" => cur' \in Work /\ cur'.out # None
    BY <1>1, Zenon DEF TypeOK, LoopMove
  <2>2. waiter' \in Waiter \cup {None} /\ open' \subseteq Handles
    BY <1>1, Zenon DEF TypeOK
  <2>3. /\ pc' \in {"select", "stop", "bootRecover", "announce"}
        /\ UNCHANGED <<booting, cancelled, ready, results>> /\ recovery' \in {"none", "armed", "idle"}
    BY Zenon DEF LoopMove
  <2> QED BY <1>1, <1>4, <2>1, <2>2, <2>3, Zenon DEF TypeOK
<1>6. HandlesOwned'
  <2>1. StagedOf(producers') = StagedOf(producers)
    BY <1>1, MutedStaged, Zenon DEF TypeOK
  <2>2. StagedHandles' = StagedHandles
    BY <2>1, StagedSame, Zenon DEF LoopMove
  <2>3. HandHandles' = {}
    BY Zenon DEF LoopMove, HandHandles
  <2> QED BY <2>2, <2>3, OwnedParts, Zenon DEF HandlesOwned
<1> QED BY <1>3, <1>5, <1>6, Zenon DEF IInv

\* The loop, or startup, publishes what was committed, or discards or keeps the
\* reservation (run.go, publication.go).
LEMMA OutcomeSteps ==
    IInv /\ (Applied \/ BootApplied) => IInv' /\ Advance
\* The writer's part of a step that leaves it alone.
<1>WriterRests.
    ASSUME IInv, UNCHANGED writerVars, PlaceKept
    PROVE  /\ eng' \in Writer /\ disk' \in OptRev /\ tx' \in OptRev /\ committed' \subseteq Built
           /\ Past' /\ Adopted' /\ Doubted' /\ Advance /\ Forward /\ committed \subseteq committed'
           /\ Taken' = Taken
  <2> USE <1>WriterRests
  <2>1. TypeOK /\ WriterOK /\ UNCHANGED <<eng, disk, tx, committed>>
    BY Zenon DEF IInv, WriterOK, writerVars
  <2>2. /\ eng' \in Writer /\ disk' \in OptRev /\ tx' \in OptRev /\ committed' \subseteq Built
    BY <2>1, Zenon DEF TypeOK
  <2>3. tx # None => ~eng'.healthy
    BY <2>1, Zenon DEF WriterOK, Doubted
  <2>4. Past' /\ Adopted' /\ Doubted' /\ Advance /\ Forward /\ Taken' = Taken
    BY <2>1, <2>2, <2>3, WriterSame, Zenon
  <2> QED BY <2>1, <2>2, <2>4, Zenon

\* The loop has an outcome: the candidate, its reservation and its waiter.
<1>AppliedFacts.
    ASSUME IInv, pc = "applied"
    PROVE  /\ cur \in Work /\ cur.rev \in Built /\ cur.rev \in OptRev /\ cur.rev # None
           /\ cur.rev.cfg \in Digest /\ cur.rev.refresh \in Nat
           /\ cur.out \in Outcomes /\ HandHandles = {} /\ Held
           /\ cur.out.committed \in BOOLEAN /\ cur.out.degraded \in BOOLEAN /\ cur.out.tx \in BOOLEAN
           /\ pub.reservation \in Reserving /\ pub.reservation # None
           /\ pub.reservation.rev = cur.rev /\ recovery = "none"
           /\ (waiter # None => (Settling <=> Owed(cur)))
  <2> USE <1>AppliedFacts
  <2>1. cur \in Work /\ cur.out # None
    BY Zenon DEF IInv, TypeOK
  <2>2. cur.rev \in Built /\ cur.out \in Outcomes
    BY <2>1, Zenon DEF Work
  <2>3. cur.rev \in OptRev /\ cur.rev # None /\ cur.rev.cfg \in Digest /\ cur.rev.refresh \in Nat
    BY <2>2, NilAssumption, BoundsAssumption DEF OptRev, Built
  <2>4. cur.out.committed \in BOOLEAN /\ cur.out.degraded \in BOOLEAN /\ cur.out.tx \in BOOLEAN
    BY <2>2, Zenon DEF Outcomes
  <2>5. pub.reservation # None /\ pub.reservation.rev = cur.rev /\ recovery = "none"
    BY Zenon DEF IInv, Phases
  <2>6. pub.reservation \in Reserving
    BY <2>5, Zenon DEF IInv, TypeOK, Publication
  <2>7. HandHandles = {} /\ Held
    BY NoHand, Zenon DEF Held
  <2>8. (waiter # None => (Settling <=> Owed(cur)))
    BY Zenon DEF Settling, Owed
  <2> QED BY <2>1, <2>2, <2>3, <2>4, <2>5, <2>6, <2>7, <2>8, Zenon

\* The reservation stays, for a recovery that may come.
<1>PendingFacts.
    ASSUME IInv, HandHandles = {}, pub.reservation \in Reserving, pub.reservation # None,
           NEW v \in BOOLEAN, pub' = [pub EXCEPT !.reservation.pending = v],
           UNCHANGED <<src, open, committed>>
    PROVE  /\ pub' \in Publication /\ pub'.reservation # None /\ pub'.listener = pub.listener
           /\ pub'.reservation.rev = pub.reservation.rev /\ pub'.reservation.pending = v
           /\ Fits' /\ Kept' /\ open' = StagedHandles \cup PublicHandles'
  <2> USE <1>PendingFacts
  <2>1. PICK r \in Reserving : r = [pub.reservation EXCEPT !.pending = v]
    BY Zenon DEF Reserving
  <2>2. /\ r.rev = pub.reservation.rev /\ r.session = pub.reservation.session
        /\ r.replace = pub.reservation.replace /\ r.bound = pub.reservation.bound /\ r.pending = v
    BY <2>1, Zenon DEF Reserving
  <2>3. pub \in Publication
    BY Zenon DEF IInv, TypeOK
  <2>4. pub' = [pub EXCEPT !.reservation = r]
    BY <2>1, <2>3, Zenon DEF Publication
  <2>5. pub' \in Publication /\ pub'.reservation = r /\ pub'.listener = pub.listener
    BY <2>3, <2>4, Zenon DEF Publication
  <2>6. r # None
    BY NilAssumption, Zenon
  <2>7. Fits'
    BY <2>2, <2>5, Zenon DEF IInv, Fits, Reserved, Listener, Handle
  <2>8. Kept'
    BY <2>5, Zenon DEF IInv, Kept
  <2>9. PublicHandles' = PublicHandles
    <3>1. ReservationHandles(pub.reservation)' = ReservationHandles(pub.reservation)
      BY <2>2, <2>5, <2>6, Zenon DEF ReservationHandles, Reserved, Listener, Handle
    <3>2. SourceHandles' = SourceHandles /\ ListenerHandles' = ListenerHandles
      BY <2>5, Zenon DEF SourceHandles, ListenerHandles
    <3> QED BY <3>1, <3>2, Zenon DEF PublicHandles
  <2>10. open' = StagedHandles \cup PublicHandles'
    BY <2>9, OpenParts, Zenon DEF PublicHandles
  <2> QED BY <2>2, <2>5, <2>6, <2>7, <2>8, <2>10, Zenon

\* The answer when nothing is committed: "rejected" is given only to a candidate that
\* is not in doubt (run.go finish).
<1>FailureAnswered.
    ASSUME IInv, pc = "applied", ~cur.out.committed, FinishReload(cur, FailureOutcome, None),
           pc' = "select", UNCHANGED <<producers, results>>, Taken' = Taken
    PROVE  /\ req' \in [Req -> Request] /\ Answered /\ Bound
           /\ waiter' \in {waiter, None} /\ (Settling => waiter' = None)
  <2> USE <1>FailureAnswered
  <2>1. /\ cur.rev.cfg \in Digest /\ Held
        /\ (waiter # None => (Settling <=> Owed(cur)))
    BY <1>AppliedFacts, Zenon
  <2>2. PICK o \in {"rejected", "unknown"} : o = FailureOutcome
    BY Zenon DEF FailureOutcome
  <2>3. None \in OptRev
    BY Zenon DEF OptRev
  <2>4. ASSUME NEW w \in Req, NEW a \in Answer, waiter # None, w = waiter.req, Owed(cur),
               a = Ans(o, None, cur.rev.cfg), req'[w].epoch = req[w].epoch
        PROVE  TrueAnswer(a, req[w])'
    <3>1. a.outcome = o
      BY <2>1, <2>3, <2>4, AnsTyped
    <3>2. CASE o = "unknown"
      BY <3>1, <3>2, Zenon DEF TrueAnswer
    <3>3. CASE o = "rejected"
      <4>1. ~cur.out.degraded
        BY <2>2, <3>3, Zenon DEF FailureOutcome
      <4>2. cur.rev.refresh = 0 /\ waiter.epoch = cur.rev.epoch /\ req[w].epoch = waiter.epoch
            /\ waiter.epoch \in Epoch
        BY <2>4, Zenon DEF Owed, IInv, Waited, TypeOK, Waiter
      <4>3. tx = None /\ \A c \in committed : c.epoch # cur.rev.epoch
        BY <4>1, <4>2, Zenon DEF IInv, Told
      <4>4. ASSUME NEW e \in Epoch, e = req'[w].epoch PROVE Ruled(e)'
        <5>1. e = cur.rev.epoch
          BY <2>4, <4>2, <4>4, Zenon
        <5>2. \A c \in Taken' : c.epoch # e
          BY <4>3, <5>1, Zenon DEF Taken
        <5>3. ~Cand(e, 0)'
          BY <2>1, <4>2, <5>1, Zenon DEF IInv, Apart, SameId, Cand, InHand
        <5> QED BY <5>2, <5>3, Zenon DEF Ruled
      <4> QED BY <2>4, <3>1, <3>3, <4>2, <4>4, RejectedTrue, Zenon
    <3> QED BY <3>2, <3>3, Zenon
  <2>5. /\ req' \in [Req -> Request] /\ Answered /\ Bound
        /\ waiter' \in {waiter, None} /\ (Owed(cur) => waiter' = None)
    BY <2>1, <2>2, <2>3, <2>4, FinishFacts
  <2> QED BY <2>1, <2>5, Zenon

\* Nothing is committed: the reservation is discarded, or waits for the recovery of
\* a candidate in doubt.
<1>NotCommittedStep.
    ASSUME IInv, pc = "applied", ~booting, cur' = None, NotCommitted,
           UNCHANGED <<runVars, writerVars, results>>
    PROVE  IInv' /\ Advance
  <2> USE <1>NotCommittedStep
  <2>1. /\ ~cur.out.committed /\ FinishReload(cur, FailureOutcome, None)
        /\ pc' = "select" /\ UNCHANGED <<src, producers>>
        /\ recovery' \in {recovery, "armed"}
        /\ cur.out.tx => recovery' = "armed"
    BY Zenon DEF NotCommitted, ScheduleRecovery, Recovering, IInv, Told, Phases
  <2>2. UNCHANGED <<booting, cancelled, ready, eng, disk, tx, committed, results>>
    BY Zenon DEF runVars, writerVars
  <2>3. /\ cur.out.tx \in BOOLEAN /\ HandHandles = {} /\ recovery = "none"
        /\ pub.reservation \in Reserving /\ pub.reservation # None /\ pub.reservation.rev = cur.rev
    BY <1>AppliedFacts, Zenon
  <2>4. /\ eng' \in Writer /\ disk' \in OptRev /\ tx' \in OptRev /\ committed' \subseteq Built
        /\ Past' /\ Adopted' /\ Doubted' /\ Advance /\ Forward /\ committed \subseteq committed'
        /\ Taken' = Taken
    BY <2>1, <1>WriterRests, Zenon DEF PlaceKept
  <2>5. /\ req' \in [Req -> Request] /\ Answered /\ Bound
        /\ waiter' \in {waiter, None} /\ (Settling => waiter' = None)
    BY <2>1, <2>4, <1>FailureAnswered, Zenon
  <2>6. Muted(producers, producers') /\ src' \in Sources
    BY <2>1, DrawnSame, Zenon DEF IInv, TypeOK
  <2>7. Shows(disk) /\ (tx # None => tx = cur.rev /\ cur.out.tx) /\ (cur.out.tx => cur.out.degraded)
    BY <2>1, Zenon DEF IInv, Phases, Told
  <2>8. Told' /\ Booted'
    BY <2>1, <2>2, Zenon DEF IInv, Told, Booted
  <2>9. LoopMove
    BY <2>1, <2>2, <2>3, Zenon DEF LoopMove
  <2>10. CASE cur.out.tx
    <3>1. pub' = [pub EXCEPT !.reservation.pending = TRUE] /\ open' = open
      BY <2>7, <2>10, Zenon DEF NotCommitted
    <3>2. /\ pub' \in Publication /\ pub'.reservation # None /\ pub'.listener = pub.listener
          /\ pub'.reservation.rev = pub.reservation.rev /\ pub'.reservation.pending = TRUE
          /\ Fits' /\ Kept' /\ open' = StagedHandles \cup PublicHandles'
      BY <2>1, <2>2, <2>3, <3>1, <1>PendingFacts, Zenon
    <3>3. Phases'
      BY <2>1, <2>2, <2>3, <2>7, <2>10, <3>2, Zenon DEF Phases, Recovering, Pending, Shows
    <3> QED BY <2>4, <2>5, <2>6, <2>8, <2>9, <3>1, <3>2, <3>3, LoopFrame, Zenon
  <2>11. CASE ~cur.out.tx
    <3>1. pub' = Unreserved(pub) /\ open' = open \ ReservationHandles(pub.reservation)
      BY <2>11, Zenon DEF NotCommitted
    <3>2. /\ pub' \in Publication /\ pub'.reservation = None /\ pub'.listener = pub.listener
          /\ Fits' /\ Kept' /\ open' = StagedHandles \cup PublicHandles'
      BY <2>1, <2>2, <2>3, <3>1, DiscardFacts, Zenon
    <3>3. Phases'
      BY <2>1, <2>2, <2>3, <2>7, <2>11, <3>2, Zenon DEF Phases, Recovering, Pending, Shows
    <3>4. open' \subseteq open
      BY <3>1, Zenon
    <3> QED BY <2>4, <2>5, <2>6, <2>8, <2>9, <3>2, <3>3, <3>4, LoopFrame, Zenon
  <2> QED BY <2>3, <2>10, <2>11, Zenon

\* A committed outcome means that the candidate is the writer's choice.
<1>CommittedFacts.
    ASSUME IInv, pc = "applied", cur.out.committed
    PROVE  disk = cur.rev /\ tx = None /\ cur.rev \in committed
  <2> USE <1>CommittedFacts
  <2>1. disk = cur.rev /\ tx = None
    BY Zenon DEF IInv, Told
  <2>2. cur.rev # None
    BY <1>AppliedFacts, Zenon
  <2> QED BY <2>1, <2>2, Zenon DEF IInv, Past

\* The answer when the candidate is committed: it names that very revision.
<1>CommitAnswered.
    ASSUME IInv, pc = "applied", cur.out.committed, NEW o \in {"applied", "degraded"},
           FinishReload(cur, o, cur.rev), committed' = committed
    PROVE  /\ req' \in [Req -> Request] /\ Answered /\ Bound
           /\ waiter' \in {waiter, None} /\ (Settling => waiter' = None)
  <2> USE <1>CommitAnswered
  <2>1. PICK x \in OptRev : x = cur.rev
    BY <1>AppliedFacts, Zenon
  <2>2. /\ cur.rev.cfg \in Digest /\ Held
        /\ (waiter # None => (Settling <=> Owed(cur)))
    BY <1>AppliedFacts, Zenon
  <2>3. x \in committed
    BY <2>1, <1>CommittedFacts, Zenon
  <2>4. ASSUME NEW w \in Req, NEW a \in Answer, waiter # None, w = waiter.req, Owed(cur),
               a = Ans(o, x, cur.rev.cfg), req'[w].epoch = req[w].epoch,
               req'[w].expected = req[w].expected
        PROVE  TrueAnswer(a, req[w])'
    <3>1. a.outcome = o /\ a.rev = x /\ a.cfg = cur.rev.cfg
      BY <2>2, <2>4, AnsTyped
    <3>2. x.refresh = 0 /\ x.epoch = req[w].epoch /\ req[w].epoch # 0
      <4>1. waiter.epoch \in Nat /\ 0 < waiter.epoch /\ req[w].epoch = waiter.epoch
        BY <2>4, BoundsAssumption DEF IInv, Waited, TypeOK, Waiter, Epoch
      <4> QED BY <2>1, <2>4, <4>1 DEF Owed
    <3>3. req[w].expected \in {None, x.cfg}
      BY <2>1, <2>2, <3>2, Zenon DEF IInv, Matching, Wants
    <3> QED BY <2>1, <2>3, <2>4, <3>1, <3>2, <3>3, Zenon DEF TrueAnswer
  <2>5. /\ req' \in [Req -> Request] /\ Answered /\ Bound
        /\ waiter' \in {waiter, None} /\ (Owed(cur) => waiter' = None)
    BY <2>1, <2>2, <2>4, FinishFacts
  <2> QED BY <2>2, <2>5, Zenon

\* The committed revision is published, or the daemon ends.
<1>CommittedStep.
    ASSUME IInv, pc = "applied", ~booting, cur' = None, Committed,
           UNCHANGED <<runVars, writerVars, results>>
    PROVE  IInv' /\ Advance
  <2> USE <1>CommittedStep
  <2>1. UNCHANGED <<booting, cancelled, ready, eng, disk, tx, committed, results>> /\ cur.out.committed
    BY Zenon DEF runVars, writerVars, Committed
  <2>2. /\ HandHandles = {} /\ recovery = "none" /\ pub.reservation # None /\ pub.reservation.rev = cur.rev
    BY <1>AppliedFacts, Zenon
  <2>3. disk = cur.rev /\ tx = None /\ cur.rev \in committed
    BY <2>1, <1>CommittedFacts, Zenon
  <2>4. pc' \in {"select", "stop"} /\ recovery' \in {"none", "armed"}
    BY <2>2, Zenon DEF Committed, ScheduleRecovery, Recovering
  <2>5. /\ eng' \in Writer /\ disk' \in OptRev /\ tx' \in OptRev /\ committed' \subseteq Built
        /\ Past' /\ Adopted' /\ Doubted' /\ Advance /\ Forward /\ committed \subseteq committed'
    BY <2>4, <1>WriterRests, Zenon DEF PlaceKept
  <2>6. PICK o \in {"applied", "degraded"} : FinishReload(cur, o, cur.rev)
    BY Zenon DEF Committed
  <2>7. /\ req' \in [Req -> Request] /\ Answered /\ Bound
        /\ waiter' \in {waiter, None} /\ (Settling => waiter' = None)
    BY <2>1, <2>6, <1>CommitAnswered, Zenon
  <2>8. Told' /\ Booted'
    BY <2>1, <2>4, Zenon DEF IInv, Told, Booted
  <2>9. LoopMove
    BY <2>1, <2>4, Zenon DEF LoopMove
  <2>10. CASE PublishFails(pub.reservation) /\ pc' = "stop"
    <3>1. /\ pub' = Unreserved(pub) /\ open' = open \ ReservationHandles(pub.reservation)
          /\ UNCHANGED <<src, producers>>
      BY <2>10, Zenon DEF PublishFails
    <3>2. /\ pub' \in Publication /\ Fits' /\ Kept' /\ open' = StagedHandles \cup PublicHandles'
      BY <2>2, <2>5, <3>1, DiscardFacts, Zenon
    <3>3. Muted(producers, producers') /\ src' \in Sources /\ open' \subseteq open
      BY <3>1, DrawnSame, Zenon DEF IInv, TypeOK
    <3>4. Phases'
      BY <2>10, EndedPlace, Zenon
    <3> QED BY <2>5, <2>7, <2>8, <2>9, <3>2, <3>3, <3>4, LoopFrame, Zenon
  <2>11. CASE PublishOk(cur.rev, pub.reservation) /\ pc' = "select"
    <3>1. PICK x : x = cur.rev
      BY Zenon
    <3>2. Published(x)
      BY <2>2, <2>3, <2>5, <2>11, <3>1, PublishOkFacts, Zenon
    <3>3. Phases'
      BY <2>1, <2>3, <2>4, <2>11, <3>1, <3>2, Zenon DEF Published, Phases, Recovering, Shows
    <3> QED BY <2>5, <2>7, <2>8, <2>9, <3>2, <3>3, LoopFrame, Zenon DEF Published
  <2> QED BY <2>10, <2>11, Zenon DEF Committed

\* The loop deals with the outcome of an apply.
<1>AppliedStep.
    ASSUME IInv, Applied
    PROVE  IInv' /\ Advance
  BY <1>AppliedStep, <1>NotCommittedStep, <1>CommittedStep, Zenon DEF Applied

\* Startup deals with the outcome of its apply.
<1>BootAppliedStep.
    ASSUME IInv, BootApplied
    PROVE  IInv' /\ Advance
  <2> USE <1>BootAppliedStep
  <2>1. /\ pc = "applied" /\ booting /\ UNCHANGED <<loopRest, writerVars, req, results>>
    BY Zenon DEF BootApplied
  <2>2. UNCHANGED <<booting, cancelled, ready, waiter, cur, recovery, eng, disk, tx, committed, results>>
    BY <2>1, Zenon DEF loopRest, runVars, writerVars
  <2>3. /\ HandHandles = {} /\ recovery = "none" /\ pub.reservation # None /\ pub.reservation.rev = cur.rev
        /\ pub.reservation \in Reserving /\ cur.out.tx \in BOOLEAN
    BY <2>1, <1>AppliedFacts, Zenon
  <2>4. /\ pc' \in {"stop", "bootRecover", "announce"}
        /\ pc' = "bootRecover" <=> cur.out.degraded
        /\ pc' = "announce" => ~cur.out.degraded /\ cur.out.committed
    BY Zenon DEF BootApplied, BootDiscard
  <2>5. tx # None => cur.out.degraded
    BY <2>1, Zenon DEF IInv, Told
  <2>6. /\ eng' \in Writer /\ disk' \in OptRev /\ tx' \in OptRev /\ committed' \subseteq Built
        /\ Past' /\ Adopted' /\ Doubted' /\ Advance /\ Forward /\ committed \subseteq committed'
    BY <2>1, <2>4, <2>5, <1>WriterRests, Zenon DEF PlaceKept
  <2>7. waiter = None /\ producers = {} /\ results = {}
    BY <2>1, Zenon DEF IInv, Booted
  <2>8. req' \in [Req -> Request] /\ Answered /\ Bound
    BY <2>1, RequestsSame, Zenon DEF IInv, TypeOK
  <2>9. waiter' \in {waiter, None} /\ (Settling => waiter' = None)
    BY <2>2, <2>7, Zenon
  <2>10. LoopMove
    BY <2>1, <2>2, <2>3, <2>4, Zenon DEF LoopMove
  <2>11. Told'
    BY <2>1, <2>2, <2>4, Zenon DEF IInv, Told
  <2>12. CASE cur.out.degraded
    <3>1. /\ pub' = [pub EXCEPT !.reservation.pending = cur.out.tx]
          /\ pc' = "bootRecover" /\ UNCHANGED <<src, producers, open>>
      BY <2>12, Zenon DEF BootApplied
    <3>2. PICK v \in BOOLEAN : v = cur.out.tx
      BY <2>3, Zenon
    <3>3. /\ pub' \in Publication /\ pub'.reservation # None /\ pub'.listener = pub.listener
          /\ pub'.reservation.rev = pub.reservation.rev /\ pub'.reservation.pending = v
          /\ Fits' /\ Kept' /\ open' = StagedHandles \cup PublicHandles'
      BY <2>2, <2>3, <3>1, <3>2, <1>PendingFacts, Zenon
    <3>4. Phases' /\ Booted'
      BY <2>1, <2>2, <2>3, <2>7, <3>1, <3>2, <3>3, Zenon DEF Phases, Booted
    <3>5. Muted(producers, producers') /\ src' \in Sources /\ open' \subseteq open
      BY <3>1, DrawnSame, Zenon DEF IInv, TypeOK
    <3> QED BY <2>6, <2>8, <2>9, <2>10, <2>11, <3>3, <3>4, <3>5, LoopFrame, Zenon
  <2>13. CASE pc' = "stop" /\ pub' = Unreserved(pub) /\ open' = open \ ReservationHandles(pub.reservation)
              /\ UNCHANGED <<src, producers>>
    <3>1. /\ pub' \in Publication /\ Fits' /\ Kept' /\ open' = StagedHandles \cup PublicHandles'
      BY <2>3, <2>6, <2>13, DiscardFacts, Zenon
    <3>2. Muted(producers, producers') /\ src' \in Sources /\ open' \subseteq open
      BY <2>13, DrawnSame, Zenon DEF IInv, TypeOK
    <3>3. Phases' /\ Booted'
      BY <2>1, <2>2, <2>3, <2>7, <2>13, EndedPlace, Zenon DEF Booted
    <3> QED BY <2>6, <2>8, <2>9, <2>10, <2>11, <3>1, <3>2, <3>3, LoopFrame, Zenon
  <2>14. CASE ~cur.out.degraded /\ cur.out.committed /\ PublishOk(cur.rev, pub.reservation) /\ pc' = "announce"
    <3>1. disk = cur.rev /\ tx = None /\ cur.rev \in committed
      BY <2>1, <2>14, <1>CommittedFacts, Zenon
    <3>2. PICK x : x = cur.rev
      BY Zenon
    <3>3. Published(x)
      BY <2>3, <2>6, <2>14, <3>1, <3>2, PublishOkFacts, Zenon
    <3>4. producers' = {}
      BY <2>7, <3>3, MutedEmpty, Zenon DEF Published
    <3>5. Phases' /\ Booted'
      BY <2>1, <2>2, <2>3, <2>7, <2>14, <3>1, <3>2, <3>3, <3>4, Zenon
         DEF Published, Phases, Booted, Shows
    <3> QED BY <2>6, <2>8, <2>9, <2>10, <2>11, <3>3, <3>5, LoopFrame, Zenon DEF Published
  <2> QED BY <2>12, <2>13, <2>14, Zenon DEF BootApplied, BootDiscard, PublishFails

<1> QED BY <1>AppliedStep, <1>BootAppliedStep, Zenon

----------------------------------------------------------------------------
(* Recovery.                                                               *)

\* The loop, or startup, recovers: the writer settles, and what it settles on is
\* published (publication.go recover, recovery.go).
LEMMA RecoverySteps ==
    IInv /\ (RecoveryTimer \/ BootRecoverDegraded) => IInv' /\ Advance
\* The writer's invariants after a recovery or an attempt.
<1>MovedWriter.
    ASSUME IInv, Moved, pc \in {"select", "bootRecover"},
           pc' \in {"select", "bootRecover", "stop"} \/ (pc' = "announce" /\ tx' = None)
    PROVE  /\ eng' \in Writer /\ disk' \in OptRev /\ tx' \in OptRev /\ committed' \subseteq Built
           /\ Past' /\ Adopted' /\ Doubted' /\ Advance /\ Forward /\ committed \subseteq committed'
  <2> USE <1>MovedWriter
  <2>1. /\ eng' \in Writer /\ disk' \in OptRev /\ tx' \in OptRev /\ committed' \subseteq Built
        /\ Past' /\ eng'.activeEpoch <= eng'.admitted /\ committed \subseteq committed' /\ Advance
        /\ Chosen(eng', disk') /\ Forward
    BY Zenon DEF Moved
  <2>2. Adopted'
    BY <2>1, Zenon DEF Adopted, Chosen
  <2>3. Doubted'
    <3> SUFFICES ASSUME tx' # None
                 PROVE  /\ ~eng'.healthy /\ Newest(tx)' /\ (disk' # None => Newer(tx, disk)')
                        /\ pc' \in {"applied", "bootRecover", "select", "stop", "stopped"}
      BY Zenon DEF Doubted
    <3>1. /\ tx' = tx /\ disk' = disk /\ ~eng'.healthy
          /\ eng'.admitted = eng.admitted /\ eng'.activeEpoch = eng.activeEpoch
      BY Zenon DEF Moved
    <3>2. Newest(tx) /\ (disk # None => Newer(tx, disk))
      BY <3>1, Zenon DEF IInv, Doubted
    <3> QED BY <3>1, <3>2, Zenon DEF Newest, Newer
  <2> QED BY <2>1, <2>2, <2>3, Zenon

\* A recovery that ends the daemon discards the reservation.
<1>RecoverDiscard.
    ASSUME IInv, Moved, pc \in {"select", "bootRecover"}, pc' = "stop",
           UNCHANGED <<runVars, waiter, cur, req, results, recovery>>,
           pub' = Unreserved(pub), open' = open \ ReservationHandles(pub.reservation),
           UNCHANGED <<src, producers>>
    PROVE  IInv' /\ Advance
  <2> USE <1>RecoverDiscard
  <2>1. UNCHANGED <<booting, cancelled, ready>>
    BY Zenon DEF runVars
  <2>2. /\ eng' \in Writer /\ disk' \in OptRev /\ tx' \in OptRev /\ committed' \subseteq Built
        /\ Past' /\ Adopted' /\ Doubted' /\ Advance /\ Forward /\ committed \subseteq committed'
    BY <1>MovedWriter, Zenon
  <2>3. HandHandles = {} /\ ~Settling
    BY NoHand, Zenon DEF Settling
  <2>4. /\ pub' \in Publication /\ Fits' /\ Kept' /\ open' = StagedHandles \cup PublicHandles'
    BY <2>2, <2>3, DiscardFacts, Zenon
  <2>5. Muted(producers, producers') /\ src' \in Sources /\ open' \subseteq open
    BY DrawnSame, Zenon DEF IInv, TypeOK
  <2>6. Told' /\ Phases'
    BY EndedPlace, Zenon
  <2>7. Booted'
    BY <2>1, Zenon DEF IInv, Booted
  <2>8. req' \in [Req -> Request] /\ Answered /\ Bound
    BY RequestsSame, Zenon DEF IInv, TypeOK
  <2>9. LoopMove
    BY <2>1, Zenon DEF LoopMove, IInv, TypeOK
  <2> QED BY <2>2, <2>3, <2>4, <2>5, <2>6, <2>7, <2>8, <2>9, LoopFrame, Zenon

\* A failed attempt leaves the reservation for the next one.
<1>RecoverRetry.
    ASSUME IInv, Moved, pc \in {"select", "bootRecover"}, pc' \in {pc, "stop"},
           UNCHANGED <<runVars, waiter, cur, req, results>>, UNCHANGED <<pub, open, src, producers>>,
           recovery' \in {"none", "armed", "idle"},
           pc = "bootRecover" => recovery' = recovery,
           pc = "select" => Recovering /\ recovery' # "none"
    PROVE  IInv' /\ Advance
  <2> USE <1>RecoverRetry
  <2>1. UNCHANGED <<booting, cancelled, ready>>
    BY Zenon DEF runVars
  <2>2. /\ eng' \in Writer /\ disk' \in OptRev /\ tx' \in OptRev /\ committed' \subseteq Built
        /\ Past' /\ Adopted' /\ Doubted' /\ Advance /\ Forward /\ committed \subseteq committed'
    BY <1>MovedWriter, Zenon
  <2>3. HandHandles = {} /\ ~Settling
    BY NoHand, Zenon DEF Settling
  <2>4. Fits' /\ Kept'
    BY <2>2, FitsSame, Zenon DEF IInv
  <2>5. open' = StagedHandles \cup PublicHandles'
    <3>1. PublicHandles' = PublicHandles
      BY PublicKept, Zenon
    <3> QED BY <2>3, <3>1, OpenParts, Zenon DEF PublicHandles
  <2>6. /\ Muted(producers, producers') /\ src' \in Sources /\ pub' \in Publication
    BY DrawnSame, Zenon DEF IInv, TypeOK
  <2>7. /\ disk' = disk \/ (tx # None /\ disk' = tx /\ tx' = None)
        /\ tx' # None => tx' = tx /\ disk' = disk
    BY Zenon DEF Moved
  <2>8. Told'
    BY <2>7, Zenon DEF IInv, Told
  <2>9. Phases'
    <3>1. CASE pc' = "stop"
      BY <3>1, EndedPlace, Zenon
    <3>2. CASE pc = "bootRecover" /\ pc' = pc
      BY <3>2, Zenon DEF IInv, Phases
    <3>3. CASE pc = "select" /\ pc' = pc
      <4>1. \/ Shows(disk) /\ (tx # None => Pending /\ pub.reservation.rev = tx)
            \/ disk # None /\ Pending /\ pub.reservation.rev = disk /\ tx = None
        BY <3>3, Zenon DEF IInv, Phases
      <4>2. \/ Shows(disk)' /\ (tx' # None => Pending /\ pub.reservation.rev = tx')
            \/ disk' # None /\ Pending /\ pub.reservation.rev = disk' /\ tx' = None
        BY <2>7, <4>1, Zenon DEF Shows
      <4> QED BY <3>3, <4>2, Zenon DEF Phases, Recovering, Pending
    <3> QED BY <3>1, <3>2, <3>3, Zenon
  <2>10. Booted'
    BY <2>1, Zenon DEF IInv, Booted
  <2>11. req' \in [Req -> Request] /\ Answered /\ Bound
    BY RequestsSame, Zenon DEF IInv, TypeOK
  <2>12. LoopMove
    BY <2>1, Zenon DEF LoopMove
  <2> QED BY <2>2, <2>3, <2>4, <2>5, <2>6, <2>8, <2>9, <2>10, <2>11, <2>12, LoopFrame, Zenon

\* A recovery that succeeds publishes what the writer settled on.
<1>RecoverPublished.
    ASSUME IInv, Moved, pc \in {"select", "bootRecover"}, tx' = None,
           UNCHANGED <<runVars, waiter, cur, req, results>>, NEW x, x = disk', Published(x),
           \/ pc = "select" /\ pc' = "select" /\ recovery' = "none"
           \/ pc = "bootRecover" /\ pc' = "announce" /\ recovery' = recovery
    PROVE  IInv' /\ Advance
  <2> USE <1>RecoverPublished
  <2>1. UNCHANGED <<booting, cancelled, ready>>
    BY Zenon DEF runVars
  <2>2. /\ eng' \in Writer /\ disk' \in OptRev /\ tx' \in OptRev /\ committed' \subseteq Built
        /\ Past' /\ Adopted' /\ Doubted' /\ Advance /\ Forward /\ committed \subseteq committed'
    BY <1>MovedWriter, Zenon
  <2>3. HandHandles = {} /\ ~Settling
    BY NoHand, Zenon DEF Settling
  <2>4. producers = {} => producers' = {}
    BY MutedEmpty, Zenon DEF Published
  <2>5. Told'
    BY Zenon DEF Told
  <2>6. Phases'
    BY Zenon DEF Phases, Published, Shows, Recovering
  <2>7. Booted'
    BY <2>1, <2>4, Zenon DEF IInv, Booted
  <2>8. req' \in [Req -> Request] /\ Answered /\ Bound
    BY RequestsSame, Zenon DEF IInv, TypeOK
  <2>9. LoopMove
    BY <2>1, Zenon DEF LoopMove, IInv, TypeOK
  <2> QED BY <2>2, <2>3, <2>5, <2>6, <2>7, <2>8, <2>9, LoopFrame, Zenon DEF Published

\* The recovery timer of the loop.
<1>RecoveryTimerStep.
    ASSUME IInv, RecoveryTimer
    PROVE  IInv' /\ Advance
  <2> USE <1>RecoveryTimerStep
  <2>1. pc = "select" /\ recovery = "armed" /\ UNCHANGED <<runVars, waiter, cur, req, results>> /\ Recovering
    BY Zenon DEF RecoveryTimer, Recovering
  <2>2. WriterOK /\ HandHandles = {}
    BY <2>1, NoHand, Zenon DEF IInv, WriterOK
  <2>3. CASE /\ RecoverFails /\ UNCHANGED <<pub, src, producers, open>>
             /\ (pc' = "stop" /\ UNCHANGED recovery) \/ (pc' = pc /\ recovery' = Rearmed)
    <3>1. Moved
      BY <2>1, <2>2, <2>3, RecoverFailsFacts, Zenon
    <3>2. recovery' \in {"armed", "idle"} /\ pc' \in {pc, "stop"}
      BY <2>1, <2>3, Zenon DEF Rearmed
    <3> QED BY <2>1, <2>3, <3>1, <3>2, <1>RecoverRetry, Zenon
  <2>4. CASE RecoverWriter(TRUE) /\ PublishFails(pub.reservation) /\ pc' = "stop" /\ UNCHANGED recovery
    <3>1. Moved
      BY <2>1, <2>2, <2>4, RecoverWriterFacts, Zenon
    <3>2. /\ pub' = Unreserved(pub) /\ open' = open \ ReservationHandles(pub.reservation)
          /\ UNCHANGED <<src, producers>>
      BY <2>4, Zenon DEF PublishFails
    <3> QED BY <2>1, <2>4, <3>1, <3>2, <1>RecoverDiscard, Zenon
  <2>5. CASE RecoverWriter(TRUE) /\ PublicationRecover(disk') /\ pc' = pc /\ recovery' = "none"
    <3>1. Moved /\ tx' = None
      BY <2>1, <2>2, <2>5, RecoverWriterFacts, Zenon
    <3>2. PICK x : x = disk'
      BY Zenon
    <3>3. /\ disk' = disk \/ (tx # None /\ disk' = tx)
          /\ x \in OptRev /\ committed \subseteq committed' /\ (x # None => x \in committed')
      BY <3>1, <3>2, Zenon DEF Moved, Past
    <3>4. \/ Shows(disk) /\ (tx # None => Pending /\ pub.reservation.rev = tx)
          \/ disk # None /\ Pending /\ pub.reservation.rev = disk /\ tx = None
      BY <2>1, Zenon DEF IInv, Phases
    <3>5. CASE Pending /\ x = pub.reservation.rev
      <4>1. PublishOk(x, pub.reservation)
        BY <2>5, <3>2, <3>5, Zenon DEF PublicationRecover
      <4>2. x # None /\ pub.reservation # None
        <5>1. pub.reservation # None /\ pub.reservation \in Reserving
          BY <3>5, Zenon DEF Pending, IInv, TypeOK, Publication
        <5> QED BY <3>5, <5>1, NilAssumption, Zenon DEF Reserving
      <4>3. Published(x)
        BY <2>2, <3>3, <3>5, <4>1, <4>2, PublishOkFacts, Zenon
      <4> QED BY <2>1, <2>5, <3>1, <3>2, <4>3, <1>RecoverPublished, Zenon
    <3>6. CASE ~(Pending /\ x = pub.reservation.rev)
      <4>1. SelectOnly(x)
        BY <2>5, <3>2, <3>6, Zenon DEF PublicationRecover
      <4>2. Shows(x)
        BY <3>2, <3>3, <3>4, <3>6, Zenon
      <4>3. Published(x)
        BY <2>2, <3>3, <4>1, <4>2, SelectOnlyFacts, Zenon
      <4> QED BY <2>1, <2>5, <3>1, <3>2, <4>3, <1>RecoverPublished, Zenon
    <3> QED BY <3>5, <3>6, Zenon
  <2> QED BY <2>3, <2>4, <2>5, Zenon DEF RecoveryTimer

\* Startup recovers the revision it tried, and no other.
<1>BootRecoverDegradedStep.
    ASSUME IInv, BootRecoverDegraded
    PROVE  IInv' /\ Advance
  <2> USE <1>BootRecoverDegradedStep
  <2>1. pc = "bootRecover" /\ UNCHANGED <<runVars, waiter, cur, recovery, req, results>>
    BY Zenon DEF BootRecoverDegraded, loopRest
  <2>2. WriterOK /\ HandHandles = {}
    BY <2>1, NoHand, Zenon DEF IInv, WriterOK
  <2>3. /\ pub.reservation # None /\ pub.reservation.rev = cur.rev /\ recovery = "none"
        /\ pub.reservation.pending = cur.out.tx
    BY <2>1, Zenon DEF IInv, Phases
  <2>4. CASE RecoverFails /\ pc' = pc /\ UNCHANGED <<pub, open, src, producers>>
    <3>1. Moved
      BY <2>1, <2>2, <2>4, RecoverFailsFacts, Zenon
    <3> QED BY <2>1, <2>3, <2>4, <3>1, <1>RecoverRetry, Zenon
  <2>5. CASE (RecoverFails \/ RecoverWriter(TRUE)) /\ (BootDiscard \/ (PublishFails(pub.reservation) /\ pc' = "stop"))
    <3>1. Moved
      BY <2>1, <2>2, <2>5, RecoverFailsFacts, RecoverWriterFacts, Zenon
    <3>2. /\ pub' = Unreserved(pub) /\ open' = open \ ReservationHandles(pub.reservation)
          /\ UNCHANGED <<src, producers>> /\ pc' = "stop"
      BY <2>5, Zenon DEF PublishFails, BootDiscard
    <3> QED BY <2>1, <3>1, <3>2, <1>RecoverDiscard, Zenon
  <2>6. CASE /\ RecoverWriter(TRUE) /\ cur.out.tx /\ disk' = cur.rev
             /\ PublicationRecover(disk') /\ pc' = "announce"
    <3>1. Moved /\ tx' = None
      BY <2>1, <2>2, <2>6, RecoverWriterFacts, Zenon
    <3>2. PICK x : x = disk'
      BY Zenon
    <3>3. Pending /\ x = pub.reservation.rev
      BY <2>3, <2>6, <3>2, Zenon DEF Pending
    <3>4. PublishOk(x, pub.reservation)
      BY <2>6, <3>2, <3>3, Zenon DEF PublicationRecover
    <3>5. x # None
      <4>1. pub.reservation \in Reserving
        BY <2>3, Zenon DEF IInv, TypeOK, Publication
      <4> QED BY <3>3, <4>1, NilAssumption, Zenon DEF Reserving
    <3>6. x \in committed' /\ committed \subseteq committed'
      BY <3>1, <3>2, <3>5, Zenon DEF Moved, Past
    <3>7. Published(x)
      BY <2>2, <2>3, <3>3, <3>4, <3>6, PublishOkFacts, Zenon
    <3> QED BY <2>1, <2>6, <3>1, <3>2, <3>7, <1>RecoverPublished, Zenon
  <2> QED BY <2>4, <2>5, <2>6, Zenon DEF BootRecoverDegraded

<1> QED BY <1>RecoveryTimerStep, <1>BootRecoverDegradedStep, Zenon

----------------------------------------------------------------------------
(* Startup.                                                                *)

\* Startup recovers, stages its candidate and reserves for it (Run before the loop).
LEMMA StartupSteps ==
    IInv /\ (BootRecover \/ BootStage \/ BootReserve) => IInv' /\ Advance
\* Before startup is complete there are no candidates in flight, and no caller waits.
<1>BootRest.
    ASSUME IInv, booting, producers' = {}, results' = {}, waiter' = None, req' = req,
           pc' \notin {"reserve", "apply", "applied"}, eng' \in Writer, eng.admitted <= eng'.admitted,
           committed \subseteq committed', Taken' \subseteq Taken
    PROVE  Apart' /\ AllFresh' /\ Asked' /\ Waited' /\ Matching' /\ Honest'
  <2> USE <1>BootRest
  <2>1. waiter = None /\ producers = {} /\ results = {}
    BY Zenon DEF IInv, Booted
  <2>2. \A e, f : ~Cand(e, f)'
    BY Zenon DEF Cand, InHand
  <2>3. Apart' /\ AllFresh' /\ Matching'
    BY <2>2, Zenon DEF Apart, AllFresh, Matching, Held
  <2>4. eng \in Writer /\ req \in [Req -> Request] /\ waiter \in Waiter \cup {None}
    BY Zenon DEF IInv, TypeOK
  <2>5. CandsKept
    BY <2>2, Zenon DEF CandsKept
  <2>6. RuledStays
    BY <2>4, <2>5, RuledKept, Zenon DEF Grown
  <2>7. WaiterKept
    BY Zenon DEF WaiterKept
  <2>8. Asked' /\ Waited' /\ Honest'
    BY <2>4, <2>6, <2>7, RequestsSame, RequestsStep, Zenon DEF IInv
  <2> QED BY <2>3, <2>8, Zenon

\* recoverUntilReady: the recovered revision becomes the active source.
<1>BootRecoverStep.
    ASSUME IInv, BootRecover
    PROVE  IInv' /\ Advance
  <2> USE <1>BootRecoverStep
  <2>1. pc = "recover" /\ UNCHANGED <<booting, cancelled, ready, waiter, cur, recovery, req, results, pub, open>>
    BY Zenon DEF BootRecover, loopRest, runVars
  <2>2. TypeOK /\ WriterOK /\ HandHandles = {}
    BY <2>1, NoHand, Zenon DEF IInv, WriterOK
  <2>3. /\ booting /\ recovery = "none" /\ waiter = None /\ producers = {} /\ results = {}
        /\ src.session = None /\ pub.reservation = None /\ tx = None
    BY <2>1, Zenon DEF IInv, Booted, Phases, Doubted
  <2>4. /\ pc' \in {"recover", "stop", "stage"} /\ Moved
        /\ pc' = "stage" => Chosen(eng', disk')
        /\ src' \in Sources /\ src'.session = None /\ Muted(producers, producers')
    <3>1. CASE RecoverFails /\ pc' \in {"recover", "stop"} /\ UNCHANGED <<src, producers>>
      BY <2>1, <2>2, <2>3, <3>1, RecoverFailsFacts, DrawnSame, Zenon DEF TypeOK
    <3>2. CASE RecoverWriter(TRUE) /\ SelectRevision(disk', None) /\ pc' = "stage"
      <4>1. Moved /\ Chosen(eng', disk')
        BY <2>1, <2>2, <3>2, RecoverWriterFacts, Zenon
      <4>2. PICK x \in OptRev : x = disk'
        BY <4>1, Zenon DEF Moved
      <4>3. src' \in Sources /\ src'.session = NextSession(x, None) /\ Muted(producers, producers')
        BY <3>2, <4>2, SelectFacts, Zenon
      <4>4. NextSession(x, None) = None
        BY <2>3, Zenon DEF NextSession
      <4> QED BY <3>2, <4>1, <4>3, <4>4, Zenon
    <3> QED BY <3>1, <3>2, Zenon DEF BootRecover
  <2>5. producers' = {}
    BY <2>3, <2>4, MutedEmpty, Zenon
  <2>6. /\ eng' \in Writer /\ disk' \in OptRev /\ tx' \in OptRev /\ committed' \subseteq Built
        /\ Past' /\ eng'.activeEpoch <= eng'.admitted /\ eng.admitted <= eng'.admitted
        /\ Taken' \subseteq Taken /\ committed \subseteq committed' /\ Advance /\ tx' = None
    BY <2>3, <2>4, Zenon DEF Moved
  <2>7. Adopted' /\ Doubted'
    BY <2>4, <2>6, Zenon DEF Adopted, Doubted, Chosen
  <2>8. Apart' /\ AllFresh' /\ Asked' /\ Waited' /\ Matching' /\ Honest'
    BY <2>1, <2>3, <2>4, <2>5, <2>6, <1>BootRest, Zenon
  <2>9. Told' /\ Fits' /\ Phases' /\ Booted'
    BY <2>1, <2>3, <2>4, <2>5, Zenon DEF Told, Fits, Phases, Booted
  <2>10. Kept'
    BY <2>1, <2>4, <2>6, Zenon DEF IInv, Kept
  <2>11. TypeOK'
    BY <2>1, <2>2, <2>4, <2>5, <2>6, Zenon DEF TypeOK
  <2>12. HandlesOwned'
    <3>1. PublicHandles' = PublicHandles
      BY <2>1, <2>3, <2>4, PublicKept, Zenon
    <3>2. StagedHandles' = StagedHandles
      BY <2>1, <2>3, <2>5, Zenon DEF StagedHandles
    <3>3. HandHandles' = {}
      BY <2>4, Zenon DEF HandHandles
    <3> QED BY <2>1, <2>2, <3>1, <3>2, <3>3, OwnedParts, Zenon DEF IInv, HandlesOwned
  <2> QED BY <2>6, <2>7, <2>8, <2>9, <2>10, <2>11, <2>12, Zenon DEF IInv

\* Startup reserves for its candidate.
<1>BootReserveStep.
    ASSUME IInv, BootReserve
    PROVE  IInv' /\ Advance
  <2> USE <1>BootReserveStep
  <2>1. /\ pc = "reserve" /\ UNCHANGED <<eng, disk, tx, committed, req, producers, results, src>>
        /\ UNCHANGED <<booting, cancelled, ready, waiter, cur, recovery>>
    BY Zenon DEF BootReserve, loopRest, runVars, writerVars
  <2>2. CASE pc' = "stop" /\ open' = open \ {Staged(cur.rev)} /\ UNCHANGED pub
    <3>1. open' = open \ HandHandles
      BY <2>1, <2>2, HandDropped, Zenon DEF InHand
    <3>2. ready' \in BOOLEAN /\ pub' \in Publication
      BY <2>1, <2>2, Zenon DEF IInv, TypeOK
    <3> QED BY <2>1, <2>2, <3>1, <3>2, EndStep, Zenon
  <2>3. CASE Reserve(cur) /\ pc' = "apply"
    <3>1. InHand
      BY <2>1, Zenon DEF InHand
    <3>2. PICK x : x = cur
      BY Zenon
    <3>3. /\ cur \in Work /\ x.rev \in Built /\ x.session \in BOOLEAN /\ tx = None
          /\ Fresh(x.rev.epoch, x.rev.refresh)
      BY <3>1, <3>2, InHandFacts, Zenon
    <3>4. TypeOK /\ WriterOK /\ eng \in Writer
      BY Zenon DEF IInv, WriterOK, TypeOK
    <3>5. booting /\ recovery = "none" /\ waiter = None /\ producers = {} /\ results = {}
          /\ pub.reservation = None
      BY <2>1, Zenon DEF IInv, Booted, Phases
    <3> DEFINE r == Reservation(x)
    <3>6. /\ pub' \in Publication /\ pub'.listener = pub.listener /\ pub'.reservation = r
          /\ r # None /\ r.rev = x.rev /\ open' = open \cup ReservationHandles(r)
          /\ open' \subseteq Handles
          /\ PublicHandles' = PublicHandles \cup ReservationHandles(r)
          /\ Fits' /\ Kept'
      BY <2>1, <2>3, <3>2, <3>3, <3>5, ReserveFacts, Zenon
    <3> HIDE DEF r
    <3>7. Past' /\ Adopted' /\ Doubted' /\ Advance /\ Forward
      BY <2>1, <2>3, <3>3, <3>4, WriterSame, Zenon DEF PlaceKept
    <3>8. StagingKept /\ WaiterKept
      BY <2>1, <2>3, <3>4, <3>5, DrawnSame, Zenon DEF StagingKept, Held, InHand, WaiterKept
    <3>9. Apart' /\ AllFresh' /\ Asked' /\ Waited' /\ Matching' /\ Honest'
      BY <2>1, <3>4, <3>7, <3>8, RequestsSame, RestKept, Zenon
    <3>10. Told' /\ Phases' /\ Booted'
      BY <2>1, <2>3, <3>2, <3>5, <3>6, Zenon DEF Told, Phases, Booted
    <3>11. TypeOK'
      BY <2>1, <2>3, <3>3, <3>4, <3>6, Zenon DEF TypeOK
    <3>12. HandlesOwned'
      <4>1. HandHandles' = HandHandles
        BY <2>1, <2>3, Zenon DEF HandHandles
      <4>2. StagedHandles' = StagedHandles
        BY <2>1, StagedSame, Zenon
      <4> QED BY <3>6, <4>1, <4>2, OwnedParts, Zenon DEF IInv, HandlesOwned
    <3> QED BY <3>6, <3>7, <3>9, <3>10, <3>11, <3>12, Zenon DEF IInv
  <2> QED BY <2>2, <2>3, Zenon DEF BootReserve

\* Startup admits and stages its candidate: its epoch is new.
<1>BootStagedStep.
    ASSUME IInv, pc = "stage", NEW m, m = eng.admitted + 1, m <= MaxEpoch, NEW file \in Digest,
           NEW x, x = [epoch |-> m, refresh |-> 0, cfg |-> file],
           cur' = [rev |-> x, session |-> TRUE, out |-> None], open' = open \cup {Staged(x)},
           eng' = [eng EXCEPT !.admitted = m], pc' = "reserve",
           UNCHANGED <<booting, cancelled, ready, waiter, recovery, disk, tx, committed>>,
           UNCHANGED <<req, producers, results, pub, src>>
    PROVE  IInv' /\ Advance
  <2> USE <1>BootStagedStep
  <2>1. TypeOK /\ eng \in Writer /\ disk \in OptRev /\ committed \subseteq Built /\ req \in [Req -> Request]
    BY Zenon DEF IInv, TypeOK
  <2>2. /\ booting /\ recovery = "none" /\ waiter = None /\ producers = {} /\ results = {}
        /\ pub.reservation = None /\ tx = None /\ Chosen(eng, disk) /\ eng.activeEpoch <= eng.admitted
        /\ Past
    BY Zenon DEF IInv, Booted, Phases, Doubted, Adopted
  <2>3. /\ eng.admitted \in Nat /\ eng.activeEpoch \in Nat /\ eng.refreshSequence \in Nat
        /\ m \in Nat /\ m \in Epoch /\ m > eng.admitted
    BY <2>1, WriterTyped, BoundsAssumption DEF Epoch
  <2>4. eng' \in Writer
    BY <2>1, <2>3, Zenon DEF Writer
  <2>5. /\ eng'.admitted = m /\ eng'.activeEpoch = eng.activeEpoch
        /\ eng'.refreshSequence = eng.refreshSequence
    BY <2>1, Zenon DEF Writer
  <2>6. x \in Built /\ x.epoch = m /\ x.refresh = 0
    BY <2>3, BoundsAssumption DEF Built
  <2>7. cur' \in Work /\ cur'.rev = x /\ cur'.session = TRUE
    BY <2>6, Zenon DEF Work
  <2>8. Past' /\ Adopted' /\ Doubted' /\ Advance /\ Taken' = Taken
    <3>1. Past' /\ Taken' = Taken /\ Advance
      BY <2>2, Zenon DEF Past, Taken, Advance
    <3>2. Adopted' /\ Doubted'
      BY <2>2, <2>3, <2>5 DEF Adopted, Chosen, Doubted
    <3> QED BY <3>1, <3>2, Zenon
  <2>9. \A c \in Taken : c.epoch # m
    <3> SUFFICES ASSUME NEW c \in committed PROVE c.epoch # m
      BY <2>2, Zenon DEF Taken
    <3>1. disk # None /\ disk \in Built
      BY <2>1, <2>2, Zenon DEF Past, OptRev
    <3>2. c \in Built /\ c.epoch \in Nat /\ disk.epoch \in Nat
      BY <2>1, <3>1, BoundsAssumption DEF Built, Epoch
    <3>3. c.epoch <= disk.epoch
      BY <2>2, <3>1, <3>2, NewerSame DEF Past
    <3> QED BY <2>2, <2>3, <3>1, <3>2, <3>3 DEF Chosen
  <2>10. \A e, f : Cand(e, f)' => e = m /\ f = 0
    BY <2>2, <2>6, <2>7, Zenon DEF Cand
  <2>11. AllFresh' /\ Apart'
    <3>1. \A e \in Epoch, f \in 0..MaxRefresh : e = m /\ f = 0 => Fresh(e, f)'
      BY <2>3, <2>5, <2>8, <2>9 DEF Fresh
    <3> QED BY <2>2, <2>10, <3>1, Zenon DEF AllFresh, Apart
  <2>12. \A r \in Req : req[r].epoch \in Nat /\ req[r].epoch <= eng.admitted
    BY <2>1, BoundsAssumption DEF IInv, Asked, Request, Epoch
  <2>13. Asked' /\ Waited'
    BY <2>2, <2>3, <2>5, <2>12 DEF IInv, Asked, Waited
  <2>14. Honest'
    <3>1. RuledStays
      <4> SUFFICES ASSUME NEW e \in Epoch, e <= eng.admitted, Ruled(e) PROVE Ruled(e)'
        BY Zenon DEF RuledStays
      <4>1. e < eng'.admitted
        BY <2>3, <2>5, BoundsAssumption DEF Epoch
      <4> QED BY <2>8, <4>1, Zenon DEF Ruled
    <3> QED BY <2>1, <3>1, HonestStep, Zenon DEF IInv, Answers
  <2>15. Matching'
    <3>1. \A r \in Req : ~Wants(cur.rev, r)'
      BY <2>3, <2>6, <2>7, <2>12 DEF Wants
    <3> QED BY <2>2, <3>1, Zenon DEF Matching, Wants
  <2>16. Fits' /\ Kept'
    BY FitsSame, Zenon DEF IInv
  <2>17. Told' /\ Phases' /\ Booted'
    BY <2>2, Zenon DEF Told, Phases, Booted
  <2>18. Staged(x) \in Handles
    BY <2>6, Zenon DEF Staged, Handle, Handles, Built
  <2>19. TypeOK'
    <3>1. open' \subseteq Handles
      BY <2>1, <2>18, Zenon DEF TypeOK
    <3> QED BY <2>1, <2>4, <2>7, <3>1, Zenon DEF TypeOK
  <2>20. HandlesOwned'
    <3>1. HandHandles = {}
      BY NoHand, Zenon
    <3>2. HandHandles' = {Staged(x)}
      BY <2>7, Zenon DEF HandHandles, StagedOf
    <3>3. StagedHandles' = StagedHandles /\ PublicHandles' = PublicHandles
      BY StagedSame, PublicKept, Zenon
    <3> QED BY <3>1, <3>2, <3>3, OwnedParts, Zenon DEF IInv, HandlesOwned
  <2> QED BY <2>8, <2>11, <2>13, <2>14, <2>15, <2>16, <2>17, <2>19, <2>20, Zenon DEF IInv

\* Startup stages its candidate, or ends.
<1>BootStageStep.
    ASSUME IInv, BootStage
    PROVE  IInv' /\ Advance
  <2> USE <1>BootStageStep
  <2> DEFINE m == eng.admitted + 1
             X(file) == [epoch |-> m, refresh |-> 0, cfg |-> file]
  <2>1. /\ pc = "stage" /\ UNCHANGED <<booting, cancelled, ready, waiter, recovery, disk, tx, committed>>
        /\ UNCHANGED <<req, producers, results, pub, src>>
    BY Zenon DEF BootStage, runVars, workVars
  <2>2. CASE pc' = "stop" /\ UNCHANGED <<cur, open, eng>>
    <3>1. open' = open \ HandHandles
      BY <2>1, <2>2, NoHand, Zenon
    <3>2. ready' \in BOOLEAN /\ pub' \in Publication
      BY <2>1, Zenon DEF IInv, TypeOK
    <3> QED BY <2>1, <2>2, <3>1, <3>2, EndStep, Zenon
  <2>3. CASE /\ m <= MaxEpoch /\ eng' = [eng EXCEPT !.admitted = m] /\ pc' = "reserve"
             /\ \E file \in Digest : /\ cur' = [rev |-> X(file), session |-> TRUE, out |-> None]
                                     /\ open' = open \cup {Staged(X(file))}
    <3>1. PICK file \in Digest : /\ cur' = [rev |-> X(file), session |-> TRUE, out |-> None]
                                 /\ open' = open \cup {Staged(X(file))}
      BY <2>3, Zenon
    <3>2. PICK k : k = m
      BY Zenon
    <3>3. PICK x : x = [epoch |-> k, refresh |-> 0, cfg |-> file]
      BY Zenon
    <3>4. X(file) = x
      BY <3>2, <3>3, Zenon
    <3> HIDE DEF X
    <3> QED BY <2>1, <2>3, <3>1, <3>2, <3>3, <3>4, <1>BootStagedStep, Zenon
  <2> QED BY <2>2, <2>3, Zenon DEF BootStage

<1> QED BY <1>BootRecoverStep, <1>BootStageStep, <1>BootReserveStep, Zenon

----------------------------------------------------------------------------
(* The theorems.                                                           *)

\* Every step of startup keeps the invariant and advances.
LEMMA BootSteps ==
    ASSUME IInv, Boot
    PROVE  IInv' /\ Advance
BY StartupSteps, OutcomeSteps, RecoverySteps,
   BootAnnounceStep, BootNotifyStep, BootCancelledStep, Zenon DEF Boot

\* Every step of the loop keeps the invariant and advances.
LEMMA LoopSteps ==
    ASSUME IInv, Loop
    PROVE  IInv' /\ Advance
BY ReloadSteps, RefreshSteps, ResultSteps, ApplySteps, OutcomeSteps, RecoverySteps,
   SeeCancelStep, StopServiceStep, Zenon DEF Loop

\* Every step keeps the invariant and advances.
LEMMA NextStep ==
    ASSUME IInv, [Next]_vars
    PROVE  IInv' /\ Advance
<1>1. CASE Boot
  BY <1>1, BootSteps, Zenon
<1>2. CASE Loop
  BY <1>2, LoopSteps, Zenon
<1>3. CASE Producer
  BY <1>3, ProducerSteps, Zenon
<1>4. CASE Handlers \/ \E r \in Req : Submit(r) \/ Expire(r)
  BY <1>4, HandlerSteps, Zenon DEF Handlers
<1>5. CASE Hangup
  BY <1>5, ReloadSteps, Zenon
<1>6. CASE Cancel \/ CrowdSec
  BY <1>6, OutsideSteps, Zenon
<1>7. CASE MetricsFails
  BY <1>7, MetricsFailsStep, Zenon
<1>8. CASE Terminated \/ UNCHANGED vars
  BY <1>8, StutterStep, Zenon DEF Terminated
<1> QED BY <1>1, <1>2, <1>3, <1>4, <1>5, <1>6, <1>7, <1>8, Zenon DEF Next

\* The inductive invariant holds in every reachable state of the loop, its
\* producers, its handlers and the writer it drives.
THEOREM CoordinatorInvariant == Spec => []IInv
<1>1. Init => IInv
  BY InitHolds, Zenon
<1>2. IInv /\ [Next]_vars => IInv'
  BY NextStep, Zenon
<1> QED BY <1>1, <1>2, PTL DEF Spec

\* The loop's state is what run.go declares: a place, an answer or none per request,
\* one waiter, candidates with their digests, one reservation (TypeOK).
THEOREM TypeCorrect == Spec => []TypeOK
<1>1. IInv => TypeOK
  BY Zenon DEF IInv
<1> QED BY <1>1, CoordinatorInvariant, PTL

\* Reload answers are true (run.go finish, control/reload.go), for every number of
\* requests, of digests and of epochs: "applied" and "degraded" name a committed
\* revision of this very request, and a "rejected" one is never committed, not even by
\* a later recovery of a candidate in doubt.
THEOREM TruthfulAnswersTheorem == Spec => []TruthfulAnswers
<1>1. IInv => TruthfulAnswers
  <2> SUFFICES ASSUME IInv, NEW r \in Req, NEW a \in Answers(r)
               PROVE  /\ a.outcome \in {"applied", "degraded"} =>
                           a.rev \in committed /\ a.rev.epoch = req[r].epoch /\ a.rev.refresh = 0
                      /\ a.outcome = "applied" =>
                           a.cfg = a.rev.cfg /\ req[r].expected \in {None, a.cfg}
                      /\ a.outcome = "rejected" =>
                           \A c \in committed : c.epoch = req[r].epoch => req[r].epoch = 0
    BY Zenon DEF TruthfulAnswers
  <2>1. TrueAnswer(a, req[r])
    BY Zenon DEF IInv, Honest
  <2> QED BY <2>1, Zenon DEF TrueAnswer, Ruled, Taken
<1> QED BY <1>1, CoordinatorInvariant, PTL

\* Whenever the loop waits and nothing is being recovered, the sources, the session
\* and the metrics listener are those of the active revision (publication.go,
\* source.go), whatever failed, was recovered or superseded before.
THEOREM PublishedIsActiveTheorem == Spec => []PublishedIsActive
<1>1. IInv => PublishedIsActive
  <2> SUFFICES ASSUME IInv, pc = "select", ~Recovering
               PROVE  /\ pub.reservation = None
                      /\ src.active = disk /\ eng.activeEpoch = disk.epoch
                      /\ src.session # None => src.session[2] = disk.epoch
                      /\ Listen[disk.cfg] = IF pub.listener = None THEN None ELSE pub.listener.addr
    BY Zenon DEF PublishedIsActive
  <2>1. pub.reservation = None /\ src.active = disk /\ Shows(disk) /\ eng.activeEpoch = disk.epoch
    BY Quiet, Zenon
  <2> QED BY <2>1, Zenon DEF IInv, Kept, Shows
<1> QED BY <1>1, CoordinatorInvariant, PTL

\* Every open session and listener has a living owner and every owned one is open
\* (run.go, publication.go, staged_candidate.go), whatever failed on the way.
THEOREM HandlesOwnedTheorem == Spec => []HandlesOwned
<1>1. IInv => HandlesOwned
  BY Zenon DEF IInv
<1> QED BY <1>1, CoordinatorInvariant, PTL

\* The active revision only moves forward and a superseded candidate never becomes
\* active (engine.go current), neither by an apply nor by a recovery.
THEOREM NoStaleCommitTheorem == Spec => NoStaleCommit
<1>1. IInv /\ [Next]_vars =>
        [disk' # disk =>
           /\ disk' # None /\ (disk # None => Newer(disk', disk))
           /\ IF disk'.refresh = 0 THEN disk'.epoch = eng.admitted
                                   ELSE disk'.epoch = eng.activeEpoch]_vars
  BY NextStep, Zenon DEF Advance
<1> QED BY <1>1, CoordinatorInvariant, PTL DEF Spec, NoStaleCommit

============================================================================
