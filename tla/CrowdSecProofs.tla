--------------------------- MODULE CrowdSecProofs ---------------------------
(***************************************************************************)
(* The safety of the CrowdSec runtime, for any keys, addresses, number of  *)
(* applies, failures and changes of the LAPI's decisions.                  *)
(*                                                                         *)
(* The four properties are not inductive: a view is right because every    *)
(* write withdraws it first, a worker may ask for changes only because it  *)
(* is the only one and its store is what its key was last told, and the    *)
(* active authority is the durable one only when no transaction is in      *)
(* doubt.  Good states what each actor relies on between its steps.  It    *)
(* holds as long as the store could be read at the end of every apply      *)
(* (unread = 0): after a read that failed, finishApplyLocked keeps the     *)
(* transaction and the staged state although both are settled, and a later *)
(* recovery may select by them.                                            *)
(***************************************************************************)
EXTENDS CrowdSec, TLAPS

----------------------------------------------------------------------------
(* The inductive invariant.                                                *)

\* Epochs name states: the staged state is the active one or another.
Linked(r) ==
    /\ r.active # None => r.active.epoch <= r.epoch
    /\ r.staged # None => r.staged.epoch <= r.epoch
    /\ r.active # None /\ r.staged # None /\ r.staged.epoch = r.active.epoch => r.staged = r.active

\* No worker runs.
Still(r) == \A w \in r.workers : ~w.live

\* A worker that waits may ask for changes if the store is what its key was told
\* (s); an answer it holds makes the store that.
Fed(w, store, s) ==
    /\ w.phase = "wait" => w.batch = None /\ (~w.full => store = s[w.key])
    /\ w.phase = "done" /\ w.batch # None =>
         s[w.key] = IF w.full THEN w.batch.new ELSE (store \ w.batch.deleted) \cup w.batch.new

\* At most one worker runs, and it is the active state's.
Working(r, s) ==
    /\ \A w \in r.workers : w.live =>
         /\ r.active # None /\ w.epoch = r.active.epoch /\ w.key = r.active.key
         /\ Fed(w, r.active.store, s)
    /\ \A w, v \in r.workers : w.live /\ v.live => w = v

\* An apply's number is new.
Numbered ==
    /\ disk.rev <= applies /\ disk.gen <= applies
    /\ app.pc # "idle" => disk.rev < applies /\ disk.gen < applies

\* What is pending is left to recovery, and no apply runs meanwhile.
Fenced ==
    /\ journal # None => ~healthy
    /\ recovering => app.pc = "idle"
    /\ c.transaction # 0 => ~healthy /\ recovering
    /\ closing # "no" => Still(c)

\* The pending transaction is the durable revision: the staged state is its.
InDoubt == c.transaction # 0 /\ disk.rev = c.transaction

\* Else the active state is of the durable authority.
Keyed == c.active # None /\ ~InDoubt => disk.crowd /\ c.active.key = disk.key

\* What recovery would select is of the durable authority, and can be polled.
Retained ==
    closing = "no" /\ InDoubt =>
        IF c.staged = None THEN ~disk.crowd
        ELSE /\ disk.crowd /\ c.staged.key = disk.key
             /\ \/ c.active # None /\ c.active.epoch = c.staged.epoch
                \/ Still(c) /\ c.staged.store = sent[c.staged.key]

\* A write is owed only by a state there is.
Owed == closing = "no" /\ c.dirty /\ c.active = None => InDoubt /\ c.staged # None

\* What the apply that is under way relies on.
Staging ==
    /\ app.pc # "idle" /\ app.kind = "refresh" => app.crowd = disk.crowd
    /\ app.pc \in {"join", "poll", "polled"} \/ (app.pc = "locked" /\ app.kind = "reload") => Still(c)
    /\ app.pc = "polled" => app.store = sent[app.key]
    /\ app.pc = "locked" /\ app.kind = "reload" /\ app.crowd =>
         /\ c.staged # None /\ c.staged.key = app.key /\ c.staged.store = sent[app.key]

\* The container holds the active store, and all of it is acknowledged.
Accurate(r, d, h) ==
    h /\ ~r.dirty /\ r.active # None =>
        r.cont[d.gen] = r.active.store /\ r.active.lease = r.active.store

\* A view is of the durable revision, the active state and the container.
Shows(r, d, j, h) ==
    /\ r.fallback = None
    /\ r.view # None =>
         /\ h /\ ~r.dirty /\ j = None /\ r.view.rev = d.rev
         /\ d.crowd => r.active # None /\ r.view.epoch = r.active.epoch
         /\ r.view.dyn = IF d.crowd THEN r.cont[d.gen] ELSE {}

Enforced == Accurate(c, disk, healthy)

Shown == Shows(c, disk, journal, healthy)

Good ==
    /\ Linked(c) /\ Working(c, sent) /\ Numbered /\ Fenced /\ Keyed /\ Retained /\ Owed
    /\ Staging /\ Enforced /\ Shown

IInv == unread \in Nat /\ (unread = 0 => TypeOK /\ Good)

----------------------------------------------------------------------------
(* What the helpers on the runtime do to the fields the invariant reads.   *)

\* The same states and workers.
Untouched(r, t) ==
    /\ t.active = r.active /\ t.staged = r.staged /\ t.transaction = r.transaction
    /\ t.workers = r.workers /\ t.epoch = r.epoch

\* The same containers, and the same doubt about them.
Unwritten(r, t) == t.dirty = r.dirty /\ t.cont = r.cont

\* Only the workers may differ.
Restaffed(r, t) ==
    /\ t.active = r.active /\ t.staged = r.staged /\ t.transaction = r.transaction
    /\ t.epoch = r.epoch /\ t.view = r.view /\ t.fallback = r.fallback /\ Unwritten(r, t)

\* invalidateLookupLocked withdraws the view and keeps it as the fallback, and
\* touches neither the clients nor the container.
LEMMA Invalidated ==
    ASSUME NEW r \in Runtime
    PROVE  LET t == InvalidateLookup(r)
           IN  /\ t \in Runtime /\ Untouched(r, t) /\ Unwritten(r, t)
               /\ t.view = None /\ t.fallback = IF r.view # None THEN r.view ELSE r.fallback
BY ZenonT(40) DEF InvalidateLookup, Runtime, Untouched, Unwritten

\* abortLookupLocked withdraws the view and its fallback, and nothing else.
LEMMA Aborted ==
    ASSUME NEW r \in Runtime
    PROVE  LET t == AbortLookup(r)
           IN  /\ t \in Runtime /\ Untouched(r, t) /\ Unwritten(r, t)
               /\ t.view = None /\ t.fallback = None
BY ZenonT(40) DEF AbortLookup, Runtime, Untouched, Unwritten

\* publishLookupLocked shows a view and forgets the fallback, and nothing else.
LEMMA Published ==
    ASSUME NEW r \in Runtime, NEW v \in View \cup {None}
    PROVE  LET t == PublishLookup(r, v)
           IN  /\ t \in Runtime /\ Untouched(r, t) /\ Unwritten(r, t)
               /\ t.view = v /\ t.fallback = None
BY ZenonT(40) DEF PublishLookup, Runtime, Untouched, Unwritten

\* restoreLookupLocked shows the fallback again if there is one.
LEMMA LookupRestored ==
    ASSUME NEW r \in Runtime
    PROVE  LET t == RestoreLookup(r)
           IN  /\ t \in Runtime /\ Untouched(r, t) /\ Unwritten(r, t) /\ t.fallback = None
               /\ t.view = IF r.fallback # None THEN r.fallback ELSE r.view
<1>1. r.fallback \in View \cup {None}
    BY DEF Runtime
<1> QED BY <1>1, Published, Zenon DEF RestoreLookup, Untouched, Unwritten

\* A write replaces the content of one container, and nothing else.
LEMMA WrittenTo ==
    ASSUME NEW r \in Runtime, NEW d \in Revision, NEW content \in SUBSET Ban
    PROVE  LET t == Written(r, d, content)
           IN  /\ t \in Runtime /\ Untouched(r, t) /\ t.dirty = r.dirty
               /\ t.cont = [r.cont EXCEPT ![d.gen] = content]
               /\ t.view = r.view /\ t.fallback = r.fallback
BY ZenonT(40) DEF Written, Runtime, Untouched, Revision

\* A failed write withdraws the view and leaves a retry due.
LEMMA WriteFailed ==
    ASSUME NEW r \in Runtime
    PROVE  LET t == FailedWrite(r)
           IN  /\ t \in Runtime /\ Untouched(r, t) /\ t.dirty = TRUE /\ t.cont = r.cont
               /\ t.view = None /\ t.fallback = None
BY ZenonT(40) DEF FailedWrite, AbortLookup, WakeOnFailure, Runtime, Untouched

\* A change of the active state is a change of its staged alias too.
LEMMA ActiveSet ==
    ASSUME NEW r \in Runtime, NEW s \in State
    PROVE  LET t == SetActive(r, s)
           IN  /\ t \in Runtime /\ Unwritten(r, t)
               /\ t.transaction = r.transaction /\ t.workers = r.workers /\ t.epoch = r.epoch
               /\ t.view = r.view /\ t.fallback = r.fallback
               /\ t.active = s
               /\ t.staged = IF r.staged # None /\ r.staged.epoch = s.epoch THEN s ELSE r.staged
BY CrowdAssumption, ZenonT(40) DEF SetActive, Same, Runtime, Unwritten

\* stopPollLocked cancels the state's workers and leaves the others alone.
LEMMA PollStopped ==
    ASSUME NEW r \in Runtime, NEW s \in State
    PROVE  LET t == StopPoll(r, s)
           IN  /\ t \in Runtime /\ Restaffed(r, t)
               /\ \A w \in t.workers : w.live => w \in r.workers /\ w.epoch # s.epoch
<1> DEFINE f(w) == [w EXCEPT !.live = @ /\ w.epoch # s.epoch]
<1>1. ASSUME NEW w \in Poller
      PROVE  f(w) \in Poller /\ (f(w).live => f(w) = w /\ w.live /\ w.epoch # s.epoch)
    BY ZenonT(40) DEF Poller
<1> HIDE DEF f
<1>2. r.workers \subseteq Poller
    BY Zenon DEF Runtime
<1>3. {f(w) : w \in r.workers} \subseteq Poller
    BY <1>1, <1>2
<1>4. \A w \in {f(v) : v \in r.workers} : w.live => w \in r.workers /\ w.epoch # s.epoch
    BY <1>1, <1>2
<1>5. StopPoll(r, s).workers = {f(w) : w \in r.workers}
    BY Zenon DEF StopPoll, Runtime, f
<1> QED BY <1>3, <1>4, <1>5, ZenonT(40) DEF StopPoll, Runtime, Restaffed, Unwritten, f

\* Cancelling the poll of the active state leaves no worker running.
LEMMA StopsAll ==
    ASSUME NEW r \in Runtime, NEW S, r.active # None, Working(r, S)
    PROVE  Still(StopPoll(r, r.active))
<1>1. r.active \in State
    BY Zenon DEF Runtime
<1> QED BY <1>1, PollStopped, Zenon DEF Working, Still

\* startPollLocked adds one waiting worker of the state.
LEMMA PollStarted ==
    ASSUME NEW r \in Runtime, NEW s \in State, NEW full \in BOOLEAN
    PROVE  LET t == StartPoll(r, s, full)
           IN  /\ t \in Runtime /\ Restaffed(r, t)
               /\ t.workers = r.workers \cup {Worker(s, full)}
<1>1. Worker(s, full) \in Poller
    BY Zenon DEF Worker, Poller, State
<1> HIDE DEF Worker
<1> QED BY <1>1, ZenonT(40) DEF StartPoll, Runtime, Restaffed, Unwritten

\* A worker started where none runs knows what the LAPI last told its key, or
\* asks in full.
LEMMA FirstWorker ==
    ASSUME NEW t, NEW W, NEW S, NEW s \in State, NEW full \in BOOLEAN,
           t.active = s, t.workers = W \cup {Worker(s, full)}, \A w \in W : ~w.live,
           full \/ s.store = S[s.key]
    PROVE  Working(t, S)
<1> DEFINE n == Worker(s, full)
<1>1. /\ n.epoch = s.epoch /\ n.key = s.key /\ n.full = full /\ n.live
      /\ n.phase = "wait" /\ n.batch = None
    BY Zenon DEF Worker
<1>2. s # None
    BY CrowdAssumption
<1>3. n.phase # "done"
    BY <1>1
<1> HIDE DEF n
<1>4. Fed(n, s.store, S)
    BY <1>1, <1>3, Zenon DEF Fed
<1>5. \A w \in t.workers : w.live => w = n
    BY Zenon DEF n
<1> QED BY <1>1, <1>2, <1>4, <1>5, Zenon DEF Working

\* activateLocked of a state: its worker is the only one that runs, and its
\* projection is not in doubt.
LEMMA Activated ==
    ASSUME NEW r \in Runtime, NEW s \in State, NEW S, Linked(r), Working(r, S),
           s.epoch <= r.epoch, Same(r.active, s) \/ s.store = S[s.key]
    PROVE  LET t == Activate(r, s)
           IN  /\ t \in Runtime /\ Working(t, S)
               /\ (r.staged # None /\ r.staged.epoch = s.epoch => r.staged = s) => Linked(t)
               /\ t.staged = r.staged /\ t.transaction = r.transaction /\ t.epoch = r.epoch
               /\ t.view = r.view /\ t.fallback = r.fallback /\ t.cont = r.cont
               /\ t.active = IF Same(r.active, s) THEN r.active ELSE s
               /\ t.dirty = IF Same(r.active, s) THEN r.dirty ELSE FALSE
<1>1. CASE Same(r.active, s)
    BY <1>1, Zenon DEF Activate
<1>2. CASE ~Same(r.active, s)
    <2> DEFINE q == IF r.active = None THEN r ELSE StopPoll(r, r.active)
               t == [q EXCEPT !.active = s, !.connected = s # None, !.dirty = FALSE,
                       !.open = @ \ RetiredClient(r.active, s), !.wake = s # None,
                       !.timer = FALSE]
    <2>1. q \in Runtime /\ Restaffed(r, q) /\ Still(q)
        <3>1. CASE r.active = None
            BY <3>1, Zenon DEF Restaffed, Unwritten, Working, Still
        <3>2. CASE r.active # None
            <4>1. r.active \in State
                BY <3>2, Zenon DEF Runtime
            <4> QED BY <3>2, <4>1, PollStopped, StopsAll, Zenon
        <3> QED BY <3>1, <3>2, Zenon
    <2> HIDE DEF q
    <2>2. /\ t \in Runtime /\ t.staged = q.staged /\ t.transaction = q.transaction
          /\ t.epoch = q.epoch /\ t.view = q.view /\ t.fallback = q.fallback /\ t.cont = q.cont
          /\ t.active = s /\ t.dirty = FALSE /\ t.workers = q.workers
        <3>1. q.open \ RetiredClient(r.active, s) \in SUBSET (1 .. MaxApply)
            BY <2>1, Zenon DEF Runtime
        <3> DEFINE b == s # None
                   n == q.open \ RetiredClient(r.active, s)
        <3>2. b \in BOOLEAN /\ n \in SUBSET (1 .. MaxApply)
            BY <3>1
        <3>3. t = [q EXCEPT !.active = s, !.connected = b, !.dirty = FALSE, !.open = n,
                            !.wake = b, !.timer = FALSE]
            BY <2>1, Zenon DEF Runtime
        <3> HIDE DEF b, n, t
        <3> QED BY <2>1, <3>2, <3>3, ZenonT(120) DEF Runtime
    <2>3. Activate(r, s) = StartPoll(t, s, FALSE)
        BY <1>2, CrowdAssumption, Zenon DEF Activate, q
    <2> HIDE DEF t
    <2>4. /\ StartPoll(t, s, FALSE) \in Runtime /\ Restaffed(t, StartPoll(t, s, FALSE))
          /\ StartPoll(t, s, FALSE).workers = t.workers \cup {Worker(s, FALSE)}
        BY <2>2, PollStarted, Zenon
    <2>5. Working(StartPoll(t, s, FALSE), S)
        <3>1. StartPoll(t, s, FALSE).active = s
            BY <2>2, <2>4, Zenon DEF Restaffed
        <3>2. \A w \in t.workers : ~w.live
            BY <2>1, <2>2, Zenon DEF Still
        <3> QED BY <1>2, <2>4, <3>1, <3>2, FirstWorker, Zenon
    <2>6. (r.staged # None /\ r.staged.epoch = s.epoch => r.staged = s)
             => Linked(StartPoll(t, s, FALSE))
        BY <2>1, <2>2, <2>4, Zenon DEF Linked, Restaffed
    <2> QED BY <1>2, <2>1, <2>2, <2>3, <2>4, <2>5, <2>6, ZenonT(40) DEF Restaffed, Unwritten
<1> QED BY <1>1, <1>2, Zenon

\* activateLocked of no state: no worker runs.
LEMMA Deactivated ==
    ASSUME NEW r \in Runtime, NEW S, Linked(r), Working(r, S)
    PROVE  LET t == Activate(r, None)
           IN  /\ t \in Runtime /\ Linked(t) /\ Still(t)
               /\ t.staged = r.staged /\ t.transaction = r.transaction /\ t.epoch = r.epoch
               /\ t.view = r.view /\ t.fallback = r.fallback /\ t.cont = r.cont
               /\ t.active = None
               /\ t.dirty = IF r.active = None THEN r.dirty ELSE FALSE
<1>1. CASE r.active = None
    BY <1>1, Zenon DEF Activate, Same, Working, Still
<1>2. CASE r.active # None
    <2> DEFINE q == StopPoll(r, r.active)
               n == q.open \ RetiredClient(r.active, None)
               t == [q EXCEPT !.active = None, !.connected = FALSE, !.dirty = FALSE,
                       !.open = n, !.wake = FALSE, !.timer = FALSE]
    <2>1. q \in Runtime /\ Restaffed(r, q) /\ Still(q)
        <3>1. r.active \in State
            BY <1>2, Zenon DEF Runtime
        <3> QED BY <1>2, <3>1, PollStopped, StopsAll, Zenon
    <2>2. n \in SUBSET (1 .. MaxApply)
        BY <2>1, Zenon DEF Runtime
    <2>3. Activate(r, None) = t
        <3>1. ~Same(r.active, None) /\ (None # None) = FALSE
            BY <1>2, Zenon DEF Same
        <3> QED BY <1>2, <2>1, <3>1, Zenon DEF Activate, Runtime
    <2> HIDE DEF q, n
    <2>4. /\ t \in Runtime /\ t.staged = q.staged /\ t.transaction = q.transaction
          /\ t.epoch = q.epoch /\ t.view = q.view /\ t.fallback = q.fallback /\ t.cont = q.cont
          /\ t.active = None /\ t.dirty = FALSE /\ t.workers = q.workers
        BY <2>1, <2>2, ZenonT(120) DEF Runtime
    <2> HIDE DEF t
    <2> QED BY <1>2, <2>1, <2>3, <2>4, ZenonT(40) DEF Restaffed, Unwritten, Linked, Still
<1> QED BY <1>1, <1>2, Zenon

\* discardLocked forgets the staged state and its transaction; a poll it starts
\* again asks in full.
LEMMA Discarded ==
    ASSUME NEW r \in Runtime, NEW S, Linked(r), Working(r, S)
    PROVE  LET t == Discard(r)
           IN  /\ t \in Runtime /\ Linked(t) /\ Working(t, S)
               /\ t.active = r.active /\ t.staged = None /\ t.transaction = 0 /\ t.epoch = r.epoch
               /\ t.view = r.view /\ t.fallback = r.fallback /\ Unwritten(r, t)
               /\ closing # "no" /\ Still(r) => Still(t)
<1> DEFINE n == r.open \ (IF r.staged # None /\ ~Same(r.staged, r.active)
                          THEN {r.staged.client} ELSE {})
           t == [r EXCEPT !.open = n, !.staged = None, !.transaction = 0]
           q == [t EXCEPT !.connected = FALSE]
<1>1. n \in SUBSET (1 .. MaxApply) /\ 0 \in 0 .. MaxApply
    BY CrowdAssumption DEF Runtime
<1>2. Discard(r) = IF Resumes(t) THEN StartPoll(q, t.active, TRUE) ELSE t
    BY Zenon DEF Discard, Resynchronize
<1> HIDE DEF n
<1>3. /\ t \in Runtime /\ t.active = r.active /\ t.staged = None /\ t.transaction = 0
      /\ t.epoch = r.epoch /\ t.view = r.view /\ t.fallback = r.fallback /\ Unwritten(r, t)
      /\ t.workers = r.workers
    BY <1>1, ZenonT(40) DEF Runtime, Unwritten
<1> HIDE DEF t
<1>4. q \in Runtime /\ Restaffed(t, q) /\ q.workers = t.workers
    BY <1>3, ZenonT(120) DEF Runtime, Restaffed, Unwritten
<1> HIDE DEF q
<1>5. Linked(t) /\ Working(t, S)
    BY <1>3, Zenon DEF Linked, Working
<1>6. CASE ~Resumes(t)
    BY <1>2, <1>3, <1>5, <1>6, Zenon DEF Still
<1>7. CASE Resumes(t)
    <2> DEFINE u == StartPoll(q, t.active, TRUE)
    <2>1. t.active \in State /\ t.active # None /\ closing = "no" /\ Still(t)
        <3>1. t.active \in State
            BY <1>3, <1>7, Zenon DEF Runtime, Resumes
        <3> QED BY <1>5, <1>7, <3>1, Zenon DEF Resumes, Polled, Working, Still
    <2>2. u \in Runtime /\ Restaffed(q, u) /\ u.workers = q.workers \cup {Worker(t.active, TRUE)}
        BY <1>4, <2>1, PollStarted, Zenon
    <2> HIDE DEF u
    <2>3. u.active = t.active /\ \A w \in q.workers : ~w.live
        BY <1>4, <2>1, <2>2, Zenon DEF Restaffed, Still
    <2>4. Working(u, S)
        BY <2>1, <2>2, <2>3, FirstWorker, Zenon
    <2>5. Linked(u)
        BY <1>4, <1>5, <2>2, Zenon DEF Restaffed, Linked
    <2> QED BY <1>2, <1>3, <1>4, <1>7, <2>1, <2>2, <2>4, <2>5, ZenonT(40)
            DEF Restaffed, Unwritten, u
<1> QED BY <1>6, <1>7, Zenon

\* The view of a state shows the bans acknowledged for it.
LEMMA ViewShape ==
    ASSUME NEW rev \in 0 .. MaxApply, NEW s \in State \cup {None}
    PROVE  LET v == ViewOf(rev, s)
           IN  /\ v \in View /\ v # None /\ v.rev = rev
               /\ s # None => v.epoch = s.epoch /\ v.dyn = s.lease
               /\ s = None => v.dyn = {}
<1>1. CASE s = None
    BY <1>1, CrowdAssumption DEF ViewOf, Dynamic, View
<1>2. CASE s # None
    BY <1>2, CrowdAssumption DEF ViewOf, Dynamic, View, State
<1> QED BY <1>1, <1>2, Zenon

\* publishDynamicLookupLocked shows the state, or shows nothing.
LEMMA DynamicPublished ==
    ASSUME NEW r \in Runtime, NEW s \in State, NEW rev \in 0 .. MaxApply,
           r.view = None, r.fallback # None => r.fallback.rev = rev
    PROVE  LET t == PublishDynamicLookup(r, s, rev)
           IN  /\ t \in Runtime /\ Untouched(r, t) /\ Unwritten(r, t)
               /\ t.fallback = None /\ t.view \in {None, ViewOf(rev, s)}
<1>1. ViewOf(rev, s) \in View \cup {None}
    BY ViewShape, Zenon
<1> DEFINE p == PublishLookup(r, ViewOf(rev, s))
<1>2. /\ p \in Runtime /\ Untouched(r, p) /\ Unwritten(r, p)
      /\ p.view = ViewOf(rev, s) /\ p.fallback = None
    BY <1>1, Published, Zenon
<1>3. /\ PublishDynamicLookup(r, s, rev) \in {r, p}
      /\ r.fallback # None => PublishDynamicLookup(r, s, rev) = p
    BY Zenon DEF PublishDynamicLookup
<1> HIDE DEF p
<1> QED BY <1>2, <1>3, Zenon DEF Untouched, Unwritten

\* What is shown, or was, is of the revision d.
Concerns(r, d) ==
    /\ r.view # None => r.view.rev = d.rev
    /\ r.fallback # None => r.fallback.rev = d.rev

\* recordLeasesLocked acknowledges the whole store.
LEMMA LeasesRecorded ==
    ASSUME NEW s \in State
    PROVE  LET t == RecordLeases(s)
           IN  /\ t \in State /\ t.epoch = s.epoch /\ t.key = s.key /\ t.client = s.client
               /\ t.store = s.store /\ t.lease = s.store
BY Zenon DEF RecordLeases, State

\* A result of reconcileLocked.
Outcome == [ok : BOOLEAN, r : Runtime, s : State, faults : Nat]

\* reconcileLocked: a success has written the store, acknowledged it and cleared
\* the doubt; a failure shows nothing and leaves a retry due.
LEMMA Reconciled ==
    ASSUME NEW r \in Runtime, NEW s \in State, NEW d \in Revision, NEW j, NEW h \in BOOLEAN,
           Concerns(r, d), closing = "no", NEW o \in Reconcile(r, s, d, j, h)
    PROVE  /\ o \in Outcome /\ Untouched(r, o.r) /\ o.r.fallback = None
           /\ o.ok => /\ j = None /\ h /\ o.s = RecordLeases(s)
                      /\ ~o.r.dirty /\ o.r.cont[d.gen] = s.store
                      /\ o.r.view \in {None, ViewOf(d.rev, o.s)}
           /\ ~o.ok => o.s = s /\ o.r.dirty /\ o.r.view = None
<1> DEFINE inv  == InvalidateLookup(r)
           done == RecordLeases(s)
           w    == Written(inv, d, s.store)
           ok   == [w EXCEPT !.dirty = FALSE, !.wake = TRUE]
           p    == PublishDynamicLookup(ok, done, d.rev)
           F(t, n) == [ok |-> FALSE, r |-> FailedWrite(t), s |-> s, faults |-> n]
<1>1. /\ inv \in Runtime /\ Untouched(r, inv) /\ inv.view = None
      /\ inv.fallback # None => inv.fallback.rev = d.rev
    BY Invalidated, Zenon DEF Concerns
<1>2. s.store \in SUBSET Ban /\ d.gen \in 0 .. MaxApply /\ d.rev \in 0 .. MaxApply
    BY Zenon DEF State, Revision
<1> HIDE DEF inv
<1>3. /\ w \in Runtime /\ Untouched(inv, w) /\ w.view = None /\ w.fallback = inv.fallback
      /\ w.cont = [inv.cont EXCEPT ![d.gen] = s.store]
    BY <1>1, <1>2, WrittenTo
<1>4. w.cont[d.gen] = s.store
    <2>1. inv.cont \in [0 .. MaxApply -> SUBSET Ban]
        BY <1>1, Zenon DEF Runtime
    <2> QED BY <1>2, <1>3, <2>1, Zenon
<1> HIDE DEF w
<1>5. /\ ok \in Runtime /\ Untouched(w, ok) /\ ok.view = None /\ ok.fallback = w.fallback
      /\ ok.dirty = FALSE /\ ok.cont = w.cont
    BY <1>3, ZenonT(40) DEF Runtime, Untouched
<1> HIDE DEF ok
<1>6. done \in State
    BY LeasesRecorded
<1>7. /\ p \in Runtime /\ Untouched(ok, p) /\ Unwritten(ok, p)
      /\ p.fallback = None /\ p.view \in {None, ViewOf(d.rev, done)}
    BY <1>1, <1>2, <1>3, <1>5, <1>6, DynamicPublished
<1> HIDE DEF p
<1>8. CASE o = [ok |-> TRUE, r |-> p, s |-> done, faults |-> 0] /\ j = None /\ h
    <2>1. o.ok = TRUE /\ o.r = p /\ o.s = done
        BY <1>8, Zenon
    <2>2. o \in Outcome
        BY <1>6, <1>7, <1>8 DEF Outcome
    <2> QED BY <1>1, <1>3, <1>4, <1>5, <1>7, <1>8, <2>1, <2>2, ZenonT(40) DEF Untouched, Unwritten
<1>9. ASSUME NEW t \in Runtime, NEW n \in {0, 1}, Untouched(r, t), o = F(t, n)
      PROVE  /\ o \in Outcome /\ Untouched(r, o.r) /\ o.ok = FALSE
             /\ o.r.fallback = None /\ o.s = s /\ o.r.dirty /\ o.r.view = None
    <2>1. o.ok = FALSE /\ o.r = FailedWrite(t) /\ o.s = s
        BY <1>9, Zenon
    <2>2. o \in Outcome
        <3>1. n \in Nat
            OBVIOUS
        <3>2. FailedWrite(t) \in Runtime
            BY WriteFailed, Zenon
        <3> QED BY <1>9, <3>1, <3>2, Zenon DEF Outcome
    <2> QED BY <1>9, <2>1, <2>2, WriteFailed, Zenon DEF Untouched
<1>10. \/ o = [ok |-> TRUE, r |-> p, s |-> done, faults |-> 0] /\ j = None /\ h
       \/ \E t \in {r, inv, w}, n \in {0, 1} : o = F(t, n)
    <2>1. CASE j # None \/ ~h \/ d.gen = 0
        <3>1. o = F(r, 0)
            BY <2>1, Zenon DEF Reconcile
        <3> QED BY <3>1, Zenon
    <2>2. CASE ~(j # None \/ ~h \/ d.gen = 0)
        <3>1. \/ o = [ok |-> TRUE, r |-> p, s |-> done, faults |-> 0]
              \/ \E t \in {r, inv, w} : o = F(t, 1)
            BY <2>2, Zenon DEF Reconcile, p, ok, w, inv
        <3> QED BY <2>2, <3>1, Zenon
    <2> QED BY <2>1, <2>2
<1>11. Untouched(r, w) /\ Untouched(r, r)
    BY <1>1, <1>3, Zenon DEF Untouched
<1>12. CASE \E t \in {r, inv, w}, n \in {0, 1} : o = F(t, n)
    <2>1. PICK t \in {r, inv, w}, n \in {0, 1} : o = F(t, n)
        BY <1>12, Zenon
    <2>2. t \in Runtime /\ Untouched(r, t)
        BY <1>1, <1>3, <1>11, Zenon
    <2>3. /\ o \in Outcome /\ Untouched(r, o.r) /\ o.ok = FALSE
          /\ o.r.fallback = None /\ o.s = s /\ o.r.dirty /\ o.r.view = None
        BY <1>9, <2>1, <2>2, Zenon
    <2> QED BY <2>3, Zenon
<1> QED BY <1>8, <1>10, <1>12, Zenon

\* The same state, up to its leases.
Twin(s, t) ==
    IF s = None THEN t = None
    ELSE t # None /\ t.epoch = s.epoch /\ t.key = s.key /\ t.store = s.store

\* The active state writes its own projection: the clients and their workers stay
\* what they are.
LEMMA ActiveReconciled ==
    ASSUME NEW r \in Runtime, NEW d \in Revision, NEW j, NEW h \in BOOLEAN, Linked(r),
           Concerns(r, d), closing = "no", r.active # None,
           NEW p \in ReconcileActive(r, d, j, h)
    PROVE  /\ p.r \in Runtime /\ Linked(p.r) /\ p.faults \in Nat /\ p.ok \in BOOLEAN
           /\ p.r.transaction = r.transaction /\ p.r.workers = r.workers /\ p.r.epoch = r.epoch
           /\ p.r.active # None /\ Twin(r.active, p.r.active) /\ Twin(r.staged, p.r.staged)
           /\ p.r.fallback = None
           /\ p.ok => /\ j = None /\ h /\ ~p.r.dirty
                      /\ p.r.cont[d.gen] = p.r.active.store /\ p.r.active.lease = p.r.active.store
                      /\ p.r.view \in {None, ViewOf(d.rev, p.r.active)}
           /\ ~p.ok => p.r.dirty /\ p.r.view = None
<1>1. r.active \in State
    BY Zenon DEF Runtime
<1>2. PICK o \in Reconcile(r, r.active, d, j, h) : p = [o EXCEPT !.r = SetActive(o.r, o.s)]
    BY Zenon DEF ReconcileActive
<1> DEFINE a == r.active
           t == SetActive(o.r, o.s)
<1>3. /\ o \in Outcome /\ Untouched(r, o.r) /\ o.r.fallback = None
      /\ o.ok => /\ j = None /\ h /\ o.s = RecordLeases(a)
                 /\ ~o.r.dirty /\ o.r.cont[d.gen] = a.store
                 /\ o.r.view \in {None, ViewOf(d.rev, o.s)}
      /\ ~o.ok => o.s = a /\ o.r.dirty /\ o.r.view = None
    BY <1>1, Reconciled
<1>4. /\ o.r \in Runtime /\ o.s \in State /\ o.faults \in Nat /\ o.ok \in BOOLEAN
      /\ p.r = t /\ p.faults = o.faults /\ p.ok = o.ok
    BY <1>2, <1>3, Zenon DEF Outcome
<1>5. o.s.epoch = a.epoch /\ o.s.key = a.key /\ o.s.store = a.store /\ (o.ok => o.s.lease = a.store)
    BY <1>1, <1>3, <1>4, LeasesRecorded, Zenon
<1>6. /\ t \in Runtime /\ Unwritten(o.r, t)
      /\ t.transaction = r.transaction /\ t.workers = r.workers /\ t.epoch = r.epoch
      /\ t.view = o.r.view /\ t.fallback = o.r.fallback /\ t.active = o.s
      /\ t.staged = IF r.staged # None /\ r.staged.epoch = o.s.epoch THEN o.s ELSE r.staged
    <2>1. /\ t \in Runtime /\ Unwritten(o.r, t)
          /\ t.transaction = o.r.transaction /\ t.workers = o.r.workers /\ t.epoch = o.r.epoch
          /\ t.view = o.r.view /\ t.fallback = o.r.fallback /\ t.active = o.s
          /\ t.staged = IF o.r.staged # None /\ o.r.staged.epoch = o.s.epoch THEN o.s ELSE o.r.staged
        BY <1>4, ActiveSet
    <2> QED BY <1>3, <2>1, Zenon DEF Untouched
<1> HIDE DEF t
<1>7. o.s # None
    BY <1>4, CrowdAssumption, Zenon
<1>8. Twin(a, t.active) /\ Twin(r.staged, t.staged)
    <2>1. r.staged # None /\ r.staged.epoch = o.s.epoch => r.staged = a
        BY <1>5, Zenon DEF Linked
    <2> QED BY <1>5, <1>6, <1>7, <2>1, Zenon DEF Twin
<1>9. Linked(t)
    BY <1>5, <1>6, <1>7, Zenon DEF Linked
<1>10. o.ok => t.cont[d.gen] = a.store /\ ~t.dirty
    BY <1>3, <1>6, Zenon DEF Unwritten
<1>11. ~o.ok => t.dirty
    BY <1>3, <1>6, Zenon DEF Unwritten
<1> QED BY <1>3, <1>4, <1>5, <1>6, <1>7, <1>8, <1>9, <1>10, <1>11, Zenon

----------------------------------------------------------------------------
(* Steps that leave the clients, the container and the view alone.         *)

\* A step that leaves the states, the container and the view alone keeps what is
\* enforced and what is shown.
LEMMA SameShown ==
    ASSUME Enforced, Shown, Restaffed(c, c'), UNCHANGED <<disk, journal, healthy>>
    PROVE  Enforced' /\ Shown'
BY Zenon DEF Enforced, Shown, Accurate, Shows, Restaffed, Unwritten

\* A step that changes only the workers, or what is staged, keeps the invariant.
LEMMA SteadyGood ==
    ASSUME Good, Restaffed(c, c'), Working(c, sent)', Still(c) => Still(c'),
           UNCHANGED <<disk, journal, healthy, closing, recovering>>,
           InDoubt => sent' = sent, recovering => app'.pc = "idle", Numbered', Staging'
    PROVE  Good'
<1>1. Enforced' /\ Shown'
    BY SameShown, Zenon DEF Good
<1>2. Linked(c)'
    BY Zenon DEF Good, Linked, Restaffed
<1>3. InDoubt' <=> InDoubt
    BY Zenon DEF InDoubt, Restaffed
<1>4. Fenced'
    BY Zenon DEF Good, Fenced, Restaffed
<1>5. Keyed'
    BY <1>3, Zenon DEF Good, Keyed, Restaffed
<1>6. Retained'
    BY <1>3, Zenon DEF Good, Retained, Restaffed
<1>7. Owed'
    BY <1>3, Zenon DEF Good, Owed, Restaffed, Unwritten
<1> QED BY <1>1, <1>2, <1>4, <1>5, <1>6, <1>7, Zenon DEF Good

\* Between applies nothing is being staged.
LEMMA IdleStaging ==
    ASSUME app'.pc = "idle"
    PROVE  Staging'
<1>1. "idle" # "polled" /\ "idle" # "locked" /\ "idle" \notin {"join", "poll", "polled"}
    OBVIOUS
<1> QED BY <1>1, Zenon DEF Staging

\* Removing workers keeps what holds of the others.
LEMMA SameWorking ==
    ASSUME NEW r, NEW t, NEW S, Working(r, S), t.active = r.active, t.workers \subseteq r.workers
    PROVE  Working(t, S) /\ (Still(r) => Still(t))
BY Zenon DEF Working, Still

\* A cancelled or superseded worker returns (crowdsec.go pollLoop).
LEMMA StopsGood ==
    ASSUME TypeOK, Good, NEW w \in c.workers, PollStops(w)
    PROVE  TypeOK' /\ Good'
<1>1. c' = [c EXCEPT !.workers = c.workers \ {w}]
    BY Zenon DEF PollStops, Others
<1>2. c' \in Runtime /\ Restaffed(c, c') /\ c'.workers = c.workers \ {w}
    <2>1. c.workers \ {w} \in SUBSET Poller
        BY Zenon DEF TypeOK, Runtime
    <2> DEFINE W == c.workers \ {w}
    <2> HIDE DEF W
    <2> QED BY <1>1, <2>1, ZenonT(40) DEF TypeOK, Runtime, Restaffed, Unwritten, W
<1>3. Working(c, sent)' /\ (Still(c) => Still(c'))
    <2>1. sent' = sent /\ c'.active = c.active /\ c'.workers \subseteq c.workers
        BY <1>2, Zenon DEF PollStops, Restaffed
    <2> QED BY <2>1, SameWorking, Zenon DEF Good
<1>4. TypeOK'
    BY <1>2, Zenon DEF TypeOK, PollStops
<1>5. Numbered' /\ Staging'
    BY <1>2, <1>3, Zenon DEF Good, Numbered, Staging, PollStops, Restaffed
<1>6. recovering => app'.pc = "idle"
    BY Zenon DEF Good, Fenced, PollStops
<1> QED BY <1>2, <1>3, <1>4, <1>5, <1>6, SteadyGood, Zenon DEF PollStops

\* The expiry worker arms its timer (crowdsec.go expiryLoop).
LEMMA ExpiryArmGood ==
    ASSUME TypeOK, Good, ExpiryArm
    PROVE  TypeOK' /\ Good'
<1> DEFINE b == c.dirty \/ c.active.store # {}
<1>1. c' = [c EXCEPT !.wake = FALSE, !.timer = b] /\ b \in BOOLEAN
    BY Zenon DEF ExpiryArm
<1> HIDE DEF b
<1>2. c' \in Runtime /\ Restaffed(c, c') /\ c'.workers = c.workers
    BY <1>1, ZenonT(40) DEF TypeOK, Runtime, Restaffed, Unwritten
<1>3. Working(c, sent)' /\ (Still(c) => Still(c'))
    <2>1. sent' = sent /\ c'.active = c.active /\ c'.workers \subseteq c.workers
        BY <1>2, Zenon DEF ExpiryArm, Restaffed
    <2> QED BY <2>1, SameWorking, Zenon DEF Good
<1>4. TypeOK'
    BY <1>2, Zenon DEF TypeOK, ExpiryArm
<1>5. Numbered' /\ Staging'
    BY <1>2, <1>3, Zenon DEF Good, Numbered, Staging, ExpiryArm, Restaffed
<1>6. recovering => app'.pc = "idle"
    BY Zenon DEF Good, Fenced, ExpiryArm
<1> QED BY <1>2, <1>3, <1>4, <1>5, <1>6, SteadyGood, Zenon DEF ExpiryArm

\* The LAPI changes its decisions.
LEMMA LapiGood ==
    ASSUME TypeOK, Good, NEW b \in Ban, LapiChanges(b)
    PROVE  TypeOK' /\ Good'
<1>1. TypeOK'
    BY Zenon DEF TypeOK, LapiChanges
<1>2. UNCHANGED <<disk, journal, healthy, closing, recovering, c, app, applies, sent>>
    BY Zenon DEF LapiChanges
<1>3. Restaffed(c, c') /\ Working(c, sent)' /\ (Still(c) => Still(c'))
    BY <1>2, Zenon DEF Good, Restaffed, Unwritten
<1>4. Numbered' /\ Staging'
    BY <1>2, Zenon DEF Good, Numbered, Staging
<1>5. recovering => app'.pc = "idle"
    BY <1>2, Zenon DEF Good, Fenced
<1> QED BY <1>1, <1>2, <1>3, <1>4, <1>5, SteadyGood, Zenon

----------------------------------------------------------------------------
(* Staging.                                                                *)

\* An apply runs only when no transaction is left to recovery.
LEMMA NothingInDoubt ==
    ASSUME Good, app.pc # "idle"
    PROVE  ~recovering /\ c.transaction = 0 /\ ~InDoubt
BY Zenon DEF Good, Fenced, InDoubt

\* With no worker running there is nothing to hold of workers.
LEMMA StillWorking ==
    ASSUME NEW r, NEW S, Still(r)
    PROVE  Working(r, S)
BY Zenon DEF Still, Working

\* Between applies the writer is idle.
LEMMA IdleCall == Idle \in Call /\ Idle.pc = "idle"
BY DEF Idle, Call

\* An apply begins: stageForApply stops the poll, or is refused.
LEMMA StageGood ==
    ASSUME TypeOK, Good, NEW kind \in {"reload", "refresh"}, NEW crowd \in BOOLEAN,
           NEW key \in Key, Stage(kind, crowd, key)
    PROVE  TypeOK' /\ Good'
<1> DEFINE a == [Idle EXCEPT !.kind = kind, !.crowd = crowd, !.key = key]
<1>1. a \in Call /\ a.kind = kind /\ a.crowd = crowd /\ a.key = key
    BY IdleCall, ZenonT(40) DEF Call
<1> HIDE DEF a
<1>2. ASSUME NEW p \in {"join", "locked", "failed"}, app' = [a EXCEPT !.pc = p]
      PROVE  /\ app' \in Call /\ app'.pc = p /\ app'.kind = kind /\ app'.crowd = crowd
             /\ app'.key \in Key
    BY <1>1, <1>2, ZenonT(40) DEF Call
<1>3. /\ UNCHANGED <<recovering, disk, journal, healthy, closing, lapi, sent>>
      /\ ~recovering /\ (kind = "refresh" => crowd = disk.crowd) /\ applies' = applies + 1
      /\ applies < MaxApply
    BY Zenon DEF Stage
<1>4. \/ app' = [a EXCEPT !.pc = "failed"] /\ c' = c
      \/ app' = [a EXCEPT !.pc = "locked"] /\ c' = c /\ kind = "refresh"
      \/ app' = [a EXCEPT !.pc = "join"] /\ c' = IF c.active = None THEN c ELSE StopPoll(c, c.active)
    BY Zenon DEF Stage, a
<1>5. applies' \in 1 .. MaxApply /\ Numbered'
    <2>1. applies \in 1 .. MaxApply /\ MaxApply \in Nat /\ disk.rev \in Nat /\ disk.gen \in Nat
        BY CrowdAssumption DEF TypeOK, Revision
    <2>2. disk.rev <= applies /\ disk.gen <= applies
        BY Zenon DEF Good, Numbered
    <2>3. disk.rev < applies' /\ disk.gen < applies' /\ disk.rev <= applies' /\ disk.gen <= applies'
        BY <1>3, <2>1, <2>2
    <2>4. applies' \in 1 .. MaxApply
        BY <1>3, <2>1
    <2> QED BY <1>3, <2>3, <2>4, Zenon DEF Numbered
<1>6. ASSUME app' \in Call, app'.key \in Key, c' \in Runtime
      PROVE  TypeOK'
    BY <1>3, <1>5, <1>6, Zenon DEF TypeOK
<1>7. Restaffed(c, c) /\ c \in Runtime /\ Working(c, sent)
    BY Zenon DEF Restaffed, Unwritten, TypeOK, Good
<1>8. CASE app' = [a EXCEPT !.pc = "failed"] /\ c' = c
    <2>1. app' \in Call /\ app'.pc = "failed" /\ app'.kind = kind /\ app'.crowd = crowd /\ app'.key \in Key
        BY <1>2, <1>8
    <2>2. "failed" \notin {"join", "poll", "polled", "locked"}
        OBVIOUS
    <2>3. Staging'
        BY <1>3, <2>1, <2>2, Zenon DEF Staging
    <2> QED BY <1>3, <1>5, <1>6, <1>7, <1>8, <2>1, <2>3, SteadyGood, Zenon
<1>9. CASE app' = [a EXCEPT !.pc = "locked"] /\ c' = c /\ kind = "refresh"
    <2>1. app' \in Call /\ app'.pc = "locked" /\ app'.kind = kind /\ app'.crowd = crowd /\ app'.key \in Key
        BY <1>2, <1>9
    <2>2. "locked" \notin {"join", "poll", "polled"} /\ "refresh" # "reload"
        OBVIOUS
    <2>3. Staging'
        BY <1>3, <1>9, <2>1, <2>2, Zenon DEF Staging
    <2> QED BY <1>3, <1>5, <1>6, <1>7, <1>9, <2>1, <2>3, SteadyGood, Zenon
<1>10. CASE app' = [a EXCEPT !.pc = "join"] /\ c' = IF c.active = None THEN c ELSE StopPoll(c, c.active)
    <2>1. app' \in Call /\ app'.pc = "join" /\ app'.kind = kind /\ app'.crowd = crowd /\ app'.key \in Key
        BY <1>2, <1>10
    <2>2. c' \in Runtime /\ Restaffed(c, c') /\ Still(c')
        <3>1. CASE c.active = None
            BY <1>7, <1>10, <3>1, Zenon DEF Working, Still
        <3>2. CASE c.active # None
            <4>1. c.active \in State
                BY <1>7, <3>2, Zenon DEF Runtime
            <4> QED BY <1>7, <1>10, <3>2, <4>1, PollStopped, StopsAll, Zenon
        <3> QED BY <3>1, <3>2, Zenon
    <2>3. Working(c, sent)'
        BY <2>2, StillWorking, Zenon
    <2>4. "join" \notin {"polled", "locked"}
        OBVIOUS
    <2>5. Staging'
        BY <1>3, <2>1, <2>2, <2>4, Zenon DEF Staging
    <2> QED BY <1>3, <1>5, <1>6, <2>1, <2>2, <2>3, <2>5, SteadyGood, Zenon
<1> QED BY <1>4, <1>8, <1>9, <1>10, Zenon

\* The writer opens or closes a client that it stages, and nothing else.
LEMMA ReopenedGood ==
    ASSUME TypeOK, Good, app.pc # "idle", Still(c), NEW n \in SUBSET (1 .. MaxApply),
           c' = [c EXCEPT !.open = n],
           app' \in Call, app'.pc # "idle", app'.kind = app.kind, app'.crowd = app.crowd,
           app'.key = app.key, sent' \in [Key -> SUBSET Ban],
           UNCHANGED <<recovering, disk, journal, healthy, closing, applies, lapi>>,
           app'.pc = "polled" => app'.store = sent'[app.key],
           app'.pc = "locked" => ~app.crowd
    PROVE  TypeOK' /\ Good'
<1>1. c' \in Runtime /\ Restaffed(c, c') /\ c'.workers = c.workers
    BY ZenonT(40) DEF TypeOK, Runtime, Restaffed, Unwritten
<1>2. Still(c') /\ Working(c, sent)'
    <2>1. Still(c')
        BY <1>1, Zenon DEF Still
    <2> QED BY <2>1, StillWorking, Zenon
<1>3. TypeOK'
    BY <1>1, Zenon DEF TypeOK
<1>4. Numbered'
    BY Zenon DEF Good, Numbered
<1>5. Staging'
    BY <1>2, Zenon DEF Good, Staging
<1> QED BY <1>1, <1>2, <1>3, <1>4, <1>5, NothingInDoubt, SteadyGood, Zenon

\* The stopped worker has returned and the new client is created (stageForApply).
LEMMA JoinGood ==
    ASSUME TypeOK, Good, Join
    PROVE  TypeOK' /\ Good'
<1>1. "join" # "idle" /\ "locked" # "idle" /\ "poll" # "idle" /\ "failed" # "idle"
      /\ "locked" # "polled" /\ "poll" # "polled" /\ "failed" # "polled"
      /\ "poll" # "locked" /\ "failed" # "locked"
    OBVIOUS
<1>2. /\ app.pc = "join" /\ Still(c) /\ app \in Call
      /\ UNCHANGED <<recovering, disk, journal, healthy, closing, applies, lapi, sent>>
    BY Zenon DEF Join, Good, Staging, TypeOK
<1>3. PICK p \in {"locked", "poll", "failed"} :
          app' = [app EXCEPT !.pc = p] /\ (p = "locked" => ~app.crowd)
    BY <1>1, Zenon DEF Join
<1>4. /\ app' \in Call /\ app'.pc = p /\ app'.kind = app.kind /\ app'.crowd = app.crowd
      /\ app'.key = app.key
    BY <1>2, <1>3, ZenonT(40) DEF Call
<1>5. PICK n \in SUBSET (1 .. MaxApply) : c' = [c EXCEPT !.open = n]
    <2>1. c.open \in SUBSET (1 .. MaxApply) /\ c = [c EXCEPT !.open = c.open]
        BY DEF TypeOK, Runtime
    <2>2. c.open \cup {applies} \in SUBSET (1 .. MaxApply)
        BY <2>1 DEF TypeOK
    <2> QED BY <2>1, <2>2, Zenon DEF Join
<1>6. sent' \in [Key -> SUBSET Ban]
    BY <1>2, Zenon DEF TypeOK
<1> QED BY <1>1, <1>2, <1>3, <1>4, <1>5, <1>6, ReopenedGood, Zenon

\* The startup poll is answered, or its answer is lost (stageForApply).
LEMMA StagePollGood ==
    ASSUME TypeOK, Good, StagePoll
    PROVE  TypeOK' /\ Good'
<1>1. "poll" # "idle" /\ "polled" # "idle" /\ "failed" # "idle"
      /\ "failed" # "polled" /\ "polled" # "locked" /\ "failed" # "locked"
    OBVIOUS
<1>2. /\ app.pc = "poll" /\ Still(c) /\ app \in Call
      /\ UNCHANGED <<recovering, disk, journal, healthy, closing, applies, lapi>>
    BY Zenon DEF StagePoll, Good, Staging, TypeOK
<1>3. /\ app.key \in Key /\ lapi \in SUBSET Ban /\ sent \in [Key -> SUBSET Ban]
    BY <1>1, <1>2, Zenon DEF TypeOK
<1>4. /\ [sent EXCEPT ![app.key] = lapi] \in [Key -> SUBSET Ban]
      /\ [sent EXCEPT ![app.key] = lapi][app.key] = lapi
    BY <1>3
<1>5. CASE /\ app' = [app EXCEPT !.pc = "polled", !.store = lapi] /\ c' = c
           /\ sent' = [sent EXCEPT ![app.key] = lapi]
    <2>1. /\ app' \in Call /\ app'.pc = "polled" /\ app'.kind = app.kind /\ app'.crowd = app.crowd
          /\ app'.key = app.key /\ app'.store = lapi
        BY <1>2, <1>3, <1>5, ZenonT(40) DEF Call
    <2>2. c.open \in SUBSET (1 .. MaxApply) /\ c = [c EXCEPT !.open = c.open]
        BY DEF TypeOK, Runtime
    <2> QED BY <1>1, <1>2, <1>4, <1>5, <2>1, <2>2, ReopenedGood, Zenon
<1>6. CASE /\ sent' \in {sent, [sent EXCEPT ![app.key] = lapi]}
           /\ app' = [app EXCEPT !.pc = "failed"] /\ c' = [c EXCEPT !.open = @ \ {applies}]
    <2>1. /\ app' \in Call /\ app'.pc = "failed" /\ app'.kind = app.kind /\ app'.crowd = app.crowd
          /\ app'.key = app.key
        BY <1>2, <1>6, ZenonT(40) DEF Call
    <2>2. c.open \ {applies} \in SUBSET (1 .. MaxApply) /\ c' = [c EXCEPT !.open = c.open \ {applies}]
        BY <1>6, Zenon DEF TypeOK, Runtime
    <2>3. sent' \in [Key -> SUBSET Ban]
        BY <1>3, <1>4, <1>6, Zenon
    <2> QED BY <1>1, <1>2, <2>1, <2>2, <2>3, ReopenedGood, Zenon
<1> QED BY <1>5, <1>6, Zenon DEF StagePoll

\* The polled client becomes the staged state (stageForApply).
LEMMA StageDoneGood ==
    ASSUME TypeOK, Good, StageDone
    PROVE  TypeOK' /\ Good'
<1>1. "polled" # "idle" /\ "locked" # "idle" /\ "failed" # "idle"
      /\ "failed" # "polled" /\ "failed" # "locked" /\ "locked" \notin {"join", "poll", "polled"}
    OBVIOUS
<1>2. /\ app.pc = "polled" /\ Still(c) /\ app \in Call /\ c \in Runtime
      /\ UNCHANGED <<recovering, disk, journal, healthy, closing, applies, lapi, sent>>
    BY Zenon DEF StageDone, Good, Staging, TypeOK
<1>3. /\ app.key \in Key /\ app.store \in SUBSET Ban /\ applies \in 1 .. MaxApply
      /\ c.epoch \in Nat /\ sent \in [Key -> SUBSET Ban] /\ app.store = sent[app.key]
    BY <1>1, <1>2, Zenon DEF TypeOK, Call, Runtime, Good, Staging
<1>4. CASE app' = [app EXCEPT !.pc = "failed"] /\ c' = [c EXCEPT !.open = @ \ {applies}]
    <2>1. /\ app' \in Call /\ app'.pc = "failed" /\ app'.kind = app.kind /\ app'.crowd = app.crowd
          /\ app'.key = app.key
        BY <1>2, <1>4, ZenonT(40) DEF Call
    <2>2. c.open \ {applies} \in SUBSET (1 .. MaxApply) /\ c' = [c EXCEPT !.open = c.open \ {applies}]
        BY <1>4, Zenon DEF TypeOK, Runtime
    <2> QED BY <1>1, <1>2, <1>3, <2>1, <2>2, ReopenedGood, Zenon
<1> DEFINE s == [epoch |-> c.epoch + 1, client |-> applies, key |-> app.key,
                 store |-> app.store, lease |-> {}]
<1>5. CASE app' = [app EXCEPT !.pc = "locked"] /\ c' = [c EXCEPT !.epoch = @ + 1, !.staged = s]
    <2>1. /\ app' \in Call /\ app'.pc = "locked" /\ app'.kind = app.kind /\ app'.crowd = app.crowd
          /\ app'.key = app.key
        BY <1>2, <1>5, ZenonT(40) DEF Call
    <2>2. c.epoch + 1 \in Nat
        BY <1>3
    <2>3. s \in State /\ s.epoch = c.epoch + 1 /\ s.key = app.key /\ s.store = app.store
        BY <1>3, <2>2, Zenon DEF State
    <2>4. s # None
        BY <2>3, CrowdAssumption, Zenon
    <2> HIDE DEF s
    <2>5. /\ c' \in Runtime /\ c'.staged = s /\ c'.epoch = c.epoch + 1
          /\ c'.active = c.active /\ c'.workers = c.workers /\ c'.transaction = c.transaction
          /\ Unwritten(c, c') /\ c'.view = c.view /\ c'.fallback = c.fallback
        BY <1>2, <1>5, <2>2, <2>3, ZenonT(40) DEF Runtime, Unwritten
    <2>6. TypeOK'
        BY <1>2, <1>3, <2>1, <2>5, Zenon DEF TypeOK
    <2>7. Still(c')
        BY <1>2, <2>5, Zenon DEF Still
    <2>8. Linked(c)'
        <3>1. c.active # None => c.active.epoch \in Nat /\ c.active.epoch <= c.epoch
            BY <1>2, Zenon DEF Good, Linked, Runtime, State
        <3>2. c.active # None => c.active.epoch <= c.epoch + 1 /\ c.active.epoch # c.epoch + 1
            BY <1>3, <3>1
        <3>3. c.epoch + 1 <= c.epoch + 1
            BY <1>3
        <3> QED BY <2>3, <2>4, <2>5, <3>2, <3>3, Zenon DEF Linked
    <2>9. Working(c, sent)'
        BY <2>7, StillWorking, Zenon
    <2>10. ~InDoubt /\ ~InDoubt' /\ c.transaction = 0
        BY <1>1, <1>2, <2>5, NothingInDoubt, Zenon DEF InDoubt
    <2>11. Numbered' /\ Keyed' /\ Retained' /\ Owed'
        BY <1>1, <1>2, <2>5, <2>10, Zenon
        DEF Good, Numbered, Keyed, Retained, Owed, Unwritten
    <2>12. Fenced'
        BY <1>1, <1>2, <2>5, <2>7, <2>10, NothingInDoubt, Zenon DEF Good, Fenced
    <2>13. Staging'
        BY <1>1, <1>2, <1>3, <2>1, <2>3, <2>4, <2>5, <2>7, Zenon DEF Good, Staging
    <2>14. Enforced' /\ Shown'
        BY <1>2, <2>5, Zenon DEF Good, Enforced, Shown, Accurate, Shows, Unwritten
    <2> QED BY <2>6, <2>8, <2>9, <2>11, <2>12, <2>13, <2>14, Zenon DEF Good
<1> QED BY <1>4, <1>5, Zenon DEF StageDone

----------------------------------------------------------------------------
(* Shutdown.                                                               *)

\* Engine.Close announces itself and cancels every worker.
LEMMA CloseBeginsGood ==
    ASSUME TypeOK, Good, CloseBegins
    PROVE  TypeOK' /\ Good'
<1> DEFINE f(w) == [w EXCEPT !.live = FALSE]
           W == {f(w) : w \in c.workers}
<1>1. ASSUME NEW w \in Poller
      PROVE  f(w) \in Poller /\ ~f(w).live
    BY ZenonT(40) DEF Poller
<1> HIDE DEF f
<1>2. W \in SUBSET Poller /\ \A w \in W : ~w.live
    <2>1. c.workers \subseteq Poller
        BY Zenon DEF TypeOK, Runtime
    <2> QED BY <1>1, <2>1
<1>3. c' = [c EXCEPT !.workers = W]
    BY Zenon DEF CloseBegins, f
<1> HIDE DEF W
<1>4. c' \in Runtime /\ Restaffed(c, c') /\ c'.workers = W
    BY <1>2, <1>3, ZenonT(40) DEF TypeOK, Runtime, Restaffed, Unwritten
<1>5. Still(c') /\ Working(c, sent)'
    <2>1. Still(c')
        BY <1>2, <1>4, Zenon DEF Still
    <2> QED BY <2>1, StillWorking, Zenon
<1>6. /\ UNCHANGED <<recovering, disk, journal, healthy, app, applies, lapi, sent>>
      /\ closing = "no" /\ closing' = "flag" /\ "flag" # "no"
    BY DEF CloseBegins
<1>7. TypeOK'
    BY <1>4, <1>6, Zenon DEF TypeOK
<1>8. Enforced' /\ Shown'
    BY <1>4, <1>6, SameShown, Zenon DEF Good
<1>9. Linked(c)' /\ (InDoubt' <=> InDoubt)
    BY <1>4, <1>6, Zenon DEF Good, Linked, Restaffed, InDoubt
<1>10. Numbered' /\ Fenced' /\ Keyed' /\ Retained' /\ Owed'
    BY <1>4, <1>5, <1>6, <1>9, Zenon
    DEF Good, Numbered, Fenced, Keyed, Retained, Owed, Restaffed
<1>11. Staging'
    BY <1>4, <1>5, <1>6, Zenon DEF Good, Staging, Restaffed
<1> QED BY <1>5, <1>7, <1>8, <1>9, <1>10, <1>11, Zenon DEF Good

\* Engine.Close drops the states and the view.
LEMMA CloseEndsGood ==
    ASSUME TypeOK, Good, CloseEnds
    PROVE  TypeOK' /\ Good'
<1> DEFINE a == AbortLookup(c)
           n == a.open \ {s.client : s \in {c.active, c.staged} \ {None}}
<1>1. /\ UNCHANGED <<recovering, disk, journal, app, applies, lapi, sent>>
      /\ closing = "flag" /\ closing' = "done" /\ "flag" # "no" /\ "done" # "no"
      /\ healthy' = FALSE /\ app.pc = "idle"
      /\ c' = [a EXCEPT !.connected = FALSE, !.active = None, !.staged = None, !.open = n]
    BY DEF CloseEnds
<1>2. /\ a \in Runtime /\ Untouched(c, a) /\ Unwritten(c, a) /\ a.view = None /\ a.fallback = None
    BY Aborted, Zenon DEF TypeOK
<1> HIDE DEF a
<1>3. n \in SUBSET (1 .. MaxApply)
    BY <1>2, Zenon DEF Runtime
<1> HIDE DEF n
<1>4. /\ c' \in Runtime /\ c'.active = None /\ c'.staged = None /\ c'.transaction = a.transaction
      /\ c'.workers = a.workers /\ c'.view = None /\ c'.fallback = None
    BY <1>1, <1>2, <1>3, ZenonT(40) DEF Runtime
<1>5. Still(c') /\ c'.transaction = c.transaction
    BY <1>1, <1>2, <1>4, Zenon DEF Good, Fenced, Still, Untouched
<1>6. TypeOK'
    BY <1>1, <1>4, Zenon DEF TypeOK
<1>7. Linked(c)' /\ Working(c, sent)' /\ Keyed' /\ Retained' /\ Owed' /\ Enforced'
    BY <1>1, <1>4, <1>5, StillWorking, Zenon DEF Linked, Keyed, Retained, Owed, Enforced, Accurate
<1>8. Shown' /\ Numbered' /\ Fenced'
    BY <1>1, <1>4, <1>5, Zenon DEF Good, Shown, Shows, Numbered, Fenced
<1>9. Staging'
    BY <1>1, IdleStaging, Zenon
<1> QED BY <1>6, <1>7, <1>8, <1>9, Zenon DEF Good

----------------------------------------------------------------------------
(* Polls.                                                                  *)

\* Only one poll runs: the others were stopped.
LEMMA SoleWorker ==
    ASSUME NEW r, NEW S, NEW w \in r.workers, w.live, Working(r, S),
           NEW t, NEW T, NEW v, t.workers = (r.workers \ {w}) \cup {v},
           t.active # None, v.epoch = t.active.epoch, v.key = t.active.key,
           Fed(v, t.active.store, T)
    PROVE  Working(t, T)
<1>1. \A u \in t.workers : u.live => u = v
    BY Zenon DEF Working
<1> QED BY <1>1, Zenon DEF Working

\* A running poll belongs to the active state.
LEMMA PollerActive ==
    ASSUME TypeOK, Good, NEW w \in c.workers, w.live
    PROVE  /\ w \in Poller /\ c.active \in State /\ c.active # None /\ ~Still(c)
           /\ w.epoch = c.active.epoch /\ w.key = c.active.key /\ w.key \in Key
           /\ Fed(w, c.active.store, sent)
<1>1. w \in Poller /\ c.active \in State \cup {None}
    BY Zenon DEF TypeOK, Runtime
<1>2. c.active # None /\ w.epoch = c.active.epoch /\ w.key = c.active.key /\ Fed(w, c.active.store, sent)
    BY Zenon DEF Good, Working
<1>3. w.key \in Key
    BY <1>1, Zenon DEF Poller
<1> QED BY <1>1, <1>2, <1>3, Zenon DEF Still

\* What a step of the running poll has to keep.
LEMMA PollGood ==
    ASSUME Good, closing = "no", ~Still(c), c.active # None,
           c'.active # None, c'.active.key = c.active.key, c'.transaction = c.transaction,
           c'.active.epoch = c.active.epoch \/ healthy,
           c.staged = None => c'.staged = None,
           c.staged # None => /\ c'.staged # None /\ c'.staged.key = c.staged.key
                              /\ c'.staged.epoch = c.staged.epoch,
           Linked(c)', Working(c, sent)', Enforced', Shown',
           UNCHANGED <<disk, journal, healthy, closing, app, applies, recovering>>
    PROVE  Good'
<1>1. InDoubt' <=> InDoubt
    BY Zenon DEF InDoubt
<1>2. Numbered' /\ Fenced' /\ Keyed'
    BY <1>1, Zenon DEF Good, Numbered, Fenced, Keyed
<1>3. Retained'
    <2>1. CASE healthy
        BY <1>1, <2>1, Zenon DEF Good, Fenced, InDoubt, Retained
    <2>2. CASE ~healthy
        BY <1>1, <2>2, Zenon DEF Good, Retained
    <2> QED BY <2>1, <2>2
<1>4. Owed' /\ Staging'
    BY Zenon DEF Good, Owed, Staging
<1> QED BY <1>2, <1>3, <1>4, Zenon DEF Good

\* A poll asks, is answered, or goes on: the worker alone changes.
LEMMA WorkerGood ==
    ASSUME TypeOK, Good, NEW w \in c.workers, w.live, closing = "no",
           NEW v \in Poller, NEW b \in BOOLEAN,
           c' = [c EXCEPT !.connected = b, !.workers = (c.workers \ {w}) \cup {v}],
           v.epoch = w.epoch, v.key = w.key,
           sent' \in [Key -> SUBSET Ban], Fed(v, c.active.store, sent'),
           UNCHANGED <<recovering, disk, journal, healthy, closing, app, applies, lapi>>
    PROVE  TypeOK' /\ Good'
<1> DEFINE W == (c.workers \ {w}) \cup {v}
<1>1. W \in SUBSET Poller /\ c \in Runtime
    BY Zenon DEF TypeOK, Runtime
<1> HIDE DEF W
<1>2. c' \in Runtime /\ Restaffed(c, c') /\ c'.workers = W
    BY <1>1, ZenonT(40) DEF Runtime, Restaffed, Unwritten, W
<1>3. TypeOK'
    BY <1>2, Zenon DEF TypeOK
<1>4. /\ c.active # None /\ ~Still(c) /\ w.epoch = c.active.epoch /\ w.key = c.active.key
    BY PollerActive, Zenon
<1>5. c'.active = c.active /\ c'.staged = c.staged /\ c'.transaction = c.transaction /\ c'.epoch = c.epoch
    BY <1>2, Zenon DEF Restaffed
<1>6. Working(c, sent)'
    <2>1. Working(c, sent) /\ c'.workers = (c.workers \ {w}) \cup {v} /\ c'.active # None
          /\ v.epoch = c'.active.epoch /\ v.key = c'.active.key /\ Fed(v, c'.active.store, sent')
        BY <1>2, <1>4, <1>5, Zenon DEF Good, W
    <2> QED BY <2>1, SoleWorker, Zenon
<1>7. Linked(c)'
    BY <1>5, Zenon DEF Good, Linked
<1>8. Enforced' /\ Shown'
    BY <1>2, SameShown, Zenon DEF Good
<1> QED BY <1>3, <1>4, <1>5, <1>6, <1>7, <1>8, PollGood, Zenon

\* A worker asks, and is answered or not (crowdsec.go pollLoop).
LEMMA PollerGood ==
    ASSUME TypeOK, Good, NEW w \in c.workers, Poll(w) \/ PollClosed(w)
    PROVE  TypeOK' /\ Good'
<1>1. /\ w.live /\ closing = "no" /\ w.phase = "wait" /\ "wait" # "done"
      /\ UNCHANGED <<recovering, disk, journal, healthy, closing, app, applies, lapi>>
    BY DEF Poll, PollClosed, Current
<1>2. /\ w \in Poller /\ c.active \in State /\ w.key = c.active.key /\ w.key \in Key
      /\ Fed(w, c.active.store, sent) /\ w.full \in BOOLEAN
    BY <1>1, PollerActive, Zenon DEF Poller
<1>3. /\ c \in Runtime /\ lapi \in SUBSET Ban /\ sent \in [Key -> SUBSET Ban]
    BY Zenon DEF TypeOK
<1>4. /\ [sent EXCEPT ![w.key] = lapi] \in [Key -> SUBSET Ban]
      /\ [sent EXCEPT ![w.key] = lapi][w.key] = lapi
    BY <1>2, <1>3
<1>5. c.connected \in BOOLEAN /\ c = [c EXCEPT !.connected = c.connected]
    BY <1>3 DEF Runtime
<1>6. ASSUME NEW v \in Poller, v.epoch = w.epoch, v.key = w.key,
             c' = [c EXCEPT !.workers = Others(w) \cup {v}],
             sent' \in [Key -> SUBSET Ban], Fed(v, c.active.store, sent')
      PROVE  TypeOK' /\ Good'
    <2>1. c' = [c EXCEPT !.connected = c.connected, !.workers = (c.workers \ {w}) \cup {v}]
        BY <1>5, <1>6, Zenon DEF Others
    <2> QED BY <1>1, <1>5, <1>6, <2>1, WorkerGood, Zenon
\* The answer is lost, or the client was closed.
<1>7. CASE /\ sent' \in {sent, [sent EXCEPT ![w.key] = lapi]}
           /\ c' = [c EXCEPT !.workers = Others(w) \cup {[w EXCEPT !.phase = "done"]}]
    <2> DEFINE v == [w EXCEPT !.phase = "done"]
    <2>1. v \in Poller /\ v.epoch = w.epoch /\ v.key = w.key /\ v.phase = "done" /\ v.batch = w.batch
        BY <1>2, ZenonT(40) DEF Poller
    <2> HIDE DEF v
    <2>2. v.batch = None
        BY <1>1, <1>2, <2>1, Zenon DEF Fed
    <2>3. Fed(v, c.active.store, sent')
        BY <1>1, <2>1, <2>2, Zenon DEF Fed
    <2>4. sent' \in [Key -> SUBSET Ban]
        BY <1>3, <1>4, <1>7, Zenon
    <2> QED BY <1>6, <1>7, <2>1, <2>3, <2>4, Zenon DEF v
<1> DEFINE full == [new |-> lapi, deleted |-> {}]
           part == [new |-> lapi \ sent[w.key], deleted |-> sent[w.key] \ lapi]
           b == IF w.full THEN full ELSE part
<1>8. CASE /\ sent' = [sent EXCEPT ![w.key] = lapi]
           /\ c' = [c EXCEPT !.workers = Others(w) \cup {[w EXCEPT !.phase = "done", !.batch = b]}]
    <2>1. full \in Batch /\ part \in Batch
        BY <1>2, <1>3 DEF Batch
    <2>2. b \in Batch
        BY <2>1, Zenon
    <2>3. sent'[w.key] = IF w.full THEN b.new ELSE (c.active.store \ b.deleted) \cup b.new
        <3>1. CASE w.full
            BY <1>4, <1>8, <3>1, Zenon
        <3>2. CASE ~w.full
            <4>1. c.active.store = sent[w.key]
                BY <1>1, <1>2, <3>2, Zenon DEF Fed
            <4>2. b.new = lapi \ sent[w.key] /\ b.deleted = sent[w.key] \ lapi
                BY <3>2, Zenon
            <4> HIDE DEF b
            <4>3. lapi = (c.active.store \ b.deleted) \cup b.new
                BY <4>1, <4>2
            <4> QED BY <1>4, <1>8, <3>2, <4>3, Zenon
        <3> QED BY <3>1, <3>2
    <2> HIDE DEF b
    <2> DEFINE v == [w EXCEPT !.phase = "done", !.batch = b]
    <2>4. /\ v \in Poller /\ v.epoch = w.epoch /\ v.key = w.key /\ v.phase = "done" /\ v.batch = b
          /\ v.full = w.full
        BY <1>2, <2>2, ZenonT(40) DEF Poller
    <2> HIDE DEF v
    <2>5. Fed(v, c.active.store, sent')
        BY <1>1, <2>3, <2>4, Zenon DEF Fed
    <2> QED BY <1>4, <1>6, <1>8, <2>4, <2>5, Zenon DEF v
<1>9. CASE Poll(w)
    BY <1>7, <1>8, <1>9, Zenon DEF Poll
<1>10. CASE PollClosed(w)
    BY <1>7, <1>10, Zenon DEF PollClosed
<1> QED BY <1>9, <1>10

\* The worker, waiting again.
Waits(w, full) == [w EXCEPT !.phase = "wait", !.batch = None, !.full = full]

\* A worker that goes on waits again, and only it changes.
LEMMA Continued ==
    ASSUME NEW r \in Runtime, NEW w \in Poller, NEW full \in BOOLEAN
    PROVE  LET v == Waits(w, full)
               t == Continues(w, r, full)
           IN  /\ v \in Poller /\ v.epoch = w.epoch /\ v.key = w.key /\ v.live = w.live
               /\ v.phase = "wait" /\ v.batch = None /\ v.full = full
               /\ t \in Runtime /\ Restaffed(r, t) /\ t.workers = (r.workers \ {w}) \cup {v}
<1> DEFINE v == Waits(w, full)
<1>1. /\ v \in Poller /\ v.epoch = w.epoch /\ v.key = w.key /\ v.live = w.live
      /\ v.phase = "wait" /\ v.batch = None /\ v.full = full
    BY ZenonT(40) DEF Poller, Waits
<1> DEFINE W == (r.workers \ {w}) \cup {v}
<1>2. Continues(w, r, full) = [r EXCEPT !.workers = W]
    BY Zenon DEF Continues, Runtime, Waits
<1> HIDE DEF v
<1>3. W \in SUBSET Poller
    BY <1>1, Zenon DEF Runtime
<1> HIDE DEF W
<1>4. /\ Continues(w, r, full) \in Runtime /\ Restaffed(r, Continues(w, r, full))
      /\ Continues(w, r, full).workers = W
    BY <1>2, <1>3, ZenonT(40) DEF Runtime, Restaffed, Unwritten
<1> QED BY <1>1, <1>4, Zenon DEF v, W

\* A write keeps the clients' identities.
Carries(r, t) ==
    /\ t.workers = r.workers /\ t.epoch = r.epoch /\ t.transaction = r.transaction
    /\ t.active # None /\ t.active.epoch = r.active.epoch /\ t.active.key = r.active.key
    /\ r.staged = None => t.staged = None
    /\ r.staged # None => /\ t.staged # None /\ t.staged.key = r.staged.key
                          /\ t.staged.epoch = r.staged.epoch

\* The worker goes on after what was written or not.
LEMMA ContinuesGood ==
    ASSUME TypeOK, Good, NEW w \in c.workers, w.live, closing = "no",
           NEW r \in Runtime, Carries(c, r), Linked(r), Accurate(r, disk, healthy),
           Shows(r, disk, journal, healthy),
           NEW full \in BOOLEAN, full \/ r.active.store = sent[w.key],
           c' = Continues(w, r, full),
           UNCHANGED <<recovering, disk, journal, healthy, closing, app, applies, lapi, sent>>
    PROVE  TypeOK' /\ Good'
<1>1. /\ w \in Poller /\ c.active # None /\ ~Still(c) /\ w.epoch = c.active.epoch
      /\ w.key = c.active.key
    BY PollerActive, Zenon
<1> DEFINE v == Waits(w, full)
<1>2. /\ v \in Poller /\ v.epoch = w.epoch /\ v.key = w.key /\ v.phase = "wait" /\ v.batch = None
      /\ v.full = full /\ c' \in Runtime /\ Restaffed(r, c') /\ c'.workers = (r.workers \ {w}) \cup {v}
    <2> DEFINE t == Continues(w, r, full)
    <2>1. /\ v \in Poller /\ v.epoch = w.epoch /\ v.key = w.key /\ v.phase = "wait" /\ v.batch = None
          /\ v.full = full /\ t \in Runtime /\ Restaffed(r, t) /\ t.workers = (r.workers \ {w}) \cup {v}
        BY <1>1, Continued
    <2> QED BY <2>1, Zenon
<1> HIDE DEF v
<1>3. TypeOK'
    BY <1>2, Zenon DEF TypeOK
<1>4. /\ c'.active = r.active /\ c'.staged = r.staged /\ c'.transaction = c.transaction
      /\ c'.epoch = r.epoch /\ r.workers = c.workers
    BY <1>2, Zenon DEF Restaffed, Carries
<1>5. Working(c, sent)'
    <2>1. Fed(v, r.active.store, sent)
        <3>1. "wait" # "done"
            OBVIOUS
        <3> QED BY <1>2, <3>1, Zenon DEF Fed
    <2>2. Working(c, sent) /\ c'.workers = (c.workers \ {w}) \cup {v} /\ c'.active # None
          /\ v.epoch = c'.active.epoch /\ v.key = c'.active.key /\ Fed(v, c'.active.store, sent')
        BY <1>1, <1>2, <1>4, <2>1, Zenon DEF Good, Carries
    <2> QED BY <2>2, SoleWorker, Zenon
<1>6. Linked(c)'
    BY <1>4, Zenon DEF Linked
<1>7. Enforced'
    BY <1>2, Zenon DEF Enforced, Accurate, Restaffed, Unwritten
<1>8. Shown'
    BY <1>2, Zenon DEF Shown, Shows, Restaffed, Unwritten
<1> QED BY <1>1, <1>3, <1>4, <1>5, <1>6, <1>7, <1>8, PollGood, Zenon DEF Carries

\* After an error the worker asks again, in full.
LEMMA DisconnectedGood ==
    ASSUME TypeOK, Good, NEW w \in c.workers, w.live, closing = "no",
           c' = Continues(w, [c EXCEPT !.connected = FALSE], TRUE),
           UNCHANGED <<recovering, disk, journal, healthy, closing, app, applies, lapi, sent>>
    PROVE  TypeOK' /\ Good'
<1> DEFINE r == [c EXCEPT !.connected = FALSE]
<1>1. r \in Runtime /\ Untouched(c, r) /\ Unwritten(c, r) /\ r.view = c.view /\ r.fallback = c.fallback
    BY ZenonT(40) DEF TypeOK, Runtime, Untouched, Unwritten
<1> HIDE DEF r
<1>2. c.active # None /\ c' = Continues(w, r, TRUE)
    BY PollerActive, Zenon DEF r
<1>3. Carries(c, r) /\ Linked(r)
    BY <1>1, <1>2, Zenon DEF Carries, Good, Linked, Untouched
<1>4. Accurate(r, disk, healthy)
    BY <1>1, Zenon DEF Good, Enforced, Accurate, Untouched, Unwritten
<1>5. Shows(r, disk, journal, healthy)
    BY <1>1, Zenon DEF Good, Shown, Shows, Untouched, Unwritten
<1> QED BY <1>1, <1>2, <1>3, <1>4, <1>5, ContinuesGood, Zenon

\* A poll failed: the worker asks in full next.
LEMMA PollFailedGood ==
    ASSUME TypeOK, Good, NEW w \in c.workers, PollFailed(w)
    PROVE  TypeOK' /\ Good'
<1>1. /\ w.live /\ closing = "no" /\ c' = Continues(w, [c EXCEPT !.connected = FALSE], TRUE)
      /\ UNCHANGED <<recovering, disk, journal, healthy, closing, app, applies, lapi, sent>>
    BY Zenon DEF PollFailed, Receives, Current
<1> QED BY <1>1, DisconnectedGood, Zenon

\* What is written, acknowledged and published is enforced and shown.
LEMMA WrittenShows ==
    ASSUME NEW r \in Runtime, NEW d \in Revision, NEW j, NEW h \in BOOLEAN,
           h, j = None, d.crowd, ~r.dirty, r.active # None, r.fallback = None,
           r.cont[d.gen] = r.active.store, r.active.lease = r.active.store,
           r.view \in {None, ViewOf(d.rev, r.active)}
    PROVE  Accurate(r, d, h) /\ Shows(r, d, j, h)
<1> DEFINE v == ViewOf(d.rev, r.active)
<1>1. d.rev \in 0 .. MaxApply /\ r.active \in State \cup {None}
    BY Zenon DEF Revision, Runtime
<1>2. v.rev = d.rev /\ v.epoch = r.active.epoch /\ v.dyn = r.active.lease
    BY <1>1, ViewShape, Zenon
<1> HIDE DEF v
<1>3. r.view \in {None, v}
    BY Zenon DEF v
<1>4. Accurate(r, d, h)
    BY Zenon DEF Accurate
<1>5. Shows(r, d, j, h)
    BY <1>2, <1>3, Zenon DEF Shows
<1> QED BY <1>4, <1>5, Zenon

\* A written projection is enforced and shown.
LEMMA ReconciledShows ==
    ASSUME NEW r \in Runtime, NEW d \in Revision, NEW j, NEW h \in BOOLEAN, Linked(r),
           Concerns(r, d), closing = "no", r.active # None, h => d.crowd,
           NEW p \in ReconcileActive(r, d, j, h)
    PROVE  Accurate(p.r, d, h) /\ Shows(p.r, d, j, h)
<1>1. /\ p.r \in Runtime /\ p.ok \in BOOLEAN /\ p.r.active # None /\ p.r.fallback = None
      /\ p.ok => /\ j = None /\ h /\ ~p.r.dirty
                 /\ p.r.cont[d.gen] = p.r.active.store /\ p.r.active.lease = p.r.active.store
                 /\ p.r.view \in {None, ViewOf(d.rev, p.r.active)}
      /\ ~p.ok => p.r.dirty /\ p.r.view = None
    BY ActiveReconciled
<1>2. CASE ~p.ok
    BY <1>1, <1>2, Zenon DEF Accurate, Shows
<1>3. CASE p.ok
    BY <1>1, <1>3, WrittenShows, Zenon
<1> QED BY <1>2, <1>3

\* With enforcement healthy the active state is of the durable authority, and no
\* transaction is pending.
LEMMA CrowdWhenHealthy ==
    ASSUME Good, healthy, c.active # None
    PROVE  disk.crowd /\ c.active.key = disk.key /\ c.transaction = 0 /\ journal = None
BY Zenon DEF Good, Keyed, Fenced, InDoubt

\* Whatever is shown, or was before it was withdrawn, is of the durable revision.
LEMMA ShownConcerns ==
    ASSUME Good, NEW r, r.view = c.view, r.fallback = c.fallback
    PROVE  Concerns(r, disk)
BY Zenon DEF Good, Shown, Shows, Concerns

\* An increment changes the active store (crowdsec.go applyPoll).
LEMMA PollIncrementGood ==
    ASSUME TypeOK, Good, NEW w \in c.workers, PollIncrement(w)
    PROVE  TypeOK' /\ Good'
<1> DEFINE store == (c.active.store \ w.batch.deleted) \cup w.batch.new
           a == [c.active EXCEPT !.store = store]
           q == [c EXCEPT !.connected = TRUE]
           r == SetActive(q, a)
<1>1. /\ w.live /\ closing = "no" /\ w.phase = "done" /\ w.batch # None /\ ~w.full
      /\ UNCHANGED <<recovering, disk, journal, healthy, closing, app, applies, lapi, sent>>
    BY Zenon DEF PollIncrement, Receives, Current
<1>2. \/ c' = Continues(w, [c EXCEPT !.connected = FALSE], TRUE)
      \/ /\ store = c.active.store \/ c.dirty
         /\ c' = Continues(w, [r EXCEPT !.wake = @ \/ store # c.active.store], FALSE)
      \/ \E o \in ReconcileActive([r EXCEPT !.wake = TRUE], disk, journal, healthy) :
            c' = Continues(w, o.r, FALSE)
    BY Zenon DEF PollIncrement
<1>3. /\ w \in Poller /\ c.active \in State /\ c.active # None /\ w.key = c.active.key
      /\ Fed(w, c.active.store, sent) /\ c \in Runtime
    BY <1>1, PollerActive, Zenon DEF TypeOK
<1>4. store = sent[w.key]
    BY <1>1, <1>3, Zenon DEF Fed
<1>5. store \in SUBSET Ban
    <2>1. w.batch \in Batch /\ c.active.store \in SUBSET Ban
        BY <1>1, <1>3, Zenon DEF Poller, State
    <2> QED BY <2>1 DEF Batch
<1> HIDE DEF store
<1>6. /\ a \in State /\ a.epoch = c.active.epoch /\ a.key = c.active.key /\ a.store = store
      /\ a.lease = c.active.lease
    BY <1>3, <1>5, ZenonT(40) DEF State
<1>7. a # None
    BY <1>6, CrowdAssumption, Zenon
<1> HIDE DEF a
<1>8. q \in Runtime /\ Untouched(c, q) /\ Unwritten(c, q) /\ q.view = c.view /\ q.fallback = c.fallback
    BY <1>3, ZenonT(40) DEF Runtime, Untouched, Unwritten
<1> HIDE DEF q
<1>9. /\ r \in Runtime /\ Unwritten(q, r)
      /\ r.transaction = q.transaction /\ r.workers = q.workers /\ r.epoch = q.epoch
      /\ r.view = q.view /\ r.fallback = q.fallback /\ r.active = a
      /\ r.staged = IF q.staged # None /\ q.staged.epoch = a.epoch THEN a ELSE q.staged
    BY <1>6, <1>8, ActiveSet
<1> HIDE DEF r
<1>10. ASSUME NEW b \in BOOLEAN, NEW u, u = [r EXCEPT !.wake = b]
       PROVE  /\ u \in Runtime /\ Unwritten(c, u) /\ Carries(c, u) /\ Linked(u)
              /\ u.view = c.view /\ u.fallback = c.fallback /\ u.active = a
    <2>1. /\ u \in Runtime /\ Unwritten(r, u) /\ Untouched(r, u)
          /\ u.view = r.view /\ u.fallback = r.fallback
        BY <1>9, <1>10, ZenonT(40) DEF Runtime, Unwritten, Untouched
    <2>2. /\ u.transaction = c.transaction /\ u.workers = c.workers /\ u.epoch = c.epoch
          /\ u.view = c.view /\ u.fallback = c.fallback /\ u.active = a /\ Unwritten(c, u)
          /\ u.staged = IF c.staged # None /\ c.staged.epoch = a.epoch THEN a ELSE c.staged
        BY <1>8, <1>9, <2>1, Zenon DEF Untouched, Unwritten
    <2>3. c.staged # None /\ c.staged.epoch = a.epoch => c.staged = c.active
        BY <1>3, <1>6, Zenon DEF Good, Linked
    <2>4. Carries(c, u)
        BY <1>6, <1>7, <2>2, <2>3, Zenon DEF Carries
    <2>5. Linked(u)
        BY <1>3, <1>6, <2>2, Zenon DEF Good, Linked
    <2> QED BY <2>1, <2>2, <2>4, <2>5, Zenon
<1>11. CASE c' = Continues(w, [c EXCEPT !.connected = FALSE], TRUE)
    BY <1>1, <1>11, DisconnectedGood, Zenon
<1>12. CASE /\ store = c.active.store \/ c.dirty
            /\ c' = Continues(w, [r EXCEPT !.wake = @ \/ store # c.active.store], FALSE)
    <2> DEFINE b == r.wake \/ store # c.active.store
               u == [r EXCEPT !.wake = b]
    <2>1. b \in BOOLEAN /\ c' = Continues(w, u, FALSE)
        BY <1>12, Zenon
    <2> HIDE DEF b
    <2>2. /\ u \in Runtime /\ Unwritten(c, u) /\ Carries(c, u) /\ Linked(u)
          /\ u.view = c.view /\ u.fallback = c.fallback /\ u.active = a
        BY <1>10, <2>1, Zenon
    <2> HIDE DEF u
    <2>3. Accurate(u, disk, healthy)
        BY <1>3, <1>6, <1>12, <2>2, Zenon DEF Good, Enforced, Accurate, Unwritten
    <2>4. Shows(u, disk, journal, healthy)
        BY <1>6, <1>7, <2>2, Zenon DEF Good, Shown, Shows, Unwritten
    <2>5. u.active.store = sent[w.key]
        BY <1>4, <1>6, <2>2, Zenon
    <2> QED BY <1>1, <2>1, <2>2, <2>3, <2>4, <2>5, ContinuesGood, Zenon
<1>13. CASE \E o \in ReconcileActive([r EXCEPT !.wake = TRUE], disk, journal, healthy) :
                c' = Continues(w, o.r, FALSE)
    <2> DEFINE u == [r EXCEPT !.wake = TRUE]
    <2>1. PICK o \in ReconcileActive(u, disk, journal, healthy) : c' = Continues(w, o.r, FALSE)
        BY <1>13, Zenon
    <2>2. /\ u \in Runtime /\ Unwritten(c, u) /\ Carries(c, u) /\ Linked(u)
          /\ u.view = c.view /\ u.fallback = c.fallback /\ u.active = a
        BY <1>10, Zenon
    <2> HIDE DEF u
    <2>3. /\ Concerns(u, disk) /\ u.active # None /\ disk \in Revision /\ healthy \in BOOLEAN
          /\ healthy => disk.crowd
        BY <1>3, <1>7, <2>2, ShownConcerns, CrowdWhenHealthy, Zenon DEF TypeOK
    <2>4. Accurate(o.r, disk, healthy) /\ Shows(o.r, disk, journal, healthy)
        BY <1>1, <2>1, <2>2, <2>3, ReconciledShows, Zenon
    <2>5. /\ o.r \in Runtime /\ Linked(o.r)
          /\ o.r.transaction = u.transaction /\ o.r.workers = u.workers /\ o.r.epoch = u.epoch
          /\ o.r.active # None /\ Twin(u.active, o.r.active) /\ Twin(u.staged, o.r.staged)
        BY <1>1, <2>1, <2>2, <2>3, ActiveReconciled
    <2>6. Carries(c, o.r)
        BY <2>2, <2>3, <2>5, Zenon DEF Carries, Twin
    <2>7. o.r.active.store = sent[w.key]
        BY <1>4, <1>6, <2>2, <2>3, <2>5, Zenon DEF Twin
    <2> QED BY <1>1, <2>1, <2>4, <2>5, <2>6, <2>7, ContinuesGood, Zenon
<1> QED BY <1>2, <1>11, <1>12, <1>13, Zenon

\* The state a full answer makes: newer than every other, and what the LAPI last
\* told its key.
LEMMA NextState ==
    ASSUME TypeOK, Good, NEW w \in c.workers, Receives(w), w.batch # None, w.full
    PROVE  LET next == [c.active EXCEPT !.epoch = c.epoch + 1, !.store = w.batch.new, !.lease = {}]
           IN  /\ next \in State /\ next.epoch = c.epoch + 1 /\ next.key = c.active.key
               /\ next.store = sent[next.key]
<1>1. /\ w \in Poller /\ c.active \in State /\ w.key = c.active.key /\ w.phase = "done"
      /\ Fed(w, c.active.store, sent)
    BY PollerActive, Zenon DEF Receives, Current
<1>2. w.batch \in Batch /\ sent[w.key] = w.batch.new
    BY <1>1, Zenon DEF Poller, Fed
<1>3. w.batch.new \in SUBSET Ban /\ c.epoch + 1 \in Nat /\ {} \in SUBSET Ban
    BY <1>2 DEF Batch, TypeOK, Runtime
<1> DEFINE e == c.epoch + 1
           n == w.batch.new
<1> HIDE DEF e, n
<1>4. /\ [c.active EXCEPT !.epoch = e, !.store = n, !.lease = {}] \in State
      /\ [c.active EXCEPT !.epoch = e, !.store = n, !.lease = {}].epoch = e
      /\ [c.active EXCEPT !.epoch = e, !.store = n, !.lease = {}].key = c.active.key
      /\ [c.active EXCEPT !.epoch = e, !.store = n, !.lease = {}].store = n
    BY <1>1, <1>3, ZenonT(40) DEF State, e, n
<1> QED BY <1>1, <1>2, <1>4, Zenon DEF e, n

\* A full answer becomes a new active state once it is written; else the current
\* one is written again.
LEMMA PollFullGood ==
    ASSUME TypeOK, Good, NEW w \in c.workers, PollFull(w)
    PROVE  TypeOK' /\ Good'
<1> DEFINE next == [c.active EXCEPT !.epoch = c.epoch + 1, !.store = w.batch.new, !.lease = {}]
<1>1. /\ w.live /\ closing = "no" /\ w.batch # None /\ w.full /\ Receives(w)
      /\ UNCHANGED <<recovering, disk, journal, healthy, closing, app, applies, lapi, sent>>
    BY Zenon DEF PollFull, Receives, Current
<1>2. \/ c' = Continues(w, c, TRUE)
      \/ \E o \in Reconcile(c, next, disk, journal, healthy) :
            \/ /\ o.ok
               /\ c' = Activate([o.r EXCEPT !.epoch = @ + 1, !.workers = @ \ {w}], o.s)
            \/ /\ ~o.ok
               /\ \E p \in ReconcileActive(o.r, disk, journal, healthy) : c' = Continues(w, p.r, TRUE)
    BY Zenon DEF PollFull
<1>3. /\ next \in State /\ next.epoch = c.epoch + 1 /\ next.key = c.active.key
      /\ next.store = sent[next.key]
    BY <1>1, NextState, Zenon
<1> HIDE DEF next
<1>4. /\ c.active \in State /\ c.active # None /\ ~Still(c) /\ c \in Runtime /\ disk \in Revision
      /\ healthy \in BOOLEAN /\ (healthy => disk.crowd) /\ Concerns(c, disk)
    BY <1>1, PollerActive, CrowdWhenHealthy, ShownConcerns, Zenon DEF TypeOK
<1>5. CASE c' = Continues(w, c, TRUE)
    <2>1. Carries(c, c)
        BY <1>4, Zenon DEF Carries
    <2> QED BY <1>1, <1>4, <1>5, <2>1, ContinuesGood, Zenon DEF Good, Enforced, Shown
<1>6. ASSUME NEW o \in Reconcile(c, next, disk, journal, healthy)
      PROVE  /\ o \in Outcome /\ o.r \in Runtime /\ o.s \in State
             /\ Untouched(c, o.r) /\ o.r.fallback = None
             /\ o.ok => /\ journal = None /\ healthy /\ o.s = RecordLeases(next)
                        /\ ~o.r.dirty /\ o.r.cont[disk.gen] = next.store
                        /\ o.r.view \in {None, ViewOf(disk.rev, o.s)}
             /\ ~o.ok => o.s = next /\ o.r.dirty /\ o.r.view = None
    <2>1. /\ o \in Outcome
          /\ Untouched(c, o.r) /\ o.r.fallback = None
          /\ o.ok => /\ journal = None /\ healthy /\ o.s = RecordLeases(next)
                     /\ ~o.r.dirty /\ o.r.cont[disk.gen] = next.store
                     /\ o.r.view \in {None, ViewOf(disk.rev, o.s)}
          /\ ~o.ok => o.s = next /\ o.r.dirty /\ o.r.view = None
        BY <1>1, <1>3, <1>4, <1>6, Reconciled
    <2> QED BY <2>1, Zenon DEF Outcome
<1>7. ASSUME NEW o \in Reconcile(c, next, disk, journal, healthy), o.ok,
             c' = Activate([o.r EXCEPT !.epoch = @ + 1, !.workers = @ \ {w}], o.s)
      PROVE  TypeOK' /\ Good'
    <2>1. /\ o.r \in Runtime /\ o.s \in State /\ Untouched(c, o.r) /\ o.r.fallback = None
          /\ journal = None /\ healthy /\ o.s = RecordLeases(next)
          /\ ~o.r.dirty /\ o.r.cont[disk.gen] = next.store
          /\ o.r.view \in {None, ViewOf(disk.rev, o.s)}
        BY <1>6, <1>7, Zenon
    <2>2. /\ o.s.epoch = c.epoch + 1 /\ o.s.key = c.active.key /\ o.s.store = next.store
          /\ o.s.lease = next.store /\ o.s.store = sent[o.s.key] /\ o.s # None
        BY <1>3, <2>1, LeasesRecorded, CrowdAssumption, Zenon
    <2> DEFINE e == o.r.epoch + 1
               W == o.r.workers \ {w}
               q == [o.r EXCEPT !.epoch = e, !.workers = W]
    <2>3. e \in Nat /\ e = c.epoch + 1 /\ c.epoch \in Nat
        BY <1>4, <2>1 DEF Runtime, Untouched
    <2>4. W \in SUBSET Poller /\ \A v \in W : ~v.live
        BY <1>1, <2>1, Zenon DEF Runtime, Untouched, Good, Working
    <2>5. c' = Activate(q, o.s)
        BY <1>7, <2>1, Zenon DEF Runtime
    <2> HIDE DEF e, W
    <2>6. /\ q \in Runtime /\ q.epoch = e /\ q.workers = W
          /\ q.active = c.active /\ q.staged = c.staged /\ q.transaction = c.transaction
          /\ q.cont = o.r.cont /\ q.dirty = o.r.dirty /\ q.view = o.r.view /\ q.fallback = o.r.fallback
        <3>1. /\ q \in Runtime /\ q.epoch = e /\ q.workers = W
              /\ q.active = o.r.active /\ q.staged = o.r.staged /\ q.transaction = o.r.transaction
              /\ q.cont = o.r.cont /\ q.dirty = o.r.dirty /\ q.view = o.r.view
              /\ q.fallback = o.r.fallback
            BY <2>1, <2>3, <2>4, ZenonT(40) DEF Runtime
        <3> HIDE DEF q
        <3> QED BY <2>1, <3>1, Zenon DEF Untouched
    <2> HIDE DEF q
    <2>7. /\ c.active.epoch \in Nat /\ c.active.epoch <= c.epoch
          /\ c.staged # None => c.staged.epoch \in Nat /\ c.staged.epoch <= c.epoch
        BY <1>4, Zenon DEF Good, Linked, State, Runtime
    <2>8. /\ c.active.epoch <= e /\ c.active.epoch # e /\ e <= e
          /\ c.staged # None => c.staged.epoch <= e /\ c.staged.epoch # e
        BY <2>3, <2>7
    <2>9. Linked(q) /\ Working(q, sent)
        <3>1. Still(q)
            BY <2>4, <2>6, Zenon DEF Still
        <3>2. Linked(q)
            BY <2>6, <2>8, Zenon DEF Good, Linked
        <3> QED BY <3>1, <3>2, StillWorking, Zenon
    <2>10. ~Same(q.active, o.s)
        BY <1>4, <2>2, <2>3, <2>6, <2>8, Zenon DEF Same
    <2>11. /\ c' \in Runtime /\ Linked(c') /\ Working(c', sent)
           /\ c'.staged = q.staged /\ c'.transaction = q.transaction /\ c'.epoch = q.epoch
           /\ c'.view = q.view /\ c'.fallback = q.fallback /\ c'.cont = q.cont
           /\ c'.active = o.s /\ c'.dirty = FALSE
        <3>1. o.s.epoch <= q.epoch /\ (q.staged # None /\ q.staged.epoch = o.s.epoch => q.staged = o.s)
            BY <2>2, <2>3, <2>6, <2>8, Zenon
        <3> DEFINE t == Activate(q, o.s)
        <3>2. /\ t \in Runtime /\ Working(t, sent)
              /\ (q.staged # None /\ q.staged.epoch = o.s.epoch => q.staged = o.s) => Linked(t)
              /\ t.staged = q.staged /\ t.transaction = q.transaction /\ t.epoch = q.epoch
              /\ t.view = q.view /\ t.fallback = q.fallback /\ t.cont = q.cont
              /\ t.active = IF Same(q.active, o.s) THEN q.active ELSE o.s
              /\ t.dirty = IF Same(q.active, o.s) THEN q.dirty ELSE FALSE
            BY <2>1, <2>2, <2>6, <2>9, <3>1, Activated, ZenonT(40)
        <3> QED BY <2>5, <2>10, <3>1, <3>2, Zenon
    <2>12. TypeOK'
        BY <1>1, <2>11, Zenon DEF TypeOK
    <2>13. Accurate(c', disk, healthy) /\ Shows(c', disk, journal, healthy)
        <3>1. /\ c'.active # None /\ c'.fallback = None /\ c'.cont[disk.gen] = c'.active.store
              /\ c'.active.lease = c'.active.store /\ ~c'.dirty
              /\ c'.view \in {None, ViewOf(disk.rev, c'.active)}
            BY <2>1, <2>2, <2>6, <2>11, Zenon
        <3> QED BY <1>4, <2>1, <2>11, <3>1, WrittenShows, Zenon
    <2>14. Enforced' /\ Shown'
        BY <1>1, <2>13, Zenon DEF Enforced, Shown
    <2>15. Linked(c)' /\ Working(c, sent)'
        BY <1>1, <2>11, Zenon
    <2> QED BY <1>1, <1>4, <2>1, <2>2, <2>6, <2>11, <2>12, <2>14, <2>15, PollGood, Zenon
<1>8. ASSUME NEW o \in Reconcile(c, next, disk, journal, healthy), ~o.ok,
             NEW p \in ReconcileActive(o.r, disk, journal, healthy), c' = Continues(w, p.r, TRUE)
      PROVE  TypeOK' /\ Good'
    <2>1. /\ o.r \in Runtime /\ Untouched(c, o.r) /\ o.r.fallback = None /\ o.r.view = None
        BY <1>6, <1>8, Zenon
    <2>2. Linked(o.r) /\ Concerns(o.r, disk) /\ o.r.active # None
        BY <1>4, <2>1, Zenon DEF Good, Linked, Untouched, Concerns
    <2>3. Accurate(p.r, disk, healthy) /\ Shows(p.r, disk, journal, healthy)
        BY <1>1, <1>4, <1>8, <2>1, <2>2, ReconciledShows, Zenon
    <2>4. /\ p.r \in Runtime /\ Linked(p.r)
          /\ p.r.transaction = o.r.transaction /\ p.r.workers = o.r.workers /\ p.r.epoch = o.r.epoch
          /\ p.r.active # None /\ Twin(o.r.active, p.r.active) /\ Twin(o.r.staged, p.r.staged)
        BY <1>1, <1>4, <1>8, <2>1, <2>2, ActiveReconciled
    <2>5. Carries(c, p.r)
        BY <2>1, <2>2, <2>4, Zenon DEF Carries, Twin, Untouched
    <2> QED BY <1>1, <1>8, <2>3, <2>4, <2>5, ContinuesGood, Zenon
<1> QED BY <1>2, <1>5, <1>7, <1>8, Zenon

----------------------------------------------------------------------------
(* Maintenance.                                                            *)

\* The active state writes its own projection again: its poll, its store and a
\* retained transaction stay what they are.
LEMMA TwinWorking ==
    ASSUME NEW r, NEW t, NEW S, Working(r, S), t.workers = r.workers, Twin(r.active, t.active)
    PROVE  Working(t, S)
<1>1. ASSUME NEW w \in t.workers, w.live
      PROVE  /\ t.active # None /\ w.epoch = t.active.epoch /\ w.key = t.active.key
             /\ Fed(w, t.active.store, S)
    BY <1>1, Zenon DEF Working, Twin
<1> QED BY <1>1, Zenon DEF Working

\* maintainLocked: a retry, a renewal or an expiry rewrites the projection.
LEMMA MaintainGood ==
    ASSUME TypeOK, Good, Maintain
    PROVE  TypeOK' /\ Good'
<1> DEFINE r == [c EXCEPT !.timer = FALSE, !.wake = TRUE]
<1>1. /\ closing = "no" /\ c.active # None
      /\ UNCHANGED <<recovering, disk, journal, healthy, closing, app, applies, lapi, sent>>
      /\ \E o \in ReconcileActive(r, disk, journal, healthy) : c' = o.r
    BY Zenon DEF Maintain
<1>2. r \in Runtime /\ Untouched(c, r) /\ Unwritten(c, r) /\ r.view = c.view /\ r.fallback = c.fallback
    BY ZenonT(40) DEF TypeOK, Runtime, Untouched, Unwritten
<1>3. PICK o \in ReconcileActive(r, disk, journal, healthy) : c' = o.r
    BY <1>1, Zenon
<1> HIDE DEF r
<1>4. /\ Concerns(r, disk) /\ r.active # None /\ Linked(r) /\ disk \in Revision
      /\ healthy \in BOOLEAN /\ (healthy => disk.crowd)
    <2>1. Concerns(r, disk)
        BY <1>2, ShownConcerns, Zenon
    <2>2. r.active # None /\ Linked(r)
        BY <1>1, <1>2, Zenon DEF Good, Linked, Untouched
    <2> QED BY <1>1, <2>1, <2>2, CrowdWhenHealthy, Zenon DEF TypeOK
<1>5. Accurate(o.r, disk, healthy) /\ Shows(o.r, disk, journal, healthy)
    BY <1>1, <1>2, <1>3, <1>4, ReconciledShows, Zenon
<1>6. /\ o.r \in Runtime /\ Linked(o.r)
      /\ o.r.transaction = r.transaction /\ o.r.workers = r.workers /\ o.r.epoch = r.epoch
      /\ o.r.active # None /\ Twin(r.active, o.r.active) /\ Twin(r.staged, o.r.staged)
    BY <1>1, <1>2, <1>3, <1>4, ActiveReconciled
<1>7. /\ c' \in Runtime /\ Linked(c') /\ c'.transaction = c.transaction /\ c'.workers = c.workers
      /\ c'.active # None /\ Twin(c.active, c'.active) /\ Twin(c.staged, c'.staged)
    BY <1>2, <1>3, <1>6, Zenon DEF Untouched
<1>8. TypeOK'
    BY <1>1, <1>7, Zenon DEF TypeOK
<1>9. Linked(c)' /\ Working(c, sent)' /\ Enforced' /\ Shown'
    <2>1. Working(c', sent)
        BY <1>7, TwinWorking, Zenon DEF Good
    <2> QED BY <1>1, <1>3, <1>5, <1>7, <2>1, Zenon DEF Enforced, Shown
<1>10. (InDoubt' <=> InDoubt) /\ (Still(c') <=> Still(c))
    BY <1>1, <1>7, Zenon DEF InDoubt, Still
<1>11. Numbered' /\ Fenced' /\ Keyed' /\ Owed'
    BY <1>1, <1>7, <1>10, Zenon DEF Good, Numbered, Fenced, Keyed, Owed, Twin
<1>12. Retained'
    BY <1>1, <1>7, <1>10, Zenon DEF Good, Retained, Twin
<1>13. Staging'
    BY <1>1, <1>7, <1>10, Zenon DEF Good, Staging, Twin
<1> QED BY <1>8, <1>9, <1>11, <1>12, <1>13, Zenon DEF Good

----------------------------------------------------------------------------
(* The outcomes of an apply.                                               *)

\* What a step has to keep that leaves no transaction in doubt and no apply
\* under way.
LEMMA SettledGood ==
    ASSUME app' \in Call, app'.pc = "idle",
           c' \in Runtime, Linked(c'), Working(c', sent'), c'.transaction = 0,
           disk' \in Revision, journal' \in Revision \cup {None}, healthy' \in BOOLEAN,
           recovering' \in BOOLEAN, TypeOK, Good,
           UNCHANGED <<closing, applies, lapi, sent>>,
           disk'.rev <= applies, disk'.gen <= applies,
           journal' # None => ~healthy', closing # "no" => Still(c'),
           c'.active # None => disk'.crowd /\ c'.active.key = disk'.key,
           closing = "no" /\ c'.dirty => c'.active # None,
           Accurate(c', disk', healthy'), Shows(c', disk', journal', healthy')
    PROVE  TypeOK' /\ Good'
<1>1. TypeOK'
    BY Zenon DEF TypeOK
<1>2. ~InDoubt'
    BY Zenon DEF InDoubt
<1>3. Numbered' /\ Keyed' /\ Retained' /\ Owed'
    BY <1>2, Zenon DEF Numbered, Keyed, Retained, Owed
<1>4. Fenced'
    BY Zenon DEF Fenced
<1>5. Staging'
    BY IdleStaging, Zenon
<1>6. Linked(c)' /\ Working(c, sent)' /\ Enforced' /\ Shown'
    BY Zenon DEF Enforced, Shown
<1> QED BY <1>1, <1>3, <1>4, <1>5, <1>6, Zenon DEF Good

\* With no transaction left, what was staged is discarded.
LEMMA FinishedDiscards ==
    ASSUME NEW r, NEW j, r.transaction = 0 \/ j = None
    PROVE  Finish(r, j, 0) = Discard(r)
<1>1. 0 # 1
    OBVIOUS
<1> QED BY <1>1, Zenon DEF Finish

\* An apply that is refused, or fails before its journal is written, discards what
\* it staged.
LEMMA RejectedGood ==
    ASSUME TypeOK, Good, app.pc # "idle", Rejected(0)
    PROVE  TypeOK' /\ Good'
<1> DEFINE t == Discard(c)
<1>1. /\ app' = Idle /\ recovering' = Degraded
      /\ c' = IF Degraded THEN AbortLookup(Finish(c, journal, 0))
              ELSE RestoreLookup(Finish(c, journal, 0))
      /\ UNCHANGED <<disk, journal, healthy, closing, applies, lapi, sent>>
    BY Zenon DEF Rejected
<1>2. ~recovering /\ c.transaction = 0 /\ ~InDoubt
    BY NothingInDoubt, Zenon
<1>3. Finish(c, journal, 0) = t
    BY <1>2, FinishedDiscards, Zenon
<1>4. /\ t \in Runtime /\ Linked(t) /\ Working(t, sent)
      /\ t.active = c.active /\ t.staged = None /\ t.transaction = 0 /\ t.epoch = c.epoch
      /\ t.view = c.view /\ t.fallback = c.fallback /\ Unwritten(c, t)
      /\ closing # "no" /\ Still(c) => Still(t)
    BY Discarded, Zenon DEF TypeOK, Good
<1> HIDE DEF t
<1>5. t.fallback = None
    BY <1>4, Zenon DEF Good, Shown, Shows
<1>6. /\ c' \in Runtime /\ Untouched(t, c') /\ Unwritten(t, c')
      /\ c'.fallback = None /\ c'.view \in {None, t.view}
    <2>1. CASE Degraded
        BY <1>1, <1>3, <1>4, <2>1, Aborted, Zenon
    <2>2. CASE ~Degraded
        BY <1>1, <1>3, <1>4, <1>5, <2>2, LookupRestored, Zenon
    <2> QED BY <2>1, <2>2, Zenon
<1>7. Linked(c') /\ Working(c', sent) /\ c'.transaction = 0
    BY <1>4, <1>6, Zenon DEF Linked, Working, Untouched
<1>8. closing # "no" => Still(c')
    BY <1>4, <1>6, Zenon DEF Good, Fenced, Still, Untouched
<1>9. c'.active = c.active /\ c'.dirty = c.dirty /\ c'.cont = c.cont
    BY <1>4, <1>6, Zenon DEF Untouched, Unwritten
<1>10. /\ c'.active # None => disk.crowd /\ c'.active.key = disk.key
       /\ closing = "no" /\ c'.dirty => c'.active # None
    BY <1>2, <1>9, Zenon DEF Good, Keyed, Owed
<1>11. Accurate(c', disk, healthy)
    BY <1>9, Zenon DEF Good, Enforced, Accurate
<1>12. Shows(c', disk, journal, healthy)
    BY <1>4, <1>6, <1>9, Zenon DEF Good, Shown, Shows
<1>13. Degraded \in BOOLEAN
    BY Zenon DEF Degraded
<1>14. /\ disk \in Revision /\ journal \in Revision \cup {None} /\ healthy \in BOOLEAN
       /\ disk.rev <= applies /\ disk.gen <= applies /\ (journal # None => ~healthy)
    BY Zenon DEF TypeOK, Good, Numbered, Fenced
<1> QED BY <1>1, <1>6, <1>7, <1>8, <1>10, <1>11, <1>12, <1>13, <1>14, SettledGood, IdleCall, Zenon

\* What an apply that got the writer fence knows: nothing is in doubt.
LEMMA ApplyingQuiet ==
    ASSUME TypeOK, Good, Applying(0)
    PROVE  /\ app.pc = "locked" /\ closing = "no" /\ healthy /\ ~c.dirty /\ app' = Idle
           /\ ~recovering /\ c.transaction = 0 /\ ~InDoubt /\ journal = None
           /\ (app.crowd => Selected # None) /\ UNCHANGED <<closing, applies, lapi, sent>>
<1>1. "locked" # "idle"
    OBVIOUS
<1>2. app.pc # "idle"
    BY <1>1, Zenon DEF Applying
<1> QED BY <1>2, NothingInDoubt, Zenon DEF Applying, Degraded, Good, Fenced

\* The candidate: a new revision with the authority that was selected for it, and
\* a container of its own or the one that the active state writes to.
Candidacy(d) ==
    /\ d \in Revision /\ d # None /\ d.rev = applies /\ d.rev # 0 /\ d.rev # disk.rev
    /\ d.rev <= applies /\ d.gen <= applies
    /\ d.crowd => Selected \in State /\ Selected.key = d.key /\ Selected.epoch <= c.epoch
    /\ d.crowd <=> Selected # None
    /\ d.crowd <=> d.gen # 0
    /\ d.gen # 0 /\ d.gen = disk.gen => c.active # None
    /\ Selected # None => Same(c.active, Selected) \/ (Still(c) /\ Selected.store = sent[Selected.key])
    /\ Same(Selected, c.active) => Selected = c.active

\* Every candidate an apply can make is one: the selected authority is the one its
\* revision names, and only the active state shares its container.
LEMMA CandidateShape ==
    ASSUME TypeOK, Good, Applying(0), NEW shared \in {FALSE, MayShare}
    PROVE  Candidacy(Candidate(shared))
<1> DEFINE d == Candidate(shared)
<1>1. /\ app.pc = "locked" /\ ~InDoubt /\ (app.crowd => Selected # None) /\ "locked" # "idle"
    <2>1. "locked" # "idle"
        OBVIOUS
    <2> QED BY <2>1, ApplyingQuiet, Zenon
<1>2. /\ app \in Call /\ app.key \in Key /\ disk \in Revision /\ c \in Runtime
      /\ applies \in 1 .. MaxApply /\ disk.rev < applies /\ disk.gen < applies
    BY <1>1, Zenon DEF TypeOK, Good, Numbered
<1>3. /\ c.active \in State \cup {None} /\ c.staged \in State \cup {None}
      /\ disk.rev \in 0 .. MaxApply /\ disk.gen \in 0 .. MaxApply
      /\ disk.key \in Key \cup {None} /\ app.crowd \in BOOLEAN
    BY <1>2, Zenon DEF Runtime, Revision, Call
<1>4. /\ applies # 0 /\ applies \in 0 .. MaxApply /\ applies <= applies /\ 0 <= applies
      /\ disk.gen <= applies /\ applies # disk.gen /\ applies # disk.rev /\ 0 \in 0 .. MaxApply
    <2>1. /\ applies \in 1 .. MaxApply /\ disk.rev < applies /\ disk.gen < applies
          /\ disk.rev \in 0 .. MaxApply /\ disk.gen \in 0 .. MaxApply /\ MaxApply \in Nat
        BY <1>2, <1>3, CrowdAssumption, Zenon
    <2> QED BY <2>1
<1> DEFINE k == IF ~app.crowd THEN None ELSE IF app.kind = "refresh" THEN disk.key ELSE app.key
           g == IF ~app.crowd THEN 0 ELSE IF shared THEN disk.gen ELSE applies
<1>5. k \in Key \cup {None}
    BY <1>2, <1>3, Zenon
<1>6. shared => c.active # None /\ disk.gen # 0
    BY Zenon DEF MayShare
<1>7. /\ g \in 0 .. MaxApply /\ g <= applies /\ (app.crowd <=> g # 0)
      /\ (g # 0 /\ g = disk.gen => c.active # None)
    BY <1>3, <1>4, <1>6, Zenon
<1>8. d.rev = applies /\ d.crowd = app.crowd /\ d.key = k /\ d.gen = g
    BY Zenon DEF Candidate
<1>9. d \in Revision
    BY <1>3, <1>4, <1>5, <1>7, Zenon DEF Candidate, Revision
<1>10. d # None
    BY <1>9, CrowdAssumption, Zenon
<1>11. \/ app.kind = "refresh" /\ app.kind # "reload" /\ Selected = c.active /\ app.crowd = disk.crowd
       \/ app.kind = "reload" /\ app.kind # "refresh" /\ Selected = IF app.crowd THEN c.staged ELSE None
    <2>1. app.kind \in {"reload", "refresh"} /\ "reload" # "refresh"
        BY <1>2 DEF Call
    <2>2. CASE app.kind = "refresh"
        BY <1>1, <2>1, <2>2, Zenon DEF Selected, Good, Staging
    <2>3. CASE app.kind = "reload"
        BY <1>1, <2>1, <2>3, Zenon DEF Selected
    <2> QED BY <2>1, <2>2, <2>3, Zenon
<1>12. app.crowd <=> Selected # None
    BY <1>1, <1>11, Zenon DEF Good, Keyed
<1>13. app.crowd => Selected \in State /\ Selected.epoch <= c.epoch
    BY <1>3, <1>11, <1>12, Zenon DEF Good, Linked
<1>14. app.crowd => Selected.key = k
    BY <1>1, <1>11, <1>12, Zenon DEF Good, Keyed, Staging
<1>15. Selected # None => Same(c.active, Selected) \/ (Still(c) /\ Selected.store = sent[Selected.key])
    BY <1>1, <1>11, <1>12, Zenon DEF Good, Staging, Same
<1>16. Same(Selected, c.active) => Selected = c.active
    <2>1. CASE Selected = c.active
        BY <2>1
    <2>2. CASE Selected = None \/ Selected = c.staged
        BY <2>2, Zenon DEF Same, Good, Linked
    <2> QED BY <1>11, <2>1, <2>2, Zenon
<1> HIDE DEF d, k, g
<1>17. Candidacy(d)
    BY <1>4, <1>7, <1>8, <1>9, <1>10, <1>12, <1>13, <1>14, <1>15, <1>16, Zenon DEF Candidacy
<1> QED BY <1>17, Zenon DEF d

\* What an apply has to keep that leaves its transaction to recovery.
LEMMA PendingGood ==
    ASSUME TypeOK, Good, closing = "no", NEW d, Candidacy(d),
           app' = Idle, c' \in Runtime, Linked(c'), Working(c', sent), c'.transaction = d.rev,
           disk' \in {disk, d}, journal' = d, healthy' = FALSE, recovering' = TRUE,
           UNCHANGED <<closing, applies, lapi, sent>>,
           ~c'.dirty, c'.view = None, c'.fallback = None,
           disk' = disk => (c'.active # None => disk.crowd /\ c'.active.key = disk.key),
           disk' = d => IF c'.staged = None THEN ~d.crowd
                        ELSE /\ d.crowd /\ c'.staged.key = d.key
                             /\ \/ c'.active # None /\ c'.active.epoch = c'.staged.epoch
                                \/ Still(c') /\ c'.staged.store = sent[c'.staged.key]
    PROVE  TypeOK' /\ Good'
<1>1. app' \in Call /\ app'.pc = "idle"
    BY IdleCall, Zenon
<1>2. /\ d \in Revision /\ d.rev # 0 /\ d.rev # disk.rev /\ d.rev <= applies /\ d.gen <= applies
      /\ d # disk /\ disk' \in Revision
    BY Zenon DEF Candidacy, TypeOK
<1>3. TypeOK'
    BY <1>1, <1>2, Zenon DEF TypeOK
<1>4. InDoubt' <=> disk' = d
    BY <1>2, Zenon DEF InDoubt
<1>5. Numbered'
    BY <1>1, <1>2, Zenon DEF Good, Numbered
<1>6. Keyed' /\ Retained' /\ Owed'
    BY <1>2, <1>4, Zenon DEF Keyed, Retained, Owed
<1>7. Fenced'
    BY <1>1, Zenon DEF Fenced
<1>8. Staging'
    BY <1>1, IdleStaging, Zenon
<1>9. Linked(c)' /\ Working(c, sent)' /\ Enforced' /\ Shown'
    BY Zenon DEF Enforced, Shown, Accurate, Shows
<1> QED BY <1>3, <1>5, <1>6, <1>7, <1>8, <1>9, Zenon DEF Good

\* The journal is written with the candidate's revision and its authority.
LEMMA BegunShape ==
    ASSUME TypeOK, Good, NEW d, Candidacy(d)
    PROVE  LET t == Begun(d)
           IN  /\ t \in Runtime /\ Linked(t) /\ Working(t, sent) /\ t.workers = c.workers
               /\ t.active = c.active /\ t.staged = Selected /\ t.transaction = d.rev
               /\ t.epoch = c.epoch /\ t.view = c.view /\ t.fallback = c.fallback
               /\ Unwritten(c, t)
<1> DEFINE S == Selected
           t == Begun(d)
           n == d.rev
<1>1. S \in State \cup {None} /\ n \in 0 .. MaxApply
    BY Zenon DEF Candidacy, Revision
<1>2. t = [c EXCEPT !.transaction = n, !.staged = S]
    BY Zenon DEF Begun
<1> HIDE DEF S, t, n
<1>3. /\ t \in Runtime /\ t.workers = c.workers /\ t.active = c.active /\ t.staged = S
      /\ t.transaction = n /\ t.epoch = c.epoch /\ t.view = c.view /\ t.fallback = c.fallback
      /\ Unwritten(c, t)
    BY <1>1, <1>2, ZenonT(40) DEF TypeOK, Runtime, Unwritten
<1>4. Working(t, sent)
    BY <1>3, SameWorking, Zenon DEF Good
<1>5. Linked(t)
    <2>1. S # None => S.epoch <= c.epoch
        BY Zenon DEF Candidacy, S
    <2>2. c.active # None /\ S # None /\ S.epoch = c.active.epoch => S = c.active
        BY Zenon DEF Candidacy, Same, S
    <2> QED BY <1>3, <2>1, <2>2, Zenon DEF Good, Linked
<1> QED BY <1>3, <1>4, <1>5, Zenon DEF S, t, n

\* The candidate's container gets the selected store when it does not hold it.
LEMMA SwitchedShape ==
    ASSUME TypeOK, Good, NEW d, Candidacy(d), NEW r \in Runtime
    PROVE  LET t == Switched(r, d)
           IN  /\ t \in Runtime /\ Untouched(r, t) /\ t.dirty = r.dirty
               /\ t.view = r.view /\ t.fallback = r.fallback
               /\ Activates(d) => t.cont[d.gen] = Selected.store
               /\ ~Activates(d) => t.cont = r.cont
               /\ d.gen # disk.gen => t.cont[disk.gen] = r.cont[disk.gen]
<1>1. CASE ~Activates(d)
    BY <1>1, Zenon DEF Switched, Untouched
<1>2. CASE Activates(d)
    <2>1. /\ d \in Revision /\ Selected.store \in SUBSET Ban /\ d.gen \in 0 .. MaxApply
          /\ disk.gen \in 0 .. MaxApply /\ r.cont \in [0 .. MaxApply -> SUBSET Ban]
        BY <1>2, Zenon DEF Candidacy, Activates, State, Revision, TypeOK, Runtime
    <2> DEFINE t == Written(r, d, Selected.store)
    <2>2. /\ t \in Runtime /\ Untouched(r, t) /\ t.dirty = r.dirty
          /\ t.cont = [r.cont EXCEPT ![d.gen] = Selected.store]
          /\ t.view = r.view /\ t.fallback = r.fallback
        BY <2>1, WrittenTo
    <2> HIDE DEF t
    <2>3. /\ t.cont[d.gen] = Selected.store
          /\ d.gen # disk.gen => t.cont[disk.gen] = r.cont[disk.gen]
        BY <2>1, <2>2, Zenon
    <2> QED BY <1>2, <2>2, <2>3, Zenon DEF Switched, t
<1> QED BY <1>1, <1>2, Zenon

\* Rolling back gives the active revision's container its own content again.
LEMMA RestoredShape ==
    ASSUME TypeOK, Good, healthy, ~c.dirty, NEW d, Candidacy(d), NEW r \in Runtime,
           \/ r.cont[disk.gen] = c.cont[disk.gen]
           \/ d.gen = disk.gen /\ Activates(d)
    PROVE  LET t == Restored(r, d)
           IN  /\ t \in Runtime /\ Untouched(r, t) /\ t.dirty = r.dirty
               /\ t.view = r.view /\ t.fallback = r.fallback
               /\ t.cont[disk.gen] = c.cont[disk.gen]
<1> DEFINE b == d.gen # 0 /\ d.gen = disk.gen /\ c.active # None /\ ~Same(Selected, c.active)
<1>1. CASE ~b
    <2>1. r.cont[disk.gen] = c.cont[disk.gen]
        BY <1>1, Zenon DEF Candidacy, Activates
    <2> QED BY <1>1, <2>1, Zenon DEF Restored, Untouched
<1>2. CASE b
    <2>1. /\ disk \in Revision /\ c.active.store \in SUBSET Ban /\ disk.gen \in 0 .. MaxApply
          /\ r.cont \in [0 .. MaxApply -> SUBSET Ban] /\ c.cont[disk.gen] = c.active.store
        BY <1>2, Zenon DEF State, Revision, TypeOK, Runtime, Good, Enforced, Accurate
    <2> DEFINE t == Written(r, disk, c.active.store)
    <2>2. /\ t \in Runtime /\ Untouched(r, t) /\ t.dirty = r.dirty
          /\ t.cont = [r.cont EXCEPT ![disk.gen] = c.active.store]
          /\ t.view = r.view /\ t.fallback = r.fallback
        BY <2>1, WrittenTo
    <2> HIDE DEF t
    <2>3. t.cont[disk.gen] = c.cont[disk.gen]
        BY <2>1, <2>2, Zenon
    <2> QED BY <1>2, <2>2, <2>3, Zenon DEF Restored, t
<1> QED BY <1>1, <1>2, Zenon

\* The states a transaction passes through before it is decided.
LEMMA UndecidedShape ==
    ASSUME TypeOK, Good, healthy, ~c.dirty, NEW d, Candidacy(d),
           NEW t \in {Begun(d), Switched(Begun(d), d), Restored(Begun(d), d)}
    PROVE  /\ t \in Runtime /\ Linked(t) /\ Working(t, sent) /\ t.workers = c.workers
           /\ t.active = c.active /\ t.staged = Selected /\ t.transaction = d.rev /\ ~t.dirty
           /\ t.view = c.view /\ t.fallback = c.fallback
           /\ t.cont[disk.gen] = c.cont[disk.gen] \/ (d.gen = disk.gen /\ Activates(d))
<1> DEFINE b == Begun(d)
<1>1. /\ b \in Runtime /\ Linked(b) /\ Working(b, sent) /\ b.workers = c.workers
      /\ b.active = c.active /\ b.staged = Selected /\ b.transaction = d.rev
      /\ b.epoch = c.epoch /\ b.view = c.view /\ b.fallback = c.fallback /\ Unwritten(c, b)
    BY BegunShape
<1>2. b.dirty = c.dirty /\ b.cont[disk.gen] = c.cont[disk.gen]
    BY <1>1, Zenon DEF Unwritten
<1> HIDE DEF b
<1>3. t \in {b, Switched(b, d), Restored(b, d)}
    BY Zenon DEF b
<1>4. /\ t \in Runtime /\ Untouched(b, t) /\ t.dirty = b.dirty
      /\ t.view = b.view /\ t.fallback = b.fallback
      /\ t.cont[disk.gen] = c.cont[disk.gen] \/ (d.gen = disk.gen /\ Activates(d))
    <2>1. CASE t = b
        BY <1>1, <1>2, <2>1, Zenon DEF Untouched
    <2>2. CASE t = Switched(b, d)
        <3> DEFINE u == Switched(b, d)
        <3>1. /\ u \in Runtime /\ Untouched(b, u) /\ u.dirty = b.dirty
              /\ u.view = b.view /\ u.fallback = b.fallback
              /\ ~Activates(d) => u.cont = b.cont
              /\ d.gen # disk.gen => u.cont[disk.gen] = b.cont[disk.gen]
            BY <1>1, SwitchedShape
        <3> HIDE DEF u
        <3> QED BY <1>2, <2>2, <3>1, Zenon DEF u
    <2>3. CASE t = Restored(b, d)
        <3> DEFINE u == Restored(b, d)
        <3>1. /\ u \in Runtime /\ Untouched(b, u) /\ u.dirty = b.dirty
              /\ u.view = b.view /\ u.fallback = b.fallback
              /\ u.cont[disk.gen] = c.cont[disk.gen]
            BY <1>1, <1>2, RestoredShape
        <3> HIDE DEF u
        <3> QED BY <2>3, <3>1, Zenon DEF u
    <2> QED BY <1>3, <2>1, <2>2, <2>3, Zenon
<1>5. Linked(t) /\ Working(t, sent)
    BY <1>1, <1>4, SameWorking, Zenon DEF Untouched, Linked
<1> QED BY <1>1, <1>2, <1>4, <1>5, Zenon DEF Untouched

\* A failed apply is rolled back: the container, the view and the poll are the
\* active state's again (engine.go rollbackLocked).
LEMMA RolledBackGood ==
    ASSUME TypeOK, Good, NEW d, Candidacy(d), ApplyRolledBack(d, 0)
    PROVE  TypeOK' /\ Good'
<1>1. Applying(0) /\ UNCHANGED <<disk, journal, healthy, recovering>>
    BY Zenon DEF ApplyRolledBack
<1>2. /\ closing = "no" /\ healthy /\ ~c.dirty /\ app' = Idle /\ ~InDoubt /\ journal = None
      /\ UNCHANGED <<closing, applies, lapi, sent>>
    BY <1>1, ApplyingQuiet, Zenon
<1>3. PICK t \in {Begun(d), Switched(Begun(d), d)} :
          c' = RestoreLookup(Finish(Restored(InvalidateLookup(t), d), None, 0))
    BY Zenon DEF ApplyRolledBack
<1>4. /\ t \in Runtime /\ Linked(t) /\ Working(t, sent) /\ t.workers = c.workers
      /\ t.active = c.active /\ ~t.dirty /\ t.view = c.view /\ t.fallback = c.fallback
      /\ t.cont[disk.gen] = c.cont[disk.gen] \/ (d.gen = disk.gen /\ Activates(d))
    <2>1. t \in {Begun(d), Switched(Begun(d), d), Restored(Begun(d), d)}
        BY <1>3, Zenon
    <2> QED BY <1>2, <2>1, UndecidedShape
<1> DEFINE i == InvalidateLookup(t)
           u == Restored(i, d)
           v == Discard(u)
<1>5. /\ i \in Runtime /\ Untouched(t, i) /\ Unwritten(t, i) /\ i.view = None
      /\ i.fallback = IF t.view # None THEN t.view ELSE t.fallback
    BY <1>4, Invalidated, Zenon
<1> HIDE DEF i
<1>6. /\ u \in Runtime /\ Untouched(i, u) /\ u.dirty = i.dirty
      /\ u.view = i.view /\ u.fallback = i.fallback /\ u.cont[disk.gen] = c.cont[disk.gen]
    <2>1. i.cont[disk.gen] = c.cont[disk.gen] \/ (d.gen = disk.gen /\ Activates(d))
        BY <1>4, <1>5, Zenon DEF Unwritten
    <2> QED BY <1>2, <1>5, <2>1, RestoredShape
<1> HIDE DEF u
<1>7. Linked(u) /\ Working(u, sent) /\ u.active = c.active /\ ~u.dirty
    BY <1>4, <1>5, <1>6, SameWorking, Zenon DEF Untouched, Unwritten, Linked
<1>8. /\ v \in Runtime /\ Linked(v) /\ Working(v, sent)
      /\ v.active = u.active /\ v.transaction = 0
      /\ v.view = u.view /\ v.fallback = u.fallback /\ Unwritten(u, v)
    BY <1>6, <1>7, Discarded, Zenon
<1>9. c' = RestoreLookup(v)
    BY <1>3, FinishedDiscards, Zenon DEF u, i
<1> HIDE DEF v
<1>10. /\ c' \in Runtime /\ Untouched(v, c') /\ Unwritten(v, c') /\ c'.fallback = None
       /\ c'.view = IF v.fallback # None THEN v.fallback ELSE v.view
    BY <1>8, <1>9, LookupRestored, Zenon
<1>11. /\ Linked(c') /\ Working(c', sent) /\ c'.transaction = 0 /\ c'.active = c.active /\ ~c'.dirty
       /\ c'.cont[disk.gen] = c.cont[disk.gen]
    BY <1>6, <1>7, <1>8, <1>10, SameWorking, Zenon DEF Untouched, Unwritten, Linked
<1>12. c'.view = c.view
    BY <1>4, <1>5, <1>6, <1>8, <1>10, Zenon DEF Good, Shown, Shows
<1>13. Accurate(c', disk, healthy)
    BY <1>2, <1>11, Zenon DEF Good, Enforced, Accurate
<1>14. Shows(c', disk, journal, healthy)
    BY <1>2, <1>10, <1>11, <1>12, Zenon DEF Good, Shown, Shows
<1>15. /\ disk \in Revision /\ journal \in Revision \cup {None} /\ healthy \in BOOLEAN
       /\ recovering \in BOOLEAN /\ disk.rev <= applies /\ disk.gen <= applies
       /\ c'.active # None => disk.crowd /\ c'.active.key = disk.key
    BY <1>2, <1>11, Zenon DEF TypeOK, Good, Numbered, Keyed
<1> QED BY <1>1, <1>2, <1>10, <1>11, <1>13, <1>14, <1>15, SettledGood, IdleCall, Zenon

\* An apply whose outcome is unknown shows nothing and keeps what recovery may
\* select.
LEMMA UnknownGood ==
    ASSUME TypeOK, Good, NEW d, Candidacy(d), ApplyUnknown(d, 0)
    PROVE  TypeOK' /\ Good'
<1>1. Applying(0) /\ healthy' = FALSE /\ recovering' = TRUE
    BY Zenon DEF ApplyUnknown
<1>2. /\ closing = "no" /\ healthy /\ ~c.dirty /\ app' = Idle /\ ~InDoubt /\ journal = None
      /\ UNCHANGED <<closing, applies, lapi, sent>>
    BY <1>1, ApplyingQuiet, Zenon
<1>3. PICK t \in {Begun(d), Switched(Begun(d), d), Restored(Begun(d), d)} :
          /\ \/ journal' = None /\ disk' = disk
             \/ journal' = d /\ disk' \in {disk, d}
          /\ c' = AbortLookup(Finish(t, journal', 0))
    BY Zenon DEF ApplyUnknown
<1>4. /\ t \in Runtime /\ Linked(t) /\ Working(t, sent) /\ t.workers = c.workers
      /\ t.active = c.active /\ t.staged = Selected /\ t.transaction = d.rev /\ ~t.dirty
    BY <1>2, <1>3, UndecidedShape, Zenon
<1>5. c.active # None => disk.crowd /\ c.active.key = disk.key
    BY <1>2, Zenon DEF Good, Keyed
<1>6. CASE journal' = None /\ disk' = disk
    <2> DEFINE v == Discard(t)
    <2>1. /\ v \in Runtime /\ Linked(v) /\ Working(v, sent)
          /\ v.active = t.active /\ v.transaction = 0 /\ Unwritten(t, v)
        BY <1>4, Discarded, Zenon
    <2>2. c' = AbortLookup(v)
        BY <1>3, <1>6, FinishedDiscards, Zenon
    <2> HIDE DEF v
    <2>3. c' \in Runtime /\ Untouched(v, c') /\ Unwritten(v, c') /\ c'.view = None /\ c'.fallback = None
        BY <2>1, <2>2, Aborted, Zenon
    <2>4. Linked(c') /\ Working(c', sent) /\ c'.transaction = 0 /\ c'.active = c.active /\ ~c'.dirty
        BY <1>4, <2>1, <2>3, SameWorking, Zenon DEF Untouched, Unwritten, Linked
    <2>5. Accurate(c', disk', healthy') /\ Shows(c', disk', journal', healthy')
        BY <1>1, <2>3, Zenon DEF Accurate, Shows
    <2>6. disk \in Revision /\ disk.rev <= applies /\ disk.gen <= applies
        BY Zenon DEF TypeOK, Good, Numbered
    <2> QED BY <1>1, <1>2, <1>5, <1>6, <2>3, <2>4, <2>5, <2>6, SettledGood, IdleCall, Zenon
<1>7. CASE journal' = d /\ disk' \in {disk, d}
    <2>1. c' = AbortLookup(t)
        BY <1>3, <1>4, <1>7, Zenon DEF Finish, Candidacy
    <2>2. c' \in Runtime /\ Untouched(t, c') /\ Unwritten(t, c') /\ c'.view = None /\ c'.fallback = None
        BY <1>4, <2>1, Aborted, Zenon
    <2>3. /\ Linked(c') /\ Working(c', sent) /\ c'.transaction = d.rev /\ c'.active = c.active
          /\ ~c'.dirty /\ c'.staged = Selected /\ c'.workers = c.workers
        BY <1>4, <2>2, SameWorking, Zenon DEF Untouched, Unwritten, Linked
    <2>4. IF c'.staged = None THEN ~d.crowd
          ELSE /\ d.crowd /\ c'.staged.key = d.key
               /\ \/ c'.active # None /\ c'.active.epoch = c'.staged.epoch
                  \/ Still(c') /\ c'.staged.store = sent[c'.staged.key]
        BY <2>3, Zenon DEF Candidacy, Same, Still
    <2> QED BY <1>1, <1>2, <1>5, <1>7, <2>2, <2>3, <2>4, PendingGood, Zenon
<1> QED BY <1>3, <1>6, <1>7, Zenon

\* A committed apply activates the authority it selected, whose store its
\* container holds.
LEMMA CommittedShape ==
    ASSUME TypeOK, Good, healthy, ~c.dirty, NEW d, Candidacy(d)
    PROVE  LET t == Committed(Switched(InvalidateLookup(Begun(d)), d), d)
           IN  /\ t \in Runtime /\ Linked(t) /\ Working(t, sent) /\ t.transaction = d.rev /\ ~t.dirty
               /\ t.staged = t.active /\ (d.crowd <=> t.active # None)
               /\ t.active # None => /\ t.active.key = d.key /\ t.cont[d.gen] = t.active.store
                                     /\ t.active.lease = t.active.store
<1> DEFINE b == Begun(d)
           i == InvalidateLookup(b)
           w == Switched(i, d)
           s == Selected
           a == Activate(w, s)
           t == Committed(w, d)
<1>1. /\ b \in Runtime /\ Linked(b) /\ Working(b, sent) /\ b.workers = c.workers
      /\ b.active = c.active /\ b.staged = s /\ b.transaction = d.rev
      /\ b.epoch = c.epoch /\ Unwritten(c, b)
    BY BegunShape
<1> HIDE DEF b
<1>2. i \in Runtime /\ Untouched(b, i) /\ Unwritten(b, i)
    BY <1>1, Invalidated, Zenon
<1> HIDE DEF i
<1>3. /\ w \in Runtime /\ Untouched(i, w) /\ w.dirty = i.dirty
      /\ Activates(d) => w.cont[d.gen] = s.store
      /\ ~Activates(d) => w.cont = i.cont
    BY <1>2, SwitchedShape
<1> HIDE DEF w
<1>4. /\ Linked(w) /\ Working(w, sent) /\ w.active = c.active /\ w.staged = s
      /\ w.transaction = d.rev /\ w.epoch = c.epoch /\ ~w.dirty
      /\ ~Activates(d) => w.cont = c.cont
    BY <1>1, <1>2, <1>3, SameWorking, Zenon DEF Untouched, Unwritten, Linked
<1>5. t = IF Activates(d) THEN [SetActive(a, RecordLeases(a.active)) EXCEPT !.wake = TRUE] ELSE a
    BY Zenon DEF Committed
<1>6. CASE s = None
    <2>1. ~d.crowd /\ ~Activates(d)
        BY <1>6, Zenon DEF Candidacy, Activates
    <2>2. t = Activate(w, None)
        BY <1>5, <1>6, <2>1, Zenon
    <2> DEFINE u == Activate(w, None)
    <2>3. /\ u \in Runtime /\ Linked(u) /\ Still(u) /\ u.staged = w.staged
          /\ u.transaction = w.transaction /\ u.active = None
          /\ u.dirty = IF w.active = None THEN w.dirty ELSE FALSE
        BY <1>3, <1>4, Deactivated, Zenon
    <2>4. Working(u, sent) /\ ~u.dirty
        BY <1>4, <2>3, StillWorking, Zenon
    <2> HIDE DEF u, t
    <2>5. t = u
        BY <2>2, Zenon DEF u
    <2> QED BY <1>4, <1>6, <2>1, <2>3, <2>4, <2>5, Zenon DEF t, w, i, b
<1>7. CASE s # None
    <2>1. /\ s \in State /\ s.epoch <= c.epoch /\ s.key = d.key /\ d.crowd /\ d.gen # 0
          /\ Same(c.active, s) \/ s.store = sent[s.key]
        BY <1>7, Zenon DEF Candidacy
    <2>2. Same(c.active, s) => s = c.active
        BY <1>7, Zenon DEF Candidacy, Same
    <2> HIDE DEF s
    <2>3. /\ a \in Runtime /\ Working(a, sent)
          /\ (w.staged # None /\ w.staged.epoch = s.epoch => w.staged = s) => Linked(a)
          /\ a.staged = w.staged /\ a.transaction = w.transaction /\ a.epoch = w.epoch
          /\ a.cont = w.cont
          /\ a.active = IF Same(w.active, s) THEN w.active ELSE s
          /\ a.dirty = IF Same(w.active, s) THEN w.dirty ELSE FALSE
        BY <1>3, <1>4, <2>1, Activated, ZenonT(40)
    <2>4. a.active = s /\ ~a.dirty /\ Linked(a)
        BY <1>4, <2>2, <2>3, Zenon
    <2> HIDE DEF a
    <2>5. CASE ~Activates(d)
        <3>1. d.gen = disk.gen /\ s = c.active
            BY <2>1, <2>5, Zenon DEF Activates, Candidacy, s
        <3>2. a.cont[d.gen] = s.store /\ s.lease = s.store
            BY <1>4, <1>7, <2>3, <2>5, <3>1, Zenon DEF Good, Enforced, Accurate
        <3>3. t = a
            BY <1>5, <2>5, Zenon
        <3> HIDE DEF t
        <3> QED BY <1>4, <1>7, <2>1, <2>3, <2>4, <3>2, <3>3, Zenon DEF t, w, i, b
    <2>6. CASE Activates(d)
        <3> DEFINE l == RecordLeases(a.active)
                   u == SetActive(a, l)
        <3>1. /\ l \in State /\ l.epoch = s.epoch /\ l.key = s.key /\ l.store = s.store
              /\ l.lease = s.store
            BY <2>1, <2>4, LeasesRecorded, Zenon
        <3>2. l # None
            BY <3>1, CrowdAssumption, Zenon
        <3> HIDE DEF l
        <3>3. /\ u \in Runtime /\ Unwritten(a, u)
              /\ u.transaction = a.transaction /\ u.workers = a.workers /\ u.epoch = a.epoch
              /\ u.active = l
              /\ u.staged = IF a.staged # None /\ a.staged.epoch = l.epoch THEN l ELSE a.staged
            BY <2>3, <3>1, ActiveSet
        <3>4. t = [u EXCEPT !.wake = TRUE]
            BY <1>5, <2>6, Zenon DEF l
        <3> HIDE DEF u, t
        <3>5. t \in Runtime /\ Untouched(u, t) /\ Unwritten(u, t)
            BY <3>3, <3>4, ZenonT(40) DEF Runtime, Untouched, Unwritten
        <3>6. /\ t.active = l /\ t.staged = l /\ t.transaction = d.rev /\ ~t.dirty
              /\ t.cont[d.gen] = l.store /\ t.epoch = c.epoch /\ t.workers = a.workers
            BY <1>3, <1>4, <1>7, <2>3, <2>4, <2>6, <3>1, <3>3, <3>5, Zenon DEF Untouched, Unwritten
        <3>7. Working(t, sent)
            <4>1. Twin(a.active, t.active)
                BY <1>7, <2>4, <3>1, <3>2, <3>6, Zenon DEF Twin
            <4> QED BY <2>3, <3>6, <4>1, TwinWorking, Zenon
        <3>8. Linked(t)
            BY <2>1, <3>1, <3>6, Zenon DEF Linked
        <3> QED BY <2>1, <3>1, <3>2, <3>5, <3>6, <3>7, <3>8, Zenon DEF t, w, i, b
    <2> QED BY <2>5, <2>6, Zenon
<1> QED BY <1>6, <1>7, Zenon

\* A committed apply, completed or left to recovery.
LEMMA CommittedGood ==
    ASSUME TypeOK, Good, NEW d, Candidacy(d), ApplyCommitted(d, 0)
    PROVE  TypeOK' /\ Good'
<1> DEFINE t == Committed(Switched(InvalidateLookup(Begun(d)), d), d)
<1>1. /\ Applying(0) /\ disk' = d
      /\ \/ /\ UNCHANGED <<journal, healthy, recovering>>
            /\ c' = PublishLookup(Finish(t, None, 0), ViewOf(d.rev, t.active))
         \/ /\ healthy' = FALSE /\ recovering' = TRUE /\ journal' \in {None, d}
            /\ c' = AbortLookup(Finish(t, journal', 0))
    BY Zenon DEF ApplyCommitted
<1>2. /\ closing = "no" /\ healthy /\ ~c.dirty /\ app' = Idle /\ journal = None /\ ~recovering
      /\ UNCHANGED <<closing, applies, lapi, sent>>
    BY <1>1, ApplyingQuiet, Zenon
<1>3. /\ t \in Runtime /\ Linked(t) /\ Working(t, sent) /\ t.transaction = d.rev /\ ~t.dirty
      /\ t.staged = t.active /\ (d.crowd <=> t.active # None)
      /\ t.active # None => /\ t.active.key = d.key /\ t.cont[d.gen] = t.active.store
                            /\ t.active.lease = t.active.store
    BY <1>2, CommittedShape
<1> HIDE DEF t
<1>4. /\ d \in Revision /\ d.rev # 0 /\ d # None /\ d.rev <= applies /\ d.gen <= applies
      /\ d.rev \in 0 .. MaxApply
    BY Zenon DEF Candidacy, Revision
<1> DEFINE v == Discard(t)
<1>5. /\ v \in Runtime /\ Linked(v) /\ Working(v, sent) /\ v.active = t.active /\ v.transaction = 0
      /\ Unwritten(t, v)
    BY <1>3, Discarded, Zenon
<1>6. Finish(t, None, 0) = v
    BY FinishedDiscards, Zenon
<1> HIDE DEF v
<1>7. ASSUME Untouched(v, c'), Unwritten(v, c'), c' \in Runtime, healthy' \in BOOLEAN,
             recovering' \in BOOLEAN, journal' = None, Shows(c', d, journal', healthy')
      PROVE  TypeOK' /\ Good'
    <2>1. /\ Linked(c') /\ Working(c', sent) /\ c'.transaction = 0 /\ c'.active = t.active
          /\ c'.dirty = t.dirty /\ c'.cont = t.cont
        BY <1>5, <1>7, SameWorking, Zenon DEF Untouched, Unwritten, Linked
    <2>2. Accurate(c', d, healthy')
        BY <1>3, <2>1, Zenon DEF Accurate
    <2>3. c'.active # None => d.crowd /\ c'.active.key = d.key
        BY <1>3, <2>1, Zenon
    <2>4. closing = "no" /\ c'.dirty => c'.active # None
        BY <1>3, <2>1, Zenon
    <2> QED BY <1>1, <1>2, <1>4, <1>7, <2>1, <2>2, <2>3, <2>4, SettledGood, IdleCall, Zenon
<1>8. CASE /\ UNCHANGED <<journal, healthy, recovering>>
           /\ c' = PublishLookup(Finish(t, None, 0), ViewOf(d.rev, t.active))
    <2> DEFINE x == ViewOf(d.rev, t.active)
    <2>1. t.active \in State \cup {None}
        BY <1>3, Zenon DEF Runtime
    <2>2. /\ x \in View /\ x.rev = d.rev
          /\ t.active # None => x.epoch = t.active.epoch /\ x.dyn = t.active.lease
          /\ t.active = None => x.dyn = {}
        BY <1>4, <2>1, ViewShape, Zenon
    <2>3. c' = PublishLookup(v, x)
        BY <1>6, <1>8, Zenon
    <2> HIDE DEF x
    <2>4. c' \in Runtime /\ Untouched(v, c') /\ Unwritten(v, c') /\ c'.view = x /\ c'.fallback = None
        BY <1>5, <2>2, <2>3, Published, Zenon
    <2>5. c'.active = t.active /\ ~c'.dirty /\ c'.cont = t.cont
        BY <1>3, <1>5, <2>4, Zenon DEF Untouched, Unwritten
    <2>6. Shows(c', d, journal', healthy')
        BY <1>2, <1>3, <1>8, <2>2, <2>4, <2>5, Zenon DEF Shows
    <2>7. journal' = None /\ healthy' \in BOOLEAN /\ recovering' \in BOOLEAN
        BY <1>2, <1>8, Zenon DEF TypeOK
    <2> QED BY <1>7, <2>4, <2>6, <2>7, Zenon
<1>9. CASE /\ healthy' = FALSE /\ recovering' = TRUE /\ journal' = None
           /\ c' = AbortLookup(Finish(t, None, 0))
    <2>1. c' \in Runtime /\ Untouched(v, c') /\ Unwritten(v, c') /\ c'.view = None /\ c'.fallback = None
        BY <1>5, <1>6, <1>9, Aborted, Zenon
    <2>2. Shows(c', d, journal', healthy')
        BY <2>1, Zenon DEF Shows
    <2> QED BY <1>7, <1>9, <2>1, <2>2, Zenon
<1>10. CASE /\ healthy' = FALSE /\ recovering' = TRUE /\ journal' = d
            /\ c' = AbortLookup(Finish(t, d, 0))
    <2>1. Finish(t, d, 0) = t
        BY <1>3, <1>4, Zenon DEF Finish
    <2>2. c' \in Runtime /\ Untouched(t, c') /\ Unwritten(t, c') /\ c'.view = None /\ c'.fallback = None
        BY <1>3, <1>10, <2>1, Aborted, Zenon
    <2>3. /\ Linked(c') /\ Working(c', sent) /\ c'.transaction = d.rev /\ c'.active = t.active
          /\ ~c'.dirty /\ c'.staged = t.active
        BY <1>3, <2>2, SameWorking, Zenon DEF Untouched, Unwritten, Linked
    <2>4. IF c'.staged = None THEN ~d.crowd
          ELSE /\ d.crowd /\ c'.staged.key = d.key
               /\ \/ c'.active # None /\ c'.active.epoch = c'.staged.epoch
                  \/ Still(c') /\ c'.staged.store = sent[c'.staged.key]
        BY <1>3, <2>3, Zenon
    <2>5. disk' # disk /\ disk' \in {disk, d}
        BY <1>1, Zenon DEF Candidacy
    <2> QED BY <1>2, <1>10, <2>2, <2>3, <2>4, <2>5, PendingGood, Zenon
<1> QED BY <1>1, <1>8, <1>9, <1>10, Zenon

----------------------------------------------------------------------------
(* Recovery.                                                               *)

\* A recovery that could not settle keeps what the transaction may select.
LEMMA UnsettledGood ==
    ASSUME TypeOK, Good, RecoverStatic, NEW r \in Runtime, c' = AbortLookup(r),
           Linked(r), r.workers = c.workers, r.active = c.active, r.staged = c.staged,
           r.transaction = c.transaction, r.dirty = c.dirty \/ (InDoubt /\ c.staged # None),
           journal' \in {journal, None}, healthy' = FALSE, recovering' = TRUE
    PROVE  TypeOK' /\ Good'
<1>1. /\ app.pc = "idle" /\ closing = "no"
      /\ UNCHANGED <<disk, closing, app, applies, lapi, sent>>
    BY Zenon DEF RecoverStatic
<1>2. c' \in Runtime /\ Untouched(r, c') /\ Unwritten(r, c') /\ c'.view = None /\ c'.fallback = None
    BY Aborted, Zenon
<1>3. /\ c'.workers = c.workers /\ c'.active = c.active /\ c'.staged = c.staged
      /\ c'.transaction = c.transaction /\ c'.dirty = r.dirty
    BY <1>2, Zenon DEF Untouched, Unwritten
<1>4. TypeOK'
    BY <1>1, <1>2, Zenon DEF TypeOK
<1>5. Linked(c)'
    BY <1>2, Zenon DEF Linked, Untouched
<1>6. Working(c, sent)' /\ (Still(c) <=> Still(c'))
    BY <1>1, <1>3, SameWorking, Zenon DEF Good, Still
<1>7. InDoubt' <=> InDoubt
    BY <1>1, <1>3, Zenon DEF InDoubt
<1>8. Numbered' /\ Fenced' /\ Keyed' /\ Owed'
    BY <1>1, <1>3, <1>7, Zenon DEF Good, Numbered, Fenced, Keyed, Owed
<1>9. Retained'
    BY <1>1, <1>3, <1>6, <1>7, Zenon DEF Good, Retained
<1>10. Staging'
    BY <1>1, IdleStaging, Zenon
<1>11. Enforced' /\ Shown'
    BY <1>2, Zenon DEF Enforced, Shown, Accurate, Shows
<1> QED BY <1>4, <1>5, <1>6, <1>8, <1>9, <1>10, <1>11, Zenon DEF Good

\* Static recovery fails: everything is kept for the next attempt.
LEMMA RecoverFailsGood ==
    ASSUME TypeOK, Good, RecoverFails, recovering' = ~healthy'
    PROVE  TypeOK' /\ Good'
<1>1. RecoverStatic /\ healthy' = FALSE /\ journal' = journal /\ c' = AbortLookup(c)
    BY Zenon DEF RecoverFails
<1>2. recovering' = TRUE
    BY <1>1, Zenon
<1>3. c \in Runtime /\ Linked(c)
    BY Zenon DEF TypeOK, Good
<1> QED BY <1>1, <1>2, <1>3, UnsettledGood, Zenon

\* A recovery that settles: the active state, if there is one, is the durable
\* revision's, and its projection is written.
LEMMA RecoveredGood ==
    ASSUME TypeOK, Good, RecoverStatic, journal' = None, recovering' = ~healthy',
           NEW r \in Runtime, NEW n, Recovered(r, n), Linked(r), Working(r, sent),
           r.transaction = 0, ~r.dirty,
           r.active # None => /\ disk.crowd /\ r.active.key = disk.key
                              /\ r.cont[disk.gen] = r.active.store /\ r.active.lease = r.active.store,
           disk.crowd /\ r.active = None => r.view = None /\ r.fallback = None
    PROVE  TypeOK' /\ Good'
<1>1. /\ app.pc = "idle" /\ closing = "no" /\ app \in Call /\ disk \in Revision
      /\ UNCHANGED <<disk, closing, app, applies, lapi, sent>>
      /\ disk.rev <= applies /\ disk.gen <= applies
    BY Zenon DEF RecoverStatic, TypeOK, Good, Numbered
<1> DEFINE v == ViewOf(disk.rev, r.active)
<1>2. disk.rev \in 0 .. MaxApply /\ r.active \in State \cup {None}
    BY <1>1, Zenon DEF Revision, Runtime
<1>3. /\ v \in View /\ v.rev = disk.rev
      /\ r.active # None => v.epoch = r.active.epoch /\ v.dyn = r.active.lease
      /\ r.active = None => v.dyn = {}
    BY <1>2, ViewShape, Zenon
<1>4. ASSUME c' \in Runtime, Untouched(r, c'), Unwritten(r, c'), healthy' \in BOOLEAN,
             Shows(c', disk, None, healthy')
      PROVE  TypeOK' /\ Good'
    <2>1. /\ Linked(c') /\ Working(c', sent) /\ c'.transaction = 0 /\ c'.active = r.active
          /\ c'.dirty = r.dirty /\ c'.cont = r.cont
        <3>1. /\ c'.active = r.active /\ c'.staged = r.staged /\ c'.epoch = r.epoch
              /\ c'.workers = r.workers /\ c'.transaction = 0
              /\ c'.dirty = r.dirty /\ c'.cont = r.cont
            BY <1>4, Zenon DEF Untouched, Unwritten
        <3>2. Linked(c')
            BY <3>1, Zenon DEF Linked
        <3>3. Working(c', sent)
            BY <3>1, SameWorking, Zenon
        <3> QED BY <3>1, <3>2, <3>3, Zenon
    <2>2. Accurate(c', disk, healthy')
        BY <2>1, Zenon DEF Accurate
    <2>3. recovering' \in BOOLEAN
        OBVIOUS
    <2>4. c'.active # None => disk.crowd /\ c'.active.key = disk.key
        BY <2>1, Zenon
    <2>5. ~c'.dirty /\ Shows(c', disk', journal', healthy') /\ Accurate(c', disk', healthy')
        BY <1>1, <1>4, <2>1, <2>2, Zenon
    <2> QED BY <1>1, <1>4, <2>1, <2>3, <2>4, <2>5, SettledGood, Zenon
<1> HIDE DEF v
<1>5. CASE healthy' = FALSE /\ c' = AbortLookup(r)
    <2>1. c' \in Runtime /\ Untouched(r, c') /\ Unwritten(r, c') /\ c'.view = None /\ c'.fallback = None
        BY <1>5, Aborted, Zenon
    <2>2. Shows(c', disk, None, healthy')
        BY <2>1, Zenon DEF Shows
    <2> QED BY <1>4, <1>5, <2>1, <2>2, Zenon
<1>6. CASE healthy' = TRUE /\ disk.crowd /\ r.active = None /\ c' = r
    <2>1. Untouched(r, c') /\ Unwritten(r, c') /\ Shows(c', disk, None, healthy')
        BY <1>6, Zenon DEF Untouched, Unwritten, Shows
    <2> QED BY <1>4, <1>6, <2>1, Zenon
<1>7. CASE healthy' = TRUE /\ ~(disk.crowd /\ r.active = None) /\ c' = PublishLookup(r, v)
    <2>1. c' \in Runtime /\ Untouched(r, c') /\ Unwritten(r, c') /\ c'.view = v /\ c'.fallback = None
        BY <1>3, <1>7, Published, Zenon
    <2>2. c'.active = r.active /\ c'.dirty = r.dirty /\ c'.cont = r.cont
        BY <2>1, Zenon DEF Untouched, Unwritten
    <2>3. Shows(c', disk, None, healthy')
        BY <1>3, <1>7, <2>1, <2>2, Zenon DEF Shows
    <2> QED BY <1>4, <1>7, <2>1, <2>3, Zenon
<1> QED BY <1>5, <1>6, <1>7, Zenon DEF Recovered, v

\* The transaction was undone, or there was none: the active state stays.
LEMMA RecoverActiveGood ==
    ASSUME TypeOK, Good, RecoverActive, recovering' = ~healthy'
    PROVE  TypeOK' /\ Good'
<1> DEFINE i == InvalidateLookup(c)
           t == Discard(i)
<1>1. /\ RecoverStatic /\ closing = "no" /\ journal' = None /\ ~InDoubt
    BY Zenon DEF RecoverActive, RecoverStatic, SelectsStaged, InDoubt
<1>2. /\ i \in Runtime /\ Untouched(c, i) /\ Unwritten(c, i) /\ i.view = None
      /\ i.fallback = IF c.view # None THEN c.view ELSE c.fallback
    BY Invalidated, Zenon DEF TypeOK
<1>3. \/ t.active = None /\ Recovered(t, 0)
      \/ t.active # None /\ ~disk.crowd
      \/ /\ t.active # None /\ disk.crowd
         /\ \E o \in ReconcileActive(t, disk, None, TRUE) :
               \/ o.ok /\ Recovered(o.r, o.faults)
               \/ ~o.ok /\ NotRecovered(o.r, o.faults)
    BY Zenon DEF RecoverActive
<1> HIDE DEF i
<1>4. Linked(i) /\ Working(i, sent)
    BY <1>2, SameWorking, Zenon DEF Good, Linked, Untouched
<1>5. /\ t \in Runtime /\ Linked(t) /\ Working(t, sent)
      /\ t.active = i.active /\ t.staged = None /\ t.transaction = 0
      /\ t.view = i.view /\ t.fallback = i.fallback /\ Unwritten(i, t)
    BY <1>2, <1>4, Discarded, Zenon
<1> HIDE DEF t
<1>6. t.active = c.active /\ t.dirty = c.dirty
    BY <1>2, <1>5, Zenon DEF Untouched, Unwritten
<1>7. t.active # None => disk.crowd /\ t.active.key = disk.key
    BY <1>1, <1>6, Zenon DEF Good, Keyed
<1>8. CASE t.active = None /\ Recovered(t, 0)
    <2>1. ~t.dirty
        BY <1>1, <1>6, <1>8, Zenon DEF Good, Owed
    <2>2. disk.crowd /\ t.active = None => t.view = None /\ t.fallback = None
        BY <1>2, <1>5, <1>6, Zenon DEF Good, Shown, Shows
    <2> QED BY <1>1, <1>5, <1>8, <2>1, <2>2, RecoveredGood, Zenon
<1>9. CASE /\ t.active # None
           /\ \E o \in ReconcileActive(t, disk, None, TRUE) :
                 \/ o.ok /\ Recovered(o.r, o.faults)
                 \/ ~o.ok /\ NotRecovered(o.r, o.faults)
    <2>1. PICK o \in ReconcileActive(t, disk, None, TRUE) :
                 \/ o.ok /\ Recovered(o.r, o.faults)
                 \/ ~o.ok /\ NotRecovered(o.r, o.faults)
        BY <1>9, Zenon
    <2>2. Concerns(t, disk) /\ disk \in Revision /\ t.active # None
        BY <1>2, <1>5, <1>9, Zenon DEF Good, Shown, Shows, Concerns, TypeOK
    <2>3. /\ o.r \in Runtime /\ Linked(o.r) /\ o.ok \in BOOLEAN
          /\ o.r.transaction = t.transaction /\ o.r.workers = t.workers
          /\ o.r.active # None /\ Twin(t.active, o.r.active)
          /\ o.ok => /\ ~o.r.dirty /\ o.r.cont[disk.gen] = o.r.active.store
                     /\ o.r.active.lease = o.r.active.store
          /\ ~o.ok => o.r.dirty /\ o.r.view = None
        <3> DEFINE h == TRUE
        <3>1. h \in BOOLEAN /\ o \in ReconcileActive(t, disk, None, h)
            BY <2>1, Zenon
        <3> HIDE DEF h
        <3> QED BY <1>1, <1>5, <2>2, <3>1, ActiveReconciled
    <2>4. Working(o.r, sent) /\ disk.crowd /\ o.r.active.key = disk.key /\ o.r.transaction = 0
        <3>1. Working(o.r, sent)
            BY <1>5, <2>3, TwinWorking, Zenon
        <3> QED BY <1>5, <1>7, <2>2, <2>3, <3>1, Zenon DEF Twin
    <2>5. CASE o.ok /\ Recovered(o.r, o.faults)
        BY <1>1, <2>3, <2>4, <2>5, RecoveredGood, Zenon
    <2>6. CASE ~o.ok /\ NotRecovered(o.r, o.faults)
        <3>1. healthy' = FALSE /\ c' = AbortLookup(o.r)
            BY <2>6, Zenon DEF NotRecovered
        <3>2. /\ c' \in Runtime /\ Untouched(o.r, c') /\ Unwritten(o.r, c')
              /\ c'.view = None /\ c'.fallback = None
            BY <2>3, <3>1, Aborted, Zenon
        <3>3. c'.transaction = 0 /\ c'.active = o.r.active /\ c'.workers = o.r.workers
            BY <2>4, <3>2, Zenon DEF Untouched
        <3>6. Linked(c') /\ Working(c', sent)
            BY <2>3, <2>4, <3>2, <3>3, SameWorking, Zenon DEF Untouched, Linked
        <3>4. Accurate(c', disk, healthy') /\ Shows(c', disk, None, healthy')
            BY <3>1, <3>2, Zenon DEF Accurate, Shows
        <3>5. /\ app.pc = "idle" /\ app \in Call /\ disk \in Revision /\ recovering' \in BOOLEAN
              /\ UNCHANGED <<disk, closing, app, applies, lapi, sent>>
              /\ disk.rev <= applies /\ disk.gen <= applies
            <4>1. recovering' \in BOOLEAN
                OBVIOUS
            <4> QED BY <1>1, <4>1, Zenon DEF RecoverStatic, TypeOK, Good, Numbered
        <3> QED BY <1>1, <2>3, <2>4, <3>1, <3>2, <3>3, <3>4, <3>5, <3>6, SettledGood, Zenon
    <2> QED BY <2>1, <2>5, <2>6, Zenon
<1> QED BY <1>3, <1>7, <1>8, <1>9, Zenon

\* The staged state was committed: it becomes the active one once it is written.
LEMMA SelectedActivated ==
    ASSUME TypeOK, Good, closing = "no", InDoubt, c.staged # None,
           NEW q \in Runtime, Untouched(c, q), ~q.dirty, q.cont[disk.gen] = c.staged.store
    PROVE  LET s == RecordLeases(c.staged)
               u == IF Same(c.active, s) THEN SetActive(q, s) ELSE Activate(q, s)
               r == [u EXCEPT !.staged = None, !.transaction = 0]
           IN  /\ r \in Runtime /\ Linked(r) /\ Working(r, sent) /\ r.transaction = 0 /\ ~r.dirty
               /\ r.active # None /\ disk.crowd /\ r.active.key = disk.key
               /\ r.cont[disk.gen] = r.active.store /\ r.active.lease = r.active.store
<1> DEFINE s == RecordLeases(c.staged)
           u == IF Same(c.active, s) THEN SetActive(q, s) ELSE Activate(q, s)
           r == [u EXCEPT !.staged = None, !.transaction = 0]
<1>1. /\ s \in State /\ s.epoch = c.staged.epoch /\ s.key = c.staged.key
      /\ s.store = c.staged.store /\ s.lease = c.staged.store
    <2>1. c.staged \in State
        BY Zenon DEF TypeOK, Runtime
    <2> QED BY <2>1, LeasesRecorded, Zenon
<1>2. s # None
    BY <1>1, CrowdAssumption, Zenon
<1>3. /\ disk.crowd /\ s.key = disk.key /\ s.epoch <= c.epoch
      /\ Same(c.active, s) \/ s.store = sent[s.key]
    BY <1>1, <1>2, Zenon DEF Good, Retained, Same, Linked
<1> HIDE DEF s
<1>4. /\ q.active = c.active /\ q.staged = c.staged /\ q.epoch = c.epoch /\ q.workers = c.workers
      /\ Linked(q) /\ Working(q, sent)
    <2>1. q.active = c.active /\ q.staged = c.staged /\ q.epoch = c.epoch /\ q.workers = c.workers
        BY Zenon DEF Untouched
    <2>2. Linked(q)
        BY <2>1, Zenon DEF Good, Linked
    <2>3. Working(q, sent)
        BY <2>1, SameWorking, Zenon DEF Good
    <2> QED BY <2>1, <2>2, <2>3, Zenon
<1>5. /\ u \in Runtime /\ Working(u, sent) /\ u.active = s /\ ~u.dirty
      /\ u.epoch = c.epoch /\ u.cont = q.cont
    <2>1. CASE Same(c.active, s)
        <3> DEFINE v == SetActive(q, s)
        <3>1. /\ v \in Runtime /\ Unwritten(q, v) /\ v.workers = q.workers /\ v.epoch = q.epoch
              /\ v.active = s
            BY <1>1, ActiveSet
        <3> HIDE DEF v
        <3>2. Twin(q.active, v.active)
            BY <1>1, <1>2, <1>4, <2>1, <3>1, Zenon DEF Same, Good, Linked, Twin
        <3>3. Working(v, sent)
            BY <1>4, <3>1, <3>2, TwinWorking, Zenon
        <3>4. u = v
            BY <2>1, Zenon DEF v
        <3> HIDE DEF u
        <3> QED BY <1>4, <3>1, <3>3, <3>4, Zenon DEF Unwritten
    <2>2. CASE ~Same(c.active, s)
        <3> DEFINE v == Activate(q, s)
        <3>1. /\ v \in Runtime /\ Working(v, sent) /\ v.epoch = q.epoch /\ v.cont = q.cont
              /\ v.active = IF Same(q.active, s) THEN q.active ELSE s
              /\ v.dirty = IF Same(q.active, s) THEN q.dirty ELSE FALSE
            BY <1>1, <1>3, <1>4, Activated, ZenonT(40)
        <3> HIDE DEF v
        <3>2. u = v
            BY <2>2, Zenon DEF v
        <3> HIDE DEF u
        <3> QED BY <1>4, <2>2, <3>1, <3>2, Zenon
    <2> QED BY <2>1, <2>2, Zenon
<1> HIDE DEF u
<1>6. /\ r \in Runtime /\ r.workers = u.workers /\ r.active = u.active /\ r.dirty = u.dirty
      /\ r.cont = u.cont /\ r.epoch = u.epoch /\ r.staged = None /\ r.transaction = 0
    <2>1. 0 \in 0 .. MaxApply
        BY CrowdAssumption
    <2> QED BY <1>5, <2>1, ZenonT(40) DEF Runtime
<1> HIDE DEF r
<1>7. Working(r, sent)
    BY <1>5, <1>6, SameWorking, Zenon
<1>8. Linked(r)
    BY <1>3, <1>5, <1>6, Zenon DEF Linked
<1>9. /\ r \in Runtime /\ Linked(r) /\ Working(r, sent) /\ r.transaction = 0 /\ ~r.dirty
      /\ r.active # None /\ disk.crowd /\ r.active.key = disk.key
      /\ r.cont[disk.gen] = r.active.store /\ r.active.lease = r.active.store
    BY <1>1, <1>2, <1>3, <1>5, <1>6, <1>7, <1>8, Zenon
<1> QED BY <1>9, Zenon DEF r, u, s

\* The transaction was committed: its state is selected (crowdsec.go recoverLocked).
LEMMA RecoverStagedGood ==
    ASSUME TypeOK, Good, RecoverStaged, recovering' = ~healthy'
    PROVE  TypeOK' /\ Good'
<1> DEFINE t == InvalidateLookup(c)
<1>1. /\ RecoverStatic /\ closing = "no" /\ journal' = None /\ InDoubt
    BY Zenon DEF RecoverStaged, RecoverStatic, SelectsStaged, InDoubt
<1>2. \/ c.staged = None /\ Recovered([Activate(t, None) EXCEPT !.transaction = 0], 0)
      \/ /\ c.staged # None
         /\ \E o \in Reconcile(t, c.staged, disk, None, TRUE) :
              LET u == IF Same(c.active, o.s) THEN SetActive(o.r, o.s) ELSE Activate(o.r, o.s)
              IN  \/ /\ o.ok
                     /\ Recovered([u EXCEPT !.staged = None, !.transaction = 0], o.faults)
                  \/ ~o.ok /\ NotRecovered(o.r, o.faults)
    BY Zenon DEF RecoverStaged
<1>3. c \in Runtime /\ Linked(c) /\ Working(c, sent) /\ disk \in Revision /\ Concerns(c, disk)
    BY ShownConcerns, Zenon DEF TypeOK, Good
<1>4. /\ t \in Runtime /\ Untouched(c, t) /\ Unwritten(c, t) /\ t.view = None
      /\ t.fallback = IF c.view # None THEN c.view ELSE c.fallback
    BY <1>3, Invalidated, Zenon
<1> HIDE DEF t
<1>5. Linked(t) /\ Working(t, sent) /\ Concerns(t, disk)
    BY <1>3, <1>4, SameWorking, Zenon DEF Linked, Untouched, Concerns
<1>6. CASE c.staged = None /\ Recovered([Activate(t, None) EXCEPT !.transaction = 0], 0)
    <2> DEFINE a == Activate(t, None)
               r == [a EXCEPT !.transaction = 0]
    <2>1. /\ a \in Runtime /\ Linked(a) /\ Still(a) /\ a.active = None
          /\ a.dirty = IF t.active = None THEN t.dirty ELSE FALSE
        BY <1>4, <1>5, Deactivated, Zenon
    <2> HIDE DEF a
    <2>2. ~disk.crowd /\ ~a.dirty
        BY <1>1, <1>4, <1>6, <2>1, Zenon DEF Good, Retained, Owed, Untouched, Unwritten
    <2>3. /\ r \in Runtime /\ r.workers = a.workers /\ r.active = a.active /\ r.dirty = a.dirty
          /\ r.epoch = a.epoch /\ r.staged = a.staged /\ r.transaction = 0
        <3>1. 0 \in 0 .. MaxApply
            BY CrowdAssumption
        <3> QED BY <2>1, <3>1, ZenonT(40) DEF Runtime
    <2>4. Recovered(r, 0)
        BY <1>6, Zenon DEF a
    <2> HIDE DEF r
    <2>5. Linked(r) /\ Still(r) /\ ~r.dirty /\ r.active = None
        BY <2>1, <2>2, <2>3, Zenon DEF Linked, Still
    <2>6. Working(r, sent)
        BY <2>5, StillWorking, Zenon
    <2> QED BY <1>1, <2>2, <2>3, <2>4, <2>5, <2>6, RecoveredGood, Zenon
<1>7. ASSUME NEW o \in Reconcile(t, c.staged, disk, None, TRUE), c.staged # None
      PROVE  /\ o.r \in Runtime /\ Untouched(c, o.r)
             /\ o.ok => /\ o.s = RecordLeases(c.staged)
                        /\ ~o.r.dirty /\ o.r.cont[disk.gen] = c.staged.store
    <2> DEFINE h == TRUE
    <2>1. h \in BOOLEAN /\ o \in Reconcile(t, c.staged, disk, None, h) /\ c.staged \in State
        BY <1>3, <1>7, Zenon DEF Runtime
    <2> HIDE DEF h
    <2>2. /\ o \in Outcome /\ Untouched(t, o.r)
          /\ o.ok => /\ o.s = RecordLeases(c.staged)
                     /\ ~o.r.dirty /\ o.r.cont[disk.gen] = c.staged.store
        BY <1>1, <1>3, <1>4, <1>5, <2>1, Reconciled
    <2> QED BY <1>4, <2>2, Zenon DEF Outcome, Untouched
<1>8. ASSUME NEW o \in Reconcile(t, c.staged, disk, None, TRUE), c.staged # None, o.ok,
             Recovered([(IF Same(c.active, o.s) THEN SetActive(o.r, o.s) ELSE Activate(o.r, o.s))
                          EXCEPT !.staged = None, !.transaction = 0], o.faults)
      PROVE  TypeOK' /\ Good'
    <2> DEFINE s == RecordLeases(c.staged)
               r == [(IF Same(c.active, s) THEN SetActive(o.r, s) ELSE Activate(o.r, s))
                        EXCEPT !.staged = None, !.transaction = 0]
    <2>1. /\ o.r \in Runtime /\ Untouched(c, o.r) /\ o.s = s
          /\ ~o.r.dirty /\ o.r.cont[disk.gen] = c.staged.store
        BY <1>7, <1>8, Zenon
    <2>2. Recovered(r, o.faults)
        BY <1>8, <2>1, Zenon
    <2>3. /\ r \in Runtime /\ Linked(r) /\ Working(r, sent) /\ r.transaction = 0 /\ ~r.dirty
          /\ r.active # None /\ disk.crowd /\ r.active.key = disk.key
          /\ r.cont[disk.gen] = r.active.store /\ r.active.lease = r.active.store
        BY <1>1, <1>8, <2>1, SelectedActivated, Zenon
    <2> HIDE DEF r
    <2> QED BY <1>1, <2>2, <2>3, RecoveredGood, Zenon
<1>9. ASSUME NEW o \in Reconcile(t, c.staged, disk, None, TRUE), c.staged # None, ~o.ok,
             NotRecovered(o.r, o.faults)
      PROVE  TypeOK' /\ Good'
    <2>1. o.r \in Runtime /\ Untouched(c, o.r)
        BY <1>7, <1>9, Zenon
    <2>2. healthy' = FALSE /\ c' = AbortLookup(o.r) /\ recovering' = TRUE
        BY <1>9, Zenon DEF NotRecovered
    <2>3. /\ o.r.workers = c.workers /\ o.r.active = c.active /\ o.r.staged = c.staged
          /\ o.r.transaction = c.transaction /\ Linked(o.r)
        BY <1>3, <2>1, Zenon DEF Untouched, Linked
    <2> QED BY <1>1, <1>9, <2>1, <2>2, <2>3, UnsettledGood, Zenon
<1> QED BY <1>2, <1>6, <1>8, <1>9, Zenon

----------------------------------------------------------------------------
(* The invariant.                                                          *)

\* A fresh process has no client, shows nothing and knows of no transaction.
LEMMA InitGood ==
    ASSUME Init
    PROVE  TypeOK /\ Good
<1>1. /\ c.active = None /\ c.staged = None /\ c.transaction = 0 /\ c.workers = {} /\ c.epoch = 0
      /\ c.dirty = FALSE /\ c.connected = FALSE /\ c.open = {} /\ c.wake = FALSE /\ c.timer = FALSE
      /\ c.view = None /\ c.fallback = None /\ c.base = None
    BY Zenon DEF Init
<1>2. c \in Runtime
    <2>1. [g \in 0 .. MaxApply |-> {}] \in [0 .. MaxApply -> SUBSET Ban]
        OBVIOUS
    <2>2. 0 \in 0 .. MaxApply /\ 0 \in Nat /\ {} \in SUBSET (1 .. MaxApply) /\ {} \in SUBSET Poller
        BY CrowdAssumption
    <2> DEFINE f == [g \in 0 .. MaxApply |-> {}]
    <2> HIDE DEF f
    <2>3. c = [active |-> None, staged |-> None, transaction |-> 0, workers |-> {}, epoch |-> 0,
            dirty |-> FALSE, connected |-> FALSE, open |-> {}, wake |-> FALSE, timer |-> FALSE,
            view |-> None, fallback |-> None, base |-> None, cont |-> f]
        BY Zenon DEF Init, f
    <2> QED BY <2>1, <2>2, <2>3, ZenonT(40) DEF Runtime, f
<1>3. disk \in Revision /\ disk.rev \in 0 .. 1 /\ disk.gen \in 0 .. 1
    <2>1. 0 \in 0 .. MaxApply /\ 1 \in 0 .. MaxApply /\ 0 \in 0 .. 1 /\ 1 \in 0 .. 1
        BY CrowdAssumption
    <2>2. CASE disk = NoRevision
        BY <2>1, <2>2, Zenon DEF NoRevision, Revision
    <2>3. ASSUME NEW k \in Key, disk = [rev |-> 1, gen |-> 1, crowd |-> TRUE, key |-> k]
          PROVE  disk \in Revision /\ disk.rev \in 0 .. 1 /\ disk.gen \in 0 .. 1
        BY <2>1, <2>3, Zenon DEF Revision
    <2> QED BY <2>2, <2>3, Zenon DEF Init
<1>4. app \in Call /\ app.pc = "idle" /\ recovering = FALSE /\ journal = None /\ closing = "no"
    BY IdleCall, Zenon DEF Init
<1>5. applies = 1 /\ applies \in 1 .. MaxApply
    BY CrowdAssumption DEF Init
<1>6. sent \in [Key -> SUBSET Ban] /\ lapi \in SUBSET Ban /\ healthy \in BOOLEAN
    BY DEF Init
<1>7. closing \in {"no", "flag", "done"} /\ recovering \in BOOLEAN
    BY <1>4, Zenon
<1>8. TypeOK
    BY <1>2, <1>3, <1>4, <1>5, <1>6, <1>7, Zenon DEF TypeOK
<1>9. Numbered
    <2>1. disk.rev <= applies /\ disk.gen <= applies
        BY <1>3, <1>5
    <2> QED BY <1>4, <2>1, Zenon DEF Numbered
<1>10. Linked(c) /\ Working(c, sent) /\ Keyed /\ Retained /\ Owed
    BY <1>1, Zenon DEF Linked, Working, Keyed, Retained, Owed, InDoubt
<1>11. Fenced /\ Enforced /\ Shown
    BY <1>1, <1>4, Zenon DEF Fenced, Enforced, Shown, Accurate, Shows
<1>12. Staging
    <2>1. "idle" # "polled" /\ "idle" # "locked" /\ "idle" \notin {"join", "poll", "polled"}
        OBVIOUS
    <2> QED BY <1>4, <2>1, Zenon DEF Staging
<1> QED BY <1>8, <1>9, <1>10, <1>11, <1>12, Zenon DEF Good

\* No step undoes the count of failed reads.
LEMMA UnreadGrows ==
    ASSUME unread \in Nat, Next
    PROVE  unread' \in Nat /\ (unread' = 0 => unread = 0)
<1>1. unread' = unread \/ \E lost \in 0 .. 1 : Read(lost)
    <2>1. CASE \E kind \in {"reload", "refresh"}, crowd \in BOOLEAN, k \in Key : Stage(kind, crowd, k)
        BY <2>1, Zenon DEF Stage
    <2>2. CASE ApplyStep
        BY <2>2, Zenon DEF ApplyStep, Join, StagePoll, StageDone, StageFailed, ApplyRejected, Rejected,
            ApplyRolledBack, ApplyUnknown, ApplyCommitted, Applying
    <2>3. CASE \E w \in c.workers : PollStep(w)
        BY <2>3, Zenon DEF PollStep, Poll, PollClosed, PollStops, PollFailed, PollFull,
            PollIncrement, Receives
    <2>4. CASE ExpiryArm \/ Maintain
        BY <2>4, Zenon DEF ExpiryArm, Maintain
    <2>5. CASE Recover
        BY <2>5, Zenon DEF Recover, RecoverFails, RecoverStaged, RecoverActive, RecoverStatic
    <2>6. CASE CloseBegins \/ CloseEnds \/ \E b \in Ban : LapiChanges(b)
        BY <2>6, Zenon DEF CloseBegins, CloseEnds, LapiChanges
    <2> QED BY <2>1, <2>2, <2>3, <2>4, <2>5, <2>6, Zenon DEF Next
<1>2. CASE unread' = unread
    BY <1>2
<1>3. CASE \E lost \in 0 .. 1 : Read(lost)
    BY <1>3 DEF Read
<1> QED BY <1>1, <1>2, <1>3, Zenon

\* Every outcome of an apply whose last read of the store succeeds.
LEMMA ApplyStepGood ==
    ASSUME TypeOK, Good, unread = 0, unread' = 0, ApplyStep
    PROVE  TypeOK' /\ Good'
<1>1. ASSUME NEW lost \in 0 .. 1, Read(lost)
      PROVE  lost = 0
    BY <1>1 DEF Read
<1>2. CASE Join \/ StagePoll \/ StageDone
    BY <1>2, JoinGood, StagePollGood, StageDoneGood, Zenon
<1>3. ASSUME NEW lost \in 0 .. 1, StageFailed(lost) \/ ApplyRejected(lost)
      PROVE  TypeOK' /\ Good'
    <2>1. Read(lost) /\ Rejected(lost) /\ (app.pc = "failed" \/ app.pc = "locked")
        BY <1>3, Zenon DEF StageFailed, ApplyRejected, Rejected
    <2>2. Rejected(0)
        BY <1>1, <1>3, <2>1, Zenon
    <2>3. "failed" # "idle" /\ "locked" # "idle"
        OBVIOUS
    <2> QED BY <2>1, <2>2, <2>3, RejectedGood, Zenon
<1>4. ASSUME NEW lost \in 0 .. 1, NEW shared \in {FALSE, MayShare}, NEW d, d = Candidate(shared),
             ApplyRolledBack(d, lost) \/ ApplyUnknown(d, lost) \/ ApplyCommitted(d, lost)
      PROVE  TypeOK' /\ Good'
    <2>1. Applying(lost)
        BY <1>4, Zenon DEF ApplyRolledBack, ApplyUnknown, ApplyCommitted
    <2>2. lost = 0
        BY <1>1, <1>4, <2>1, Zenon DEF Applying
    <2>3. Candidacy(d)
        BY <1>4, <2>1, <2>2, CandidateShape, Zenon
    <2>4. ApplyRolledBack(d, 0) \/ ApplyUnknown(d, 0) \/ ApplyCommitted(d, 0)
        BY <1>4, <2>2, Zenon
    <2> QED BY <2>3, <2>4, RolledBackGood, UnknownGood, CommittedGood, Zenon
<1> QED BY <1>2, <1>3, <1>4, Zenon DEF ApplyStep

\* Every step of every actor keeps the invariant.
LEMMA NextGood ==
    ASSUME TypeOK, Good, unread = 0, unread' = 0, Next
    PROVE  TypeOK' /\ Good'
<1>1. CASE \E kind \in {"reload", "refresh"}, crowd \in BOOLEAN, k \in Key : Stage(kind, crowd, k)
    BY <1>1, StageGood, Zenon
<1>2. CASE ApplyStep
    BY <1>2, ApplyStepGood, Zenon
<1>3. CASE \E w \in c.workers : PollStep(w)
    BY <1>3, PollerGood, StopsGood, PollFailedGood, PollFullGood, PollIncrementGood, Zenon DEF PollStep
<1>4. CASE ExpiryArm \/ Maintain
    BY <1>4, ExpiryArmGood, MaintainGood, Zenon
<1>5. CASE Recover
    BY <1>5, RecoverFailsGood, RecoverStagedGood, RecoverActiveGood, Zenon DEF Recover
<1>6. CASE CloseBegins \/ CloseEnds
    BY <1>6, CloseBeginsGood, CloseEndsGood, Zenon
<1>7. CASE \E b \in Ban : LapiChanges(b)
    BY <1>7, LapiGood, Zenon
<1> QED BY <1>1, <1>2, <1>3, <1>4, <1>5, <1>6, <1>7, Zenon DEF Next

\* The invariant of the runtime: whatever reloads, polls, reconnections,
\* maintenance, recoveries and a shutdown interleave, and whichever of their
\* calls fail, as long as the store could be read at the end of every apply.
THEOREM CrowdInvariant == Spec => []IInv
<1>1. Init => IInv
    <2>1. Init => unread = 0 /\ unread \in Nat
        BY DEF Init
    <2> QED BY <2>1, InitGood, Zenon DEF IInv
<1>2. IInv /\ [Next]_vars => IInv'
    <2>1. ASSUME IInv, Next
          PROVE  IInv'
        <3>1. unread' \in Nat /\ (unread' = 0 => unread = 0)
            BY <2>1, UnreadGrows, Zenon DEF IInv
        <3> QED BY <2>1, <3>1, NextGood, Zenon DEF IInv
    <2>2. ASSUME IInv, UNCHANGED vars
          PROVE  IInv'
        <3>1. UNCHANGED <<disk, journal, healthy, closing, c, recovering, app, applies, lapi, sent, unread>>
            BY <2>2, Zenon DEF vars
        <3>2. TypeOK => TypeOK'
            BY <3>1, Zenon DEF TypeOK
        <3>3. InDoubt' <=> InDoubt
            BY <3>1, Zenon DEF InDoubt
        <3>4. Good => Good'
            BY <3>1, <3>3, Zenon DEF Good, Numbered, Fenced, Keyed, Retained, Owed, Staging, Enforced, Shown
        <3> QED BY <2>2, <3>1, <3>2, <3>4, Zenon DEF IInv
    <2> QED BY <2>1, <2>2, Zenon
<1> QED BY <1>1, <1>2, PTL DEF Spec

\* While enforcement is reported healthy the container of the active revision
\* bans exactly what the active store holds (crowdsec.go reconcileLocked).
THEOREM EnforcedIsStoreTheorem == Spec => [](unread = 0 => EnforcedIsStore)
<1>1. IInv => (unread = 0 => EnforcedIsStore)
    BY Zenon DEF IInv, Good, Enforced, Accurate, EnforcedIsStore, Settled
<1> QED BY <1>1, CrowdInvariant, PTL

\* The decisions enforced are those of the authority that the durable revision
\* names (crowdsec.go recoverLocked).
THEOREM AuthorityIsDurableTheorem == Spec => [](unread = 0 => AuthorityIsDurable)
<1>1. IInv => (unread = 0 => AuthorityIsDurable)
    BY Zenon DEF IInv, Good, Keyed, Fenced, InDoubt, AuthorityIsDurable, Settled
<1> QED BY <1>1, CrowdInvariant, PTL

\* A published view is of the durable revision, of the active state and of the
\* bans its container holds (lookup.go publishLookupLocked).
THEOREM ViewCoherentTheorem == Spec => [](unread = 0 => ViewCoherent)
<1>1. IInv => (unread = 0 => ViewCoherent)
    BY Zenon DEF IInv, Good, Shown, Shows, ViewCoherent
<1> QED BY <1>1, CrowdInvariant, PTL

\* A worker that is about to ask for changes only has the store that the LAPI
\* last told its key (crowdsec.go pollLoop, discardLocked).
THEOREM NoLostDecisionTheorem == Spec => [](unread = 0 => NoLostDecision)
<1>1. IInv => (unread = 0 => NoLostDecision)
    BY Zenon DEF IInv, Good, Working, Fed, NoLostDecision
<1> QED BY <1>1, CrowdInvariant, PTL

=============================================================================
