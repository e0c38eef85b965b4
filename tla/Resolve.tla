------------------------------ MODULE Resolve ------------------------------
(***************************************************************************)
(* Source transactions over time (internal/source/resolve.go and the       *)
(* schedule of internal/app/source.go): what a reload or a refresh fetches,*)
(* what it reuses of the manifest that was committed when it was admitted, *)
(* what it falls back to, and when the next refresh is due.  One reload    *)
(* and one refresh may be in flight.  The requests are in module Fetch,    *)
(* the cache in SourceCache, admission in Coordinator: a superseded result *)
(* is dropped here.  A release is its month's number.                      *)
(***************************************************************************)
EXTENDS Integers, FiniteSets, FiniteSetsExt, Functions, TLC

CONSTANTS Country, List,    \* selectors
          Config,           \* configurations: [required, provider, ident]
          Interval,         \* refresh interval, in [Country \cup List -> Nat]
          Jitter,           \* the largest refresh jitter of the geo sources
          Horizon,          \* bound: the last instant
          MaxMonth,         \* bound: the last month
          MaxReload,        \* bound: reloads admitted
          MaxRefresh,       \* bound: refreshes admitted
          None

Selector == Country \cup List

VARIABLES
    now,        \* the instant
    month,      \* the month of the wall clock, which may be set back
    published,  \* the newest DB-IP release
    active,     \* the committed revision: its configuration and records
    job,        \* the reload and the refresh in flight
    deadlines,  \* sourceRuntime.deadlines
    timer,      \* sourceRuntime.timer
    admitted    \* reloads and refreshes so far

vars == <<now, month, published, active, job, deadlines, timer, admitted>>

NoJob == [at |-> "none"]

NoRecords == [s \in {} |-> None]

----------------------------------------------------------------------------
(* resolve *)

\* Mutant: the country provider is not part of a record's identity.
AnyProvider(r, s, cfg) == s \in List => r.ident = cfg.ident

\* recordMatchesResolved: the record came from the source cfg names.
Matches(r, s, cfg) ==
    IF s \in List THEN r.ident = cfg.ident ELSE r.kind = cfg.provider

\* recordFresh
Fresh(r, s) == now - r.retrieved >= 0 /\ now - r.retrieved < Interval[s]

Usable(base, s, cfg) == s \in DOMAIN base /\ Matches(base[s], s, cfg)

Stale(base, cfg) ==
    {s \in cfg.required : ~Usable(base, s, cfg) \/ ~Fresh(base[s], s)}

\* One due country invalidates the whole DB-IP batch.
Attempted(base, cfg) ==
    Stale(base, cfg) \cup
        (IF cfg.provider = "dbip-lite" /\ Stale(base, cfg) \cap Country # {}
         THEN cfg.required \cap Country ELSE {})

\* committedCovers
Covers(base, cfg) == \A s \in cfg.required : Usable(base, s, cfg)

\* fetchDBIP: the month's artifact, or on a 404 the previous one.
ReleaseRead == IF month <= published THEN month ELSE month - 1

FetchedRecord(s, cfg) ==
    [kind |-> IF s \in List THEN "ip_list" ELSE cfg.provider,
     ident |-> IF s \in List THEN cfg.ident ELSE 0,
     release |-> IF s \in Country /\ cfg.provider = "dbip-lite" THEN ReleaseRead ELSE 0,
     retrieved |-> now]

Reachable(S, cfg) ==
    (cfg.provider = "dbip-lite" /\ S \cap Country # {}) => ReleaseRead <= published

\* The committed DB-IP evidence is newer than what was fetched.
Downgrade(base, fetched) ==
    \E s \in DOMAIN fetched, old \in DOMAIN base :
        /\ fetched[s].kind = "dbip-lite" /\ base[old].kind = "dbip-lite"
        /\ fetched[s].release < base[old].release

\* validateDBIPBatch: one provider, one release, one retrieval.
Coherent(records) ==
    \A s, t \in DOMAIN records \cap Country :
        /\ records[s].kind = records[t].kind
        /\ (records[s].kind = "dbip-lite") =>
             /\ records[s].release = records[t].release
             /\ records[s].retrieved = records[t].retrieved

\* stage: whether the cache and the compiler take the records.
Staged(records, ok) == ok /\ Coherent(records)

Subset(base, cfg) == Restrict(base, cfg.required)

Resolved(j, records) == [j EXCEPT !.at = "ended", !.snapshot = records]

Rejected(j) == [j EXCEPT !.at = "ended", !.snapshot = None]

\* refreshFailure: the committed evidence whole, for a reload only.
RefreshFailure(j, ok) ==
    IF j.allowStale /\ Covers(j.base, j.cfg) /\ Staged(Subset(j.base, j.cfg), ok)
    THEN [Resolved(j, Subset(j.base, j.cfg)) EXCEPT !.fellBack = TRUE]
    ELSE Rejected(j)

\* resolve up to fetchAll: what is reused, what is fetched.
Begun(j, ok) ==
    LET S == Attempted(j.base, j.cfg)
    IN  CASE S # {} -> [j EXCEPT !.at = "fetch", !.attempted = S]
          [] S = {} /\ Staged(Subset(j.base, j.cfg), ok) -> Resolved(j, Subset(j.base, j.cfg))
          [] OTHER -> Rejected(j)

\* resolve from fetchAll on.
FetchedAll(j, ok) ==
    LET fetched == [s \in j.attempted |-> FetchedRecord(s, j.cfg)]
        candidate == fetched @@ Restrict(j.base, j.cfg.required \ j.attempted)
        down == Downgrade(j.base, fetched)
    IN  IF ~down /\ Staged(candidate, ok)
        THEN Resolved(j, candidate)
        ELSE [RefreshFailure(j, ok) EXCEPT !.refused = ~down /\ ok]

----------------------------------------------------------------------------
(* The schedule: sourceRuntime *)

Base == IF active = None THEN NoRecords ELSE active.records

\* refreshDelay: only the geo sources have a jitter, drawn as j.
Delay(s, j) == Interval[s] + (IF s \in List THEN 0 ELSE j)

Kept(d, s, r) ==
    s \in DOMAIN d /\ d[s].retrieved = r.retrieved /\ d[s].ident = <<r.kind, r.ident>>

\* selectRevision keeps the deadline of an unchanged record.
Deadlines(records) ==
    {[s \in DOMAIN records |->
        IF Kept(deadlines, s, records[s]) THEN deadlines[s]
        ELSE [ident |-> <<records[s].kind, records[s].ident>>, retrieved |-> records[s].retrieved,
              due |-> records[s].retrieved + Delay(s, j[s]), retry |-> 0]]
       : j \in [DOMAIN records -> 0..Jitter]}

\* nextRefresh: the first due instant, or the end of a stale selector's cooldown.
NextRefresh(d) ==
    IF d = NoRecords THEN None
    ELSE LET next == Min({d[s].due : s \in DOMAIN d})
             barrier == Max({0} \cup {d[s].retry : s \in
                            {t \in DOMAIN d : d[t].retrieved + Interval[t] <= now}})
         IN  IF barrier > next THEN barrier ELSE next

\* attempted: the resolver's selection gets a retry instant.
AfterAttempt(S) ==
    {[s \in DOMAIN deadlines |->
        IF s \in S THEN [deadlines[s] EXCEPT !.retry = now + Delay(s, j[s])] ELSE deadlines[s]]
       : j \in [DOMAIN deadlines -> 0..Jitter]}

----------------------------------------------------------------------------
(* Actions *)

Init ==
    /\ now = 1 /\ month = 1 /\ published = 1
    /\ active = None
    /\ job = [reload |-> NoJob, refresh |-> NoJob]
    /\ deadlines = NoRecords
    /\ timer = None
    /\ admitted = [reload |-> 0, refresh |-> 0]

NewJob(cfg, stale) ==
    [at |-> "begin", cfg |-> cfg, base |-> Base, allowStale |-> stale, attempted |-> {},
     snapshot |-> None, fellBack |-> FALSE, refused |-> FALSE]

\* A reload supersedes the one in flight; the manifest is the one selected now.
AdmitReload == \E cfg \in Config :
    /\ admitted.reload < MaxReload
    /\ admitted' = [admitted EXCEPT !.reload = @ + 1]
    /\ job' = [job EXCEPT !.reload = NewJob(cfg, TRUE)]
    /\ UNCHANGED <<now, month, published, active, deadlines, timer>>

\* The timer: a refresh in flight leaves it off until its result.
SourceTimer ==
    /\ timer # None /\ timer <= now
    /\ \/ job.refresh # NoJob /\ timer' = None /\ UNCHANGED <<job, admitted>>
       \/ /\ job.refresh = NoJob /\ NextRefresh(deadlines) > now
          /\ timer' = NextRefresh(deadlines)
          /\ UNCHANGED <<job, admitted>>
       \/ /\ job.refresh = NoJob /\ NextRefresh(deadlines) <= now
          /\ admitted.refresh < MaxRefresh
          /\ admitted' = [admitted EXCEPT !.refresh = @ + 1]
          /\ job' = [job EXCEPT !.refresh = NewJob(active.cfg, FALSE)]
          /\ timer' = None
    /\ UNCHANGED <<now, month, published, active, deadlines>>

Begin(k) == \E ok \in BOOLEAN :
    /\ job[k].at = "begin"
    /\ job' = [job EXCEPT ![k] = Begun(@, ok)]
    /\ UNCHANGED <<now, month, published, active, deadlines, timer, admitted>>

\* fetchAll fails, or brings every selector.
FetchFails(k) == \E ok \in BOOLEAN :
    /\ job[k].at = "fetch"
    /\ job' = [job EXCEPT ![k] = RefreshFailure(@, ok)]
    /\ UNCHANGED <<now, month, published, active, deadlines, timer, admitted>>

FetchOk(k) == \E ok \in BOOLEAN :
    /\ job[k].at = "fetch" /\ Reachable(job[k].attempted, job[k].cfg)
    /\ job' = [job EXCEPT ![k] = FetchedAll(@, ok)]
    /\ UNCHANGED <<now, month, published, active, deadlines, timer, admitted>>

\* The loop applies a snapshot: selectRevision and, for a reload, the end of
\* the old configuration's refresh.  The retry instants attempted has just set
\* go with the records the refresh replaces.
Commit(k) == LET j == job[k] IN
    /\ j.at = "ended" /\ j.snapshot # None
    /\ active' = [cfg |-> j.cfg, records |-> j.snapshot]
    /\ \E d \in Deadlines(j.snapshot) : deadlines' = d /\ timer' = NextRefresh(d)
    /\ job' = IF k = "reload" THEN [reload |-> NoJob, refresh |-> NoJob]
                              ELSE [job EXCEPT ![k] = NoJob]
    /\ UNCHANGED <<now, month, published, admitted>>

\* The loop drops a result: it failed, or its apply was rejected.
Drop(k) == LET j == job[k] IN
    /\ j.at = "ended"
    /\ job' = [job EXCEPT ![k] = NoJob]
    /\ IF k = "refresh"
       THEN \E d \in AfterAttempt(j.attempted) : deadlines' = d /\ timer' = NextRefresh(d)
       ELSE UNCHANGED <<deadlines, timer>>
    /\ UNCHANGED <<now, month, published, active, admitted>>

Tick == /\ now < Horizon /\ now' = now + 1
        /\ UNCHANGED <<month, published, active, job, deadlines, timer, admitted>>

\* The calendar, DB-IP's publication, and a clock that is set back.
Calendar ==
    /\ \/ month < MaxMonth /\ month' = month + 1 /\ UNCHANGED published
       \/ month > 1 /\ month' = month - 1 /\ UNCHANGED published
       \/ published < month /\ published' = published + 1 /\ UNCHANGED month
    /\ UNCHANGED <<now, active, job, deadlines, timer, admitted>>

Next ==
    \/ AdmitReload \/ SourceTimer \/ Tick \/ Calendar
    \/ \E k \in {"reload", "refresh"} :
         Begin(k) \/ FetchFails(k) \/ FetchOk(k) \/ Commit(k) \/ Drop(k)

Spec == Init /\ [][Next]_vars

FairSpec == Spec /\ WF_vars(Next)

----------------------------------------------------------------------------
(* Properties. *)

Snapshots ==
    {<<job[k].cfg, job[k].snapshot>> :
        k \in {i \in DOMAIN job : job[i].at = "ended" /\ job[i].snapshot # None}}
      \cup (IF active = None THEN {} ELSE {<<active.cfg, active.records>>})

\* Whatever resolve returns, and whatever is committed, covers exactly the
\* selectors its configuration requires, each from the source that the
\* configuration names, the countries from one DB-IP artifact: reuse and
\* fallback never carry evidence of another interpretation.
SnapshotExact ==
    \A p \in Snapshots :
        /\ DOMAIN p[2] = p[1].required
        /\ \A s \in DOMAIN p[2] : IF s \in List THEN p[2][s].ident = p[1].ident
                                  ELSE p[2][s].kind = p[1].provider
        /\ Coherent(p[2])

\* The release of the committed DB-IP evidence, 0 without any.
Release(a) ==
    IF a = None THEN 0
    ELSE Max({0} \cup {a.records[s].release : s \in DOMAIN a.records})

\* As documented: committed DB-IP evidence is never replaced by an older
\* release while the configuration keeps DB-IP countries.
ReleaseNeverOlder ==
    [][(Release(active) # 0 /\ Release(active') # 0) =>
         Release(active') >= Release(active)]_vars
=============================================================================
