# perimeterd in TLA+

perimeterd turns a configuration and a set of address sources into a packet
filter (nftables or iptables) and keeps the filter and a durable record of it in
step through reloads, source refreshes, failures, crashes and reboots. This
directory holds TLA+ models of its parts, TLC configurations that check them on
small instances, and theorems that TLAPS proves for every instance.

`PROJECT.json` lists the components, the runs, the source lines behind every
definition, the hazards and the theorems. All paths below are under
`src/internal/` unless they start with `docs/`.

## The system

| Part | State | What is hard about it |
|---|---|---|
| state directory (`state/`) | active record, journal, revision files | each call is several renames, removals and syncs; a power loss may undo any unsynced one |
| firewall backends (`firewall/`) | kernel objects of each generation, what each family jumps to | nftables commits both families at once, iptables one after the other with compensation; ownership inspection refuses what it does not know |
| firewall writer (`app/engine.go`) | health, epochs, lookup view | an error does not say whether the call took effect |
| runtime loop (`app/run.go`, `reload.go`, `source.go`, `publication.go`) | waiter, reservation, timers, producers | results arrive late, out of order, or for a configuration that is gone |
| CrowdSec (`app/crowdsec.go`, `crowdsec/`) | active and staged client, decision store, lease, retry | three workers and the writer share one lock that staging releases |
| lookup (`app/lookup.go`, `lookup/`) | published view and version | readers take no lock; answers are computed for whole ranges |
| upstream sessions (`upstream/`) | generations, reference counts, dial slots | retirement races use; a dial outlives its caller |
| sources (`source/`) | content-addressed objects and manifests, refresh schedule | crashes between files; reuse of committed records; workers that cancel one another |
| policy and prefixes (`policy/`, `prefix/`, `config/normalize.go`) | none | boundary arithmetic, order of rules |
| counters (`metrics/`, `app/metrics.go`) | baselines and totals | a final read that is repeated |

The loop hands a compiled candidate to the writer. The writer records it
(Prepare), switches the kernel (Apply), commits it (the active record), retires
the old target and removes the journal. After any error it is degraded and the
loop runs Recover, which decides from the records alone. `perimeterd cleanup` is
a second process that takes the same lifecycle lock.

## Modules

| Module | Models |
|---|---|
| `Faults` | the budget of failures that a behaviour may contain |
| `StateStore` | `state/store.go`, `filesystem.go`, `records.go` |
| `Kernel` | `firewall/router.go` with the contract of `nftables.go` and `iptables.go` |
| `Engine` | `app/engine.go` and the process lifecycle of `app/run.go`, over `StateStore` and `Kernel` |
| `IPTBackend` | `firewall/iptables.go`, `iptables_model.go`, `iptables_inventory.go`, command by command |
| `Enforcement`, `NativeCalls` | what packets may rely on, and what `Kernel` assumes of one backend call: the abstract specifications `IPTBackend` implements |
| `Coordinator` | the event loop of `app/run.go` with `reload.go`, `source.go`, `publication.go`, `control/reload.go` |
| `CrowdSec` | `app/crowdsec.go` with the writer's calls into it and the published lookup view |
| `Decisions` | `crowdsec/store.go`, `projection.go` |
| `Lease` | `firewall/dynamic.go` and the lease bookkeeping of `app/crowdsec.go`, over time |
| `Telemetry` | packet counters: `metrics/metrics.go`, `app/metrics.go`, `firewall/counters.go`, `iptables_counters.go` |
| `Upstream` | `upstream/manager.go`, `transport.go` |
| `Resolve` | `source/resolve.go` as transactions over time, and the schedule of `app/source.go` |
| `Fetch` | `fetchAll`, `retryFetch` and the DB-IP batch: feeder, workers, slots |
| `SourceCache` | `source/cache.go` over a file system with crashes |
| `Addresses`, `PrefixAlgebra`, `PrefixSet` | `prefix/set.go`, `range.go` |
| `Compiler`, `Policy` | `config/normalize.go`, `policy/`, and the target of `firewall/nftables_model.go`, `types.go` |
| `Query` | `lookup/evaluate.go`, `static.go`, `attribution.go`, `request.go` |
| `Response`, `LookupCall` | `lookup/server.go`, `client.go`: the checks of an answer, and a call |
| `LookupView` | `app/lookup.go`: the version fence against lock-free readers |
| `MC...` | instances for TLC |
| `...Proofs` | theorems about the module of that name |
| `CoordinatorSteps` | the first part of the proofs about `Coordinator`: the invariant, and the steps that commit nothing |

**StateStore.** A record has a visible value (`active`, `journal`, `files`) and
the values a power loss may leave (`activeMay`, `journalMay`, `unsynced`).
`atomicPublish` makes the new value visible at the rename and certain at the
directory sync. The active record and the journal share a directory, so the sync
of one settles the other. Each store call is one operator with the outcome `ok`. A
failed call leaves any of the states that the call passes through, so a crash
inside a call is the failed call followed by `Crash` or `PowerLoss`. `ReadOK` is
the cross-record part of `read`; the writer produces only well-formed records.

**Kernel.** A target is its generation. `Place` says where a generation lives (an
nftables table, or iptables) and `Covers` which families it filters. `installed`
are the generations with kernel objects, `live[f]` those that packets of family `f`
pass. An nftables call either happens or does not, whatever it reports. An
iptables call may stop after any family, and its compensation may fail too.
`Authorized` is the ownership inspection that starts each call.

**Engine.** `applyMu` serializes the operations, so one program counter `pc`
suffices: it names the next store or backend call, and each action is that call
with the branch the code takes on its result. `acked` and `rejected` are history
variables: the revision last reported committed or recovered, and the one last
reported rolled back. `PowerLoss` may happen at any time.

**IPTBackend.** One action per command the backend runs. Sets, chains and hooks
are records of the kernel; the budgets count elements and rules instead of bytes,
against two limits (`SetBudget` for what a plan may add, `OutputLimit` for the listing
that is read back), and leases and the exchange of a dynamic set for a larger one under
a spare name are left out. The driver that issues calls abbreviates `Engine`:
it makes the calls `Engine` makes, in its orders, without the store between them.

**Coordinator.** One action per case of the loop's select, with everything that
case calls. Handles of sessions and listeners are counted by owner. Compiling and
staging end in success or failure, whichever; epochs are counted only while some
state still refers to them. A reload that arrives while another is prepared rejects
that one's waiter (`WaiterRejected`).

**CrowdSec.** Deadlines are abstracted (an expiry may happen whenever a decision is
stored; instants are `Lease`'s) and the LAPI answers before the call returns. The
writer's apply is cut at the points where it releases the lock. `ViewCoherent` here
and `ViewIsKernel` in `Lease` justify what `LookupView` assumes, that a
published view is what is enforced.

**Lease.** Time is a clock with two ticks per second. The kernel removes an element when
its timeout ends; an element may outlive its deadline by the fraction of a second that
the native unit cannot express and by the duration of one native write. The kernel
takes an element that is added without a lifetime as permanent (`Added`), which is why a
grant that rounds down to zero must not be installed. A writer whose last write failed waits for its retry: a poll then only moves
deadlines. Resizing a set under a spare name is left out.

**Decisions.** `projectFamily` is the source's sweep: events in address order, the heap
of deadlines and the lazy removal of its inactive tops (`current`). The stream's sequence
guard is `NewSequence`.

**Telemetry.** One packet count stands for the four values of a counter. A counter
that restarts below a kept baseline may be undercounted; nothing is counted twice.

**Upstream.** Steps are what happens between two locks. Generations, handles and
operations are created in the order of their numbers, so that identical histories are not
told apart. SDK calls may never return.

**Resolve, Fetch, SourceCache.** A response is how a request ends. A record is its
provider, release and fetch instant. A name stands for the content digest, so a
file is whole or torn. A free worker that is to take a job is the first idle one.

**Policy, Query, LookupCall.** Addresses have one to three bits and ports two; a
configuration that normalization refuses changes nothing. Ports are naturals because
the code widens them to `int` before it adds to them. `Query` is compared with
the fate of single packets (`PacketAction`). In `LookupCall` the engine's answer is
arbitrary, because the checks must not rely on it; its outcomes are a set, so an answer
that repeats an outcome exactly is not told apart from one that does not.

## Runs

One run can check several parts that share no state, or one specification under two
bounds: `MCSources`, `MCLookup`, `MCDynamic` and `MCCoordinator` choose in the initial state which part moves, and the others stay as they
begin. An invariant of a part is an invariant of the union exactly when it is one of
the part, because every behaviour of the union is a behaviour of one part.

| Run | Instance | Shows |
|---|---|---|
| `engine` | three revisions, two in iptables (one of them for one family only), one in nftables; two faults | `RecordsSurvive`, `HealthyEnforced`, `RejectionFinal`, `CleanupComplete`, `CommitDurable`, `NoGap`, `RetireObsolete`, `Settles` |
| `engine_migration` | the same, all families | violates `PreviousKept` |
| `ipt_backend` | three generations with different attachments and dynamic sets, a budget that two of the pairs fill exactly, an output limit; three faults | `NeverRefused`, and the refinements `Enforces` and `CallsAsAssumed` |
| `coordinator` | one request, two configurations; either two epochs, one refresh each, first start and restart, two faults, or three epochs, first start, no refresh, one fault | `TruthfulAnswers`, `PublishedIsActive`, `HandlesOwned`, `NoStaleCommit`, `RequestsAnswered` |
| `coordinator_stale` | restart, three epochs, no fault | violates `StaleResultInert` |
| `crowdsec` | one ban, two keys, three applies, one LAPI change; two faults | `EnforcedIsStore`, `AuthorityIsDurable`, `ViewCoherent`, `NoLostDecision`, `Converges` |
| `crowdsec_client` | one key, one unreadable state directory | violates `ActiveClientOpen` |
| `upstream` | one binding, two generations, two sessions, two operations, one SDK dial | `HeldNotRetired`, `ConnectionsOwned`, `CloseWaitsForAll`, `EndedReturns` |
| `sources` | four configurations over three instants; two transactions that share two slots; two manifests with a common object, two stagers, one crash or failure | `SnapshotExact`, `RootCause`, `StagedIsDurable`, `NamedLoads`, `Returns` |
| `resolve_release` | two configurations, two months | violates `ReleaseNeverOlder` |
| `lookup` | all sequences of set operations on two-bit addresses; pairs of policies; lookups of ranges and ports; arbitrary answers; two readers | `SetsExact`, `CompiledAsWritten`, `AnswerTrue`, `ShownExact`, `AnswerWasEnforced` |
| `dynamic` | two decision identities over nested prefixes; leases of two bans to instant 10 (nftables) and 9 (ipset), some longer than the longest native lease; two generations of counters, two faults | `StoreIsAuthority`, `ProjectionExact`, `ViewIsKernel`, `BanIsDecision`, `ExportedIsRead` |

**Bounds.** Identities are reused once nothing refers to them wherever the code allows
it, so sequences of operations are mostly unbounded; what is bounded is named in each
module (`MaxFaults`, `MaxApply`, `MaxEpoch`, `Horizon`...). A fault is a failed call, a
cancelled context, a crash or a power loss. Two are needed for a failure inside the
handling of a failure, such as a rollback that fails or a power loss in the recovery
of a failed commit; one suffices for the cache, where a crash is the only
failure with a memory. The third revision of `engine`, generation of `ipt_backend` and
apply of `crowdsec` follow an operation on the state that an earlier one left. In
`coordinator` the first bounds have a refresh race a reload; the second have a third
epoch, so that a reload supersedes one that is still prepared and the loop meets
the late result of the superseded one. One request is outstanding at a time, so the reload
slot is never full. Two-bit addresses have an inner boundary and both ends of
the space. Two readers can overlap each other and four versions.

**Deadlock** is checked in `engine`, `ipt_backend` and `coordinator`: a stopped
system can always start again. The other instances end when their bounds are used up
or their manager is closed.

**Fairness.** `Engine!FairSpec`: steps of a running process; the loop runs an operation to
its end and rearms the recovery timer after each failed attempt (`app/run.go:603`). The
restart of a stopped process is not assumed. `Coordinator!FairSpec` (`MCFairSpec` takes it for both bounds): the loop, the
producers and the handlers run, and the timers fire. `CrowdSec!FairSpec`: its loops run
and retry; failures are finite because `MaxFaults` bounds them. `Upstream!FairSpec`:
goroutines run and readers close response bodies; nothing is assumed of the SDK.
`MCSources!AnySpec`: some goroutine that can step does; every attempt has a deadline.

`crowdsec` assumes that the state directory can be read after a commit
(`MaxUnread = 0`); `crowdsec_client` drops this and is a finding.
`NoGap` speaks of a replacement in one place; a migration between places may leave
packets under both targets, never under none, as long as its calls succeed, and
`engine_migration` shows what happens when they do not.

## Findings

Each is a run that TLC refutes, with a sentence of the documentation.

* `engine_migration`: `docs/architecture.md:824` says "The previous target is never
  torn down before replacement succeeds." When a migration from iptables to nftables
  fails, the reverse apply is `IPTables.Apply(nil, previous)` (`firewall/router.go:96`)
  although the previous target is still selected. If that call fails, its
  compensation (`firewall/iptables.go:571-575`) selects nothing for each attempted family
  and detaches the target that is still authoritative. The nftables candidate may be
  filtering meanwhile, and recovery restores the previous target.
* `coordinator_stale`: `docs/architecture.md:597` says "stale results only release
  their staged resources." The loop matches a refresh result by its sequence number alone
  (`app/run.go:493`), and sequences restart with an epoch, so a late result of the old
  epoch ends the first refresh of the new one. That refresh is postponed, not lost.
* `crowdsec_client`: `docs/data-sources.md:1349` says "A reload is rejected and its
  active client remains." If the state directory cannot be read after a commit,
  `finishApplyLocked` (`app/crowdsec.go:301`) keeps the staged state; after a full
  resynchronization, the discard of the next rejected apply closes the client it shares
  with the active state.
* `resolve_release`: `docs/data-sources.md:93` says "never replace committed DB-IP
  evidence with an older release". A reload compares with the manifest of the moment it
  was admitted (`source/resolve.go:184`), and a refresh may commit a newer release before
  the reload commits. The next refresh brings the newer release back.

## Proofs

| Module | Theorems |
|---|---|
| `EngineProofs` | `TypeCorrect`, `DurableAlways`, `RecordsAlwaysSurvive`, `CommittedPhaseAlwaysTrue`, `CommitsAreDurable`, `KernelAlways`, `KernelAlwaysRecorded`, `HealthyAlwaysEnforced`, `RejectionAlwaysFinal`, `CleanupAlwaysComplete`, `OnlyObsoleteRetired`, `NoGapEver`, `CleanupNeverUndone` |
| `LookupViewProofs` | `Inductive`, `AnswersLinearize` |
| `UpstreamProofs` | `UpstreamInvariant`, `HeldNeverRetired`, `NoConnectionLeaks`, `CloseIsComplete` |
| `SourceCacheProofs` | `CacheInvariant`, `NamedAlwaysLoads`, `StagedAlwaysDurable` |
| `FetchProofs` | `FetchInvariant`, `RootCauseReported` |
| `CrowdSecProofs` | `CrowdInvariant`, `EnforcedIsStoreTheorem`, `AuthorityIsDurableTheorem`, `ViewCoherentTheorem`, `NoLostDecisionTheorem` |
| `CoordinatorProofs` (with `CoordinatorSteps`) | `CoordinatorInvariant`, `TypeCorrect`, `TruthfulAnswersTheorem`, `PublishedIsActiveTheorem`, `HandlesOwnedTheorem`, `NoStaleCommitTheorem` |

They hold for every value of the constants. The assumptions are those named in the
modules. For `Engine`: `MaxFaults` is a natural number, `NoRev` is not a revision, `Place`
and `Covers` are functions on the generations, and generations are named by the revisions
that introduced them. For `LookupView`: `MaxVersion` is a natural number and `None` is not
a state. For `Upstream`:
`None` is neither a generation nor a binding, and captures are sets of bindings. For
`SourceCache`: objects and manifests are different names, and a manifest lists objects.
For `Fetch`: what is due is a sequence of selectors, at least one request may be in flight,
and `None` is not an error. For `CrowdSec`: an apply may be tried at least once, and `None`
is not a state, a view, a revision or a batch. For `Coordinator`: the bounds on epochs and
refreshes are natural numbers, every configuration has its metrics address (or none), what
was committed before a start is a revision with a configuration, callers expect digests, and
`None` is none of the values it stands beside; nothing is assumed of the number of requests,
slots or faults. No
finiteness is assumed; that the holders of a generation are finitely many is part of the
invariant.

**State directory.** `RecordsSurvive` is not inductive: it speaks of every combination of
surviving records, while a step reads only the visible ones. `DurableInv` adds that
the visible values are among the possible ones (`StoreShape`), what each journal looks
like (`JournalShape`), and, for each call, what the operation relies on (`StepFacts`).
The key fact is `Synced`: before every call that publishes the active record or a phase,
nothing in the state directory is in doubt, so at most one of the two records can be
torn by that call. One lemma per store call says what it does to the records; then one
lemma per group of actions shows that a step preserves the invariant and is an
`AuthorityStep`.

**Kernel.** `KernelInv` ties `installed` and `live` to the records: every installed
generation is one that a record names, and at each call the families filter what
the operation assumes of them. It rests on `DurableInv`, so it is
the second part of `EngineProofs`. The four properties of the kernel follow from the two invariants. `NoGap` needs them only
to know which two targets a backend call is given.

**Version fence.** The invariant of `LookupViewProofs` relates what a reader has seen to
the versions published since it began; `AnswerWasEnforced` is its last case.

**Upstream.** `HeldNotRetired` counts holders, but the code looks at `refs` alone.
`Counted` says that the two agree, `RetiredUnused` that retirement starts only at zero
references or with the manager's end, and `Shape` that the index leads to referenced
generations only, so that `Load` never shares one that is being retired. Steps that
leave references alone are one lemma (`KeptIInv`); those that take or give one each add
or remove exactly one holder (`SessionAdded` ... `OpRemoved`). `Dials` and `Awaited` carry
the other two theorems.

**Source cache.** `NamedLoads` says what loads now; a crash forgets what was not synced.
`NamedFirm` therefore says more: everything a record names is `Firm`, that is, present with
its content and its directory entry on disk. `Sound` says the same of what a staging
goroutine has behind it, and `Preparing` of what the stabilization in `Prepare` has behind it,
so that a journal is published only over firm files. A crash keeps the firm files as they
are. A collection removes unnamed files only, and runs before anybody stages
(`QuietStart`). Most steps only add to the firm files (`Grown`), and one lemma covers them.

**Fetch.** `RootCause` is about the answer alone. `Reasoned` says where it comes from: while
the caller has not cancelled, a cancellation of the pool has a `Reason`, and every context
error in the channel stands behind a real one, so the collector never takes a context error
first. It holds since a worker cancels only after its result is in the channel, and since
the channel is a queue. That no answer is short of a selector is `Covered`: each one is fetched,
or still to be offered, worked at or reported. Transactions share slots only, which the
invariant does not mention, so a step of one leaves the others' invariant alone
(`OneTransaction`).

**CrowdSec.** The four invariants of `crowdsec` speak of what is settled; the work is in what
is not. While an apply's commit is in doubt, the durable revision may already be the one
whose state is only staged: `Keyed` therefore says whose key the active state has except
then (`InDoubt`), and `Retained` that what recovery would select then has the durable key and
a store nobody has asked past. `Fed` is the loop's own step of `NoLostDecision`: a worker that waits to
ask for changes holds what its key was last told, and an answer it holds makes the store
that; since the LAPI remembers per key and not per client, it needs `Working` (one
live worker, the active state's) and `Staging` (while an apply polls with its own client no
worker runs). `Linked` lets epochs stand for states, which is how the code compares them;
`Numbered`, `Fenced` and `Owed` say which of these cases exclude one another. `Enforced` is
`EnforcedIsStore` with the acknowledged bans, and `Shown` is `ViewCoherent`. Most actions
change the record `c` through one of a few operators, so the proof has one lemma for
each of them, and one per action that uses it. The theorems are about behaviours in which the
read at the end of an apply has not failed (`unread = 0`), as in the run. This is not a weakness of
the proof: with one failed read the code leaves the staged state in place after it became
active, and TLC then violates `AuthorityIsDurable` as it violates `ActiveClientOpen` in
`crowdsec_client`.

**Coordinator.** The four properties say little of the middle of an operation; the invariant `IInv`
says what holds at each place of the loop.

* What is in flight. `Apart`: a candidate (epoch and refresh sequence) has one holder, a
  producer, the result channel or the loop. `AllFresh`: nothing in flight is committed or in
  doubt, and a reload's epoch was never used. `Matching`: what is staged for a request has the
  digest the request expects.
* What is committed. `Past`: the durable choice is the newest of everything ever committed.
  `Adopted` and `Doubted`: the writer's epochs are those of its choice, and a candidate in
  doubt passed the admission rule, which still holds since nothing is admitted before the
  recovery. This gives `NoStaleCommit`. Recovery may settle a commit long after the apply.
* What callers were told. "rejected" is true now, but must stay true. `Honest` therefore uses
  `Ruled`: nothing of that epoch is committed or in doubt, and it is superseded or no longer
  in flight. `Waited` gives this when the loop answers, also when an admission
  supersedes the waiter or `stopService` ends it.
* What is published. `Fits` and `Kept` relate the reservation, the session and the listener to
  each other and to committed revisions, so that no two owners share a handle. `Phases` says
  what is reserved and shown at each place. Its last case is the point of the recovery path:
  while the loop recovers, either the durable choice is shown and a candidate in doubt is what
  the pending reservation is for, or the durable choice itself is reserved and nothing is in doubt. So
  whatever `Recover` settles on can be published.

`Told` and `Booted` carry facts from the writer's outcome and from startup to the steps after
them. For each action a lemma, or a step of the lemma for its group (`HandlerSteps`,
`ReloadSteps`, `ApplySteps`, ...), named after it (`AdmitStep`, `ApplyCommitStep`,
`RecoveryTimerStep`, ...), shows that it keeps `IInv` and takes the durable choice forward;
they share lemmas for the groups of state that an action leaves alone (`HandlerFrame`,
`StagingFrame`, `LoopFrame`).

Only model-checked. Liveness (`Settles`, `RequestsAnswered`, `Converges`,
`EndedReturns`, `Returns`) needs fairness and `ENABLED`, which the prover does not support.
What `Decisions` and `Query` compute is defined by recursion over data (`RECURSIVE`
operators), and the exactness of `PrefixSet`, `Policy` and `Response` is by
enumeration of their bounded inputs: the provers have no induction over data. The
refinements of `ipt_backend`, `SnapshotExact` and the invariants of `dynamic` are
within reach of the same method and are not proved here.


## Not modelled

Configuration parsing, provider documents, identity files, cache encoding, the text
of nftables, iptables and ipset commands and listings, JSON and HTTP, systemd
notification, status output and the command line are sequential translations or
output. The byte estimates of `firewall/nftables_capacity.go` depend on the length of
nft's JSON and would need invented sizes. Records that the daemon wrote itself always
agree with what they were compiled from, so `state/validation.go` has no part in the
models. The OpenZiti SDK, the CrowdSec server, the HTTP providers, the file system and
the packet filter are external: the models take what the code relies on, and mark those
definitions as external.
