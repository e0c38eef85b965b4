----------------------------- MODULE Telemetry -----------------------------
(***************************************************************************)
(* The accounting of the native packet counters.  The kernel keeps         *)
(* cumulative counters per rule identity; the collector turns successive   *)
(* reads of them into counters that only grow for the life of the process  *)
(* (src/internal/metrics/metrics.go).  Reads come from the periodic        *)
(* sampler, from the backend immediately before it removes a target's      *)
(* objects, and from the writer after it has removed them; a removal, the  *)
(* store or a read may fail, and recovery then repeats the retirement.     *)
(* One packet count stands for the four values of an identity.             *)
(***************************************************************************)
EXTENDS Faults, Functions

CONSTANTS
    Generation,     \* generations a policy can have
    None,           \* no target
    Identity,       \* rule identities of native counters
    Rules(_),       \* the identities a generation's own rules count under
    Backend,        \* "nftables" or "iptables"
    Entry,          \* iptables: the processed rules of the stable entry chains
    First,          \* the target active when the process starts, or None
    MaxPackets      \* bound: packets counted in a behaviour

VARIABLES
    live,       \* the native counters that exist, with their values
    active,     \* the target of the active revision
    journal,    \* the journalled retirement: [from, to] targets, or None
    pc,         \* where the writer is; "idle" and "stuck" release the locks
    on,         \* counterTelemetryEnabled, and the retirement hook is set
    pending,    \* pendingBaseline
    baselines,  \* the collector's last value of each identity it follows
    exported,   \* packets exported for each identity
    \* History, for the properties:
    unread,     \* packets counted in the window since the identity was read
    observed,   \* packets of the window that some successful read saw
    reset,      \* a counter restarted from zero under a kept baseline
    packets     \* packets so far

writer == <<live, active, journal, pc>>
collector == <<on, pending, baselines, exported>>
history == <<unread, observed, reset>>
vars == <<writer, collector, history, packets, faults>>

Zero == [k \in Identity |-> 0]
NoRules == [gen |-> None, rules |-> {}]

\* The accounting's state (metrics.go): kernel, baselines and exported totals
\* stay counts of known identities.
TypeOK ==
    /\ DOMAIN live \subseteq Identity
    /\ active \in [gen : Generation \cup {None}, rules : SUBSET Identity]
    /\ journal = None \/ DOMAIN journal = {"from", "to"}
    /\ pc \in {"idle", "commit", "retire", "remove", "finish", "stuck"}
    /\ {on, pending, reset} \subseteq BOOLEAN
    /\ DOMAIN baselines \subseteq Identity
    /\ {exported, unread, observed} \subseteq [Identity -> 0..MaxPackets]

---------------------------------------------------------------------------
\* The collector.

\* A counter below its baseline was reset, and counts from zero again.
counterDelta(previous, current) ==
    IF current >= previous THEN current - previous ELSE current

\* The value an identity is compared with.
Previous(k) == IF k \in DOMAIN baselines THEN baselines[k] ELSE 0

Added(R) ==
    [k \in Identity |-> exported[k] +
        IF k \in R THEN counterDelta(Previous(k), live[k]) ELSE 0]

\* The history of a read of R in an open window.
Seen(R) ==
    /\ observed' = [k \in Identity |-> observed[k] + IF k \in R THEN unread[k] ELSE 0]
    /\ unread' = [k \in Identity |-> IF k \in R THEN 0 ELSE unread[k]]

\* The identities a final read accounts for: all it reports.
Followed(R) == R

\* A read before removal: every baseline is kept, so that recovery may repeat it.
CounterRetired(R) ==
    LET F == Followed(R) IN
    /\ IF pending
       THEN UNCHANGED <<exported, baselines, observed, unread>>
       ELSE /\ exported' = Added(F)
            /\ baselines' = [k \in DOMAIN baselines \cup F |->
                                IF k \in F THEN live[k] ELSE baselines[k]]
            /\ Seen(R)
    /\ UNCHANGED <<on, pending, reset>>

\* A snapshot of the selected target prunes the identities it does not own;
\* the first of a window only sets the baselines.
CounterSnapshot(R) ==
    /\ IF pending
       THEN /\ unread' = Zero
            /\ UNCHANGED <<exported, observed>>
       ELSE exported' = Added(R) /\ Seen(R)
    /\ baselines' = [k \in R |-> live[k]]
    /\ pending' = FALSE
    /\ UNCHANGED <<on, reset>>

\* SnapshotCounters of a target fails when one of its counters is absent.
Readable(target) == target.rules \subseteq DOMAIN live

\* observeNativeCountersLocked: a failed read leaves the collector alone.
Observe(target) ==
    \/ /\ on /\ target.gen # None /\ Readable(target) /\ NoFault
       /\ CounterSnapshot(target.rules)
    \/ /\ on /\ target.gen # None /\ Fault
       /\ UNCHANGED <<collector, history>>
    \/ /\ ~on \/ target.gen = None
       /\ NoFault /\ UNCHANGED <<collector, history>>

---------------------------------------------------------------------------
\* The window, driven by the runtime publication between writer operations.

Unlocked == pc \in {"idle", "stuck"}

Sampleable == journal = None /\ active.gen # None

sampleNativeCountersLocked ==
    IF Sampleable THEN Observe(active)
    ELSE NoFault /\ UNCHANGED <<collector, history>>

\* The periodic sampler.
Sample ==
    /\ Unlocked /\ on
    /\ sampleNativeCountersLocked
    /\ UNCHANGED <<writer, packets>>

\* BeginCounterCollection, and the first sample of the window.
enableCounterTelemetry ==
    /\ Unlocked /\ ~on
    /\ on' = TRUE
    /\ \/ /\ Sampleable /\ Readable(active) /\ NoFault
          /\ pending' = FALSE
          /\ baselines' = [k \in active.rules |-> live[k]]
       \/ /\ IF Sampleable THEN Fault ELSE NoFault
          /\ pending' = TRUE
          /\ UNCHANGED baselines
    /\ unread' = Zero
    /\ UNCHANGED <<exported, observed, reset, writer, packets>>

disableCounterTelemetry ==
    /\ Unlocked /\ on
    /\ on' = FALSE
    /\ unread' = Zero
    /\ NoFault
    /\ UNCHANGED <<pending, baselines, exported, observed, reset, writer, packets>>

---------------------------------------------------------------------------
\* The kernel and the writer.

\* A rule of an installed target counts a packet.
Packet(k) ==
    /\ packets < MaxPackets
    /\ packets' = packets + 1
    /\ live' = [live EXCEPT ![k] = @ + 1]
    /\ unread' = [unread EXCEPT ![k] = @ + IF on /\ ~pending THEN 1 ELSE 0]
    /\ UNCHANGED <<active, journal, pc, collector, observed, reset, faults>>

\* The counters of a new target: an nftables target keeps those of its
\* predecessor in the table.
desiredCounters(g) ==
    IF Backend = "nftables" THEN Rules(g) \cup active.rules ELSE Rules(g)

\* An apply creates the missing counters of new; iptables may rebuild an entry
\* chain, which restarts its rules' counters.
Install(new) ==
    \E rebuilt \in SUBSET (IF Backend = "iptables" THEN Entry ELSE {}) :
        LET zeroed == (new \ DOMAIN live) \cup (rebuilt \cap DOMAIN live) IN
        /\ live' = [k \in DOMAIN live \cup new |-> IF k \in zeroed THEN 0 ELSE live[k]]
        /\ unread' = [k \in Identity |-> IF k \in zeroed THEN 0 ELSE unread[k]]
        /\ reset' = (reset \/ (on /\ ~pending /\ \E k \in zeroed : Previous(k) # 0))

\* Apply of a policy, or of the active target when recovery finds no journal.
Apply(g) ==
    /\ pc = "idle"
    /\ LET target == [gen |-> g,
                      rules |-> IF g = active.gen THEN active.rules ELSE desiredCounters(g)]
       IN \/ /\ NoFault /\ Install(target.rules)
             /\ journal' = [from |-> active, to |-> target]
             /\ pc' = "commit"
          \/ \* It failed part way; the rollback retires the candidate.
             /\ Fault /\ \E some \in SUBSET target.rules : Install(some)
             /\ journal' = [from |-> target, to |-> active]
             /\ pc' \in {"retire", "stuck"}
    /\ UNCHANGED <<active, collector, observed, packets>>

\* The store selects the candidate, or the writer rolls back.
Commit ==
    /\ pc = "commit"
    /\ \/ NoFault /\ active' = journal.to /\ pc' = "retire" /\ UNCHANGED journal
       \/ Fault /\ active' = journal.to /\ pc' = "stuck" /\ UNCHANGED journal
       \/ /\ Fault /\ UNCHANGED active
          /\ journal' = [from |-> journal.to, to |-> journal.from]
          /\ pc' \in {"retire", "stuck"}
    /\ UNCHANGED <<live, collector, history, packets>>

\* The backend's read of the target it is about to remove.
FinalRead ==
    /\ pc = "retire"
    /\ pc' = "remove"
    /\ \/ /\ on /\ journal.from.gen # None /\ Readable(journal.from) /\ NoFault
          /\ CounterRetired(journal.from.rules)
       \/ /\ on /\ journal.from.gen # None /\ ~Readable(journal.from) /\ NoFault
          /\ UNCHANGED <<collector, history>>
       \/ /\ on /\ journal.from.gen # None /\ Fault
          /\ UNCHANGED <<collector, history>>
       \/ /\ ~on \/ journal.from.gen = None
          /\ NoFault /\ UNCHANGED <<collector, history>>
    /\ UNCHANGED <<live, active, journal, packets>>

\* What a successful retirement removes.
Obsolete == journal.from.rules \ journal.to.rules

Deleted(gone) == live' = Restrict(live, DOMAIN live \ gone)

\* Mutant: the snapshot follows a failed removal as well.
ObservedAfter(failed) == TRUE

\* retireBackendLocked samples the surviving target once the removal succeeded.
ObservesAfter(failed) == ~failed

\* The removal: an nftables batch is atomic, iptables may stop part way.
Remove(gone, failed) ==
    /\ pc = "remove"
    /\ IF failed
       THEN Backend = "iptables" \/ gone \in {{}, Obsolete}
       ELSE gone = Obsolete
    /\ Deleted(gone)
    /\ pc' = IF failed THEN "stuck" ELSE "finish"
    /\ IF ObservesAfter(failed) THEN Observe(journal.to)
       ELSE Fault /\ UNCHANGED <<collector, history>>
    /\ UNCHANGED <<active, journal, packets>>

Finish ==
    /\ pc = "finish"
    /\ \/ NoFault /\ pc' = "idle" /\ journal' = None
       \/ Fault /\ pc' = "stuck" /\ UNCHANGED journal
    /\ UNCHANGED <<live, active, collector, history, packets>>

\* Recovery applies the surviving target again and repeats the retirement.
Recover ==
    /\ pc = "stuck"
    /\ NoFault /\ Install(journal.to.rules)
    /\ pc' = "retire"
    /\ UNCHANGED <<active, journal, collector, observed, packets>>

Init ==
    /\ active = IF First = None THEN NoRules ELSE [gen |-> First, rules |-> Rules(First)]
    /\ \E before \in 0..1 : live = [k \in active.rules |-> before]
    /\ journal = None /\ pc = "idle"
    /\ on = FALSE /\ pending = FALSE /\ baselines = << >> /\ exported = Zero
    /\ unread = Zero /\ observed = Zero /\ reset = FALSE
    /\ packets = 0 /\ faults = 0

Next ==
    \/ \E k \in DOMAIN live : Packet(k)
    \/ enableCounterTelemetry \/ disableCounterTelemetry \/ Sample
    \/ \E g \in Generation : Apply(g)
    \/ Commit \/ FinalRead
    \/ \E gone \in SUBSET Identity, failed \in BOOLEAN : Remove(gone, failed)
    \/ Finish \/ Recover

Spec == Init /\ [][Next]_vars

---------------------------------------------------------------------------
\* What is exported is what was read (CounterRetired, CounterSnapshot): however
\* often recovery repeats a final read, no packet is exported twice and none
\* from before the window ("recovery must be able to repeat the final read
\* without double-counting"); and as long as no counter restarted under a
\* baseline the collector still holds, none that a read saw is left out.
ExportedIsRead ==
    \A k \in Identity : exported[k] <= observed[k] /\ (reset \/ exported[k] = observed[k])
=============================================================================
