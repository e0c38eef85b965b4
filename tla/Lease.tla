------------------------------- MODULE Lease -------------------------------
(***************************************************************************)
(* Kernel leases of CrowdSec bans over time (internal/firewall/dynamic.go, *)
(* the dynamic updates of both backends, and the evidence and the timer of *)
(* internal/app/crowdsec.go).  A native write takes time: it inspects,     *)
(* computes the grants, installs them and is acknowledged at four          *)
(* different instants.  Instants are ticks; 0 is Go's zero time.           *)
(***************************************************************************)
EXTENDS Faults, Integers, FiniteSets, FiniteSetsExt

CONSTANTS Ban,          \* projected prefixes
          Backend,      \* "nftables" or "iptables"
          Unit,         \* ticks of a second, the native granularity
          MaxLease,     \* maximumLease, a multiple of 2 * Unit
          MaxWrite,     \* bound: ticks a native write takes
          Horizon,      \* bound: the last instant
          Latest,       \* bound: the last deadline
          MaxPoll       \* bound: polls that change the decisions

VARIABLES
    now,        \* the clock
    deadline,   \* the projection's deadlines, 0 where there is no decision
    kernel,     \* when the kernel drops each element, 0 where there is none
    write,      \* the write in progress
    lease,      \* crowdState.leasePrefixes
    validUntil, \* crowdState.leaseValidUntil
    published,  \* whether the lookup view is published
    renewAt,    \* crowdState.renewAt
    dirty,      \* crowdRuntime.dirty
    retryAt,    \* crowdRuntime.retryAt
    polls       \* polls so far

vars == <<now, deadline, kernel, write, lease, validUntil, published, renewAt, dirty, retryAt,
          polls, faults>>

None0 == [b \in Ban |-> 0]

Idle == [at |-> "idle", start |-> 0, observed |-> None0, present |-> {}, grant |-> None0]

----------------------------------------------------------------------------
(* dynamic.go *)

Rounded(d, t) == IF d = 0 \/ d <= t THEN 0 ELSE ((d - t) \div Unit) * Unit

\* LeaseGrant: the lifetime, 0 for none.
Grant(d, t) == Min({MaxLease, Rounded(d, t)})

\* LeaseGrant: only a truncated lease is renewed, after half of it.
Truncated(d, t) == Rounded(d, t) > MaxLease

----------------------------------------------------------------------------
(* A write, under Engine.mu.                                               *)

Live(dl) == [b \in Ban |-> IF dl[b] > now THEN dl[b] ELSE 0]

\* reconcileLocked: expired decisions leave, the view is withdrawn.
Begin(dl) ==
    /\ deadline' = Live(dl) /\ write' = [Idle EXCEPT !.at = "inspect", !.start = now]
    /\ published' = FALSE
    /\ UNCHANGED <<now, kernel, lease, validUntil, renewAt, dirty, retryAt, faults>>

\* A poll changes the decisions and reconciles, or leaves it to the retry.
Poll ==
    /\ write.at = "idle" /\ polls < MaxPoll /\ polls' = polls + 1
    /\ \E b \in Ban, d \in {0} \cup ((now + 1) .. Latest) :
          LET polled == [deadline EXCEPT ![b] = d]
          IN  /\ d # deadline[b]
              /\ \/ ~dirty /\ Begin(polled)
                 \/ /\ dirty /\ deadline' = Live(polled)
                    /\ UNCHANGED <<now, kernel, write, lease, validUntil, published, renewAt, dirty,
                                   retryAt, faults>>

Expired == \E b \in Ban : deadline[b] # 0 /\ deadline[b] <= now

\* maintainLocked, at the timer of expiryLoop or later.
Maintain ==
    /\ write.at = "idle"
    /\ IF dirty THEN now >= retryAt ELSE Expired \/ (renewAt # 0 /\ now >= renewAt)
    /\ Begin(deadline) /\ UNCHANGED polls

\* maintainLocked while a retry is pending only expires the store.
MaintainWaits ==
    /\ write.at = "idle" /\ dirty /\ now < retryAt /\ Expired /\ deadline' = Live(deadline)
    /\ UNCHANGED <<now, kernel, write, lease, validUntil, published, renewAt, dirty, retryAt,
                   polls, faults>>

Enforced(b) == kernel[b] > now

\* Both backends read the elements with their remaining seconds.
Inspect ==
    /\ write.at = "inspect"
    /\ write' = [write EXCEPT !.at = "grant", !.present = {b \in Ban : Enforced(b)},
                              !.observed = [b \in Ban |-> Rounded(kernel[b], now)]]
    /\ UNCHANGED <<now, deadline, kernel, lease, validUntil, published, renewAt, dirty, retryAt,
                   polls, faults>>

Compute ==
    /\ write.at = "grant"
    /\ write' = [write EXCEPT !.at = "install", !.grant = [b \in Ban |-> Grant(deadline[b], now)]]
    /\ UNCHANGED <<now, deadline, kernel, lease, validUntil, published, renewAt, dirty, retryAt,
                   polls, faults>>

\* Mutant: a decision with less than a second left is installed as well.
WantedIfLive == {b \in Ban : deadline[b] > now}

Wanted == {b \in Ban : write.grant[b] > 0}

\* An element that already has the remaining lifetime granted.
Settled(b) == b \in write.present /\ write.observed[b] = write.grant[b]

\* nftables: nothing when every element is settled, else flush and add all.
NFTRewrites == (\E b \in Wanted : ~Settled(b)) \/ Cardinality(Wanted) # Cardinality(write.present)

\* ipset: an entry that is settled is left alone.
Rewrites(b) == IF Backend = "nftables" THEN NFTRewrites ELSE b \notin Wanted \/ ~Settled(b)

\* An element that is added without a lifetime stays for ever.
Permanent == Latest + MaxWrite + Unit

Added(b) == IF write.grant[b] = 0 THEN Permanent ELSE now + write.grant[b]

\* The kernel after the commands for a set of elements.
Installed(bs) ==
    kernel' = [b \in Ban |->
        IF b \notin bs \/ ~Rewrites(b) THEN kernel[b]
        ELSE IF b \in Wanted THEN Added(b) ELSE 0]

Install ==
    /\ write.at = "install" /\ Installed(Ban) /\ write' = [write EXCEPT !.at = "finish"]
    /\ UNCHANGED <<now, deadline, lease, validUntil, published, renewAt, dirty, retryAt, polls, faults>>

\* failedWriteLocked.
Failed ==
    /\ Fault /\ write' = Idle /\ dirty' = TRUE /\ retryAt' = now + 1
    /\ UNCHANGED <<now, deadline, lease, validUntil, published, renewAt, polls>>

\* The inspection fails, or the batch does: nft commits all of it or nothing,
\* an ipset restore may stop at any line.
WriteFails ==
    /\ write.at \in {"inspect", "install"} /\ Failed
    /\ \E bs \in SUBSET Ban :
          /\ write.at = "inspect" => bs = {}
          /\ Backend = "nftables" => bs \in {{}, Ban}
          /\ Installed(bs)

----------------------------------------------------------------------------
(* recordLeasesLocked *)

Projected == {b \in Ban : deadline[b] # 0}

\* Mutant: the lease is taken to start when the write is acknowledged.
LeaseFromFinish(b) == IF Grant(deadline[b], now) = 0 THEN now ELSE now + Grant(deadline[b], now)

\* The instant until which the write is known to enforce a prefix: the shortest
\* grant from the earliest start, or no longer than the acknowledgement.
KnownUntil(b) == Max({now, write.start + Grant(deadline[b], now)})

Renewals == {write.start + (MaxLease \div 2) : b \in {p \in Projected : Truncated(deadline[p], write.start)}}

Finish ==
    /\ write.at = "finish" /\ write' = Idle /\ dirty' = FALSE /\ retryAt' = 0 /\ published' = TRUE
    /\ renewAt' = IF Renewals = {} THEN 0 ELSE Min(Renewals)
    /\ lease' = [b \in Ban |-> IF b \in Projected /\ KnownUntil(b) > now THEN KnownUntil(b) ELSE 0]
    /\ validUntil' = IF Projected = {} THEN 0 ELSE Min({KnownUntil(b) : b \in Projected})
    /\ UNCHANGED <<now, deadline, kernel, polls, faults>>

----------------------------------------------------------------------------
Tick ==
    /\ now < Horizon /\ (write.at = "idle" \/ now - write.start < MaxWrite)
    /\ now' = now + 1
    /\ UNCHANGED <<deadline, kernel, write, lease, validUntil, published, renewAt, dirty, retryAt,
                   polls, faults>>

Init ==
    /\ now = 1 /\ deadline = None0 /\ kernel = None0 /\ write = Idle /\ lease = None0
    /\ validUntil = 0 /\ published = FALSE /\ renewAt = 0 /\ dirty = FALSE /\ retryAt = 0
    /\ polls = 0 /\ faults = 0

Next ==
    Poll \/ Maintain \/ MaintainWaits \/ Inspect \/ Compute \/ Install \/ WriteFails \/ Finish \/ Tick

Spec == Init /\ [][Next]_vars

----------------------------------------------------------------------------
\* What a lookup would report (lookup/evaluate.go) is what the kernel drops: as
\* long as the view is published and its evidence valid, the prefixes it lists
\* are enforced and no other is, however long the write took.
ViewIsKernel ==
    published /\ (validUntil = 0 \/ now < validUntil) => \A b \in Ban : lease[b] > now <=> Enforced(b)

\* A ban lasts as long as its decision (LeaseGrant, recordLeasesLocked).  It
\* ends with it: once a write succeeded, every kernel element belongs to a
\* decision and outlives its deadline by no more than one native write, or the
\* fraction of a second an inspection does not show; none is permanent.  And it
\* is renewed in time: unless a write failed or the renewal timer is late by half
\* a lease, a decision that has a second and the time of a native write left is
\* enforced.  Rounding may take that second, and a write that finds the element
\* with the seconds it wants leaves it, however long ago it looked.
BanIsDecision ==
    write.at = "idle" /\ ~dirty =>
        \A b \in Ban :
            /\ Enforced(b) =>
                 deadline[b] # 0 /\ kernel[b] <= deadline[b] + Max({MaxWrite, Unit - 1})
            /\ (renewAt = 0 \/ now < renewAt + (MaxLease \div 2))
               /\ deadline[b] >= now + Unit + MaxWrite => Enforced(b)
=============================================================================
