----------------------------- MODULE Decisions -----------------------------
(***************************************************************************)
(* The decision store of one LAPI client epoch (internal/crowdsec/store.go)*)
(* and its timed projection: disjoint prefixes, each with the instant its  *)
(* last covering decision ends (internal/crowdsec/projection.go).          *)
(***************************************************************************)
EXTENDS Addresses

CONSTANTS ID,           \* decision IDs
          Banned,       \* the prefixes decisions name
          None,
          Horizon,      \* bound: instants are 0 .. Horizon
          MaxSequence   \* bound: batch sequences are 1 .. MaxSequence

VARIABLES
    decisions,  \* Store.decisions
    revision,   \* Store.revision
    sequence,   \* Store.lastSequence
    now,        \* the clock
    said        \* history: what the batches, in their order, last said of each ID

vars == <<decisions, revision, sequence, now, said>>

Decision == [id : ID, prefix : Banned, deadline : 1 .. Horizon]

\* The new decisions of a batch, at most two.
News == {{}} \cup {{d} : d \in Decision} \cup {{d, e} : d, e \in Decision}

----------------------------------------------------------------------------
(* projection.go.  A boundary is the first address past a range; the top   *)
(* of the address space is 2^Width.                                        *)

addPower(start, sizeBits) ==
    IF start + 2^sizeBits >= 2^Width THEN 2^Width ELSE start + 2^sizeBits

aligned(start, sizeBits) == start % 2^sizeBits = 0

RECURSIVE decomposeRange(_, _, _, _)

decomposeRange(start, end, deadline, family) ==
    IF start >= end THEN <<>>
    ELSE LET fits(k) == aligned(start, k) /\ addPower(start, k) <= end
             chosen == CHOOSE k \in 0 .. Width : fits(k) /\ \A j \in (k + 1) .. Width : ~fits(j)
         IN  <<[prefix |-> [family |-> family, addr |-> start, bits |-> Width - chosen],
                deadline |-> deadline]>>
             \o decomposeRange(addPower(start, chosen), end, deadline, family)

\* The deadline heap is the set of its items; on top is one with the latest.
top(heap) == CHOOSE d \in heap : \A e \in heap : d.deadline >= e.deadline

\* Mutant: a decision that has ended stays on top.
UnpoppedHeap(heap, active) == heap

RECURSIVE current(_, _)

\* The heap once the inactive items on top are popped.
current(heap, active) ==
    IF heap = {} \/ top(heap) \in active THEN heap ELSE current(heap \ {top(heap)}, active)

\* Adjacent ranges with one deadline are one range.
Extends(ranges, start, deadline) ==
    ranges # <<>> /\ Last(ranges).end = start /\ Last(ranges).deadline = deadline

WithRange(ranges, start, end, deadline) ==
    IF Extends(ranges, start, deadline)
    THEN Front(ranges) \o <<[Last(ranges) EXCEPT !.end = end]>>
    ELSE Append(ranges, [start |-> start, end |-> end, deadline |-> deadline])

\* A sweep over the boundaries: at each one the decisions that end leave active,
\* those that start enter it and the heap; up to the next one the top counts.
projectFamily(live, family) ==
    LET mine == {d \in live : d.prefix.family = family}
        endOf(d) == addPower(d.prefix.addr, Width - d.prefix.bits)
        events == SetToSortSeq({d.prefix.addr : d \in mine} \cup {endOf(d) : d \in mine}, <)
        sweep(s, i) ==
            LET started == {d \in mine : d.prefix.addr = events[i]}
                active == {d \in s.active : endOf(d) # events[i]} \cup started
                heap == current(s.heap \cup started, active)
            IN  [active |-> active, heap |-> heap,
                 ranges |-> IF heap = {} THEN s.ranges
                            ELSE WithRange(s.ranges, events[i], events[i + 1], top(heap).deadline)]
        ranges == FoldLeft(sweep, [active |-> {}, heap |-> {}, ranges |-> <<>>],
                           [i \in 1 .. (Len(events) - 1) |-> i]).ranges
    IN  FlattenSeq([i \in DOMAIN ranges |->
            decomposeRange(ranges[i].start, ranges[i].end, ranges[i].deadline, family)])

Retained == {i \in ID : decisions[i] # None}

Projection ==
    LET live == {decisions[i].decision : i \in {j \in Retained : decisions[j].decision.deadline > now}}
    IN  projectFamily(live, 4) \o projectFamily(live, 6)

----------------------------------------------------------------------------
(* store.go *)

\* Whether admitting a batch changes the desired state.
batchChanges(batch) ==
    IF batch.startup THEN Retained # {} \/ \E d \in batch.new : d.deadline > now
    ELSE \/ \E i \in Retained : decisions[i].decision.deadline <= now
         \/ batch.deleted \cap Retained # {}
         \/ \E d \in batch.new : d.deadline > now \/ decisions[d.id] # None

\* One batch names each new ID once.
validateBatch(batch) == \A d, e \in batch.new : d.id = e.id => d = e

\* What a batch leaves of the ID when it has no live update for it.
Kept(batch, i) ==
    /\ ~batch.startup /\ i \notin batch.deleted /\ i \in Retained
    /\ decisions[i].decision.deadline > now /\ \A d \in batch.new : d.id # i

\* Mutant: batches are applied in any order.
AnySequence(n) == TRUE

NewSequence(n) == n > sequence

Apply(batch, n) ==
    /\ NewSequence(n) /\ validateBatch(batch)
    /\ decisions' = [i \in ID |->
            IF \E d \in batch.new : d.id = i /\ d.deadline > now
            THEN [decision |-> CHOOSE d \in batch.new : d.id = i /\ d.deadline > now, sequence |-> n]
            ELSE IF Kept(batch, i) THEN decisions[i] ELSE None]
    /\ revision' = IF batchChanges(batch) THEN revision + 1 ELSE revision
    /\ sequence' = n
    /\ said' = IF n <= sequence THEN said ELSE [i \in ID |->
            IF \E d \in batch.new : d.id = i THEN {d \in batch.new : d.id = i}
            ELSE IF batch.startup \/ i \in batch.deleted THEN {} ELSE said[i]]
    /\ UNCHANGED now

Expired == {i \in Retained : decisions[i].decision.deadline <= now}

Expire ==
    /\ Expired # {} /\ revision' = revision + 1
    /\ decisions' = [i \in ID |-> IF i \in Expired THEN None ELSE decisions[i]]
    /\ UNCHANGED <<sequence, now, said>>

Tick == now < Horizon /\ now' = now + 1 /\ UNCHANGED <<decisions, revision, sequence, said>>

Init ==
    /\ decisions = [i \in ID |-> None] /\ revision = 0 /\ sequence = 0 /\ now = 0
    /\ said = [i \in ID |-> {}]

Next ==
    \/ \E startup \in BOOLEAN, new \in News, deleted \in SUBSET ID, n \in 1 .. MaxSequence :
          Apply([startup |-> startup, new |-> new, deleted |-> deleted], n)
    \/ Expire
    \/ Tick

Spec == Init /\ [][Next]_vars

----------------------------------------------------------------------------
\* The projected prefixes an address is in.
Hits(projection, family, a) == {i \in DOMAIN projection : Within(projection[i].prefix, family, a)}

\* What the decisions say of it.
Covering(family, a) ==
    {decisions[i].decision.deadline : i \in {j \in Retained :
        /\ decisions[j].decision.deadline > now
        /\ Within(decisions[j].decision.prefix, family, a)}}

\* Store.Projection: an address is in exactly one projected prefix when a live
\* decision covers it, with the latest covering deadline, and in none otherwise.
\* However the bans nest, none of them shortens or outlives another, and no two
\* prefixes overlap (ValidateDynamic would refuse the projection).
ProjectionExact ==
    LET projection == Projection
    IN  \A family \in Family, a \in Address :
            LET covering == Covering(family, a)
                hits == Hits(projection, family, a)
            IN  /\ Cardinality(hits) = IF covering = {} THEN 0 ELSE 1
                /\ \A i \in hits : projection[i].deadline = Max(covering)

\* Store.Apply and Expire: the store holds of every ID what the batches, in the
\* order of their sequences, last said, until that expires; an old batch changes
\* nothing, and an expired or deleted decision never returns.
StoreIsAuthority ==
    \A i \in ID :
        /\ i \in Retained => said[i] = {decisions[i].decision}
        /\ i \notin Retained => \A d \in said[i] : d.deadline <= now
=============================================================================
