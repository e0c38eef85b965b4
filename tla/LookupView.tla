----------------------------- MODULE LookupView -----------------------------
(***************************************************************************)
(* Lookups without a lock (internal/app/lookup.go).  The writer, who holds *)
(* Engine.mu, withdraws the applied view, changes what the kernel          *)
(* enforces and publishes a new view, each time with two atomic stores; a  *)
(* lookup loads the view and the version, evaluates, and looks at both     *)
(* again before it answers.                                                *)
(***************************************************************************)
EXTENDS Naturals

CONSTANTS Reader,       \* concurrent lookups
          State,        \* what may be enforced
          None,
          MaxVersion    \* bound: Engine.queryVersion

ASSUME NoneIsNoState == None \notin State

ASSUME MaxVersionAssumption == MaxVersion \in Nat

VARIABLES
    enforced,   \* what the kernel enforces
    version,    \* Engine.queryVersion
    view,       \* Engine.queryView
    writer,     \* where the holder of Engine.mu is
    pc,         \* where each lookup is
    loaded,     \* the view a lookup loaded
    seen,       \* the version a lookup loaded
    current     \* what was enforced when a lookup last compared the version

vars == <<enforced, version, view, writer, pc, loaded, seen, current>>

NoView == [token |-> 0, state |-> None]

Init ==
    /\ enforced \in State /\ version = 0 /\ view = NoView /\ writer = "between"
    /\ pc = [r \in Reader |-> "idle"] /\ loaded = [r \in Reader |-> NoView]
    /\ seen = [r \in Reader |-> 0] /\ current = [r \in Reader |-> None]

ReaderUnchanged == UNCHANGED <<pc, loaded, seen, current>>

----------------------------------------------------------------------------
(* The writer.                                                             *)

Bump == version < MaxVersion /\ version' = version + 1

\* invalidateLookupLocked and abortLookupLocked: first the version.
Invalidate ==
    /\ writer \in {"published", "between"} /\ Bump /\ writer' = "invalidating"
    /\ UNCHANGED <<enforced, view>> /\ ReaderUnchanged

InvalidateView ==
    /\ writer = "invalidating" /\ view' = NoView /\ writer' = "between"
    /\ UNCHANGED <<enforced, version>> /\ ReaderUnchanged

\* Mutant: the kernel is written before the view is withdrawn.
MayAlwaysWrite == writer \in {"between", "published"}

\* Native writes follow invalidateLookupLocked.
MayWrite == writer = "between"

Enforce ==
    /\ MayWrite /\ enforced' \in State
    /\ UNCHANGED <<version, view, writer>> /\ ReaderUnchanged

\* publishLookupLocked: the version is the token of the view stored next.
Publish ==
    /\ writer \in {"published", "between"} /\ Bump /\ writer' = "publishing"
    /\ UNCHANGED <<enforced, view>> /\ ReaderUnchanged

PublishView ==
    /\ writer = "publishing" /\ writer' = "published"
    /\ view' = [token |-> version, state |-> enforced]
    /\ UNCHANGED <<enforced, version>> /\ ReaderUnchanged

----------------------------------------------------------------------------
(* A lookup.                                                               *)

LoadView(r) ==
    /\ pc[r] = "idle" /\ pc' = [pc EXCEPT ![r] = "view"] /\ loaded' = [loaded EXCEPT ![r] = view]
    /\ UNCHANGED <<enforced, version, view, writer, seen, current>>

\* No view, or one withdrawn meanwhile: the answer is "unknown".
LoadVersion(r) ==
    /\ pc[r] = "view" /\ seen' = [seen EXCEPT ![r] = version]
    /\ pc' = [pc EXCEPT ![r] = IF loaded[r] = NoView \/ loaded[r].token # version
                               THEN "idle" ELSE "evaluate"]
    /\ UNCHANGED <<enforced, version, view, writer, loaded, current>>

VersionHolds(r) == version = seen[r]

CheckVersion(r) ==
    /\ pc[r] = "evaluate" /\ current' = [current EXCEPT ![r] = enforced]
    /\ pc' = [pc EXCEPT ![r] = IF VersionHolds(r) THEN "recheck" ELSE "idle"]
    /\ UNCHANGED <<enforced, version, view, writer, loaded, seen>>

CheckView(r) ==
    /\ pc[r] = "recheck"
    /\ pc' = [pc EXCEPT ![r] = IF view = loaded[r] THEN "answered" ELSE "idle"]
    /\ UNCHANGED <<enforced, version, view, writer, loaded, seen, current>>

Return(r) ==
    /\ pc[r] = "answered" /\ pc' = [pc EXCEPT ![r] = "idle"]
    /\ UNCHANGED <<enforced, version, view, writer, loaded, seen, current>>

Writes == Invalidate \/ InvalidateView \/ Enforce \/ Publish \/ PublishView

Lookup(r) ==
    LoadView(r) \/ LoadVersion(r) \/ CheckVersion(r) \/ CheckView(r) \/ Return(r)

Next == Writes \/ \E r \in Reader : Lookup(r)

Spec == Init /\ [][Next]_vars

----------------------------------------------------------------------------
Views == [token : Nat, state : State \cup {None}]

\* The state of the version protocol (lookup.go): a view carries the version it
\* was published under, and a lookup knows only what it has loaded.
TypeOK ==
    /\ enforced \in State /\ version \in Nat /\ view \in Views
    /\ writer \in {"published", "between", "invalidating", "publishing"}
    /\ pc \in [Reader -> {"idle", "view", "evaluate", "recheck", "answered"}]
    /\ loaded \in [Reader -> Views] /\ seen \in [Reader -> Nat]
    /\ current \in [Reader -> State \cup {None}]

\* A lookup answers with what was enforced at one instant of its call
\* (lookup.go Lookup): the instant of its second look at the version.  However
\* it interleaves with writers, no answer mixes two states or shows one that
\* had been withdrawn.
AnswerWasEnforced == \A r \in Reader : pc[r] = "answered" => loaded[r].state = current[r]

\* A view with the current version describes what is enforced, whoever still
\* holds it (lookup.go publishLookupLocked); every other view is older.
Authority(v) ==
    /\ v.token <= version
    /\ v # NoView /\ v.token = version => writer = "published" /\ v.state = enforced

TokenIsAuthority == Authority(view) /\ \A r \in Reader : Authority(loaded[r])

\* What a lookup has established where it is.
ReaderKnows ==
    \A r \in Reader :
        /\ pc[r] = "evaluate" => loaded[r] # NoView /\ loaded[r].token = seen[r]
        /\ pc[r] \in {"recheck", "answered"} => loaded[r].state = current[r]

\* The strengthening of AnswerWasEnforced that every step of the writer and of
\* the lookups preserves: a view whose version is still current shows what is
\* enforced, and a lookup past its first look knows it (lookup.go Lookup).
IInv == TypeOK /\ TokenIsAuthority /\ ReaderKnows
=============================================================================
