----------------------------- MODULE MCSources -----------------------------
(* The provider side of a source refresh for TLC: the schedule and the     *)
(* resolution of a transaction (Resolve), its requests (Fetch) and the     *)
(* cache it stages its result in (SourceCache).  The three share no state, *)
(* so one of them moves at a time: which one is chosen in AnyInit.         *)
EXTENDS SourceCache, Fetch, TLC

CONSTANTS c1, c2, l1, t1, t2, o1, o2, o3, m1, m2,
          List, Config, Interval, Jitter, Horizon, MaxMonth, MaxReload, MaxRefresh

VARIABLES part,     \* the part that moves
          now, month, published, active, job, deadlines, timer, admitted

Transactions == INSTANCE Resolve

transactionVars == <<now, month, published, active, job, deadlines, timer, admitted>>

anyVars == <<part, transactionVars, fetchVars, vars>>

AnyInit ==
    /\ part \in {"transactions", "requests", "cache"}
    /\ Transactions!Init /\ FetchInit /\ Init

AnyNext ==
    /\ UNCHANGED part
    /\ \/ part = "transactions" /\ Transactions!Next /\ UNCHANGED <<fetchVars, vars>>
       \/ part = "requests" /\ FetchNext /\ UNCHANGED <<transactionVars, vars>>
       \/ part = "cache" /\ Next /\ UNCHANGED <<transactionVars, fetchVars>>

\* Some goroutine that can step does; every attempt of a request has a deadline.
AnySpec == AnyInit /\ [][AnyNext]_anyVars /\ WF_anyVars(AnyNext)

-----------------------------------------------------------------------------
(* The instance. *)

IntervalVal == (c1 :> 2) @@ (c2 :> 2) @@ (l1 :> 1)

Cfg(req, provider, ident) == [required |-> req, provider |-> provider, ident |-> ident]

\* A configuration, one more country, another provider, another list.
Configs == {Cfg({c1, l1}, "dbip-lite", 1), Cfg({c1, c2, l1}, "dbip-lite", 1),
            Cfg({c1, l1}, "ripestat", 1), Cfg({c1, l1}, "dbip-lite", 2)}

\* A DB-IP batch and a list beside another list: three workers, two slots.
DueVal == (t1 :> <<c1, c2, l1>>) @@ (t2 :> <<l1>>)

\* Two manifests that share an object.
EntriesVal == (m1 :> {o1, o2}) @@ (m2 :> {o2, o3})

-----------------------------------------------------------------------------
(* Properties of the parts. *)

\* Whatever resolve returns, and whatever is committed, covers exactly the
\* selectors its configuration requires, from the sources it names, the
\* countries from one artifact.
SnapshotExact == Transactions!SnapshotExact

\* Every call of fetchAll returns: no worker waits for a job, a slot or room
\* in the channel for ever.
Returns == <>(part = "requests" => \A t \in Txn : answer[t] # None)
=============================================================================
