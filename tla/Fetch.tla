------------------------------- MODULE Fetch -------------------------------
(***************************************************************************)
(* One source transaction's requests (internal/source/resolve.go fetchAll, *)
(* retry.go, dbip.go): a feeder, a pool of workers and the collector of    *)
(* each transaction, which share the resolver's request slots.  What a     *)
(* response holds is left out; how a request ends is not.                  *)
(***************************************************************************)
EXTENDS Naturals, Sequences, FiniteSets, Functions

CONSTANTS Txn,              \* calls of fetchAll
          Selectors,
          Due,              \* the selectors of a transaction, no selector twice
          Country,          \* selectors served by the DB-IP batch
          MaxConcurrent,    \* maxConcurrent, the capacity of Resolver.slots
          MaxAttempts,      \* maxFetchAttempts
          Cancelable,       \* transactions whose caller may cancel them
          None

\* The resolver is given sequences of selectors, and has request slots.
ASSUME FetchAssumption ==
    /\ Due \in [Txn -> Seq(Selectors)]
    /\ MaxConcurrent \in Nat \ {0}
    /\ None \notin {"none", "context", "exhausted", "permanent", "notfound", "incomplete"}

VARIABLES
    parent,     \* whether the caller's context is cancelled
    canceled,   \* whether requestCtx is, in its own right
    feeder,     \* positions in Due of the selectors not offered yet
    closed,     \* whether the jobs channel is closed
    worker,     \* each worker of each transaction
    results,    \* the buffered channel of each transaction
    fetched,    \* what the collector has
    firstErr,   \* its first error
    answer      \* what fetchAll returned

fetchVars == <<parent, canceled, feeder, closed, worker, results, fetched, firstErr, answer>>

Worker == 1..MaxConcurrent

\* One worker per selector, and no more than there are slots.
Workers(t) == {w \in Worker : w <= Len(Due[t])}

Ready == [at |-> "ready", sel |-> None, attempt |-> 0, lag |-> 0, err |-> None]

Exited == [Ready EXCEPT !.at = "exit"]

Countries(t) == Range(Due[t]) \cap Country

\* fetchAll offers only the first country of a batch.
Jobs(t) ==
    {i \in DOMAIN Due[t] : Due[t][i] \in Country => \A j \in 1..(i - 1) : Due[t][j] \notin Country}

FetchInit ==
    /\ parent = [t \in Txn |-> FALSE] /\ canceled = [t \in Txn |-> FALSE]
    /\ feeder = [t \in Txn |-> Jobs(t)] /\ closed = [t \in Txn |-> FALSE]
    /\ worker = [t \in Txn |-> [w \in Worker |-> IF w \in Workers(t) THEN Ready ELSE Exited]]
    /\ results = [t \in Txn |-> <<>>]
    /\ fetched = [t \in Txn |-> {}]
    /\ firstErr = [t \in Txn |-> None]
    /\ answer = [t \in Txn |-> None]

\* requestCtx.Err() # nil
Done(t) == parent[t] \/ canceled[t]

Held == {h \in Txn \X Worker : worker[h[1]][h[2]].at = "request"}

Set(t, w, r) == worker' = [worker EXCEPT ![t][w] = r]

Quiet == UNCHANGED <<parent, canceled, feeder, closed, results, fetched, firstErr, answer>>

----------------------------------------------------------------------------
(* The feeder and the workers' loop.                                       *)

\* The unbuffered jobs channel: the feeder hands the selector over.  Which of
\* the idle workers receives it is immaterial; the model takes the first.
Take(t, w) ==
    /\ worker[t][w].at = "ready" /\ \A v \in 1..(w - 1) : worker[t][v].at # "ready"
    /\ ~closed[t]
    /\ \E i \in feeder[t] :
         /\ \A j \in feeder[t] : i <= j
         /\ Set(t, w, [Ready EXCEPT !.at = "check", !.sel = Due[t][i]])
         /\ feeder' = [feeder EXCEPT ![t] = @ \ {i}]
    /\ UNCHANGED <<parent, canceled, closed, results, fetched, firstErr, answer>>

\* The feeder ends, and closes jobs, when all is offered or on cancellation.
FeederEnds(t) == feeder[t] = {} \/ Done(t)

CloseJobs(t) ==
    /\ ~closed[t] /\ FeederEnds(t)
    /\ closed' = [closed EXCEPT ![t] = TRUE]
    /\ UNCHANGED <<parent, canceled, feeder, worker, results, fetched, firstErr, answer>>

\* Mutant: a worker leaves only when jobs is closed and nothing was canceled.
LeavesOnClose(t) == closed[t] /\ ~Done(t)

Leaves(t) == Done(t) \/ closed[t]

Exit(t, w) ==
    /\ worker[t][w].at = "ready" /\ Leaves(t)
    /\ Set(t, w, Exited)
    /\ Quiet

----------------------------------------------------------------------------
(* retryFetch around fetchAttempt, or around fetchDBIPAttempt.             *)

Fails(t, w, err) == Set(t, w, [worker[t][w] EXCEPT !.at = "send", !.err = err])

\* The head of the loop: a wait between attempts, which cancellation ends.
Check(t, w) ==
    /\ worker[t][w].at = "check"
    /\ IF Done(t) THEN Fails(t, w, "context")
                  ELSE Set(t, w, [worker[t][w] EXCEPT !.at = "slot"])
    /\ Quiet

MoreAttempts(n) == n + 1 < MaxAttempts

\* fetchDBIP: only a 404 of the current month.
PreviousMonth(r, end) == r.sel \in Country /\ r.lag = 0 /\ end = "notfound"

\* The end of one attempt.  An error after cancellation is the context's.
AttemptEnds(t, w, end) ==
    LET r == worker[t][w]
    IN  CASE end = "ok" -> Fails(t, w, "none")
          [] end # "ok" /\ Done(t) -> Fails(t, w, "context")
          [] end = "transient" /\ ~Done(t) /\ MoreAttempts(r.attempt) ->
                Set(t, w, [r EXCEPT !.at = "check", !.attempt = @ + 1])
          [] end = "transient" /\ ~Done(t) /\ ~MoreAttempts(r.attempt) ->
                Fails(t, w, "exhausted")
          [] OTHER ->
                IF PreviousMonth(r, end)
                THEN Set(t, w, [r EXCEPT !.at = "check", !.attempt = 0, !.lag = 1])
                ELSE Fails(t, w, end)

\* fetchAttempt takes a slot before it sends the request.
TakeSlot(t, w) ==
    /\ worker[t][w].at = "slot" /\ Cardinality(Held) < MaxConcurrent
    /\ Set(t, w, [worker[t][w] EXCEPT !.at = "request"])
    /\ Quiet

\* The attempt's deadline passes, or requestCtx ends, while it waits.
SlotTimeout(t, w) ==
    /\ worker[t][w].at = "slot"
    /\ AttemptEnds(t, w, "transient")
    /\ Quiet

\* fetchAttempt: a complete and valid response, a transport failure or a status
\* worth a retry, or a failure that is not.
RequestEnds(t) == {"transient", "ok"} \cup (IF Done(t) THEN {} ELSE {"permanent"})

\* fetchDBIPAttempt: a 404 is told apart, and cancellation is seen at the end.
BatchEnds(t) == IF Done(t) THEN {"transient"} ELSE {"transient", "ok", "permanent", "notfound"}

Ends(t, sel) == IF sel \in Country THEN BatchEnds(t) ELSE RequestEnds(t)

\* The slot is returned when the attempt ends.
Request(t, w) == \E end \in Ends(t, worker[t][w].sel) : LET r == worker[t][w] IN
    /\ r.at = "request"
    /\ AttemptEnds(t, w, end)
    /\ Quiet

\* Mutant: a failing worker cancels its siblings before it reports.
CancelFirst(t, w) == LET r == worker[t][w] IN
    IF r.err # "none" /\ ~Done(t)
    THEN canceled' = [canceled EXCEPT ![t] = TRUE] /\ UNCHANGED <<results, worker>>
    ELSE /\ results' = [results EXCEPT ![t] = Append(@, [sel |-> r.sel, err |-> r.err])]
         /\ Set(t, w, Ready)
         /\ UNCHANGED canceled

\* The worker reports, unless requestCtx is done and select prefers that, and
\* then cancels its siblings if it failed.
Report(t, w) == LET r == worker[t][w] IN
    /\ results' \in {[results EXCEPT ![t] = Append(@, [sel |-> r.sel, err |-> r.err])]}
                      \cup (IF Done(t) THEN {results} ELSE {})
    /\ canceled' = [canceled EXCEPT ![t] = @ \/ r.err # "none"]
    /\ Set(t, w, Ready)

Send(t, w) ==
    /\ worker[t][w].at = "send"
    /\ Report(t, w)
    /\ UNCHANGED <<parent, feeder, closed, fetched, firstErr, answer>>

----------------------------------------------------------------------------
(* The collector.                                                          *)

\* What a result brings: the batch stands for all countries.
Brought(t, sel) == IF sel \in Country THEN Countries(t) ELSE {sel}

Receive(t) ==
    /\ results[t] # <<>> /\ answer[t] = None
    /\ LET r == Head(results[t])
       IN  /\ firstErr' = [firstErr EXCEPT
                             ![t] = IF @ = None /\ r.err # "none" THEN r.err ELSE @]
           /\ canceled' = [canceled EXCEPT ![t] = @ \/ r.err # "none"]
           /\ fetched' = [fetched EXCEPT
                            ![t] = IF r.err = "none" THEN @ \cup Brought(t, r.sel) ELSE @]
    /\ results' = [results EXCEPT ![t] = Tail(@)]
    /\ UNCHANGED <<parent, feeder, closed, worker, answer>>

Answer(t) ==
    CASE firstErr[t] # None -> firstErr[t]
      [] firstErr[t] = None /\ parent[t] -> "context"
      [] firstErr[t] = None /\ ~parent[t] /\ fetched[t] # Range(Due[t]) -> "incomplete"
      [] OTHER -> "none"

\* results is closed once every worker is done.
ResultsClosed(t) == results[t] = <<>> /\ \A w \in Worker : worker[t][w].at = "exit"

Return(t) ==
    /\ answer[t] = None /\ ResultsClosed(t)
    /\ answer' = [answer EXCEPT ![t] = Answer(t)]
    /\ canceled' = [canceled EXCEPT ![t] = TRUE]
    /\ UNCHANGED <<parent, feeder, closed, worker, results, fetched, firstErr>>

\* The caller's context ends: a reload is superseded, or the daemon stops.
CancelParent(t) ==
    /\ t \in Cancelable /\ ~parent[t] /\ answer[t] = None
    /\ parent' = [parent EXCEPT ![t] = TRUE]
    /\ UNCHANGED <<canceled, feeder, closed, worker, results, fetched, firstErr, answer>>

----------------------------------------------------------------------------

WorkerStep(t, w) ==
    \/ Take(t, w) \/ Exit(t, w) \/ Check(t, w) \/ TakeSlot(t, w) \/ SlotTimeout(t, w)
    \/ Request(t, w) \/ Send(t, w)

FetchNext ==
    \E t \in Txn : \/ CloseJobs(t) \/ Receive(t) \/ Return(t) \/ CancelParent(t)
                   \/ \E w \in Worker : WorkerStep(t, w)

FetchSpec == FetchInit /\ [][FetchNext]_fetchVars

----------------------------------------------------------------------------
(* Properties. *)

\* fetchAll reports the failure that stopped it, never the cancellation that
\* failure caused among the other workers, and never that some selector is
\* missing for no reason: a context error is the caller's.
RootCause ==
    \A t \in Txn : /\ answer[t] # "incomplete"
                   /\ (answer[t] = "context") => parent[t]
=============================================================================
