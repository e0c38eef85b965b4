---------------------------- MODULE FetchProofs ----------------------------
(***************************************************************************)
(* fetchAll reports what stopped it, for any number of transactions,       *)
(* selectors, workers and attempts, and for every interleaving of feeder,  *)
(* workers, collector and cancellation.                                    *)
(***************************************************************************)
EXTENDS Fetch, WellFoundedInduction, TLAPS

-----------------------------------------------------------------------------
(* The inductive invariant. *)

\* What a request may fail with; Real is all but a cancellation.
Real == {"exhausted", "permanent", "notfound"}

Errors == Real \cup {"context"}

Fetching == [at : {"ready", "exit", "check", "slot", "request", "send"},
             sel : Selectors \cup {None}, attempt : Nat, lag : Nat, err : Errors \cup {"none", None}]

Result == [sel : Selectors, err : Errors \cup {"none"}]

TypeOK ==
    /\ parent \in [Txn -> BOOLEAN] /\ canceled \in [Txn -> BOOLEAN] /\ closed \in [Txn -> BOOLEAN]
    /\ feeder \in [Txn -> SUBSET Nat]
    /\ worker \in [Txn -> [Worker -> Fetching]]
    /\ results \in [Txn -> Seq(Result)]
    /\ fetched \in [Txn -> SUBSET Selectors]
    /\ firstErr \in [Txn -> Errors \cup {None}]
    /\ answer \in [Txn -> Errors \cup {"none", "incomplete", None}]

Busy == {"check", "slot", "request", "send"}

\* A worker is at a selector of its transaction, and a cancellation it reports
\* has happened.
Working(t) ==
    \A w \in Worker : worker[t][w].at \in Busy =>
        /\ worker[t][w].sel \in Range(Due[t])
        /\ worker[t][w].at = "send" =>
              /\ worker[t][w].err \in Errors \cup {"none"}
              /\ worker[t][w].err = "context" => Done(t)

\* Without a cancellation the feeder ends when it has offered everything, and a
\* worker when the feeder has.
Feeding(t) ==
    /\ feeder[t] \subseteq DOMAIN Due[t]
    /\ closed[t] => feeder[t] = {} \/ Done(t)
    /\ \A w \in Workers(t) : worker[t][w].at = "exit" => closed[t] \/ Done(t)

\* An error in the channel, or at the collector, has cancelled the others.
Reported(t) ==
    /\ \A i \in DOMAIN results[t] :
         /\ results[t][i].sel \in Range(Due[t])
         /\ results[t][i].err # "none" => canceled[t]
    /\ firstErr[t] # None => canceled[t]

\* The collector has, or will receive before position n, the reason.
Reason(t, n) == firstErr[t] # None \/ \E i \in 1..(n - 1) : results[t][i].err \in Real

\* Unless the caller cancelled, a cancellation has a reason, and the workers'
\* context errors come after it.
Reasoned(t) ==
    ~parent[t] =>
        /\ firstErr[t] # "context"
        /\ \A i \in DOMAIN results[t] : results[t][i].err = "context" => Reason(t, i)
        /\ canceled[t] /\ answer[t] = None => Reason(t, Len(results[t]) + 1)

\* A selector is fetched, or it is about to be offered, worked at or reported.
Covered(t, s) ==
    \/ s \in fetched[t]
    \/ \E i \in feeder[t] : s \in Brought(t, Due[t][i])
    \/ \E w \in Worker : worker[t][w].at \in Busy /\ s \in Brought(t, worker[t][w].sel)
    \/ \E i \in DOMAIN results[t] : s \in Brought(t, results[t][i].sel)

Complete(t) ==
    /\ fetched[t] \subseteq Range(Due[t])
    /\ ~Done(t) => \A s \in Range(Due[t]) : Covered(t, s)

\* What fetchAll returns, once its workers are gone.
Truthful(t) ==
    /\ answer[t] # "incomplete" /\ (answer[t] = "context" => parent[t])
    /\ answer[t] # None => \A w \in Worker : worker[t][w].at = "exit"

Good(t) ==
    Working(t) /\ Feeding(t) /\ Reported(t) /\ Reasoned(t) /\ Complete(t) /\ Truthful(t)

FInv == TypeOK /\ \A t \in Txn : Good(t)

-----------------------------------------------------------------------------
(* One transaction at a time. *)

\* A step of one transaction has its own invariant to show.
LEMMA OneTransaction ==
    ASSUME FInv, TypeOK', NEW t \in Txn, Good(t)',
           \A u \in Txn \ {t} :
               /\ parent'[u] = parent[u] /\ canceled'[u] = canceled[u] /\ closed'[u] = closed[u]
               /\ feeder'[u] = feeder[u] /\ worker'[u] = worker[u] /\ results'[u] = results[u]
               /\ fetched'[u] = fetched[u] /\ firstErr'[u] = firstErr[u] /\ answer'[u] = answer[u]
    PROVE  FInv'
<1> SUFFICES ASSUME NEW u \in Txn \ {t}
             PROVE  Good(u)'
    BY DEF FInv
<1>1. Good(u) /\ u \in Txn
    BY DEF FInv
<1>2. Working(u)'
    BY <1>1 DEF Good, Working, Done
<1>3. Feeding(u)'
    BY <1>1 DEF Good, Feeding, Done, Workers
<1>4. Reported(u)'
    BY <1>1 DEF Good, Reported
<1>5. Reasoned(u)'
    BY <1>1 DEF Good, Reasoned, Reason
<1>6. Complete(u)'
    BY <1>1 DEF Good, Complete, Covered, Done, Brought, Countries
<1>7. Truthful(u)'
    BY <1>1 DEF Good, Truthful
<1> QED
    BY <1>2, <1>3, <1>4, <1>5, <1>6, <1>7 DEF Good

\* Where a worker goes.
LEMMA SetFacts ==
    ASSUME FInv, NEW t \in Txn, NEW w \in Worker, NEW r \in Fetching, Set(t, w, r)
    PROVE  /\ worker' \in [Txn -> [Worker -> Fetching]]
           /\ worker'[t][w] = r
           /\ \A v \in Worker \ {w} : worker'[t][v] = worker[t][v]
           /\ \A u \in Txn \ {t} : worker'[u] = worker[u]
<1>1. worker \in [Txn -> [Worker -> Fetching]]
    BY DEF FInv, TypeOK
<1> QED
    BY <1>1 DEF Set

\* retryFetch moves a worker that stays at its selector.
LEMMA AttemptStep ==
    ASSUME FInv, NEW t \in Txn, NEW w \in Worker, NEW r \in Fetching, Set(t, w, r), Quiet,
           worker[t][w].at \in Busy, r.at \in Busy, r.sel = worker[t][w].sel,
           r.at = "send" => r.err \in Errors \cup {"none"} /\ (r.err = "context" => Done(t))
    PROVE  FInv'
<1>1. /\ worker' \in [Txn -> [Worker -> Fetching]] /\ worker'[t][w] = r
      /\ \A v \in Worker \ {w} : worker'[t][v] = worker[t][v]
      /\ \A u \in Txn \ {t} : worker'[u] = worker[u]
    BY SetFacts
<1>2. TypeOK'
    BY <1>1 DEF FInv, TypeOK, Quiet
<1>3. Good(t)
    BY DEF FInv
<1>4. Done(t)' = Done(t)
    BY DEF Quiet, Done
<1>5. Working(t)'
    BY <1>1, <1>3, <1>4 DEF Good, Working
<1>6. Feeding(t)'
    BY <1>1, <1>3, <1>4 DEF Good, Feeding, Quiet, Workers, Busy
<1>7. Reported(t)' /\ Reasoned(t)' /\ Truthful(t)'
    <2>1. answer[t] = None
        BY <1>3, SMTT(30) DEF Good, Truthful, Busy
    <2> QED
        BY <1>3, <2>1 DEF Good, Reported, Reasoned, Reason, Truthful, Quiet
<1>8. Complete(t)'
    <2> SUFFICES ASSUME ~Done(t), NEW s \in Range(Due[t])
                 PROVE  Covered(t, s)'
        BY <1>3, <1>4 DEF Good, Complete, Quiet
    <2>1. Covered(t, s)
        BY <1>3 DEF Good, Complete
    <2>2. ASSUME NEW v \in Worker, worker[t][v].at \in Busy, s \in Brought(t, worker[t][v].sel)
          PROVE  worker'[t][v].at \in Busy /\ s \in Brought(t, worker'[t][v].sel)
        BY <1>1, <2>2
    <2> QED
        BY <2>1, <2>2 DEF Covered, Quiet, Brought, Countries
<1>9. Good(t)'
    BY <1>5, <1>6, <1>7, <1>8 DEF Good
<1> QED
    BY <1>1, <1>2, <1>9, OneTransaction DEF Quiet

\* A worker at a selector reports: it has fetched it, or failed.
LEMMA FailsFInv ==
    ASSUME FInv, NEW t \in Txn, NEW w \in Worker, worker[t][w].at \in Busy, Quiet,
           NEW e \in Errors \cup {"none"}, e = "context" => Done(t), Fails(t, w, e)
    PROVE  FInv'
<1> DEFINE r == [worker[t][w] EXCEPT !.at = "send", !.err = e]
<1>1. worker[t][w] \in Fetching
    BY DEF FInv, TypeOK
<1>2. r \in Fetching
    BY <1>1, Zenon DEF Fetching
<1>3. r.at = "send" /\ r.err = e /\ r.sel = worker[t][w].sel
    BY <1>1 DEF Fetching
<1>4. Set(t, w, r)
    BY DEF Fails
<1> HIDE DEF r
<1> QED
    BY <1>2, <1>3, <1>4, AttemptStep DEF Busy

\* An attempt ends, and with it the fetch or not.
LEMMA AttemptEndsFInv ==
    ASSUME FInv, NEW t \in Txn, NEW w \in Worker, worker[t][w].at \in Busy, Quiet,
           NEW end \in {"ok", "transient", "permanent", "notfound"}, AttemptEnds(t, w, end)
    PROVE  FInv'
<1> DEFINE r == worker[t][w]
           again == [r EXCEPT !.at = "check", !.attempt = @ + 1]
           previous == [r EXCEPT !.at = "check", !.attempt = 0, !.lag = 1]
<1>1. r \in Fetching
    BY DEF FInv, TypeOK
<1>2. /\ again \in Fetching /\ again.at = "check" /\ again.sel = r.sel
      /\ previous \in Fetching /\ previous.at = "check" /\ previous.sel = r.sel
    <2>1. r.attempt \in Nat /\ r.attempt + 1 \in Nat
        BY <1>1 DEF Fetching
    <2>2. again \in Fetching
        BY <1>1, <2>1, Zenon DEF Fetching
    <2>3. again.at = "check" /\ again.sel = r.sel
        BY <1>1 DEF Fetching
    <2>4. previous \in Fetching
        BY <1>1, Zenon DEF Fetching
    <2>5. previous.at = "check" /\ previous.sel = r.sel
        BY <1>1 DEF Fetching
    <2> QED
        BY <2>2, <2>3, <2>4, <2>5
<1>3. \/ \E e \in Errors \cup {"none"} : (e = "context" => Done(t)) /\ Fails(t, w, e)
      \/ Set(t, w, again) \/ Set(t, w, previous)
    BY DEF AttemptEnds, Errors, Real
<1> HIDE DEF again, previous
<1>4. CASE \E e \in Errors \cup {"none"} : (e = "context" => Done(t)) /\ Fails(t, w, e)
    BY <1>4, FailsFInv
<1>5. CASE Set(t, w, again)
    BY <1>2, <1>5, AttemptStep DEF Busy
<1>6. CASE Set(t, w, previous)
    BY <1>2, <1>6, AttemptStep DEF Busy
<1> QED
    BY <1>3, <1>4, <1>5, <1>6

\* The steps of retryFetch.
LEMMA RetryFInv ==
    ASSUME FInv, NEW t \in Txn, NEW w \in Worker,
           Check(t, w) \/ TakeSlot(t, w) \/ SlotTimeout(t, w) \/ Request(t, w)
    PROVE  FInv'
<1>1. Quiet /\ worker[t][w].at \in {"check", "slot", "request"}
    BY DEF Check, TakeSlot, SlotTimeout, Request
<1>2. worker[t][w] \in Fetching
    BY DEF FInv, TypeOK
<1>3. CASE Check(t, w)
    <2> DEFINE r == [worker[t][w] EXCEPT !.at = "slot"]
    <2>1. r \in Fetching /\ r.at = "slot" /\ r.sel = worker[t][w].sel
        BY <1>2 DEF Fetching
    <2> HIDE DEF r
    <2>2. CASE Done(t)
        BY <1>1, <1>3, <2>2, FailsFInv DEF Check, Busy, Errors
    <2>3. CASE ~Done(t)
        <3>1. Set(t, w, r)
            BY <1>3, <2>3 DEF Check, r
        <3> QED
            BY <1>1, <2>1, <3>1, AttemptStep DEF Busy
    <2> QED
        BY <2>2, <2>3
<1>4. CASE TakeSlot(t, w)
    <2> DEFINE r == [worker[t][w] EXCEPT !.at = "request"]
    <2>1. r \in Fetching /\ r.at = "request" /\ r.sel = worker[t][w].sel
        BY <1>2 DEF Fetching
    <2>2. Set(t, w, r)
        BY <1>4 DEF TakeSlot
    <2> HIDE DEF r
    <2> QED
        BY <1>1, <2>1, <2>2, AttemptStep DEF Busy
<1>5. CASE SlotTimeout(t, w)
    BY <1>1, <1>5, AttemptEndsFInv DEF SlotTimeout, Busy
<1>6. CASE Request(t, w)
    <2>1. PICK end \in {"ok", "transient", "permanent", "notfound"} : AttemptEnds(t, w, end)
        BY <1>6 DEF Request, Ends, BatchEnds, RequestEnds
    <2> QED
        BY <1>1, <2>1, AttemptEndsFInv DEF Busy
<1> QED
    BY <1>3, <1>4, <1>5, <1>6

\* An idle worker takes a job: its selector is the worker's now.
LEMMA TakeFInv ==
    ASSUME FInv, NEW t \in Txn, NEW w \in Worker, Take(t, w)
    PROVE  FInv'
<1>1. PICK i \in feeder[t] :
        /\ Set(t, w, [Ready EXCEPT !.at = "check", !.sel = Due[t][i]])
        /\ feeder' = [feeder EXCEPT ![t] = @ \ {i}]
    BY Zenon DEF Take
<1>2. /\ worker[t][w].at = "ready" /\ ~closed[t]
      /\ UNCHANGED <<parent, canceled, closed, results, fetched, firstErr, answer>>
    BY DEF Take
<1>3. Good(t) /\ TypeOK
    BY DEF FInv
<1> DEFINE r == [Ready EXCEPT !.at = "check", !.sel = Due[t][i]]
<1>4. i \in DOMAIN Due[t] /\ Due[t][i] \in Selectors /\ Due[t][i] \in Range(Due[t])
    BY <1>1, <1>3, FetchAssumption DEF Good, Feeding, Range
<1>5. r \in Fetching /\ r.at = "check" /\ r.sel = Due[t][i]
    BY <1>4, Zenon DEF Ready, Fetching
<1> HIDE DEF r
<1>6. Set(t, w, r)
    BY <1>1 DEF r
<1>7. /\ worker' \in [Txn -> [Worker -> Fetching]] /\ worker'[t][w] = r
      /\ \A v \in Worker \ {w} : worker'[t][v] = worker[t][v]
      /\ \A u \in Txn \ {t} : worker'[u] = worker[u]
    BY <1>5, <1>6, SetFacts
<1>8. /\ feeder' \in [Txn -> SUBSET Nat] /\ feeder'[t] = feeder[t] \ {i}
      /\ \A u \in Txn \ {t} : feeder'[u] = feeder[u]
    BY <1>1, <1>3 DEF TypeOK
<1>9. TypeOK'
    BY <1>2, <1>3, <1>7, <1>8 DEF TypeOK
<1>10. Done(t)' = Done(t)
    BY <1>2 DEF Done
<1>11. Working(t)'
    BY <1>3, <1>4, <1>5, <1>7, <1>10, Zenon DEF Good, Working
<1>12. Feeding(t)'
    BY <1>2, <1>3, <1>5, <1>7, <1>8, <1>10, ZenonT(40) DEF Good, Feeding, Workers
<1>13. Reported(t)' /\ Reasoned(t)' /\ Truthful(t)'
    <2>1. answer[t] = None
        BY <1>2, <1>3, ZenonT(40) DEF Good, Truthful
    <2> QED
        BY <1>2, <1>3, <2>1 DEF Good, Reported, Reasoned, Reason, Truthful
<1>14. Complete(t)'
    <2> SUFFICES ASSUME ~Done(t), NEW s \in Range(Due[t])
                 PROVE  Covered(t, s)'
        BY <1>2, <1>3, <1>10 DEF Good, Complete
    <2>1. Covered(t, s)
        BY <1>3 DEF Good, Complete
    <2>2. ASSUME NEW v \in Worker, worker[t][v].at \in Busy, s \in Brought(t, worker[t][v].sel)
          PROVE  worker'[t][v].at \in Busy /\ s \in Brought(t, worker'[t][v].sel)
        BY <1>2, <1>7, <2>2 DEF Busy
    <2>3. ASSUME NEW j \in feeder[t], s \in Brought(t, Due[t][j])
          PROVE  j \in feeder'[t] \/ (worker'[t][w].at \in Busy /\ s \in Brought(t, worker'[t][w].sel))
        BY <1>5, <1>7, <1>8, <2>3 DEF Busy
    <2> QED
        BY <1>2, <2>1, <2>2, <2>3 DEF Covered, Brought, Countries
<1>15. Good(t)'
    BY <1>11, <1>12, <1>13, <1>14, Zenon DEF Good
<1> QED
    BY <1>2, <1>7, <1>8, <1>9, <1>15, OneTransaction, SMTT(30)

\* An idle worker leaves.
LEMMA ExitFInv ==
    ASSUME FInv, NEW t \in Txn, NEW w \in Worker, Exit(t, w)
    PROVE  FInv'
<1>1. worker[t][w].at = "ready" /\ Leaves(t) /\ Set(t, w, Exited) /\ Quiet
    BY DEF Exit
<1>2. Exited \in Fetching /\ Exited.at = "exit"
    BY DEF Exited, Ready, Fetching
<1>3. /\ worker' \in [Txn -> [Worker -> Fetching]] /\ worker'[t][w] = Exited
      /\ \A v \in Worker \ {w} : worker'[t][v] = worker[t][v]
      /\ \A u \in Txn \ {t} : worker'[u] = worker[u]
    BY <1>1, <1>2, SetFacts
<1>4. Good(t) /\ TypeOK
    BY DEF FInv
<1>5. TypeOK'
    BY <1>1, <1>3, <1>4 DEF TypeOK, Quiet
<1>6. Done(t)' = Done(t)
    BY <1>1, SMTT(30) DEF Quiet, Done
<1>7. Working(t)'
    BY <1>2, <1>3, <1>4, <1>6, Zenon DEF Good, Working, Busy
<1>8. Feeding(t)'
    BY <1>1, <1>3, <1>4, <1>6, SMTT(30) DEF Good, Feeding, Quiet, Workers, Leaves
<1>9. Reported(t)' /\ Reasoned(t)' /\ Truthful(t)'
    <2>1. answer[t] = None
        BY <1>1, <1>4, Zenon DEF Good, Truthful
    <2> QED
        BY <1>1, <1>4, <2>1 DEF Good, Reported, Reasoned, Reason, Truthful, Quiet
<1>10. Complete(t)'
    <2> SUFFICES ASSUME ~Done(t), NEW s \in Range(Due[t])
                 PROVE  Covered(t, s)'
        BY <1>1, <1>4, <1>6, Zenon DEF Good, Complete, Quiet
    <2>1. Covered(t, s)
        BY <1>4 DEF Good, Complete
    <2>2. ASSUME NEW v \in Worker, worker[t][v].at \in Busy
          PROVE  worker'[t][v] = worker[t][v]
        BY <1>1, <1>3, <2>2 DEF Busy
    <2> QED
        BY <1>1, <2>1, <2>2, Zenon DEF Covered, Quiet, Brought, Countries
<1>11. Good(t)'
    BY <1>7, <1>8, <1>9, <1>10, SMTT(30) DEF Good
<1> QED
    BY <1>1, <1>3, <1>5, <1>11, OneTransaction DEF Quiet

\* The feeder has offered everything, or gives up.
LEMMA CloseJobsFInv ==
    ASSUME FInv, NEW t \in Txn, CloseJobs(t)
    PROVE  FInv'
<1>1. /\ FeederEnds(t) /\ closed' = [closed EXCEPT ![t] = TRUE]
      /\ UNCHANGED <<parent, canceled, feeder, worker, results, fetched, firstErr, answer>>
    BY DEF CloseJobs
<1>2. Good(t) /\ TypeOK
    BY DEF FInv
<1>3. /\ closed' \in [Txn -> BOOLEAN] /\ closed'[t] = TRUE
      /\ \A u \in Txn \ {t} : closed'[u] = closed[u]
    BY <1>1, <1>2 DEF TypeOK
<1>4. TypeOK'
    BY <1>1, <1>2, <1>3 DEF TypeOK
<1>5. Done(t)' = Done(t)
    BY <1>1, Zenon DEF Done
<1>6. Working(t)' /\ Reported(t)' /\ Reasoned(t)' /\ Truthful(t)'
    BY <1>1, <1>2, <1>5, Zenon DEF Good, Working, Reported, Reasoned, Reason, Truthful
<1>7. Feeding(t)'
    BY <1>1, <1>2, <1>3, <1>5, SMTT(30) DEF Good, Feeding, FeederEnds, Workers
<1>8. Complete(t)'
    BY <1>1, <1>2, <1>5 DEF Good, Complete, Covered, Brought, Countries
<1>9. Good(t)'
    BY <1>6, <1>7, <1>8, SMTT(30) DEF Good
<1> QED
    BY <1>1, <1>3, <1>4, <1>9, OneTransaction, ZenonT(40)

\* The caller gives up: whatever fails from now on may be for this reason.
LEMMA CancelParentFInv ==
    ASSUME FInv, NEW t \in Txn, CancelParent(t)
    PROVE  FInv'
<1>1. /\ parent' = [parent EXCEPT ![t] = TRUE]
      /\ UNCHANGED <<canceled, feeder, closed, worker, results, fetched, firstErr, answer>>
    BY DEF CancelParent
<1>2. Good(t) /\ TypeOK
    BY DEF FInv
<1>3. /\ parent' \in [Txn -> BOOLEAN] /\ parent'[t] = TRUE
      /\ \A u \in Txn \ {t} : parent'[u] = parent[u]
    BY <1>1, <1>2 DEF TypeOK
<1>4. TypeOK'
    BY <1>1, <1>2, <1>3 DEF TypeOK
<1>5. Good(t)'
    BY <1>1, <1>2, <1>3, Zenon DEF Good, Working, Feeding, Reported, Reasoned, Complete, Truthful, Done,
                            Workers
<1> QED
    BY <1>1, <1>3, <1>4, <1>5, OneTransaction, Zenon

\* A transaction's selectors are selectors.
LEMMA DueFacts ==
    ASSUME NEW t \in Txn
    PROVE  /\ Due[t] \in Seq(Selectors) /\ Range(Due[t]) \subseteq Selectors
           /\ \A s \in Range(Due[t]) : Brought(t, s) \subseteq Range(Due[t])
BY FetchAssumption DEF Range, Brought, Countries

\* A worker reports, or leaves it when the request is cancelled; its failure
\* cancels the others only after it is in the channel.
LEMMA SendFInv ==
    ASSUME FInv, NEW t \in Txn, NEW w \in Worker, Send(t, w)
    PROVE  FInv'
<1> DEFINE sel == worker[t][w].sel
           e == worker[t][w].err
           sent == [results EXCEPT ![t] = Append(@, [sel |-> sel, err |-> e])]
<1>1. /\ worker[t][w].at = "send" /\ Set(t, w, Ready)
      /\ canceled' = [canceled EXCEPT ![t] = @ \/ e # "none"]
      /\ results' = sent \/ (Done(t) /\ results' = results)
      /\ UNCHANGED <<parent, feeder, closed, fetched, firstErr, answer>>
    BY DEF Send, Report
<1>2. Good(t) /\ TypeOK
    BY DEF FInv
<1>3. /\ sel \in Range(Due[t]) /\ e \in Errors \cup {"none"} /\ (e = "context" => Done(t))
      /\ answer[t] = None /\ worker[t][w] \in Fetching
    BY <1>1, <1>2 DEF Good, Working, Truthful, Busy, TypeOK
<1>4. Ready \in Fetching /\ Ready.at = "ready"
    BY SMTT(30) DEF Ready, Fetching
<1>5. /\ worker' \in [Txn -> [Worker -> Fetching]] /\ worker'[t][w] = Ready
      /\ \A v \in Worker \ {w} : worker'[t][v] = worker[t][v]
      /\ \A u \in Txn \ {t} : worker'[u] = worker[u]
    BY <1>1, <1>4, SetFacts
<1>6. /\ canceled' \in [Txn -> BOOLEAN] /\ canceled'[t] = (canceled[t] \/ e # "none")
      /\ \A u \in Txn \ {t} : canceled'[u] = canceled[u]
    BY <1>1, <1>2 DEF TypeOK
<1>7. /\ results' \in [Txn -> Seq(Result)] /\ \A u \in Txn \ {t} : results'[u] = results[u]
      /\ results'[t] = Append(results[t], [sel |-> sel, err |-> e])
            \/ (Done(t) /\ results'[t] = results[t])
    <2>1. [sel |-> sel, err |-> e] \in Result
        BY <1>3, DueFacts DEF Result
    <2> HIDE DEF sel, e
    <2>2. results[t] \in Seq(Result) /\ Append(results[t], [sel |-> sel, err |-> e]) \in Seq(Result)
        BY <1>2, <2>1 DEF TypeOK
    <2> QED
        BY <1>1, <1>2, <2>2, Zenon DEF TypeOK
<1> HIDE DEF sel, e
<1>8. TypeOK'
    BY <1>1, <1>2, <1>5, <1>6, <1>7 DEF TypeOK
<1>9. Done(t) => Done(t)'
    BY <1>1, <1>6, Zenon DEF Done
<1>10. Working(t)'
    BY <1>2, <1>4, <1>5, <1>9, ZenonT(40) DEF Good, Working, Busy
<1>11. Feeding(t)'
    BY <1>1, <1>2, <1>4, <1>5, <1>9, SMTT(30) DEF Good, Feeding, Workers
<1>12. Truthful(t)'
    BY <1>1, <1>2, <1>3, ZenonT(40) DEF Good, Truthful
<1>13. CASE results'[t] = results[t] /\ Done(t)
    <2>1. Reported(t)'
        BY <1>1, <1>2, <1>6, <1>13, Zenon DEF Good, Reported
    <2>2. Reasoned(t)'
        BY <1>1, <1>2, <1>3, <1>6, <1>13, ZenonT(40) DEF Good, Reasoned, Reason, Done
    <2>3. Complete(t)'
        <3>1. Done(t)' /\ fetched' = fetched /\ fetched[t] \subseteq Range(Due[t])
            BY <1>1, <1>2, <1>9, <1>13, Zenon DEF Good, Complete
        <3> QED
            BY <3>1, Zenon DEF Complete
    <2> QED
        BY <1>1, <1>5, <1>6, <1>7, <1>8, <1>10, <1>11, <1>12, <2>1, <2>2, <2>3,
           OneTransaction, Zenon DEF Good
<1>14. CASE results'[t] = Append(results[t], [sel |-> sel, err |-> e])
    <2>1. results[t] \in Seq(Result)
        BY <1>2 DEF TypeOK
    <2> PICK n \in Nat : n = Len(results[t])
        BY <2>1, SMTT(30)
    <2>2. /\ DOMAIN results[t] = 1..n /\ Len(results'[t]) = n + 1
          /\ DOMAIN results'[t] = 1..(n + 1)
          /\ \A i \in 1..n : results'[t][i] = results[t][i]
          /\ results'[t][n + 1] = [sel |-> sel, err |-> e]
        BY <1>14, <2>1, SMTT(30)
    <2>3. results'[t][n + 1].sel = sel /\ results'[t][n + 1].err = e
        BY <2>2, SMTT(30)
    <2>4. Reported(t)'
        <3>1. ASSUME NEW i \in 1..(n + 1)
              PROVE  /\ results'[t][i].sel \in Range(Due[t])
                     /\ results'[t][i].err # "none" => canceled'[t]
            <4>1. CASE i \in 1..n
                <5>1. /\ results[t][i].sel \in Range(Due[t])
                      /\ results[t][i].err # "none" => canceled[t]
                    BY <1>2, <2>2, <4>1, Zenon DEF Good, Reported
                <5> QED
                    BY <1>6, <2>2, <4>1, <5>1, Zenon
            <4>2. CASE i = n + 1
                BY <1>3, <1>6, <2>3, <4>2
            <4> QED
                BY <4>1, <4>2, SMTT(30)
        <3>2. firstErr'[t] # None => canceled'[t]
            BY <1>1, <1>2, <1>6, ZenonT(40) DEF Good, Reported
        <3> QED
            BY <2>2, <3>1, <3>2, SMTT(30) DEF Reported
    <2>5. Reasoned(t)'
        <3> SUFFICES ASSUME ~parent[t]
                     PROVE  Reasoned(t)'
            BY <1>1, ZenonT(40) DEF Reasoned
        <3>1. ASSUME NEW m \in 1..(n + 1), Reason(t, m)
              PROVE  Reason(t, m)'
            <4>1. \A i \in 1..(m - 1) : i \in 1..n
                OBVIOUS
            <4>2. \A i \in 1..(m - 1) : results'[t][i] = results[t][i]
                BY <2>2, <4>1, Zenon
            <4> QED
                BY <1>1, <3>1, <4>2, Zenon DEF Reason
        <3>2. /\ firstErr[t] # "context"
              /\ \A i \in 1..n : results[t][i].err = "context" => Reason(t, i)
              /\ canceled[t] => Reason(t, n + 1)
            BY <1>2, <1>3, <2>2, Zenon DEF Good, Reasoned
        <3>3. \A i \in 1..n : results'[t][i].err = "context" => Reason(t, i)'
            BY <2>2, <3>1, <3>2, SMTT(30)
        <3>4. e = "context" => Reason(t, n + 1)'
            <4>1. e = "context" => canceled[t]
                BY <1>3, Zenon DEF Done
            <4>2. n + 1 \in 1..(n + 1)
                BY SMT
            <4> QED
                BY <3>1, <3>2, <4>1, <4>2, Zenon
        <3>5. canceled'[t] => Reason(t, n + 2)'
            <4>1. CASE canceled[t]
                <5>1. n + 1 \in 1..(n + 1) /\ 1..(n + 1 - 1) \subseteq 1..(n + 2 - 1)
                    BY SMT
                <5>2. Reason(t, n + 1)'
                    BY <3>1, <3>2, <4>1, <5>1, Zenon
                <5> QED
                    BY <5>1, <5>2, SMT DEF Reason
            <4>2. CASE ~canceled[t] /\ e # "none"
                <5>1. e \in Real
                    BY <1>3, <4>2 DEF Done, Errors
                <5>2. n + 1 \in 1..(n + 2 - 1)
                    BY SMT
                <5> QED
                    BY <2>3, <5>1, <5>2, SMT DEF Reason
            <4> QED
                BY <1>6, <4>1, <4>2, SMTT(30)
        <3>6. \A i \in 1..(n + 1) : results'[t][i].err = "context" => Reason(t, i)'
            BY <2>2, <2>3, <3>3, <3>4
        <3>7. Len(results'[t]) + 1 = n + 2 /\ firstErr' = firstErr
            <4>1. n + 1 + 1 = n + 2
                BY SMT
            <4> QED
                BY <1>1, <2>2, <4>1, Zenon
        <3> QED
            BY <2>2, <3>2, <3>5, <3>6, <3>7, Zenon DEF Reasoned
    <2>6. Complete(t)'
        <3> SUFFICES ASSUME ~Done(t)', NEW s \in Range(Due[t])
                     PROVE  Covered(t, s)'
            BY <1>1, <1>2, Zenon DEF Good, Complete
        <3>1. Covered(t, s)
            BY <1>2, <1>9, Zenon DEF Good, Complete
        <3>2. ASSUME NEW v \in Worker, worker[t][v].at \in Busy, s \in Brought(t, worker[t][v].sel)
              PROVE  \/ worker'[t][v] = worker[t][v]
                     \/ n + 1 \in DOMAIN results'[t] /\ s \in Brought(t, results'[t][n + 1].sel)
            BY <1>5, <2>2, <2>3, <3>2, SMTT(30) DEF sel
        <3>3. ASSUME NEW i \in DOMAIN results[t], s \in Brought(t, results[t][i].sel)
              PROVE  i \in DOMAIN results'[t] /\ s \in Brought(t, results'[t][i].sel)
            BY <2>2, <3>3, SMTT(30)
        <3>4. fetched' = fetched /\ feeder' = feeder
            BY <1>1
        <3>5. CASE \E v \in Worker : worker[t][v].at \in Busy /\ s \in Brought(t, worker[t][v].sel)
            <4> PICK v \in Worker : worker[t][v].at \in Busy /\ s \in Brought(t, worker[t][v].sel)
                BY <3>5, Zenon
            <4> QED
                BY <3>2, Zenon DEF Covered, Brought, Countries
        <3>6. CASE \E i \in DOMAIN results[t] : s \in Brought(t, results[t][i].sel)
            BY <3>3, <3>6, Zenon DEF Covered, Brought, Countries
        <3> QED
            BY <3>1, <3>4, <3>5, <3>6, Zenon DEF Covered, Brought, Countries
    <2> QED
        BY <1>1, <1>5, <1>6, <1>7, <1>8, <1>10, <1>11, <1>12, <2>4, <2>5, <2>6,
           OneTransaction, Zenon DEF Good
<1> QED
    BY <1>7, <1>13, <1>14

\* The collector takes the oldest result: the first error it sees is the reason.
LEMMA ReceiveFInv ==
    ASSUME FInv, NEW t \in Txn, Receive(t)
    PROVE  FInv'
<1>1. Good(t) /\ TypeOK
    BY DEF FInv
<1>2. results[t] \in Seq(Result) /\ results[t] # <<>>
    BY <1>1 DEF TypeOK, Receive
<1> PICK n \in Nat : Len(results[t]) = n + 1
    <2>1. Len(results[t]) \in Nat /\ Len(results[t]) # 0
        BY <1>2
    <2>2. Len(results[t]) - 1 \in Nat /\ Len(results[t]) = (Len(results[t]) - 1) + 1
        BY <2>1
    <2> QED
        BY <2>2, Zenon
<1> DEFINE r == Head(results[t])
<1>3. /\ DOMAIN results[t] = 1..(n + 1) /\ r = results[t][1] /\ r \in Result
      /\ Tail(results[t]) \in Seq(Result) /\ Len(Tail(results[t])) = n
      /\ DOMAIN Tail(results[t]) = 1..n
      /\ \A i \in 1..n : Tail(results[t])[i] = results[t][i + 1]
    BY <1>2
<1>4. /\ answer[t] = None
      /\ firstErr' = [firstErr EXCEPT ![t] = IF @ = None /\ r.err # "none" THEN r.err ELSE @]
      /\ canceled' = [canceled EXCEPT ![t] = @ \/ r.err # "none"]
      /\ fetched' = [fetched EXCEPT ![t] = IF r.err = "none" THEN @ \cup Brought(t, r.sel) ELSE @]
      /\ results' = [results EXCEPT ![t] = Tail(@)]
      /\ UNCHANGED <<parent, feeder, closed, worker, answer>>
    BY DEF Receive
<1> HIDE DEF r
<1>5. r.sel \in Selectors /\ r.err \in Errors \cup {"none"} /\ r.err # None
    BY <1>3, FetchAssumption DEF Result, Errors, Real
<1>6. r.sel \in Range(Due[t]) /\ Brought(t, r.sel) \subseteq Range(Due[t])
    <2>1. 1 \in DOMAIN results[t]
        BY <1>3, SMTT(30)
    <2>2. r.sel \in Range(Due[t])
        BY <1>1, <1>3, <2>1, Zenon DEF Good, Reported
    <2> QED
        BY <2>2, DueFacts
<1>7. /\ results' \in [Txn -> Seq(Result)] /\ results'[t] = Tail(results[t])
      /\ \A u \in Txn \ {t} : results'[u] = results[u]
    BY <1>1, <1>3, <1>4 DEF TypeOK
<1>8. /\ firstErr' \in [Txn -> Errors \cup {None}]
      /\ firstErr'[t] = IF firstErr[t] = None /\ r.err # "none" THEN r.err ELSE firstErr[t]
      /\ \A u \in Txn \ {t} : firstErr'[u] = firstErr[u]
    BY <1>1, <1>4, <1>5 DEF TypeOK
<1>9. /\ canceled' \in [Txn -> BOOLEAN] /\ canceled'[t] = (canceled[t] \/ r.err # "none")
      /\ \A u \in Txn \ {t} : canceled'[u] = canceled[u]
    BY <1>1, <1>4 DEF TypeOK
<1>10. /\ fetched' \in [Txn -> SUBSET Selectors]
       /\ fetched'[t] = IF r.err = "none" THEN fetched[t] \cup Brought(t, r.sel) ELSE fetched[t]
       /\ \A u \in Txn \ {t} : fetched'[u] = fetched[u]
    <2>1. Brought(t, r.sel) \subseteq Selectors
        BY <1>6, DueFacts, Zenon
    <2> QED
        BY <1>1, <1>4, <2>1 DEF TypeOK
<1>11. TypeOK'
    BY <1>1, <1>4, <1>7, <1>8, <1>9, <1>10, SMTT(30) DEF TypeOK
<1>12. Done(t) => Done(t)'
    BY <1>4, <1>9, ZenonT(40) DEF Done
<1>13. Working(t)' /\ Feeding(t)' /\ Truthful(t)'
    BY <1>1, <1>4, <1>12, Zenon DEF Good, Working, Feeding, Truthful, Workers
<1>14. Reported(t)'
    <2>1. ASSUME NEW i \in 1..n
          PROVE  /\ results'[t][i].sel \in Range(Due[t])
                 /\ results'[t][i].err # "none" => canceled'[t]
        <3>1. i + 1 \in DOMAIN results[t] /\ results'[t][i] = results[t][i + 1]
            BY <1>3, <1>7, SMTT(30)
        <3> QED
            BY <1>1, <1>9, <3>1, SMTT(30) DEF Good, Reported
    <2>2. firstErr'[t] # None => canceled'[t]
        BY <1>1, <1>8, <1>9, Zenon DEF Good, Reported
    <2> QED
        BY <1>3, <1>7, <2>1, <2>2, Zenon DEF Reported
<1>15. Reasoned(t)'
    <2> SUFFICES ASSUME ~parent[t]
                 PROVE  Reasoned(t)'
        BY <1>4, SMTT(30) DEF Reasoned
    <2>1. /\ firstErr[t] # "context"
          /\ \A i \in 1..(n + 1) : results[t][i].err = "context" => Reason(t, i)
          /\ canceled[t] => Reason(t, n + 2)
        <3>1. Len(results[t]) + 1 = n + 2
            BY SMT
        <3> QED
            BY <1>1, <1>3, <1>4, <3>1, Zenon DEF Good, Reasoned
    <2>2. firstErr'[t] # "context"
        <3>1. 1 \in 1..(n + 1) /\ 1 - 1 = 0
            OBVIOUS
        <3>2. r.err = "context" => firstErr[t] # None
            BY <1>3, <2>1, <3>1 DEF Reason
        <3> QED
            BY <1>8, <2>1, <3>2
    <2>3. ASSUME NEW m \in 1..(n + 1), Reason(t, m + 1)
          PROVE  Reason(t, m)'
        <3>1. CASE firstErr[t] # None \/ r.err # "none"
            BY <1>5, <1>8, <3>1, SMTT(30) DEF Reason
        <3>2. CASE firstErr[t] = None /\ r.err = "none"
            <4>1. PICK i \in 1..m : results[t][i].err \in Real
                BY <2>3, <3>2 DEF Reason
            <4>2. i # 1
                BY <1>3, <3>2, <4>1, SMTT(30) DEF Real
            <4>3. i - 1 \in 1..(m - 1) /\ i - 1 \in 1..n /\ results'[t][i - 1] = results[t][i]
                BY <1>3, <1>7, <4>1, <4>2
            <4> QED
                BY <4>1, <4>3, SMTT(30) DEF Reason
        <3> QED
            BY <3>1, <3>2
    <2>4. ASSUME NEW i \in 1..n, results'[t][i].err = "context"
          PROVE  Reason(t, i)'
        <3>1. results[t][i + 1].err = "context" /\ i + 1 \in 1..(n + 1)
            BY <1>3, <1>7, <2>4, SMTT(30)
        <3> QED
            BY <2>1, <2>3, <3>1
    <2>5. canceled'[t] => Reason(t, n + 1)'
        <3>1. CASE canceled[t]
            BY <2>1, <2>3, <3>1, SMTT(30)
        <3>2. CASE r.err # "none"
            BY <1>5, <1>8, <3>2, SMTT(30) DEF Reason
        <3> QED
            BY <1>9, <3>1, <3>2, SMTT(30)
    <2> QED
        BY <1>3, <1>7, <2>2, <2>4, <2>5, ZenonT(40) DEF Reasoned
<1>16. Complete(t)'
    <2>1. fetched'[t] \subseteq Range(Due[t])
        BY <1>1, <1>6, <1>10, SMTT(30) DEF Good, Complete
    <2> SUFFICES ASSUME ~Done(t)', NEW s \in Range(Due[t])
                 PROVE  Covered(t, s)'
        BY <2>1, SMTT(30) DEF Complete
    <2>2. Covered(t, s) /\ r.err = "none"
        BY <1>1, <1>9, <1>12, Zenon DEF Good, Complete, Done
    <2>3. ASSUME NEW i \in DOMAIN results[t], s \in Brought(t, results[t][i].sel)
          PROVE  \/ s \in fetched'[t]
                 \/ i - 1 \in DOMAIN results'[t] /\ s \in Brought(t, results'[t][i - 1].sel)
        <3>1. CASE i = 1
            BY <1>3, <1>10, <2>2, <2>3, <3>1, Zenon
        <3>2. CASE i # 1
            <4>1. i - 1 \in 1..n /\ results'[t][i - 1] = results[t][i]
                BY <1>3, <1>7, <3>2, SMTT(30)
            <4> QED
                BY <1>3, <1>7, <2>3, <4>1, SMTT(30)
        <3> QED
            BY <3>1, <3>2, Zenon
    <2>4. s \in fetched[t] => s \in fetched'[t]
        BY <1>10
    <2> QED
        BY <1>4, <2>2, <2>3, <2>4, ZenonT(40) DEF Covered, Brought, Countries
<1>17. Good(t)'
    BY <1>13, <1>14, <1>15, <1>16, SMTT(30) DEF Good
<1> QED
    BY <1>4, <1>7, <1>8, <1>9, <1>10, <1>11, <1>17, OneTransaction, Zenon

\* fetchAll returns when every worker has left and the channel is empty.
LEMMA ReturnFInv ==
    ASSUME FInv, NEW t \in Txn, Return(t)
    PROVE  FInv'
<1>1. Good(t) /\ TypeOK
    BY DEF FInv
<1>2. /\ answer[t] = None /\ results[t] = <<>> /\ (\A w \in Worker : worker[t][w].at = "exit")
      /\ answer' = [answer EXCEPT ![t] = Answer(t)] /\ canceled' = [canceled EXCEPT ![t] = TRUE]
      /\ UNCHANGED <<parent, feeder, closed, worker, results, fetched, firstErr>>
    BY DEF Return, ResultsClosed
<1>3. ~parent[t] /\ firstErr[t] = None => fetched[t] = Range(Due[t])
    <2> SUFFICES ASSUME ~parent[t], firstErr[t] = None
                 PROVE  fetched[t] = Range(Due[t])
        OBVIOUS
    <2>1. ~Reason(t, Len(results[t]) + 1)
        BY <1>2, SMTT(30) DEF Reason
    <2>2. ~Done(t)
        BY <1>1, <1>2, <2>1, ZenonT(40) DEF Good, Reasoned, Done
    <2>3. feeder[t] = {} \/ Workers(t) = {}
        BY <1>1, <1>2, <2>2, SMTT(30) DEF Good, Feeding, Workers
    <2>4. CASE Workers(t) = {}
        <3>1. Len(Due[t]) \in Nat /\ ~(1 <= Len(Due[t]))
            BY <2>4, FetchAssumption, DueFacts, SMTT(30) DEF Workers, Worker
        <3>2. Range(Due[t]) = {}
            BY <3>1, DueFacts, SMTT(30) DEF Range
        <3> QED
            BY <1>1, <3>2, SMTT(30) DEF Good, Complete
    <2>5. CASE feeder[t] = {}
        <3>1. ASSUME NEW s \in Range(Due[t])
              PROVE  s \in fetched[t]
            <4>1. Covered(t, s)
                BY <1>1, <2>2 DEF Good, Complete
            <4> QED
                BY <1>2, <2>5, <4>1, SMTT(30) DEF Covered, Busy
        <3> QED
            BY <1>1, <3>1, Zenon DEF Good, Complete
    <2> QED
        BY <2>3, <2>4, <2>5
<1>4. /\ Answer(t) \in Errors \cup {"none"}
      /\ Answer(t) = "context" => parent[t]
    <2>1. firstErr[t] \in Errors \cup {None} /\ parent[t] \in BOOLEAN
        BY <1>1, SMTT(30) DEF TypeOK
    <2>2. ~parent[t] => firstErr[t] # "context"
        BY <1>1, Zenon DEF Good, Reasoned
    <2> QED
        BY <1>3, <2>1, <2>2 DEF Answer, Errors
<1>5. /\ answer' \in [Txn -> Errors \cup {"none", "incomplete", None}] /\ answer'[t] = Answer(t)
      /\ \A u \in Txn \ {t} : answer'[u] = answer[u]
    BY <1>1, <1>2, <1>4 DEF TypeOK
<1>6. /\ canceled' \in [Txn -> BOOLEAN] /\ canceled'[t] = TRUE
      /\ \A u \in Txn \ {t} : canceled'[u] = canceled[u]
    BY <1>1, <1>2, SMTT(30) DEF TypeOK
<1>7. TypeOK'
    BY <1>1, <1>2, <1>5, <1>6, SMTT(30) DEF TypeOK
<1>8. Done(t)'
    BY <1>6 DEF Done
<1>9. Answer(t) \notin {None, "incomplete"}
    BY <1>4, FetchAssumption, SMTT(30) DEF Errors, Real
<1>10. Working(t)' /\ Feeding(t)' /\ Reported(t)' /\ Complete(t)'
    BY <1>1, <1>2, <1>6, <1>8, ZenonT(40) DEF Good, Working, Feeding, Reported, Complete, Workers
<1>11. Reasoned(t)'
    BY <1>1, <1>2, <1>5, <1>9, ZenonT(40) DEF Good, Reasoned, Reason
<1>12. Truthful(t)'
    BY <1>2, <1>4, <1>5, <1>9 DEF Truthful
<1>13. Good(t)'
    BY <1>10, <1>11, <1>12 DEF Good
<1> QED
    BY <1>2, <1>5, <1>6, <1>7, <1>13, OneTransaction, Zenon

-----------------------------------------------------------------------------
(* The theorems. *)

\* A batch has a first country.
LEMMA LeastPosition ==
    ASSUME NEW C, C \subseteq Nat, C # {}
    PROVE  \E i \in C : \A j \in C : i <= j
<1> DEFINE R == OpToRel(<, Nat)
<1>1. IsWellFoundedOn(R, Nat)
    BY NatLessThanWellFounded, Zenon
<1>2. \A i \in Nat, j \in Nat : j < i => <<j, i>> \in R
    BY DEF OpToRel
<1> HIDE DEF R
<1>3. PICK i \in C : \A j \in C : ~(<<j, i>> \in R)
    BY <1>1, WFMin, Zenon
<1>4. ASSUME NEW j \in C
      PROVE  i <= j
    <2>1. i \in Nat /\ j \in Nat
        OBVIOUS
    <2>2. ~(j < i)
        BY <1>2, <1>3, <2>1, Zenon
    <2> QED
        BY <2>1, <2>2
<1> QED
    BY <1>4

\* fetchAll starts with every selector to offer, the batch as its first country.
LEMMA InitFInv ==
    ASSUME FetchInit
    PROVE  FInv
<1>1. Ready \in Fetching /\ Exited \in Fetching /\ Ready.at = "ready" /\ Exited.at = "exit"
    BY DEF Exited, Ready, Fetching
<1>2. ASSUME NEW t \in Txn
      PROVE  Jobs(t) \subseteq DOMAIN Due[t] /\ Jobs(t) \subseteq Nat
    BY DueFacts DEF Jobs
<1>3. TypeOK
    <2>1. <<>> \in Seq(Result)
        OBVIOUS
    <2>2. worker \in [Txn -> [Worker -> Fetching]]
        BY <1>1 DEF FetchInit
    <2> QED
        BY <1>2, <2>1, <2>2 DEF FetchInit, TypeOK
<1> SUFFICES ASSUME NEW t \in Txn
             PROVE  Good(t)
    BY <1>3 DEF FInv
<1>4. /\ ~parent[t] /\ ~canceled[t] /\ feeder[t] = Jobs(t) /\ ~closed[t] /\ results[t] = <<>>
      /\ fetched[t] = {} /\ firstErr[t] = None /\ answer[t] = None
      /\ \A w \in Worker : worker[t][w] = IF w \in Workers(t) THEN Ready ELSE Exited
    BY ZenonT(40) DEF FetchInit
<1>5. Working(t) /\ Feeding(t) /\ Reported(t) /\ Reasoned(t) /\ Truthful(t)
    <2>1. \A w \in Worker : worker[t][w].at \notin Busy
        BY <1>1, <1>4 DEF Busy
    <2>2. \A w \in Workers(t) : worker[t][w].at # "exit"
        BY <1>1, <1>4 DEF Workers
    <2>3. None # "context" /\ None # "incomplete"
        BY FetchAssumption
    <2> QED
        BY <1>2, <1>4, <2>1, <2>2, <2>3, SMTT(30) DEF Working, Feeding, Reported, Reasoned, Truthful
<1>6. Complete(t)
    <2> SUFFICES ASSUME NEW s \in Range(Due[t])
                 PROVE  \E i \in Jobs(t) : s \in Brought(t, Due[t][i])
        BY <1>4, Zenon DEF Complete, Covered
    <2>1. PICK k \in DOMAIN Due[t] : s = Due[t][k]
        BY DEF Range
    <2>2. CASE s \notin Country
        BY <2>1, <2>2 DEF Jobs, Brought
    <2>3. CASE s \in Country
        <3> DEFINE C == {i \in DOMAIN Due[t] : Due[t][i] \in Country}
        <3>1. C \subseteq Nat /\ k \in C
            BY <2>1, <2>3, DueFacts
        <3>2. PICK i \in C : \A j \in C : i <= j
            BY <3>1, LeastPosition, ZenonT(40)
        <3>3. i \in Jobs(t)
            BY <3>2, DueFacts DEF Jobs
        <3> QED
            BY <2>3, <3>2, <3>3 DEF Brought, Countries
    <2> QED
        BY <2>2, <2>3, Zenon
<1> QED
    BY <1>5, <1>6 DEF Good

\* Every step keeps the invariant.
LEMMA NextFInv ==
    ASSUME FInv, [FetchNext]_fetchVars
    PROVE  FInv'
<1>1. ASSUME NEW t \in Txn, CloseJobs(t) \/ Receive(t) \/ Return(t) \/ CancelParent(t)
      PROVE  FInv'
    BY <1>1, CloseJobsFInv, ReceiveFInv, ReturnFInv, CancelParentFInv
<1>2. ASSUME NEW t \in Txn, NEW w \in Worker, WorkerStep(t, w)
      PROVE  FInv'
    BY <1>2, TakeFInv, ExitFInv, RetryFInv, SendFInv DEF WorkerStep
<1>3. CASE UNCHANGED fetchVars
    <2>1. TypeOK'
        BY <1>3 DEF fetchVars, FInv, TypeOK
    <2>2. ASSUME NEW t \in Txn, Good(t)
          PROVE  Good(t)'
        BY <1>3, <2>2, Zenon
        DEF fetchVars, Good, Working, Feeding, Reported, Reasoned, Reason, Complete, Covered,
                          Truthful, Done, Workers, Brought, Countries
    <2> QED
        BY <2>1, <2>2, SMTT(30) DEF FInv
<1> QED
    BY <1>1, <1>2, <1>3 DEF FetchNext

\* A selector is never lost between feeder, workers and channel
\* unless something was cancelled, and a cancellation that is not the caller's
\* has its reason in the channel ahead of every error it caused (resolve.go
\* fetchAll).
THEOREM FetchInvariant == FetchSpec => []FInv
<1>1. FetchInit => FInv
    BY InitFInv
<1>2. FInv /\ [FetchNext]_fetchVars => FInv'
    BY NextFInv
<1> QED
    BY <1>1, <1>2, PTL DEF FetchSpec

\* fetchAll reports the failure that stopped it: it returns a context error only
\* if the caller cancelled, and never that selectors are missing, for any number
\* of workers and selectors.
THEOREM RootCauseReported == FetchSpec => []RootCause
<1>1. FInv => RootCause
    BY Zenon DEF FInv, Good, Truthful, RootCause
<1> QED
    BY <1>1, FetchInvariant, PTL
=============================================================================
