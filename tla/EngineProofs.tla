---------------------------- MODULE EngineProofs ----------------------------
(***************************************************************************)
(* Proofs about Engine for every set of revisions, every placement and any *)
(* number of failures.  The first part is about the state directory: what  *)
(* each store call does to the records (SInv), what each backend call does *)
(* to the kernel's type, then one step per action of Next.  The second     *)
(* part shows that the writer keeps the kernel and its records together:   *)
(* what each backend call does to the kernel and what each store call does *)
(* to the revisions on record, then again one step per action.             *)
(***************************************************************************)
EXTENDS Engine, TLAPS

\* The part of the invariant that speaks of the records alone.
SInv == StoreTypeOK /\ StoreShape /\ RecordsSurvive /\ CommittedPhaseTrue

USE NoRevAssumption, GenIsRev

----------------------------------------------------------------------------
\* The visible records always validate.
LEMMA Readable == SInv => readable
  BY Zenon DEF SInv, StoreShape, RecordsSurvive, ReadOK, readable

\* Publishing a journal that validates against every possible active record
\* keeps the records sound, whether or not the directory sync happens.
LEMMA PublishJournalSound ==
  ASSUME SInv, NEW j \in Journal, NEW ok \in BOOLEAN, PublishJournal(j, ok), JournalShape(j),
         files' \subseteq Rev, unsynced' \subseteq Rev,
         files \ unsynced \subseteq files' \ unsynced',
         \A a \in activeMay : ReadOK(a, j, files' \ unsynced'),
         j.phase = "committed" => activeMay = {j.cand}
  PROVE  /\ SInv'
         /\ active' = active /\ activeMay' \subseteq activeMay
         /\ ok => journal' = j /\ Synced'
<1> USE DEF PublishJournal
<1>1. StoreTypeOK'
  BY Zenon DEF SInv, StoreTypeOK, StoreShape
<1>2. StoreShape' /\ active' = active /\ activeMay' \subseteq activeMay
  BY Zenon DEF SInv, StoreShape, JournalShape
<1>3. journalMay' \subseteq journalMay \cup {j}
  BY Zenon DEF SInv, StoreShape
<1>4. RecordsSurvive'
  BY <1>2, <1>3 DEF SInv, RecordsSurvive, ReadOK
<1>5. CommittedPhaseTrue'
  BY <1>2, <1>3, Zenon DEF SInv, CommittedPhaseTrue, StoreShape
<1> QED BY <1>1, <1>2, <1>4, <1>5, Zenon DEF SInv, Synced

\* The same for the active record.
LEMMA PublishActiveSound ==
  ASSUME SInv, NEW a \in OptRev, NEW ok \in BOOLEAN, PublishActive(a, ok), UNCHANGED revDir,
         \A j \in journalMay : ReadOK(a, j, files \ unsynced),
         \A j \in journalMay : j.phase = "committed" => a = j.cand
  PROVE  /\ SInv'
         /\ journal' = journal
         /\ activeMay' \subseteq activeMay \cup {a}
         /\ ok => active' = a /\ Synced'
<1> USE DEF PublishActive, revDir
<1>1. StoreTypeOK'
  BY Zenon DEF SInv, StoreTypeOK, StoreShape
<1>2. StoreShape' /\ journal' = journal /\ journalMay' \subseteq journalMay
  BY Zenon DEF SInv, StoreShape, JournalShape
<1>3. activeMay' \subseteq activeMay \cup {a} /\ activeMay' # {}
  BY Zenon DEF SInv, StoreShape
<1>4. RecordsSurvive'
  BY <1>2, <1>3, Zenon DEF SInv, RecordsSurvive
<1>5. CommittedPhaseTrue'
  BY <1>2, <1>3, Zenon DEF SInv, CommittedPhaseTrue
<1> QED BY <1>1, <1>2, <1>3, <1>4, <1>5, Zenon DEF SInv, Synced

----------------------------------------------------------------------------
\* A call that is refused changes nothing.
LEMMA RefusedSound ==
  ASSUME SInv, NEW ok \in BOOLEAN, Refused(ok)
  PROVE  SInv' /\ UNCHANGED storeVars /\ ~ok
  BY Zenon DEF Refused, SInv, storeVars, StoreTypeOK, StoreShape, RecordsSurvive, CommittedPhaseTrue,
         JournalShape

\* Writing a revision file, durably or not, takes no durable file away.
LEMMA RevisionSound ==
  ASSUME SInv, NEW c \in Rev, UNCHANGED stateDir,
         RevisionWritten(c) \/ RevisionNotWritten(c)
  PROVE  SInv' /\ files \ unsynced \subseteq files' \ unsynced'
<1> USE DEF stateDir, RevisionWritten, RevisionNotWritten, revDir
<1>1. files' \subseteq Rev /\ unsynced' \subseteq Rev
  BY Zenon DEF SInv, StoreTypeOK
<1>2. files \ unsynced \subseteq files' \ unsynced'
  BY Zenon
<1>3. RecordsSurvive'
  BY <1>2, Zenon DEF SInv, RecordsSurvive, ReadOK
<1> QED BY <1>1, <1>2, <1>3, Zenon DEF SInv, StoreTypeOK, StoreShape, CommittedPhaseTrue

----------------------------------------------------------------------------
\* Prepare relies on a synced state directory and on an identity that is new
\* or durably written.
LEMMA PrepareSound ==
  ASSUME SInv, Synced, NEW p \in OptRev, NEW c \in Rev, NEW ok \in BOOLEAN,
         c \notin files \cap unsynced, Prepare(p, c, ok)
  PROVE  /\ SInv'
         /\ active' = active /\ activeMay' = {active}
         /\ ok => Synced' /\ journal'.op = "apply" /\ journal'.cand = c
<1>1. CASE Refused(ok)
  BY <1>1, RefusedSound, Zenon DEF storeVars, Synced
<1>2. CASE ~ok /\ RevisionNotWritten(c) /\ UNCHANGED stateDir
  BY <1>2, RevisionSound, Zenon DEF stateDir, Synced
<1>3. CASE /\ journal = NoJournal /\ active = p
           /\ RevisionWritten(c) /\ PublishJournal(PreparedJournal(p, c), ok)
  <2> DEFINE j == PreparedJournal(p, c)
  <2>1. j \in Journal /\ JournalShape(j) /\ j.phase # "committed"
    BY Zenon DEF PreparedJournal, Journal, JournalShape, Phase, OptRev
  <2>2. /\ files' \subseteq Rev /\ unsynced' \subseteq Rev
        /\ files \ unsynced \subseteq files' \ unsynced' /\ c \in files' \ unsynced'
    BY <1>3, Zenon DEF RevisionWritten, SInv, StoreTypeOK
  <2>3. p = NoRev \/ p \in files \ unsynced
    BY <1>3, Zenon DEF Synced, SInv, RecordsSurvive, ReadOK
  <2>4. \A a \in activeMay : ReadOK(a, j, files' \ unsynced')
    BY <1>3, <2>2, <2>3, Zenon DEF Synced, ReadOK, PreparedJournal
  <2>5. SInv' /\ active' = active /\ activeMay' \subseteq activeMay /\ (ok => journal' = j /\ Synced')
    BY <1>3, <2>1, <2>2, <2>4, PublishJournalSound, Zenon
  <2>6. active' \in activeMay'
    BY <2>5, Zenon DEF SInv, StoreShape
  <2>7. j.op = "apply" /\ j.cand = c
    BY Zenon DEF PreparedJournal
  <2> QED BY <2>5, <2>6, <2>7, Zenon DEF Synced
<1> QED BY <1>1, <1>2, <1>3, Zenon DEF Prepare

\* MarkPhase changes nothing but the phase; "committed" needs a durable commit.
LEMMA MarkPhaseSound ==
  ASSUME SInv, NEW phase \in Phase, NEW ok \in BOOLEAN, MarkPhase(phase, ok),
         phase = "committed" => activeMay = {journal.cand}
  PROVE  /\ SInv'
         /\ active' = active /\ activeMay' \subseteq activeMay
         /\ journal'.op = journal.op /\ journal'.cand = journal.cand
         /\ ok => Synced'
<1>1. CASE Refused(ok)
  BY <1>1, RefusedSound, Zenon DEF storeVars
<1>2. CASE journal.op = "apply" /\ PublishJournal([journal EXCEPT !.phase = phase], ok)
           /\ UNCHANGED revDir
  <2> DEFINE j == [journal EXCEPT !.phase = phase]
  <2>1. /\ j \in Journal /\ j.op = journal.op /\ j.cand = journal.cand
        /\ j.prev = journal.prev /\ j.revs = journal.revs /\ j.phase = phase
    BY Zenon DEF SInv, StoreTypeOK, Journal
  <2>2. JournalShape(j) /\ \A a \in activeMay : ReadOK(a, j, files \ unsynced)
    BY <1>2, <2>1, Zenon DEF SInv, StoreShape, JournalShape, RecordsSurvive, ReadOK
  <2>3. files' = files /\ unsynced' = unsynced /\ files \subseteq Rev /\ unsynced \subseteq Rev
    BY <1>2, Zenon DEF revDir, SInv, StoreTypeOK
  <2>4. SInv' /\ active' = active /\ activeMay' \subseteq activeMay /\ (ok => Synced')
    BY <1>2, <2>1, <2>2, <2>3, PublishJournalSound, Zenon
  <2>5. journal' = journal \/ journal' = j
    BY <1>2, Zenon DEF PublishJournal
  <2> QED BY <2>1, <2>4, <2>5, Zenon
<1> QED BY <1>1, <1>2, Zenon DEF MarkPhase

\* Commit publishes the candidate of a synced journal.
LEMMA CommitSound ==
  ASSUME SInv, Synced, NEW c \in OptRev, NEW ok \in BOOLEAN, Commit(c, ok)
  PROVE  /\ SInv'
         /\ journal' = journal
         /\ activeMay' \subseteq activeMay \cup {c}
         /\ activeMay' # activeMay => journal.op = "apply" /\ journal.cand = c
         /\ ok => active' = c /\ Synced'
<1>1. CASE Refused(ok)
  BY <1>1, RefusedSound, Zenon DEF storeVars
<1>2. CASE /\ journal.op = "apply" /\ journal.cand = c
           /\ PublishActive(c, ok) /\ UNCHANGED revDir
  <2>1. c \in Rev /\ c \in journal.revs
    BY <1>2, Zenon DEF SInv, StoreShape, JournalShape
  <2>2. ReadOK(c, journal, files \ unsynced)
    BY <1>2, <2>1, Zenon DEF SInv, Synced, RecordsSurvive, ReadOK
  <2> QED BY <1>2, <2>2, PublishActiveSound DEF Synced
<1> QED BY <1>1, <1>2, Zenon DEF Commit

\* Stabilize changes no record; when it succeeds the state directory is synced.
LEMMA StabilizeSound ==
  ASSUME SInv, NEW ok \in BOOLEAN, Stabilize(ok)
  PROVE  /\ SInv'
         /\ active' = active /\ journal' = journal
         /\ activeMay' \subseteq activeMay /\ active \in activeMay'
         /\ ok => Synced'
<1> USE DEF Stabilize
<1>1. CASE Refused(ok)
  BY <1>1, RefusedSound, Zenon DEF storeVars, SInv, StoreShape
<1>2. CASE ~Refused(ok)
  <2>1. /\ active' = active /\ journal' = journal /\ files' = files
        /\ activeMay' \in {{active}, activeMay} /\ journalMay' \in {{journal}, journalMay}
        /\ unsynced' \in {{}, unsynced} /\ (ok => Synced')
    BY <1>2, Zenon DEF Synced
  <2>2. /\ activeMay' \subseteq activeMay /\ journalMay' \subseteq journalMay
        /\ active \in activeMay' /\ journal \in journalMay'
    BY <2>1, Zenon DEF SInv, StoreShape
  <2>3. StoreTypeOK' /\ StoreShape'
    BY <2>1, <2>2, Zenon DEF SInv, StoreTypeOK, StoreShape, JournalShape
  <2>4. RecordsSurvive'
    BY <2>1, <2>2, Zenon DEF SInv, RecordsSurvive, ReadOK
  <2>5. CommittedPhaseTrue'
    BY <2>1, <2>2, Zenon DEF SInv, CommittedPhaseTrue
  <2> QED BY <2>1, <2>2, <2>3, <2>4, <2>5, Zenon DEF SInv
<1> QED BY <1>1, <1>2, Zenon

\* BeginCleanup replaces any journal by one that names every revision the
\* visible records name.
LEMMA BeginCleanupSound ==
  ASSUME SInv, NEW ok \in BOOLEAN, BeginCleanup(ok)
  PROVE  /\ SInv'
         /\ active' = active /\ activeMay' \subseteq activeMay
         /\ ok => journal'.op = "cleanup" /\ Synced'
<1>1. CASE Refused(ok)
  BY <1>1, RefusedSound, Zenon DEF storeVars
<1>2. CASE PublishJournal(CleanupJournal, ok) /\ UNCHANGED revDir
  <2> DEFINE j == CleanupJournal
  <2>1. /\ active \in activeMay /\ journal \in journalMay
        /\ ReadOK(active, journal, files \ unsynced)
    BY Zenon DEF SInv, StoreShape, RecordsSurvive
  <2>2. /\ j \in Journal /\ j.op = "cleanup" /\ j.phase = "cleanup"
        /\ j.prev = NoRev /\ j.cand = NoRev /\ j.revs = ({active} \ {NoRev}) \cup journal.revs
    BY Zenon DEF CleanupJournal, Journal, Phase, OptRev, SInv, StoreTypeOK
  <2>3. JournalShape(j) /\ j.phase # "committed"
    BY <2>2, Zenon DEF JournalShape
  <2>4. j.revs \subseteq files \ unsynced
    BY <2>1, <2>2, Zenon DEF ReadOK
  <2>5. \A a \in activeMay : ReadOK(a, j, files \ unsynced)
    BY <2>1, <2>2, <2>4, Zenon DEF SInv, RecordsSurvive, ReadOK
  <2>6. files' = files /\ unsynced' = unsynced /\ files \subseteq Rev /\ unsynced \subseteq Rev
    BY <1>2, Zenon DEF revDir, SInv, StoreTypeOK
  <2>7. SInv' /\ active' = active /\ activeMay' \subseteq activeMay /\ (ok => journal' = j /\ Synced')
    BY <1>2, <2>2, <2>3, <2>5, <2>6, PublishJournalSound, Zenon
  <2> QED BY <2>2, <2>7, Zenon
<1> QED BY <1>1, <1>2, Zenon DEF BeginCleanup

\* RemoveActive runs under a synced cleanup journal.
LEMMA RemoveActiveSound ==
  ASSUME SInv, Synced, journal.op = "cleanup", NEW ok \in BOOLEAN, RemoveActive(ok)
  PROVE  /\ SInv'
         /\ journal' = journal
         /\ activeMay' \subseteq activeMay \cup {NoRev}
         /\ ok => active' = NoRev /\ Synced'
<1>1. CASE active = NoRev
  <2>1. UNCHANGED storeVars
    BY <1>1, Zenon DEF RemoveActive, storeVars, stateDir, revDir
  <2> QED BY <1>1, <2>1, Zenon DEF storeVars, SInv, StoreTypeOK, StoreShape, RecordsSurvive,
             CommittedPhaseTrue, JournalShape, Synced
<1>2. CASE active # NoRev
  <2>1. PublishActive(NoRev, ok) /\ UNCHANGED revDir /\ NoRev \in OptRev
    BY <1>2, Zenon DEF RemoveActive, OptRev
  <2>2. ReadOK(NoRev, journal, files \ unsynced)
    BY Zenon DEF Synced, SInv, RecordsSurvive, ReadOK
  <2>3. journal.phase # "committed"
    BY Zenon DEF SInv, StoreShape, JournalShape
  <2> QED BY <2>1, <2>2, <2>3, PublishActiveSound, Zenon DEF Synced
<1> QED BY <1>1, <1>2, Zenon

\* Removing revision files that the only possible active record does not name
\* keeps the records sound once no journal is possible.
LEMMA RemovalSound ==
  ASSUME SInv, active' = active, activeMay' = {active},
         journal' = NoJournal, journalMay' = {NoJournal},
         NEW gone \in SUBSET (Rev \ {active}),
         files' = files \ gone, unsynced' \subseteq unsynced \cup gone
  PROVE  SInv' /\ Synced'
<1>1. NoJournal \in Journal /\ JournalShape(NoJournal)
  BY Zenon DEF NoJournal, Journal, Phase, OptRev, JournalShape
<1>2. NoJournal.phase # "committed" /\ NoJournal.op # "apply" /\ NoJournal.revs = {}
  BY Zenon DEF NoJournal
<1>3. active = NoRev \/ active \in files' \ unsynced'
  BY Zenon DEF SInv, StoreShape, RecordsSurvive, ReadOK
<1>4. StoreTypeOK' /\ StoreShape'
  BY <1>1, Zenon DEF SInv, StoreTypeOK, StoreShape, JournalShape
<1>5. RecordsSurvive'
  BY <1>2, <1>3, Zenon DEF RecordsSurvive, ReadOK
<1> QED BY <1>2, <1>4, <1>5, Zenon DEF SInv, CommittedPhaseTrue, Synced

\* Finish removes the journal, durably before it removes a revision file.
LEMMA FinishSound ==
  ASSUME SInv, NEW ok \in BOOLEAN, Finish(ok)
  PROVE  /\ SInv'
         /\ active' = active /\ activeMay' \subseteq activeMay
         /\ journal' # journal => journal' = NoJournal
         /\ ok => journal' = NoJournal /\ (Synced \/ journal # NoJournal => Synced')
<1>1. CASE Refused(ok)
  BY <1>1, RefusedSound, Zenon DEF storeVars
<1>2. CASE journal = NoJournal /\ UNCHANGED storeVars
  BY <1>2, Zenon DEF storeVars, SInv, StoreTypeOK, StoreShape, RecordsSurvive, CommittedPhaseTrue,
              JournalShape, Synced
<1>3. CASE PublishJournal(NoJournal, FALSE) /\ ~ok /\ UNCHANGED revDir
  <2>1. NoJournal \in Journal /\ JournalShape(NoJournal)
    BY Zenon DEF NoJournal, Journal, Phase, OptRev, JournalShape
  <2>2. NoJournal.phase # "committed" /\ NoJournal.op # "apply" /\ NoJournal.revs = {}
    BY Zenon DEF NoJournal
  <2>3. \A a \in activeMay : ReadOK(a, NoJournal, files \ unsynced)
    BY <2>2, Zenon DEF SInv, StoreShape, RecordsSurvive, ReadOK
  <2>4. files' = files /\ unsynced' = unsynced /\ files \subseteq Rev /\ unsynced \subseteq Rev
    BY <1>3, Zenon DEF revDir, SInv, StoreTypeOK
  <2>5. SInv' /\ active' = active /\ activeMay' \subseteq activeMay
    BY <1>3, <2>1, <2>2, <2>3, <2>4, PublishJournalSound, Zenon
  <2> QED BY <1>3, <2>5, Zenon DEF PublishJournal
<1>4. CASE /\ journal' = NoJournal /\ journalMay' = {NoJournal}
           /\ activeMay' = {active} /\ active' = active
           /\ \E g \in SUBSET obsolete : files' = files \ g /\ unsynced' \subseteq unsynced \cup g
  <2>1. PICK g \in SUBSET obsolete : files' = files \ g /\ unsynced' \subseteq unsynced \cup g
    BY <1>4, Zenon
  <2>2. g \in SUBSET (Rev \ {active}) /\ active \in activeMay
    BY Zenon DEF obsolete, SInv, StoreTypeOK, Journal, StoreShape
  <2> QED BY <1>4, <2>1, <2>2, RemovalSound, Zenon
<1>5. ASSUME ok, PublishJournal(NoJournal, TRUE), files' = files \ obsolete,
             unsynced' = IF obsolete = {} THEN unsynced ELSE {}
      PROVE  /\ journal' = NoJournal /\ journalMay' = {NoJournal}
             /\ activeMay' = {active} /\ active' = active
             /\ \E g \in SUBSET obsolete : files' = files \ g /\ unsynced' \subseteq unsynced \cup g
  BY <1>5, Zenon DEF PublishJournal
<1>6. ASSUME NEW g \in SUBSET obsolete, files' = files \ g,
             \/ UNCHANGED unsynced /\ g = {}
             \/ unsynced' = {} /\ g # {}
             \/ \E last \in g : unsynced' \in {{last}, unsynced \cup {last}}
      PROVE  files' = files \ g /\ unsynced' \subseteq unsynced \cup g
  BY <1>6, Zenon
<1> QED BY <1>1, <1>2, <1>3, <1>4, <1>5, <1>6, Zenon DEF Finish

\* CollectRevisions runs with a synced state directory.
LEMMA CollectSound ==
  ASSUME SInv, Synced, NEW ok \in BOOLEAN, CollectRevisions(ok)
  PROVE  SInv' /\ UNCHANGED stateDir
<1>1. CASE Refused(ok)
  BY <1>1, RefusedSound, Zenon DEF CollectRevisions
<1>2. CASE ~Refused(ok)
  <2>1. /\ UNCHANGED stateDir /\ journal = NoJournal
        /\ \E g \in SUBSET (files \ {active}) : files' = files \ g /\ unsynced' \subseteq unsynced \cup g
    BY <1>2, Zenon DEF CollectRevisions
  <2>2. PICK g \in SUBSET (files \ {active}) : files' = files \ g /\ unsynced' \subseteq unsynced \cup g
    BY <2>1, Zenon
  <2>3. g \in SUBSET (Rev \ {active})
    BY Zenon DEF SInv, StoreTypeOK
  <2> QED BY <2>1, <2>2, <2>3, RemovalSound, Zenon DEF stateDir, Synced
<1> QED BY <1>1, <1>2, Zenon

\* A power loss leaves a combination that validates.
LEMMA LoseUnsyncedSound ==
  ASSUME SInv, LoseUnsynced
  PROVE  SInv' /\ activeMay' \subseteq activeMay
<1> USE DEF LoseUnsynced
<1>1. StoreTypeOK'
  BY Zenon DEF SInv, StoreTypeOK
<1>2. StoreShape' /\ activeMay' \subseteq activeMay /\ journalMay' \subseteq journalMay
  BY Zenon DEF SInv, StoreShape, JournalShape
<1>3. RecordsSurvive'
  BY <1>2, Zenon DEF SInv, RecordsSurvive, ReadOK
<1>4. CommittedPhaseTrue'
  BY <1>2, Zenon DEF SInv, CommittedPhaseTrue
<1> QED BY <1>1, <1>2, <1>3, <1>4, Zenon DEF SInv

----------------------------------------------------------------------------
\* Every call counts at most one failure.
LEMMA StoreFaults ==
  ASSUME NEW p, NEW c, NEW phase, NEW ok \in BOOLEAN,
         \/ Prepare(p, c, ok) \/ MarkPhase(phase, ok) \/ Commit(c, ok) \/ Stabilize(ok)
         \/ BeginCleanup(ok) \/ RemoveActive(ok) \/ Finish(ok) \/ CollectRevisions(ok)
  PROVE  Fault \/ NoFault
<1>1. (\E j : PublishJournal(j, ok) \/ PublishJournal(j, FALSE) \/ PublishJournal(j, TRUE))
      \/ (\E a : PublishActive(a, ok)) => Fault \/ NoFault
  BY Zenon DEF PublishJournal, PublishActive
<1> QED BY <1>1, Zenon DEF Prepare, MarkPhase, Commit, Stabilize, BeginCleanup, RemoveActive, Finish,
           CollectRevisions, Refused

\* The backend calls keep the kernel's type.
LEMMA MovedType ==
  ASSUME KernelTypeOK, NEW f \in Family, NEW base \in OptRev, NEW to \in OptRev
  PROVE  Moved(f, base, to) \in SUBSET Gen /\ live[f] \in SUBSET Gen
  BY Zenon DEF Moved, KernelTypeOK, OptRev

LEMMA SwitchedType ==
  ASSUME KernelTypeOK, NEW base \in OptRev, NEW to \in OptRev, Switched(base, to)
  PROVE  KernelTypeOK'
<1>1. [f \in Family |-> Moved(f, base, to)] \in [Family -> SUBSET Gen]
  BY MovedType, Zenon
<1>2. installed \cup ({to} \ {NoGen}) \subseteq Gen
  BY Zenon DEF OptRev, KernelTypeOK
<1> QED BY <1>1, <1>2, Zenon DEF Switched, KernelTypeOK

LEMMA ApplySafe ==
  ASSUME KernelTypeOK, NEW from \in OptRev, NEW to \in OptRev, NEW ok \in BOOLEAN,
         BackendApply(from, to, ok)
  PROVE  KernelTypeOK' /\ (Fault \/ NoFault)
<1> DEFINE base == IF to = NoGen \/ SamePlace(from, to) THEN from ELSE NoGen
<1>1. base \in OptRev /\ installed \cup ({to} \ {NoGen}) \subseteq Gen
  BY Zenon DEF OptRev, KernelTypeOK
<1>2. CASE UNCHANGED kernelVars /\ (Fault \/ NoFault)
  BY <1>2, Zenon DEF kernelVars, KernelTypeOK
<1>3. CASE NFTApply(base, to, ok)
  <2> HIDE DEF base
  <2> QED BY <1>1, <1>2, <1>3, SwitchedType, Zenon DEF NFTApply
<1>4. CASE IPTApply(base, to, ok)
  <2> HIDE DEF base
  <2>1. CASE installed' = installed \cup ({to} \ {NoGen}) /\ live' \in [Family -> SUBSET Gen] /\ Fault
    BY <1>1, <2>1, Zenon DEF KernelTypeOK
  <2> QED BY <1>1, <1>2, <1>4, <2>1, SwitchedType, Zenon DEF IPTApply
<1> QED BY <1>2, <1>3, <1>4, Zenon DEF BackendApply

LEMMA RetireSafe ==
  ASSUME KernelTypeOK, NEW old \in OptRev, NEW new \in OptRev, NEW ok \in BOOLEAN,
         BackendRetire(old, new, ok)
  PROVE  KernelTypeOK' /\ (Fault \/ NoFault)
<1>1. \A G, F : Detached(G, F) \in [Family -> SUBSET Gen]
  BY Zenon DEF Detached, KernelTypeOK
<1>2. CASE UNCHANGED kernelVars /\ (Fault \/ NoFault)
  BY <1>2, Zenon DEF kernelVars, KernelTypeOK
<1>3. ASSUME NEW G, NFTRetire(G, ok) \/ IPTRemove(G, ok)
      PROVE  KernelTypeOK' /\ (Fault \/ NoFault)
  BY <1>1, <1>2, <1>3 DEF NFTRetire, IPTRemove, KernelTypeOK
<1> QED BY <1>2, <1>3, Zenon DEF BackendRetire

LEMMA CleanupSafe ==
  ASSUME KernelTypeOK, NEW G, NEW ok \in BOOLEAN, BackendCleanup(G, ok)
  PROVE  KernelTypeOK' /\ (Fault \/ NoFault)
  BY Zenon DEF BackendCleanup, KernelTypeOK

----------------------------------------------------------------------------
\* The part of TypeOK that speaks of the process and the kernel, and the
\* inductive invariant.
RestTypeOK ==
    /\ faults \in 0..MaxFaults
    /\ KernelTypeOK
    /\ pc \in Pc /\ mode \in Mode /\ healthy \in BOOLEAN
    /\ prev \in OptRev /\ cand \in OptRev
    /\ target \in [Rev -> OptRev]
    /\ acked \in OptRev /\ rejected \in OptRev

IInv == SInv /\ RestTypeOK /\ StepFacts

Good == IInv' /\ AuthorityStep

LEMMA FaultCount == RestTypeOK /\ (Fault \/ NoFault) => faults' \in 0..MaxFaults
  BY MaxFaultsAssumption DEF RestTypeOK, Fault, NoFault

LEMMA TargetType ==
  ASSUME RestTypeOK, NEW r \in OptRev
  PROVE  TargetOf(r) \in OptRev
  BY Zenon DEF RestTypeOK, TargetOf, OptRev

\* A process that stops, or is about to recover, relies on nothing.
LEMMA StoppedFacts ==
  ASSUME pc' \in {"recover", "down", "rvStabilize", "cleaned", "clBegin"}
  PROVE  StepFacts'
  BY Zenon DEF StepFacts, SyncedSteps, PendingSteps, CommittedSteps, RollbackSteps, RecoverSteps

LEMMA DegradeStops ==
  ASSUME Degrade
  PROVE  pc' \in {"recover", "down"} /\ healthy' = FALSE /\ StepFacts'
  BY StoppedFacts, Zenon DEF Degrade

\* A step that reports nothing and makes no new active record possible.
LEMMA QuietStep ==
  ASSUME activeMay' \subseteq activeMay, acked' \in {acked, NoRev}
  PROVE  AuthorityStep
  BY Zenon DEF AuthorityStep

\* The frame of a step that keeps the operation's own variables.
LEMMA RestKept ==
  ASSUME RestTypeOK, Fault \/ NoFault, KernelTypeOK', pc' \in Pc, healthy' \in BOOLEAN,
         UNCHANGED <<mode, locals, verdicts>>
  PROVE  RestTypeOK'
  BY FaultCount, Zenon DEF RestTypeOK, locals, verdicts

\* A store call that degrades on an error.
LEMMA StoreStepGood ==
  ASSUME IInv, SInv', Fault \/ NoFault, NEW ok \in BOOLEAN, NEW next \in Pc, StoreStep(ok, next),
         activeMay' \subseteq activeMay, ok /\ pc' = next => StepFacts'
  PROVE  Good
<1>1. KernelTypeOK' /\ UNCHANGED <<mode, locals, verdicts>>
  BY Zenon DEF StoreStep, IInv, RestTypeOK, KernelTypeOK, kernelVars
<1>2. pc' \in Pc /\ healthy' \in BOOLEAN /\ StepFacts'
  BY DegradeStops, Zenon DEF StoreStep, Goto, IInv, RestTypeOK, Pc
<1>3. RestTypeOK'
  BY <1>1, <1>2, RestKept, Zenon DEF IInv
<1> QED BY <1>1, <1>2, <1>3, QuietStep, Zenon DEF Good, IInv, verdicts

\* A step that leaves the records alone.
LEMMA RecordsKept ==
  ASSUME SInv, UNCHANGED storeVars
  PROVE  SInv' /\ (Synced => Synced')
  BY Zenon DEF SInv, storeVars, StoreTypeOK, StoreShape, RecordsSurvive, CommittedPhaseTrue,
         JournalShape, Synced

\* A backend call that degrades on an error.
LEMMA KernelStepGood ==
  ASSUME IInv, KernelTypeOK', Fault \/ NoFault, NEW ok \in BOOLEAN, NEW next \in Pc,
         KernelStep(ok, next), ok /\ pc' = next => StepFacts'
  PROVE  Good
<1>1. SInv' /\ activeMay' \subseteq activeMay /\ UNCHANGED <<mode, locals, verdicts>>
  BY RecordsKept, Zenon DEF KernelStep, IInv, storeVars
<1>2. pc' \in Pc /\ healthy' \in BOOLEAN /\ StepFacts'
  BY DegradeStops, Zenon DEF KernelStep, Goto, IInv, RestTypeOK, Pc
<1>3. RestTypeOK'
  BY <1>1, <1>2, RestKept, Zenon DEF IInv
<1> QED BY <1>1, <1>2, <1>3, QuietStep, Zenon DEF Good, IInv, verdicts

\* A call on the commit path: an error reports the candidate as committed.
LEMMA CommittedStepGood ==
  ASSUME IInv, pc \in CommittedSteps, SInv', Fault \/ NoFault, KernelTypeOK', NEW ok \in BOOLEAN,
         NEW next \in Pc, IF ok THEN Goto(next) /\ UNCHANGED verdicts ELSE DegradeCommitted,
         UNCHANGED <<mode, locals>>, activeMay' \subseteq activeMay, ok /\ pc' = next => StepFacts'
  PROVE  Good
<1>1. activeMay' = {cand} /\ cand \in OptRev
  BY Zenon DEF IInv, StepFacts, SInv, StoreShape, RestTypeOK
<1>2. pc' \in Pc /\ healthy' \in BOOLEAN /\ StepFacts'
  BY DegradeStops, Zenon DEF DegradeCommitted, Goto, IInv, RestTypeOK, Pc
<1>3. acked' \in {acked, cand} /\ rejected' = rejected
  BY Zenon DEF DegradeCommitted, verdicts
<1>4. RestTypeOK'
  BY <1>1, <1>2, <1>3, FaultCount, Zenon DEF IInv, RestTypeOK, locals
<1>5. AuthorityStep
  BY <1>1, <1>3, Zenon DEF AuthorityStep
<1> QED BY <1>2, <1>4, <1>5, Zenon DEF Good, IInv

\* A call whose two outcomes both continue the operation.
LEMMA ForkGood ==
  ASSUME IInv, SInv', Fault \/ NoFault, KernelTypeOK', NEW next \in Pc, Goto(next),
         UNCHANGED <<mode, locals, verdicts>>, AuthorityStep, StepFacts'
  PROVE  Good
<1>1. pc' \in Pc /\ healthy' \in BOOLEAN
  BY Zenon DEF Goto, IInv, RestTypeOK
<1> QED BY <1>1, RestKept, Zenon DEF Good, IInv

\* Authority passes to the candidate of a synced apply journal.
LEMMA CandidateTakesOver ==
  ASSUME SInv, Synced, journal.op = "apply", acked' = acked,
         activeMay' \subseteq activeMay \cup {journal.cand}
  PROVE  AuthorityStep
<1>1. activeMay = {active} /\ journal \in journalMay /\ ReadOK(active, journal, files \ unsynced)
  BY Zenon DEF Synced, SInv, RecordsSurvive
<1>2. active \in {journal.prev, journal.cand}
  BY <1>1, Zenon DEF ReadOK
<1> QED BY <1>1, <1>2, Zenon DEF AuthorityStep

LEMMA KernelKept ==
  ASSUME RestTypeOK, UNCHANGED kernelVars
  PROVE  KernelTypeOK'
  BY Zenon DEF RestTypeOK, KernelTypeOK, kernelVars
----------------------------------------------------------------------------
LEMMA ApplyGood ==
  ASSUME IInv, Apply
  PROVE  Good
<1> USE DEF IInv
<1>1. CASE BeginApply
  <2>1. PICK c \in Rev : \E t \in BuildTarget(active, c) :
          /\ Fresh(c) /\ prev' = active /\ cand' = c /\ target' = [target EXCEPT ![c] = t]
          /\ rejected' = IF rejected = c THEN NoRev ELSE rejected
    BY <1>1, Zenon DEF BeginApply
  <2>2. PICK t \in BuildTarget(active, c) : target' = [target EXCEPT ![c] = t]
    BY <2>1, Zenon
  <2>3. t \in OptRev /\ active \in OptRev
    BY TargetType, Zenon DEF BuildTarget, SInv, StoreTypeOK, OptRev
  <2>4. /\ target' \in [Rev -> OptRev] /\ rejected' \in OptRev /\ acked' = acked
        /\ prev' \in OptRev /\ cand' \in OptRev
    BY <1>1, <2>1, <2>2, <2>3, Zenon DEF BeginApply, RestTypeOK, OptRev
  <2>5. SInv' /\ Synced' /\ files' = files /\ activeMay' = activeMay
    BY <1>1, RecordsKept, Zenon DEF BeginApply, storeVars, StepFacts, SyncedSteps
  <2>6. pc' = "prepare" /\ healthy' = healthy /\ UNCHANGED mode /\ NoFault /\ KernelTypeOK'
    BY <1>1, KernelKept, Zenon DEF BeginApply, Goto
  <2>7. StepFacts'
    BY <2>1, <2>5, <2>6, Zenon DEF StepFacts, SyncedSteps, PendingSteps, CommittedSteps, RollbackSteps,
       RecoverSteps, Fresh
  <2>8. RestTypeOK'
    BY <2>4, <2>6, FaultCount, Zenon DEF RestTypeOK, Pc, ApplySteps
  <2> QED BY <2>4, <2>5, <2>7, <2>8, QuietStep, Zenon DEF Good
<1>2. CASE ApplyReadFails
  <2>1. SInv' /\ activeMay' \subseteq activeMay /\ KernelTypeOK' /\ acked' = acked
    BY <1>2, RecordsKept, KernelKept, Zenon DEF ApplyReadFails, storeVars, verdicts
  <2>2. pc' \in Pc /\ healthy' \in BOOLEAN /\ StepFacts' /\ (Fault \/ NoFault)
    BY <1>2, DegradeStops, Zenon DEF ApplyReadFails, ReadFails, Pc
  <2>3. RestTypeOK'
    BY <1>2, <2>1, <2>2, RestKept, Zenon DEF ApplyReadFails
  <2> QED BY <2>1, <2>2, <2>3, QuietStep, Zenon DEF Good
<1>3. CASE ApplyPrepare
  <2>1. PICK ok \in BOOLEAN : Prepare(prev, cand, ok) /\ StoreStep(ok, "switch")
    BY <1>3, Zenon DEF ApplyPrepare
  <2>2. Synced /\ cand \in Rev \ files /\ prev \in OptRev
    BY <1>3, Zenon DEF ApplyPrepare, StepFacts, SyncedSteps, RestTypeOK
  <2>3. /\ SInv' /\ activeMay' \subseteq activeMay /\ (Fault \/ NoFault)
        /\ ok => Synced' /\ journal'.op = "apply" /\ journal'.cand = cand
    BY <2>1, <2>2, PrepareSound, StoreFaults, Zenon DEF Synced
  <2>4. cand' = cand
    BY <2>1, Zenon DEF StoreStep, locals
  <2>5. ok /\ pc' = "switch" => StepFacts'
    BY <2>3, <2>4, Zenon DEF StepFacts, SyncedSteps, PendingSteps, CommittedSteps, RollbackSteps, RecoverSteps
  <2> QED BY <2>1, <2>3, <2>5, StoreStepGood, Zenon DEF Pc, ApplySteps
<1>4. CASE ApplySwitch
  <2>1. PICK ok \in BOOLEAN : /\ BackendApply(TargetOf(prev), TargetOf(cand), ok)
                              /\ Goto(IF ok THEN "markSwitched" ELSE "rollback")
    BY <1>4, Zenon DEF ApplySwitch
  <2>2. KernelTypeOK' /\ (Fault \/ NoFault)
    BY <2>1, ApplySafe, TargetType, Zenon DEF RestTypeOK
  <2>3. /\ SInv' /\ (Synced => Synced') /\ activeMay' = activeMay /\ journal' = journal /\ cand' = cand
        /\ acked' = acked /\ UNCHANGED <<mode, locals, verdicts>>
    BY <1>4, RecordsKept, Zenon DEF ApplySwitch, storeVars, locals, verdicts
  <2>4. StepFacts'
    BY <1>4, <2>1, <2>3, ZenonT(40)
    DEF ApplySwitch, Goto, StepFacts, SyncedSteps, PendingSteps, CommittedSteps,
       RollbackSteps, RecoverSteps
  <2> QED BY <2>1, <2>2, <2>3, <2>4, QuietStep, ForkGood, Zenon DEF Pc, ApplySteps, RollbackSteps
<1>5. CASE ApplyMarkSwitched
  <2>1. PICK ok \in BOOLEAN : /\ MarkPhase("switched", ok)
                              /\ Goto(IF ok THEN "commit" ELSE "rollback")
    BY <1>5, Zenon DEF ApplyMarkSwitched
  <2>2. /\ SInv' /\ activeMay' \subseteq activeMay
        /\ journal'.op = journal.op /\ journal'.cand = journal.cand /\ (ok => Synced')
    BY <2>1, MarkPhaseSound, Zenon DEF Phase
  <2>3. Fault \/ NoFault
    BY <2>1, StoreFaults, Zenon
  <2>4. KernelTypeOK' /\ cand' = cand /\ acked' = acked /\ UNCHANGED <<mode, locals, verdicts>>
    BY <1>5, KernelKept, Zenon DEF ApplyMarkSwitched, locals, verdicts
  <2>5. StepFacts'
    BY <1>5, <2>1, <2>2, <2>4, Zenon DEF ApplyMarkSwitched, Goto, StepFacts, SyncedSteps, PendingSteps,
       CommittedSteps, RollbackSteps, RecoverSteps
  <2> QED BY <2>1, <2>2, <2>3, <2>4, <2>5, QuietStep, ForkGood, Zenon DEF Pc, ApplySteps, RollbackSteps
<1>6. CASE ApplyCommit
  <2>1. PICK ok \in BOOLEAN : Commit(cand, ok) /\ Goto(IF ok THEN "markCommitted" ELSE "uncertain")
    BY <1>6, Zenon DEF ApplyCommit
  <2>2. Synced /\ journal.op = "apply" /\ journal.cand = cand /\ cand \in OptRev
    BY <1>6, Zenon DEF ApplyCommit, StepFacts, SyncedSteps, PendingSteps, RestTypeOK
  <2>3. /\ SInv' /\ journal' = journal /\ activeMay' \subseteq activeMay \cup {cand}
        /\ (ok => active' = cand /\ Synced')
    BY <2>1, <2>2, CommitSound, Zenon
  <2>4. Fault \/ NoFault
    BY <2>1, StoreFaults, Zenon
  <2>5. KernelTypeOK' /\ cand' = cand /\ acked' = acked /\ UNCHANGED <<mode, locals, verdicts>>
    BY <1>6, KernelKept, Zenon DEF ApplyCommit, locals, verdicts
  <2>6. StepFacts'
    BY <1>6, <2>1, <2>2, <2>3, <2>5, Zenon DEF ApplyCommit, Goto, StepFacts, SyncedSteps, PendingSteps,
       CommittedSteps, RollbackSteps, RecoverSteps, Synced
  <2>7. AuthorityStep
    BY <2>2, <2>3, <2>5, CandidateTakesOver, Zenon
  <2> QED BY <2>1, <2>3, <2>4, <2>5, <2>6, <2>7, ForkGood, Zenon DEF Pc, ApplySteps, ResolveSteps
<1>7. CASE ApplyMarkCommitted
  <2>1. PICK ok \in BOOLEAN : /\ MarkPhase("committed", ok)
                              /\ Goto(IF ok THEN "retire" ELSE "rdStabilize")
    BY <1>7, Zenon DEF ApplyMarkCommitted
  <2>2. activeMay = {cand} /\ active = cand /\ journal.op = "apply" /\ journal.cand = cand
    BY <1>7, Zenon DEF ApplyMarkCommitted, StepFacts, CommittedSteps, PendingSteps
  <2>3. /\ SInv' /\ activeMay' \subseteq activeMay /\ active' = active
        /\ journal'.op = journal.op /\ journal'.cand = journal.cand /\ (ok => Synced')
    BY <2>1, <2>2, MarkPhaseSound, Zenon DEF Phase
  <2>4. Fault \/ NoFault
    BY <2>1, StoreFaults, Zenon
  <2>5. KernelTypeOK' /\ cand' = cand /\ acked' = acked /\ UNCHANGED <<mode, locals, verdicts>>
    BY <1>7, KernelKept, Zenon DEF ApplyMarkCommitted, locals, verdicts
  <2>6. activeMay' = {cand}
    BY <2>2, <2>3, Zenon DEF SInv, StoreShape
  <2>7. StepFacts'
    BY <2>1, <2>2, <2>3, <2>5, <2>6, Zenon DEF Goto, StepFacts, SyncedSteps, PendingSteps,
       CommittedSteps, RollbackSteps, RecoverSteps
  <2> QED BY <2>1, <2>3, <2>4, <2>5, <2>7, QuietStep, ForkGood, Zenon DEF Pc, ApplySteps, ResolveSteps
<1>8. CASE ApplyRetire
  <2>1. PICK ok \in BOOLEAN :
          /\ BackendRetire(TargetOf(prev), TargetOf(cand), ok)
          /\ IF ok THEN Goto("finish") /\ UNCHANGED verdicts ELSE DegradeCommitted
    BY <1>8, Zenon DEF ApplyRetire
  <2>2. KernelTypeOK' /\ (Fault \/ NoFault)
    BY <2>1, RetireSafe, TargetType, Zenon DEF RestTypeOK
  <2>3. /\ SInv' /\ (Synced => Synced') /\ active' = active /\ activeMay' = activeMay
        /\ journal' = journal /\ cand' = cand /\ UNCHANGED <<mode, locals>>
    BY <1>8, RecordsKept, Zenon DEF ApplyRetire, storeVars, locals
  <2>4. pc \in CommittedSteps /\ "finish" \in Pc
    BY <1>8, Zenon DEF ApplyRetire, CommittedSteps, Pc, ApplySteps
  <2>5. pc' = "finish" => StepFacts'
    BY <1>8, <2>3, Zenon DEF ApplyRetire, StepFacts, SyncedSteps, PendingSteps, CommittedSteps,
       RollbackSteps, RecoverSteps
  <2> QED BY <2>1, <2>2, <2>3, <2>4, <2>5, CommittedStepGood, Zenon
<1>9. CASE ApplyFinish
  <2>1. PICK ok \in BOOLEAN :
          Finish(ok) /\ IF ok THEN Goto("readback") /\ UNCHANGED verdicts ELSE DegradeCommitted
    BY <1>9, Zenon DEF ApplyFinish
  <2>2. pc \in CommittedSteps /\ "readback" \in Pc /\ Synced /\ active = cand
    BY <1>9, Zenon DEF ApplyFinish, CommittedSteps, Pc, ApplySteps, StepFacts, SyncedSteps
  <2>3. SInv' /\ active' = active /\ activeMay' \subseteq activeMay /\ (ok => Synced')
    BY <2>1, <2>2, FinishSound, Zenon
  <2>4. (Fault \/ NoFault) /\ KernelTypeOK' /\ cand' = cand /\ UNCHANGED <<mode, locals>>
    BY <1>9, <2>1, StoreFaults, KernelKept, Zenon DEF ApplyFinish, locals
  <2>5. ok /\ pc' = "readback" => StepFacts'
    BY <2>2, <2>3, <2>4, Zenon DEF StepFacts, SyncedSteps, PendingSteps, CommittedSteps,
       RollbackSteps, RecoverSteps, Synced
  <2> QED BY <2>1, <2>2, <2>3, <2>4, <2>5, CommittedStepGood, Zenon
<1>10. CASE ApplyReadback
  <2>1. PICK ok \in BOOLEAN :
          IF ok THEN pc' = "idle" /\ healthy' = TRUE /\ acked' = active /\ UNCHANGED rejected
                ELSE DegradeCommitted
    BY <1>10, Zenon DEF ApplyReadback
  <2>2. Synced /\ active = cand /\ activeMay = {cand} /\ cand \in OptRev
    BY <1>10, Zenon DEF ApplyReadback, CommittedSteps, StepFacts, SyncedSteps, RestTypeOK
  <2>3. /\ SInv' /\ Synced' /\ activeMay' = activeMay /\ KernelTypeOK'
        /\ UNCHANGED <<mode, locals>> /\ (Fault \/ NoFault)
    BY <1>10, <2>2, RecordsKept, KernelKept, Zenon DEF ApplyReadback, storeVars, ReadFails
  <2>4. acked' = cand /\ rejected' = rejected /\ pc' \in Pc /\ healthy' \in BOOLEAN
    BY <2>1, <2>2, DegradeStops, Zenon DEF DegradeCommitted, Pc
  <2>5. StepFacts'
    BY <2>1, <2>3, DegradeStops, Zenon DEF DegradeCommitted, StepFacts, SyncedSteps, PendingSteps,
       CommittedSteps, RollbackSteps, RecoverSteps
  <2>6. RestTypeOK'
    BY <2>2, <2>3, <2>4, FaultCount, Zenon DEF RestTypeOK, locals
  <2> QED BY <2>2, <2>3, <2>4, <2>5, <2>6, Zenon DEF Good, AuthorityStep
<1> QED BY <1>1, <1>2, <1>3, <1>4, <1>5, <1>6, <1>7, <1>8, <1>9, <1>10, Zenon DEF Apply

----------------------------------------------------------------------------
\* A backend apply or retire between the two revisions of the operation that
\* degrades on an error.
LEMMA SwitchGood ==
  ASSUME IInv, NEW r \in OptRev, NEW s \in OptRev, NEW ok \in BOOLEAN, NEW next \in Pc,
         \/ BackendApply(TargetOf(r), TargetOf(s), ok)
         \/ BackendRetire(TargetOf(r), TargetOf(s), ok),
         KernelStep(ok, next),
         Synced' = Synced /\ active' = active /\ activeMay' = activeMay /\ journal' = journal
           /\ cand' = cand /\ pc' = next => StepFacts'
  PROVE  Good
<1>1. KernelTypeOK' /\ (Fault \/ NoFault)
  BY ApplySafe, RetireSafe, TargetType, Zenon DEF IInv, RestTypeOK
<1>2. /\ Synced' = Synced /\ active' = active /\ activeMay' = activeMay
      /\ journal' = journal /\ cand' = cand
  BY Zenon DEF KernelStep, storeVars, locals, Synced
<1> QED BY <1>1, <1>2, KernelStepGood, Zenon

LEMMA RollbackGood ==
  ASSUME IInv, Rollback
  PROVE  Good
<1> USE DEF IInv
<1>0. prev \in OptRev /\ cand \in OptRev
  BY Zenon DEF RestTypeOK
<1>1. CASE RollbackCancelled
  <2>1. SInv' /\ activeMay' \subseteq activeMay /\ KernelTypeOK' /\ acked' = acked
    BY <1>1, RecordsKept, KernelKept, Zenon DEF RollbackCancelled, storeVars, verdicts
  <2>2. pc' \in Pc /\ healthy' \in BOOLEAN /\ StepFacts' /\ Fault
    BY <1>1, DegradeStops, Zenon DEF RollbackCancelled, Pc
  <2>3. RestTypeOK'
    BY <1>1, <2>1, <2>2, RestKept, Zenon DEF RollbackCancelled
  <2> QED BY <2>1, <2>2, <2>3, QuietStep, Zenon DEF Good
<1>2. CASE RollbackSwitch
  <2>1. PICK ok \in BOOLEAN : /\ BackendApply(TargetOf(cand), TargetOf(prev), ok)
                              /\ KernelStep(ok, "rbRetire")
    BY <1>2, Zenon DEF RollbackSwitch
  <2>2. journal' = journal /\ cand' = cand /\ pc' = "rbRetire" => StepFacts'
    BY <1>2, Zenon DEF RollbackSwitch, StepFacts, SyncedSteps, PendingSteps, CommittedSteps,
       RollbackSteps, RecoverSteps
  <2> QED BY <1>0, <2>1, <2>2, SwitchGood, Zenon DEF Pc, RollbackSteps
<1>3. CASE RollbackRetire
  <2>1. PICK ok \in BOOLEAN : /\ BackendRetire(TargetOf(cand), TargetOf(prev), ok)
                              /\ KernelStep(ok, "rbStabilize")
    BY <1>3, Zenon DEF RollbackRetire
  <2>2. journal' = journal /\ cand' = cand /\ pc' = "rbStabilize" => StepFacts'
    BY <1>3, Zenon DEF RollbackRetire, StepFacts, SyncedSteps, PendingSteps, CommittedSteps,
       RollbackSteps, RecoverSteps
  <2> QED BY <1>0, <2>1, <2>2, SwitchGood, Zenon DEF Pc, RollbackSteps
<1>4. CASE RollbackStabilize
  <2>1. PICK ok \in BOOLEAN : Stabilize(ok) /\ StoreStep(ok, "rbFinish")
    BY <1>4, Zenon DEF RollbackStabilize
  <2>2. /\ SInv' /\ journal' = journal /\ activeMay' \subseteq activeMay /\ (ok => Synced')
        /\ (Fault \/ NoFault) /\ cand' = cand
    BY <2>1, StabilizeSound, StoreFaults, Zenon DEF StoreStep, locals
  <2>3. ok /\ pc' = "rbFinish" => StepFacts'
    BY <1>4, <2>2, Zenon DEF RollbackStabilize, StepFacts, SyncedSteps, PendingSteps, CommittedSteps,
       RollbackSteps, RecoverSteps
  <2> QED BY <2>1, <2>2, <2>3, StoreStepGood, Zenon DEF Pc, RollbackSteps
<1>5. CASE RollbackFinish
  <2>1. PICK ok \in BOOLEAN :
          /\ Finish(ok)
          /\ IF ok THEN pc' = "idle" /\ healthy' = TRUE /\ rejected' = cand
                   ELSE Degrade /\ UNCHANGED rejected
    BY <1>5, Zenon DEF RollbackFinish
  <2>2. Synced
    BY <1>5, Zenon DEF RollbackFinish, StepFacts, SyncedSteps
  <2>3. SInv' /\ activeMay' \subseteq activeMay /\ (ok => Synced') /\ (Fault \/ NoFault)
    BY <2>1, <2>2, FinishSound, StoreFaults, Zenon
  <2>4. pc' \in Pc /\ healthy' \in BOOLEAN /\ rejected' \in {rejected, cand}
    BY <2>1, DegradeStops, Zenon DEF Pc
  <2>5. StepFacts'
    BY <2>1, <2>3, DegradeStops, Zenon DEF StepFacts, SyncedSteps, PendingSteps, CommittedSteps,
       RollbackSteps, RecoverSteps
  <2>6. KernelTypeOK' /\ acked' = acked /\ UNCHANGED <<mode, locals>>
    BY <1>5, KernelKept, Zenon DEF RollbackFinish
  <2>7. RestTypeOK'
    BY <2>3, <2>4, <2>6, FaultCount, Zenon DEF RestTypeOK, locals
  <2> QED BY <2>3, <2>5, <2>6, <2>7, QuietStep, Zenon DEF Good
<1> QED BY <1>1, <1>2, <1>3, <1>4, <1>5, Zenon DEF Rollback

LEMMA ResolveGood ==
  ASSUME IInv, Resolve
  PROVE  Good
<1> USE DEF IInv
<1>1. CASE CommitErrorStabilize
  <2>1. PICK ok \in BOOLEAN : Stabilize(ok) /\ StoreStep(ok, "decide")
    BY <1>1, Zenon DEF CommitErrorStabilize
  <2>2. /\ SInv' /\ journal' = journal /\ activeMay' \subseteq activeMay /\ (ok => Synced')
        /\ (Fault \/ NoFault) /\ cand' = cand
    BY <2>1, StabilizeSound, StoreFaults, Zenon DEF StoreStep, locals
  <2>3. ok /\ pc' = "decide" => StepFacts'
    BY <1>1, <2>2, Zenon DEF CommitErrorStabilize, StepFacts, SyncedSteps, PendingSteps, CommittedSteps,
       RollbackSteps, RecoverSteps
  <2> QED BY <2>1, <2>2, <2>3, StoreStepGood, Zenon DEF Pc, ResolveSteps
<1>2. CASE CommitErrorDecide
  <2>1. /\ SInv' /\ (Synced => Synced') /\ active' = active /\ activeMay' = activeMay
        /\ journal' = journal /\ cand' = cand /\ acked' = acked /\ KernelTypeOK'
        /\ UNCHANGED <<mode, locals, verdicts>> /\ (Fault \/ NoFault)
    BY <1>2, RecordsKept, KernelKept, Zenon DEF CommitErrorDecide, storeVars, locals, verdicts, ReadFails
  <2>2. AuthorityStep
    BY <2>1, QuietStep, Zenon
  <2>3. CASE Degrade
    <3>1. pc' \in Pc /\ healthy' \in BOOLEAN /\ StepFacts'
      BY <2>3, DegradeStops, Zenon DEF Pc
    <3> QED BY <2>1, <2>2, <3>1, RestKept, Zenon DEF Good
  <2>4. CASE Goto(IF active = cand THEN "rdStabilize" ELSE "rollback")
    <3>1. StepFacts'
      BY <1>2, <2>1, <2>4, Zenon DEF CommitErrorDecide, Goto, StepFacts, SyncedSteps, PendingSteps,
         CommittedSteps, RollbackSteps, RecoverSteps, Synced
    <3> QED BY <2>1, <2>2, <2>4, <3>1, ForkGood, Zenon DEF Pc, ResolveSteps, RollbackSteps
  <2> QED BY <1>2, <2>3, <2>4, Zenon DEF CommitErrorDecide
<1>3. CASE CommittedStabilize
  <2>1. PICK ok \in BOOLEAN :
          Stabilize(ok) /\ IF ok THEN Goto("rdMark") /\ UNCHANGED verdicts ELSE DegradeCommitted
    BY <1>3, Zenon DEF CommittedStabilize
  <2>2. /\ pc \in CommittedSteps /\ "rdMark" \in Pc /\ active = cand /\ activeMay = {cand}
        /\ journal.op = "apply" /\ journal.cand = cand
    BY <1>3, Zenon DEF CommittedStabilize, CommittedSteps, PendingSteps, Pc, ResolveSteps, StepFacts
  <2>3. /\ SInv' /\ active' = active /\ journal' = journal /\ activeMay' \subseteq activeMay
        /\ active \in activeMay' /\ (ok => Synced')
    BY <2>1, StabilizeSound, Zenon
  <2>4. (Fault \/ NoFault) /\ KernelTypeOK' /\ cand' = cand /\ UNCHANGED <<mode, locals>>
    BY <1>3, <2>1, StoreFaults, KernelKept, Zenon DEF CommittedStabilize, locals
  <2>5. ok /\ pc' = "rdMark" => StepFacts'
    BY <2>2, <2>3, <2>4, Zenon DEF StepFacts, SyncedSteps, PendingSteps, CommittedSteps,
       RollbackSteps, RecoverSteps
  <2> QED BY <2>1, <2>2, <2>3, <2>4, <2>5, CommittedStepGood, Zenon
<1>4. CASE CommittedMark
  <2>1. PICK ok \in BOOLEAN :
          /\ MarkPhase("committed", ok)
          /\ IF ok THEN Goto("retire") /\ UNCHANGED verdicts ELSE DegradeCommitted
    BY <1>4, Zenon DEF CommittedMark
  <2>2. /\ pc \in CommittedSteps /\ "retire" \in Pc /\ active = cand /\ activeMay = {cand}
        /\ journal.op = "apply" /\ journal.cand = cand
    BY <1>4, Zenon DEF CommittedMark, CommittedSteps, PendingSteps, Pc, ApplySteps, StepFacts
  <2>3. /\ SInv' /\ active' = active /\ activeMay' \subseteq activeMay
        /\ journal'.op = journal.op /\ journal'.cand = journal.cand /\ (ok => Synced')
    BY <2>1, <2>2, MarkPhaseSound, Zenon DEF Phase
  <2>4. (Fault \/ NoFault) /\ KernelTypeOK' /\ cand' = cand /\ UNCHANGED <<mode, locals>>
    BY <1>4, <2>1, StoreFaults, KernelKept, Zenon DEF CommittedMark, locals
  <2>5. activeMay' = {cand}
    BY <2>2, <2>3, Zenon DEF SInv, StoreShape
  <2>6. ok /\ pc' = "retire" => StepFacts'
    BY <2>2, <2>3, <2>4, <2>5, Zenon DEF StepFacts, SyncedSteps, PendingSteps, CommittedSteps,
       RollbackSteps, RecoverSteps
  <2> QED BY <2>1, <2>2, <2>3, <2>4, <2>6, CommittedStepGood, Zenon
<1> QED BY <1>1, <1>2, <1>3, <1>4, Zenon DEF Resolve

----------------------------------------------------------------------------
LEMMA RecoverGood ==
  ASSUME IInv, Recover
  PROVE  Good
<1> USE DEF IInv
<1>0. prev \in OptRev /\ cand \in OptRev
  BY Zenon DEF RestTypeOK
<1>1. CASE RecoverBegin
  <2>1. SInv' /\ activeMay' \subseteq activeMay /\ KernelTypeOK' /\ acked' = acked
    BY <1>1, RecordsKept, KernelKept, Zenon DEF RecoverBegin, storeVars, verdicts
  <2>2. pc' \in Pc /\ healthy' \in BOOLEAN /\ StepFacts'
    BY <1>1, StoppedFacts, Zenon DEF RecoverBegin, Pc, RecoverSteps
  <2>3. RestTypeOK'
    BY <1>1, <2>1, <2>2, RestKept, Zenon DEF RecoverBegin
  <2> QED BY <2>1, <2>2, <2>3, QuietStep, Zenon DEF Good
<1>2. CASE RecoverStabilize
  <2>1. PICK ok \in BOOLEAN : Stabilize(ok) /\ StoreStep(ok, "rvDecide")
    BY <1>2, Zenon DEF RecoverStabilize
  <2>2. SInv' /\ activeMay' \subseteq activeMay /\ (ok => Synced') /\ (Fault \/ NoFault)
    BY <2>1, StabilizeSound, StoreFaults, Zenon
  <2>3. ok /\ pc' = "rvDecide" => StepFacts'
    BY <2>2, Zenon DEF StepFacts, SyncedSteps, PendingSteps, CommittedSteps, RollbackSteps, RecoverSteps
  <2> QED BY <2>1, <2>2, <2>3, StoreStepGood, Zenon DEF Pc, RecoverSteps
<1>3. CASE RecoverDecide
  <2>1. /\ SInv' /\ (Synced => Synced') /\ active' = active /\ activeMay' = activeMay
        /\ journal' = journal /\ KernelTypeOK' /\ acked' = acked /\ rejected' = rejected
        /\ target' = target /\ mode' = mode /\ (Fault \/ NoFault)
    BY <1>3, RecordsKept, KernelKept, Zenon DEF RecoverDecide, ReadFails, storeVars, verdicts
  <2>2. Synced /\ activeMay = {active} /\ active \in OptRev /\ journal \in Journal
    BY <1>3, Zenon DEF RecoverDecide, StepFacts, SyncedSteps, RecoverSteps, Synced, SInv, StoreTypeOK
  <2>3. /\ journal.op \in {"none", "apply", "cleanup"}
        /\ journal.prev \in OptRev /\ journal.cand \in OptRev
    BY <2>2, Zenon DEF Journal
  <2>4. CASE /\ Goto(RecoverPath)
             /\ prev' = IF journal.op = "apply" THEN journal.prev ELSE active
             /\ cand' = IF journal.op = "apply" THEN journal.cand ELSE active
    <3>1. /\ journal.op = "cleanup" => pc' = "clKernel"
          /\ journal.op = "none" => pc' = IF active = NoRev THEN "rvReturn" ELSE "rvPrepare"
          /\ journal.op = "apply" => pc' = IF active = journal.cand THEN "rvSwitch" ELSE "bkSwitch"
      BY <2>4, Zenon DEF RecoverPath, Goto
    <3>2. pc' \in Pc /\ healthy' = healthy
      BY <2>3, <2>4, <3>1, Zenon DEF Goto, Pc, RecoverSteps, CleanupSteps
    <3>3. StepFacts'
      BY <2>1, <2>2, <2>3, <2>4, <3>1, ZenonT(40) DEF StepFacts, SyncedSteps, PendingSteps, CommittedSteps,
         RollbackSteps, RecoverSteps, OptRev
    <3>4. RestTypeOK'
      BY <2>1, <2>2, <2>3, <2>4, <3>2, FaultCount, Zenon DEF RestTypeOK
    <3> QED BY <2>1, <3>3, <3>4, QuietStep, Zenon DEF Good
  <2>5. CASE Degrade /\ UNCHANGED <<prev, cand>>
    <3>1. pc' \in Pc /\ healthy' \in BOOLEAN /\ StepFacts'
      BY <2>5, DegradeStops, Zenon DEF Pc
    <3>2. RestTypeOK'
      BY <2>1, <2>5, <3>1, FaultCount, Zenon DEF RestTypeOK
    <3> QED BY <2>1, <3>1, <3>2, QuietStep, Zenon DEF Good
  <2> QED BY <1>3, <2>4, <2>5, ZenonT(40) DEF RecoverDecide
<1>4. CASE RecoverPrepare
  <2>1. PICK ok \in BOOLEAN : Prepare(active, active, ok) /\ StoreStep(ok, "rvReapply")
    BY <1>4, Zenon DEF RecoverPrepare
  <2>2. Synced /\ active \in Rev /\ cand = active
    BY <1>4, Zenon DEF RecoverPrepare, StepFacts, SyncedSteps, RecoverSteps
  <2>3. active \in OptRev /\ active \notin files \cap unsynced
    BY <2>2, Zenon DEF OptRev, Synced, SInv, RecordsSurvive, ReadOK
  <2>4. /\ SInv' /\ active' = active /\ activeMay' = {active} /\ (Fault \/ NoFault)
        /\ ok => Synced' /\ journal'.op = "apply" /\ journal'.cand = active
    BY <2>1, <2>2, <2>3, PrepareSound, StoreFaults, Zenon
  <2>5. cand' = cand
    BY <2>1, Zenon DEF StoreStep, locals
  <2>6. ok /\ pc' = "rvReapply" => StepFacts'
    BY <2>2, <2>4, <2>5, Zenon DEF StepFacts, SyncedSteps, PendingSteps, CommittedSteps, RollbackSteps,
       RecoverSteps
  <2>7. activeMay' \subseteq activeMay
    BY <2>2, <2>4, Zenon DEF Synced
  <2> QED BY <2>1, <2>4, <2>6, <2>7, StoreStepGood, Zenon DEF Pc, RecoverSteps
<1>5. CASE RecoverReapply
  <2>1. PICK ok \in BOOLEAN : /\ BackendApply(TargetOf(prev), TargetOf(cand), ok)
                              /\ KernelStep(ok, "rvMarkSwitched")
    BY <1>5, Zenon DEF RecoverReapply
  <2>2. Synced' = Synced /\ active' = active /\ activeMay' = activeMay /\ journal' = journal
          /\ cand' = cand /\ pc' = "rvMarkSwitched" => StepFacts'
    BY <1>5, SMTT(30) DEF RecoverReapply, StepFacts, SyncedSteps, PendingSteps, CommittedSteps,
       RollbackSteps, RecoverSteps
  <2> QED BY <1>0, <2>1, <2>2, SwitchGood, Zenon DEF Pc, RecoverSteps
<1>6. CASE RecoverMarkSwitched
  <2>1. PICK ok \in BOOLEAN : MarkPhase("switched", ok) /\ StoreStep(ok, "rvCommit")
    BY <1>6, Zenon DEF RecoverMarkSwitched
  <2>2. /\ SInv' /\ active' = active /\ activeMay' \subseteq activeMay
        /\ journal'.op = journal.op /\ journal'.cand = journal.cand /\ (ok => Synced')
    BY <2>1, MarkPhaseSound, Zenon DEF Phase
  <2>3. (Fault \/ NoFault) /\ cand' = cand
    BY <2>1, StoreFaults, ZenonT(40) DEF StoreStep, locals
  <2>4. ok /\ pc' = "rvCommit" => StepFacts'
    BY <1>6, <2>2, <2>3, Zenon DEF RecoverMarkSwitched, StepFacts, SyncedSteps, PendingSteps,
       CommittedSteps, RollbackSteps, RecoverSteps, Synced
  <2> QED BY <2>1, <2>2, <2>3, <2>4, StoreStepGood, Zenon DEF Pc, RecoverSteps
<1>7. CASE RecoverSwitch
  <2>1. PICK ok \in BOOLEAN : /\ BackendApply(TargetOf(prev), TargetOf(cand), ok)
                              /\ KernelStep(ok, "rvCommit")
    BY <1>7, Zenon DEF RecoverSwitch
  <2>2. Synced' = Synced /\ active' = active /\ activeMay' = activeMay /\ journal' = journal
          /\ cand' = cand /\ pc' = "rvCommit" => StepFacts'
    BY <1>7 DEF RecoverSwitch, StepFacts, SyncedSteps, PendingSteps, CommittedSteps,
       RollbackSteps, RecoverSteps
  <2> QED BY <1>0, <2>1, <2>2, SwitchGood, Zenon DEF Pc, RecoverSteps
<1>8. CASE RecoverCommit
  <2>1. PICK ok \in BOOLEAN : Commit(cand, ok) /\ StoreStep(ok, "rvMark")
    BY <1>8, Zenon DEF RecoverCommit
  <2>2. Synced /\ activeMay = {cand} /\ journal.op = "apply" /\ journal.cand = cand
    BY <1>8, Zenon DEF RecoverCommit, StepFacts, SyncedSteps, PendingSteps, CommittedSteps, RecoverSteps
  <2>3. /\ SInv' /\ journal' = journal /\ activeMay' \subseteq activeMay
        /\ (ok => active' = cand /\ Synced') /\ (Fault \/ NoFault) /\ cand' = cand
    BY <1>0, <2>1, <2>2, CommitSound, StoreFaults, SMTT(30) DEF StoreStep, locals
  <2>4. ok /\ pc' = "rvMark" => StepFacts'
    BY <2>2, <2>3, Zenon DEF StepFacts, SyncedSteps, PendingSteps, CommittedSteps, RollbackSteps,
       RecoverSteps, Synced
  <2> QED BY <2>1, <2>3, <2>4, StoreStepGood, Zenon DEF Pc, RecoverSteps
<1>9. CASE RecoverMark
  <2>1. PICK ok \in BOOLEAN : MarkPhase("committed", ok) /\ StoreStep(ok, "rvRetire")
    BY <1>9, Zenon DEF RecoverMark
  <2>2. activeMay = {cand} /\ active = cand /\ journal.op = "apply" /\ journal.cand = cand
    BY <1>9, Zenon DEF RecoverMark, StepFacts, PendingSteps, CommittedSteps
  <2>3. /\ SInv' /\ active' = active /\ activeMay' \subseteq activeMay
        /\ journal'.op = journal.op /\ journal'.cand = journal.cand /\ (ok => Synced')
    BY <2>1, <2>2, MarkPhaseSound, Zenon DEF Phase
  <2>4. (Fault \/ NoFault) /\ cand' = cand
    BY <2>1, StoreFaults, Zenon DEF StoreStep, locals
  <2>5. ok /\ pc' = "rvRetire" => StepFacts'
    BY <2>2, <2>3, <2>4, Zenon DEF StepFacts, SyncedSteps, PendingSteps, CommittedSteps, RollbackSteps,
       RecoverSteps, Synced
  <2> QED BY <2>1, <2>3, <2>4, <2>5, StoreStepGood, Zenon DEF Pc, RecoverSteps
<1>10. CASE RecoverRetire \/ RecoverBackRetire
  <2>1. PICK ok \in BOOLEAN : /\ KernelStep(ok, "rvFinish")
                              /\ \/ BackendRetire(TargetOf(prev), TargetOf(cand), ok)
                                 \/ BackendRetire(TargetOf(cand), TargetOf(prev), ok)
    BY <1>10, ZenonT(40) DEF RecoverRetire, RecoverBackRetire
  <2>2. Synced' = Synced /\ pc' = "rvFinish" => StepFacts'
    BY <1>10, SMTT(20) DEF RecoverRetire, RecoverBackRetire, StepFacts, SyncedSteps, PendingSteps,
       CommittedSteps, RollbackSteps, RecoverSteps
  <2> QED BY <1>0, <2>1, <2>2, SwitchGood, Zenon DEF Pc, RecoverSteps
<1>11. CASE RecoverBackSwitch
  <2>1. PICK ok \in BOOLEAN : /\ BackendApply(TargetOf(cand), TargetOf(prev), ok)
                              /\ KernelStep(ok, "bkRetire")
    BY <1>11, ZenonT(40) DEF RecoverBackSwitch
  <2>2. Synced' = Synced /\ pc' = "bkRetire" => StepFacts'
    BY <1>11, SMTT(20) DEF RecoverBackSwitch, StepFacts, SyncedSteps, PendingSteps, CommittedSteps,
       RollbackSteps, RecoverSteps
  <2> QED BY <1>0, <2>1, <2>2, SwitchGood, Zenon DEF Pc, RecoverSteps
<1>12. CASE RecoverFinish
  <2>1. PICK ok \in BOOLEAN : Finish(ok) /\ StoreStep(ok, "rvReturn")
    BY <1>12, Zenon DEF RecoverFinish
  <2>2. Synced
    BY <1>12, Zenon DEF RecoverFinish, StepFacts, SyncedSteps, RecoverSteps
  <2>3. SInv' /\ activeMay' \subseteq activeMay /\ (ok => Synced') /\ (Fault \/ NoFault)
    BY <2>1, <2>2, FinishSound, StoreFaults, Zenon
  <2>4. ok /\ pc' = "rvReturn" => StepFacts'
    BY <2>3, Zenon DEF StepFacts, SyncedSteps, PendingSteps, CommittedSteps, RollbackSteps, RecoverSteps
  <2> QED BY <2>1, <2>3, <2>4, StoreStepGood, Zenon DEF Pc, RecoverSteps
<1>13. CASE RecoverReturn
  <2>1. /\ SInv' /\ (Synced => Synced') /\ activeMay' = activeMay /\ KernelTypeOK'
        /\ UNCHANGED <<mode, locals>> /\ (Fault \/ NoFault)
    BY <1>13, RecordsKept, KernelKept, Zenon DEF RecoverReturn, storeVars
  <2>2. Synced /\ activeMay = {active} /\ active \in OptRev
    BY <1>13, Zenon DEF RecoverReturn, StepFacts, SyncedSteps, RecoverSteps, Synced, SInv, StoreTypeOK
  <2>3. /\ pc' \in {"collect", "idle", "recover", "down"} /\ healthy' \in BOOLEAN
        /\ acked' \in {acked, active} /\ rejected' = rejected
    BY <1>13, DegradeStops, Zenon DEF RecoverReturn, verdicts
  <2>4. StepFacts'
    BY <2>1, <2>2, <2>3, Zenon DEF StepFacts, SyncedSteps, PendingSteps, CommittedSteps, RollbackSteps,
       RecoverSteps
  <2>5. RestTypeOK'
    BY <2>1, <2>2, <2>3, FaultCount, Zenon DEF RestTypeOK, locals, Pc, RecoverSteps
  <2> QED BY <2>1, <2>2, <2>3, <2>4, <2>5, Zenon DEF Good, AuthorityStep
<1>14. CASE StartupCollect
  <2>1. PICK ok \in BOOLEAN :
          /\ CollectRevisions(ok)
          /\ IF ok THEN Goto("idle") /\ mode' = "running"
                   ELSE pc' = "down" /\ healthy' = FALSE /\ UNCHANGED mode
    BY <1>14, Zenon DEF StartupCollect
  <2>2. Synced
    BY <1>14, Zenon DEF StartupCollect, StepFacts, SyncedSteps, RecoverSteps
  <2>3. SInv' /\ UNCHANGED stateDir /\ (Fault \/ NoFault)
    BY <2>1, <2>2, CollectSound, StoreFaults, Zenon
  <2>4. /\ Synced' /\ activeMay' = activeMay /\ KernelTypeOK' /\ acked' = acked
        /\ UNCHANGED <<locals, verdicts>>
    BY <1>14, <2>2, <2>3, KernelKept, Zenon DEF StartupCollect, stateDir, Synced, verdicts
  <2>5. pc' \in {"idle", "down"} /\ healthy' \in BOOLEAN /\ mode' \in Mode
    BY <2>1, ZenonT(40) DEF Goto, Mode, RestTypeOK
  <2>6. StepFacts'
    BY <2>4, <2>5, Zenon DEF StepFacts, SyncedSteps, PendingSteps, CommittedSteps, RollbackSteps,
       RecoverSteps
  <2>7. RestTypeOK'
    BY <2>3, <2>4, <2>5, FaultCount, Zenon DEF RestTypeOK, locals, verdicts, Pc
  <2> QED BY <2>3, <2>4, <2>6, <2>7, QuietStep, Zenon DEF Good
<1> QED BY <1>1, <1>2, <1>3, <1>4, <1>5, <1>6, <1>7, <1>8, <1>9, <1>10, <1>11, <1>12, <1>13, <1>14, Zenon
        DEF Recover

----------------------------------------------------------------------------
LEMMA CleanupGood ==
  ASSUME IInv, Cleanup
  PROVE  Good
<1> USE DEF IInv
<1>1. CASE CleanupNothing
  <2>1. /\ SInv' /\ activeMay' \subseteq activeMay /\ KernelTypeOK' /\ acked' = NoRev
        /\ rejected' = rejected /\ UNCHANGED <<mode, locals>> /\ NoFault
    BY <1>1, RecordsKept, KernelKept, Zenon DEF CleanupNothing, storeVars
  <2>2. pc' = "cleaned" /\ healthy' = healthy
    BY <1>1, Zenon DEF CleanupNothing, Goto
  <2>3. RestTypeOK'
    BY <2>1, <2>2, FaultCount, Zenon DEF RestTypeOK, locals, OptRev, Pc, CleanupSteps
  <2> QED BY <2>1, <2>2, <2>3, StoppedFacts, QuietStep, Zenon DEF Good
<1>2. CASE CleanupBegin
  <2>1. PICK ok \in BOOLEAN : BeginCleanup(ok) /\ IF ok THEN Goto("clKernel") ELSE Degrade
    BY <1>2, Zenon DEF CleanupBegin
  <2>2. /\ SInv' /\ activeMay' \subseteq activeMay /\ (ok => journal'.op = "cleanup" /\ Synced')
        /\ (Fault \/ NoFault)
    BY <2>1, BeginCleanupSound, StoreFaults, Zenon
  <2>3. /\ acked' \in {acked, NoRev} /\ rejected' = rejected /\ KernelTypeOK'
        /\ UNCHANGED <<mode, locals>>
    BY <1>2, KernelKept, Zenon DEF CleanupBegin
  <2>4. pc' \in {"clKernel", "recover", "down"} /\ healthy' \in BOOLEAN /\ (pc' = "clKernel" => ok)
    BY <2>1, DegradeStops, Zenon DEF Goto, RestTypeOK
  <2>5. StepFacts'
    BY <2>2, <2>4, ZenonT(40) DEF StepFacts, SyncedSteps, PendingSteps, CommittedSteps, RollbackSteps,
       RecoverSteps
  <2>6. RestTypeOK'
    BY <2>2, <2>3, <2>4, FaultCount, Zenon DEF RestTypeOK, locals, OptRev, Pc, CleanupSteps
  <2> QED BY <2>2, <2>3, <2>5, <2>6, QuietStep, Zenon DEF Good
<1>3. CASE CleanupKernel
  <2>1. PICK ok \in BOOLEAN :
          /\ BackendCleanup(Targets(journal.revs \cup ({active} \ {NoRev})), ok)
          /\ KernelStep(ok, "clRemove")
    BY <1>3, ZenonT(40) DEF CleanupKernel
  <2>2. KernelTypeOK' /\ (Fault \/ NoFault)
    BY <2>1, CleanupSafe, Zenon DEF RestTypeOK
  <2>3. (Synced => Synced') /\ journal' = journal
    BY <2>1, ZenonT(40) DEF KernelStep, storeVars, Synced
  <2>4. pc' = "clRemove" => StepFacts'
    BY <1>3, <2>3, Zenon DEF CleanupKernel, StepFacts, SyncedSteps, PendingSteps, CommittedSteps,
       RollbackSteps, RecoverSteps
  <2> QED BY <2>1, <2>2, <2>4, KernelStepGood, Zenon DEF Pc, CleanupSteps
<1>4. CASE CleanupRemoveActive
  <2>1. PICK ok \in BOOLEAN : RemoveActive(ok) /\ StoreStep(ok, "clFinish")
    BY <1>4, Zenon DEF CleanupRemoveActive
  <2>2. Synced /\ journal.op = "cleanup"
    BY <1>4, Zenon DEF CleanupRemoveActive, StepFacts, SyncedSteps
  <2>3. /\ SInv' /\ journal' = journal /\ activeMay' \subseteq activeMay \cup {NoRev}
        /\ (ok => Synced') /\ (Fault \/ NoFault)
    BY <2>1, <2>2, RemoveActiveSound, StoreFaults, Zenon
  <2>4. /\ KernelTypeOK' /\ acked' = acked /\ UNCHANGED <<mode, locals, verdicts>>
    BY <2>1, KernelKept, Zenon DEF StoreStep, verdicts
  <2>5. pc' \in {"clFinish", "recover", "down"} /\ healthy' \in BOOLEAN /\ (pc' = "clFinish" => ok)
    BY <2>1, DegradeStops, Zenon DEF StoreStep, Goto, RestTypeOK
  <2>6. StepFacts'
    BY <2>2, <2>3, <2>5, Zenon DEF StepFacts, SyncedSteps, PendingSteps, CommittedSteps, RollbackSteps,
       RecoverSteps
  <2>7. RestTypeOK'
    BY <2>3, <2>4, <2>5, RestKept, Zenon DEF Pc, CleanupSteps
  <2>8. AuthorityStep
    BY <2>2, <2>3, <2>4, Zenon DEF AuthorityStep, Synced
  <2> QED BY <2>3, <2>6, <2>7, <2>8, Zenon DEF Good
<1>5. CASE CleanupFinish
  <2> DEFINE next == IF mode = "cleanup" THEN "cleaned" ELSE "rvReturn"
  <2>1. PICK ok \in BOOLEAN : Finish(ok) /\ StoreStep(ok, next)
    BY <1>5, Zenon DEF CleanupFinish
  <2>2. Synced
    BY <1>5, Zenon DEF CleanupFinish, StepFacts, SyncedSteps
  <2>3. SInv' /\ activeMay' \subseteq activeMay /\ (ok => Synced') /\ (Fault \/ NoFault)
    BY <2>1, <2>2, FinishSound, StoreFaults, ZenonT(40)
  <2>4. ok /\ pc' = next => StepFacts'
    BY <2>3, Zenon DEF StepFacts, SyncedSteps, PendingSteps, CommittedSteps, RollbackSteps, RecoverSteps
  <2>5. next \in Pc
    BY Zenon DEF Pc, RecoverSteps, CleanupSteps
  <2> HIDE DEF next
  <2> QED BY <2>1, <2>3, <2>4, <2>5, StoreStepGood, Zenon
<1> QED BY <1>1, <1>2, <1>3, <1>4, <1>5, Zenon DEF Cleanup

\* Processes come and go.
LEMMA ProcessGood ==
  ASSUME IInv, Start \/ Stop \/ Crash \/ PowerLoss
  PROVE  Good
<1> USE DEF IInv
<1>1. /\ pc' \in {"recover", "down", "clBegin"} /\ healthy' = FALSE /\ mode' \in Mode
      /\ UNCHANGED <<target, acked, rejected>> /\ (Fault \/ NoFault)
      /\ prev' \in {prev, NoRev} /\ cand' \in {cand, NoRev}
  BY Zenon DEF Start, Stop, Crash, PowerLoss, Mode, RestTypeOK, locals, verdicts
<1>2. CASE PowerLoss
  <2>1. SInv' /\ activeMay' \subseteq activeMay
    BY <1>2, LoseUnsyncedSound, Zenon DEF PowerLoss
  <2>2. KernelTypeOK'
    BY <1>2, Zenon DEF PowerLoss, LoseKernel, KernelTypeOK
  <2>3. RestTypeOK'
    BY <1>1, <2>2, FaultCount, Zenon DEF RestTypeOK, OptRev, Pc, CleanupSteps
  <2> QED BY <1>1, <2>1, <2>3, StoppedFacts, QuietStep, Zenon DEF Good
<1>3. CASE Start \/ Stop \/ Crash
  <2>1. SInv' /\ activeMay' \subseteq activeMay /\ KernelTypeOK'
    BY <1>3, RecordsKept, KernelKept, Zenon DEF Start, Stop, Crash, storeVars
  <2>2. RestTypeOK'
    BY <1>1, <2>1, FaultCount, Zenon DEF RestTypeOK, OptRev, Pc, CleanupSteps
  <2> QED BY <1>1, <2>1, <2>2, StoppedFacts, QuietStep, ZenonT(40) DEF Good
<1> QED BY <1>2, <1>3, Zenon

----------------------------------------------------------------------------
LEMMA InitGood == Init => IInv
<1> SUFFICES ASSUME Init PROVE IInv
  BY Zenon
<1>1. NoJournal \in Journal /\ JournalShape(NoJournal)
  BY Zenon DEF NoJournal, Journal, Phase, OptRev, JournalShape
<1>2. NoJournal.phase # "committed" /\ NoJournal.op # "apply" /\ NoJournal.revs = {}
  BY Zenon DEF NoJournal
<1>3. SInv
  BY <1>1, <1>2, Zenon DEF Init, StoreInit, SInv, StoreTypeOK, StoreShape, RecordsSurvive, ReadOK,
     CommittedPhaseTrue, OptRev
<1>4. RestTypeOK
  <2>1. KernelTypeOK /\ target \in [Rev -> OptRev]
    BY Zenon DEF Init, KernelInit, KernelTypeOK, OptRev
  <2>2. 0 \in 0..MaxFaults
    BY MaxFaultsAssumption
  <2> QED BY <2>1, <2>2, Zenon DEF Init, RestTypeOK, OptRev, Pc, Mode
<1>5. StepFacts
  BY Zenon DEF Init, StepFacts, SyncedSteps, PendingSteps, CommittedSteps, RollbackSteps, RecoverSteps
<1> QED BY <1>3, <1>4, <1>5, Zenon DEF IInv

LEMMA NextGood == IInv /\ Next => Good
  BY ApplyGood, RollbackGood, ResolveGood, RecoverGood, CleanupGood, ProcessGood, Zenon DEF Next

LEMMA Stutter == IInv /\ UNCHANGED vars => IInv'
<1> SUFFICES ASSUME IInv, UNCHANGED vars PROVE IInv'
  BY Zenon
<1>1. SInv' /\ (Synced => Synced') /\ UNCHANGED storeVars
  BY RecordsKept, Zenon DEF IInv, vars
<1>2. RestTypeOK'
  BY Zenon DEF IInv, vars, RestTypeOK, KernelTypeOK, kernelVars, locals, verdicts
<1>3. StepFacts'
  BY <1>1, Zenon DEF IInv, vars, StepFacts, storeVars, locals
<1> QED BY <1>1, <1>2, <1>3, Zenon DEF IInv

LEMMA Inductive == Spec => []IInv
<1>1. IInv /\ [Next]_vars => IInv'
  BY NextGood, Stutter, Zenon DEF Good
<1> QED BY <1>1, InitGood, PTL DEF Spec

\* The variables of the writer, its records and the kernel keep their types,
\* whatever fails.
THEOREM TypeCorrect == Spec => []TypeOK
<1>1. IInv => TypeOK
  BY Zenon DEF IInv, SInv, RestTypeOK, TypeOK
<1> QED BY <1>1, Inductive, PTL

\* Every call of applyLocked, rollbackLocked, recoverLocked and
\* cleanupViewLocked finds the records as it needs them, for any number of
\* failures, crashes and power losses.
THEOREM DurableAlways == Spec => []DurableInv
<1>1. IInv => DurableInv
  BY Zenon DEF IInv, SInv, DurableInv
<1> QED BY <1>1, Inductive, PTL

\* Store.read accepts whatever a power loss leaves of the records.
THEOREM RecordsAlwaysSurvive == Spec => []RecordsSurvive
<1>1. DurableInv => RecordsSurvive
  BY Zenon DEF DurableInv
<1> QED BY <1>1, DurableAlways, PTL

\* A journal in the committed phase never disagrees with the active record.
THEOREM CommittedPhaseAlwaysTrue == Spec => []CommittedPhaseTrue
<1>1. DurableInv => CommittedPhaseTrue
  BY Zenon DEF DurableInv
<1> QED BY <1>1, DurableAlways, PTL

\* A reported commit is durable, and authority moves only to the candidate of
\* a journalled apply or, under a journalled cleanup, to nothing.
THEOREM CommitsAreDurable == Spec => CommitDurable
<1>1. IInv /\ [Next]_vars => [AuthorityStep]_vars
  BY NextGood, Zenon DEF Good
<1> QED BY <1>1, Inductive, PTL DEF Spec, CommitDurable

----------------------------------------------------------------------------
\* Second part: the kernel.  It rests on the invariant of the records.

\* The part of KernelInv that holds whatever the writer is doing.
LiveOK == \A f \in Family : live[f] \subseteq {h \in installed : f \in Covers[h]}

Recorded == journal.revs \cup ({active} \ {NoRev})

ReachableRevs == activeMay \cup UNION {j.revs : j \in journalMay}

RejectedGone ==
    rejected # NoRev => \A r \in ReachableRevs : rejected \notin {r, TargetOf(r)}

Core ==
    /\ LiveOK
    /\ KernelRecorded
    /\ journal = NoJournal => activeMay = {active}
    /\ RejectedGone

\* The part that depends on the call the writer is about to make.
ReturnSteps ==
    {"prepare", "switch", "markSwitched", "commit", "rvPrepare", "bkSwitch", "bkRetire"}
    \cup RollbackSteps

StepPart ==
    /\ pc \in SwitchedSteps => Applied(cand)
    /\ pc \in RestoredSteps => Applied(prev)
    /\ pc \in SettledSteps => Enforced(active)
    /\ pc \in {"clRemove", "clFinish", "cleaned"} => installed = {}
    /\ pc \in PendingSteps \cup {"bkSwitch", "bkRetire", "rvFinish"} =>
         journal.op = "apply" /\ journal.prev = prev /\ journal.cand = cand
    /\ pc \in ReturnSteps => active = prev /\ activeMay = {prev}
    /\ pc \in UnjournalledSteps => journal = NoJournal
    /\ pc \in {"clFinish", "cleaned"} => active = NoRev
    /\ pc \in UndecidedSteps => acked = prev /\ cand \notin {prev, TargetOf(prev)}
    /\ pc \in {"idle", "collect"} => acked = active
    /\ pc = "prepare" => rejected = NoRev \/ rejected \notin {cand, TargetOf(cand)}

LEMMA Parts == KernelInv <=> Core /\ StepPart
<1>1. (rejected # NoRev => \A r \in Reachable : rejected \notin {r, TargetOf(r)})
      <=> /\ RejectedGone
          /\ pc = "prepare" => rejected = NoRev \/ rejected \notin {cand, TargetOf(cand)}
  <2>1. Reachable = ReachableRevs \cup (IF pc = "prepare" THEN {cand} ELSE {})
    BY Zenon DEF Reachable, ReachableRevs
  <2>2. CASE pc = "prepare"
    BY <2>1, <2>2, Zenon DEF RejectedGone
  <2>3. CASE pc # "prepare"
    BY <2>1, <2>3, Zenon DEF RejectedGone
  <2> QED BY <2>2, <2>3, Zenon
<1> QED BY <1>1, Zenon DEF KernelInv, KernelFacts, RecordFacts, VerdictFacts, Core, StepPart, LiveOK,
           ReturnSteps

----------------------------------------------------------------------------
\* An apply installs nothing but its target; when it succeeds the target
\* filters in every family it covers.
LEMMA ApplyEffect ==
  ASSUME KernelTypeOK, LiveOK, NEW from \in OptRev, NEW to \in OptRev, NEW ok \in BOOLEAN,
         BackendApply(from, to, ok)
  PROVE  /\ LiveOK'
         /\ installed' \subseteq installed \cup ({to} \ {NoGen})
         /\ ok /\ to # NoGen => to \in installed' /\ \A f \in Covers[to] : to \in live'[f]
<1> DEFINE base == IF to = NoGen \/ SamePlace(from, to) THEN from ELSE NoGen
<1>0. to # NoGen => to \in Gen /\ Covers[to] \subseteq Family
  BY GenAssumption, Zenon DEF OptRev
<1>1. CASE UNCHANGED kernelVars /\ (ok => to = NoGen)
  BY <1>1, Zenon DEF kernelVars, LiveOK
<1>2. ASSUME Switched(base, to)
      PROVE  /\ LiveOK'
             /\ installed' \subseteq installed \cup ({to} \ {NoGen})
             /\ to # NoGen => to \in installed' /\ \A f \in Covers[to] : to \in live'[f]
  <2> HIDE DEF base
  <2> QED BY <1>0, <1>2, Zenon DEF Switched, Moved, LiveOK
<1>3. CASE NFTApply(base, to, ok)
  <2> HIDE DEF base
  <2> QED BY <1>1, <1>2, <1>3, Zenon DEF NFTApply
<1>4. CASE IPTApply(base, to, ok)
  <2> HIDE DEF base
  <2>1. ASSUME NEW attempted \in Attempted, NEW f \in Family,
               installed' = installed \cup ({to} \ {NoGen}),
               live'[f] \in Interrupted(f, base, to, attempted)
        PROVE  live'[f] \subseteq {h \in installed' : f \in Covers[h]}
    BY <2>1, Zenon DEF Interrupted, Moved, LiveOK
  <2>2. CASE /\ ~ok /\ installed' = installed \cup ({to} \ {NoGen})
             /\ \E attempted \in Attempted : \A f \in Family :
                  live'[f] \in Interrupted(f, base, to, attempted)
    BY <2>1, <2>2, Zenon DEF LiveOK
  <2> QED BY <1>1, <1>2, <1>4, <2>2, Zenon DEF IPTApply
<1> QED BY <1>1, <1>3, <1>4, Zenon DEF BackendApply

\* A retirement installs nothing; when it succeeds with the surviving target
\* applied, exactly that target is left.
LEMMA RetireEffect ==
  ASSUME KernelTypeOK, LiveOK, NEW old \in OptRev, NEW new \in OptRev, NEW ok \in BOOLEAN,
         BackendRetire(old, new, ok)
  PROVE  /\ LiveOK' /\ installed' \subseteq installed
         /\ /\ ok /\ installed \subseteq {old, new}
            /\ new # NoGen => new \in installed /\ \A f \in Covers[new] : new \in live[f]
            => /\ installed' = {new} \ {NoGen}
               /\ \A f \in Family : live'[f] = {h \in installed' : f \in Covers[h]}
<1> DEFINE G == {old} \ {new}
<1>0. NoGen \notin installed /\ DOMAIN live = Family
  BY GenAssumption, Zenon DEF KernelTypeOK
<1>1. CASE UNCHANGED kernelVars /\ (ok => old = NoGen)
  BY <1>0, <1>1 DEF kernelVars, LiveOK
<1>2. CASE NFTRetire(G, ok) \/ IPTRemove(G, ok)
  <2>1. CASE UNCHANGED kernelVars /\ ~ok
    BY <2>1, Zenon DEF kernelVars, LiveOK
  <2>2. CASE installed' = installed \ G /\ live' = Detached(G, Family)
    <3>1. \A f \in Family : live'[f] = live[f] \ G
      BY <2>2, Zenon DEF Detached
    <3>2. LiveOK' /\ installed' \subseteq installed
      BY <2>2, <3>1, ZenonT(40) DEF LiveOK
    <3>3. ASSUME installed \subseteq {old, new},
                 new # NoGen => new \in installed /\ \A f \in Covers[new] : new \in live[f]
          PROVE  /\ installed' = {new} \ {NoGen}
                 /\ \A f \in Family : live'[f] = {h \in installed' : f \in Covers[h]}
      <4>1. installed' = {new} \ {NoGen}
        BY <1>0, <2>2, <3>3, Zenon
      <4>2. \A f \in Family : live'[f] \subseteq {h \in installed' : f \in Covers[h]}
        BY <3>2, Zenon DEF LiveOK
      <4>3. \A f \in Family : {h \in installed' : f \in Covers[h]} \subseteq live'[f]
        BY <3>1, <3>3, <4>1
      <4> QED BY <4>1, <4>2, <4>3, Zenon
    <3> QED BY <3>2, <3>3, Zenon
  <2>3. CASE ~ok /\ UNCHANGED installed /\ \E F \in Attempted : live' = Detached(G, F)
    <3>1. \A f \in Family : live'[f] \subseteq live[f]
      BY <2>3, Zenon DEF Detached
    <3> QED BY <2>3, <3>1, Zenon DEF LiveOK
  <2> QED BY <1>2, <2>1, <2>2, <2>3, Zenon DEF NFTRetire, IPTRemove
<1> QED BY <1>1, <1>2, Zenon DEF BackendRetire

\* A cleanup installs nothing; when it succeeds nothing of its targets is left.
LEMMA CleanupEffect ==
  ASSUME KernelTypeOK, LiveOK, NEW G, NEW ok \in BOOLEAN, BackendCleanup(G, ok)
  PROVE  /\ LiveOK' /\ installed' \subseteq installed
         /\ ok /\ installed \subseteq G => installed' = {}
<1>1. PICK n \in NFTCleaned(G), i \in IPTCleaned(G) :
        /\ ok = (n.ok /\ i.ok)
        /\ installed' = installed \ (n.gone \cup i.gone)
        /\ live' = [f \in Family |-> live[f] \ (n.gone \cup i.gone
                        \cup {g \in G : OnIPTables(g) /\ f \in i.out})]
  BY Zenon DEF BackendCleanup
<1>2. \A f \in Family : live'[f] \subseteq live[f] \ (n.gone \cup i.gone)
  BY <1>1, Zenon
<1>3. LiveOK' /\ installed' \subseteq installed
  BY <1>1, <1>2, Zenon DEF LiveOK
<1>4. ASSUME NEW N, NEW stops, NEW c \in Cleaned(N, stops)
      PROVE  c.ok \in BOOLEAN /\ (c.ok = TRUE => c.gone = N)
  <2>1. CASE c \in {[ok |-> FALSE, fault |-> TRUE, gone |-> s[1], out |-> s[2]] :
                        s \in IF N = {} THEN {} ELSE stops}
    <3>1. PICK s : c = [ok |-> FALSE, fault |-> TRUE, gone |-> s[1], out |-> s[2]]
      BY <2>1, Zenon
    <3> QED BY <3>1, Zenon
  <2>2. CASE c = [ok |-> TRUE, fault |-> FALSE, gone |-> N, out |-> Family]
    BY <2>2, Zenon
  <2>3. CASE c = [ok |-> FALSE, fault |-> FALSE, gone |-> {}, out |-> {}]
    BY <2>3, Zenon
  <2> QED BY <1>4, <2>1, <2>2, <2>3, Zenon DEF Cleaned
<1>5. n.ok \in BOOLEAN /\ (n.ok = TRUE => n.gone = {g \in G : ~OnIPTables(g)})
  BY <1>4, Zenon DEF NFTCleaned
<1>6. i.ok \in BOOLEAN /\ (i.ok = TRUE => i.gone = {g \in G : OnIPTables(g)})
  BY <1>4, Zenon DEF IPTCleaned
<1> QED BY <1>1, <1>3, <1>5, <1>6, Zenon

----------------------------------------------------------------------------
\* What each store call does to the records: which journal and which active
\* record it leaves, that it drops no revision on record, and which revisions
\* a power loss may bring back.
LEMMA PrepareEffect ==
  ASSUME SInv, Synced, NEW p \in OptRev, NEW c \in Rev, NEW ok \in BOOLEAN, Prepare(p, c, ok)
  PROVE  /\ active' = active /\ activeMay' = {active}
         /\ journal' # journal => journal = NoJournal /\ journal' = PreparedJournal(p, c)
         /\ ok => journal' = PreparedJournal(p, c)
         /\ journalMay' \subseteq journalMay \cup {PreparedJournal(p, c)}
         /\ journalMay' # journalMay => active = p
<1>1. CASE Refused(ok)
  BY <1>1, Zenon DEF Refused, storeVars, Synced
<1>2. CASE UNCHANGED stateDir /\ ~ok
  BY <1>2, Zenon DEF stateDir, Synced
<1>3. CASE journal = NoJournal /\ active = p /\ PublishJournal(PreparedJournal(p, c), ok)
  BY <1>3, Zenon DEF PublishJournal, Synced
<1> QED BY <1>1, <1>2, <1>3, Zenon DEF Prepare

LEMMA MarkPhaseEffect ==
  ASSUME SInv, NEW phase \in Phase, NEW ok \in BOOLEAN, MarkPhase(phase, ok)
  PROVE  /\ active' = active /\ activeMay' \subseteq activeMay
         /\ journal'.op = journal.op /\ journal'.prev = journal.prev
         /\ journal'.cand = journal.cand /\ journal'.revs = journal.revs
         /\ \A j \in journalMay' : \E k \in journalMay : j.revs = k.revs
<1> DEFINE j == [journal EXCEPT !.phase = phase]
<1>1. /\ j.op = journal.op /\ j.prev = journal.prev /\ j.cand = journal.cand
      /\ j.revs = journal.revs /\ journal \in journalMay /\ active \in activeMay
  BY Zenon DEF SInv, StoreTypeOK, StoreShape, Journal
<1>2. CASE Refused(ok)
  BY <1>2, Zenon DEF Refused, storeVars
<1>3. CASE PublishJournal(j, ok)
  <2> HIDE DEF j
  <2> QED BY <1>1, <1>3, Zenon DEF PublishJournal
<1> QED BY <1>2, <1>3, Zenon DEF MarkPhase

LEMMA CommitEffect ==
  ASSUME SInv, NEW c \in OptRev, NEW ok \in BOOLEAN, Commit(c, ok)
  PROVE  /\ journal' = journal /\ journalMay' \subseteq journalMay
         /\ activeMay' \subseteq activeMay \cup {c}
         /\ active' \in {active, c} /\ (ok => active' = c)
         /\ activeMay' # activeMay \/ active' # active => journal.op = "apply" /\ journal.cand = c
<1>1. journal \in journalMay
  BY Zenon DEF SInv, StoreShape
<1> QED BY <1>1, Zenon DEF Commit, PublishActive, Refused, storeVars

LEMMA StabilizeEffect ==
  ASSUME SInv, NEW ok \in BOOLEAN, Stabilize(ok)
  PROVE  /\ active' = active /\ journal' = journal
         /\ activeMay' \subseteq activeMay /\ journalMay' \subseteq journalMay
<1>1. journal \in journalMay /\ active \in activeMay
  BY Zenon DEF SInv, StoreShape
<1> QED BY <1>1, Zenon DEF Stabilize, Refused, storeVars

LEMMA BeginCleanupEffect ==
  ASSUME SInv, NEW ok \in BOOLEAN, BeginCleanup(ok)
  PROVE  /\ active' = active /\ activeMay' \subseteq activeMay
         /\ journal' \in {journal, CleanupJournal}
         /\ journalMay' \subseteq journalMay \cup {CleanupJournal}
<1>1. active \in activeMay
  BY Zenon DEF SInv, StoreShape
<1>2. CASE Refused(ok)
  BY <1>2, Zenon DEF Refused, storeVars
<1>3. CASE PublishJournal(CleanupJournal, ok)
  BY <1>1, <1>3, Zenon DEF PublishJournal
<1> QED BY <1>2, <1>3, Zenon DEF BeginCleanup

LEMMA FinishEffect ==
  ASSUME SInv, Synced, NEW ok \in BOOLEAN, Finish(ok)
  PROVE  /\ active' = active /\ activeMay' = {active}
         /\ journal' \in {journal, NoJournal} /\ (ok => journal' = NoJournal)
         /\ journalMay' \subseteq {journal, NoJournal} /\ (ok => journalMay' = {NoJournal})
<1>1. CASE Refused(ok)
  BY <1>1, Zenon DEF Refused, storeVars, Synced
<1>2. CASE journal = NoJournal /\ UNCHANGED storeVars
  BY <1>2, Zenon DEF storeVars, Synced
<1>3. CASE PublishJournal(NoJournal, FALSE) /\ ~ok
  BY <1>3, Zenon DEF PublishJournal, Synced
<1>4. CASE PublishJournal(NoJournal, TRUE)
  BY <1>4, Zenon DEF PublishJournal, Synced
<1>5. CASE journal' = NoJournal /\ journalMay' = {NoJournal} /\ activeMay' = {active} /\ UNCHANGED active
  BY <1>5, Zenon
<1> QED BY <1>1, <1>2, <1>3, <1>4, <1>5, Zenon DEF Finish

----------------------------------------------------------------------------
\* Under an apply journal the active record is one of its two revisions, and
\* the kernel holds nothing but their targets.
LEMMA PairOnRecord ==
  ASSUME SInv, Core, journal.op = "apply"
  PROVE  /\ active \in {journal.prev, journal.cand}
         /\ Recorded = {journal.prev, journal.cand} \ {NoRev}
         /\ installed \subseteq {TargetOf(journal.prev), TargetOf(journal.cand)}
<1>1. /\ journal.revs = {journal.prev, journal.cand} \ {NoRev}
      /\ ReadOK(active, journal, files \ unsynced)
  BY Zenon DEF SInv, StoreShape, JournalShape, RecordsSurvive
<1>2. active \in {journal.prev, journal.cand}
  BY <1>1, Zenon DEF ReadOK
<1>3. Recorded = {journal.prev, journal.cand} \ {NoRev}
  BY <1>1, <1>2, Zenon DEF Recorded
<1> QED BY <1>2, <1>3, Zenon DEF Core, KernelRecorded, Recorded, Targets

\* With nothing on record the kernel is empty.
LEMMA NothingOnRecord ==
  ASSUME Core, journal = NoJournal, active = NoRev
  PROVE  installed = {} /\ \A f \in Family : live[f] = {}
<1>1. installed = {}
  BY Zenon DEF Core, KernelRecorded, Targets, NoJournal
<1> QED BY <1>1, Zenon DEF Core, LiveOK

\* A step of the records: what the kernel holds stays on record, and what a
\* power loss may bring back is not the rejected candidate.
LEMMA StoreCore ==
  ASSUME SInv', Core, UNCHANGED <<kernelVars, target, rejected>>,
         \/ Recorded \subseteq Recorded'
         \/ installed \subseteq {TargetOf(active)} \ {NoGen} /\ active' = active
         \/ installed = {},
         journal' = NoJournal => activeMay' \subseteq {active'},
         \A r \in ReachableRevs' : \/ r \in ReachableRevs
                                  \/ rejected = NoRev
                                  \/ rejected \notin {r, TargetOf(r)}
  PROVE  Core'
<1>1. LiveOK'
  BY Zenon DEF Core, LiveOK, kernelVars
<1>2. KernelRecorded'
  <2>1. CASE Recorded \subseteq Recorded'
    BY <2>1, Zenon DEF Core, KernelRecorded, Recorded, Targets, TargetOf, kernelVars
  <2>2. CASE installed \subseteq {TargetOf(active)} \ {NoGen} /\ active' = active
    BY <2>2, Zenon DEF KernelRecorded, Targets, TargetOf, kernelVars
  <2>3. CASE installed = {}
    BY <2>3, Zenon DEF KernelRecorded, kernelVars
  <2> QED BY <2>1, <2>2, <2>3, Zenon
<1>3. journal' = NoJournal => activeMay' = {active'}
  BY Zenon DEF SInv, StoreShape
<1>4. RejectedGone'
  BY Zenon DEF Core, RejectedGone, TargetOf
<1> QED BY <1>1, <1>2, <1>3, <1>4, Zenon DEF Core

\* The same for a step that leaves the records alone, or syncs them.
LEMMA SettledCore ==
  ASSUME SInv, SInv', Core, UNCHANGED <<kernelVars, target, rejected, active, journal>>,
         activeMay' \subseteq activeMay, journalMay' \subseteq journalMay
  PROVE  Core'
<1>1. ReachableRevs' \subseteq ReachableRevs
  BY Zenon DEF ReachableRevs
<1>2. Recorded' = Recorded
  BY Zenon DEF Recorded
<1> QED BY <1>1, <1>2, StoreCore, Zenon DEF Core

\* A step of the kernel installs nothing but the target of a revision on
\* record.
LEMMA KernelCore ==
  ASSUME Core, LiveOK', UNCHANGED <<storeVars, target, rejected>>,
         NEW r \in Recorded \cup {NoRev},
         installed' \subseteq installed \cup ({TargetOf(r)} \ {NoGen})
  PROVE  Core'
<1>1. KernelRecorded'
  BY Zenon DEF Core, KernelRecorded, Recorded, Targets, TargetOf, storeVars
<1>2. RejectedGone'
  BY Zenon DEF Core, RejectedGone, ReachableRevs, TargetOf, storeVars
<1> QED BY <1>1, <1>2, Zenon DEF Core, storeVars

\* A process that stops, or has yet to read the records, relies on nothing.
LEMMA StoppedParts ==
  ASSUME pc' \in {"recover", "down", "rvStabilize", "rvDecide", "clBegin", "clKernel"}
  PROVE  StepPart'
  BY Zenon DEF StepPart, SwitchedSteps, RestoredSteps, SettledSteps, PendingSteps, ReturnSteps,
         UnjournalledSteps, UndecidedSteps, RollbackSteps, ResolveSteps

LEMMA DegradeParts ==
  ASSUME Degrade
  PROVE  StepPart'
  BY StoppedParts, Zenon DEF Degrade

----------------------------------------------------------------------------
KGood == Core' /\ StepPart'

\* What the kernel enforces does not change with the records.
LEMMA EnforcedKept ==
  ASSUME UNCHANGED <<kernelVars, target>>, NEW r
  PROVE  /\ Applied(r) => Applied(r)'
         /\ Enforced(r) => Enforced(r)'
  BY Zenon DEF Applied, Enforced, TargetOf, kernelVars

\* One backend apply between the two revisions of the pending journal.
LEMMA ApplyCall ==
  ASSUME IInv, Core, journal.op = "apply", UNCHANGED <<storeVars, target, rejected>>,
         NEW p \in {journal.prev, journal.cand}, NEW c \in {journal.prev, journal.cand},
         NEW ok \in BOOLEAN, BackendApply(TargetOf(p), TargetOf(c), ok)
  PROVE  Core' /\ (ok => Applied(c)')
<1>1. /\ p \in OptRev /\ c \in OptRev /\ KernelTypeOK /\ SInv
      /\ TargetOf(p) \in OptRev /\ TargetOf(c) \in OptRev
  BY TargetType, Zenon DEF IInv, SInv, StoreTypeOK, Journal, RestTypeOK
<1>2. c \in Recorded \cup {NoRev}
  BY <1>1, PairOnRecord, Zenon
<1>3. /\ LiveOK' /\ installed' \subseteq installed \cup ({TargetOf(c)} \ {NoGen})
      /\ ok /\ TargetOf(c) # NoGen =>
           TargetOf(c) \in installed' /\ \A f \in Covers[TargetOf(c)] : TargetOf(c) \in live'[f]
  BY <1>1, ApplyEffect DEF Core
<1>4. Core'
  BY <1>2, <1>3, KernelCore, Zenon
<1> QED BY <1>3, <1>4, Zenon DEF Applied, TargetOf

\* One backend retirement of either revision of the pending journal.
LEMMA RetireCall ==
  ASSUME IInv, Core, journal.op = "apply", UNCHANGED <<storeVars, target, rejected>>,
         NEW p, NEW c, {p, c} = {journal.prev, journal.cand},
         NEW ok \in BOOLEAN, BackendRetire(TargetOf(p), TargetOf(c), ok)
  PROVE  Core' /\ (ok /\ Applied(c) => Enforced(c)')
<1>1. /\ p \in OptRev /\ c \in OptRev /\ KernelTypeOK /\ SInv
      /\ TargetOf(p) \in OptRev /\ TargetOf(c) \in OptRev
  BY TargetType, Zenon DEF IInv, SInv, StoreTypeOK, Journal, RestTypeOK
<1>2. installed \subseteq {TargetOf(p), TargetOf(c)}
  <2>1. installed \subseteq {TargetOf(journal.prev), TargetOf(journal.cand)}
    BY <1>1, PairOnRecord, Zenon
  <2>2. (p = journal.prev /\ c = journal.cand) \/ (p = journal.cand /\ c = journal.prev)
    BY Zenon
  <2> QED BY <2>1, <2>2, Zenon
<1> DEFINE old == TargetOf(p)
           new == TargetOf(c)
<1>3. /\ LiveOK' /\ installed' \subseteq installed
      /\ ok /\ (new # NoGen => new \in installed /\ \A f \in Covers[new] : new \in live[f]) =>
           /\ installed' = {new} \ {NoGen}
           /\ \A f \in Family : live'[f] = {h \in installed' : f \in Covers[h]}
  BY <1>1, <1>2, RetireEffect, SMTT(30) DEF Core
<1>4. Core'
  BY <1>3, KernelCore, Zenon
<1> QED BY <1>3, <1>4, Zenon DEF Applied, Enforced, TargetOf

\* The store calls made under an apply journal.
LEMMA MarkCall ==
  ASSUME IInv, IInv', Core, journal.op = "apply", UNCHANGED <<kernelVars, target, rejected>>,
         NEW phase \in Phase, NEW ok \in BOOLEAN, MarkPhase(phase, ok)
  PROVE  /\ Core' /\ active' = active /\ activeMay' \subseteq activeMay
         /\ journal'.op = journal.op
         /\ journal'.prev = journal.prev /\ journal'.cand = journal.cand
<1>1. /\ active' = active /\ activeMay' \subseteq activeMay
      /\ journal'.op = journal.op /\ journal'.prev = journal.prev
      /\ journal'.cand = journal.cand /\ journal'.revs = journal.revs
      /\ \A j \in journalMay' : \E k \in journalMay : j.revs = k.revs
  BY MarkPhaseEffect, Zenon DEF IInv
<1>2. Recorded' = Recorded /\ ReachableRevs' \subseteq ReachableRevs
  BY <1>1, Zenon DEF Recorded, ReachableRevs
<1>3. journal' # NoJournal
  BY <1>1 DEF NoJournal
<1>4. Core'
  BY <1>2, <1>3, StoreCore, Zenon DEF IInv
<1> QED BY <1>1, <1>4, Zenon

LEMMA CommitCall ==
  ASSUME IInv, IInv', Core, journal.op = "apply", UNCHANGED <<kernelVars, target, rejected>>,
         NEW ok \in BOOLEAN, Commit(journal.cand, ok)
  PROVE  Core' /\ journal' = journal /\ active' \in {active, journal.cand} /\ (ok => active' = journal.cand)
<1>1. /\ journal' = journal /\ journalMay' \subseteq journalMay
      /\ activeMay' \subseteq activeMay \cup {journal.cand}
      /\ active' \in {active, journal.cand} /\ (ok => active' = journal.cand)
  BY CommitEffect, ZenonT(40) DEF IInv, SInv, StoreTypeOK, Journal
<1>2. /\ Recorded = {journal.prev, journal.cand} \ {NoRev} /\ journal \in journalMay
      /\ journal.cand \in journal.revs /\ journal.revs = {journal.prev, journal.cand} \ {NoRev}
  BY PairOnRecord, Zenon DEF IInv, SInv, StoreShape, JournalShape
<1>3. Recorded \subseteq Recorded' /\ ReachableRevs' \subseteq ReachableRevs
  BY <1>1, <1>2 DEF Recorded, ReachableRevs
<1>4. journal' # NoJournal
  BY <1>1 DEF NoJournal
<1>5. Core'
  BY <1>3, <1>4, StoreCore, Zenon DEF IInv
<1> QED BY <1>1, <1>5, Zenon

LEMMA StabilizeCall ==
  ASSUME IInv, IInv', Core, UNCHANGED <<kernelVars, target, rejected>>,
         NEW ok \in BOOLEAN, Stabilize(ok)
  PROVE  /\ Core' /\ active' = active /\ journal' = journal
         /\ activeMay' \subseteq activeMay
<1>1. /\ active' = active /\ journal' = journal
      /\ activeMay' \subseteq activeMay /\ journalMay' \subseteq journalMay
  BY StabilizeEffect, Zenon DEF IInv
<1> QED BY <1>1, SettledCore, Zenon DEF IInv

\* Finish drops the journal once the kernel holds only what the active record
\* names.
LEMMA FinishCall ==
  ASSUME IInv, IInv', Core, Synced, UNCHANGED <<kernelVars, target, rejected>>,
         Enforced(active) \/ installed = {}, NEW ok \in BOOLEAN, Finish(ok)
  PROVE  Core' /\ active' = active /\ (ok => journal' = NoJournal)
<1>1. /\ active' = active /\ activeMay' = {active}
      /\ journal' \in {journal, NoJournal} /\ (ok => journal' = NoJournal)
      /\ journalMay' \subseteq {journal, NoJournal}
  BY FinishEffect, Zenon DEF IInv
<1>2. ReachableRevs' \subseteq ReachableRevs
  <2>1. NoJournal.revs = {}
    BY Zenon DEF NoJournal
  <2> QED BY <1>1, <2>1 DEF ReachableRevs, Synced
<1>3. installed \subseteq {TargetOf(active)} \ {NoGen} \/ installed = {}
  BY Zenon DEF Enforced
<1>4. Core'
  BY <1>1, <1>2, <1>3, StoreCore, Zenon DEF IInv
<1> QED BY <1>1, <1>4, Zenon

\* A step that touches neither the records nor the kernel.
LEMMA IdleCore ==
  ASSUME IInv, IInv', Core, UNCHANGED <<storeVars, kernelVars, target, rejected>>
  PROVE  Core'
  BY SettledCore, Zenon DEF IInv, storeVars

----------------------------------------------------------------------------
USE DEF SwitchedSteps, RestoredSteps, SettledSteps, PendingSteps, ReturnSteps, UnjournalledSteps,
        UndecidedSteps, RollbackSteps, ResolveSteps, SyncedSteps, CommittedSteps, RecoverSteps

\* The identity of a new apply is unknown to the records and the kernel.
LEMMA BeginApplyKernel ==
  ASSUME IInv, IInv', Core, StepPart, BeginApply
  PROVE  KGood
<1>1. /\ pc = "idle" /\ pc' = "prepare" /\ journal = NoJournal
      /\ UNCHANGED <<storeVars, kernelVars, acked>> /\ prev' = active
  BY Zenon DEF BeginApply, Goto
<1>2. PICK c \in Rev : \E t \in BuildTarget(active, c) :
        /\ Fresh(c) /\ cand' = c /\ target' = [target EXCEPT ![c] = t]
        /\ rejected' = IF rejected = c THEN NoRev ELSE rejected
  BY Zenon DEF BeginApply
<1>3. PICK t \in BuildTarget(active, c) :
        /\ Fresh(c) /\ cand' = c /\ target' = [target EXCEPT ![c] = t]
        /\ rejected' = IF rejected = c THEN NoRev ELSE rejected
  BY <1>2, ZenonT(40)
<1>4. /\ activeMay = {active} /\ Enforced(active) /\ acked = active
      /\ active \in activeMay /\ active \in OptRev /\ target \in [Rev -> OptRev]
  BY <1>1, Zenon DEF Core, StepPart, IInv, SInv, StoreShape, StoreTypeOK, RestTypeOK
<1>5. c \notin ReachableRevs /\ c # active /\ c \notin installed
  BY <1>3, <1>4, ZenonT(30) DEF Fresh, ReachableRevs
<1>6. \A r \in ReachableRevs : TargetOf(r)' = TargetOf(r)
  <2> SUFFICES ASSUME NEW r \in ReachableRevs PROVE TargetOf(r)' = TargetOf(r)
    BY Zenon
  <2>1. r \in Rev \cup {NoRev}
    BY DEF IInv, SInv, StoreTypeOK, ReachableRevs, OptRev, Journal
  <2> QED BY <1>3, <1>4, <1>5, <2>1, Zenon DEF TargetOf
<1>7. active \in ReachableRevs /\ TargetOf(active)' = TargetOf(active)
  <2>1. active \in ReachableRevs /\ active' = active
    BY <1>1, <1>4, Zenon DEF ReachableRevs, storeVars
  <2> QED BY <1>6, <2>1, Zenon DEF TargetOf
<1>8. TargetOf(active) # c
  <2>1. CASE active = NoRev
    BY <2>1, Zenon DEF TargetOf
  <2>2. CASE active # NoRev
    <3>1. active \in files
      BY <2>2, Zenon DEF IInv, SInv, StoreShape, RecordsSurvive, ReadOK
    <3> QED BY <1>3, <2>2, <3>1, Zenon DEF Fresh, TargetOf
  <2> QED BY <2>1, <2>2, Zenon
<1>9. Enforced(active)'
  BY <1>1, <1>4, <1>7, Zenon DEF Enforced, kernelVars, storeVars
<1>10. Core'
  <2>1. LiveOK'
    BY <1>1, Zenon DEF Core, LiveOK, kernelVars
  <2>2. KernelRecorded'
    BY <1>1, <1>9, Zenon DEF KernelRecorded, Targets, TargetOf, Enforced, storeVars, kernelVars
  <2>3. RejectedGone'
    <3>1. ReachableRevs' = ReachableRevs
      BY <1>1, Zenon DEF ReachableRevs, storeVars
    <3> QED BY <1>3, <1>5, <1>6, <3>1, Zenon DEF Core, RejectedGone
  <2> QED BY <1>1, <2>1, <2>2, <2>3, Zenon DEF Core, storeVars
<1>11. rejected' = NoRev \/ rejected' \notin {cand', TargetOf(cand)'}
  <2>1. TargetOf(cand)' = t
    BY <1>3, <1>4, Zenon DEF TargetOf
  <2>2. rejected' # NoRev => rejected' = rejected /\ rejected # c /\ rejected # TargetOf(active)
    BY <1>3, <1>7, ZenonT(40) DEF Core, RejectedGone
  <2> QED BY <1>3, <2>1, <2>2, Zenon DEF BuildTarget
<1>12. StepPart'
  <2>1. cand' \notin {prev', TargetOf(prev)'}
    BY <1>1, <1>3, <1>5, <1>7, <1>8 DEF TargetOf
  <2> QED BY <1>1, <1>4, <1>9, <1>11, <2>1, Zenon DEF StepPart, storeVars, Enforced, TargetOf
<1> QED BY <1>10, <1>12, Zenon DEF KGood

\* The journal of a new apply names the candidate, which was not rejected.
LEMMA ApplyPrepareKernel ==
  ASSUME IInv, IInv', Core, StepPart, ApplyPrepare
  PROVE  KGood
<1>1. PICK ok \in BOOLEAN : Prepare(prev, cand, ok) /\ StoreStep(ok, "switch")
  BY Zenon DEF ApplyPrepare
<1>2. /\ pc = "prepare" /\ UNCHANGED <<kernelVars, target, rejected, prev, cand, acked>>
      /\ IF ok THEN pc' = "switch" ELSE StepPart'
  BY <1>1, DegradeParts, ZenonT(40) DEF ApplyPrepare, StoreStep, Goto, locals, verdicts
<1>3. /\ SInv /\ Synced /\ prev \in OptRev /\ cand \in Rev /\ active = prev /\ journal = NoJournal
      /\ acked = prev /\ cand \notin {prev, TargetOf(prev)}
      /\ rejected = NoRev \/ rejected \notin {cand, TargetOf(cand)}
  BY <1>2, Zenon DEF IInv, StepFacts, StepPart, RestTypeOK
<1> DEFINE j == PreparedJournal(prev, cand)
<1>4. /\ active' = active /\ activeMay' = {active}
      /\ journal' # journal => journal' = j
      /\ ok => journal' = j
      /\ journalMay' \subseteq journalMay \cup {j}
  BY <1>1, <1>3, PrepareEffect, ZenonT(30)
<1>5. j.op = "apply" /\ j.prev = prev /\ j.cand = cand /\ j.revs = {prev, cand} \ {NoRev}
  BY Zenon DEF PreparedJournal
<1>6. Core'
  <2> HIDE DEF j
  <2>1. Recorded \subseteq Recorded'
    BY <1>3, <1>4, Zenon DEF Recorded, NoJournal
  <2>2. ReachableRevs' \subseteq ReachableRevs \cup {cand}
    BY <1>3, <1>4, <1>5, SMTT(30) DEF ReachableRevs, Synced
  <2> QED BY <1>2, <1>3, <1>4, <2>1, <2>2, StoreCore, Zenon DEF IInv
<1>7. ok => StepPart'
  <2> HIDE DEF j
  <2> QED BY <1>2, <1>3, <1>4, <1>5, Zenon DEF StepPart, TargetOf
<1> QED BY <1>2, <1>6, <1>7, Zenon DEF KGood

\* The calls between the two revisions of a new apply.
LEMMA ApplySwitchKernel ==
  ASSUME IInv, IInv', Core, StepPart, ApplySwitch
  PROVE  KGood
<1>1. PICK ok \in BOOLEAN : /\ BackendApply(TargetOf(prev), TargetOf(cand), ok)
                           /\ pc' = IF ok THEN "markSwitched" ELSE "rollback"
  BY Zenon DEF ApplySwitch, Goto
<1>2. pc = "switch" /\ UNCHANGED <<storeVars, target, rejected, prev, cand, acked>>
  BY Zenon DEF ApplySwitch, locals, verdicts
<1>3. journal.op = "apply" /\ journal.prev = prev /\ journal.cand = cand
  BY <1>2, Zenon DEF StepPart
<1>4. Core' /\ (ok => Applied(cand)')
  BY <1>1, <1>2, <1>3, ApplyCall, Zenon
<1>5. StepPart'
  BY <1>1, <1>2, <1>3, <1>4, Zenon DEF StepPart, storeVars, TargetOf, Applied
<1> QED BY <1>4, <1>5, Zenon DEF KGood

LEMMA ApplyMarkKernel ==
  ASSUME IInv, IInv', Core, StepPart,
         ApplyMarkSwitched \/ ApplyMarkCommitted \/ CommittedMark
  PROVE  KGood
<1>1. PICK phase \in Phase, ok \in BOOLEAN : MarkPhase(phase, ok)
  BY Zenon DEF ApplyMarkSwitched, ApplyMarkCommitted, CommittedMark, Phase
<1>2. /\ UNCHANGED <<kernelVars, target, rejected, prev, cand>>
      /\ \/ pc = "markSwitched" /\ pc' \in {"commit", "rollback"} /\ acked' = acked
         \/ pc = "markCommitted" /\ pc' \in {"retire", "rdStabilize"}
         \/ pc = "rdMark" /\ (pc' = "retire" \/ StepPart')
  BY DegradeParts, ZenonT(40)
  DEF ApplyMarkSwitched, ApplyMarkCommitted, CommittedMark, Goto, DegradeCommitted,
         locals, verdicts
<1>3. journal.op = "apply" /\ journal.prev = prev /\ journal.cand = cand /\ Applied(cand)
  BY <1>2, Zenon DEF StepPart
<1>4. /\ Core' /\ active' = active /\ activeMay' \subseteq activeMay
      /\ active' \in activeMay' /\ journal'.op = journal.op
      /\ journal'.prev = journal.prev /\ journal'.cand = journal.cand
  BY <1>1, <1>2, <1>3, MarkCall, Zenon DEF IInv, SInv, StoreShape
<1>5. Applied(cand)'
  BY <1>2, <1>3, EnforcedKept, ZenonT(40) DEF Applied, TargetOf
<1>6. StepPart'
  BY <1>2, <1>3, <1>4, <1>5, Zenon DEF StepPart, TargetOf
<1> QED BY <1>4, <1>6, Zenon DEF KGood

LEMMA CommitKernel ==
  ASSUME IInv, IInv', Core, StepPart, ApplyCommit \/ RecoverCommit
  PROVE  KGood
<1>1. PICK ok \in BOOLEAN : Commit(cand, ok)
  BY Zenon DEF ApplyCommit, RecoverCommit
<1>2. /\ UNCHANGED <<kernelVars, target, rejected, prev, cand, acked>>
      /\ \/ pc = "commit" /\ pc' \in {"markCommitted", "uncertain"}
         \/ pc = "rvCommit" /\ (pc' = "rvMark" \/ StepPart')
  BY DegradeParts, ZenonT(40) DEF ApplyCommit, RecoverCommit, StoreStep, Goto, locals, verdicts
<1>3. journal.op = "apply" /\ journal.prev = prev /\ journal.cand = cand /\ Applied(cand)
  BY <1>2, Zenon DEF StepPart
<1>4. Core' /\ journal' = journal
  BY <1>1, <1>2, <1>3, CommitCall, Zenon
<1>5. Applied(cand)'
  BY <1>2, <1>3, EnforcedKept, ZenonT(40) DEF Applied, TargetOf
<1>6. StepPart'
  BY <1>2, <1>3, <1>4, <1>5, Zenon DEF StepPart, TargetOf
<1> QED BY <1>4, <1>6, Zenon DEF KGood

\* Retiring the previous target leaves exactly the committed one.
LEMMA RetireKernel ==
  ASSUME IInv, IInv', Core, StepPart, ApplyRetire \/ RecoverRetire
  PROVE  KGood
<1>1. PICK ok \in BOOLEAN :
        /\ BackendRetire(TargetOf(prev), TargetOf(cand), ok)
        /\ \/ pc = "retire" /\ IF ok THEN pc' = "finish" ELSE StepPart'
           \/ pc = "rvRetire" /\ IF ok THEN pc' = "rvFinish" ELSE StepPart'
  BY DegradeParts, Zenon DEF ApplyRetire, RecoverRetire, KernelStep, Goto, DegradeCommitted
<1>2. UNCHANGED <<storeVars, target, rejected, prev, cand>>
  BY Zenon DEF ApplyRetire, RecoverRetire, KernelStep, DegradeCommitted, locals, verdicts
<1>3. /\ journal.op = "apply" /\ journal.prev = prev /\ journal.cand = cand /\ Applied(cand)
      /\ active = cand
  BY <1>1, ZenonT(40) DEF StepPart, IInv, StepFacts
<1>4. Core' /\ (ok /\ Applied(cand) => Enforced(cand)')
  BY <1>1, <1>2, <1>3, RetireCall, Zenon
<1>5. ok => Enforced(active)'
  BY <1>2, <1>3, <1>4, Zenon DEF Enforced, TargetOf, storeVars
<1>6. StepPart'
  BY <1>1, <1>2, <1>3, <1>5, Zenon DEF StepPart, storeVars
<1> QED BY <1>4, <1>6, Zenon DEF KGood

LEMMA FinishKernel ==
  ASSUME IInv, IInv', Core, StepPart, ApplyFinish \/ RecoverFinish
  PROVE  KGood
<1>1. PICK ok \in BOOLEAN :
        /\ Finish(ok)
        /\ \/ pc = "finish" /\ IF ok THEN pc' = "readback" ELSE StepPart'
           \/ pc = "rvFinish" /\ IF ok THEN pc' = "rvReturn" ELSE StepPart'
  BY DegradeParts, Zenon DEF ApplyFinish, RecoverFinish, StoreStep, Goto, DegradeCommitted
<1>2. UNCHANGED <<kernelVars, target, rejected, prev, cand>>
  BY Zenon DEF ApplyFinish, RecoverFinish, StoreStep, DegradeCommitted, locals, verdicts
<1>3. Synced /\ Enforced(active)
  BY <1>1, Zenon DEF StepPart, IInv, StepFacts
<1>4. Core' /\ active' = active /\ (ok => journal' = NoJournal)
  BY <1>1, <1>2, <1>3, FinishCall, Zenon
<1>5. Enforced(active)'
  BY <1>2, <1>3, <1>4, EnforcedKept, Zenon DEF Enforced, TargetOf
<1>6. StepPart'
  BY <1>1, <1>4, <1>5, Zenon DEF StepPart
<1> QED BY <1>4, <1>6, Zenon DEF KGood

\* The last step of an apply, and of a recovery, reports the active revision.
LEMMA ReportKernel ==
  ASSUME IInv, IInv', Core, StepPart, ApplyReadback \/ RecoverReturn
  PROVE  KGood
<1>1. /\ UNCHANGED <<storeVars, kernelVars, target, rejected>>
      /\ pc \in {"readback", "rvReturn"}
      /\ (pc' \in {"idle", "collect"} /\ acked' = active) \/ StepPart'
  BY DegradeParts, Zenon DEF ApplyReadback, RecoverReturn, DegradeCommitted, locals, verdicts
<1>2. Core'
  BY <1>1, IdleCore, Zenon
<1>3. Enforced(active)'
  BY <1>1, EnforcedKept, ZenonT(40) DEF StepPart, Enforced, TargetOf, storeVars
<1>4. StepPart'
  BY <1>1, <1>3, Zenon DEF StepPart, storeVars
<1> QED BY <1>2, <1>4, Zenon DEF KGood

----------------------------------------------------------------------------
\* A rollback restores the previous target, which is still the active one.
LEMMA RollbackSwitchKernel ==
  ASSUME IInv, IInv', Core, StepPart, RollbackSwitch \/ RecoverBackSwitch
  PROVE  KGood
<1>1. PICK ok \in BOOLEAN :
        /\ BackendApply(TargetOf(cand), TargetOf(prev), ok)
        /\ \/ pc = "rollback" /\ IF ok THEN pc' = "rbRetire" ELSE StepPart'
           \/ pc = "bkSwitch" /\ IF ok THEN pc' = "bkRetire" ELSE StepPart'
  BY DegradeParts, Zenon DEF RollbackSwitch, RecoverBackSwitch, KernelStep, Goto
<1>2. UNCHANGED <<storeVars, target, rejected, prev, cand, acked>>
  BY Zenon DEF RollbackSwitch, RecoverBackSwitch, KernelStep, locals, verdicts
<1>3. journal.op = "apply" /\ journal.prev = prev /\ journal.cand = cand /\ active = prev
  BY <1>1, ZenonT(40) DEF StepPart
<1>4. Core' /\ (ok => Applied(prev)')
  BY <1>1, <1>2, <1>3, ApplyCall, Zenon
<1>5. StepPart'
  BY <1>1, <1>2, <1>3, <1>4, Zenon DEF StepPart, storeVars, TargetOf, Applied
<1> QED BY <1>4, <1>5, Zenon DEF KGood

LEMMA RollbackRetireKernel ==
  ASSUME IInv, IInv', Core, StepPart, RollbackRetire \/ RecoverBackRetire
  PROVE  KGood
<1>1. PICK ok \in BOOLEAN :
        /\ BackendRetire(TargetOf(cand), TargetOf(prev), ok)
        /\ \/ pc = "rbRetire" /\ IF ok THEN pc' = "rbStabilize" ELSE StepPart'
           \/ pc = "bkRetire" /\ IF ok THEN pc' = "rvFinish" ELSE StepPart'
  BY DegradeParts, Zenon DEF RollbackRetire, RecoverBackRetire, KernelStep, Goto
<1>2. UNCHANGED <<storeVars, target, rejected, prev, cand, acked>>
  BY Zenon DEF RollbackRetire, RecoverBackRetire, KernelStep, locals, verdicts
<1>3. /\ journal.op = "apply" /\ journal.prev = prev /\ journal.cand = cand /\ active = prev
      /\ Applied(prev)
  BY <1>1, ZenonT(40) DEF StepPart
<1>4. Core' /\ (ok /\ Applied(prev) => Enforced(prev)')
  BY <1>1, <1>2, <1>3, RetireCall, ZenonT(40)
<1>5. ok => Enforced(active)'
  BY <1>2, <1>3, <1>4, ZenonT(40) DEF Enforced, TargetOf, storeVars
<1>6. StepPart'
  BY <1>1, <1>2, <1>3, <1>5, Zenon DEF StepPart, storeVars, TargetOf
<1> QED BY <1>4, <1>6, Zenon DEF KGood

LEMMA StabilizeKernel ==
  ASSUME IInv, IInv', Core, StepPart,
         \/ RollbackStabilize \/ CommitErrorStabilize
         \/ CommittedStabilize \/ RecoverStabilize
  PROVE  KGood
<1>1. PICK ok \in BOOLEAN : Stabilize(ok)
  BY Zenon DEF RollbackStabilize, CommitErrorStabilize, CommittedStabilize, RecoverStabilize
<1>2. /\ UNCHANGED <<kernelVars, target, rejected, prev, cand>>
      /\ \/ StepPart'
         \/ /\ acked' = acked
            /\ <<pc, pc'>> \in {<<"rbStabilize", "rbFinish">>, <<"uncertain", "decide">>,
                               <<"rdStabilize", "rdMark">>}
  BY DegradeParts, StoppedParts, Zenon DEF RollbackStabilize, CommitErrorStabilize, CommittedStabilize,
         RecoverStabilize, StoreStep, Goto, DegradeCommitted, locals, verdicts
<1>3. /\ Core' /\ active' = active /\ journal' = journal
      /\ activeMay' \subseteq activeMay /\ active' \in activeMay'
  BY <1>1, <1>2, StabilizeCall, Zenon DEF IInv, SInv, StoreShape
<1>4. (Applied(cand) => Applied(cand)') /\ (Enforced(active) => Enforced(active)')
  BY <1>2, <1>3, EnforcedKept, Zenon DEF Applied, Enforced, TargetOf
<1>5. StepPart'
  BY <1>2, <1>3, <1>4, Zenon DEF StepPart, TargetOf
<1> QED BY <1>3, <1>5, Zenon DEF KGood

\* A finished rollback reports the rejection of a candidate that nothing on
\* record leads to any more.
LEMMA RollbackFinishKernel ==
  ASSUME IInv, IInv', Core, StepPart, RollbackFinish
  PROVE  KGood
<1>1. PICK ok \in BOOLEAN :
        /\ Finish(ok)
        /\ IF ok THEN pc' = "idle" /\ rejected' = cand ELSE StepPart' /\ rejected' = rejected
  BY DegradeParts, Zenon DEF RollbackFinish
<1>2. pc = "rbFinish" /\ UNCHANGED <<kernelVars, target, prev, cand, acked>>
  BY Zenon DEF RollbackFinish, locals
<1>3. /\ Synced /\ Enforced(active) /\ active = prev /\ acked = prev
      /\ cand \notin {prev, TargetOf(prev)}
  BY <1>2, Zenon DEF StepPart, IInv, StepFacts
<1>4. CASE ~ok
  BY <1>1, <1>2, <1>3, <1>4, FinishCall, Zenon DEF KGood
<1>5. CASE ok
  <2>1. /\ active' = active /\ activeMay' = {active}
        /\ journal' = NoJournal /\ journalMay' = {NoJournal}
    BY <1>1, <1>3, <1>5, FinishEffect, ZenonT(40) DEF IInv
  <2>2. Enforced(active)'
    BY <1>2, <1>3, <2>1, EnforcedKept, Zenon DEF Enforced, TargetOf
  <2>3. LiveOK' /\ KernelRecorded'
    <3>1. LiveOK'
      BY <1>2, Zenon DEF Core, LiveOK, kernelVars
    <3>2. KernelRecorded'
      BY <2>1, <2>2, Zenon DEF KernelRecorded, Targets, TargetOf, Enforced
    <3> QED BY <3>1, <3>2, Zenon
  <2>4. RejectedGone'
    <3>1. ReachableRevs' = {prev}
      BY <1>3, <2>1 DEF ReachableRevs, NoJournal
    <3> QED BY <1>1, <1>2, <1>3, <1>5, <3>1, Zenon DEF RejectedGone, TargetOf
  <2>5. Core'
    BY <2>1, <2>3, <2>4, Zenon DEF Core
  <2>6. StepPart'
    BY <1>1, <1>2, <1>3, <1>5, <2>1, <2>2, Zenon DEF StepPart
  <2> QED BY <2>5, <2>6, Zenon DEF KGood
<1> QED BY <1>4, <1>5, Zenon

\* The active record decides an uncertain commit: with any other revision than
\* the candidate it is the previous one.
LEMMA DecideKernel ==
  ASSUME IInv, IInv', Core, StepPart, CommitErrorDecide
  PROVE  KGood
<1>1. /\ pc = "decide" /\ UNCHANGED <<storeVars, kernelVars, target, rejected, prev, cand, acked>>
      /\ \/ StepPart'
         \/ pc' = "rdStabilize"
         \/ pc' = "rollback" /\ active # cand
  BY DegradeParts, Zenon DEF CommitErrorDecide, Goto, locals, verdicts
<1>2. /\ journal.op = "apply" /\ journal.prev = prev /\ journal.cand = cand /\ Applied(cand)
      /\ active \in {journal.prev, journal.cand} /\ activeMay = {active}
  BY <1>1, PairOnRecord, ZenonT(40) DEF StepPart, IInv, StepFacts, Synced
<1>3. Core' /\ Applied(cand)'
  BY <1>1, <1>2, IdleCore, EnforcedKept, ZenonT(40) DEF Applied, TargetOf
<1>4. StepPart'
  BY <1>1, <1>2, <1>3, Zenon DEF StepPart, storeVars, TargetOf
<1> QED BY <1>3, <1>4, Zenon DEF KGood

----------------------------------------------------------------------------
\* The path of a recovery follows from the records.
LEMMA RecoverDecideKernel ==
  ASSUME IInv, IInv', Core, StepPart, RecoverDecide
  PROVE  KGood
<1>1. UNCHANGED <<storeVars, kernelVars, target, rejected>>
  BY Zenon DEF RecoverDecide, verdicts
<1>2. Core'
  BY <1>1, IdleCore, Zenon
<1>3. CASE Degrade
  BY <1>2, <1>3, DegradeParts, Zenon DEF KGood
<1>4. CASE /\ pc' = RecoverPath
           /\ prev' = IF journal.op = "apply" THEN journal.prev ELSE active
           /\ cand' = IF journal.op = "apply" THEN journal.cand ELSE active
  <2>1. /\ journal.op \in {"none", "apply", "cleanup"} /\ SInv
        /\ journal.op = "none" => journal = NoJournal
        /\ activeMay' = {active}
    BY <1>1, Zenon DEF IInv, SInv, StoreTypeOK, StoreShape, JournalShape, Journal, RecoverDecide, StepFacts,
                Synced, storeVars
  <2>2. CASE journal.op = "cleanup"
    BY <1>2, <1>4, <2>2, StoppedParts, Zenon DEF RecoverPath, KGood
  <2>3. CASE journal.op = "none" /\ active = NoRev
    <3>1. pc' = "rvReturn" /\ journal = NoJournal
      BY <1>4, <2>1, <2>3, Zenon DEF RecoverPath
    <3>2. installed = {} /\ \A f \in Family : live[f] = {}
      BY <2>3, <3>1, NothingOnRecord, Zenon
    <3>3. Enforced(active)'
      BY <1>1, <2>3, <3>2, ZenonT(40) DEF Enforced, TargetOf, storeVars, kernelVars
    <3> QED BY <1>1, <1>2, <3>1, <3>3, Zenon DEF KGood, StepPart, storeVars
  <2>4. CASE journal.op = "none" /\ active # NoRev
    <3>1. pc' = "rvPrepare" /\ prev' = active /\ active' = active
      BY <1>1, <1>4, <2>4, ZenonT(40) DEF RecoverPath, storeVars
    <3> QED BY <1>2, <2>1, <3>1, Zenon DEF KGood, StepPart
  <2>5. CASE journal.op = "apply"
    <3>1. /\ pc' = IF active = journal.cand THEN "rvSwitch" ELSE "bkSwitch"
          /\ prev' = journal.prev /\ cand' = journal.cand
          /\ active' = active /\ journal' = journal
      BY <1>1, <1>4, <2>5, Zenon DEF RecoverPath, storeVars
    <3>2. active \in {journal.prev, journal.cand}
      BY <2>1, <2>5, PairOnRecord, Zenon
    <3>3. CASE active = journal.cand
      <4>1. pc' = "rvSwitch"
        BY <3>1, <3>3, Zenon
      <4> QED BY <1>2, <2>1, <2>5, <3>1, <3>3, <4>1, ZenonT(40) DEF KGood, StepPart
    <3>4. CASE active # journal.cand
      <4>1. pc' = "bkSwitch" /\ active = journal.prev
        BY <3>1, <3>2, <3>4, Zenon
      <4> QED BY <1>2, <2>1, <2>5, <3>1, <3>4, <4>1, ZenonT(40) DEF KGood, StepPart
    <3> QED BY <3>3, <3>4, Zenon
  <2> QED BY <2>1, <2>2, <2>3, <2>4, <2>5, ZenonT(40)
<1> QED BY <1>3, <1>4, Zenon DEF RecoverDecide, Goto

\* Without a journal the active revision is journalled over itself.
LEMMA RecoverPrepareKernel ==
  ASSUME IInv, IInv', Core, StepPart, RecoverPrepare
  PROVE  KGood
<1>1. PICK ok \in BOOLEAN : Prepare(active, active, ok) /\ StoreStep(ok, "rvReapply")
  BY Zenon DEF RecoverPrepare
<1>2. /\ pc = "rvPrepare" /\ UNCHANGED <<kernelVars, target, rejected, prev, cand>>
      /\ IF ok THEN pc' = "rvReapply" ELSE StepPart'
  BY <1>1, DegradeParts, Zenon DEF RecoverPrepare, StoreStep, Goto, locals, verdicts
<1>3. SInv /\ Synced /\ active \in Rev /\ active \in OptRev /\ active = prev /\ active = cand
  BY <1>2, Zenon DEF IInv, StepFacts, StepPart, OptRev
<1> DEFINE j == PreparedJournal(active, active)
<1>4. /\ active' = active /\ activeMay' = {active}
      /\ journal' # journal => journal = NoJournal
      /\ ok => journal' = j
      /\ journalMay' \subseteq journalMay \cup {j}
  BY <1>1, <1>3, PrepareEffect, SMTT(30)
<1>5. j.op = "apply" /\ j.prev = active /\ j.cand = active /\ j.revs = {active} \ {NoRev}
  BY Zenon DEF PreparedJournal
<1>6. Core'
  <2> HIDE DEF j
  <2>1. Recorded \subseteq Recorded'
    BY <1>3, <1>4, SMTT(30) DEF Recorded, NoJournal
  <2>2. ReachableRevs' \subseteq ReachableRevs
    BY <1>3, <1>4, <1>5, SMTT(30) DEF ReachableRevs, Synced
  <2> QED BY <1>2, <1>4, <2>1, <2>2, StoreCore, Zenon DEF IInv
<1>7. ok => StepPart'
  <2> HIDE DEF j
  <2> QED BY <1>2, <1>3, <1>4, <1>5, Zenon DEF StepPart
<1> QED BY <1>2, <1>6, <1>7, Zenon DEF KGood

LEMMA RecoverSwitchKernel ==
  ASSUME IInv, IInv', Core, StepPart, RecoverReapply \/ RecoverSwitch
  PROVE  KGood
<1>1. PICK ok \in BOOLEAN :
        /\ BackendApply(TargetOf(prev), TargetOf(cand), ok)
        /\ \/ pc = "rvReapply" /\ IF ok THEN pc' = "rvMarkSwitched" ELSE StepPart'
           \/ pc = "rvSwitch" /\ IF ok THEN pc' = "rvCommit" ELSE StepPart'
  BY DegradeParts, Zenon DEF RecoverReapply, RecoverSwitch, KernelStep, Goto
<1>2. UNCHANGED <<storeVars, target, rejected, prev, cand>>
  BY Zenon DEF RecoverReapply, RecoverSwitch, KernelStep, locals, verdicts
<1>3. journal.op = "apply" /\ journal.prev = prev /\ journal.cand = cand
  BY <1>1, ZenonT(40) DEF StepPart
<1>4. Core' /\ (ok => Applied(cand)')
  BY <1>1, <1>2, <1>3, ApplyCall, Zenon
<1>5. StepPart'
  BY <1>1, <1>2, <1>3, <1>4, ZenonT(40) DEF StepPart, storeVars, TargetOf, Applied
<1> QED BY <1>4, <1>5, Zenon DEF KGood

LEMMA RecoverMarkKernel ==
  ASSUME IInv, IInv', Core, StepPart, RecoverMarkSwitched \/ RecoverMark
  PROVE  KGood
<1>1. PICK phase \in Phase, ok \in BOOLEAN : MarkPhase(phase, ok)
  BY Zenon DEF RecoverMarkSwitched, RecoverMark, Phase
<1>2. /\ UNCHANGED <<kernelVars, target, rejected, prev, cand>>
      /\ \/ pc = "rvMarkSwitched" /\ (pc' = "rvCommit" \/ StepPart')
         \/ pc = "rvMark" /\ (pc' = "rvRetire" \/ StepPart')
  BY DegradeParts, Zenon DEF RecoverMarkSwitched, RecoverMark, StoreStep, Goto, locals, verdicts
<1>3. journal.op = "apply" /\ journal.prev = prev /\ journal.cand = cand /\ Applied(cand)
  BY <1>2, Zenon DEF StepPart
<1>4. /\ Core' /\ active' = active /\ activeMay' \subseteq activeMay
      /\ active' \in activeMay' /\ journal'.op = journal.op
      /\ journal'.prev = journal.prev /\ journal'.cand = journal.cand
  BY <1>1, <1>2, <1>3, MarkCall, ZenonT(40) DEF IInv, SInv, StoreShape
<1>5. Applied(cand)'
  BY <1>2, <1>3, EnforcedKept, Zenon DEF Applied, TargetOf
<1>6. StepPart'
  BY <1>2, <1>3, <1>4, <1>5, Zenon DEF StepPart
<1> QED BY <1>4, <1>6, Zenon DEF KGood

LEMMA CollectKernel ==
  ASSUME IInv, IInv', Core, StepPart, StartupCollect
  PROVE  KGood
<1>1. /\ UNCHANGED <<kernelVars, target, rejected, acked, active, activeMay, journal, journalMay>>
      /\ pc = "collect" /\ pc' \in {"idle", "down"}
  BY Zenon DEF StartupCollect, CollectRevisions, Goto, stateDir, locals, verdicts
<1>2. Core'
  BY <1>1, SettledCore, Zenon DEF IInv
<1>3. Enforced(active)'
  BY <1>1, EnforcedKept, Zenon DEF StepPart, Enforced, TargetOf
<1>4. StepPart'
  BY <1>1, <1>3, ZenonT(40) DEF StepPart
<1> QED BY <1>2, <1>4, Zenon DEF KGood

----------------------------------------------------------------------------
\* A cleanup with nothing on record has nothing to remove.
LEMMA CleanupNothingKernel ==
  ASSUME IInv, IInv', Core, StepPart, CleanupNothing
  PROVE  KGood
<1>1. /\ UNCHANGED <<storeVars, kernelVars, target, rejected>> /\ pc' = "cleaned"
      /\ journal = NoJournal /\ active = NoRev
  BY Zenon DEF CleanupNothing, Goto, locals
<1>2. Core' /\ installed = {}
  BY <1>1, IdleCore, NothingOnRecord, Zenon
<1> QED BY <1>1, <1>2, Zenon DEF KGood, StepPart, storeVars, kernelVars

\* The cleanup journal keeps every revision on record.
LEMMA CleanupBeginKernel ==
  ASSUME IInv, IInv', Core, StepPart, CleanupBegin
  PROVE  KGood
<1>1. PICK ok \in BOOLEAN : BeginCleanup(ok)
  BY Zenon DEF CleanupBegin
<1>2. UNCHANGED <<kernelVars, target, rejected>> /\ StepPart'
  BY StoppedParts, DegradeParts, Zenon DEF CleanupBegin, Goto, locals
<1>3. /\ active' = active /\ activeMay' \subseteq activeMay
      /\ journal' \in {journal, CleanupJournal}
      /\ journalMay' \subseteq journalMay \cup {CleanupJournal}
  BY <1>1, BeginCleanupEffect, ZenonT(40) DEF IInv
<1>4. /\ CleanupJournal.op = "cleanup" /\ CleanupJournal.revs = ({active} \ {NoRev}) \cup journal.revs
      /\ NoJournal.op = "none" /\ active \in activeMay /\ journal \in journalMay
  BY Zenon DEF CleanupJournal, NoJournal, IInv, SInv, StoreShape
<1>5. Recorded \subseteq Recorded'
  BY <1>3, <1>4, Zenon DEF Recorded
<1>6. ReachableRevs' \subseteq ReachableRevs
  BY <1>3, <1>4, Zenon DEF ReachableRevs
<1>7. journal' = NoJournal => activeMay' \subseteq {active'}
  BY <1>3, <1>4, Zenon DEF Core
<1>8. Core'
  BY <1>2, <1>5, <1>6, <1>7, StoreCore, Zenon DEF IInv
<1> QED BY <1>2, <1>8, Zenon DEF KGood

\* The targets of every revision on record are all the kernel holds.
LEMMA CleanupKernelKernel ==
  ASSUME IInv, IInv', Core, StepPart, CleanupKernel
  PROVE  KGood
<1>1. PICK ok \in BOOLEAN :
        /\ BackendCleanup(Targets(journal.revs \cup ({active} \ {NoRev})), ok)
        /\ IF ok THEN pc' = "clRemove" ELSE StepPart'
  BY DegradeParts, Zenon DEF CleanupKernel, KernelStep, Goto
<1>2. UNCHANGED <<storeVars, target, rejected>>
  BY Zenon DEF CleanupKernel, KernelStep, locals, verdicts
<1>3. installed \subseteq Targets(journal.revs \cup ({active} \ {NoRev}))
  BY Zenon DEF Core, KernelRecorded
<1>4. LiveOK' /\ installed' \subseteq installed /\ (ok => installed' = {})
  BY <1>1, <1>3, CleanupEffect, Zenon DEF Core, IInv, RestTypeOK
<1>5. Core'
  BY <1>2, <1>4, KernelCore, Zenon
<1> QED BY <1>1, <1>4, <1>5, ZenonT(40) DEF KGood, StepPart

LEMMA CleanupRemoveKernel ==
  ASSUME IInv, IInv', Core, StepPart, CleanupRemoveActive
  PROVE  KGood
<1>1. PICK ok \in BOOLEAN : RemoveActive(ok) /\ IF ok THEN pc' = "clFinish" ELSE StepPart'
  BY DegradeParts, Zenon DEF CleanupRemoveActive, StoreStep, Goto
<1>2. UNCHANGED <<kernelVars, target, rejected>> /\ pc = "clRemove"
  BY ZenonT(40) DEF CleanupRemoveActive, StoreStep, locals, verdicts
<1>3. SInv /\ Synced /\ journal.op = "cleanup" /\ installed = {}
  BY <1>2, Zenon DEF IInv, StepFacts, StepPart
<1>4. /\ journal' = journal /\ activeMay' \subseteq activeMay \cup {NoRev}
      /\ ok => active' = NoRev
  BY <1>1, <1>3, RemoveActiveSound, Zenon
<1>5. journalMay' \subseteq journalMay /\ journal' # NoJournal
  <2>1. journal \in journalMay
    BY Zenon DEF IInv, SInv, StoreShape
  <2> QED BY <1>1, <1>3, <1>4, <2>1 DEF RemoveActive, PublishActive, stateDir, NoJournal
<1>6. \A r \in ReachableRevs' : r \in ReachableRevs \/ r = NoRev
  BY <1>4, <1>5, Zenon DEF ReachableRevs
<1>7. \A r \in ReachableRevs' : \/ r \in ReachableRevs
                               \/ rejected = NoRev
                               \/ rejected \notin {r, TargetOf(r)}
  BY <1>6, Zenon DEF TargetOf
<1>8. Core'
  BY <1>2, <1>3, <1>5, <1>7, StoreCore, Zenon DEF IInv
<1> QED BY <1>1, <1>2, <1>3, <1>4, <1>8, ZenonT(40) DEF KGood, StepPart, kernelVars

LEMMA CleanupFinishKernel ==
  ASSUME IInv, IInv', Core, StepPart, CleanupFinish
  PROVE  KGood
<1>1. PICK ok \in BOOLEAN : Finish(ok) /\ IF ok THEN pc' \in {"cleaned", "rvReturn"} ELSE StepPart'
  BY DegradeParts, Zenon DEF CleanupFinish, StoreStep, Goto
<1>2. UNCHANGED <<kernelVars, target, rejected>> /\ pc = "clFinish"
  BY ZenonT(40) DEF CleanupFinish, StoreStep, locals, verdicts
<1>3. Synced /\ installed = {} /\ active = NoRev
  BY <1>2, Zenon DEF IInv, StepFacts, StepPart
<1>4. Core' /\ active' = active /\ (ok => journal' = NoJournal)
  BY <1>1, <1>2, <1>3, FinishCall, ZenonT(40)
<1>5. installed' = {} /\ Enforced(active)'
  BY <1>2, <1>3, <1>4, Zenon DEF Enforced, TargetOf, kernelVars, Core, LiveOK
<1> QED BY <1>1, <1>3, <1>4, <1>5, ZenonT(40) DEF KGood, StepPart

----------------------------------------------------------------------------
\* The steps that only stop, start or degrade the process.
LEMMA ProcessKernel ==
  ASSUME IInv, IInv', Core,
         ApplyReadFails \/ RollbackCancelled \/ RecoverBegin \/ Start \/ Stop \/ Crash
  PROVE  KGood
<1>1. UNCHANGED <<storeVars, kernelVars, target, rejected>>
  BY Zenon DEF ApplyReadFails, RollbackCancelled, RecoverBegin, Start, Stop, Crash, locals, verdicts
<1>2. StepPart'
  BY StoppedParts, DegradeParts, Zenon DEF ApplyReadFails, RollbackCancelled, RecoverBegin, Start, Stop, Crash
<1> QED BY <1>1, <1>2, IdleCore, ZenonT(40) DEF KGood

\* A power loss empties the kernel and picks one of the possible records.
LEMMA PowerLossKernel ==
  ASSUME IInv, IInv', Core, PowerLoss
  PROVE  KGood
<1>1. StepPart' /\ installed' = {} /\ LiveOK' /\ UNCHANGED <<target, rejected>>
  BY StoppedParts, Zenon DEF PowerLoss, LoseKernel, LiveOK, locals, verdicts
<1>2. /\ activeMay' = {active'} /\ active' \in activeMay
      /\ journalMay' = {journal'} /\ journal' \in journalMay
  BY Zenon DEF PowerLoss, LoseUnsynced
<1>3. ReachableRevs' \subseteq ReachableRevs
  BY <1>2, Zenon DEF ReachableRevs
<1>4. RejectedGone'
  BY <1>1, <1>3, Zenon DEF Core, RejectedGone, TargetOf
<1>5. KernelRecorded'
  BY <1>1, Zenon DEF KernelRecorded
<1> QED BY <1>1, <1>2, <1>4, <1>5, ZenonT(40) DEF KGood, Core

LEMMA NextKernel == IInv /\ KernelInv /\ Next => KernelInv'
<1> SUFFICES ASSUME IInv, KernelInv, Next PROVE KernelInv'
  BY Zenon
<1>1. IInv' /\ Core /\ StepPart
  BY NextGood, Parts, Zenon DEF Good
<1>2. (KernelInv <=> Core /\ StepPart)'
  BY Parts, PTL
<1> SUFFICES KGood
  BY <1>2, Zenon DEF KGood
<1>3. CASE Apply
  BY <1>1, <1>3, BeginApplyKernel, ProcessKernel, ApplyPrepareKernel, ApplySwitchKernel,
     ApplyMarkKernel, CommitKernel, RetireKernel, FinishKernel, ReportKernel, Zenon DEF Apply
<1>4. CASE Rollback
  BY <1>1, <1>4, ProcessKernel, RollbackSwitchKernel, RollbackRetireKernel, StabilizeKernel,
     RollbackFinishKernel, Zenon DEF Rollback
<1>5. CASE Resolve
  BY <1>1, <1>5, StabilizeKernel, DecideKernel, ApplyMarkKernel, Zenon DEF Resolve
<1>6. CASE Recover
  BY <1>1, <1>6, ProcessKernel, StabilizeKernel, RecoverDecideKernel, RecoverPrepareKernel,
     RecoverSwitchKernel, RecoverMarkKernel, CommitKernel, RetireKernel, RollbackSwitchKernel,
     RollbackRetireKernel, FinishKernel, ReportKernel, CollectKernel, ZenonT(40) DEF Recover
<1>7. CASE Cleanup
  BY <1>1, <1>7, CleanupNothingKernel, CleanupBeginKernel, CleanupKernelKernel,
     CleanupRemoveKernel, CleanupFinishKernel, Zenon DEF Cleanup
<1>8. CASE Start \/ Stop \/ Crash \/ PowerLoss
  BY <1>1, <1>8, ProcessKernel, PowerLossKernel, Zenon
<1> QED BY <1>3, <1>4, <1>5, <1>6, <1>7, <1>8, Zenon DEF Next

LEMMA InitKernel == Init => KernelInv
<1> SUFFICES ASSUME Init PROVE KernelInv
  BY Zenon
<1>1. StepPart
  BY Zenon DEF Init, StepPart
<1>2. LiveOK /\ KernelRecorded
  BY Zenon DEF Init, KernelInit, LiveOK, KernelRecorded
<1>3. Core
  BY <1>2, Zenon DEF Core, Init, StoreInit, RejectedGone
<1> QED BY <1>1, <1>3, Parts, Zenon

LEMMA StutterKernel == KernelInv /\ UNCHANGED vars => KernelInv'
<1> SUFFICES ASSUME KernelInv, UNCHANGED vars PROVE KernelInv'
  BY Zenon
<1>1. UNCHANGED <<active, activeMay, journal, journalMay, installed, live, pc, prev, cand, target,
                  acked, rejected>>
  BY ZenonT(40) DEF vars, storeVars, kernelVars, locals, verdicts
<1>2. KernelFacts'
  BY <1>1, Zenon DEF KernelInv, KernelFacts, KernelRecorded, Targets, TargetOf, Applied, Enforced
<1>3. RecordFacts'
  BY <1>1, ZenonT(40) DEF KernelInv, RecordFacts
<1>4. VerdictFacts'
  BY <1>1, Zenon DEF KernelInv, VerdictFacts, Reachable, TargetOf
<1> QED BY <1>2, <1>3, <1>4, Zenon DEF KernelInv

\* The kernel holds nothing that is not on record, every call of the writer
\* finds the kernel as it needs it, and a rejected candidate is out of reach,
\* for any number of failures, crashes and power losses.
THEOREM KernelAlways == Spec => []KernelInv
<1>1. IInv /\ KernelInv /\ [Next]_vars => KernelInv'
  BY NextKernel, StutterKernel, Zenon
<1> QED BY <1>1, Inductive, InitKernel, PTL DEF Spec

\* The ownership inspection of a backend call never meets an object of the
\* daemon's own that no record names.
THEOREM KernelAlwaysRecorded == Spec => []KernelRecorded
<1>1. KernelInv => KernelRecorded
  BY Zenon DEF KernelInv, KernelFacts
<1> QED BY <1>1, KernelAlways, PTL

\* A healthy daemon between operations enforces exactly the active revision,
\* which is durable and the one it reported last.
THEOREM HealthyAlwaysEnforced == Spec => []HealthyEnforced
<1>1. IInv /\ KernelInv => HealthyEnforced
  <2> SUFFICES ASSUME IInv, KernelInv, pc = "idle"
               PROVE  /\ journalMay = {NoJournal} /\ activeMay = {active} /\ active = acked
                      /\ Enforced(active)
    BY Zenon DEF HealthyEnforced, Enforced
  <2>1. Core /\ StepPart
    BY Parts, Zenon
  <2> QED BY <2>1, ZenonT(40) DEF IInv, StepFacts, Synced, StepPart
<1> QED BY <1>1, Inductive, KernelAlways, PTL

\* A reported rollback is final: the candidate never becomes active and never
\* filters a packet again.
THEOREM RejectionAlwaysFinal == Spec => []RejectionFinal
<1>1. IInv /\ KernelInv => RejectionFinal
  <2> SUFFICES ASSUME IInv, KernelInv, rejected # NoRev
               PROVE  rejected \notin activeMay /\ \A f \in Family : rejected \notin live[f]
    BY Zenon DEF RejectionFinal
  <2>1. Core
    BY Parts, Zenon
  <2>2. Recorded \subseteq ReachableRevs
    BY Zenon DEF IInv, SInv, StoreShape, Recorded, ReachableRevs
  <2>3. rejected \notin installed
    BY <2>1, <2>2, Zenon DEF Core, KernelRecorded, Recorded, Targets, RejectedGone
  <2> QED BY <2>1, <2>3, Zenon DEF Core, LiveOK, RejectedGone, ReachableRevs
<1> QED BY <1>1, Inductive, KernelAlways, PTL

\* A cleanup that reports success leaves nothing in the kernel, and nothing in
\* the records from which a policy could come back.
THEOREM CleanupAlwaysComplete == Spec => []CleanupComplete
<1>1. IInv /\ KernelInv => CleanupComplete
  <2> SUFFICES ASSUME IInv, KernelInv, pc = "cleaned" PROVE CleanupComplete
    BY ZenonT(40) DEF CleanupComplete
  <2>1. Core /\ installed = {} /\ active = NoRev /\ journal = NoJournal
    BY Parts, Zenon DEF StepPart
  <2>2. activeMay = {NoRev}
    BY <2>1, Zenon DEF Core
  <2>3. ASSUME NEW j \in journalMay PROVE j.prev = NoRev
    <3>1. JournalShape(j) /\ ReadOK(NoRev, j, files \ unsynced) /\ j.op \in {"none", "apply", "cleanup"}
      BY <2>2, Zenon DEF IInv, SInv, StoreTypeOK, StoreShape, RecordsSurvive, Journal
    <3> QED BY <3>1 DEF JournalShape, ReadOK, NoJournal
  <2> QED BY <2>1, <2>2, <2>3, Zenon DEF CleanupComplete
<1> QED BY <1>1, Inductive, KernelAlways, PTL

----------------------------------------------------------------------------
\* An apply removes no objects; a retirement only those of the retired target.
LEMMA ApplyKeeps ==
  ASSUME NEW from, NEW to, NEW ok, BackendApply(from, to, ok)
  PROVE  installed \subseteq installed'
  BY ZenonT(40) DEF BackendApply, NFTApply, IPTApply, Switched, kernelVars

LEMMA RetireKeeps ==
  ASSUME NEW old, NEW new, NEW ok, BackendRetire(old, new, ok)
  PROVE  new \in installed => new \in installed'
  BY Zenon DEF BackendRetire, NFTRetire, IPTRemove, kernelVars

\* Until a cleanup, no step removes the objects of a target that a power loss
\* could leave active: Retire is reached only after the record that decides.
THEOREM OnlyObsoleteRetired == Spec => RetireObsolete
<1> DEFINE Step == journal.op # "cleanup" /\ ~LoseKernel =>
             \A a \in activeMay : TargetOf(a) \in installed => TargetOf(a) \in installed'
<1>1. ASSUME IInv, KernelInv, Next PROVE Step
  <2>1. StepPart /\ StepFacts
    BY <1>1, Parts, Zenon DEF IInv
  <2>2. CASE installed' = installed
    BY <2>2, Zenon
  <2>3. CASE \/ ApplySwitch \/ RollbackSwitch \/ RecoverReapply \/ RecoverSwitch
             \/ RecoverBackSwitch
    BY <2>3, ApplyKeeps, Zenon DEF ApplySwitch, RollbackSwitch, RecoverReapply, RecoverSwitch,
       RecoverBackSwitch
  <2>4. CASE ApplyRetire \/ RecoverRetire
    <3>1. activeMay = {cand}
      BY <2>1, <2>4, Zenon DEF StepFacts, ApplyRetire, RecoverRetire
    <3>2. PICK ok : BackendRetire(TargetOf(prev), TargetOf(cand), ok)
      BY <2>4, Zenon DEF ApplyRetire, RecoverRetire
    <3> QED BY <3>1, <3>2, RetireKeeps, ZenonT(40)
  <2>5. CASE RollbackRetire \/ RecoverBackRetire
    <3>1. activeMay = {prev}
      BY <2>1, <2>5, Zenon DEF StepPart, RollbackRetire, RecoverBackRetire
    <3>2. PICK ok : BackendRetire(TargetOf(cand), TargetOf(prev), ok)
      BY <2>5, ZenonT(40) DEF RollbackRetire, RecoverBackRetire
    <3> QED BY <3>1, <3>2, RetireKeeps, Zenon
  <2>6. CASE CleanupKernel
    BY <2>1, <2>6, Zenon DEF StepFacts, CleanupKernel
  <2>7. CASE PowerLoss
    BY <2>7, Zenon DEF PowerLoss
  <2>8. CASE Apply
    BY <2>2, <2>3, <2>4, <2>8, Zenon DEF Apply, BeginApply, ApplyReadFails, ApplyPrepare, ApplyMarkSwitched,
       ApplyCommit, ApplyMarkCommitted, ApplyFinish, ApplyReadback, StoreStep, kernelVars
  <2>9. CASE Rollback \/ Resolve
    BY <2>2, <2>3, <2>5, <2>9, Zenon DEF Rollback, Resolve, RollbackCancelled, RollbackStabilize,
       RollbackFinish, CommitErrorStabilize, CommitErrorDecide, CommittedStabilize, CommittedMark,
       StoreStep, kernelVars
  <2>10. CASE Recover
    BY <2>2, <2>3, <2>4, <2>5, <2>10, ZenonT(40) DEF Recover, RecoverBegin, RecoverStabilize, RecoverDecide,
       RecoverPrepare, RecoverMarkSwitched, RecoverCommit, RecoverMark, RecoverFinish,
       RecoverReturn, StartupCollect, StoreStep, kernelVars
  <2>11. CASE Cleanup \/ Start \/ Stop \/ Crash
    BY <2>2, <2>6, <2>11, Zenon DEF Cleanup, CleanupNothing, CleanupBegin, CleanupRemoveActive,
       CleanupFinish, Start, Stop, Crash, StoreStep, kernelVars
  <2> QED BY <1>1, <2>7, <2>8, <2>9, <2>10, <2>11, Zenon DEF Next
<1>2. IInv /\ KernelInv /\ [Next]_vars => [Step]_vars
  BY <1>1, Zenon
<1> QED BY <1>2, Inductive, KernelAlways, PTL DEF Spec, RetireObsolete

\* A call between two targets of one place that both cover the family leaves the
\* family filtered, whether it fails or not.
LEMMA ApplyFilters ==
  ASSUME NEW f \in Family, NEW from, NEW to, NEW ok, BackendApply(from, to, ok),
         SamePlace(from, to), f \in Covers[from], f \in Covers[to], live[f] # {}
  PROVE  live'[f] # {}
<1>1. from # NoGen /\ to # NoGen
  BY Zenon DEF SamePlace
<1>2. Moved(f, from, to) # {} /\ Moved(f, to, from) # {}
  BY <1>1, Zenon DEF Moved
<1>3. \/ live' = live
      \/ live' = [g \in Family |-> Moved(g, from, to)]
      \/ \E attempted \in Attempted : live'[f] \in Interrupted(f, from, to, attempted)
  BY <1>1, Zenon DEF BackendApply, NFTApply, IPTApply, Switched, kernelVars
<1> QED BY <1>2, <1>3, ZenonT(40) DEF Interrupted

LEMMA RetireFilters ==
  ASSUME NEW f \in Family, NEW old, NEW new, NEW ok, BackendRetire(old, new, ok),
         SamePlace(old, new), live[f] # {}
  PROVE  live'[f] # {}
<1> DEFINE G == {old} \ {new}
<1>1. CASE live' = live
  BY <1>1, Zenon
<1>2. CASE G \cap live[f] = {} /\ \E F : live' = Detached(G, F)
  BY <1>2, Zenon DEF Detached
<1> QED BY <1>1, <1>2, ZenonT(40) DEF BackendRetire, NFTRetire, IPTRemove, kernelVars, SamePlace

\* While a transaction replaces a policy in its place by another that covers the
\* same family, the family is filtered at every step (engine.go applyLocked,
\* rollbackLocked, recoverLocked over Native.Apply and Retire).
THEOREM NoGapEver == Spec => NoGap
<1> DEFINE Replaced(f) ==
             journal.op = "apply" /\ live[f] # {} /\ ~LoseKernel
             /\ (\A r \in {journal.prev, journal.cand} :
                   TargetOf(r) # NoGen /\ f \in Covers[TargetOf(r)])
             /\ SamePlace(TargetOf(journal.prev), TargetOf(journal.cand))
           Step == \A f \in Family : Replaced(f) => live'[f] # {}
<1>1. ASSUME IInv, KernelInv, Next, NEW f \in Family, Replaced(f) PROVE live'[f] # {}
  <2>1. StepPart /\ StepFacts
    BY <1>1, Parts, Zenon DEF IInv
  <2> DEFINE p == TargetOf(prev)
             q == TargetOf(cand)
  <2>2. pc \in PendingSteps \cup {"bkSwitch", "bkRetire"} =>
          SamePlace(p, q) /\ SamePlace(q, p) /\ f \in Covers[p] /\ f \in Covers[q]
    BY <1>1, <2>1, ZenonT(40) DEF StepPart, SamePlace
  <2>3. CASE live' = live
    BY <1>1, <2>3, Zenon
  <2>4. CASE \/ ApplySwitch \/ RollbackSwitch \/ RecoverReapply \/ RecoverSwitch
             \/ RecoverBackSwitch
    <3>1. pc \in PendingSteps \cup {"bkSwitch", "bkRetire"}
      BY <2>4, Zenon DEF ApplySwitch, RollbackSwitch, RecoverReapply, RecoverSwitch, RecoverBackSwitch,
         PendingSteps, RollbackSteps
    <3>2. \E ok \in BOOLEAN : BackendApply(p, q, ok) \/ BackendApply(q, p, ok)
      BY <2>4, Zenon DEF ApplySwitch, RollbackSwitch, RecoverReapply, RecoverSwitch, RecoverBackSwitch
    <3> QED BY <1>1, <2>2, <3>1, <3>2, ApplyFilters, ZenonT(40)
  <2>5. CASE ApplyRetire \/ RecoverRetire \/ RollbackRetire \/ RecoverBackRetire
    <3>1. pc \in PendingSteps \cup {"bkSwitch", "bkRetire"}
      BY <2>5, Zenon DEF ApplyRetire, RecoverRetire, RollbackRetire, RecoverBackRetire, PendingSteps,
         RollbackSteps
    <3>2. \E ok \in BOOLEAN : BackendRetire(p, q, ok) \/ BackendRetire(q, p, ok)
      BY <2>5, Zenon DEF ApplyRetire, RecoverRetire, RollbackRetire, RecoverBackRetire
    <3> QED BY <1>1, <2>2, <3>1, <3>2, RetireFilters, Zenon
  <2>6. CASE CleanupKernel
    BY <1>1, <2>1, <2>6, ZenonT(40) DEF StepFacts, CleanupKernel
  <2>7. CASE PowerLoss
    BY <1>1, <2>7, Zenon DEF PowerLoss
  <2>8. CASE Apply
    BY <2>3, <2>4, <2>5, <2>8, ZenonT(40) DEF Apply, BeginApply, ApplyReadFails, ApplyPrepare,
       ApplyMarkSwitched, ApplyCommit, ApplyMarkCommitted, ApplyFinish, ApplyReadback, StoreStep,
       kernelVars
  <2>9. CASE Rollback \/ Resolve
    BY <2>3, <2>4, <2>5, <2>9, ZenonT(40) DEF Rollback, Resolve, RollbackCancelled, RollbackStabilize,
       RollbackFinish, CommitErrorStabilize, CommitErrorDecide, CommittedStabilize, CommittedMark,
       StoreStep, kernelVars
  <2>10. CASE Recover
    BY <2>3, <2>4, <2>5, <2>10, ZenonT(40) DEF Recover, RecoverBegin, RecoverStabilize, RecoverDecide,
       RecoverPrepare, RecoverMarkSwitched, RecoverCommit, RecoverMark, RecoverFinish,
       RecoverReturn, StartupCollect, StoreStep, kernelVars
  <2>11. CASE Cleanup \/ Start \/ Stop \/ Crash
    BY <2>3, <2>6, <2>11, ZenonT(40) DEF Cleanup, CleanupNothing, CleanupBegin, CleanupRemoveActive,
       CleanupFinish, Start, Stop, Crash, StoreStep, kernelVars
  <2> QED BY <1>1, <2>7, <2>8, <2>9, <2>10, <2>11, Zenon DEF Next
<1>2. IInv /\ KernelInv /\ [Next]_vars => [Step]_vars
  BY <1>1, Zenon
<1> QED BY <1>2, Inductive, KernelAlways, PTL DEF Spec, NoGap

\* A durable cleanup intent is never undone: recovery and cleanup run nothing
\* but the rest of the cleanup under a cleanup journal.
THEOREM CleanupNeverUndone == Spec => CleanupMonotone
<1> DEFINE Kept == journal'.op = "cleanup" \/ (journal' = NoJournal /\ active' = NoRev)
           Shrunk == \A f \in Family : live'[f] \subseteq live[f]
           Step == journalMay = {journal} /\ journal.op = "cleanup" => Kept /\ Shrunk
<1>1. ASSUME IInv, KernelInv, Next, journalMay = {journal}, journal.op = "cleanup"
      PROVE  Kept /\ Shrunk
  <2>1. Core /\ StepPart /\ SInv /\ StepFacts /\ journal # NoJournal
    BY <1>1, Parts, SMTT(30) DEF IInv, NoJournal
  <2>2. /\ pc \notin PendingSteps \cup {"bkSwitch", "bkRetire", "rvFinish"}
        /\ pc \notin UnjournalledSteps
    BY <1>1, <2>1, Zenon DEF StepPart
  <2>3. CASE UNCHANGED <<journal, active, live>>
    BY <1>1, <2>3, Zenon
  <2>4. CASE RecoverStabilize
    <3>1. PICK ok \in BOOLEAN : Stabilize(ok)
      BY <2>4, Zenon DEF RecoverStabilize
    <3>2. UNCHANGED <<journal, active>>
      BY <2>1, <3>1, StabilizeEffect, Zenon
    <3> QED BY <2>3, <2>4, <3>2, Zenon DEF RecoverStabilize, StoreStep, kernelVars
  <2>5. CASE RecoverPrepare
    <3>1. \E ok \in BOOLEAN : Refused(ok)
      BY <2>1, <2>5, Zenon DEF RecoverPrepare, Prepare
    <3> QED BY <2>3, <2>5, <3>1, Zenon DEF Refused, storeVars, RecoverPrepare, StoreStep, kernelVars
  <2>6. CASE CleanupBegin
    <3>1. PICK ok \in BOOLEAN : BeginCleanup(ok)
      BY <2>6, Zenon DEF CleanupBegin
    <3>2. journal' \in {journal, CleanupJournal} /\ CleanupJournal.op = "cleanup"
      BY <2>1, <3>1, BeginCleanupEffect, ZenonT(40) DEF CleanupJournal
    <3> QED BY <1>1, <2>6, <3>2, Zenon DEF CleanupBegin, kernelVars
  <2>7. CASE CleanupKernel
    <3>1. \A f \in Family : live'[f] \subseteq live[f]
      BY <2>7, Zenon DEF CleanupKernel, BackendCleanup
    <3> QED BY <1>1, <2>7, <3>1, Zenon DEF CleanupKernel, KernelStep, storeVars
  <2>8. CASE CleanupRemoveActive
    <3>1. journal' = journal
      BY <2>8, Zenon DEF CleanupRemoveActive, RemoveActive, PublishActive, stateDir
    <3> QED BY <1>1, <2>8, <3>1, Zenon DEF CleanupRemoveActive, StoreStep, kernelVars
  <2>9. CASE CleanupFinish
    <3>1. PICK ok \in BOOLEAN : Finish(ok)
      BY <2>9, ZenonT(40) DEF CleanupFinish
    <3>2. Synced /\ active = NoRev
      BY <2>1, <2>9, Zenon DEF StepFacts, StepPart, CleanupFinish
    <3>3. active' = active /\ journal' \in {journal, NoJournal}
      BY <2>1, <3>1, <3>2, FinishEffect, Zenon
    <3> QED BY <1>1, <2>9, <3>2, <3>3, Zenon DEF CleanupFinish, StoreStep, kernelVars
  <2>10. CASE PowerLoss
    BY <1>1, <2>10, Zenon DEF PowerLoss, LoseUnsynced, LoseKernel
  <2>11. CASE RecoverBegin \/ RecoverDecide \/ CleanupNothing \/ Start \/ Stop \/ Crash
    BY <2>3, <2>11, ZenonT(40) DEF RecoverBegin, RecoverDecide, CleanupNothing, Start, Stop, Crash, storeVars,
       kernelVars
  <2>12. ~Apply /\ ~Rollback /\ ~Resolve
    BY <2>2, ZenonT(40) DEF Apply, BeginApply, ApplyReadFails, ApplyPrepare, ApplySwitch, ApplyMarkSwitched,
       ApplyCommit, ApplyMarkCommitted, ApplyRetire, ApplyFinish, ApplyReadback, Rollback,
       RollbackCancelled, RollbackSwitch, RollbackRetire, RollbackStabilize, RollbackFinish,
       Resolve, CommitErrorStabilize, CommitErrorDecide, CommittedStabilize, CommittedMark
  <2>13. CASE Recover
    <3>1. RecoverBegin \/ RecoverStabilize \/ RecoverDecide \/ RecoverPrepare
      BY <2>2, <2>13, Zenon DEF Recover, RecoverReapply, RecoverMarkSwitched, RecoverSwitch,
         RecoverCommit, RecoverMark, RecoverRetire, RecoverBackSwitch, RecoverBackRetire,
         RecoverFinish, RecoverReturn, StartupCollect
    <3> QED BY <2>4, <2>5, <2>11, <3>1, ZenonT(40)
  <2>14. CASE Cleanup
    BY <2>6, <2>7, <2>8, <2>9, <2>11, <2>14, Zenon DEF Cleanup
  <2> QED BY <1>1, <2>10, <2>11, <2>12, <2>13, <2>14, Zenon DEF Next
<1>2. IInv /\ KernelInv /\ [Next]_vars => [Step]_vars
  BY <1>1, Zenon
<1> QED BY <1>2, Inductive, KernelAlways, PTL DEF Spec, CleanupMonotone
=============================================================================
