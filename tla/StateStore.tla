----------------------------- MODULE StateStore -----------------------------
(***************************************************************************)
(* The durable state directory (internal/state): the active record, the    *)
(* journal and the immutable revision files.                               *)
(*                                                                         *)
(* A record is published by writing and syncing a temporary file, renaming *)
(* it over the destination (from then on it is visible) and syncing the    *)
(* directory (from then on it survives a power loss).  A directory entry   *)
(* changed since the last directory sync may come back, after a power      *)
(* loss, with any value it had since then, independently of the others:    *)
(* activeMay and journalMay are those values, unsynced the revision files  *)
(* whose presence is in doubt.  A process crash loses nothing visible.     *)
(***************************************************************************)
EXTENDS Faults

CONSTANTS Rev,      \* revision (transaction) identities
          NoRev     \* no revision: "" or nil in the code

ASSUME NoRevAssumption == NoRev \notin Rev

VARIABLES active,       \* the revision active.json names, or NoRev
          activeMay,    \* what active.json may name after a power loss
          journal,      \* the content of journal.json, or NoJournal
          journalMay,   \* what journal.json may hold after a power loss
          files,        \* the revision files visible in revisions/
          unsynced      \* revision files whose directory entry is not synced

storeVars == <<active, activeMay, journal, journalMay, files, unsynced>>
stateDir  == <<active, activeMay, journal, journalMay>>
revDir    == <<files, unsynced>>

OptRev == Rev \cup {NoRev}

Phase == {"none", "prepared", "switched", "committed", "cleanup"}

Journal == [op : {"none", "apply", "cleanup"}, phase : Phase,
            prev : OptRev, cand : OptRev, revs : SUBSET Rev]

NoJournal == [op |-> "none", phase |-> "none",
              prev |-> NoRev, cand |-> NoRev, revs |-> {}]

StoreTypeOK ==
    /\ active \in OptRev
    /\ activeMay \subseteq OptRev
    /\ journal \in Journal
    /\ journalMay \subseteq Journal
    /\ files \subseteq Rev
    /\ unsynced \subseteq Rev

StoreInit ==
    /\ active = NoRev /\ activeMay = {NoRev}
    /\ journal = NoJournal /\ journalMay = {NoJournal}
    /\ files = {} /\ unsynced = {}

----------------------------------------------------------------------------
\* read's validation of an active record a, a journal j and revision files F.
ReadOK(a, j, F) ==
    /\ a # NoRev => a \in F
    /\ j.revs \subseteq F
    /\ j.op = "apply" /\ j.prev # NoRev => a # NoRev
    /\ j.op = "apply" /\ a # NoRev => a \in {j.prev, j.cand}

readable == ReadOK(active, journal, files)

\* atomicPublish of the journal: the error may come before the rename, which
\* leaves the old record, or after it, which leaves the new one unsynced.  The
\* directory sync also settles the active record, its neighbour.
PublishJournal(j, ok) ==
    /\ UNCHANGED active
    /\ \/ ok /\ journal' = j /\ journalMay' = {j} /\ activeMay' = {active} /\ NoFault
       \/ ~ok /\ journal' = j /\ journalMay' = journalMay \cup {j}
              /\ UNCHANGED activeMay /\ Fault
       \/ ~ok /\ UNCHANGED <<journal, journalMay, activeMay>> /\ Fault

\* atomicPublish (or removal) of the active record.
PublishActive(a, ok) ==
    /\ UNCHANGED journal
    /\ \/ ok /\ active' = a /\ activeMay' = {a} /\ journalMay' = {journal} /\ NoFault
       \/ ~ok /\ active' = a /\ activeMay' = activeMay \cup {a}
              /\ UNCHANGED journalMay /\ Fault
       \/ ~ok /\ UNCHANGED <<active, activeMay, journalMay>> /\ Fault

\* A call whose validation fails returns an error before it changes anything.
Refused(ok) == ~ok /\ UNCHANGED storeVars /\ NoFault
----------------------------------------------------------------------------
\* writeImmutableRevision has succeeded: an existing identical file is only
\* synced itself, a new one is published into the revisions directory.
RevisionWritten(c) ==
    /\ files' = files \cup {c}
    /\ unsynced' = IF c \in files THEN unsynced ELSE {}

\* writeImmutableRevision has failed, before or after the rename.
RevisionNotWritten(c) ==
    \/ UNCHANGED revDir
    \/ c \notin files /\ files' = files \cup {c} /\ unsynced' = unsynced \cup {c}

PreparedJournal(p, c) ==
    [op |-> "apply", phase |-> "prepared", prev |-> p, cand |-> c,
     revs |-> {p, c} \ {NoRev}]

\* Store.Prepare(previous, candidate): the revision file, then the journal.
Prepare(p, c, ok) ==
    IF ~readable \/ journal # NoJournal \/ active # p
    THEN Refused(ok)
    ELSE \/ ~ok /\ RevisionNotWritten(c) /\ UNCHANGED stateDir /\ Fault
         \/ RevisionWritten(c) /\ PublishJournal(PreparedJournal(p, c), ok)

\* Store.MarkPhase(phase).
MarkPhase(phase, ok) ==
    IF ~readable \/ journal.op # "apply"
    THEN Refused(ok)
    ELSE PublishJournal([journal EXCEPT !.phase = phase], ok) /\ UNCHANGED revDir

\* Store.Commit(candidate): publishes the active record, the commit point.
Commit(c, ok) ==
    IF ~readable \/ journal.op # "apply" \/ journal.cand # c
    THEN Refused(ok)
    ELSE PublishActive(c, ok) /\ UNCHANGED revDir

\* Store.Stabilize: syncs the named files and both directories, the state
\* directory first.
Stabilize(ok) ==
    /\ UNCHANGED <<active, journal, files>>
    /\ IF ~readable
       THEN Refused(ok)
       ELSE \/ ok /\ activeMay' = {active} /\ journalMay' = {journal}
                  /\ unsynced' = {} /\ NoFault
            \/ ~ok /\ activeMay' = {active} /\ journalMay' = {journal}
                   /\ UNCHANGED unsynced /\ Fault
            \/ ~ok /\ UNCHANGED <<activeMay, journalMay, unsynced>> /\ Fault

\* Store.BeginCleanup: replaces any pending intent by a cleanup journal that
\* lists every revision the active record and the old journal refer to.
CleanupJournal ==
    [op |-> "cleanup", phase |-> "cleanup", prev |-> NoRev, cand |-> NoRev,
     revs |-> ({active} \ {NoRev}) \cup journal.revs]

BeginCleanup(ok) ==
    IF ~readable
    THEN Refused(ok)
    ELSE PublishJournal(CleanupJournal, ok) /\ UNCHANGED revDir

\* Store.RemoveActive: an absent record is success, without a directory sync.
RemoveActive(ok) ==
    /\ UNCHANGED revDir
    /\ IF active = NoRev
       THEN UNCHANGED stateDir /\ (IF ok THEN NoFault ELSE Fault)
       ELSE PublishActive(NoRev, ok)

\* The revisions Finish retires: the journal's, except the active one.
obsolete == journal.revs \ {active}

\* Mutant: the obsolete revision files are removed before the journal.
FinishFilesFirst(ok) ==
    IF ~readable THEN Refused(ok)
    ELSE IF journal = NoJournal
         THEN UNCHANGED storeVars /\ (IF ok THEN NoFault ELSE Fault)
         ELSE /\ PublishJournal(NoJournal, ok)
              /\ files' = files \ obsolete
              /\ unsynced' = IF obsolete = {} THEN unsynced ELSE {}

\* Store.Finish: removes the journal and syncs, and only then removes the
\* obsolete revision files, syncing after each of them.
Finish(ok) ==
    IF ~readable THEN Refused(ok)
    ELSE IF journal = NoJournal
         THEN UNCHANGED storeVars /\ (IF ok THEN NoFault ELSE Fault)
         ELSE \/ PublishJournal(NoJournal, FALSE) /\ ~ok /\ UNCHANGED revDir
              \/ /\ ok /\ PublishJournal(NoJournal, TRUE)
                 /\ files' = files \ obsolete
                 /\ unsynced' = IF obsolete = {} THEN unsynced ELSE {}
              \/ /\ ~ok /\ Fault
                 /\ journal' = NoJournal /\ journalMay' = {NoJournal}
                 /\ activeMay' = {active} /\ UNCHANGED active
                 /\ \E gone \in SUBSET obsolete :
                      /\ files' = files \ gone
                      /\ \/ UNCHANGED unsynced /\ gone = {}
                         \/ unsynced' = {} /\ gone # {}
                         \/ \E last \in gone : unsynced' \in {{last}, unsynced \cup {last}}

\* Store.CollectRevisions: removes the revision files that are not active.
CollectRevisions(ok) ==
    /\ UNCHANGED stateDir
    /\ IF ~readable \/ journal # NoJournal
       THEN Refused(ok)
       ELSE LET orphans == files \ {active} IN
            \/ /\ ok /\ NoFault /\ files' = files \ orphans
               /\ unsynced' = IF orphans = {} THEN unsynced ELSE {}
            \/ /\ ~ok /\ Fault
               /\ \E gone \in SUBSET orphans :
                    /\ files' = files \ gone
                    /\ unsynced' \in {unsynced \cup gone, IF gone = {} THEN unsynced ELSE {}}

\* A power loss: every unsynced entry comes back old or new.
LoseUnsynced ==
    /\ active' \in activeMay /\ activeMay' = {active'}
    /\ journal' \in journalMay /\ journalMay' = {journal'}
    /\ \E kept \in SUBSET unsynced : files' = (files \ unsynced) \cup kept
    /\ unsynced' = {}
=============================================================================
