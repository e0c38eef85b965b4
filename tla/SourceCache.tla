---------------------------- MODULE SourceCache ----------------------------
(***************************************************************************)
(* The prefix cache (internal/source/cache.go) over a file system that     *)
(* loses what was not synced: selector objects and manifests under their   *)
(* content identity, installed by the staging goroutines, stabilized by    *)
(* the writer before a record names them, collected at startup.  A name    *)
(* stands for its content, so a file is whole or torn.                     *)
(***************************************************************************)
EXTENDS Faults, Sequences

CONSTANTS Object,       \* selector objects
          Manifest,     \* complete manifests
          Entries,      \* the objects a manifest names
          Stager,       \* goroutines that stage candidates
          Nil

ASSUME CacheAssumption ==
    /\ Object \cap Manifest = {}
    /\ Entries \in [Manifest -> SUBSET Object]

VARIABLES
    disk,       \* what the file system holds
    named,      \* manifests the durable records name: the active one, then a candidate
    phase,      \* of the daemon
    stager,     \* each staging goroutine
    writer      \* Store.Prepare on behalf of a candidate

vars == <<disk, named, phase, stager, writer, faults>>

Name == Object \cup Manifest

NamesOf(x) == IF x \in Manifest THEN {x} \cup Entries[x] ELSE {}

Idle == [at |-> "idle", manifest |-> Nil, todo |-> {}, file |-> Nil]

NoPrepare == [at |-> "idle", manifest |-> Nil, todo |-> <<>>]

Disk == [present : SUBSET Name, entries : SUBSET Name, synced : SUBSET Name, torn : SUBSET Name,
         stray : BOOLEAN]

Staging == [at : {"idle", "install", "temp", "whole", "entry", "done"},
            manifest : Manifest \cup {Nil}, todo : SUBSET Name, file : Name \cup {Nil}]

Preparation == [at : {"idle", "load", "files", "directories", "publish"},
                manifest : Manifest \cup {Nil}, todo : Seq(Manifest)]

\* The cache's state (cache.go): each file is absent, whole or torn, and every
\* staging goroutine and the collection are in one of the places of their code.
TypeOK ==
    /\ disk \in Disk
    /\ named \in Seq(Manifest) /\ Len(named) <= 2
    /\ phase \in {"startup", "manifests", "objects", "running"}
    /\ stager \in [Stager -> Staging]
    /\ writer \in Preparation

\* disk: the names present, the directory entries a crash cannot take back,
\* the files whose data was synced, those a crash tore, temporary files left.
Init ==
    /\ disk = [present |-> {}, entries |-> {}, synced |-> {}, torn |-> {}, stray |-> FALSE]
    /\ named = <<>>
    /\ phase = "startup"
    /\ stager = [s \in Stager |-> Idle]
    /\ writer = NoPrepare
    /\ faults = 0

Named == {named[i] : i \in DOMAIN named}

----------------------------------------------------------------------------
(* Reading. *)

\* readManifest, loadObject: a file is there and its digest is its name.
Reads(f) == f \in disk.present /\ f \notin disk.torn

Load(id) == \A f \in NamesOf(id) : Reads(f)

\* syncCacheRegular.
SyncFiles(F) == [disk EXCEPT !.synced = @ \cup F]

DirectoryOf(f) == IF f \in Manifest THEN Manifest ELSE Object

\* syncCacheDirectory: the entries, and the removals, of a directory.
SyncDirectory(d, f) ==
    [d EXCEPT !.entries = (@ \ DirectoryOf(f)) \cup (d.present \cap DirectoryOf(f))]

----------------------------------------------------------------------------
(* Stage and installImmutable, for one file after the other.               *)

Step(s, r) == stager' = [stager EXCEPT ![s] = r]

\* Stage of one candidate: its objects first, then the manifest.
StageBegin(s, m) ==
    /\ phase = "running" /\ stager[s].at = "idle"
    /\ Step(s, [at |-> "install", manifest |-> m, todo |-> NamesOf(m), file |-> Nil])
    /\ NoFault
    /\ UNCHANGED <<disk, named, phase, writer>>

\* Stage: the manifest is last.
NextFile(s, f) ==
    /\ f \in stager[s].todo
    /\ f \in Manifest => stager[s].todo = {f}

Installed(s, f) ==
    LET left == stager[s].todo \ {f}
    IN  [stager[s] EXCEPT !.todo = left, !.file = Nil,
            !.at = IF left # {} THEN "install" ELSE IF Load(stager[s].manifest) THEN "done" ELSE "idle"]

\* Stage fails: the deferred removal takes the temporary file away.
StageFails(s) ==
    /\ stager[s].at \in {"install", "temp", "whole", "entry"}
    /\ Fault
    /\ Step(s, Idle)
    /\ UNCHANGED <<disk, named, phase, writer>>

\* Mutant: a file that is already there is taken as it is.
TakenAsIs(f) == disk

\* installImmutable: the file exists with the same bytes.
Existing(f) == SyncDirectory(SyncFiles({f}), f)

InstallExisting(s) == \E f \in Name :
    /\ stager[s].at = "install" /\ NextFile(s, f) /\ f \in disk.present
    /\ NoFault
    /\ IF Reads(f)
       THEN disk' = Existing(f) /\ Step(s, Installed(s, f))
       ELSE UNCHANGED disk /\ Step(s, Idle)
    /\ UNCHANGED <<named, phase, writer>>

\* installImmutable: the temporary file is created and written.
WriteTemp(s) == \E f \in Name :
    /\ stager[s].at = "install" /\ NextFile(s, f) /\ f \notin disk.present
    /\ NoFault
    /\ Step(s, [stager[s] EXCEPT !.at = "temp", !.file = f])
    /\ UNCHANGED <<disk, named, phase, writer>>

SyncTemp(s) ==
    /\ stager[s].at = "temp"
    /\ NoFault
    /\ Step(s, [stager[s] EXCEPT !.at = "whole"])
    /\ UNCHANGED <<disk, named, phase, writer>>

\* installImmutable: only a synced temporary file is renamed.
RenameReady == {"whole"}

\* Renameat2 with RENAME_NOREPLACE; another goroutine may have come first.
Rename(s) == LET f == stager[s].file IN
    /\ stager[s].at \in RenameReady
    /\ NoFault
    /\ IF f \in disk.present
       THEN IF Reads(f)
            THEN disk' = Existing(f) /\ Step(s, Installed(s, f))
            ELSE UNCHANGED disk /\ Step(s, Idle)
       ELSE /\ disk' = [disk EXCEPT !.present = @ \cup {f},
                            !.synced = IF stager[s].at = "whole" THEN @ \cup {f} ELSE @ \ {f}]
            /\ Step(s, [stager[s] EXCEPT !.at = "entry"])
    /\ UNCHANGED <<named, phase, writer>>

SyncEntry(s) == LET f == stager[s].file IN
    /\ stager[s].at = "entry"
    /\ NoFault
    /\ disk' = SyncDirectory(disk, f)
    /\ Step(s, Installed(s, f))
    /\ UNCHANGED <<named, phase, writer>>

\* The loop discards a candidate, or has applied it.
Release(s) ==
    /\ stager[s].at = "done" /\ writer.manifest # stager[s].manifest
    /\ NoFault
    /\ Step(s, Idle)
    /\ UNCHANGED <<disk, named, phase, writer>>

----------------------------------------------------------------------------
(* Store.Prepare and the end of the transaction.                           *)

\* Prepare: no transaction is pending.
NonePending == Len(named) < 2

\* Stabilize of the previous manifest, then of the candidate's.
Prepare(s) ==
    /\ phase = "running" /\ writer.at = "idle" /\ NonePending
    /\ stager[s].at = "done"
    /\ NoFault
    /\ writer' = [at |-> "load", manifest |-> stager[s].manifest,
                  todo |-> Append(named, stager[s].manifest)]
    /\ UNCHANGED <<disk, named, phase, stager>>

Refused == /\ writer' = NoPrepare
           /\ UNCHANGED <<disk, named>>

StabilizeLoad ==
    /\ writer.at = "load"
    /\ NoFault
    /\ IF Load(Head(writer.todo))
       THEN writer' = [writer EXCEPT !.at = "files"] /\ UNCHANGED <<disk, named>>
       ELSE Refused
    /\ UNCHANGED <<phase, stager>>

StabilizeFiles ==
    /\ writer.at = "files"
    /\ \/ /\ NoFault
          /\ disk' = SyncFiles(NamesOf(Head(writer.todo)))
          /\ writer' = [writer EXCEPT !.at = "directories"]
          /\ UNCHANGED named
       \/ Fault /\ Refused
    /\ UNCHANGED <<phase, stager>>

StabilizeDirectories ==
    /\ writer.at = "directories"
    /\ \/ /\ NoFault
          /\ disk' = [disk EXCEPT !.entries = disk.present]
          /\ writer' = [writer EXCEPT !.todo = Tail(@),
                            !.at = IF Len(writer.todo) = 1 THEN "publish" ELSE "load"]
          /\ UNCHANGED named
       \/ Fault /\ Refused
    /\ UNCHANGED <<phase, stager>>

\* The journal names the candidate.
PublishJournal ==
    /\ writer.at = "publish"
    /\ \/ NoFault /\ named' = Append(named, writer.manifest) /\ UNCHANGED disk
          /\ writer' = NoPrepare
       \/ Fault /\ Refused
    /\ UNCHANGED <<phase, stager>>

\* Complete or Rollback: the records name one manifest again.
Settle ==
    /\ phase = "running" /\ writer.at = "idle" /\ Len(named) = 2
    /\ NoFault
    /\ \E i \in 1..2 : named' = <<named[i]>>
    /\ UNCHANGED <<disk, phase, stager, writer>>

----------------------------------------------------------------------------
(* A crash, and Collect at the next start.                                 *)

\* A directory entry that was not synced may be there or not, and so may one
\* whose removal was not; a file whose data was not synced may be torn.
Crash ==
    /\ Fault
    /\ \E kept \in SUBSET ((disk.present \cup disk.entries)
                              \ (disk.present \cap disk.entries)) :
       LET after == (disk.present \cap disk.entries) \cup kept
       IN  \E torn \in SUBSET (after \ disk.synced) :
             disk' = [present |-> after, entries |-> after, synced |-> after,
                      torn |-> (disk.torn \cap after) \cup torn,
                      stray |-> disk.stray \/ \E s \in Stager : stager[s].at \in {"temp", "whole"}]
    /\ phase' = "startup"
    /\ stager' = [s \in Stager |-> Idle]
    /\ writer' = NoPrepare
    /\ UNCHANGED named

\* Mutant: a pending transaction's candidate is not live.
ActiveOnly == IF named = <<>> THEN {} ELSE {named[1]}

\* collectPrefixes: every manifest a record names.
Live == Named

\* Collect loads every live manifest before it removes anything.
CollectBegin ==
    /\ phase = "startup"
    /\ \A m \in Live : Load(m)
    /\ NoFault
    /\ phase' = "manifests"
    /\ UNCHANGED <<disk, named, stager, writer>>

\* Mutant: only the objects of the active manifest are kept.
FirstObjects == UNION {Entries[m] : m \in ActiveOnly}

LiveObjects == UNION {Entries[m] : m \in Live}

Dead == IF phase = "manifests" THEN Manifest \ Live ELSE Object \ LiveObjects

\* collectDirectory: files with the temporary prefix go too.
StrayAfter == FALSE

\* collectDirectory: one entry after the other; an error ends the start.
CollectRemove == \E f \in Name :
    /\ phase \in {"manifests", "objects"} /\ f \in Dead \cap disk.present
    /\ NoFault
    /\ disk' = [disk EXCEPT !.present = @ \ {f}, !.torn = @ \ {f}]
    /\ UNCHANGED <<named, phase, stager, writer>>

CollectSync ==
    /\ phase \in {"manifests", "objects"} /\ Dead \cap disk.present = {}
    /\ NoFault
    /\ disk' = [SyncDirectory(disk, IF phase = "manifests" THEN CHOOSE m \in Manifest : TRUE
                                    ELSE CHOOSE o \in Object : TRUE)
                  EXCEPT !.stray = IF phase = "objects" THEN StrayAfter ELSE @]
    /\ phase' = IF phase = "manifests" THEN "objects" ELSE "running"
    /\ UNCHANGED <<named, stager, writer>>

Next ==
    \/ \E s \in Stager :
         \/ \E m \in Manifest : StageBegin(s, m)
         \/ StageFails(s) \/ InstallExisting(s) \/ WriteTemp(s) \/ SyncTemp(s)
         \/ Rename(s) \/ SyncEntry(s) \/ Release(s) \/ Prepare(s)
    \/ StabilizeLoad \/ StabilizeFiles \/ StabilizeDirectories \/ PublishJournal \/ Settle
    \/ Crash \/ CollectBegin \/ CollectRemove \/ CollectSync

Spec == Init /\ [][Next]_vars

----------------------------------------------------------------------------
(* Properties. *)

\* Every manifest a durable record names loads, whatever the crashes: Prepare
\* stabilizes before it publishes, and Collect keeps what both ends of a
\* pending transaction name.
NamedLoads == \A m \in Named : Load(m)

\* What Stage returned survives a crash: its manifest and objects are synced,
\* and so are their directory entries, although they may have been put there
\* by another goroutine that has not finished.
StagedIsDurable ==
    \A s \in Stager : stager[s].at = "done" =>
        NamesOf(stager[s].manifest) \subseteq disk.present \cap disk.entries \cap disk.synced

=============================================================================
