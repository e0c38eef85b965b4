------------------------- MODULE SourceCacheProofs -------------------------
(***************************************************************************)
(* What the durable records name can be loaded after any sequence of       *)
(* crashes, failures and collections, for any set of objects and manifests *)
(* and any number of staging goroutines.                                   *)
(***************************************************************************)
EXTENDS SourceCache, TLAPS

USE CacheAssumption

-----------------------------------------------------------------------------
(* The inductive invariant. *)

\* A file that a crash leaves as it is.
Firm == (disk.present \cap disk.entries \cap disk.synced) \ disk.torn

\* Nobody stages or prepares before the collection of the start is over.
QuietStart ==
    phase # "running" => (\A s \in Stager : stager[s] = Idle) /\ writer = NoPrepare

\* What the records name is firm, and so is what Stage has returned.
NamedFirm == \A m \in Named : NamesOf(m) \subseteq Firm

\* A staging goroutine has made firm what it does not have to install any more;
\* between the rename and the directory sync only the entry is missing.
Sound(s) ==
    stager[s].at # "idle" =>
        /\ stager[s].manifest \in Manifest
        /\ NamesOf(stager[s].manifest) \ stager[s].todo \subseteq Firm
        /\ stager[s].at = "done" => stager[s].todo = {}
        /\ stager[s].at \in {"temp", "whole", "entry"} => stager[s].file \in Name
        /\ stager[s].at = "entry" =>
              stager[s].file \in (disk.present \cap disk.synced) \ disk.torn

StagedFirm == \A s \in Stager : Sound(s)

\* Prepare has the candidate's manifest to stabilize last, and each step of the
\* stabilization rests on the one before.
Preparing ==
    /\ writer.at \in {"load", "files", "directories"} =>
          Len(writer.todo) \in 1..2 /\ writer.todo[Len(writer.todo)] = writer.manifest
    /\ writer.at \in {"files", "directories"} => Load(Head(writer.todo))
    /\ writer.at = "directories" => NamesOf(Head(writer.todo)) \subseteq disk.synced
    /\ writer.at = "publish" =>
          writer.manifest \in Manifest /\ NamesOf(writer.manifest) \subseteq Firm
    /\ writer.at # "idle" => Len(named) < 2

CInv ==
    /\ TypeOK /\ disk.torn \subseteq disk.present
    /\ QuietStart /\ NamedFirm /\ StagedFirm /\ Preparing

-----------------------------------------------------------------------------
(* The file system. *)

\* The names of a manifest are names.
LEMMA NamesFacts ==
    ASSUME NEW m \in Manifest
    PROVE  NamesOf(m) = {m} \cup Entries[m] /\ NamesOf(m) \subseteq Name
BY DEF NamesOf, Name

\* syncCacheDirectory changes the entries alone, and those of files that are
\* there only from missing to synced.
LEMMA SyncDirectoryFacts ==
    ASSUME NEW d \in Disk, NEW f
    PROVE  LET e == SyncDirectory(d, f)
           IN  /\ e \in Disk /\ e.present = d.present /\ e.synced = d.synced /\ e.torn = d.torn
               /\ e.stray = d.stray
               /\ d.present \cap d.entries \subseteq e.entries
               /\ f \in Name /\ f \in d.present => f \in e.entries
<1> DEFINE D == DirectoryOf(f)
           e == SyncDirectory(d, f)
<1>1. /\ d.present \subseteq Name /\ d.entries \subseteq Name /\ d.synced \subseteq Name
      /\ d.torn \subseteq Name /\ d.stray \in BOOLEAN
    BY DEF Disk
<1>2. e = [present |-> d.present, entries |-> (d.entries \ D) \cup (d.present \cap D),
           synced |-> d.synced, torn |-> d.torn, stray |-> d.stray]
    BY DEF SyncDirectory, Disk
<1>3. f \in Name => f \in D
    BY DEF DirectoryOf, Name
<1> HIDE DEF D, e
<1>4. e \in Disk
    BY <1>1, <1>2 DEF Disk
<1>5. /\ e.present = d.present /\ e.synced = d.synced /\ e.torn = d.torn /\ e.stray = d.stray
      /\ e.entries = (d.entries \ D) \cup (d.present \cap D)
    BY <1>2
<1> QED
    BY <1>3, <1>4, <1>5 DEF e

\* syncCacheRegular changes what is synced alone.
LEMMA SyncFilesFacts ==
    ASSUME disk \in Disk, NEW F \in SUBSET Name
    PROVE  LET e == SyncFiles(F)
           IN  /\ e \in Disk /\ e.present = disk.present /\ e.entries = disk.entries
               /\ e.torn = disk.torn /\ e.synced = disk.synced \cup F
<1> DEFINE e == SyncFiles(F)
<1>1. /\ disk.present \subseteq Name /\ disk.entries \subseteq Name /\ disk.synced \subseteq Name
      /\ disk.torn \subseteq Name /\ disk.stray \in BOOLEAN
    BY DEF Disk
<1>2. e = [present |-> disk.present, entries |-> disk.entries, synced |-> disk.synced \cup F,
           torn |-> disk.torn, stray |-> disk.stray]
    BY DEF SyncFiles, Disk
<1> HIDE DEF e
<1>3. e \in Disk
    BY <1>1, <1>2 DEF Disk
<1>4. /\ e.present = disk.present /\ e.entries = disk.entries
      /\ e.torn = disk.torn /\ e.synced = disk.synced \cup F
    BY <1>2
<1> QED
    BY <1>3, <1>4 DEF e

\* A step of the running daemon takes nothing away.
Grown ==
    /\ disk' \in Disk /\ disk'.torn = disk.torn
    /\ disk.present \subseteq disk'.present /\ disk.synced \subseteq disk'.synced
    /\ disk.present \cap disk.entries \subseteq disk'.entries

\* What was firm, or loaded, still is.
LEMMA GrownKeeps ==
    ASSUME Grown
    PROVE  /\ Firm \subseteq Firm'
           /\ (disk.present \cap disk.synced) \ disk.torn
                 \subseteq (disk'.present \cap disk'.synced) \ disk'.torn
           /\ \A m : Load(m) => Load(m)'
<1>1. Firm \subseteq Firm'
    BY DEF Grown, Firm
<1>2. (disk.present \cap disk.synced) \ disk.torn
                 \subseteq (disk'.present \cap disk'.synced) \ disk'.torn
    BY DEF Grown
<1>3. ASSUME NEW m, Load(m)
      PROVE  Load(m)'
    BY <1>3 DEF Grown, Load, Reads, NamesOf
<1> QED
    BY <1>1, <1>2, <1>3

\* A file that is there already is synced with its directory.
LEMMA ExistingGrown ==
    ASSUME disk \in Disk, NEW f \in Name, f \in disk.present, f \notin disk.torn, disk' = Existing(f)
    PROVE  Grown /\ f \in Firm'
<1>1. {f} \in SUBSET Name
    OBVIOUS
<1>2. /\ SyncFiles({f}) \in Disk /\ SyncFiles({f}).present = disk.present
      /\ SyncFiles({f}).entries = disk.entries /\ SyncFiles({f}).torn = disk.torn
      /\ SyncFiles({f}).synced = disk.synced \cup {f}
    BY <1>1, SyncFilesFacts
<1>3. /\ disk' \in Disk /\ disk'.present = disk.present /\ disk'.synced = disk.synced \cup {f}
      /\ disk'.torn = disk.torn /\ disk.present \cap disk.entries \subseteq disk'.entries
      /\ f \in disk'.entries
    BY <1>2, SyncDirectoryFacts, Zenon DEF Existing
<1> QED
    BY <1>3 DEF Grown, Firm

-----------------------------------------------------------------------------
(* Staging. *)

\* What a step of one staging goroutine has to show.
LEMMA StagerStep ==
    ASSUME CInv, Grown, disk'.torn \subseteq disk'.present, phase = "running",
           NEW s \in Stager, NEW r \in Staging, Step(s, r), Sound(s)',
           UNCHANGED <<named, phase, writer>>
    PROVE  CInv'
<1>1. TypeOK /\ QuietStart /\ NamedFirm /\ StagedFirm /\ Preparing
    BY DEF CInv
<1>2. Firm \subseteq Firm' /\ \A m : Load(m) => Load(m)'
    BY GrownKeeps
<1>3. stager' \in [Stager -> Staging] /\ \A t \in Stager : t # s => stager'[t] = stager[t]
    BY <1>1 DEF TypeOK, Step
<1>4. TypeOK'
    BY <1>1, <1>3 DEF TypeOK, Grown
<1>5. QuietStart'
    BY DEF QuietStart
<1>6. NamedFirm'
    <2>1. Named' = Named
        BY DEF Named
    <2> QED
        BY <1>1, <1>2, <2>1 DEF NamedFirm, NamesOf
<1>7. StagedFirm'
    <2> SUFFICES ASSUME NEW t \in Stager, t # s
                 PROVE  Sound(t)'
        BY DEF StagedFirm
    <2>1. Sound(t) /\ stager'[t] = stager[t]
        BY <1>1, <1>3 DEF StagedFirm
    <2> QED
        BY <1>2, <2>1, GrownKeeps DEF Sound, NamesOf
<1>8. Preparing'
    <2>1. disk.synced \subseteq disk'.synced
        BY DEF Grown
    <2> QED
        BY <1>1, <1>2, <2>1 DEF Preparing, NamesOf
<1> QED
    BY <1>4, <1>5, <1>6, <1>7, <1>8 DEF CInv

\* The disk as it is.
LEMMA SameDisk ==
    ASSUME CInv, UNCHANGED disk
    PROVE  Grown /\ disk'.torn \subseteq disk'.present
BY DEF CInv, TypeOK, Grown

\* What a goroutine is and holds.
LEMMA StagerFacts ==
    ASSUME CInv, NEW s \in Stager
    PROVE  /\ disk \in Disk /\ disk.torn \subseteq disk.present /\ stager[s] \in Staging /\ Sound(s)
           /\ stager[s].at # "idle" => phase = "running"
BY DEF CInv, TypeOK, StagedFirm, QuietStart, Idle

\* A goroutine that has ended, or failed, holds nothing.
LEMMA IdleStaging == Idle \in Staging
BY DEF Idle, Staging

\* Stage begins with all of a manifest's files to install.
LEMMA StageBeginCInv ==
    ASSUME CInv, NEW s \in Stager, NEW m \in Manifest, StageBegin(s, m)
    PROVE  CInv'
<1> DEFINE r == [at |-> "install", manifest |-> m, todo |-> NamesOf(m), file |-> Nil]
<1>1. phase = "running" /\ Step(s, r) /\ UNCHANGED <<disk, named, phase, writer>>
    BY DEF StageBegin
<1>2. r \in Staging
    BY NamesFacts DEF Staging
<1>3. stager[s] \in Staging /\ s \in DOMAIN stager
    BY StagerFacts DEF CInv, TypeOK
<1>4. stager'[s] = r
    BY <1>1, <1>3 DEF Step
<1>5. Sound(s)'
    BY <1>4 DEF Sound
<1> HIDE DEF r
<1> QED
    BY <1>1, <1>2, <1>5, SameDisk, StagerStep

\* The loop discards a candidate, or Stage fails.
LEMMA IdleCInv ==
    ASSUME CInv, NEW s \in Stager, stager[s].at # "idle", Step(s, Idle),
           UNCHANGED <<disk, named, phase, writer>>
    PROVE  CInv'
<1>1. phase = "running" /\ stager[s] \in Staging /\ s \in DOMAIN stager
    BY StagerFacts DEF CInv, TypeOK
<1>2. stager'[s] = Idle
    BY <1>1 DEF Step
<1>3. Sound(s)'
    BY <1>2 DEF Sound, Idle
<1> QED
    BY <1>1, <1>3, IdleStaging, SameDisk, StagerStep

\* The temporary file is created, then synced.
LEMMA TempCInv ==
    ASSUME CInv, NEW s \in Stager, WriteTemp(s) \/ SyncTemp(s)
    PROVE  CInv'
<1>1. phase = "running" \/ stager[s].at = "idle"
    BY StagerFacts
<1>2. stager[s] \in Staging /\ s \in DOMAIN stager /\ Sound(s)
    BY StagerFacts DEF CInv, TypeOK
<1>3. CASE WriteTemp(s)
    <2>1. PICK f \in Name : /\ stager[s].at = "install"
                            /\ Step(s, [stager[s] EXCEPT !.at = "temp", !.file = f])
                            /\ UNCHANGED <<disk, named, phase, writer>>
        BY <1>3, Zenon DEF WriteTemp
    <2> DEFINE r == [stager[s] EXCEPT !.at = "temp", !.file = f]
    <2>2. r.at = "temp" /\ r.manifest = stager[s].manifest /\ r.todo = stager[s].todo /\ r.file = f
        BY <1>2 DEF Staging
    <2>3. r \in Staging
        BY <1>2, Zenon DEF Staging
    <2>4. stager'[s] = r
        BY <1>2, <2>1 DEF Step
    <2>5. Firm' = Firm
        BY <2>1 DEF Firm
    <2>6. Sound(s)'
        <3>1. stager[s].at # "idle"
            BY <2>1
        <3> QED
            BY <1>2, <2>2, <2>4, <2>5, <3>1 DEF Sound, NamesOf
    <2> HIDE DEF r
    <2>7. Step(s, r)
        BY <2>1 DEF r
    <2> QED
        BY <1>1, <2>1, <2>3, <2>6, <2>7, SameDisk, StagerStep, SMTT(30)
<1>4. CASE SyncTemp(s)
    <2>1. /\ stager[s].at = "temp" /\ Step(s, [stager[s] EXCEPT !.at = "whole"])
          /\ UNCHANGED <<disk, named, phase, writer>>
        BY <1>4 DEF SyncTemp
    <2> DEFINE r == [stager[s] EXCEPT !.at = "whole"]
    <2>2. r = [at |-> "whole", manifest |-> stager[s].manifest, todo |-> stager[s].todo,
               file |-> stager[s].file]
        BY <1>2 DEF Staging
    <2>3. r \in Staging
        BY <1>2, <2>2 DEF Staging
    <2>4. stager'[s] = r
        BY <1>2, <2>1 DEF Step
    <2>5. Firm' = Firm
        BY <2>1 DEF Firm
    <2>6. Sound(s)'
        BY <1>2, <2>1, <2>2, <2>4, <2>5 DEF Sound, NamesOf
    <2> HIDE DEF r
    <2>7. Step(s, r)
        BY <2>1 DEF r
    <2> QED
        BY <1>1, <2>1, <2>3, <2>6, <2>7, SameDisk, StagerStep
<1> QED
    BY <1>3, <1>4

\* installImmutable is done with a file that is firm now: the next one, or the
\* load that ends Stage.
LEMMA InstalledCInv ==
    ASSUME CInv, Grown, disk'.torn \subseteq disk'.present, NEW s \in Stager, NEW f \in Name,
           stager[s].at # "idle", f \in Firm', Step(s, Installed(s, f)),
           UNCHANGED <<named, phase, writer>>
    PROVE  CInv'
<1>1. /\ phase = "running" /\ stager[s] \in Staging /\ s \in DOMAIN stager /\ Sound(s)
    BY StagerFacts DEF CInv, TypeOK
<1> DEFINE r == Installed(s, f)
           left == stager[s].todo \ {f}
           pc == IF left # {} THEN "install" ELSE IF Load(stager[s].manifest) THEN "done" ELSE "idle"
<1>2. r.at = pc /\ r.manifest = stager[s].manifest /\ r.todo = left /\ r.file = Nil
    BY <1>1 DEF Installed, Staging
<1>3. pc \in {"install", "done", "idle"} /\ (pc = "done" => left = {})
    OBVIOUS
<1> HIDE DEF pc
<1>4. r \in Staging
    BY <1>1, <1>3, Zenon DEF Installed, Staging
<1>5. stager'[s] = r
    BY <1>1 DEF Step
<1>6. Firm \subseteq Firm'
    BY GrownKeeps
<1>7. NamesOf(stager[s].manifest) \ left \subseteq Firm'
    BY <1>1, <1>6 DEF Sound
<1>8. Sound(s)'
    BY <1>1, <1>2, <1>3, <1>5, <1>7 DEF Sound, NamesOf
<1> HIDE DEF r
<1>9. Step(s, r)
    BY DEF r
<1> QED
    BY <1>1, <1>4, <1>8, <1>9, StagerStep

\* installImmutable finds the file: the same bytes, or an error.
LEMMA InstallExistingCInv ==
    ASSUME CInv, NEW s \in Stager, InstallExisting(s)
    PROVE  CInv'
<1>1. PICK f \in Name :
        /\ stager[s].at = "install" /\ f \in disk.present
        /\ IF Reads(f)
           THEN disk' = Existing(f) /\ Step(s, Installed(s, f))
           ELSE UNCHANGED disk /\ Step(s, Idle)
        /\ UNCHANGED <<named, phase, writer>>
    BY DEF InstallExisting
<1>2. disk \in Disk /\ disk.torn \subseteq disk.present
    BY StagerFacts
<1>3. CASE Reads(f)
    <2>1. f \notin disk.torn /\ disk' = Existing(f) /\ Step(s, Installed(s, f))
        BY <1>1, <1>3 DEF Reads
    <2>2. Grown /\ f \in Firm'
        BY <1>1, <1>2, <2>1, ExistingGrown
    <2>3. disk'.torn \subseteq disk'.present
        BY <1>2, <2>2 DEF Grown
    <2> QED
        BY <1>1, <2>1, <2>2, <2>3, InstalledCInv
<1>4. CASE ~Reads(f)
    BY <1>1, <1>4, IdleCInv
<1> QED
    BY <1>3, <1>4

\* The rename, whoever comes first.
LEMMA RenameCInv ==
    ASSUME CInv, NEW s \in Stager, Rename(s)
    PROVE  CInv'
<1> DEFINE f == stager[s].file
<1>1. stager[s].at = "whole" /\ UNCHANGED <<named, phase, writer>>
    BY DEF Rename, RenameReady
<1>2. /\ disk \in Disk /\ disk.torn \subseteq disk.present /\ stager[s] \in Staging /\ Sound(s)
      /\ s \in DOMAIN stager /\ phase = "running" /\ f \in Name
    BY <1>1, StagerFacts DEF CInv, TypeOK, Sound
<1>3. CASE f \in disk.present /\ Reads(f)
    <2>1. f \notin disk.torn /\ disk' = Existing(f) /\ Step(s, Installed(s, f))
        BY <1>3 DEF Rename, Reads
    <2>2. Grown /\ f \in Firm'
        BY <1>2, <1>3, <2>1, ExistingGrown
    <2>3. disk'.torn \subseteq disk'.present
        BY <1>2, <2>2 DEF Grown
    <2> HIDE DEF f
    <2> QED
        BY <1>1, <1>2, <2>1, <2>2, <2>3, InstalledCInv
<1>4. CASE f \in disk.present /\ ~Reads(f)
    <2>1. UNCHANGED disk /\ Step(s, Idle)
        BY <1>4 DEF Rename
    <2> QED
        BY <1>1, <2>1, IdleCInv
<1>5. CASE f \notin disk.present
    <2>1. /\ disk' = [disk EXCEPT !.present = @ \cup {f}, !.synced = @ \cup {f}]
          /\ Step(s, [stager[s] EXCEPT !.at = "entry"])
        BY <1>1, <1>5 DEF Rename
    <2>2. disk' = [present |-> disk.present \cup {f}, entries |-> disk.entries,
                   synced |-> disk.synced \cup {f}, torn |-> disk.torn, stray |-> disk.stray]
        BY <1>2, <2>1, Zenon DEF Disk
    <2>3. disk' \in Disk
        BY <1>2, <2>2 DEF Disk
    <2>4. Grown /\ disk'.torn \subseteq disk'.present
          /\ f \in (disk'.present \cap disk'.synced) \ disk'.torn
        BY <1>2, <1>5, <2>2, <2>3 DEF Grown
    <2> DEFINE r == [stager[s] EXCEPT !.at = "entry"]
    <2>5. r = [at |-> "entry", manifest |-> stager[s].manifest, todo |-> stager[s].todo, file |-> f]
        BY <1>2 DEF Staging
    <2>6. r \in Staging
        BY <1>2, <2>5 DEF Staging
    <2>7. stager'[s] = r
        BY <1>2, <2>1 DEF Step
    <2>8. Firm \subseteq Firm'
        BY <2>4, GrownKeeps
    <2>9. Sound(s)'
        BY <1>1, <1>2, <2>4, <2>5, <2>7, <2>8 DEF Sound, NamesOf
    <2> HIDE DEF r
    <2>10. Step(s, r)
        BY <2>1 DEF r
    <2> QED
        BY <1>1, <1>2, <2>4, <2>6, <2>9, <2>10, StagerStep
<1> QED
    BY <1>3, <1>4, <1>5

\* The directory sync that completes a rename.
LEMMA SyncEntryCInv ==
    ASSUME CInv, NEW s \in Stager, SyncEntry(s)
    PROVE  CInv'
<1> DEFINE f == stager[s].file
<1>1. /\ stager[s].at = "entry" /\ disk' = SyncDirectory(disk, f) /\ Step(s, Installed(s, f))
      /\ UNCHANGED <<named, phase, writer>>
    BY DEF SyncEntry
<1>2. /\ disk \in Disk /\ disk.torn \subseteq disk.present /\ f \in Name
      /\ f \in (disk.present \cap disk.synced) \ disk.torn
    BY <1>1, StagerFacts DEF Sound
<1> HIDE DEF f
<1>3. /\ disk' \in Disk /\ disk'.present = disk.present /\ disk'.synced = disk.synced
      /\ disk'.torn = disk.torn /\ disk.present \cap disk.entries \subseteq disk'.entries
      /\ f \in disk'.entries
    BY <1>1, <1>2, SyncDirectoryFacts
<1>4. Grown /\ disk'.torn \subseteq disk'.present /\ f \in Firm'
    BY <1>2, <1>3 DEF Grown, Firm
<1> QED
    BY <1>1, <1>2, <1>4, InstalledCInv

-----------------------------------------------------------------------------
(* Prepare, the journal and the end of the transaction. *)

\* What a step of the writer has to show.
LEMMA WriterStep ==
    ASSUME CInv, Grown, disk'.torn \subseteq disk'.present, phase = "running",
           writer' \in Preparation, Preparing',
           named' \in Seq(Manifest), Len(named') <= 2, NamedFirm',
           UNCHANGED <<phase, stager>>
    PROVE  CInv'
<1>1. TypeOK'
    BY DEF CInv, TypeOK, Grown
<1>2. QuietStart'
    BY DEF QuietStart
<1>3. StagedFirm'
    <2> SUFFICES ASSUME NEW t \in Stager
                 PROVE  Sound(t)'
        BY DEF StagedFirm
    <2>1. Sound(t) /\ Firm \subseteq Firm'
        BY GrownKeeps DEF CInv, StagedFirm
    <2> QED
        BY <2>1, GrownKeeps DEF Sound, NamesOf
<1> QED
    BY <1>1, <1>2, <1>3 DEF CInv

\* The records name what they named.
LEMMA SameRecords ==
    ASSUME CInv, Grown, UNCHANGED named
    PROVE  named' \in Seq(Manifest) /\ Len(named') <= 2 /\ NamedFirm'
<1>1. Named' = Named /\ Firm \subseteq Firm'
    BY GrownKeeps DEF Named
<1> QED
    BY <1>1 DEF CInv, TypeOK, NamedFirm, NamesOf

\* Where the writer is, and what it has in hand.
LEMMA WriterFacts ==
    ASSUME CInv
    PROVE  /\ disk \in Disk /\ disk.torn \subseteq disk.present
           /\ writer \in Preparation /\ named \in Seq(Manifest) /\ Len(named) <= 2
           /\ NamedFirm /\ Preparing
           /\ writer.at # "idle" => phase = "running"
BY DEF CInv, TypeOK, QuietStart, NoPrepare

\* Prepare refuses, or has published: the writer is idle again.
LEMMA IdleWriter ==
    ASSUME writer' = NoPrepare
    PROVE  writer' \in Preparation /\ Preparing'
<1>1. writer'.at = "idle" /\ writer'.manifest = Nil /\ writer'.todo = <<>>
    BY DEF NoPrepare
<1>2. writer' \in Preparation
    BY DEF NoPrepare, Preparation
<1> QED
    BY <1>1, <1>2 DEF Preparing

\* A stabilization fails: nothing was named, and what was synced stays so.
LEMMA RefusedCInv ==
    ASSUME CInv, writer.at # "idle", Refused, UNCHANGED <<phase, stager>>
    PROVE  CInv'
<1>1. Grown /\ disk'.torn \subseteq disk'.present
    BY SameDisk DEF Refused
<1>2. writer' \in Preparation /\ Preparing'
    BY IdleWriter DEF Refused
<1>3. named' \in Seq(Manifest) /\ Len(named') <= 2 /\ NamedFirm'
    BY <1>1, SameRecords DEF Refused
<1> QED
    BY <1>1, <1>2, <1>3, WriterFacts, WriterStep

\* Prepare takes a staged candidate when no transaction is pending.
LEMMA PrepareCInv ==
    ASSUME CInv, NEW s \in Stager, Prepare(s)
    PROVE  CInv'
<1>1. /\ phase = "running" /\ Len(named) < 2 /\ stager[s].at = "done"
      /\ writer' = [at |-> "load", manifest |-> stager[s].manifest,
                    todo |-> Append(named, stager[s].manifest)]
      /\ UNCHANGED <<disk, named, phase, stager>>
    BY DEF Prepare, NonePending
<1>2. stager[s].manifest \in Manifest /\ named \in Seq(Manifest)
    BY <1>1, StagerFacts, WriterFacts DEF Sound
<1> DEFINE m == stager[s].manifest
           todo == Append(named, m)
<1>3. todo \in Seq(Manifest) /\ Len(todo) = Len(named) + 1 /\ todo[Len(todo)] = m
    BY <1>2
<1>4. Len(todo) \in 1..2
    BY <1>1, <1>2, <1>3
<1>5. writer'.at = "load" /\ writer'.manifest = m /\ writer'.todo = todo
    BY <1>1
<1>6. writer' \in Preparation
    BY <1>1, <1>2, <1>3 DEF Preparation
<1> HIDE DEF m, todo
<1>7. Preparing'
    BY <1>1, <1>3, <1>4, <1>5 DEF Preparing
<1>8. Grown /\ disk'.torn \subseteq disk'.present
    BY <1>1, SameDisk
<1>9. named' \in Seq(Manifest) /\ Len(named') <= 2 /\ NamedFirm'
    BY <1>1, <1>8, SameRecords
<1> QED
    BY <1>1, <1>6, <1>7, <1>8, <1>9, WriterStep

\* The manifest the writer stabilizes next, or now.
LEMMA HeadFacts ==
    ASSUME CInv, writer.at \in {"load", "files", "directories"}
    PROVE  /\ writer.todo \in Seq(Manifest) /\ Len(writer.todo) \in 1..2
           /\ Head(writer.todo) \in Manifest /\ Head(writer.todo) = writer.todo[1]
           /\ writer.todo[Len(writer.todo)] = writer.manifest /\ Len(named) < 2
           /\ writer \in Preparation /\ phase = "running"
<1>1. /\ writer \in Preparation /\ writer.todo \in Seq(Manifest) /\ Len(writer.todo) \in 1..2
      /\ writer.todo[Len(writer.todo)] = writer.manifest /\ Len(named) < 2 /\ phase = "running"
    BY WriterFacts DEF Preparing, Preparation
<1> QED
    BY <1>1

\* Stabilize loads the manifest before it syncs anything.
LEMMA StabilizeLoadCInv ==
    ASSUME CInv, StabilizeLoad
    PROVE  CInv'
<1>1. writer.at = "load" /\ UNCHANGED <<phase, stager>>
    BY DEF StabilizeLoad
<1>2. CASE Refused
    BY <1>1, <1>2, RefusedCInv
<1>3. CASE ~Refused
    <2>1. /\ Load(Head(writer.todo)) /\ writer' = [writer EXCEPT !.at = "files"]
          /\ UNCHANGED <<disk, named>>
        BY <1>3 DEF StabilizeLoad
    <2>2. writer'.at = "files" /\ writer'.manifest = writer.manifest /\ writer'.todo = writer.todo
        BY <1>1, <2>1, HeadFacts DEF Preparation
    <2>3. writer' \in Preparation
        BY <1>1, <2>1, HeadFacts DEF Preparation
    <2>4. Grown /\ disk'.torn \subseteq disk'.present
        BY <2>1, SameDisk
    <2>5. named' \in Seq(Manifest) /\ Len(named') <= 2 /\ NamedFirm'
        BY <2>1, <2>4, SameRecords
    <2>6. Load(Head(writer.todo))'
        BY <2>1, <2>2 DEF Load, Reads, NamesOf
    <2>7. Preparing'
        BY <1>1, <2>1, <2>2, <2>6, HeadFacts DEF Preparing
    <2> QED
        BY <1>1, <2>3, <2>4, <2>5, <2>7, HeadFacts, WriterStep
<1> QED
    BY <1>2, <1>3

\* Its files are synced.
LEMMA StabilizeFilesCInv ==
    ASSUME CInv, StabilizeFiles
    PROVE  CInv'
<1>1. writer.at = "files" /\ UNCHANGED <<phase, stager>>
    BY DEF StabilizeFiles
<1>2. CASE Refused
    BY <1>1, <1>2, RefusedCInv
<1>3. CASE ~Refused
    <2> DEFINE F == NamesOf(Head(writer.todo))
    <2>1. disk' = SyncFiles(F) /\ writer' = [writer EXCEPT !.at = "directories"] /\ UNCHANGED named
        BY <1>3 DEF StabilizeFiles
    <2>2. /\ writer'.at = "directories" /\ writer'.manifest = writer.manifest
          /\ writer'.todo = writer.todo
        BY <1>1, <2>1, HeadFacts DEF Preparation
    <2>3. writer' \in Preparation
        BY <1>1, <2>1, HeadFacts DEF Preparation
    <2>4. F \in SUBSET Name
        BY <1>1, HeadFacts, NamesFacts
    <2>5. disk \in Disk /\ disk.torn \subseteq disk.present /\ Preparing
        BY WriterFacts
    <2>6. /\ disk' \in Disk /\ disk'.present = disk.present /\ disk'.entries = disk.entries
          /\ disk'.torn = disk.torn /\ disk'.synced = disk.synced \cup F
        BY <2>1, <2>4, <2>5, SyncFilesFacts
    <2>7. Grown /\ disk'.torn \subseteq disk'.present
        BY <2>5, <2>6 DEF Grown
    <2>8. named' \in Seq(Manifest) /\ Len(named') <= 2 /\ NamedFirm'
        BY <2>1, <2>7, SameRecords
    <2>9. Load(Head(writer.todo))'
        BY <1>1, <2>2, <2>5, <2>6 DEF Preparing, Load, Reads, NamesOf
    <2>10. (NamesOf(Head(writer.todo)) \subseteq disk.synced)'
        BY <2>2, <2>6 DEF NamesOf
    <2>11. Preparing'
        BY <1>1, <2>1, <2>2, <2>9, <2>10, HeadFacts DEF Preparing
    <2> QED
        BY <1>1, <2>3, <2>7, <2>8, <2>11, HeadFacts, WriterStep
<1> QED
    BY <1>2, <1>3

\* Both directories are synced: the manifest is firm, and was it the last one,
\* it is the candidate's.
LEMMA StabilizeDirectoriesCInv ==
    ASSUME CInv, StabilizeDirectories
    PROVE  CInv'
<1>1. writer.at = "directories" /\ UNCHANGED <<phase, stager>>
    BY DEF StabilizeDirectories
<1>2. CASE Refused
    BY <1>1, <1>2, RefusedCInv
<1>3. CASE ~Refused
    <2> DEFINE pc == IF Len(writer.todo) = 1 THEN "publish" ELSE "load"
    <2>1. /\ disk' = [disk EXCEPT !.entries = disk.present]
          /\ writer' = [writer EXCEPT !.todo = Tail(@), !.at = pc] /\ UNCHANGED named
        BY <1>3 DEF StabilizeDirectories
    <2>2. /\ writer.todo \in Seq(Manifest) /\ Len(writer.todo) \in 1..2
          /\ Head(writer.todo) \in Manifest /\ Head(writer.todo) = writer.todo[1]
          /\ writer.todo[Len(writer.todo)] = writer.manifest /\ Len(named) < 2
          /\ writer \in Preparation /\ phase = "running"
        BY <1>1, HeadFacts
    <2>3. writer'.at = pc /\ writer'.manifest = writer.manifest /\ writer'.todo = Tail(writer.todo)
        BY <2>1, <2>2 DEF Preparation
    <2>4. Tail(writer.todo) \in Seq(Manifest) /\ Len(Tail(writer.todo)) = Len(writer.todo) - 1
        BY <2>2
    <2>5. writer' \in Preparation
        BY <2>1, <2>2, <2>4, Zenon DEF Preparation
    <2>6. /\ disk \in Disk /\ disk.torn \subseteq disk.present
          /\ Load(Head(writer.todo)) /\ NamesOf(Head(writer.todo)) \subseteq disk.synced
        BY <1>1, WriterFacts DEF Preparing
    <2>7. /\ disk' \in Disk /\ disk'.present = disk.present /\ disk'.entries = disk.present
          /\ disk'.torn = disk.torn /\ disk'.synced = disk.synced
        BY <2>1, <2>6 DEF Disk
    <2>8. Grown /\ disk'.torn \subseteq disk'.present
        BY <2>6, <2>7 DEF Grown
    <2>9. named' \in Seq(Manifest) /\ Len(named') <= 2 /\ NamedFirm'
        BY <2>1, <2>8, SameRecords
    <2>10. CASE Len(writer.todo) = 1
        <3>1. writer.manifest = Head(writer.todo) /\ writer'.at = "publish"
            BY <2>2, <2>3, <2>10
        <3>2. NamesOf(writer.manifest) \subseteq Firm'
            BY <2>6, <2>7, <3>1 DEF Load, Reads, Firm
        <3>3. Preparing'
            BY <2>1, <2>2, <2>3, <3>1, <3>2 DEF Preparing, NamesOf
        <3> QED
            BY <1>1, <2>2, <2>5, <2>8, <2>9, <3>3, WriterStep
    <2>11. CASE Len(writer.todo) = 2
        <3>1. writer'.at = "load" /\ Len(writer'.todo) = 1 /\ writer'.todo[1] = writer.manifest
            BY <2>2, <2>3, <2>4, <2>11
        <3>2. Preparing'
            BY <2>1, <2>2, <2>3, <3>1 DEF Preparing
        <3> QED
            BY <1>1, <2>2, <2>5, <2>8, <2>9, <3>2, WriterStep
    <2> QED
        BY <2>2, <2>10, <2>11
<1> QED
    BY <1>2, <1>3

\* The journal names a manifest that is firm.
LEMMA PublishJournalCInv ==
    ASSUME CInv, PublishJournal
    PROVE  CInv'
<1>1. writer.at = "publish" /\ UNCHANGED <<phase, stager>>
    BY DEF PublishJournal
<1>2. CASE Refused
    BY <1>1, <1>2, RefusedCInv
<1>3. CASE ~Refused
    <2>1. /\ named' = Append(named, writer.manifest) /\ UNCHANGED disk
          /\ writer' = NoPrepare
        BY <1>3 DEF PublishJournal
    <2>2. /\ writer.manifest \in Manifest /\ NamesOf(writer.manifest) \subseteq Firm
          /\ Len(named) < 2 /\ named \in Seq(Manifest) /\ NamedFirm /\ phase = "running"
        BY <1>1, WriterFacts DEF Preparing
    <2>3. named' \in Seq(Manifest) /\ Len(named') <= 2
        BY <2>1, <2>2
    <2>4. Grown /\ disk'.torn \subseteq disk'.present
        BY <2>1, SameDisk
    <2>5. \A m \in Named' : m \in Named \/ m = writer.manifest
        BY <2>1, <2>2 DEF Named
    <2>6. NamedFirm'
        BY <2>1, <2>2, <2>5 DEF NamedFirm, NamesOf, Firm
    <2> QED
        BY <1>1, <2>1, <2>2, <2>3, <2>4, <2>6, IdleWriter, WriterStep
<1> QED
    BY <1>2, <1>3

\* Complete and Rollback leave one of the two manifests named.
LEMMA SettleCInv ==
    ASSUME CInv, Settle
    PROVE  CInv'
<1>1. PICK i \in 1..2 : named' = <<named[i]>>
    BY DEF Settle
<1>2. /\ phase = "running" /\ writer.at = "idle" /\ Len(named) = 2
      /\ UNCHANGED <<disk, phase, stager, writer>>
    BY DEF Settle
<1>3. named \in Seq(Manifest) /\ NamedFirm /\ Preparing /\ writer \in Preparation
    BY WriterFacts
<1>4. named[i] \in Manifest /\ named[i] \in Named
    BY <1>1, <1>2, <1>3, SMTT(30) DEF Named
<1>5. named' \in Seq(Manifest) /\ Len(named') <= 2 /\ Named' = {named[i]}
    BY <1>1, <1>4 DEF Named
<1>6. NamedFirm'
    BY <1>2, <1>3, <1>4, <1>5 DEF NamedFirm, NamesOf, Firm
<1>7. Grown /\ disk'.torn \subseteq disk'.present
    BY <1>2, SameDisk
<1>8. Preparing'
    BY <1>2 DEF Preparing
<1> QED
    BY <1>2, <1>3, <1>5, <1>6, <1>7, <1>8, WriterStep

-----------------------------------------------------------------------------
(* Crash and collection. *)

\* A crash leaves what is firm, and nobody at work.
LEMMA CrashCInv ==
    ASSUME CInv, Crash
    PROVE  CInv'
<1>1. PICK kept \in SUBSET ((disk.present \cup disk.entries) \ (disk.present \cap disk.entries)) :
        LET after == (disk.present \cap disk.entries) \cup kept
        IN  \E torn \in SUBSET (after \ disk.synced) :
              disk' = [present |-> after, entries |-> after, synced |-> after,
                       torn |-> (disk.torn \cap after) \cup torn,
                       stray |-> disk.stray \/ \E s \in Stager : stager[s].at \in {"temp", "whole"}]
    BY Zenon DEF Crash
<1> DEFINE after == (disk.present \cap disk.entries) \cup kept
           stray == disk.stray \/ \E s \in Stager : stager[s].at \in {"temp", "whole"}
<1>2. PICK torn \in SUBSET (after \ disk.synced) :
        disk' = [present |-> after, entries |-> after, synced |-> after,
                 torn |-> (disk.torn \cap after) \cup torn, stray |-> stray]
    BY <1>1, Zenon
<1>3. /\ phase' = "startup" /\ stager' = [s \in Stager |-> Idle] /\ writer' = NoPrepare
      /\ UNCHANGED named
    BY DEF Crash
<1>4. /\ disk \in Disk /\ NamedFirm /\ named \in Seq(Manifest) /\ Len(named) <= 2
    BY WriterFacts
<1>5. after \subseteq Name
    BY <1>4 DEF Disk
<1>6. stray \in BOOLEAN
    BY Zenon
<1> HIDE DEF stray
<1>7. /\ disk'.present = after /\ disk'.entries = after /\ disk'.synced = after
      /\ disk'.torn = (disk.torn \cap after) \cup torn
    BY <1>2
<1>8. disk'.torn \subseteq disk'.present
    BY <1>2, <1>7
<1>9. disk' \in Disk
    <2>1. (disk.torn \cap after) \cup torn \in SUBSET Name
        BY <1>5
    <2> QED
        BY <1>2, <1>5, <1>6, <2>1 DEF Disk
<1>10. Firm \subseteq Firm'
    BY <1>7 DEF Firm
<1>11. TypeOK'
    BY <1>3, <1>4, <1>9, IdleStaging, IdleWriter DEF TypeOK
<1>12. \A s \in Stager : stager'[s] = Idle
    BY <1>3
<1>13. QuietStart'
    BY <1>3, <1>12 DEF QuietStart
<1>14. NamedFirm'
    BY <1>3, <1>4, <1>10 DEF NamedFirm, NamesOf, Named
<1>15. StagedFirm'
    BY <1>12 DEF StagedFirm, Sound, Idle
<1>16. Preparing'
    BY <1>3, IdleWriter
<1> QED
    BY <1>8, <1>11, <1>13, <1>14, <1>15, <1>16 DEF CInv

\* What a step of the collection has to show.
LEMMA CollectStep ==
    ASSUME CInv, phase # "running", disk' \in Disk, disk'.torn \subseteq disk'.present,
           NamedFirm', phase' \in {"startup", "manifests", "objects", "running"},
           UNCHANGED <<named, stager, writer>>
    PROVE  CInv'
<1>1. TypeOK /\ (\A s \in Stager : stager[s] = Idle) /\ writer = NoPrepare
    BY DEF CInv, QuietStart
<1>2. TypeOK'
    BY <1>1 DEF TypeOK
<1>3. QuietStart'
    BY <1>1 DEF QuietStart
<1>4. StagedFirm'
    BY <1>1 DEF StagedFirm, Sound, Idle
<1>5. Preparing'
    BY <1>1, IdleWriter
<1> QED
    BY <1>2, <1>3, <1>4, <1>5 DEF CInv

\* Collect has loaded every live manifest.
LEMMA CollectBeginCInv ==
    ASSUME CInv, CollectBegin
    PROVE  CInv'
<1>1. phase = "startup" /\ phase' = "manifests" /\ UNCHANGED <<disk, named, stager, writer>>
    BY DEF CollectBegin
<1>2. Grown /\ disk'.torn \subseteq disk'.present
    BY <1>1, SameDisk
<1>3. NamedFirm' /\ disk' \in Disk
    BY <1>1, <1>2, SameRecords DEF Grown
<1> QED
    BY <1>1, <1>2, <1>3, CollectStep

\* A file the collection removes is of no named manifest: in the manifests'
\* phase it is another manifest, in the objects' phase an object none of them
\* names.
LEMMA DeadIsUnnamed ==
    ASSUME CInv, phase \in {"manifests", "objects"}, NEW f \in Dead, NEW m \in Named
    PROVE  f \notin NamesOf(m)
<1>1. m \in Manifest
    BY WriterFacts DEF Named
<1>2. NamesOf(m) = {m} \cup Entries[m] /\ Entries[m] \subseteq Object
    BY <1>1, NamesFacts
<1>3. CASE phase = "manifests"
    <2>1. f \in Manifest /\ f # m
        BY <1>3 DEF Dead, Live
    <2> QED
        BY <1>2, <2>1
<1>4. CASE phase = "objects"
    <2>1. f \in Object /\ f \notin Entries[m]
        BY <1>4 DEF Dead, LiveObjects, Live
    <2> QED
        BY <1>1, <1>2, <2>1
<1> QED
    BY <1>3, <1>4

\* One dead file is removed.
LEMMA CollectRemoveCInv ==
    ASSUME CInv, CollectRemove
    PROVE  CInv'
<1>1. PICK f \in Name :
        /\ phase \in {"manifests", "objects"} /\ f \in Dead \cap disk.present
        /\ disk' = [disk EXCEPT !.present = @ \ {f}, !.torn = @ \ {f}]
        /\ UNCHANGED <<named, phase, stager, writer>>
    BY Zenon DEF CollectRemove
<1>2. disk \in Disk /\ disk.torn \subseteq disk.present /\ NamedFirm
    BY WriterFacts
<1>3. /\ disk'.present = disk.present \ {f} /\ disk'.torn = disk.torn \ {f}
      /\ disk'.entries = disk.entries /\ disk'.synced = disk.synced
    BY <1>1, <1>2 DEF Disk
<1>4. disk' \in Disk
    BY <1>1, <1>2, Zenon DEF Disk
<1>5. disk'.torn \subseteq disk'.present
    BY <1>2, <1>3
<1>6. NamedFirm'
    <2> SUFFICES ASSUME NEW m \in Named
                 PROVE  NamesOf(m) \subseteq Firm'
        BY <1>1 DEF NamedFirm, Named, NamesOf
    <2>1. f \notin NamesOf(m)
        BY <1>1, DeadIsUnnamed
    <2>2. NamesOf(m) \subseteq Firm
        BY <1>2 DEF NamedFirm
    <2> QED
        BY <1>3, <2>1, <2>2 DEF Firm
<1> QED
    BY <1>1, <1>4, <1>5, <1>6, CollectStep

\* A directory is collected and synced.
LEMMA CollectSyncCInv ==
    ASSUME CInv, CollectSync
    PROVE  CInv'
<1> DEFINE x == IF phase = "manifests" THEN CHOOSE m \in Manifest : TRUE
                ELSE CHOOSE o \in Object : TRUE
           e == SyncDirectory(disk, x)
           stray == IF phase = "objects" THEN StrayAfter ELSE e.stray
<1>1. /\ phase \in {"manifests", "objects"} /\ phase' \in {"objects", "running"}
      /\ disk' = [e EXCEPT !.stray = stray]
      /\ UNCHANGED <<named, stager, writer>>
    BY DEF CollectSync
<1>2. disk \in Disk /\ disk.torn \subseteq disk.present /\ NamedFirm
    BY WriterFacts
<1>3. /\ e \in Disk /\ e.present = disk.present /\ e.synced = disk.synced /\ e.torn = disk.torn
      /\ disk.present \cap disk.entries \subseteq e.entries
    <2> HIDE DEF x
    <2> QED
        BY <1>2, SyncDirectoryFacts
<1>4. stray \in BOOLEAN
    BY <1>3, Zenon DEF Disk, StrayAfter
<1> HIDE DEF e, stray
<1>5. /\ disk'.present = disk.present /\ disk'.synced = disk.synced /\ disk'.torn = disk.torn
      /\ disk'.entries = e.entries /\ disk' \in Disk
    BY <1>1, <1>3, <1>4 DEF Disk
<1>6. Grown /\ disk'.torn \subseteq disk'.present
    BY <1>2, <1>3, <1>5 DEF Grown
<1>7. NamedFirm'
    BY <1>1, <1>6, SameRecords
<1> QED
    BY <1>1, <1>5, <1>6, <1>7, CollectStep

-----------------------------------------------------------------------------
(* The theorems. *)

\* An empty cache names nothing.
LEMMA InitCInv == Init => CInv
<1> SUFFICES ASSUME Init
             PROVE  CInv
    OBVIOUS
<1>1. disk.present = {} /\ disk.torn = {} /\ disk \in Disk
    BY DEF Init, Disk
<1>2. /\ named = <<>> /\ phase = "startup" /\ stager = [s \in Stager |-> Idle]
      /\ writer = NoPrepare
    BY DEF Init
<1>3. named \in Seq(Manifest) /\ Len(named) <= 2 /\ Named = {}
    BY <1>2 DEF Named
<1>4. writer \in Preparation /\ writer.at = "idle"
    BY <1>2 DEF NoPrepare, Preparation
<1>5. TypeOK
    BY <1>1, <1>2, <1>3, <1>4, IdleStaging DEF TypeOK
<1>6. QuietStart /\ StagedFirm
    BY <1>2 DEF QuietStart, StagedFirm, Sound, Idle
<1>7. NamedFirm /\ Preparing
    BY <1>3, <1>4 DEF NamedFirm, Preparing
<1> QED
    BY <1>1, <1>5, <1>6, <1>7 DEF CInv

\* Every step of the cache, and every crash, keeps the invariant.
LEMMA NextCInv == CInv /\ [Next]_vars => CInv'
<1> SUFFICES ASSUME CInv, [Next]_vars
             PROVE  CInv'
    OBVIOUS
<1>1. ASSUME NEW s \in Stager, NEW m \in Manifest, StageBegin(s, m)
      PROVE  CInv'
    BY <1>1, StageBeginCInv
<1>2. ASSUME NEW s \in Stager, StageFails(s) \/ Release(s)
      PROVE  CInv'
    <2>1. /\ stager[s].at # "idle" /\ Step(s, Idle)
          /\ UNCHANGED <<disk, named, phase, writer>>
        BY <1>2 DEF StageFails, Release
    <2> QED
        BY <2>1, IdleCInv
<1>3. ASSUME NEW s \in Stager, InstallExisting(s) \/ Rename(s) \/ SyncEntry(s)
      PROVE  CInv'
    BY <1>3, InstallExistingCInv, RenameCInv, SyncEntryCInv
<1>4. ASSUME NEW s \in Stager, WriteTemp(s) \/ SyncTemp(s)
      PROVE  CInv'
    BY <1>4, TempCInv
<1>5. ASSUME NEW s \in Stager, Prepare(s)
      PROVE  CInv'
    BY <1>5, PrepareCInv
<1>6. CASE StabilizeLoad \/ StabilizeFiles \/ StabilizeDirectories
    BY <1>6, StabilizeLoadCInv, StabilizeFilesCInv, StabilizeDirectoriesCInv
<1>7. CASE PublishJournal \/ Settle
    BY <1>7, PublishJournalCInv, SettleCInv
<1>8. CASE Crash
    BY <1>8, CrashCInv, SMTT(30)
<1>9. CASE CollectBegin \/ CollectRemove \/ CollectSync
    BY <1>9, CollectBeginCInv, CollectRemoveCInv, CollectSyncCInv
<1>10. CASE UNCHANGED vars
    BY <1>10 DEF vars, CInv, TypeOK, QuietStart, NamedFirm, StagedFirm, Sound, Preparing, Firm,
                 Named, Load, Reads, NamesOf
<1> QED
    BY <1>1, <1>2, <1>3, <1>4, <1>5, <1>6, <1>7, <1>8, <1>9, <1>10 DEF Next

\* Spec => []CInv: the files a record, a staged candidate or a prepared
\* transaction relies on are present, whole, synced and have synced directory
\* entries, in every state (cache.go's installImmutable, Stage, Stabilize and
\* Collect, with a crash between any two of their steps).
THEOREM CacheInvariant == Spec => []CInv
BY InitCInv, NextCInv, PTL DEF Spec

\* Every manifest a durable record names loads, for every set of manifests and
\* objects and every number of staging goroutines: Prepare stabilizes before it
\* publishes, and Collect removes nothing the records name.
THEOREM NamedAlwaysLoads == Spec => []NamedLoads
<1>1. CInv => NamedLoads
    <2> SUFFICES ASSUME CInv, NEW m \in Named
                 PROVE  Load(m)
        BY DEF NamedLoads
    <2>1. NamesOf(m) \subseteq Firm
        BY WriterFacts DEF NamedFirm
    <2> QED
        BY <2>1 DEF Load, Reads, Firm
<1> QED
    BY <1>1, CacheInvariant, PTL

\* What Stage returned survives a crash, whoever installed its files.
THEOREM StagedAlwaysDurable == Spec => []StagedIsDurable
<1>1. CInv => StagedIsDurable
    <2> SUFFICES ASSUME CInv, NEW s \in Stager, stager[s].at = "done"
                 PROVE  NamesOf(stager[s].manifest)
                            \subseteq disk.present \cap disk.entries \cap disk.synced
        BY DEF StagedIsDurable
    <2>1. NamesOf(stager[s].manifest) \subseteq Firm
        BY StagerFacts DEF Sound
    <2> QED
        BY <2>1 DEF Firm
<1> QED
    BY <1>1, CacheInvariant, PTL
=============================================================================
