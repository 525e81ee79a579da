---------------------------- MODULE ContextProofs ----------------------------
(***************************************************************************)
(* Proofs about what surrounds the live aircraft: the data directory, the  *)
(* routes of the callsigns seen, and the imported metadata with the caches *)
(* of it, for every value of their constants.                              *)
(*                                                                         *)
(* The data directory, for every bound on its writes and every             *)
(* distribution of crashes, failed moves, resets, backups and restores.    *)
(* What a restore promises depends on how far it came: at each of its      *)
(* phases the live and the preserved files are a function of the ones it   *)
(* found, the ones it stages, and the names already moved or placed        *)
(* (SwapInv).  What SQLite finds at the next start depends on what was     *)
(* live when the restore began (LogInv), and a reset survives one because  *)
(* a restore touches neither the marker nor the databases it condemns      *)
(* (DoomInv).                                                              *)
(*                                                                         *)
(* The parts after it say of each module what its invariant rests on.      *)
(***************************************************************************)
EXTENDS DataDirectory, RouteEnrichment, MetadataImport, FiniteSetTheorems, WellFoundedInduction, TLAPS

Entry == [id : Nat, upto : 0 .. MaxWrites]

\* The shape of the variables that the promises do not speak of, and the bounds of those they do.
CountShape   == zIds \in Nat /\ zWrites \in 0 .. MaxWrites /\ zMarker \in BOOLEAN
FileShape    == zFile \in [Files -> Entry] /\ zAside \in [Files -> Entry] /\ zWas \in [Files -> Entry]
RestoreShape ==
  zRestore \in [pc : {"idle", "aside", "place", "drop", "undo", "return", "done", "failed"},
                names : SUBSET Payload, todo : SUBSET Files, staged : [Files -> Entry],
                moved : SUBSET Files, placed : SUBSET Files]
AppShape     == zApp \in [pc : {"off", "reset", "open", "up"},
                          todo : {<<>>, <<"marker">>, <<Wal, "marker">>, <<Database, Wal, "marker">>}]
BackupShape  ==
  /\ zBackup \in [pc : {"idle", "copy"}, secrets : BOOLEAN, took : 0 .. MaxWrites]
  /\ DOMAIN zArchive \subseteq Payload
  /\ \A name \in DOMAIN zArchive : zArchive[name] \in 0 .. MaxWrites
ShapeInv == CountShape /\ FileShape /\ RestoreShape /\ AppShape /\ BackupShape

\* Identities are given out in order; only a file that is absent has none.
IdInv ==
  /\ zIds >= 1
  /\ \A name \in Files : zFile[name].id <= zIds /\ zAside[name].id <= zIds
  /\ zFile[Database] # Absent => zFile[Database].id # 0
  /\ zDoomed \subseteq 1 .. zIds

\* The process, and what applying a reset has deleted so far.
AppInv ==
  /\ zApp.pc = "reset" =>
       /\ zMarker /\ zApp.todo # <<>>
       /\ zApp.todo # ResetOrder(zFile) => zFile[Database] = Absent
       /\ zApp.todo = <<"marker">> => zFile[Wal] = Absent
  /\ zApp.pc = "up" => Exists(Database)

\* A restore runs alone: the process is off, no backup is under way, and so the archive it reads is complete.
AloneInv ==
  /\ zRestore.pc # "idle" => zApp.pc = "off" /\ zBackup.pc = "idle" /\ Database \in DOMAIN zArchive
  /\ zCut => zApp.pc = "off" /\ zRestore.pc = "idle"

\* What a restore was started with.
Found == {name \in MoveFirst(zRestore.names) : zWas[name] # Absent}
StagedInv ==
  zRestore.pc \in {"aside", "place", "drop", "undo", "return"} =>
    /\ zRestore.names = DOMAIN zArchive
    /\ \A name \in zRestore.names : zRestore.staged[name].upto = zArchive[name]
    /\ zRestore.staged[Database].id \in 1 .. zIds
    /\ zWas[Database] # Absent => zWas[Database].id # 0
    /\ \A name \in Files : zRestore.staged[name].id <= zIds /\ zWas[name].id <= zIds
    /\ zRestore.moved \subseteq Found

\* Live and preserved, name by name, in each phase of the swap and of its rollback.
Untouched(name) == zFile[name] = zWas[name] /\ zAside[name] = Absent
Preserved(name) == zFile[name] = Absent /\ zAside[name] = zWas[name]
Installed(name) == zFile[name] = zRestore.staged[name]
SwapInv ==
  /\ zRestore.pc = "aside" =>
       /\ zRestore.todo = Found \ zRestore.moved /\ zRestore.placed = {}
       /\ \A name \in zRestore.moved : Preserved(name)
       /\ \A name \in Files \ zRestore.moved : Untouched(name)
  /\ zRestore.pc = "place" =>
       /\ zRestore.todo = zRestore.names \ zRestore.placed /\ zRestore.placed \subseteq zRestore.names
       /\ zRestore.moved = Found
       /\ \A name \in zRestore.placed : Installed(name)
       /\ \A name \in Files \ zRestore.placed :
            zFile[name] = IF name \in zRestore.moved THEN Absent ELSE zWas[name]
       /\ \A name \in Files : zAside[name] = IF name \in zRestore.moved THEN zWas[name] ELSE Absent
  /\ zRestore.pc = "drop" =>
       /\ \A name \in zRestore.names : Installed(name)
       /\ zFile[Wal] = Absent
       /\ \A name \in Settings \ zRestore.names : zFile[name] = zWas[name]
       /\ \A name \in Files \ zRestore.todo : zAside[name] = Absent
  /\ zRestore.pc = "undo" =>
       /\ zRestore.todo \subseteq zRestore.placed /\ zRestore.placed \subseteq zRestore.names
       /\ zRestore.placed = {} \/ zRestore.moved = Found
       /\ \A name \in zRestore.todo : Installed(name)
       /\ \A name \in Files \ zRestore.todo :
            zFile[name] = IF name \in zRestore.moved THEN Absent ELSE zWas[name]
       /\ \A name \in Files : zAside[name] = IF name \in zRestore.moved THEN zWas[name] ELSE Absent
  /\ zRestore.pc = "return" =>
       /\ zRestore.todo \subseteq zRestore.moved
       /\ \A name \in zRestore.todo : Preserved(name)
       /\ \A name \in Files \ zRestore.todo : Untouched(name)

\* A log lies beside its own database, or beside none; that goes for what a restore found too.
OwnLog(files) == files[Wal].id # 0 /\ files[Database] # Absent => files[Wal].id = files[Database].id
LogInv == OwnLog(zFile) /\ (zRestore.pc # "idle" => OwnLog(zWas))

\* Without a marker no condemned database is live, and a restore that is under way has none to bring back.
DoomInv ==
  zMarker \/ /\ zFile[Database].id \notin zDoomed
             /\ zRestore.pc \in {"aside", "place", "drop", "undo", "return"} =>
                  zWas[Database].id \notin zDoomed /\ zRestore.staged[Database].id \notin zDoomed

\* The outcomes are told of the files that are there, and a cut restore has lost none.
OutcomeInv == FailureUndone /\ RestoreInstalled /\ (zCut => NothingIsLost)

DirectoryInv ==
  /\ ShapeInv /\ IdInv /\ AppInv /\ AloneInv /\ StagedInv
  /\ SwapInv /\ LogInv /\ DoomInv /\ OutcomeInv
-----------------------------------------------------------------------------
\* A list that is not empty has a first member (PAYLOAD_MEMBERS, then the sidecars).
LEMMA ForemostIn ==
  ASSUME NEW names \in SUBSET Files, names # {}
  PROVE  Foremost(names) \in names
<1>1. /\ Earlier(Database) = {} /\ Earlier("config.yaml") = {Database}
      /\ Earlier("secrets.yaml") = {Database, "config.yaml"} /\ Earlier(Wal) = Payload
  BY DEF Earlier, Database, Wal
<1>2. \E name \in names : Earlier(name) \cap names = {}
  <2>1. CASE Database \in names
    BY <1>1, <2>1
  <2>2. CASE Database \notin names /\ "config.yaml" \in names
    BY <1>1, <2>2
  <2>3. CASE Database \notin names /\ "config.yaml" \notin names /\ "secrets.yaml" \in names
    BY <1>1, <2>3
  <2>4. CASE names \cap Payload = {}
    BY <1>1, <2>4 DEF Files
  <2>5. QED
    BY <2>1, <2>2, <2>3, <2>4 DEF Payload, Settings
<1>3. QED
  BY <1>2 DEF Foremost

\* What the names stand for: from here on their spelling does not matter.
LEMMA Naming ==
  /\ Database \in Payload /\ Database \notin Settings /\ Settings \subseteq Payload /\ Wal \notin Payload
  /\ Payload \subseteq Files /\ Wal \in Files /\ Files = Payload \cup {Wal} /\ Payload = {Database} \cup Settings
  /\ Absent.id = 0 /\ Absent.upto = 0
  /\ \A name \in Files : Nowhere[name] = Absent
<1>1. /\ Absent.id = 0 /\ Absent.upto = 0
      /\ \A name \in Files : Nowhere[name] = Absent
  BY DEF Absent, Nowhere
<1>2. Files = Payload \cup {Wal} /\ Payload = {Database} \cup Settings
  BY DEF Files, Payload
<1>3. Database \notin Settings /\ Wal \notin Settings /\ Wal # Database
  BY DEF Settings, Database, Wal
<1>4. QED
  BY <1>1, <1>2, <1>3

\* The empty entry and the empty directory have the shape of entries and directories.
LEMMA EmptyEntries ==
  ASSUME DirectoryConstants
  PROVE  Absent \in Entry /\ Nowhere \in [Files -> Entry]
BY DEF DirectoryConstants, Absent, Nowhere, Entry

\* What SQLite reads, and what it leaves when the last connection closes, are entries of their own shape.
LEMMA FoldedShape ==
  ASSUME DirectoryConstants, FileShape
  PROVE  /\ Read(zFile) \in 0 .. MaxWrites
         /\ Folded \in [Files -> Entry]
         /\ Folded[Wal] = Absent /\ Folded[Database].id = zFile[Database].id
         /\ \A name \in Settings : Folded[name] = zFile[name]
<1>1. zFile[Database] \in Entry /\ zFile[Wal] \in Entry
  BY Naming DEF FileShape
<1>2. Read(zFile) \in 0 .. MaxWrites
  BY <1>1 DEF Read, Entry
<1> DEFINE r == Read(zFile)
           d == [zFile[Database] EXCEPT !.upto = r]
<1>3. r \in 0 .. MaxWrites
  BY <1>2
<1> HIDE DEF r
<1>4. d \in Entry /\ d.id = zFile[Database].id
  BY <1>1, <1>3 DEF Entry
<1>5. Folded = [[zFile EXCEPT ![Database] = d] EXCEPT ![Wal] = Absent]
  BY DEF Folded, r
<1> HIDE DEF d
<1>6. QED
  BY <1>2, <1>4, <1>5, Naming, EmptyEntries DEF FileShape

\* Every step keeps the shape.
LEMMA ShapeStep ==
  ASSUME DirectoryConstants, DirectoryInv, DirectoryNext
  PROVE  ShapeInv'
<1> USE DirectoryConstants, Naming, EmptyEntries
<1>0. CountShape /\ FileShape /\ RestoreShape /\ AppShape /\ BackupShape
  BY DEF DirectoryInv, ShapeInv
<1>1. CASE BootApp
  <2>1. CountShape' /\ FileShape' /\ RestoreShape' /\ BackupShape'
    BY <1>0, <1>1 DEF BootApp, zTool, CountShape, FileShape, RestoreShape, BackupShape
  <2>2. AppShape'
    BY <1>0, <1>1, ForemostIn DEF BootApp, zTool, AppShape, Asleep, ResetOrder
  <2>3. QED
    BY <2>1, <2>2 DEF ShapeInv
<1>2. CASE ApplyReset
  <2>1. RestoreShape' /\ BackupShape'
    BY <1>0, <1>2 DEF ApplyReset, zTool, RestoreShape, BackupShape
  <2>2. CountShape'
    BY <1>0, <1>2, ForemostIn DEF ApplyReset, zTool, CountShape
  <2>3. FileShape'
    BY <1>0, <1>2, ForemostIn DEF ApplyReset, zTool, FileShape
  <2>4. AppShape'
    <3>1. CASE Len(zApp.todo) = 1
      BY <1>0, <1>2, <3>1 DEF ApplyReset, AppShape
    <3>2. CASE Len(zApp.todo) # 1
      <4>1. zApp' = [zApp EXCEPT !.todo = Tail(@)]
        BY <1>2, <3>2 DEF ApplyReset
      <4>2. Tail(zApp.todo) \in {<<>>, <<"marker">>, <<Wal, "marker">>, <<Database, Wal, "marker">>}
        <5>1. CASE zApp.todo = <<Wal, "marker">>
          BY <5>1
        <5>2. CASE zApp.todo = <<Database, Wal, "marker">>
          BY <5>2
        <5>3. zApp.todo # <<>>
          BY <1>0, <1>2 DEF DirectoryInv, AppInv, ApplyReset
        <5>4. zApp.todo # <<"marker">>
          BY <3>2
        <5>5. QED
          BY <1>0, <5>1, <5>2, <5>3, <5>4 DEF AppShape
      <4>3. QED
        BY <1>0, <4>1, <4>2 DEF AppShape
    <3>3. QED
      BY <3>1, <3>2
  <2>5. QED
    BY <2>1, <2>2, <2>3, <2>4 DEF ShapeInv
<1>3. CASE OpenDatabase
  <2>1. RestoreShape' /\ BackupShape'
    BY <1>0, <1>3 DEF OpenDatabase, zTool, RestoreShape, BackupShape
  <2>2. CountShape'
    BY <1>0, <1>3, ForemostIn DEF OpenDatabase, zTool, CountShape
  <2>3. FileShape'
    <3>1. [id |-> zIds + 1, upto |-> 0] \in Entry
      BY <1>0 DEF Entry, CountShape, DirectoryConstants
    <3>2. QED
      BY <1>0, <1>3, <3>1 DEF OpenDatabase, FileShape, zTool
  <2>4. AppShape'
    BY <1>0, <1>3, ForemostIn DEF OpenDatabase, zTool, AppShape, Asleep, ResetOrder
  <2>5. QED
    BY <2>1, <2>2, <2>3, <2>4 DEF ShapeInv
<1>4. CASE CommitWrite
  <2>1. RestoreShape' /\ AppShape' /\ BackupShape'
    BY <1>0, <1>4 DEF CommitWrite, zTool, RestoreShape, AppShape, BackupShape
  <2>2. CountShape'
    BY <1>0, <1>4, ForemostIn DEF CommitWrite, zTool, CountShape
  <2>3. FileShape'
    <3>1. zFile[Database].id \in Nat
      BY <1>0 DEF FileShape, Entry
    <3>2. [id |-> zFile[Database].id, upto |-> zWrites + 1] \in Entry
      BY <1>0, <1>4, <3>1 DEF CommitWrite, Entry, CountShape, DirectoryConstants
    <3>3. QED
      BY <1>0, <1>4, <3>2 DEF CommitWrite, FileShape, zTool
  <2>4. QED
    BY <2>1, <2>2, <2>3 DEF ShapeInv
<1>5. ASSUME NEW name \in Files, SaveFile(name) PROVE ShapeInv'
  <2>1. RestoreShape' /\ AppShape' /\ BackupShape'
    BY <1>0, <1>5 DEF SaveFile, zTool, RestoreShape, AppShape, BackupShape
  <2>2. CountShape'
    BY <1>0, <1>5, ForemostIn DEF SaveFile, zTool, CountShape
  <2>3. FileShape'
    <3>1. [id |-> 1, upto |-> zWrites + 1] \in Entry
      BY <1>0, <1>5 DEF SaveFile, Entry, CountShape, DirectoryConstants
    <3>2. QED
      BY <1>0, <1>5, <3>1 DEF SaveFile, FileShape, zTool
  <2>4. QED
    BY <2>1, <2>2, <2>3 DEF ShapeInv
<1>6. CASE RequestReset
  <2>1. FileShape' /\ RestoreShape' /\ AppShape' /\ BackupShape'
    BY <1>0, <1>6 DEF RequestReset, zTool, FileShape, RestoreShape, AppShape, BackupShape
  <2>2. CountShape'
    BY <1>0, <1>6, ForemostIn DEF RequestReset, zTool, CountShape
  <2>3. QED
    BY <2>1, <2>2 DEF ShapeInv
<1>7. CASE StopApp
  <2>1. CountShape' /\ RestoreShape' /\ BackupShape'
    BY <1>0, <1>7 DEF StopApp, zTool, CountShape, RestoreShape, BackupShape
  <2>2. FileShape'
    BY <1>0, <1>7, FoldedShape DEF StopApp, FileShape, zTool
  <2>3. AppShape'
    BY <1>0, <1>7, ForemostIn DEF StopApp, zTool, AppShape, Asleep, ResetOrder
  <2>4. QED
    BY <2>1, <2>2, <2>3 DEF ShapeInv
<1>8. CASE CrashApp
  <2>1. CountShape' /\ FileShape' /\ RestoreShape' /\ BackupShape'
    BY <1>0, <1>8 DEF CrashApp, zTool, CountShape, FileShape, RestoreShape, BackupShape
  <2>2. AppShape'
    BY <1>0, <1>8, ForemostIn DEF CrashApp, zTool, AppShape, Asleep, ResetOrder
  <2>3. QED
    BY <2>1, <2>2 DEF ShapeInv
<1>9. ASSUME NEW secrets \in BOOLEAN, TakeSnapshot(secrets) PROVE ShapeInv'
  <2>1. CountShape' /\ RestoreShape' /\ AppShape'
    BY <1>0, <1>9 DEF TakeSnapshot, zTool, CountShape, RestoreShape, AppShape
  <2>2. FileShape'
    BY <1>0, <1>9, FoldedShape DEF TakeSnapshot, FileShape, zTool
  <2>3. BackupShape'
    <3>1. Read(zFile) \in 0 .. MaxWrites
      BY <1>0, FoldedShape
    <3>2. QED
      BY <1>0, <1>9, <3>1 DEF TakeSnapshot, BackupShape
  <2>4. QED
    BY <2>1, <2>2, <2>3 DEF ShapeInv
<1>10. CASE WriteArchive
  <2>1. CountShape' /\ FileShape' /\ RestoreShape' /\ AppShape'
    BY <1>0, <1>10 DEF WriteArchive, zTool, CountShape, FileShape, RestoreShape, AppShape
  <2>2. BackupShape'
    <3>1. \A name \in Files : zFile[name].upto \in 0 .. MaxWrites
      BY <1>0 DEF FileShape, Entry
    <3>2. zBackup.took \in 0 .. MaxWrites
      BY <1>0 DEF BackupShape
    <3>3. zBackup' \in [pc : {"idle", "copy"}, secrets : BOOLEAN, took : 0 .. MaxWrites]
      BY <1>10 DEF WriteArchive, NoBackup, DirectoryConstants
    <3> DEFINE extra == {name \in Settings : Exists(name) /\ (name = "secrets.yaml" => zBackup.secrets)}
    <3>4. zArchive' = [name \in {Database} \cup extra |-> IF name = Database THEN zBackup.took ELSE zFile[name].upto]
      BY <1>10 DEF WriteArchive
    <3>5. extra \subseteq Settings
      OBVIOUS
    <3> HIDE DEF extra
    <3>6. DOMAIN zArchive' \subseteq Payload
      BY <3>4, <3>5
    <3>7. \A name \in DOMAIN zArchive' : zArchive'[name] \in 0 .. MaxWrites
      BY <3>1, <3>2, <3>4, <3>5
    <3>8. QED
      BY <3>3, <3>6, <3>7 DEF BackupShape
  <2>3. QED
    BY <2>1, <2>2 DEF ShapeInv
<1>11. CASE StageRestore
  <2>1. AppShape' /\ BackupShape'
    BY <1>0, <1>11 DEF StageRestore, zTool, AppShape, BackupShape
  <2>2. CountShape'
    BY <1>0, <1>11, ForemostIn DEF StageRestore, zTool, CountShape
  <2>3. FileShape'
    BY <1>0, <1>11, ForemostIn DEF StageRestore, zTool, FileShape
  <2>4. RestoreShape'
    <3> DEFINE todo == {name \in MoveFirst(DOMAIN zArchive) : Exists(name)}
               staged == [name \in Files |->
                            IF name \notin DOMAIN zArchive THEN Absent
                            ELSE [id |-> IF name = Database THEN zIds + 1 ELSE 1, upto |-> zArchive[name]]]
    <3>1. zRestore' = [NoRestore EXCEPT !.pc = "aside", !.names = DOMAIN zArchive, !.todo = todo, !.staged = staged]
      BY <1>11 DEF StageRestore
    <3>2. todo \subseteq Files /\ DOMAIN zArchive \subseteq Payload
      BY <1>0 DEF BackupShape, MoveFirst
    <3>3. staged \in [Files -> Entry]
      BY <1>0 DEF BackupShape, CountShape, Entry
    <3> HIDE DEF todo, staged
    <3>4. QED
      BY <3>1, <3>2, <3>3 DEF RestoreShape, NoRestore
  <2>5. QED
    BY <2>1, <2>2, <2>3, <2>4 DEF ShapeInv
<1>12. CASE MoveAside
  <2>1. CountShape' /\ AppShape' /\ BackupShape'
    BY <1>0, <1>12 DEF MoveAside, zTool, CountShape, AppShape, BackupShape
  <2>2. FileShape'
    BY <1>0, <1>12, ForemostIn DEF MoveAside, zTool, FileShape
  <2>3. RestoreShape'
    <3>1. CASE zRestore.todo = {}
      <4>1. zRestore' = [zRestore EXCEPT !.pc = "place", !.todo = zRestore.names]
        BY <1>12, <3>1 DEF MoveAside
      <4>2. QED
        BY <1>0, <4>1 DEF RestoreShape
    <3>2. CASE zRestore.todo # {}
      <4> DEFINE n == Foremost(zRestore.todo)
      <4>1. n \in Files
        BY <1>0, <3>2, ForemostIn DEF RestoreShape
      <4>2. zRestore' = [zRestore EXCEPT !.todo = @ \ {n}, !.moved = @ \cup {n}]
        BY <1>12, <3>2 DEF MoveAside
      <4> HIDE DEF n
      <4>3. QED
        BY <1>0, <4>1, <4>2 DEF RestoreShape
    <3>3. QED
      BY <3>1, <3>2
  <2>4. QED
    BY <2>1, <2>2, <2>3 DEF ShapeInv
<1>13. CASE PlaceStaged
  <2>1. CountShape' /\ AppShape' /\ BackupShape'
    BY <1>0, <1>13 DEF PlaceStaged, zTool, CountShape, AppShape, BackupShape
  <2>2. FileShape'
    <3>1. \A name \in Files : zRestore.staged[name] \in Entry
      BY <1>0 DEF RestoreShape
    <3>2. QED
      BY <1>0, <1>13, <3>1, ForemostIn DEF PlaceStaged, FileShape
  <2>3. RestoreShape'
    <3>1. CASE zRestore.todo = {}
      <4>1. zRestore' = [zRestore EXCEPT !.pc = "drop", !.todo = zRestore.moved]
        BY <1>13, <3>1 DEF PlaceStaged
      <4>2. QED
        BY <1>0, <4>1 DEF RestoreShape
    <3>2. CASE zRestore.todo # {}
      <4> DEFINE n == Foremost(zRestore.todo)
      <4>1. n \in Files
        BY <1>0, <3>2, ForemostIn DEF RestoreShape
      <4>2. zRestore' = [zRestore EXCEPT !.todo = @ \ {n}, !.placed = @ \cup {n}]
        BY <1>13, <3>2 DEF PlaceStaged
      <4> HIDE DEF n
      <4>3. QED
        BY <1>0, <4>1, <4>2 DEF RestoreShape
    <3>3. QED
      BY <3>1, <3>2
  <2>4. QED
    BY <2>1, <2>2, <2>3 DEF ShapeInv
<1>14. CASE DropPreserved
  <2>1. CountShape' /\ AppShape' /\ BackupShape'
    BY <1>0, <1>14 DEF DropPreserved, zTool, CountShape, AppShape, BackupShape
  <2>2. FileShape'
    BY <1>0, <1>14, ForemostIn DEF DropPreserved, zTool, FileShape
  <2>3. RestoreShape'
    BY <1>0, <1>14, ForemostIn DEF DropPreserved, zTool, RestoreShape, NoRestore, MoveFirst
  <2>4. QED
    BY <2>1, <2>2, <2>3 DEF ShapeInv
<1>15. CASE SwapFails
  <2>1. CountShape' /\ FileShape' /\ AppShape' /\ BackupShape'
    BY <1>0, <1>15 DEF SwapFails, zTool, CountShape, FileShape, AppShape, BackupShape
  <2>2. RestoreShape'
    BY <1>0, <1>15, ForemostIn DEF SwapFails, zTool, RestoreShape, NoRestore, MoveFirst
  <2>3. QED
    BY <2>1, <2>2 DEF ShapeInv
<1>16. CASE RollBackPlaced
  <2>1. CountShape' /\ AppShape' /\ BackupShape'
    BY <1>0, <1>16 DEF RollBackPlaced, zTool, CountShape, AppShape, BackupShape
  <2>2. FileShape'
    BY <1>0, <1>16, ForemostIn DEF RollBackPlaced, zTool, FileShape
  <2>3. RestoreShape'
    <3>1. CASE zRestore.todo = {}
      <4>1. zRestore' = [zRestore EXCEPT !.pc = "return", !.todo = zRestore.moved]
        BY <1>16, <3>1 DEF RollBackPlaced
      <4>2. QED
        BY <1>0, <4>1 DEF RestoreShape
    <3>2. CASE zRestore.todo # {}
      <4> DEFINE n == Foremost(zRestore.todo)
      <4>1. n \in Files
        BY <1>0, <3>2, ForemostIn DEF RestoreShape
      <4>2. zRestore' = [zRestore EXCEPT !.todo = @ \ {n}]
        BY <1>16, <3>2 DEF RollBackPlaced
      <4> HIDE DEF n
      <4>3. QED
        BY <1>0, <4>1, <4>2 DEF RestoreShape
    <3>3. QED
      BY <3>1, <3>2
  <2>4. QED
    BY <2>1, <2>2, <2>3 DEF ShapeInv
<1>17. CASE RollBackMoved
  <2>1. CountShape' /\ AppShape' /\ BackupShape'
    BY <1>0, <1>17 DEF RollBackMoved, zTool, CountShape, AppShape, BackupShape
  <2>2. FileShape'
    BY <1>0, <1>17, ForemostIn DEF RollBackMoved, zTool, FileShape
  <2>3. RestoreShape'
    BY <1>0, <1>17, ForemostIn DEF RollBackMoved, zTool, RestoreShape, NoRestore, MoveFirst
  <2>4. QED
    BY <2>1, <2>2, <2>3 DEF ShapeInv
<1>18. CASE EndRestore
  <2>1. CountShape' /\ FileShape' /\ AppShape' /\ BackupShape'
    BY <1>0, <1>18 DEF EndRestore, zTool, CountShape, FileShape, AppShape, BackupShape
  <2>2. RestoreShape'
    BY <1>0, <1>18, ForemostIn DEF EndRestore, zTool, RestoreShape, NoRestore, MoveFirst
  <2>3. QED
    BY <2>1, <2>2 DEF ShapeInv
<1>19. CASE CrashRestore
  <2>1. CountShape' /\ FileShape' /\ AppShape' /\ BackupShape'
    BY <1>0, <1>19 DEF CrashRestore, zTool, CountShape, FileShape, AppShape, BackupShape
  <2>2. RestoreShape'
    BY <1>0, <1>19, ForemostIn DEF CrashRestore, zTool, RestoreShape, NoRestore, MoveFirst
  <2>3. QED
    BY <2>1, <2>2 DEF ShapeInv
<1>20. QED
  BY <1>1, <1>2, <1>3, <1>4, <1>5, <1>6, <1>7, <1>8, <1>9, <1>10, <1>11, <1>12, <1>13, <1>14, <1>15,
     <1>16, <1>17, <1>18, <1>19 DEF DirectoryNext

\* The steps of the process and of a backup.
Outside == \/ BootApp \/ ApplyReset \/ OpenDatabase \/ CommitWrite \/ (\E name \in Files : SaveFile(name))
           \/ RequestReset \/ StopApp \/ CrashApp
           \/ (\E secrets \in BOOLEAN : TakeSnapshot(secrets)) \/ WriteArchive

\* Nothing else runs while a restore does, so its own bookkeeping is untouched by the others.
LEMMA OthersLeaveIt ==
  ASSUME ShapeInv, AloneInv, Outside
  PROVE  zRestore.pc = "idle" /\ zRestore' = zRestore /\ zWas' = zWas /\ zAside' = zAside
<1> USE DEF AloneInv, zTool
<1>1. zRestore' = zRestore /\ zWas' = zWas /\ zAside' = zAside
  BY DEF Outside, BootApp, ApplyReset, OpenDatabase, CommitWrite, SaveFile, RequestReset, StopApp, CrashApp,
         TakeSnapshot, WriteArchive
<1>2. zRestore.pc = "idle"
  BY DEF Outside, BootApp, ApplyReset, OpenDatabase, CommitWrite, SaveFile, RequestReset, StopApp, CrashApp,
         TakeSnapshot, WriteArchive
<1>3. QED
  BY <1>1, <1>2

\* One move of the swap or of its rollback: the phase ends, or one name is done.
LEMMA MoveAsideDoes ==
  ASSUME DirectoryConstants, ShapeInv, MoveAside
  PROVE  /\ zRestore.pc = "aside" /\ zRestore'.names = zRestore.names /\ zRestore'.staged = zRestore.staged
         /\ zRestore'.placed = zRestore.placed
         /\ \/ /\ zRestore.todo = {} /\ zRestore'.pc = "place" /\ zRestore'.todo = zRestore.names
               /\ zRestore'.moved = zRestore.moved /\ UNCHANGED <<zFile, zAside>>
            \/ \E name \in zRestore.todo :
                 /\ zRestore'.pc = "aside" /\ zRestore'.todo = zRestore.todo \ {name}
                 /\ zRestore'.moved = zRestore.moved \cup {name}
                 /\ zFile' = [zFile EXCEPT ![name] = Absent]
                 /\ zAside' = [zAside EXCEPT ![name] = zFile[name]]
<1>0. RestoreShape
  BY DEF ShapeInv
<1>1. CASE zRestore.todo = {}
  BY <1>0, <1>1 DEF MoveAside, RestoreShape
<1>2. CASE zRestore.todo # {}
  <2>1. Foremost(zRestore.todo) \in zRestore.todo
    BY <1>0, <1>2, ForemostIn DEF RestoreShape
  <2>2. QED
    BY <1>0, <1>2, <2>1 DEF MoveAside, RestoreShape
<1>3. QED
  BY <1>1, <1>2

\* The next staged file is placed (_swap).
LEMMA PlaceStagedDoes ==
  ASSUME DirectoryConstants, ShapeInv, PlaceStaged
  PROVE  /\ zRestore.pc = "place" /\ zRestore'.names = zRestore.names /\ zRestore'.staged = zRestore.staged
         /\ zRestore'.moved = zRestore.moved /\ zAside' = zAside
         /\ \/ /\ zRestore.todo = {} /\ zRestore'.pc = "drop" /\ zRestore'.todo = zRestore.moved
               /\ zRestore'.placed = zRestore.placed /\ zFile' = zFile
            \/ \E name \in zRestore.todo :
                 /\ zRestore'.pc = "place" /\ zRestore'.todo = zRestore.todo \ {name}
                 /\ zRestore'.placed = zRestore.placed \cup {name}
                 /\ zFile' = [zFile EXCEPT ![name] = zRestore.staged[name]]
<1>0. RestoreShape
  BY DEF ShapeInv
<1>1. CASE zRestore.todo = {}
  BY <1>0, <1>1 DEF PlaceStaged, RestoreShape
<1>2. CASE zRestore.todo # {}
  <2>1. Foremost(zRestore.todo) \in zRestore.todo
    BY <1>0, <1>2, ForemostIn DEF RestoreShape
  <2>2. QED
    BY <1>0, <1>2, <2>1 DEF PlaceStaged, RestoreShape
<1>3. QED
  BY <1>1, <1>2

\* The next preserved copy is deleted, or the restore is through (_swap).
LEMMA DropPreservedDoes ==
  ASSUME DirectoryConstants, ShapeInv, DropPreserved
  PROVE  /\ zRestore.pc = "drop" /\ zFile' = zFile
         /\ \/ zRestore.todo = {} /\ zRestore'.pc = "done" /\ zAside' = zAside
            \/ \E name \in zRestore.todo :
                 /\ zRestore'.pc = "drop" /\ zRestore'.todo = zRestore.todo \ {name}
                 /\ zRestore'.names = zRestore.names /\ zRestore'.staged = zRestore.staged
                 /\ zRestore'.moved = zRestore.moved /\ zRestore'.placed = zRestore.placed
                 /\ zAside' = [zAside EXCEPT ![name] = Absent]
<1>0. RestoreShape
  BY DEF ShapeInv
<1>1. CASE zRestore.todo = {}
  BY <1>0, <1>1 DEF DropPreserved, RestoreShape, NoRestore
<1>2. CASE zRestore.todo # {}
  <2>1. Foremost(zRestore.todo) \in zRestore.todo
    BY <1>0, <1>2, ForemostIn DEF RestoreShape
  <2>2. QED
    BY <1>0, <1>2, <2>1 DEF DropPreserved, RestoreShape
<1>3. QED
  BY <1>1, <1>2

\* The next placed file is taken away again (_roll_back).
LEMMA RollBackPlacedDoes ==
  ASSUME DirectoryConstants, ShapeInv, RollBackPlaced
  PROVE  /\ zRestore.pc = "undo" /\ zRestore'.names = zRestore.names /\ zRestore'.staged = zRestore.staged
         /\ zRestore'.moved = zRestore.moved /\ zRestore'.placed = zRestore.placed /\ zAside' = zAside
         /\ \/ /\ zRestore.todo = {} /\ zRestore'.pc = "return" /\ zRestore'.todo = zRestore.moved /\ zFile' = zFile
            \/ \E name \in zRestore.todo :
                 /\ zRestore'.pc = "undo" /\ zRestore'.todo = zRestore.todo \ {name}
                 /\ zFile' = [zFile EXCEPT ![name] = Absent]
<1>0. RestoreShape
  BY DEF ShapeInv
<1>1. CASE zRestore.todo = {}
  BY <1>0, <1>1 DEF RollBackPlaced, RestoreShape
<1>2. CASE zRestore.todo # {}
  <2>1. Foremost(zRestore.todo) \in zRestore.todo
    BY <1>0, <1>2, ForemostIn DEF RestoreShape
  <2>2. QED
    BY <1>0, <1>2, <2>1 DEF RollBackPlaced, RestoreShape
<1>3. QED
  BY <1>1, <1>2

\* The next preserved file is put back, or the restore has failed (_roll_back).
LEMMA RollBackMovedDoes ==
  ASSUME DirectoryConstants, ShapeInv, RollBackMoved
  PROVE  /\ zRestore.pc = "return"
         /\ \/ zRestore.todo = {} /\ zRestore'.pc = "failed" /\ UNCHANGED <<zFile, zAside>>
            \/ \E name \in zRestore.todo :
                 /\ zRestore'.pc = "return" /\ zRestore'.todo = zRestore.todo \ {name}
                 /\ zRestore'.names = zRestore.names /\ zRestore'.staged = zRestore.staged
                 /\ zRestore'.moved = zRestore.moved /\ zRestore'.placed = zRestore.placed
                 /\ zFile' = [zFile EXCEPT ![name] = zAside[name]]
                 /\ zAside' = [zAside EXCEPT ![name] = Absent]
<1>0. RestoreShape
  BY DEF ShapeInv
<1>1. CASE zRestore.todo = {}
  BY <1>0, <1>1 DEF RollBackMoved, RestoreShape, NoRestore
<1>2. CASE zRestore.todo # {}
  <2>1. Foremost(zRestore.todo) \in zRestore.todo
    BY <1>0, <1>2, ForemostIn DEF RestoreShape
  <2>2. QED
    BY <1>0, <1>2, <2>1 DEF RollBackMoved, RestoreShape
<1>3. QED
  BY <1>1, <1>2

\* The process stays what its own steps made it (create_app, apply_pending_reset, initialize_database).
LEMMA AppStep ==
  ASSUME DirectoryConstants, DirectoryInv, DirectoryNext
  PROVE  AppInv'
<1>0. /\ CountShape /\ FileShape /\ RestoreShape /\ AppShape /\ BackupShape /\ IdInv /\ AppInv /\ AloneInv
      /\ zApp.pc = "up" => Exists(Database)
  BY DEF DirectoryInv, ShapeInv, AppInv
<1>1. CASE BootApp
  <2>1. ResetOrder(zFile) # <<>> /\ ResetOrder(zFile) # <<"marker">> /\ ResetOrder(zFile') = ResetOrder(zFile)
    BY DEF ResetOrder
  <2>2. QED
    BY <1>0, <1>1, <2>1 DEF BootApp, AppInv
<1>2. CASE ApplyReset
  <2>0. zApp.pc = "reset" /\ (Len(zApp.todo) # 1 => zApp' = [zApp EXCEPT !.todo = Tail(zApp.todo)])
    BY <1>2 DEF ApplyReset
  <2>1. CASE Head(zApp.todo) = "marker"
    <3>1. zApp.todo = <<"marker">>
      <4>1. zApp.todo # <<>>
        BY <1>0, <1>2 DEF AppInv, ApplyReset
      <4>2. Head(<<Wal, "marker">>) # "marker" /\ Head(<<Database, Wal, "marker">>) # "marker"
        BY DEF Database, Wal
      <4>3. QED
        BY <1>0, <2>1, <4>1, <4>2 DEF AppShape
    <3>2. QED
      BY <1>0, <1>2, <2>1, <3>1 DEF ApplyReset, AppInv
  <2>2. CASE Head(zApp.todo) # "marker"
    <3>1. zMarker' = zMarker /\ zFile' = [zFile EXCEPT ![Head(zApp.todo)] = Absent]
      BY <1>2, <2>2 DEF ApplyReset
    <3>2. CASE zApp.todo = <<Wal, "marker">>
      <4>1. Len(zApp.todo) = 2 /\ Head(zApp.todo) = Wal /\ Tail(zApp.todo) = <<"marker">>
        BY <3>2
      <4>2. zApp' = [zApp EXCEPT !.todo = <<"marker">>] /\ zApp.pc = "reset"
        <5>1. Len(zApp.todo) # 1
          BY <4>1
        <5>2. zApp' = [zApp EXCEPT !.todo = Tail(zApp.todo)]
          BY <2>0, <5>1
        <5>3. QED
          BY <2>0, <4>1, <5>2
      <4>3. zApp'.pc = "reset" /\ zApp'.todo = <<"marker">>
        BY <1>0, <4>2 DEF AppShape
      <4>4. zFile[Database] = Absent /\ zMarker
        <5>1. zApp.todo # ResetOrder(zFile)
          BY <3>2 DEF ResetOrder
        <5>2. QED
          BY <1>0, <4>2, <5>1 DEF AppInv
      <4>5. zFile'[Database] = Absent /\ zFile'[Wal] = Absent
        BY <1>0, <3>1, <4>1, <4>4, Naming DEF FileShape
      <4>6. QED
        BY <3>1, <4>3, <4>4, <4>5 DEF AppInv
    <3>3. CASE zApp.todo = <<Database, Wal, "marker">>
      <4>1. Len(zApp.todo) = 3 /\ Head(zApp.todo) = Database /\ Tail(zApp.todo) = <<Wal, "marker">>
        BY <3>3
      <4>2. zApp' = [zApp EXCEPT !.todo = <<Wal, "marker">>] /\ zApp.pc = "reset"
        <5>1. Len(zApp.todo) # 1
          BY <4>1
        <5>2. zApp' = [zApp EXCEPT !.todo = Tail(zApp.todo)]
          BY <2>0, <5>1
        <5>3. QED
          BY <2>0, <4>1, <5>2
      <4>3. zApp'.pc = "reset" /\ zApp'.todo = <<Wal, "marker">>
        BY <1>0, <4>2 DEF AppShape
      <4>4. zFile'[Database] = Absent /\ zMarker
        BY <1>0, <3>1, <4>1, <4>2, Naming DEF FileShape, AppInv
      <4>5. <<Wal, "marker">> # <<"marker">> /\ <<Wal, "marker">> # <<>>
        OBVIOUS
      <4>6. QED
        BY <3>1, <4>3, <4>4, <4>5 DEF AppInv
    <3>4. zApp.todo # <<>> /\ zApp.todo # <<"marker">>
      BY <1>0, <1>2, <2>2 DEF AppInv, ApplyReset
    <3>5. QED
      BY <1>0, <3>2, <3>3, <3>4 DEF AppShape
  <2>3. QED
    BY <2>1, <2>2
<1>3. CASE OpenDatabase
  <2>1. zFile'[Database] # Absent
    <3>1. CASE Exists(Database)
      BY <1>3, <3>1 DEF OpenDatabase, Exists
    <3>2. CASE ~Exists(Database)
      BY <1>0, <1>3, <3>2, Naming DEF OpenDatabase, FileShape, CountShape, Absent
    <3>3. QED
      BY <3>1, <3>2
  <2>2. zApp'.pc = "up"
    BY <1>3 DEF OpenDatabase
  <2>3. QED
    BY <2>1, <2>2 DEF AppInv, Exists
<1>4. CASE CommitWrite
  BY <1>0, <1>4, Naming DEF CommitWrite, AppInv, FileShape, Exists
<1>5. ASSUME NEW name \in Files, SaveFile(name) PROVE AppInv'
  BY <1>0, <1>5, Naming DEF SaveFile, AppInv, FileShape, Exists
<1>6. CASE RequestReset
  BY <1>0, <1>6, Naming DEF RequestReset, AppInv, FileShape, Exists
<1>7. CASE StopApp
  BY <1>0, <1>7, Naming DEF StopApp, AppInv, FileShape, Asleep, Exists
<1>8. CASE CrashApp
  BY <1>0, <1>8, Naming DEF CrashApp, AppInv, FileShape, Asleep
<1>9. ASSUME NEW secrets \in BOOLEAN, TakeSnapshot(secrets) PROVE AppInv'
  <2>1. zApp.pc = "reset" => zApp.todo = ResetOrder(zFile)
    BY <1>0, <1>9 DEF TakeSnapshot, AppInv, Exists
  <2>2. zFile'[Database] # Absent
    <3>1. CASE zApp.pc = "up"
      BY <1>9, <3>1 DEF TakeSnapshot, Exists
    <3>2. CASE zApp.pc # "up"
      BY <1>0, <1>9, <3>2, FoldedShape DEF TakeSnapshot, Exists, IdInv, Absent
    <3>3. QED
      BY <3>1, <3>2
  <2>3. zApp' = zApp /\ zMarker' = zMarker
    BY <1>9 DEF TakeSnapshot
  <2>4. ResetOrder(zFile) # <<"marker">>
    BY DEF ResetOrder
  <2>5. QED
    BY <1>0, <2>1, <2>2, <2>3, <2>4 DEF AppInv, Exists, ResetOrder
<1>10. CASE WriteArchive
  <2>1. UNCHANGED <<zApp, zMarker, zFile>> /\ ResetOrder(zFile') = ResetOrder(zFile)
    BY <1>10 DEF WriteArchive, ResetOrder
  <2>2. QED
    BY <1>0, <2>1 DEF AppInv, Exists
<1>11. CASE StageRestore
  BY <1>0, <1>11 DEF StageRestore, AppInv, AloneInv
<1>12. CASE MoveAside
  BY <1>0, <1>12 DEF MoveAside, AppInv, AloneInv
<1>13. CASE PlaceStaged
  BY <1>0, <1>13 DEF PlaceStaged, AppInv, AloneInv
<1>14. CASE DropPreserved
  BY <1>0, <1>14 DEF DropPreserved, AppInv, AloneInv
<1>15. CASE SwapFails
  BY <1>0, <1>15 DEF SwapFails, AppInv, AloneInv
<1>16. CASE RollBackPlaced
  BY <1>0, <1>16 DEF RollBackPlaced, AppInv, AloneInv
<1>17. CASE RollBackMoved
  BY <1>0, <1>17 DEF RollBackMoved, AppInv, AloneInv
<1>18. CASE EndRestore
  BY <1>0, <1>18 DEF EndRestore, AppInv, AloneInv
<1>19. CASE CrashRestore
  BY <1>0, <1>19 DEF CrashRestore, AppInv, AloneInv
<1>20. QED
  BY <1>1, <1>2, <1>3, <1>4, <1>5, <1>6, <1>7, <1>8, <1>9, <1>10, <1>11, <1>12, <1>13, <1>14, <1>15,
     <1>16, <1>17, <1>18, <1>19 DEF DirectoryNext

\* A restore still runs alone.
LEMMA AloneStep ==
  ASSUME DirectoryConstants, DirectoryInv, DirectoryNext
  PROVE  AloneInv'
<1>0. ShapeInv /\ RestoreShape /\ BackupShape /\ AppInv /\ AloneInv
  BY DEF DirectoryInv, ShapeInv
<1>1. CASE BootApp
  BY <1>0, <1>1, Naming DEF BootApp, AloneInv, RestoreShape, BackupShape, zTool
<1>2. CASE ApplyReset
  BY <1>0, <1>2, Naming DEF ApplyReset, AloneInv, RestoreShape, BackupShape, zTool, ResetOrder
<1>3. CASE OpenDatabase
  BY <1>0, <1>3, Naming DEF OpenDatabase, AloneInv, RestoreShape, BackupShape, zTool, Exists
<1>4. CASE CommitWrite
  BY <1>0, <1>4, Naming DEF CommitWrite, AloneInv, RestoreShape, BackupShape, zTool, Exists
<1>5. ASSUME NEW name \in Files, SaveFile(name) PROVE AloneInv'
  BY <1>0, <1>5, Naming DEF SaveFile, AloneInv, RestoreShape, BackupShape, zTool, Exists
<1>6. CASE RequestReset
  BY <1>0, <1>6, Naming DEF RequestReset, AloneInv, RestoreShape, BackupShape, zTool, Exists
<1>7. CASE StopApp
  BY <1>0, <1>7, Naming DEF StopApp, AloneInv, RestoreShape, BackupShape, zTool, Asleep, Exists
<1>8. CASE CrashApp
  BY <1>0, <1>8, Naming DEF CrashApp, AloneInv, RestoreShape, BackupShape, zTool, Asleep
<1>9. ASSUME NEW secrets \in BOOLEAN, TakeSnapshot(secrets) PROVE AloneInv'
  BY <1>0, <1>9, Naming DEF TakeSnapshot, AloneInv, RestoreShape, BackupShape, zTool, Exists
<1>10. CASE WriteArchive
  BY <1>0, <1>10, Naming DEF WriteArchive, AloneInv, RestoreShape, BackupShape, zTool, NoBackup
<1>11. CASE StageRestore
  BY <1>0, <1>11, Naming DEF StageRestore, AloneInv, RestoreShape, BackupShape, zTool, NoRestore
<1>12. CASE MoveAside
  BY <1>0, <1>12, MoveAsideDoes DEF MoveAside, AloneInv
<1>13. CASE PlaceStaged
  BY <1>0, <1>13, PlaceStagedDoes DEF PlaceStaged, AloneInv
<1>14. CASE DropPreserved
  BY <1>0, <1>14, DropPreservedDoes DEF DropPreserved, AloneInv
<1>15. CASE SwapFails
  BY <1>0, <1>15, Naming DEF SwapFails, AloneInv, RestoreShape, BackupShape, zTool
<1>16. CASE RollBackPlaced
  BY <1>0, <1>16, RollBackPlacedDoes DEF RollBackPlaced, AloneInv
<1>17. CASE RollBackMoved
  BY <1>0, <1>17, RollBackMovedDoes DEF RollBackMoved, AloneInv
<1>18. CASE EndRestore
  BY <1>0, <1>18, Naming DEF EndRestore, AloneInv, RestoreShape, BackupShape, zTool, NoRestore
<1>19. CASE CrashRestore
  BY <1>0, <1>19, Naming DEF CrashRestore, AloneInv, RestoreShape, BackupShape, zTool, NoRestore
<1>20. QED
  BY <1>1, <1>2, <1>3, <1>4, <1>5, <1>6, <1>7, <1>8, <1>9, <1>10, <1>11, <1>12, <1>13, <1>14, <1>15,
     <1>16, <1>17, <1>18, <1>19 DEF DirectoryNext

\* What was staged, and what was found, stay what they were until the restore ends.
LEMMA StagedStep ==
  ASSUME DirectoryConstants, DirectoryInv, DirectoryNext
  PROVE  StagedInv'
<1>0. /\ ShapeInv /\ CountShape /\ FileShape /\ RestoreShape /\ BackupShape
      /\ IdInv /\ AloneInv /\ StagedInv /\ SwapInv
  BY DEF DirectoryInv, ShapeInv
<1>1. CASE Outside
  <2>1. zRestore.pc = "idle" /\ zRestore' = zRestore
    BY <1>0, <1>1, OthersLeaveIt
  <2>2. QED
    BY <2>1 DEF StagedInv
<1>2. CASE StageRestore
  <2>1. /\ zRestore'.names = DOMAIN zArchive /\ zArchive' = zArchive /\ zRestore'.moved = {}
        /\ zRestore'.staged = [name \in Files |->
             IF name \notin DOMAIN zArchive THEN Absent
             ELSE [id |-> IF name = Database THEN zIds + 1 ELSE 1, upto |-> zArchive[name]]]
        /\ Database \in DOMAIN zArchive /\ zIds' = zIds + 1 /\ zWas' = zFile
    BY <1>2 DEF StageRestore, NoRestore
  <2>2. /\ \A name \in zRestore'.names : zRestore'.staged[name].upto = zArchive'[name]
        /\ zRestore'.staged[Database].id = zIds + 1
        /\ \A name \in Files : zRestore'.staged[name].id \in {0, 1, zIds + 1}
    BY <1>0, <2>1, Naming DEF BackupShape
  <2>3. /\ \A name \in Files : zWas'[name].id <= zIds'
        /\ zWas'[Database] # Absent => zWas'[Database].id # 0
    <3>1. \A name \in Files : zFile[name].id \in Nat
      BY <1>0 DEF FileShape, Entry
    <3>2. QED
      BY <1>0, <2>1, <3>1 DEF IdInv, CountShape
  <2>4. \A name \in Files : zRestore'.staged[name].id <= zIds'
    BY <1>0, <2>1, <2>2 DEF IdInv, CountShape
  <2>5. QED
    BY <1>0, <2>1, <2>2, <2>3, <2>4 DEF StagedInv, IdInv, CountShape
<1>3. CASE EndRestore
  BY <1>3 DEF EndRestore, NoRestore, StagedInv
<1>4. CASE SwapFails
  <2>1. /\ zRestore'.names = zRestore.names /\ zRestore'.staged = zRestore.staged /\ zRestore'.moved = zRestore.moved
        /\ zRestore.pc \in {"aside", "place"} /\ UNCHANGED <<zArchive, zIds, zWas>>
    BY <1>0, <1>4 DEF SwapFails, RestoreShape
  <2>2. QED
    BY <1>0, <2>1 DEF StagedInv, Found
<1>5. CASE MoveAside
  <2>1. /\ zRestore'.names = zRestore.names /\ zRestore'.staged = zRestore.staged /\ zRestore.pc = "aside"
        /\ zRestore'.moved \subseteq zRestore.moved \cup zRestore.todo
    BY <1>0, <1>5, MoveAsideDoes
  <2>2. UNCHANGED <<zArchive, zIds, zWas>>
    BY <1>5 DEF MoveAside
  <2>3. zRestore.todo \subseteq Found
    BY <1>0, <2>1 DEF SwapInv
  <2>4. QED
    BY <1>0, <2>1, <2>2, <2>3 DEF StagedInv, Found
<1>6. CASE PlaceStaged
  <2>1. /\ zRestore.pc = "place"
        /\ \/ zRestore'.pc \in {"done", "failed"}
           \/ /\ zRestore'.names = zRestore.names /\ zRestore'.staged = zRestore.staged
              /\ zRestore'.moved = zRestore.moved
    BY <1>0, <1>6, PlaceStagedDoes
  <2>2. UNCHANGED <<zArchive, zIds, zWas>>
    BY <1>6 DEF PlaceStaged
  <2>3. QED
    BY <1>0, <2>1, <2>2 DEF StagedInv, Found
<1>7. CASE DropPreserved
  <2>1. /\ zRestore.pc = "drop"
        /\ \/ zRestore'.pc \in {"done", "failed"}
           \/ /\ zRestore'.names = zRestore.names /\ zRestore'.staged = zRestore.staged
              /\ zRestore'.moved = zRestore.moved
    BY <1>0, <1>7, DropPreservedDoes
  <2>2. UNCHANGED <<zArchive, zIds, zWas>>
    BY <1>7 DEF DropPreserved
  <2>3. QED
    BY <1>0, <2>1, <2>2 DEF StagedInv, Found
<1>8. CASE RollBackPlaced
  <2>1. /\ zRestore.pc = "undo"
        /\ \/ zRestore'.pc \in {"done", "failed"}
           \/ /\ zRestore'.names = zRestore.names /\ zRestore'.staged = zRestore.staged
              /\ zRestore'.moved = zRestore.moved
    BY <1>0, <1>8, RollBackPlacedDoes
  <2>2. UNCHANGED <<zArchive, zIds, zWas>>
    BY <1>8 DEF RollBackPlaced
  <2>3. QED
    BY <1>0, <2>1, <2>2 DEF StagedInv, Found
<1>9. CASE RollBackMoved
  <2>1. /\ zRestore.pc = "return"
        /\ \/ zRestore'.pc \in {"done", "failed"}
           \/ /\ zRestore'.names = zRestore.names /\ zRestore'.staged = zRestore.staged
              /\ zRestore'.moved = zRestore.moved
    BY <1>0, <1>9, RollBackMovedDoes
  <2>2. UNCHANGED <<zArchive, zIds, zWas>>
    BY <1>9 DEF RollBackMoved
  <2>3. QED
    BY <1>0, <2>1, <2>2 DEF StagedInv, Found
<1>10. CASE CrashRestore
  BY <1>10 DEF CrashRestore, NoRestore, StagedInv
<1>11. QED
  BY <1>1, <1>2, <1>3, <1>4, <1>5, <1>6, <1>7, <1>8, <1>9, <1>10 DEF DirectoryNext, Outside

\* Identities are still given out in order.
LEMMA IdStep ==
  ASSUME DirectoryConstants, DirectoryInv, DirectoryNext
  PROVE  IdInv'
<1>0. /\ ShapeInv /\ CountShape /\ FileShape /\ RestoreShape /\ AppShape /\ BackupShape
      /\ IdInv /\ AppInv /\ AloneInv /\ StagedInv /\ SwapInv /\ LogInv /\ DoomInv /\ OutcomeInv
  BY DEF DirectoryInv, ShapeInv
<1>1. CASE BootApp
  BY <1>0, <1>1, Naming DEF BootApp, IdInv, FileShape, CountShape, Exists, zTool
<1>2. CASE ApplyReset
  BY <1>0, <1>2, Naming DEF ApplyReset, IdInv, FileShape, CountShape, Exists, zTool
<1>3. CASE OpenDatabase
  <2>1. CASE Exists(Database)
    BY <1>0, <1>3, <2>1 DEF OpenDatabase, IdInv, zTool
  <2>2. CASE ~Exists(Database)
    <3>1. /\ zIds' = zIds + 1 /\ zFile'[Database].id = zIds + 1 /\ zFile'[Wal].id = 0
          /\ \A name \in Settings : zFile'[name] = zFile[name]
          /\ zAside' = zAside /\ zDoomed' = zDoomed
      BY <1>0, <1>3, <2>2, Naming DEF OpenDatabase, FileShape, zTool
    <3>2. \A name \in Files : zFile[name].id \in Nat /\ zAside[name].id \in Nat
      BY <1>0 DEF FileShape, Entry
    <3>3. \A name \in Files : zFile[name].id <= zIds + 1 /\ zAside[name].id <= zIds + 1
      BY <1>0, <3>2 DEF IdInv, CountShape
    <3>4. \A name \in Files : zFile'[name].id <= zIds + 1
      BY <1>0, <3>1, <3>3, Naming DEF IdInv, CountShape
    <3>5. zDoomed \subseteq 1 .. (zIds + 1) /\ zIds + 1 >= 1 /\ zIds + 1 # 0
      BY <1>0 DEF IdInv, CountShape
    <3>6. QED
      BY <3>1, <3>3, <3>4, <3>5 DEF IdInv
  <2>3. QED
    BY <2>1, <2>2
<1>4. CASE CommitWrite
  BY <1>0, <1>4, Naming DEF CommitWrite, IdInv, FileShape, CountShape, Exists, zTool
<1>5. ASSUME NEW name \in Files, SaveFile(name) PROVE IdInv'
  BY <1>0, <1>5, Naming DEF SaveFile, IdInv, FileShape, CountShape, Exists, zTool
<1>6. CASE RequestReset
  <2>1. zFile[Database].id \in Nat /\ zFile[Database] # Absent /\ Database \in Files
    BY <1>0, <1>6, Naming DEF RequestReset, AppInv, Exists, FileShape, Entry
  <2>2. zFile[Database].id \in 1 .. zIds
    BY <1>0, <2>1 DEF IdInv, CountShape
  <2>3. QED
    BY <1>0, <1>6, <2>2 DEF RequestReset, IdInv, zTool
<1>7. CASE StopApp
  <2>1. zFile' \in {zFile, Folded}
    BY <1>7 DEF StopApp
  <2>2. UNCHANGED <<zAside, zIds, zDoomed>>
    BY <1>7 DEF StopApp, zTool
  <2>3. zFile[Database] # Absent
    BY <1>0, <1>7 DEF StopApp, AppInv, Exists
  <2>4. zFile'[Database].id = zFile[Database].id /\ \A name \in Files : zFile'[name].id \in {0, zFile[name].id}
    BY <1>0, <2>1, Naming, FoldedShape
  <2>5. QED
    BY <1>0, <2>2, <2>3, <2>4 DEF IdInv, CountShape
<1>8. CASE CrashApp
  BY <1>0, <1>8, Naming DEF CrashApp, IdInv, FileShape, CountShape, Exists, zTool
<1>9. ASSUME NEW secrets \in BOOLEAN, TakeSnapshot(secrets) PROVE IdInv'
  <2>1. zFile' \in {zFile, Folded}
    BY <1>9 DEF TakeSnapshot
  <2>2. UNCHANGED <<zAside, zIds, zDoomed>>
    BY <1>9 DEF TakeSnapshot, zTool
  <2>3. zFile[Database] # Absent
    BY <1>0, <1>9 DEF TakeSnapshot, AppInv, Exists
  <2>4. zFile'[Database].id = zFile[Database].id /\ \A name \in Files : zFile'[name].id \in {0, zFile[name].id}
    BY <1>0, <2>1, Naming, FoldedShape
  <2>5. QED
    BY <1>0, <2>2, <2>3, <2>4 DEF IdInv, CountShape
<1>10. CASE WriteArchive
  BY <1>0, <1>10, Naming DEF WriteArchive, IdInv, FileShape, CountShape, Exists, zTool
<1>11. CASE StageRestore
  <2>1. UNCHANGED <<zFile, zDoomed>> /\ zIds' = zIds + 1 /\ \A name \in Files : zAside'[name].id = 0
    BY <1>11, Naming DEF StageRestore
  <2>2. \A name \in Files : zFile[name].id \in Nat
    BY <1>0 DEF FileShape, Entry
  <2>3. QED
    BY <1>0, <2>1, <2>2 DEF IdInv, CountShape
<1>12. CASE MoveAside
  BY <1>0, <1>12, MoveAsideDoes, Naming DEF MoveAside, IdInv, FileShape, CountShape, RestoreShape
<1>13. CASE PlaceStaged
  <2>1. UNCHANGED <<zAside, zIds, zDoomed>>
    BY <1>13 DEF PlaceStaged
  <2>2. CASE zFile' = zFile
    BY <1>0, <2>1, <2>2 DEF IdInv
  <2>3. ASSUME NEW name \in zRestore.todo, zFile' = [zFile EXCEPT ![name] = zRestore.staged[name]]
        PROVE  IdInv'
    <3>1. zRestore.pc = "place" /\ name \in Files
      BY <1>0, <1>13 DEF PlaceStaged, RestoreShape
    <3>2. zRestore.staged[name].id <= zIds /\ (name = Database => zRestore.staged[name].id # 0)
      BY <1>0, <3>1, Naming DEF StagedInv
    <3>3. QED
      BY <1>0, <2>1, <2>3, <3>1, <3>2, Naming DEF IdInv, FileShape
  <2>4. QED
    BY <1>0, <1>13, <2>2, <2>3, PlaceStagedDoes
<1>14. CASE DropPreserved
  BY <1>0, <1>14, DropPreservedDoes, Naming DEF DropPreserved, IdInv, FileShape, CountShape
<1>15. CASE SwapFails
  BY <1>0, <1>15 DEF SwapFails, IdInv
<1>16. CASE RollBackPlaced
  BY <1>0, <1>16, RollBackPlacedDoes, Naming DEF RollBackPlaced, IdInv, FileShape, CountShape, RestoreShape
<1>17. CASE RollBackMoved
  <2>1. UNCHANGED <<zIds, zDoomed>>
    BY <1>17 DEF RollBackMoved
  <2>2. CASE UNCHANGED <<zFile, zAside>>
    BY <1>0, <2>1, <2>2 DEF IdInv
  <2>3. ASSUME NEW name \in zRestore.todo, zFile' = [zFile EXCEPT ![name] = zAside[name]],
               zAside' = [zAside EXCEPT ![name] = Absent]
        PROVE  IdInv'
    <3>1. zRestore.pc = "return" /\ name \in Files
      BY <1>0, <1>17 DEF RollBackMoved, RestoreShape
    <3>2. name = Database /\ zAside[name] # Absent => zAside[name].id # 0
      BY <1>0, <3>1 DEF StagedInv, SwapInv, Preserved
    <3>3. QED
      BY <1>0, <2>1, <2>3, <3>1, <3>2, Naming DEF IdInv, FileShape, CountShape
  <2>4. QED
    BY <1>0, <1>17, <2>2, <2>3, RollBackMovedDoes
<1>18. CASE EndRestore
  BY <1>0, <1>18 DEF EndRestore, IdInv
<1>19. CASE CrashRestore
  BY <1>0, <1>19 DEF CrashRestore, IdInv
<1>20. QED
  BY <1>1, <1>2, <1>3, <1>4, <1>5, <1>6, <1>7, <1>8, <1>9, <1>10, <1>11, <1>12, <1>13, <1>14, <1>15,
     <1>16, <1>17, <1>18, <1>19 DEF DirectoryNext

\* Each phase of a restore leaves each file where the next one expects it (_swap, _roll_back).
LEMMA SwapStep ==
  ASSUME DirectoryConstants, DirectoryInv, DirectoryNext
  PROVE  SwapInv'
<1>0. /\ ShapeInv /\ CountShape /\ FileShape /\ RestoreShape /\ AppShape /\ BackupShape
      /\ IdInv /\ AppInv /\ AloneInv /\ StagedInv /\ SwapInv /\ LogInv /\ DoomInv /\ OutcomeInv
  BY DEF DirectoryInv, ShapeInv
<1>1. CASE Outside
  <2>1. zRestore.pc = "idle" /\ zRestore' = zRestore
    BY <1>0, <1>1, OthersLeaveIt
  <2>2. QED
    BY <2>1 DEF SwapInv
<1>2. CASE StageRestore
  <2>1. /\ zRestore'.pc = "aside" /\ zRestore'.names = DOMAIN zArchive /\ zRestore'.moved = {} /\ zRestore'.placed = {}
        /\ zRestore'.todo = {name \in MoveFirst(DOMAIN zArchive) : Exists(name)}
        /\ zFile' = zFile /\ zWas' = zFile
    BY <1>2 DEF StageRestore, NoRestore
  <2>2. \A name \in Files : zAside'[name] = Absent
    BY <1>2, Naming DEF StageRestore
  <2>3. Found' = zRestore'.todo
    BY <2>1 DEF Found, Exists
  <2>4. QED
    BY <2>1, <2>2, <2>3 DEF SwapInv, Untouched, Preserved
<1>3. CASE EndRestore
  <2>1. zRestore'.pc = "idle"
    BY <1>3 DEF EndRestore, NoRestore
  <2>2. QED
    BY <2>1 DEF SwapInv
<1>4. CASE SwapFails
  <2>1. /\ zRestore'.pc = "undo" /\ zRestore'.todo = zRestore.placed /\ zRestore'.placed = zRestore.placed
        /\ zRestore'.moved = zRestore.moved /\ zRestore'.names = zRestore.names /\ zRestore'.staged = zRestore.staged
        /\ zRestore.pc \in {"aside", "place"} /\ UNCHANGED <<zFile, zAside, zWas>>
    BY <1>0, <1>4 DEF SwapFails, RestoreShape
  <2>2. Found' = Found
    BY <2>1 DEF Found
  <2>3. CASE zRestore.pc = "aside"
    BY <1>0, <2>1, <2>2, <2>3 DEF SwapInv, Untouched, Preserved
  <2>4. CASE zRestore.pc = "place"
    BY <1>0, <2>1, <2>2, <2>4 DEF SwapInv, Installed
  <2>5. QED
    BY <2>1, <2>3, <2>4
<1>5. CASE MoveAside
  <2>1. zWas' = zWas /\ zRestore.pc = "aside" /\ zRestore'.names = zRestore.names /\ zRestore'.placed = {}
    BY <1>0, <1>5, MoveAsideDoes DEF MoveAside, SwapInv
  <2>2. Found' = Found
    BY <2>1 DEF Found
  <2>3. CASE /\ zRestore.todo = {} /\ zRestore'.pc = "place" /\ zRestore'.todo = zRestore.names
             /\ zRestore'.moved = zRestore.moved /\ UNCHANGED <<zFile, zAside>>
    <3>1. zRestore.moved = Found
      BY <1>0, <2>1, <2>3 DEF SwapInv, StagedInv
    <3>2. QED
      BY <1>0, <2>1, <2>2, <2>3, <3>1 DEF SwapInv, Untouched, Preserved
  <2>4. ASSUME NEW name \in zRestore.todo,
               zRestore'.pc = "aside", zRestore'.todo = zRestore.todo \ {name},
               zRestore'.moved = zRestore.moved \cup {name},
               zFile' = [zFile EXCEPT ![name] = Absent], zAside' = [zAside EXCEPT ![name] = zFile[name]]
        PROVE  SwapInv'
    <3>1. name \in Files /\ name \in Found /\ name \notin zRestore.moved
      BY <1>0, <2>1 DEF SwapInv, RestoreShape
    <3>2. zFile[name] = zWas[name]
      BY <1>0, <2>1, <3>1 DEF SwapInv, Untouched
    <3>3. zFile'[name] = Absent /\ zAside'[name] = zWas[name]
      BY <1>0, <2>4, <3>1, <3>2 DEF FileShape
    <3>4. \A other \in Files : other # name => zFile'[other] = zFile[other] /\ zAside'[other] = zAside[other]
      BY <1>0, <2>4 DEF FileShape
    <3>5. zRestore'.todo = Found' \ zRestore'.moved
      BY <1>0, <2>1, <2>2, <2>4 DEF SwapInv
    <3>6. \A other \in zRestore'.moved : Preserved(other)'
      BY <1>0, <2>1, <2>4, <3>3, <3>4 DEF SwapInv, Preserved, RestoreShape
    <3>7. \A other \in Files \ zRestore'.moved : Untouched(other)'
      BY <1>0, <2>1, <2>4, <3>4 DEF SwapInv, Untouched
    <3>8. QED
      BY <2>1, <2>4, <3>5, <3>6, <3>7 DEF SwapInv
  <2>5. QED
    BY <1>0, <1>5, <2>3, <2>4, MoveAsideDoes
<1>6. CASE PlaceStaged
  <2>1. /\ zWas' = zWas /\ zRestore.pc = "place" /\ zRestore'.names = zRestore.names /\ zAside' = zAside
        /\ zRestore'.staged = zRestore.staged /\ zRestore'.moved = zRestore.moved
    BY <1>0, <1>6, PlaceStagedDoes DEF PlaceStaged
  <2>2. Found' = Found
    BY <2>1 DEF Found
  <2>0. zRestore.names \subseteq Payload
    BY <1>0 DEF RestoreShape
  <2>3. CASE /\ zRestore.todo = {} /\ zRestore'.pc = "drop" /\ zRestore'.todo = zRestore.moved
             /\ zRestore'.placed = zRestore.placed /\ zFile' = zFile
    <3>1. zRestore.placed = zRestore.names /\ zRestore.moved = Found
      BY <1>0, <2>1, <2>3 DEF SwapInv
    <3>2. zFile[Wal] = Absent
      BY <1>0, <2>0, <2>1, <3>1, Naming DEF SwapInv, Found, MoveFirst
    <3>3. \A name \in Settings \ zRestore.names : zFile[name] = zWas[name]
      <4>1. \A name \in Settings \ zRestore.names : name \notin zRestore.moved /\ name \in Files \ zRestore.placed
        BY <2>0, <3>1, Naming DEF Found, MoveFirst
      <4>2. QED
        BY <1>0, <2>1, <4>1 DEF SwapInv
    <3>4. \A name \in zRestore.names : Installed(name)
      BY <1>0, <2>1, <3>1 DEF SwapInv
    <3>5. \A name \in Files \ zRestore.moved : zAside[name] = Absent
      BY <1>0, <2>1 DEF SwapInv
    <3>6. QED
      BY <2>1, <2>3, <3>2, <3>3, <3>4, <3>5 DEF SwapInv, Installed
  <2>4. ASSUME NEW name \in zRestore.todo,
               zRestore'.pc = "place", zRestore'.todo = zRestore.todo \ {name},
               zRestore'.placed = zRestore.placed \cup {name},
               zFile' = [zFile EXCEPT ![name] = zRestore.staged[name]]
        PROVE  SwapInv'
    <3>1. name \in Files /\ name \in zRestore.names /\ name \notin zRestore.placed
      BY <1>0, <2>0, <2>1, Naming DEF SwapInv
    <3>2. /\ zFile'[name] = zRestore.staged[name]
          /\ \A other \in Files : other # name => zFile'[other] = zFile[other]
      BY <1>0, <2>4, <3>1 DEF FileShape
    <3>3. /\ zRestore'.todo = zRestore'.names \ zRestore'.placed /\ zRestore'.placed \subseteq zRestore'.names
          /\ zRestore'.moved = Found'
      BY <1>0, <2>1, <2>2, <2>4, <3>1 DEF SwapInv
    <3>4. \A other \in zRestore'.placed : Installed(other)'
      BY <1>0, <2>0, <2>1, <2>4, <3>2, Naming DEF SwapInv, Installed
    <3>5. \A other \in Files \ zRestore'.placed :
            zFile'[other] = IF other \in zRestore'.moved THEN Absent ELSE zWas'[other]
      BY <1>0, <2>1, <2>4, <3>2 DEF SwapInv
    <3>6. \A other \in Files : zAside'[other] = IF other \in zRestore'.moved THEN zWas'[other] ELSE Absent
      BY <1>0, <2>1 DEF SwapInv
    <3>7. QED
      BY <2>4, <3>3, <3>4, <3>5, <3>6 DEF SwapInv
  <2>5. QED
    BY <1>0, <1>6, <2>3, <2>4, PlaceStagedDoes
<1>7. CASE DropPreserved
  <2>1. zWas' = zWas /\ zRestore.pc = "drop" /\ zFile' = zFile
    BY <1>0, <1>7, DropPreservedDoes DEF DropPreserved
  <2>2. CASE zRestore'.pc = "done"
    BY <2>2 DEF SwapInv
  <2>3. ASSUME NEW name \in zRestore.todo,
               zRestore'.pc = "drop", zRestore'.todo = zRestore.todo \ {name},
               zRestore'.names = zRestore.names, zRestore'.staged = zRestore.staged,
               zAside' = [zAside EXCEPT ![name] = Absent]
        PROVE  SwapInv'
    <3>1. \A other \in Files \ zRestore'.todo : zAside'[other] = Absent
      BY <1>0, <2>1, <2>3 DEF SwapInv, FileShape
    <3>2. QED
      BY <1>0, <2>1, <2>3, <3>1 DEF SwapInv, Installed
  <2>4. QED
    BY <1>0, <1>7, <2>2, <2>3, DropPreservedDoes
<1>8. CASE RollBackPlaced
  <2>1. /\ zWas' = zWas /\ zRestore.pc = "undo" /\ zRestore'.names = zRestore.names /\ zAside' = zAside
        /\ zRestore'.staged = zRestore.staged /\ zRestore'.moved = zRestore.moved /\ zRestore'.placed = zRestore.placed
    BY <1>0, <1>8, RollBackPlacedDoes DEF RollBackPlaced
  <2>2. Found' = Found
    BY <2>1 DEF Found
  <2>3. CASE zRestore.todo = {} /\ zRestore'.pc = "return" /\ zRestore'.todo = zRestore.moved /\ zFile' = zFile
    <3>1. /\ \A name \in zRestore.moved : Preserved(name)
          /\ \A name \in Files \ zRestore.moved : Untouched(name)
      BY <1>0, <2>1, <2>3 DEF SwapInv, Preserved, Untouched, RestoreShape
    <3>2. QED
      BY <2>1, <2>3, <3>1 DEF SwapInv, Preserved, Untouched
  <2>4. ASSUME NEW name \in zRestore.todo,
               zRestore'.pc = "undo", zRestore'.todo = zRestore.todo \ {name},
               zFile' = [zFile EXCEPT ![name] = Absent]
        PROVE  SwapInv'
    <3>1. name \in Files /\ name \in zRestore.names /\ zRestore.moved = Found
      BY <1>0, <2>1 DEF SwapInv, RestoreShape
    <3>2. zFile'[name] = Absent /\ \A other \in Files : other # name => zFile'[other] = zFile[other]
      BY <1>0, <2>4, <3>1 DEF FileShape
    <3>3. zFile'[name] = IF name \in zRestore.moved THEN Absent ELSE zWas[name]
      BY <3>1, <3>2 DEF Found, MoveFirst
    <3>4. \A other \in zRestore'.todo : Installed(other)'
      BY <1>0, <2>1, <2>4, <3>2 DEF SwapInv, Installed, RestoreShape
    <3>5. \A other \in Files \ zRestore'.todo :
            zFile'[other] = IF other \in zRestore'.moved THEN Absent ELSE zWas'[other]
      BY <1>0, <2>1, <2>4, <3>2, <3>3 DEF SwapInv
    <3>6. \A other \in Files : zAside'[other] = IF other \in zRestore'.moved THEN zWas'[other] ELSE Absent
      BY <1>0, <2>1 DEF SwapInv
    <3>7. /\ zRestore'.todo \subseteq zRestore'.placed /\ zRestore'.placed \subseteq zRestore'.names
          /\ zRestore'.placed = {} \/ zRestore'.moved = Found'
      BY <1>0, <2>1, <2>2, <2>4 DEF SwapInv
    <3>8. QED
      BY <2>4, <3>4, <3>5, <3>6, <3>7 DEF SwapInv
  <2>5. QED
    BY <1>0, <1>8, <2>3, <2>4, RollBackPlacedDoes
<1>9. CASE RollBackMoved
  <2>1. zWas' = zWas /\ zRestore.pc = "return"
    BY <1>0, <1>9, RollBackMovedDoes DEF RollBackMoved
  <2>2. CASE zRestore'.pc = "failed"
    BY <2>2 DEF SwapInv
  <2>3. ASSUME NEW name \in zRestore.todo,
               zRestore'.pc = "return", zRestore'.todo = zRestore.todo \ {name},
               zRestore'.moved = zRestore.moved,
               zFile' = [zFile EXCEPT ![name] = zAside[name]], zAside' = [zAside EXCEPT ![name] = Absent]
        PROVE  SwapInv'
    <3>1. name \in Files /\ zAside[name] = zWas[name]
      BY <1>0, <2>1 DEF SwapInv, Preserved, RestoreShape
    <3>2. zFile'[name] = zWas[name] /\ zAside'[name] = Absent
      BY <1>0, <2>3, <3>1 DEF FileShape
    <3>3. \A other \in Files : other # name => zFile'[other] = zFile[other] /\ zAside'[other] = zAside[other]
      BY <1>0, <2>3 DEF FileShape
    <3>4. \A other \in zRestore'.todo : Preserved(other)'
      BY <1>0, <2>1, <2>3, <3>3 DEF SwapInv, Preserved, RestoreShape
    <3>5. \A other \in Files \ zRestore'.todo : Untouched(other)'
      BY <1>0, <2>1, <2>3, <3>2, <3>3 DEF SwapInv, Untouched
    <3>6. zRestore'.todo \subseteq zRestore'.moved
      BY <1>0, <2>1, <2>3 DEF SwapInv
    <3>7. QED
      BY <2>3, <3>4, <3>5, <3>6 DEF SwapInv
  <2>4. QED
    BY <1>0, <1>9, <2>2, <2>3, RollBackMovedDoes
<1>10. CASE CrashRestore
  <2>1. zRestore'.pc = "idle"
    BY <1>10 DEF CrashRestore, NoRestore
  <2>2. QED
    BY <2>1 DEF SwapInv
<1>11. QED
  BY <1>1, <1>2, <1>3, <1>4, <1>5, <1>6, <1>7, <1>8, <1>9, <1>10 DEF DirectoryNext, Outside

\* A log is still beside its own database or beside none.
LEMMA LogStep ==
  ASSUME DirectoryConstants, DirectoryInv, DirectoryNext
  PROVE  LogInv'
<1>0. /\ ShapeInv /\ CountShape /\ FileShape /\ RestoreShape /\ AppShape /\ BackupShape
      /\ IdInv /\ AppInv /\ AloneInv /\ StagedInv /\ SwapInv /\ LogInv /\ DoomInv /\ OutcomeInv
  BY DEF DirectoryInv, ShapeInv
<1>1. CASE BootApp
  BY <1>0, <1>1, OthersLeaveIt DEF BootApp, LogInv, OwnLog, NoRestore, zTool, Outside
<1>2. CASE ApplyReset
  <2>1. zRestore' = zRestore /\ zRestore.pc = "idle"
    BY <1>0, <1>2, OthersLeaveIt DEF Outside
  <2>2. Head(zApp.todo) \in {Database, Wal} \/ zFile' = zFile
    <3>1. zApp.todo # <<>>
      BY <1>0, <1>2 DEF ApplyReset, AppInv
    <3>2. Head(<<"marker">>) = "marker" /\ Head(<<Wal, "marker">>) = Wal /\ Head(<<Database, Wal, "marker">>) = Database
      OBVIOUS
    <3>3. Head(zApp.todo) \in {"marker", Database, Wal}
      <4>1. zApp.todo \in {<<"marker">>, <<Wal, "marker">>, <<Database, Wal, "marker">>}
        <5>1. zApp.todo \in {<<>>, <<"marker">>, <<Wal, "marker">>, <<Database, Wal, "marker">>}
          BY <1>0 DEF AppShape
        <5>2. QED
          BY <3>1, <5>1, Zenon
      <4>2. CASE zApp.todo = <<"marker">>
        BY <3>2, <4>2
      <4>3. CASE zApp.todo = <<Wal, "marker">>
        BY <3>2, <4>3
      <4>4. CASE zApp.todo = <<Database, Wal, "marker">>
        BY <3>2, <4>4
      <4>5. QED
        BY <4>1, <4>2, <4>3, <4>4
    <3>4. QED
      BY <1>2, <3>3 DEF ApplyReset
  <2>3. zFile' = zFile \/ zFile' = [zFile EXCEPT ![Head(zApp.todo)] = Absent]
    BY <1>2 DEF ApplyReset
  <2>4. OwnLog(zFile')
    BY <1>0, <2>2, <2>3, Naming DEF OwnLog, LogInv, FileShape
  <2>5. QED
    BY <2>1, <2>4 DEF LogInv
<1>3. CASE OpenDatabase
  <2>1. zRestore' = zRestore /\ zRestore.pc = "idle"
    BY <1>0, <1>3, OthersLeaveIt DEF Outside
  <2>2. OwnLog(zFile')
    BY <1>0, <1>3, Naming DEF OpenDatabase, OwnLog, LogInv, FileShape, Exists, AppInv
  <2>3. QED
    BY <2>1, <2>2 DEF LogInv
<1>4. CASE CommitWrite
  <2>1. zRestore' = zRestore /\ zRestore.pc = "idle"
    BY <1>0, <1>4, OthersLeaveIt DEF Outside
  <2>2. OwnLog(zFile')
    BY <1>0, <1>4, Naming DEF CommitWrite, OwnLog, LogInv, FileShape, Exists, AppInv
  <2>3. QED
    BY <2>1, <2>2 DEF LogInv
<1>5. ASSUME NEW name \in Files, SaveFile(name) PROVE LogInv'
  <2>1. zRestore' = zRestore /\ zRestore.pc = "idle"
    BY <1>0, <1>5, OthersLeaveIt DEF Outside
  <2>2. OwnLog(zFile')
    BY <1>0, <1>5, Naming DEF SaveFile, OwnLog, LogInv, FileShape, Exists, AppInv
  <2>3. QED
    BY <2>1, <2>2 DEF LogInv
<1>6. CASE RequestReset
  BY <1>0, <1>6, OthersLeaveIt DEF RequestReset, LogInv, OwnLog, NoRestore, zTool, Outside
<1>7. CASE StopApp
  <2>1. zRestore' = zRestore /\ zRestore.pc = "idle"
    BY <1>0, <1>7, OthersLeaveIt DEF Outside
  <2>2. zFile' \in {zFile, Folded}
    BY <1>7 DEF StopApp
  <2>3. OwnLog(zFile')
    BY <1>0, <2>2, FoldedShape, Naming DEF OwnLog, LogInv
  <2>4. QED
    BY <2>1, <2>3 DEF LogInv
<1>8. CASE CrashApp
  BY <1>0, <1>8, OthersLeaveIt DEF CrashApp, LogInv, OwnLog, NoRestore, zTool, Outside
<1>9. ASSUME NEW secrets \in BOOLEAN, TakeSnapshot(secrets) PROVE LogInv'
  <2>1. zRestore' = zRestore /\ zRestore.pc = "idle"
    BY <1>0, <1>9, OthersLeaveIt DEF Outside
  <2>2. zFile' \in {zFile, Folded}
    BY <1>9 DEF TakeSnapshot
  <2>3. OwnLog(zFile')
    BY <1>0, <2>2, FoldedShape, Naming DEF OwnLog, LogInv
  <2>4. QED
    BY <2>1, <2>3 DEF LogInv
<1>10. CASE WriteArchive
  BY <1>0, <1>10, OthersLeaveIt DEF WriteArchive, LogInv, OwnLog, NoRestore, zTool, Outside
<1>11. CASE StageRestore
  BY <1>0, <1>11 DEF StageRestore, LogInv, OwnLog
<1>12. CASE MoveAside
  <2>1. zRestore.pc = "aside" /\ zWas' = zWas
    BY <1>0, <1>12 DEF MoveAside
  <2>2. \A name \in Files : zFile'[name] \in {Absent, zFile[name]}
    BY <1>0, <1>12, MoveAsideDoes DEF FileShape
  <2>3. QED
    BY <1>0, <2>1, <2>2, Naming DEF LogInv, OwnLog
<1>13. CASE PlaceStaged
  <2>1. zRestore.pc = "place" /\ zWas' = zWas
    BY <1>0, <1>13 DEF PlaceStaged
  <2>2. zFile[Wal] = Absent
    <3>1. Wal \notin zRestore.placed
      BY <1>0, <2>1, Naming DEF SwapInv, RestoreShape
    <3>2. QED
      BY <1>0, <2>1, <3>1, Naming DEF SwapInv, Found, MoveFirst
  <2>3. \A name \in zRestore.todo : name # Wal
    BY <1>0, <2>1, Naming DEF SwapInv, RestoreShape
  <2>4. zFile'[Wal] = Absent
    BY <1>0, <1>13, <2>2, <2>3, PlaceStagedDoes, Naming DEF FileShape
  <2>5. QED
    BY <1>0, <2>1, <2>4, Naming DEF LogInv, OwnLog
<1>14. CASE DropPreserved
  BY <1>0, <1>14, DropPreservedDoes DEF DropPreserved, LogInv, OwnLog
<1>15. CASE SwapFails
  BY <1>0, <1>15 DEF SwapFails, LogInv, OwnLog
<1>16. CASE RollBackPlaced
  <2>1. zRestore.pc = "undo" /\ zWas' = zWas
    BY <1>0, <1>16 DEF RollBackPlaced
  <2>2. \A name \in Files : zFile'[name] \in {Absent, zFile[name]}
    BY <1>0, <1>16, RollBackPlacedDoes DEF FileShape
  <2>3. QED
    BY <1>0, <2>1, <2>2, Naming DEF LogInv, OwnLog
<1>17. CASE RollBackMoved
  <2>1. zRestore.pc = "return" /\ zWas' = zWas
    BY <1>0, <1>17 DEF RollBackMoved
  <2>2. \A name \in Files : zFile'[name] \in {Absent, zWas[name]}
    <3>1. \A name \in Files : zFile[name] \in {Absent, zWas[name]}
      BY <1>0, <2>1 DEF SwapInv, Preserved, Untouched
    <3>2. \A name \in zRestore.todo : zAside[name] = zWas[name]
      BY <1>0, <2>1 DEF SwapInv, Preserved
    <3>3. QED
      BY <1>0, <1>17, <3>1, <3>2, RollBackMovedDoes DEF FileShape, RestoreShape
  <2>3. QED
    BY <1>0, <2>1, <2>2, Naming DEF LogInv, OwnLog
<1>18. CASE EndRestore
  BY <1>0, <1>18, OthersLeaveIt DEF EndRestore, LogInv, OwnLog, NoRestore, zTool, Outside
<1>19. CASE CrashRestore
  BY <1>0, <1>19, OthersLeaveIt DEF CrashRestore, LogInv, OwnLog, NoRestore, zTool, Outside
<1>20. QED
  BY <1>1, <1>2, <1>3, <1>4, <1>5, <1>6, <1>7, <1>8, <1>9, <1>10, <1>11, <1>12, <1>13, <1>14, <1>15,
     <1>16, <1>17, <1>18, <1>19 DEF DirectoryNext

\* Without a marker there is still no condemned database to be opened or brought back.
LEMMA DoomStep ==
  ASSUME DirectoryConstants, DirectoryInv, DirectoryNext
  PROVE  DoomInv'
<1>0. /\ ShapeInv /\ CountShape /\ FileShape /\ RestoreShape /\ AppShape /\ BackupShape
      /\ IdInv /\ AppInv /\ AloneInv /\ StagedInv /\ SwapInv /\ LogInv /\ DoomInv /\ OutcomeInv
  BY DEF DirectoryInv, ShapeInv
<1>1. CASE BootApp
  <2>1. zRestore' = zRestore /\ zRestore.pc = "idle"
    BY <1>0, <1>1, OthersLeaveIt DEF Outside
  <2>2. zFile'[Database] = zFile[Database] /\ UNCHANGED <<zMarker, zDoomed>>
    BY <1>0, <1>1, Naming DEF BootApp, FileShape
  <2>3. QED
    BY <1>0, <2>1, <2>2 DEF DoomInv
<1>2. CASE ApplyReset
  <2>1. zRestore' = zRestore /\ zRestore.pc = "idle" /\ zDoomed' = zDoomed
    BY <1>0, <1>2, OthersLeaveIt DEF Outside, ApplyReset
  <2>2. CASE zMarker'
    BY <2>2 DEF DoomInv
  <2>3. CASE ~zMarker'
    <3>1. zApp.pc = "reset" /\ zMarker /\ zApp.todo # <<>>
      BY <1>0, <1>2 DEF ApplyReset, AppInv
    <3>2. Head(zApp.todo) = "marker" /\ zFile' = zFile
      BY <1>2, <2>3, <3>1 DEF ApplyReset
    <3>3. zApp.todo # ResetOrder(zFile)
      BY <3>2 DEF ResetOrder, Database
    <3>4. zFile'[Database] = Absent
      BY <1>0, <3>1, <3>2, <3>3 DEF AppInv
    <3>5. 0 \notin zDoomed
      BY <1>0 DEF IdInv, CountShape
    <3>6. QED
      BY <2>1, <3>4, <3>5, Naming DEF DoomInv
  <2>4. QED
    BY <2>2, <2>3
<1>3. CASE OpenDatabase
  <2>1. zRestore' = zRestore /\ zRestore.pc = "idle" /\ UNCHANGED <<zMarker, zDoomed>>
    BY <1>0, <1>3, OthersLeaveIt DEF Outside, OpenDatabase
  <2>2. zFile'[Database].id \in {zFile[Database].id, zIds + 1}
    BY <1>0, <1>3, Naming DEF OpenDatabase, FileShape
  <2>3. zIds + 1 \notin zDoomed
    BY <1>0 DEF IdInv, CountShape
  <2>4. QED
    BY <1>0, <2>1, <2>2, <2>3 DEF DoomInv
<1>4. CASE CommitWrite
  <2>1. zRestore' = zRestore /\ zRestore.pc = "idle"
    BY <1>0, <1>4, OthersLeaveIt DEF Outside
  <2>2. zFile'[Database] = zFile[Database] /\ UNCHANGED <<zMarker, zDoomed>>
    BY <1>0, <1>4, Naming DEF CommitWrite, FileShape
  <2>3. QED
    BY <1>0, <2>1, <2>2 DEF DoomInv
<1>5. ASSUME NEW name \in Files, SaveFile(name) PROVE DoomInv'
  <2>1. zRestore' = zRestore /\ zRestore.pc = "idle"
    BY <1>0, <1>5, OthersLeaveIt DEF Outside
  <2>2. zFile'[Database] = zFile[Database] /\ UNCHANGED <<zMarker, zDoomed>>
    BY <1>0, <1>5, Naming DEF SaveFile, FileShape
  <2>3. QED
    BY <1>0, <2>1, <2>2 DEF DoomInv
<1>6. CASE RequestReset
  BY <1>6 DEF RequestReset, DoomInv
<1>7. CASE StopApp
  <2>1. zRestore' = zRestore /\ zRestore.pc = "idle"
    BY <1>0, <1>7, OthersLeaveIt DEF Outside
  <2>2. zFile'[Database].id = zFile[Database].id /\ UNCHANGED <<zMarker, zDoomed>>
    BY <1>0, <1>7, FoldedShape DEF StopApp
  <2>3. QED
    BY <1>0, <2>1, <2>2 DEF DoomInv
<1>8. CASE CrashApp
  <2>1. zRestore' = zRestore /\ zRestore.pc = "idle"
    BY <1>0, <1>8, OthersLeaveIt DEF Outside
  <2>2. zFile'[Database] = zFile[Database] /\ UNCHANGED <<zMarker, zDoomed>>
    BY <1>0, <1>8, Naming DEF CrashApp, FileShape
  <2>3. QED
    BY <1>0, <2>1, <2>2 DEF DoomInv
<1>9. ASSUME NEW secrets \in BOOLEAN, TakeSnapshot(secrets) PROVE DoomInv'
  <2>1. zRestore' = zRestore /\ zRestore.pc = "idle"
    BY <1>0, <1>9, OthersLeaveIt DEF Outside
  <2>2. zFile'[Database].id = zFile[Database].id /\ UNCHANGED <<zMarker, zDoomed>>
    BY <1>0, <1>9, FoldedShape DEF TakeSnapshot
  <2>3. QED
    BY <1>0, <2>1, <2>2 DEF DoomInv
<1>10. CASE WriteArchive
  <2>1. zRestore' = zRestore /\ zRestore.pc = "idle"
    BY <1>0, <1>10, OthersLeaveIt DEF Outside
  <2>2. zFile'[Database] = zFile[Database] /\ UNCHANGED <<zMarker, zDoomed>>
    BY <1>0, <1>10, Naming DEF WriteArchive, FileShape
  <2>3. QED
    BY <1>0, <2>1, <2>2 DEF DoomInv
<1>11. CASE StageRestore
  <2>1. /\ zRestore'.staged = [name \in Files |->
             IF name \notin DOMAIN zArchive THEN Absent
             ELSE [id |-> IF name = Database THEN zIds + 1 ELSE 1, upto |-> zArchive[name]]]
        /\ Database \in DOMAIN zArchive /\ zWas' = zFile /\ UNCHANGED <<zFile, zMarker, zDoomed>>
    BY <1>11 DEF StageRestore, NoRestore
  <2>2. zRestore'.staged[Database].id = zIds + 1
    BY <2>1, Naming
  <2>3. zIds + 1 \notin zDoomed
    BY <1>0 DEF IdInv, CountShape
  <2>4. QED
    BY <1>0, <2>1, <2>2, <2>3 DEF DoomInv
<1>12. CASE MoveAside
  <2>1. /\ zRestore.pc = "aside" /\ UNCHANGED <<zWas, zMarker, zDoomed>>
        /\ zRestore'.pc \in {"done", "failed"} \/ zRestore'.staged = zRestore.staged
    BY <1>0, <1>12, MoveAsideDoes DEF MoveAside
  <2>2. zFile'[Database] \in {zFile[Database], Absent}
    BY <1>0, <1>12, MoveAsideDoes, Naming DEF MoveAside, FileShape, RestoreShape
  <2>3. 0 \notin zDoomed
    BY <1>0 DEF IdInv, CountShape
  <2>4. QED
    BY <1>0, <2>1, <2>2, <2>3, Naming DEF DoomInv
<1>13. CASE PlaceStaged
  <2>1. /\ zRestore.pc = "place" /\ UNCHANGED <<zWas, zMarker, zDoomed>>
        /\ zRestore'.pc \in {"done", "failed"} \/ zRestore'.staged = zRestore.staged
    BY <1>0, <1>13, PlaceStagedDoes DEF PlaceStaged
  <2>2. zFile'[Database] \in {zFile[Database], zRestore.staged[Database]}
    BY <1>0, <1>13, PlaceStagedDoes, Naming DEF PlaceStaged, FileShape, RestoreShape
  <2>3. 0 \notin zDoomed
    BY <1>0 DEF IdInv, CountShape
  <2>4. QED
    BY <1>0, <2>1, <2>2, <2>3, Naming DEF DoomInv
<1>14. CASE DropPreserved
  <2>1. /\ zRestore.pc = "drop" /\ UNCHANGED <<zWas, zMarker, zDoomed>>
        /\ zRestore'.pc \in {"done", "failed"} \/ zRestore'.staged = zRestore.staged
    BY <1>0, <1>14, DropPreservedDoes DEF DropPreserved
  <2>2. zFile'[Database] \in {zFile[Database]}
    BY <1>0, <1>14, DropPreservedDoes, Naming DEF DropPreserved, FileShape, RestoreShape
  <2>3. 0 \notin zDoomed
    BY <1>0 DEF IdInv, CountShape
  <2>4. QED
    BY <1>0, <2>1, <2>2, <2>3, Naming DEF DoomInv
<1>15. CASE SwapFails
  <2>1. /\ zRestore.pc \in {"aside", "place"} /\ zRestore'.staged = zRestore.staged
        /\ UNCHANGED <<zFile, zWas, zMarker, zDoomed>>
    BY <1>0, <1>15 DEF SwapFails, RestoreShape
  <2>2. QED
    BY <1>0, <2>1 DEF DoomInv
<1>16. CASE RollBackPlaced
  <2>1. /\ zRestore.pc = "undo" /\ UNCHANGED <<zWas, zMarker, zDoomed>>
        /\ zRestore'.pc \in {"done", "failed"} \/ zRestore'.staged = zRestore.staged
    BY <1>0, <1>16, RollBackPlacedDoes DEF RollBackPlaced
  <2>2. zFile'[Database] \in {zFile[Database], Absent}
    BY <1>0, <1>16, RollBackPlacedDoes, Naming DEF RollBackPlaced, FileShape, RestoreShape
  <2>3. 0 \notin zDoomed
    BY <1>0 DEF IdInv, CountShape
  <2>4. QED
    BY <1>0, <2>1, <2>2, <2>3, Naming DEF DoomInv
<1>17. CASE RollBackMoved
  <2>1. /\ zRestore.pc = "return" /\ UNCHANGED <<zWas, zMarker, zDoomed>>
        /\ zRestore'.pc \in {"done", "failed"} \/ zRestore'.staged = zRestore.staged
    BY <1>0, <1>17, RollBackMovedDoes DEF RollBackMoved
  <2>2. zFile'[Database] \in {zFile[Database], zWas[Database]}
    BY <1>0, <1>17, RollBackMovedDoes, Naming DEF RollBackMoved, FileShape, RestoreShape, SwapInv, Preserved
  <2>3. 0 \notin zDoomed
    BY <1>0 DEF IdInv, CountShape
  <2>4. QED
    BY <1>0, <2>1, <2>2, <2>3, Naming DEF DoomInv
<1>18. CASE EndRestore
  BY <1>0, <1>18 DEF EndRestore, DoomInv, NoRestore
<1>19. CASE CrashRestore
  BY <1>0, <1>19 DEF CrashRestore, DoomInv, NoRestore
<1>20. QED
  BY <1>1, <1>2, <1>3, <1>4, <1>5, <1>6, <1>7, <1>8, <1>9, <1>10, <1>11, <1>12, <1>13, <1>14, <1>15,
     <1>16, <1>17, <1>18, <1>19 DEF DirectoryNext

\* While files are moving, what was found is live or preserved (_swap, _roll_back).
LEMMA SwapKeeps ==
  ASSUME RestoreShape, StagedInv, SwapInv, zRestore.pc \in {"aside", "place", "undo", "return"}
  PROVE  NothingIsLost
<1>0. zRestore.names \subseteq Payload /\ zRestore.moved \subseteq Found
  BY DEF RestoreShape, StagedInv
<1>1. CASE zRestore.pc = "aside"
  BY <1>1 DEF SwapInv, Untouched, Preserved, NothingIsLost
<1>2. CASE zRestore.pc = "place"
  <2>1. \A name \in zRestore.placed : name \in zRestore.moved \/ zWas[name] = Absent
    BY <1>2, Naming DEF SwapInv, Found, MoveFirst, RestoreShape
  <2>2. QED
    BY <1>2, <2>1 DEF SwapInv, NothingIsLost
<1>3. CASE zRestore.pc = "undo"
  <2>1. \A name \in zRestore.todo : name \in zRestore.moved \/ zWas[name] = Absent
    BY <1>3, Naming DEF SwapInv, Found, MoveFirst, RestoreShape
  <2>2. QED
    BY <1>3, <2>1 DEF SwapInv, NothingIsLost
<1>4. CASE zRestore.pc = "return"
  BY <1>4 DEF SwapInv, Untouched, Preserved, NothingIsLost
<1>5. QED
  BY <1>1, <1>2, <1>3, <1>4

\* A restore tells the outcome it had, and a cut one has lost nothing.
LEMMA OutcomeStep ==
  ASSUME DirectoryConstants, DirectoryInv, DirectoryNext
  PROVE  OutcomeInv'
<1>0. /\ ShapeInv /\ CountShape /\ FileShape /\ RestoreShape /\ AppShape /\ BackupShape
      /\ IdInv /\ AppInv /\ AloneInv /\ StagedInv /\ SwapInv /\ LogInv /\ DoomInv /\ OutcomeInv
  BY DEF DirectoryInv, ShapeInv
<1>1. CASE BootApp
  <2>1. zRestore'.pc = "idle" /\ zWas' = zWas /\ zAside' = zAside
    BY <1>0, <1>1, OthersLeaveIt DEF Outside
  <2>2. zCut' => zCut /\ zFile' = zFile
    BY <1>0, <1>1 DEF BootApp, AloneInv
  <2>3. QED
    BY <1>0, <2>1, <2>2 DEF OutcomeInv, FailureUndone, RestoreInstalled, NothingIsLost
<1>2. CASE ApplyReset
  <2>1. zRestore'.pc = "idle" /\ zWas' = zWas /\ zAside' = zAside
    BY <1>0, <1>2, OthersLeaveIt DEF Outside
  <2>2. zCut' => zCut /\ zFile' = zFile
    BY <1>0, <1>2 DEF ApplyReset, AloneInv
  <2>3. QED
    BY <1>0, <2>1, <2>2 DEF OutcomeInv, FailureUndone, RestoreInstalled, NothingIsLost
<1>3. CASE OpenDatabase
  <2>1. zRestore'.pc = "idle" /\ zWas' = zWas /\ zAside' = zAside
    BY <1>0, <1>3, OthersLeaveIt DEF Outside
  <2>2. zCut' => zCut /\ zFile' = zFile
    BY <1>0, <1>3 DEF OpenDatabase, AloneInv
  <2>3. QED
    BY <1>0, <2>1, <2>2 DEF OutcomeInv, FailureUndone, RestoreInstalled, NothingIsLost
<1>4. CASE CommitWrite
  <2>1. zRestore'.pc = "idle" /\ zWas' = zWas /\ zAside' = zAside
    BY <1>0, <1>4, OthersLeaveIt DEF Outside
  <2>2. zCut' => zCut /\ zFile' = zFile
    BY <1>0, <1>4 DEF CommitWrite, AloneInv
  <2>3. QED
    BY <1>0, <2>1, <2>2 DEF OutcomeInv, FailureUndone, RestoreInstalled, NothingIsLost
<1>5. ASSUME NEW name \in Files, SaveFile(name) PROVE OutcomeInv'
  <2>1. zRestore'.pc = "idle" /\ zWas' = zWas /\ zAside' = zAside
    BY <1>0, <1>5, OthersLeaveIt DEF Outside
  <2>2. zCut' => zCut /\ zFile' = zFile
    BY <1>0, <1>5 DEF SaveFile, AloneInv
  <2>3. QED
    BY <1>0, <2>1, <2>2 DEF OutcomeInv, FailureUndone, RestoreInstalled, NothingIsLost
<1>6. CASE RequestReset
  <2>1. zRestore'.pc = "idle" /\ zWas' = zWas /\ zAside' = zAside
    BY <1>0, <1>6, OthersLeaveIt DEF Outside
  <2>2. zCut' => zCut /\ zFile' = zFile
    BY <1>0, <1>6 DEF RequestReset, AloneInv
  <2>3. QED
    BY <1>0, <2>1, <2>2 DEF OutcomeInv, FailureUndone, RestoreInstalled, NothingIsLost
<1>7. CASE StopApp
  <2>1. zRestore'.pc = "idle" /\ zWas' = zWas /\ zAside' = zAside
    BY <1>0, <1>7, OthersLeaveIt DEF Outside
  <2>2. zCut' => zCut /\ zFile' = zFile
    BY <1>0, <1>7 DEF StopApp, AloneInv
  <2>3. QED
    BY <1>0, <2>1, <2>2 DEF OutcomeInv, FailureUndone, RestoreInstalled, NothingIsLost
<1>8. CASE CrashApp
  <2>1. zRestore'.pc = "idle" /\ zWas' = zWas /\ zAside' = zAside
    BY <1>0, <1>8, OthersLeaveIt DEF Outside
  <2>2. zCut' => zCut /\ zFile' = zFile
    BY <1>0, <1>8 DEF CrashApp, AloneInv
  <2>3. QED
    BY <1>0, <2>1, <2>2 DEF OutcomeInv, FailureUndone, RestoreInstalled, NothingIsLost
<1>9. ASSUME NEW secrets \in BOOLEAN, TakeSnapshot(secrets) PROVE OutcomeInv'
  <2>1. zRestore'.pc = "idle" /\ zWas' = zWas /\ zAside' = zAside
    BY <1>0, <1>9, OthersLeaveIt DEF Outside
  <2>2. zCut' => zCut /\ zFile' = zFile
    BY <1>0, <1>9 DEF TakeSnapshot, AloneInv
  <2>3. QED
    BY <1>0, <2>1, <2>2 DEF OutcomeInv, FailureUndone, RestoreInstalled, NothingIsLost
<1>10. CASE WriteArchive
  <2>1. zRestore'.pc = "idle" /\ zWas' = zWas /\ zAside' = zAside
    BY <1>0, <1>10, OthersLeaveIt DEF Outside
  <2>2. zCut' => zCut /\ zFile' = zFile
    BY <1>0, <1>10 DEF WriteArchive, AloneInv
  <2>3. QED
    BY <1>0, <2>1, <2>2 DEF OutcomeInv, FailureUndone, RestoreInstalled, NothingIsLost
<1>11. CASE StageRestore
  BY <1>11 DEF StageRestore, NoRestore, OutcomeInv, FailureUndone, RestoreInstalled
<1>12. CASE MoveAside
  <2>1. ~zCut' /\ zRestore'.pc \notin {"done", "failed"}
    BY <1>0, <1>12, MoveAsideDoes DEF MoveAside, AloneInv
  <2>2. QED
    BY <2>1 DEF OutcomeInv, FailureUndone, RestoreInstalled
<1>13. CASE PlaceStaged
  <2>1. ~zCut' /\ zRestore'.pc \notin {"done", "failed"}
    BY <1>0, <1>13, PlaceStagedDoes DEF PlaceStaged, AloneInv
  <2>2. QED
    BY <2>1 DEF OutcomeInv, FailureUndone, RestoreInstalled
<1>14. CASE DropPreserved
  <2>1. ~zCut' /\ zRestore.pc = "drop" /\ zFile' = zFile /\ UNCHANGED <<zArchive, zWas>>
    BY <1>0, <1>14, DropPreservedDoes DEF DropPreserved, AloneInv
  <2>2. CASE zRestore'.pc = "done" /\ zRestore.todo = {} /\ zAside' = zAside
    <3>1. zRestore.names = DOMAIN zArchive
      BY <1>0, <2>1 DEF StagedInv
    <3>2. \A name \in DOMAIN zArchive : zFile[name].upto = zArchive[name]
      BY <1>0, <2>1, <3>1 DEF StagedInv, SwapInv, Installed
    <3>3. zFile[Wal] = Absent /\ \A name \in Settings \ DOMAIN zArchive : zFile[name] = zWas[name]
      BY <1>0, <2>1, <3>1 DEF SwapInv
    <3>4. \A name \in Files : zAside[name] = Absent
      BY <1>0, <2>1, <2>2 DEF SwapInv
    <3>5. zAside = Nowhere
      BY <1>0, <3>4, Naming DEF FileShape, Nowhere
    <3>6. QED
      BY <2>1, <2>2, <3>2, <3>3, <3>5 DEF OutcomeInv, FailureUndone, RestoreInstalled, Nowhere
  <2>3. CASE zRestore'.pc = "drop"
    BY <2>1, <2>3 DEF OutcomeInv, FailureUndone, RestoreInstalled
  <2>4. QED
    BY <1>0, <1>14, <2>2, <2>3, DropPreservedDoes
<1>15. CASE SwapFails
  <2>1. ~zCut' /\ zRestore'.pc = "undo"
    BY <1>0, <1>15 DEF SwapFails, AloneInv, RestoreShape
  <2>2. QED
    BY <2>1 DEF OutcomeInv, FailureUndone, RestoreInstalled
<1>16. CASE RollBackPlaced
  <2>1. ~zCut' /\ zRestore'.pc \notin {"done", "failed"}
    BY <1>0, <1>16, RollBackPlacedDoes DEF RollBackPlaced, AloneInv
  <2>2. QED
    BY <2>1 DEF OutcomeInv, FailureUndone, RestoreInstalled
<1>17. CASE RollBackMoved
  <2>1. ~zCut' /\ zRestore.pc = "return" /\ zWas' = zWas
    BY <1>0, <1>17, RollBackMovedDoes DEF RollBackMoved, AloneInv
  <2>2. CASE zRestore'.pc = "failed" /\ zRestore.todo = {} /\ UNCHANGED <<zFile, zAside>>
    <3>1. \A name \in Files : zFile[name] = zWas[name] /\ zAside[name] = Absent
      BY <1>0, <2>1, <2>2 DEF SwapInv, Untouched
    <3>2. zFile = zWas
      BY <1>0, <3>1 DEF FileShape
    <3>3. zAside = Nowhere
      BY <1>0, <3>1 DEF FileShape, Nowhere
    <3>4. QED
      BY <2>1, <2>2, <3>2, <3>3 DEF OutcomeInv, FailureUndone, RestoreInstalled, Nowhere
  <2>3. CASE zRestore'.pc = "return"
    BY <2>1, <2>3 DEF OutcomeInv, FailureUndone, RestoreInstalled
  <2>4. QED
    BY <1>0, <1>17, <2>2, <2>3, RollBackMovedDoes
<1>18. CASE EndRestore
  <2>1. ~zCut' /\ zRestore'.pc = "idle"
    BY <1>0, <1>18 DEF EndRestore, NoRestore, AloneInv
  <2>2. QED
    BY <2>1 DEF OutcomeInv, FailureUndone, RestoreInstalled
<1>19. CASE CrashRestore
  <2>1. zRestore'.pc = "idle" /\ UNCHANGED <<zFile, zWas, zAside>>
    BY <1>19 DEF CrashRestore, NoRestore
  <2>2. zCut' => zRestore.pc \in {"aside", "place", "undo", "return"}
    BY <1>0, <1>19 DEF CrashRestore, RestoreShape
  <2>3. zCut' => \A name \in Files : zWas[name] \in {Absent, zFile[name], zAside[name]}
    BY <1>0, <2>2, SwapKeeps DEF NothingIsLost
  <2>4. QED
    BY <2>1, <2>3 DEF OutcomeInv, FailureUndone, RestoreInstalled, NothingIsLost
<1>20. QED
  BY <1>1, <1>2, <1>3, <1>4, <1>5, <1>6, <1>7, <1>8, <1>9, <1>10, <1>11, <1>12, <1>13, <1>14, <1>15,
     <1>16, <1>17, <1>18, <1>19 DEF DirectoryNext

\* No step of the process, of a backup or of a restore breaks any of it.
LEMMA DirectoryStep ==
  ASSUME DirectoryConstants, DirectoryInv, [DirectoryNext]_zVars
  PROVE  DirectoryInv'
<1>1. CASE DirectoryNext
  BY <1>1, ShapeStep, IdStep, AppStep, AloneStep, StagedStep, SwapStep, LogStep, DoomStep, OutcomeStep DEF DirectoryInv
<1>2. CASE UNCHANGED zVars
  <2>1. ShapeInv' /\ IdInv' /\ AppInv'
    BY <1>2 DEF zVars, DirectoryInv, ShapeInv, CountShape, FileShape, RestoreShape, AppShape, BackupShape, IdInv, AppInv,
                Exists, ResetOrder
  <2>2. AloneInv' /\ StagedInv' /\ SwapInv'
    BY <1>2 DEF zVars, DirectoryInv, AloneInv, StagedInv, SwapInv, Found, Untouched, Preserved, Installed
  <2>3. LogInv' /\ DoomInv' /\ OutcomeInv'
    BY <1>2 DEF zVars, DirectoryInv, LogInv, OwnLog, DoomInv, OutcomeInv, FailureUndone, RestoreInstalled, NothingIsLost
  <2>4. QED
    BY <2>1, <2>2, <2>3 DEF DirectoryInv
<1>3. QED
  BY <1>1, <1>2

\* The data directory's invariant, from an empty directory on (backup/restore.py, reset/marker.py).
THEOREM DirectoryIsInvariant == DirectorySpec => []DirectoryInv
<1>1. DirectoryInit => DirectoryInv
  <2> SUFFICES ASSUME DirectoryInit PROVE DirectoryInv
    OBVIOUS
  <2> USE DirectoryConstants, Naming, EmptyEntries DEF DirectoryInit
  <2>1. CountShape /\ FileShape /\ AppShape
    <3>1. CountShape
      <4>1. zIds \in Nat /\ zWrites \in 0 .. MaxWrites
        BY DEF DirectoryConstants
      <4>2. zMarker \in BOOLEAN
        OBVIOUS
      <4>3. QED
        BY <4>1, <4>2 DEF CountShape
    <3>2. FileShape
      BY DEF FileShape
    <3>3. AppShape
      BY DEF AppShape, Asleep
    <3>4. QED
      BY <3>1, <3>2, <3>3
  <2>2. RestoreShape /\ BackupShape
    <3>1. RestoreShape
      BY DEF RestoreShape, NoRestore
    <3>2. BackupShape
      BY DEF BackupShape, NoBackup, DirectoryConstants
    <3>3. QED
      BY <3>1, <3>2
  <2>3. zRestore.pc = "idle" /\ zApp.pc = "off"
    BY DEF NoRestore, Asleep
  <2>4. IdInv
    BY DEF IdInv
  <2>5. LogInv
    BY <2>3 DEF LogInv, OwnLog
  <2>6. AppInv /\ AloneInv /\ StagedInv /\ SwapInv /\ DoomInv /\ OutcomeInv
    BY <2>3 DEF AppInv, AloneInv, StagedInv, SwapInv, DoomInv, OutcomeInv, FailureUndone, RestoreInstalled
  <2>7. QED
    BY <2>1, <2>2, <2>4, <2>5, <2>6 DEF DirectoryInv, ShapeInv
<1>2. DirectoryInv /\ [DirectoryNext]_zVars => DirectoryInv'
  BY DirectoryStep, DirectoryConstants
<1>3. QED
  BY <1>1, <1>2, PTL DEF DirectorySpec

\* What the data directory promises: no database is opened beside the log of another, a restore that failed left what
\* it found, one that came through installed the archive, none cut short lost a file, and a reset happens
\* (backup/restore.py, reset/marker.py).
THEOREM DirectoryPromises == DirectorySpec => []DirectoryInvariant
<1>1. DirectoryInv => DirectoryInvariant
  <2> SUFFICES ASSUME DirectoryInv PROVE DirectoryInvariant
    OBVIOUS
  <2>0. /\ CountShape /\ FileShape /\ RestoreShape /\ AppShape
        /\ IdInv /\ AppInv /\ StagedInv /\ SwapInv /\ LogInv /\ DoomInv /\ OutcomeInv
    BY DEF DirectoryInv, ShapeInv
  <2>1. DirectoryTypeOK
    <3>1. \A name \in Files : /\ zFile[name] \in [id : 0 .. zIds, upto : 0 .. MaxWrites]
                              /\ zAside[name] \in [id : 0 .. zIds, upto : 0 .. MaxWrites]
      <4> SUFFICES ASSUME NEW e \in Entry, e.id <= zIds PROVE e \in [id : 0 .. zIds, upto : 0 .. MaxWrites]
        BY <2>0 DEF FileShape, IdInv
      <4>1. QED
        BY <2>0 DEF Entry, CountShape
    <3>2. QED
      BY <2>0, <3>1 DEF DirectoryTypeOK, FileShape, RestoreShape, AppShape
  <2>2. LogIsItsOwn
    BY <2>0 DEF LogIsItsOwn, AppInv, LogInv, OwnLog, Exists
  <2>3. FailureUndone /\ RestoreInstalled
    BY <2>0 DEF OutcomeInv
  <2>4. NothingIsLost
    <3>1. CASE zCut
      BY <2>0, <3>1 DEF OutcomeInv
    <3>2. CASE zRestore.pc \in {"aside", "place", "undo", "return"}
      BY <2>0, <3>2, SwapKeeps
    <3>3. QED
      BY <3>1, <3>2 DEF NothingIsLost
  <2>5. ResetHappens
    BY <2>0 DEF ResetHappens, DoomInv
  <2>6. QED
    BY <2>1, <2>2, <2>3, <2>4, <2>5 DEF DirectoryInvariant
<1>2. QED
  BY <1>1, DirectoryIsInvariant, PTL

(* --------------------------- route enrichment --------------------------- *)

\* Every nonempty set of naturals has a least member: what CHOOSE picks as the soonest row or the
\* most urgent lookup is there (_select, _day_start).
LEMMA MinExists ==
  ASSUME NEW T, T \subseteq Nat, T # {}
  PROVE  \E x \in T : \A y \in T : x <= y
<1> DEFINE R == StrictSubsetOrdering(Nat)
           I == {0..n : n \in T}
<1>1. IsWellFoundedOn(R, FiniteSubsetsOf(Nat))
  BY FS_StrictSubsetOrderingWellFounded
<1>2. I \subseteq FiniteSubsetsOf(Nat) /\ I # {}
  <2>1. \A n \in Nat : IsFiniteSet(0..n)
    BY FS_Interval
  <2>2. \A n \in Nat : 0..n \in FiniteSubsetsOf(Nat)
    BY <2>1 DEF FiniteSubsetsOf
  <2>3. \A s \in I : s \in FiniteSubsetsOf(Nat)
    BY <2>2
  <2>4. PICK n \in T : TRUE
    OBVIOUS
  <2>5. 0..n \in I
    BY <2>4
  <2>6. QED
    BY <2>3, <2>5
<1>3. \E x \in I : \A y \in I : ~(<<y, x>> \in R)
  <2> HIDE DEF R, I
  <2>1. QED
    BY <1>1, <1>2, WFMin
<1>4. PICK n \in T : \A y \in I : ~(<<y, 0..n>> \in R)
  BY <1>3
<1>5. ASSUME NEW y \in T, y < n
      PROVE  FALSE
  <2>1. <<0..y, 0..n>> \in R
    BY <1>5 DEF StrictSubsetOrdering
  <2>2. QED
    BY <1>4, <2>1
<1>6. QED
  BY <1>4, <1>5

DayStart(t) == Today(t) * RouteDay

\* A day starts at or before each of its instants and lasts RouteDay ticks; the next tick is of the same
\* day or starts a later one.
LEMMA DayFacts ==
  ASSUME NEW t \in Nat
  PROVE  /\ Today(t) \in Nat /\ DayStart(t) \in Nat /\ DayStart(t) <= t /\ t < DayStart(t) + RouteDay
         /\ Today(t + 1) \in Nat /\ Today(t + 1) >= Today(t)
         /\ Today(t + 1) # Today(t) => DayStart(t + 1) > t
         /\ Today(t + 1) = Today(t) => DayStart(t + 1) = DayStart(t)
<1>1. RouteDay \in Nat \ {0}
  BY RouteConstants
<1>2. ASSUME NEW u \in Nat PROVE Today(u) \in Nat /\ DayStart(u) \in Nat /\ DayStart(u) <= u /\ u < DayStart(u) + RouteDay
  BY <1>1 DEF Today, DayStart
<1>3. Today(t + 1) >= Today(t)
  BY <1>1 DEF Today
<1>4. Today(t + 1) # Today(t) => DayStart(t + 1) > t
  <2>1. ASSUME Today(t + 1) # Today(t) PROVE DayStart(t + 1) >= DayStart(t) + RouteDay
    <3>1. Today(t + 1) >= Today(t) + 1
      BY <1>3, <1>2, <2>1
    <3>2. \A a, b, d \in Nat : b >= a + 1 => b * d >= a * d + d
      OBVIOUS
    <3>3. Today(t) \in Nat /\ Today(t + 1) \in Nat /\ RouteDay \in Nat
      BY <1>1, <1>2
    <3>4. Today(t + 1) * RouteDay >= Today(t) * RouteDay + RouteDay
      BY <3>1, <3>2, <3>3
    <3>5. QED
      BY <3>4 DEF DayStart
  <2>2. DayStart(t) \in Nat /\ DayStart(t + 1) \in Nat /\ t < DayStart(t) + RouteDay
    BY <1>2
  <2> HIDE DEF DayStart
  <2>3. QED
    BY <2>1, <2>2, <1>1
<1>5. QED
  BY <1>2, <1>3, <1>4 DEF DayStart

Lookup == [key : Callsigns, flights : SUBSET Flights, refresh : BOOLEAN]

\* A queue of lookups: no key twice, never longer than its limit, and a lookup's flights fly its callsign.
QueueOK(q) ==
  /\ q \in Seq(Lookup) /\ Len(q) <= PendingLimit
  /\ \A i, j \in 1 .. Len(q) : q[i].key = q[j].key => i = j
  /\ \A i \in 1 .. Len(q) : \A p \in q[i].flights : CallsignOf[p] = q[i].key

KeysOf(q) == {q[i].key : i \in 1 .. Len(q)}

\* Queueing a flight (_enqueue) keeps the queue a sequence of distinct keys no longer than the limit,
\* and adds no key but the flight's.
LEMMA QueuedKeeps ==
  ASSUME QueueOK(ePending), NEW p \in Flights, NEW refresh \in BOOLEAN
  PROVE  /\ QueueOK(Queued(CallsignOf[p], p, refresh))
         /\ KeysOf(Queued(CallsignOf[p], p, refresh)) \subseteq KeysOf(ePending) \cup {CallsignOf[p]}
<1> DEFINE k == CallsignOf[p]
           joined == [i \in DOMAIN ePending |-> IF ePending[i].key = k
                        THEN [ePending[i] EXCEPT !.flights = @ \cup {p}] ELSE ePending[i]]
           new == [key |-> k, flights |-> {p}, refresh |-> refresh]
           longer == Append(ePending, new)
<1>0. ePending \in Seq(Lookup) /\ DOMAIN ePending = 1 .. Len(ePending) /\ Len(ePending) \in Nat
      /\ PendingLimit \in Nat \ {0} /\ k \in Callsigns
  BY RouteConstants DEF QueueOK
<1>1. CASE Waiting(k) # {}
  <2>1. Queued(k, p, refresh) = joined
    BY <1>1 DEF Queued
  <2>2. joined \in Seq(Lookup) /\ Len(joined) = Len(ePending)
    <3>1. \A i \in DOMAIN ePending : ePending[i] \in Lookup
      BY <1>0
    <3>2. \A i \in DOMAIN ePending : joined[i] \in Lookup
      BY <3>1 DEF Lookup
    <3>3. joined \in [1 .. Len(ePending) -> Lookup]
      BY <1>0, <3>2
    <3> HIDE DEF joined
    <3>4. QED
      BY <3>3, <1>0
  <2>3. \A i \in 1 .. Len(joined) : joined[i].key = ePending[i].key
                                    /\ joined[i].flights \subseteq (IF ePending[i].key = k THEN ePending[i].flights \cup {p} ELSE ePending[i].flights)
    BY <1>0 DEF Lookup
  <2> HIDE DEF joined
  <2>4. QueueOK(joined)
    BY <2>2, <2>3 DEF QueueOK
  <2>5. KeysOf(joined) \subseteq KeysOf(ePending)
    BY <2>2, <2>3 DEF KeysOf
  <2>6. QED
    BY <2>1, <2>4, <2>5
<1>2. CASE Waiting(k) = {}
  <2> DEFINE from == IF Len(longer) > PendingLimit THEN Len(longer) - PendingLimit + 1 ELSE 1
             shed == SubSeq(longer, from, Len(longer))
  <2>1. Queued(k, p, refresh) = shed
    BY <1>2 DEF Queued, ShedIfFull
  <2>2. \A i \in 1 .. Len(ePending) : ePending[i].key # k
    BY <1>2, <1>0 DEF Waiting
  <2>3. new \in Lookup /\ new.key = k /\ new.flights = {p}
    BY <1>0 DEF Lookup
  <2> HIDE DEF new
  <2>4. /\ longer \in Seq(Lookup) /\ Len(longer) = Len(ePending) + 1
        /\ longer[Len(ePending) + 1] = new /\ \A i \in 1 .. Len(ePending) : longer[i] = ePending[i]
    BY <1>0, <2>3
  <2> HIDE DEF longer
  <2>5. /\ \A i, j \in 1 .. Len(longer) : longer[i].key = longer[j].key => i = j
        /\ \A i \in 1 .. Len(longer) : \A f \in longer[i].flights : CallsignOf[f] = longer[i].key
        /\ \A i \in 1 .. Len(longer) : longer[i].key \in KeysOf(ePending) \cup {k}
    BY <1>0, <2>2, <2>3, <2>4 DEF QueueOK, KeysOf
  <2>6. /\ from \in 1 .. Len(longer) /\ Len(longer) - from + 1 <= PendingLimit
    BY <1>0, <2>4
  <2> HIDE DEF from
  <2>7. /\ shed \in Seq(Lookup) /\ Len(shed) = Len(longer) - from + 1
        /\ \A i \in 1 .. Len(shed) : shed[i] = longer[from + i - 1] /\ from + i - 1 \in 1 .. Len(longer)
    BY <2>4, <2>6, <1>0
  <2> HIDE DEF shed
  <2>8. QueueOK(shed)
    <3>1. \A i, j \in 1 .. Len(shed) : shed[i].key = shed[j].key => i = j
      <4>1. TAKE i, j \in 1 .. Len(shed)
      <4>2. from + i - 1 = from + j - 1 => i = j
        BY <2>6
      <4>3. /\ from + i - 1 \in 1 .. Len(longer) /\ from + j - 1 \in 1 .. Len(longer)
            /\ shed[i] = longer[from + i - 1] /\ shed[j] = longer[from + j - 1]
        BY <2>7
      <4>4. longer[from + i - 1].key = longer[from + j - 1].key => from + i - 1 = from + j - 1
        BY <4>3, <2>5
      <4>5. QED
        BY <4>2, <4>3, <4>4
    <3>2. \A i \in 1 .. Len(shed) : \A f \in shed[i].flights : CallsignOf[f] = shed[i].key
      BY <2>5, <2>7
    <3>3. QED
      BY <3>1, <3>2, <2>6, <2>7 DEF QueueOK
  <2>9. KeysOf(shed) \subseteq KeysOf(ePending) \cup {k}
    <3>1. \A i \in 1 .. Len(shed) : shed[i].key \in KeysOf(ePending) \cup {k}
      BY <2>5, <2>7
    <3>2. QED
      BY <3>1 DEF KeysOf
  <2>10. QED
    BY <2>1, <2>8, <2>9
<1>3. QED
  BY <1>1, <1>2

\* Taking one entry out of a sequence keeps the others, in order.
LEMMA RemovedFrom ==
  ASSUME NEW S, NEW q \in Seq(S), NEW at \in 1 .. Len(q)
  PROVE  LET rest == SubSeq(q, 1, at - 1) \o SubSeq(q, at + 1, Len(q))
         IN  /\ rest \in Seq(S) /\ Len(rest) = Len(q) - 1
             /\ \A i \in 1 .. Len(rest) : rest[i] = q[IF i < at THEN i ELSE i + 1]
<1> DEFINE head == SubSeq(q, 1, at - 1)
           tail == SubSeq(q, at + 1, Len(q))
<1>1. head \in Seq(S) /\ Len(head) = at - 1 /\ \A i \in 1 .. at - 1 : head[i] = q[i]
  OBVIOUS
<1>2. tail \in Seq(S) /\ Len(tail) = Len(q) - at /\ \A i \in 1 .. Len(q) - at : tail[i] = q[at + i]
  OBVIOUS
<1> HIDE DEF head, tail
<1>3. \A h, u \in Seq(S) : /\ h \o u \in Seq(S) /\ Len(h \o u) = Len(h) + Len(u)
                           /\ \A i \in 1 .. Len(h) : (h \o u)[i] = h[i]
                           /\ \A i \in 1 .. Len(u) : (h \o u)[Len(h) + i] = u[i]
  OBVIOUS
<1> DEFINE rest == head \o tail
<1>4. /\ rest \in Seq(S) /\ Len(rest) = Len(q) - 1
      /\ \A i \in 1 .. at - 1 : rest[i] = q[i]
      /\ \A i \in 1 .. Len(q) - at : rest[(at - 1) + i] = q[at + i]
  <2>1. /\ head \o tail \in Seq(S) /\ Len(head \o tail) = Len(head) + Len(tail)
        /\ \A i \in 1 .. Len(head) : (head \o tail)[i] = head[i]
        /\ \A i \in 1 .. Len(tail) : (head \o tail)[Len(head) + i] = tail[i]
    BY <1>1, <1>2, <1>3
  <2>2. QED
    BY <2>1, <1>1, <1>2
<1> HIDE DEF rest
<1>5. \A i \in 1 .. Len(rest) : rest[i] = q[IF i < at THEN i ELSE i + 1]
  <2>1. TAKE i \in 1 .. Len(rest)
  <2>2. CASE i < at
    BY <2>2, <1>4
  <2>3. CASE i >= at
    <3>1. PICK m \in 1 .. Len(q) - at : (at - 1) + m = i /\ at + m = i + 1
      <4>1. (i - at + 1) \in 1 .. Len(q) - at /\ (at - 1) + (i - at + 1) = i /\ at + (i - at + 1) = i + 1
        BY <2>3, <1>4
      <4>2. QED
        BY <4>1
    <3>2. rest[(at - 1) + m] = q[at + m]
      BY <1>4
    <3>3. QED
      BY <3>1, <3>2, <2>3
  <2>4. QED
    BY <2>2, <2>3
<1>6. QED
  BY <1>4, <1>5 DEF rest, head, tail

\* Taking a key off the queue (self._pending.pop) leaves the other keys and not that one.
LEMMA UnqueuedKeeps ==
  ASSUME QueueOK(ePending), NEW k
  PROVE  /\ QueueOK(Unqueued(k))
         /\ KeysOf(Unqueued(k)) \subseteq KeysOf(ePending) \ {k}
<1>0. ePending \in Seq(Lookup) /\ DOMAIN ePending = 1 .. Len(ePending) /\ Len(ePending) \in Nat /\ PendingLimit \in Nat
  BY RouteConstants DEF QueueOK
<1>1. CASE Waiting(k) = {}
  BY <1>0, <1>1 DEF Waiting, Unqueued, KeysOf
<1>2. CASE Waiting(k) # {}
  <2> DEFINE at == CHOOSE i \in Waiting(k) : TRUE
             rest == SubSeq(ePending, 1, at - 1) \o SubSeq(ePending, at + 1, Len(ePending))
  <2>1. Unqueued(k) = rest
    BY <1>2, Zenon DEF Unqueued, RemoveAt
  <2>2. at \in 1 .. Len(ePending) /\ ePending[at].key = k
    BY <1>2, <1>0 DEF Waiting
  <2> HIDE DEF at
  <2>3. /\ rest \in Seq(Lookup) /\ Len(rest) = Len(ePending) - 1
        /\ \A i \in 1 .. Len(rest) : rest[i] = ePending[IF i < at THEN i ELSE i + 1]
    BY <1>0, <2>2, RemovedFrom, Zenon
  <2> HIDE DEF rest
  <2>4. QueueOK(rest)
    <3>1. \A i, j \in 1 .. Len(rest) : rest[i].key = rest[j].key => i = j
      <4> DEFINE from(i) == IF i < at THEN i ELSE i + 1
      <4>1. \A i \in 1 .. Len(rest) : from(i) \in 1 .. Len(ePending) /\ rest[i] = ePending[from(i)]
        BY <1>0, <2>2, <2>3
      <4>2. \A i, j \in 1 .. Len(rest) : from(i) = from(j) => i = j
        BY <2>2, <1>0, <2>3
      <4> HIDE DEF from
      <4>3. QED
        BY <4>1, <4>2, SMTT(30) DEF QueueOK
    <3>2. \A i \in 1 .. Len(rest) : \A f \in rest[i].flights : CallsignOf[f] = rest[i].key
      BY <1>0, <2>2, <2>3 DEF QueueOK
    <3>3. Len(rest) <= PendingLimit
      BY <1>0, <2>3 DEF QueueOK
    <3>4. QED
      BY <3>1, <3>2, <3>3, <2>3 DEF QueueOK
  <2>5. KeysOf(rest) \subseteq KeysOf(ePending) \ {k}
    BY <1>0, <2>2, <2>3 DEF QueueOK, KeysOf
  <2>6. QED
    BY <2>1, <2>4, <2>5
<1>3. QED
  BY <1>1, <1>2

\* The drain selects an entry that is queued (_select).
LEMMA SelectIsQueued ==
  ASSUME QueueOK(ePending), ePending # <<>>
  PROVE  Select \in 1 .. Len(ePending)
<1> DEFINE D == 1 .. Len(ePending)
           prio(i) == Priority(ePending[i])
<1>1. DOMAIN ePending = D /\ D # {} /\ D \subseteq Nat
  BY DEF QueueOK
<1>2. \A i \in D : prio(i) \in Nat
  BY DEF Priority
<1>3. PICK a \in D : \A j \in D : prio(a) <= prio(j)
  <2> DEFINE T == {prio(i) : i \in D}
  <2>1. T \subseteq Nat /\ T # {}
    BY <1>1, <1>2
  <2> HIDE DEF T
  <2>2. PICK x \in T : \A y \in T : x <= y
    BY <2>1, MinExists
  <2> USE DEF T
  <2>3. QED
    BY <2>2
<1>4. PICK b \in {i \in D : prio(i) = prio(a)} : \A j \in {i \in D : prio(i) = prio(a)} : b <= j
  <2> DEFINE T == {i \in D : prio(i) = prio(a)}
  <2>1. T \subseteq Nat /\ T # {}
    BY <1>1
  <2> HIDE DEF T
  <2>2. PICK x \in T : \A y \in T : x <= y
    BY <2>1, MinExists
  <2> USE DEF T
  <2>3. QED
    BY <2>2
<1>5. \A j \in D : prio(b) < prio(j) \/ (prio(b) = prio(j) /\ b <= j)
  <2> HIDE DEF prio, D
  <2>1. QED
    BY <1>1, <1>2, <1>3, <1>4
<1>6. QED
  BY <1>1, <1>5 DEF Select
CachedRow == [status : {"absent", "ok", "none"}, path : Paths \cup {NoPath}, src : {"none", "vrs", "provider"},
              fetched : Nat, expires : Nat, count : Nat]
DrainPc   == {"idle", "cache", "directory", "ledger", "ask", "spend", "store", "stale"}
DrainWhy  == {"none", "budget", "circuit", "keyless", "outage"}
Drain     == [pc : DrainPc, key : Callsigns \cup {NoPath}, now : Nat, path : Paths \cup {NoPath},
              src : {"none", "vrs", "provider"}, ttl : Nat, why : DrainWhy]
Circuit   == [failures : Nat, opened : Int, probing : BOOLEAN]

\* The shapes of the variables, and what a drain under way carries.
RouteShape ==
  /\ eClock \in 0 .. MaxRouteClock /\ eTokens \in 0 .. Burst /\ eTtl \in Ttls /\ eLimit \in Limits
  /\ eRow \in [Callsigns -> CachedRow] /\ eDirectory \in [Callsigns -> Paths \cup {NoPath}]
  /\ eSkip \in [Callsigns -> Nat]
  /\ eUsed \in Nat /\ eDay \in Int /\ eBought \in Nat /\ eSpoiled \in BOOLEAN
  /\ eBreaker \in Circuit
  /\ eSave \in [pc : {"idle", "ledger", "set"}, count : Nat]
  /\ eWork \in Drain
  /\ eWork.pc # "idle" => eWork.key \in Callsigns
  /\ eWork.pc = "store" => eWork.ttl \in Ttls
  /\ eWork.pc = "spend" => eWork.src = "provider"

\* A callsign is queued or its answer is held, never both, and no answer is held for the one being drained.
ApartInv ==
  /\ DOMAIN eAnswers \subseteq Callsigns
  /\ KeysOf(ePending) \cap DOMAIN eAnswers = {}
  /\ eWork.pc # "idle" => eWork.key \notin DOMAIN eAnswers

\* Whatever holds a route holds one that a source reported for that callsign.
AppliedInv == \A p \in Flights : eApplied[p].path # NoPath => <<CallsignOf[p], eApplied[p].path>> \in eReported
RowInv ==
  \A k \in Callsigns :
    /\ eRow[k].path # NoPath => <<k, eRow[k].path>> \in eReported
    /\ eRow[k].status = "ok" <=> eRow[k].path # NoPath
    /\ eRow[k].status = "ok" => eRow[k].src # "none"
AnswerInv ==
  \A k \in DOMAIN eAnswers : eAnswers[k].route.path # NoPath => <<k, eAnswers[k].route.path>> \in eReported
CarriedInv ==
  eWork.pc \in {"spend", "store"} =>
    /\ eWork.path # NoPath => <<eWork.key, eWork.path>> \in eReported
    /\ eWork.src # "none"
ReportedInv == AppliedInv /\ RowInv /\ AnswerInv /\ CarriedInv

\* What was disproved is skipped from then on, and a drain took from the directory only past its skip.
SkipInv ==
  /\ \A k, r : <<k, r>> \in eDisproved => k \in Callsigns /\ eSkip[k] > 0
  /\ eWork.pc = "store" /\ eWork.src = "vrs" => eSkip[eWork.key] <= eWork.now

\* An open circuit has no request but its probe, and the tokens that came since it opened are still there.
BreakerInv ==
  /\ eBreaker.probing => eWork.pc = "ask"
  /\ eWork.pc = "ask" /\ eBreaker.opened # -1 => eBreaker.probing
  /\ eBreaker.opened # -1 =>
       /\ eBreaker.opened <= eClock
       /\ eBreaker.probing \/ eTokens = Burst \/ eTokens >= eClock - eBreaker.opened

\* The rows written since an instant.
Since(row, start) == {k \in Callsigns : row[k].status # "absent" /\ row[k].fetched >= start}
Written == Cardinality(Since(eRow, DayStart(eClock)))

\* Times: a drain is at most one tick behind, and nothing was bought yet on a day it has not noticed; a row
\* outlives the day it was fetched on; the row a drain is to replace was not fetched today.
LagInv ==
  /\ eWork.pc # "idle" => eWork.now <= eClock /\ eClock <= eWork.now + 1
  /\ eWork.pc # "idle" /\ Today(eWork.now) # Today(eClock) => eBought = 0
AgeInv == \A k \in Callsigns : eRow[k].status # "absent" =>
            eRow[k].fetched <= eClock /\ eRow[k].expires >= eRow[k].fetched + RouteDay
PastCache == {"directory", "ledger", "ask", "spend", "store"}
StaleInv == eWork.pc \in PastCache => eWork.key \notin Since(eRow, DayStart(eClock))
DayInv   == eDay <= Today(eClock) /\ (eSave.pc # "idle" => eSpoiled)
TimeInv  == LagInv /\ AgeInv /\ StaleInv /\ DayInv

\* The drain holds an answer bought today and not yet stored.
Unstored == eWork.pc \in {"spend", "store"} /\ eWork.src = "provider" /\ Today(eWork.now) = Today(eClock)

\* What was bought today is in the rows or in the drain's hands, in the ledger if it is today's, and below
\* the limit while a request is out.
LedgerInv ==
  ~eSpoiled =>
    /\ ~Unstored => eBought <= Written
    /\ Unstored => eBought - 1 <= Written
    /\ eDay = Today(eClock) => eBought <= eUsed
    /\ eLimit > 0 => eBought <= eLimit
    /\ eLimit > 0 /\ eWork.pc = "ask" => eBought < eLimit

RouteInv == /\ RouteShape /\ QueueOK(ePending) /\ ApartInv /\ ReportedInv /\ SkipInv /\ BreakerInv /\ TimeInv /\ LedgerInv

\* A drain at rest and a closed circuit are of their shapes.
LEMMA RestShapes == AtRest \in Drain /\ AtRest.pc = "idle" /\ AtRest.key = NoPath /\ AtRest.now = 0 /\ Closed \in Circuit
                    /\ Closed.opened = -1 /\ Closed.probing = FALSE
BY DEF AtRest, Drain, Closed, Circuit, DrainPc, DrainWhy

\* A start with an empty cache and nothing spent satisfies the inductive invariant.
LEMMA RouteInitial == RouteInit => RouteInv
<1> SUFFICES ASSUME RouteInit PROVE RouteInv
  OBVIOUS
<1> USE RouteConstants
<1>1. RouteShape
  <2>1. (CHOOSE r \in Paths : TRUE) \in Paths
    OBVIOUS
  <2>2. eDirectory \in [Callsigns -> Paths \cup {NoPath}]
    BY <2>1 DEF RouteInit
  <2>3. NoRow \in CachedRow
    BY DEF NoRow, CachedRow
  <2>4. eRow \in [Callsigns -> CachedRow] /\ eSkip \in [Callsigns -> Nat]
    BY <2>3 DEF RouteInit
  <2>5. eSave \in [pc : {"idle", "ledger", "set"}, count : Nat]
    BY DEF RouteInit, NotSaving
  <2>6. eWork \in Drain /\ eWork.pc = "idle" /\ eBreaker \in Circuit
    BY RestShapes DEF RouteInit
  <2>7. eSpoiled \in BOOLEAN
    BY DEF RouteInit
  <2>8. eClock \in 0 .. MaxRouteClock /\ eTokens \in 0 .. Burst /\ eTtl \in Ttls /\ eLimit \in Limits
    BY DEF RouteInit
  <2>9. eUsed \in Nat /\ eDay \in Int /\ eBought \in Nat
    BY DEF RouteInit
  <2>10. QED
    BY <2>2, <2>4, <2>5, <2>6, <2>7, <2>8, <2>9 DEF RouteShape
<1>2. QueueOK(ePending) /\ ApartInv
  BY DEF RouteInit, QueueOK, ApartInv, KeysOf, AtRest
<1>3. ReportedInv /\ SkipInv /\ BreakerInv
  BY DEF RouteInit, ReportedInv, AppliedInv, RowInv, AnswerInv, CarriedInv, SkipInv, BreakerInv, NoRow, NoRoute, AtRest, Closed
<1>4. TimeInv
  BY DayFacts DEF RouteInit, TimeInv, LagInv, AgeInv, StaleInv, PastCache, DayInv, NoRow, AtRest, NotSaving, Since, Today
<1>5. LedgerInv
  <2>1. Written \in Nat
    BY FS_CardinalityType, FS_Subset DEF Written, Since
  <2>2. QED
    BY <2>1 DEF RouteInit, LedgerInv, AtRest, Unstored
<1>6. QED
  BY <1>1, <1>2, <1>3, <1>4, <1>5 DEF RouteInv


Kept == eWork'.key = eWork.key /\ eWork'.now = eWork.now

\* What asking the provider comes to, with what the ledger says was used.
Outcome(used) ==
  \/ /\ eWork'.pc = "stale" /\ Kept /\ UNCHANGED <<eBreaker, eTokens>>
  \/ /\ eWork' = AtRest /\ Allow /\ eTokens = 0 /\ eBreaker' = Probing /\ UNCHANGED eTokens
  \/ /\ eWork'.pc = "ask" /\ Kept /\ Allow /\ eTokens > 0 /\ eBreaker' = Probing /\ eTokens' = eTokens - 1
     /\ (eLimit = 0 \/ used < eLimit)

\* The decision to ask the provider (budget, breaker, rate) ends in one of its four outcomes.
LEMMA AskDoes ==
  ASSUME eWork \in Drain, NEW used, AskProvider(used)
  PROVE  eWork' \in Drain /\ Outcome(used)
<1>1. /\ "stale" \in DrainPc /\ "ask" \in DrainPc /\ "budget" \in DrainWhy /\ "circuit" \in DrainWhy
      /\ eWork.why \in DrainWhy
  BY DEF DrainPc, DrainWhy, Drain
<1>2. /\ eWork' \in {[eWork EXCEPT !.pc = "stale", !.why = "budget"], [eWork EXCEPT !.pc = "stale", !.why = "circuit"]}
      /\ UNCHANGED <<eBreaker, eTokens>>
      => eWork' \in Drain /\ Outcome(used)
  BY <1>1 DEF Outcome, Kept, Drain
<1>3. /\ eWork' = [eWork EXCEPT !.pc = "ask"] /\ Allow /\ eTokens > 0 /\ eBreaker' = Probing /\ eTokens' = eTokens - 1
      /\ (eLimit = 0 \/ used < eLimit)
      => eWork' \in Drain /\ Outcome(used)
  BY <1>1 DEF Outcome, Kept, Drain
<1>4. eWork' = AtRest /\ Allow /\ eTokens = 0 /\ eBreaker' = Probing /\ UNCHANGED eTokens
      => eWork' \in Drain /\ Outcome(used)
  BY RestShapes DEF Outcome
<1>5. QED
  BY <1>2, <1>3, <1>4 DEF AskProvider, Fruitless

DirectoryAnswer(k) == IF eSkip[k] > eWork.now THEN NoPath ELSE eDirectory[k]

\* Reading the directory (_directory_answer) stores its answer, falls through to the ledger or a
\* stale row, or asks.
LEMMA DirectoryMoves ==
  ASSUME RouteShape, ReadDirectory
  PROVE  /\ eWork.pc = "directory" /\ eWork' \in Drain
         /\ \/ /\ eWork'.pc = "store" /\ Kept /\ eWork'.path = DirectoryAnswer(eWork.key) /\ eWork'.src = "vrs" /\ eWork'.ttl = eTtl
               /\ DirectoryAnswer(eWork.key) # NoPath /\ ~Contradicted(eWork.key, WaitingFlights(eWork.key), DirectoryAnswer(eWork.key))
               /\ UNCHANGED <<eBreaker, eTokens>>
            \/ /\ eWork'.pc \in {"stale", "ledger"} /\ Kept /\ UNCHANGED <<eBreaker, eTokens>>
            \/ /\ eLimit = 0 \/ eDay = Today(eWork.now)
               /\ Outcome(eUsed)
<1> DEFINE found == DirectoryAnswer(eWork.key)
<1>0. /\ eWork \in Drain /\ eWork.pc = "directory" /\ eWork.key \in Callsigns /\ eTtl \in Nat
      /\ eDirectory \in [Callsigns -> Paths \cup {NoPath}]
  BY RouteConstants DEF RouteShape, ReadDirectory
<1>1. found \in Paths \cup {NoPath}
  BY <1>0 DEF DirectoryAnswer
<1>2. {"store", "stale", "ledger"} \subseteq DrainPc /\ "keyless" \in DrainWhy
  BY DEF DrainPc, DrainWhy
<1> HIDE DEF found
<1>3. \/ /\ eWork' = [eWork EXCEPT !.pc = "store", !.path = found, !.src = "vrs", !.ttl = eTtl]
         /\ found # NoPath /\ ~Contradicted(eWork.key, WaitingFlights(eWork.key), found)
         /\ UNCHANGED <<eBreaker, eTokens>>
      \/ eWork' = [eWork EXCEPT !.pc = "stale", !.why = "keyless"] /\ UNCHANGED <<eBreaker, eTokens>>
      \/ eWork' = [eWork EXCEPT !.pc = "ledger"] /\ UNCHANGED <<eBreaker, eTokens>>
      \/ (eLimit = 0 \/ eDay = Today(eWork.now)) /\ AskProvider(eUsed)
  BY DEF ReadDirectory, found, DirectoryAnswer
<1>4. CASE /\ eWork' = [eWork EXCEPT !.pc = "store", !.path = found, !.src = "vrs", !.ttl = eTtl]
           /\ found # NoPath /\ ~Contradicted(eWork.key, WaitingFlights(eWork.key), found)
           /\ UNCHANGED <<eBreaker, eTokens>>
  <2>1. eWork' \in Drain /\ eWork'.pc = "store" /\ Kept /\ eWork'.path = found /\ eWork'.src = "vrs" /\ eWork'.ttl = eTtl
    BY <1>0, <1>1, <1>2, <1>4 DEF Drain, Kept
  <2>2. QED
    BY <2>1, <1>0, <1>4 DEF found
<1>5. CASE eWork' = [eWork EXCEPT !.pc = "stale", !.why = "keyless"] /\ UNCHANGED <<eBreaker, eTokens>>
  <2>1. eWork' \in Drain /\ eWork'.pc = "stale" /\ Kept
    BY <1>0, <1>2, <1>5 DEF Drain, Kept
  <2>2. QED
    BY <2>1, <1>0, <1>5
<1>6. CASE eWork' = [eWork EXCEPT !.pc = "ledger"] /\ UNCHANGED <<eBreaker, eTokens>>
  <2>1. eWork' \in Drain /\ eWork'.pc = "ledger" /\ Kept
    BY <1>0, <1>2, <1>6 DEF Drain, Kept
  <2>2. QED
    BY <2>1, <1>0, <1>6
<1>7. CASE (eLimit = 0 \/ eDay = Today(eWork.now)) /\ AskProvider(eUsed)
  BY <1>7, <1>0, AskDoes
<1>8. QED
  BY <1>3, <1>4, <1>5, <1>6, <1>7

\* Reading the ledger (_fetched_today) counts the day the drain began on, and decides or asks on that.
LEMMA LedgerMoves ==
  ASSUME RouteShape, ReadLedger
  PROVE  /\ eWork' \in Drain /\ eDay' = Today(eWork.now)
         /\ \/ /\ eWork.pc = "ledger" /\ eUsed' = CountFetched(eWork.now)
               /\ \/ Outcome(eUsed')
                  \/ eWork' = AtRest /\ UNCHANGED <<eBreaker, eTokens>>
            \/ /\ eWork.pc = "spend" /\ eUsed' = CountFetched(eWork.now) + 1
               /\ eWork'.pc = "store" /\ Kept /\ eWork'.path = eWork.path /\ eWork'.src = eWork.src /\ eWork'.ttl = eTtl
               /\ UNCHANGED <<eBreaker, eTokens>>
<1>0. eWork \in Drain /\ eTtl \in Nat /\ "store" \in DrainPc
  BY RouteConstants DEF RouteShape, DrainPc
<1>1. CASE eWork.pc = "ledger" /\ AskProvider(eUsed')
  BY <1>1, <1>0, AskDoes DEF ReadLedger
<1>2. CASE eWork.pc = "ledger" /\ ~AskProvider(eUsed')
  BY <1>2, <1>0, RestShapes DEF ReadLedger, Fruitless
<1>3. CASE eWork.pc # "ledger"
  <2>1. eWork' = [eWork EXCEPT !.pc = "store", !.ttl = eTtl]
    BY <1>3 DEF ReadLedger
  <2>2. /\ eWork' \in Drain /\ eWork'.pc = "store" /\ Kept /\ eWork'.path = eWork.path /\ eWork'.src = eWork.src
        /\ eWork'.ttl = eTtl
    BY <2>1, <1>0 DEF Drain, Kept
  <2>3. QED
    BY <1>3, <2>2 DEF ReadLedger
<1>4. QED
  BY <1>1, <1>2, <1>3

\* What each remaining step of a drain does to it, and to the breaker and the rate limiter.
LEMMA OtherMoves ==
  ASSUME RouteShape, QueueOK(ePending)
  PROVE  /\ DrainBegin => /\ eWork' \in Drain /\ eWork'.pc = "cache" /\ eWork'.now = eClock
                          /\ eWork'.key \in KeysOf(ePending) /\ eWork'.key \in Callsigns
         /\ ReadCache => /\ eWork.pc = "cache" /\ eWork' \in Drain
                         /\ eWork' = AtRest \/ (eWork'.pc = "directory" /\ Kept)
         /\ ProviderFails => /\ eWork.pc = "ask" /\ eWork' \in Drain /\ eWork'.pc = "stale"
                             /\ eWork'.key = eWork.key /\ eWork'.now = eClock
         /\ StoreAnswer => eWork.pc = "store" /\ eWork' = AtRest
         /\ ServeStale => eWork.pc = "stale" /\ eWork' = AtRest
         /\ \A r \in Paths \cup {NoPath} : ProviderAnswers(r) =>
              /\ eWork.pc = "ask" /\ eWork' \in Drain /\ eWork'.key = eWork.key /\ eWork'.now = eClock
              /\ eWork'.path = r /\ eWork'.src = "provider"
              /\ IF eDay # Today(eClock) THEN eWork'.pc = "spend" /\ UNCHANGED eUsed
                 ELSE eWork'.pc = "store" /\ eWork'.ttl = eTtl /\ eUsed' = eUsed + 1
<1>0. /\ eWork \in Drain /\ eTtl \in Nat /\ eClock \in Nat /\ AtRest \in Drain
      /\ {"store", "cache", "directory", "stale", "spend"} \subseteq DrainPc /\ {"none", "outage"} \subseteq DrainWhy
  BY RouteConstants, RestShapes DEF RouteShape, DrainPc, DrainWhy
<1>1. ASSUME DrainBegin
      PROVE /\ eWork' \in Drain /\ eWork'.pc = "cache" /\ eWork'.now = eClock
            /\ eWork'.key \in KeysOf(ePending) /\ eWork'.key \in Callsigns
  <2>1. Select \in 1 .. Len(ePending)
    BY <1>1, SelectIsQueued DEF DrainBegin
  <2>2. ePending[Select] \in Lookup
    BY <2>1 DEF QueueOK
  <2> DEFINE key == ePending[Select].key
  <2>3. key \in Callsigns /\ key \in KeysOf(ePending)
    BY <2>1, <2>2 DEF Lookup, KeysOf
  <2>4. eWork' = [AtRest EXCEPT !.pc = "cache", !.key = key, !.now = eClock]
    BY <1>1 DEF DrainBegin
  <2> HIDE DEF key
  <2>5. eWork' \in Drain /\ eWork'.pc = "cache" /\ eWork'.now = eClock /\ eWork'.key = key
    BY <2>3, <2>4, <1>0 DEF Drain
  <2>6. QED
    BY <2>3, <2>5
<1>2. ASSUME ReadCache
      PROVE /\ eWork.pc = "cache" /\ eWork' \in Drain
            /\ eWork' = AtRest \/ (eWork'.pc = "directory" /\ Kept)
  <2>1. eWork' = AtRest \/ eWork' = [eWork EXCEPT !.pc = "directory"]
    BY <1>2 DEF ReadCache, Finish
  <2>2. QED
    BY <1>2, <2>1, <1>0 DEF ReadCache, Kept, Drain
<1>3. ASSUME ProviderFails
      PROVE /\ eWork.pc = "ask" /\ eWork' \in Drain /\ eWork'.pc = "stale" /\ eWork'.key = eWork.key /\ eWork'.now = eClock
  BY <1>3, <1>0 DEF Drain, ProviderFails
<1>4. StoreAnswer => eWork.pc = "store" /\ eWork' = AtRest
  BY DEF StoreAnswer, Finish
<1>5. ServeStale => eWork.pc = "stale" /\ eWork' = AtRest
  BY DEF ServeStale, Finish, Fruitless
<1>6. ASSUME NEW r \in Paths \cup {NoPath}, ProviderAnswers(r)
      PROVE /\ eWork.pc = "ask" /\ eWork' \in Drain /\ eWork'.key = eWork.key /\ eWork'.now = eClock
            /\ eWork'.path = r /\ eWork'.src = "provider"
            /\ IF eDay # Today(eClock) THEN eWork'.pc = "spend" /\ UNCHANGED eUsed
               ELSE eWork'.pc = "store" /\ eWork'.ttl = eTtl /\ eUsed' = eUsed + 1
  <2> DEFINE w == [eWork EXCEPT !.now = eClock, !.path = r, !.src = "provider"]
  <2>1. /\ w \in Drain /\ w.pc = eWork.pc /\ w.key = eWork.key /\ w.now = eClock /\ w.path = r /\ w.src = "provider"
    BY <1>0 DEF Drain
  <2>2. /\ eWork.pc = "ask"
        /\ IF eDay # Today(eClock) THEN eWork' = [w EXCEPT !.pc = "spend"] /\ UNCHANGED eUsed
           ELSE eWork' = [w EXCEPT !.pc = "store", !.ttl = eTtl] /\ eUsed' = eUsed + 1
    BY <1>6 DEF ProviderAnswers
  <2> HIDE DEF w
  <2>3. CASE eDay # Today(eClock)
    BY <2>1, <2>2, <2>3, <1>0 DEF Drain
  <2>4. CASE eDay = Today(eClock)
    BY <2>1, <2>2, <2>4, <1>0 DEF Drain
  <2>5. QED
    BY <2>3, <2>4
<1>7. QED
  BY <1>1, <1>2, <1>3, <1>4, <1>5, <1>6

\* Every step keeps the shape of the queue, the drain, the cache and the ledger.
LEMMA RouteShapeStep ==
  ASSUME RouteShape, QueueOK(ePending), [RouteNext]_eVars
  PROVE  RouteShape'
<1> USE RouteConstants
<1>n. /\ CountFetched(eClock) \in Nat /\ CountFetched(eWork.now) \in Nat /\ Probing \in Circuit
      /\ Today(eClock) \in Int /\ Today(eWork.now) \in Int
      /\ eWork \in Drain /\ eWork.now \in Nat /\ eWork.ttl \in Nat /\ NoRow \in CachedRow
  <2>1. \A S \in SUBSET Callsigns : Cardinality(S) \in Nat
    BY FS_CardinalityType, FS_Subset
  <2>2. eWork \in Drain /\ eWork.now \in Nat /\ eWork.ttl \in Nat /\ eClock \in Nat
    BY DEF RouteShape, Drain
  <2>3. Probing \in Circuit
    BY DEF RouteShape, Probing, Circuit
  <2>4. NoRow \in CachedRow
    BY DEF NoRow, CachedRow
  <2>5. QED
    <3>1. CountFetched(eClock) \in Nat /\ CountFetched(eWork.now) \in Nat
      BY <2>1 DEF CountFetched
    <3>2. Today(eClock) \in Nat /\ Today(eWork.now) \in Nat
      BY <2>2, DayFacts
    <3>3. QED
      BY <3>1, <3>2, <2>2, <2>3, <2>4
<1>o. \A used : Outcome(used) =>
        /\ eTokens' \in 0 .. Burst /\ eBreaker' \in Circuit
        /\ eWork'.pc \in {"stale", "idle", "ask"} /\ (eWork'.pc # "idle" => eWork'.key = eWork.key)
  BY <1>n, RestShapes DEF Outcome, Kept, RouteShape
<1>1. ASSUME NEW p \in Flights, Consider(p) PROVE RouteShape'
  BY <1>1 DEF Consider, RouteShape, eTables, eConfig, eLedger, SkipDirectory, eMarks
<1>2. ASSUME NEW p \in Flights, NEW r \in Paths, Latch(p, r) PROVE RouteShape'
  BY <1>2 DEF Latch, RouteShape, eTables, eConfig, eLedger, eMarks, ePastE
<1>3. CASE DrainBegin
  <2>1. eWork' \in Drain /\ eWork'.key \in Callsigns /\ eWork'.pc = "cache"
    BY <1>3, OtherMoves
  <2>2. QED
    BY <1>3, <2>1 DEF DrainBegin, RouteShape, eTables, eConfig, eLedger, eMarks, ePastE
<1>4. CASE ReadCache
  <2>1. eWork' \in Drain /\ (eWork'.pc # "idle" => eWork'.pc = "directory" /\ eWork'.key = eWork.key) /\ eWork.pc = "cache"
    BY <1>4, OtherMoves, RestShapes DEF Kept
  <2>2. eRow' \in [Callsigns -> CachedRow] /\ eSkip' \in [Callsigns -> Nat] /\ eSpoiled' \in BOOLEAN
    <3>1. eRow' \in [Callsigns -> CachedRow]
      BY <1>4, <1>n DEF ReadCache, RouteShape
    <3>2. eSkip' \in [Callsigns -> Nat]
      BY <1>4 DEF ReadCache, RouteShape, SkipDirectory
    <3>3. eSpoiled' \in BOOLEAN
      BY <1>4 DEF ReadCache, RouteShape
    <3>4. QED
      BY <3>1, <3>2, <3>3
  <2>3. QED
    BY <1>4, <2>1, <2>2 DEF ReadCache, RouteShape, eConfig, eLedger
<1>5. CASE ReadDirectory
  <2>1. /\ eWork' \in Drain /\ (eWork'.pc # "idle" => eWork'.key = eWork.key) /\ eWork.pc = "directory"
        /\ eWork'.pc = "store" => eWork'.ttl \in Ttls
        /\ eWork'.pc # "spend"
        /\ eTokens' \in 0 .. Burst /\ eBreaker' \in Circuit
    BY <1>5, <1>o, DirectoryMoves DEF RouteShape, Kept
  <2>2. eSkip' \in [Callsigns -> Nat]
    BY <1>5 DEF ReadDirectory, RouteShape, SkipDirectory
  <2>3. QED
    BY <1>5, <2>1, <2>2 DEF ReadDirectory, RouteShape, eTables, eConfig, eLedger
<1>6. CASE ReadLedger
  <2>1. /\ eWork' \in Drain /\ (eWork'.pc # "idle" => eWork'.key = eWork.key) /\ eWork.pc # "idle"
        /\ eWork'.pc = "store" => eWork'.ttl \in Ttls
        /\ eWork'.pc # "spend"
        /\ eTokens' \in 0 .. Burst /\ eBreaker' \in Circuit
    BY <1>6, <1>o, LedgerMoves, RestShapes DEF RouteShape, Kept
  <2>2. eUsed' \in Nat /\ eDay' \in Int
    BY <1>6, <1>n, LedgerMoves
  <2>3. QED
    BY <1>6, <2>1, <2>2 DEF ReadLedger, RouteShape, eTables, eConfig, eMarks
<1>7. CASE ProviderFails
  <2>1. eWork' \in Drain /\ eWork'.key = eWork.key /\ eWork'.pc = "stale" /\ eWork.pc = "ask"
    BY <1>7, OtherMoves
  <2>2. eBreaker' \in Circuit
    BY <1>7 DEF ProviderFails, RouteShape, RecordProviderFailure, Circuit
  <2>3. QED
    BY <1>7, <2>1, <2>2 DEF ProviderFails, RouteShape, eTables, eConfig, eLedger, eMarks, ePastE
<1>8. CASE StoreAnswer
  <2>1. eRow' \in [Callsigns -> CachedRow]
    BY <1>8 DEF StoreAnswer, RouteShape, Drain, CachedRow, StoreNothing, StoreRoute, Confirm
  <2>2. QED
    BY <1>8, <2>1, OtherMoves, RestShapes DEF StoreAnswer, RouteShape, eConfig, eLedger, eMarks
<1>9. CASE ServeStale
  <2>1. eRow' \in [Callsigns -> CachedRow]
    <3>1. CASE StaleRow(eWork.key, eWork.now)
      <4>1. eWork.key \in Callsigns
        BY <1>9 DEF ServeStale, RouteShape
      <4>2. [eRow[eWork.key] EXCEPT !.expires = eWork.now + StaleFor] \in CachedRow
        <5>1. eRow[eWork.key] \in CachedRow /\ eWork.now + StaleFor \in Nat
          BY <4>1, <1>n DEF RouteShape
        <5>2. QED
          BY <5>1 DEF CachedRow
      <4>3. eRow' = [eRow EXCEPT ![eWork.key] = [eRow[eWork.key] EXCEPT !.expires = eWork.now + StaleFor]]
        BY <1>9, <3>1, <4>1 DEF ServeStale, RouteShape
      <4>4. QED
        BY <4>2, <4>3 DEF RouteShape
    <3>2. CASE ~StaleRow(eWork.key, eWork.now)
      BY <1>9, <3>2 DEF ServeStale, RouteShape
    <3>3. QED
      BY <3>1, <3>2
  <2>2. QED
    BY <1>9, <2>1, OtherMoves, RestShapes DEF ServeStale, RouteShape, eConfig, eLedger
<1>10. ASSUME NEW r \in Paths \cup {NoPath}, ProviderAnswers(r) PROVE RouteShape'
  <2>1. eWork' \in Drain /\ eWork'.key = eWork.key /\ (eWork'.pc = "store" => eWork'.ttl \in Ttls) /\ eWork.pc = "ask"
        /\ eWork'.src = "provider"
    BY <1>10, OtherMoves DEF RouteShape
  <2>2. eUsed' \in Nat /\ eBought' \in Nat /\ eBreaker' \in Circuit
    BY <1>10, RestShapes DEF ProviderAnswers, RouteShape
  <2>3. QED
    BY <1>10, <2>1, <2>2 DEF ProviderAnswers, RouteShape, eTables, eConfig, eMarks
<1>11. CASE SwapProvider
  BY <1>11, RestShapes DEF SwapProvider, RouteShape, eTables, eLedger
<1>12. ASSUME NEW l \in Limits, NEW t \in Ttls, AdoptEconomy(l, t) PROVE RouteShape'
  BY <1>12 DEF AdoptEconomy, RouteShape, eTables, eConfig, eLedger, eMarks
<1>13. CASE SaveLedger
  BY <1>13, <1>n DEF SaveLedger, RouteShape, eTables, eConfig, eLedger, eMarks, ePastE, NotSaving
<1>14. ASSUME NEW k \in Callsigns, NEW r \in Paths, ImportDirectory(k, r) PROVE RouteShape'
  BY <1>14 DEF ImportDirectory, RouteShape, eTables, eConfig, eLedger, eMarks, ePastE
<1>15. CASE PruneCache
  BY <1>15, <1>n DEF PruneCache, RouteShape, eConfig, eLedger, eMarks, ePastE
<1>16. CASE RestartEnrichment
  <2>1. eSave' \in [pc : {"idle", "ledger", "set"}, count : Nat]
    BY <1>16 DEF RestartEnrichment, NotSaving
  <2>2. eUsed' \in Nat /\ eDay' \in Int /\ eTokens' \in 0 .. Burst /\ eSkip' \in [Callsigns -> Nat]
    BY <1>16, <1>n DEF RestartEnrichment, RouteShape
  <2>3. eSpoiled' \in BOOLEAN
    BY <1>16 DEF RestartEnrichment, RouteShape
  <2>4. eWork' \in Drain /\ eWork'.pc = "idle" /\ eBreaker' \in Circuit
    BY <1>16, RestShapes DEF RestartEnrichment
  <2>5. QED
    BY <1>16, <2>1, <2>2, <2>3, <2>4 DEF RestartEnrichment, RouteShape, eTables, eConfig
<1>17. CASE RouteTick
  BY <1>17 DEF RouteTick, RouteShape, eTables, eConfig, eLedger, eMarks
<1>18. CASE UNCHANGED eVars
  BY <1>18 DEF eVars, RouteShape
<1>19. QED
  BY <1>1, <1>2, <1>3, <1>4, <1>5, <1>6, <1>7, <1>8, <1>9, <1>10, <1>11, <1>12, <1>13, <1>14, <1>15, <1>16, <1>17, <1>18
     DEF RouteNext

\* No action leaves a queue that is not one, or an answer held for a callsign that waits.
LEMMA QueueStep ==
  ASSUME RouteShape, QueueOK(ePending), ApartInv, [RouteNext]_eVars
  PROVE  QueueOK(ePending') /\ ApartInv'
<1> USE RouteConstants
<1>e. QueueOK(<<>>) /\ KeysOf(<<>>) = {}
  BY DEF QueueOK, KeysOf
<1>u. \A k : QueueOK(Unqueued(k)) /\ KeysOf(Unqueued(k)) \subseteq KeysOf(ePending) \ {k}
  BY UnqueuedKeeps
<1>r. ASSUME UNCHANGED <<ePending, eAnswers>>,
             eWork'.pc # "idle" => eWork.pc # "idle" /\ eWork'.key = eWork.key
      PROVE  QueueOK(ePending') /\ ApartInv'
  BY <1>r DEF ApartInv, KeysOf
<1>f. ASSUME NEW route, NEW expires, Finish(eWork.key, route, expires), eWork.pc # "idle" PROVE QueueOK(ePending') /\ ApartInv'
  <2>1. /\ DOMAIN eAnswers' = DOMAIN eAnswers \cup {eWork.key} /\ ePending' = Unqueued(eWork.key) /\ eWork'.pc = "idle"
    BY <1>f, RestShapes DEF Finish
  <2>2. eWork.key \in Callsigns
    BY <1>f DEF RouteShape
  <2>3. KeysOf(ePending') = KeysOf(Unqueued(eWork.key)) /\ QueueOK(ePending')
    BY <2>1, <1>u
  <2>4. QED
    BY <2>1, <2>2, <2>3, <1>u DEF ApartInv
<1>o. \A used : Outcome(used) => (eWork'.pc # "idle" => eWork'.key = eWork.key)
  BY RestShapes DEF Outcome, Kept
<1>1. ASSUME NEW p \in Flights, Consider(p) PROVE QueueOK(ePending') /\ ApartInv'
  <2> DEFINE k == CallsignOf[p]
             held == k \in DOMAIN eAnswers
  <2>1. CASE UNCHANGED <<ePending, eAnswers>>
    BY <1>1, <2>1, <1>r DEF Consider
  <2>2. CASE ePending' = Queued(k, p, held) /\ eAnswers' = Drop(eAnswers, k)
    <3>1. QueueOK(ePending') /\ KeysOf(Queued(k, p, held)) \subseteq KeysOf(ePending) \cup {k}
      <4>1. held \in BOOLEAN
        OBVIOUS
      <4>2. QED
        BY <4>1, <2>2, QueuedKeeps
    <3>2. KeysOf(ePending') = KeysOf(Queued(k, p, held))
      BY <2>2
    <3>3. DOMAIN eAnswers' = DOMAIN eAnswers \ {k} /\ eWork' = eWork
      BY <1>1, <2>2 DEF Drop, Consider
    <3>4. QED
      BY <3>1, <3>2, <3>3 DEF ApartInv
  <2>3. QED
    BY <1>1, <2>1, <2>2 DEF Consider
<1>2. ASSUME NEW p \in Flights, NEW r \in Paths, Latch(p, r) PROVE QueueOK(ePending') /\ ApartInv'
  BY <1>2, <1>r DEF Latch
<1>3. CASE DrainBegin
  <2>1. eWork'.key \in KeysOf(ePending) /\ UNCHANGED <<ePending, eAnswers>>
    BY <1>3, OtherMoves DEF DrainBegin
  <2>2. QED
    BY <2>1 DEF ApartInv, KeysOf
<1>4. CASE ReadCache
  <2>1. CASE UNCHANGED <<ePending, eAnswers>>
    BY <1>4, <2>1, <1>r, OtherMoves, RestShapes DEF Kept
  <2>2. CASE ~UNCHANGED <<ePending, eAnswers>>
    <3>1. PICK route, expires : Finish(eWork.key, route, expires)
      BY <1>4, <2>2 DEF ReadCache
    <3>2. QED
      BY <3>1, <1>f, <1>4 DEF ReadCache
  <2>3. QED
    BY <2>1, <2>2
<1>5. CASE ReadDirectory
  <2>1. UNCHANGED <<ePending, eAnswers>> /\ (eWork'.pc # "idle" => eWork.pc # "idle" /\ eWork'.key = eWork.key)
    BY <1>5, <1>o, DirectoryMoves DEF ReadDirectory, Kept
  <2>2. QED
    BY <2>1, <1>r
<1>6. CASE ReadLedger
  <2>1. UNCHANGED <<ePending, eAnswers>> /\ (eWork'.pc # "idle" => eWork.pc # "idle" /\ eWork'.key = eWork.key)
    BY <1>6, <1>o, LedgerMoves, RestShapes DEF ReadLedger, Kept
  <2>2. QED
    BY <2>1, <1>r
<1>7. CASE ProviderFails
  <2>1. UNCHANGED <<ePending, eAnswers>> /\ eWork.pc # "idle" /\ eWork'.key = eWork.key
    BY <1>7, OtherMoves DEF ProviderFails
  <2>2. QED
    BY <2>1, <1>r
<1>8. CASE StoreAnswer
  <2>1. eWork.pc # "idle" /\ \E route, expires : Finish(eWork.key, route, expires)
    BY <1>8 DEF StoreAnswer
  <2>2. QED
    BY <2>1, <1>f
<1>9. CASE ServeStale
  <2>1. CASE \E route, expires : Finish(eWork.key, route, expires)
    BY <2>1, <1>9, <1>f DEF ServeStale
  <2>2. CASE UNCHANGED <<ePending, eAnswers>>
    BY <2>2, <1>9, <1>r, OtherMoves, RestShapes
  <2>3. CASE ePending' = Unqueued(eWork.key) /\ UNCHANGED eAnswers
    <3>1. eWork'.pc = "idle"
      BY <1>9, OtherMoves, RestShapes
    <3>2. KeysOf(ePending') = KeysOf(Unqueued(eWork.key)) /\ QueueOK(ePending')
      BY <2>3, <1>u
    <3>3. QED
      BY <3>1, <3>2, <2>3, <1>u DEF ApartInv
  <2>4. QED
    BY <1>9, <2>1, <2>2, <2>3 DEF ServeStale
<1>10. ASSUME NEW r \in Paths \cup {NoPath}, ProviderAnswers(r) PROVE QueueOK(ePending') /\ ApartInv'
  <2>1. UNCHANGED <<ePending, eAnswers>> /\ eWork.pc # "idle" /\ eWork'.key = eWork.key
    BY <1>10, OtherMoves DEF ProviderAnswers
  <2>2. QED
    BY <2>1, <1>r
<1>11. CASE SwapProvider
  <2>1. ePending' = <<>> /\ UNCHANGED <<eAnswers, eWork>>
    BY <1>11 DEF SwapProvider
  <2>2. QED
    BY <2>1, <1>e DEF ApartInv
<1>12. ASSUME NEW l \in Limits, NEW t \in Ttls, AdoptEconomy(l, t) PROVE QueueOK(ePending') /\ ApartInv'
  BY <1>12, <1>r DEF AdoptEconomy
<1>13. CASE SaveLedger
  BY <1>13, <1>r DEF SaveLedger
<1>14. ASSUME NEW k \in Callsigns, NEW r \in Paths, ImportDirectory(k, r) PROVE QueueOK(ePending') /\ ApartInv'
  BY <1>14, <1>r DEF ImportDirectory
<1>15. CASE PruneCache
  BY <1>15, <1>r DEF PruneCache
<1>16. CASE RestartEnrichment
  <2>1. ePending' = <<>> /\ eAnswers' = <<>> /\ eWork'.pc = "idle"
    BY <1>16, RestShapes DEF RestartEnrichment
  <2>2. QED
    BY <2>1, <1>e DEF ApartInv
<1>17. CASE RouteTick
  BY <1>17, <1>r DEF RouteTick
<1>18. CASE UNCHANGED eVars
  BY <1>18, <1>r DEF eVars
<1>19. QED
  BY <1>1, <1>2, <1>3, <1>4, <1>5, <1>6, <1>7, <1>8, <1>9, <1>10, <1>11, <1>12, <1>13, <1>14, <1>15, <1>16, <1>17, <1>18
     DEF RouteNext

\* No action disturbs what an aircraft is known to have disproved, or what a drain found past its skip.
LEMMA SkipStep ==
  ASSUME RouteShape, RouteShape', ApartInv, SkipInv, QueueOK(ePending), [RouteNext]_eVars
  PROVE  SkipInv'
<1> USE RouteConstants
<1>r. ASSUME UNCHANGED <<eSkip, eDisproved>>, eWork'.pc = "store" /\ eWork'.src = "vrs" => eWork.pc = "store" /\ UNCHANGED eWork
      PROVE  SkipInv'
  BY <1>r DEF SkipInv
<1>o. \A used : Outcome(used) => eWork'.pc # "store"
  BY RestShapes DEF Outcome
<1>s. ASSUME NEW k \in Callsigns, NEW src, NEW path, eSkip' = SkipDirectory(k, src),
             eDisproved' = IF src = "vrs" THEN eDisproved \cup {<<k, path>>} ELSE eDisproved
      PROVE  \A a, r : <<a, r>> \in eDisproved' => a \in Callsigns /\ eSkip'[a] > 0
  <2>1. eSkip \in [Callsigns -> Nat] /\ eClock + eTtl \in Nat /\ eClock + eTtl > 0
    BY DEF RouteShape
  <2>2. \A a \in Callsigns : eSkip'[a] = eSkip[a] \/ (a = k /\ eSkip'[a] > 0)
    BY <1>s, <2>1 DEF SkipDirectory
  <2>3. src = "vrs" => eSkip'[k] > 0
    BY <1>s, <2>1 DEF SkipDirectory
  <2>4. QED
    BY <1>s, <2>2, <2>3 DEF SkipInv
<1>1. ASSUME NEW p \in Flights, Consider(p) PROVE SkipInv'
  <2> DEFINE k == CallsignOf[p]
             route == eAnswers[k].route
  <2>1. CASE UNCHANGED <<eSkip, eDisproved>>
    BY <1>1, <2>1, <1>r DEF Consider
  <2>2. CASE ~UNCHANGED <<eSkip, eDisproved>>
    <3>1. /\ eSkip' = SkipDirectory(k, route.src) /\ eDisproved' = Disproved(k, route)
          /\ k \in DOMAIN eAnswers /\ UNCHANGED eWork
      BY <1>1, <2>2 DEF Consider, eMarks
    <3>2. k \in Callsigns
      OBVIOUS
    <3>3. \A a, r : <<a, r>> \in eDisproved' => a \in Callsigns /\ eSkip'[a] > 0
      BY <3>1, <3>2, <1>s DEF Disproved
    <3>4. eWork.pc = "store" => eWork.key # k
      BY <3>1 DEF ApartInv
    <3>5. \A a \in Callsigns : a # k => eSkip'[a] = eSkip[a]
      BY <3>1 DEF SkipDirectory, RouteShape
    <3>6. QED
      BY <3>1, <3>3, <3>4, <3>5 DEF SkipInv, RouteShape
  <2>3. QED
    BY <2>1, <2>2
<1>2. ASSUME NEW p \in Flights, NEW r \in Paths, Latch(p, r) PROVE SkipInv'
  BY <1>2, <1>r DEF Latch, eMarks, ePastE
<1>3. CASE DrainBegin
  BY <1>3, <1>r, OtherMoves DEF DrainBegin, eMarks, ePastE
<1>4. CASE ReadCache
  <2>1. eWork'.pc # "store"
    BY <1>4, OtherMoves, RestShapes
  <2>2. CASE UNCHANGED <<eSkip, eDisproved>>
    BY <2>1, <2>2, <1>r
  <2>3. CASE ~UNCHANGED <<eSkip, eDisproved>>
    <3> DEFINE row == IF eWork.key \in eInvalidating THEN NoRow ELSE eRow[eWork.key]
    <3>1. eSkip' = SkipDirectory(eWork.key, row.src) /\ eDisproved' = Disproved(eWork.key, row) /\ eWork.key \in Callsigns
      BY <1>4, <2>3 DEF ReadCache, RouteShape
    <3>2. \A a, r : <<a, r>> \in eDisproved' => a \in Callsigns /\ eSkip'[a] > 0
      <4> HIDE DEF row
      <4>1. QED
        BY <3>1, <1>s DEF Disproved
    <3>3. QED
      BY <3>2, <2>1 DEF SkipInv
  <2>4. QED
    BY <2>2, <2>3
<1>5. CASE ReadDirectory
  <2> DEFINE k == eWork.key
             bad == Contradicted(k, WaitingFlights(k), DirectoryAnswer(k))
  <2>1. /\ k \in Callsigns
        /\ eSkip' = IF bad THEN SkipDirectory(k, "vrs") ELSE eSkip
        /\ eDisproved' = IF bad THEN eDisproved \cup {<<k, DirectoryAnswer(k)>>} ELSE eDisproved
    BY <1>5 DEF ReadDirectory, DirectoryAnswer, RouteShape
  <2>2. eWork'.pc = "store" => ~bad /\ DirectoryAnswer(k) # NoPath /\ Kept
    BY <1>5, <1>o, DirectoryMoves
  <2> HIDE DEF bad
  <2>3. CASE bad
    <3>1. eSkip' = SkipDirectory(k, "vrs") /\ eDisproved' = IF "vrs" = "vrs" THEN eDisproved \cup {<<k, DirectoryAnswer(k)>>} ELSE eDisproved
      BY <2>1, <2>3
    <3>2. \A a, r : <<a, r>> \in eDisproved' => a \in Callsigns /\ eSkip'[a] > 0
      BY <2>1, <3>1, <1>s
    <3>3. QED
      BY <3>2, <2>2, <2>3 DEF SkipInv
  <2>4. CASE ~bad
    <3>1. UNCHANGED <<eSkip, eDisproved>>
      BY <2>1, <2>4
    <3>2. eWork'.pc = "store" => eSkip[k] <= eWork.now /\ eWork'.key = k /\ eWork'.now = eWork.now
      <4>1. eSkip[k] \in Nat /\ eWork.now \in Nat
        BY <2>1 DEF RouteShape, Drain
      <4>2. QED
        BY <4>1, <2>2 DEF DirectoryAnswer, Kept
    <3>3. QED
      BY <3>1, <3>2 DEF SkipInv
  <2>5. QED
    BY <2>3, <2>4
<1>6. CASE ReadLedger
  <2>1. UNCHANGED <<eSkip, eDisproved>>
    BY <1>6 DEF ReadLedger, eMarks
  <2>2. eWork'.pc = "store" => eWork.pc = "spend" /\ eWork'.src = eWork.src
    BY <1>6, <1>o, LedgerMoves, RestShapes
  <2>3. eWork'.pc = "store" => eWork'.src # "vrs"
    BY <2>2 DEF RouteShape
  <2>4. QED
    BY <2>1, <2>3, <1>r
<1>7. CASE ProviderFails
  BY <1>7, <1>r, OtherMoves DEF ProviderFails, eMarks, ePastE
<1>8. CASE StoreAnswer
  BY <1>8, <1>r, OtherMoves, RestShapes DEF StoreAnswer, eMarks
<1>9. CASE ServeStale
  BY <1>9, <1>r, OtherMoves, RestShapes DEF ServeStale
<1>10. ASSUME NEW r \in Paths \cup {NoPath}, ProviderAnswers(r) PROVE SkipInv'
  <2>1. UNCHANGED <<eSkip, eDisproved>> /\ eWork'.src # "vrs"
    BY <1>10, OtherMoves DEF ProviderAnswers, eMarks
  <2>2. QED
    BY <2>1, <1>r
<1>11. CASE SwapProvider
  BY <1>11, <1>r DEF SwapProvider
<1>12. ASSUME NEW l \in Limits, NEW t \in Ttls, AdoptEconomy(l, t) PROVE SkipInv'
  BY <1>12, <1>r DEF AdoptEconomy, eMarks
<1>13. CASE SaveLedger
  BY <1>13, <1>r DEF SaveLedger, eMarks, ePastE
<1>14. ASSUME NEW k \in Callsigns, NEW r \in Paths, ImportDirectory(k, r) PROVE SkipInv'
  BY <1>14, <1>r DEF ImportDirectory, eMarks, ePastE
<1>15. CASE PruneCache
  BY <1>15, <1>r DEF PruneCache, eMarks, ePastE
<1>16. CASE RestartEnrichment
  BY <1>16, RestShapes DEF RestartEnrichment, SkipInv
<1>17. CASE RouteTick
  BY <1>17, <1>r DEF RouteTick, eMarks
<1>18. CASE UNCHANGED eVars
  BY <1>18, <1>r DEF eVars
<1>19. QED
  BY <1>1, <1>2, <1>3, <1>4, <1>5, <1>6, <1>7, <1>8, <1>9, <1>10, <1>11, <1>12, <1>13, <1>14, <1>15, <1>16, <1>17, <1>18
     DEF RouteNext

\* No action hands on a route that nobody reported for the callsign it is handed to.
LEMMA ReportedStep ==
  ASSUME RouteShape, RouteShape', QueueOK(ePending), ReportedInv, [RouteNext]_eVars
  PROVE  ReportedInv'
<1> USE RouteConstants
<1>a. ASSUME eReported \subseteq eReported', UNCHANGED eApplied PROVE AppliedInv'
  BY <1>a DEF ReportedInv, AppliedInv
<1>b. ASSUME eReported \subseteq eReported', UNCHANGED eRow PROVE RowInv'
  BY <1>b DEF ReportedInv, RowInv
<1>c. ASSUME eReported \subseteq eReported', UNCHANGED eAnswers PROVE AnswerInv'
  BY <1>c DEF ReportedInv, AnswerInv
<1>d. ASSUME eReported \subseteq eReported', eWork'.pc \in {"spend", "store"} => eWork' = eWork PROVE CarriedInv'
  BY <1>d DEF ReportedInv, CarriedInv
<1>f. ASSUME NEW route, NEW expires, Finish(eWork.key, route, expires), eReported' = eReported,
             route.path # NoPath => <<eWork.key, route.path>> \in eReported
      PROVE  AppliedInv' /\ AnswerInv' /\ CarriedInv'
  <2>1. \A p \in WaitingFlights(eWork.key) : CallsignOf[p] = eWork.key
    BY DEF QueueOK, WaitingFlights, Waiting
  <2>2. \A p \in Flights : eApplied'[p].path = eApplied[p].path
                           \/ (p \in WaitingFlights(eWork.key) /\ route.path # NoPath /\ eApplied'[p].path = route.path)
    BY <1>f DEF Finish, Applied
  <2>3. AppliedInv'
    BY <1>f, <2>1, <2>2 DEF ReportedInv, AppliedInv
  <2>4. AnswerInv'
    BY <1>f DEF Finish, ReportedInv, AnswerInv
  <2>5. CarriedInv'
    BY <1>f, RestShapes DEF Finish, CarriedInv
  <2>6. QED
    BY <2>3, <2>4, <2>5
<1>n. NoRow.path = NoPath /\ NoRow.status = "absent"
  BY DEF NoRow
<1>o. \A used : Outcome(used) => eWork'.pc \notin {"spend", "store"}
  BY RestShapes DEF Outcome
<1>1. ASSUME NEW p \in Flights, Consider(p) PROVE ReportedInv'
  <2> DEFINE k == CallsignOf[p]
  <2>1. eReported' = eReported /\ UNCHANGED <<eRow, eWork>>
    BY <1>1 DEF Consider, eTables
  <2>2. CASE UNCHANGED <<eAnswers, eApplied>>
    BY <2>1, <2>2, <1>a, <1>b, <1>c, <1>d DEF ReportedInv
  <2>3. CASE k \in DOMAIN eAnswers /\ eApplied' = Applied(eAnswers[k].route, {p}) /\ UNCHANGED eAnswers
    <3>1. \A f \in Flights : eApplied'[f].path = eApplied[f].path
                             \/ (f = p /\ eAnswers[k].route.path # NoPath /\ eApplied'[f].path = eAnswers[k].route.path)
      BY <2>3 DEF Applied
    <3>2. AppliedInv'
      BY <2>1, <2>3, <3>1 DEF ReportedInv, AppliedInv, AnswerInv
    <3>3. QED
      BY <2>1, <2>3, <3>2, <1>b, <1>c, <1>d DEF ReportedInv
  <2>4. CASE eAnswers' = Drop(eAnswers, k) /\ UNCHANGED eApplied
    <3>1. AnswerInv'
      BY <2>1, <2>4 DEF ReportedInv, AnswerInv, Drop
    <3>2. QED
      BY <2>1, <2>4, <3>1, <1>a, <1>b, <1>d DEF ReportedInv
  <2>5. QED
    BY <1>1, <2>2, <2>3, <2>4 DEF Consider
<1>2. ASSUME NEW p \in Flights, NEW r \in Paths, Latch(p, r) PROVE ReportedInv'
  BY <1>2, <1>a, <1>b, <1>c, <1>d DEF Latch, ReportedInv, eTables, ePastE
<1>3. CASE DrainBegin
  BY <1>3, <1>a, <1>b, <1>c, <1>d, OtherMoves DEF DrainBegin, ReportedInv, eTables, ePastE
<1>4. CASE ReadCache
  <2> DEFINE k == eWork.key
             row == IF k \in eInvalidating THEN NoRow ELSE eRow[k]
  <2>1. eReported' = eReported /\ eWork.pc = "cache" /\ k \in Callsigns
    BY <1>4 DEF ReadCache, RouteShape
  <2>2. RowInv'
    <3>1. \E kept \in {NoRow, eRow[k]} : eRow' = [eRow EXCEPT ![k] = kept]
      BY <1>4 DEF ReadCache
    <3>2. \A a \in Callsigns : eRow'[a] = eRow[a] \/ eRow'[a] = NoRow
      BY <3>1, <2>1 DEF RouteShape
    <3>3. QED
      BY <3>2, <2>1, <1>n DEF RowInv, ReportedInv
  <2>3. CASE UNCHANGED <<eAnswers, eApplied>> /\ eWork'.pc = "directory"
    BY <2>1, <2>2, <2>3, <1>a, <1>c, <1>d DEF ReportedInv
  <2>4. CASE Finish(k, [path |-> row.path, src |-> row.src], row.expires)
    <3>1. row.path # NoPath => <<k, row.path>> \in eReported
      BY <2>1, <1>n DEF ReportedInv, RowInv
    <3> HIDE DEF row
    <3>2. [path |-> row.path, src |-> row.src].path = row.path
      OBVIOUS
    <3>3. QED
      BY <2>1, <2>2, <2>4, <3>1, <3>2, <1>f DEF ReportedInv
  <2>5. QED
    <3>1. eWork' = [eWork EXCEPT !.pc = "directory"] => eWork'.pc = "directory"
      BY DEF RouteShape, Drain
    <3>2. QED
      BY <1>4, <2>3, <2>4, <3>1 DEF ReadCache
<1>5. CASE ReadDirectory
  <2>1. /\ UNCHANGED <<eApplied, eRow, eAnswers>> /\ eReported \subseteq eReported'
        /\ DirectoryAnswer(eWork.key) # NoPath => <<eWork.key, DirectoryAnswer(eWork.key)>> \in eReported'
    BY <1>5 DEF ReadDirectory, eTables, DirectoryAnswer
  <2>2. eWork'.pc \in {"spend", "store"} =>
          /\ DirectoryAnswer(eWork.key) # NoPath /\ eWork'.key = eWork.key /\ eWork'.path = DirectoryAnswer(eWork.key) /\ eWork'.src = "vrs"
    BY <1>5, <1>o, DirectoryMoves DEF Kept
  <2>3. CarriedInv'
    BY <2>1, <2>2 DEF CarriedInv
  <2>4. QED
    BY <2>1, <2>3, <1>a, <1>b, <1>c DEF ReportedInv
<1>6. CASE ReadLedger
  <2>1. UNCHANGED <<eApplied, eRow, eAnswers>> /\ eReported' = eReported
    BY <1>6 DEF ReadLedger, eTables
  <2>2. eWork'.pc \in {"spend", "store"} =>
          eWork.pc = "spend" /\ eWork'.key = eWork.key /\ eWork'.path = eWork.path /\ eWork'.src = eWork.src
    BY <1>6, <1>o, LedgerMoves, RestShapes DEF Kept
  <2>3. CarriedInv'
    BY <2>1, <2>2 DEF CarriedInv, ReportedInv
  <2>4. QED
    BY <2>1, <2>3, <1>a, <1>b, <1>c DEF ReportedInv
<1>7. CASE ProviderFails
  BY <1>7, <1>a, <1>b, <1>c, <1>d, OtherMoves DEF ProviderFails, ReportedInv, eTables, ePastE
<1>8. CASE StoreAnswer
  <2> DEFINE k == eWork.key
  <2>1. eReported' = eReported /\ eWork.pc = "store" /\ k \in Callsigns
    BY <1>8 DEF StoreAnswer, RouteShape
  <2>2. eWork.path # NoPath => <<k, eWork.path>> \in eReported
    BY <2>1 DEF ReportedInv, CarriedInv
  <2>3. \E row : /\ eRow' = [eRow EXCEPT ![k] = row]
                 /\ row.path = eWork.path /\ row.src = eWork.src
                 /\ (row.status = "ok" <=> eWork.path # NoPath)
    <3>1. CASE eWork.path = NoPath
      <4>1. eRow' = [eRow EXCEPT ![k] = StoreNothing(eWork.src, eWork.now, RouteDay)]
        BY <1>8, <3>1 DEF StoreAnswer
      <4> DEFINE row == StoreNothing(eWork.src, eWork.now, RouteDay)
      <4>2. row.path = NoPath /\ row.src = eWork.src /\ row.status # "ok"
        BY DEF StoreNothing
      <4> HIDE DEF row
      <4>3. QED
        <5>1. eRow' = [eRow EXCEPT ![k] = row]
          BY <4>1 DEF row
        <5>2. QED
          BY <5>1, <4>2, <3>1
    <3>2. CASE eWork.path # NoPath
      <4>1. eRow' = [eRow EXCEPT ![k] = StoreRoute(eRow[k], eWork.path, eWork.src, eWork.now, eWork.ttl)]
        BY <1>8, <3>2 DEF StoreAnswer
      <4> DEFINE row == StoreRoute(eRow[k], eWork.path, eWork.src, eWork.now, eWork.ttl)
      <4>2. row.path = eWork.path /\ row.src = eWork.src /\ row.status = "ok"
        BY DEF StoreRoute
      <4> HIDE DEF row
      <4>3. eRow' = [eRow EXCEPT ![k] = row]
        BY <4>1 DEF row
      <4>4. QED
        BY <4>2, <4>3, <3>2
    <3>3. QED
      BY <3>1, <3>2
  <2>4. RowInv'
    BY <2>1, <2>2, <2>3 DEF RowInv, ReportedInv, CarriedInv, RouteShape
  <2>5. PICK route, expires : Finish(k, route, expires) /\ route.path = eWork.path
    BY <1>8 DEF StoreAnswer
  <2>6. QED
    BY <2>1, <2>2, <2>4, <2>5, <1>f DEF ReportedInv
<1>9. CASE ServeStale
  <2> DEFINE k == eWork.key
  <2>1. eReported' = eReported /\ eWork.pc = "stale" /\ k \in Callsigns /\ eWork' = AtRest
    BY <1>9, OtherMoves DEF ServeStale, RouteShape
  <2>2. CASE StaleRow(k, eWork.now)
    <3>1. eRow' = [eRow EXCEPT ![k].expires = eWork.now + StaleFor]
      BY <1>9, <2>2 DEF ServeStale
    <3>2. \A a \in Callsigns : eRow'[a].path = eRow[a].path /\ eRow'[a].status = eRow[a].status /\ eRow'[a].src = eRow[a].src
      BY <3>1, <2>1 DEF RouteShape, CachedRow
    <3>3. RowInv'
      BY <3>2, <2>1 DEF RowInv, ReportedInv
    <3>4. PICK route, expires : Finish(k, route, expires) /\ route.path = eRow[k].path
      BY <1>9, <2>2 DEF ServeStale
    <3>5. QED
      BY <2>1, <3>3, <3>4, <1>f DEF ReportedInv, RowInv
  <2>3. CASE ~StaleRow(k, eWork.now)
    <3>1. UNCHANGED <<eRow, eAnswers, eApplied>>
      BY <1>9, <2>3 DEF ServeStale
    <3>2. QED
      BY <3>1, <2>1, <1>a, <1>b, <1>c, <1>d, RestShapes DEF ReportedInv
  <2>4. QED
    BY <2>2, <2>3
<1>10. ASSUME NEW r \in Paths \cup {NoPath}, ProviderAnswers(r) PROVE ReportedInv'
  <2>1. /\ UNCHANGED <<eApplied, eRow, eAnswers>> /\ eReported \subseteq eReported'
        /\ r # NoPath => <<eWork.key, r>> \in eReported'
    BY <1>10 DEF ProviderAnswers, eTables
  <2>2. CarriedInv'
    BY <1>10, <2>1, OtherMoves DEF CarriedInv
  <2>3. QED
    BY <2>1, <2>2, <1>a, <1>b, <1>c DEF ReportedInv
<1>11. CASE SwapProvider
  BY <1>11, <1>a, <1>b, <1>c, <1>d DEF SwapProvider, ReportedInv, eTables
<1>12. ASSUME NEW l \in Limits, NEW t \in Ttls, AdoptEconomy(l, t) PROVE ReportedInv'
  BY <1>12, <1>a, <1>b, <1>c, <1>d DEF AdoptEconomy, ReportedInv, eTables
<1>13. CASE SaveLedger
  BY <1>13, <1>a, <1>b, <1>c, <1>d DEF SaveLedger, ReportedInv, eTables, ePastE
<1>14. ASSUME NEW k \in Callsigns, NEW r \in Paths, ImportDirectory(k, r) PROVE ReportedInv'
  BY <1>14, <1>a, <1>b, <1>c, <1>d DEF ImportDirectory, ReportedInv, ePastE
<1>15. CASE PruneCache
  <2>1. UNCHANGED <<eApplied, eAnswers, eWork>> /\ eReported' = eReported
    BY <1>15 DEF PruneCache, ePastE
  <2>2. \A a \in Callsigns : eRow'[a] = eRow[a] \/ eRow'[a] = NoRow
    BY <1>15 DEF PruneCache
  <2>3. RowInv'
    BY <2>1, <2>2, <1>n DEF RowInv, ReportedInv
  <2>4. QED
    BY <2>1, <2>3, <1>a, <1>c, <1>d DEF ReportedInv
<1>16. CASE RestartEnrichment
  <2>1. UNCHANGED <<eApplied, eRow>> /\ eReported' = eReported /\ eAnswers' = <<>> /\ eWork'.pc = "idle"
    BY <1>16, RestShapes DEF RestartEnrichment, eTables
  <2>2. AnswerInv'
    BY <2>1 DEF AnswerInv
  <2>3. QED
    BY <2>1, <2>2, <1>a, <1>b, <1>d DEF ReportedInv
<1>17. CASE RouteTick
  BY <1>17, <1>a, <1>b, <1>c, <1>d DEF RouteTick, ReportedInv, eTables
<1>18. CASE UNCHANGED eVars
  BY <1>18, <1>a, <1>b, <1>c, <1>d DEF eVars, ReportedInv
<1>19. QED
  BY <1>1, <1>2, <1>3, <1>4, <1>5, <1>6, <1>7, <1>8, <1>9, <1>10, <1>11, <1>12, <1>13, <1>14, <1>15, <1>16, <1>17, <1>18
     DEF RouteNext

\* No action leaves an open circuit without the tokens its cooldown has earned, or a probe without its request.
LEMMA BreakerStep ==
  ASSUME RouteShape, RouteShape', QueueOK(ePending), BreakerInv, [RouteNext]_eVars
  PROVE  BreakerInv'
<1> USE RouteConstants
<1>t. /\ eClock \in Nat /\ eTokens \in Nat /\ eTokens <= Burst /\ eBreaker.opened \in Int /\ eBreaker.probing \in BOOLEAN
      /\ eBreaker \in Circuit
  BY DEF RouteShape, Circuit
<1>r. ASSUME UNCHANGED <<eClock, eBreaker, eTokens>>, eWork'.pc = "ask" <=> eWork.pc = "ask"
      PROVE  BreakerInv'
  BY <1>r DEF BreakerInv
<1>c. ASSUME eBreaker' = Closed PROVE BreakerInv'
  BY <1>c, RestShapes DEF BreakerInv
<1>p. Probing \in Circuit /\ Probing.opened = eBreaker.opened /\ (Probing.probing <=> eBreaker.opened # -1)
  BY <1>t DEF Probing, Circuit
<1>o. ASSUME NEW used, Outcome(used), eWork.pc # "ask", UNCHANGED eClock PROVE BreakerInv'
  <2>1. eBreaker.opened # -1 /\ Allow => Cooled /\ ~eBreaker.probing
    BY DEF Allow
  <2>2. eBreaker.opened # -1 /\ Allow => eTokens > 0
    BY <2>1, <1>t DEF BreakerInv, Cooled
  <2>3. CASE eWork'.pc = "stale" /\ UNCHANGED <<eBreaker, eTokens>>
    BY <2>3, <1>o, <1>r
  <2>4. CASE eWork' = AtRest /\ Allow /\ eTokens = 0 /\ eBreaker' = Probing /\ UNCHANGED eTokens
    BY <2>2, <2>4, <1>p DEF BreakerInv
  <2>5. CASE eWork'.pc = "ask" /\ Allow /\ eBreaker' = Probing /\ eTokens' = eTokens - 1
    BY <2>5, <1>o, <1>p, <1>t DEF BreakerInv
  <2>6. QED
    BY <1>o, <2>3, <2>4, <2>5 DEF Outcome
<1>1. ASSUME NEW p \in Flights, Consider(p) PROVE BreakerInv'
  BY <1>1, <1>r DEF Consider
<1>2. ASSUME NEW p \in Flights, NEW r \in Paths, Latch(p, r) PROVE BreakerInv'
  BY <1>2, <1>r DEF Latch
<1>3. CASE DrainBegin
  BY <1>3, <1>r, OtherMoves DEF DrainBegin
<1>4. CASE ReadCache
  BY <1>4, <1>r, OtherMoves, RestShapes DEF ReadCache
<1>5. CASE ReadDirectory
  <2>1. CASE Outcome(eUsed)
    BY <1>5, <2>1, <1>o DEF ReadDirectory
  <2>2. CASE ~Outcome(eUsed)
    BY <1>5, <2>2, <1>r, DirectoryMoves DEF ReadDirectory
  <2>3. QED
    BY <2>1, <2>2
<1>6. CASE ReadLedger
  <2>1. CASE Outcome(eUsed')
    BY <1>6, <2>1, <1>o DEF ReadLedger
  <2>2. CASE ~Outcome(eUsed')
    BY <1>6, <2>2, <1>r, LedgerMoves, RestShapes DEF ReadLedger
  <2>3. QED
    BY <2>1, <2>2
<1>7. CASE ProviderFails
  <2>1. /\ eWork.pc = "ask" /\ eWork'.pc = "stale" /\ UNCHANGED <<eClock, eTokens>>
        /\ eBreaker' = RecordProviderFailure(eBreaker)
    BY <1>7, OtherMoves DEF ProviderFails
  <2>2. eBreaker.opened # -1 => eBreaker.probing
    BY <2>1 DEF BreakerInv
  <2>3. \/ eBreaker'.opened = eClock /\ eBreaker'.probing = FALSE
        \/ eBreaker'.opened = eBreaker.opened /\ eBreaker'.probing = eBreaker.probing /\ ~eBreaker.probing
    BY <2>1, <1>t DEF RecordProviderFailure, Circuit
  <2>4. QED
    BY <2>1, <2>2, <2>3, <1>t DEF BreakerInv
<1>8. CASE StoreAnswer
  BY <1>8, <1>r, OtherMoves, RestShapes DEF StoreAnswer
<1>9. CASE ServeStale
  BY <1>9, <1>r, OtherMoves, RestShapes DEF ServeStale
<1>10. ASSUME NEW r \in Paths \cup {NoPath}, ProviderAnswers(r) PROVE BreakerInv'
  BY <1>10, <1>c DEF ProviderAnswers
<1>11. CASE SwapProvider
  BY <1>11, <1>c DEF SwapProvider
<1>12. ASSUME NEW l \in Limits, NEW t \in Ttls, AdoptEconomy(l, t) PROVE BreakerInv'
  BY <1>12, <1>r DEF AdoptEconomy
<1>13. CASE SaveLedger
  BY <1>13, <1>r DEF SaveLedger
<1>14. ASSUME NEW k \in Callsigns, NEW r \in Paths, ImportDirectory(k, r) PROVE BreakerInv'
  BY <1>14, <1>r DEF ImportDirectory
<1>15. CASE PruneCache
  BY <1>15, <1>r DEF PruneCache
<1>16. CASE RestartEnrichment
  BY <1>16, <1>c DEF RestartEnrichment
<1>17. CASE RouteTick
  <2>1. /\ eClock' = eClock + 1 /\ eTokens' = (IF eTokens < Burst THEN eTokens + 1 ELSE eTokens)
        /\ UNCHANGED <<eWork, eBreaker>>
    BY <1>17 DEF RouteTick
  <2>2. QED
    BY <2>1, <1>t DEF BreakerInv
<1>18. CASE UNCHANGED eVars
  BY <1>18, <1>r DEF eVars
<1>19. QED
  BY <1>1, <1>2, <1>3, <1>4, <1>5, <1>6, <1>7, <1>8, <1>9, <1>10, <1>11, <1>12, <1>13, <1>14, <1>15, <1>16, <1>17, <1>18
     DEF RouteNext

\* No action lets a drain fall a tick behind unnoticed, shortens a row's life to less than its day, or
\* spends on a callsign whose row is today's.
LEMMA TimeStep ==
  ASSUME RouteShape, RouteShape', QueueOK(ePending), TimeInv, [RouteNext]_eVars
  PROVE  TimeInv'
<1> USE RouteConstants
<1>t. /\ eClock \in Nat /\ eWork.now \in Nat /\ RouteDay \in Nat \ {0} /\ eDay \in Int
      /\ \A k \in Callsigns : eRow[k].fetched \in Nat /\ eRow[k].expires \in Nat
  BY DEF RouteShape, Drain, CachedRow
<1>d. /\ Today(eClock) \in Nat /\ DayStart(eClock) \in Nat /\ eClock < DayStart(eClock) + RouteDay
      /\ Today(eWork.now) \in Nat
  BY <1>t, DayFacts
<1>a. ASSUME UNCHANGED <<eClock, eBought>>,
             eWork'.pc # "idle" => (eWork.pc # "idle" /\ eWork'.now = eWork.now) \/ eWork'.now = eClock
      PROVE  LagInv'
  BY <1>a, <1>t DEF TimeInv, LagInv
<1>b. ASSUME UNCHANGED <<eClock, eRow>> PROVE AgeInv'
  BY <1>b DEF TimeInv, AgeInv
<1>c. ASSUME UNCHANGED <<eClock, eRow>>, eWork'.pc \in PastCache => eWork.pc \in PastCache /\ eWork'.key = eWork.key
      PROVE  StaleInv'
  BY <1>c DEF TimeInv, StaleInv
<1>e. ASSUME UNCHANGED eClock, eDay' = eDay \/ (eDay' = Today(eWork.now) /\ eWork.pc # "idle"),
             eSave'.pc # "idle" => eSave.pc # "idle", eSpoiled => eSpoiled'
      PROVE  DayInv'
  <2>0. eSave'.pc # "idle" => eSpoiled'
    BY <1>e DEF TimeInv, DayInv
  <2>1. eWork.pc # "idle" => Today(eWork.now) <= Today(eClock)
    <3>1. eWork.pc # "idle" => eClock = eWork.now \/ eClock = eWork.now + 1
      BY <1>t DEF TimeInv, LagInv
    <3>2. Today(eWork.now) <= Today(eWork.now + 1) /\ Today(eWork.now) <= Today(eWork.now)
      BY <1>t, DayFacts, SMTT(30)
    <3>3. QED
      BY <3>1, <3>2
  <2>2. QED
    BY <1>e, <2>0, <2>1 DEF TimeInv, DayInv
<1>g. ASSUME UNCHANGED <<eClock, eDay, eSave, eSpoiled>> PROVE DayInv'
  BY <1>g DEF TimeInv, DayInv
<1>s. ASSUME UNCHANGED <<eClock, eRow, eWork, eBought, eDay, eSave, eSpoiled>> PROVE TimeInv'
  BY <1>s, <1>g DEF TimeInv, LagInv, AgeInv, StaleInv
<1>o. \A used : Outcome(used) =>
        /\ eWork'.pc # "idle" => eWork'.key = eWork.key /\ eWork'.now = eWork.now
  BY RestShapes DEF Outcome, Kept
<1>1. ASSUME NEW p \in Flights, Consider(p) PROVE TimeInv'
  <2>1. UNCHANGED <<eClock, eRow, eWork, eBought, eDay, eSave, eSpoiled>>
    BY <1>1 DEF Consider, eTables, eLedger
  <2>2. QED
    BY <2>1, <1>s
<1>2. ASSUME NEW p \in Flights, NEW r \in Paths, Latch(p, r) PROVE TimeInv'
  <2>1. UNCHANGED <<eClock, eRow, eWork, eBought, eDay, eSave, eSpoiled>>
    BY <1>2 DEF Latch, eTables, eLedger, ePastE
  <2>2. QED
    BY <2>1, <1>s
<1>3. CASE DrainBegin
  <2>1. UNCHANGED <<eClock, eRow, eBought, eDay, eSave, eSpoiled>>
    BY <1>3 DEF DrainBegin, eTables, eLedger, ePastE
  <2>2. eWork'.pc = "cache" /\ eWork'.now = eClock
    BY <1>3, OtherMoves
  <2>3. QED
    BY <2>1, <2>2, <1>a, <1>b, <1>c, <1>g DEF TimeInv, PastCache
<1>4. CASE ReadCache
  <2> DEFINE k == eWork.key
             row == IF k \in eInvalidating THEN NoRow ELSE eRow[k]
             kept == IF row.status # "absent" /\ row.expires > eWork.now /\ Contradicted(k, WaitingFlights(k), row.path)
                     THEN NoRow ELSE row
  <2>1. /\ UNCHANGED <<eClock, eBought, eDay, eSave>> /\ (eSpoiled => eSpoiled') /\ k \in Callsigns
        /\ eRow' = [eRow EXCEPT ![k] = kept] /\ eWork.pc = "cache"
    BY <1>4 DEF ReadCache, eLedger, RouteShape
  <2>2. eWork'.pc # "idle" => eWork'.pc = "directory" /\ Kept
    BY <1>4, OtherMoves, RestShapes
  <2>3. eWork'.pc = "directory" => ~(row.status # "absent" /\ row.expires > eWork.now) \/ kept = NoRow
    BY <1>4, RestShapes DEF ReadCache, Finish
  <2>4. kept \in {NoRow, eRow[k]} /\ NoRow.status = "absent"
    BY DEF NoRow
  <2>5. \A a \in Callsigns : eRow'[a] = eRow[a] \/ eRow'[a].status = "absent"
    BY <2>1, <2>4 DEF RouteShape
  <2>6. AgeInv'
    BY <2>1, <2>5 DEF TimeInv, AgeInv
  <2>7. StaleInv'
    <3>1. SUFFICES ASSUME eWork'.pc = "directory" PROVE k \notin Since(eRow', DayStart(eClock))
      BY <2>1, <2>2 DEF StaleInv, Kept, PastCache
    <3>2. kept.status = "absent" \/ kept.expires <= eWork.now
      <4>1. row.expires \in Int /\ eWork.now \in Int
        BY <1>t, <2>1 DEF NoRow
      <4> HIDE DEF row
      <4>2. QED
        BY <3>1, <2>3, <2>4, <4>1
    <3>3. kept.status # "absent" => kept.fetched + RouteDay <= kept.expires /\ kept = eRow[k]
      BY <2>1, <2>4 DEF TimeInv, AgeInv
    <3>4. eRow'[k] = kept
      BY <2>1 DEF RouteShape
    <3> HIDE DEF kept
    <3>5. eWork.now <= eClock
      BY <2>1 DEF TimeInv, LagInv
    <3>6. kept.status # "absent" => kept.fetched < DayStart(eClock)
      BY <3>2, <3>3, <3>5, <1>t, <1>d, <2>1
    <3>7. kept.status # "absent" => ~(kept.fetched >= DayStart(eClock))
      BY <3>6, <3>3, <1>t, <1>d, <2>1
    <3>8. QED
      BY <3>4, <3>7 DEF Since
  <2>8. LagInv'
    BY <2>1, <2>2, <1>a DEF Kept
  <2>9. DayInv'
    BY <2>1, <1>e
  <2>10. QED
    BY <2>6, <2>7, <2>8, <2>9 DEF TimeInv
<1>5. CASE ReadDirectory
  <2>1. UNCHANGED <<eClock, eRow, eBought, eDay, eSave, eSpoiled>> /\ eWork.pc = "directory"
    BY <1>5 DEF ReadDirectory, eTables, eLedger
  <2>2. eWork'.pc # "idle" => eWork'.key = eWork.key /\ eWork'.now = eWork.now
    BY <1>5, <1>o, DirectoryMoves DEF Kept
  <2>3. QED
    BY <2>1, <2>2, <1>a, <1>b, <1>c, <1>e DEF TimeInv, PastCache
<1>6. CASE ReadLedger
  <2>1. UNCHANGED <<eClock, eRow, eBought, eSave, eSpoiled>> /\ eWork.pc \in {"ledger", "spend"} /\ eDay' = Today(eWork.now)
    BY <1>6 DEF ReadLedger, eTables, ePastE
  <2>2. eWork'.pc # "idle" => eWork'.key = eWork.key /\ eWork'.now = eWork.now
    BY <1>6, <1>o, LedgerMoves, RestShapes DEF Kept
  <2>3. QED
    BY <2>1, <2>2, <1>a, <1>b, <1>c, <1>e DEF TimeInv, PastCache
<1>7. CASE ProviderFails
  <2>1. UNCHANGED <<eClock, eRow, eBought, eDay, eSave, eSpoiled>>
    BY <1>7 DEF ProviderFails, eTables, eLedger, ePastE
  <2>2. eWork'.pc = "stale" /\ eWork'.now = eClock
    BY <1>7, OtherMoves
  <2>3. QED
    BY <2>1, <2>2, <1>a, <1>b, <1>c, <1>g DEF TimeInv, PastCache
<1>8. CASE StoreAnswer
  <2> DEFINE k == eWork.key
  <2>1. UNCHANGED <<eClock, eBought, eDay, eSave, eSpoiled>> /\ eWork.pc = "store" /\ k \in Callsigns /\ eWork'.pc = "idle"
    BY <1>8, OtherMoves, RestShapes DEF StoreAnswer, eLedger, RouteShape
  <2>2. \E row : /\ eRow' = [eRow EXCEPT ![k] = row]
                 /\ row.fetched = eWork.now /\ row.expires >= eWork.now + RouteDay
    <3>1. CASE eWork.path = NoPath
      <4>1. eRow' = [eRow EXCEPT ![k] = StoreNothing(eWork.src, eWork.now, RouteDay)]
        BY <1>8, <3>1 DEF StoreAnswer
      <4> DEFINE row == StoreNothing(eWork.src, eWork.now, RouteDay)
      <4>2. row.fetched = eWork.now /\ row.expires >= eWork.now + RouteDay
        BY <1>t DEF StoreNothing
      <4>3. eRow' = [eRow EXCEPT ![k] = row]
        BY <4>1
      <4> HIDE DEF row
      <4>4. QED
        BY <4>2, <4>3
    <3>2. CASE eWork.path # NoPath
      <4>1. eRow' = [eRow EXCEPT ![k] = StoreRoute(eRow[k], eWork.path, eWork.src, eWork.now, eWork.ttl)]
        BY <1>8, <3>2 DEF StoreAnswer
      <4>2. eWork.ttl \in Ttls /\ eWork.ttl \in Nat /\ LearnedTtl \in Nat /\ LearnedTtl >= RouteDay /\ eWork.ttl >= RouteDay
        BY <2>1 DEF RouteShape
      <4> DEFINE row == StoreRoute(eRow[k], eWork.path, eWork.src, eWork.now, eWork.ttl)
      <4>3. row.fetched = eWork.now /\ row.expires >= eWork.now + RouteDay
        BY <4>2, <1>t DEF StoreRoute
      <4>4. eRow' = [eRow EXCEPT ![k] = row]
        BY <4>1
      <4> HIDE DEF row
      <4>5. QED
        BY <4>3, <4>4
    <3>3. QED
      BY <3>1, <3>2
  <2>3. AgeInv'
    <3>1. eWork.now <= eClock
      BY <2>1 DEF TimeInv, LagInv
    <3>2. QED
      BY <2>1, <2>2, <3>1 DEF TimeInv, AgeInv, RouteShape
  <2>4. QED
    BY <2>1, <2>3, <1>a, <1>e DEF TimeInv, StaleInv, PastCache
<1>9. CASE ServeStale
  <2> DEFINE k == eWork.key
  <2>1. UNCHANGED <<eClock, eBought, eDay, eSave, eSpoiled>> /\ eWork.pc = "stale" /\ k \in Callsigns /\ eWork'.pc = "idle"
    BY <1>9, OtherMoves, RestShapes DEF ServeStale, eLedger, RouteShape
  <2>2. AgeInv'
    <3>1. CASE StaleRow(k, eWork.now)
      <4>1. eRow' = [eRow EXCEPT ![k].expires = eWork.now + StaleFor]
        BY <1>9, <3>1 DEF ServeStale
      <4>2. /\ \A a \in Callsigns : a # k => eRow'[a] = eRow[a]
            /\ eRow'[k].fetched = eRow[k].fetched /\ eRow'[k].expires = eWork.now + StaleFor /\ eRow'[k].status = eRow[k].status
        BY <4>1, <2>1 DEF RouteShape, CachedRow
      <4>3. eRow[k].expires <= eWork.now /\ StaleFor \in Nat
        BY <3>1 DEF StaleRow
      <4>4. QED
        BY <2>1, <4>2, <4>3, <1>t DEF TimeInv, AgeInv
    <3>2. CASE ~StaleRow(k, eWork.now)
      BY <1>9, <3>2, <2>1, <1>b DEF ServeStale
    <3>3. QED
      BY <3>1, <3>2
  <2>3. QED
    BY <2>1, <2>2, <1>a, <1>e DEF TimeInv, StaleInv, PastCache
<1>10. ASSUME NEW r \in Paths \cup {NoPath}, ProviderAnswers(r) PROVE TimeInv'
  <2>1. UNCHANGED <<eClock, eRow, eDay, eSave, eSpoiled>>
    BY <1>10 DEF ProviderAnswers, eTables
  <2>2. eWork.pc = "ask" /\ eWork'.now = eClock /\ eWork'.key = eWork.key
    BY <1>10, OtherMoves
  <2>3. LagInv'
    BY <2>1, <2>2, <1>t DEF LagInv
  <2>4. QED
    BY <2>1, <2>2, <2>3, <1>b, <1>c, <1>e DEF TimeInv, PastCache
<1>11. CASE SwapProvider
  <2>1. UNCHANGED <<eClock, eRow, eWork, eBought, eDay, eSave, eSpoiled>>
    BY <1>11 DEF SwapProvider, eTables, eLedger
  <2>2. QED
    BY <2>1, <1>s
<1>12. ASSUME NEW l \in Limits, NEW t \in Ttls, AdoptEconomy(l, t) PROVE TimeInv'
  <2>1. UNCHANGED <<eClock, eRow, eWork, eBought>> /\ eDay' = -1 /\ eSpoiled' = TRUE
    BY <1>12 DEF AdoptEconomy, eTables
  <2>2. DayInv'
    BY <2>1, <1>d DEF DayInv
  <2>3. QED
    BY <2>1, <2>2, <1>a, <1>b, <1>c DEF TimeInv
<1>13. CASE SaveLedger
  <2>1. UNCHANGED <<eClock, eRow, eWork, eBought, eSpoiled>>
    BY <1>13 DEF SaveLedger, eTables, ePastE
  <2>2. DayInv'
    BY <1>13, <2>1, <1>d DEF SaveLedger, eLedger, NotSaving, TimeInv, DayInv
  <2>3. QED
    BY <2>1, <2>2, <1>a, <1>b, <1>c DEF TimeInv
<1>14. ASSUME NEW k \in Callsigns, NEW r \in Paths, ImportDirectory(k, r) PROVE TimeInv'
  <2>1. UNCHANGED <<eClock, eRow, eWork, eBought, eDay, eSave, eSpoiled>>
    BY <1>14 DEF ImportDirectory, eLedger, ePastE
  <2>2. QED
    BY <2>1, <1>s
<1>15. CASE PruneCache
  <2>1. UNCHANGED <<eClock, eWork, eBought, eDay, eSave, eSpoiled>>
    BY <1>15 DEF PruneCache, eLedger, ePastE
  <2>2. \A a \in Callsigns : eRow'[a] = eRow[a] \/ eRow'[a].status = "absent"
    BY <1>15 DEF PruneCache, NoRow
  <2>3. AgeInv'
    BY <2>1, <2>2 DEF TimeInv, AgeInv
  <2>4. StaleInv'
    BY <2>1, <2>2 DEF TimeInv, StaleInv, Since
  <2>5. QED
    BY <2>1, <2>3, <2>4, <1>a, <1>g DEF TimeInv
<1>16. CASE RestartEnrichment
  <2>1. /\ UNCHANGED <<eClock, eRow, eBought>> /\ eWork'.pc = "idle" /\ eDay' = Today(eClock)
        /\ eSave'.pc = "idle"
    BY <1>16, RestShapes DEF RestartEnrichment, eTables, NotSaving
  <2>2. DayInv'
    BY <2>1, <1>d DEF DayInv
  <2>3. QED
    BY <2>1, <2>2, <1>a, <1>b, <1>c DEF TimeInv, PastCache
<1>17. CASE RouteTick
  <2>1. /\ eClock' = eClock + 1 /\ UNCHANGED <<eWork, eRow, eDay, eSave>>
        /\ eWork.pc # "idle" => eClock = eWork.now
        /\ eBought' = (IF Today(eClock + 1) # Today(eClock) THEN 0 ELSE eBought)
        /\ eSpoiled' = (eSpoiled /\ (Today(eClock + 1) = Today(eClock) \/ eSave.pc # "idle"))
    BY <1>17 DEF RouteTick, eTables, eLedger
  <2>2. /\ Today(eClock + 1) >= Today(eClock) /\ Today(eClock + 1) \in Nat
        /\ Today(eClock + 1) # Today(eClock) => DayStart(eClock + 1) > eClock
        /\ Today(eClock + 1) = Today(eClock) => DayStart(eClock + 1) = DayStart(eClock)
    BY <1>t, DayFacts
  <2>3. LagInv'
    BY <2>1, <1>t DEF LagInv
  <2>4. AgeInv'
    BY <2>1, <1>t DEF TimeInv, AgeInv
  <2>5. StaleInv'
    <3>1. SUFFICES ASSUME eWork.pc \in PastCache PROVE eWork.key \notin Since(eRow, DayStart(eClock + 1))
      BY <2>1 DEF StaleInv
    <3>2. CASE Today(eClock + 1) = Today(eClock)
      BY <3>1, <3>2, <2>2 DEF TimeInv, StaleInv
    <3>3. CASE Today(eClock + 1) # Today(eClock)
      <4>1. DayStart(eClock + 1) \in Nat /\ DayStart(eClock + 1) > eClock
        BY <3>3, <2>2, <1>t, DayFacts
      <4>2. \A k \in Callsigns : eRow[k].status # "absent" => ~(eRow[k].fetched >= DayStart(eClock + 1))
        BY <4>1, <1>t DEF TimeInv, AgeInv
      <4>3. QED
        BY <4>2 DEF Since
    <3>4. QED
      BY <3>2, <3>3
  <2>6. DayInv'
    <3>1. eDay' <= Today(eClock')
      BY <2>1, <2>2, <1>t, <1>d DEF TimeInv, DayInv
    <3>2. eSave'.pc # "idle" => eSpoiled'
      BY <2>1 DEF TimeInv, DayInv
    <3>3. QED
      BY <3>1, <3>2 DEF DayInv
  <2>7. QED
    BY <2>3, <2>4, <2>5, <2>6 DEF TimeInv
<1>18. CASE UNCHANGED eVars
  <2>1. UNCHANGED <<eClock, eRow, eWork, eBought, eDay, eSave, eSpoiled>>
    BY <1>18 DEF eVars
  <2>2. QED
    BY <2>1, <1>s
<1>19. QED
  BY <1>1, <1>2, <1>3, <1>4, <1>5, <1>6, <1>7, <1>8, <1>9, <1>10, <1>11, <1>12, <1>13, <1>14, <1>15, <1>16, <1>17, <1>18
     DEF RouteNext

\* A set of callsigns counts at least as much as any part of it, and one more for each member it gains.
LEMMA Counting ==
  /\ \A S \in SUBSET Callsigns : Cardinality(S) \in Nat
  /\ \A S \in SUBSET Callsigns : \A k \in Callsigns : k \notin S => Cardinality(S \cup {k}) = Cardinality(S) + 1
<1>1. \A S \in SUBSET Callsigns : IsFiniteSet(S)
  BY RouteConstants, FS_Subset
<1>2. QED
  BY <1>1, FS_CardinalityType, FS_AddElement

\* No action spends what the limit no longer covers, or loses count of what was bought today.
LEMMA LedgerStep ==
  ASSUME RouteShape, RouteShape', QueueOK(ePending), TimeInv, TimeInv', LedgerInv, [RouteNext]_eVars
  PROVE  LedgerInv'
<1> USE RouteConstants
<1>t. /\ eClock \in Nat /\ eWork.now \in Nat /\ RouteDay \in Nat \ {0} /\ eDay \in Int /\ eBought \in Nat /\ eUsed \in Nat
      /\ eLimit \in Nat /\ Written \in Nat /\ Written' \in Nat /\ CountFetched(eWork.now) \in Nat /\ CountFetched(eClock) \in Nat
  <2>1. eClock \in Nat /\ eWork.now \in Nat /\ eDay \in Int /\ eBought \in Nat /\ eUsed \in Nat /\ eLimit \in Nat
    BY DEF RouteShape, Drain
  <2>2. Written \in Nat /\ Written' \in Nat /\ CountFetched(eWork.now) \in Nat /\ CountFetched(eClock) \in Nat
    BY Counting DEF Written, Since, CountFetched
  <2>3. QED
    BY <2>1, <2>2
<1>c. /\ CountFetched(eClock) = Written
      /\ Today(eWork.now) = Today(eClock) => CountFetched(eWork.now) = Written
  BY DEF CountFetched, Written, Since, DayStart
<1>w. UNCHANGED <<eRow, eClock>> => Written' = Written
  BY DEF Written
<1>r. ASSUME UNCHANGED <<eRow, eClock, eBought, eUsed, eDay, eLimit, eSpoiled>>, Unstored => Unstored',
             eWork'.pc = "ask" => eWork.pc = "ask"
      PROVE  LedgerInv'
  BY <1>r, <1>w, <1>t DEF LedgerInv
<1>s. eSpoiled' => LedgerInv'
  BY DEF LedgerInv
<1>u. /\ eWork.pc \notin {"spend", "store"} => ~Unstored
      /\ UNCHANGED <<eWork, eClock>> => (Unstored' <=> Unstored)
  BY DEF Unstored
<1>o. ASSUME NEW used \in Nat, Outcome(used), ~eSpoiled, eLimit > 0, eWork'.pc = "ask", eWork.pc # "idle",
             Today(eWork.now) = Today(eClock) => eBought <= used
      PROVE  eBought < eLimit
  <2>1. used < eLimit
    BY <1>o, RestShapes DEF Outcome
  <2>2. Today(eWork.now) # Today(eClock) => eBought = 0
    BY <1>o DEF TimeInv, LagInv
  <2>3. QED
    BY <1>o, <2>1, <2>2, <1>t
<1>1. ASSUME NEW p \in Flights, Consider(p) PROVE LedgerInv'
  BY <1>1, <1>r, <1>u DEF Consider, eTables, eLedger, eConfig
<1>2. ASSUME NEW p \in Flights, NEW r \in Paths, Latch(p, r) PROVE LedgerInv'
  BY <1>2, <1>r, <1>u DEF Latch, eTables, eLedger, eConfig, ePastE
<1>3. CASE DrainBegin
  <2>1. UNCHANGED <<eRow, eClock, eBought, eUsed, eDay, eLimit, eSpoiled>> /\ eWork.pc = "idle"
    BY <1>3 DEF DrainBegin, eTables, eLedger, eConfig, ePastE
  <2>2. eWork'.pc = "cache"
    BY <1>3, OtherMoves
  <2>3. QED
    BY <2>1, <2>2, <1>r, <1>u
<1>4. CASE ReadCache
  <2>1. /\ UNCHANGED <<eClock, eBought, eUsed, eDay, eLimit>> /\ eWork.pc = "cache" /\ eWork.key \in Callsigns
    BY <1>4 DEF ReadCache, eLedger, eConfig, RouteShape
  <2>2. eSpoiled' \/ (UNCHANGED eRow /\ eSpoiled' = eSpoiled)
    <3>1. PICK kept : eRow' = [eRow EXCEPT ![eWork.key] = kept] /\ eSpoiled' = (eSpoiled \/ kept # eRow[eWork.key])
      BY <1>4 DEF ReadCache
    <3>2. kept = eRow[eWork.key] => eRow' = eRow
      BY <3>1, <2>1 DEF RouteShape
    <3>3. eSpoiled \in BOOLEAN
      BY DEF RouteShape
    <3>4. QED
      BY <3>1, <3>2, <3>3
  <2>3. eWork'.pc \in {"idle", "directory"}
    BY <1>4, OtherMoves, RestShapes
  <2>4. QED
    BY <2>1, <2>2, <2>3, <1>r, <1>s, <1>u
<1>5. CASE ReadDirectory
  <2>1. UNCHANGED <<eRow, eClock, eBought, eUsed, eDay, eLimit, eSpoiled>> /\ eWork.pc = "directory"
    BY <1>5 DEF ReadDirectory, eTables, eLedger, eConfig
  <2>2. CASE eWork'.pc # "ask"
    BY <2>1, <2>2, <1>r, <1>u
  <2>3. CASE eWork'.pc = "ask"
    <3>1. (eLimit = 0 \/ eDay = Today(eWork.now)) /\ Outcome(eUsed)
      BY <1>5, <2>3, DirectoryMoves
    <3>2. ~eSpoiled /\ eLimit > 0 => eBought < eLimit
      <4>1. ASSUME ~eSpoiled, eLimit > 0 PROVE eBought < eLimit
        <5>1. eDay = Today(eWork.now)
          BY <3>1, <4>1, <1>t
        <5>2. Today(eWork.now) = Today(eClock) => eBought <= eUsed
          BY <4>1, <5>1 DEF LedgerInv
        <5>3. QED
          BY <2>1, <2>3, <3>1, <4>1, <5>2, <1>o, <1>t
      <4>2. QED
        BY <4>1
    <3>3. ~Unstored
      BY <2>1, <1>u
    <3>4. QED
      BY <2>1, <3>2, <3>3, <1>w, <1>t DEF LedgerInv
  <2>4. QED
    BY <2>2, <2>3
<1>6. CASE ReadLedger
  <2>1. UNCHANGED <<eRow, eClock, eBought, eLimit, eSpoiled>> /\ eWork.pc \in {"ledger", "spend"} /\ eDay' = Today(eWork.now)
    BY <1>6 DEF ReadLedger, eTables, eConfig
  <2>2. CASE eSpoiled
    BY <2>1, <2>2, <1>s
  <2>3. CASE ~eSpoiled /\ eWork.pc = "ledger"
    <3>1. eUsed' = CountFetched(eWork.now) /\ (Outcome(eUsed') \/ eWork' = AtRest)
      BY <1>6, <2>3, LedgerMoves
    <3>2. Today(eWork.now) = Today(eClock) => eBought <= eUsed'
      BY <2>3, <3>1, <1>c, <1>u, <1>t DEF LedgerInv
    <3>3. eLimit > 0 /\ eWork'.pc = "ask" => eBought < eLimit
      <4>1. ASSUME eLimit > 0, eWork'.pc = "ask" PROVE eBought < eLimit
        <5>1. Outcome(eUsed') /\ eUsed' \in Nat
          BY <3>1, <4>1, <1>t, RestShapes
        <5>2. QED
          BY <2>3, <3>2, <4>1, <5>1, <1>o
      <4>2. QED
        BY <4>1
    <3>4. ~Unstored
      BY <2>3, <1>u
    <3>5. QED
      BY <2>1, <2>3, <3>2, <3>3, <3>4, <1>w, <1>t DEF LedgerInv
  <2>4. CASE ~eSpoiled /\ eWork.pc = "spend"
    <3>1. /\ eUsed' = CountFetched(eWork.now) + 1 /\ eWork'.pc = "store" /\ eWork'.now = eWork.now /\ eWork'.src = eWork.src
      BY <1>6, <2>4, LedgerMoves DEF Kept
    <3>2. Today(eWork.now) = Today(eClock) => eBought <= eUsed'
      BY <2>4, <3>1, <1>c, <1>t DEF LedgerInv
    <3>3. Unstored => Unstored'
      BY <2>1, <3>1 DEF Unstored
    <3>4. QED
      BY <2>1, <2>4, <3>1, <3>2, <3>3, <1>w, <1>t DEF LedgerInv
  <2>5. QED
    BY <2>1, <2>2, <2>3, <2>4
<1>7. CASE ProviderFails
  <2>1. UNCHANGED <<eRow, eClock, eBought, eUsed, eDay, eLimit, eSpoiled>>
    BY <1>7 DEF ProviderFails, eTables, eLedger, eConfig, ePastE
  <2>2. eWork.pc = "ask" /\ eWork'.pc = "stale"
    BY <1>7, OtherMoves
  <2>3. QED
    BY <2>1, <2>2, <1>r, <1>u
<1>8. CASE StoreAnswer
  <2> DEFINE k == eWork.key
             old == Since(eRow, DayStart(eClock))
             new == Since(eRow', DayStart(eClock))
  <2>1. /\ UNCHANGED <<eClock, eBought, eUsed, eDay, eLimit, eSpoiled>> /\ eWork.pc = "store" /\ k \in Callsigns
        /\ eWork'.pc = "idle"
    BY <1>8, OtherMoves, RestShapes DEF StoreAnswer, eLedger, eConfig, RouteShape
  <2>2. eRow'[k].status # "absent" /\ eRow'[k].fetched = eWork.now /\ \A a \in Callsigns : a # k => eRow'[a] = eRow[a]
    <3>1. CASE eWork.path = NoPath
      <4>1. eRow' = [eRow EXCEPT ![k] = StoreNothing(eWork.src, eWork.now, RouteDay)]
        BY <1>8, <3>1 DEF StoreAnswer
      <4>2. QED
        BY <4>1, <2>1 DEF StoreNothing, RouteShape
    <3>2. CASE eWork.path # NoPath
      <4>1. eRow' = [eRow EXCEPT ![k] = StoreRoute(eRow[k], eWork.path, eWork.src, eWork.now, eWork.ttl)]
        BY <1>8, <3>2 DEF StoreAnswer
      <4>2. QED
        BY <4>1, <2>1 DEF StoreRoute, RouteShape
    <3>3. QED
      BY <3>1, <3>2
  <2>3. k \notin old
    BY <2>1 DEF TimeInv, StaleInv, PastCache
  <2>4. new = IF eWork.now >= DayStart(eClock) THEN old \cup {k} ELSE old
    <3>1. \A a \in Callsigns : a \in new <=> (a \in old \/ (a = k /\ eWork.now >= DayStart(eClock)))
      BY <2>1, <2>2, <2>3 DEF Since
    <3>2. new \subseteq Callsigns /\ old \subseteq Callsigns
      BY DEF Since
    <3> HIDE DEF new, old
    <3>3. QED
      BY <2>1, <3>1, <3>2
  <2>5. Written = Cardinality(old) /\ Written' = Cardinality(new)
    BY <2>1 DEF Written
  <2>6. Unstored => eWork.now >= DayStart(eClock)
    <3>1. DayStart(eWork.now) <= eWork.now /\ DayStart(eWork.now) \in Nat
      BY <1>t, DayFacts
    <3>2. QED
      BY <3>1, <1>t DEF Unstored, DayStart
  <2>7. Written <= Written' /\ (Unstored => Written + 1 <= Written')
    <3>1. old \in SUBSET Callsigns
      BY DEF Since
    <3> HIDE DEF new, old
    <3>2. Cardinality(old \cup {k}) = Cardinality(old) + 1
      BY <2>1, <2>3, <3>1, Counting
    <3>3. QED
      BY <2>4, <2>5, <2>6, <3>2, <1>t
  <2>8. QED
    <3>1. ~eSpoiled => eBought <= Written'
      BY <2>7, <1>t DEF LedgerInv
    <3>2. ~Unstored'
      BY <2>1 DEF Unstored
    <3>3. QED
      BY <2>1, <3>1, <3>2 DEF LedgerInv
<1>9. CASE ServeStale
  <2> DEFINE k == eWork.key
  <2>1. /\ UNCHANGED <<eClock, eBought, eUsed, eDay, eLimit, eSpoiled>> /\ eWork.pc = "stale" /\ k \in Callsigns
        /\ eWork'.pc = "idle"
    BY <1>9, OtherMoves, RestShapes DEF ServeStale, eLedger, eConfig, RouteShape
  <2>2. \A a \in Callsigns : eRow'[a].status = eRow[a].status /\ eRow'[a].fetched = eRow[a].fetched
    <3>1. CASE StaleRow(k, eWork.now)
      <4>1. eRow' = [eRow EXCEPT ![k].expires = eWork.now + StaleFor]
        BY <1>9, <3>1 DEF ServeStale
      <4>2. QED
        BY <4>1, <2>1 DEF RouteShape, CachedRow
    <3>2. CASE ~StaleRow(k, eWork.now)
      BY <1>9, <3>2 DEF ServeStale
    <3>3. QED
      BY <3>1, <3>2
  <2>3. Since(eRow', DayStart(eClock)) = Since(eRow, DayStart(eClock))
    BY <2>2 DEF Since
  <2>4. Written' = Written
    BY <2>1, <2>3 DEF Written
  <2>5. QED
    BY <2>1, <2>4, <1>u, <1>t DEF LedgerInv
<1>10. ASSUME NEW r \in Paths \cup {NoPath}, ProviderAnswers(r) PROVE LedgerInv'
  <2>1. UNCHANGED <<eRow, eClock, eDay, eLimit, eSpoiled>> /\ eBought' = eBought + 1
    BY <1>10 DEF ProviderAnswers, eTables, eConfig
  <2>2. /\ eWork.pc = "ask" /\ eWork'.now = eClock /\ eWork'.src = "provider" /\ eWork'.pc \in {"spend", "store"}
        /\ eDay = Today(eClock) => eUsed' = eUsed + 1
    BY <1>10, OtherMoves
  <2>3. ~Unstored /\ Unstored'
    BY <2>1, <2>2 DEF Unstored
  <2>4. QED
    BY <2>1, <2>2, <2>3, <1>w, <1>t DEF LedgerInv
<1>11. CASE SwapProvider
  BY <1>11, <1>r, <1>u DEF SwapProvider, eTables, eLedger
<1>12. ASSUME NEW l \in Limits, NEW t \in Ttls, AdoptEconomy(l, t) PROVE LedgerInv'
  BY <1>12, <1>s DEF AdoptEconomy
<1>13. CASE SaveLedger
  <2>1. eSave.pc # "idle" /\ eSpoiled' = eSpoiled
    BY <1>13 DEF SaveLedger, ePastE
  <2>2. QED
    BY <2>1, <1>s DEF TimeInv, DayInv
<1>14. ASSUME NEW k \in Callsigns, NEW r \in Paths, ImportDirectory(k, r) PROVE LedgerInv'
  BY <1>14, <1>r, <1>u DEF ImportDirectory, eLedger, eConfig, ePastE
<1>15. CASE PruneCache
  <2>1. UNCHANGED <<eClock, eWork, eBought, eUsed, eDay, eLimit, eSpoiled>>
    BY <1>15 DEF PruneCache, eLedger, eConfig, ePastE
  <2>2. \A a \in Callsigns : eRow'[a] = eRow[a] \/
          (eRow[a].status # "absent" /\ eRow[a].expires <= eClock /\ eRow'[a].status = "absent")
    BY <1>15 DEF PruneCache, NoRow
  <2>3. ASSUME NEW a \in Callsigns, a \in Since(eRow, DayStart(eClock)) PROVE ~(eRow[a].expires <= eClock)
    <3>1. /\ eRow[a].fetched >= DayStart(eClock) /\ eRow[a].expires >= eRow[a].fetched + RouteDay
          /\ eRow[a].fetched \in Nat /\ eRow[a].expires \in Nat
      BY <2>3 DEF Since, TimeInv, AgeInv, RouteShape, CachedRow
    <3>2. eClock < DayStart(eClock) + RouteDay /\ DayStart(eClock) \in Nat
      BY <1>t, DayFacts
    <3>3. QED
      BY <3>1, <3>2, <1>t
  <2>4. Since(eRow', DayStart(eClock)) = Since(eRow, DayStart(eClock))
    <3>1. \A a \in Callsigns : a \in Since(eRow', DayStart(eClock)) <=> a \in Since(eRow, DayStart(eClock))
      BY <2>2, <2>3 DEF Since
    <3>2. QED
      BY <3>1 DEF Since
  <2>5. Written' = Written
    BY <2>1, <2>4 DEF Written
  <2>6. QED
    BY <2>1, <2>5, <1>u, <1>t DEF LedgerInv
<1>16. CASE RestartEnrichment
  <2>1. /\ UNCHANGED <<eRow, eClock, eBought, eLimit>> /\ eWork'.pc = "idle" /\ eUsed' = CountFetched(eClock)
        /\ eSpoiled' = (eSpoiled \/ eWork.pc \in {"ask", "spend", "store"})
    BY <1>16, RestShapes DEF RestartEnrichment, eTables, eConfig
  <2>2. CASE eSpoiled \/ eWork.pc \in {"ask", "spend", "store"}
    BY <2>1, <2>2, <1>s
  <2>3. CASE ~eSpoiled /\ eWork.pc \notin {"ask", "spend", "store"}
    <3>1. ~Unstored
      BY <2>3, <1>u
    <3>2. QED
      BY <2>1, <2>3, <3>1, <1>c, <1>w, <1>t DEF LedgerInv
  <2>4. QED
    BY <2>2, <2>3
<1>17. CASE RouteTick
  <2>1. /\ eClock' = eClock + 1 /\ UNCHANGED <<eWork, eRow, eDay, eUsed, eLimit>>
        /\ eBought' = (IF Today(eClock + 1) # Today(eClock) THEN 0 ELSE eBought)
        /\ eSpoiled' = (eSpoiled /\ (Today(eClock + 1) = Today(eClock) \/ eSave.pc # "idle"))
    BY <1>17 DEF RouteTick, eTables, eLedger, eConfig
  <2>2. /\ Today(eClock + 1) >= Today(eClock) /\ Today(eClock + 1) \in Nat /\ Today(eClock) \in Nat
        /\ Today(eClock + 1) = Today(eClock) => DayStart(eClock + 1) = DayStart(eClock)
    BY <1>t, DayFacts
  <2>3. CASE Today(eClock + 1) = Today(eClock)
    <3>1. CASE eSpoiled
      BY <2>1, <2>3, <3>1, <1>s
    <3>2. CASE ~eSpoiled
      <4>1. Written' = Written /\ (Unstored' <=> Unstored)
        BY <2>1, <2>2, <2>3 DEF Written, Unstored
      <4>2. eBought' = eBought /\ Today(eClock') = Today(eClock)
        BY <2>1, <2>3
      <4>3. QED
        BY <2>1, <3>2, <4>1, <4>2, <1>t DEF LedgerInv
    <3>3. QED
      BY <3>1, <3>2
  <2>4. CASE Today(eClock + 1) # Today(eClock)
    <3>1. eBought' = 0 /\ eDay' # Today(eClock')
      BY <2>1, <2>2, <2>4, <1>t DEF TimeInv, DayInv
    <3>2. QED
      <4>1. eBought' <= Written' /\ eBought' - 1 <= Written'
        BY <3>1, <1>t
      <4>2. QED
        BY <2>1, <3>1, <4>1, <1>t DEF LedgerInv
  <2>5. QED
    BY <2>3, <2>4
<1>18. CASE UNCHANGED eVars
  BY <1>18, <1>r, <1>u DEF eVars
<1>19. QED
  BY <1>1, <1>2, <1>3, <1>4, <1>5, <1>6, <1>7, <1>8, <1>9, <1>10, <1>11, <1>12, <1>13, <1>14, <1>15, <1>16, <1>17, <1>18
     DEF RouteNext

\* The inductive invariant of route enrichment holds in every state (enrichment/service.py): queued and
\* held answers stay apart, a cached row outlives the day it was bought on, the rate limiter never gave
\* more than its burst and a token a tick since the breaker opened, and a drain is at most a tick behind.
THEOREM RouteInvHolds == RouteSpec => []RouteInv
<1>1. RouteInv /\ [RouteNext]_eVars => RouteInv'
  BY RouteShapeStep, QueueStep, ReportedStep, SkipStep, BreakerStep, TimeStep, LedgerStep DEF RouteInv
<1>2. QED
  BY RouteInitial, <1>1, PTL DEF RouteSpec

\* Route enrichment keeps what it promises, for every set of callsigns, flights and lifetimes of at
\* least a day: the day's budget is not exceeded and no key is bought twice on one day, an open breaker
\* lets one probe through, and what a flight is told is what its callsign's row said.
THEOREM RoutesArePromised == RouteSpec => []RouteInvariant
<1>1. RouteInv => RouteInvariant
  <2> SUFFICES ASSUME RouteInv PROVE RouteInvariant
    OBVIOUS
  <2>1. RouteTypeOK
    <3>1. DOMAIN ePending = 1 .. Len(ePending)
      BY DEF RouteInv, QueueOK
    <3>2. IsInjective([i \in DOMAIN ePending |-> ePending[i].key])
      BY <3>1 DEF RouteInv, QueueOK, IsInjective
    <3>3. eWork.pc \in {"idle", "cache", "directory", "ledger", "ask", "spend", "store", "stale"}
      BY DEF RouteInv, RouteShape, Drain, DrainPc
    <3>4. QED
      BY <3>2, <3>3 DEF RouteTypeOK, RouteInv, RouteShape, QueueOK, CachedRow
  <2>2. ProbeIsInFlight
    BY DEF ProbeIsInFlight, RouteInv, BreakerInv
  <2>3. NothingInvented
    BY DEF NothingInvented, RouteInv, ReportedInv, AppliedInv, RowInv
  <2>4. BudgetHeld
    BY DEF BudgetHeld, RouteInv, LedgerInv
  <2>5. DisprovedIsSkipped
    BY DEF DisprovedIsSkipped, RouteInv, SkipInv
  <2>6. QED
    BY <2>1, <2>2, <2>3, <2>4, <2>5 DEF RouteInvariant
<1>2. QED
  BY RouteInvHolds, <1>1, PTL

\* A position beyond all of a set is its greatest, which is the one a fold takes last.
LEMMA MaxIs ==
  ASSUME NEW n \in Nat, NEW s \in SUBSET (1 .. n), n + 1 \notin s
  PROVE  Max(s \cup {n + 1}) = n + 1 /\ (s \cup {n + 1}) \ {n + 1} = s
<1>1. n + 1 \in s \cup {n + 1} /\ \A y \in s \cup {n + 1} : n + 1 >= y
  OBVIOUS
<1>2. \A x \in s \cup {n + 1} : (\A y \in s \cup {n + 1} : x >= y) => x = n + 1
  <2>1. \A x \in s : n + 1 > x
    OBVIOUS
  <2>2. QED
    BY <2>1
<1>3. Max(s \cup {n + 1}) = n + 1
  BY <1>1, <1>2 DEF Max
<1>4. QED
  BY <1>3

\* A fold of the steps F from b over positions, the greatest of a set last.
FoldsTo(it, b, m, F) ==
  \A s \in SUBSET (1 .. m) : it[s] = IF s = {} THEN b ELSE F[Max(s)][it[s \ {Max(s)}]]

\* Such a fold exists, whatever the steps: FoldLeft (of the source order, of the queued events) is one.
LEMMA FoldExists ==
  ASSUME NEW V, NEW b \in V, NEW m \in Nat, NEW F \in [1 .. m -> [V -> V]]
  PROVE  \E it \in [SUBSET (1 .. m) -> V] : FoldsTo(it, b, m, F)
<1> USE DEF FoldsTo
<1> DEFINE Good(n) == \E it \in [SUBSET (1 .. n) -> V] :
              \A s \in SUBSET (1 .. n) : it[s] = IF s = {} THEN b ELSE F[Max(s)][it[s \ {Max(s)}]]
           T == {n \in 0 .. m : ~Good(n)}
<1>1. Good(0)
  <2> DEFINE it0 == [s \in SUBSET (1 .. 0) |-> b]
  <2>1. 1 .. 0 = {}
    OBVIOUS
  <2>2. it0 \in [SUBSET (1 .. 0) -> V]
    OBVIOUS
  <2>3. \A s \in SUBSET (1 .. 0) : it0[s] = b /\ s = {}
    BY <2>1
  <2>4. QED
    BY <2>2, <2>3
<1>2. ASSUME NEW n \in 0 .. m, n # m, Good(n)
      PROVE  Good(n + 1)
  <2>1. PICK g \in [SUBSET (1 .. n) -> V] :
              \A s \in SUBSET (1 .. n) : g[s] = IF s = {} THEN b ELSE F[Max(s)][g[s \ {Max(s)}]]
    BY <1>2
  <2> DEFINE S == SUBSET (1 .. n + 1)
             rest(s) == s \ {n + 1}
             h == [s \in S |-> IF n + 1 \in s THEN F[n + 1][g[rest(s)]] ELSE g[s]]
  <2>2. /\ n + 1 \in 1 .. m /\ n \in Nat
        /\ \A s \in S : rest(s) \in SUBSET (1 .. n) /\ (n + 1 \notin s => s \in SUBSET (1 .. n))
    <3>1. n \in Nat /\ n + 1 \in 1 .. m
      BY <1>2
    <3>2. \A i \in 1 .. n + 1 : i # n + 1 => i \in 1 .. n
      BY <3>1
    <3>3. QED
      BY <3>1, <3>2
  <2>3. F[n + 1] \in [V -> V]
    BY <2>2
  <2>4. h \in [S -> V]
    BY <2>1, <2>2, <2>3
  <2>5. ASSUME NEW s \in S
        PROVE  h[s] = IF s = {} THEN b ELSE F[Max(s)][h[s \ {Max(s)}]]
    <3>1. CASE n + 1 \in s
      <4>1. Max(s) = n + 1
        <5>1. s = rest(s) \cup {n + 1} /\ n + 1 \notin rest(s) /\ rest(s) \in SUBSET (1 .. n)
          BY <3>1, <2>2
        <5> HIDE DEF rest
        <5>2. Max(rest(s) \cup {n + 1}) = n + 1
          BY <5>1, <2>2, MaxIs
        <5>3. QED
          BY <5>1, <5>2
      <4>2. h[rest(s)] = g[rest(s)]
        BY <2>2
      <4>3. h[s] = F[n + 1][g[rest(s)]]
        BY <3>1
      <4>4. QED
        BY <3>1, <4>1, <4>2, <4>3
    <3>2. CASE n + 1 \notin s
      <4>1. s \in SUBSET (1 .. n) /\ h[s] = g[s]
        BY <3>2, <2>2
      <4>2. s \ {Max(s)} \in SUBSET (1 .. n) /\ s \ {Max(s)} \in S /\ n + 1 \notin s \ {Max(s)}
        BY <4>1, <3>2
      <4>3. h[s \ {Max(s)}] = g[s \ {Max(s)}]
        BY <4>2
      <4>4. QED
        BY <4>1, <4>3, <2>1
    <3>3. QED
      BY <3>1, <3>2
  <2>6. QED
    BY <2>4, <2>5
<1>3. ASSUME T # {} PROVE FALSE
  <2>1. T \subseteq Nat
    OBVIOUS
  <2> HIDE DEF Good
  <2>2. PICK n \in T : \A y \in T : n <= y
    BY <2>1, <1>3, MinExists
  <2>3. n # 0 /\ n \in 0 .. m /\ ~Good(n)
    BY <1>1
  <2>4. n - 1 \in 0 .. m /\ n - 1 # m /\ n - 1 \notin T
    BY <2>2, <2>3
  <2>5. Good(n - 1)
    BY <2>4
  <2>6. Good(n - 1 + 1)
    BY <2>4, <2>5, <1>2
  <2>7. QED
    BY <2>3, <2>6
<1>4. Good(m)
  <2> HIDE DEF Good
  <2>1. QED
    BY <1>3
<1>5. QED
  BY <1>4

\* A property of 0 that each step keeps holds up to n.
LEMMA Climb ==
  ASSUME NEW n \in Nat, NEW T, 0 \in T, \A i \in 1 .. n : i - 1 \in T => i \in T
  PROVE  \A i \in 0 .. n : i \in T
<1> DEFINE Bad == (0 .. n) \ T
<1>1. SUFFICES ASSUME Bad # {} PROVE FALSE
  OBVIOUS
<1>2. Bad \subseteq Nat
  OBVIOUS
<1>3. PICK x \in Bad : \A y \in Bad : x <= y
  BY <1>1, <1>2, MinExists
<1>4. x # 0 /\ x \in 1 .. n
  OBVIOUS
<1>5. x - 1 \in 0 .. n /\ x - 1 \notin Bad
  BY <1>3, <1>4
<1>6. QED
  BY <1>4, <1>5

\* The greatest of an initial segment, and what is left without it.
LEMMA MaxOfPrefix ==
  ASSUME NEW i \in Nat \ {0}
  PROVE  Max(1 .. i) = i /\ (1 .. i) \ {i} = 1 .. i - 1
<1>1. i \in 1 .. i /\ \A y \in 1 .. i : i >= y
  OBVIOUS
<1>2. \A x \in 1 .. i : (\A y \in 1 .. i : x >= y) => x = i
  OBVIOUS
<1>3. Max(1 .. i) = i
  BY <1>1, <1>2 DEF Max
<1>4. QED
  BY <1>3

\* The greatest of a set of positions is one of them.
LEMMA MaxIsIn ==
  ASSUME NEW n \in Nat, NEW s \in SUBSET (1 .. n), s # {}
  PROVE  Max(s) \in s
<1> DEFINE T == {n - x : x \in s}
<1>1. T \subseteq Nat /\ T # {}
  <2>1. \A x \in s : x \in Nat /\ x <= n
    OBVIOUS
  <2>2. \A x \in s : n - x \in Nat
    BY <2>1
  <2>3. PICK x \in s : TRUE
    OBVIOUS
  <2>4. n - x \in T
    OBVIOUS
  <2>5. QED
    BY <2>2, <2>4
<1>2. PICK t \in T : \A y \in T : t <= y
  BY <1>1, MinExists
<1>3. PICK x \in s : t = n - x
  OBVIOUS
<1>4. \A y \in s : x >= y
  <2> SUFFICES ASSUME NEW y \in s PROVE x >= y
    OBVIOUS
  <2>1. n - y \in T
    OBVIOUS
  <2>2. n - x <= n - y
    BY <1>2, <1>3, <2>1
  <2>3. QED
    BY <2>2
<1>5. QED
  BY <1>3, <1>4 DEF Max

\* winner takes the claims one after another.
LEMMA WinnerSteps ==
  ASSUME NEW name, NEW f, NEW versions
  PROVE  \E g : /\ g[0] = NoSource
                /\ \A i \in 1 .. Len(Order) : g[i] = Better(name, f, versions, g[i - 1], Order[i])
                /\ Winner(name, f, versions) = g[Len(Order)]
<1> DEFINE m == Len(Order)
           V == Sources \cup {NoSource}
           F == [i \in 1 .. m |-> [x \in V |-> Better(name, f, versions, x, Order[i])]]
           P(it) == it = [s \in SUBSET DOMAIN Order |->
                            IF s = {} THEN NoSource
                            ELSE Better(name, f, versions, it[s \ {Max(s)}], Order[Max(s)])]
           C == CHOOSE it : P(it)
<1>1. DOMAIN Order = 1 .. m /\ m \in Nat /\ \A i \in 1 .. m : Order[i] \in Sources
  BY MetadataConstants
<1>2. \E it : P(it)
  <2>1. \A i \in 1 .. m, x \in V : Better(name, f, versions, x, Order[i]) \in V
    BY <1>1 DEF Better
  <2>2. F \in [1 .. m -> [V -> V]]
    BY <2>1
  <2>3. NoSource \in V
    OBVIOUS
  <2>4. \A i \in 1 .. m, x \in V : F[i][x] = Better(name, f, versions, x, Order[i])
    OBVIOUS
  <2> HIDE DEF F, V
  <2>5. PICK it \in [SUBSET (1 .. m) -> V] : FoldsTo(it, NoSource, m, F)
    BY <1>1, <2>2, <2>3, FoldExists
  <2>6. ASSUME NEW s \in SUBSET (1 .. m), s # {}
        PROVE  it[s] = Better(name, f, versions, it[s \ {Max(s)}], Order[Max(s)])
    <3>1. Max(s) \in 1 .. m
      BY <2>6, <1>1, MaxIsIn
    <3>2. s \ {Max(s)} \in SUBSET (1 .. m)
      OBVIOUS
    <3>3. it[s \ {Max(s)}] \in V
      BY <3>2
    <3>4. QED
      BY <2>4, <2>5, <2>6, <3>1, <3>3 DEF FoldsTo
  <2>7. P(it)
    BY <1>1, <2>5, <2>6 DEF FoldsTo
  <2>8. QED
    BY <2>7
<1>3. Winner(name, f, versions) = C[DOMAIN Order]
  BY DEF Winner, FoldLeft, MapThenFoldSet
<1>4. P(C)
  BY <1>2
<1> HIDE DEF C
<1>5. C[{}] = NoSource
  BY <1>4
<1>6. ASSUME NEW i \in 1 .. m
      PROVE  C[1 .. i] = Better(name, f, versions, C[1 .. i - 1], Order[i])
  <2>1. Max(1 .. i) = i /\ (1 .. i) \ {i} = 1 .. i - 1
    BY MaxOfPrefix
  <2>2. PICK s : s = 1 .. i
    OBVIOUS
  <2>3. s \in SUBSET DOMAIN Order /\ s # {}
    <3>1. \A last \in Nat : \A j \in 1 .. last : 1 .. j \in SUBSET (1 .. last) /\ j \in 1 .. j
      OBVIOUS
    <3>2. 1 .. i \in SUBSET (1 .. m) /\ i \in 1 .. i
      BY <1>1, <3>1, Zenon
    <3>3. QED
      BY <1>1, <2>2, <3>2, Zenon
  <2>4. C[s] = Better(name, f, versions, C[s \ {Max(s)}], Order[Max(s)])
    BY <1>4, <2>3
  <2>5. QED
    BY <2>1, <2>2, <2>4
<1> DEFINE g == [i \in 0 .. m |-> C[1 .. i]]
<1>7. g[0] = NoSource
  <2>1. 1 .. 0 = {} /\ 0 \in 0 .. m
    BY <1>1
  <2>2. QED
    BY <1>5, <2>1
<1>8. \A i \in 1 .. m : g[i] = Better(name, f, versions, g[i - 1], Order[i])
  <2> SUFFICES ASSUME NEW i \in 1 .. m PROVE g[i] = Better(name, f, versions, g[i - 1], Order[i])
    OBVIOUS
  <2>1. i \in 0 .. m /\ i - 1 \in 0 .. m
    BY <1>1
  <2>2. QED
    BY <1>6, <2>1
<1>9. Winner(name, f, versions) = g[m]
  BY <1>1, <1>3
<1>10. QED
  BY <1>7, <1>8, <1>9

\* What a source of these versions says of a field.
Claims(name, f, versions, s) ==
  s \notin OwnTable /\ versions[s] # 0 /\ name \in Supplies[s][versions[s]][f]

\* The winner claims the field, and no claim ranks before it; there is none when nobody claims it.
LEMMA WinnerIsBest ==
  ASSUME NEW name \in Fields, NEW f \in Airframes, NEW versions \in [Sources -> Versions \cup {0}]
  PROVE  LET w == Winner(name, f, versions)
         IN  \/ w = NoSource /\ \A s \in Sources : ~Claims(name, f, versions, s)
             \/ /\ w \in Sources /\ w # NoSource /\ Claims(name, f, versions, w)
                /\ \A s \in Sources : Claims(name, f, versions, s) => FieldRank[w][name] <= FieldRank[s][name]
<1> DEFINE m == Len(Order)
           claims(s) == Claims(name, f, versions, s)
           Good(i, w) == \/ w = NoSource /\ \A k \in 1 .. i : ~claims(Order[k])
                         \/ /\ w \in Sources /\ w # NoSource /\ claims(w)
                            /\ \A k \in 1 .. i : claims(Order[k]) => FieldRank[w][name] <= FieldRank[Order[k]][name]
<1>1. /\ DOMAIN Order = 1 .. m /\ m \in Nat /\ \A i \in 1 .. m : Order[i] \in Sources /\ Order[i] # NoSource
      /\ Sources = {Order[i] : i \in 1 .. m}
  BY MetadataConstants DEF Sources, ToSet
<1>2. PICK g : /\ g[0] = NoSource
               /\ \A i \in 1 .. m : g[i] = Better(name, f, versions, g[i - 1], Order[i])
               /\ Winner(name, f, versions) = g[m]
  BY WinnerSteps
<1> DEFINE T == {i \in 0 .. m : Good(i, g[i])}
<1>3. 0 \in T
  BY <1>1, <1>2
<1>4. ASSUME NEW i \in 1 .. m, i - 1 \in T
      PROVE  i \in T
  <2> DEFINE s == Order[i]
             b == g[i - 1]
  <2>1. Good(i - 1, b) /\ s \in Sources /\ s # NoSource /\ i \in 0 .. m
    <3>1. i \in 0 .. m /\ s \in Sources /\ s # NoSource
      BY <1>1
    <3>2. Good(i - 1, g[i - 1])
      BY <1>4
    <3>3. QED
      BY <3>1, <3>2
  <2>2. \A k \in 1 .. i : k = i \/ k \in 1 .. i - 1
    OBVIOUS
  <2>3. g[i] = Better(name, f, versions, b, s)
    BY <1>2
  <2>4. \A r \in Sources : claims(r) => FieldRank[r][name] \in Nat
    BY MetadataConstants DEF Claims
  <2> HIDE DEF b, s
  <2>5. CASE ~claims(s)
    <3>1. g[i] = b
      BY <2>3, <2>5 DEF Better, Claims
    <3>2. Good(i, b)
      BY <2>1, <2>2, <2>5 DEF s
    <3>3. QED
      BY <2>1, <3>1, <3>2
  <2>6. CASE claims(s) /\ b = NoSource
    <3>1. g[i] = s
      BY <2>3, <2>6 DEF Better, Claims
    <3>2. \A k \in 1 .. i - 1 : ~claims(Order[k])
      BY <2>1, <2>6
    <3>3. FieldRank[s][name] <= FieldRank[s][name]
      BY <2>1, <2>4, <2>6
    <3>4. Good(i, s)
      BY <2>1, <2>2, <2>6, <3>2, <3>3 DEF s
    <3>5. QED
      BY <2>1, <3>1, <3>4
  <2>7. CASE claims(s) /\ b # NoSource
    <3>1. b \in Sources /\ claims(b) /\ \A k \in 1 .. i - 1 : claims(Order[k]) => FieldRank[b][name] <= FieldRank[Order[k]][name]
      BY <2>1, <2>7
    <3>2. g[i] = IF FieldRank[s][name] < FieldRank[b][name] THEN s ELSE b
      BY <2>3, <2>7 DEF Better, Claims
    <3>3. /\ FieldRank[s][name] \in Nat /\ FieldRank[b][name] \in Nat
          /\ \A k \in 1 .. i - 1 : claims(Order[k]) => FieldRank[Order[k]][name] \in Nat
      <4>1. \A k \in 1 .. i - 1 : Order[k] \in Sources
        BY <1>1
      <4> HIDE DEF claims
      <4>2. QED
        BY <2>1, <2>4, <2>7, <3>1, <4>1
    <3>4. g[i] \in {s, b} /\ FieldRank[g[i]][name] \in Nat /\ FieldRank[g[i]][name] <= FieldRank[b][name] /\ FieldRank[g[i]][name] <= FieldRank[s][name]
      BY <3>2, <3>3
    <3>5. \A k \in 1 .. i : claims(Order[k]) => FieldRank[g[i]][name] <= FieldRank[Order[k]][name]
      <4> HIDE DEF claims
      <4> SUFFICES ASSUME NEW k \in 1 .. i, claims(Order[k]) PROVE FieldRank[g[i]][name] <= FieldRank[Order[k]][name]
        OBVIOUS
      <4>1. CASE k = i
        BY <3>4, <4>1 DEF s
      <4>2. CASE k \in 1 .. i - 1
        BY <3>1, <3>3, <3>4, <4>2
      <4>3. QED
        BY <2>2, <4>1, <4>2
    <3>6. g[i] \in Sources /\ g[i] # NoSource /\ claims(g[i])
      BY <2>1, <2>7, <3>1, <3>4
    <3>7. QED
      BY <2>1, <3>5, <3>6
  <2>8. QED
    BY <2>5, <2>6, <2>7
<1>5. m \in T
  <2> HIDE DEF T
  <2>1. \A i \in 0 .. m : i \in T
    BY <1>1, <1>3, <1>4, Climb
  <2>2. QED
    BY <1>1, <2>1
<1>6. QED
  BY <1>1, <1>2, <1>5
(* ------------------------- the metadata services ------------------------ *)

View     == [Fields -> (Sources \cup {NoSource}) \X (Versions \cup {0})]
RunPc    == {"idle", "attempt", "download", "stage", "count", "build", "promote", "fail", "lock", "told"}
Run      == [pc : RunPc, at : 0 .. Len(Order), version : Versions \cup {0}, left : SUBSET Airframes, changed : BOOLEAN]
Staging  == {"attempt", "download", "stage", "count", "build", "promote", "fail"}
Holders  == {"nobody", "loop", "import", "clear"}
HeldViews == UNION {[S -> View] : S \in SUBSET Visitors}     \* what the cache or its observer may hold
ViewEvent == [frame : Visitors, kind : {"appeared", "removed"}]

\* The tables, the run and the clear, and the versions a run carries.
TableShape ==
  /\ iInstalled \in [Sources -> Versions \cup {0}] /\ iStaged \in [Sources -> Versions \cup {0}]
  /\ iNote \in [Sources -> [status : {"never_run", "ok", "failed"}, version : Versions \cup {0}]]
  /\ iScratch \in [Airframes -> View] /\ iResolved \in [Airframes -> View]
RunShape ==
  /\ iRun \in Run
  /\ iRun.pc \in Staging => iRun.at \in 1 .. Len(Order)
  /\ iRun.pc \in {"stage", "count", "build", "promote"} => iRun.version # 0
  /\ iRun.pc # "build" => iRun.left = {}
  /\ iRun.pc = "lock" => iRun.changed
  /\ iRun.pc = "idle" => ~iRun.changed
TaskShape ==
  /\ RunShape
  /\ iClear \in [pc : {"idle", "others", "lock", "told"}, left : SUBSET OwnTable]
  /\ iMet \in BOOLEAN /\ iUntold \in BOOLEAN /\ iTorn \subseteq OwnTable
\* The cache, and who holds its lock.
CacheShape ==
  /\ iLive \subseteq Visitors /\ iEntries \in HeldViews /\ iTracked \in HeldViews
  /\ iSub \in [queue : Seq(ViewEvent), overflowed : BOOLEAN]
  /\ iSub.overflowed => iSub.queue # <<>>
  /\ iMissed \subseteq iLive
LockShape ==
  /\ iLock \in [who : Holders, pc : {"free", "counts", "read", "install"}, wanted : SUBSET Visitors, views : HeldViews]
  /\ iLock.pc = "free" <=> iLock.who = "nobody"
  /\ iLock.who = "import" <=> iRun.pc = "told"
  /\ iLock.who = "clear" <=> iClear.pc = "told"
  /\ iLock.pc = "free" => iLock.wanted = {} /\ DOMAIN iLock.views = {}
  /\ iLock.pc = "counts" => iLock.wanted = {} /\ DOMAIN iLock.views = {} /\ DOMAIN iEntries = {} /\ iLock.who # "loop"
  /\ iLock.pc = "read" => DOMAIN iLock.views = {}
  /\ iLock.pc = "install" => DOMAIN iLock.views = iLock.wanted
  /\ iLock.wanted \cap DOMAIN iEntries = {}
MetadataShape == TableShape /\ TaskShape /\ CacheShape /\ LockShape

\* A status row tells what is installed; what a run is about to promote is the version it staged.
NoteInv ==
  ~iMet => \A s \in Sources \ iTorn :
    iNote[s].version = iInstalled[s] /\ (iNote[s].status = "ok" => iInstalled[s] # 0)
BlankInv ==
  ~iMet /\ iClear.pc = "others" => \A s \in Sources : iNote[s].version = 0 /\ iNote[s].status # "ok"
ImportStagedInv ==
  /\ iRun.pc = "count" => iStaged[Source] \in {0, iRun.version}
  /\ ~iMet /\ iRun.pc \in {"build", "promote"} => iStaged[Source] = iRun.version

\* The rows in force are the resolution of the rows installed, and those being built that of the claims.
ResolvedInv == ~iMet => \A f \in Airframes : iResolved[f] = ResolveFrame(f, iInstalled)
ScratchInv ==
  ~iMet /\ iRun.pc \in {"build", "promote"} /\ Source \notin OwnTable =>
    \A f \in Airframes \ iRun.left : iScratch[f] = ResolveFrame(f, ClaimsFor(Source))

\* A change of the rows that the cache has not been told of, and will be.
Pending == iUntold \/ (iRun.changed /\ iRun.pc # "told") \/ iClear.pc \in {"others", "lock"}
CurrentInv ==
  ~Pending => /\ \A f \in DOMAIN iEntries : iEntries[f] = iResolved[f]
              /\ \A f \in DOMAIN iLock.views : iLock.views[f] = iResolved[f]

\* Event j is the last one of f among the first n.
LastOf(q, n, f, j) == j \in 1 .. n /\ q[j].frame = f /\ \A k \in j + 1 .. n : q[k].frame # f
NoneOf(q, n, f)    == \A k \in 1 .. n : q[k].frame # f
\* What the cache holds, will hold, or failed to read.
Known == DOMAIN iEntries \cup iLock.wanted \cup iMissed
\* The live set is what the cache knows, with the events still queued applied to it.
MembersInv ==
  /\ ~iSub.overflowed =>
       /\ \A f \in Visitors, j \in 1 .. Len(iSub.queue) :
            LastOf(iSub.queue, Len(iSub.queue), f, j) => (iSub.queue[j].kind = "appeared" <=> f \in iLive)
       /\ ~iUntold /\ iLock.pc # "counts" =>
            \A f \in Visitors : NoneOf(iSub.queue, Len(iSub.queue), f) => (f \in iLive <=> f \in Known)
  /\ iMissed \cap (DOMAIN iEntries \cup iLock.wanted) = {}

MetadataInv ==
  /\ MetadataShape
  /\ NoteInv /\ BlankInv /\ ImportStagedInv /\ ResolvedInv /\ ScratchInv /\ CurrentInv /\ MembersInv /\ ObserverAgrees

\* The resolved view of an airframe names a source of its own versions for every field (resolve).
LEMMA ResolveTyped ==
  ASSUME NEW f \in Airframes, NEW versions \in [Sources -> Versions \cup {0}]
  PROVE  ResolveFrame(f, versions) \in View
<1> SUFFICES ASSUME NEW name \in Fields
             PROVE  LET w == Winner(name, f, versions)
                    IN  <<w, IF w = NoSource THEN 0 ELSE versions[w]>> \in (Sources \cup {NoSource}) \X (Versions \cup {0})
  BY DEF ResolveFrame, View
<1>1. Winner(name, f, versions) \in Sources \cup {NoSource}
  BY WinnerIsBest
<1>2. QED
  BY <1>1

\* An airframe's view does not depend on the versions of a local table: they are never a Winner's source
\* (OwnTable), so installing one leaves every resolved view as it was.
LEMMA ResolveSame ==
  ASSUME NEW f \in Airframes, NEW v \in [Sources -> Versions \cup {0}], NEW w \in [Sources -> Versions \cup {0}],
         \A s \in Sources \ OwnTable : v[s] = w[s]
  PROVE  ResolveFrame(f, v) = ResolveFrame(f, w)
<1> SUFFICES ASSUME NEW name \in Fields
             PROVE  /\ Winner(name, f, v) = Winner(name, f, w)
                    /\ Winner(name, f, v) # NoSource => v[Winner(name, f, v)] = w[Winner(name, f, v)]
  <2>1. \A name \in Fields : /\ Winner(name, f, v) = Winner(name, f, w)
                             /\ Winner(name, f, v) # NoSource => v[Winner(name, f, v)] = w[Winner(name, f, v)]
    OBVIOUS
  <2>2. \A name \in Fields : LET a == Winner(name, f, v) b == Winner(name, f, w)
          IN <<a, IF a = NoSource THEN 0 ELSE v[a]>> = <<b, IF b = NoSource THEN 0 ELSE w[b]>>
    BY <2>1
  <2>3. QED
    BY <2>2 DEF ResolveFrame
<1> DEFINE m == Len(Order)
<1>1. DOMAIN Order = 1 .. m /\ m \in Nat /\ \A i \in 1 .. m : Order[i] \in Sources
  BY MetadataConstants
<1>2. PICK g : /\ g[0] = NoSource
               /\ \A i \in 1 .. m : g[i] = Better(name, f, v, g[i - 1], Order[i])
               /\ Winner(name, f, v) = g[m]
  BY WinnerSteps
<1>3. PICK h : /\ h[0] = NoSource
               /\ \A i \in 1 .. m : h[i] = Better(name, f, w, h[i - 1], Order[i])
               /\ Winner(name, f, w) = h[m]
  BY WinnerSteps
<1>4. \A s \in Sources : \A best : Better(name, f, v, best, s) = Better(name, f, w, best, s)
  BY DEF Better
<1> DEFINE T == {i \in 0 .. m : g[i] = h[i]}
<1>5. 0 \in T
  BY <1>1, <1>2, <1>3
<1>6. \A i \in 1 .. m : i - 1 \in T => i \in T
  <2> SUFFICES ASSUME NEW i \in 1 .. m, g[i - 1] = h[i - 1]
               PROVE  i \in 0 .. m /\ g[i] = h[i]
    OBVIOUS
  <2>1. Better(name, f, v, g[i - 1], Order[i]) = Better(name, f, w, h[i - 1], Order[i])
    BY <1>1, <1>4
  <2>2. QED
    BY <1>2, <1>3, <2>1
<1>7. m \in T
  <2> HIDE DEF T
  <2>1. \A i \in 0 .. m : i \in T
    BY <1>1, <1>5, <1>6, Climb
  <2>2. QED
    BY <1>1, <2>1
<1>8. Winner(name, f, v) = Winner(name, f, w)
  BY <1>2, <1>3, <1>7
<1>9. Winner(name, f, v) # NoSource => Winner(name, f, v) \in Sources \ OwnTable
  BY WinnerIsBest DEF Claims
<1>10. QED
  BY <1>8, <1>9

\* The loop heeds the queued events one after another.
HeedFolds(V, b, q) ==
  \E g \in [0 .. Len(q) -> V] :
    g[0] = b /\ (\A i \in 1 .. Len(q) : g[i] = Heed(g[i - 1], q[i])) /\ FoldLeft(Heed, b, q) = g[Len(q)]

\* _collect's loop over the drained events is the fold of Heed, one event after another.
LEMMA HeedSteps ==
  ASSUME NEW V, NEW b \in V, NEW q \in Seq(ViewEvent),
         \A h \in V, e \in ViewEvent : Heed(h, e) \in V
  PROVE  HeedFolds(V, b, q)
<1> DEFINE m == Len(q)
           F == [i \in 1 .. m |-> [x \in V |-> Heed(x, q[i])]]
           P(it) == it = [s \in SUBSET DOMAIN q |-> IF s = {} THEN b ELSE Heed(it[s \ {Max(s)}], q[Max(s)])]
           C == CHOOSE it : P(it)
<1>1. DOMAIN q = 1 .. m /\ m \in Nat /\ \A i \in 1 .. m : q[i] \in ViewEvent
  OBVIOUS
<1>2. \E it : P(it)
  <2>1. \A i \in 1 .. m, x \in V : Heed(x, q[i]) \in V
    BY <1>1
  <2>2. F \in [1 .. m -> [V -> V]]
    BY <2>1
  <2>4. \A i \in 1 .. m, x \in V : F[i][x] = Heed(x, q[i])
    OBVIOUS
  <2> HIDE DEF F
  <2>5. PICK it \in [SUBSET (1 .. m) -> V] : FoldsTo(it, b, m, F)
    BY <1>1, <2>2, FoldExists
  <2>6. ASSUME NEW s \in SUBSET (1 .. m), s # {}
        PROVE  it[s] = Heed(it[s \ {Max(s)}], q[Max(s)])
    <3>1. Max(s) \in 1 .. m
      BY <2>6, <1>1, MaxIsIn
    <3>2. s \ {Max(s)} \in SUBSET (1 .. m)
      OBVIOUS
    <3>3. it[s \ {Max(s)}] \in V
      BY <3>2
    <3>4. QED
      BY <2>4, <2>5, <2>6, <3>1, <3>3 DEF FoldsTo
  <2>7. P(it)
    BY <1>1, <2>5, <2>6 DEF FoldsTo
  <2>8. QED
    BY <2>7
<1>3. FoldLeft(Heed, b, q) = C[DOMAIN q]
  BY DEF FoldLeft, MapThenFoldSet
<1>4. P(C)
  BY <1>2
<1> HIDE DEF C
<1>5. C[{}] = b
  BY <1>4
<1>6. ASSUME NEW i \in 1 .. m
      PROVE  C[1 .. i] = Heed(C[1 .. i - 1], q[i])
  <2>1. Max(1 .. i) = i /\ (1 .. i) \ {i} = 1 .. i - 1
    BY MaxOfPrefix
  <2>2. 1 .. i \in SUBSET DOMAIN q /\ 1 .. i # {}
    BY <1>1
  <2>3. QED
    BY <1>4, <2>1, <2>2
<1> DEFINE g == [i \in 0 .. m |-> C[1 .. i]]
<1>7. g[0] = b
  <2>1. 1 .. 0 = {} /\ 0 \in 0 .. m
    BY <1>1
  <2>2. QED
    BY <1>5, <2>1
<1>8. ASSUME NEW i \in 1 .. m PROVE g[i] = Heed(g[i - 1], q[i])
  <2>1. i \in 0 .. m /\ i - 1 \in 0 .. m
    BY <1>1
  <2>2. QED
    BY <1>6, <2>1
<1>9. FoldLeft(Heed, b, q) = g[m]
  BY <1>1, <1>3
<1>10. g \in [0 .. m -> V]
  <2> DEFINE T == {i \in 0 .. m : g[i] \in V}
  <2>1. 0 \in T
    BY <1>1, <1>7
  <2>2. ASSUME NEW i \in 1 .. m, i - 1 \in T PROVE i \in T
    <3>1. g[i - 1] \in V /\ i \in 0 .. m
      BY <1>1, <2>2
    <3>2. Heed(g[i - 1], q[i]) \in V
      BY <1>1, <3>1
    <3>3. QED
      BY <1>8, <3>1, <3>2
  <2> HIDE DEF T
  <2>3. \A i \in 0 .. m : i \in T
    BY <1>1, <2>1, <2>2, Climb
  <2>4. QED
    BY <2>3 DEF T
<1>11. QED
  BY <1>7, <1>8, <1>9, <1>10 DEF HeedFolds

\* What the loop carries through the events, and what its observer agrees on.
Heard == [entries : HeldViews, tracked : HeldViews, wanted : SUBSET Visitors]
Observed(h) == \A f \in DOMAIN h.entries : f \in DOMAIN h.tracked /\ h.tracked[f] = h.entries[f]

\* What eviction leaves of a held set of views (the entries whose aircraft are still live).
LEMMA OnlyKeeps ==
  ASSUME NEW v \in HeldViews, NEW keep
  PROVE  /\ Only(v, keep) \in HeldViews /\ DOMAIN Only(v, keep) = DOMAIN v \cap keep
         /\ \A f \in DOMAIN v \cap keep : Only(v, keep)[f] = v[f]
<1>1. PICK S \in SUBSET Visitors : v \in [S -> View]
  BY DEF HeldViews
<1>2. Only(v, keep) \in [S \cap keep -> View]
  BY <1>1 DEF Only
<1>3. S \cap keep \in SUBSET Visitors
  OBVIOUS
<1>4. QED
  BY <1>2, <1>3 DEF HeldViews, Only

\* What installing freshly read views does to the held ones: the read ones win, the others stay.
LEMMA UpdatedKeeps ==
  ASSUME NEW v \in HeldViews, NEW w \in HeldViews
  PROVE  /\ Updated(v, w) \in HeldViews /\ DOMAIN Updated(v, w) = DOMAIN v \cup DOMAIN w
         /\ \A f \in DOMAIN v \cup DOMAIN w : Updated(v, w)[f] = IF f \in DOMAIN w THEN w[f] ELSE v[f]
<1>1. PICK S \in SUBSET Visitors : v \in [S -> View]
  BY DEF HeldViews
<1>2. PICK T \in SUBSET Visitors : w \in [T -> View]
  BY DEF HeldViews
<1>3. Updated(v, w) \in [S \cup T -> View]
  BY <1>1, <1>2 DEF Updated
<1>4. S \cup T \in SUBSET Visitors
  OBVIOUS
<1>5. QED
  BY <1>3, <1>4 DEF HeldViews, Updated

\* One event: a removal drops the entry, an appearance of what is not held is wanted.
LEMMA HeedDoes ==
  ASSUME NEW h \in Heard, NEW e \in ViewEvent
  PROVE  LET n == Heed(h, e)
         IN  /\ n \in Heard /\ (Observed(h) => Observed(n))
             /\ DOMAIN n.entries \subseteq DOMAIN h.entries
             /\ \A f \in DOMAIN n.entries : n.entries[f] = h.entries[f]
             /\ \A f \in Visitors \ {e.frame} :
                  (f \in DOMAIN n.entries <=> f \in DOMAIN h.entries) /\ (f \in n.wanted <=> f \in h.wanted)
             /\ e.frame \in DOMAIN n.entries \cup n.wanted <=> e.kind = "appeared"
<1> DEFINE f == e.frame
           n == Heed(h, e)
<1>1. /\ h.entries \in HeldViews /\ h.tracked \in HeldViews /\ h.wanted \subseteq Visitors
      /\ f \in Visitors /\ f \in Airframes /\ e.kind \in {"appeared", "removed"} /\ Visitors \subseteq Airframes
      /\ h = [entries |-> h.entries, tracked |-> h.tracked, wanted |-> h.wanted]
  BY MetadataConstants DEF Heard, ViewEvent
<1>2. \A v \in HeldViews : DOMAIN v \subseteq Visitors
  BY DEF HeldViews
<1>3. CASE e.kind = "removed"
  <2> DEFINE keep == Airframes \ {f}
             entries == Only(h.entries, keep)
             tracked == IF f \in DOMAIN h.entries THEN Only(h.tracked, keep) ELSE h.tracked
  <2>1. n = [entries |-> entries, tracked |-> tracked, wanted |-> h.wanted \ {f}]
    BY <1>3 DEF Heed
  <2>2. /\ entries \in HeldViews /\ DOMAIN entries = DOMAIN h.entries \cap keep
        /\ \A x \in DOMAIN h.entries \cap keep : entries[x] = h.entries[x]
    BY <1>1, OnlyKeeps
  <2>3. /\ Only(h.tracked, keep) \in HeldViews /\ DOMAIN Only(h.tracked, keep) = DOMAIN h.tracked \cap keep
        /\ \A x \in DOMAIN h.tracked \cap keep : Only(h.tracked, keep)[x] = h.tracked[x]
    BY <1>1, OnlyKeeps
  <2>4. /\ tracked \in HeldViews /\ DOMAIN h.tracked \cap keep \subseteq DOMAIN tracked
        /\ \A x \in DOMAIN h.tracked \cap keep : tracked[x] = h.tracked[x]
    BY <1>1, <2>3
  <2> HIDE DEF entries, tracked
  <2>5. n.entries = entries /\ n.tracked = tracked /\ n.wanted = h.wanted \ {f} /\ n \in Heard
    BY <1>1, <2>1, <2>2, <2>4 DEF Heard
  <2>6. Observed(h) => Observed(n)
    BY <2>2, <2>4, <2>5 DEF Observed
  <2>7. \A x \in Visitors \ {f} : x \in DOMAIN entries <=> x \in DOMAIN h.entries
    BY <1>1, <2>2
  <2>8. f \notin DOMAIN entries \cup (h.wanted \ {f})
    BY <2>2
  <2> HIDE DEF n
  <2>9. QED
    BY <1>3, <2>2, <2>5, <2>6, <2>7, <2>8 DEF n
<1>4. CASE e.kind = "appeared" /\ f \in DOMAIN h.entries
  <2>1. n = h
    BY <1>4 DEF Heed
  <2>2. QED
    BY <1>4, <2>1
<1>5. CASE e.kind = "appeared" /\ f \notin DOMAIN h.entries
  <2>1. n = [h EXCEPT !.wanted = @ \cup {f}]
    BY <1>5 DEF Heed
  <2>2. n.entries = h.entries /\ n.tracked = h.tracked /\ n.wanted = h.wanted \cup {f} /\ n \in Heard
    BY <1>1, <2>1 DEF Heard
  <2> HIDE DEF n
  <2>3. QED
    BY <1>5, <2>2 DEF n, Observed
<1>6. QED
  BY <1>1, <1>3, <1>4, <1>5

\* What is left of the cache's and its observer's entries once the queue is read, and what is wanted.
LEMMA CollectDoes ==
  ASSUME CacheShape, ObserverAgrees
  PROVE  LET n == CollectViews
             q == iSub.queue
         IN  /\ n \in Heard /\ Observed(n)
             /\ DOMAIN n.entries \subseteq DOMAIN iEntries
             /\ \A f \in DOMAIN n.entries : n.entries[f] = iEntries[f]
             /\ iSub.overflowed => DOMAIN n.entries = DOMAIN iEntries \cap iLive /\ n.wanted = iLive \ DOMAIN iEntries
             /\ ~iSub.overflowed =>
                  /\ \A f \in Visitors : NoneOf(q, Len(q), f) =>
                       (f \in DOMAIN n.entries <=> f \in DOMAIN iEntries) /\ f \notin n.wanted
                  /\ \A f \in Visitors, j \in 1 .. Len(q) : LastOf(q, Len(q), f, j) =>
                       (f \in DOMAIN n.entries \cup n.wanted <=> q[j].kind = "appeared")
                  /\ \A f \in Visitors : NoneOf(q, Len(q), f) \/ \E j \in 1 .. Len(q) : LastOf(q, Len(q), f, j)
<1> DEFINE n == CollectViews
           q == iSub.queue
           m == Len(q)
           b == [entries |-> iEntries, tracked |-> iTracked, wanted |-> {}]
<1>1. /\ iEntries \in HeldViews /\ iTracked \in HeldViews /\ iLive \subseteq Visitors /\ q \in Seq(ViewEvent) /\ m \in Nat
      /\ Visitors \subseteq Airframes
  BY MetadataConstants DEF CacheShape
<1>2. b \in Heard /\ Observed(b)
  BY <1>1 DEF Heard, Observed, ObserverAgrees
<1>3. CASE iSub.overflowed
  <2> DEFINE entries == Only(iEntries, iLive)
             keep == Airframes \ (DOMAIN iEntries \ iLive)
             tracked == Only(iTracked, keep)
             wanted == iLive \ DOMAIN iEntries
  <2>1. n = [entries |-> entries, tracked |-> tracked, wanted |-> wanted]
    BY <1>3 DEF CollectViews
  <2>2. /\ entries \in HeldViews /\ DOMAIN entries = DOMAIN iEntries \cap iLive
        /\ \A x \in DOMAIN iEntries \cap iLive : entries[x] = iEntries[x]
    BY <1>1, OnlyKeeps
  <2>3. /\ tracked \in HeldViews /\ DOMAIN tracked = DOMAIN iTracked \cap keep
        /\ \A x \in DOMAIN iTracked \cap keep : tracked[x] = iTracked[x]
    BY <1>1, OnlyKeeps
  <2> HIDE DEF entries, tracked
  <2>4. n.entries = entries /\ n.tracked = tracked /\ n.wanted = wanted /\ n \in Heard
    BY <1>1, <2>1, <2>2, <2>3 DEF Heard
  <2> HIDE DEF n
  <2>5. Observed(n)
    BY <1>1, <2>2, <2>3, <2>4 DEF Observed, ObserverAgrees
  <2>6. QED
    BY <1>3, <2>2, <2>4, <2>5 DEF n
<1>4. CASE ~iSub.overflowed
  <2>1. \A h \in Heard, e \in ViewEvent : Heed(h, e) \in Heard
    BY HeedDoes
  <2>2. n = FoldLeft(Heed, b, q)
    BY <1>4 DEF CollectViews
  <2> HIDE DEF b, q, n
  <2>3. PICK g \in [0 .. m -> Heard] :
            g[0] = b /\ (\A i \in 1 .. m : g[i] = Heed(g[i - 1], q[i])) /\ FoldLeft(Heed, b, q) = g[m]
    <3>1. \E g \in [0 .. Len(q) -> Heard] :
            g[0] = b /\ (\A i \in 1 .. Len(q) : g[i] = Heed(g[i - 1], q[i])) /\ FoldLeft(Heed, b, q) = g[Len(q)]
      <4>1. q \in Seq(ViewEvent) /\ b \in Heard
        BY <1>1, <1>2
      <4>2. HeedFolds(Heard, b, q)
        BY <4>1, <2>1, HeedSteps
      <4>3. QED
        BY <4>2 DEF HeedFolds
    <3>2. QED
      BY <3>1
  <2> DEFINE Good(i) ==
        /\ Observed(g[i]) /\ DOMAIN g[i].entries \subseteq DOMAIN iEntries
        /\ \A f \in DOMAIN g[i].entries : g[i].entries[f] = iEntries[f]
        /\ \A f \in Visitors : NoneOf(q, i, f) => (f \in DOMAIN g[i].entries <=> f \in DOMAIN iEntries) /\ f \notin g[i].wanted
        /\ \A f \in Visitors, j \in 1 .. i : LastOf(q, i, f, j) =>
             (f \in DOMAIN g[i].entries \cup g[i].wanted <=> q[j].kind = "appeared")
        /\ \A f \in Visitors : NoneOf(q, i, f) \/ \E j \in 1 .. i : LastOf(q, i, f, j)
      T == {i \in 0 .. m : Good(i)}
  <2>4. Good(0)
    <3>1. g[0].entries = iEntries /\ g[0].tracked = iTracked /\ g[0].wanted = {} /\ Observed(g[0])
      BY <1>2, <2>3 DEF b
    <3>2. 1 .. 0 = {}
      OBVIOUS
    <3>3. QED
      BY <3>1, <3>2 DEF NoneOf
  <2>5. ASSUME NEW i \in 1 .. m, Good(i - 1) PROVE Good(i)
    <3> DEFINE h == g[i - 1]
               e == q[i]
               a == g[i]
    <3>1. h \in Heard /\ e \in ViewEvent /\ a = Heed(h, e) /\ e.frame \in Visitors /\ i \in Nat /\ i - 1 \in 0 .. m
      <4>1. i \in Nat /\ i - 1 \in 0 .. m /\ i \in 0 .. m
        BY <1>1
      <4>2. e \in ViewEvent
        BY <1>1
      <4>3. e.frame \in Visitors
        BY <4>2 DEF ViewEvent
      <4>4. QED
        BY <2>3, <4>1, <4>2, <4>3
    <3>2. /\ Observed(h) => Observed(a)
          /\ DOMAIN a.entries \subseteq DOMAIN h.entries
          /\ \A f \in DOMAIN a.entries : a.entries[f] = h.entries[f]
          /\ \A f \in Visitors \ {e.frame} :
               (f \in DOMAIN a.entries <=> f \in DOMAIN h.entries) /\ (f \in a.wanted <=> f \in h.wanted)
          /\ e.frame \in DOMAIN a.entries \cup a.wanted <=> e.kind = "appeared"
      BY <3>1, HeedDoes
    <3>3. \A k \in 1 .. i : k = i \/ k \in 1 .. i - 1
      BY <3>1
    <3>4. Observed(h) /\ DOMAIN h.entries \subseteq DOMAIN iEntries /\ \A f \in DOMAIN h.entries : h.entries[f] = iEntries[f]
      BY <2>5
    <3>5. Observed(a) /\ DOMAIN a.entries \subseteq DOMAIN iEntries /\ \A f \in DOMAIN a.entries : a.entries[f] = iEntries[f]
      <4> HIDE DEF h, a, e
      <4>1. QED
        BY <3>2, <3>4
    <3>6. ASSUME NEW f \in Visitors, NoneOf(q, i, f)
          PROVE  (f \in DOMAIN a.entries <=> f \in DOMAIN iEntries) /\ f \notin a.wanted
      <4>1. f # e.frame /\ NoneOf(q, i - 1, f)
        BY <3>1, <3>3, <3>6 DEF NoneOf
      <4>2. (f \in DOMAIN h.entries <=> f \in DOMAIN iEntries) /\ f \notin h.wanted
        BY <2>5, <4>1
      <4> HIDE DEF h, a, e
      <4>3. QED
        BY <3>2, <4>1, <4>2
    <3>7. ASSUME NEW f \in Visitors, NEW j \in 1 .. i, LastOf(q, i, f, j)
          PROVE  f \in DOMAIN a.entries \cup a.wanted <=> q[j].kind = "appeared"
      <4>1. CASE j = i
        BY <3>2, <3>7, <4>1 DEF LastOf
      <4>2. CASE j # i
        <5>1. j \in 1 .. i - 1 /\ f # e.frame /\ LastOf(q, i - 1, f, j)
          BY <3>1, <3>7, <4>2 DEF LastOf
        <5>2. f \in DOMAIN h.entries \cup h.wanted <=> q[j].kind = "appeared"
          BY <2>5, <5>1
        <5> HIDE DEF h, a, e
        <5>3. QED
          BY <3>2, <5>1, <5>2
      <4>3. QED
        BY <4>1, <4>2
    <3>8. ASSUME NEW f \in Visitors
          PROVE  NoneOf(q, i, f) \/ \E j \in 1 .. i : LastOf(q, i, f, j)
      <4>1. CASE f = e.frame
        <5>1. LastOf(q, i, f, i)
          BY <3>1, <4>1 DEF LastOf
        <5>2. QED
          BY <3>1, <5>1
      <4>2. CASE f # e.frame /\ NoneOf(q, i - 1, f)
        BY <3>3, <4>2 DEF NoneOf
      <4>3. CASE f # e.frame /\ \E j \in 1 .. i - 1 : LastOf(q, i - 1, f, j)
        <5>1. PICK j \in 1 .. i - 1 : LastOf(q, i - 1, f, j)
          BY <4>3
        <5>2. j \in 1 .. i /\ LastOf(q, i, f, j)
          BY <3>1, <3>3, <4>3, <5>1 DEF LastOf
        <5>3. QED
          BY <5>2
      <4>4. QED
        BY <2>5, <4>1, <4>2, <4>3
    <3>9. QED
      BY <3>5, <3>6, <3>7, <3>8
  <2>6. Good(m)
    <3> HIDE DEF Good
    <3>1. 0 \in T
      BY <1>1, <2>4
    <3>2. \A i \in 1 .. m : i - 1 \in T => i \in T
      BY <2>5
    <3>3. \A i \in 0 .. m : i \in T
      <4> HIDE DEF T
      <4>1. QED
        BY <1>1, <3>1, <3>2, Climb
    <3>4. QED
      BY <1>1, <3>3
  <2>7. n = g[m] /\ n \in Heard
    BY <1>1, <2>2, <2>3
  <2>8. QED
    BY <1>4, <2>6, <2>7 DEF n, q
<1>5. QED
  BY <1>1, <1>3, <1>4 DEF CacheShape

\* A run between idle and lock is at one of the sources.
LEMMA SourceIsOne ==
  ASSUME TaskShape, iRun.pc \in Staging
  PROVE  Source \in Sources
BY MetadataConstants DEF TaskShape, RunShape, Source, Sources, ToSet

\* After a source the run goes to the next one, to the refresh when something changed, or it is over
\* (run_import's loop and the notification that follows it).
LEMMA NextSourceIs ==
  ASSUME NEW run \in Run, run.left = {}
  PROVE  LET next == NextSource(run)
         IN  /\ next \in Run /\ next.left = {} /\ next.pc \in {"attempt", "lock", "idle"}
             /\ next.pc = "attempt" => next.at \in 1 .. Len(Order) /\ next.changed = run.changed
             /\ next.pc = "lock" => run.changed /\ next.changed
             /\ next.pc = "idle" => ~run.changed /\ ~next.changed
<1> DEFINE next == NextSource(run)
<1>1. /\ run.at \in 0 .. Len(Order) /\ Len(Order) \in Nat /\ run.version \in Versions \cup {0}
      /\ run.changed \in BOOLEAN /\ {"attempt", "lock", "idle"} \subseteq RunPc
      /\ run = [pc |-> run.pc, at |-> run.at, version |-> run.version, left |-> run.left, changed |-> run.changed]
  BY MetadataConstants DEF Run, RunPc
<1>2. CASE run.at < Len(Order)
  <2>1. next = [run EXCEPT !.pc = "attempt", !.at = run.at + 1, !.version = 0]
    BY <1>2 DEF NextSource
  <2>2. /\ next.pc = "attempt" /\ next.at = run.at + 1 /\ next.version = 0 /\ next.left = {} /\ next.changed = run.changed
        /\ next = [pc |-> "attempt", at |-> run.at + 1, version |-> 0, left |-> run.left, changed |-> run.changed]
    BY <1>1, <2>1
  <2>3. run.at + 1 \in 1 .. Len(Order) /\ run.at + 1 \in 0 .. Len(Order)
    BY <1>1, <1>2
  <2>4. next \in Run
    BY <1>1, <2>2, <2>3 DEF Run
  <2> HIDE DEF next
  <2>5. QED
    BY <2>2, <2>3, <2>4 DEF next
<1>3. CASE ~(run.at < Len(Order)) /\ run.changed
  <2>1. next = [run EXCEPT !.pc = "lock"]
    BY <1>3 DEF NextSource
  <2>2. /\ next.pc = "lock" /\ next.left = {} /\ next.changed = run.changed
        /\ next = [pc |-> "lock", at |-> run.at, version |-> run.version, left |-> run.left, changed |-> run.changed]
    BY <1>1, <2>1
  <2>3. next \in Run
    BY <1>1, <2>2 DEF Run
  <2> HIDE DEF next
  <2>4. QED
    BY <1>3, <2>2, <2>3 DEF next
<1>4. CASE ~(run.at < Len(Order)) /\ ~run.changed
  <2>1. next = NoRun
    BY <1>4 DEF NextSource
  <2>2. NoRun \in Run
    BY <1>1 DEF NoRun, Run
  <2>3. QED
    BY <1>4, <2>1, <2>2 DEF NoRun
<1>5. QED
  BY <1>2, <1>3, <1>4

ImportStep ==
  \/ StartImport \/ Attempt \/ DownloadSource \/ StageRows \/ (\E usable \in BOOLEAN : CountStaged(usable))
  \/ (\E f \in Airframes : BuildPage(f)) \/ Promote \/ ImportFails \/ RecordFailure \/ RunRaises
ClearStep == ClearTables \/ ClearOther \/ ClearFails

\* What a step of an update run leaves alone.
LEMMA ImportDoes ==
  ASSUME TaskShape, ImportStep
  PROVE  /\ RunShape' /\ iRun.pc # "told" /\ iRun'.pc # "told" /\ UNCHANGED <<iClear, iCache>>
         /\ iUntold' \in BOOLEAN /\ iMet' \in BOOLEAN /\ iTorn' \subseteq OwnTable
         /\ (iMet => iMet') /\ (iUntold => iUntold')
         /\ iRun.changed => iRun'.changed \/ iUntold'
         /\ iResolved' # iResolved => iRun'.changed
<1>0. /\ iRun \in Run /\ iMet \in BOOLEAN /\ iUntold \in BOOLEAN /\ iTorn \subseteq OwnTable
      /\ iRun.at \in 0 .. Len(Order) /\ Len(Order) \in Nat /\ iRun.version \in Versions \cup {0}
      /\ iRun.changed \in BOOLEAN /\ iRun.left \subseteq Airframes
      /\ iRun = [pc |-> iRun.pc, at |-> iRun.at, version |-> iRun.version, left |-> iRun.left, changed |-> iRun.changed]
      /\ iRun.pc \in Staging => iRun.at \in 1 .. Len(Order)
      /\ iRun.pc # "build" => iRun.left = {}
      /\ iRun.pc \in {"stage", "count", "build", "promote"} => iRun.version # 0
  BY MetadataConstants DEF TaskShape, RunShape, Run
<1> DEFINE To(pc, version, left) == [pc |-> pc, at |-> iRun.at, version |-> version, left |-> left, changed |-> iRun.changed]
<1>m. ASSUME NEW pc \in RunPc, NEW version \in Versions \cup {0}, NEW left \in SUBSET Airframes, iRun' = To(pc, version, left),
             iRun.pc \in Staging, pc \notin {"told", "lock", "idle"}, pc # "build" => left = {},
             pc \in {"stage", "count", "build", "promote"} => version # 0
      PROVE  /\ RunShape' /\ iRun.pc # "told" /\ iRun'.pc # "told" /\ iRun'.changed = iRun.changed
  <2>1. iRun' \in Run
    BY <1>0, <1>m DEF Run
  <2>2. iRun'.pc = pc /\ iRun'.version = version /\ iRun'.left = left /\ iRun'.at = iRun.at /\ iRun'.changed = iRun.changed
    BY <1>m
  <2>3. QED
    BY <1>0, <1>m, <2>1, <2>2 DEF RunShape, Staging
<1>n. ASSUME NEW run \in Run, run.left = {}, iRun' = NextSource(run)
      PROVE  RunShape' /\ iRun'.pc # "told" /\ (run.changed => iRun'.changed)
  <2>1. /\ iRun' \in Run /\ iRun'.left = {} /\ iRun'.pc \in {"attempt", "lock", "idle"}
        /\ iRun'.pc = "attempt" => iRun'.at \in 1 .. Len(Order) /\ iRun'.changed = run.changed
        /\ iRun'.pc = "lock" => run.changed /\ iRun'.changed
        /\ iRun'.pc = "idle" => ~run.changed /\ ~iRun'.changed
    BY <1>n, NextSourceIs
  <2>2. QED
    BY <2>1 DEF RunShape, Staging
<1>c. Staging \subseteq RunPc /\ "told" \notin Staging /\ Versions \subseteq Nat \ {0} /\ {} \in SUBSET Airframes
  BY MetadataConstants DEF Staging, RunPc
<1>r. NoRun \in Run /\ NoRun.left = {} /\ ~NoRun.changed /\ NoRun.pc = "idle"
  BY <1>0 DEF NoRun, Run, RunPc
<1>1. CASE StartImport
  <2>1. iRun' = NextSource(NoRun) /\ iRun.pc = "idle" /\ ~iRun.changed
    BY <1>1 DEF StartImport, TaskShape, RunShape
  <2>2. RunShape' /\ iRun'.pc # "told"
    BY <1>n, <1>r, <2>1
  <2>3. QED
    BY <1>0, <1>1, <2>1, <2>2 DEF StartImport, iTables
<1>2. CASE Attempt
  <2>1. iRun' = To("download", iRun.version, iRun.left) /\ iRun.pc \in Staging /\ iRun.left = {}
    BY <1>0, <1>2 DEF Attempt, Staging
  <2>2. RunShape' /\ iRun.pc # "told" /\ iRun'.pc # "told" /\ iRun'.changed = iRun.changed
    BY <1>m, <1>0, <1>c, <2>1 DEF Staging
  <2>3. QED
    BY <1>0, <1>2, <2>2 DEF Attempt, iTables
<1>3. CASE DownloadSource
  <2>1. iRun.pc \in Staging /\ iRun.left = {}
    BY <1>0, <1>3 DEF DownloadSource, Staging
  <2>2. \/ \E v \in Versions : iRun' = To("stage", v, iRun.left)
        \/ iRun' = To("fail", iRun.version, iRun.left)
    BY <1>0, <1>3 DEF DownloadSource
  <2>3. RunShape' /\ iRun.pc # "told" /\ iRun'.pc # "told" /\ iRun'.changed = iRun.changed
    <3>1. ASSUME NEW v \in Versions, iRun' = To("stage", v, iRun.left)
          PROVE RunShape' /\ iRun.pc # "told" /\ iRun'.pc # "told" /\ iRun'.changed = iRun.changed
      BY <1>m, <1>0, <1>c, <2>1, <3>1 DEF Staging
    <3>2. ASSUME iRun' = To("fail", iRun.version, iRun.left)
          PROVE RunShape' /\ iRun.pc # "told" /\ iRun'.pc # "told" /\ iRun'.changed = iRun.changed
      BY <1>m, <1>0, <1>c, <2>1, <3>2 DEF Staging
    <3>3. QED
      BY <2>2, <3>1, <3>2
  <2>4. QED
    BY <1>0, <1>3, <2>3 DEF DownloadSource, iTables
<1>4. CASE StageRows
  <2>1. iRun' = To("count", iRun.version, iRun.left) /\ iRun.pc \in Staging /\ iRun.left = {} /\ iRun.version # 0
    BY <1>0, <1>4 DEF StageRows, Staging
  <2>2. RunShape' /\ iRun.pc # "told" /\ iRun'.pc # "told" /\ iRun'.changed = iRun.changed
    BY <1>m, <1>0, <1>c, <2>1 DEF Staging
  <2>3. QED
    BY <1>0, <1>4, <2>2 DEF StageRows
<1>5. CASE \E usable \in BOOLEAN : CountStaged(usable)
  <2> PICK usable \in BOOLEAN : CountStaged(usable)
    BY <1>5
  <2>1. iRun.pc \in Staging /\ iRun.left = {} /\ iRun.version # 0
    BY <1>0 DEF CountStaged, Staging
  <2>2. \/ iRun' = To("fail", iRun.version, {}) \/ iRun' = To("promote", iRun.version, {})
        \/ iRun' = To("build", iRun.version, Airframes)
    BY <1>0, <2>1 DEF CountStaged
  <2>3. RunShape' /\ iRun.pc # "told" /\ iRun'.pc # "told" /\ iRun'.changed = iRun.changed
    <3>1. ASSUME iRun' = To("fail", iRun.version, {})
          PROVE RunShape' /\ iRun.pc # "told" /\ iRun'.pc # "told" /\ iRun'.changed = iRun.changed
      BY <1>m, <1>0, <1>c, <2>1, <3>1 DEF Staging
    <3>2. ASSUME iRun' = To("promote", iRun.version, {})
          PROVE RunShape' /\ iRun.pc # "told" /\ iRun'.pc # "told" /\ iRun'.changed = iRun.changed
      BY <1>m, <1>0, <1>c, <2>1, <3>2 DEF Staging
    <3>3. ASSUME iRun' = To("build", iRun.version, Airframes)
          PROVE RunShape' /\ iRun.pc # "told" /\ iRun'.pc # "told" /\ iRun'.changed = iRun.changed
      BY <1>m, <1>0, <1>c, <2>1, <3>3 DEF Staging
    <3>4. QED
      BY <2>2, <3>1, <3>2, <3>3
  <2>4. QED
    BY <1>0, <2>3 DEF CountStaged
<1>6. CASE \E f \in Airframes : BuildPage(f)
  <2> PICK f \in Airframes : BuildPage(f)
    BY <1>6
  <2>1. iRun.pc \in Staging /\ iRun.version # 0 /\ iRun.pc = "build" /\ f \in iRun.left
    BY <1>0 DEF BuildPage, Staging
  <2>2. iRun' = To(IF iRun.left = {f} THEN "promote" ELSE "build", iRun.version, iRun.left \ {f})
    BY <1>0 DEF BuildPage
  <2>3. RunShape' /\ iRun.pc # "told" /\ iRun'.pc # "told" /\ iRun'.changed = iRun.changed
    <3>1. CASE iRun.left = {f}
      <4>1. iRun' = To("promote", iRun.version, {})
        BY <2>2, <3>1
      <4>2. QED
        BY <1>m, <1>0, <1>c, <2>1, <4>1 DEF Staging
    <3>2. CASE iRun.left # {f}
      <4>1. iRun' = To("build", iRun.version, iRun.left \ {f}) /\ iRun.left \ {f} \in SUBSET Airframes
        BY <1>0, <2>2, <3>2
      <4>2. QED
        BY <1>m, <1>0, <1>c, <2>1, <4>1 DEF Staging
    <3>3. QED
      BY <3>1, <3>2
  <2>4. QED
    BY <1>0, <2>3 DEF BuildPage
<1>7. CASE Promote
  <2> DEFINE run == [iRun EXCEPT !.changed = TRUE]
  <2>1. iRun' = NextSource(run) /\ iRun.pc = "promote"
    BY <1>7 DEF Promote
  <2>2. run \in Run /\ run.left = {} /\ run.changed
    BY <1>0, <2>1 DEF Run
  <2> HIDE DEF run
  <2>3. RunShape' /\ iRun'.pc # "told" /\ iRun'.changed
    BY <1>n, <2>1, <2>2
  <2>4. iMet' \in BOOLEAN /\ (iMet => iMet')
    BY <1>0, <1>7 DEF Promote
  <2>5. QED
    BY <1>0, <1>7, <2>1, <2>3, <2>4 DEF Promote
<1>8. CASE ImportFails
  <2>1. iRun' = To("fail", iRun.version, {}) /\ iRun.pc \in Staging
    BY <1>0, <1>8 DEF ImportFails, Staging
  <2>2. RunShape' /\ iRun.pc # "told" /\ iRun'.pc # "told" /\ iRun'.changed = iRun.changed
    BY <1>m, <1>0, <1>c, <2>1 DEF Staging
  <2>3. QED
    BY <1>0, <1>8, <2>2 DEF ImportFails, iTables
<1>9. CASE RecordFailure
  <2>1. iRun' = NextSource(iRun) /\ iRun.pc = "fail" /\ iRun.left = {}
    BY <1>0, <1>9 DEF RecordFailure
  <2>2. RunShape' /\ iRun'.pc # "told" /\ (iRun.changed => iRun'.changed)
    BY <1>n, <1>0, <2>1
  <2>3. QED
    BY <1>0, <1>9, <2>1, <2>2 DEF RecordFailure
<1>10. CASE RunRaises
  <2>1. iRun' = NoRun /\ iRun.pc \in {"attempt", "fail"}
    BY <1>10 DEF RunRaises
  <2>2. RunShape' /\ iRun'.pc # "told"
    BY <1>r, <2>1 DEF RunShape, Staging
  <2>3. iUntold' \in BOOLEAN /\ (iUntold => iUntold') /\ (iRun.changed => iUntold')
    BY <1>0, <1>10 DEF RunRaises
  <2>4. QED
    BY <1>0, <1>10, <2>1, <2>2, <2>3 DEF RunRaises, iTables
<1>11. QED
  BY <1>1, <1>2, <1>3, <1>4, <1>5, <1>6, <1>7, <1>8, <1>9, <1>10 DEF ImportStep

\* What a step of a clear leaves alone.
LEMMA ClearDoes ==
  ASSUME TaskShape, ClearStep
  PROVE  /\ UNCHANGED <<iRun, iCache>> /\ iClear.pc # "told" /\ iClear'.pc # "told"
         /\ iClear' \in [pc : {"idle", "others", "lock", "told"}, left : SUBSET OwnTable]
         /\ iUntold' \in BOOLEAN /\ iMet' \in BOOLEAN /\ iTorn' \subseteq OwnTable
         /\ (iMet => iMet') /\ (iUntold => iUntold')
         /\ iClear.pc \in {"others", "lock"} => iClear'.pc \in {"others", "lock"} \/ iUntold'
         /\ iResolved' # iResolved => iClear'.pc = "others"
<1>0. /\ iMet \in BOOLEAN /\ iUntold \in BOOLEAN /\ iTorn \subseteq OwnTable
      /\ iClear.left \subseteq OwnTable
  BY DEF TaskShape, RunShape
<1>1. CASE ClearTables
  <2>1. iMet' \in BOOLEAN /\ (iMet => iMet')
    BY <1>0, <1>1 DEF ClearTables
  <2>2. QED
    BY <1>0, <1>1, <2>1 DEF ClearTables
<1>2. CASE ClearOther
  BY <1>0, <1>2 DEF ClearOther
<1>3. CASE ClearFails
  BY <1>0, <1>3 DEF ClearFails, NotClearing, iTables
<1>4. QED
  BY <1>1, <1>2, <1>3 DEF ClearStep

\* The invariant holds of a fresh start, whatever the tables held when the process began.
LEMMA MetadataInitial == MetadataInit => MetadataInv
<1> SUFFICES ASSUME MetadataInit PROVE MetadataInv
  OBVIOUS
<1>1. Nothing \in View
  BY DEF Nothing, View
<1>2. <<>> \in HeldViews /\ DOMAIN <<>> = {}
  <2>1. <<>> \in [{} -> View] /\ {} \in SUBSET Visitors
    OBVIOUS
  <2>2. QED
    BY <2>1 DEF HeldViews
<1>3. TableShape
  BY <1>1 DEF MetadataInit, TableShape
<1>4. TaskShape
  <2>1. NoRun \in Run /\ NoRun.left = {} /\ ~NoRun.changed /\ NoRun.pc = "idle"
    BY MetadataConstants DEF NoRun, Run, RunPc
  <2>2. RunShape
    BY <2>1 DEF MetadataInit, RunShape, Staging
  <2>3. QED
    BY <2>2 DEF MetadataInit, TaskShape, NotClearing
<1>5. CacheShape
  BY <1>2 DEF MetadataInit, CacheShape, NewSubscription
<1>6. LockShape
  BY <1>2 DEF MetadataInit, LockShape, Free, Holders, NoRun, NotClearing
<1>7. NoteInv /\ BlankInv /\ ImportStagedInv /\ ScratchInv
  BY DEF MetadataInit, NoteInv, BlankInv, NotClearing, ImportStagedInv, ScratchInv, NoRun
<1>8. ResolvedInv
  <2> SUFFICES ASSUME NEW f \in Airframes PROVE iResolved[f] = ResolveFrame(f, iInstalled)
    BY DEF ResolvedInv
  <2>1. iInstalled \in [Sources -> Versions \cup {0}] /\ \A s \in Sources : iInstalled[s] = 0
    BY DEF MetadataInit
  <2>2. \A name \in Fields : Winner(name, f, iInstalled) = NoSource
    BY <2>1, WinnerIsBest DEF Claims
  <2>3. ResolveFrame(f, iInstalled) = Nothing
    BY <2>2 DEF ResolveFrame, Nothing
  <2>4. QED
    BY <2>3 DEF MetadataInit
<1>9. CurrentInv /\ ObserverAgrees
  BY <1>2 DEF MetadataInit, CurrentInv, ObserverAgrees, Free
<1>10. MembersInv
  BY <1>2 DEF MetadataInit, MembersInv, NewSubscription, Free, Known
<1>11. QED
  BY <1>3, <1>4, <1>5, <1>6, <1>7, <1>8, <1>9, <1>10 DEF MetadataInv, MetadataShape

\* No step of the importer, of a clear or of the cache takes the tables out of their shape.
LEMMA TableStep ==
  ASSUME MetadataShape, [MetadataNext]_iVars
  PROVE  TableShape'
<1>0. /\ iInstalled \in [Sources -> Versions \cup {0}] /\ iStaged \in [Sources -> Versions \cup {0}]
      /\ iNote \in [Sources -> [status : {"never_run", "ok", "failed"}, version : Versions \cup {0}]]
      /\ iScratch \in [Airframes -> View] /\ iResolved \in [Airframes -> View]
      /\ iRun.version \in Versions \cup {0}
  BY DEF MetadataShape, TableShape, TaskShape, RunShape, Run
<1>1. Nothing \in View /\ [f \in Airframes |-> Nothing] \in [Airframes -> View]
  BY DEF Nothing, View
<1>u. ASSUME UNCHANGED iTables PROVE TableShape'
  BY <1>0, <1>u DEF TableShape, iTables
<1>2. CASE StageRows
  BY <1>0, <1>2 DEF StageRows, TableShape
<1>3. CASE \E usable \in BOOLEAN : CountStaged(usable)
  BY <1>0, <1>1, <1>3 DEF CountStaged, TableShape
<1>4. CASE \E f \in Airframes : BuildPage(f)
  <2> PICK f \in Airframes : BuildPage(f)
    BY <1>4
  <2>1. Source \in Sources
    BY SourceIsOne DEF MetadataShape, BuildPage, Staging
  <2>2. ClaimsFor(Source) \in [Sources -> Versions \cup {0}]
    BY <1>0, <2>1 DEF ClaimsFor
  <2>3. ResolveFrame(f, ClaimsFor(Source)) \in View
    BY <2>2, ResolveTyped
  <2>4. QED
    BY <1>0, <2>3 DEF BuildPage, TableShape
<1>5. CASE Promote
  <2>1. iInstalled' \in [Sources -> Versions \cup {0}] /\ iStaged' \in [Sources -> Versions \cup {0}]
    <3>1. Source \in Sources
      BY <1>5, SourceIsOne DEF MetadataShape, Promote, Staging
    <3>2. QED
      BY <1>0, <1>5, <3>1 DEF Promote
  <2>2. iNote' \in [Sources -> [status : {"never_run", "ok", "failed"}, version : Versions \cup {0}]]
    BY <1>0, <1>5 DEF Promote
  <2>3. iScratch' \in [Airframes -> View] /\ iResolved' \in [Airframes -> View]
    BY <1>0, <1>1, <1>5 DEF Promote
  <2>4. QED
    BY <2>1, <2>2, <2>3 DEF TableShape
<1>6. CASE RecordFailure
  <2>1. iStaged' \in [Sources -> Versions \cup {0}]
    BY <1>0, <1>6 DEF RecordFailure
  <2>2. iNote' \in [Sources -> [status : {"never_run", "ok", "failed"}, version : Versions \cup {0}]]
    BY <1>0, <1>6 DEF RecordFailure, Failed
  <2>3. QED
    BY <1>0, <1>6, <2>1, <2>2 DEF RecordFailure, TableShape
<1>7. CASE ClearTables
  BY <1>0, <1>1, <1>7 DEF ClearTables, TableShape
<1>8. CASE ClearOther
  BY <1>0, <1>8 DEF ClearOther, TableShape
<1>9. CASE RestartMetadata
  BY <1>0, <1>9 DEF RestartMetadata, TableShape
<1>10. QED
  BY <1>u, <1>2, <1>3, <1>4, <1>5, <1>6, <1>7, <1>8, <1>9
     DEF MetadataNext, iVars, iTables, StartImport, Attempt, DownloadSource, ImportFails, RunRaises, ClearFails, Enter, Depart,
         CollectEvents, Invalidate, ReadCounts, ReadViews, InstallViews, PopulateFails

\* Who the lock is released by goes on.
LEMMA ReleaseDoes ==
  ASSUME TaskShape, LockShape, Release
  PROVE  /\ iLock' = Free /\ RunShape' /\ iRun'.pc # "told" /\ iClear'.pc # "told"
         /\ iClear' \in [pc : {"idle", "others", "lock", "told"}, left : SUBSET OwnTable]
         /\ iLock.who # "import" => iRun' = iRun
         /\ iLock.who # "clear" => iClear' = iClear
         /\ iRun.changed /\ iRun.pc # "told" => iRun' = iRun
         /\ iClear.pc \in {"others", "lock"} => iClear' = iClear
<1>1. NoRun \in Run /\ NoRun.left = {} /\ ~NoRun.changed /\ NoRun.pc = "idle"
  BY MetadataConstants DEF NoRun, Run, RunPc
<1>2. RunShape' /\ iRun'.pc # "told"
  <2>1. CASE iLock.who = "import"
    BY <1>1, <2>1 DEF Release, RunShape, Staging
  <2>2. CASE iLock.who # "import"
    BY <2>2 DEF Release, TaskShape, RunShape, LockShape
  <2>3. QED
    BY <2>1, <2>2
<1>3. iClear'.pc # "told" /\ iClear' \in [pc : {"idle", "others", "lock", "told"}, left : SUBSET OwnTable]
  BY DEF Release, TaskShape, LockShape, NotClearing
<1>4. QED
  BY <1>2, <1>3 DEF Release, LockShape

\* Nor the import run and the clear out of theirs (run_import, clear, the lock's hand-overs).
LEMMA TaskStep ==
  ASSUME MetadataShape, [MetadataNext]_iVars
  PROVE  TaskShape'
<1>0. TaskShape /\ LockShape /\ iMet \in BOOLEAN /\ iUntold \in BOOLEAN /\ iTorn \subseteq OwnTable /\ RunShape
  BY DEF MetadataShape, TaskShape
<1>u. ASSUME UNCHANGED <<iRun, iClear, iMet, iTorn, iUntold>> PROVE TaskShape'
  BY <1>0, <1>u DEF TaskShape, RunShape
<1>1. CASE ImportStep
  BY <1>0, <1>1, ImportDoes DEF TaskShape
<1>2. CASE ClearStep
  <2>1. RunShape'
    BY <1>0, <1>2, ClearDoes DEF RunShape
  <2>2. QED
    BY <1>0, <1>2, <2>1, ClearDoes DEF TaskShape
<1>3. CASE \E who \in {"import", "clear"} : Invalidate(who)
  <2> PICK who \in {"import", "clear"} : Invalidate(who)
    BY <1>3
  <2>1. RunShape'
    <3>1. CASE who = "import"
      <4>1. iRun' = [iRun EXCEPT !.pc = "told"] /\ iRun.pc = "lock" /\ "told" \in RunPc
        BY <3>1 DEF Invalidate, RunPc
      <4>2. iRun' \in Run /\ iRun'.pc = "told" /\ iRun'.left = {}
        BY <1>0, <4>1 DEF RunShape, Run
      <4>3. QED
        BY <4>2 DEF RunShape, Staging
    <3>2. CASE who # "import"
      BY <1>0, <3>2 DEF Invalidate, RunShape
    <3>3. QED
      BY <3>1, <3>2
  <2>2. iClear' \in [pc : {"idle", "others", "lock", "told"}, left : SUBSET OwnTable]
    BY <1>0 DEF Invalidate, TaskShape
  <2>3. QED
    BY <1>0, <2>1, <2>2 DEF Invalidate, TaskShape
<1>4. CASE ReadCounts
  <2>1. CASE iLive = {}
    BY <1>0, <1>4, <2>1, ReleaseDoes DEF ReadCounts, TaskShape
  <2>2. CASE iLive # {}
    BY <1>0, <1>4, <2>2 DEF ReadCounts, TaskShape, RunShape
  <2>3. QED
    BY <2>1, <2>2
<1>5. CASE InstallViews
  BY <1>0, <1>5, ReleaseDoes DEF InstallViews, TaskShape
<1>6. CASE PopulateFails
  <2>1. iUntold' \in BOOLEAN
    BY <1>0, <1>6 DEF PopulateFails
  <2>2. QED
    BY <1>0, <1>6, <2>1, ReleaseDoes DEF PopulateFails, TaskShape
<1>7. CASE RestartMetadata
  <2>1. NoRun \in Run /\ NoRun.left = {} /\ ~NoRun.changed /\ NoRun.pc = "idle"
    BY MetadataConstants DEF NoRun, Run, RunPc
  <2>2. RunShape'
    BY <1>7, <2>1 DEF RestartMetadata, RunShape, Staging
  <2>3. QED
    BY <1>0, <1>7, <2>2 DEF RestartMetadata, TaskShape, NotClearing
<1>8. QED
  BY <1>u, <1>1, <1>2, <1>3, <1>4, <1>5, <1>6, <1>7
     DEF MetadataNext, ImportStep, ClearStep, iVars, Enter, Depart, CollectEvents, ReadViews

\* A subscription stays one when an event is delivered to it.
LEMMA DeliverDoes ==
  ASSUME NEW e \in ViewEvent, iSub \in [queue : Seq(ViewEvent), overflowed : BOOLEAN], iSub' = Deliver(iSub, e)
  PROVE  /\ iSub' \in [queue : Seq(ViewEvent), overflowed : BOOLEAN] /\ iSub'.queue # <<>>
         /\ ~iSub'.overflowed => ~iSub.overflowed /\ iSub'.queue = Append(iSub.queue, e)
<1>1. iSub.queue \in Seq(ViewEvent) /\ Len(iSub.queue) \in Nat /\ QueueSize \in Nat \ {0}
  BY QueueSizeAssumption
<1>2. CASE Len(iSub.queue) < QueueSize
  <2>1. iSub' = [iSub EXCEPT !.queue = Append(@, e)]
    BY <1>2 DEF Deliver
  <2>2. Append(iSub.queue, e) \in Seq(ViewEvent) /\ Append(iSub.queue, e) # <<>>
    BY <1>1
  <2>3. QED
    BY <2>1, <2>2
<1>3. CASE ~(Len(iSub.queue) < QueueSize)
  <2>1. iSub' = [queue |-> Append(Tail(iSub.queue), e), overflowed |-> TRUE]
    BY <1>3 DEF Deliver
  <2>2. iSub.queue # <<>>
    BY <1>1, <1>3
  <2>3. Append(Tail(iSub.queue), e) \in Seq(ViewEvent) /\ Append(Tail(iSub.queue), e) # <<>>
    <3>1. Tail(iSub.queue) \in Seq(ViewEvent)
      BY <1>1, <2>2
    <3>2. \A t \in Seq(ViewEvent) : Append(t, e) \in Seq(ViewEvent) /\ Append(t, e) # <<>>
      OBVIOUS
    <3>3. QED
      BY <3>1, <3>2
  <2>4. QED
    BY <2>1, <2>3
<1>4. QED
  BY <1>2, <1>3

\* Nor what the cache holds and hears: entries, observed views, its queue and its wanted set.
LEMMA CacheStep ==
  ASSUME MetadataShape, ObserverAgrees, [MetadataNext]_iVars
  PROVE  CacheShape'
<1>0. /\ iLive \subseteq Visitors /\ iEntries \in HeldViews /\ iTracked \in HeldViews /\ iMissed \subseteq iLive
      /\ iSub \in [queue : Seq(ViewEvent), overflowed : BOOLEAN] /\ (iSub.overflowed => iSub.queue # <<>>)
      /\ iLock.wanted \subseteq Visitors /\ iLock.views \in HeldViews /\ TaskShape /\ LockShape /\ CacheShape
  BY DEF MetadataShape, CacheShape, LockShape
<1>1. <<>> \in HeldViews
  <2>1. <<>> \in [{} -> View] /\ {} \in SUBSET Visitors
    OBVIOUS
  <2>2. QED
    BY <2>1 DEF HeldViews
<1>u. ASSUME UNCHANGED <<iLive, iSub, iEntries, iTracked>>, iMissed' \subseteq iLive PROVE CacheShape'
  BY <1>0, <1>u DEF CacheShape
<1>2. CASE ImportStep
  BY <1>0, <1>2, <1>u, ImportDoes DEF iCache
<1>3. CASE ClearStep
  BY <1>0, <1>3, <1>u, ClearDoes DEF iCache
<1>4. CASE \E f \in Visitors : Enter(f) \/ Depart(f)
  <2> PICK f \in Visitors : Enter(f) \/ Depart(f)
    BY <1>4
  <2>1. /\ [frame |-> f, kind |-> "appeared"] \in ViewEvent /\ [frame |-> f, kind |-> "removed"] \in ViewEvent
    BY DEF ViewEvent
  <2>2. iSub' \in [queue : Seq(ViewEvent), overflowed : BOOLEAN] /\ iSub'.queue # <<>>
    BY <1>0, <2>1, DeliverDoes DEF Enter, Depart
  <2>3. QED
    BY <1>0, <2>2 DEF Enter, Depart, CacheShape
<1>5. CASE CollectEvents
  <2> DEFINE n == CollectViews
  <2>1. n \in Heard
    BY <1>0, CollectDoes
  <2>2. iEntries' = n.entries /\ iTracked' = n.tracked /\ iSub' = Acknowledged(Drained(iSub)) /\ iLive' = iLive /\ iMissed' \subseteq iMissed
    BY <1>5 DEF CollectEvents
  <2> HIDE DEF n
  <2>3. iEntries' \in HeldViews /\ iTracked' \in HeldViews
    BY <2>1, <2>2 DEF Heard
  <2>4. iSub' \in [queue : Seq(ViewEvent), overflowed : BOOLEAN] /\ ~iSub'.overflowed
    <3>1. <<>> \in Seq(ViewEvent)
      OBVIOUS
    <3>2. QED
      BY <1>0, <2>2, <3>1 DEF Acknowledged, Drained
  <2>5. QED
    BY <1>0, <2>2, <2>3, <2>4 DEF CacheShape
<1>6. CASE \E who \in {"import", "clear"} : Invalidate(who)
  BY <1>0, <1>1, <1>6 DEF Invalidate, CacheShape
<1>7. CASE ReadCounts
  BY <1>0, <1>u, <1>7 DEF ReadCounts
<1>8. CASE ReadViews
  BY <1>0, <1>u, <1>8 DEF ReadViews
<1>9. CASE InstallViews
  <2>1. Updated(iEntries, iLock.views) \in HeldViews /\ Updated(iTracked, iLock.views) \in HeldViews
    BY <1>0, UpdatedKeeps
  <2>2. QED
    BY <1>0, <1>9, <2>1 DEF InstallViews, CacheShape
<1>10. CASE PopulateFails
  BY <1>0, <1>u, <1>10 DEF PopulateFails
<1>11. CASE RestartMetadata
  BY <1>1, <1>11 DEF RestartMetadata, CacheShape, NewSubscription
<1>12. CASE UNCHANGED iVars
  BY <1>0, <1>u, <1>12 DEF iVars
<1>13. QED
  BY <1>2, <1>3, <1>4, <1>5, <1>6, <1>7, <1>8, <1>9, <1>10, <1>11, <1>12 DEF MetadataNext, ImportStep, ClearStep

\* Nor the refresh under way under the cache lock: who refreshes, what it counted, read and will install.
LEMMA LockStep ==
  ASSUME MetadataShape, ObserverAgrees, [MetadataNext]_iVars
  PROVE  LockShape'
<1> DEFINE Lock == [who : Holders, pc : {"free", "counts", "read", "install"}, wanted : SUBSET Visitors, views : HeldViews]
<1>0. /\ TaskShape /\ LockShape /\ CacheShape /\ iLock \in Lock /\ iResolved \in [Airframes -> View] /\ iLive \subseteq Visitors
      /\ Visitors \subseteq Airframes
  BY MetadataConstants DEF MetadataShape, LockShape, TableShape, CacheShape
<1>1. <<>> \in HeldViews /\ DOMAIN <<>> = {}
  <2>1. <<>> \in [{} -> View] /\ {} \in SUBSET Visitors
    OBVIOUS
  <2>2. QED
    BY <2>1 DEF HeldViews
<1>f. /\ Free \in Lock /\ Free.pc = "free" /\ Free.who = "nobody" /\ Free.wanted = {} /\ DOMAIN Free.views = {}
  BY <1>1 DEF Free, Holders
<1>u. ASSUME UNCHANGED iLock, DOMAIN iEntries' \subseteq DOMAIN iEntries,
             iRun'.pc = "told" <=> iRun.pc = "told", iClear'.pc = "told" <=> iClear.pc = "told"
      PROVE  LockShape'
  BY <1>0, <1>u DEF LockShape
<1>r. ASSUME iLock' = Free, iRun'.pc # "told", iClear'.pc # "told" PROVE LockShape'
  BY <1>f, <1>r DEF LockShape
<1>2. CASE ImportStep
  <2>1. iRun.pc # "told" /\ iRun'.pc # "told" /\ UNCHANGED <<iClear, iCache>>
    BY <1>0, <1>2, ImportDoes
  <2>2. QED
    BY <1>u, <2>1 DEF iCache
<1>3. CASE ClearStep
  <2>1. iClear.pc # "told" /\ iClear'.pc # "told" /\ UNCHANGED <<iRun, iCache>>
    BY <1>0, <1>3, ClearDoes
  <2>2. QED
    BY <1>u, <2>1 DEF iCache
<1>4. CASE \E f \in Visitors : Enter(f) \/ Depart(f)
  BY <1>u, <1>4 DEF Enter, Depart
<1>5. CASE CollectEvents
  <2> DEFINE n == CollectViews
             wanted == n.wanted \ DOMAIN n.entries
             row == [who |-> "loop", pc |-> "read", wanted |-> wanted, views |-> <<>>]
  <2>1. n \in Heard /\ DOMAIN n.entries \subseteq DOMAIN iEntries
    BY <1>0, CollectDoes
  <2>2. /\ iEntries' = n.entries /\ UNCHANGED <<iRun, iClear>> /\ iLock.pc = "free"
        /\ iLock' = IF wanted = {} THEN Free ELSE row
    BY <1>5 DEF CollectEvents
  <2>3. iRun.pc # "told" /\ iClear.pc # "told"
    BY <1>0, <2>2 DEF LockShape
  <2> HIDE DEF n
  <2>4. wanted \subseteq Visitors /\ wanted \cap DOMAIN iEntries' = {}
    BY <2>1, <2>2 DEF Heard
  <2> HIDE DEF wanted
  <2>5. CASE wanted = {}
    BY <1>r, <2>2, <2>3, <2>5
  <2>6. CASE wanted # {}
    <3>1. iLock' = row /\ row \in Lock
      BY <1>1, <2>2, <2>4, <2>6 DEF Holders
    <3>2. iLock'.who = "loop" /\ iLock'.pc = "read" /\ iLock'.wanted = wanted /\ DOMAIN iLock'.views = {}
      BY <1>1, <3>1
    <3>3. QED
      BY <2>2, <2>3, <2>4, <3>1, <3>2 DEF LockShape
  <2>7. QED
    BY <2>5, <2>6
<1>6. CASE \E who \in {"import", "clear"} : Invalidate(who)
  <2> PICK who \in {"import", "clear"} : Invalidate(who)
    BY <1>6
  <2> DEFINE row == [who |-> who, pc |-> "counts", wanted |-> {}, views |-> <<>>]
  <2>1. iLock' = row /\ iLock.pc = "free" /\ iEntries' = <<>>
    BY DEF Invalidate, Free
  <2>2. row \in Lock /\ iLock'.who = who /\ iLock'.pc = "counts" /\ iLock'.wanted = {} /\ DOMAIN iLock'.views = {}
    BY <1>1, <2>1 DEF Holders
  <2>3. iRun.pc # "told" /\ iClear.pc # "told"
    BY <1>0, <2>1 DEF LockShape
  <2>4. /\ who = "import" => iRun'.pc = "told" /\ iClear' = iClear
        /\ who = "clear" => iClear'.pc = "told" /\ iRun' = iRun
    BY <1>0 DEF Invalidate, TaskShape, RunShape, Run
  <2>5. DOMAIN iEntries' = {}
    BY <1>1, <2>1
  <2> HIDE DEF row
  <2>6. QED
    BY <2>1, <2>2, <2>3, <2>4, <2>5 DEF LockShape
<1>7. CASE ReadCounts
  <2>1. CASE iLive = {}
    BY <1>0, <1>r, <1>7, <2>1, ReleaseDoes DEF ReadCounts
  <2>2. CASE iLive # {}
    <3>1. /\ iLock' = [iLock EXCEPT !.pc = "read", !.wanted = iLive] /\ UNCHANGED <<iRun, iClear, iEntries>> /\ iLock.pc = "counts"
      BY <1>7, <2>2 DEF ReadCounts
    <3>2. iLock' \in Lock /\ iLock'.who = iLock.who /\ iLock'.pc = "read" /\ iLock'.wanted = iLive /\ iLock'.views = iLock.views
      BY <1>0, <3>1
    <3>3. QED
      BY <1>0, <3>1, <3>2 DEF LockShape
  <2>3. QED
    BY <2>1, <2>2
<1>8. CASE ReadViews
  <2> DEFINE views == [f \in iLock.wanted |-> iResolved[f]]
  <2>1. /\ iLock' = [iLock EXCEPT !.pc = "install", !.views = views] /\ UNCHANGED <<iRun, iClear, iEntries>> /\ iLock.pc = "read"
    BY <1>8 DEF ReadViews
  <2>2. views \in HeldViews /\ DOMAIN views = iLock.wanted
    <3>1. iLock.wanted \subseteq Visitors
      BY <1>0
    <3>2. views \in [iLock.wanted -> View]
      BY <1>0, <3>1
    <3>3. QED
      BY <3>1, <3>2 DEF HeldViews
  <2> HIDE DEF views
  <2>3. iLock' \in Lock /\ iLock'.who = iLock.who /\ iLock'.pc = "install" /\ iLock'.wanted = iLock.wanted /\ iLock'.views = views
    BY <1>0, <2>1, <2>2
  <2>4. QED
    BY <1>0, <2>1, <2>2, <2>3 DEF LockShape
<1>9. CASE InstallViews
  BY <1>0, <1>r, <1>9, ReleaseDoes DEF InstallViews
<1>10. CASE PopulateFails
  BY <1>0, <1>r, <1>10, ReleaseDoes DEF PopulateFails
<1>11. CASE RestartMetadata
  BY <1>r, <1>11 DEF RestartMetadata, NoRun, NotClearing
<1>12. CASE UNCHANGED iVars
  BY <1>u, <1>12 DEF iVars
<1>13. QED
  BY <1>2, <1>3, <1>4, <1>5, <1>6, <1>7, <1>8, <1>9, <1>10, <1>11, <1>12 DEF MetadataNext, ImportStep, ClearStep

\* What a step of the cache leaves alone.
LEMMA CacheMoves ==
  ASSUME RunShape,
         \/ (\E f \in Visitors : Enter(f) \/ Depart(f))
         \/ CollectEvents \/ (\E who \in {"import", "clear"} : Invalidate(who))
         \/ ReadCounts \/ ReadViews \/ InstallViews \/ PopulateFails \/ UNCHANGED iVars
  PROVE  UNCHANGED <<iTables, iMet, iTorn>> /\ (iRun' = iRun \/ iRun'.pc \in {"idle", "told"})
<1>1. ASSUME \E f \in Visitors : Enter(f) \/ Depart(f)
      PROVE  UNCHANGED <<iTables, iMet, iTorn, iRun>>
  BY <1>1 DEF Enter, Depart
<1>2. ASSUME CollectEvents \/ ReadViews \/ UNCHANGED iVars
      PROVE  UNCHANGED <<iTables, iMet, iTorn, iRun>>
  BY <1>2 DEF CollectEvents, ReadViews, iVars, iTables
<1>3. ASSUME NEW who \in {"import", "clear"}, Invalidate(who)
      PROVE  UNCHANGED <<iTables, iMet, iTorn>> /\ (iRun' = iRun \/ iRun'.pc = "told")
  BY <1>3 DEF Invalidate, RunShape, Run
<1>4. ASSUME Release PROVE iRun' = iRun \/ iRun'.pc = "idle"
  BY <1>4 DEF Release, NoRun
<1>5. ASSUME InstallViews \/ PopulateFails \/ ReadCounts
      PROVE  UNCHANGED <<iTables, iMet, iTorn>> /\ (iRun' = iRun \/ iRun'.pc = "idle")
  BY <1>4, <1>5 DEF InstallViews, PopulateFails, ReadCounts
<1>6. QED
  BY <1>1, <1>2, <1>3, <1>5

\* What is promoted is what was staged, and the status row names it.
LEMMA NoteStep ==
  ASSUME MetadataShape, NoteInv, BlankInv, ImportStagedInv, [MetadataNext]_iVars
  PROVE  NoteInv' /\ ImportStagedInv'
<1>0. /\ TaskShape /\ RunShape /\ TableShape /\ iMet \in BOOLEAN
      /\ iInstalled \in [Sources -> Versions \cup {0}] /\ iStaged \in [Sources -> Versions \cup {0}]
      /\ iNote \in [Sources -> [status : {"never_run", "ok", "failed"}, version : Versions \cup {0}]]
      /\ OwnTable \subseteq Sources /\ iTorn \subseteq OwnTable
  BY MetadataConstants DEF MetadataShape, TaskShape, TableShape
<1>u. ASSUME UNCHANGED <<iInstalled, iNote, iMet, iTorn>> PROVE NoteInv'
  BY <1>u DEF NoteInv
<1>s. ASSUME UNCHANGED <<iStaged, iMet, iRun>> PROVE ImportStagedInv'
  BY <1>s DEF ImportStagedInv, Source
<1>i. ASSUME iRun'.pc \notin {"count", "build", "promote"} PROVE ImportStagedInv'
  BY <1>i DEF ImportStagedInv
<1>n. ASSUME NEW run \in Run, run.left = {}, iRun' = NextSource(run) PROVE ImportStagedInv'
  BY <1>i, <1>n, NextSourceIs
<1>1. CASE StartImport
  <2>1. NoRun \in Run /\ NoRun.left = {} /\ iRun' = NextSource(NoRun)
    BY <1>1, MetadataConstants DEF NoRun, Run, RunPc, StartImport
  <2>2. QED
    BY <1>1, <1>u, <1>n, <2>1 DEF StartImport, iTables
<1>2. CASE Attempt
  BY <1>0, <1>2, <1>u, <1>i DEF Attempt, iTables, RunShape, Run
<1>3. CASE DownloadSource
  <2>1. iRun'.pc \in {"stage", "fail"}
    BY <1>0, <1>3 DEF DownloadSource, RunShape, Run
  <2>2. QED
    BY <1>3, <1>u, <1>i, <2>1 DEF DownloadSource, iTables
<1>4. CASE StageRows
  <2>1. Source \in Sources
    BY <1>0, <1>4, SourceIsOne DEF StageRows, Staging
  <2>2. iRun'.pc = "count" /\ iRun'.version = iRun.version /\ Source' = Source
    BY <1>0, <1>4 DEF StageRows, RunShape, Run, Source
  <2>3. iStaged'[Source] = iRun.version
    BY <1>0, <1>4, <2>1 DEF StageRows
  <2>4. ImportStagedInv'
    BY <2>2, <2>3 DEF ImportStagedInv
  <2>5. QED
    BY <1>4, <1>u, <2>4 DEF StageRows
<1>5. CASE \E usable \in BOOLEAN : CountStaged(usable)
  <2> PICK usable \in BOOLEAN : CountStaged(usable)
    BY <1>5
  <2>1. /\ iRun.pc = "count" /\ iStaged' = iStaged /\ iMet' = iMet
        /\ iRun'.pc \in {"fail", "promote", "build"} /\ iRun'.at = iRun.at /\ iRun'.version = iRun.version
        /\ iRun'.pc # "fail" => iStaged[Source] # 0
    BY <1>0 DEF CountStaged, RunShape, Run
  <2>2. ImportStagedInv'
    BY <2>1 DEF ImportStagedInv, Source
  <2>3. QED
    BY <1>u, <2>2 DEF CountStaged
<1>6. CASE \E f \in Airframes : BuildPage(f)
  <2> PICK f \in Airframes : BuildPage(f)
    BY <1>6
  <2>1. /\ iRun.pc = "build" /\ iStaged' = iStaged /\ iMet' = iMet
        /\ iRun'.pc \in {"promote", "build"} /\ iRun'.at = iRun.at /\ iRun'.version = iRun.version
    BY <1>0 DEF BuildPage, RunShape, Run
  <2>2. ImportStagedInv'
    BY <2>1 DEF ImportStagedInv, Source
  <2>3. QED
    BY <1>u, <2>2 DEF BuildPage
<1>7. CASE Promote
  <2> DEFINE run == [iRun EXCEPT !.changed = TRUE]
  <2>1. iRun' = NextSource(run) /\ iRun.pc = "promote"
    BY <1>7 DEF Promote
  <2>2. run \in Run /\ run.left = {}
    BY <1>0, <2>1 DEF RunShape, Run
  <2> HIDE DEF run
  <2>3. ImportStagedInv'
    BY <1>n, <2>1, <2>2
  <2>4. Source \in Sources
    BY <1>0, <2>1, SourceIsOne DEF Staging
  <2>5. ~iMet => iStaged[Source] = iRun.version /\ iRun.version # 0
    BY <1>0, <2>1 DEF ImportStagedInv, RunShape
  <2>6. ~iMet' => ~iMet
    BY <1>7 DEF Promote
  <2>7. ASSUME ~iMet', NEW s \in Sources \ iTorn'
        PROVE  iNote'[s].version = iInstalled'[s] /\ (iNote'[s].status = "ok" => iInstalled'[s] # 0)
    <3>1. CASE s = Source
      <4>1. iNote'[s] = [status |-> "ok", version |-> iRun.version] /\ iInstalled'[s] = iStaged[Source]
        BY <1>0, <1>7, <2>4, <3>1 DEF Promote
      <4>2. QED
        BY <2>5, <2>6, <2>7, <4>1
    <3>2. CASE s # Source
      <4>1. iNote'[s] = iNote[s] /\ iInstalled'[s] = iInstalled[s] /\ s \in Sources \ iTorn
        BY <1>0, <1>7, <3>2, <2>7 DEF Promote
      <4>2. QED
        BY <2>6, <2>7, <4>1 DEF NoteInv
    <3>3. QED
      BY <3>1, <3>2
  <2>8. QED
    BY <2>3, <2>7 DEF NoteInv
<1>8. CASE ImportFails
  BY <1>0, <1>8, <1>u, <1>i DEF ImportFails, iTables, RunShape, Run
<1>9. CASE RecordFailure
  <2>1. iRun' = NextSource(iRun) /\ iRun \in Run /\ iRun.left = {} /\ iRun.pc = "fail"
    BY <1>0, <1>9 DEF RecordFailure, RunShape
  <2>2. ImportStagedInv'
    BY <1>n, <2>1
  <2>3. ASSUME NEW s \in Sources
        PROVE  iNote'[s].version = iNote[s].version /\ (iNote'[s].status = "ok" => iNote[s].status = "ok")
    BY <1>0, <1>9 DEF RecordFailure, Failed
  <2>4. QED
    BY <1>9, <2>2, <2>3 DEF RecordFailure, NoteInv
<1>10. CASE RunRaises
  BY <1>10, <1>u, <1>i DEF RunRaises, iTables, NoRun
<1>11. CASE ClearTables
  <2>1. ASSUME NEW s \in Sources \ iTorn'
        PROVE  iInstalled'[s] = 0 /\ iNote'[s].version = 0 /\ iNote'[s].status = "never_run"
    BY <1>0, <1>11, <2>1 DEF ClearTables
  <2>2. NoteInv'
    BY <2>1 DEF NoteInv
  <2>3. iRun' = iRun /\ (~iMet' => iRun.pc \notin {"build", "promote"}) /\ iMet' \in BOOLEAN
    BY <1>0, <1>11 DEF ClearTables
  <2>4. iRun.pc = "count" => Source \in Sources
    BY <1>0, SourceIsOne DEF Staging
  <2>5. iRun.pc = "count" => iStaged'[Source] \in {0, iStaged[Source]}
    BY <1>0, <1>11, <2>4 DEF ClearTables
  <2>6. Source' = Source
    BY <2>3 DEF Source
  <2>7. ImportStagedInv'
    BY <2>3, <2>5, <2>6 DEF ImportStagedInv
  <2>8. QED
    BY <2>2, <2>7
<1>12. CASE ClearOther
  <2> PICK t \in iClear.left : iInstalled' = [iInstalled EXCEPT ![t] = 0] /\ iTorn' = iTorn \ {t}
    BY <1>12 DEF ClearOther
  <2>1. UNCHANGED <<iStaged, iNote, iRun, iMet>> /\ iClear.pc = "others"
    BY <1>12 DEF ClearOther
  <2>2. ASSUME ~iMet, NEW s \in Sources \ iTorn'
        PROVE  iNote'[s].version = iInstalled'[s] /\ (iNote'[s].status = "ok" => iInstalled'[s] # 0)
    <3>1. CASE s = t
      <4>1. iInstalled'[s] = 0 /\ iNote'[s].version = 0 /\ iNote'[s].status # "ok"
        BY <1>0, <2>1, <2>2, <3>1 DEF BlankInv
      <4>2. QED
        BY <4>1
    <3>2. CASE s # t
      <4>1. iInstalled'[s] = iInstalled[s] /\ iNote' = iNote /\ s \in Sources \ iTorn
        BY <1>0, <2>1, <2>2, <3>2
      <4>2. QED
        BY <2>2, <4>1 DEF NoteInv
    <3>3. QED
      BY <3>1, <3>2
  <2>3. QED
    BY <1>s, <2>1, <2>2 DEF NoteInv
<1>13. CASE ClearFails
  BY <1>13, <1>u, <1>s DEF ClearFails, iTables
<1>14. CASE RestartMetadata
  BY <1>14, <1>u, <1>i DEF RestartMetadata, NoRun
<1>15. CASE UNCHANGED <<iTables, iMet, iTorn>> /\ (iRun' = iRun \/ iRun'.pc \in {"idle", "told"})
  BY <1>15, <1>u, <1>s, <1>i DEF iTables
<1>16. ASSUME NEW usable \in BOOLEAN, CountStaged(usable) PROVE ImportStagedInv' /\ NoteInv'
  BY <1>5, <1>16
<1>17. ASSUME NEW f \in Airframes, BuildPage(f) PROVE ImportStagedInv' /\ NoteInv'
  BY <1>6, <1>17
<1>18. ASSUME \/ (\E f \in Visitors : Enter(f) \/ Depart(f))
              \/ CollectEvents \/ (\E who \in {"import", "clear"} : Invalidate(who))
              \/ ReadCounts \/ ReadViews \/ InstallViews \/ PopulateFails \/ UNCHANGED iVars
       PROVE  ImportStagedInv' /\ NoteInv'
  <2>1. UNCHANGED <<iTables, iMet, iTorn>> /\ (iRun' = iRun \/ iRun'.pc \in {"idle", "told"})
    BY <1>0, <1>18, CacheMoves
  <2>2. QED
    BY <1>15, <2>1
<1>19. QED
  BY <1>1, <1>2, <1>3, <1>4, <1>7, <1>8, <1>9, <1>10, <1>11, <1>12, <1>13, <1>14, <1>16, <1>17, <1>18 DEF MetadataNext

\* While a clear is under way no source has a version to its name.
LEMMA BlankStep ==
  ASSUME MetadataShape, BlankInv, [MetadataNext]_iVars
  PROVE  BlankInv'
<1>0. /\ TaskShape /\ LockShape /\ iMet \in BOOLEAN
      /\ iNote \in [Sources -> [status : {"never_run", "ok", "failed"}, version : Versions \cup {0}]]
  BY DEF MetadataShape, TaskShape, TableShape
<1>u. ASSUME UNCHANGED <<iNote, iMet>>, iClear'.pc = "others" => iClear.pc = "others" PROVE BlankInv'
  BY <1>u DEF BlankInv
<1>1. CASE Promote
  BY <1>0, <1>1 DEF Promote, BlankInv
<1>2. CASE RecordFailure
  <2>1. ASSUME NEW s \in Sources
        PROVE  iNote'[s].version = iNote[s].version /\ (iNote'[s].status = "ok" => iNote[s].status = "ok")
    BY <1>0, <1>2 DEF RecordFailure, Failed
  <2>2. QED
    BY <1>2, <2>1 DEF RecordFailure, BlankInv
<1>3. CASE ClearTables
  BY <1>3 DEF ClearTables, BlankInv
<1>4. CASE ClearOther
  BY <1>4, <1>u DEF ClearOther
<1>5. CASE ClearFails
  BY <1>5, <1>u DEF ClearFails, NotClearing, iTables
<1>6. CASE RestartMetadata
  BY <1>6, <1>u DEF RestartMetadata, NotClearing
<1>7. CASE StartImport \/ Attempt \/ DownloadSource \/ StageRows \/ ImportFails \/ RunRaises
  BY <1>7, <1>u DEF StartImport, Attempt, DownloadSource, StageRows, ImportFails, RunRaises, iTables
<1>8. CASE (\E usable \in BOOLEAN : CountStaged(usable)) \/ (\E f \in Airframes : BuildPage(f))
  BY <1>8, <1>u DEF CountStaged, BuildPage
<1>9. CASE (\E f \in Visitors : Enter(f) \/ Depart(f)) \/ CollectEvents \/ ReadViews \/ UNCHANGED iVars
  BY <1>9, <1>u DEF Enter, Depart, CollectEvents, ReadViews, iVars, iTables
<1>10. ASSUME NEW who \in {"import", "clear"}, Invalidate(who) PROVE BlankInv'
  <2>1. iClear' = iClear \/ iClear'.pc = "told"
    BY <1>0, <1>10 DEF Invalidate, TaskShape
  <2>2. QED
    BY <1>10, <1>u, <2>1 DEF Invalidate, iTables
<1>11. CASE ReadCounts \/ InstallViews \/ PopulateFails
  <2>1. ASSUME Release PROVE iClear' = iClear \/ iClear'.pc = "idle"
    BY <2>1 DEF Release, NotClearing
  <2>2. QED
    BY <1>11, <1>u, <2>1 DEF ReadCounts, InstallViews, PopulateFails, iTables
<1>12. QED
  BY <1>1, <1>2, <1>3, <1>4, <1>5, <1>6, <1>7, <1>8, <1>9, <1>10, <1>11 DEF MetadataNext

\* Nothing is claimed when no source with rows of its airframes is installed.
LEMMA NothingInstalled ==
  ASSUME NEW f \in Airframes, NEW versions \in [Sources -> Versions \cup {0}],
         \A s \in Sources \ OwnTable : versions[s] = 0
  PROVE  ResolveFrame(f, versions) = Nothing
<1>1. \A name \in Fields : Winner(name, f, versions) = NoSource
  BY WinnerIsBest DEF Claims
<1>2. QED
  BY <1>1 DEF ResolveFrame, Nothing

\* The rows in force resolve what is installed: those a run promotes were built from what it installs.
LEMMA ResolvedStep ==
  ASSUME MetadataShape, ImportStagedInv, ResolvedInv, ScratchInv, [MetadataNext]_iVars
  PROVE  ResolvedInv' /\ ScratchInv'
<1>0. /\ TaskShape /\ RunShape /\ TableShape /\ iMet \in BOOLEAN
      /\ iInstalled \in [Sources -> Versions \cup {0}] /\ iStaged \in [Sources -> Versions \cup {0}]
      /\ iScratch \in [Airframes -> View] /\ iResolved \in [Airframes -> View]
      /\ OwnTable \subseteq Sources
  BY MetadataConstants DEF MetadataShape, TaskShape, TableShape
<1>t. iInstalled' \in [Sources -> Versions \cup {0}] /\ iStaged' \in [Sources -> Versions \cup {0}]
  BY TableStep DEF TableShape
<1>u. ASSUME UNCHANGED <<iInstalled, iResolved, iMet>> PROVE ResolvedInv'
  BY <1>u DEF ResolvedInv
<1>s. ASSUME UNCHANGED <<iInstalled, iStaged, iScratch, iMet, iRun>> PROVE ScratchInv'
  BY <1>s DEF ScratchInv, Source, ClaimsFor
<1>i. ASSUME iRun'.pc \notin {"build", "promote"} PROVE ScratchInv'
  BY <1>i DEF ScratchInv
<1>n. ASSUME NEW run \in Run, run.left = {}, iRun' = NextSource(run) PROVE ScratchInv'
  BY <1>i, <1>n, NextSourceIs
<1>c. ASSUME NEW s \in Sources PROVE ClaimsFor(s) \in [Sources -> Versions \cup {0}]
  BY <1>0 DEF ClaimsFor
<1>1. CASE StartImport
  <2>1. NoRun \in Run /\ NoRun.left = {} /\ iRun' = NextSource(NoRun)
    BY <1>1, MetadataConstants DEF NoRun, Run, RunPc, StartImport
  <2>2. QED
    BY <1>1, <1>u, <1>n, <2>1 DEF StartImport, iTables
<1>2. CASE Attempt
  BY <1>0, <1>2, <1>u, <1>i DEF Attempt, iTables, RunShape, Run
<1>3. CASE DownloadSource
  <2>1. iRun'.pc \in {"stage", "fail"}
    BY <1>0, <1>3 DEF DownloadSource, RunShape, Run
  <2>2. QED
    BY <1>3, <1>u, <1>i, <2>1 DEF DownloadSource, iTables
<1>4. CASE StageRows
  BY <1>0, <1>4, <1>u, <1>i DEF StageRows, RunShape, Run
<1>5. CASE \E usable \in BOOLEAN : CountStaged(usable)
  <2> PICK usable \in BOOLEAN : CountStaged(usable)
    BY <1>5
  <2>1. /\ iRun'.pc \in {"fail", "promote", "build"} /\ Source' = Source
        /\ iRun'.pc = "promote" => Source \in OwnTable
        /\ iRun'.pc = "build" => iRun'.left = Airframes
    BY <1>0 DEF CountStaged, RunShape, Run, Source
  <2>2. ScratchInv'
    BY <2>1 DEF ScratchInv
  <2>3. QED
    BY <1>u, <2>2 DEF CountStaged
<1>6. CASE \E f \in Airframes : BuildPage(f)
  <2> PICK f \in Airframes : BuildPage(f)
    BY <1>6
  <2>1. /\ iRun.pc = "build" /\ UNCHANGED <<iInstalled, iStaged, iResolved, iMet>>
        /\ iScratch' = [iScratch EXCEPT ![f] = ResolveFrame(f, ClaimsFor(Source))]
        /\ iRun'.left = iRun.left \ {f} /\ iRun'.at = iRun.at
    BY <1>0 DEF BuildPage, RunShape, Run
  <2>2. Source' = Source /\ ClaimsFor(Source)' = ClaimsFor(Source)
    BY <2>1 DEF Source, ClaimsFor
  <2>3. ASSUME ~iMet, Source \notin OwnTable, NEW x \in Airframes \ iRun'.left
        PROVE  iScratch'[x] = ResolveFrame(x, ClaimsFor(Source))
    <3>1. CASE x = f
      BY <1>0, <2>1, <3>1
    <3>2. CASE x # f
      <4>1. iScratch'[x] = iScratch[x] /\ x \in Airframes \ iRun.left
        BY <1>0, <2>1, <2>3, <3>2
      <4>2. QED
        BY <2>1, <2>3, <4>1 DEF ScratchInv
    <3>3. QED
      BY <3>1, <3>2
  <2> DEFINE claims == ClaimsFor(Source)
  <2> HIDE DEF claims
  <2>4. ScratchInv'
    <3>1. ASSUME ~iMet', Source' \notin OwnTable, NEW x \in Airframes \ iRun'.left
          PROVE  iScratch'[x] = ResolveFrame(x, ClaimsFor(Source)')
      BY <2>1, <2>2, <2>3, <3>1
    <3>2. \A x \in Airframes : ResolveFrame(x, ClaimsFor(Source))' = ResolveFrame(x, ClaimsFor(Source)')
      BY DEF ResolveFrame
    <3>3. QED
      BY <3>1, <3>2 DEF ScratchInv
  <2>5. QED
    BY <1>u, <2>1, <2>4
<1>7. CASE Promote
  <2> DEFINE run == [iRun EXCEPT !.changed = TRUE]
  <2>1. iRun' = NextSource(run) /\ iRun.pc = "promote"
    BY <1>7 DEF Promote
  <2>2. run \in Run /\ run.left = {} /\ iRun.left = {}
    BY <1>0, <2>1 DEF RunShape, Run
  <2> HIDE DEF run
  <2>3. ScratchInv'
    BY <1>n, <2>1, <2>2
  <2>4. Source \in Sources
    BY <1>0, <2>1, SourceIsOne DEF Staging
  <2>5. ~iMet' => ~iMet
    BY <1>7 DEF Promote
  <2>6. iInstalled' = ClaimsFor(Source)
    BY <1>7 DEF Promote, ClaimsFor
  <2>7. ASSUME ~iMet, NEW f \in Airframes PROVE iResolved'[f] = ResolveFrame(f, iInstalled')
    <3>1. CASE Source \in OwnTable
      <4>1. iResolved' = iResolved
        BY <1>7, <3>1 DEF Promote
      <4>2. \A s \in Sources \ OwnTable : iInstalled'[s] = iInstalled[s]
        BY <1>0, <2>6, <3>1 DEF ClaimsFor
      <4>3. ResolveFrame(f, iInstalled') = ResolveFrame(f, iInstalled)
        BY <1>0, <1>t, <4>2, ResolveSame
      <4>4. QED
        BY <2>7, <4>1, <4>3 DEF ResolvedInv
    <3>2. CASE Source \notin OwnTable
      <4>1. iResolved' = iScratch
        BY <1>7, <3>2 DEF Promote
      <4>2. iScratch[f] = ResolveFrame(f, ClaimsFor(Source))
        BY <2>1, <2>2, <2>7, <3>2 DEF ScratchInv
      <4>3. QED
        BY <2>6, <4>1, <4>2
    <3>3. QED
      BY <3>1, <3>2
  <2>8. ResolvedInv'
    <3>1. \A f \in Airframes : ResolveFrame(f, iInstalled)' = ResolveFrame(f, iInstalled')
      BY DEF ResolveFrame
    <3>2. QED
      BY <2>5, <2>7, <3>1 DEF ResolvedInv
  <2>9. QED
    BY <2>3, <2>8
<1>8. CASE ImportFails
  BY <1>0, <1>8, <1>u, <1>i DEF ImportFails, iTables, RunShape, Run
<1>9. CASE RecordFailure
  <2>1. iRun' = NextSource(iRun) /\ iRun \in Run /\ iRun.left = {}
    BY <1>0, <1>9 DEF RecordFailure, RunShape
  <2>2. QED
    BY <1>9, <1>u, <1>n, <2>1 DEF RecordFailure
<1>10. CASE RunRaises
  BY <1>10, <1>u, <1>i DEF RunRaises, iTables, NoRun
<1>11. CASE ClearTables
  <2>1. \A s \in Sources \ OwnTable : iInstalled'[s] = 0
    BY <1>11 DEF ClearTables
  <2>2. ASSUME NEW f \in Airframes PROVE iResolved'[f] = ResolveFrame(f, iInstalled')
    <3>1. ResolveFrame(f, iInstalled') = Nothing
      BY <1>t, <2>1, NothingInstalled
    <3>2. QED
      BY <1>11, <3>1 DEF ClearTables
  <2>3. \A f \in Airframes : ResolveFrame(f, iInstalled)' = ResolveFrame(f, iInstalled')
    BY DEF ResolveFrame
  <2>4. ResolvedInv'
    BY <2>2, <2>3 DEF ResolvedInv
  <2>5. iRun' = iRun /\ (~iMet' => iRun.pc \notin {"build", "promote"})
    BY <1>0, <1>11 DEF ClearTables
  <2>6. ScratchInv'
    BY <2>5 DEF ScratchInv
  <2>7. QED
    BY <2>4, <2>6
<1>12. CASE ClearOther
  <2> PICK t \in iClear.left : iInstalled' = [iInstalled EXCEPT ![t] = 0] /\ iTorn' = iTorn \ {t}
    BY <1>12 DEF ClearOther
  <2>1. UNCHANGED <<iStaged, iScratch, iResolved, iRun, iMet>> /\ t \in OwnTable
    BY <1>0, <1>12 DEF ClearOther, TaskShape
  <2>2. \A s \in Sources \ OwnTable : iInstalled'[s] = iInstalled[s]
    BY <1>0, <2>1
  <2>3. ASSUME NEW f \in Airframes PROVE ResolveFrame(f, iInstalled)' = ResolveFrame(f, iInstalled)
    <3>1. ResolveFrame(f, iInstalled') = ResolveFrame(f, iInstalled)
      BY <1>0, <1>t, <2>2, ResolveSame
    <3>2. QED
      BY <3>1 DEF ResolveFrame
  <2>4. ResolvedInv'
    BY <2>1, <2>3 DEF ResolvedInv
  <2>5. ASSUME ~iMet, iRun.pc \in {"build", "promote"}, Source \notin OwnTable, NEW f \in Airframes \ iRun.left
        PROVE  iScratch[f] = ResolveFrame(f, ClaimsFor(Source)')
    <3>1. Source \in Sources /\ Source' = Source
      BY <1>0, <2>1, <2>5, SourceIsOne DEF Staging, Source
    <3>2. ClaimsFor(Source)' = [iInstalled' EXCEPT ![Source] = iStaged[Source]]
      BY <2>1, <3>1 DEF ClaimsFor
    <3>3. ClaimsFor(Source)' \in [Sources -> Versions \cup {0}]
      BY <1>0, <1>t, <3>1, <3>2
    <3>4. \A s \in Sources \ OwnTable : ClaimsFor(Source)'[s] = ClaimsFor(Source)[s]
      BY <1>0, <1>t, <2>2, <3>1, <3>2 DEF ClaimsFor
    <3>5. ResolveFrame(f, ClaimsFor(Source)') = ResolveFrame(f, ClaimsFor(Source))
      <4> DEFINE a == ClaimsFor(Source)'
                 b == ClaimsFor(Source)
      <4>1. a \in [Sources -> Versions \cup {0}] /\ b \in [Sources -> Versions \cup {0}] /\ \A s \in Sources \ OwnTable : a[s] = b[s]
        BY <1>c, <3>1, <3>3, <3>4
      <4> HIDE DEF a, b
      <4>2. ResolveFrame(f, a) = ResolveFrame(f, b)
        BY <4>1, ResolveSame
      <4>3. QED
        BY <4>2 DEF a, b
    <3>6. QED
      BY <2>5, <3>5 DEF ScratchInv
  <2>6. ScratchInv'
    <3>1. \A x \in Airframes : ResolveFrame(x, ClaimsFor(Source))' = ResolveFrame(x, ClaimsFor(Source)')
      BY DEF ResolveFrame
    <3>2. Source' = Source
      BY <2>1 DEF Source
    <3>3. QED
      BY <2>1, <2>5, <3>1, <3>2 DEF ScratchInv
  <2>7. QED
    BY <2>4, <2>6
<1>13. CASE ClearFails
  BY <1>13, <1>u, <1>s DEF ClearFails, iTables
<1>14. CASE RestartMetadata
  BY <1>14, <1>u, <1>i DEF RestartMetadata, NoRun
<1>15. CASE UNCHANGED <<iTables, iMet, iTorn>> /\ (iRun' = iRun \/ iRun'.pc \in {"idle", "told"})
  BY <1>15, <1>u, <1>s, <1>i DEF iTables
<1>16. ASSUME NEW usable \in BOOLEAN, CountStaged(usable) PROVE ResolvedInv' /\ ScratchInv'
  BY <1>5, <1>16
<1>17. ASSUME NEW f \in Airframes, BuildPage(f) PROVE ResolvedInv' /\ ScratchInv'
  BY <1>6, <1>17
<1>18. ASSUME \/ (\E f \in Visitors : Enter(f) \/ Depart(f))
              \/ CollectEvents \/ (\E who \in {"import", "clear"} : Invalidate(who))
              \/ ReadCounts \/ ReadViews \/ InstallViews \/ PopulateFails \/ UNCHANGED iVars
       PROVE  ResolvedInv' /\ ScratchInv'
  <2>1. UNCHANGED <<iTables, iMet, iTorn>> /\ (iRun' = iRun \/ iRun'.pc \in {"idle", "told"})
    BY <1>0, <1>18, CacheMoves
  <2>2. QED
    BY <1>15, <2>1
<1>19. QED
  BY <1>1, <1>2, <1>3, <1>4, <1>7, <1>8, <1>9, <1>10, <1>11, <1>12, <1>13, <1>14, <1>16, <1>17, <1>18 DEF MetadataNext

\* What the cache and its observer hold is the rows in force, or a task still owes the cache an invalidation.
LEMMA CurrentStep ==
  ASSUME MetadataShape, ObserverAgrees, CurrentInv, [MetadataNext]_iVars
  PROVE  CurrentInv'
<1>0. /\ TaskShape /\ LockShape /\ CacheShape /\ iEntries \in HeldViews /\ iLock.views \in HeldViews /\ DOMAIN <<>> = {}
  BY DEF MetadataShape, LockShape, CacheShape
<1>u. ASSUME iResolved' = iResolved, ~Pending' => ~Pending,
             \A f \in DOMAIN iEntries' : f \in DOMAIN iEntries /\ iEntries'[f] = iEntries[f],
             iLock'.views = iLock.views \/ DOMAIN iLock'.views = {}
      PROVE  CurrentInv'
  BY <1>u DEF CurrentInv
<1>e. ASSUME DOMAIN iEntries' = {}, DOMAIN iLock'.views = {} PROVE CurrentInv'
  BY <1>e DEF CurrentInv
<1>p. ASSUME iUntold => iUntold', iRun' = iRun, iClear' = iClear PROVE ~Pending' => ~Pending
  BY <1>p DEF Pending
<1>r. ASSUME Release, iUntold => iUntold' PROVE (~Pending' => ~Pending) /\ DOMAIN iLock'.views = {}
  <2>1. /\ iLock' = Free
        /\ iRun.changed /\ iRun.pc # "told" => iRun' = iRun
        /\ iClear.pc \in {"others", "lock"} => iClear' = iClear
    BY <1>0, <1>r, ReleaseDoes
  <2>2. DOMAIN iLock'.views = {}
    BY <1>0, <2>1 DEF Free
  <2>3. QED
    BY <1>r, <2>1, <2>2 DEF Pending
<1>1. CASE ImportStep
  <2>1. /\ iRun'.pc # "told" /\ iClear' = iClear /\ iEntries' = iEntries /\ iLock' = iLock
        /\ (iUntold => iUntold')
        /\ iRun.changed => iRun'.changed \/ iUntold'
        /\ iResolved' # iResolved => iRun'.changed
    BY <1>0, <1>1, ImportDoes DEF iCache
  <2>2. CASE Pending'
    BY <2>2 DEF CurrentInv
  <2>3. CASE ~Pending'
    <3>1. iResolved' = iResolved /\ ~Pending
      BY <2>1, <2>3 DEF Pending
    <3>2. QED
      BY <1>u, <2>1, <3>1
  <2>4. QED
    BY <2>2, <2>3
<1>2. CASE ClearStep
  <2>1. /\ iRun' = iRun /\ iEntries' = iEntries /\ iLock' = iLock
        /\ (iUntold => iUntold')
        /\ iClear.pc \in {"others", "lock"} => iClear'.pc \in {"others", "lock"} \/ iUntold'
        /\ iResolved' # iResolved => iClear'.pc = "others"
    BY <1>0, <1>2, ClearDoes DEF iCache
  <2>2. CASE Pending'
    BY <2>2 DEF CurrentInv
  <2>3. CASE ~Pending'
    <3>1. iResolved' = iResolved /\ ~Pending
      BY <2>1, <2>3 DEF Pending
    <3>2. QED
      BY <1>u, <2>1, <3>1
  <2>4. QED
    BY <2>2, <2>3
<1>3. CASE \E f \in Visitors : Enter(f) \/ Depart(f)
  BY <1>u, <1>p, <1>3 DEF Enter, Depart, iTables
<1>4. CASE CollectEvents
  <2> DEFINE n == CollectViews
  <2>1. DOMAIN n.entries \subseteq DOMAIN iEntries /\ \A f \in DOMAIN n.entries : n.entries[f] = iEntries[f]
    BY <1>0, CollectDoes
  <2>2. /\ iEntries' = n.entries /\ UNCHANGED <<iRun, iClear, iUntold, iResolved>> /\ DOMAIN iLock'.views = {}
    BY <1>0, <1>4 DEF CollectEvents, iTables, Free
  <2> HIDE DEF n
  <2>3. QED
    BY <1>u, <1>p, <2>1, <2>2
<1>5. CASE \E who \in {"import", "clear"} : Invalidate(who)
  BY <1>0, <1>e, <1>5 DEF Invalidate, Free
<1>6. CASE ReadCounts
  <2>1. DOMAIN iEntries' = {}
    BY <1>0, <1>6 DEF ReadCounts, LockShape
  <2>2. DOMAIN iLock'.views = {}
    <3>1. CASE iLive = {}
      BY <1>0, <1>6, <3>1 DEF ReadCounts, Release, Free
    <3>2. CASE iLive # {}
      BY <1>0, <1>6, <3>2 DEF ReadCounts, LockShape
    <3>3. QED
      BY <3>1, <3>2
  <2>3. QED
    BY <1>e, <2>1, <2>2
<1>7. CASE ReadViews
  <2>1. /\ iLock'.views = [f \in iLock.wanted |-> iResolved[f]] /\ iEntries' = iEntries /\ iResolved' = iResolved
        /\ UNCHANGED <<iRun, iClear, iUntold>>
    BY <1>0, <1>7 DEF ReadViews, iTables, LockShape
  <2>2. QED
    BY <1>p, <2>1 DEF CurrentInv
<1>8. CASE InstallViews
  <2>1. /\ iEntries' = Updated(iEntries, iLock.views) /\ UNCHANGED <<iResolved, iUntold>> /\ Release
    BY <1>8 DEF InstallViews, iTables
  <2>2. (~Pending' => ~Pending) /\ DOMAIN iLock'.views = {}
    BY <1>r, <2>1
  <2>3. /\ DOMAIN iEntries' = DOMAIN iEntries \cup DOMAIN iLock.views
        /\ \A f \in DOMAIN iEntries' : iEntries'[f] = IF f \in DOMAIN iLock.views THEN iLock.views[f] ELSE iEntries[f]
    BY <1>0, <2>1, UpdatedKeeps
  <2>4. QED
    BY <2>1, <2>2, <2>3 DEF CurrentInv
<1>9. CASE PopulateFails
  <2>1. Release /\ (iUntold => iUntold') /\ iEntries' = iEntries /\ iResolved' = iResolved
    BY <1>9 DEF PopulateFails, iTables
  <2>2. QED
    BY <1>r, <1>u, <2>1
<1>10. CASE RestartMetadata
  BY <1>0, <1>e, <1>10 DEF RestartMetadata, Free
<1>11. CASE UNCHANGED iVars
  BY <1>u, <1>p, <1>11 DEF iVars
<1>12. QED
  BY <1>1, <1>2, <1>3, <1>4, <1>5, <1>6, <1>7, <1>8, <1>9, <1>10, <1>11 DEF MetadataNext, ImportStep, ClearStep

\* The observer holds what the cache holds: it is told of every batch and of every removal.
LEMMA ObserverStep ==
  ASSUME MetadataShape, ObserverAgrees, [MetadataNext]_iVars
  PROVE  ObserverAgrees'
<1>0. /\ TaskShape /\ LockShape /\ CacheShape /\ iEntries \in HeldViews /\ iTracked \in HeldViews
      /\ iLock.views \in HeldViews /\ DOMAIN <<>> = {}
  BY DEF MetadataShape, LockShape, CacheShape
<1>u. ASSUME UNCHANGED <<iEntries, iTracked>> PROVE ObserverAgrees'
  BY <1>u DEF ObserverAgrees
<1>e. ASSUME DOMAIN iEntries' = {} PROVE ObserverAgrees'
  BY <1>e DEF ObserverAgrees
<1>1. CASE ImportStep
  BY <1>0, <1>u, <1>1, ImportDoes DEF iCache
<1>2. CASE ClearStep
  BY <1>0, <1>u, <1>2, ClearDoes DEF iCache
<1>3. CASE CollectEvents
  <2> DEFINE n == CollectViews
  <2>1. Observed(n)
    BY <1>0, CollectDoes
  <2>2. iEntries' = n.entries /\ iTracked' = n.tracked
    BY <1>3 DEF CollectEvents
  <2> HIDE DEF n
  <2>3. QED
    BY <2>1, <2>2 DEF Observed, ObserverAgrees
<1>4. CASE InstallViews
  <2>1. iEntries' = Updated(iEntries, iLock.views) /\ iTracked' = Updated(iTracked, iLock.views)
    BY <1>4 DEF InstallViews
  <2>2. /\ DOMAIN iEntries' = DOMAIN iEntries \cup DOMAIN iLock.views
        /\ \A f \in DOMAIN iEntries' : iEntries'[f] = IF f \in DOMAIN iLock.views THEN iLock.views[f] ELSE iEntries[f]
    BY <2>1 DEF Updated
  <2>3. /\ DOMAIN iTracked' = DOMAIN iTracked \cup DOMAIN iLock.views
        /\ \A f \in DOMAIN iTracked' : iTracked'[f] = IF f \in DOMAIN iLock.views THEN iLock.views[f] ELSE iTracked[f]
    BY <2>1 DEF Updated
  <2>4. QED
    BY <2>2, <2>3 DEF ObserverAgrees
<1>5. CASE (\E who \in {"import", "clear"} : Invalidate(who)) \/ RestartMetadata
  BY <1>0, <1>e, <1>5 DEF Invalidate, RestartMetadata
<1>6. CASE (\E f \in Visitors : Enter(f) \/ Depart(f)) \/ ReadCounts \/ ReadViews \/ PopulateFails \/ UNCHANGED iVars
  BY <1>u, <1>6 DEF Enter, Depart, ReadCounts, ReadViews, PopulateFails, iVars
<1>7. QED
  BY <1>1, <1>2, <1>3, <1>4, <1>5, <1>6 DEF MetadataNext, ImportStep, ClearStep

\* What was the last event of an airframe stays it when another one's is queued.
Extends(p, q, e, x) ==
  /\ \A j \in 1 .. Len(p) : LastOf(p, Len(p), x, j) =>
       \/ x = e.frame /\ p[j] = e
       \/ x # e.frame /\ j \in 1 .. Len(q) /\ LastOf(q, Len(q), x, j) /\ p[j] = q[j]
  /\ NoneOf(p, Len(p), x) => x # e.frame /\ NoneOf(q, Len(q), x)

\* What the last event of a frame is, once one more event was delivered to the cache's queue.
LEMMA AppendLast ==
  ASSUME NEW q \in Seq(ViewEvent), NEW e \in ViewEvent, NEW x, NEW p, p = Append(q, e)
  PROVE  Extends(p, q, e, x)
<1>1. Len(p) = Len(q) + 1 /\ Len(q) \in Nat /\ p[Len(q) + 1] = e /\ \A k \in 1 .. Len(q) : p[k] = q[k]
  OBVIOUS
<1>2. ASSUME NEW j \in 1 .. Len(p), LastOf(p, Len(p), x, j)
      PROVE  \/ x = e.frame /\ p[j] = e
             \/ x # e.frame /\ j \in 1 .. Len(q) /\ LastOf(q, Len(q), x, j) /\ p[j] = q[j]
  <2>1. CASE j = Len(q) + 1
    BY <1>1, <1>2, <2>1 DEF LastOf
  <2>2. CASE j # Len(q) + 1
    <3>1. j \in 1 .. Len(q) /\ Len(q) + 1 \in j + 1 .. Len(p)
      BY <1>1, <2>2
    <3>2. x # e.frame
      BY <1>1, <1>2, <3>1 DEF LastOf
    <3>3. \A k \in j + 1 .. Len(q) : k \in j + 1 .. Len(p) /\ p[k] = q[k]
      BY <1>1, <3>1
    <3>4. LastOf(q, Len(q), x, j)
      BY <1>1, <1>2, <3>1, <3>3 DEF LastOf
    <3>5. QED
      BY <1>1, <3>1, <3>2, <3>4
  <2>3. QED
    BY <2>1, <2>2
<1>3. ASSUME NoneOf(p, Len(p), x) PROVE x # e.frame /\ NoneOf(q, Len(q), x)
  <2>1. Len(q) + 1 \in 1 .. Len(p) /\ \A k \in 1 .. Len(q) : k \in 1 .. Len(p) /\ p[k] = q[k]
    BY <1>1
  <2>2. QED
    BY <1>1, <1>3, <2>1 DEF NoneOf
<1>4. QED
  BY <1>2, <1>3 DEF Extends

\* The parts of what the cache's members are.
LastInv == \A f \in Visitors, j \in 1 .. Len(iSub.queue) :
             LastOf(iSub.queue, Len(iSub.queue), f, j) => (iSub.queue[j].kind = "appeared" <=> f \in iLive)
KnownInv == ~iUntold /\ iLock.pc # "counts" =>
              \A f \in Visitors : NoneOf(iSub.queue, Len(iSub.queue), f) => (f \in iLive <=> f \in Known)
MissedInv == iMissed \cap (DOMAIN iEntries \cup iLock.wanted) = {}

\* The live set stays what the cache knows with the queued events applied, unless it shed some.
LEMMA MembersStep ==
  ASSUME MetadataShape, ObserverAgrees, MembersInv, [MetadataNext]_iVars
  PROVE  MembersInv'
<1>0. /\ TaskShape /\ LockShape /\ CacheShape /\ DOMAIN <<>> = {} /\ iUntold \in BOOLEAN
      /\ iMissed \subseteq iLive /\ iLive \subseteq Visitors /\ iSub.queue \in Seq(ViewEvent)
      /\ iEntries \in HeldViews /\ iLock.views \in HeldViews
  BY DEF MetadataShape, TaskShape, CacheShape, LockShape
<1>i. (~iSub.overflowed => LastInv /\ KnownInv) /\ MissedInv
  BY DEF MembersInv, LastInv, KnownInv, MissedInv
<1>m. ASSUME (~iSub.overflowed)' => LastInv' /\ KnownInv', MissedInv' PROVE MembersInv'
  BY <1>m DEF MembersInv, LastInv, KnownInv, MissedInv
<1>s. ASSUME UNCHANGED <<iSub, iLive>>,
             ~iSub.overflowed /\ KnownInv => KnownInv', MissedInv'
      PROVE  MembersInv'
  <2>1. LastInv => LastInv'
    BY <1>s DEF LastInv
  <2>2. QED
    BY <1>i, <1>m, <1>s, <2>1
<1>u. ASSUME iCache' = iCache, iUntold => iUntold' PROVE MembersInv'
  <2>1. KnownInv => KnownInv'
    BY <1>u DEF KnownInv, iCache, Known
  <2>2. MissedInv'
    BY <1>i, <1>u DEF MissedInv, iCache
  <2>3. QED
    BY <1>s, <1>u, <2>1, <2>2 DEF iCache
<1>r. ASSUME Release PROVE iLock' = Free /\ iLock'.wanted = {} /\ iLock'.pc = "free"
  BY <1>r DEF Release, Free
<1>1. CASE ImportStep
  BY <1>0, <1>u, <1>1, ImportDoes
<1>2. CASE ClearStep
  BY <1>0, <1>u, <1>2, ClearDoes
<1>3. ASSUME NEW f \in Visitors, Enter(f) \/ Depart(f) PROVE MembersInv'
  <2> DEFINE e == [frame |-> f, kind |-> IF Enter(f) THEN "appeared" ELSE "removed"]
  <2>1. e \in ViewEvent /\ e.frame = f
    BY DEF ViewEvent
  <2>2. /\ iSub' = Deliver(iSub, e) /\ UNCHANGED <<iEntries, iLock, iUntold>>
        /\ \A x \in Visitors \ {f} : (x \in iLive' <=> x \in iLive) /\ (x \in iMissed' <=> x \in iMissed)
        /\ (f \in iLive' <=> e.kind = "appeared") /\ iMissed' \subseteq iMissed
    <3>1. CASE Enter(f)
      BY <3>1 DEF Enter
    <3>2. CASE ~Enter(f)
      BY <1>3, <3>2 DEF Depart
    <3>3. QED
      BY <3>1, <3>2
  <2> HIDE DEF e
  <2>3. ~iSub'.overflowed => ~iSub.overflowed /\ iSub'.queue = Append(iSub.queue, e)
    BY <1>0, <2>1, <2>2, DeliverDoes DEF CacheShape
  <2>4. MissedInv'
    BY <1>i, <2>2 DEF MissedInv
  <2>5. ASSUME ~iSub'.overflowed PROVE LastInv'
    <3> SUFFICES ASSUME NEW x \in Visitors, NEW j \in 1 .. Len(iSub'.queue), LastOf(iSub'.queue, Len(iSub'.queue), x, j)
                 PROVE  iSub'.queue[j].kind = "appeared" <=> x \in iLive'
      BY DEF LastInv, LastOf
    <3>1. \/ x = f /\ iSub'.queue[j] = e
          \/ x # f /\ j \in 1 .. Len(iSub.queue) /\ LastOf(iSub.queue, Len(iSub.queue), x, j) /\ iSub'.queue[j] = iSub.queue[j]
      <4>1. Extends(iSub'.queue, iSub.queue, e, x)
        BY <1>0, <2>1, <2>3, <2>5, AppendLast
      <4>2. QED
        BY <2>1, <4>1 DEF Extends
    <3>2. QED
      BY <1>i, <2>2, <2>3, <2>5, <3>1 DEF LastInv
  <2>6. ASSUME ~iSub'.overflowed PROVE KnownInv'
    <3> SUFFICES ASSUME ~iUntold', iLock'.pc # "counts", NEW x \in Visitors, NoneOf(iSub'.queue, Len(iSub'.queue), x)
                 PROVE  x \in iLive' <=> x \in Known'
      BY DEF KnownInv, NoneOf
    <3>1. x # f /\ NoneOf(iSub.queue, Len(iSub.queue), x)
      <4>1. Extends(iSub'.queue, iSub.queue, e, x)
        BY <1>0, <2>1, <2>3, <2>6, AppendLast
      <4>2. QED
        BY <2>1, <4>1 DEF Extends
    <3>2. x \in iLive <=> x \in Known
      BY <1>i, <2>2, <2>3, <2>6, <3>1 DEF KnownInv
    <3>3. QED
      BY <2>2, <3>1, <3>2 DEF Known
  <2>7. QED
    BY <1>m, <2>4, <2>5, <2>6
<1>4. CASE CollectEvents
  <2> DEFINE n == CollectViews
             q == iSub.queue
             wanted == n.wanted \ DOMAIN n.entries
  <2>1. /\ n \in Heard /\ DOMAIN n.entries \subseteq DOMAIN iEntries
        /\ iSub.overflowed => DOMAIN n.entries = DOMAIN iEntries \cap iLive /\ n.wanted = iLive \ DOMAIN iEntries
        /\ ~iSub.overflowed =>
             /\ \A f \in Visitors : NoneOf(q, Len(q), f) =>
                  (f \in DOMAIN n.entries <=> f \in DOMAIN iEntries) /\ f \notin n.wanted
             /\ \A f \in Visitors, j \in 1 .. Len(q) : LastOf(q, Len(q), f, j) =>
                  (f \in DOMAIN n.entries \cup n.wanted <=> q[j].kind = "appeared")
             /\ \A f \in Visitors : NoneOf(q, Len(q), f) \/ \E j \in 1 .. Len(q) : LastOf(q, Len(q), f, j)
    BY <1>0, CollectDoes
  <2>2. /\ iEntries' = n.entries /\ UNCHANGED <<iLive, iUntold>> /\ iLock.pc = "free"
        /\ iLock'.wanted = wanted /\ iMissed' = iMissed \ wanted /\ iSub' = Acknowledged(Drained(iSub))
    BY <1>4 DEF CollectEvents, Free
  <2> HIDE DEF n
  <2>3. iSub'.queue = <<>> /\ Len(iSub'.queue) = 0
    BY <1>0, <2>2 DEF CacheShape, Acknowledged, Drained
  <2>4. LastInv'
    BY <2>3 DEF LastInv, LastOf
  <2>5. MissedInv'
    BY <1>i, <2>1, <2>2 DEF MissedInv
  <2>6. iLock.wanted = {}
    BY <1>0, <2>2 DEF LockShape
  <2>7. ASSUME ~iUntold, NEW f \in Visitors
        PROVE  f \in iLive <=> f \in DOMAIN n.entries \cup n.wanted \cup (iMissed \ wanted)
    <3>1. CASE iSub.overflowed
      BY <1>0, <2>1, <3>1
    <3>2. CASE ~iSub.overflowed /\ NoneOf(q, Len(q), f)
      <4>1. f \in iLive <=> f \in DOMAIN iEntries \cup iMissed
        BY <1>i, <2>2, <2>6, <2>7, <3>2 DEF KnownInv, Known
      <4>2. QED
        BY <2>1, <3>2, <4>1
    <3>3. CASE ~iSub.overflowed /\ \E j \in 1 .. Len(q) : LastOf(q, Len(q), f, j)
      <4>1. PICK j \in 1 .. Len(q) : LastOf(q, Len(q), f, j)
        BY <3>3
      <4>2. q[j].kind = "appeared" <=> f \in iLive
        BY <1>i, <3>3, <4>1 DEF LastInv
      <4>3. f \in DOMAIN n.entries \cup n.wanted <=> q[j].kind = "appeared"
        BY <2>1, <3>3, <4>1
      <4>4. QED
        BY <1>0, <4>2, <4>3
    <3>4. QED
      BY <2>1, <3>1, <3>2, <3>3
  <2>8. KnownInv'
    <3>1. \A f \in Visitors : f \in Known' <=> f \in DOMAIN n.entries \cup n.wanted \cup (iMissed \ wanted)
      BY <2>2 DEF Known
    <3>2. QED
      BY <2>2, <2>7, <3>1 DEF KnownInv
  <2>9. QED
    BY <1>m, <2>4, <2>5, <2>8
<1>5. CASE \E who \in {"import", "clear"} : Invalidate(who)
  <2>1. UNCHANGED <<iSub, iLive>> /\ iLock'.pc = "counts" /\ iLock'.wanted = {} /\ DOMAIN iEntries' = {}
    BY <1>0, <1>5 DEF Invalidate, Free
  <2>2. QED
    BY <1>s, <2>1 DEF KnownInv, MissedInv
<1>6. CASE ReadCounts
  <2>1. UNCHANGED <<iSub, iLive, iEntries>> /\ DOMAIN iEntries = {} /\ iMissed' = {} /\ iLock'.wanted = iLive
    <3>1. CASE iLive = {}
      BY <1>0, <1>6, <1>r, <3>1 DEF ReadCounts, LockShape
    <3>2. CASE iLive # {}
      BY <1>0, <1>6, <3>2 DEF ReadCounts, LockShape
    <3>3. QED
      BY <3>1, <3>2
  <2>2. Known' = iLive
    BY <2>1 DEF Known
  <2>3. QED
    BY <1>s, <2>1, <2>2 DEF KnownInv, MissedInv
<1>7. CASE ReadViews
  <2>1. UNCHANGED <<iSub, iLive, iEntries, iMissed, iUntold>> /\ iLock'.wanted = iLock.wanted /\ iLock.pc = "read"
    BY <1>0, <1>7 DEF ReadViews, LockShape
  <2>2. KnownInv => KnownInv'
    BY <2>1 DEF KnownInv, Known
  <2>3. QED
    BY <1>i, <1>s, <2>1, <2>2 DEF MissedInv
<1>8. CASE InstallViews
  <2>1. /\ UNCHANGED <<iSub, iLive, iMissed, iUntold>> /\ iLock.pc = "install" /\ iLock'.wanted = {}
        /\ iEntries' = Updated(iEntries, iLock.views)
    BY <1>8, <1>r DEF InstallViews
  <2>2. DOMAIN iEntries' = DOMAIN iEntries \cup iLock.wanted
    BY <1>0, <2>1 DEF LockShape, Updated
  <2>3. Known' = Known
    BY <2>1, <2>2 DEF Known
  <2>4. KnownInv => KnownInv'
    BY <2>1, <2>3 DEF KnownInv
  <2>5. QED
    BY <1>i, <1>s, <2>1, <2>2, <2>4 DEF MissedInv
<1>9. CASE PopulateFails
  <2>1. /\ UNCHANGED <<iSub, iLive, iEntries>> /\ iLock'.wanted = {}
        /\ iMissed' = iMissed \cup (iLock.wanted \cap iLive)
        /\ (~iUntold' => ~iUntold /\ iLock.who = "loop") /\ iLock.pc \in {"counts", "read"}
    BY <1>0, <1>9, <1>r DEF PopulateFails
  <2>2. MissedInv'
    BY <1>0, <1>i, <2>1 DEF MissedInv, LockShape
  <2>3. ASSUME KnownInv PROVE KnownInv'
    <3> SUFFICES ASSUME ~iUntold', iLock'.pc # "counts", NEW x \in Visitors, NoneOf(iSub'.queue, Len(iSub'.queue), x)
                 PROVE  x \in iLive' <=> x \in Known'
      BY DEF KnownInv, NoneOf
    <3>1. iLock.pc # "counts" /\ NoneOf(iSub.queue, Len(iSub.queue), x)
      BY <1>0, <2>1 DEF LockShape
    <3>2. x \in iLive <=> x \in Known
      BY <2>1, <2>3, <3>1 DEF KnownInv
    <3>3. QED
      BY <2>1, <3>2 DEF Known
  <2>4. QED
    BY <1>s, <2>1, <2>2, <2>3
<1>10. CASE RestartMetadata
  <2>1. /\ iSub'.queue = <<>> /\ iLive' = {} /\ DOMAIN iEntries' = {} /\ iLock'.wanted = {} /\ iMissed' = {}
    BY <1>0, <1>10 DEF RestartMetadata, NewSubscription, Free
  <2>2. LastInv' /\ KnownInv' /\ MissedInv'
    BY <2>1 DEF LastInv, LastOf, KnownInv, MissedInv, Known
  <2>3. QED
    BY <1>m, <2>2
<1>11. CASE UNCHANGED iVars
  BY <1>u, <1>11 DEF iVars, iCache
<1>12. QED
  BY <1>1, <1>2, <1>3, <1>4, <1>5, <1>6, <1>7, <1>8, <1>9, <1>10, <1>11 DEF MetadataNext, ImportStep, ClearStep

\* The tables, the run under way, the refresh under the lock and the held views agree in every state: what
\* was counted dirty is read, what was read is installed, and a view is behind only while someone owes it.
THEOREM MetadataInvHolds == MetadataSpec => []MetadataInv
<1>1. MetadataInit => MetadataInv
  BY MetadataInitial
<1>2. MetadataInv /\ [MetadataNext]_iVars => MetadataInv'
  <2> SUFFICES ASSUME MetadataInv, [MetadataNext]_iVars PROVE MetadataInv'
    OBVIOUS
  <2>0. MetadataShape /\ NoteInv /\ BlankInv /\ ImportStagedInv /\ ResolvedInv /\ ScratchInv /\ CurrentInv /\ MembersInv /\ ObserverAgrees
    BY DEF MetadataInv
  <2>1. MetadataShape'
    BY <2>0, TableStep, TaskStep, CacheStep, LockStep DEF MetadataShape
  <2>2. NoteInv' /\ ImportStagedInv' /\ BlankInv'
    BY <2>0, NoteStep, BlankStep
  <2>3. ResolvedInv' /\ ScratchInv'
    BY <2>0, ResolvedStep
  <2>4. CurrentInv' /\ ObserverAgrees' /\ MembersInv'
    BY <2>0, CurrentStep, ObserverStep, MembersStep
  <2>5. QED
    BY <2>1, <2>2, <2>3, <2>4 DEF MetadataInv
<1>3. QED
  BY <1>1, <1>2, PTL DEF MetadataSpec

\* What the invariant says of a state.
LEMMA MetadataInvSays ==
  ASSUME MetadataInv
  PROVE  MetadataInvariant
<1>0. /\ MetadataShape /\ TableShape /\ TaskShape /\ RunShape /\ CacheShape /\ LockShape /\ NoteInv /\ ResolvedInv
      /\ CurrentInv /\ MembersInv /\ ObserverAgrees
      /\ iInstalled \in [Sources -> Versions \cup {0}]
  BY DEF MetadataInv, MetadataShape, TaskShape, TableShape
<1>1. MetadataTypeOK
  <2>1. DOMAIN iEntries \subseteq Visitors /\ DOMAIN iTracked \subseteq Visitors
    BY <1>0 DEF CacheShape, HeldViews
  <2>2. iRun.at \in 0 .. Len(Order) /\ iRun.left \subseteq Airframes /\ iClear.left \subseteq OwnTable
    BY <1>0 DEF TaskShape, RunShape, Run
  <2>3. QED
    BY <1>0, <2>1, <2>2 DEF MetadataTypeOK, TableShape, CacheShape
<1>2. ResolvedIsInstalled
  <2> SUFFICES ASSUME ~iMet, NEW f \in Airframes, NEW name \in Fields
               PROVE  LET said == {s \in Sources : name \in Says(s, f)}
                          w    == iResolved[f][name][1]
                      IN  IF said = {} THEN iResolved[f][name] = <<NoSource, 0>>
                          ELSE /\ w \in said /\ iResolved[f][name][2] = iInstalled[w]
                               /\ \A s \in said : FieldRank[w][name] <= FieldRank[s][name]
    BY DEF ResolvedIsInstalled
  <2> DEFINE w == Winner(name, f, iInstalled)
  <2>1. iResolved[f][name] = <<w, IF w = NoSource THEN 0 ELSE iInstalled[w]>>
    BY <1>0 DEF ResolvedInv, ResolveFrame
  <2>2. \/ w = NoSource /\ \A s \in Sources : ~Claims(name, f, iInstalled, s)
        \/ /\ w \in Sources /\ w # NoSource /\ Claims(name, f, iInstalled, w)
           /\ \A s \in Sources : Claims(name, f, iInstalled, s) => FieldRank[w][name] <= FieldRank[s][name]
    BY <1>0, WinnerIsBest
  <2>3. \A s \in Sources : name \in Says(s, f) <=> Claims(name, f, iInstalled, s)
    BY DEF Says, Claims
  <2> HIDE DEF w
  <2>4. QED
    BY <2>1, <2>2, <2>3
<1>3. NoteTellsInstalled
  BY <1>0 DEF NoteTellsInstalled, NoteInv
<1>4. EntriesAreCurrent
  <2> SUFFICES ASSUME iRun.pc = "idle", iClear.pc = "idle", iLock.pc = "free", iSub.queue = <<>>, ~iUntold
               PROVE  DOMAIN iEntries = iLive \ iMissed /\ \A f \in DOMAIN iEntries : iEntries[f] = iResolved[f]
    BY DEF EntriesAreCurrent
  <2>1. ~Pending
    BY <1>0 DEF Pending, RunShape
  <2>2. ~iSub.overflowed
    BY <1>0 DEF CacheShape
  <2>3. \A f \in Visitors : f \in iLive <=> f \in Known
    BY <1>0, <2>2 DEF MembersInv, NoneOf
  <2>4. iLock.wanted = {} /\ iMissed \cap DOMAIN iEntries = {}
    BY <1>0 DEF LockShape, MembersInv
  <2>5. DOMAIN iEntries \subseteq Visitors /\ iLive \subseteq Visitors
    BY <1>0 DEF CacheShape, HeldViews
  <2>6. QED
    BY <1>0, <2>1, <2>3, <2>4, <2>5 DEF CurrentInv, Known
<1>5. QED
  BY <1>0, <1>1, <1>2, <1>3, <1>4 DEF MetadataInvariant

\* What the metadata import promises (importer.py, store.py, cache.py): the resolved rows are the resolution of
\* the rows installed, a status row tells what is installed, the cache holds the resolved row of every aircraft
\* it holds unless it is about to be told of a change, and its observer holds the same.
THEOREM MetadataIsPromised == MetadataSpec => []MetadataInvariant
<1>1. MetadataInv => MetadataInvariant
  BY MetadataInvSays
<1>2. QED
  BY <1>1, MetadataInvHolds, PTL
=============================================================================
