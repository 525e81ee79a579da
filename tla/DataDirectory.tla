---------------------------- MODULE DataDirectory ----------------------------
(***************************************************************************)
(* The files of the data directory and the four things that move them: the *)
(* process, which starts, writes and ends; the reset marker it consumes at *)
(* its next start (reset/marker.py); a backup taken beside it              *)
(* (backup/create.py); and a restore (backup/restore.py), run while the    *)
(* process is stopped, as its documentation demands.  The process may be   *)
(* killed, and the machine may fail, between any two steps.                *)
(*                                                                         *)
(* What a file holds is the number of the last write it contains.  A       *)
(* database file also has an identity, which its write-ahead log names:    *)
(* SQLite replays a log into whatever database it lies beside.             *)
(***************************************************************************)
EXTENDS Integers, Sequences

CONSTANTS MaxWrites,           \* bound: commits and configuration saves
          DirectoryBudgets     \* bounds: crashes, faults, resets, backups and restores of an instance

ASSUME DirectoryConstants == MaxWrites \in Nat

VARIABLES
  zFile,         \* name -> [id, upto]: the live files
  zMarker,       \* .flightsite-reset-pending
  zApp,          \* the process: [pc, todo]
  zRestore,      \* the restore: [pc, names, todo, staged, moved, placed]; todo is walked by Foremost
  zAside,        \* <name>.pre-restore.<timestamp>, of this restore
  zBackup,       \* the backup under way: [pc, secrets, took]
  zArchive,      \* the newest archive: name -> upto
  zIds, zWrites, \* identities and writes given out
  zBudget,
  zWas,          \* history: the data directory as the restore found it
  zDoomed,       \* history: databases a reset was asked for
  zCut           \* history: a crash cut a restore short, and nothing was run since

zVars == <<zFile, zMarker, zApp, zRestore, zAside, zBackup, zArchive, zIds, zWrites, zBudget, zWas, zDoomed, zCut>>
zTool == <<zRestore, zAside, zWas>>

Database == "flightsite.sqlite3"
Wal      == "flightsite.sqlite3-wal"          \* with -shm, which holds nothing of its own
Settings == {"config.yaml", "secrets.yaml"}
Payload  == {Database} \cup Settings
Files    == Payload \cup {Wal}
Absent   == [id |-> 0, upto |-> 0]
Nowhere  == [name \in Files |-> Absent]
Asleep   == [pc |-> "off", todo |-> <<>>]
NoRestore == [pc |-> "idle", names |-> {}, todo |-> {}, staged |-> Nowhere, moved |-> {}, placed |-> {}]
NoBackup  == [pc |-> "idle", secrets |-> FALSE, took |-> 0]

\* The order of PAYLOAD_MEMBERS, the sidecars after it: the lists of _swap and _roll_back all follow it.
Earlier(name) == CASE name = Database       -> {}
                   [] name = "config.yaml"  -> {Database}
                   [] name = "secrets.yaml" -> {Database, "config.yaml"}
                   [] name = Wal            -> Payload
Foremost(names) == CHOOSE name \in names : Earlier(name) \cap names = {}

Exists(name) == zFile[name] # Absent
Allowed(what) == zBudget[what] > 0 /\ zBudget' = [zBudget EXCEPT ![what] = @ - 1]

\* What SQLite reads: the database, and the log that is its own.
Read(files) ==
  IF files[Wal].id = files[Database].id /\ files[Wal].upto > files[Database].upto
  THEN files[Wal].upto ELSE files[Database].upto

\* The last connection to close folds the log into the database.
Folded == [zFile EXCEPT ![Database].upto = Read(zFile), ![Wal] = Absent]

(* ------------------------------ the process ----------------------------- *)

\* Mutant: the marker goes first.
MarkerFirst(found) == <<"marker", Database, Wal>>

\* apply_pending_reset: the database files that are there, in this order, and the marker last.
ResetOrder(found) == <<Database, Wal, "marker">>

\* create_app: a pending marker is applied before the database is constructed.
BootApp ==
  /\ zApp.pc = "off" /\ zRestore.pc = "idle"
  /\ zApp' = IF zMarker THEN [pc |-> "reset", todo |-> ResetOrder(zFile)] ELSE [pc |-> "open", todo |-> <<>>]
  /\ zCut' = FALSE
  /\ UNCHANGED <<zFile, zMarker, zTool, zBackup, zArchive, zIds, zWrites, zBudget, zDoomed>>

ApplyReset ==
  /\ zApp.pc = "reset"
  /\ LET name == Head(zApp.todo)
     IN  IF name = "marker" THEN zMarker' = FALSE /\ UNCHANGED zFile
         ELSE zFile' = [zFile EXCEPT ![name] = Absent] /\ UNCHANGED zMarker
  /\ zApp' = IF Len(zApp.todo) = 1 THEN [pc |-> "open", todo |-> <<>>] ELSE [zApp EXCEPT !.todo = Tail(@)]
  /\ UNCHANGED <<zTool, zBackup, zArchive, zIds, zWrites, zBudget, zDoomed, zCut>>

\* initialize_database: a missing database is created, and SQLite drops a log it finds beside an empty one.
OpenDatabase ==
  /\ zApp.pc = "open"
  /\ IF Exists(Database) THEN UNCHANGED <<zFile, zIds>>
     ELSE /\ zIds' = zIds + 1
          /\ zFile' = [zFile EXCEPT ![Database] = [id |-> zIds', upto |-> 0], ![Wal] = Absent]
  /\ zApp' = [pc |-> "up", todo |-> <<>>]
  /\ UNCHANGED <<zMarker, zTool, zBackup, zArchive, zWrites, zBudget, zDoomed, zCut>>

\* A transaction lands in the log ...
CommitWrite ==
  /\ zApp.pc = "up" /\ zWrites < MaxWrites
  /\ zWrites' = zWrites + 1
  /\ zFile' = [zFile EXCEPT ![Wal] = [id |-> zFile[Database].id, upto |-> zWrites']]
  /\ UNCHANGED <<zMarker, zApp, zTool, zBackup, zArchive, zIds, zBudget, zDoomed, zCut>>

\* ... and a settings save replaces its file whole (atomic_write_text).
SaveFile(name) ==
  /\ zApp.pc = "up" /\ zWrites < MaxWrites /\ name \in Settings
  /\ zWrites' = zWrites + 1
  /\ zFile' = [zFile EXCEPT ![name] = [id |-> 1, upto |-> zWrites']]
  /\ UNCHANGED <<zMarker, zApp, zTool, zBackup, zArchive, zIds, zBudget, zDoomed, zCut>>

\* reset_flightsite_data: the request only writes the marker.
RequestReset ==
  /\ zApp.pc = "up" /\ Allowed("resets")
  /\ zMarker' = TRUE
  /\ zDoomed' = zDoomed \cup {zFile[Database].id}
  /\ UNCHANGED <<zFile, zApp, zTool, zBackup, zArchive, zIds, zWrites, zCut>>

\* dispose: every connection is closed.
StopApp ==
  /\ zApp.pc = "up" /\ zApp' = Asleep
  /\ zFile' = Folded
  /\ UNCHANGED <<zMarker, zTool, zBackup, zArchive, zIds, zWrites, zBudget, zDoomed, zCut>>

CrashApp ==
  /\ zApp.pc # "off" /\ Allowed("crashes")
  /\ zApp' = Asleep
  /\ UNCHANGED <<zFile, zMarker, zTool, zBackup, zArchive, zIds, zWrites, zDoomed, zCut>>

(* -------------------------------- backup -------------------------------- *)

\* create_backup: a snapshot of the database as its readers see it, log included (VACUUM INTO); its
\* connection is the last to close if no process has one ...
TakeSnapshot(secrets) ==
  /\ zBackup.pc = "idle" /\ zRestore.pc = "idle" /\ Exists(Database) /\ Allowed("backups")
  /\ zBackup' = [pc |-> "copy", secrets |-> secrets, took |-> Read(zFile)]
  /\ zFile' = IF zApp.pc = "up" THEN zFile ELSE Folded
  /\ zCut' = FALSE
  /\ UNCHANGED <<zMarker, zApp, zTool, zArchive, zIds, zWrites, zDoomed>>

\* ... then the configuration, and the secrets if they were asked for, and an archive that appears whole.
WriteArchive ==
  /\ zBackup.pc = "copy"
  /\ LET extra == {name \in Settings : Exists(name) /\ (name = "secrets.yaml" => zBackup.secrets)}
     IN  zArchive' = [name \in {Database} \cup extra |-> IF name = Database THEN zBackup.took ELSE zFile[name].upto]
  /\ zBackup' = NoBackup
  /\ UNCHANGED <<zFile, zMarker, zApp, zTool, zIds, zWrites, zBudget, zDoomed, zCut>>

(* -------------------------------- restore ------------------------------- *)

\* Mutant: the log of the database being replaced stays where it is.
MoveFirstKeepingLog(incoming) == incoming

\* _swap: what is moved aside: the members of the archive, then the sidecars of the database.
MoveFirst(incoming) == incoming \cup {Wal}

\* restore_backup, validated and extracted: nothing live has been touched.
StageRestore ==
  /\ zApp.pc = "off" /\ zRestore.pc = "idle" /\ zBackup.pc = "idle" /\ Database \in DOMAIN zArchive
  /\ Allowed("restores")
  /\ zRestore' = [NoRestore EXCEPT !.pc = "aside", !.names = DOMAIN zArchive,
                    !.todo = {name \in MoveFirst(DOMAIN zArchive) : Exists(name)},
                    !.staged = [name \in Files |->
                      IF name \notin DOMAIN zArchive THEN Absent
                      ELSE [id |-> IF name = Database THEN zIds + 1 ELSE 1, upto |-> zArchive[name]]]]
  /\ zIds' = zIds + 1
  /\ zWas' = zFile /\ zAside' = Nowhere /\ zCut' = FALSE
  /\ UNCHANGED <<zFile, zMarker, zApp, zBackup, zArchive, zWrites, zDoomed>>

MoveAside ==
  /\ zRestore.pc = "aside"
  /\ IF zRestore.todo = {}
     THEN zRestore' = [zRestore EXCEPT !.pc = "place", !.todo = zRestore.names] /\ UNCHANGED <<zFile, zAside>>
     ELSE LET name == Foremost(zRestore.todo)
          IN  /\ zAside' = [zAside EXCEPT ![name] = zFile[name]]
              /\ zFile' = [zFile EXCEPT ![name] = Absent]
              /\ zRestore' = [zRestore EXCEPT !.todo = @ \ {name}, !.moved = @ \cup {name}]
  /\ UNCHANGED <<zMarker, zApp, zBackup, zArchive, zIds, zWrites, zBudget, zWas, zDoomed, zCut>>

PlaceStaged ==
  /\ zRestore.pc = "place"
  /\ IF zRestore.todo = {}
     THEN zRestore' = [zRestore EXCEPT !.pc = "drop", !.todo = zRestore.moved] /\ UNCHANGED zFile
     ELSE LET name == Foremost(zRestore.todo)
          IN  /\ zFile' = [zFile EXCEPT ![name] = zRestore.staged[name]]
              /\ zRestore' = [zRestore EXCEPT !.todo = @ \ {name}, !.placed = @ \cup {name}]
  /\ UNCHANGED <<zMarker, zApp, zAside, zBackup, zArchive, zIds, zWrites, zBudget, zWas, zDoomed, zCut>>

\* Only after the whole swap are the preserved copies deleted.
DropPreserved ==
  /\ zRestore.pc = "drop"
  /\ IF zRestore.todo = {} THEN zRestore' = [NoRestore EXCEPT !.pc = "done"] /\ UNCHANGED zAside
     ELSE LET name == Foremost(zRestore.todo)
          IN  /\ zAside' = [zAside EXCEPT ![name] = Absent]
              /\ zRestore' = [zRestore EXCEPT !.todo = @ \ {name}]
  /\ UNCHANGED <<zFile, zMarker, zApp, zBackup, zArchive, zIds, zWrites, zBudget, zWas, zDoomed, zCut>>

\* A move raises OSError ...
SwapFails ==
  /\ zRestore.pc \in {"aside", "place"} /\ zRestore.todo # {} /\ Allowed("faults")
  /\ zRestore' = [zRestore EXCEPT !.pc = "undo", !.todo = zRestore.placed]
  /\ UNCHANGED <<zFile, zMarker, zApp, zAside, zBackup, zArchive, zIds, zWrites, zWas, zDoomed, zCut>>

\* ... and _roll_back takes away what was placed ...
RollBackPlaced ==
  /\ zRestore.pc = "undo"
  /\ IF zRestore.todo = {}
     THEN zRestore' = [zRestore EXCEPT !.pc = "return", !.todo = zRestore.moved] /\ UNCHANGED zFile
     ELSE LET name == Foremost(zRestore.todo)
          IN  /\ zFile' = [zFile EXCEPT ![name] = Absent]
              /\ zRestore' = [zRestore EXCEPT !.todo = @ \ {name}]
  /\ UNCHANGED <<zMarker, zApp, zAside, zBackup, zArchive, zIds, zWrites, zBudget, zWas, zDoomed, zCut>>

\* ... and puts back what was moved.
RollBackMoved ==
  /\ zRestore.pc = "return"
  /\ IF zRestore.todo = {} THEN zRestore' = [NoRestore EXCEPT !.pc = "failed"] /\ UNCHANGED <<zFile, zAside>>
     ELSE LET name == Foremost(zRestore.todo)
          IN  /\ zFile' = [zFile EXCEPT ![name] = zAside[name]]
              /\ zAside' = [zAside EXCEPT ![name] = Absent]
              /\ zRestore' = [zRestore EXCEPT !.todo = @ \ {name}]
  /\ UNCHANGED <<zMarker, zApp, zBackup, zArchive, zIds, zWrites, zBudget, zWas, zDoomed, zCut>>

\* The command ends and tells its outcome.
EndRestore ==
  /\ zRestore.pc \in {"done", "failed"}
  /\ zRestore' = NoRestore
  /\ UNCHANGED <<zFile, zMarker, zApp, zAside, zBackup, zArchive, zIds, zWrites, zBudget, zWas, zDoomed, zCut>>

\* The machine fails in the middle of a swap or of its rollback.
CrashRestore ==
  /\ zRestore.pc \notin {"idle", "done", "failed"} /\ Allowed("crashes")
  /\ zRestore' = NoRestore
  /\ zCut' = (zRestore.pc # "drop")
  /\ UNCHANGED <<zFile, zMarker, zApp, zAside, zBackup, zArchive, zIds, zWrites, zWas, zDoomed>>

DirectoryInit ==
  /\ zFile = Nowhere /\ zMarker = FALSE
  /\ zApp = Asleep /\ zRestore = NoRestore /\ zAside = Nowhere /\ zBackup = NoBackup /\ zArchive = <<>>
  /\ zIds = 1 /\ zWrites = 0
  /\ zBudget \in DirectoryBudgets
  /\ zWas = Nowhere /\ zDoomed = {} /\ zCut = FALSE

DirectoryNext ==
  \/ BootApp \/ ApplyReset \/ OpenDatabase
  \/ CommitWrite \/ (\E name \in Files : SaveFile(name)) \/ RequestReset \/ StopApp \/ CrashApp
  \/ (\E secrets \in BOOLEAN : TakeSnapshot(secrets)) \/ WriteArchive
  \/ StageRestore \/ MoveAside \/ PlaceStaged \/ DropPreserved
  \/ SwapFails \/ RollBackPlaced \/ RollBackMoved \/ EndRestore \/ CrashRestore

DirectorySpec == DirectoryInit /\ [][DirectoryNext]_zVars

(* ------------------------------ properties ------------------------------ *)

DirectoryTypeOK ==
  /\ zFile \in [Files -> [id : 0 .. zIds, upto : 0 .. MaxWrites]]
  /\ zAside \in [Files -> [id : 0 .. zIds, upto : 0 .. MaxWrites]]
  /\ zApp.pc \in {"off", "reset", "open", "up"}
  /\ zRestore.pc \in {"idle", "aside", "place", "drop", "undo", "return", "done", "failed"}

\* No database is ever open beside the log of another ("SQLite would try to recover a write-ahead log
\* written against a different file", backup/restore.py:26), whatever was cut short before.
LogIsItsOwn ==
  zApp.pc = "up" => Exists(Database) /\ zFile[Wal].id \in {0, zFile[Database].id}

\* A restore that failed left the data directory exactly as it found it (_roll_back), and one that came
\* through put every member of the archive in place, and no log beside it.
FailureUndone == zRestore.pc = "failed" => zFile = zWas /\ zAside = Nowhere
RestoreInstalled ==
  zRestore.pc = "done" =>
    /\ \A name \in DOMAIN zArchive : zFile[name].upto = zArchive[name]
    /\ zFile[Wal] = Absent /\ zAside = Nowhere
    /\ \A name \in Settings \ DOMAIN zArchive : zFile[name] = zWas[name]

\* Until a restore is through, each file it found is still on the disk, live or preserved, also after a
\* crash that cut it short and until something else is run.
NothingIsLost ==
  zRestore.pc \in {"aside", "place", "undo", "return"} \/ zCut =>
    \A name \in Files : zWas[name] \in {Absent, zFile[name], zAside[name]}

\* Once a reset has been applied, the database it was asked for is gone: no crash between the deletions and
\* the marker lets the process open it again (apply_pending_reset).
ResetHappens == zApp.pc = "up" /\ ~zMarker => zFile[Database].id \notin zDoomed

\* What the data directory promises in every state.
DirectoryInvariant ==
  /\ DirectoryTypeOK
  /\ LogIsItsOwn
  /\ FailureUndone /\ RestoreInstalled
  /\ NothingIsLost
  /\ ResetHappens

\* "never leave the data directory in a half-restored state" (backup/restore.py:5): what a restore that was
\* cut short leaves is either what it found or what it was to install.
NeverHalfRestored ==
  zCut => \/ zFile = zWas
          \/ \A name \in DOMAIN zArchive : Exists(name) /\ zFile[name].upto = zArchive[name]
=============================================================================
