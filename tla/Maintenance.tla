------------------------------- MODULE Maintenance -------------------------------
(***************************************************************************)
(* Export, import, restore and reset of the live database from the         *)
(* settings page (app/blueprints/admin/admin_settings.py) with the helpers *)
(* of app/utils/sqlite_tools.py, while users go on writing.                *)
(*                                                                         *)
(* Validation, snapshots, replacement and migration run outside the event  *)
(* loop (run_blocking, subprocess), so other requests are served between   *)
(* their steps, and each step may fail or be the last before the process   *)
(* dies.  An action is what SQLite or the file system does as one: a       *)
(* transaction, the removal of a file, the writing of one.  A file that is *)
(* left half written is what its failing step leaves, also when the        *)
(* process then dies.                                                      *)
(***************************************************************************)
EXTENDS Integers, FiniteSets

CONSTANTS
    Requests,   \* requests of administrators
    Writes,     \* rows that users may write
    Bad, None,  \* a file that is no readable database; no file
    MaxCrashes  \* bound: restarts of the web process

ASSUME CrashAssumption == MaxCrashes \in Nat

VARIABLES
    db,         \* the live database
    copies,     \* [Names -> the .bak and the .broken file beside it]
    lock,       \* _maintenance_lock is taken
    req,        \* [Requests -> the request in progress]
    reset,      \* how far db_reset is
    owed,       \* history: writes that nobody has given up
    crashes     \* number of restarts

maintenanceVars == <<db, copies, lock, req, reset, owed, crashes>>

-----------------------------------------------------------------------------
\* writes: the rows in it; cur: its tables have the current columns; whole: no
\* table is missing.
Content == [writes : SUBSET Writes, cur : BOOLEAN, whole : BOOLEAN]
Fresh == [writes |-> {}, cur |-> TRUE, whole |-> TRUE]
Dump == [writes |-> {}, cur |-> FALSE, whole |-> TRUE]
\* No table at all: what SQLite makes of a file that is not there.
Hollow == [writes |-> {}, cur |-> TRUE, whole |-> FALSE]
File == Content \cup {Bad, None}
ASSUME FileAssumption == Bad \notin Content /\ None \notin Content /\ Bad # None

Names == {"bak", "broken"}

\* "check": the source is being validated; "clear": the older safety copy is
\* about to be removed; "vacuum": the safety copy is being written; "raw": a
\* restore copies the live file instead; "copy": the live database is being
\* overwritten; "swap": its file has been removed and is being copied; "migrate":
\* it has been replaced; "export": the snapshot is being written; "stream": it
\* is being sent.
Locked == {"check", "clear", "vacuum", "raw", "copy", "swap", "migrate", "export"}
Request == [at : Locked \cup {"idle", "stream"}, from : File, to : Names \cup {"none"}]
Doing(pc, f, n) == [at |-> pc, from |-> f, to |-> n]
NoRequest == Doing("idle", None, "none")

\* What a request puts in place of the live database: an import ("bak" is its
\* safety copy) the upload, a restore the .bak file.
Source(a) == IF req[a].to = "broken" THEN copies["bak"] ELSE req[a].from

RowsOf(f) == IF f \in Content THEN f.writes ELSE {}
Copied == RowsOf(copies["bak"]) \cup RowsOf(copies["broken"])

\* Every row that the live database or a file beside it holds.
Held == RowsOf(db) \cup Copied

\* Rows that are held elsewhere than in one of the copies.
Besides(n) == RowsOf(db) \cup RowsOf(copies[CHOOSE m \in Names : m # n])

\* The safety copy has been made and the live database is not replaced yet.
InGap == \E a \in Requests : req[a].at \in {"copy", "swap"}

MaintenanceInit ==
    /\ db = Fresh
    /\ copies = [n \in Names |-> None]
    /\ lock = FALSE
    /\ req = [a \in Requests |-> NoRequest]
    /\ reset = "idle"
    /\ owed = {}
    /\ crashes = 0

-----------------------------------------------------------------------------
\* A request of a user commits; where tables are missing, one that needs others.
Write(w) ==
    /\ db \in Content /\ w \notin Held
    /\ db' = [db EXCEPT !.writes = @ \cup {w}]
    /\ owed' = IF InGap THEN owed ELSE owed \cup {w}
    /\ UNCHANGED <<copies, lock, req, reset, crashes>>

\* Somebody opens the live database while its file is not there.
Opened ==
    /\ db = None
    /\ db' = Hollow
    /\ UNCHANGED <<copies, lock, req, reset, owed, crashes>>

\* The request ends; its finally clause releases the lock.
EndRequest(a) == req' = [req EXCEPT ![a] = NoRequest] /\ lock' = FALSE
Goto(a, pc) == req' = [req EXCEPT ![a].at = pc] /\ UNCHANGED lock

\* try_lock does not wait.
TakeLock(a, pc, f, n) ==
    /\ req[a] = NoRequest /\ db \in Content /\ ~lock
    /\ lock' = TRUE
    /\ req' = [req EXCEPT ![a] = Doing(pc, f, n)]
    /\ UNCHANGED <<db, copies, reset, owed, crashes>>

\* db_export
Export(a) == TakeLock(a, "export", None, "none")

\* The snapshot is written or fails; the lock is released before it is sent.
Exported(a) ==
    /\ req[a].at = "export"
    /\ \/ EndRequest(a)
       \/ lock' = FALSE /\ req' = [req EXCEPT ![a].at = "stream"]
    /\ UNCHANGED <<db, copies, reset, owed, crashes>>

\* stream_and_delete removes the copy, also when the client goes away.
Sent(a) ==
    /\ req[a].at = "stream"
    /\ req' = [req EXCEPT ![a] = NoRequest]
    /\ UNCHANGED <<db, copies, lock, reset, owed, crashes>>

\* Variant for WholeUnlessReplaced: an import does not ask for the lock.
ImportUnlocked(a, f) ==
    /\ req[a] = NoRequest /\ db \in Content
    /\ lock' = TRUE
    /\ req' = [req EXCEPT ![a] = Doing("check", f, "bak")]
    /\ UNCHANGED <<db, copies, reset, owed, crashes>>

\* db_import, with the dump of an older version, a fresh database, one without
\* tables or some other file.
Import(a, f) == TakeLock(a, "check", f, "bak")

\* db_restore_bak
Restore(a) == copies["bak"] # None /\ TakeLock(a, "check", None, "broken")

\* validate_db_file, which asks for three of the tables only, and
\* has_free_space.
Checked(a) ==
    /\ req[a].at = "check"
    /\ \/ Source(a) \in Content /\ Goto(a, "clear")
       \/ EndRequest(a)
    /\ UNCHANGED <<db, copies, reset, owed, crashes>>

\* Variant for DiscardsNothing: a copy that is there is taken for the safety copy.
KeepOlder(a) ==
    /\ req[a].at = "clear"
    /\ Goto(a, IF copies[req[a].to] = None THEN "vacuum" ELSE "copy")
    /\ UNCHANGED <<db, copies, reset, owed, crashes>>

\* snapshot_db begins by removing the copy there is (which may not be
\* possible): who imports or restores again gives up the older copy at this
\* moment, whether or not a new one is made.
Cleared(a) ==
    /\ req[a].at = "clear"
    /\ Goto(a, "vacuum")
    /\ \/ /\ copies' = [copies EXCEPT ![req[a].to] = None]
          /\ owed' = owed \cap Besides(req[a].to)
       \/ UNCHANGED <<copies, owed>>
    /\ UNCHANGED <<db, reset, crashes>>

\* VACUUM INTO writes the safety copy.
Vacuumed(a) ==
    /\ req[a].at = "vacuum" /\ copies[req[a].to] = None /\ db \in Content
    /\ copies' = [copies EXCEPT ![req[a].to] = db]
    /\ Goto(a, "copy")
    /\ UNCHANGED <<db, reset, owed, crashes>>

\* It fails, having written none, a part or all of it; VACUUM INTO overwrites no
\* file.  An import ends, a restore copies the file.
VacuumFails(a) ==
    /\ req[a].at = "vacuum"
    /\ \/ UNCHANGED copies
       \/ /\ copies[req[a].to] = None
          /\ \E f \in {Bad, db} : copies' = [copies EXCEPT ![req[a].to] = f]
    /\ IF req[a].to = "bak" THEN EndRequest(a) ELSE Goto(a, "raw")
    /\ UNCHANGED <<db, reset, owed, crashes>>

\* What a copy of the file without its write-ahead log may be.
Torn(f) ==
    {Bad} \cup (IF f \in Content THEN {[f EXCEPT !.writes = S] : S \in SUBSET f.writes} ELSE {})

\* shutil.copy2 to .broken: rows that it misses are given up.
RawCopied(a) ==
    /\ req[a].at = "raw"
    /\ \E f \in Torn(db) :
          /\ copies' = [copies EXCEPT !["broken"] = f]
          /\ owed' = owed \cap (RowsOf(f) \cup RowsOf(copies["bak"]))
    /\ Goto(a, "copy")
    /\ UNCHANGED <<db, reset, crashes>>

RawFails(a) ==
    /\ req[a].at = "raw"
    /\ \E f \in {copies["broken"], Bad} : copies' = [copies EXCEPT !["broken"] = f]
    /\ owed' = owed \cap Besides("broken")
    /\ EndRequest(a)
    /\ UNCHANGED <<db, reset, crashes>>

\* restore_into_live: the backup API replaces the content in one transaction.
Replaced(a) ==
    /\ req[a].at = "copy"
    /\ db' = Source(a)
    /\ Goto(a, "migrate")
    /\ UNCHANGED <<copies, reset, owed, crashes>>

\* The database is locked for 60 seconds and stays what it was.
StaysLocked(a) ==
    /\ req[a].at = "copy"
    /\ EndRequest(a)
    /\ owed' = owed \cup RowsOf(db)
    /\ UNCHANGED <<db, copies, reset, crashes>>

\* After any other DatabaseError, also of a readable database (another page
\* size, a full disk), the live file is removed,
Removed(a) ==
    /\ req[a].at = "copy"
    /\ db' = None
    /\ Goto(a, "swap")
    /\ UNCHANGED <<copies, reset, owed, crashes>>

\* and the source copied in its place; a file that others have opened meanwhile
\* may be broken by it.
Swapped(a) ==
    /\ req[a].at = "swap"
    /\ db' \in {Source(a)} \cup (IF db = None THEN {} ELSE {Bad})
    /\ Goto(a, "migrate")
    /\ UNCHANGED <<copies, reset, owed, crashes>>

\* That fails: nothing, or a part of a file, is left as the live database.
SwapFails(a) ==
    /\ req[a].at = "swap"
    /\ db' \in {db, Bad}
    /\ owed' = owed \cup RowsOf(db')
    /\ EndRequest(a)
    /\ UNCHANGED <<copies, reset, crashes>>

\* Missing tables and columns are added, or some of them.
Updated(f) ==
    {g \in Content : /\ f \in Content /\ g.writes = f.writes
                     /\ (f.cur => g.cur) /\ (f.whole => g.whole)}

\* _migrate_schema_after_restore; a script that fails leaves a warning.
Migrated(a) ==
    /\ req[a].at = "migrate"
    /\ db' \in {db} \cup Updated(db)
    /\ EndRequest(a)
    /\ UNCHANGED <<copies, reset, owed, crashes>>

-----------------------------------------------------------------------------
(* db_reset asks for no lock, and SQLite commits each table by itself *)

Reset ==
    /\ reset = "idle" /\ db \in Content
    /\ reset' = "drop"
    /\ UNCHANGED <<db, copies, lock, req, owed, crashes>>

\* drop_all drops one table after the other, up to the last.
Dropped(f) ==
    /\ reset = "drop" /\ db \in Content
    /\ db' = f
    /\ owed' = owed \cap (f.writes \cup Copied)
    /\ reset' = IF f = Hollow THEN "create" ELSE "drop"
    /\ UNCHANGED <<copies, lock, req, crashes>>

\* create_all and the seed.
Created ==
    /\ reset = "create" /\ db \in Content
    /\ db' = [db EXCEPT !.whole = TRUE]
    /\ reset' = "idle"
    /\ UNCHANGED <<copies, lock, req, owed, crashes>>

\* The error is shown; what has been dropped is not brought back.
ResetFails ==
    /\ reset # "idle"
    /\ reset' = "idle"
    /\ UNCHANGED <<db, copies, lock, req, owed, crashes>>

\* The web process dies and starts again, which creates a missing database and
\* adds what is missing to an older one.
Crash ==
    /\ crashes < MaxCrashes
    /\ crashes' = crashes + 1
    /\ db' = IF db \in Content THEN [db EXCEPT !.cur = TRUE, !.whole = TRUE]
             ELSE IF db = None THEN Fresh ELSE db
    /\ req' = [a \in Requests |-> NoRequest]
    /\ lock' = FALSE
    /\ reset' = "idle"
    /\ owed' = owed \cup RowsOf(db)
    /\ UNCHANGED copies

-----------------------------------------------------------------------------
Uploads == {Dump, Fresh, Hollow, Bad}

Dismantled(f) == {[f EXCEPT !.writes = S, !.whole = FALSE] : S \in SUBSET f.writes} \cup {Hollow}

MaintenanceNext ==
    \/ \E w \in Writes : Write(w)
    \/ Opened
    \/ \E a \in Requests :
          \/ Export(a) \/ Exported(a) \/ Sent(a)
          \/ \E f \in Uploads : Import(a, f)
          \/ Restore(a) \/ Checked(a)
          \/ Cleared(a) \/ Vacuumed(a) \/ VacuumFails(a) \/ RawCopied(a) \/ RawFails(a)
          \/ Replaced(a) \/ StaysLocked(a) \/ Removed(a) \/ Swapped(a) \/ SwapFails(a)
          \/ Migrated(a)
    \/ Reset \/ (\E f \in IF db \in Content THEN Dismantled(db) ELSE {} : Dropped(f))
    \/ Created \/ ResetFails
    \/ Crash

MaintenanceSpec == MaintenanceInit /\ [][MaintenanceNext]_maintenanceVars

-----------------------------------------------------------------------------
(* Properties *)

MaintenanceTypeOK ==
    /\ db \in File /\ copies \in [Names -> File]
    /\ lock \in BOOLEAN
    /\ req \in [Requests -> Request]
    /\ reset \in {"idle", "drop", "create"}
    /\ owed \in SUBSET Writes
    /\ crashes \in 0..MaxCrashes

\* Imports and restores discard only what an administrator gave up, whichever of
\* their steps fails or is the last before a crash, and whatever is tried next:
\* every other row is in the live database or in a copy beside it.  Given up are
\* the rows that only the older safety copy has, as soon as a later import or
\* restore begins to write its own, those a reset drops, those a raw copy misses,
\* and those written between the safety copy and the replacement (db_import,
\* db_restore_bak, db_reset, snapshot_db).
DiscardsNothing == owed \subseteq Held

\* Everybody else sees the database whole, and replaced in one step by what was
\* uploaded, a fresh one or the .bak copy; anything else only while a replacement
\* by file or a reset is under way, or has failed since the last start
\* (restore_into_live; "Only one export/import/restore at a time"): this component
\* implements LiveDatabase.
Stage ==
    IF \E a \in Requests : req[a].at = "swap" THEN "away"
    ELSE IF \E a \in Requests : req[a].at = "copy" THEN "copying"
    ELSE "open"

\* The live database as others see it, and the copy that can be restored.
Seen == IF db = None THEN Bad ELSE db
Restorable == {copies["bak"]} \cap Content

Live == INSTANCE LiveDatabase WITH
            Gone <- Bad,
            db <- Seen,
            copies <- Restorable,
            stage <- Stage,
            resetting <- reset # "idle"

WholeUnlessReplaced == Live!Spec
=============================================================================
