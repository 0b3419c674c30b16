--------------------------- MODULE DatabaseProofs ---------------------------
(***************************************************************************)
(* The live database and the copies of it, for all sets of requests and    *)
(* writes, every kind of fault and any number of restarts, runs and hours. *)
(*                                                                         *)
(* Maintenance: whichever step fails or is the last before a crash, only   *)
(* rows that have been given up are lost, only one export, import or       *)
(* restore is at work at a time, and everybody else sees the live database *)
(* that LiveDatabase describes.  What is not inductive by itself: between  *)
(* the safety copy and the replacement the copies alone hold all that is   *)
(* owed (Sources).                                                         *)
(*                                                                         *)
(* Backups: once there has been a complete copy there always is one, and   *)
(* the newest is never older than the schedule allows.  Neither is         *)
(* inductive. Two runs prune one directory from lists they made earlier,   *)
(* so what is kept is that above every file some run has listed there are  *)
(* MaxKeep that none has (EnoughKept), of which fewer are unfinished       *)
(* (FewLeftover), and that runs remove the oldest first: a file that a run *)
(* finds gone was removed by the other, which has a newer copy.            *)
(***************************************************************************)
EXTENDS Maintenance, Backups, FiniteSetTheorems, WellFoundedInduction, TLAPS

-----------------------------------------------------------------------------
(* Maintenance *)

\* "Only one export/import/restore at a time" (sqlite_tools.py): a request at work
\* on the files has the lock, and no other one is at work.
OneAtATime ==
    /\ \A a \in Requests : req[a].at \in Locked => lock
    /\ \A a, b \in Requests : req[a].at \in Locked /\ req[b].at \in Locked => a = b

\* An import or a restore from its validation up to the replacement.
Underway == {"check", "clear", "vacuum", "raw", "copy", "swap"}

\* What a request is about to put in place of the live database, and what is kept
\* meanwhile.
Sources ==
    /\ \A a \in Requests : req[a].at \in Underway => req[a].to \in Names /\ req[a].from \in Uploads \cup {None}
    /\ \A a \in Requests : req[a].at \in Underway \ {"check"} => Source(a) \in Content
    /\ \A a \in Requests : req[a].at = "raw" => req[a].to = "broken"
    /\ InGap => owed \subseteq Copied

MInv == MaintenanceTypeOK /\ OneAtATime /\ Sources /\ DiscardsNothing

-----------------------------------------------------------------------------
\* The databases an upload or a reset can put in place are readable, and no file
\* is taken for another one.
LEMMA UploadsReadable ==
    /\ Dump \in Content /\ Fresh \in Content /\ Hollow \in Content
    /\ Uploads \subseteq File /\ Content \subseteq File /\ None \in File /\ Bad \in File
    /\ Bad \notin Content /\ None \notin Content
BY FileAssumption DEF Dump, Fresh, Hollow, Content, Uploads, File

\* Rows are added to a database, or its schema changed, without breaking it.
LEMMA StaysReadable ==
    ASSUME NEW f \in Content, NEW S \in SUBSET Writes
    PROVE  /\ [f EXCEPT !.writes = @ \cup S] \in Content
           /\ [f EXCEPT !.writes = S] \in Content
           /\ [f EXCEPT !.writes = S, !.whole = FALSE] \in Content
           /\ [f EXCEPT !.whole = TRUE] \in Content
           /\ [f EXCEPT !.cur = TRUE, !.whole = TRUE] \in Content
BY DEF Content

\* The rows of a file are writes.
LEMMA RowsAreWrites == ASSUME NEW f PROVE RowsOf(f) \subseteq Writes
BY DEF RowsOf, Content

\* There are two safety copies, and writing the one leaves the other.
LEMMA TwoCopies ==
    ASSUME copies \in [Names -> File], NEW n \in Names
    PROVE  /\ n = "bak" \/ n = "broken"
           /\ Besides(n) = RowsOf(db) \cup (IF n = "bak" THEN RowsOf(copies["broken"])
                                                         ELSE RowsOf(copies["bak"]))
<1>1. CASE n = "bak"
  <2>1. (CHOOSE m \in Names : m # n) = "broken"
    BY <1>1 DEF Names
  <2> QED BY <1>1, <2>1 DEF Besides
<1>2. CASE n = "broken"
  <2>1. (CHOOSE m \in Names : m # n) = "bak"
    BY <1>2 DEF Names
  <2> QED BY <1>2, <2>1 DEF Besides
<1> QED BY <1>1, <1>2 DEF Names

\* A request goes on, or ends: the others are where they were.
LEMMA GotoType ==
    ASSUME MaintenanceTypeOK, NEW a \in Requests, NEW pc \in Locked, Goto(a, pc)
    PROVE  /\ req' \in [Requests -> Request]
           /\ req'[a].at = pc /\ req'[a].from = req[a].from /\ req'[a].to = req[a].to
           /\ \A b \in Requests \ {a} : req'[b] = req[b]
           /\ lock' = lock
BY DEF MaintenanceTypeOK, Goto, Request

\* A request that ends leaves the others alone.
LEMMA EndType ==
    ASSUME MaintenanceTypeOK, NEW a \in Requests, EndRequest(a)
    PROVE  /\ req' \in [Requests -> Request]
           /\ req'[a].at = "idle"
           /\ \A b \in Requests \ {a} : req'[b] = req[b]
           /\ lock' = FALSE
BY DEF MaintenanceTypeOK, EndRequest, NoRequest, Doing, Request, File

\* A request takes the lock.
LEMMA TakeType ==
    ASSUME MaintenanceTypeOK, NEW a \in Requests, NEW pc \in Locked, NEW f \in File,
           NEW n \in Names \cup {"none"}, TakeLock(a, pc, f, n)
    PROVE  /\ req' \in [Requests -> Request]
           /\ req[a].at = "idle"
           /\ req'[a].at = pc /\ req'[a].from = f /\ req'[a].to = n
           /\ \A b \in Requests \ {a} : req'[b] = req[b]
           /\ ~lock /\ lock' = TRUE
           /\ UNCHANGED <<db, copies, reset, owed, crashes>>
BY DEF MaintenanceTypeOK, TakeLock, NoRequest, Doing, Request

\* The only request at work on the files.
LEMMA Alone ==
    ASSUME OneAtATime, NEW a \in Requests, req[a].at \in Locked
    PROVE  \A b \in Requests \ {a} : req[b].at \notin Locked
BY DEF OneAtATime

\* A new installation.
LEMMA MaintenanceBegins == MaintenanceInit => MInv
<1> SUFFICES ASSUME MaintenanceInit PROVE MInv
  OBVIOUS
<1>1. \A a \in Requests : req[a] = NoRequest /\ req[a].at = "idle"
  BY DEF MaintenanceInit, NoRequest, Doing
<1>2. NoRequest \in Request
  BY DEF NoRequest, Doing, Request, File
<1>3. MaintenanceTypeOK
  <2>1. crashes \in 0..MaxCrashes
    BY CrashAssumption DEF MaintenanceInit
  <2>2. db \in File /\ copies \in [Names -> File] /\ req \in [Requests -> Request]
    BY <1>2, UploadsReadable DEF MaintenanceInit
  <2> QED BY <2>1, <2>2 DEF MaintenanceInit, MaintenanceTypeOK
<1>4. OneAtATime /\ Sources /\ DiscardsNothing
  BY <1>1 DEF MaintenanceInit, OneAtATime, Sources, InGap, Locked, Underway, DiscardsNothing
<1> QED BY <1>3, <1>4 DEF MInv

\* Every step of an import, a restore, an export, a write, a reset or a restart
\* (admin_settings.py, sqlite_tools.py) leaves files of the same kinds.
LEMMA TypeStep == ASSUME MInv, [MaintenanceNext]_maintenanceVars PROVE MaintenanceTypeOK'
<1> USE DEF MInv, MaintenanceTypeOK
<1>0. /\ db \in File /\ {"bak", "broken"} = Names
      /\ \A a \in Requests : req[a].at \in Underway => req[a].to \in Names
  BY DEF Names, Sources
<1>a. ASSUME NEW a \in Requests, NEW f \in File, req[a].at \in Underway,
             copies' = [copies EXCEPT ![req[a].to] = f]
      PROVE  copies' \in [Names -> File]
  BY <1>a
<1>1. ASSUME NEW w \in Writes, Write(w) PROVE MaintenanceTypeOK'
  <2>1. db' \in Content /\ owed' \subseteq Writes
    BY <1>1 DEF Write, Content
  <2> QED BY <1>1, <2>1, UploadsReadable DEF Write
<1>2. CASE Opened
  BY <1>2, UploadsReadable DEF Opened
<1>3. ASSUME NEW a \in Requests, Export(a) PROVE MaintenanceTypeOK'
  BY <1>3, TakeType, UploadsReadable DEF Export, Locked
<1>4. ASSUME NEW a \in Requests, Exported(a) PROVE MaintenanceTypeOK'
  <2>1. req' \in [Requests -> Request] /\ lock' \in BOOLEAN
    BY <1>4, EndType DEF Exported, Request
  <2> QED BY <1>4, <2>1 DEF Exported
<1>5. ASSUME NEW a \in Requests, Sent(a) PROVE MaintenanceTypeOK'
  BY <1>5, UploadsReadable DEF Sent, NoRequest, Doing, Request
<1>6. ASSUME NEW a \in Requests, NEW f \in Uploads, Import(a, f) PROVE MaintenanceTypeOK'
  BY <1>6, <1>0, TakeType, UploadsReadable DEF Import, Locked
<1>7. ASSUME NEW a \in Requests, Restore(a) PROVE MaintenanceTypeOK'
  BY <1>7, <1>0, TakeType, UploadsReadable DEF Restore, Locked
<1>8. ASSUME NEW a \in Requests, Checked(a) PROVE MaintenanceTypeOK'
  BY <1>8, GotoType, EndType DEF Checked, Locked
<1>9. ASSUME NEW a \in Requests, Cleared(a) PROVE MaintenanceTypeOK'
  <2>1. copies' \in [Names -> File] /\ owed' \subseteq Writes
    BY <1>9, UploadsReadable DEF Cleared
  <2> QED BY <1>9, <2>1, GotoType DEF Cleared, Locked
<1>10. ASSUME NEW a \in Requests, Vacuumed(a) PROVE MaintenanceTypeOK'
  <2>1. copies' \in [Names -> File]
    BY <1>10 DEF Vacuumed
  <2> QED BY <1>10, <2>1, GotoType DEF Vacuumed, Locked
<1>11. ASSUME NEW a \in Requests, VacuumFails(a) PROVE MaintenanceTypeOK'
  <2>1. copies' \in [Names -> File]
    BY <1>11, UploadsReadable DEF VacuumFails
  <2> QED BY <1>11, <2>1, GotoType, EndType DEF VacuumFails, Locked
<1>12. ASSUME NEW a \in Requests, RawCopied(a) PROVE MaintenanceTypeOK'
  <2>1. Torn(db) \subseteq File
    <3>1. ASSUME db \in Content, NEW S \in SUBSET db.writes PROVE [db EXCEPT !.writes = S] \in Content
      BY <3>1 DEF Content
    <3> QED BY <3>1, UploadsReadable DEF Torn
  <2>2. copies' \in [Names -> File] /\ owed' \subseteq Writes
    BY <1>12, <2>1 DEF RawCopied
  <2> QED BY <1>12, <2>2, GotoType DEF RawCopied, Locked
<1>13. ASSUME NEW a \in Requests, RawFails(a) PROVE MaintenanceTypeOK'
  <2>1. copies' \in [Names -> File] /\ owed' \subseteq Writes
    BY <1>0, <1>13, UploadsReadable DEF RawFails
  <2> QED BY <1>13, <2>1, EndType DEF RawFails
<1>14. ASSUME NEW a \in Requests, Replaced(a) PROVE MaintenanceTypeOK'
  <2>1. db' \in File
    BY <1>14, UploadsReadable DEF Replaced, Sources, Underway
  <2> QED BY <1>14, <2>1, GotoType DEF Replaced, Locked
<1>15. ASSUME NEW a \in Requests, StaysLocked(a) PROVE MaintenanceTypeOK'
  BY <1>15, EndType, RowsAreWrites DEF StaysLocked
<1>16. ASSUME NEW a \in Requests, Removed(a) PROVE MaintenanceTypeOK'
  BY <1>16, GotoType, UploadsReadable DEF Removed, Locked
<1>17. ASSUME NEW a \in Requests, Swapped(a) PROVE MaintenanceTypeOK'
  <2>1. db' \in File
    BY <1>17, UploadsReadable DEF Swapped, Sources, Underway
  <2> QED BY <1>17, <2>1, GotoType DEF Swapped, Locked
<1>18. ASSUME NEW a \in Requests, SwapFails(a) PROVE MaintenanceTypeOK'
  BY <1>18, EndType, RowsAreWrites, UploadsReadable DEF SwapFails
<1>19. ASSUME NEW a \in Requests, Migrated(a) PROVE MaintenanceTypeOK'
  <2>1. db' \in File
    BY <1>19, UploadsReadable DEF Migrated, Updated
  <2> QED BY <1>19, <2>1, EndType DEF Migrated
<1>20. CASE Reset \/ ResetFails
  BY <1>20 DEF Reset, ResetFails
<1>21. ASSUME db \in Content, NEW f \in Dismantled(db), Dropped(f) PROVE MaintenanceTypeOK'
  <2>1. f \in Content
    BY <1>21, UploadsReadable DEF Dismantled, Content
  <2> QED BY <1>21, <2>1, UploadsReadable DEF Dropped
<1>22. CASE Created
  <2>1. db' \in Content
    BY <1>22 DEF Created, Content
  <2> QED BY <1>22, <2>1, UploadsReadable DEF Created
<1>23. CASE Crash
  <2>1. db' \in File
    BY <1>23, UploadsReadable DEF Crash, Content
  <2>2. req' \in [Requests -> Request] /\ crashes' \in 0..MaxCrashes
    BY <1>23, UploadsReadable, CrashAssumption DEF Crash, NoRequest, Doing, Request
  <2> QED BY <1>23, <2>1, <2>2, RowsAreWrites DEF Crash
<1>24. CASE UNCHANGED maintenanceVars
  BY <1>24 DEF maintenanceVars
<1> QED
  BY <1>1, <1>2, <1>3, <1>4, <1>5, <1>6, <1>7, <1>8, <1>9, <1>10, <1>11, <1>12, <1>13, <1>14,
     <1>15, <1>16, <1>17, <1>18, <1>19, <1>20, <1>21, <1>22, <1>23, <1>24 DEF MaintenanceNext

\* The lock is taken when a request begins its work on the files, and given back
\* by that request alone (try_lock, unlock, sqlite_tools.py).
LEMMA LockStep == ASSUME MInv, [MaintenanceNext]_maintenanceVars PROVE OneAtATime'
<1> USE DEF MInv, OneAtATime
<1>a. ASSUME NEW a \in Requests, NEW pc \in Locked, NEW f \in File, NEW n \in Names \cup {"none"},
             TakeLock(a, pc, f, n)
      PROVE  OneAtATime'
  BY <1>a, TakeType
<1>b. ASSUME NEW a \in Requests, req[a].at \in Locked, NEW pc \in Locked, Goto(a, pc)
      PROVE  OneAtATime'
  BY <1>b, GotoType
<1>c. ASSUME NEW a \in Requests, req[a].at \in Locked, EndRequest(a)
      PROVE  OneAtATime'
  BY <1>c, EndType DEF Locked
<1>1. ASSUME UNCHANGED <<req, lock>> PROVE OneAtATime'
  BY <1>1
<1>2. CASE Opened \/ Reset \/ Created \/ ResetFails \/ (\E w \in Writes : Write(w)) \/ (\E f : Dropped(f))
  BY <1>1, <1>2 DEF Opened, Reset, Created, ResetFails, Write, Dropped
<1>3. ASSUME NEW a \in Requests, Export(a) PROVE OneAtATime'
  BY <1>3, <1>a, UploadsReadable DEF Export, Locked
<1>4. ASSUME NEW a \in Requests, Exported(a) PROVE OneAtATime'
  <2>1. req[a].at \in Locked
    BY <1>4 DEF Exported, Locked
  <2>2. CASE lock' = FALSE /\ req' = [req EXCEPT ![a].at = "stream"]
    <3>1. req'[a].at = "stream" /\ \A b \in Requests \ {a} : req'[b] = req[b]
      BY <2>2 DEF MaintenanceTypeOK, Request
    <3> QED BY <2>1, <3>1 DEF Locked
  <2> QED BY <1>4, <2>1, <2>2, <1>c DEF Exported
<1>5. ASSUME NEW a \in Requests, Sent(a) PROVE OneAtATime'
  BY <1>5 DEF Sent, NoRequest, Doing, Locked, MaintenanceTypeOK
<1>6. ASSUME NEW a \in Requests, NEW f \in Uploads, Import(a, f) PROVE OneAtATime'
  BY <1>6, <1>a, UploadsReadable DEF Import, Locked, Names
<1>7. ASSUME NEW a \in Requests, Restore(a) PROVE OneAtATime'
  BY <1>7, <1>a, UploadsReadable DEF Restore, Locked, Names
<1>8. ASSUME NEW a \in Requests,
             Checked(a) \/ Cleared(a) \/ Vacuumed(a) \/ VacuumFails(a) \/ RawCopied(a) \/ RawFails(a)
      PROVE  OneAtATime'
  BY <1>8, <1>b, <1>c DEF Checked, Cleared, Vacuumed, VacuumFails, RawCopied, RawFails, Locked
<1>9. ASSUME NEW a \in Requests,
             \/ Replaced(a) \/ StaysLocked(a) \/ Removed(a) \/ Swapped(a) \/ SwapFails(a)
             \/ Migrated(a)
      PROVE  OneAtATime'
  BY <1>9, <1>b, <1>c DEF Replaced, StaysLocked, Removed, Swapped, SwapFails, Migrated, Locked
<1>10. CASE Crash
  BY <1>10 DEF Crash, NoRequest, Doing, Locked
<1>11. CASE UNCHANGED maintenanceVars
  BY <1>1, <1>11 DEF maintenanceVars
<1> QED
  BY <1>2, <1>3, <1>4, <1>5, <1>6, <1>7, <1>8, <1>9, <1>10, <1>11 DEF MaintenanceNext

\* What is going to be put in place of the live database is an upload found
\* readable or the copy beside it, and stays that until then; and from the safety
\* copy on nobody needs the live database for a row that is owed (db_import,
\* db_restore_bak, snapshot_db).
LEMMA SourceStep ==
    ASSUME MInv, DiscardsNothing', [MaintenanceNext]_maintenanceVars
    PROVE  Sources'
<1> USE DEF MInv
<1>0. ASSUME NEW a \in Requests, req[a].at \in Locked
      PROVE  \A b \in Requests \ {a} : req[b].at \notin Locked
  BY <1>0, Alone
<1>l. Underway \subseteq Locked /\ {"copy", "swap", "raw"} \subseteq Underway
  BY DEF Underway, Locked
<1>a. ASSUME NEW a \in Requests, req[a].at \in Locked, EndRequest(a)
      PROVE  Sources'
  <2>1. \A b \in Requests : req'[b].at \notin Underway
    BY <1>a, <1>0, <1>l, EndType DEF Underway
  <2> QED BY <2>1, <1>l DEF Sources, InGap
\* A request alone at work goes on.
<1>b. ASSUME NEW a \in Requests, req[a].at \in Underway, NEW pc \in Locked, Goto(a, pc),
             pc = "raw" => req[a].to = "broken",
             pc \in Underway \ {"check"} => Source(a)' \in Content,
             pc \in {"copy", "swap"} => (owed \subseteq Copied)'
      PROVE  Sources'
  <2>1. /\ req'[a].at = pc /\ req'[a].from = req[a].from /\ req'[a].to = req[a].to
        /\ \A b \in Requests \ {a} : req'[b].at \notin Underway
    BY <1>b, <1>0, <1>l, GotoType
  <2>2. req[a].to \in Names /\ req[a].from \in Uploads \cup {None}
    BY <1>b DEF Sources
  <2> QED BY <1>b, <2>1, <2>2, <1>l DEF Sources, InGap, Underway
<1>c. ASSUME NEW a \in Requests, NEW pc \in {"check", "export"}, NEW f \in Uploads \cup {None},
             NEW n \in Names \cup {"none"}, pc = "check" => n \in Names,
             TakeLock(a, pc, f, n)
      PROVE  Sources'
  <2>1. pc \in Locked /\ f \in File
    BY UploadsReadable DEF Locked
  <2>2. /\ req'[a].at = pc /\ req'[a].from = f /\ req'[a].to = n
        /\ \A b \in Requests \ {a} : req'[b].at \notin Underway
    <3>1. /\ ~lock
          /\ req'[a].at = pc /\ req'[a].from = f /\ req'[a].to = n
          /\ \A b \in Requests \ {a} : req'[b] = req[b]
      BY <1>c, <2>1, TakeType
    <3>2. \A b \in Requests : req[b].at \notin Underway
      BY <3>1, <1>l DEF OneAtATime
    <3> QED BY <3>1, <3>2
  <2> QED BY <1>c, <2>2 DEF Sources, InGap, Underway
\* Nobody's request changes.
<1>d. ASSUME UNCHANGED <<req, copies>>, InGap => owed' \subseteq owed \cup Copied
      PROVE  Sources'
  BY <1>d DEF Sources, Source, InGap, Copied, RowsOf
<1>1. ASSUME NEW w \in Writes, Write(w) PROVE Sources'
  BY <1>1, <1>d DEF Write
<1>2. CASE Opened \/ Reset \/ Created \/ ResetFails
  BY <1>2, <1>d DEF Opened, Reset, Created, ResetFails
<1>3. ASSUME NEW a \in Requests, Export(a) PROVE Sources'
  BY <1>3, <1>c DEF Export
<1>4. ASSUME NEW a \in Requests, Exported(a) PROVE Sources'
  <2>1. req[a].at \in Locked
    BY <1>4 DEF Exported, Locked
  <2>2. CASE lock' = FALSE /\ req' = [req EXCEPT ![a].at = "stream"]
    <3>1. req'[a].at = "stream" /\ \A b \in Requests \ {a} : req'[b] = req[b]
      BY <2>2 DEF MaintenanceTypeOK, Request
    <3>2. \A b \in Requests : req'[b].at \notin Underway
      BY <2>1, <3>1, <1>0, <1>l DEF Underway
    <3> QED BY <3>2, <1>l DEF Sources, InGap
  <2> QED BY <1>4, <2>1, <2>2, <1>a DEF Exported
<1>5. ASSUME NEW a \in Requests, Sent(a) PROVE Sources'
  <2>1. req'[a].at = "idle" /\ \A b \in Requests \ {a} : req'[b] = req[b]
    BY <1>5 DEF Sent, NoRequest, Doing, MaintenanceTypeOK
  <2>2. UNCHANGED <<copies, owed>>
    BY <1>5 DEF Sent
  <2> QED BY <2>1, <2>2 DEF Sources, Source, InGap, Underway, Copied, RowsOf
<1>6. ASSUME NEW a \in Requests, NEW f \in Uploads, Import(a, f) PROVE Sources'
  BY <1>6, <1>c DEF Import, Names
<1>7. ASSUME NEW a \in Requests, Restore(a) PROVE Sources'
  BY <1>7, <1>c DEF Restore, Names
<1>8. ASSUME NEW a \in Requests, Checked(a) PROVE Sources'
  <2>1. CASE Source(a) \in Content /\ Goto(a, "clear")
    <3>1. Source(a)' = Source(a)
      BY <1>8, <2>1, GotoType DEF Source, Checked, Locked
    <3> QED BY <1>8, <2>1, <3>1, <1>b DEF Checked, Underway, Locked
  <2> QED BY <1>8, <2>1, <1>a DEF Checked, Locked
\* The copy that is written is not the one that is restored.
<1>e. ASSUME NEW a \in Requests, req[a].at \in Underway \ {"check"}, NEW pc \in Locked, Goto(a, pc),
             \A n \in Names : n # req[a].to => copies'[n] = copies[n]
      PROVE  Source(a)' \in Content
  <2>1. req'[a].from = req[a].from /\ req'[a].to = req[a].to
    BY <1>e, GotoType
  <2>2. Source(a) \in Content /\ req[a].to \in Names
    BY <1>e DEF Sources
  <2>3. CASE req[a].to = "broken"
    BY <1>e, <2>1, <2>2, <2>3 DEF Source, Names
  <2>4. CASE req[a].to # "broken"
    BY <2>1, <2>2, <2>4 DEF Source
  <2> QED BY <2>3, <2>4
<1>9. ASSUME NEW a \in Requests, Cleared(a) PROVE Sources'
  <2>1. \A n \in Names : n # req[a].to => copies'[n] = copies[n]
    BY <1>9 DEF Cleared, MaintenanceTypeOK
  <2> QED BY <1>9, <2>1, <1>b, <1>e DEF Cleared, Underway, Locked
<1>10. ASSUME NEW a \in Requests, Vacuumed(a) PROVE Sources'
  <2>1. \A n \in Names : n # req[a].to => copies'[n] = copies[n]
    BY <1>10 DEF Vacuumed, MaintenanceTypeOK
  <2>2. req[a].to \in Names /\ req[a].at \in Underway
    BY <1>10 DEF Vacuumed, Sources, Underway
  <2>3. copies'[req[a].to] = db /\ owed' = owed /\ db' = db
    BY <1>10, <2>2 DEF Vacuumed, MaintenanceTypeOK
  <2>4. (owed \subseteq Copied)'
    BY <2>1, <2>2, <2>3 DEF DiscardsNothing, Held, Copied, Names, RowsOf
  <2> QED BY <1>10, <2>1, <2>4, <1>b, <1>e DEF Vacuumed, Underway, Locked
<1>11. ASSUME NEW a \in Requests, VacuumFails(a) PROVE Sources'
  <2>1. \A n \in Names : n # req[a].to => copies'[n] = copies[n]
    BY <1>11 DEF VacuumFails, MaintenanceTypeOK
  <2>2. req[a].to \in Names /\ req[a].at \in Underway \ {"check"}
    BY <1>11 DEF VacuumFails, Sources, Underway
  <2>3. CASE EndRequest(a)
    BY <2>2, <2>3, <1>a, <1>l
  <2>4. CASE req[a].to # "bak" /\ Goto(a, "raw")
    BY <2>1, <2>2, <2>4, <1>b, <1>e DEF Locked, Names
  <2> QED BY <1>11, <2>3, <2>4 DEF VacuumFails
<1>12. ASSUME NEW a \in Requests, RawCopied(a) PROVE Sources'
  <2>1. PICK f \in Torn(db) : /\ copies' = [copies EXCEPT !["broken"] = f]
                              /\ owed' = owed \cap (RowsOf(f) \cup RowsOf(copies["bak"]))
    BY <1>12 DEF RawCopied
  <2>2. req[a].to = "broken" /\ req[a].at \in Underway \ {"check"}
    BY <1>12 DEF RawCopied, Sources, Underway
  <2>3. \A n \in Names : n # req[a].to => copies'[n] = copies[n]
    BY <2>1, <2>2 DEF MaintenanceTypeOK
  <2>4. copies'["broken"] = f /\ copies'["bak"] = copies["bak"]
    BY <2>1 DEF MaintenanceTypeOK, Names
  <2>5. (owed \subseteq Copied)'
    BY <2>1, <2>4 DEF Copied, RowsOf
  <2> QED BY <1>12, <2>2, <2>3, <2>5, <1>b, <1>e DEF RawCopied, Underway, Locked
<1>13. ASSUME NEW a \in Requests, RawFails(a) \/ StaysLocked(a) \/ SwapFails(a) \/ Migrated(a)
       PROVE  Sources'
  BY <1>13, <1>a DEF RawFails, StaysLocked, SwapFails, Migrated, Locked
<1>14. ASSUME NEW a \in Requests, Replaced(a) \/ Swapped(a) PROVE Sources'
  BY <1>14, <1>b DEF Replaced, Swapped, Underway, Locked
<1>15. ASSUME NEW a \in Requests, Removed(a) PROVE Sources'
  <2>1. req[a].at = "copy" /\ Goto(a, "swap") /\ UNCHANGED <<copies, owed>>
    BY <1>15 DEF Removed
  <2>2. Source(a)' \in Content
    BY <2>1, <1>e DEF Underway, Locked
  <2>3. (owed \subseteq Copied)'
    BY <2>1 DEF Sources, InGap, Copied, RowsOf
  <2> QED BY <2>1, <2>2, <2>3, <1>b DEF Underway, Locked
<1>16. ASSUME NEW f, Dropped(f) PROVE Sources'
  BY <1>16, <1>d DEF Dropped
<1>17. CASE Crash
  BY <1>17 DEF Crash, NoRequest, Doing, Sources, InGap, Underway
<1>18. CASE UNCHANGED maintenanceVars
  BY <1>18, <1>d DEF maintenanceVars
<1> QED
  BY <1>1, <1>2, <1>3, <1>4, <1>5, <1>6, <1>7, <1>8, <1>9, <1>10, <1>11, <1>12, <1>13, <1>14,
     <1>15, <1>16, <1>17, <1>18 DEF MaintenanceNext

\* A row that is owed stays in some file through every step (db_import,
\* db_restore_bak, db_reset).
LEMMA KeepsOwed == ASSUME MInv, [MaintenanceNext]_maintenanceVars PROVE DiscardsNothing'
<1> USE DEF MInv, DiscardsNothing
\* The files stay, or the live database loses nothing.
<1>a. ASSUME UNCHANGED copies, owed' \subseteq owed \cup RowsOf(db'), RowsOf(db) \subseteq RowsOf(db')
      PROVE  DiscardsNothing'
  BY <1>a DEF Held, Copied, RowsOf
\* The copies have what is owed.
<1>b. ASSUME UNCHANGED copies, InGap, owed' \subseteq owed \cup RowsOf(db') PROVE DiscardsNothing'
  BY <1>b DEF Sources, Held, Copied, RowsOf
<1>c. ASSUME UNCHANGED <<db, copies, owed>> PROVE DiscardsNothing'
  BY <1>c DEF Held, Copied, RowsOf
<1>1. ASSUME NEW w \in Writes, Write(w) PROVE DiscardsNothing'
  <2>1. db' \in Content /\ db'.writes = db.writes \cup {w}
    BY <1>1 DEF Write, Content
  <2>2. RowsOf(db') = RowsOf(db) \cup {w} /\ UNCHANGED copies /\ owed' \subseteq owed \cup {w}
    BY <1>1, <2>1 DEF Write, RowsOf
  <2> QED BY <2>2, <1>a
<1>2. CASE Opened
  BY <1>2, <1>a, UploadsReadable DEF Opened, RowsOf
<1>3. ASSUME NEW a \in Requests,
             \/ Export(a) \/ Exported(a) \/ Sent(a) \/ Checked(a) \/ Restore(a)
             \/ \E f \in Uploads : Import(a, f)
      PROVE  DiscardsNothing'
  BY <1>3, <1>c DEF Export, Exported, Sent, Import, Checked, Restore, TakeLock
<1>4. ASSUME NEW a \in Requests, Cleared(a) PROVE DiscardsNothing'
  <2>1. req[a].to \in Names /\ copies \in [Names -> File]
    BY <1>4 DEF Cleared, Sources, Underway, MaintenanceTypeOK
  <2>2. CASE copies' = [copies EXCEPT ![req[a].to] = None] /\ owed' = owed \cap Besides(req[a].to)
    <3>1. \A n \in Names : n # req[a].to => copies'[n] = copies[n]
      BY <2>1, <2>2
    <3>2. UNCHANGED db
      BY <1>4 DEF Cleared
    <3> QED BY <2>1, <2>2, <3>1, <3>2, TwoCopies DEF Held, Copied, Names, RowsOf
  <2> QED BY <1>4, <2>2, <1>c DEF Cleared
<1>5. ASSUME NEW a \in Requests, Vacuumed(a) \/ VacuumFails(a) PROVE DiscardsNothing'
  <2>1. req[a].to \in Names /\ copies \in [Names -> File]
    BY <1>5 DEF Vacuumed, VacuumFails, Sources, Underway, MaintenanceTypeOK
  <2>2. CASE UNCHANGED <<db, copies, owed>>
    BY <2>2, <1>c
  <2>3. ASSUME NEW f, copies[req[a].to] = None, copies' = [copies EXCEPT ![req[a].to] = f],
               UNCHANGED <<db, owed>>
        PROVE  DiscardsNothing'
    <3>1. RowsOf(copies[req[a].to]) = {}
      BY <2>3, UploadsReadable DEF RowsOf
    <3>2. \A n \in Names : n # req[a].to => copies'[n] = copies[n]
      BY <2>1, <2>3
    <3> QED BY <2>1, <2>3, <3>1, <3>2 DEF Held, Copied, Names, RowsOf
  <2> QED BY <1>5, <2>2, <2>3 DEF Vacuumed, VacuumFails
<1>6. ASSUME NEW a \in Requests, RawCopied(a) PROVE DiscardsNothing'
  <2>1. PICK f \in Torn(db) : /\ copies' = [copies EXCEPT !["broken"] = f]
                              /\ owed' = owed \cap (RowsOf(f) \cup RowsOf(copies["bak"]))
    BY <1>6 DEF RawCopied
  <2>2. copies'["broken"] = f /\ copies'["bak"] = copies["bak"]
    BY <2>1 DEF MaintenanceTypeOK, Names
  <2> QED BY <2>1, <2>2 DEF Held, Copied, RowsOf
<1>7. ASSUME NEW a \in Requests, RawFails(a) PROVE DiscardsNothing'
  <2>1. "broken" \in Names /\ copies \in [Names -> File]
    BY DEF Names, MaintenanceTypeOK
  <2>2. copies'["bak"] = copies["bak"] /\ owed' = owed \cap Besides("broken") /\ UNCHANGED db
    BY <1>7, <2>1 DEF RawFails, Names
  <2> QED BY <2>1, <2>2, TwoCopies DEF Held, Copied, RowsOf
<1>8. ASSUME NEW a \in Requests, Replaced(a) \/ Removed(a) \/ Swapped(a) \/ SwapFails(a)
      PROVE  DiscardsNothing'
  BY <1>8, <1>b DEF Replaced, Removed, Swapped, SwapFails, InGap
<1>9. ASSUME NEW a \in Requests, StaysLocked(a) PROVE DiscardsNothing'
  BY <1>9, <1>a DEF StaysLocked
<1>10. ASSUME NEW a \in Requests, Migrated(a) PROVE DiscardsNothing'
  BY <1>10, <1>a DEF Migrated, Updated, RowsOf
<1>11. CASE Reset \/ ResetFails
  BY <1>11, <1>c DEF Reset, ResetFails
<1>12. ASSUME db \in Content, NEW f \in Dismantled(db), Dropped(f) PROVE DiscardsNothing'
  <2>1. f \in Content
    BY <1>12, UploadsReadable DEF Dismantled, Content
  <2>2. RowsOf(db') = f.writes /\ UNCHANGED copies /\ owed' = owed \cap (f.writes \cup Copied)
    BY <1>12, <2>1 DEF Dropped, RowsOf
  <2> QED BY <2>2 DEF Held, Copied, RowsOf
<1>13. CASE Created
  <2>1. db' \in Content /\ db'.writes = db.writes
    BY <1>13 DEF Created, Content
  <2> QED BY <1>13, <2>1, <1>a DEF Created, RowsOf
<1>14. CASE Crash
  <2>1. RowsOf(db) \subseteq RowsOf(db')
    <3>1. CASE db \in Content
      <4>1. db' \in Content /\ db'.writes = db.writes
        BY <1>14, <3>1 DEF Crash, Content
      <4> QED BY <4>1, <3>1 DEF RowsOf
    <3> QED BY <3>1 DEF RowsOf
  <2> QED BY <1>14, <2>1, <1>a DEF Crash
<1>15. CASE UNCHANGED maintenanceVars
  BY <1>15, <1>c DEF maintenanceVars
<1> QED
  BY <1>1, <1>2, <1>3, <1>4, <1>5, <1>6, <1>7, <1>8, <1>9, <1>10, <1>11, <1>12, <1>13, <1>14,
     <1>15 DEF MaintenanceNext

\* The invariant holds in every state the maintenance of the database reaches.
LEMMA MaintenanceHolds == MaintenanceSpec => []MInv
<1>1. MInv /\ [MaintenanceNext]_maintenanceVars => MInv'
  BY TypeStep, LockStep, KeepsOwed, SourceStep DEF MInv
<1> QED BY MaintenanceBegins, <1>1, PTL DEF MaintenanceSpec

\* Whatever requests come at the same time, only one export, import or restore
\* works on the database and the copies beside it, and none releases another
\* one's lock (try_lock, unlock).  A reset does not ask for it (db_reset).
THEOREM OnlyOneAtWork == MaintenanceSpec => []OneAtATime
BY MaintenanceHolds, PTL DEF MInv

\* Imports, restores, resets, failures of any of their steps and restarts between
\* them, in any number, lose no row but those given up (db_import, db_restore_bak,
\* db_reset).
THEOREM NothingDiscarded == MaintenanceSpec => []DiscardsNothing
BY MaintenanceHolds, PTL DEF MInv

-----------------------------------------------------------------------------
\* What the requests in progress mean to everybody else.
LEMMA StageOf ==
    ASSUME OneAtATime
    PROVE  /\ \A a \in Requests : req[a].at = "copy" => Stage = "copying"
           /\ \A a \in Requests : req[a].at = "swap" => Stage = "away"
           /\ (\A a \in Requests : req[a].at \notin {"copy", "swap"}) => Stage = "open"
           /\ (\A a \in Requests : req[a].at # "swap") => Stage \in {"open", "copying"}
BY DEF OneAtATime, Stage, Locked

\* Every step is a step of the live database that others see, or none
\* (restore_into_live, snapshot_db, sqlite_tools.py).
LEMMA LiveStep ==
    ASSUME MInv, MInv', [MaintenanceNext]_maintenanceVars
    PROVE  [Live!Next]_<<Seen, Restorable, Stage, reset # "idle">>
<1> USE DEF MInv, Live!Next, Live!Content, Content, Live!Without
<1> DEFINE same == UNCHANGED <<Seen, Restorable, Stage, reset # "idle">>
<1>0. /\ Dump \in Live!Without /\ Fresh \in Live!Without /\ Hollow \in Live!Without
      /\ \A f \in Content : f # None /\ f # Bad
  BY FileAssumption DEF Dump, Fresh, Hollow
<1> USE DEF Seen
\* A request that is at no replacement before and after.
<1>a. ASSUME UNCHANGED <<db, copies, reset>>,
             \A a \in Requests : \A pc \in {"copy", "swap"} : req'[a].at = pc <=> req[a].at = pc
      PROVE  same
  BY <1>a DEF Restorable, Stage
\* The only request at work ends, or goes on.
<1>b. ASSUME NEW a \in Requests, req[a].at \in Locked, EndRequest(a) PROVE Stage' = "open"
  <2>1. req'[a].at = "idle" /\ \A b \in Requests \ {a} : req'[b] = req[b] /\ req[b].at \notin Locked
    BY <1>b, EndType, Alone
  <2>2. \A b \in Requests : req'[b].at \notin {"copy", "swap"}
    BY <2>1 DEF Locked
  <2> QED BY <2>2 DEF Stage
<1>c. ASSUME NEW a \in Requests, req[a].at \in Locked, NEW pc \in Locked, Goto(a, pc)
      PROVE  Stage' = IF pc = "swap" THEN "away" ELSE IF pc = "copy" THEN "copying" ELSE "open"
  <2>1. req'[a].at = pc /\ \A b \in Requests \ {a} : req'[b] = req[b] /\ req[b].at \notin Locked
    BY <1>c, GotoType, Alone
  <2>2. \A b \in Requests \ {a} : req'[b].at \notin {"copy", "swap"}
    BY <2>1 DEF Locked
  <2> QED BY <2>1, <2>2 DEF Stage
<1>s. Seen = IF db = None THEN Bad ELSE db
  OBVIOUS
<1>1. ASSUME NEW w \in Writes, Write(w) PROVE Live!Commit(w)
  <2>1. db \in Content /\ db' = [db EXCEPT !.writes = @ \cup {w}] /\ db' \in Content
    BY <1>1 DEF Write
  <2>2. UNCHANGED <<Restorable, Stage, reset # "idle">>
    BY <1>1 DEF Write, Restorable, Stage
  <2> QED BY <2>1, <2>2, <1>0 DEF Live!Commit
<1>2. CASE Opened
  <2>1. Live!Appear
    BY <1>0, <1>2 DEF Opened, Live!Appear, Restorable, Stage
  <2> QED BY <2>1
<1>3. ASSUME NEW a \in Requests,
             Export(a) \/ Restore(a) \/ \E f \in Uploads : Import(a, f)
      PROVE  same
  <2>1. PICK pc \in {"export", "check"}, f \in File, n \in Names \cup {"none"} : TakeLock(a, pc, f, n)
    BY <1>3, UploadsReadable DEF Export, Restore, Import, Names
  <2>2. pc \in Locked
    BY DEF Locked
  <2>3. /\ req[a].at = "idle" /\ req'[a].at = pc /\ \A b \in Requests \ {a} : req'[b] = req[b]
        /\ UNCHANGED <<db, copies, reset>>
    BY <2>1, <2>2, TakeType
  <2> QED BY <2>3, <1>a
<1>4. ASSUME NEW a \in Requests, Exported(a) \/ Sent(a) \/ Checked(a) PROVE same
  <2>1. /\ req[a].at \notin {"copy", "swap"} /\ req'[a].at \notin {"copy", "swap"}
        /\ \A b \in Requests \ {a} : req'[b] = req[b]
    <3>1. CASE Exported(a)
      BY <3>1, EndType DEF Exported, MaintenanceTypeOK, Request
    <3>2. CASE Sent(a)
      BY <3>2 DEF Sent, NoRequest, Doing, MaintenanceTypeOK
    <3>3. CASE Checked(a)
      BY <3>3, EndType, GotoType DEF Checked, Locked
    <3> QED BY <1>4, <3>1, <3>2, <3>3
  <2> QED BY <1>4, <2>1, <1>a DEF Exported, Sent, Checked
<1>5. ASSUME NEW a \in Requests,
             Cleared(a) \/ Vacuumed(a) \/ VacuumFails(a) \/ RawCopied(a) \/ RawFails(a) \/ StaysLocked(a)
      PROVE  Live!Keep
  <2>1. UNCHANGED <<Seen, reset # "idle">>
    BY <1>5 DEF Cleared, Vacuumed, VacuumFails, RawCopied, RawFails, StaysLocked
  <2>2. Stage' \in {"open", "copying"}
    BY <1>5, <1>b, <1>c DEF Cleared, Vacuumed, VacuumFails, RawCopied, RawFails, StaysLocked, Locked
  <2>3. copies'["bak"] \in {copies["bak"], None, Bad, db}
    BY <1>5 DEF Cleared, Vacuumed, VacuumFails, RawCopied, RawFails, StaysLocked,
                MaintenanceTypeOK, Names
  <2>4. Restorable' \subseteq Restorable \cup {Seen} /\ Restorable' \subseteq Content
    BY <2>3, <1>0, UploadsReadable DEF Restorable
  <2> QED BY <2>1, <2>2, <2>4 DEF Live!Keep
\* What the request puts in place.
<1>d. ASSUME NEW a \in Requests, req[a].at \in {"copy", "swap"}
      PROVE  Source(a) \in Restorable \cup Live!Without /\ Source(a) \in Content
  <2>1. Source(a) \in Content /\ req[a].from \in Uploads \cup {None}
    BY <1>d DEF Sources, Underway
  <2>2. CASE req[a].to = "broken"
    BY <2>1, <2>2 DEF Source, Restorable
  <2>3. CASE req[a].to # "broken"
    <3>1. req[a].from \in {Dump, Fresh, Hollow}
      BY <2>1, <2>3, UploadsReadable DEF Source, Uploads
    <3> QED BY <2>1, <2>3, <3>1, <1>0 DEF Source
  <2> QED BY <2>2, <2>3
<1>6. ASSUME NEW a \in Requests, Replaced(a) PROVE Live!Replace
  <2>1. Stage = "copying" /\ Stage' = "open"
    BY <1>6, <1>c, StageOf DEF Replaced, Locked
  <2>2. Seen' \in Restorable \cup Live!Without /\ UNCHANGED <<Restorable, reset # "idle">>
    BY <1>6, <1>d, <1>0 DEF Replaced, Restorable
  <2> QED BY <2>1, <2>2 DEF Live!Replace
<1>7. ASSUME NEW a \in Requests, Removed(a) PROVE Live!TakeAway
  <2>1. Stage = "copying" /\ Stage' = "away"
    BY <1>7, <1>c, StageOf DEF Removed, Locked
  <2> QED BY <1>7, <2>1 DEF Removed, Live!TakeAway, Restorable
<1>8. ASSUME NEW a \in Requests, Swapped(a) PROVE Live!Replace \/ Live!Lose
  <2>1. Stage = "away" /\ Stage' = "open"
    BY <1>8, <1>c, StageOf DEF Swapped, Locked
  <2>2. UNCHANGED <<Restorable, reset # "idle">>
    BY <1>8 DEF Swapped, Restorable
  <2>3. Seen' \in Restorable \cup Live!Without \/ Seen' = Bad
    BY <1>8, <1>d, <1>0 DEF Swapped
  <2> QED BY <2>1, <2>2, <2>3 DEF Live!Replace, Live!Lose
<1>9. ASSUME NEW a \in Requests, SwapFails(a) PROVE Live!Keep \/ Live!Lose
  <2>1. Stage = "away" /\ Stage' = "open"
    BY <1>9, <1>b, StageOf DEF SwapFails, Locked
  <2>2. UNCHANGED <<Restorable, reset # "idle">>
    BY <1>9 DEF SwapFails, Restorable
  <2>3. CASE db' = db
    BY <2>1, <2>2, <2>3 DEF Live!Keep, Restorable
  <2>4. CASE db' = Bad
    BY <2>1, <2>2, <2>4 DEF Live!Lose
  <2> QED BY <1>9, <2>3, <2>4 DEF SwapFails
<1>10. ASSUME NEW a \in Requests, Migrated(a) PROVE Live!Update \/ same
  <2>1. Stage' = "open" /\ (\A b \in Requests : req[b].at \notin {"copy", "swap"})
    BY <1>10, <1>b, Alone DEF Migrated, Locked
  <2>2. Stage = "open"
    BY <2>1 DEF Stage
  <2>3. UNCHANGED <<Restorable, reset # "idle">>
    BY <1>10 DEF Migrated, Restorable
  <2>4. CASE db' = db
    BY <2>1, <2>2, <2>3, <2>4
  <2>5. CASE db' \in Updated(db)
    BY <2>1, <2>2, <2>3, <2>5, <1>0 DEF Updated, Live!Update, Live!Extends
  <2> QED BY <1>10, <2>4, <2>5 DEF Migrated
<1>11. CASE Reset \/ ResetFails
  <2>1. Live!BeginReset
    BY <1>11 DEF Reset, ResetFails, Live!BeginReset, Restorable, Stage
  <2> QED BY <2>1
<1>12. ASSUME db \in Content, NEW f \in Dismantled(db), Dropped(f) PROVE Live!Dismantle
  <2>1. f \in Content /\ f.writes \subseteq db.writes /\ ~f.whole
    <3>1. CASE f = Hollow
      BY <3>1, UploadsReadable DEF Hollow
    <3>2. ASSUME NEW S \in SUBSET db.writes, f = [db EXCEPT !.writes = S, !.whole = FALSE]
          PROVE  f \in Content /\ f.writes = S /\ f.whole = FALSE
      BY <1>12, <3>2
    <3> QED BY <1>12, <3>1, <3>2 DEF Dismantled
  <2>2. db' = f /\ UNCHANGED <<Restorable, Stage, reset # "idle">> /\ reset # "idle"
    BY <1>12 DEF Dropped, Restorable, Stage
  <2> QED BY <1>12, <2>1, <2>2, <1>0 DEF Live!Dismantle
<1>13. CASE Created
  <2>1. db \in Content /\ db' = [db EXCEPT !.whole = TRUE] /\ db' \in Content
    BY <1>13 DEF Created
  <2>2. UNCHANGED <<Restorable, Stage>> /\ reset' = "idle"
    BY <1>13 DEF Created, Restorable, Stage
  <2>3. Live!Update
    BY <2>1, <2>2, <1>0 DEF Live!Update, Live!Extends
  <2> QED BY <2>3
<1>14. CASE Crash
  <2>1. Stage' = "open" /\ reset' = "idle" /\ UNCHANGED Restorable
    BY <1>14 DEF Crash, Stage, Restorable, NoRequest, Doing
  <2>2. CASE db \in Content
    <3>1. db' = [db EXCEPT !.cur = TRUE, !.whole = TRUE] /\ db' \in Content
      BY <1>14, <2>2 DEF Crash
    <3>2. Live!Extends(db', db) /\ db'.whole
      BY <2>2, <3>1 DEF Live!Extends
    <3>3. Live!Restart
      BY <2>1, <2>2, <3>1, <3>2, <1>0 DEF Live!Restart
    <3> QED BY <3>3
  <2>3. CASE db = None
    <3>1. db' = Fresh
      BY <1>14, <2>3, <1>0 DEF Crash
    <3>2. Live!Restart
      BY <2>1, <2>3, <3>1, <1>0, UploadsReadable DEF Live!Restart, Fresh
    <3> QED BY <3>2
  <2>4. CASE db = Bad
    <3>1. db' = Bad
      BY <1>14, <2>4, FileAssumption DEF Crash
    <3>2. Live!Restart
      BY <2>1, <2>4, <3>1, UploadsReadable DEF Live!Restart
    <3> QED BY <3>2
  <2> QED BY <2>2, <2>3, <2>4 DEF MaintenanceTypeOK, File
<1>15. CASE UNCHANGED maintenanceVars
  BY <1>15 DEF maintenanceVars, Restorable, Stage
<1> QED
  BY <1>1, <1>2, <1>3, <1>4, <1>5, <1>6, <1>7, <1>8, <1>9, <1>10, <1>11, <1>12, <1>13, <1>14,
     <1>15 DEF MaintenanceNext

\* The live database grows by what is committed and is replaced in one step by an
\* upload, a fresh one or the .bak copy; it is missing or partial only while a
\* replacement by file or a reset is at work on it, or has failed since the last
\* start (restore_into_live, db_reset).
THEOREM ImplementsLiveDatabase == MaintenanceSpec => WholeUnlessReplaced
<1>1. MaintenanceInit => Live!Init
  <2> SUFFICES ASSUME MaintenanceInit PROVE Live!Init
    OBVIOUS
  <2>1. Seen = Fresh /\ Restorable = {} /\ reset = "idle"
    BY UploadsReadable DEF MaintenanceInit, Seen, Restorable, Names
  <2>2. Stage = "open"
    BY DEF MaintenanceInit, Stage, NoRequest, Doing
  <2>3. Fresh \in Live!Without /\ Fresh.whole
    BY DEF Fresh, Live!Without, Live!Content
  <2> QED BY <2>1, <2>2, <2>3 DEF Live!Init
<1>2. MInv /\ MInv' /\ [MaintenanceNext]_maintenanceVars
        => [Live!Next]_<<Seen, Restorable, Stage, reset # "idle">>
  BY LiveStep
<1> QED BY MaintenanceHolds, <1>1, <1>2, PTL DEF MaintenanceSpec, WholeUnlessReplaced, Live!Spec

-----------------------------------------------------------------------------
(* Backups *)

Used == {n \in Copies : made[n] # -1}

\* Files that a run in progress has listed for removal, and the others.
Doomed == {n \in Existing : \E r \in Runners : n \in jobs[r].old}
Unlisted == Existing \ Doomed

\* What runs that are over have left unfinished.
Leftover ==
    {n \in Copies : /\ files[n] = "partial"
                    /\ ~\E r \in Runners : jobs[r].at = "copy" /\ jobs[r].file = n}

Since(h) == \E n \in Copies : files[n] = "whole" /\ made[n] >= h

\* The message of this hour has been dealt with, or its failure is counted.
Credited == IF last = -1 THEN hour <= faults ELSE hour - last <= Interval + faults

\* The web's run meets no file that is gone.
WebEnds == jobs["web"].at = "prune" /\ \A m \in jobs["web"].old : files[m] # "none"

Job == [at : {"idle", "copy", "prune"}, file : Copies \cup {0}, old : SUBSET Copies]

BackupTypes ==
    /\ hour \in Nat /\ due \in BOOLEAN /\ last \in Nat \cup {-1}
    /\ files \in [Copies -> {"none", "partial", "whole"}]
    /\ made \in [Copies -> Nat \cup {-1}]
    /\ jobs \in [Runners -> Job]
    /\ faults \in 0..MaxFaults

JobsOK ==
    \A r \in Runners :
        /\ jobs[r].at = "idle" => jobs[r] = Done
        /\ jobs[r].at = "copy" => jobs[r].file \in Used /\ jobs[r].old = {}
        /\ jobs[r].old \subseteq Used

\* Files are numbered in the order of their hours.
InOrder ==
    /\ Existing \subseteq Used
    /\ \A m, n \in Used : m <= n => made[m] <= made[n]
    /\ \A n \in Used : made[n] <= hour
    /\ last <= hour

\* Runs remove the oldest files first.
OldestFirst ==
    \A r \in Runners : \A n \in jobs[r].old : \A k \in Existing :
        /\ k < n => k \in jobs[r].old
        /\ files[n] = "none" => k > n

\* Above every file to be removed there are enough that nobody removes,
EnoughKept == \A n \in Doomed : Cardinality({m \in Unlisted : m > n}) >= MaxKeep

\* more than there can be unfinished ones.
FewLeftover == Cardinality(Leftover) <= faults

\* What a run has copied, or something newer, is there.
Recent ==
    /\ last # -1 => Since(last)
    /\ \A r \in Runners :
          /\ jobs[r].at = "prune" => Since(hour)
          /\ jobs[r].at = "copy" =>
                made[jobs[r].file] = hour /\ (files[jobs[r].file] = "partial" \/ Since(hour))

\* A scheduled run that meets a file already gone leaves it to the web's run, which
\* has removed that file, to note the time.
OnSchedule ==
    /\ IF last = -1 THEN hour <= faults + 1 ELSE hour - last <= Interval + 1 + faults
    /\ ~due => jobs["worker"] = Done /\ (Credited \/ WebEnds)
    /\ (\E n \in jobs["worker"].old : files[n] = "none") => Credited \/ WebEnds

BackupInv ==
    /\ BackupTypes /\ JobsOK /\ InOrder /\ OldestFirst
    /\ EnoughKept /\ FewLeftover /\ Recent /\ OnSchedule

\* A set of files has a first and a last.
LEMMA FirstAndLast ==
    ASSUME NEW T, T \subseteq Copies, T # {}
    PROVE  /\ Max(T) \in T /\ \A n \in T : n <= Max(T)
           /\ Min(T) \in T /\ \A n \in T : Min(T) <= n
<1>1. Copies \subseteq Nat BY DEF Copies
<1>2. \E x \in T : \A y \in T : x <= y
  <2>1. T \subseteq Nat BY <1>1
  <2>2. PICK x \in T : \A y \in T : ~(<<y, x>> \in OpToRel(<, Nat))
    BY <2>1, NatLessThanWellFounded, WFMin
  <2>3. \A y \in T : ~(y < x) BY <2>1, <2>2 DEF OpToRel
  <2>4. QED BY <2>1, <2>3
<1>3. \E x \in T : \A y \in T : y <= x
  <2> DEFINE U == {n \in 0..MaxRuns : MaxRuns - n \in T}
  <2>1. MaxRuns \in Nat BY BackupAssumption
  <2>2. \A y \in T : MaxRuns - y \in U BY <2>1 DEF Copies
  <2>3. U \subseteq Nat /\ U # {} BY <2>1, <2>2
  <2>4. PICK u \in U : \A v \in U : ~(<<v, u>> \in OpToRel(<, Nat))
    BY <2>3, NatLessThanWellFounded, WFMin
  <2>5. \A v \in U : ~(v < u) BY <2>3, <2>4 DEF OpToRel
  <2>6. MaxRuns - u \in T /\ u \in 0..MaxRuns OBVIOUS
  <2>7. \A y \in T : y <= MaxRuns - u
    <3> HIDE DEF U
    <3> QED BY <1>1, <2>1, <2>2, <2>5, <2>6
  <2>8. QED BY <2>6, <2>7
<1>4. Min(T) \in T /\ \A n \in T : Min(T) <= n BY <1>2 DEF Min
<1>5. Max(T) \in T /\ \A n \in T : Max(T) >= n BY <1>1, <1>3 DEF Max
<1>6. QED BY <1>1, <1>4, <1>5

\* Sets of files can be counted.
LEMMA Counted ==
    ASSUME NEW T, T \subseteq Copies
    PROVE  /\ IsFiniteSet(T) /\ Cardinality(T) \in Nat
           /\ \A S : S \subseteq T => Cardinality(S) <= Cardinality(T)
<1>1. IsFiniteSet(Copies) BY BackupAssumption, FS_Interval DEF Copies
<1>2. IsFiniteSet(T) BY <1>1, FS_Subset
<1>3. QED BY <1>2, FS_Subset, FS_CardinalityType

\* The slice takes the oldest and leaves MaxKeep.
LEMMA SliceKeeps ==
    ASSUME NEW E, E \subseteq Copies
    PROVE  /\ TooMany(E) \subseteq E
           /\ \A n \in TooMany(E) : \A k \in E : k < n => k \in TooMany(E)
           /\ \A n \in TooMany(E) : Cardinality({m \in E \ TooMany(E) : m > n}) >= MaxKeep
<1>1. Copies \subseteq Nat /\ MaxKeep \in Nat BY BackupAssumption DEF Copies
<1>2. TooMany(E) \subseteq E BY DEF TooMany
<1>3. ASSUME NEW n \in TooMany(E), NEW k \in E, k < n PROVE k \in TooMany(E)
  <2>1. {m \in E : m > n} \subseteq {m \in E : m > k}
    <3>1. n \in Nat /\ k \in Nat BY <1>1, <1>2, <1>3
    <3>2. \A m \in E : m > n => m > k BY <1>1, <1>3, <3>1
    <3>3. QED BY <3>2
  <2>2. {m \in E : m > k} \subseteq Copies /\ {m \in E : m > n} \subseteq Copies OBVIOUS
  <2>3. Cardinality({m \in E : m > n}) <= Cardinality({m \in E : m > k})
        /\ Cardinality({m \in E : m > n}) \in Nat /\ Cardinality({m \in E : m > k}) \in Nat
    BY <2>1, <2>2, Counted
  <2>4. Cardinality({m \in E : m > n}) >= MaxKeep BY <1>3 DEF TooMany
  <2>5. Cardinality({m \in E : m > k}) >= MaxKeep BY <1>1, <2>3, <2>4
  <2>6. QED BY <1>3, <2>5 DEF TooMany
<1>4. ASSUME NEW n \in TooMany(E)
      PROVE  Cardinality({m \in E \ TooMany(E) : m > n}) >= MaxKeep
  <2> DEFINE l == Max(TooMany(E))
  <2>1. l \in TooMany(E) /\ \A m \in TooMany(E) : m <= l
    BY <1>2, <1>4, FirstAndLast
  <2> HIDE DEF l
  <2>2. {m \in E : m > l} \subseteq {m \in E \ TooMany(E) : m > n}
    <3>1. n \in Nat /\ l \in Nat /\ n <= l BY <1>1, <1>2, <1>4, <2>1
    <3>2. \A m \in E : m > l => m > n /\ m \notin TooMany(E) BY <1>1, <2>1, <3>1
    <3>3. QED BY <3>2
  <2>3. {m \in E : m > l} \subseteq Copies /\ {m \in E \ TooMany(E) : m > n} \subseteq Copies OBVIOUS
  <2>4. Cardinality({m \in E : m > l}) <= Cardinality({m \in E \ TooMany(E) : m > n})
        /\ Cardinality({m \in E : m > l}) \in Nat
        /\ Cardinality({m \in E \ TooMany(E) : m > n}) \in Nat
    BY <2>2, <2>3, Counted
  <2>5. Cardinality({m \in E : m > l}) >= MaxKeep BY <2>1 DEF TooMany
  <2>6. QED BY <1>1, <2>4, <2>5
<1>5. QED BY <1>2, <1>3, <1>4

\* While a run removes files, at most one other copies: one of the files kept
\* above what is removed is complete.
LEMMA CompleteAbove ==
    ASSUME BackupInv, NEW r \in Runners, jobs[r].at = "prune", NEW n \in Doomed
    PROVE  \E m \in Unlisted : m > n /\ files[m] = "whole"
<1> SUFFICES ASSUME \A m \in Unlisted : m > n => files[m] # "whole" PROVE FALSE
  OBVIOUS
<1> USE DEF BackupInv, BackupTypes
<1>1. PICK q \in Runners : \A p \in Runners : p = r \/ p = q BY DEF Runners
<1>0. PICK f : f = jobs[q].file OBVIOUS
<1> DEFINE S == {m \in Unlisted : m > n}
           U == Leftover \cup {f}
<1>2. S \subseteq Copies /\ Leftover \subseteq Copies BY DEF Unlisted, Existing, Leftover
<1>3. S \subseteq U
  <2>1. ASSUME NEW m \in S PROVE m \in U
    <3>1. m \in Copies /\ files[m] = "partial" BY DEF Unlisted, Existing
    <3>2. QED BY <1>0, <1>1, <3>1 DEF Leftover
  <2>2. QED BY <2>1
<1>4. IsFiniteSet(Leftover) /\ Cardinality(Leftover) \in Nat BY <1>2, Counted
<1>5. IsFiniteSet(U) /\ Cardinality(U) <= Cardinality(Leftover) + 1 /\ Cardinality(U) \in Nat
  <2>1. /\ IsFiniteSet(U)
        /\ Cardinality(U) = Cardinality(Leftover) \/ Cardinality(U) = Cardinality(Leftover) + 1
    BY <1>4, FS_AddElement
  <2> HIDE DEF U
  <2>2. QED BY <1>4, <2>1
<1>6. Cardinality(S) <= Cardinality(U) /\ Cardinality(S) \in Nat
  BY <1>2, <1>3, <1>5, FS_Subset, Counted
<1>7. Cardinality(S) >= MaxKeep BY DEF EnoughKept
<1>8. Cardinality(Leftover) <= faults BY DEF FewLeftover
<1> HIDE DEF S, U
<1>9. QED BY <1>4, <1>5, <1>6, <1>7, <1>8, BackupAssumption

\* So the newest complete copy stays.
LEMMA NewestStays ==
    ASSUME BackupInv, NEW r \in Runners, jobs[r].at = "prune", NEW n \in Doomed, NEW h \in Nat,
           Since(h)
    PROVE  \E m \in Copies : m # n /\ files[m] = "whole" /\ made[m] >= h
<1>1. PICK w \in Copies : files[w] = "whole" /\ made[w] >= h BY DEF Since
<1>2. CASE w # n BY <1>1, <1>2
<1>3. CASE w = n
  <2>1. PICK m \in Unlisted : m > n /\ files[m] = "whole" BY CompleteAbove
  <2>2. m \in Used /\ n \in Used /\ m \in Copies /\ n \in Copies
    BY DEF BackupInv, InOrder, Unlisted, Doomed, Existing
  <2>3. made[n] <= made[m] /\ made[n] \in Int /\ made[m] \in Int
    BY <2>1, <2>2 DEF BackupInv, BackupTypes, InOrder, Copies
  <2>4. QED BY <1>1, <1>3, <2>1, <2>2, <2>3 DEF Copies
<1>4. QED BY <1>2, <1>3

\* Nothing has been copied yet.
LEMMA BackupsBegin == BackupsInit => BackupInv
<1> SUFFICES ASSUME BackupsInit PROVE BackupInv OBVIOUS
<1> USE DEF BackupsInit
<1>1. Existing = {} /\ Used = {} /\ Leftover = {} BY DEF Existing, Used, Leftover
<1>2. BackupTypes
  <2>1. Done \in Job BY DEF Done, Job
  <2>2. 0 \in 0..MaxFaults BY BackupAssumption
  <2>3. QED BY <2>1, <2>2 DEF BackupTypes
<1>3. /\ \A r \in Runners : jobs[r] = Done /\ jobs[r].at = "idle" /\ jobs[r].old = {}
      /\ "worker" \in Runners
  BY DEF Done, Runners
<1>4. JobsOK /\ OldestFirst BY <1>3 DEF JobsOK, OldestFirst
<1>5. InOrder /\ EnoughKept BY <1>1 DEF InOrder, EnoughKept, Doomed
<1>6. Recent BY <1>3 DEF Recent
<1>7. OnSchedule BY <1>3 DEF OnSchedule, Credited
<1>8. FewLeftover BY <1>1, FS_EmptySet DEF FewLeftover
<1>9. QED BY <1>2, <1>4, <1>5, <1>6, <1>7, <1>8 DEF BackupInv

\* More files kept are still enough, fewer unfinished ones still few.
LEMMA CountsStay ==
    ASSUME BackupInv, BackupTypes'
    PROVE  /\ Unlisted \subseteq Unlisted' /\ Doomed' \subseteq Doomed => EnoughKept'
           /\ Leftover' \subseteq Leftover /\ faults' >= faults => FewLeftover'
<1>1. \A S, T : S \subseteq T /\ T \subseteq Copies =>
         Cardinality(S) <= Cardinality(T) /\ Cardinality(S) \in Nat /\ Cardinality(T) \in Nat
  BY Counted
<1>2. Unlisted' \subseteq Copies /\ Leftover \subseteq Copies BY DEF Unlisted, Existing, Leftover
<1>3. ASSUME Unlisted \subseteq Unlisted', Doomed' \subseteq Doomed, NEW n \in Doomed'
      PROVE  Cardinality({m \in Unlisted' : m > n}) >= MaxKeep
  <2>1. PICK S, T : S = {m \in Unlisted : m > n} /\ T = {m \in Unlisted' : m > n} OBVIOUS
  <2>2. S \subseteq T /\ T \subseteq Copies BY <1>2, <1>3, <2>1
  <2>3. Cardinality(S) >= MaxKeep BY <1>3, <2>1 DEF BackupInv, EnoughKept
  <2>4. Cardinality(T) >= MaxKeep BY <1>1, <2>2, <2>3, BackupAssumption
  <2>5. QED BY <2>1, <2>4
<1>4. ASSUME Leftover' \subseteq Leftover, faults' >= faults PROVE FewLeftover'
  <2>1. Cardinality(Leftover') <= Cardinality(Leftover)
        /\ Cardinality(Leftover') \in Nat /\ Cardinality(Leftover) \in Nat
    BY <1>1, <1>2, <1>4
  <2>2. Cardinality(Leftover) <= faults /\ faults \in Nat /\ faults' \in Nat
    BY DEF BackupInv, FewLeftover, BackupTypes
  <2>3. QED BY <1>4, <2>1, <2>2 DEF FewLeftover
<1>5. QED BY <1>3, <1>4 DEF EnoughKept

\* beat_schedule: an hour passes when nothing runs.
LEMMA BeatStep == ASSUME BackupInv, Beat PROVE BackupInv'
<1> USE DEF BackupInv
<1>1. \A r \in Runners : jobs[r].at = "idle" /\ jobs[r].old = {} BY DEF Beat, Done
<1>2. Existing' = Existing /\ Used' = Used /\ Doomed' = Doomed /\ Unlisted' = Unlisted /\ Leftover' = Leftover
  BY DEF Beat, Existing, Used, Doomed, Unlisted, Leftover
<1>3. BackupTypes' BY DEF Beat, BackupTypes
<1>4. JobsOK' /\ OldestFirst' BY <1>2 DEF Beat, JobsOK, OldestFirst
<1>5. InOrder'
  <2>1. \A n \in Used : made[n] \in Int BY DEF BackupTypes, Used
  <2>2. QED BY <1>2, <2>1 DEF Beat, InOrder, BackupTypes
<1>6. EnoughKept' /\ FewLeftover' BY <1>2 DEF Beat, EnoughKept, FewLeftover
<1>7. Recent' BY <1>1 DEF Beat, Recent, Since
<1>8. Credited BY <1>1 DEF Beat, OnSchedule, WebEnds, Runners
<1>9. OnSchedule'
  BY <1>1, <1>8, BackupAssumption DEF Beat, OnSchedule, Credited, BackupTypes, Runners
<1>10. QED BY <1>3, <1>4, <1>5, <1>6, <1>7, <1>9

\* A scheduled run that is not needed yet.
LEMMA SkipStep ==
    ASSUME BackupInv, due, jobs["worker"] = Done, ~Elapsed, due' = FALSE,
           UNCHANGED <<hour, last, files, made, jobs, faults>>
    PROVE  BackupInv'
<1> USE DEF BackupInv
<1>1. Existing' = Existing /\ Used' = Used /\ Doomed' = Doomed /\ Unlisted' = Unlisted /\ Leftover' = Leftover
  BY DEF Existing, Used, Doomed, Unlisted, Leftover
<1>2. BackupTypes' BY DEF BackupTypes
<1>3. JobsOK' /\ OldestFirst' /\ InOrder' BY <1>1 DEF JobsOK, OldestFirst, InOrder
<1>4. EnoughKept' /\ FewLeftover' BY <1>1 DEF EnoughKept, FewLeftover
<1>5. Recent' BY DEF Recent, Since
<1>6. Credited BY BackupAssumption DEF Elapsed, Credited, BackupTypes
<1>7. OnSchedule' BY <1>6 DEF OnSchedule, Credited
<1>8. QED BY <1>2, <1>3, <1>4, <1>5, <1>7

\* A run opens a file with a number above all others.
LEMMA OpenStep ==
    ASSUME BackupInv, NEW r \in Runners, jobs[r] = Done, r = "worker" => due, Open(r),
           UNCHANGED <<hour, due, last, faults>>
    PROVE  BackupInv'
<1> USE DEF BackupInv
<1> DEFINE new == Latest + 1
<1>1. Copies \subseteq Nat /\ MaxRuns \in Nat BY BackupAssumption DEF Copies
<1>2. Latest \in Nat /\ \A n \in Used : n <= Latest
  <2>1. CASE Used = {} BY <2>1 DEF Latest, Used
  <2>2. CASE Used # {}
    <3>1. Used \subseteq Copies BY DEF Used
    <3>2. Max(Used) \in Used /\ \A n \in Used : n <= Max(Used) BY <2>2, <3>1, FirstAndLast
    <3>3. Latest = Max(Used) BY <2>2 DEF Latest, Used
    <3>4. QED BY <1>1, <3>1, <3>2, <3>3
  <2>3. QED BY <2>1, <2>2
<1>3. new \in Copies /\ new \notin Used /\ \A n \in Used : n < new
  <2>1. \A n \in Used : n \in Nat BY <1>1 DEF Used
  <2>2. QED BY <1>1, <1>2, <2>1 DEF Open, Copies
<1> HIDE DEF new
<1>4. /\ files' = [files EXCEPT ![new] = "partial"]
      /\ made' = [made EXCEPT ![new] = hour]
      /\ jobs' = [jobs EXCEPT ![r] = [at |-> "copy", file |-> new, old |-> {}]]
  BY DEF Open, new
<1>5. BackupTypes'
  <2>1. [at |-> "copy", file |-> new, old |-> {}] \in Job BY <1>3 DEF Job
  <2>2. QED BY <1>3, <1>4, <2>1 DEF BackupTypes
<1>6. jobs'[r] = [at |-> "copy", file |-> new, old |-> {}]
      /\ \A q \in Runners : q # r => jobs'[q] = jobs[q]
  BY <1>4 DEF BackupTypes
<1>7. /\ files'[new] = "partial" /\ made'[new] = hour /\ hour # -1
      /\ \A n \in Copies : n # new => files'[n] = files[n] /\ made'[n] = made[n]
  BY <1>3, <1>4 DEF BackupTypes
<1>8. Used' = Used \cup {new} BY <1>3, <1>7 DEF Used
<1>9. Existing' = Existing \cup {new} BY <1>3, <1>7 DEF Existing
<1>10. new \notin Existing /\ files[new] = "none" BY <1>3 DEF InOrder, Existing
<1>11. \A q \in Runners : new \notin jobs'[q].old /\ new \notin jobs[q].old
                          /\ jobs'[q].old = jobs[q].old
  BY <1>3, <1>6 DEF JobsOK, Done
<1>12. Doomed' = Doomed /\ Unlisted' = Unlisted \cup {new}
  BY <1>9, <1>10, <1>11 DEF Doomed, Unlisted
<1>13. Leftover' \subseteq Leftover
  BY <1>3, <1>6, <1>7 DEF Leftover, Done
<1>14. EnoughKept' /\ FewLeftover'
  BY <1>5, <1>12, <1>13, CountsStay DEF BackupTypes
<1>15. JobsOK' BY <1>6, <1>8 DEF JobsOK, Done
<1>16. InOrder'
  <2>1. ASSUME NEW m \in Used', NEW n \in Used', m <= n PROVE made'[m] <= made'[n]
    <3>1. m \in Nat /\ n \in Nat /\ m \in Copies /\ n \in Copies BY <1>1 DEF Used
    <3>2. CASE n = new /\ m # new BY <1>7, <1>8, <3>1, <3>2 DEF InOrder
    <3>3. CASE n # new /\ m # new BY <1>7, <1>8, <2>1, <3>1, <3>3 DEF InOrder
    <3>4. CASE m = new /\ n # new BY <1>3, <1>8, <2>1, <3>1, <3>4
    <3>5. CASE m = new /\ n = new BY <1>7, <3>5 DEF BackupTypes
    <3>6. QED BY <3>2, <3>3, <3>4, <3>5
  <2>2. \A n \in Used' : made'[n] <= hour
    BY <1>7, <1>8 DEF InOrder, Used, BackupTypes
  <2>3. QED BY <1>8, <1>9, <2>1, <2>2 DEF InOrder
<1>17. OldestFirst'
  <2>1. ASSUME NEW q \in Runners, NEW n \in jobs'[q].old, NEW k \in Existing'
        PROVE  /\ k < n => k \in jobs'[q].old
               /\ files'[n] = "none" => k > n
    <3>1. n \in jobs[q].old /\ n \in Used /\ n # new /\ n \in Copies /\ n < new
      BY <1>3, <1>11, <2>1 DEF JobsOK, Used
    <3>2. files'[n] = files[n] BY <1>7, <3>1
    <3>3. CASE k = new
      <4>1. k \in Nat /\ n \in Nat /\ n < k BY <1>1, <1>3, <3>1, <3>3
      <4>2. ~(k < n) /\ k > n BY <4>1
      <4>3. QED BY <4>2
    <3>4. CASE k # new BY <1>9, <1>11, <3>1, <3>2, <3>4 DEF OldestFirst
    <3>5. QED BY <3>3, <3>4
  <2>2. QED BY <2>1 DEF OldestFirst
<1>18. \A h : Since(h) => Since(h)' BY <1>7, <1>10 DEF Since
<1>19. Recent'
  <2>1. ASSUME NEW q \in Runners, jobs'[q].at = "copy"
        PROVE  made'[jobs'[q].file] = hour' /\ (files'[jobs'[q].file] = "partial" \/ Since(hour)')
    <3>1. CASE q = r BY <1>6, <1>7, <3>1
    <3>2. CASE q # r
      <4>1. jobs'[q] = jobs[q] /\ jobs[q].file \in Used /\ jobs[q].file \in Copies
        BY <1>6, <2>1, <3>2 DEF JobsOK, Used
      <4>2. QED BY <1>3, <1>7, <1>18, <2>1, <4>1 DEF Recent
    <3>3. QED BY <3>1, <3>2
  <2>2. ASSUME NEW q \in Runners, jobs'[q].at = "prune" PROVE Since(hour)'
    BY <1>6, <1>18, <2>2 DEF Recent
  <2>3. last' # -1 => Since(last)' BY <1>18 DEF Recent
  <2>4. QED BY <2>1, <2>2, <2>3 DEF Recent
<1>20. OnSchedule'
  <2>1. r = "worker" \/ r = "web" BY DEF Runners
  <2>2. Credited' <=> Credited BY DEF Credited
  <2>3. r = "web" => ~WebEnds BY DEF WebEnds, Done
  <2>4. (\E n \in jobs'["worker"].old : files'[n] = "none") =>
           r = "web" /\ \E n \in jobs["worker"].old : files[n] = "none"
    <3>1. \A n \in jobs'["worker"].old : n \in jobs["worker"].old /\ n \in Copies /\ n # new
      BY <1>3, <1>11 DEF JobsOK, Used, Runners
    <3>2. QED BY <1>7, <2>1, <3>1 DEF Done
  <2>5. QED BY <1>6, <2>1, <2>2, <2>3, <2>4 DEF OnSchedule, Runners
<1>21. QED BY <1>5, <1>14, <1>15, <1>16, <1>17, <1>19, <1>20

\* A copy is complete: what was listed before is listed again.
LEMMA CopyStep == ASSUME BackupInv, NEW r \in Runners, CopyDone(r) PROVE BackupInv'
<1> USE DEF BackupInv
<1>1. PICK f : f = jobs[r].file OBVIOUS
<1>2. jobs[r].at = "copy" /\ f \in Used /\ f \in Copies /\ jobs[r].old = {} /\ jobs[r] \in Job
  BY <1>1 DEF CopyDone, JobsOK, Used, BackupTypes
<1>3. /\ files'[f] = IF files[f] = "partial" THEN "whole" ELSE files[f]
      /\ \A n \in Copies : n # f => files'[n] = files[n]
      /\ made' = made /\ hour' = hour /\ due' = due /\ last' = last /\ faults' = faults
  BY <1>1, <1>2 DEF CopyDone, BackupTypes
<1>4. /\ jobs'[r].at = "prune" /\ jobs'[r].old = TooMany(Existing) /\ jobs'[r].file = f
      /\ \A q \in Runners : q # r => jobs'[q] = jobs[q]
  BY <1>1, <1>2 DEF CopyDone, BackupTypes, Job
<1>5. TooMany(Existing) \subseteq Existing /\ Existing \subseteq Copies
  BY DEF TooMany, Existing
<1>6. BackupTypes'
  <2>1. files' \in [Copies -> {"none", "partial", "whole"}] BY <1>2 DEF CopyDone, BackupTypes
  <2>2. [jobs[r] EXCEPT !.at = "prune", !.old = TooMany(Existing)] \in Job
    BY <1>2, <1>5 DEF Job
  <2>3. jobs' \in [Runners -> Job] BY <2>2 DEF CopyDone, BackupTypes
  <2>4. QED BY <1>3, <2>1, <2>3 DEF BackupTypes
<1>7. Used' = Used BY <1>3 DEF Used
<1>8. Existing' = Existing
  <2>1. \A n \in Copies : files'[n] # "none" <=> files[n] # "none" BY <1>3
  <2>2. QED BY <2>1 DEF Existing
<1>9. Doomed \subseteq TooMany(Existing)
  <2>1. ASSUME NEW n \in Doomed PROVE n \in TooMany(Existing)
    <3>1. PICK S, T : S = {m \in Unlisted : m > n} /\ T = {m \in Existing : m > n} OBVIOUS
    <3>2. S \subseteq T /\ T \subseteq Copies BY <1>5, <3>1 DEF Unlisted
    <3>3. Cardinality(S) <= Cardinality(T) /\ Cardinality(S) \in Nat /\ Cardinality(T) \in Nat
      BY <3>2, Counted
    <3>4. Cardinality(S) >= MaxKeep BY <3>1 DEF EnoughKept
    <3>5. Cardinality(T) >= MaxKeep BY <3>3, <3>4, BackupAssumption
    <3>6. QED BY <3>1, <3>5 DEF TooMany, Doomed
  <2>2. QED BY <2>1
<1>10. Doomed' = TooMany(Existing) BY <1>4, <1>5, <1>8, <1>9 DEF Doomed
<1>11. Unlisted' = Existing \ TooMany(Existing) BY <1>8, <1>10 DEF Unlisted
<1>12. EnoughKept' BY <1>5, <1>10, <1>11, SliceKeeps DEF EnoughKept
<1>13. Leftover' \subseteq Leftover
  <2>1. ASSUME NEW n \in Leftover' PROVE n \in Leftover
    <3>1. n \in Copies /\ files'[n] = "partial" /\ n # f
      BY <1>3 DEF Leftover
    <3>2. \A q \in Runners : jobs[q].at = "copy" => jobs[q].file # n
      BY <1>1, <1>4, <3>1 DEF Leftover
    <3>3. QED BY <1>3, <3>1, <3>2 DEF Leftover
  <2>2. QED BY <2>1
<1>14. FewLeftover' BY <1>3, <1>6, <1>13, CountsStay DEF BackupTypes
<1>15. JobsOK'
  <2>1. TooMany(Existing) \subseteq Used BY <1>5 DEF InOrder
  <2>2. QED BY <1>4, <1>7, <2>1 DEF JobsOK
<1>16. InOrder' BY <1>3, <1>7, <1>8 DEF InOrder
<1>17. OldestFirst'
  <2>1. ASSUME NEW q \in Runners, NEW n \in jobs'[q].old, NEW k \in Existing'
        PROVE  (k < n => k \in jobs'[q].old) /\ (files'[n] = "none" => k > n)
    <3>1. CASE q = r
      <4>1. n \in TooMany(Existing) /\ k \in Existing /\ n \in Existing'
        BY <1>4, <1>5, <1>8, <2>1, <3>1
      <4>2. k < n => k \in TooMany(Existing) BY <1>5, <4>1, SliceKeeps
      <4>3. files'[n] # "none" BY <4>1 DEF Existing
      <4>4. QED BY <1>4, <3>1, <4>2, <4>3
    <3>2. CASE q # r
      <4>1. n \in jobs[q].old /\ k \in Existing /\ jobs'[q].old = jobs[q].old /\ n \in Copies
        BY <1>4, <1>8, <2>1, <3>2 DEF JobsOK, Used
      <4>2. files'[n] = "none" => files[n] = "none" BY <1>3, <4>1
      <4>3. QED BY <4>1, <4>2 DEF OldestFirst
    <3>3. QED BY <3>1, <3>2
  <2>2. QED BY <2>1 DEF OldestFirst
<1>18. \A h : Since(h) => Since(h)' BY <1>3 DEF Since
<1>19. Since(hour)'
  <2>1. CASE files[f] = "partial"
    <3>1. files'[f] = "whole" /\ made'[f] = hour /\ hour \in Nat
      BY <1>1, <1>2, <1>3, <2>1 DEF Recent, BackupTypes
    <3>2. QED BY <1>2, <1>3, <3>1 DEF Since
  <2>2. CASE files[f] # "partial"
    <3>1. Since(hour) BY <1>1, <1>2, <2>2 DEF Recent
    <3>2. Since(hour)' <=> \E n \in Copies : files'[n] = "whole" /\ made'[n] >= hour
      BY <1>3 DEF Since
    <3>3. QED BY <1>3, <3>1, <3>2 DEF Since
  <2>3. QED BY <2>1, <2>2
<1>20. Recent'
  <2>1. ASSUME NEW q \in Runners, jobs'[q].at = "copy"
        PROVE  made'[jobs'[q].file] = hour'
    BY <1>3, <1>4, <2>1 DEF Recent
  <2>2. last' # -1 => Since(last)'
    <3>1. last # -1 => \E n \in Copies : files[n] = "whole" /\ made[n] >= last
      BY DEF Recent, Since
    <3>2. QED BY <1>3, <3>1 DEF Since
  <2>3. QED BY <1>19, <2>1, <2>2 DEF Recent
<1>21. OnSchedule'
  <2>1. Credited' <=> Credited BY <1>3 DEF Credited
  <2>2. r = "worker" \/ r = "web" BY DEF Runners
  <2>3. CASE r = "web"
    <3>1. ~WebEnds BY <1>2, <2>3 DEF WebEnds
    <3>2. jobs'["worker"] = jobs["worker"] BY <1>4, <2>3 DEF Runners
    <3>3. \A n \in jobs["worker"].old : n \in Copies BY DEF JobsOK, Used, Runners
    <3>4. \A n \in Copies : files'[n] = "none" => files[n] = "none" BY <1>3
    <3>5. QED BY <1>3, <2>1, <3>1, <3>2, <3>3, <3>4 DEF OnSchedule
  <2>4. CASE r = "worker"
    <3>1. due BY <1>2, <2>4 DEF OnSchedule, Done
    <3>2. \A n \in jobs'["worker"].old : files'[n] # "none"
      BY <1>4, <1>5, <1>8, <2>4 DEF Existing
    <3>3. QED BY <1>3, <2>1, <3>1, <3>2 DEF OnSchedule
  <2>5. QED BY <2>2, <2>3, <2>4
<1>22. QED BY <1>6, <1>12, <1>14, <1>15, <1>16, <1>17, <1>20, <1>21

\* A run is over, in whatever way; what it has listed is no longer to be removed.
LEMMA EndStep ==
    ASSUME BackupInv, NEW r \in Runners, jobs' = [jobs EXCEPT ![r] = Done],
           UNCHANGED <<hour, files, made>>, due' \in BOOLEAN,
           last' = last \/ (last' = hour /\ jobs[r].at = "prune"),
           faults' \in 0..MaxFaults, faults' = faults \/ faults' = faults + 1,
           jobs[r].at = "copy" => faults' = faults + 1
    PROVE  /\ BackupTypes' /\ JobsOK' /\ InOrder' /\ OldestFirst'
           /\ EnoughKept' /\ FewLeftover' /\ Recent'
           /\ jobs'[r] = Done /\ \A q \in Runners : q # r => jobs'[q] = jobs[q]
<1> USE DEF BackupInv
<1>1. jobs'[r] = Done /\ \A q \in Runners : q # r => jobs'[q] = jobs[q]
  BY DEF BackupTypes
<1>2. Done \in Job /\ Done.old = {} /\ Done.at = "idle" BY DEF Done, Job
<1>3. BackupTypes' BY <1>2 DEF BackupTypes
<1>4. Existing' = Existing /\ Used' = Used BY DEF Existing, Used
<1>5. \A q \in Runners : jobs'[q].old \subseteq jobs[q].old BY <1>1, <1>2
<1>6. Doomed' \subseteq Doomed BY <1>4, <1>5 DEF Doomed
<1>7. Unlisted \subseteq Unlisted' BY <1>4, <1>6 DEF Unlisted
<1>8. faults \in Nat /\ faults' >= faults BY DEF BackupTypes
<1>9. EnoughKept' BY <1>3, <1>6, <1>7, CountsStay
<1>10. FewLeftover'
  <2>1. CASE jobs[r].at # "copy"
    <3>1. Leftover' \subseteq Leftover
      <4>1. \A q \in Runners : jobs[q].at = "copy" => jobs'[q] = jobs[q] BY <1>1, <2>1
      <4>2. QED BY <4>1 DEF Leftover
    <3>2. QED BY <1>3, <1>8, <3>1, CountsStay
  <2>2. CASE jobs[r].at = "copy"
    <3>1. PICK f : f = jobs[r].file OBVIOUS
    <3>2. Leftover' \subseteq Leftover \cup {f}
      <4>1. \A q \in Runners : q # r => jobs'[q] = jobs[q] BY <1>1
      <4>2. QED BY <3>1, <4>1 DEF Leftover
    <3>3. Leftover \subseteq Copies BY DEF Leftover
    <3>4. IsFiniteSet(Leftover) /\ Cardinality(Leftover) \in Nat BY <3>3, Counted
    <3>5. PICK U : U = Leftover \cup {f} OBVIOUS
    <3>6. /\ IsFiniteSet(U)
          /\ Cardinality(U) = Cardinality(Leftover) \/ Cardinality(U) = Cardinality(Leftover) + 1
      BY <3>4, <3>5, FS_AddElement
    <3>7. Cardinality(Leftover') <= Cardinality(U) /\ IsFiniteSet(Leftover')
      BY <3>2, <3>5, <3>6, FS_Subset
    <3>8. Cardinality(Leftover') \in Nat BY <3>7, FS_CardinalityType
    <3>9. Cardinality(Leftover) <= faults BY DEF FewLeftover
    <3>10. QED BY <1>8, <2>2, <3>4, <3>6, <3>7, <3>8, <3>9 DEF FewLeftover
  <2>3. QED BY <2>1, <2>2
<1>11. JobsOK' BY <1>1, <1>2, <1>4 DEF JobsOK
<1>12. InOrder' BY <1>4 DEF InOrder, BackupTypes
<1>13. OldestFirst' BY <1>1, <1>2, <1>4 DEF OldestFirst
<1>14. Since(hour)' <=> Since(hour) BY DEF Since
<1>15. Recent'
  <2>1. last' # -1 => Since(last)'
    <3>1. CASE last' = last BY <3>1 DEF Recent, Since
    <3>2. CASE last' = hour /\ jobs[r].at = "prune" BY <3>2 DEF Recent, Since
    <3>3. QED BY <3>1, <3>2
  <2>2. QED BY <1>1, <1>2, <1>14, <2>1 DEF Recent
<1>16. QED BY <1>1, <1>3, <1>9, <1>10, <1>11, <1>12, <1>13, <1>15

\* A run is over because it has noted its time, failed or died.
LEMMA OverStep ==
    ASSUME BackupInv, NEW r \in Runners, Noted(r) \/ CopyLost(r) \/ Dies(r) PROVE BackupInv'
<1> USE DEF BackupInv
<1>1. /\ jobs' = [jobs EXCEPT ![r] = Done] /\ UNCHANGED <<hour, files, made>>
      /\ due' = due \/ (due' = FALSE /\ r = "worker")
      /\ \/ last' = hour /\ jobs[r].at = "prune" /\ faults' = faults
         \/ last' = last /\ faults' = faults + 1 /\ faults < MaxFaults
      /\ jobs[r].at = "copy" => faults' = faults + 1
      /\ jobs[r] # Done
  <2>1. Done.at = "idle" BY DEF Done
  <2>2. CASE Noted(r) BY <2>1, <2>2 DEF Noted, Finish
  <2>3. CASE CopyLost(r) BY <2>1, <2>3 DEF CopyLost, Finish
  <2>4. CASE Dies(r) BY <2>4 DEF Dies
  <2>5. QED BY <2>2, <2>3, <2>4
<1>2. due' \in BOOLEAN BY <1>1 DEF BackupTypes
<1>3. faults' \in 0..MaxFaults BY <1>1, BackupAssumption DEF BackupTypes
<1>4. /\ BackupTypes' /\ JobsOK' /\ InOrder' /\ OldestFirst'
      /\ EnoughKept' /\ FewLeftover' /\ Recent'
      /\ jobs'[r] = Done /\ \A q \in Runners : q # r => jobs'[q] = jobs[q]
  BY <1>1, <1>2, <1>3, EndStep
<1>5. Credited'
  <2>1. CASE last' = hour /\ faults' = faults
    BY <1>1, <2>1, BackupAssumption DEF Credited, BackupTypes
  <2>2. CASE last' = last /\ faults' = faults + 1
    BY <1>1, <2>2, BackupAssumption DEF Credited, OnSchedule, BackupTypes
  <2>3. QED BY <1>1, <2>1, <2>2
<1>6. IF last' = -1 THEN hour' <= faults' + 1 ELSE hour' - last' <= Interval + 1 + faults'
  <2>1. PICK h, f, l : h = hour' /\ f = faults' /\ l = last' OBVIOUS
  <2>2. h \in Nat /\ f \in Nat /\ Interval \in Nat /\ l \in Nat \cup {-1}
    BY <1>1, <1>3, <1>4, <2>1, BackupAssumption DEF BackupTypes
  <2>3. IF l = -1 THEN h <= f ELSE h - l <= Interval + f BY <1>5, <2>1 DEF Credited
  <2>4. IF l = -1 THEN h <= f + 1 ELSE h - l <= Interval + 1 + f BY <2>2, <2>3
  <2>5. QED BY <2>1, <2>4
<1>7. ~due' => jobs'["worker"] = Done
  <2>1. CASE r = "worker" BY <1>4, <2>1
  <2>2. CASE r # "worker" BY <1>1, <1>4, <2>2 DEF OnSchedule, Runners
  <2>3. QED BY <2>1, <2>2
<1>8. OnSchedule' BY <1>5, <1>6, <1>7 DEF OnSchedule
<1>9. QED BY <1>4, <1>8

\* A file has been removed by the other run: the run ends without a trace.
LEMMA MissingStep ==
    ASSUME BackupInv, NEW r \in Runners, jobs[r].at = "prune", NEW n \in jobs[r].old,
           files[n] = "none", Finish(r), UNCHANGED <<hour, last, files, made, faults>>
    PROVE  BackupInv'
<1> USE DEF BackupInv
<1>1. jobs' = [jobs EXCEPT ![r] = Done] /\ due' = IF r = "worker" THEN FALSE ELSE due
  BY DEF Finish
<1>2. due' \in BOOLEAN BY <1>1 DEF BackupTypes
<1>3. /\ BackupTypes' /\ JobsOK' /\ InOrder' /\ OldestFirst'
      /\ EnoughKept' /\ FewLeftover' /\ Recent'
      /\ jobs'[r] = Done /\ \A q \in Runners : q # r => jobs'[q] = jobs[q]
  <2>1. faults' \in 0..MaxFaults BY DEF BackupTypes
  <2>2. QED BY <1>1, <1>2, <2>1, EndStep
<1>4. Credited' <=> Credited BY DEF Credited
<1>5. r = "worker" \/ r = "web" BY DEF Runners
<1>6. CASE r = "web"
  <2>1. ~WebEnds BY <1>6 DEF WebEnds
  <2>2. jobs'["worker"] = jobs["worker"] /\ due' = due BY <1>1, <1>3, <1>6 DEF Runners
  <2>3. OnSchedule' BY <1>4, <2>1, <2>2 DEF OnSchedule
  <2>4. QED BY <1>3, <2>3
<1>7. CASE r = "worker"
  <2>1. Credited \/ WebEnds BY <1>7 DEF OnSchedule
  <2>2. jobs'["web"] = jobs["web"] BY <1>3, <1>7 DEF Runners
  <2>3. WebEnds' <=> WebEnds BY <2>2 DEF WebEnds
  <2>4. OnSchedule' BY <1>3, <1>4, <1>7, <2>1, <2>3 DEF OnSchedule, Done
  <2>5. QED BY <1>3, <2>4
<1>8. QED BY <1>5, <1>6, <1>7

\* A run removes the oldest of the files it has listed.
LEMMA PruneStep ==
    ASSUME BackupInv, NEW r \in Runners, jobs[r].at = "prune",
           NEW n \in jobs[r].old, \A m \in jobs[r].old : n <= m,
           files[n] # "none", files' = [files EXCEPT ![n] = "none"],
           jobs' = [jobs EXCEPT ![r].old = @ \ {n}],
           UNCHANGED <<hour, due, last, made, faults>>
    PROVE  BackupInv'
<1> USE DEF BackupInv
<1>1. jobs[r] \in Job /\ n \in Copies /\ Copies \subseteq Nat
      /\ \A q \in Runners : jobs[q].old \subseteq Copies
  BY DEF JobsOK, Used, BackupTypes, Copies
<1>2. /\ jobs'[r].at = "prune" /\ jobs'[r].old = jobs[r].old \ {n}
      /\ jobs'[r].file = jobs[r].file /\ jobs'[r] \in Job
      /\ \A q \in Runners : q # r => jobs'[q] = jobs[q]
  BY <1>1 DEF BackupTypes, Job
<1>3. BackupTypes'
  <2>1. jobs' \in [Runners -> Job] BY <1>2 DEF BackupTypes
  <2>2. files' \in [Copies -> {"none", "partial", "whole"}] BY <1>1 DEF BackupTypes
  <2>3. QED BY <2>1, <2>2 DEF BackupTypes
<1>4. files'[n] = "none" /\ \A m \in Copies : m # n => files'[m] = files[m]
  BY <1>1 DEF BackupTypes
<1>5. Used' = Used /\ Existing' = Existing \ {n} /\ n \in Existing
  BY <1>1, <1>4 DEF Used, Existing
<1>6. \A q \in Runners : jobs'[q].at = jobs[q].at /\ jobs'[q].file = jobs[q].file
      /\ jobs'[q].old \subseteq jobs[q].old
      /\ \A m \in jobs[q].old : m # n => m \in jobs'[q].old
  BY <1>2
<1>7. n \in Doomed /\ Doomed' = Doomed \ {n}
  <2>1. n \in Doomed BY <1>5 DEF Doomed
  <2>2. \A m \in Existing : m # n =>
          ((\E q \in Runners : m \in jobs'[q].old) <=> \E q \in Runners : m \in jobs[q].old)
    BY <1>6
  <2>3. QED BY <1>5, <2>1, <2>2 DEF Doomed
<1>8. Unlisted' = Unlisted BY <1>5, <1>7 DEF Unlisted
<1>9. EnoughKept' BY <1>3, <1>7, <1>8, CountsStay
<1>10. FewLeftover'
  <2>1. Leftover' \subseteq Leftover BY <1>4, <1>6 DEF Leftover
  <2>2. QED BY <1>3, <2>1, CountsStay DEF BackupTypes
<1>11. JobsOK'
  <2>1. \A q \in Runners : jobs[q] = Done => jobs'[q] = jobs[q]
    BY <1>2 DEF Done
  <2>2. \A q \in Runners : jobs'[q].at = "idle" => jobs'[q] = Done
    BY <1>6, <2>1 DEF JobsOK
  <2>3. \A q \in Runners : jobs'[q].at = "copy" => jobs'[q].file \in Used' /\ jobs'[q].old = {}
    BY <1>5, <1>6 DEF JobsOK
  <2>4. \A q \in Runners : jobs'[q].old \subseteq Used' BY <1>5, <1>6 DEF JobsOK
  <2>5. QED BY <2>2, <2>3, <2>4 DEF JobsOK
<1>12. InOrder' BY <1>5 DEF InOrder
<1>13. OldestFirst'
  <2> SUFFICES ASSUME NEW q \in Runners, NEW m \in jobs'[q].old, NEW k \in Existing'
               PROVE  /\ k < m => k \in jobs'[q].old
                      /\ files'[m] = "none" => k > m
    BY DEF OldestFirst
  <2>1. m \in jobs[q].old /\ k \in Existing /\ k # n BY <1>5, <1>6
  <2>2. k < m => k \in jobs'[q].old BY <1>6, <2>1 DEF OldestFirst
  <2>3. CASE m # n BY <1>1, <1>4, <2>1, <2>2, <2>3 DEF OldestFirst
  <2>4. CASE m = n
    <3>1. k \in Nat /\ n \in Nat BY <1>1, <2>1 DEF Existing
    <3>2. ASSUME k < n PROVE FALSE
      <4>1. n \in jobs[r].old /\ k \in jobs[r].old BY <2>1, <3>2 DEF OldestFirst
      <4>2. QED BY <3>1, <3>2, <4>1
    <3>3. QED BY <2>1, <2>2, <2>4, <3>1, <3>2
  <2>5. QED BY <2>3, <2>4
<1>14. \A h \in Nat : Since(h) => Since(h)'
  <2> SUFFICES ASSUME NEW h \in Nat, Since(h) PROVE Since(h)' OBVIOUS
  <2>1. PICK m \in Copies : m # n /\ files[m] = "whole" /\ made[m] >= h
    BY <1>7, NewestStays
  <2>2. files'[m] = "whole" /\ made'[m] >= h BY <1>4, <2>1
  <2>3. QED BY <2>2 DEF Since
<1>15. Recent'
  <2>1. hour \in Nat /\ hour' = hour /\ (last # -1 => last \in Nat) /\ last' = last
    BY DEF BackupTypes
  <2>2. Since(hour)' BY <1>14, <2>1 DEF Recent, Since
  <2>3. last' # -1 => Since(last)' BY <1>14, <2>1 DEF Recent, Since
  <2>4. made' = made OBVIOUS
  <2>5. QED BY <1>6, <2>1, <2>2, <2>3, <2>4 DEF Recent
<1>16. OnSchedule'
  <2>1. ASSUME NEW q \in Runners, NEW m \in jobs[q].old, r = q, m # n PROVE files[m] # "none"
    <3>1. files[m] = "none" => n > m BY <1>5 DEF OldestFirst
    <3>2. m \in Nat /\ n \in Nat /\ n <= m BY <1>1, <2>1
    <3>3. QED BY <3>1, <3>2
  <2>2. Credited' <=> Credited BY DEF Credited
  <2>3. CASE r = "web"
    <3>1. WebEnds'
      <4>1. \A m \in jobs'["web"].old : m # n /\ m \in jobs["web"].old BY <1>2, <2>3
      <4>2. \A m \in jobs'["web"].old : files'[m] # "none"
        BY <1>1, <1>4, <2>1, <2>3, <4>1
      <4>3. QED BY <1>2, <2>3, <4>2 DEF WebEnds
    <3>2. jobs'["worker"] = jobs["worker"] BY <1>2, <2>3 DEF Runners
    <3>3. QED BY <3>1, <3>2 DEF OnSchedule
  <2>4. CASE r = "worker"
    <3>1. due BY <2>4 DEF OnSchedule, Done
    <3>2. \A m \in jobs'["worker"].old : m # n /\ m \in jobs["worker"].old BY <1>2, <2>4
    <3>3. \A m \in jobs'["worker"].old : files'[m] # "none"
      BY <1>1, <1>4, <2>1, <2>4, <3>2
    <3>4. QED BY <3>1, <3>3 DEF OnSchedule
  <2>5. QED BY <2>3, <2>4 DEF Runners
<1>17. QED BY <1>3, <1>9, <1>10, <1>11, <1>12, <1>13, <1>15, <1>16

\* Every step keeps the invariant.
LEMMA BackupsStep == BackupInv /\ [BackupsNext]_backupVars => BackupInv'
<1> SUFFICES ASSUME BackupInv, [BackupsNext]_backupVars PROVE BackupInv' OBVIOUS
<1>1. CASE Beat BY <1>1, BeatStep
<1>2. CASE Scheduled
  <2>1. "worker" \in Runners BY DEF Runners
  <2>2. CASE Elapsed BY <1>2, <2>1, <2>2, OpenStep DEF Scheduled
  <2>3. CASE ~Elapsed BY <1>2, <2>3, SkipStep DEF Scheduled
  <2>4. QED BY <2>2, <2>3
<1>3. CASE Manual
  <2>1. "web" \in Runners BY DEF Runners
  <2>2. QED BY <1>3, <2>1, OpenStep DEF Manual
<1>4. ASSUME NEW r \in Runners, CopyDone(r) PROVE BackupInv' BY <1>4, CopyStep
<1>5. ASSUME NEW r \in Runners, Prune(r) PROVE BackupInv'
  <2>1. jobs[r].at = "prune" /\ jobs[r].old # {} BY <1>5 DEF Prune
  <2>2. jobs[r].old \subseteq Copies BY DEF BackupInv, JobsOK, Used
  <2>3. PICK n : n = Min(jobs[r].old) OBVIOUS
  <2>4. n \in jobs[r].old /\ \A m \in jobs[r].old : n <= m BY <2>1, <2>2, <2>3, FirstAndLast
  <2>5. CASE files[n] = "none"
    <3>1. Finish(r) /\ UNCHANGED <<hour, last, files, made, faults>>
      BY <1>5, <2>3, <2>5 DEF Prune
    <3>2. QED BY <2>1, <2>4, <2>5, <3>1, MissingStep
  <2>6. CASE files[n] # "none"
    <3>1. /\ files' = [files EXCEPT ![n] = "none"]
          /\ jobs' = [jobs EXCEPT ![r].old = @ \ {n}]
          /\ UNCHANGED <<hour, due, last, made, faults>>
      BY <1>5, <2>3, <2>6 DEF Prune
    <3>2. QED BY <2>1, <2>4, <2>6, <3>1, PruneStep
  <2>7. QED BY <2>5, <2>6
<1>6. ASSUME NEW r \in Runners, Noted(r) \/ CopyLost(r) \/ Dies(r) PROVE BackupInv'
  BY <1>6, OverStep
<1>7. CASE UNCHANGED backupVars
  BY <1>7 DEF backupVars, BackupInv, BackupTypes, JobsOK, InOrder, OldestFirst, EnoughKept,
       FewLeftover, Recent, OnSchedule, Existing, Used, Doomed, Unlisted, Leftover, Since,
       Credited, WebEnds
<1>8. QED BY <1>1, <1>2, <1>3, <1>4, <1>5, <1>6, <1>7 DEF BackupsNext

\* The state of files, runs and schedule fits together whatever the order of two runs,
\* their failures and their crashes.
THEOREM BackupsHold == BackupsSpec => []BackupInv
<1> QED BY BackupsBegin, BackupsStep, PTL DEF BackupsSpec

\* Once there has been a complete copy there always is one (backup_database,
\* backup_now), for any number of copies kept above the number of failures and one.
THEOREM BackupKept == BackupsSpec => []ABackupSurvives
<1>1. BackupInv => ABackupSurvives
  BY DEF BackupInv, Recent, Since, ABackupSurvives, Whole
<1>2. QED BY <1>1, BackupsHold, PTL

\* The newest complete copy is not older than the interval, the hour it takes to
\* notice and one hour for each failure (backup_database's "interval has elapsed").
THEOREM BackupFresh == BackupsSpec => []NoLongGap
<1>1. BackupInv => NoLongGap
  <2> SUFFICES ASSUME BackupInv, hour > Interval + 1 + faults
               PROVE  \E n \in Copies :
                          made[n] >= hour - (Interval + 1 + faults) /\ files[n] = "whole"
    BY DEF NoLongGap
  <2>1. /\ hour \in Nat /\ faults \in Nat /\ Interval \in Nat /\ last \in Nat \cup {-1}
        /\ made \in [Copies -> Nat \cup {-1}]
    BY BackupAssumption DEF BackupInv, BackupTypes
  <2>2. last # -1 /\ hour - last <= Interval + 1 + faults BY <2>1 DEF BackupInv, OnSchedule
  <2>3. PICK n \in Copies : files[n] = "whole" /\ made[n] >= last
    BY <2>2 DEF BackupInv, Recent, Since
  <2>4. made[n] \in Nat \cup {-1} BY <2>1
  <2>5. made[n] >= hour - (Interval + 1 + faults) BY <2>1, <2>2, <2>3, <2>4
  <2>6. QED BY <2>3, <2>5
<1>2. QED BY <1>1, BackupsHold, PTL
=============================================================================
