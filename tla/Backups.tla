--------------------------------- MODULE Backups ---------------------------------
(***************************************************************************)
(* The copies of the database that the worker makes by itself              *)
(* (app/tasks/study_tasks.py, scheduled by app/celery_app.py) and those an *)
(* administrator asks for (admin_settings.backup_now), in one directory    *)
(* that both prune.                                                        *)
(*                                                                         *)
(* The unit of time is the hour of the schedule.  Names follow the clock,  *)
(* so files are numbered in the order of their names.                      *)
(***************************************************************************)
EXTENDS Integers, FiniteSets, FiniteSetsExt

CONSTANTS
    Interval,   \* AUTO_BACKUP_INTERVAL_HOURS
    MaxKeep,    \* AUTO_BACKUP_MAX_KEEP
    MaxHours, MaxRuns, MaxFaults \* bounds: time, files made, failures and crashes

\* With fewer copies kept, unfinished files can push out every finished one.
ASSUME BackupAssumption ==
    /\ {Interval, MaxHours, MaxRuns, MaxFaults} \subseteq Nat
    /\ MaxKeep \in Nat /\ MaxKeep > MaxFaults + 1

VARIABLES
    hour,       \* time
    due,        \* the queue holds a message of the schedule
    last,       \* AUTO_BACKUP_LAST_RUN, in the hour before "hour" at the latest
    files,      \* [number -> "none", "partial" or "whole"]
    made,       \* [number -> the hour of the copy]
    jobs,       \* [Runners -> the run in progress]
    faults      \* number of failures and crashes

backupVars == <<hour, due, last, files, made, jobs, faults>>

-----------------------------------------------------------------------------
Runners == {"worker", "web"}
Copies == 1..MaxRuns
Done == [at |-> "idle", file |-> 0, old |-> {}]
Existing == {n \in Copies : files[n] # "none"}
Whole == {n \in Copies : files[n] = "whole"}

BackupsInit ==
    /\ hour = 0
    /\ due = FALSE
    /\ last = -1
    /\ files = [n \in Copies |-> "none"]
    /\ made = [n \in Copies |-> -1]
    /\ jobs = [r \in Runners |-> Done]
    /\ faults = 0

\* Names used so far: the clock does not go back to a file that was pruned.
Latest == LET used == {n \in Copies : made[n] # -1} IN IF used = {} THEN 0 ELSE Max(used)

-----------------------------------------------------------------------------
\* The beat sends a message each hour; the worker has dealt with the one before.
Beat ==
    /\ hour < MaxHours /\ ~due /\ \A r \in Runners : jobs[r] = Done
    /\ hour' = hour + 1
    /\ due' = TRUE
    /\ UNCHANGED <<last, files, made, jobs, faults>>

\* The file is created empty and filled.
Open(r) ==
    /\ Latest < MaxRuns
    /\ files' = [files EXCEPT ![Latest + 1] = "partial"]
    /\ made' = [made EXCEPT ![Latest + 1] = hour]
    /\ jobs' = [jobs EXCEPT ![r] = [at |-> "copy", file |-> Latest + 1, old |-> {}]]

\* A run is over some time after the beat, so less than an interval has passed
\* when the beat of its last hour comes.
Elapsed == last = -1 \/ hour - last > Interval

\* backup_database; the message is acknowledged when the run is over.
Scheduled ==
    /\ due /\ jobs["worker"] = Done
    /\ IF Elapsed THEN Open("worker") /\ UNCHANGED due
       ELSE due' = FALSE /\ UNCHANGED <<files, made, jobs>>
    /\ UNCHANGED <<hour, last, faults>>

\* Variant for NoLongGap: the run is noted when it begins.
ManualNotedFirst ==
    /\ jobs["web"] = Done
    /\ Open("web")
    /\ last' = hour
    /\ UNCHANGED <<hour, due, faults>>

\* backup_now asks for no interval.
Manual ==
    /\ jobs["web"] = Done
    /\ Open("web")
    /\ UNCHANGED <<hour, due, last, faults>>

\* Variant for ABackupSurvives: the slice is all_backups[:-1].
AllButOne(all) == {n \in all : \E m \in all : m > n}

\* all_backups[:-max_keep] of the sorted names
TooMany(all) == {n \in all : Cardinality({m \in all : m > n}) >= MaxKeep}

\* The copy is complete, unless the other run has removed its file meanwhile, and
\* the directory is listed; run_blocking and the worker's own process leave time
\* for the other run before the first removal.
CopyDone(r) ==
    /\ jobs[r].at = "copy"
    /\ files' = [files EXCEPT ![jobs[r].file] = IF @ = "partial" THEN "whole" ELSE @]
    /\ jobs' = [jobs EXCEPT ![r].at = "prune", ![r].old = TooMany(Existing)]
    /\ UNCHANGED <<hour, due, last, made, faults>>

\* The message is acknowledged, also when the run has failed.
Finish(r) ==
    /\ jobs' = [jobs EXCEPT ![r] = Done]
    /\ due' = IF r = "worker" THEN FALSE ELSE due

\* os.remove of the oldest; a file that the other run has removed ends the run.
Prune(r) ==
    /\ jobs[r].at = "prune" /\ jobs[r].old # {}
    /\ LET n == Min(jobs[r].old)
       IN IF files[n] = "none" THEN Finish(r) /\ UNCHANGED files
          ELSE /\ files' = [files EXCEPT ![n] = "none"]
               /\ jobs' = [jobs EXCEPT ![r].old = @ \ {n}]
               /\ UNCHANGED due
    /\ UNCHANGED <<hour, last, made, faults>>

\* The upload changes nothing here, and its failure is only logged.
Noted(r) ==
    /\ jobs[r].at = "prune" /\ jobs[r].old = {}
    /\ last' = hour
    /\ Finish(r)
    /\ UNCHANGED <<hour, files, made, faults>>

\* The copy fails (a full disk, a database that is locked): the exception is
\* caught and the retries of the task are not used.
CopyLost(r) ==
    /\ jobs[r].at = "copy" /\ faults < MaxFaults
    /\ faults' = faults + 1
    /\ Finish(r)
    /\ UNCHANGED <<hour, last, files, made>>

\* A process dies; a message it has not acknowledged is delivered again.
Dies(r) ==
    /\ jobs[r] # Done /\ faults < MaxFaults
    /\ faults' = faults + 1
    /\ jobs' = [jobs EXCEPT ![r] = Done]
    /\ UNCHANGED <<hour, due, last, files, made>>

BackupsNext ==
    \/ Beat \/ Scheduled \/ Manual
    \/ \E r \in Runners : CopyDone(r) \/ Prune(r) \/ Noted(r) \/ CopyLost(r) \/ Dies(r)

BackupsSpec == BackupsInit /\ [][BackupsNext]_backupVars

-----------------------------------------------------------------------------
(* Properties *)

\* Once there has been a complete copy there always is one, whatever two runs
\* prune at the same time and whatever files failed runs leave behind
\* (backup_database, backup_now).
ABackupSurvives == last # -1 => Whole # {}

\* "skips unless the configured interval has elapsed" (backup_database): the
\* newest complete copy is never older than the interval and the hour it takes to
\* notice, and one hour more for each run that has failed.
NoLongGap ==
    hour > Interval + 1 + faults =>
        \E n \in Copies : made[n] >= hour - (Interval + 1 + faults) /\ files[n] = "whole"
=============================================================================
