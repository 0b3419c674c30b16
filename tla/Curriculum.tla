------------------------------- MODULE Curriculum -------------------------------
(***************************************************************************)
(* Learning levels, tasks and the grading of submissions                   *)
(* (blueprints/admin/content.py, tasks.py, grading.py, models/level.py and *)
(* the start page of blueprints/main), seen by one student while           *)
(* administrators and tutors edit and the process may die.                 *)
(*                                                                         *)
(* Only the deletion of a level commits twice, and only a suggested grade  *)
(* waits, for the LLM; every other handler is one action.                  *)
(***************************************************************************)
EXTENDS Integers, FiniteSets, FiniteSetsExt

CONSTANTS
    Tasks,
    NoTask,
    MaxLevels,  \* bound: levels at one time
    MaxSubs,    \* bound: submissions at one time
    MaxKills    \* bound: deaths of the process

ASSUME CurriculumBounds ==
    /\ NoTask \notin Tasks
    /\ MaxLevels \in Nat /\ MaxSubs \in Nat /\ MaxKills \in Nat

VARIABLES
    levels,     \* [LevelIds -> Level], number 0 where no row is
    renumber,   \* a level has been deleted, the others keep their numbers
    task,       \* [Tasks -> "active", "hidden" or "gone"]
    subs,       \* [SubIds -> Sub], the student's submissions
    asked,      \* the submission for which the LLM is asked for a grade, or 0
    kills       \* number of deaths

curriculumVars == <<levels, renumber, task, subs, asked, kills>>

-----------------------------------------------------------------------------
LevelIds == 1..MaxLevels
SubIds == 1..MaxSubs
\* Whether a level is listed (is_active) decides nothing about the others.
Level == [number : 0..MaxLevels, tasks : SUBSET Tasks]
NoLevel == [number |-> 0, tasks |-> {}]
Present == {l \in LevelIds : levels[l].number > 0}
Numbers == {levels[l].number : l \in Present}

\* mark: which of grade_value and grade_passed are set.  The suggestion has
\* columns of its own, which nothing reads but the grading page.
Marks == {"none", "points", "passfail", "both"}
Sub == [task : Tasks, state : {"open", "done"}, mark : Marks]
NoSub == [task |-> NoTask, state |-> "none"]
Filled == {i \in SubIds : subs[i] # NoSub}

ActiveIn(l) == {t \in levels[l].tasks : task[t] = "active"}
Submitted == {subs[i].task : i \in Filled}

\* Variant for OpenStays: only completed submissions count, and none may be open.
IsCompletedNow(l) ==
    /\ ActiveIn(l) # {}
    /\ \A t \in ActiveIn(l) :
          /\ t \in Submitted
          /\ \A i \in Filled : subs[i].task = t => subs[i].state = "done"

\* is_completed_by: any submission counts, opening the task's page makes one.
IsCompleted(l) == ActiveIn(l) # {} /\ ActiveIn(l) \subseteq Submitted

\* is_unlocked_for
IsUnlocked(l) ==
    \/ levels[l].number = 1
    \/ \A p \in Present : levels[p].number = levels[l].number - 1 => IsCompleted(p)

\* The levels that the start page lists with their tasks.
Unlocked == {l \in Present : IsUnlocked(l)}

CurriculumInit ==
    /\ levels = [l \in LevelIds |-> NoLevel]
    /\ renumber = FALSE
    /\ task = [t \in Tasks |-> "active"]
    /\ subs = [i \in SubIds |-> NoSub]
    /\ asked = 0 /\ kills = 0

-----------------------------------------------------------------------------
(* Levels *)

LevelNew ==
    LET id == IF Present = {} THEN 1 ELSE Max(Present) + 1
        number == IF Present = {} THEN 1 ELSE Max(Numbers) + 1
    IN /\ ~renumber /\ id \in LevelIds /\ number <= MaxLevels
       /\ levels' = [levels EXCEPT ![id] = [number |-> number, tasks |-> {}]]
       /\ UNCHANGED <<renumber, task, subs, asked, kills>>

\* Only active tasks can be chosen; one that has been hidden and is not posted
\* is removed.
LevelSave(l, ts) ==
    /\ ~renumber /\ l \in Present
    /\ \A t \in ts : task[t] = "active"
    /\ levels' = [levels EXCEPT ![l].tasks = ts]
    /\ UNCHANGED <<renumber, task, subs, asked, kills>>

\* The first commit of a deletion.
LevelDelete(l) ==
    /\ ~renumber /\ l \in Present
    /\ levels' = [levels EXCEPT ![l] = NoLevel]
    /\ renumber' = TRUE
    /\ UNCHANGED <<task, subs, asked, kills>>

\* Variant for OneGapPerDeath: the last level takes the number that became free.
FillGap ==
    /\ renumber
    /\ renumber' = FALSE
    /\ \E n \in 1..MaxLevels :
          /\ n \notin Numbers /\ \A k \in 1..(n - 1) : k \in Numbers
          /\ levels' = [l \in LevelIds |->
                          IF Present # {} /\ levels[l].number = Max(Numbers)
                          THEN [levels[l] EXCEPT !.number = n] ELSE levels[l]]
    /\ UNCHANGED <<task, subs, asked, kills>>

\* The second: the remaining levels are numbered from 1.
Renumber ==
    /\ renumber
    /\ renumber' = FALSE
    /\ levels' = [l \in LevelIds |->
                    [levels[l] EXCEPT !.number = Cardinality({n \in Numbers : n <= @})]]
    /\ UNCHANGED <<task, subs, asked, kills>>

-----------------------------------------------------------------------------
(* Tasks and submissions *)

SetTask(t, s) ==
    /\ ~renumber /\ task[t] \in {"active", "hidden"} \ {s}
    /\ task' = [task EXCEPT ![t] = s]
    /\ UNCHANGED <<levels, renumber, subs, asked, kills>>

\* task_delete: its submissions go and it leaves its levels.
TaskDelete(t) ==
    /\ ~renumber /\ task[t] # "gone"
    /\ task' = [task EXCEPT ![t] = "gone"]
    /\ levels' = [l \in LevelIds |-> [levels[l] EXCEPT !.tasks = @ \ {t}]]
    /\ subs' = [i \in SubIds |-> IF subs[i].task = t THEN NoSub ELSE subs[i]]
    /\ UNCHANGED <<renumber, asked, kills>>

\* task_page looks at no level: any active task can be opened by its address,
\* and again when its submission is completed.
OpenTask(t) ==
    LET id == IF Filled = {} THEN 1 ELSE Max(Filled) + 1
    IN /\ ~renumber /\ task[t] = "active" /\ id \in SubIds
       /\ ~\E i \in Filled : subs[i].task = t /\ subs[i].state = "open"
       /\ subs' = [subs EXCEPT ![id] = [task |-> t, state |-> "open", mark |-> "none"]]
       /\ UNCHANGED <<levels, renumber, task, asked, kills>>

CompleteTask(i) ==
    /\ ~renumber /\ i \in Filled /\ subs[i].state = "open"
    /\ subs' = [subs EXCEPT ![i].state = "done"]
    /\ UNCHANGED <<levels, renumber, task, asked, kills>>

-----------------------------------------------------------------------------
(* Grading *)

\* grading_detail: kind comes from the form, and open submissions can be marked.
SaveGrade(i, kind) ==
    /\ ~renumber /\ i \in Filled
    /\ subs' = [subs EXCEPT ![i].mark = kind]
    /\ UNCHANGED <<levels, renumber, task, asked, kills>>

SubmissionDelete(i) ==
    /\ ~renumber /\ i \in Filled
    /\ subs' = [subs EXCEPT ![i] = NoSub]
    /\ UNCHANGED <<levels, renumber, task, asked, kills>>

\* grading_ai_suggest reads the row, asks the LLM and writes the row of that id,
\* or fails when there is none any more.
AskSuggestion(i) ==
    /\ ~renumber /\ asked = 0 /\ i \in Filled
    /\ asked' = i
    /\ UNCHANGED <<levels, renumber, task, subs, kills>>

Suggested ==
    /\ ~renumber /\ asked # 0
    /\ asked' = 0
    /\ UNCHANGED <<levels, renumber, task, subs, kills>>

\* The process dies: commits stay, the rest of the request does not happen.
Die ==
    /\ kills < MaxKills
    /\ kills' = kills + 1
    /\ renumber' = FALSE /\ asked' = 0
    /\ UNCHANGED <<levels, task, subs>>

CurriculumNext ==
    \/ LevelNew \/ Renumber \/ Suggested \/ Die
    \/ \E l \in LevelIds : LevelDelete(l)
    \/ \E l \in LevelIds, ts \in SUBSET Tasks : LevelSave(l, ts)
    \/ \E t \in Tasks : TaskDelete(t) \/ OpenTask(t) \/ \E s \in {"active", "hidden"} : SetTask(t, s)
    \/ \E i \in SubIds : CompleteTask(i) \/ SubmissionDelete(i) \/ AskSuggestion(i)
    \/ \E i \in SubIds, kind \in {"none", "points", "passfail"} : SaveGrade(i, kind)

CurriculumSpec == CurriculumInit /\ [][CurriculumNext]_curriculumVars

-----------------------------------------------------------------------------
(* Properties *)

\* Type invariant.
CurriculumTypeOK ==
    /\ levels \in [LevelIds -> Level]
    /\ renumber \in BOOLEAN
    /\ task \in [Tasks -> {"active", "hidden", "gone"}]
    /\ subs \in [SubIds -> Sub \cup {NoSub}]
    /\ asked \in SubIds \cup {0} /\ kills \in 0..MaxKills

\* Levels are numbered from 1 without gaps in the order in which they were made;
\* a death between the two commits of a deletion leaves at most one gap each
\* (level_new, level_edit).
OneGapPerDeath ==
    /\ \A l, m \in Present : l < m => levels[l].number < levels[m].number
    /\ Present # {} /\ ~renumber => Max(Numbers) - Cardinality(Numbers) <= kills

\* A level that has been open to a student closes only when somebody edits levels
\* or tasks or deletes a submission: starting a task anew, marks and suggestions
\* close nothing (is_completed_by).
OpenStays ==
    [][UNCHANGED <<levels, task>> /\ (\A i \in Filled : subs'[i] # NoSub)
         => \A l \in Unlocked : IsUnlocked(l)']_curriculumVars

=============================================================================
