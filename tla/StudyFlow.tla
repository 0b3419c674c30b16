------------------------------- MODULE StudyFlow -------------------------------
(***************************************************************************)
(* A standalone study: participants are led through its steps by the       *)
(* routes of app/blueprints/study/routes.py, hand in surveys and tasks     *)
(* through their own pages, and an administrator changes the study and the *)
(* participants underneath them (app/blueprints/admin/studies.py).         *)
(*                                                                         *)
(* A request is handled without interruption (one worker, SQLite), so      *)
(* every action is one request.  What interleaves is requests: several     *)
(* tabs, pages left open, redirects that are followed later.               *)
(***************************************************************************)
EXTENDS Integers, FiniteSets, Sequences

CONSTANTS
    Users, Surveys, Tasks,
    Conds,          \* ids of the conditions; {} in a within-subjects study
    Plans,          \* step lists an administrator may save
    Empty,          \* surveys without a question: take sends on to the next page
    Inactive,       \* surveys switched off: take sends back to the start page
    EnrollSurvey,   \* the enrollment survey, or NoSurvey
    MaxParticipants, \* 0: no limit
    Admin,          \* administrative operations that may happen
    MaxIds,         \* bound: ids of step rows
    MaxCur,         \* bound: current_step of a participant
    NoSurvey

VARIABLES
    steps,      \* the study's steps in order
    phase,      \* [step id -> availability window relative to now]
    study,      \* is_active and is_archived
    part,       \* [Users -> study_participants row]
    comp,       \* [Users -> [step id -> study_step_completions row]]
    answers,    \* [Users -> survey_responses rows]
    work,       \* [Users -> [Tasks -> task_submissions rows]]
    choices,    \* [Users -> step ids in agent_switch_history, NoStep: deleted]
    pages       \* [Users -> pages in some tab or in its history]

vars == <<steps, phase, study, part, comp, answers, work, choices, pages>>

-----------------------------------------------------------------------------
Ids == 1..MaxIds
NoStep == 0
NoCond == 0
Operations == {"add", "remove", "reset", "condition", "archive", "edit"}

Kinds == {"survey", "task", "choice"}
PlanStep == [kind : Kinds, ref : Surveys \cup Tasks \cup {NoSurvey},
             conds : SUBSET Conds, late : BOOLEAN]
Step == [id : Ids, kind : Kinds, ref : Surveys \cup Tasks \cup {NoSurvey},
         conds : SUBSET Conds, late : BOOLEAN]

ASSUME BoundsAssumption == MaxIds \in Nat /\ MaxCur \in Nat /\ MaxParticipants \in Nat
ASSUME CondsAssumption == Conds \subseteq Nat \ {0} /\ IsFiniteSet(Conds) /\ IsFiniteSet(Users)
ASSUME PlansAssumption ==
    /\ Plans \subseteq Seq(PlanStep)
    /\ \A p \in Plans : Len(p) <= MaxIds /\
          \A k \in DOMAIN p : /\ p[k].kind = "survey" => p[k].ref \in Surveys
                              /\ p[k].kind = "task" => p[k].ref \in Tasks
ASSUME AdminAssumption == Admin \subseteq Operations
ASSUME SurveyAssumption ==
    /\ NoSurvey \notin Surveys \cup Tasks
    /\ EnrollSurvey \in Surveys \cup {NoSurvey}
    /\ Empty \subseteq Surveys /\ Inactive \subseteq Surveys

Phases == {"early", "open", "over"}
Participant == [in : BOOLEAN, cur : 0..MaxCur, done : BOOLEAN, dropped : BOOLEAN,
                cond : Conds \cup {NoCond}]
Outside == [in |-> FALSE, cur |-> 0, done |-> FALSE, dropped |-> FALSE, cond |-> NoCond]
\* A participant at the beginning of the study.
Entered(c) == [Outside EXCEPT !.in = TRUE, !.cond = c]
Marks == {"none", "started", "done"}

\* A completed response; "since" says whether it was given after enrolling.
Answer == [survey : Surveys, step : Ids \cup {NoStep}, since : BOOLEAN]

\* "open": a submission in progress; "tagged": a completed one of this study.
Work == [open : BOOLEAN, tagged : BOOLEAN]
NoWork == [open |-> FALSE, tagged |-> FALSE]

\* A task page works on the row it joined: still open, completed and tagged by
\* another tab, or deleted.  "link" is a redirect to the task's page and
\* "next" one to step_done, not yet followed.
Page ==
    [kind : {"survey"}, ref : Surveys, step : Ids \cup {NoStep}]
    \cup [kind : {"choice"}, step : Ids]
    \cup [kind : {"task"}, ref : Tasks, row : {"open", "tagged", "lost"}]
    \cup [kind : {"link"}, ref : Tasks]
    \cup [kind : {"next"}]
Next_ == [kind |-> "next"]

-----------------------------------------------------------------------------
StepIds == {steps[k].id : k \in DOMAIN steps}

\* get_effective_steps: where the steps of the participant's condition are.
Effective(u) == {k \in DOMAIN steps : steps[k].conds = {} \/ part[u].cond \in steps[k].conds}

\* How many of them come before one.
Before(u, k) == Cardinality({j \in Effective(u) : j < k})

\* get_step_for_participant: the current step, as a set of at most one.
Current(u) == {steps[k] : k \in {j \in Effective(u) : Before(u, j) = part[u].cur}}

\* The deadline closed the step for good.
Closed(st) == phase[st.id] = "over" /\ ~st.late

Active == study.active /\ ~study.archived

\* The participant must still fill in the enrollment survey.
OwesEnrollSurvey(u) ==
    EnrollSurvey # NoSurvey /\ ~\E a \in answers[u] : a.survey = EnrollSurvey /\ a.since

\* Variant for EnrollSurveyFirst: study_index no longer asks for it.
OpenGate(u) == FALSE

\* study_index sends the participant to the enrollment survey first.
Gate(u) == OwesEnrollSurvey(u)

\* Variant for ProgressBacked: step_done filters neither by step nor by study
\* and completion.
AnyHandedIn(u, st) ==
    /\ st.kind = "survey" => \E a \in answers[u] : a.survey = st.ref
    /\ st.kind = "task" => work[u][st.ref].tagged \/ work[u][st.ref].open

\* Variant for RecordsResolve: step_done looks for any answer to the step.
ByStepOnly(u, st) ==
    /\ st.kind = "survey" => \E a \in answers[u] : a.step = st.id
    /\ st.kind = "task" => work[u][st.ref].tagged

\* What step_done demands before it passes a step.
HandedIn(u, st) ==
    /\ st.kind = "survey" => \E a \in answers[u] : a.survey = st.ref /\ a.step = st.id
    /\ st.kind = "task" => work[u][st.ref].tagged

\* _record_step_start leaves an existing record alone; _record_step_done creates one.
Started(u, st) == [comp EXCEPT ![u][st.id] = IF @ = "none" THEN "started" ELSE @]
Completed(u, st) == [comp EXCEPT ![u][st.id] = "done"]

\* Variant for TypeOK: a pass counts twice.
DoubleAdvance(u) ==
    [part EXCEPT ![u].cur = @ + 2, ![u].done = @ \/ part[u].cur + 2 >= Cardinality(Effective(u))]

\* Variant for Throughout: the last step completes the study too early.
EarlyAdvance(u) ==
    [part EXCEPT ![u].cur = @ + 1, ![u].done = @ \/ part[u].cur + 2 >= Cardinality(Effective(u))]

\* current_step += 1, and completed when that was the last step.
Advance(u) ==
    [part EXCEPT ![u].cur = @ + 1, ![u].done = @ \/ part[u].cur + 1 >= Cardinality(Effective(u))]

\* Variant for Finishes: the expired step is only reported.
NoSkip(u) == part

\* The expired step is passed over.
Skip(u) == [part EXCEPT ![u].cur = @ + 1]

Show(u, p) == [pages EXCEPT ![u] = @ \cup {p}]

-----------------------------------------------------------------------------
\* Rows of a freshly saved plan get fresh ids.
Numbered(plan, first) ==
    [k \in DOMAIN plan |-> [id |-> first + k - 1, kind |-> plan[k].kind, ref |-> plan[k].ref,
                            conds |-> plan[k].conds, late |-> plan[k].late]]

Init ==
    /\ \E plan \in Plans : steps = Numbered(plan, 1)
    /\ phase = [i \in Ids |-> "early"]
    /\ study = [active |-> TRUE, archived |-> FALSE]
    /\ part = [u \in Users |-> Outside]
    /\ comp = [u \in Users |-> [i \in Ids |-> "none"]]
    /\ answers = [u \in Users |-> {}]
    /\ work = [u \in Users |-> [t \in Tasks |-> NoWork]]
    /\ choices = [u \in Users |-> {}]
    /\ pages = [u \in Users |-> {}]

\* Time passes over the start or the end of a step's window.
Tick(i) ==
    /\ i \in StepIds
    /\ phase[i] # "over"
    /\ phase' = [phase EXCEPT ![i] = IF @ = "early" THEN "open" ELSE "over"]
    /\ UNCHANGED <<steps, study, part, comp, answers, work, choices, pages>>

-----------------------------------------------------------------------------
(* Enrolling *)

Members(c) == Cardinality({u \in Users : part[u].in /\ part[u].cond = c})

\* Variant for Balanced: the fullest condition.
FullestConds == {c \in Conds : \A d \in Conds : Members(c) >= Members(d)}

\* The least populated conditions; assign_condition takes the first of them.
LeastConds == {c \in Conds : \A d \in Conds : Members(c) <= Members(d)}

AssignedCond == {c \in LeastConds : \A d \in LeastConds : c <= d}

\* Answers given before are no answers to the enrollment survey any more.
Outdated(u) == [answers EXCEPT ![u] = {[a EXCEPT !.since = FALSE] : a \in @}]

Enroll(u) ==
    /\ Active /\ ~part[u].in
    /\ MaxParticipants # 0 => Cardinality({v \in Users : part[v].in}) < MaxParticipants
    /\ \E c \in IF Conds = {} THEN {NoCond} ELSE AssignedCond :
          part' = [part EXCEPT ![u] = Entered(c)]
    /\ answers' = Outdated(u)
    /\ pages' = IF EnrollSurvey = NoSurvey THEN pages
                ELSE Show(u, [kind |-> "survey", ref |-> EnrollSurvey, step |-> NoStep])
    /\ UNCHANGED <<steps, phase, study, comp, work, choices>>

Dropout(u) ==
    /\ part[u].in /\ ~part[u].dropped
    /\ part' = [part EXCEPT ![u].dropped = TRUE]
    /\ UNCHANGED <<steps, phase, study, comp, answers, work, choices, pages>>

-----------------------------------------------------------------------------
(* Following the study *)

\* study_index: the gate of the enrollment survey, the end of the study, an
\* expired step, or the page of the current one.
Index(u) ==
    /\ Active /\ part[u].in /\ ~part[u].dropped /\ ~part[u].done
    /\ \/ /\ Gate(u)
          /\ pages' = Show(u, [kind |-> "survey", ref |-> EnrollSurvey, step |-> NoStep])
          /\ UNCHANGED <<part, comp>>
       \/ /\ ~Gate(u) /\ Current(u) = {}
          /\ part' = [part EXCEPT ![u].done = TRUE]
          /\ UNCHANGED <<comp, pages>>
       \/ \E st \in Current(u) :
             /\ ~Gate(u) /\ phase[st.id] # "early"
             /\ \/ /\ Closed(st) /\ part[u].cur < MaxCur
                   /\ part' = Skip(u)
                   /\ UNCHANGED <<comp, pages>>
                \/ /\ ~Closed(st) /\ st.kind = "task"
                   /\ pages' = Show(u, [kind |-> "link", ref |-> st.ref])
                   /\ UNCHANGED <<part, comp>>
                \/ /\ ~Closed(st) /\ st.kind # "task"
                   /\ comp' = Started(u, st)
                   /\ pages' = Show(u, IF st.kind = "choice"
                                       THEN [kind |-> "choice", step |-> st.id]
                                       ELSE [kind |-> "survey", ref |-> st.ref, step |-> st.id])
                   /\ UNCHANGED part
    /\ UNCHANGED <<steps, phase, study, answers, work, choices>>

\* task_step: the deadline is only looked at when the task is the current step.
\* The page joins the task, which resumes the open submission or creates one.
OpenTask(u, t) ==
    /\ [kind |-> "link", ref |-> t] \in pages[u]
    /\ part[u].in /\ ~part[u].dropped
    /\ LET mine == {st \in Current(u) : st.kind = "task" /\ st.ref = t}
       IN /\ comp' = IF mine = {} THEN comp ELSE Started(u, CHOOSE st \in mine : TRUE)
          /\ \/ /\ \E st \in mine : Closed(st) /\ part[u].cur < MaxCur
                /\ part' = Skip(u)
                /\ UNCHANGED <<work, pages>>
             \/ /\ \E st \in mine : phase[st.id] = "early"
                /\ UNCHANGED <<part, work, pages>>
             \/ /\ \A st \in mine : ~Closed(st) /\ phase[st.id] # "early"
                /\ work' = [work EXCEPT ![u][t].open = TRUE]
                /\ pages' = Show(u, [kind |-> "task", ref |-> t, row |-> "open"])
                /\ UNCHANGED part
    /\ UNCHANGED <<steps, phase, study, answers, choices>>

\* survey take: a survey that is switched off is not taken, and a response to a
\* step that was deleted breaks a foreign key.
SubmitSurvey(u, p) ==
    /\ p \in pages[u] /\ p.kind = "survey" /\ p.ref \notin Inactive
    /\ p.step \in StepIds \cup {NoStep} \/ p.ref \in Empty
    /\ answers' = IF p.ref \in Empty THEN answers
                  ELSE [answers EXCEPT ![u] =
                          @ \cup {[survey |-> p.ref, step |-> p.step, since |-> TRUE]}]
    /\ pages' = IF p.step = NoStep THEN pages ELSE Show(u, Next_)
    /\ UNCHANGED <<steps, phase, study, part, comp, work, choices>>

\* save_bpmn with a study_id.  The page's session completes the row it joined;
\* without one the fallback completes the user's open row, if there is any.
SaveTask(u, p, alive, again) ==
    /\ p \in pages[u] /\ p.kind = "task"
    /\ LET closes == work[u][p.ref].open /\ (p.row # "tagged" \/ ~alive)
           after(q) == IF closes /\ q.kind = "task" /\ q.ref = p.ref /\ q.row = "open"
                       THEN [q EXCEPT !.row = "tagged"] ELSE q
           left == IF again THEN pages[u] ELSE pages[u] \ {p}
       IN /\ work' = IF closes THEN [work EXCEPT ![u][p.ref] = [open |-> FALSE, tagged |-> TRUE]]
                     ELSE work
          /\ pages' = [pages EXCEPT ![u] = {after(q) : q \in left} \cup {Next_}]
    /\ UNCHANGED <<steps, phase, study, part, comp, answers, choices>>

\* step_done: not even a participant who dropped out is turned away.
StepDone(u) ==
    /\ Next_ \in pages[u]
    /\ LET left == pages[u] \ {Next_}
       IN \/ /\ ~part[u].in \/ part[u].done
             /\ pages' = [pages EXCEPT ![u] = left]
             /\ UNCHANGED <<part, comp>>
          \/ \E st \in Current(u) :
                /\ part[u].in /\ ~part[u].done /\ ~HandedIn(u, st)
                /\ pages' = [pages EXCEPT ![u] = left \cup
                     {IF st.kind = "task" THEN [kind |-> "link", ref |-> st.ref]
                      ELSE [kind |-> "survey", ref |-> st.ref, step |-> st.id]}]
                /\ UNCHANGED <<part, comp>>
          \/ /\ part[u].in /\ ~part[u].done /\ part[u].cur < MaxCur
             /\ \A st \in Current(u) : HandedIn(u, st)
             /\ comp' = IF Current(u) = {} THEN comp
                        ELSE Completed(u, CHOOSE st \in Current(u) : TRUE)
             /\ part' = Advance(u)
             /\ pages' = [pages EXCEPT ![u] = left]
    /\ UNCHANGED <<steps, phase, study, answers, work, choices>>

\* A posted agent choice counts whatever the current step is.
Choose(u, p) ==
    /\ p \in pages[u] /\ p.kind = "choice" /\ p.step \in StepIds
    /\ part[u].in /\ ~part[u].dropped /\ part[u].cur < MaxCur
    /\ choices' = [choices EXCEPT ![u] = @ \cup {p.step}]
    /\ comp' = [comp EXCEPT ![u][p.step] = "done"]
    /\ part' = Advance(u)
    /\ UNCHANGED <<steps, phase, study, answers, work, pages>>

-----------------------------------------------------------------------------
(* The administrator *)

AddParticipant(u) ==
    /\ "add" \in Admin /\ ~part[u].in
    /\ part' = [part EXCEPT ![u] = Entered(NoCond)]
    /\ answers' = Outdated(u)
    /\ UNCHANGED <<steps, phase, study, comp, work, choices, pages>>

\* Deleting the row deletes its completions with it.  It fails, and removes
\* nothing, once the participant has chosen an agent: the session would set the
\* participant of agent_switch_history to NULL, which the column forbids.
RemoveParticipant(u) ==
    /\ "remove" \in Admin /\ part[u].in /\ choices[u] = {}
    /\ part' = [part EXCEPT ![u] = Outside]
    /\ comp' = [comp EXCEPT ![u] = [i \in Ids |-> "none"]]
    /\ UNCHANGED <<steps, phase, study, answers, work, choices, pages>>

ResetParticipant(u) ==
    /\ "reset" \in Admin /\ part[u].in
    /\ part' = [part EXCEPT ![u] = Entered(part[u].cond)]
    /\ comp' = [comp EXCEPT ![u] = [i \in Ids |-> "none"]]
    /\ choices' = [choices EXCEPT ![u] = {}]
    /\ work' = [work EXCEPT ![u] = [t \in Tasks |-> [@[t] EXCEPT !.tagged = FALSE]]]
    /\ answers' = [answers EXCEPT ![u] = {a \in @ : a.step \notin StepIds}]
    /\ pages' = [pages EXCEPT ![u] =
                   {IF q.kind = "task" /\ q.row = "tagged" THEN [q EXCEPT !.row = "lost"] ELSE q :
                      q \in @}]
    /\ UNCHANGED <<steps, phase, study>>

SetCondition(u, c) ==
    /\ "condition" \in Admin /\ part[u].in
    /\ part' = [part EXCEPT ![u].cond = c]
    /\ UNCHANGED <<steps, phase, study, comp, answers, work, choices, pages>>

Archive ==
    /\ "archive" \in Admin /\ ~study.archived
    /\ study' = [active |-> FALSE, archived |-> TRUE]
    /\ UNCHANGED <<steps, phase, part, comp, answers, work, choices, pages>>

Unarchive ==
    /\ "archive" \in Admin /\ study.archived
    /\ study' = [study EXCEPT !.archived = FALSE]
    /\ UNCHANGED <<steps, phase, part, comp, answers, work, choices, pages>>

\* ON DELETE SET NULL on survey_responses.step_id.
Unlink(S) == {[a EXCEPT !.step = NoStep] : a \in S}

\* study_edit saves the whole form, and _save_study_steps replaces every row.
\* SQLite hands out the ids of deleted rows again unless a later study has rows.
EditStudy(plan, active) ==
    /\ "edit" \in Admin
    /\ \E first \in Ids :
          /\ first = 1 \/ \A i \in StepIds : i < first
          /\ first + Len(plan) - 1 <= MaxIds
          /\ steps' = Numbered(plan, first)
    /\ phase' = [i \in Ids |-> "early"]
    /\ study' = [study EXCEPT !.active = active]
    /\ comp' = [u \in Users |-> [i \in Ids |-> "none"]]
    /\ answers' = [u \in Users |-> Unlink(answers[u])]
    /\ choices' = [u \in Users |-> IF choices[u] = {} THEN {} ELSE {NoStep}]
    /\ UNCHANGED <<part, work, pages>>

-----------------------------------------------------------------------------
Participate(u) ==
    \/ Index(u) \/ StepDone(u)
    \/ \E t \in Tasks : OpenTask(u, t)
    \/ \E p \in pages[u] :
          \/ SubmitSurvey(u, p) \/ Choose(u, p)
          \/ \E alive, again \in BOOLEAN : SaveTask(u, p, alive, again)

Administrate ==
    \/ \E u \in Users : \/ AddParticipant(u) \/ RemoveParticipant(u) \/ ResetParticipant(u)
                        \/ \E c \in Conds \cup {NoCond} : SetCondition(u, c)
    \/ Archive \/ Unarchive
    \/ \E plan \in Plans, active \in BOOLEAN : EditStudy(plan, active)

Next ==
    \/ \E i \in Ids : Tick(i)
    \/ \E u \in Users : Enroll(u) \/ Dropout(u) \/ Participate(u)
    \/ Administrate

Spec == Init /\ [][Next]_vars

\* A participant who keeps going: windows open in time (they need not close),
\* redirects are followed and pages that ask for something get it.
Fairness ==
    /\ \A i \in Ids : WF_vars(phase[i] = "early" /\ Tick(i))
    /\ \A u \in Users :
          /\ WF_vars(Index(u)) /\ WF_vars(StepDone(u))
          /\ \A t \in Tasks : WF_vars(OpenTask(u, t))
          /\ \A p \in Page : /\ WF_vars(SubmitSurvey(u, p)) /\ WF_vars(Choose(u, p))
                             /\ WF_vars(\E alive, again \in BOOLEAN : SaveTask(u, p, alive, again))

FairSpec == Spec /\ Fairness

-----------------------------------------------------------------------------
(* Properties *)

\* Type invariant.
TypeOK ==
    /\ steps \in Seq(Step)
    /\ phase \in [Ids -> Phases]
    /\ study \in [active : BOOLEAN, archived : BOOLEAN]
    /\ part \in [Users -> Participant]
    /\ comp \in [Users -> [Ids -> Marks]]
    /\ answers \in [Users -> SUBSET Answer]
    /\ work \in [Users -> [Tasks -> Work]]
    /\ choices \in [Users -> SUBSET (Ids \cup {NoStep})]
    /\ pages \in [Users -> SUBSET Page]

\* What backs the record of a step: its own survey or task was handed in for it,
\* or a choice of an agent was posted for its id.
Evidence(u, st) ==
    \/ st.kind = "survey" /\ \E a \in answers[u] : a.survey = st.ref /\ a.step = st.id
    \/ st.kind = "task" /\ work[u][st.ref].tagged
    \/ st.id \in choices[u]

\* Rows hang on steps that exist, and nobody outside has a record.
RowsHang ==
    \A u \in Users :
        /\ \A a \in answers[u] : a.step \in StepIds \cup {NoStep}
        /\ \A i \in Ids : comp[u][i] # "none" => i \in StepIds /\ part[u].in
        /\ choices[u] \subseteq StepIds \cup {NoStep}
        /\ ~part[u].in => part[u] = Outside /\ choices[u] = {}

\* Rows hang on steps that exist, nobody outside has a record, and a record says
\* what happened at the step that has its id now: however often the steps are
\* saved again and their ids handed out to others under pages left open, a survey
\* or task is recorded as completed only if that survey or task was handed in
\* for it, or an agent was chosen under its id (step_done, agent_choice_step, the
\* ON DELETE rules, study_participant_remove, _save_study_steps).
RecordsResolve ==
    /\ RowsHang
    /\ \A u \in Users, k \in DOMAIN steps :
          steps[k].kind # "choice" /\ comp[u][steps[k].id] = "done" => Evidence(u, steps[k])

\* The steps a participant has left behind.
Passed(u) == {steps[k] : k \in {j \in Effective(u) : Before(u, j) < part[u].cur}}

\* "Called after a step is completed; records completion and advances step"
\* (step_done): whatever tabs, late redirects, dropouts and resets happen, a step
\* lies behind a participant only with its record and its evidence, or because
\* its deadline closed it.
ProgressBacked ==
    \A u \in Users : \A st \in Passed(u) :
        \/ phase[st.id] = "over" /\ ~st.late
        \/ /\ comp[u][st.id] = "done"
           /\ st.kind = "survey" => \E a \in answers[u] : a.survey = st.ref /\ a.step = st.id
           /\ st.kind = "task" => work[u][st.ref].tagged
           /\ st.kind = "choice" => st.id \in choices[u]

\* Nobody is marked as completed before the last step of his condition lies
\* behind him (step_done, agent_choice_step, study_index).
Throughout ==
    \A u \in Users : part[u].done => part[u].cur >= Cardinality(Effective(u))

\* "Survey shown at enrollment (before study steps begin)" (Study): no step is
\* completed before the enrollment survey has been answered.
EnrollSurveyFirst ==
    \A u \in Users : OwesEnrollSurvey(u) => \A i \in Ids : comp[u][i] # "done"

\* Between subjects: self-enrollment keeps the conditions balanced, dropouts
\* included (assign_condition).
Balanced == \A c, d \in Conds : Members(c) - Members(d) <= 1

\* A participant who keeps going reaches the end or leaves: no expired, late or
\* repeated step traps anybody (study_index, task_step, step_done).
Finishes ==
    \A u \in Users : (part[u].in /\ ~part[u].dropped) ~> (part[u].done \/ part[u].dropped)

\* A recorded completion lasts until the participant is reset or removed
\* (StudyStepCompletion).
CompletionsKept ==
    [][\A u \in Users, i \in Ids : comp[u][i] = "done" =>
          comp'[u][i] = "done" \/ part'[u].cur < part[u].cur]_vars
=============================================================================
