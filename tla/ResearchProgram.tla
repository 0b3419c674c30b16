---------------------------- MODULE ResearchProgram ----------------------------
(***************************************************************************)
(* The research programme: one Research row, its conditions, the users who *)
(* take part in it, and the rows they get in its studies                   *)
(* (app/blueprints/admin/research.py, app/models/research.py and the       *)
(* programme's half of app/blueprints/study/routes.py).                    *)
(*                                                                         *)
(* What happens inside a study is StudyFlow; here a study is entered,      *)
(* an agent is chosen in it, and it is left.                               *)
(***************************************************************************)
EXTENDS Integers, FiniteSets

CONSTANTS
    Users, Studies, Agents,
    CondIds,    \* ids of research_conditions; deleted ids are given out again
    NullAgent,    \* NULL in an agent column
    Gone,       \* no condition has this id
    AutoDropout,        \* researches.auto_dropout_on_miss
    MaxParticipants,    \* researches.max_participants; 0: no limit
    MaxRemoved  \* bound: removals counted since the conditions were last saved

ASSUME CondIdsAssumption == CondIds \subseteq Nat \ {0} /\ IsFiniteSet(CondIds)
ASSUME UsersAssumption == IsFiniteSet(Users)
ASSUME ProgrammeAssumption == MaxParticipants \in Nat /\ MaxRemoved \in Nat /\ AutoDropout \in BOOLEAN
ASSUME NullAssumption == NullAgent \notin Agents /\ Gone \notin Agents \cup {NullAgent}

VARIABLES
    prog,       \* the Research row
    conds,      \* [CondIds -> agent of the condition, or Gone]
    rp,         \* [Users -> research_participants row]
    study,      \* [Studies -> studies row: active, and part of the programme]
    sp,         \* [Users -> [Studies -> study_participants row]]
    removed     \* history: participants removed since the conditions were saved

programmeVars == <<prog, conds, rp, study, sp, removed>>

-----------------------------------------------------------------------------
NoCond == 0

\* open: active, enabled and within the enrollment window.
Program == [there : BOOLEAN, open : BOOLEAN, between : BOOLEAN]
NoProgram == [there |-> FALSE, open |-> FALSE, between |-> FALSE]

\* The rows are numbered from the first id that is free.
Conditions ==
    {cs \in [CondIds -> Agents \cup {NullAgent, Gone}] :
        \A c, d \in CondIds : c < d /\ cs[c] = Gone => cs[d] = Gone}
NoConditions == [c \in CondIds |-> Gone]

Participant == [in : BOOLEAN, dropped : BOOLEAN, cond : CondIds \cup {NoCond},
                agent : Agents \cup {NullAgent}]
Outside == [in |-> FALSE, dropped |-> FALSE, cond |-> NoCond, agent |-> NullAgent]

SubRow == [in : BOOLEAN, out : BOOLEAN, agent : Agents \cup {NullAgent}]
NoSubRow == [in |-> FALSE, out |-> FALSE, agent |-> NullAgent]

LiveConditions == {c \in CondIds : conds[c] # Gone}
Enrolled == {u \in Users : rp[u].in}
Members(c) == Cardinality({u \in Users : rp[u].in /\ rp[u].cond = c})

ProgrammeInit ==
    /\ prog = NoProgram
    /\ conds = NoConditions
    /\ rp = [u \in Users |-> Outside]
    /\ study \in [Studies -> [active : {TRUE}, sub : BOOLEAN]]
    /\ sp = [u \in Users |-> [s \in Studies |-> NoSubRow]]
    /\ removed = 0

-----------------------------------------------------------------------------
(* The administrator *)

\* research_create refuses a second programme.
Create(p, cs) ==
    /\ ~prog.there
    /\ prog' = p
    /\ conds' = cs
    /\ removed' = 0
    /\ UNCHANGED <<rp, study, sp>>

\* Variant for ServedByCondition: participants keep the number of a condition
\* that is deleted.
KeepCondition == rp

\* ON DELETE SET NULL on research_participants.condition_id.
ForgetCondition == [u \in Users |-> [rp[u] EXCEPT !.cond = NoCond]]

\* research_edit saves the form; _save_conditions replaces every condition
\* unless the posted list is missing.
Edit(p) ==
    /\ prog.there
    /\ prog' = p
    /\ UNCHANGED <<conds, rp, study, sp, removed>>

EditConditions(p, cs) ==
    /\ prog.there
    /\ prog' = p
    /\ conds' = cs
    /\ rp' = ForgetCondition
    /\ removed' = 0
    /\ UNCHANGED <<study, sp>>

\* Conditions and participants go with the row; the studies stand on their own.
Delete ==
    /\ prog.there
    /\ prog' = NoProgram
    /\ conds' = NoConditions
    /\ rp' = [u \in Users |-> Outside]
    /\ study' = [s \in Studies |-> [study[s] EXCEPT !.sub = FALSE]]
    /\ removed' = 0
    /\ UNCHANGED sp

\* Variant for Balanced: counts only those who have not dropped out.
Remaining(c) == Cardinality({u \in Users : rp[u].in /\ rp[u].cond = c /\ ~rp[u].dropped})
ActiveAssigned ==
    IF ~prog.between \/ LiveConditions = {} THEN NoCond
    ELSE CHOOSE c \in LiveConditions : \A d \in LiveConditions :
            Remaining(c) < Remaining(d) \/ (Remaining(c) = Remaining(d) /\ c <= d)

\* assign_condition: the first of the least populated conditions.
Placed ==
    IF ~prog.between \/ LiveConditions = {} THEN NoCond
    ELSE CHOOSE c \in LiveConditions : \A d \in LiveConditions :
            Members(c) < Members(d) \/ (Members(c) = Members(d) /\ c <= d)

\* The condition's agent is looked up through the new row's relationship, which
\* SQLAlchemy does not load for a row that has not been added yet.
AddParticipant(u) ==
    /\ prog.there /\ ~rp[u].in
    /\ rp' = [rp EXCEPT ![u] = [Outside EXCEPT !.in = TRUE, !.cond = Placed]]
    /\ UNCHANGED <<prog, conds, study, sp, removed>>

\* Variant for RemovedForGood: the rows in the studies stay.
KeepSubRows(u) == sp

DropSubRows(u) ==
    [sp EXCEPT ![u] = [s \in Studies |-> IF study[s].sub THEN NoSubRow ELSE @[s]]]

RemoveParticipant(u) ==
    /\ prog.there /\ rp[u].in /\ removed < MaxRemoved
    /\ rp' = [rp EXCEPT ![u] = Outside]
    /\ sp' = DropSubRows(u)
    /\ removed' = removed + 1
    /\ UNCHANGED <<prog, conds, study>>

Exclude(u) ==
    /\ prog.there /\ rp[u].in /\ ~rp[u].dropped
    /\ rp' = [rp EXCEPT ![u].dropped = TRUE]
    /\ UNCHANGED <<prog, conds, study, sp, removed>>

Reinstate(u) ==
    /\ prog.there /\ rp[u].in
    /\ rp' = [rp EXCEPT ![u].dropped = FALSE]
    /\ UNCHANGED <<prog, conds, study, sp, removed>>

\* study_edit takes a study into the programme or out of it; study_archive,
\* like it, takes a study out of service.
EditStudy(s, active, sub) ==
    /\ sub => prog.there
    /\ study' = [study EXCEPT ![s] = [active |-> active, sub |-> sub]]
    /\ UNCHANGED <<prog, conds, rp, sp, removed>>

\* study_participant_add does not ask for the programme.
AddToStudy(u, s) ==
    /\ ~sp[u][s].in
    /\ sp' = [sp EXCEPT ![u][s].in = TRUE]
    /\ UNCHANGED <<prog, conds, rp, study, removed>>

\* ON DELETE SET NULL on every column that names the agent.
DeleteAgent(a) ==
    /\ conds' = [c \in CondIds |-> IF conds[c] = a THEN NullAgent ELSE conds[c]]
    /\ rp' = [u \in Users |-> IF rp[u].agent = a THEN [rp[u] EXCEPT !.agent = NullAgent] ELSE rp[u]]
    /\ sp' = [u \in Users |-> [s \in Studies |->
                 IF sp[u][s].agent = a THEN [sp[u][s] EXCEPT !.agent = NullAgent] ELSE sp[u][s]]]
    /\ UNCHANGED <<prog, study, removed>>

-----------------------------------------------------------------------------
(* The participant *)

\* research_enroll
Enroll(u) ==
    /\ prog.there /\ prog.open /\ ~rp[u].in
    /\ MaxParticipants # 0 => Cardinality(Enrolled) < MaxParticipants
    /\ rp' = [rp EXCEPT ![u] =
                [in |-> TRUE, dropped |-> FALSE, cond |-> Placed,
                 agent |-> IF Placed = NoCond THEN NullAgent ELSE conds[Placed]]]
    /\ UNCHANGED <<prog, conds, study, sp, removed>>

\* The programme lets the user into its studies.
Admitted(u) == rp[u].in /\ ~rp[u].dropped

\* _auto_dropout_check raises an AttributeError as soon as it looks at the
\* clock, so nobody is ever dropped and the page fails.
DropoutCheckFails(u) == AutoDropout /\ ~rp[u].dropped

\* study_index of a study of the programme; _ensure_study_participant.
Start(u, s) ==
    /\ study[s].active /\ study[s].sub
    /\ Admitted(u) /\ ~DropoutCheckFails(u)
    /\ ~sp[u][s].in
    /\ sp' = [sp EXCEPT ![u][s].in = TRUE]
    /\ UNCHANGED <<prog, conds, rp, study, removed>>

\* task_step, from a link: whether the study is active is not asked.
OpenTaskStep(u, s) ==
    /\ study[s].sub
    /\ Admitted(u) /\ ~sp[u][s].in
    /\ sp' = [sp EXCEPT ![u][s].in = TRUE]
    /\ UNCHANGED <<prog, conds, rp, study, removed>>

\* enroll does not ask whether the study belongs to a programme.
EnrollInStudy(u, s) ==
    /\ study[s].active /\ ~sp[u][s].in
    /\ sp' = [sp EXCEPT ![u][s].in = TRUE]
    /\ UNCHANGED <<prog, conds, rp, study, removed>>

\* agent_choice_step
ChooseAgent(u, s, a) ==
    /\ sp[u][s].in /\ ~sp[u][s].out
    /\ sp' = [sp EXCEPT ![u][s].agent = a]
    /\ UNCHANGED <<prog, conds, rp, study, removed>>

\* dropout leaves the study, not the programme.
Leave(u, s) ==
    /\ sp[u][s].in /\ ~sp[u][s].out
    /\ sp' = [sp EXCEPT ![u][s].out = TRUE]
    /\ UNCHANGED <<prog, conds, rp, study, removed>>

-----------------------------------------------------------------------------
Posted == {p \in Program : p.there}

Administrate ==
    \/ \E p \in Posted : Edit(p) \/ \E cs \in Conditions : Create(p, cs) \/ EditConditions(p, cs)
    \/ Delete
    \/ \E u \in Users : \/ AddParticipant(u) \/ RemoveParticipant(u)
                        \/ Exclude(u) \/ Reinstate(u)
                        \/ \E s \in Studies : AddToStudy(u, s)
    \/ \E s \in Studies, active, sub \in BOOLEAN : EditStudy(s, active, sub)
    \/ \E a \in Agents : DeleteAgent(a)

TakePart(u) ==
    \/ Enroll(u)
    \/ \E s \in Studies : \/ Start(u, s) \/ OpenTaskStep(u, s) \/ EnrollInStudy(u, s)
                          \/ Leave(u, s)
                          \/ \E a \in Agents : ChooseAgent(u, s, a)

ProgrammeNext == Administrate \/ \E u \in Users : TakePart(u)

ProgrammeSpec == ProgrammeInit /\ [][ProgrammeNext]_programmeVars

-----------------------------------------------------------------------------
(* Properties *)

ProgrammeTypeOK ==
    /\ prog \in Program
    /\ conds \in Conditions
    /\ rp \in [Users -> Participant]
    /\ study \in [Studies -> [active : BOOLEAN, sub : BOOLEAN]]
    /\ sp \in [Users -> [Studies -> SubRow]]
    /\ removed \in 0..MaxRemoved

\* The agent task_step serves a participant who has chosen none.
Served(u) ==
    IF rp[u].agent # NullAgent THEN rp[u].agent
    ELSE IF rp[u].cond # NoCond THEN conds[rp[u].cond] ELSE NullAgent

\* Whoever is in a condition works with that condition's agent, or without AI
\* where it has none, however the conditions are saved again, agents deleted and
\* participants added (_save_conditions, research_enroll, research_participant_add,
\* task_step): a condition's number never comes to mean another treatment.
ServedByCondition ==
    \A u \in Users : rp[u].cond # NoCond => rp[u].cond \in LiveConditions /\ Served(u) = conds[rp[u].cond]

\* The conditions stay balanced, dropouts counted, whatever mix of
\* self-enrollment, additions by hand and new conditions; only participants who
\* were removed leave a gap (assign_condition).
Balanced == \A c, d \in LiveConditions : Members(c) - Members(d) <= 1 + removed

\* A participant who is removed starts from nothing in the programme's studies
\* when he comes back (research_participant_remove).
RemovedForGood ==
    [][\A u \in Users : rp[u].in /\ ~rp'[u].in /\ prog'.there =>
          \A s \in Studies : study[s].sub => sp'[u][s] = NoSubRow]_programmeVars
=============================================================================
