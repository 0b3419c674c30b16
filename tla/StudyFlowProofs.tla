---------------------------- MODULE StudyFlowProofs ----------------------------
(***************************************************************************)
(* For all users, surveys, tasks, conditions and plans: types and records  *)
(* hold whatever administrators do (FInv); the enrollment survey comes     *)
(* first unless participants are removed; conditions stay balanced unless  *)
(* participants are removed or moved; and as long as neither conditions    *)
(* nor the plan change under the participants, nobody is completed before  *)
(* the end and every step behind a participant is backed by what he handed *)
(* in or by its deadline.                                                  *)
(*                                                                         *)
(* The last two rest on the ranks of a condition's steps being all         *)
(* different and without gaps, so that there is one current step until     *)
(* none is left, and on every request being a step of a walk (Walks).      *)
(***************************************************************************)
EXTENDS StudyFlow, FiniteSetTheorems, SequenceTheorems, WellFoundedInduction, TLAPS

\* The steps refer to surveys and tasks that exist.
RefsOK ==
    \A k \in DOMAIN steps : /\ steps[k].kind = "survey" => steps[k].ref \in Surveys
                            /\ steps[k].kind = "task" => steps[k].ref \in Tasks

FInv == TypeOK /\ RefsOK /\ RowsHang

-----------------------------------------------------------------------------
(* Rows and pages *)

\* What a page of each kind names.
LEMMA PageFields ==
    \A p \in Page :
        /\ p.kind = "survey" => p \in [kind : {"survey"}, ref : Surveys, step : Ids \cup {NoStep}]
        /\ p.kind = "choice" => p.step \in Ids
        /\ p.kind = "task" => p \in [kind : {"task"}, ref : Tasks, row : {"open", "tagged", "lost"}]
BY DEF Page

\* Pages that are shown are pages.
LEMMA PageTypes ==
    /\ \A s \in Surveys, i \in Ids \cup {NoStep} : [kind |-> "survey", ref |-> s, step |-> i] \in Page
    /\ \A i \in Ids : [kind |-> "choice", step |-> i] \in Page
    /\ \A t \in Tasks : [kind |-> "task", ref |-> t, row |-> "open"] \in Page
    /\ \A t \in Tasks : [kind |-> "link", ref |-> t] \in Page
    /\ Next_ \in Page
    /\ \A p \in Page : \A r \in {"tagged", "lost"} : p.kind = "task" => [p EXCEPT !.row = r] \in Page
<1>1. \A p \in [kind : {"task"}, ref : Tasks, row : {"open", "tagged", "lost"}], r \in {"tagged", "lost"} :
         [p EXCEPT !.row = r] \in [kind : {"task"}, ref : Tasks, row : {"open", "tagged", "lost"}]
  OBVIOUS
<1>2. \A p \in Page : \A r \in {"tagged", "lost"} : p.kind = "task" => [p EXCEPT !.row = r] \in Page
  BY <1>1, PageFields DEF Page
<1>3. /\ \A s \in Surveys, i \in Ids \cup {NoStep} : [kind |-> "survey", ref |-> s, step |-> i] \in Page
      /\ \A i \in Ids : [kind |-> "choice", step |-> i] \in Page
      /\ \A t \in Tasks : [kind |-> "task", ref |-> t, row |-> "open"] \in Page
  BY DEF Page
<1>4. (\A t \in Tasks : [kind |-> "link", ref |-> t] \in Page) /\ Next_ \in Page
  BY DEF Page, Next_
<1> QED BY <1>2, <1>3, <1>4

\* A participant's row with columns replaced is one.
LEMMA RowTypes ==
    /\ Outside \in Participant /\ ~Outside.in /\ Outside.cur = 0 /\ ~Outside.done /\ Outside.cond = NoCond
    /\ \A c \in Conds \cup {NoCond} :
          /\ Entered(c) \in Participant /\ Entered(c).in /\ Entered(c).cur = 0
          /\ ~Entered(c).done /\ Entered(c).cond = c
<1>1. 0 \in 0..MaxCur
  BY BoundsAssumption
<1>2. Outside \in Participant /\ ~Outside.in /\ Outside.cur = 0 /\ ~Outside.done /\ Outside.cond = NoCond
  BY <1>1 DEF Participant, Outside
<1>3. \A c \in Conds \cup {NoCond} :
          /\ Entered(c) \in Participant /\ Entered(c).in /\ Entered(c).cur = 0
          /\ ~Entered(c).done /\ Entered(c).cond = c
  BY <1>1 DEF Participant, Outside, Entered
<1> QED BY <1>2, <1>3

\* Columns replaced by values of their type leave a row.
LEMMA RowChanges ==
    ASSUME NEW r \in Participant
    PROVE  /\ \A c \in Conds \cup {NoCond} : [r EXCEPT !.cond = c] \in Participant
           /\ [r EXCEPT !.done = TRUE] \in Participant
           /\ [r EXCEPT !.dropped = TRUE] \in Participant
           /\ r.cur \in 0..MaxCur
           /\ r.cur < MaxCur => r.cur + 1 \in 0..MaxCur
           /\ \A n \in 0..MaxCur : [r EXCEPT !.cur = n] \in Participant
           /\ \A n \in 0..MaxCur, d \in BOOLEAN : [r EXCEPT !.cur = n, !.done = d] \in Participant
<1>1. r.cur \in 0..MaxCur
  BY DEF Participant
<1>2. r.cur < MaxCur => r.cur + 1 \in 0..MaxCur
  BY <1>1, BoundsAssumption
<1>3. \A n \in 0..MaxCur, d \in BOOLEAN : [r EXCEPT !.cur = n, !.done = d] \in Participant
  BY DEF Participant
<1>4. \A n \in 0..MaxCur : [r EXCEPT !.cur = n] \in Participant
  BY DEF Participant
<1>5. \A c \in Conds \cup {NoCond} : [r EXCEPT !.cond = c] \in Participant
  BY DEF Participant
<1>6. [r EXCEPT !.done = TRUE] \in Participant /\ [r EXCEPT !.dropped = TRUE] \in Participant
  BY DEF Participant
<1> QED BY <1>1, <1>2, <1>3, <1>4, <1>5, <1>6

\* Answers stay answers when they become outdated or lose their step.
LEMMA AnswerTypes ==
    \A a \in Answer : /\ [a EXCEPT !.since = FALSE] \in Answer /\ [a EXCEPT !.since = FALSE].step = a.step
                      /\ [a EXCEPT !.step = NoStep] \in Answer /\ [a EXCEPT !.step = NoStep].step = NoStep
BY DEF Answer

\* Submissions that are opened, handed in or untagged are submissions.
LEMMA WorkTypes ==
    /\ NoWork \in Work /\ [open |-> FALSE, tagged |-> TRUE] \in Work
    /\ \A w \in Work : /\ [w EXCEPT !.open = TRUE] \in Work /\ [w EXCEPT !.open = TRUE].tagged = w.tagged
                       /\ [w EXCEPT !.tagged = FALSE] \in Work
BY DEF Work, NoWork

\* A saved plan is a list of steps with ids of their own.
LEMMA NumberedType ==
    ASSUME NEW plan \in Plans, NEW first \in Nat \ {0}, first + Len(plan) - 1 <= MaxIds
    PROVE  /\ Numbered(plan, first) \in Seq(Step)
           /\ \A k \in DOMAIN Numbered(plan, first) :
                 /\ Numbered(plan, first)[k].kind = "survey" => Numbered(plan, first)[k].ref \in Surveys
                 /\ Numbered(plan, first)[k].kind = "task" => Numbered(plan, first)[k].ref \in Tasks
<1> DEFINE row(k) == [id |-> first + k - 1, kind |-> plan[k].kind, ref |-> plan[k].ref,
                      conds |-> plan[k].conds, late |-> plan[k].late]
<1>1. plan \in Seq(PlanStep) /\ Len(plan) \in Nat /\ DOMAIN plan = 1..Len(plan)
  BY PlansAssumption
<1>2. \A k \in DOMAIN plan : plan[k] \in PlanStep
  BY <1>1
<1>3. \A k \in DOMAIN plan : first + k - 1 \in Ids
  BY <1>1, BoundsAssumption DEF Ids
<1>4. \A k \in DOMAIN plan : row(k) \in Step /\ row(k).kind = plan[k].kind /\ row(k).ref = plan[k].ref
  BY <1>2, <1>3 DEF Step, PlanStep
<1>5. Numbered(plan, first) = [k \in DOMAIN plan |-> row(k)]
  BY DEF Numbered
<1> HIDE DEF row
<1>6. Numbered(plan, first) \in [1..Len(plan) -> Step]
  BY <1>1, <1>4, <1>5
<1>7. Numbered(plan, first) \in Seq(Step)
  BY <1>1, <1>6, SeqDef
<1> QED BY <1>4, <1>5, <1>7, PlansAssumption

\* Fresh rows have different ids.
LEMMA NumberedApart ==
    ASSUME NEW plan \in Plans, NEW first \in Nat \ {0}
    PROVE  \A j, k \in DOMAIN Numbered(plan, first) :
              Numbered(plan, first)[j].id = Numbered(plan, first)[k].id => j = k
<1>1. DOMAIN plan \subseteq Nat
  BY PlansAssumption
<1>2. /\ DOMAIN Numbered(plan, first) = DOMAIN plan
      /\ \A k \in DOMAIN plan : Numbered(plan, first)[k].id = first + k - 1
  BY DEF Numbered
<1> QED BY <1>1, <1>2

-----------------------------------------------------------------------------
(* What the helpers return *)

\* The current step is one of the study's (get_step_for_participant).
LEMMA CurrentSteps ==
    ASSUME TypeOK, RefsOK, NEW u, NEW st \in Current(u)
    PROVE  /\ st \in Step /\ st.id \in Ids /\ st.id \in StepIds
           /\ st.kind = "survey" => st.ref \in Surveys
           /\ st.kind = "task" => st.ref \in Tasks
<1>1. PICK k \in DOMAIN steps : st = steps[k]
  BY DEF Current, Effective
<1>2. steps \in Seq(Step) /\ k \in 1..Len(steps)
  BY <1>1, LenProperties DEF TypeOK
<1>3. st \in Step
  BY <1>1, <1>2, ElementOfSeq
<1>4. st.id \in Ids /\ st.id \in StepIds
  BY <1>1, <1>3 DEF Step, StepIds
<1> QED BY <1>1, <1>3, <1>4 DEF RefsOK

\* Passing a step changes the place of one participant, and whether he is done.
LEMMA Moves ==
    ASSUME part \in [Users -> Participant], NEW u \in Users, part[u].cur < MaxCur
    PROVE  /\ Advance(u) \in [Users -> Participant] /\ Skip(u) \in [Users -> Participant]
           /\ \A v \in Users \ {u} : Advance(u)[v] = part[v] /\ Skip(u)[v] = part[v]
           /\ Advance(u)[u].in = part[u].in /\ Skip(u)[u].in = part[u].in
           /\ Advance(u)[u].cond = part[u].cond /\ Skip(u)[u].cond = part[u].cond
           /\ Advance(u)[u].cur = part[u].cur + 1 /\ Skip(u)[u].cur = part[u].cur + 1
           /\ Skip(u)[u].done = part[u].done
           /\ Advance(u)[u].done = (part[u].done \/ part[u].cur + 1 >= Cardinality(Effective(u)))
<1> DEFINE n == part[u].cur + 1
           d == part[u].done \/ part[u].cur + 1 >= Cardinality(Effective(u))
           a == [part[u] EXCEPT !.cur = n, !.done = d]
           b == [part[u] EXCEPT !.cur = n]
<1>1. part[u] \in Participant /\ n \in 0..MaxCur /\ d \in BOOLEAN
  <2>1. part[u] \in Participant
    OBVIOUS
  <2>2. part[u].cur + 1 \in 0..MaxCur
    BY <2>1, RowChanges
  <2> QED BY <2>1, <2>2
<1>2. Advance(u) = [part EXCEPT ![u] = a]
  BY <1>1 DEF Advance
<1>3. Skip(u) = [part EXCEPT ![u] = b]
  BY <1>1 DEF Skip
<1> HIDE DEF n, d
<1>4. a \in Participant /\ b \in Participant
  BY <1>1, RowChanges
<1>5. /\ a.in = part[u].in /\ a.cond = part[u].cond /\ a.cur = n /\ a.done = d
      /\ b.in = part[u].in /\ b.cond = part[u].cond /\ b.cur = n /\ b.done = part[u].done
  BY <1>1 DEF Participant
<1> HIDE DEF a, b
<1> QED BY <1>2, <1>3, <1>4, <1>5 DEF n, d

\* Recording the start or the end of a step touches that one record.
LEMMA Recording ==
    ASSUME comp \in [Users -> [Ids -> Marks]], NEW u \in Users, NEW st, st.id \in Ids
    PROVE  /\ Started(u, st) \in [Users -> [Ids -> Marks]] /\ Completed(u, st) \in [Users -> [Ids -> Marks]]
           /\ \A v \in Users \ {u} : Started(u, st)[v] = comp[v] /\ Completed(u, st)[v] = comp[v]
           /\ \A i \in Ids \ {st.id} : Started(u, st)[u][i] = comp[u][i] /\ Completed(u, st)[u][i] = comp[u][i]
           /\ Started(u, st)[u][st.id] = (IF comp[u][st.id] = "none" THEN "started" ELSE comp[u][st.id])
           /\ Completed(u, st)[u][st.id] = "done"
BY DEF Started, Completed, Marks

\* A page more leaves the others.
LEMMA Showing ==
    ASSUME pages \in [Users -> SUBSET Page], NEW u \in Users, NEW p \in Page
    PROVE  /\ Show(u, p) \in [Users -> SUBSET Page]
           /\ Show(u, p)[u] = pages[u] \cup {p}
           /\ \A v \in Users \ {u} : Show(u, p)[v] = pages[v]
BY DEF Show

\* Answers given before enrolling only lose their validity for the enrollment
\* survey.
LEMMA Outdating ==
    ASSUME answers \in [Users -> SUBSET Answer], NEW u \in Users
    PROVE  /\ Outdated(u) \in [Users -> SUBSET Answer]
           /\ \A v \in Users \ {u} : Outdated(u)[v] = answers[v]
           /\ \A a \in Outdated(u)[u] : ~a.since /\ \E b \in answers[u] : a.step = b.step
<1> DEFINE old == {[a EXCEPT !.since = FALSE] : a \in answers[u]}
<1>1. Outdated(u) = [answers EXCEPT ![u] = old]
  BY DEF Outdated
<1>2. \A a \in old : a \in Answer /\ ~a.since /\ \E b \in answers[u] : a.step = b.step
  <2> SUFFICES ASSUME NEW b \in answers[u]
               PROVE  /\ [b EXCEPT !.since = FALSE] \in Answer
                      /\ ~[b EXCEPT !.since = FALSE].since
                      /\ [b EXCEPT !.since = FALSE].step = b.step
    OBVIOUS
  <2>1. b \in Answer
    OBVIOUS
  <2> QED BY <2>1 DEF Answer
<1> HIDE DEF old
<1> QED BY <1>1, <1>2

\* What a step may do to the records.
LEMMA RecordsKept ==
    ASSUME RowsHang, UNCHANGED steps,
           \A u \in Users :
               /\ part[u].in => part'[u].in
               /\ ~part'[u].in => part'[u] = part[u]
               /\ \A a \in answers'[u] : a.step \in StepIds \cup {NoStep}
               /\ \A i \in Ids : comp'[u][i] # "none" =>
                                    comp[u][i] # "none" \/ (i \in StepIds /\ part'[u].in)
               /\ choices'[u] = choices[u] \/ (part'[u].in /\ choices'[u] \subseteq StepIds \cup {NoStep})
    PROVE  RowsHang'
<1>1. StepIds' = StepIds
  BY DEF StepIds
<1> QED BY <1>1 DEF RowsHang

-----------------------------------------------------------------------------
(* Types and records *)

\* What RecordsKept and the types need, for a step that leaves the plan alone.
LEMMA Kept ==
    ASSUME FInv, UNCHANGED <<steps, study>>, phase' \in [Ids -> Phases],
           part' \in [Users -> Participant], comp' \in [Users -> [Ids -> Marks]],
           answers' \in [Users -> SUBSET Answer], work' \in [Users -> [Tasks -> Work]],
           choices' \in [Users -> SUBSET (Ids \cup {NoStep})], pages' \in [Users -> SUBSET Page],
           \A u \in Users :
               /\ part[u].in => part'[u].in
               /\ ~part'[u].in => part'[u] = part[u]
               /\ \A a \in answers'[u] : a.step \in StepIds \cup {NoStep}
               /\ \A i \in Ids : comp'[u][i] # "none" =>
                                    comp[u][i] # "none" \/ (i \in StepIds /\ part'[u].in)
               /\ choices'[u] = choices[u] \/ (part'[u].in /\ choices'[u] \subseteq StepIds \cup {NoStep})
    PROVE  FInv'
<1>1. RowsHang'
  BY RecordsKept DEF FInv
<1>2. RefsOK'
  BY DEF FInv, RefsOK
<1> QED BY <1>1, <1>2 DEF FInv, TypeOK

\* A new study.
LEMMA InitFInv == Init => FInv
<1> SUFFICES ASSUME Init PROVE FInv
  OBVIOUS
<1>1. PICK plan \in Plans : steps = Numbered(plan, 1)
  BY DEF Init
<1>2. 1 + Len(plan) - 1 <= MaxIds
  <2>1. Len(plan) \in Nat /\ Len(plan) <= MaxIds
    BY PlansAssumption
  <2> QED BY <2>1, BoundsAssumption
<1>3. steps \in Seq(Step) /\ RefsOK
  BY <1>1, <1>2, NumberedType DEF RefsOK
<1>4. TypeOK
  BY <1>3, RowTypes, WorkTypes DEF Init, TypeOK, Phases, Marks
<1>5. RowsHang
  BY RowTypes DEF Init, RowsHang
<1> QED BY <1>3, <1>4, <1>5 DEF FInv

\* Enrolling, by the participant or an administrator.
LEMMA Entering ==
    ASSUME FInv, NEW u \in Users, ~part[u].in, NEW c \in Conds \cup {NoCond},
           part' = [part EXCEPT ![u] = Entered(c)], answers' = Outdated(u),
           pages' \in [Users -> SUBSET Page],
           UNCHANGED <<steps, phase, study, comp, work, choices>>
    PROVE  FInv'
<1>1. /\ part' \in [Users -> Participant] /\ part'[u].in
      /\ \A v \in Users \ {u} : part'[v] = part[v]
  BY RowTypes DEF FInv, TypeOK
<1>2. /\ answers' \in [Users -> SUBSET Answer]
      /\ \A v \in Users : \A a \in answers'[v] : a.step \in StepIds \cup {NoStep}
  <2>0. answers \in [Users -> SUBSET Answer]
    BY DEF FInv, TypeOK
  <2>1. \A v \in Users : \A b \in answers[v] : b.step \in StepIds \cup {NoStep}
    BY DEF FInv, RowsHang
  <2>2. answers' \in [Users -> SUBSET Answer] /\ \A v \in Users \ {u} : answers'[v] = answers[v]
    BY <2>0, Outdating
  <2>3. \A a \in answers'[u] : a.step \in StepIds \cup {NoStep}
    BY <2>0, <2>1, Outdating
  <2> QED BY <2>1, <2>2, <2>3
<1> QED BY <1>1, <1>2, Kept DEF FInv, TypeOK

\* enroll.
LEMMA EnrollF == ASSUME FInv, NEW u \in Users, Enroll(u) PROVE FInv'
<1>1. PICK c \in Conds \cup {NoCond} : part' = [part EXCEPT ![u] = Entered(c)]
  <2>1. \A c \in (IF Conds = {} THEN {NoCond} ELSE AssignedCond) : c \in Conds \cup {NoCond}
    BY DEF AssignedCond, LeastConds
  <2> QED BY <2>1 DEF Enroll
<1>2. pages' \in [Users -> SUBSET Page]
  <2>1. CASE EnrollSurvey = NoSurvey
    BY <2>1 DEF Enroll, FInv, TypeOK
  <2>2. CASE EnrollSurvey # NoSurvey
    <3> DEFINE p == [kind |-> "survey", ref |-> EnrollSurvey, step |-> NoStep]
    <3>1. p \in Page
      BY <2>2, PageTypes, SurveyAssumption
    <3>2. pages' = Show(u, p)
      BY <2>2 DEF Enroll
    <3> HIDE DEF p
    <3> QED BY <3>1, <3>2, Showing DEF FInv, TypeOK
  <2> QED BY <2>1, <2>2
<1> QED BY <1>1, <1>2, Entering DEF Enroll

\* dropout.
LEMMA DropoutF == ASSUME FInv, NEW u \in Users, Dropout(u) PROVE FInv'
<1> DEFINE r == [part[u] EXCEPT !.dropped = TRUE]
<1>1. part[u] \in Participant
  BY DEF FInv, TypeOK
<1>2. r \in Participant /\ r.in = part[u].in
  BY <1>1, RowChanges DEF Participant
<1>3. part' = [part EXCEPT ![u] = r]
  BY DEF Dropout
<1> HIDE DEF r
<1>4. /\ part' \in [Users -> Participant] /\ part'[u].in /\ part[u].in
      /\ \A v \in Users \ {u} : part'[v] = part[v]
  BY <1>2, <1>3 DEF FInv, TypeOK, Dropout
<1> QED BY <1>4, Kept DEF FInv, TypeOK, RowsHang, Dropout

\* Windows open and close.
LEMMA TickF == ASSUME FInv, NEW i \in Ids, Tick(i) PROVE FInv'
<1>1. phase' \in [Ids -> Phases]
  BY DEF Tick, FInv, TypeOK, Phases
<1> QED BY <1>1, Kept DEF FInv, TypeOK, RowsHang, Tick

\* Passing or finishing steps, with one record changed and pages shown.
LEMMA Going ==
    ASSUME FInv, NEW u \in Users, part[u].in,
           part' \in [Users -> Participant], part'[u].in, \A v \in Users \ {u} : part'[v] = part[v],
           comp' \in [Users -> [Ids -> Marks]], \A v \in Users \ {u} : comp'[v] = comp[v],
           \A i \in Ids : comp'[u][i] # "none" => comp[u][i] # "none" \/ i \in StepIds,
           pages' \in [Users -> SUBSET Page], work' \in [Users -> [Tasks -> Work]],
           choices' \in [Users -> SUBSET (Ids \cup {NoStep})], \A v \in Users \ {u} : choices'[v] = choices[v],
           choices'[u] \subseteq StepIds \cup {NoStep},
           UNCHANGED <<steps, phase, study, answers>>
    PROVE  FInv'
BY Kept DEF FInv, TypeOK, RowsHang

\* study_index.
LEMMA IndexF == ASSUME FInv, NEW u \in Users, Index(u) PROVE FInv'
<1>0. /\ part \in [Users -> Participant] /\ comp \in [Users -> [Ids -> Marks]]
      /\ pages \in [Users -> SUBSET Page] /\ work \in [Users -> [Tasks -> Work]]
      /\ choices \in [Users -> SUBSET (Ids \cup {NoStep})] /\ choices[u] \subseteq StepIds \cup {NoStep}
      /\ part[u].in /\ UNCHANGED <<steps, phase, study, answers, work, choices>>
  BY DEF FInv, TypeOK, RowsHang, Index
<1>1. CASE Gate(u) /\ pages' = Show(u, [kind |-> "survey", ref |-> EnrollSurvey, step |-> NoStep])
           /\ UNCHANGED <<part, comp>>
  <2> DEFINE p == [kind |-> "survey", ref |-> EnrollSurvey, step |-> NoStep]
  <2>1. p \in Page
    BY <1>1, PageTypes, SurveyAssumption DEF Gate, OwesEnrollSurvey
  <2>2. pages' = Show(u, p)
    BY <1>1
  <2> HIDE DEF p
  <2>3. pages' \in [Users -> SUBSET Page]
    BY <1>0, <2>1, <2>2, Showing
  <2> QED BY <1>0, <1>1, <2>3, Going
<1>2. CASE part' = [part EXCEPT ![u].done = TRUE] /\ UNCHANGED <<comp, pages>>
  <2> DEFINE r == [part[u] EXCEPT !.done = TRUE]
  <2>1. r \in Participant /\ r.in = part[u].in
    <3>1. part[u] \in Participant
      BY <1>0
    <3> QED BY <3>1, RowChanges DEF Participant
  <2>2. part' = [part EXCEPT ![u] = r]
    BY <1>2
  <2> HIDE DEF r
  <2>3. part' \in [Users -> Participant] /\ part'[u].in /\ \A v \in Users \ {u} : part'[v] = part[v]
    BY <1>0, <2>1, <2>2
  <2> QED BY <1>0, <1>2, <2>3, Going
<1>3. ASSUME NEW st \in Current(u), part[u].cur < MaxCur, part' = Skip(u), UNCHANGED <<comp, pages>>
      PROVE  FInv'
  BY <1>0, <1>3, Moves, Going
<1>4. ASSUME NEW st \in Current(u), st.kind = "task", pages' = Show(u, [kind |-> "link", ref |-> st.ref]),
             UNCHANGED <<part, comp>>
      PROVE  FInv'
  <2> DEFINE p == [kind |-> "link", ref |-> st.ref]
  <2>1. p \in Page
    BY <1>4, CurrentSteps, PageTypes DEF FInv
  <2> HIDE DEF p
  <2>2. pages' \in [Users -> SUBSET Page]
    BY <1>0, <1>4, <2>1, Showing DEF p
  <2> QED BY <1>0, <1>4, <2>2, Going
<1>5. ASSUME NEW st \in Current(u), st.kind # "task", comp' = Started(u, st),
             pages' = Show(u, IF st.kind = "choice" THEN [kind |-> "choice", step |-> st.id]
                              ELSE [kind |-> "survey", ref |-> st.ref, step |-> st.id]),
             UNCHANGED part
      PROVE  FInv'
  <2> DEFINE p == IF st.kind = "choice" THEN [kind |-> "choice", step |-> st.id]
                  ELSE [kind |-> "survey", ref |-> st.ref, step |-> st.id]
  <2>1. /\ st.id \in Ids /\ st.id \in StepIds /\ st.kind \in Kinds
        /\ st.kind = "survey" => st.ref \in Surveys
    BY CurrentSteps DEF FInv, Step
  <2>2. p \in Page
    <3>1. CASE st.kind = "choice"
      BY <2>1, <3>1, PageTypes
    <3>2. CASE st.kind # "choice"
      <4>1. st.ref \in Surveys
        BY <1>5, <2>1, <3>2 DEF Kinds
      <4> QED BY <2>1, <3>2, <4>1, PageTypes
    <3> QED BY <3>1, <3>2
  <2> HIDE DEF p
  <2>3. pages' \in [Users -> SUBSET Page]
    BY <1>0, <1>5, <2>2, Showing DEF p
  <2>4. /\ comp' \in [Users -> [Ids -> Marks]] /\ \A v \in Users \ {u} : comp'[v] = comp[v]
        /\ \A i \in Ids : comp'[u][i] # "none" => comp[u][i] # "none" \/ i \in StepIds
    <3>1. /\ comp' \in [Users -> [Ids -> Marks]] /\ \A v \in Users \ {u} : comp'[v] = comp[v]
          /\ \A i \in Ids \ {st.id} : comp'[u][i] = comp[u][i]
      BY <1>0, <1>5, <2>1, Recording
    <3> QED BY <2>1, <3>1
  <2> QED BY <1>0, <1>5, <2>3, <2>4, Going
<1> QED BY <1>1, <1>2, <1>3, <1>4, <1>5 DEF Index

\* Opening the task of the current step records its start.
LEMMA Opening ==
    ASSUME FInv, NEW u \in Users, NEW t \in Tasks, OpenTask(u, t)
    PROVE  /\ comp' \in [Users -> [Ids -> Marks]] /\ \A v \in Users \ {u} : comp'[v] = comp[v]
           /\ \A i \in Ids : comp'[u][i] = comp[u][i] \/ (comp'[u][i] = "started" /\ i \in StepIds)
<1> DEFINE mine == {st \in Current(u) : st.kind = "task" /\ st.ref = t}
           now == CHOOSE st \in mine : TRUE
<1>1. comp' = IF mine = {} THEN comp ELSE Started(u, now)
  BY DEF OpenTask
<1>2. comp \in [Users -> [Ids -> Marks]]
  BY DEF FInv, TypeOK
<1>3. CASE mine = {}
  BY <1>1, <1>2, <1>3
<1>4. CASE mine # {}
  <2>1. now \in Current(u)
    BY <1>4
  <2> HIDE DEF now, mine
  <2>2. now.id \in Ids /\ now.id \in StepIds
    BY <2>1, CurrentSteps DEF FInv
  <2>3. comp' = Started(u, now)
    BY <1>1, <1>4
  <2>4. /\ comp' \in [Users -> [Ids -> Marks]] /\ \A v \in Users \ {u} : comp'[v] = comp[v]
        /\ \A i \in Ids \ {now.id} : comp'[u][i] = comp[u][i]
        /\ comp'[u][now.id] = (IF comp[u][now.id] = "none" THEN "started" ELSE comp[u][now.id])
    BY <1>2, <2>2, <2>3, Recording
  <2> QED BY <2>2, <2>4
<1> QED BY <1>3, <1>4

\* task_step and the task page it leads to.
LEMMA OpenTaskF == ASSUME FInv, NEW u \in Users, NEW t \in Tasks, OpenTask(u, t) PROVE FInv'
<1>0. /\ part \in [Users -> Participant]
      /\ pages \in [Users -> SUBSET Page] /\ work \in [Users -> [Tasks -> Work]]
      /\ choices \in [Users -> SUBSET (Ids \cup {NoStep})] /\ choices[u] \subseteq StepIds \cup {NoStep}
      /\ part[u].in /\ UNCHANGED <<steps, phase, study, answers, choices>>
  BY DEF FInv, TypeOK, RowsHang, OpenTask
<1>1. /\ comp' \in [Users -> [Ids -> Marks]] /\ \A v \in Users \ {u} : comp'[v] = comp[v]
      /\ \A i \in Ids : comp'[u][i] # "none" => comp[u][i] # "none" \/ i \in StepIds
  BY Opening
<1>2. CASE part[u].cur < MaxCur /\ part' = Skip(u) /\ UNCHANGED <<work, pages>>
  <2>1. part' \in [Users -> Participant] /\ part'[u].in /\ \A v \in Users \ {u} : part'[v] = part[v]
    BY <1>0, <1>2, Moves
  <2> QED BY <1>0, <1>1, <1>2, <2>1, Going
<1>3. CASE UNCHANGED <<part, work, pages>>
  BY <1>0, <1>1, <1>3, Going
<1>4. CASE /\ work' = [work EXCEPT ![u][t].open = TRUE]
           /\ pages' = Show(u, [kind |-> "task", ref |-> t, row |-> "open"])
           /\ UNCHANGED part
  <2> DEFINE p == [kind |-> "task", ref |-> t, row |-> "open"]
             w == [work[u][t] EXCEPT !.open = TRUE]
  <2>1. p \in Page
    BY PageTypes
  <2>2. work[u][t] \in Work
    BY <1>0
  <2>3. w \in Work
    BY <2>2, WorkTypes
  <2>4. work' = [work EXCEPT ![u] = [work[u] EXCEPT ![t] = w]]
    BY <1>0, <1>4
  <2> HIDE DEF p, w
  <2>5. work' \in [Users -> [Tasks -> Work]]
    BY <1>0, <2>3, <2>4
  <2>6. pages' \in [Users -> SUBSET Page]
    BY <1>0, <1>4, <2>1, Showing DEF p
  <2> QED BY <1>0, <1>1, <1>4, <2>5, <2>6, Going
<1> QED BY <1>2, <1>3, <1>4 DEF OpenTask

\* survey take.
LEMMA SubmitSurveyF == ASSUME FInv, NEW u \in Users, NEW p \in pages[u], SubmitSurvey(u, p) PROVE FInv'
<1>0. /\ part \in [Users -> Participant] /\ comp \in [Users -> [Ids -> Marks]]
      /\ pages \in [Users -> SUBSET Page] /\ answers \in [Users -> SUBSET Answer]
      /\ UNCHANGED <<steps, phase, study, part, comp, work, choices>>
  BY DEF FInv, TypeOK, SubmitSurvey
<1>1. pages' \in [Users -> SUBSET Page]
  BY <1>0, Showing, PageTypes DEF SubmitSurvey
<1>2. answers' \in [Users -> SUBSET Answer] /\ \A v \in Users : \A a \in answers'[v] : a.step \in StepIds \cup {NoStep}
  <2>0. \A v \in Users : \A a \in answers[v] : a.step \in StepIds \cup {NoStep}
    BY DEF FInv, RowsHang
  <2>1. CASE p.ref \in Empty
    BY <1>0, <2>0, <2>1 DEF SubmitSurvey
  <2>2. CASE p.ref \notin Empty
    <3> DEFINE a == [survey |-> p.ref, step |-> p.step, since |-> TRUE]
    <3>1. p.ref \in Surveys /\ p.step \in Ids \cup {NoStep} /\ p.step \in StepIds \cup {NoStep}
      BY <1>0, <2>2, PageFields DEF SubmitSurvey
    <3>2. a \in Answer /\ a.step \in StepIds \cup {NoStep}
      BY <3>1 DEF Answer
    <3>3. answers' = [answers EXCEPT ![u] = answers[u] \cup {a}]
      BY <2>2 DEF SubmitSurvey
    <3> HIDE DEF a
    <3> QED BY <1>0, <2>0, <3>2, <3>3
  <2> QED BY <2>1, <2>2
<1> QED BY <1>0, <1>1, <1>2, Kept DEF FInv, TypeOK, RowsHang

\* save_bpmn on a study's task page.
LEMMA SaveTaskF ==
    ASSUME FInv, NEW u \in Users, NEW p \in pages[u], NEW alive \in BOOLEAN, NEW again \in BOOLEAN,
           SaveTask(u, p, alive, again)
    PROVE  FInv'
<1> DEFINE closes == work[u][p.ref].open /\ (p.row # "tagged" \/ ~alive)
           after(q) == IF closes /\ q.kind = "task" /\ q.ref = p.ref /\ q.row = "open"
                       THEN [q EXCEPT !.row = "tagged"] ELSE q
           left == IF again THEN pages[u] ELSE pages[u] \ {p}
           w == [open |-> FALSE, tagged |-> TRUE]
<1>0. /\ work' = IF closes THEN [work EXCEPT ![u][p.ref] = w] ELSE work
      /\ pages' = [pages EXCEPT ![u] = {after(q) : q \in left} \cup {Next_}]
      /\ UNCHANGED <<steps, phase, study, part, comp, answers, choices>>
      /\ pages \in [Users -> SUBSET Page] /\ work \in [Users -> [Tasks -> Work]]
  BY DEF SaveTask, FInv, TypeOK
<1>1. \A q \in left : after(q) \in Page
  <2>1. left \subseteq Page
    BY <1>0
  <2> QED BY <2>1, PageTypes
<1>2. p.ref \in Tasks /\ w \in Work
  BY <1>0, PageFields, WorkTypes DEF SaveTask
<1> HIDE DEF closes, after, left, w
<1>3. pages' \in [Users -> SUBSET Page]
  BY <1>0, <1>1, PageTypes
<1>4. work' \in [Users -> [Tasks -> Work]]
  BY <1>0, <1>2
<1> QED BY <1>0, <1>3, <1>4, Kept DEF FInv, TypeOK, RowsHang

\* step_done.
LEMMA StepDoneF == ASSUME FInv, NEW u \in Users, StepDone(u) PROVE FInv'
<1>0. /\ part \in [Users -> Participant] /\ comp \in [Users -> [Ids -> Marks]]
      /\ pages \in [Users -> SUBSET Page] /\ work \in [Users -> [Tasks -> Work]]
      /\ choices \in [Users -> SUBSET (Ids \cup {NoStep})] /\ choices[u] \subseteq StepIds \cup {NoStep}
      /\ UNCHANGED <<steps, phase, study, answers, work, choices>>
  BY DEF FInv, TypeOK, RowsHang, StepDone
<1> DEFINE left == pages[u] \ {Next_}
<1>1. CASE pages' = [pages EXCEPT ![u] = left] /\ UNCHANGED <<part, comp>>
  <2>1. pages' \in [Users -> SUBSET Page]
    BY <1>0, <1>1
  <2> QED BY <1>0, <1>1, <2>1, Kept DEF FInv, TypeOK, RowsHang
<1>2. ASSUME NEW st \in Current(u), ~HandedIn(u, st), UNCHANGED <<part, comp>>,
             pages' = [pages EXCEPT ![u] = left \cup
                 {IF st.kind = "task" THEN [kind |-> "link", ref |-> st.ref]
                  ELSE [kind |-> "survey", ref |-> st.ref, step |-> st.id]}]
      PROVE  FInv'
  <2> DEFINE p == IF st.kind = "task" THEN [kind |-> "link", ref |-> st.ref]
                  ELSE [kind |-> "survey", ref |-> st.ref, step |-> st.id]
  <2>1. /\ st.id \in Ids /\ (st.kind = "survey" => st.ref \in Surveys)
        /\ (st.kind = "task" => st.ref \in Tasks)
    BY CurrentSteps DEF FInv
  <2>2. st.kind = "survey" \/ st.kind = "task"
    BY <1>2 DEF HandedIn
  <2>3. p \in Page
    <3>1. CASE st.kind = "task"
      BY <2>1, <3>1, PageTypes
    <3>2. CASE st.kind # "task"
      BY <2>1, <2>2, <3>2, PageTypes
    <3> QED BY <3>1, <3>2
  <2>4. pages' = [pages EXCEPT ![u] = left \cup {p}]
    BY <1>2
  <2> HIDE DEF p
  <2>5. pages' \in [Users -> SUBSET Page]
    BY <1>0, <2>3, <2>4
  <2> QED BY <1>0, <1>2, <2>5, Kept DEF FInv, TypeOK, RowsHang
<1>3. CASE /\ part[u].in /\ ~part[u].done /\ part[u].cur < MaxCur
           /\ comp' = IF Current(u) = {} THEN comp ELSE Completed(u, CHOOSE st \in Current(u) : TRUE)
           /\ part' = Advance(u) /\ pages' = [pages EXCEPT ![u] = left]
  <2>1. pages' \in [Users -> SUBSET Page]
    BY <1>0, <1>3
  <2>2. part' \in [Users -> Participant] /\ part'[u].in /\ \A v \in Users \ {u} : part'[v] = part[v]
    BY <1>0, <1>3, Moves
  <2>3. /\ comp' \in [Users -> [Ids -> Marks]] /\ \A v \in Users \ {u} : comp'[v] = comp[v]
        /\ \A i \in Ids : comp'[u][i] # "none" => comp[u][i] # "none" \/ i \in StepIds
    <3>1. CASE Current(u) = {}
      BY <1>0, <1>3, <3>1
    <3>2. CASE Current(u) # {}
      <4> DEFINE now == CHOOSE st \in Current(u) : TRUE
      <4>1. now \in Current(u)
        BY <3>2
      <4>2. comp' = Completed(u, now)
        BY <1>3, <3>2
      <4> HIDE DEF now
      <4>3. now.id \in Ids /\ now.id \in StepIds
        BY <4>1, CurrentSteps DEF FInv
      <4>4. /\ comp' \in [Users -> [Ids -> Marks]] /\ \A v \in Users \ {u} : comp'[v] = comp[v]
            /\ \A i \in Ids \ {now.id} : comp'[u][i] = comp[u][i]
        BY <1>0, <4>2, <4>3, Recording
      <4> QED BY <4>3, <4>4
    <3> QED BY <3>1, <3>2
  <2> QED BY <1>0, <1>3, <2>1, <2>2, <2>3, Going
<1> QED BY <1>1, <1>2, <1>3 DEF StepDone

\* agent_choice_step.
LEMMA ChooseF == ASSUME FInv, NEW u \in Users, NEW p \in pages[u], Choose(u, p) PROVE FInv'
<1>0. /\ part \in [Users -> Participant] /\ comp \in [Users -> [Ids -> Marks]]
      /\ pages \in [Users -> SUBSET Page] /\ work \in [Users -> [Tasks -> Work]]
      /\ choices \in [Users -> SUBSET (Ids \cup {NoStep})] /\ choices[u] \subseteq StepIds \cup {NoStep}
      /\ UNCHANGED <<steps, phase, study, answers, work, pages>>
      /\ part[u].in /\ part[u].cur < MaxCur /\ part' = Advance(u) /\ p.step \in StepIds
      /\ comp' = [comp EXCEPT ![u][p.step] = "done"]
      /\ choices' = [choices EXCEPT ![u] = choices[u] \cup {p.step}]
  BY DEF FInv, TypeOK, RowsHang, Choose
<1>1. p.step \in Ids
  BY <1>0, PageFields DEF Choose
<1>2. part' \in [Users -> Participant] /\ part'[u].in /\ \A v \in Users \ {u} : part'[v] = part[v]
  BY <1>0, Moves
<1>3. /\ comp' \in [Users -> [Ids -> Marks]] /\ \A v \in Users \ {u} : comp'[v] = comp[v]
      /\ \A i \in Ids : comp'[u][i] # "none" => comp[u][i] # "none" \/ i \in StepIds
  <2>1. comp' \in [Users -> [Ids -> Marks]] /\ \A v \in Users \ {u} : comp'[v] = comp[v]
    BY <1>0, <1>1 DEF Marks
  <2>2. \A i \in Ids \ {p.step} : comp'[u][i] = comp[u][i]
    BY <1>0, <1>1
  <2> QED BY <1>0, <2>1, <2>2
<1>4. /\ choices' \in [Users -> SUBSET (Ids \cup {NoStep})] /\ \A v \in Users \ {u} : choices'[v] = choices[v]
      /\ choices'[u] \subseteq StepIds \cup {NoStep}
  BY <1>0, <1>1
<1> QED BY <1>0, <1>2, <1>3, <1>4, Going

\* study_participant_remove.
LEMMA RemoveParticipantF == ASSUME FInv, NEW u \in Users, RemoveParticipant(u) PROVE FInv'
<1>0. /\ part \in [Users -> Participant] /\ comp \in [Users -> [Ids -> Marks]]
      /\ choices \in [Users -> SUBSET (Ids \cup {NoStep})]
  BY DEF FInv, TypeOK
<1>1. /\ part' \in [Users -> Participant] /\ part'[u] = Outside
      /\ \A v \in Users \ {u} : part'[v] = part[v]
  BY <1>0, RowTypes DEF RemoveParticipant
<1>2. /\ comp' \in [Users -> [Ids -> Marks]] /\ comp'[u] = [i \in Ids |-> "none"]
      /\ \A v \in Users \ {u} : comp'[v] = comp[v]
  BY <1>0 DEF RemoveParticipant, Marks
<1>3. /\ choices' \in [Users -> SUBSET (Ids \cup {NoStep})] /\ choices'[u] = {}
      /\ \A v \in Users \ {u} : choices'[v] = choices[v]
  BY <1>0 DEF RemoveParticipant
<1>4. UNCHANGED <<steps, phase, study, answers, work, pages>>
  BY DEF RemoveParticipant
<1>5. RowsHang'
  BY <1>1, <1>2, <1>3, <1>4 DEF FInv, RowsHang, StepIds
<1>6. TypeOK' /\ RefsOK'
  BY <1>1, <1>2, <1>3, <1>4 DEF FInv, TypeOK, RefsOK
<1> QED BY <1>5, <1>6 DEF FInv

\* study_participant_reset.
LEMMA ResetParticipantF == ASSUME FInv, NEW u \in Users, ResetParticipant(u) PROVE FInv'
<1> DEFINE fresh == [t \in Tasks |-> [work[u][t] EXCEPT !.tagged = FALSE]]
           after(q) == IF q.kind = "task" /\ q.row = "tagged" THEN [q EXCEPT !.row = "lost"] ELSE q
<1>0. /\ part \in [Users -> Participant] /\ comp \in [Users -> [Ids -> Marks]]
      /\ choices \in [Users -> SUBSET (Ids \cup {NoStep})] /\ answers \in [Users -> SUBSET Answer]
      /\ work \in [Users -> [Tasks -> Work]] /\ pages \in [Users -> SUBSET Page]
      /\ part[u].in /\ UNCHANGED <<steps, phase, study>>
      /\ part' = [part EXCEPT ![u] = Entered(part[u].cond)]
      /\ comp' = [comp EXCEPT ![u] = [i \in Ids |-> "none"]]
      /\ choices' = [choices EXCEPT ![u] = {}]
      /\ work' = [work EXCEPT ![u] = fresh]
      /\ answers' = [answers EXCEPT ![u] = {a \in answers[u] : a.step \notin StepIds}]
      /\ pages' = [pages EXCEPT ![u] = {after(q) : q \in pages[u]}]
  BY DEF FInv, TypeOK, ResetParticipant
<1>1. fresh \in [Tasks -> Work]
  <2> SUFFICES ASSUME NEW t \in Tasks PROVE [work[u][t] EXCEPT !.tagged = FALSE] \in Work
    OBVIOUS
  <2>1. work[u][t] \in Work
    BY <1>0
  <2> QED BY <2>1, WorkTypes
<1>2. \A q \in pages[u] : after(q) \in Page
  <2>1. pages[u] \subseteq Page
    BY <1>0
  <2> QED BY <2>1, PageTypes
<1> HIDE DEF fresh, after
<1>3. /\ part' \in [Users -> Participant] /\ part'[u].in
      /\ \A v \in Users \ {u} : part'[v] = part[v]
  <2>1. part[u].cond \in Conds \cup {NoCond}
    BY <1>0 DEF Participant
  <2> QED BY <1>0, <2>1, RowTypes
<1>4. /\ comp' \in [Users -> [Ids -> Marks]] /\ \A v \in Users \ {u} : comp'[v] = comp[v]
      /\ \A i \in Ids : comp'[u][i] = "none"
  BY <1>0 DEF Marks
<1>5. /\ choices' \in [Users -> SUBSET (Ids \cup {NoStep})] /\ choices'[u] = {}
      /\ \A v \in Users \ {u} : choices'[v] = choices[v]
      /\ answers' \in [Users -> SUBSET Answer] /\ \A v \in Users : answers'[v] \subseteq answers[v]
  BY <1>0
<1>6. work' \in [Users -> [Tasks -> Work]] /\ pages' \in [Users -> SUBSET Page]
  BY <1>0, <1>1, <1>2
<1> QED BY <1>0, <1>3, <1>4, <1>5, <1>6, Kept DEF FInv, TypeOK, RowsHang

\* An administrator moves a participant to another condition.
LEMMA SetConditionF ==
    ASSUME FInv, NEW u \in Users, NEW c \in Conds \cup {NoCond}, SetCondition(u, c) PROVE FInv'
<1> DEFINE r == [part[u] EXCEPT !.cond = c]
<1>1. r \in Participant /\ r.in = part[u].in
  <2>1. part[u] \in Participant
    BY DEF FInv, TypeOK
  <2> QED BY <2>1, RowChanges DEF Participant
<1>2. part' = [part EXCEPT ![u] = r]
  BY DEF SetCondition
<1> HIDE DEF r
<1>3. /\ part' \in [Users -> Participant] /\ part'[u].in /\ part[u].in
      /\ \A v \in Users \ {u} : part'[v] = part[v]
  BY <1>1, <1>2 DEF FInv, TypeOK, SetCondition
<1> QED BY <1>3, Kept DEF FInv, TypeOK, RowsHang, SetCondition

\* study_archive and study_unarchive.
LEMMA ArchiveF == ASSUME FInv, Archive \/ Unarchive PROVE FInv'
<1>1. study' \in [active : BOOLEAN, archived : BOOLEAN]
  <2>1. study \in [active : BOOLEAN, archived : BOOLEAN]
    BY DEF FInv, TypeOK
  <2>2. \A s \in [active : BOOLEAN, archived : BOOLEAN] :
           [s EXCEPT !.archived = FALSE] \in [active : BOOLEAN, archived : BOOLEAN]
    OBVIOUS
  <2>3. CASE Archive
    BY <2>3 DEF Archive
  <2>4. CASE Unarchive
    BY <2>1, <2>2, <2>4 DEF Unarchive
  <2> QED BY <2>3, <2>4
<1>2. UNCHANGED <<steps, phase, part, comp, answers, work, choices, pages>>
  BY DEF Archive, Unarchive
<1> QED BY <1>1, <1>2 DEF FInv, TypeOK, RefsOK, RowsHang, StepIds

\* study_edit.
LEMMA EditStudyF ==
    ASSUME FInv, NEW plan \in Plans, NEW active \in BOOLEAN, EditStudy(plan, active) PROVE FInv'
<1>1. PICK first \in Ids : first + Len(plan) - 1 <= MaxIds /\ steps' = Numbered(plan, first)
  BY DEF EditStudy
<1>2. first \in Nat \ {0}
  BY BoundsAssumption DEF Ids
<1>3. steps' \in Seq(Step) /\ RefsOK'
  BY <1>1, <1>2, NumberedType DEF RefsOK
<1>4. /\ study' \in [active : BOOLEAN, archived : BOOLEAN] /\ phase' \in [Ids -> Phases]
      /\ comp' \in [Users -> [Ids -> Marks]] /\ choices' \in [Users -> SUBSET (Ids \cup {NoStep})]
      /\ \A u \in Users : /\ choices'[u] \subseteq {NoStep}
                          /\ choices[u] = {} => choices'[u] = {}
                          /\ \A i \in Ids : comp'[u][i] = "none"
      /\ UNCHANGED <<part, work, pages>>
  BY DEF EditStudy, Phases, Marks, FInv, TypeOK
<1>5. /\ answers' \in [Users -> SUBSET Answer]
      /\ \A u \in Users : \A a \in answers'[u] : a.step = NoStep
  <2>1. \A u \in Users : answers[u] \subseteq Answer
    BY DEF FInv, TypeOK
  <2>2. \A u \in Users : \A a \in Unlink(answers[u]) : a \in Answer /\ a.step = NoStep
    BY <2>1, AnswerTypes DEF Unlink
  <2>3. answers' = [u \in Users |-> Unlink(answers[u])]
    BY DEF EditStudy
  <2> QED BY <2>2, <2>3
<1>6. TypeOK'
  BY <1>3, <1>4, <1>5 DEF FInv, TypeOK
<1>7. RowsHang'
  BY <1>4, <1>5 DEF FInv, RowsHang
<1> QED BY <1>3, <1>6, <1>7 DEF FInv

\* Types, references and records hold whatever participants and administrators do.
LEMMA NextFInv == FInv /\ [Next]_vars => FInv'
<1> SUFFICES ASSUME FInv, [Next]_vars PROVE FInv'
  OBVIOUS
<1>1. CASE UNCHANGED vars
  BY <1>1 DEF vars, FInv, TypeOK, RefsOK, RowsHang, StepIds
<1>2. ASSUME NEW u \in Users, Participate(u) PROVE FInv'
  BY <1>2, IndexF, OpenTaskF, SubmitSurveyF, SaveTaskF, StepDoneF, ChooseF DEF Participate
<1>3. ASSUME NEW u \in Users, AddParticipant(u) PROVE FInv'
  BY <1>3, Entering DEF AddParticipant, FInv, TypeOK
<1>4. CASE Administrate
  BY <1>3, <1>4, RemoveParticipantF, ResetParticipantF, SetConditionF, ArchiveF, EditStudyF DEF Administrate
<1> QED BY <1>1, <1>2, <1>4, TickF, EnrollF, DropoutF DEF Next

\* The invariant holds in every reachable state.
LEMMA FInvariant == Spec => []FInv
BY InitFInv, NextFInv, PTL DEF Spec

\* For all users, plans and conditions: the variables keep their types, so nobody
\* is led beyond the places there are.
THEOREM StudyTypeCorrect == Spec => []TypeOK
<1>1. FInv => TypeOK
  BY DEF FInv
<1> QED BY <1>1, FInvariant, PTL

-----------------------------------------------------------------------------
(* The enrollment survey *)

EnrollPage == [kind |-> "survey", ref |-> EnrollSurvey, step |-> NoStep]

\* The enrollment survey has been answered as such, not as the survey of a step.
Answered(u) == \E a \in answers[u] : a.survey = EnrollSurvey /\ a.since /\ a.step = NoStep

\* Nothing but the enrollment survey is before the participant.
Waits(u) ==
    /\ pages[u] \subseteq {EnrollPage}
    /\ \A i \in Ids : comp[u][i] # "done"
    /\ \A a \in answers[u] : ~(a.survey = EnrollSurvey /\ a.since)

Enrollment(u) ==
    /\ ~part[u].in => pages[u] = {}
    /\ part[u].in => Answered(u) \/ Waits(u)

EInv == \A u \in Users : Enrollment(u)

\* What one user does leaves the others.
LEMMA OthersStay ==
    ASSUME FInv, NEW u \in Users, NEW v \in Users \ {u},
           \/ Enroll(u) \/ Dropout(u) \/ Participate(u)
           \/ AddParticipant(u) \/ RemoveParticipant(u) \/ ResetParticipant(u)
           \/ \E c \in Conds \cup {NoCond} : SetCondition(u, c)
    PROVE  /\ part'[v] = part[v] /\ pages'[v] = pages[v] /\ answers'[v] = answers[v]
           /\ comp'[v] = comp[v] /\ choices'[v] = choices[v] /\ work'[v] = work[v]
           /\ UNCHANGED <<steps, phase, study>>
<1>1. /\ DOMAIN part = Users /\ DOMAIN pages = Users /\ DOMAIN answers = Users
      /\ DOMAIN comp = Users /\ DOMAIN choices = Users /\ DOMAIN work = Users
  BY DEF FInv, TypeOK
<1>2. CASE Enroll(u)
  BY <1>1, <1>2 DEF Enroll, Show, Outdated
<1>3. CASE Dropout(u)
  BY <1>1, <1>3 DEF Dropout
<1>4. CASE Index(u)
  <2>1. CASE Gate(u)
    BY <1>1, <1>4, <2>1 DEF Index, Show
  <2>2. CASE ~Gate(u)
    BY <1>1, <1>4, <2>2 DEF Index, Show, Skip, Started
  <2> QED BY <2>1, <2>2
<1>5. CASE StepDone(u)
  BY <1>1, <1>5 DEF StepDone, Completed, Advance
<1>6. ASSUME NEW t \in Tasks, OpenTask(u, t)
      PROVE  /\ part'[v] = part[v] /\ pages'[v] = pages[v] /\ answers'[v] = answers[v]
             /\ comp'[v] = comp[v] /\ choices'[v] = choices[v] /\ work'[v] = work[v]
             /\ UNCHANGED <<steps, phase, study>>
  BY <1>1, <1>6 DEF OpenTask, Show, Skip, Started
<1>7. ASSUME NEW p \in pages[u], SubmitSurvey(u, p)
      PROVE  /\ part'[v] = part[v] /\ pages'[v] = pages[v] /\ answers'[v] = answers[v]
             /\ comp'[v] = comp[v] /\ choices'[v] = choices[v] /\ work'[v] = work[v]
             /\ UNCHANGED <<steps, phase, study>>
  BY <1>1, <1>7 DEF SubmitSurvey, Show
<1>8. ASSUME NEW p \in pages[u], Choose(u, p)
      PROVE  /\ part'[v] = part[v] /\ pages'[v] = pages[v] /\ answers'[v] = answers[v]
             /\ comp'[v] = comp[v] /\ choices'[v] = choices[v] /\ work'[v] = work[v]
             /\ UNCHANGED <<steps, phase, study>>
  BY <1>1, <1>8 DEF Choose, Advance
<1>9. ASSUME NEW p \in pages[u], NEW alive \in BOOLEAN, NEW again \in BOOLEAN, SaveTask(u, p, alive, again)
      PROVE  /\ part'[v] = part[v] /\ pages'[v] = pages[v] /\ answers'[v] = answers[v]
             /\ comp'[v] = comp[v] /\ choices'[v] = choices[v] /\ work'[v] = work[v]
             /\ UNCHANGED <<steps, phase, study>>
  BY <1>1, <1>9 DEF SaveTask
<1>10. CASE Participate(u)
  BY <1>4, <1>5, <1>6, <1>7, <1>8, <1>9, <1>10 DEF Participate
<1>11. CASE AddParticipant(u)
  BY <1>1, <1>11 DEF AddParticipant, Outdated
<1>12. CASE RemoveParticipant(u)
  BY <1>1, <1>12 DEF RemoveParticipant
<1>13. CASE ResetParticipant(u)
  BY <1>1, <1>13 DEF ResetParticipant
<1>14. CASE \E c \in Conds \cup {NoCond} : SetCondition(u, c)
  BY <1>1, <1>14 DEF SetCondition
<1> QED BY <1>2, <1>3, <1>10, <1>11, <1>12, <1>13, <1>14

\* A participant who waits has no page open but the enrollment survey's.
LEMMA Waiting ==
    ASSUME NEW u \in Users, Waits(u)
    PROVE  /\ Next_ \notin pages[u]
           /\ OwesEnrollSurvey(u) \/ EnrollSurvey = NoSurvey
           /\ \A p \in pages[u] : p.kind = "survey" /\ p = EnrollPage
           /\ \A t \in Tasks : [kind |-> "link", ref |-> t] \notin pages[u]
<1>1. EnrollPage.kind = "survey" /\ Next_.kind = "next"
  BY DEF EnrollPage, Next_
<1>2. \A t \in Tasks : [kind |-> "link", ref |-> t] # EnrollPage
  <2>1. \A t \in Tasks : [kind |-> "link", ref |-> t].kind = "link"
    OBVIOUS
  <2> QED BY <2>1, <1>1
<1> QED BY <1>1, <1>2 DEF Waits, OwesEnrollSurvey

\* Enrolling makes a participant wait.
LEMMA EnteringE ==
    ASSUME FInv, EInv, NEW u \in Users, Enroll(u) \/ AddParticipant(u), EnrollSurvey # NoSurvey
    PROVE  Enrollment(u)'
<1>1. ~part[u].in /\ pages[u] = {} /\ \A i \in Ids : comp[u][i] # "done"
  BY DEF Enroll, AddParticipant, EInv, Enrollment, FInv, RowsHang
<1>2. answers' = Outdated(u) /\ UNCHANGED comp
  BY DEF Enroll, AddParticipant
<1>3. \A a \in answers'[u] : ~a.since
  BY <1>2, Outdating DEF FInv, TypeOK
<1>4. pages'[u] \subseteq {EnrollPage}
  <2>1. pages' = pages \/ pages' = Show(u, EnrollPage)
    BY DEF Enroll, AddParticipant, EnrollPage
  <2> QED BY <1>1, <2>1 DEF Show, FInv, TypeOK
<1>5. Waits(u)'
  BY <1>1, <1>2, <1>3, <1>4 DEF Waits, EnrollPage
<1>6. part'[u].in
  <2>1. \E c \in Conds \cup {NoCond} : part' = [part EXCEPT ![u] = Entered(c)]
    BY DEF Enroll, AddParticipant, AssignedCond, LeastConds
  <2> QED BY <2>1, RowTypes DEF FInv, TypeOK
<1> QED BY <1>5, <1>6 DEF Enrollment

\* Following the study.
LEMMA ParticipateE ==
    ASSUME FInv, EInv, NEW u \in Users, Participate(u) \/ Dropout(u), EnrollSurvey # NoSurvey
    PROVE  Enrollment(u)'
<1>1. DOMAIN part = Users /\ DOMAIN pages = Users /\ DOMAIN answers = Users /\ DOMAIN comp = Users
  BY DEF FInv, TypeOK
<1>2. Enrollment(u)
  BY DEF EInv
<1>3. CASE ~part[u].in
  <2>1. pages[u] = {}
    BY <1>2, <1>3 DEF Enrollment
  <2> QED BY <1>3, <2>1 DEF Participate, Dropout, Index, StepDone, OpenTask
<1>4. ASSUME part[u].in PROVE part'[u].in
  <2>1. part' = part \/ part' = [part EXCEPT ![u].dropped = TRUE] \/ part' = [part EXCEPT ![u].done = TRUE]
        \/ part' = Skip(u) \/ part' = Advance(u)
    BY DEF Participate, Dropout, Index, StepDone, OpenTask, SubmitSurvey, SaveTask, Choose
  <2>2. part[u] \in Participant
    BY DEF FInv, TypeOK
  <2> QED BY <1>1, <1>4, <2>1, <2>2 DEF Skip, Advance, Participant
<1>5. CASE part[u].in /\ Answered(u)
  <2>1. answers[u] \subseteq answers'[u]
    BY <1>1 DEF Participate, Dropout, Index, StepDone, OpenTask, SubmitSurvey, SaveTask, Choose
  <2> QED BY <1>4, <1>5, <2>1 DEF Enrollment, Answered
<1>6. CASE part[u].in /\ Waits(u)
  <2>0. Gate(u)
    BY <1>6, Waiting DEF Gate
  <2>1. ASSUME Index(u) PROVE Waits(u)'
    <3>1. UNCHANGED <<comp, answers>> /\ pages' = Show(u, EnrollPage)
      BY <2>0, <2>1 DEF Index, EnrollPage
    <3> QED BY <1>1, <1>6, <3>1 DEF Waits, Show, EnrollPage
  <2>2. ~StepDone(u) /\ \A t \in Tasks : ~OpenTask(u, t)
    BY <1>6, Waiting DEF StepDone, OpenTask
  <2>3. \A p \in pages[u] : ~Choose(u, p) /\ \A alive, again \in BOOLEAN : ~SaveTask(u, p, alive, again)
    BY <1>6, Waiting DEF Choose, SaveTask
  <2>4. ASSUME NEW p \in pages[u], SubmitSurvey(u, p) PROVE Enrollment(u)'
    <3>1. p = EnrollPage /\ p.ref = EnrollSurvey /\ p.step = NoStep
      BY <1>6, Waiting DEF EnrollPage
    <3>2. UNCHANGED <<pages, comp, part>>
      BY <2>4, <3>1 DEF SubmitSurvey
    <3>3. CASE p.ref \in Empty
      <4>1. UNCHANGED answers
        BY <2>4, <3>3 DEF SubmitSurvey
      <4> QED BY <1>2, <3>2, <4>1 DEF Enrollment, Waits, Answered, EnrollPage
    <3>4. CASE p.ref \notin Empty
      <4>1. [survey |-> EnrollSurvey, step |-> NoStep, since |-> TRUE] \in answers'[u]
        BY <1>1, <2>4, <3>1, <3>4 DEF SubmitSurvey
      <4> QED BY <1>4, <1>6, <4>1 DEF Enrollment, Answered
    <3> QED BY <3>3, <3>4
  <2>5. ASSUME Dropout(u) PROVE Waits(u)'
    BY <1>6, <2>5 DEF Dropout, Waits, EnrollPage
  <2> QED BY <1>4, <1>6, <2>1, <2>2, <2>3, <2>4, <2>5 DEF Participate, Enrollment
<1> QED BY <1>2, <1>3, <1>5, <1>6 DEF Enrollment

\* A reset keeps the answers that belong to no step, and opens nothing.
LEMMA ResetE ==
    ASSUME FInv, EInv, NEW u \in Users, ResetParticipant(u), EnrollSurvey # NoSurvey
    PROVE  Enrollment(u)'
<1>1. DOMAIN part = Users /\ DOMAIN pages = Users /\ DOMAIN answers = Users /\ DOMAIN comp = Users
  BY DEF FInv, TypeOK
<1>2. part[u].in /\ Enrollment(u)
  BY DEF EInv, ResetParticipant
<1>3. answers'[u] = {a \in answers[u] : a.step \notin StepIds} /\ \A i \in Ids : comp'[u][i] = "none"
  BY <1>1 DEF ResetParticipant
<1>4. part'[u].in
  <2>1. part[u].cond \in Conds \cup {NoCond}
    BY DEF FInv, TypeOK, Participant
  <2>2. part'[u] = Entered(part[u].cond)
    BY <1>1 DEF ResetParticipant
  <2> QED BY <2>1, <2>2, RowTypes
<1>5. ASSUME Answered(u) PROVE Answered(u)'
  <2>1. NoStep \notin StepIds
    <3>1. \A k \in DOMAIN steps : steps[k].id \in Ids
      <4>1. steps \in Seq(Step)
        BY DEF FInv, TypeOK
      <4>2. \A k \in DOMAIN steps : steps[k] \in Step
        BY <4>1, LenProperties, ElementOfSeq
      <4> QED BY <4>2 DEF Step
    <3> QED BY <3>1, BoundsAssumption DEF StepIds, Ids, NoStep
  <2> QED BY <1>3, <1>5, <2>1 DEF Answered
<1>6. ASSUME Waits(u) PROVE Waits(u)'
  <2>1. pages'[u] = pages[u]
    <3>1. pages'[u] = {IF q.kind = "task" /\ q.row = "tagged" THEN [q EXCEPT !.row = "lost"] ELSE q :
                          q \in pages[u]}
      BY <1>1 DEF ResetParticipant
    <3>2. \A q \in pages[u] : q.kind = "survey"
      BY <1>6, Waiting
    <3> QED BY <3>1, <3>2
  <2> QED BY <1>3, <1>6, <2>1 DEF Waits, EnrollPage
<1> QED BY <1>2, <1>4, <1>5, <1>6 DEF Enrollment

\* The steps of the study and the clock.
LEMMA StudyE ==
    ASSUME FInv, EInv, NEW u \in Users,
           \/ \E i \in Ids : Tick(i)
           \/ Archive \/ Unarchive
           \/ \E plan \in Plans, active \in BOOLEAN : EditStudy(plan, active)
           \/ \E v \in Users, c \in Conds \cup {NoCond} : SetCondition(v, c)
           \/ UNCHANGED vars
    PROVE  Enrollment(u)'
<1>1. Enrollment(u)
  BY DEF EInv
<1>2. ASSUME UNCHANGED <<pages, answers, comp>>, part'[u].in = part[u].in PROVE Enrollment(u)'
  BY <1>1, <1>2 DEF Enrollment, Answered, Waits, EnrollPage
<1>3. CASE \E i \in Ids : Tick(i)
  BY <1>2, <1>3 DEF Tick
<1>4. CASE Archive \/ Unarchive
  BY <1>2, <1>4 DEF Archive, Unarchive
<1>5. CASE UNCHANGED vars
  BY <1>2, <1>5 DEF vars
<1>6. CASE \E v \in Users, c \in Conds \cup {NoCond} : SetCondition(v, c)
  <2>1. PICK v \in Users, c \in Conds \cup {NoCond} : SetCondition(v, c)
    BY <1>6
  <2>2. part'[u].in = part[u].in
    <3>1. part[v] \in Participant /\ DOMAIN part = Users
      BY DEF FInv, TypeOK
    <3> QED BY <2>1, <3>1, RowChanges DEF SetCondition, Participant
  <2> QED BY <1>2, <2>1, <2>2 DEF SetCondition
<1>7. CASE \E plan \in Plans, active \in BOOLEAN : EditStudy(plan, active)
  <2>1. UNCHANGED <<part, pages>> /\ answers'[u] = Unlink(answers[u]) /\ \A i \in Ids : comp'[u][i] = "none"
    BY <1>7 DEF EditStudy
  <2>2. answers[u] \subseteq Answer
    BY DEF FInv, TypeOK
  <2>3. ASSUME Answered(u) PROVE Answered(u)'
    <3>1. PICK a \in answers[u] : a.survey = EnrollSurvey /\ a.since /\ a.step = NoStep
      BY <2>3 DEF Answered
    <3>2. [a EXCEPT !.step = NoStep] \in answers'[u]
      BY <2>1 DEF Unlink
    <3> QED BY <2>2, <3>1, <3>2 DEF Answered, Answer
  <2>4. ASSUME Waits(u) PROVE Waits(u)'
    <3>1. \A a \in Unlink(answers[u]) : \E b \in answers[u] : a.survey = b.survey /\ a.since = b.since
      BY <2>2 DEF Unlink, Answer
    <3> QED BY <2>1, <2>4, <3>1 DEF Waits, EnrollPage
  <2> QED BY <1>1, <2>1, <2>3, <2>4 DEF Enrollment
<1> QED BY <1>3, <1>4, <1>5, <1>6, <1>7

\* Every step keeps the order of enrollment.
LEMMA NextE ==
    ASSUME FInv, EInv, [Next]_vars, "remove" \notin Admin, EnrollSurvey # NoSurvey PROVE EInv'
<1> SUFFICES ASSUME NEW u \in Users PROVE Enrollment(u)'
  BY DEF EInv
<1>1. ASSUME NEW v \in Users \ {u},
             \/ Enroll(v) \/ Dropout(v) \/ Participate(v) \/ AddParticipant(v) \/ ResetParticipant(v)
      PROVE  Enrollment(u)'
  <2>1. part'[u] = part[u] /\ pages'[u] = pages[u] /\ answers'[u] = answers[u] /\ comp'[u] = comp[u]
    BY <1>1, OthersStay
  <2> QED BY <2>1 DEF EInv, Enrollment, Answered, Waits, EnrollPage
<1>2. \A v \in Users : ~RemoveParticipant(v)
  BY DEF RemoveParticipant
<1>3. CASE Administrate
  BY <1>1, <1>2, <1>3, EnteringE, ResetE, StudyE DEF Administrate
<1>4. ASSUME NEW v \in Users, Enroll(v) \/ Dropout(v) \/ Participate(v) PROVE Enrollment(u)'
  BY <1>1, <1>4, EnteringE, ParticipateE
<1> QED BY <1>3, <1>4, StudyE DEF Next

\* For all users and plans, unless participants are removed (and their pages stay
\* open): no step is completed before the enrollment survey has been answered
\* since enrolling (study_index, Study.enroll_survey_id).
THEOREM EnrollmentComesFirst == ASSUME "remove" \notin Admin PROVE Spec => []EnrollSurveyFirst
<1>1. CASE EnrollSurvey = NoSurvey
  <2>1. EnrollSurveyFirst
    BY <1>1 DEF EnrollSurveyFirst, OwesEnrollSurvey
  <2> QED BY <2>1, PTL
<1>2. CASE EnrollSurvey # NoSurvey
  <2>1. Init => EInv
    BY RowTypes DEF Init, EInv, Enrollment
  <2>2. FInv /\ EInv /\ [Next]_vars => EInv'
    BY <1>2, NextE
  <2>3. FInv /\ EInv => EnrollSurveyFirst
    BY DEF FInv, RowsHang, EInv, Enrollment, Answered, Waits, EnrollSurveyFirst, OwesEnrollSurvey
  <2> QED BY <2>1, <2>2, <2>3, FInvariant, PTL DEF Spec
<1> QED BY <1>1, <1>2

-----------------------------------------------------------------------------
(* The balance of the conditions *)

In(c) == {u \in Users : part[u].in /\ part[u].cond = c}

\* The population of a condition is a number.
LEMMA MembersType == \A c : IsFiniteSet(In(c)) /\ Members(c) \in Nat /\ Members(c) = Cardinality(In(c))
<1>1. \A c : In(c) \in SUBSET Users
  BY DEF In
<1>2. \A c : IsFiniteSet(In(c))
  BY <1>1, FS_Subset, CondsAssumption
<1>3. \A c : Cardinality(In(c)) \in Nat
  BY <1>2, FS_CardinalityType
<1> QED BY <1>2, <1>3 DEF Members, In

\* Rows that stay in their conditions leave the populations alone, those of
\* participants in no condition too.
LEMMA SameMembers ==
    ASSUME \A u \in Users : (part'[u].in = part[u].in /\ part'[u].cond = part[u].cond)
                            \/ (~part[u].in /\ part'[u].cond = NoCond),
           NEW c \in Conds
    PROVE  Members(c)' = Members(c)
<1>1. NoCond \notin Conds
  BY CondsAssumption DEF NoCond
<1>2. {u \in Users : part'[u].in /\ part'[u].cond = c} = {u \in Users : part[u].in /\ part[u].cond = c}
  BY <1>1
<1> QED BY <1>2 DEF Members

\* Whoever enrolls makes a least populated condition one larger (enroll).
LEMMA Joining ==
    ASSUME FInv, Balanced, NEW u \in Users, Enroll(u)
    PROVE  Balanced'
<1>1. PICK p \in IF Conds = {} THEN {NoCond} ELSE AssignedCond : part' = [part EXCEPT ![u] = Entered(p)]
  BY DEF Enroll
<1>2. CASE Conds = {}
  BY <1>2 DEF Balanced
<1>3. CASE Conds # {}
  <2>1. p \in Conds /\ \A d \in Conds : Members(p) <= Members(d)
    BY <1>1, <1>3 DEF AssignedCond, LeastConds
  <2>2. ~part[u].in /\ part'[u].in /\ part'[u].cond = p /\ \A v \in Users \ {u} : part'[v] = part[v]
    BY <1>1, <2>1, RowTypes DEF Enroll, FInv, TypeOK
  <2>3. \A c : Members(c)' = Cardinality({v \in Users : part'[v].in /\ part'[v].cond = c})
    BY DEF Members
  <2>4. \A c \in Conds \ {p} : Members(c)' = Members(c)
    <3> SUFFICES ASSUME NEW c \in Conds \ {p} PROVE Members(c)' = Members(c)
      OBVIOUS
    <3>1. {v \in Users : part'[v].in /\ part'[v].cond = c} = In(c)
      BY <2>2 DEF In
    <3> QED BY <2>3, <3>1, MembersType
  <2>5. Members(p)' = Members(p) + 1
    <3>1. {v \in Users : part'[v].in /\ part'[v].cond = p} = In(p) \cup {u} /\ u \notin In(p)
      BY <2>2 DEF In
    <3>2. Cardinality(In(p) \cup {u}) = Cardinality(In(p)) + 1
      BY <3>1, MembersType, FS_AddElement
    <3> QED BY <2>3, <3>1, <3>2, MembersType
  <2>6. ASSUME NEW c \in Conds, NEW d \in Conds PROVE Members(c)' - Members(d)' <= 1
    <3>0. Members(c) \in Nat /\ Members(d) \in Nat /\ Members(c) - Members(d) <= 1
      BY MembersType DEF Balanced
    <3>1. CASE c = d
      <4>1. Members(c)' = Members(c) \/ Members(c)' = Members(c) + 1
        BY <2>4, <2>5
      <4> QED BY <3>0, <3>1, <4>1
    <3>2. CASE c # d /\ c = p
      BY <2>1, <2>4, <2>5, <3>0, <3>2
    <3>3. CASE c # p
      <4>1. Members(c)' = Members(c) /\ (Members(d)' = Members(d) \/ Members(d)' = Members(d) + 1)
        BY <2>4, <2>5, <3>3
      <4> QED BY <3>0, <4>1
    <3> QED BY <3>1, <3>2, <3>3
  <2> QED BY <2>6 DEF Balanced
<1> QED BY <1>2, <1>3

\* Following the study, dropping out and being reset change nobody's condition.
LEMMA ConditionsStay ==
    ASSUME FInv, NEW u \in Users, Participate(u) \/ Dropout(u) \/ ResetParticipant(u)
    PROVE  part'[u].in = part[u].in /\ part'[u].cond = part[u].cond
<1>1. part[u] \in Participant /\ DOMAIN part = Users
  BY DEF FInv, TypeOK
<1>2. CASE ResetParticipant(u)
  <2>1. part[u].cond \in Conds \cup {NoCond} /\ part[u].in
    BY <1>1, <1>2 DEF Participant, ResetParticipant
  <2>2. part'[u] = Entered(part[u].cond)
    BY <1>1, <1>2 DEF ResetParticipant
  <2> QED BY <2>1, <2>2, RowTypes
<1>3. CASE Participate(u) \/ Dropout(u)
  <2>1. part' = part \/ part' = [part EXCEPT ![u].dropped = TRUE] \/ part' = [part EXCEPT ![u].done = TRUE]
        \/ part' = Skip(u) \/ part' = Advance(u)
    BY <1>3 DEF Participate, Dropout, Index, StepDone, OpenTask, SubmitSurvey, SaveTask, Choose
  <2> QED BY <1>1, <2>1 DEF Skip, Advance, Participant
<1> QED BY <1>2, <1>3

\* Every step keeps the balance.
LEMMA NextB ==
    ASSUME FInv, Balanced, [Next]_vars, Admin \cap {"remove", "condition"} = {}
    PROVE  Balanced'
<1> DEFINE Same(v) == (part'[v].in = part[v].in /\ part'[v].cond = part[v].cond)
                      \/ (~part[v].in /\ part'[v].cond = NoCond)
<1>1. ASSUME \A v \in Users : Same(v) PROVE Balanced'
  BY <1>1, SameMembers DEF Balanced
<1>2. ASSUME NEW u \in Users, Participate(u) \/ Dropout(u) \/ ResetParticipant(u) \/ AddParticipant(u)
      PROVE  \A v \in Users : Same(v)
  <2>1. \A v \in Users \ {u} : part'[v] = part[v]
    BY <1>2, OthersStay
  <2>2. CASE AddParticipant(u)
    <3>1. part'[u] = Entered(NoCond) /\ ~part[u].in
      BY <2>2 DEF AddParticipant, FInv, TypeOK
    <3> QED BY <2>1, <3>1, RowTypes
  <2>3. CASE ~AddParticipant(u)
    <3>1. part'[u].in = part[u].in /\ part'[u].cond = part[u].cond
      BY <1>2, <2>3, ConditionsStay
    <3> QED BY <2>1, <3>1
  <2> QED BY <2>2, <2>3
<1>3. CASE UNCHANGED part
  BY <1>1, <1>3
<1>4. /\ \A u \in Users : ~RemoveParticipant(u)
      /\ \A u \in Users, c \in Conds \cup {NoCond} : ~SetCondition(u, c)
  BY DEF RemoveParticipant, SetCondition
<1>5. CASE Administrate
  <2>1. (\E u \in Users : AddParticipant(u) \/ ResetParticipant(u)) \/ UNCHANGED part
    BY <1>4, <1>5 DEF Administrate, Archive, Unarchive, EditStudy
  <2> QED BY <1>1, <1>2, <1>3, <2>1
<1>6. CASE \E i \in Ids : Tick(i)
  BY <1>3, <1>6 DEF Tick
<1>7. CASE UNCHANGED vars
  BY <1>3, <1>7 DEF vars
<1>8. CASE \E u \in Users : Enroll(u) \/ Dropout(u) \/ Participate(u)
  BY <1>1, <1>2, <1>8, Joining
<1> QED BY <1>5, <1>6, <1>7, <1>8 DEF Next

\* For all finite sets of users and conditions: without administrators who remove
\* or move participants the conditions stay balanced, dropouts, resets and
\* participants added by hand included (assign_condition).
THEOREM EnrollmentBalances ==
    ASSUME Admin \cap {"remove", "condition"} = {} PROVE Spec => []Balanced
<1>1. Init => Balanced
  <2> SUFFICES ASSUME Init, NEW c \in Conds, NEW d \in Conds PROVE Members(c) - Members(d) <= 1
    BY DEF Balanced
  <2>1. In(c) = {} /\ In(d) = {}
    BY RowTypes DEF Init, In
  <2> QED BY <2>1, MembersType, FS_EmptySet
<1>2. FInv /\ Balanced /\ [Next]_vars => Balanced'
  BY NextB
<1> QED BY <1>1, <1>2, FInvariant, PTL DEF Spec

-----------------------------------------------------------------------------
(* Places in the order of the steps *)

Rank(S, k) == Cardinality({j \in S : j < k})

\* A set of numbers has a least one.
LEMMA LeastOf ==
    ASSUME NEW T \in SUBSET Nat, T # {}
    PROVE  \E m \in T : \A n \in T : m <= n
<1>1. \E m \in T : \A n \in T : ~ (<<n, m>> \in OpToRel(<, Nat))
  BY NatLessThanWellFounded, WFMin
<1>2. \A m, n \in T : ~ (<<n, m>> \in OpToRel(<, Nat)) => m <= n
  BY DEF OpToRel
<1> QED BY <1>1, <1>2

\* The ranks in a finite set of numbers are all different, and every number below
\* its size is one.
LEMMA Ranks ==
    ASSUME NEW n \in Nat, NEW S \in SUBSET (1..n)
    PROVE  /\ Cardinality(S) \in Nat
           /\ \A k : Rank(S, k) \in Nat
           /\ \A k, l \in S : k < l => Rank(S, k) < Rank(S, l)
           /\ \A r \in Nat : r < Cardinality(S) => \E k \in S : Rank(S, k) = r
<1>0. \A j \in S : j \in Nat /\ j >= 1 /\ j <= n
  OBVIOUS
<1>1. \A T \in SUBSET S : IsFiniteSet(T) /\ Cardinality(T) \in Nat
  <2>1. IsFiniteSet(1..n)
    BY FS_Interval
  <2>2. \A T \in SUBSET S : T \in SUBSET (1..n)
    OBVIOUS
  <2>3. \A T \in SUBSET S : IsFiniteSet(T)
    BY <2>1, <2>2, FS_Subset
  <2> QED BY <2>3, FS_CardinalityType
<1>2. \A k : {j \in S : j < k} \in SUBSET S
  OBVIOUS
<1>3. Cardinality(S) \in Nat /\ \A k : Rank(S, k) \in Nat
  BY <1>1, <1>2 DEF Rank
<1>4. ASSUME NEW k \in S
      PROVE  Cardinality({j \in S : j <= k}) = Rank(S, k) + 1
  <2>1. {j \in S : j <= k} = {j \in S : j < k} \cup {k} /\ k \notin {j \in S : j < k}
    <3>1. (\A j \in S : j <= k <=> j < k \/ j = k) /\ ~(k < k)
      BY <1>0
    <3> QED BY <3>1
  <2>2. IsFiniteSet({j \in S : j < k})
    BY <1>1, <1>2
  <2> QED BY <2>1, <2>2, FS_AddElement DEF Rank
<1>5. ASSUME NEW k \in S, NEW l \in S, k < l PROVE Rank(S, k) < Rank(S, l)
  <2>1. {j \in S : j <= k} \subseteq {j \in S : j < l} /\ IsFiniteSet({j \in S : j < l})
    <3>1. \A j \in S : j <= k => j < l
      BY <1>0, <1>5
    <3> QED BY <1>1, <1>2, <3>1
  <2>2. Cardinality({j \in S : j <= k}) <= Cardinality({j \in S : j < l})
    BY <2>1, FS_Subset
  <2> QED BY <1>3, <1>4, <2>2 DEF Rank
<1>6. ASSUME NEW r \in Nat, r < Cardinality(S) PROVE \E k \in S : Rank(S, k) = r
  <2> DEFINE UpTo(k) == {j \in S : j <= k}
             T == {k \in Nat : Cardinality(UpTo(k)) > r}
  <2>0. \A k \in Nat : UpTo(k) \in SUBSET S /\ Cardinality(UpTo(k)) \in Nat
    BY <1>1
  <2>1. PICK k \in T : \A m \in T : k <= m
    <3>1. UpTo(n) = S
      BY <1>0
    <3>2. n \in T
      BY <1>6, <3>1
    <3> QED BY <3>2, LeastOf
  <2>2. k # 0
    <3>1. UpTo(0) = {}
      <4>1. \A j \in S : ~(j <= 0)
        BY <1>0
      <4> QED BY <4>1
    <3> QED BY <2>1, <3>1, FS_EmptySet
  <2>3. k - 1 \in Nat /\ k - 1 \notin T /\ UpTo(k - 1) = {j \in S : j < k}
    <3>1. k \in Nat /\ k - 1 \in Nat
      BY <2>1, <2>2
    <3>2. ~(k <= k - 1)
      BY <3>1
    <3>3. \A j \in S : j <= k - 1 <=> j < k
      BY <1>0, <3>1
    <3> QED BY <2>1, <3>1, <3>2, <3>3
  <2>4. Rank(S, k) <= r
    BY <1>3, <2>0, <2>3 DEF Rank
  <2>5. k \in S
    <3>1. CASE k \notin S
      <4>1. \A j \in S : j <= k <=> j < k
        BY <1>0, <2>1, <3>1
      <4>2. UpTo(k) = {j \in S : j < k}
        BY <4>1
      <4> QED BY <2>1, <2>4, <4>2, <1>3 DEF Rank
    <3> QED BY <3>1
  <2>6. Rank(S, k) + 1 > r
    BY <1>4, <2>1, <2>5
  <2> QED BY <1>3, <2>4, <2>5, <2>6
<1> QED BY <1>3, <1>5, <1>6

\* The positions of a participant's steps.
LEMMA Positions ==
    ASSUME TypeOK, NEW u \in Users
    PROVE  /\ \E n \in Nat : Effective(u) \in SUBSET (1..n) /\ DOMAIN steps = 1..n
           /\ \A k : Before(u, k) = Rank(Effective(u), k)
           /\ part[u].cur \in Nat
<1>1. DOMAIN steps = 1..Len(steps) /\ Len(steps) \in Nat
  BY LenProperties DEF TypeOK
<1>2. part[u].cur \in 0..MaxCur
  BY RowChanges DEF TypeOK
<1>3. Effective(u) \in SUBSET (1..Len(steps)) /\ \A k : Before(u, k) = Rank(Effective(u), k)
  BY <1>1 DEF Effective, Before, Rank
<1>4. part[u].cur \in Nat
  BY <1>2, BoundsAssumption
<1> QED BY <1>1, <1>3, <1>4

\* There is one current step, and as long as steps are left there is one.
LEMMA CurrentStep ==
    ASSUME TypeOK, NEW u \in Users
    PROVE  /\ \A s, t \in Current(u) : s = t
           /\ Cardinality(Effective(u)) \in Nat
           /\ Current(u) = {} => part[u].cur >= Cardinality(Effective(u))
<1> PICK n \in Nat : Effective(u) \in SUBSET (1..n)
  BY Positions
<1> DEFINE E == Effective(u)
<1>0. /\ Cardinality(E) \in Nat
      /\ \A k : Rank(E, k) \in Nat
      /\ \A k, l \in E : k < l => Rank(E, k) < Rank(E, l)
      /\ \A r \in Nat : r < Cardinality(E) => \E k \in E : Rank(E, k) = r
  BY Ranks
<1>1. ASSUME NEW j \in E, NEW k \in E, Before(u, j) = part[u].cur, Before(u, k) = part[u].cur
      PROVE  j = k
  <2>1. Rank(E, j) = Rank(E, k) /\ Rank(E, j) \in Nat
    BY <1>0, <1>1, Positions
  <2>2. ~(j < k) /\ ~(k < j)
    <3>1. ~(Rank(E, j) < Rank(E, k)) /\ ~(Rank(E, k) < Rank(E, j))
      BY <2>1
    <3> QED BY <1>0, <3>1
  <2>3. j \in Nat /\ k \in Nat
    OBVIOUS
  <2> QED BY <2>2, <2>3
<1>2. \A s, t \in Current(u) : s = t
  BY <1>1 DEF Current
<1>3. Cardinality(E) \in Nat /\ part[u].cur \in Nat
  BY <1>0, Positions
<1>4. ASSUME part[u].cur < Cardinality(E) PROVE Current(u) # {}
  <2>1. PICK k \in E : Rank(E, k) = part[u].cur
    BY <1>0, <1>3, <1>4
  <2> QED BY <2>1, Positions DEF Current
<1> QED BY <1>2, <1>3, <1>4

\* The next place adds the current step to those passed.
LEMMA Passing ==
    ASSUME TypeOK, NEW u \in Users, UNCHANGED steps, part'[u].cond = part[u].cond
    PROVE  /\ part'[u].cur = part[u].cur => Passed(u)' = Passed(u)
           /\ part'[u].cur = part[u].cur + 1 => Passed(u)' = Passed(u) \cup Current(u)
           /\ Cardinality(Effective(u))' = Cardinality(Effective(u))
<1>1. Effective(u)' = Effective(u)
  BY DEF Effective
<1>2. \A k : Before(u, k)' = Before(u, k)
  BY <1>1 DEF Before
<1>3. Passed(u)' = {steps[k] : k \in {j \in Effective(u) : Before(u, j) < part'[u].cur}}
  BY <1>1, <1>2 DEF Passed
<1>4. \A k : Before(u, k) \in Nat
  <2>1. PICK n \in Nat : Effective(u) \in SUBSET (1..n)
    BY Positions
  <2>2. \A k : Rank(Effective(u), k) \in Nat
    BY <2>1, Ranks
  <2> QED BY <2>2, Positions
<1>5. part[u].cur \in Nat
  BY Positions
<1>6. ASSUME part'[u].cur = part[u].cur + 1 PROVE Passed(u)' = Passed(u) \cup Current(u)
  <2>1. \A j \in Effective(u) : Before(u, j) < part[u].cur + 1 <=>
                                   Before(u, j) < part[u].cur \/ Before(u, j) = part[u].cur
    BY <1>4, <1>5
  <2> QED BY <1>3, <1>6, <2>1 DEF Passed, Current
<1> QED BY <1>1, <1>3, <1>6 DEF Passed

\* At the beginning nothing has been passed.
LEMMA Beginning ==
    ASSUME TypeOK, NEW u \in Users, UNCHANGED steps, part'[u].cur = 0
    PROVE  Passed(u)' = {}
<1>1. PICK n \in Nat : DOMAIN steps = 1..n
  BY Positions
<1>2. Effective(u)' \in SUBSET (1..n)
  BY <1>1 DEF Effective
<1>3. ASSUME NEW k PROVE ~(Before(u, k)' < 0)
  <2>1. Rank(Effective(u)', k) \in Nat
    BY <1>2, Ranks
  <2>2. Before(u, k)' = Rank(Effective(u)', k)
    BY DEF Before, Rank
  <2> QED BY <2>1, <2>2
<1> QED BY <1>3 DEF Passed

-----------------------------------------------------------------------------
(* The way through the steps *)

\* What a participant has to show for his steps is not lost.
EvidenceKept(u) ==
    /\ \A i \in Ids : phase[i] = "over" => phase'[i] = "over"
    /\ \A i \in Ids : comp[u][i] = "done" => comp'[u][i] = "done"
    /\ \A t \in Tasks : work[u][t].tagged => work'[u][t].tagged
    /\ \A a \in answers[u] : \E b \in answers'[u] : b.survey = a.survey /\ b.step = a.step

\* A participant begins, stays where he is or passes one step.
Begins(u) == part'[u].cur = 0 /\ ~part'[u].done
Stays(u) ==
    /\ part'[u].cond = part[u].cond /\ part'[u].cur = part[u].cur
    /\ part'[u].done => part[u].done \/ Current(u) = {}
PassesExpired(u) ==
    /\ part'[u].cond = part[u].cond /\ part'[u].cur = part[u].cur + 1 /\ part'[u].done = part[u].done
    /\ \A st \in Current(u) : Closed(st)
PassesDone(u) ==
    /\ part'[u].cond = part[u].cond /\ part'[u].cur = part[u].cur + 1
    /\ part'[u].done => part[u].done \/ part[u].cur + 1 >= Cardinality(Effective(u))
    /\ \/ \A st \in Current(u) : HandedIn(u, st) /\ comp'[u][st.id] = "done"
       \/ \E p \in pages[u] : p.kind = "choice"

Walks(u) ==
    \/ Begins(u)
    \/ EvidenceKept(u) /\ (Stays(u) \/ PassesExpired(u) \/ PassesDone(u))

\* A row that changes in nothing the walk is about.
LEMMA Standing ==
    ASSUME NEW u \in Users, part'[u].cur = part[u].cur, part'[u].cond = part[u].cond,
           part'[u].done = part[u].done, UNCHANGED <<phase, work>>,
           comp'[u] = comp[u], answers[u] \subseteq answers'[u]
    PROVE  Walks(u)
BY DEF Walks, EvidenceKept, Stays

\* Enrolling, being removed and being reset begin the walk.
LEMMA EnterWalks ==
    ASSUME FInv, NEW u \in Users, Enroll(u) \/ AddParticipant(u) \/ RemoveParticipant(u) \/ ResetParticipant(u)
    PROVE  Begins(u)
<1>1. part[u].cond \in Conds \cup {NoCond} /\ DOMAIN part = Users
  BY DEF FInv, TypeOK, Participant
<1>2. part'[u] = Outside \/ \E c \in Conds \cup {NoCond} : part'[u] = Entered(c)
  BY <1>1 DEF Enroll, AddParticipant, RemoveParticipant, ResetParticipant, AssignedCond, LeastConds
<1> QED BY <1>2, RowTypes DEF Begins

\* Dropping out leaves a participant where he is.
LEMMA DropoutWalks == ASSUME FInv, NEW u \in Users, Dropout(u) PROVE Walks(u)
<1>1. part[u] \in Participant /\ DOMAIN part = Users
  BY DEF FInv, TypeOK
<1> QED BY <1>1, Standing DEF Dropout, Participant

\* study_index passes an expired step, or none.
LEMMA IndexWalks == ASSUME FInv, NEW u \in Users, Index(u) PROVE Walks(u)
<1>1. part[u] \in Participant /\ DOMAIN part = Users /\ part \in [Users -> Participant]
      /\ comp \in [Users -> [Ids -> Marks]]
  BY DEF FInv, TypeOK
<1>2. UNCHANGED <<phase, answers, work>>
  BY DEF Index
<1>3. CASE UNCHANGED <<part, comp>>
  BY <1>2, <1>3, Standing
<1>4. CASE Current(u) = {} /\ part' = [part EXCEPT ![u].done = TRUE] /\ UNCHANGED comp
  BY <1>1, <1>2, <1>4 DEF Walks, EvidenceKept, Stays, Participant
<1>5. ASSUME NEW st \in Current(u), Closed(st), part[u].cur < MaxCur, part' = Skip(u), UNCHANGED comp
      PROVE  Walks(u)
  <2>1. \A s \in Current(u) : Closed(s)
    BY <1>5, CurrentStep DEF FInv
  <2> QED BY <1>1, <1>2, <1>5, <2>1, Moves DEF Walks, EvidenceKept, PassesExpired
<1>6. ASSUME NEW st \in Current(u), comp' = Started(u, st), UNCHANGED part
      PROVE  Walks(u)
  <2>1. st.id \in Ids
    BY CurrentSteps DEF FInv
  <2>2. \A i \in Ids : comp[u][i] = "done" => comp'[u][i] = "done"
    BY <1>1, <1>6, <2>1 DEF Started
  <2> QED BY <1>2, <1>6, <2>2 DEF Walks, EvidenceKept, Stays
<1> QED BY <1>3, <1>4, <1>5, <1>6 DEF Index

\* So does task_step.
LEMMA OpenTaskWalks == ASSUME FInv, NEW u \in Users, NEW t \in Tasks, OpenTask(u, t) PROVE Walks(u)
<1> DEFINE mine == {st \in Current(u) : st.kind = "task" /\ st.ref = t}
<1>1. part[u] \in Participant /\ part \in [Users -> Participant] /\ comp \in [Users -> [Ids -> Marks]]
      /\ work \in [Users -> [Tasks -> Work]]
  BY DEF FInv, TypeOK
<1>2. UNCHANGED <<phase, answers>>
  BY DEF OpenTask
<1>3. \A i \in Ids : comp[u][i] = "done" => comp'[u][i] = "done"
  <2>1. CASE mine = {}
    BY <2>1 DEF OpenTask
  <2>2. CASE mine # {}
    <3> DEFINE st == CHOOSE st \in mine : TRUE
    <3>1. st \in Current(u)
      BY <2>2
    <3>2. comp' = Started(u, st)
      BY <2>2 DEF OpenTask
    <3> HIDE DEF st
    <3>3. st.id \in Ids
      BY <3>1, CurrentSteps DEF FInv
    <3> QED BY <1>1, <3>2, <3>3 DEF Started
  <2> QED BY <2>1, <2>2
<1>4. \A s \in Tasks : work[u][s].tagged => work'[u][s].tagged
  <2>1. UNCHANGED work \/ work' = [work EXCEPT ![u][t].open = TRUE]
    BY DEF OpenTask
  <2> QED BY <1>1, <2>1 DEF Work
<1>5. EvidenceKept(u)
  BY <1>2, <1>3, <1>4 DEF EvidenceKept
<1>6. CASE UNCHANGED part
  BY <1>5, <1>6 DEF Walks, Stays
<1>7. CASE (\E st \in mine : Closed(st)) /\ part[u].cur < MaxCur /\ part' = Skip(u)
  <2>1. \A s \in Current(u) : Closed(s)
    BY <1>7, CurrentStep DEF FInv
  <2> QED BY <1>1, <1>5, <1>7, <2>1, Moves DEF Walks, PassesExpired
<1> QED BY <1>6, <1>7 DEF OpenTask

\* step_done passes a step that has been handed in.
LEMMA StepDoneWalks == ASSUME FInv, NEW u \in Users, StepDone(u) PROVE Walks(u)
<1>1. part[u] \in Participant /\ part \in [Users -> Participant] /\ comp \in [Users -> [Ids -> Marks]]
  BY DEF FInv, TypeOK
<1>2. UNCHANGED <<phase, answers, work>>
  BY DEF StepDone
<1>3. CASE UNCHANGED <<part, comp>>
  BY <1>2, <1>3, Standing
<1>4. CASE /\ part[u].cur < MaxCur /\ \A st \in Current(u) : HandedIn(u, st)
           /\ comp' = IF Current(u) = {} THEN comp ELSE Completed(u, CHOOSE st \in Current(u) : TRUE)
           /\ part' = Advance(u)
  <2>1. /\ \A i \in Ids : comp[u][i] = "done" => comp'[u][i] = "done"
        /\ \A st \in Current(u) : comp'[u][st.id] = "done"
    <3>1. CASE Current(u) = {}
      BY <1>4, <3>1
    <3>2. CASE Current(u) # {}
      <4> DEFINE st == CHOOSE st \in Current(u) : TRUE
      <4>1. st \in Current(u) /\ comp' = Completed(u, st)
        BY <1>4, <3>2
      <4> HIDE DEF st
      <4>2. st.id \in Ids /\ \A s \in Current(u) : s = st
        BY <4>1, CurrentSteps, CurrentStep DEF FInv
      <4> QED BY <1>1, <4>1, <4>2 DEF Completed
    <3> QED BY <3>1, <3>2
  <2>2. EvidenceKept(u)
    BY <1>2, <2>1 DEF EvidenceKept
  <2>3. /\ part'[u].cond = part[u].cond /\ part'[u].cur = part[u].cur + 1
        /\ part'[u].done = (part[u].done \/ part[u].cur + 1 >= Cardinality(Effective(u)))
    BY <1>1, <1>4, Moves
  <2> QED BY <1>4, <2>1, <2>2, <2>3 DEF Walks, PassesDone
<1> QED BY <1>3, <1>4 DEF StepDone

\* So do the pages that are posted, except for an agent choice.
LEMMA PagesWalk ==
    ASSUME FInv, NEW u \in Users, NEW p \in pages[u],
           SubmitSurvey(u, p) \/ Choose(u, p) \/ \E alive, again \in BOOLEAN : SaveTask(u, p, alive, again)
    PROVE  Walks(u)
<1>1. part[u] \in Participant /\ part \in [Users -> Participant] /\ comp \in [Users -> [Ids -> Marks]]
      /\ work \in [Users -> [Tasks -> Work]] /\ answers \in [Users -> SUBSET Answer]
      /\ p \in Page
  BY DEF FInv, TypeOK
<1>2. CASE SubmitSurvey(u, p)
  <2>1. answers[u] \subseteq answers'[u] /\ UNCHANGED <<part, comp, phase, work>>
    BY <1>1, <1>2 DEF SubmitSurvey
  <2> QED BY <2>1, Standing
<1>3. CASE Choose(u, p)
  <2>1. p.step \in Ids
    BY <1>1, <1>3, PageFields DEF Choose
  <2>2. EvidenceKept(u)
    BY <1>1, <1>3, <2>1 DEF Choose, EvidenceKept
  <2>3. /\ part'[u].cond = part[u].cond /\ part'[u].cur = part[u].cur + 1
        /\ part'[u].done = (part[u].done \/ part[u].cur + 1 >= Cardinality(Effective(u)))
    BY <1>1, <1>3, Moves DEF Choose
  <2> QED BY <1>3, <2>2, <2>3 DEF Walks, PassesDone, Choose
<1>4. CASE \E alive, again \in BOOLEAN : SaveTask(u, p, alive, again)
  <2>1. work' = work \/ work' = [work EXCEPT ![u][p.ref] = [open |-> FALSE, tagged |-> TRUE]]
    BY <1>4 DEF SaveTask
  <2>2. UNCHANGED <<part, comp, phase, answers>>
    BY <1>4 DEF SaveTask
  <2>3. \A t \in Tasks : work[u][t].tagged => work'[u][t].tagged
    BY <1>1, <2>1
  <2> QED BY <2>2, <2>3 DEF Walks, EvidenceKept, Stays
<1> QED BY <1>2, <1>3, <1>4

\* Only an edit of the study replaces its steps.
LEMMA StepsStay == ASSUME [Next]_vars, "edit" \notin Admin PROVE UNCHANGED steps
<1>1. ASSUME NEW u \in Users, Participate(u) PROVE UNCHANGED steps
  <2>1. \A p \in pages[u] : /\ SubmitSurvey(u, p) \/ Choose(u, p) => UNCHANGED steps
                            /\ \A alive, again \in BOOLEAN : SaveTask(u, p, alive, again) => UNCHANGED steps
    BY DEF SubmitSurvey, Choose, SaveTask
  <2>2. /\ Index(u) \/ StepDone(u) => UNCHANGED steps
        /\ \A t \in Tasks : OpenTask(u, t) => UNCHANGED steps
    BY DEF Index, StepDone, OpenTask
  <2> QED BY <1>1, <2>1, <2>2 DEF Participate
<1>2. Administrate => UNCHANGED steps
  BY DEF Administrate, AddParticipant, RemoveParticipant, ResetParticipant, SetCondition,
         Archive, Unarchive, EditStudy
<1>3. \A u \in Users : Enroll(u) \/ Dropout(u) => UNCHANGED steps
  BY DEF Enroll, Dropout
<1> QED BY <1>1, <1>2, <1>3 DEF Next, vars, Tick

\* Every step of the system is one of a walk, unless administrators change
\* conditions or the plan.
LEMMA NextWalks ==
    ASSUME FInv, [Next]_vars, Admin \cap {"condition", "edit"} = {}, NEW u \in Users
    PROVE  Walks(u)
<1>1. /\ \A v \in Users, c \in Conds \cup {NoCond} : ~SetCondition(v, c)
      /\ \A plan \in Plans, active \in BOOLEAN : ~EditStudy(plan, active)
  BY DEF SetCondition, EditStudy
<1>2. ASSUME NEW v \in Users, \/ Enroll(v) \/ Dropout(v) \/ Participate(v) \/ AddParticipant(v)
                              \/ RemoveParticipant(v) \/ ResetParticipant(v)
      PROVE  Walks(u)
  <2>2. CASE v = u
    <3>1. CASE Participate(u)
      <4>1. CASE \E p \in pages[u] : \/ SubmitSurvey(u, p) \/ Choose(u, p)
                                     \/ \E alive, again \in BOOLEAN : SaveTask(u, p, alive, again)
        <5>1. PICK p \in pages[u] : \/ SubmitSurvey(u, p) \/ Choose(u, p)
                                     \/ \E alive, again \in BOOLEAN : SaveTask(u, p, alive, again)
          BY <4>1
        <5> QED BY <5>1, PagesWalk
      <4>2. CASE Index(u)
        BY <4>2, IndexWalks
      <4>3. CASE StepDone(u)
        BY <4>3, StepDoneWalks
      <4>4. CASE \E t \in Tasks : OpenTask(u, t)
        BY <4>4, OpenTaskWalks
      <4> QED BY <3>1, <4>1, <4>2, <4>3, <4>4 DEF Participate
    <3>2. CASE Dropout(u)
      BY <3>2, DropoutWalks
    <3>3. CASE Enroll(u) \/ AddParticipant(u) \/ RemoveParticipant(u) \/ ResetParticipant(u)
      BY <3>3, EnterWalks DEF Walks
    <3> QED BY <1>2, <2>2, <3>1, <3>2, <3>3
  <2>3. CASE v # u
    <3>1. part'[u] = part[u] /\ answers'[u] = answers[u] /\ comp'[u] = comp[u] /\ work'[u] = work[u]
          /\ UNCHANGED phase
      BY <1>2, <2>3, OthersStay
    <3> QED BY <3>1 DEF Walks, EvidenceKept, Stays
  <2> QED BY <2>2, <2>3
<1>3. CASE UNCHANGED <<phase, part, answers, comp, work>>
  BY <1>3, Standing
<1>4. CASE Administrate
  BY <1>1, <1>2, <1>3, <1>4 DEF Administrate, Archive, Unarchive
<1>5. ASSUME NEW i \in Ids, Tick(i) PROVE Walks(u)
  <2>1. \A j \in Ids : phase[j] = "over" => phase'[j] = "over"
    BY <1>5 DEF Tick, FInv, TypeOK
  <2> QED BY <1>5, <2>1 DEF Tick, Walks, EvidenceKept, Stays
<1> QED BY <1>2, <1>3, <1>4, <1>5 DEF Next, vars

\* Without administrators who change conditions or the plan nobody is completed
\* before his last step lies behind him.
THEOREM CompletionIsThroughout ==
    ASSUME Admin \cap {"condition", "edit"} = {} PROVE Spec => []Throughout
<1>1. Init => Throughout
  BY RowTypes DEF Init, Throughout
<1>2. FInv /\ Throughout /\ [Next]_vars => Throughout'
  <2> SUFFICES ASSUME FInv, Throughout, [Next]_vars, NEW u \in Users, part'[u].done
               PROVE  part'[u].cur >= Cardinality(Effective(u))'
    BY DEF Throughout
  <2>1. UNCHANGED steps /\ Walks(u)
    BY NextWalks, StepsStay
  <2>2. ~Begins(u)
    BY DEF Begins
  <2>3. Cardinality(Effective(u))' = Cardinality(Effective(u)) /\ Cardinality(Effective(u)) \in Nat
    BY <2>1, <2>2, Passing, CurrentStep DEF Walks, Stays, PassesExpired, PassesDone, FInv
  <2>4. part[u].cur \in Nat /\ (part[u].done => part[u].cur >= Cardinality(Effective(u)))
        /\ (Current(u) = {} => part[u].cur >= Cardinality(Effective(u)))
    BY Positions, CurrentStep DEF FInv, Throughout
  <2>5. CASE Stays(u)
    BY <2>3, <2>4, <2>5 DEF Stays
  <2>6. CASE PassesExpired(u)
    BY <2>3, <2>4, <2>6 DEF PassesExpired
  <2>7. CASE PassesDone(u)
    BY <2>3, <2>4, <2>7 DEF PassesDone
  <2> QED BY <2>1, <2>2, <2>5, <2>6, <2>7 DEF Walks
<1> QED BY <1>1, <1>2, FInvariant, PTL DEF Spec

-----------------------------------------------------------------------------
(* The evidence behind a participant *)

\* What stands for a step that has been passed.
Backing(u, st) ==
    \/ phase[st.id] = "over" /\ ~st.late
    \/ /\ comp[u][st.id] = "done"
       /\ st.kind = "survey" => \E a \in answers[u] : a.survey = st.ref /\ a.step = st.id
       /\ st.kind = "task" => work[u][st.ref].tagged

\* No step asks for an agent, so no page does.
NoChoices ==
    /\ \A k \in DOMAIN steps : steps[k].kind # "choice"
    /\ \A u \in Users : \A p \in pages[u] : p.kind # "choice"

\* Backing is not lost as long as the evidence is kept.
LEMMA BackingKept ==
    ASSUME NEW u \in Users, EvidenceKept(u), NEW st, st.id \in Ids, st.kind = "task" => st.ref \in Tasks,
           Backing(u, st)
    PROVE  Backing(u, st)'
<1>1. (\E a \in answers[u] : a.survey = st.ref /\ a.step = st.id) =>
          \E a \in answers'[u] : a.survey = st.ref /\ a.step = st.id
  BY DEF EvidenceKept
<1> QED BY <1>1 DEF EvidenceKept, Backing

\* Pages ask for nothing the plan does not contain.
LEMMA NoChoicesKept ==
    ASSUME FInv, NoChoices, [Next]_vars, UNCHANGED steps
    PROVE  NoChoices'
<1> SUFFICES ASSUME NEW u \in Users, NEW p \in pages'[u] PROVE p.kind # "choice"
  BY DEF NoChoices
<1>1. DOMAIN pages = Users /\ \A q \in pages[u] : q.kind # "choice" /\ q \in Page
  BY DEF FInv, TypeOK, NoChoices
<1>2. \A q \in Page, r \in {"tagged", "lost"} : q.kind = "task" => [q EXCEPT !.row = r].kind = "task"
  BY PageFields
<1>3. CASE UNCHANGED pages
  BY <1>1, <1>3
<1>4. ASSUME NEW v \in Users, Enroll(v) \/ Dropout(v) \/ Participate(v) \/ AddParticipant(v)
                              \/ RemoveParticipant(v) \/ ResetParticipant(v)
      PROVE  p.kind # "choice"
  <2>1. CASE v # u
    BY <1>1, <1>4, <2>1, OthersStay
  <2>2. CASE v = u /\ Enroll(u)
    BY <1>1, <2>2 DEF Enroll, Show
  <2>3. CASE v = u /\ Index(u)
    <3>1. \A st \in Current(u) : st.kind # "choice"
      BY DEF Current, Effective, NoChoices
    <3> QED BY <1>1, <2>3, <3>1 DEF Index, Show
  <2>4. CASE v = u /\ StepDone(u)
    BY <1>1, <2>4 DEF StepDone
  <2>5. CASE v = u /\ \E t \in Tasks : OpenTask(u, t)
    BY <1>1, <2>5 DEF OpenTask, Show
  <2>6. CASE v = u /\ \E q \in pages[u] : SubmitSurvey(u, q) \/ Choose(u, q)
    BY <1>1, <2>6 DEF SubmitSurvey, Choose, Show, Next_
  <2>7. CASE v = u /\ \E q \in pages[u], alive, again \in BOOLEAN : SaveTask(u, q, alive, again)
    <3>1. p = Next_ \/ p \in pages[u] \/ \E q \in pages[u] : q.kind = "task" /\ p = [q EXCEPT !.row = "tagged"]
      BY <1>1, <2>7 DEF SaveTask
    <3>2. Next_.kind # "choice"
      BY DEF Next_
    <3> QED BY <1>1, <1>2, <3>1, <3>2
  <2>8. CASE v = u /\ ResetParticipant(u)
    <3>1. p \in pages[u] \/ \E q \in pages[u] : q.kind = "task" /\ p = [q EXCEPT !.row = "lost"]
      BY <1>1, <2>8 DEF ResetParticipant
    <3> QED BY <1>1, <1>2, <3>1
  <2> QED BY <1>3, <1>4, <2>1, <2>2, <2>3, <2>4, <2>5, <2>6, <2>7, <2>8
          DEF Participate, Dropout, AddParticipant, RemoveParticipant
<1>5. CASE Administrate
  BY <1>3, <1>4, <1>5 DEF Administrate, SetCondition, Archive, Unarchive, EditStudy
<1> QED BY <1>3, <1>4, <1>5 DEF Next, Tick, vars

\* A participant's way keeps what he has passed backed.
LEMMA BackedKept ==
    ASSUME FInv, NoChoices, NEW u \in Users, \A st \in Passed(u) : Backing(u, st),
           UNCHANGED steps, Walks(u)
    PROVE  \A st \in Passed(u)' : Backing(u, st)'
<1>1. CASE Begins(u)
  BY <1>1, Beginning DEF FInv, Begins
<1>2. CASE ~Begins(u)
  <2>1. EvidenceKept(u) /\ (Stays(u) \/ PassesExpired(u) \/ PassesDone(u))
    BY <1>2 DEF Walks
  <2>2. \A st \in Passed(u) \cup Current(u) : st.id \in Ids /\ (st.kind = "task" => st.ref \in Tasks)
                                              /\ st.kind # "choice"
    <3>1. \A k \in DOMAIN steps : /\ steps[k].id \in Ids /\ steps[k].kind # "choice"
                                  /\ steps[k].kind = "task" => steps[k].ref \in Tasks
      <4>1. steps \in Seq(Step)
        BY DEF FInv, TypeOK
      <4>2. \A k \in DOMAIN steps : steps[k] \in Step
        BY <4>1, LenProperties, ElementOfSeq
      <4> QED BY <4>2 DEF Step, NoChoices, FInv, RefsOK
    <3> QED BY <3>1 DEF Passed, Current, Effective
  <2>3. \A st \in Passed(u) : Backing(u, st)'
    BY <2>1, <2>2, BackingKept
  <2>4. CASE Stays(u)
    <3>1. Passed(u)' = Passed(u)
      BY <2>4, Passing DEF Stays, FInv
    <3> QED BY <2>3, <3>1
  <2>5. CASE PassesExpired(u) \/ PassesDone(u)
    <3>1. Passed(u)' = Passed(u) \cup Current(u)
      BY <2>5, Passing DEF PassesExpired, PassesDone, FInv
    <3>2. ASSUME NEW st \in Current(u) PROVE Backing(u, st)'
      <4>1. CASE PassesExpired(u)
        <5>1. phase[st.id] = "over" /\ ~st.late
          BY <4>1 DEF PassesExpired, Closed
        <5> QED BY <2>1, <2>2, <5>1, BackingKept DEF Backing
      <4>2. CASE PassesDone(u)
        <5>1. HandedIn(u, st) /\ comp'[u][st.id] = "done"
          BY <4>2 DEF PassesDone, NoChoices
        <5>2. st.kind = "survey" => \E a \in answers'[u] : a.survey = st.ref /\ a.step = st.id
          BY <2>1, <5>1 DEF HandedIn, EvidenceKept
        <5>3. st.kind = "task" => work'[u][st.ref].tagged
          BY <2>1, <2>2, <5>1 DEF HandedIn, EvidenceKept
        <5> QED BY <5>1, <5>2, <5>3 DEF Backing
      <4> QED BY <2>5, <4>1, <4>2
    <3> QED BY <2>3, <3>1, <3>2
  <2> QED BY <2>1, <2>4, <2>5
<1> QED BY <1>1, <1>2

\* For all users, tabs and plans without an agent choice, and as long as
\* administrators change neither conditions nor the plan: a step lies behind a
\* participant only with its record and its evidence, or because its deadline
\* closed it (step_done, task_step, study_index).
THEOREM ProgressIsBacked ==
    ASSUME Admin \cap {"condition", "edit"} = {},
           \A plan \in Plans : \A k \in DOMAIN plan : plan[k].kind # "choice"
    PROVE  Spec => []ProgressBacked
<1> DEFINE PInv == NoChoices /\ \A u \in Users : \A st \in Passed(u) : Backing(u, st)
<1>1. Init => PInv
  <2> SUFFICES ASSUME Init PROVE PInv
    OBVIOUS
  <2>1. NoChoices
    BY DEF Init, Numbered, NoChoices
  <2>2. ASSUME NEW u \in Users PROVE Passed(u) = {}
    <3>1. TypeOK /\ part[u].cur = 0
      BY InitFInv, RowTypes DEF FInv, Init
    <3>2. \A k : Before(u, k) \in Nat
      <4>1. PICK n \in Nat : Effective(u) \in SUBSET (1..n)
        BY <3>1, Positions
      <4>2. \A k : Rank(Effective(u), k) \in Nat
        BY <4>1, Ranks
      <4> QED BY <3>1, <4>2, Positions
    <3> QED BY <3>1, <3>2 DEF Passed
  <2> QED BY <2>1, <2>2
<1>2. FInv /\ PInv /\ [Next]_vars => PInv'
  <2> SUFFICES ASSUME FInv, PInv, [Next]_vars PROVE PInv'
    OBVIOUS
  <2>1. UNCHANGED steps /\ \A u \in Users : Walks(u)
    BY NextWalks, StepsStay
  <2> QED BY <2>1, NoChoicesKept, BackedKept
<1>3. FInv /\ PInv => ProgressBacked
  <2> SUFFICES ASSUME FInv, PInv, NEW u \in Users, NEW st \in Passed(u)
               PROVE  /\ Backing(u, st) /\ st.kind # "choice"
    BY DEF ProgressBacked, Backing
  <2> QED BY DEF Passed, Effective, NoChoices
<1> QED BY <1>1, <1>2, <1>3, FInvariant, PTL DEF Spec

-----------------------------------------------------------------------------
(* What the records say *)

\* No two steps share an id.
OwnIds == \A j, k \in DOMAIN steps : steps[j].id = steps[k].id => j = k

\* A participant's records of surveys and tasks have their evidence.
Records(u) ==
    \A k \in DOMAIN steps : steps[k].kind # "choice" /\ comp[u][steps[k].id] = "done" => Evidence(u, steps[k])

\* Evidence is not lost, and a step is recorded as completed only with it.
Adds(u) ==
    /\ \A a \in answers[u] : \E b \in answers'[u] : b.survey = a.survey /\ b.step = a.step
    /\ \A t \in Tasks : work[u][t].tagged => work'[u][t].tagged
    /\ choices[u] \subseteq choices'[u]
    /\ \A k \in DOMAIN steps : comp'[u][steps[k].id] = "done" =>
          comp[u][steps[k].id] = "done" \/ steps[k].kind = "choice" \/ Evidence(u, steps[k])'

\* The steps of the study, their ids and what they refer to.
LEMMA StepRows ==
    ASSUME TypeOK, RefsOK, NEW k \in DOMAIN steps
    PROVE  /\ steps[k].id \in Ids /\ steps[k].kind \in Kinds
           /\ steps[k].kind = "task" => steps[k].ref \in Tasks
<1>1. steps[k] \in Step
  BY LenProperties, ElementOfSeq DEF TypeOK
<1> QED BY <1>1 DEF Step, RefsOK

\* So the records keep theirs.
LEMMA RecordsAdded ==
    ASSUME FInv, NEW u \in Users, Records(u), Adds(u), UNCHANGED steps
    PROVE  Records(u)'
<1> SUFFICES ASSUME NEW k \in DOMAIN steps, steps[k].kind # "choice", comp'[u][steps[k].id] = "done",
                    comp[u][steps[k].id] = "done"
             PROVE  Evidence(u, steps[k])'
  BY DEF Adds, Records
<1>1. Evidence(u, steps[k])
  BY DEF Records
<1>2. steps[k].kind = "task" => steps[k].ref \in Tasks
  BY StepRows DEF FInv
<1>3. CASE steps[k].kind = "survey" /\ \E a \in answers[u] : a.survey = steps[k].ref /\ a.step = steps[k].id
  BY <1>3 DEF Adds, Evidence
<1>4. CASE steps[k].kind = "task" /\ work[u][steps[k].ref].tagged
  BY <1>2, <1>4 DEF Adds, Evidence
<1>5. CASE steps[k].id \in choices[u]
  BY <1>5 DEF Adds, Evidence
<1> QED BY <1>1, <1>3, <1>4, <1>5 DEF Evidence

\* Starting a step records no completion.
LEMMA StartedOnly ==
    ASSUME FInv, NEW u \in Users, NEW st \in Current(u), NEW i \in Ids, Started(u, st)[u][i] = "done"
    PROVE  comp[u][i] = "done"
<1>1. st.id \in Ids /\ comp \in [Users -> [Ids -> Marks]]
  BY CurrentSteps DEF FInv, TypeOK
<1>2. CASE i = st.id
  <2>1. Started(u, st)[u][i] = IF comp[u][i] = "none" THEN "started" ELSE comp[u][i]
    BY <1>1, <1>2, Recording
  <2> QED BY <2>1
<1>3. CASE i # st.id
  BY <1>1, <1>3, Recording
<1> QED BY <1>2, <1>3

\* Following the steps.
LEMMA IndexAdds == ASSUME FInv, NEW u \in Users, Index(u) PROVE Adds(u)
<1>1. UNCHANGED <<answers, work, choices, steps>>
  BY DEF Index
<1>2. comp' = comp \/ \E st \in Current(u) : comp' = Started(u, st)
  BY DEF Index
<1>3. \A k \in DOMAIN steps : comp'[u][steps[k].id] = "done" => comp[u][steps[k].id] = "done"
  BY <1>2, StepRows, StartedOnly DEF FInv
<1> QED BY <1>1, <1>3 DEF Adds

LEMMA OpenTaskAdds == ASSUME FInv, NEW u \in Users, NEW t \in Tasks, OpenTask(u, t) PROVE Adds(u)
<1> DEFINE mine == {st \in Current(u) : st.kind = "task" /\ st.ref = t}
<1>1. UNCHANGED <<answers, choices, steps>> /\ work \in [Users -> [Tasks -> Work]]
  BY DEF OpenTask, FInv, TypeOK
<1>2. comp' = comp \/ \E st \in Current(u) : comp' = Started(u, st)
  <2>1. CASE mine = {}
    BY <2>1 DEF OpenTask
  <2>2. CASE mine # {}
    <3>1. (CHOOSE st \in mine : TRUE) \in Current(u)
      BY <2>2
    <3> QED BY <2>2, <3>1 DEF OpenTask
  <2> QED BY <2>1, <2>2
<1>3. \A k \in DOMAIN steps : comp'[u][steps[k].id] = "done" => comp[u][steps[k].id] = "done"
  BY <1>2, StepRows, StartedOnly DEF FInv
<1>4. \A s \in Tasks : work[u][s].tagged => work'[u][s].tagged
  <2>1. UNCHANGED work \/ work' = [work EXCEPT ![u][t].open = TRUE]
    BY DEF OpenTask
  <2> QED BY <1>1, <2>1 DEF Work
<1> QED BY <1>1, <1>3, <1>4 DEF Adds

\* step_done records the current step, which has been handed in.
LEMMA StepDoneAdds == ASSUME FInv, OwnIds, NEW u \in Users, StepDone(u) PROVE Adds(u)
<1>1. UNCHANGED <<answers, work, choices, steps>> /\ comp \in [Users -> [Ids -> Marks]]
  BY DEF StepDone, FInv, TypeOK
<1>2. CASE comp' = comp
  BY <1>1, <1>2 DEF Adds
<1>3. ASSUME NEW st \in Current(u), HandedIn(u, st), comp' = Completed(u, st) PROVE Adds(u)
  <2>1. PICK j \in DOMAIN steps : st = steps[j]
    BY DEF Current, Effective
  <2>2. ASSUME NEW k \in DOMAIN steps, comp'[u][steps[k].id] = "done", comp[u][steps[k].id] # "done",
               steps[k].kind # "choice"
        PROVE  Evidence(u, steps[k])'
    <3>1. steps[k].id \in Ids /\ st.id \in Ids
      BY <2>1, StepRows DEF FInv
    <3>2. steps[k].id = st.id
      BY <1>1, <1>3, <2>2, <3>1, Recording
    <3>3. steps[k] = st
      BY <2>1, <3>2 DEF OwnIds
    <3>4. steps[k].kind = "survey" \/ steps[k].kind = "task"
      BY <2>2, StepRows DEF FInv, Kinds
    <3> QED BY <1>1, <1>3, <3>3, <3>4 DEF HandedIn, Evidence
  <2> QED BY <1>1, <2>2 DEF Adds
<1>4. CASE /\ \A st \in Current(u) : HandedIn(u, st)
           /\ comp' = IF Current(u) = {} THEN comp ELSE Completed(u, CHOOSE st \in Current(u) : TRUE)
  <2>1. CASE Current(u) = {}
    BY <1>2, <1>4, <2>1
  <2>2. CASE Current(u) # {}
    <3>1. (CHOOSE st \in Current(u) : TRUE) \in Current(u)
      BY <2>2
    <3> QED BY <1>3, <1>4, <2>2, <3>1
  <2> QED BY <2>1, <2>2
<1> QED BY <1>2, <1>4 DEF StepDone

\* Posting a page.
LEMMA PagesAdd ==
    ASSUME FInv, NEW u \in Users, NEW p \in pages[u],
           SubmitSurvey(u, p) \/ Choose(u, p) \/ \E alive, again \in BOOLEAN : SaveTask(u, p, alive, again)
    PROVE  Adds(u)
<1>1. /\ comp \in [Users -> [Ids -> Marks]] /\ choices \in [Users -> SUBSET (Ids \cup {NoStep})]
      /\ work \in [Users -> [Tasks -> Work]] /\ answers \in [Users -> SUBSET Answer] /\ p \in Page
  BY DEF FInv, TypeOK
<1>2. CASE SubmitSurvey(u, p)
  <2>1. answers[u] \subseteq answers'[u] /\ UNCHANGED <<comp, choices, work, steps>>
    BY <1>1, <1>2 DEF SubmitSurvey
  <2> QED BY <2>1 DEF Adds
<1>3. CASE Choose(u, p)
  <2>1. p.step \in Ids /\ UNCHANGED <<answers, work, steps>>
    BY <1>1, <1>3, PageFields DEF Choose
  <2>2. choices'[u] = choices[u] \cup {p.step} /\ \A i \in Ids \ {p.step} : comp'[u][i] = comp[u][i]
    BY <1>1, <1>3, <2>1 DEF Choose
  <2>3. ASSUME NEW k \in DOMAIN steps, comp'[u][steps[k].id] = "done", comp[u][steps[k].id] # "done"
        PROVE  Evidence(u, steps[k])'
    <3>1. steps[k].id \in Ids
      BY StepRows DEF FInv
    <3>2. steps[k].id = p.step
      BY <2>2, <2>3, <3>1
    <3> QED BY <2>1, <2>2, <3>2 DEF Evidence
  <2> QED BY <2>1, <2>2, <2>3 DEF Adds
<1>4. CASE \E alive, again \in BOOLEAN : SaveTask(u, p, alive, again)
  <2>1. work' = work \/ work' = [work EXCEPT ![u][p.ref] = [open |-> FALSE, tagged |-> TRUE]]
    BY <1>4 DEF SaveTask
  <2>2. UNCHANGED <<comp, choices, answers, steps>>
    BY <1>4 DEF SaveTask
  <2>3. \A t \in Tasks : work[u][t].tagged => work'[u][t].tagged
    BY <1>1, <2>1
  <2> QED BY <2>2, <2>3 DEF Adds
<1> QED BY <1>2, <1>3, <1>4

\* Saving the steps again numbers them without repetition and unlinks every record.
LEMMA EditRecords ==
    ASSUME FInv, NEW plan \in Plans, NEW active \in BOOLEAN, EditStudy(plan, active)
    PROVE  OwnIds' /\ \A u \in Users : Records(u)'
<1>1. PICK first \in Ids : first + Len(plan) - 1 <= MaxIds /\ steps' = Numbered(plan, first)
  BY DEF EditStudy
<1>2. \A u \in Users : \A i \in Ids : comp'[u][i] = "none"
  BY DEF EditStudy
<1>3. OwnIds' /\ TypeOK' /\ RefsOK'
  <2>1. FInv'
    BY EditStudyF
  <2>2. first \in Nat \ {0}
    BY BoundsAssumption DEF Ids
  <2> QED BY <1>1, <2>1, <2>2, NumberedApart DEF FInv, OwnIds
<1>4. ASSUME NEW u \in Users, NEW k \in DOMAIN steps' PROVE comp'[u][steps'[k].id] # "done"
  <2>1. steps'[k] \in Step
    BY <1>3, LenProperties, ElementOfSeq DEF TypeOK
  <2>2. comp'[u][steps'[k].id] = "none"
    BY <1>2, <2>1 DEF Step
  <2> QED BY <2>2
<1> QED BY <1>3, <1>4 DEF Records

\* Who comes, goes or begins anew has no record of a completion, or keeps what he
\* had.
LEMMA EnterRecords ==
    ASSUME FInv, NEW u \in Users, Records(u),
           Enroll(u) \/ AddParticipant(u) \/ RemoveParticipant(u) \/ ResetParticipant(u)
    PROVE  Records(u)'
<1>1. UNCHANGED steps
  BY DEF Enroll, AddParticipant, RemoveParticipant, ResetParticipant
<1>2. \A i \in Ids : comp'[u][i] # "done"
  <2>1. CASE Enroll(u) \/ AddParticipant(u)
    <3>1. ~part[u].in /\ UNCHANGED comp
      BY <2>1 DEF Enroll, AddParticipant
    <3> QED BY <3>1 DEF FInv, RowsHang
  <2>2. CASE RemoveParticipant(u) \/ ResetParticipant(u)
    <3>1. DOMAIN comp = Users /\ comp' = [comp EXCEPT ![u] = [i \in Ids |-> "none"]]
      BY <2>2 DEF RemoveParticipant, ResetParticipant, FInv, TypeOK
    <3> QED BY <3>1
  <2> QED BY <2>1, <2>2
<1> QED BY <1>1, <1>2, StepRows DEF Records, FInv

\* Every step of the system keeps the records in order.
LEMMA NextRecords ==
    ASSUME FInv, OwnIds, \A u \in Users : Records(u), [Next]_vars
    PROVE  OwnIds' /\ \A u \in Users : Records(u)'
<1>1. CASE UNCHANGED <<steps, comp, answers, work, choices>>
  BY <1>1 DEF OwnIds, Records, Evidence
<1>2. ASSUME NEW v \in Users, \/ Enroll(v) \/ Dropout(v) \/ Participate(v) \/ AddParticipant(v)
                              \/ RemoveParticipant(v) \/ ResetParticipant(v)
                              \/ \E c \in Conds \cup {NoCond} : SetCondition(v, c)
      PROVE  OwnIds' /\ \A u \in Users : Records(u)'
  <2>1. UNCHANGED steps
    <3>1. \A c \in Conds \cup {NoCond} : SetCondition(v, c) => UNCHANGED steps
      BY DEF SetCondition
    <3>2. Participate(v) => UNCHANGED steps
      <4>1. \A p \in pages[v] : /\ SubmitSurvey(v, p) \/ Choose(v, p) => UNCHANGED steps
                                /\ \A alive, again \in BOOLEAN : SaveTask(v, p, alive, again) => UNCHANGED steps
        BY DEF SubmitSurvey, Choose, SaveTask
      <4>2. /\ Index(v) \/ StepDone(v) => UNCHANGED steps
            /\ \A t \in Tasks : OpenTask(v, t) => UNCHANGED steps
        BY DEF Index, StepDone, OpenTask
      <4> QED BY <4>1, <4>2 DEF Participate
    <3>3. /\ Enroll(v) \/ Dropout(v) => UNCHANGED steps
          /\ AddParticipant(v) \/ RemoveParticipant(v) \/ ResetParticipant(v) => UNCHANGED steps
      BY DEF Enroll, Dropout, AddParticipant, RemoveParticipant, ResetParticipant
    <3> QED BY <1>2, <3>1, <3>2, <3>3
  <2>2. ASSUME NEW u \in Users \ {v} PROVE Records(u)'
    <3>1. answers'[u] = answers[u] /\ comp'[u] = comp[u] /\ choices'[u] = choices[u] /\ work'[u] = work[u]
      BY <1>2, <2>2, OthersStay
    <3> QED BY <2>1, <3>1 DEF Records, Evidence
  <2>3. Records(v)'
    <3>1. CASE Participate(v)
      <4>1. Adds(v)
        <5>1. CASE \E p \in pages[v] : \/ SubmitSurvey(v, p) \/ Choose(v, p)
                                       \/ \E alive, again \in BOOLEAN : SaveTask(v, p, alive, again)
          <6>1. PICK p \in pages[v] : \/ SubmitSurvey(v, p) \/ Choose(v, p)
                                       \/ \E alive, again \in BOOLEAN : SaveTask(v, p, alive, again)
            BY <5>1
          <6> QED BY <6>1, PagesAdd
        <5>2. CASE Index(v)
          BY <5>2, IndexAdds
        <5>3. CASE StepDone(v)
          BY <5>3, StepDoneAdds
        <5>4. CASE \E t \in Tasks : OpenTask(v, t)
          BY <5>4, OpenTaskAdds
        <5> QED BY <3>1, <5>1, <5>2, <5>3, <5>4 DEF Participate
      <4> QED BY <2>1, <4>1, RecordsAdded
    <3>2. CASE Dropout(v) \/ \E c \in Conds \cup {NoCond} : SetCondition(v, c)
      <4>1. UNCHANGED <<comp, answers, work, choices>>
        BY <3>2 DEF Dropout, SetCondition
      <4> QED BY <2>1, <4>1 DEF Records, Evidence
    <3> QED BY <1>2, <3>1, <3>2, EnterRecords
  <2> QED BY <2>1, <2>2, <2>3 DEF OwnIds
<1>3. CASE Administrate
  BY <1>1, <1>2, <1>3, EditRecords DEF Administrate, Archive, Unarchive
<1> QED BY <1>1, <1>2, <1>3 DEF Next, Tick, vars

\* For all users and plans and whatever administrators do: rows hang on steps that
\* exist, nobody outside has a record, and a survey or task step is recorded as
\* completed only with its own hand-in or a choice of an agent under its id, also
\* when ids of deleted steps are handed out again (_save_study_steps, step_done,
\* study_participant_remove).
THEOREM RecordsHangOnRows == Spec => []RecordsResolve
<1> DEFINE RInv == OwnIds /\ \A u \in Users : Records(u)
<1>1. Init => RInv
  <2> SUFFICES ASSUME Init PROVE RInv
    OBVIOUS
  <2>1. FInv
    BY InitFInv
  <2>2. PICK plan \in Plans : steps = Numbered(plan, 1)
    BY DEF Init
  <2>3. OwnIds
    BY <2>2, NumberedApart DEF OwnIds
  <2>4. \A u \in Users : \A i \in Ids : comp[u][i] # "done"
    BY DEF Init
  <2> QED BY <2>1, <2>3, <2>4, StepRows DEF Records, FInv
<1>2. FInv /\ RInv /\ [Next]_vars => RInv'
  BY NextRecords
<1>3. FInv /\ RInv => RecordsResolve
  BY DEF FInv, Records, RecordsResolve
<1> QED BY <1>1, <1>2, <1>3, FInvariant, PTL DEF Spec
=============================================================================
