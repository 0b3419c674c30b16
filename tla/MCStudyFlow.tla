------------------------------ MODULE MCStudyFlow ------------------------------
(* Study plans and symmetry for checking StudyFlow. *)
EXTENDS StudyFlow, TLC

S(sv) == [kind |-> "survey", ref |-> sv, conds |-> {}, late |-> FALSE]
T(t) == [kind |-> "task", ref |-> t, conds |-> {}, late |-> FALSE]
C == [kind |-> "choice", ref |-> NoSurvey, conds |-> {}, late |-> FALSE]
Late(st) == [st EXCEPT !.late = TRUE]
Only(st, c) == [st EXCEPT !.conds = {c}]

CONSTANTS sv1, sv2, tk1, u1

\* Hand-ins only: a survey before and after a task, and the task twice.
HandInPlans == {<<S(sv1), T(tk1), S(sv2)>>, <<T(tk1), Late(S(sv1)), T(tk1)>>}
\* Steps for one condition only, and a plan of another survey under the same ids.
MixedPlans == {<<Only(C, 1), Only(S(sv1), 2)>>, <<Late(S(sv2))>>}
\* Steps of every kind, with and without a hard deadline, and no step at all.
WalkPlans == {<<C, T(tk1)>>, <<S(sv1), Late(T(tk1))>>, <<>>}
OneTask == {<<T(tk1), S(sv1)>>}

\* One participant walks through a study with steps; the others come and go in
\* the one that has none, where only enrolling and leaving matter.
WalkNext ==
    /\ Next
    /\ steps # <<>> => \A u \in Users \ {u1} : UNCHANGED <<part[u], pages[u]>>

WalkSpec == Init /\ [][WalkNext]_vars /\ Fairness

Symmetry == Permutations(Users)
=============================================================================
