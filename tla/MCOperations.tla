------------------------------ MODULE MCOperations ------------------------------
(***************************************************************************)
(* The research programme, the live database and the settings' cache.      *)
(* They have no state in common; one moves in a behaviour, the others are  *)
(* where they began.                                                       *)
(***************************************************************************)
EXTENDS ResearchProgram, Maintenance, SettingsCache, TLC

CONSTANTS web, celery, r1, r2, r3

\* Two requests of the web worker and one Celery task.
OwnerOf == [c \in Clients |-> IF c = r3 THEN celery ELSE web]

VARIABLE part   \* the part that moves

operationsVars == <<programmeVars, maintenanceVars, vars, part>>

OperationsInit ==
    /\ ProgrammeInit /\ MaintenanceInit /\ Init
    /\ part \in {"programme", "maintenance", "settings"}
    /\ part # "programme" => study = [s \in Studies |-> [active |-> TRUE, sub |-> TRUE]]
    /\ part # "settings" => cache = Default

OperationsNext ==
    /\ UNCHANGED part
    /\ IF part = "programme" THEN ProgrammeNext ELSE UNCHANGED programmeVars
    /\ IF part = "maintenance" THEN MaintenanceNext ELSE UNCHANGED maintenanceVars
    /\ IF part = "settings" THEN Next ELSE UNCHANGED vars

OperationsSpec == OperationsInit /\ [][OperationsNext]_operationsVars

Symmetry == Permutations(Users) \cup Permutations(Requests) \cup Permutations(Writes)
=============================================================================
