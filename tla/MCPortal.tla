------------------------------- MODULE MCPortal -------------------------------
(***************************************************************************)
(* Accounts, levels, agents, languages and backups.  They have no state in *)
(* common, so every property of one holds of them all as soon as it holds  *)
(* of that one alone: one part moves in a behaviour, the others are where  *)
(* they began.                                                             *)
(***************************************************************************)
EXTENDS Accounts, Curriculum, Agents, Languages, Backups, TLC

VARIABLE part   \* the part that moves

portalVars == <<accountVars, curriculumVars, agentVars, languageVars, backupVars, part>>

PortalInit ==
    /\ AccountsInit /\ CurriculumInit /\ AgentsInit /\ LanguagesInit /\ BackupsInit
    /\ part \in {"accounts", "curriculum", "agents", "languages", "backups"}
    /\ part # "agents" => agents[CHOOSE a \in System : TRUE].default

PortalNext ==
    /\ UNCHANGED part
    /\ IF part = "accounts" THEN AccountsNext ELSE UNCHANGED accountVars
    /\ IF part = "curriculum" THEN CurriculumNext ELSE UNCHANGED curriculumVars
    /\ IF part = "agents" THEN AgentsNext ELSE UNCHANGED agentVars
    /\ IF part = "languages" THEN LanguagesNext ELSE UNCHANGED languageVars
    /\ IF part = "backups" THEN BackupsNext ELSE UNCHANGED backupVars

PortalSpec == PortalInit /\ [][PortalNext]_portalVars

Symmetry == Permutations(Browsers)
=============================================================================
