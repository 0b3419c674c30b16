--------------------------------- MODULE Agents ---------------------------------
(***************************************************************************)
(* AI agents, the tasks they are assigned to, their prompts and the choice *)
(* of the agent of a session (blueprints/admin/agents.py, models/agent.py, *)
(* utils/agent_utils.py, utils/seeder.py, deploy/seed.py).                 *)
(***************************************************************************)
EXTENDS Integers, FiniteSets

CONSTANTS
    System,     \* the built-in agents, in the order of sort_order
    Custom,     \* ids for agents made by administrators
    Assigned,   \* tasks an agent can be assigned to
    NoAgent

ASSUME AgentAssumption == System \cap Custom = {} /\ NoAgent \notin System \cup Custom

VARIABLES
    agents,     \* [AgentIds -> Agent], NoAgentRow where no row is
    uses,       \* [Assigned -> tasks.agent_id]
    named       \* the id a page has been given for its session

agentVars == <<agents, uses, named>>

-----------------------------------------------------------------------------
AgentIds == System \cup Custom
PromptLangs == {"en", "fr"}

\* One prompt stands for all types; there are built-in ones in English (and
\* German), not in other languages.
Prompts == [PromptLangs -> {"none", "builtin", "edited"}]
Agent == [default : BOOLEAN, prompts : Prompts]
ASSUME NoAgentAssumption == NoAgent \notin Prompts
Builtins == [l \in PromptLangs |-> IF l = "en" THEN "builtin" ELSE "none"]
NoAgentRow == [default |-> FALSE, prompts |-> NoAgent]
HasRow(a) == agents[a] # NoAgentRow
Listed == {a \in AgentIds : HasRow(a)}
Defaults == {a \in Listed : agents[a].default}

\* step_system_agents: one of the specifications is the default.
AgentsInit ==
    /\ \E first \in System :
          agents = [a \in AgentIds |->
                      IF a \in System THEN [default |-> a = first, prompts |-> Builtins] ELSE NoAgentRow]
    /\ uses = [t \in Assigned |-> NoAgent]
    /\ named = NoAgent

\* AIAgent.get_default; among equals the database decides.
GetDefault ==
    IF Defaults # {} THEN Defaults
    ELSE IF Listed \cap System # {} THEN Listed \cap System
    ELSE IF Listed # {} THEN Listed ELSE {NoAgent}

\* resolve_agent: a named agent that is gone counts as none.
Resolve(id, t) ==
    IF id \in Listed THEN {id}
    ELSE IF t \in Assigned /\ uses[t] \in Listed THEN {uses[t]}
    ELSE GetDefault

-----------------------------------------------------------------------------
\* _apply_agent_form
ClearingOthers(a, d) ==
    IF d /\ ~agents[a].default
    THEN [b \in AgentIds |-> IF HasRow(b) THEN [agents[b] EXCEPT !.default = FALSE] ELSE agents[b]]
    ELSE agents

\* agent_create and agent_edit; a prompt that is emptied is deleted (set_prompt).
AgentSave(a, d, l, text) ==
    /\ HasRow(a) \/ a \in Custom
    /\ agents' = [ClearingOthers(a, d) EXCEPT ![a] =
                    [default |-> d,
                     prompts |-> [(IF HasRow(a) THEN agents[a].prompts
                                   ELSE [k \in PromptLangs |-> "none"]) EXCEPT ![l] = text]]]
    /\ UNCHANGED <<uses, named>>

AgentCopy(a, c) ==
    /\ HasRow(a) /\ c \in Custom /\ ~HasRow(c)
    /\ agents' = [agents EXCEPT ![c] = [agents[a] EXCEPT !.default = FALSE]]
    /\ UNCHANGED <<uses, named>>

\* Variant for AlwaysAnAgent: every agent can be deleted.
DeleteAny(a) ==
    /\ HasRow(a) /\ \A t \in Assigned : uses[t] # a
    /\ agents' = [agents EXCEPT ![a] = NoAgentRow]
    /\ UNCHANGED <<uses, named>>

\* agent_delete; the commit fails while a task refers to the agent.
AgentDelete(a) ==
    /\ HasRow(a) /\ a \notin System
    /\ \A t \in Assigned : uses[t] # a
    /\ agents' = [agents EXCEPT ![a] = NoAgentRow]
    /\ UNCHANGED <<uses, named>>

\* The built-in texts of one agent are put back, those in other languages stay.
Rewritten(a) ==
    [l \in PromptLangs |-> IF Builtins[l] = "none" THEN agents[a].prompts[l] ELSE Builtins[l]]

\* agent_reset_prompts
ResetPrompts(a) ==
    /\ a \in Listed \cap System
    /\ agents' = [agents EXCEPT ![a].prompts = Rewritten(a)]
    /\ UNCHANGED <<uses, named>>

\* Variant for OwnTextsStay: copies of system agents are reset with them.
ResetListed ==
    /\ agents' = [a \in AgentIds |->
                    IF HasRow(a) THEN [agents[a] EXCEPT !.prompts = Rewritten(a)] ELSE agents[a]]
    /\ UNCHANGED <<uses, named>>

\* agents_reset_all_prompts
ResetAllPrompts ==
    /\ agents' = [a \in AgentIds |->
                    IF a \in Listed \cap System
                    THEN [agents[a] EXCEPT !.prompts = Rewritten(a)]
                    ELSE agents[a]]
    /\ UNCHANGED <<uses, named>>

\* task_create, task_edit: a select of the agents there are.
Assign(t, a) ==
    /\ a \in Listed \cup {NoAgent}
    /\ uses' = [uses EXCEPT ![t] = a]
    /\ UNCHANGED <<agents, named>>

\* A page learns the agent of its session and sends that id when it joins, after
\* any number of other steps.
PageNames(t) ==
    /\ named' \in Resolve(NoAgent, t)
    /\ UNCHANGED <<agents, uses>>

AgentsNext ==
    \/ \E a \in AgentIds, d \in BOOLEAN, l \in PromptLangs, text \in {"none", "edited"} :
          AgentSave(a, d, l, text)
    \/ \E a, c \in AgentIds : AgentCopy(a, c)
    \/ \E a \in AgentIds : AgentDelete(a) \/ ResetPrompts(a)
    \/ ResetAllPrompts
    \/ \E t \in Assigned : PageNames(t) \/ \E a \in AgentIds \cup {NoAgent} : Assign(t, a)

AgentsSpec == AgentsInit /\ [][AgentsNext]_agentVars

-----------------------------------------------------------------------------
(* Properties *)

\* A session always gets an agent that exists, also when the page names one that
\* has been deleted since, and the task's own when it has one and the page names
\* none (resolve_agent, agent_delete).
AlwaysAnAgent ==
    \A t \in Assigned :
        /\ Resolve(named, t) \subseteq Listed
        /\ uses[t] # NoAgent => Resolve(NoAgent, t) = {uses[t]}

\* "Reset prompts of ALL system agents": whatever is reset, a text that an
\* administrator wrote for an agent of his own (a copy, say), or in a language
\* without a built-in one, only changes when he edits that agent
\* (agent_reset_prompts, reset_system_agent_prompts).
OwnTextsStay ==
    [][\A a \in Listed, l \in PromptLangs :
          agents[a].prompts[l] = "edited" /\ agents'[a] # NoAgentRow
             => \/ agents'[a].prompts[l] \in {"edited", "none"}
                \/ a \in System /\ l = "en"]_agentVars
=============================================================================
