---------------------------- MODULE ContentProofs ---------------------------
(***************************************************************************)
(* What administrators edit: agents, languages and levels, for all sets of *)
(* them.                                                                   *)
(*                                                                         *)
(* Agents: a session always gets an agent that exists, and what            *)
(* administrators wrote survives every reset of the prompts.  That holds   *)
(* in one state because the built-in agents are there for good and tasks   *)
(* name no agent that is gone.                                             *)
(*                                                                         *)
(* Languages: nobody is shown a text that the table no longer has, unless  *)
(* it is the default written in the program, or offered a language that    *)
(* was switched off or deleted longer ago than the list may live.  What is *)
(* shown is current because what is in memory is (NeverOutdated).          *)
(* ListRecent is not inductive, the list is served long after it was read; *)
(* what is kept is that no language in it has been gone for longer than    *)
(* the list is old.                                                        *)
(*                                                                         *)
(* Levels: the numbers have at most one gap for each death of the process. *)
(* Between the two commits of a deletion there may be one more.            *)
(***************************************************************************)
EXTENDS Agents, Languages, Curriculum, FiniteSetTheorems, WellFoundedInduction, TLAPS

-----------------------------------------------------------------------------
(* Agents *)

AInv ==
    /\ agents \in [AgentIds -> Agent \cup {NoAgentRow}]
    /\ uses \in [Assigned -> AgentIds \cup {NoAgent}]
    /\ System # {} /\ System \subseteq Listed
    /\ \A t \in Assigned : uses[t] # NoAgent => uses[t] \in Listed

-----------------------------------------------------------------------------
\* A row is not mistaken for a missing one, whatever its flag and its prompts.
LEMMA RowsAreRows == \A r \in Agent : r # NoAgentRow
BY NoAgentAssumption DEF Agent, NoAgentRow

\* A row with its flag or its prompts replaced is a row (_apply_agent_form,
\* agent_reset_prompts).
LEMMA RowStaysRow ==
    ASSUME NEW r \in Agent
    PROVE  /\ \A d \in BOOLEAN : [r EXCEPT !.default = d] \in Agent
           /\ \A ps \in Prompts : [r EXCEPT !.prompts = ps] \in Agent
BY DEF Agent

\* The built-in texts and what a reset writes are prompts.
LEMMA RewrittenType ==
    ASSUME NEW a, agents[a] \in Agent PROVE Builtins \in Prompts /\ Rewritten(a) \in Prompts
BY DEF Builtins, Rewritten, Prompts, PromptLangs, Agent

\* Making an agent the default touches no other column (_apply_agent_form).
LEMMA OthersCleared ==
    ASSUME AInv, NEW a \in AgentIds, NEW d \in BOOLEAN
    PROVE  /\ ClearingOthers(a, d) \in [AgentIds -> Agent \cup {NoAgentRow}]
           /\ \A b \in AgentIds : HasRow(b) => ClearingOthers(a, d)[b] \in Agent
           /\ \A b \in AgentIds : HasRow(b) => ClearingOthers(a, d)[b].prompts = agents[b].prompts
<1>1. \A b \in AgentIds : HasRow(b) => [agents[b] EXCEPT !.default = FALSE] \in Agent
  BY RowStaysRow DEF AInv, HasRow
<1>2. \A b \in AgentIds : HasRow(b) => [agents[b] EXCEPT !.default = FALSE].prompts = agents[b].prompts
  BY DEF AInv, HasRow, Agent
<1> QED BY <1>1, <1>2 DEF ClearingOthers, AInv, HasRow

\* step_system_agents leaves the built-in agents, one of them the default.
LEMMA AgentsBegin == AgentsInit => AInv
<1> SUFFICES ASSUME AgentsInit PROVE AInv
  OBVIOUS
<1>1. PICK first \in System : agents = [a \in AgentIds |->
          IF a \in System THEN [default |-> a = first, prompts |-> Builtins] ELSE NoAgentRow]
  BY DEF AgentsInit
<1>2. Builtins \in Prompts
  BY DEF Builtins, Prompts, PromptLangs
<1>3. \A a \in System : [default |-> a = first, prompts |-> Builtins] \in Agent
  BY <1>2 DEF Agent
<1>4. agents \in [AgentIds -> Agent \cup {NoAgentRow}]
  BY <1>1, <1>3
<1>5. System \subseteq Listed
  BY <1>1, <1>3, RowsAreRows DEF Listed, HasRow, AgentIds
<1>6. uses = [t \in Assigned |-> NoAgent]
  BY DEF AgentsInit
<1> QED BY <1>4, <1>5, <1>6 DEF AInv

\* A step in which every row stays a row keeps the invariant.
LEMMA RowsStay ==
    ASSUME AInv, agents' \in [AgentIds -> Agent \cup {NoAgentRow}], UNCHANGED uses,
           \A a \in Listed : agents'[a] \in Agent
    PROVE  AInv'
BY RowsAreRows DEF AInv, Listed, HasRow, AgentIds

\* No operation on agents, prompts or tasks removes a built-in agent or one that
\* a task names (agents.py, _helpers.py).
LEMMA AStep == ASSUME AInv, [AgentsNext]_agentVars PROVE AInv'
<1>1. ASSUME NEW a \in AgentIds, NEW d \in BOOLEAN, NEW l \in PromptLangs,
             NEW text \in {"none", "edited"}, AgentSave(a, d, l, text)
      PROVE  AInv'
  <2> DEFINE old == IF HasRow(a) THEN agents[a].prompts ELSE [k \in PromptLangs |-> "none"]
             row == [default |-> d, prompts |-> [old EXCEPT ![l] = text]]
  <2>1. old \in Prompts
    BY DEF AInv, HasRow, Agent, Prompts
  <2>2. [old EXCEPT ![l] = text] \in Prompts
    BY <2>1 DEF Prompts
  <2>3. row \in Agent
    BY <2>2 DEF Agent
  <2>4. agents' = [ClearingOthers(a, d) EXCEPT ![a] = row] /\ UNCHANGED uses
    BY <1>1 DEF AgentSave
  <2> HIDE DEF row
  <2> QED BY <2>3, <2>4, OthersCleared, RowsStay DEF Listed
<1>2. ASSUME NEW a \in AgentIds, NEW c \in AgentIds, AgentCopy(a, c) PROVE AInv'
  <2>1. [agents[a] EXCEPT !.default = FALSE] \in Agent
    BY <1>2, RowStaysRow DEF AgentCopy, AInv, HasRow
  <2> QED BY <1>2, <2>1, RowsStay DEF AgentCopy, AInv, Listed, HasRow
<1>3. ASSUME NEW a \in AgentIds, AgentDelete(a) PROVE AInv'
  BY <1>3 DEF AgentDelete, AInv, Listed, HasRow, AgentIds
<1>4. ASSUME NEW a \in AgentIds, ResetPrompts(a) PROVE AInv'
  <2>1. [agents[a] EXCEPT !.prompts = Rewritten(a)] \in Agent
    BY <1>4, RowStaysRow, RewrittenType DEF ResetPrompts, AInv, Listed, HasRow, Agent
  <2> QED BY <1>4, <2>1, RowsStay DEF ResetPrompts, AInv, Listed, HasRow
<1>5. CASE ResetAllPrompts
  <2>1. \A a \in Listed : [agents[a] EXCEPT !.prompts = Rewritten(a)] \in Agent
    BY RowStaysRow, RewrittenType DEF AInv, Listed, HasRow, Agent
  <2> QED BY <1>5, <2>1, RowsStay DEF ResetAllPrompts, AInv, Listed, HasRow
<1>6. ASSUME NEW t \in Assigned, NEW a \in AgentIds \cup {NoAgent}, Assign(t, a) PROVE AInv'
  BY <1>6 DEF Assign, AInv, Listed, HasRow
<1>7. ASSUME NEW t \in Assigned, PageNames(t) PROVE AInv'
  BY <1>7 DEF PageNames, AInv, Listed, HasRow
<1>8. CASE UNCHANGED agentVars
  BY <1>8 DEF agentVars, AInv, Listed, HasRow
<1> QED BY <1>1, <1>2, <1>3, <1>4, <1>5, <1>6, <1>7, <1>8 DEF AgentsNext

\* The invariant holds in every reachable state.
LEMMA AgentsHold == AgentsSpec => []AInv
BY AgentsBegin, AStep, PTL DEF AgentsSpec

\* Whatever a page names and whichever agents have been deleted since, its session
\* gets an agent that exists (resolve_agent, agent_delete).
THEOREM SessionsHaveAgents == AgentsSpec => []AlwaysAnAgent
<1>1. AInv => AlwaysAnAgent
  <2> SUFFICES ASSUME AInv, NEW t \in Assigned
               PROVE  /\ Resolve(named, t) \subseteq Listed
                      /\ uses[t] # NoAgent => Resolve(NoAgent, t) = {uses[t]}
    BY DEF AlwaysAnAgent
  <2>1. GetDefault \subseteq Listed
    BY DEF GetDefault, AInv, Defaults
  <2>2. NoAgent \notin Listed
    BY AgentAssumption DEF Listed, AgentIds
  <2> QED BY <2>1, <2>2 DEF Resolve, AInv
<1> QED BY <1>1, AgentsHold, PTL

\* A text that an administrator wrote for an agent of his own, or in a language
\* without a built-in one, outlives every reset (agent_reset_prompts,
\* reset_system_agent_prompts).
THEOREM ResetsSpareOwnTexts == AgentsSpec => OwnTextsStay
<1> DEFINE Stay == \A a \in Listed, l \in PromptLangs :
          agents[a].prompts[l] = "edited" /\ agents'[a] # NoAgentRow
             => \/ agents'[a].prompts[l] \in {"edited", "none"}
                \/ a \in System /\ l = "en"
<1>1. AInv /\ [AgentsNext]_agentVars => [Stay]_agentVars
  <2> SUFFICES ASSUME AInv, AgentsNext, NEW b \in Listed, NEW k \in PromptLangs,
                      agents[b].prompts[k] = "edited", agents'[b] # NoAgentRow,
                      b \notin System \/ k # "en"
               PROVE  agents'[b].prompts[k] \in {"edited", "none"}
    OBVIOUS
  <2>0. b \in AgentIds /\ HasRow(b) /\ agents[b] \in Agent
    BY DEF AInv, Listed, HasRow
  <2>a. b \notin System \/ Rewritten(b)[k] = "edited"
    BY DEF Rewritten, Builtins, PromptLangs
  <2>b. agents'[b] = agents[b] => agents'[b].prompts[k] \in {"edited", "none"}
    OBVIOUS
  <2>1. ASSUME NEW a \in AgentIds, NEW d \in BOOLEAN, NEW l \in PromptLangs,
               NEW text \in {"none", "edited"}, AgentSave(a, d, l, text)
        PROVE  agents'[b].prompts[k] \in {"edited", "none"}
    <3>1. CASE a # b
      <4>1. agents'[b] = ClearingOthers(a, d)[b]
        BY <2>0, <2>1, <3>1, OthersCleared DEF AgentSave
      <4> QED BY <2>0, <4>1, OthersCleared
    <3>2. CASE a = b
      <4>1. agents'[b] = [default |-> d, prompts |-> [agents[b].prompts EXCEPT ![l] = text]]
        BY <2>0, <2>1, <3>2, OthersCleared DEF AgentSave
      <4>2. agents'[b].prompts = [agents[b].prompts EXCEPT ![l] = text]
        BY <4>1
      <4>3. agents[b].prompts \in Prompts
        BY <2>0 DEF Agent
      <4> QED BY <4>2, <4>3 DEF Prompts
    <3> QED BY <3>1, <3>2
  <2>2. ASSUME NEW a \in AgentIds, NEW c \in AgentIds, AgentCopy(a, c)
        PROVE  agents'[b].prompts[k] \in {"edited", "none"}
    BY <2>0, <2>2, <2>b DEF AgentCopy, AInv
  <2>3. ASSUME NEW a \in AgentIds, AgentDelete(a)
        PROVE  agents'[b].prompts[k] \in {"edited", "none"}
    BY <2>0, <2>3, <2>b DEF AgentDelete, AInv
  <2>4. ASSUME NEW a \in AgentIds, ResetPrompts(a)
        PROVE  agents'[b].prompts[k] \in {"edited", "none"}
    BY <2>0, <2>4, <2>a, <2>b DEF ResetPrompts, AInv, Agent
  <2>5. CASE ResetAllPrompts
    BY <2>0, <2>5, <2>a, <2>b DEF ResetAllPrompts, AInv, Agent
  <2>6. ASSUME NEW t \in Assigned, NEW a \in AgentIds \cup {NoAgent}, Assign(t, a)
        PROVE  agents'[b].prompts[k] \in {"edited", "none"}
    BY <2>6 DEF Assign
  <2>7. ASSUME NEW t \in Assigned, PageNames(t)
        PROVE  agents'[b].prompts[k] \in {"edited", "none"}
    BY <2>7 DEF PageNames
  <2> QED BY <2>1, <2>2, <2>3, <2>4, <2>5, <2>6, <2>7 DEF AgentsNext
<1>2. AgentsSpec => [][Stay]_agentVars
  BY AgentsHold, <1>1, PTL DEF AgentsSpec
<1> QED BY <1>2 DEF OwnTextsStay

-----------------------------------------------------------------------------
(* Languages *)

LangTypeOK ==
    /\ langs \in [Codes -> Lang \cup {NoLang}]
    /\ inMemory \in [Codes -> LangTexts \cup {"unloaded"}]
    /\ fallback \in Codes
    /\ list \subseteq Codes
    /\ listAge \in 0..MaxAge
    /\ gone \in [Codes -> 0..MaxAge]

GoneNoLonger ==
    /\ \A c \in Active : gone[c] = 0
    /\ listAge < ListTTL => \A c \in list : c \in Active \/ gone[c] <= listAge

LInv == LangTypeOK /\ NeverOutdated /\ GoneNoLonger

-----------------------------------------------------------------------------
\* A row is not mistaken for a missing one, which is neither active nor default.
LEMMA NoLangDiffers == NoLang \notin Lang /\ NoLang.active = FALSE
BY DEF NoLang, Lang, LangTexts

\* Clearing the flag of the default touches nothing else (language_new,
\* update_meta).
LEMMA UndefaultType ==
    ASSUME NEW ls \in [Codes -> Lang \cup {NoLang}]
    PROVE  Undefault(ls) \in [Codes -> Lang \cup {NoLang}]
<1>1. \A r \in Lang : [r EXCEPT !.default = FALSE] \in Lang
  BY DEF Lang
<1> QED BY <1>1 DEF Undefault

\* seed_languages adds rows and texts where there are none, and never replaces a
\* text or takes a language away.
LEMMA SeededKeeps ==
    ASSUME NEW ls \in [Codes -> Lang \cup {NoLang}]
    PROVE  /\ SeededLangs(ls) \in [Codes -> Lang \cup {NoLang}]
           /\ \A c \in Codes : ls[c] # NoLang => SeededLangs(ls)[c] # NoLang
           /\ \A c \in Codes : ls[c] # NoLang /\ ls[c].text # "none" => SeededLangs(ls)[c].text = ls[c].text
           /\ \A c \in Codes : ls[c] # NoLang => SeededLangs(ls)[c].active = ls[c].active
<1> DEFINE new(c) == [active |-> TRUE, default |-> c = "en", text |-> "seeded"]
           texts == [c \in Codes |->
                       IF c \notin {"en", "de"} THEN ls[c]
                       ELSE IF ls[c] = NoLang THEN new(c)
                       ELSE IF ls[c].text = "none" THEN [ls[c] EXCEPT !.text = "seeded"] ELSE ls[c]]
<1>1. \A c \in Codes : new(c) \in Lang
  BY DEF Lang, LangTexts
<1>2. \A r \in Lang : /\ [r EXCEPT !.text = "seeded"] \in Lang
                      /\ [r EXCEPT !.text = "seeded"].active = r.active
                      /\ [r EXCEPT !.default = TRUE] \in Lang
                      /\ [r EXCEPT !.default = TRUE].active = r.active
                      /\ [r EXCEPT !.default = TRUE].text = r.text
  BY DEF Lang, LangTexts
<1> HIDE DEF new
<1>3. /\ texts \in [Codes -> Lang \cup {NoLang}]
      /\ \A c \in Codes : ls[c] # NoLang =>
            /\ texts[c] \in Lang
            /\ ls[c].text # "none" => texts[c].text = ls[c].text
            /\ texts[c].active = ls[c].active
  BY <1>1, <1>2, NoLangDiffers
<1>4. "en" \in Codes /\ texts["en"] \in Lang
  BY <1>1, <1>2, <1>3, LanguageAssumption
<1>5. SeededLangs(ls) = IF \E c \in Codes : texts[c].default THEN texts
                        ELSE [texts EXCEPT !["en"].default = TRUE]
  BY DEF SeededLangs, new
<1> HIDE DEF texts
<1>6. CASE \E c \in Codes : texts[c].default
  BY <1>3, <1>5, <1>6, NoLangDiffers
<1>7. CASE ~\E c \in Codes : texts[c].default
  <2> DEFINE english == [texts["en"] EXCEPT !.default = TRUE]
  <2>1. SeededLangs(ls) = [texts EXCEPT !["en"] = english]
    BY <1>5, <1>7
  <2>2. english \in Lang /\ english.active = texts["en"].active /\ english.text = texts["en"].text
    BY <1>2, <1>4
  <2> HIDE DEF english
  <2>3. /\ SeededLangs(ls) \in [Codes -> Lang \cup {NoLang}]
        /\ \A c \in Codes : SeededLangs(ls)[c] = IF c = "en" THEN english ELSE texts[c]
    BY <1>3, <2>1, <2>2
  <2> QED BY <1>3, <2>2, <2>3, NoLangDiffers
<1> QED BY <1>6, <1>7

-----------------------------------------------------------------------------
\* The first start.
LEMMA LanguagesBegin == LanguagesInit => LInv
<1> SUFFICES ASSUME LanguagesInit PROVE LInv
  OBVIOUS
<1> DEFINE none == [c \in Codes |-> NoLang]
           first == [c \in Codes |->
                       IF c \notin {"en", "de"} THEN NoLang
                       ELSE [active |-> TRUE, default |-> c = "en", text |-> "seeded"]]
<1>1. langs = first
  <2>1. \A c \in Codes : none[c] = NoLang
    OBVIOUS
  <2>2. "en" \in Codes /\ first["en"].default
    BY LanguageAssumption
  <2> QED BY <2>1, <2>2 DEF LanguagesInit, SeededLangs
<1>2. \A c \in Codes : langs[c] \in Lang \cup {NoLang}
                       /\ (langs[c].active <=> c \in {"en", "de"})
                       /\ (c \in {"en", "de"} => langs[c].text = "seeded" /\ langs[c] # NoLang)
  BY <1>1, NoLangDiffers DEF Lang, LangTexts, NoLang
<1>3. langs \in [Codes -> Lang \cup {NoLang}]
  BY <1>1, <1>2
<1>4. LangTypeOK
  BY <1>3, LanguageAssumption DEF LanguagesInit, LangTypeOK, LangTexts
<1>5. NeverOutdated
  BY <1>2 DEF LanguagesInit, NeverOutdated, Known
<1>6. GoneNoLonger
  BY <1>2, LanguageAssumption DEF LanguagesInit, GoneNoLonger, Active, Known
<1> QED BY <1>4, <1>5, <1>6 DEF LInv

\* When the texts are forgotten and the list too, or when no language becomes
\* active, everything stays as recent as it was (invalidate_cache).
LEMMA Forgotten ==
    ASSUME LInv, langs' \in [Codes -> Lang \cup {NoLang}], Forget,
           \/ ForgetList /\ Here
           \/ UNCHANGED <<list, listAge, gone>> /\ \A c \in Codes : langs'[c].active => c \in Active
    PROVE  LInv'
<1> USE LanguageAssumption DEF LInv, LangTypeOK
<1>1. NeverOutdated'
  BY DEF Forget, Empty, NeverOutdated
<1>2. LangTypeOK'
  BY DEF Forget, Empty, ForgetList, Here, LangTexts
<1>3. CASE ForgetList /\ Here
  BY <1>1, <1>2, <1>3 DEF ForgetList, Here, GoneNoLonger, Active, Known
<1>4. CASE UNCHANGED <<list, listAge, gone>> /\ \A c \in Codes : langs'[c].active => c \in Active
  BY <1>1, <1>2, <1>4 DEF GoneNoLonger, Active, Known
<1> QED BY <1>3, <1>4

\* No operation on languages and texts, seeding and restarts included, leaves an
\* outdated text in memory or a language in the list for too long (content.py,
\* i18n_helper.py, app/__init__.py).
LEMMA LangStep == ASSUME LInv, [LanguagesNext]_languageVars PROVE LInv'
<1> USE LanguageAssumption
<1>0. langs \in [Codes -> Lang \cup {NoLang}] /\ Undefault(langs) \in [Codes -> Lang \cup {NoLang}]
  BY UndefaultType DEF LInv, LangTypeOK
<1>1. ASSUME NEW c \in Codes, NEW on \in BOOLEAN, NEW d \in BOOLEAN, LanguageNew(c, on, d)
      PROVE  LInv'
  <2> DEFINE row == [active |-> on, default |-> d, text |-> "none"]
             ls == IF d THEN Undefault(langs) ELSE langs
  <2>1. row \in Lang
    BY DEF Lang, LangTexts
  <2>2. langs' = [ls EXCEPT ![c] = row]
    BY <1>1 DEF LanguageNew
  <2>3. ls \in [Codes -> Lang \cup {NoLang}]
    BY <1>0
  <2> HIDE DEF row, ls
  <2>4. langs' \in [Codes -> Lang \cup {NoLang}]
    BY <2>1, <2>2, <2>3
  <2> QED BY <1>1, <2>4, Forgotten DEF LanguageNew
<1>2. ASSUME NEW c \in Codes, NEW on \in BOOLEAN, NEW d \in BOOLEAN, UpdateMeta(c, on, d)
      PROVE  LInv'
  <2>1. \A r \in Lang, a, b \in BOOLEAN : [r EXCEPT !.active = a, !.default = b] \in Lang
    BY DEF Lang
  <2>2. \A r \in Lang : r.default \in BOOLEAN
    BY DEF Lang
  <2>3. \A ls \in [Codes -> Lang \cup {NoLang}], a, b \in BOOLEAN :
           ls[c] \in Lang =>
              [ls EXCEPT ![c].active = a, ![c].default = b] \in [Codes -> Lang \cup {NoLang}]
    BY <2>1
  <2>4. langs[c] \in Lang /\ Undefault(langs)[c] \in Lang
    <3>1. langs[c] \in Lang
      BY <1>0, <1>2 DEF UpdateMeta, Known
    <3>2. [langs[c] EXCEPT !.default = FALSE] \in Lang
      BY <3>1 DEF Lang
    <3> QED BY <3>1, <3>2 DEF Undefault
  <2>5. langs' \in [Codes -> Lang \cup {NoLang}]
    <3>1. CASE c = "en"
      BY <1>0, <1>2, <2>3, <2>4, <3>1 DEF UpdateMeta
    <3>2. CASE c # "en"
      <4> DEFINE ls == IF d THEN Undefault(langs) ELSE langs
      <4>1. ls \in [Codes -> Lang \cup {NoLang}] /\ ls[c] \in Lang
        BY <1>0, <2>4
      <4> HIDE DEF ls
      <4>2. langs' = [ls EXCEPT ![c].active = on, ![c].default = @ \/ d]
        BY <1>2, <3>2 DEF UpdateMeta, ls
      <4>3. (ls[c].default \/ d) \in BOOLEAN
        OBVIOUS
      <4>4. langs' = [ls EXCEPT ![c].active = on, ![c].default = ls[c].default \/ d]
        BY <4>1, <4>2
      <4> QED BY <2>3, <4>1, <4>3, <4>4
    <3> QED BY <3>1, <3>2
  <2> QED BY <1>2, <2>5, Forgotten DEF UpdateMeta
<1>3. ASSUME NEW c \in Codes, NEW text \in LangTexts \ {"seeded"}, EditText(c, text) PROVE LInv'
  <2>1. \A r \in Lang : [r EXCEPT !.text = text] \in Lang /\ [r EXCEPT !.text = text].active = r.active
    BY DEF Lang, LangTexts
  <2>2. langs[c] \in Lang
    BY <1>0, <1>3 DEF EditText, Known
  <2>3. langs' \in [Codes -> Lang \cup {NoLang}] /\ \A x \in Codes : langs'[x].active => langs[x].active
    BY <1>0, <1>3, <2>1, <2>2 DEF EditText
  <2>4. \A x \in Codes : langs[x].active => x \in Active
    BY NoLangDiffers DEF Active, Known
  <2> QED BY <1>3, <2>3, <2>4, Forgotten DEF EditText
<1>4. ASSUME NEW c \in Codes, DeleteLanguage(c) PROVE LInv'
  <2>1. langs' \in [Codes -> Lang \cup {NoLang}] /\ \A x \in Codes : langs'[x].active => x \in Active
    BY <1>0, <1>4, NoLangDiffers DEF DeleteLanguage, Active, Known
  <2> QED BY <1>4, <2>1, Forgotten DEF DeleteLanguage
<1>5. CASE ServeList
  <2>1. list' \subseteq Codes /\ listAge' \in 0..MaxAge
    BY <1>5 DEF ServeList, Offered, Active, Known, LInv, LangTypeOK
  <2> QED BY <1>5, <2>1 DEF ServeList, Offered, LInv, LangTypeOK, NeverOutdated, GoneNoLonger,
                            Active, Known
<1>6. CASE LanguageTick
  <2>1. listAge' \in 0..MaxAge /\ gone' \in [Codes -> 0..MaxAge]
    BY <1>6 DEF LanguageTick, Sooner, LInv, LangTypeOK
  <2> QED BY <1>6, <2>1 DEF LanguageTick, Sooner, LInv, LangTypeOK, NeverOutdated, GoneNoLonger,
                            Active, Known
<1>7. CASE WorkerSeeds
  <2>1. langs' = SeededLangs(langs)
    BY <1>7 DEF WorkerSeeds
  <2>2. NeverOutdated'
    BY <1>0, <1>7, <2>1, SeededKeeps DEF WorkerSeeds, LInv, NeverOutdated, Known
  <2>3. \A c \in Active : c \in Active'
    BY <1>0, <2>1, SeededKeeps DEF Active, Known
  <2> QED BY <1>0, <1>7, <2>1, <2>2, <2>3, SeededKeeps
          DEF WorkerSeeds, Here, LInv, LangTypeOK, GoneNoLonger, Active, Known
<1>8. CASE WebRestarts
  <2>1. langs' = SeededLangs(langs) /\ langs' \in [Codes -> Lang \cup {NoLang}]
    BY <1>0, <1>8, SeededKeeps DEF WebRestarts
  <2>2. inMemory' = [c \in Codes |->
                       IF langs'[c] # NoLang /\ langs'[c].active THEN langs'[c].text ELSE "unloaded"]
    BY <1>8, <2>1 DEF WebRestarts, Warm
  <2>3. \A r \in Lang : r.text \in LangTexts
    BY DEF Lang
  <2>4. NeverOutdated' /\ inMemory' \in [Codes -> LangTexts \cup {"unloaded"}]
    BY <2>1, <2>2, <2>3 DEF NeverOutdated, Known
  <2>5. fallback' \in Codes
    BY <1>8, LanguageAssumption DEF WebRestarts, Warm
  <2> QED BY <1>8, <2>1, <2>4, <2>5 DEF WebRestarts, Here, LInv, LangTypeOK, GoneNoLonger, Active, Known
<1>10. CASE ResetLanguages
  <2> DEFINE none == [c \in Codes |-> NoLang]
  <2>1. langs' = SeededLangs(none) /\ langs' \in [Codes -> Lang \cup {NoLang}]
    BY <1>10, SeededKeeps DEF ResetLanguages
  <2>2. inMemory' = [c \in Codes |->
                       IF langs'[c] # NoLang /\ langs'[c].active THEN langs'[c].text ELSE "unloaded"]
    BY <1>10 DEF ResetLanguages, Warm
  <2>3. \A r \in Lang : r.text \in LangTexts
    BY DEF Lang
  <2>4. NeverOutdated' /\ inMemory' \in [Codes -> LangTexts \cup {"unloaded"}]
    BY <2>1, <2>2, <2>3 DEF NeverOutdated, Known
  <2>5. gone' \in [Codes -> 0..MaxAge] /\ UNCHANGED <<list, listAge>>
    BY <1>10 DEF ResetLanguages, Here, LInv, LangTypeOK
  <2>6. GoneNoLonger'
    BY <1>10 DEF ResetLanguages, Here, LInv, LangTypeOK, GoneNoLonger, Active, Known
  <2>7. fallback' \in Codes /\ list' \subseteq Codes /\ listAge' \in 0..MaxAge
    BY <1>10, LanguageAssumption DEF ResetLanguages, Warm, LInv, LangTypeOK
  <2> QED BY <2>1, <2>4, <2>5, <2>6, <2>7 DEF LInv, LangTypeOK
<1>9. CASE UNCHANGED languageVars
  BY <1>9 DEF languageVars, LInv, LangTypeOK, NeverOutdated, GoneNoLonger, Active, Known
<1> QED BY <1>1, <1>2, <1>3, <1>4, <1>5, <1>6, <1>7, <1>8, <1>9, <1>10 DEF LanguagesNext

\* No text is shown that the table no longer has, save the default written in the
\* program, and no language is offered for longer than a minute after it has gone,
\* whatever is edited, deleted and seeded by whichever process (_t,
\* invalidate_cache, _get_active_languages).
THEOREM TextsAndListFollow == LanguagesSpec => []CachesFollow
<1>1. LInv => CachesFollow
  <2> SUFFICES ASSUME LInv PROVE CachesFollow
    OBVIOUS
  <2>1. ListRecent
    BY LanguageAssumption
    DEF LInv, LangTypeOK, GoneNoLonger, ListRecent, Offered, Active, Known
  <2>2. ASSUME NEW c \in Codes, Shown(c) # "default"
        PROVE  \E d \in {c, fallback} : d \in Known /\ Shown(c) = langs[d].text
    <3>1. PICK d \in {c, fallback} : Shown(c) = inMemory[d] /\ inMemory[d] \notin {"none", "unloaded"}
      BY <2>2 DEF Shown, Looked
    <3>2. d \in Codes
      BY DEF LInv, LangTypeOK
    <3> QED BY <3>1, <3>2 DEF LInv, NeverOutdated
  <2> QED BY <2>1, <2>2 DEF CachesFollow, TextsCurrent
<1> QED BY LanguagesBegin, LangStep, <1>1, PTL DEF LanguagesSpec

-----------------------------------------------------------------------------
(* Levels *)

\* Levels are numbered in the order in which they were made.
Increasing == \A l, m \in Present : l < m => levels[l].number < levels[m].number

\* Between the two commits of a deletion there is one gap more.
Owed == IF renumber THEN kills + 1 ELSE kills
FewGaps == Present # {} => Max(Numbers) - Cardinality(Numbers) <= Owed

CurriculumInv == CurriculumTypeOK /\ Increasing /\ FewGaps

\* A set of numbers has a last.
LEMMA LastOf ==
    ASSUME NEW N \in Nat, NEW T, T \subseteq 1..N, T # {}
    PROVE  Max(T) \in T /\ \A n \in T : n <= Max(T)
<1> DEFINE U == {n \in 0..N : N - n \in T}
<1>1. \A y \in T : N - y \in U OBVIOUS
<1>2. U \subseteq Nat /\ U # {}
  <2>1. U \subseteq Nat OBVIOUS
  <2>2. PICK y \in T : TRUE OBVIOUS
  <2> HIDE DEF U
  <2>3. QED BY <1>1, <2>1, <2>2
<1>3. PICK u \in U : \A v \in U : ~(<<v, u>> \in OpToRel(<, Nat))
  BY <1>2, NatLessThanWellFounded, WFMin
<1>4. \A v \in U : ~(v < u) BY <1>2, <1>3 DEF OpToRel
<1>5. N - u \in T /\ u \in 0..N OBVIOUS
<1>6. \A y \in T : N - u >= y
  <2> HIDE DEF U
  <2>1. SUFFICES ASSUME NEW y \in T PROVE N - u >= y OBVIOUS
  <2>2. N - y \in U /\ y \in Nat BY <1>1
  <2>3. ~(N - y < u) /\ u \in Nat BY <1>4, <1>5, <2>2
  <2>4. QED BY <2>2, <2>3
<1>7. Max(T) \in T /\ \A n \in T : Max(T) >= n
  <2> HIDE DEF U
  <2>1. \E x \in T : \A y \in T : x >= y BY <1>5, <1>6
  <2>2. QED BY <2>1 DEF Max
<1>8. PICK m : m = Max(T) OBVIOUS
<1>9. m \in Nat /\ m \in T /\ \A n \in T : n <= m
  <2> HIDE DEF U
  <2>1. m \in T /\ \A n \in T : m >= n BY <1>7, <1>8
  <2>2. QED BY <2>1
<1>10. QED BY <1>8, <1>9

\* The numbers in use, as many as there are.
LEMMA NumbersCounted ==
    ASSUME CurriculumTypeOK
    PROVE  /\ Present \subseteq LevelIds /\ Numbers \subseteq 1..MaxLevels
           /\ \A l \in Present : levels[l].number \in Numbers
           /\ IsFiniteSet(Numbers) /\ Cardinality(Numbers) \in Nat
           /\ Present # {} => Numbers # {}
<1>1. Present \subseteq LevelIds /\ \A l \in Present : levels[l].number \in Numbers
  BY DEF Present, Numbers
<1>2. \A l \in Present : levels[l].number \in 1..MaxLevels
  BY CurriculumBounds DEF Present, CurriculumTypeOK, Level
<1>3. Numbers \subseteq 1..MaxLevels BY <1>2 DEF Numbers
<1>4. IsFiniteSet(1..MaxLevels) BY CurriculumBounds, FS_Interval
<1>5. IsFiniteSet(Numbers) BY <1>3, <1>4, FS_Subset
<1>6. QED BY <1>1, <1>3, <1>5, FS_CardinalityType

\* What asks about levels holds as long as none gets or loses its number.
LEMMA NumbersStay ==
    ASSUME CurriculumInv, CurriculumTypeOK', Owed' >= Owed,
           \A l \in LevelIds : levels'[l].number = levels[l].number
    PROVE  CurriculumInv'
<1>1. Present' = Present BY DEF Present
<1>2. Numbers' = Numbers BY <1>1 DEF Numbers, Present
<1>3. Increasing' BY <1>1 DEF CurriculumInv, Increasing, Present
<1>4. PICK a, b, c, d : a = Max(Numbers) /\ b = Cardinality(Numbers) /\ c = Owed /\ d = Owed' OBVIOUS
<1>5. c \in Nat /\ d \in Nat
  <2>1. kills \in Nat /\ kills' \in Nat BY CurriculumBounds DEF CurriculumInv, CurriculumTypeOK
  <2>2. c \in Nat BY <1>4, <2>1 DEF Owed
  <2>3. Owed' = kills' + 1 \/ Owed' = kills' BY DEF Owed
  <2>4. QED BY <1>4, <2>1, <2>2, <2>3
<1>6. FewGaps'
  <2> SUFFICES ASSUME Present # {} PROVE a - b <= d
    BY <1>1, <1>2, <1>4 DEF FewGaps
  <2>1. a - b <= c BY <1>4 DEF CurriculumInv, FewGaps
  <2>2. a \in Nat /\ b \in Nat
    <3>1. Numbers \subseteq 1..MaxLevels /\ Numbers # {} /\ MaxLevels \in Nat
          /\ Cardinality(Numbers) \in Nat
      BY NumbersCounted, CurriculumBounds DEF CurriculumInv
    <3>2. Max(Numbers) \in Numbers BY <3>1, LastOf
    <3>3. a \in 1..MaxLevels BY <1>4, <3>1, <3>2
    <3>4. QED BY <1>4, <3>1, <3>3
  <2>3. c <= d BY <1>4, <1>5
  <2>4. QED BY <1>5, <2>1, <2>2, <2>3
<1>7. QED BY <1>3, <1>6 DEF CurriculumInv

\* There are no levels yet.
LEMMA CurriculumBegins == CurriculumInit => CurriculumInv
<1> SUFFICES ASSUME CurriculumInit PROVE CurriculumInv OBVIOUS
<1> USE DEF CurriculumInit
<1>1. NoLevel \in Level /\ NoLevel.number = 0 BY CurriculumBounds DEF NoLevel, Level
<1>2. CurriculumTypeOK
  <2>1. levels \in [LevelIds -> Level] BY <1>1
  <2>2. asked \in SubIds \cup {0} /\ kills \in 0..MaxKills BY CurriculumBounds
  <2>3. QED BY <2>1, <2>2 DEF CurriculumTypeOK
<1>3. Present = {} BY <1>1 DEF Present
<1>4. QED BY <1>2, <1>3 DEF CurriculumInv, Increasing, FewGaps

\* level_new: the next number, behind all others.
LEMMA NewStep == ASSUME CurriculumInv, LevelNew PROVE CurriculumInv'
<1> USE DEF CurriculumInv
<1>1. PICK id, number :
        /\ id = IF Present = {} THEN 1 ELSE Max(Present) + 1
        /\ number = IF Present = {} THEN 1 ELSE Max(Numbers) + 1
        /\ ~renumber /\ id \in LevelIds /\ number <= MaxLevels
        /\ levels' = [levels EXCEPT ![id] = [number |-> number, tasks |-> {}]]
        /\ UNCHANGED <<renumber, task, subs, asked, kills>>
  BY DEF LevelNew
<1>2. /\ Present \subseteq 1..MaxLevels /\ Numbers \subseteq 1..MaxLevels
      /\ \A l \in Present : levels[l].number \in Numbers
      /\ IsFiniteSet(Numbers) /\ Cardinality(Numbers) \in Nat
      /\ Present # {} => Numbers # {}
      /\ MaxLevels \in Nat
  BY NumbersCounted, CurriculumBounds DEF LevelIds
<1>3. number \in 1..MaxLevels /\ \A n \in Numbers : n < number
  <2>1. CASE Present = {}
    <3>1. Numbers = {} BY <2>1 DEF Numbers
    <3>2. number = 1 BY <1>1, <2>1
    <3>3. QED BY <1>1, <1>2, <3>1, <3>2
  <2>2. CASE Present # {}
    <3>1. PICK m : m = Max(Numbers) OBVIOUS
    <3>2. m \in Numbers /\ \A n \in Numbers : n <= m BY <1>2, <2>2, <3>1, LastOf
    <3>3. number = m + 1 BY <1>1, <2>2, <3>1
    <3>4. QED BY <1>1, <1>2, <3>2, <3>3
  <2>3. QED BY <2>1, <2>2
<1>4. id \notin Present /\ \A l \in Present : l < id
  <2>1. CASE Present = {} BY <2>1
  <2>2. CASE Present # {}
    <3>1. PICK m : m = Max(Present) OBVIOUS
    <3>2. m \in Present /\ \A n \in Present : n <= m BY <1>2, <2>2, <3>1, LastOf
    <3>3. id = m + 1 BY <1>1, <2>2, <3>1
    <3>4. QED BY <1>2, <3>2, <3>3
  <2>3. QED BY <2>1, <2>2
<1>5. CurriculumTypeOK'
  <2>1. [number |-> number, tasks |-> {}] \in Level BY <1>2, <1>3 DEF Level
  <2>2. levels' \in [LevelIds -> Level] BY <1>1, <2>1 DEF CurriculumTypeOK
  <2>3. QED BY <1>1, <2>2 DEF CurriculumTypeOK
<1>6. /\ levels'[id].number = number
      /\ \A l \in LevelIds : l # id => levels'[l] = levels[l]
  BY <1>1 DEF CurriculumTypeOK
<1>7. Present' = Present \cup {id}
  <2>1. levels'[id].number > 0 BY <1>2, <1>3, <1>6
  <2>2. QED BY <1>1, <1>6, <2>1 DEF Present
<1>8. Numbers' = Numbers \cup {number}
  <2>1. \A l \in Present : levels'[l].number = levels[l].number
    BY <1>4, <1>6 DEF Present
  <2>2. QED BY <1>6, <1>7, <2>1 DEF Numbers
<1>9. Increasing'
  <2> SUFFICES ASSUME NEW l \in Present', NEW m \in Present', l < m
               PROVE  levels'[l].number < levels'[m].number
    BY DEF Increasing
  <2>1. l \in Nat /\ m \in Nat /\ id \in Nat BY <1>1, <1>2, <1>7 DEF LevelIds
  <2>2. l # id
    <3>1. SUFFICES ASSUME l = id PROVE FALSE OBVIOUS
    <3>2. m = id \/ m < id BY <1>4, <1>7
    <3>3. QED BY <2>1, <3>1, <3>2
  <2>3. l \in Present /\ levels'[l] = levels[l] BY <1>6, <1>7, <2>2 DEF Present
  <2>4. CASE m = id BY <1>2, <1>3, <1>6, <2>3, <2>4
  <2>5. CASE m # id
    <3>1. m \in Present /\ levels'[m] = levels[m] BY <1>6, <1>7, <2>5 DEF Present
    <3>2. QED BY <2>3, <3>1 DEF Increasing
  <2>6. QED BY <2>4, <2>5
<1>10. FewGaps'
  <2>1. PICK N, M : N = Numbers /\ M = Numbers' OBVIOUS
  <2>2. M = N \cup {number} /\ number \notin N /\ M # {}
    BY <1>2, <1>3, <1>8, <2>1
  <2>3. IsFiniteSet(M) /\ Cardinality(M) = Cardinality(N) + 1
    BY <1>2, <2>1, <2>2, FS_AddElement
  <2>4. PICK c : c = Cardinality(N) /\ c \in Nat BY <1>2, <2>1
  <2>5. PICK x : x = Max(M) OBVIOUS
  <2>6. x = number
    <3>1. M \subseteq 1..MaxLevels BY <1>2, <1>3, <2>1, <2>2
    <3>2. x \in M /\ \A n \in M : n <= x BY <1>2, <2>2, <2>5, <3>1, LastOf
    <3>3. number <= x BY <2>2, <3>2
    <3>4. x = number \/ x < number BY <1>3, <2>1, <2>2, <3>2
    <3>5. QED BY <1>3, <3>1, <3>2, <3>3, <3>4
  <2>7. PICK k : k = Owed /\ Owed' = k /\ k \in Nat
    <3>1. kills \in Nat BY CurriculumBounds DEF CurriculumTypeOK
    <3>2. QED BY <1>1, <3>1 DEF Owed
  <2>8. x - (c + 1) <= k
    <3>1. CASE Present = {}
      <4>1. number = 1 BY <1>1, <3>1
      <4>2. QED BY <2>4, <2>6, <2>7, <4>1
    <3>2. CASE Present # {}
      <4>1. PICK m : m = Max(N) OBVIOUS
      <4>2. m \in Nat
        <5>1. m \in N BY <1>2, <2>1, <3>2, <4>1, LastOf
        <5>2. QED BY <1>2, <2>1, <5>1
      <4>3. number = m + 1 /\ m - c <= k
        BY <1>1, <2>1, <2>4, <2>7, <3>2, <4>1 DEF FewGaps
      <4>4. QED BY <2>4, <2>6, <2>7, <4>2, <4>3
    <3>3. QED BY <3>1, <3>2
  <2>9. QED BY <2>1, <2>3, <2>4, <2>5, <2>7, <2>8 DEF FewGaps
<1>11. QED BY <1>5, <1>9, <1>10

\* level_edit, the first commit of a deletion.
LEMMA DeleteStep == ASSUME CurriculumInv, NEW d \in LevelIds, LevelDelete(d) PROVE CurriculumInv'
<1> USE DEF CurriculumInv, LevelDelete
<1>1. NoLevel \in Level /\ NoLevel.number = 0 BY CurriculumBounds DEF NoLevel, Level
<1>2. CurriculumTypeOK' BY <1>1 DEF CurriculumTypeOK
<1>3. \A l \in LevelIds : levels'[l] = IF l = d THEN NoLevel ELSE levels[l]
  BY DEF CurriculumTypeOK
<1>4. Present' = Present \ {d} BY <1>1, <1>3 DEF Present
<1>5. \A l \in Present' : levels'[l] = levels[l] /\ l \in Present BY <1>3, <1>4 DEF Present
<1>6. Increasing' BY <1>5 DEF Increasing
<1>7. FewGaps'
  <2> SUFFICES ASSUME Present' # {} PROVE Max(Numbers)' - Cardinality(Numbers)' <= Owed'
    BY DEF FewGaps
  <2>1. PICK N, M, n : N = Numbers /\ M = Numbers' /\ n = levels[d].number OBVIOUS
  <2>2. N \ {n} \subseteq M /\ M \subseteq N
    <3>1. \A l \in Present : levels[l].number # n => l \in Present' BY <1>4, <2>1
    <3>2. \A x \in N : x # n => x \in M BY <1>5, <2>1, <3>1 DEF Numbers
    <3>3. \A x \in M : x \in N BY <1>5, <2>1 DEF Numbers
    <3>4. QED BY <3>2, <3>3
  <2>3. /\ N \subseteq 1..MaxLevels /\ IsFiniteSet(N) /\ Cardinality(N) \in Nat
        /\ N # {} /\ MaxLevels \in Nat
    BY <1>4, <2>1, NumbersCounted, CurriculumBounds
  <2>4. M # {} BY <1>2, <2>1, NumbersCounted DEF Numbers
  <2>5. PICK a, b, x, y : /\ a = Max(N) /\ b = Max(M)
                         /\ x = Cardinality(N) /\ y = Cardinality(M) OBVIOUS
  <2>6. a \in N /\ b \in M /\ \A z \in N : z <= a
    <3>1. M \subseteq 1..MaxLevels BY <2>2, <2>3
    <3>2. QED BY <2>3, <2>4, <2>5, <3>1, LastOf
  <2>7. b <= a BY <2>2, <2>6
  <2>8. x \in Nat /\ y \in Nat /\ x <= y + 1
    <3>1. PICK R : R = N \ {n} OBVIOUS
    <3>2. IsFiniteSet(R) /\ (Cardinality(R) = x - 1 \/ Cardinality(R) = x)
      BY <2>3, <2>5, <3>1, FS_RemoveElement
    <3>3. IsFiniteSet(M) BY <2>2, <2>3, FS_Subset
    <3>4. Cardinality(R) <= y /\ y \in Nat
      BY <2>2, <2>5, <3>1, <3>3, FS_Subset, FS_CardinalityType
    <3>5. x \in Nat BY <2>3, <2>5
    <3>6. QED BY <3>2, <3>4, <3>5
  <2>9. PICK k : k = Owed /\ Owed' = k + 1 /\ k \in Nat
    <3>1. kills \in Nat BY CurriculumBounds DEF CurriculumTypeOK
    <3>2. QED BY <3>1 DEF Owed
  <2>10. a - x <= k BY <1>4, <2>1, <2>5, <2>9 DEF FewGaps
  <2>11. a \in Nat /\ b \in Nat BY <2>2, <2>3, <2>6
  <2>12. b - y <= k + 1 BY <2>7, <2>8, <2>9, <2>10, <2>11
  <2>13. QED BY <2>1, <2>5, <2>9, <2>12
<1>8. QED BY <1>2, <1>6, <1>7

\* level_edit, the second commit: the remaining levels are numbered from 1.
LEMMA RenumberStep == ASSUME CurriculumInv, Renumber PROVE CurriculumInv'
<1> USE DEF CurriculumInv
<1> DEFINE UpTo(n) == {m \in Numbers : m <= n}
           C(n) == Cardinality(UpTo(n))
<1>1. /\ Present \subseteq LevelIds /\ Numbers \subseteq 1..MaxLevels
      /\ \A l \in Present : levels[l].number \in Numbers
      /\ IsFiniteSet(Numbers) /\ Cardinality(Numbers) \in Nat
      /\ MaxLevels \in Nat
  BY NumbersCounted, CurriculumBounds
<1>2. \A n : IsFiniteSet(UpTo(n)) /\ C(n) \in Nat /\ C(n) <= Cardinality(Numbers)
  <2> SUFFICES ASSUME NEW n PROVE IsFiniteSet(UpTo(n)) /\ C(n) \in Nat /\ C(n) <= Cardinality(Numbers)
    OBVIOUS
  <2>1. UpTo(n) \subseteq Numbers OBVIOUS
  <2> HIDE DEF UpTo
  <2>2. IsFiniteSet(UpTo(n)) /\ C(n) <= Cardinality(Numbers) BY <1>1, <2>1, FS_Subset
  <2>3. C(n) \in Nat BY <2>2, FS_CardinalityType
  <2>4. QED BY <2>2, <2>3
<1>3. Cardinality(Numbers) <= MaxLevels
  <2>1. IsFiniteSet(1..MaxLevels) /\ Cardinality(1..MaxLevels) = MaxLevels
    <3>1. 1 \in Int /\ MaxLevels \in Int BY <1>1
    <3>2. /\ IsFiniteSet(1..MaxLevels)
          /\ Cardinality(1..MaxLevels) = IF 1 > MaxLevels THEN 0 ELSE MaxLevels - 1 + 1
      BY <3>1, FS_Interval
    <3>3. QED BY <1>1, <3>2
  <2>2. Cardinality(Numbers) <= Cardinality(1..MaxLevels) BY <1>1, <2>1, FS_Subset
  <2>3. QED BY <2>1, <2>2
<1>4. ASSUME NEW m \in Numbers, NEW n \in Numbers, m < n PROVE C(m) < C(n)
  <2>1. PICK S, T : S = UpTo(m) /\ T = UpTo(n) OBVIOUS
  <2>2. m \in Nat /\ n \in Nat BY <1>1
  <2>3. S \cup {n} \subseteq T
    <3>1. \A x \in UpTo(m) : x \in UpTo(n) BY <1>1, <1>4, <2>2
    <3>2. n \in UpTo(n) BY <2>2
    <3> HIDE DEF UpTo
    <3>3. QED BY <2>1, <3>1, <3>2
  <2>4. n \notin S BY <1>4, <2>1, <2>2
  <2>5. IsFiniteSet(S) /\ IsFiniteSet(T) /\ Cardinality(S) \in Nat /\ Cardinality(T) \in Nat
    BY <1>2, <2>1
  <2>6. Cardinality(S \cup {n}) = Cardinality(S) + 1 BY <2>4, <2>5, FS_AddElement
  <2>7. Cardinality(S \cup {n}) <= Cardinality(T) BY <2>3, <2>5, FS_Subset
  <2>8. Cardinality(S) < Cardinality(T) BY <2>5, <2>6, <2>7
  <2>9. QED BY <2>1, <2>8
<1>5. \A n \in Numbers : C(n) \in 1..Cardinality(Numbers)
  <2> SUFFICES ASSUME NEW n \in Numbers PROVE C(n) \in 1..Cardinality(Numbers) OBVIOUS
  <2>1. n \in UpTo(n) BY <1>1
  <2>2. C(n) # 0
    <3>1. PICK S : S = UpTo(n) OBVIOUS
    <3>2. IsFiniteSet(S) /\ S # {} BY <1>2, <2>1, <3>1
    <3>3. Cardinality(S) # 0 BY <3>2, FS_EmptySet
    <3>4. QED BY <3>1, <3>3
  <2>3. PICK c, d : c = C(n) /\ d = Cardinality(Numbers) OBVIOUS
  <2>4. c \in Nat /\ d \in Nat /\ c <= d /\ c # 0 BY <1>1, <1>2, <2>2, <2>3
  <2>5. c \in 1..d BY <2>4
  <2>6. QED BY <2>3, <2>5
<1>6. \A n \in Numbers : C(n) \in 1..MaxLevels BY <1>1, <1>3, <1>5
<1>7. \A l \in LevelIds : levels'[l] = [levels[l] EXCEPT !.number = C(levels[l].number)]
  BY DEF Renumber
<1> HIDE DEF UpTo, C
<1>8. \A l \in LevelIds : l \notin Present => levels[l].number = 0
  BY CurriculumBounds DEF Present, CurriculumTypeOK, Level
<1>9. C(0) = 0
  <2>1. \A m \in Numbers : ~(m <= 0) BY <1>1
  <2>2. UpTo(0) = {} BY <2>1 DEF UpTo
  <2>3. QED BY <2>2, FS_EmptySet DEF C
<1>10. \A l \in LevelIds : levels'[l].number = C(levels[l].number) BY <1>7 DEF CurriculumTypeOK, Level
<1>11. CurriculumTypeOK'
  <2>1. ASSUME NEW l \in LevelIds PROVE levels'[l] \in Level
    <3>1. C(levels[l].number) \in 0..MaxLevels
      <4>1. CASE l \in Present
        <5>1. C(levels[l].number) \in 1..MaxLevels BY <1>1, <1>6, <4>1
        <5>2. QED BY <1>1, <5>1
      <4>2. CASE l \notin Present BY <1>1, <1>8, <1>9, <4>2
      <4>3. QED BY <4>1, <4>2
    <3>2. QED BY <1>7, <3>1 DEF CurriculumTypeOK, Level
  <2>2. levels' \in [LevelIds -> Level] BY <2>1 DEF Renumber
  <2>3. QED BY <2>2 DEF Renumber, CurriculumTypeOK
<1>12. Present' = Present
  <2>1. ASSUME NEW l \in Present PROVE levels'[l].number > 0
    <3>1. levels'[l].number = C(levels[l].number) BY <1>1, <1>10
    <3>2. C(levels[l].number) \in 1..MaxLevels BY <1>1, <1>6
    <3>3. \A x \in 1..MaxLevels : x > 0 BY <1>1
    <3>4. QED BY <3>1, <3>2, <3>3
  <2>2. \A l \in LevelIds : l \notin Present => ~(levels'[l].number > 0)
    BY <1>8, <1>9, <1>10
  <2>3. QED BY <2>1, <2>2 DEF Present
<1>13. Numbers' = {C(n) : n \in Numbers}
  <2>1. Numbers' = {levels'[l].number : l \in Present} BY <1>12 DEF Numbers
  <2>2. \A l \in Present : levels'[l].number = C(levels[l].number) /\ levels[l].number \in Numbers
    BY <1>1, <1>10
  <2>3. \A n \in Numbers : \E l \in Present : levels[l].number = n BY DEF Numbers
  <2>4. \A x \in Numbers' : x \in {C(n) : n \in Numbers} BY <2>1, <2>2
  <2>5. \A x \in {C(n) : n \in Numbers} : x \in Numbers' BY <2>1, <2>2, <2>3
  <2>6. QED BY <2>4, <2>5
<1>14. Increasing' BY <1>1, <1>4, <1>10, <1>12 DEF Increasing
<1>15. FewGaps'
  <2> SUFFICES ASSUME Present # {} PROVE Max(Numbers)' - Cardinality(Numbers)' <= Owed'
    BY <1>12 DEF FewGaps
  <2>1. PICK N, M : N = Numbers /\ M = Numbers' OBVIOUS
  <2>2. PICK a, b, c, k : /\ a = Max(M) /\ b = Cardinality(M)
                         /\ c = Cardinality(N) /\ k = Owed' OBVIOUS
  <2>3. M \subseteq 1..MaxLevels /\ M # {} /\ IsFiniteSet(M) /\ b \in Nat
    <3>1. \A x \in M : x \in 1..MaxLevels BY <1>6, <1>13, <2>1
    <3>2. PICK l \in Present : TRUE OBVIOUS
    <3>3. C(levels[l].number) \in M BY <1>1, <1>13, <2>1
    <3>4. 1 \in Int /\ MaxLevels \in Int BY <1>1
    <3>5. IsFiniteSet(1..MaxLevels) BY <3>4, FS_Interval
    <3>6. M \subseteq 1..MaxLevels BY <3>1
    <3>7. IsFiniteSet(M) BY <3>5, <3>6, FS_Subset
    <3>8. b \in Nat BY <2>2, <3>7, FS_CardinalityType
    <3>9. QED BY <3>3, <3>6, <3>7, <3>8
  <2>4. c \in Nat BY <1>1, <2>1, <2>2
  <2>5. a \in 1..c
    <3>1. a \in M BY <1>1, <2>2, <2>3, LastOf
    <3>2. \A x \in M : x \in 1..c BY <1>5, <1>13, <2>1, <2>2
    <3>3. QED BY <3>1, <3>2
  <2>6. c <= b
    <3>1. PICK f : f = [n \in N |-> C(n)] OBVIOUS
    <3>2. f \in [N -> M] BY <1>13, <2>1, <3>1
    <3>3. \A m, n \in N : f[m] = f[n] => m = n
      <4> SUFFICES ASSUME NEW m \in N, NEW n \in N, f[m] = f[n], m # n PROVE FALSE OBVIOUS
      <4>1. m \in Nat /\ n \in Nat /\ C(m) = C(n) BY <1>1, <2>1, <3>1
      <4>2. C(m) \in Nat /\ C(n) \in Nat BY <1>2
      <4>3. m < n \/ n < m BY <4>1
      <4>4. C(m) < C(n) \/ C(n) < C(m) BY <1>4, <2>1, <4>3
      <4>5. QED BY <4>1, <4>2, <4>4
    <3>4. f \in Injection(N, M) BY <3>2, <3>3 DEF Injection, IsInjective
    <3>5. QED BY <2>2, <2>3, <3>4, FS_Injection
  <2>7. k \in Nat
    <3>1. kills' \in Nat BY <1>11, CurriculumBounds DEF CurriculumTypeOK
    <3>2. Owed' = kills' BY DEF Owed, Renumber
    <3>3. QED BY <2>2, <3>1, <3>2
  <2>8. a - b <= k BY <2>3, <2>4, <2>5, <2>6, <2>7
  <2>9. QED BY <2>1, <2>2, <2>8
<1>16. QED BY <1>11, <1>14, <1>15

\* Handlers that leave every level its number.
LEMMA OtherSteps ==
    ASSUME CurriculumInv, [CurriculumNext]_curriculumVars, ~LevelNew, ~Renumber,
           \A l \in LevelIds : ~LevelDelete(l)
    PROVE  CurriculumInv'
<1> USE DEF CurriculumInv
<1>1. /\ levels \in [LevelIds -> Level] /\ renumber \in BOOLEAN
      /\ task \in [Tasks -> {"active", "hidden", "gone"}]
      /\ subs \in [SubIds -> Sub \cup {NoSub}]
      /\ asked \in SubIds \cup {0} /\ kills \in 0..MaxKills
  BY DEF CurriculumTypeOK
<1>2. NoSub \notin Sub BY CurriculumBounds DEF NoSub, Sub
<1>3. \A i \in Filled : i \in SubIds /\ subs[i] \in Sub BY <1>1 DEF Filled
<1>4. kills \in Nat BY <1>1, CurriculumBounds
<1>5. (kills' = kills /\ renumber' = renumber) \/ kills' = kills + 1 => Owed' >= Owed
  <2>1. PICK k, o, p : k = kills /\ o = Owed /\ p = Owed' OBVIOUS
  <2>2. o = IF renumber THEN k + 1 ELSE k BY <2>1 DEF Owed
  <2>3. kills' = kills /\ renumber' = renumber => p = o BY <2>1 DEF Owed
  <2>4. kills' = kills + 1 => p = k + 1 \/ p = k + 2
    <3>1. Owed' = kills' + 1 \/ Owed' = kills' BY DEF Owed
    <3>2. QED BY <1>4, <2>1, <3>1
  <2>5. p >= o \/ ~((kills' = kills /\ renumber' = renumber) \/ kills' = kills + 1)
    BY <1>4, <2>1, <2>2, <2>3, <2>4
  <2>6. QED BY <2>1, <2>5
<1>6. CASE Suggested BY <1>1, <1>4, <1>5, <1>6, NumbersStay DEF Suggested, CurriculumTypeOK
<1>7. CASE Die
  <2>1. kills' \in 0..MaxKills BY <1>4, <1>7, CurriculumBounds DEF Die
  <2>2. CurriculumTypeOK' BY <1>1, <1>7, <2>1 DEF Die, CurriculumTypeOK
  <2>3. QED BY <1>4, <1>5, <1>7, <2>2, NumbersStay DEF Die
<1>8. ASSUME NEW l \in LevelIds, NEW ts \in SUBSET Tasks, LevelSave(l, ts) PROVE CurriculumInv'
  <2>1. levels' \in [LevelIds -> Level] BY <1>1, <1>8 DEF LevelSave, Level
  <2>2. \A m \in LevelIds : levels'[m].number = levels[m].number
    BY <1>1, <1>8 DEF LevelSave, Level
  <2>3. CurriculumTypeOK' BY <1>1, <1>8, <2>1 DEF LevelSave, CurriculumTypeOK
  <2>4. QED BY <1>4, <1>5, <1>8, <2>2, <2>3, NumbersStay DEF LevelSave
<1>9. ASSUME NEW t \in Tasks, TaskDelete(t) PROVE CurriculumInv'
  <2>1. levels' \in [LevelIds -> Level] BY <1>1, <1>9 DEF TaskDelete, Level
  <2>2. \A m \in LevelIds : levels'[m].number = levels[m].number
    BY <1>1, <1>9 DEF TaskDelete, Level
  <2>3. subs' \in [SubIds -> Sub \cup {NoSub}] BY <1>1, <1>9 DEF TaskDelete
  <2>4. CurriculumTypeOK' BY <1>1, <1>9, <2>1, <2>3 DEF TaskDelete, CurriculumTypeOK
  <2>5. QED BY <1>4, <1>5, <1>9, <2>2, <2>4, NumbersStay DEF TaskDelete
<1>10. ASSUME NEW t \in Tasks, OpenTask(t) PROVE CurriculumInv'
  <2>1. PICK id \in SubIds : subs' = [subs EXCEPT ![id] = [task |-> t, state |-> "open", mark |-> "none"]]
    BY <1>10 DEF OpenTask
  <2>2. [task |-> t, state |-> "open", mark |-> "none"] \in Sub BY DEF Sub, Marks
  <2>3. subs' \in [SubIds -> Sub \cup {NoSub}] BY <1>1, <2>1, <2>2
  <2>4. UNCHANGED <<levels, renumber, task, asked, kills>> BY <1>10 DEF OpenTask
  <2>5. CurriculumTypeOK' BY <1>1, <2>3, <2>4 DEF CurriculumTypeOK
  <2>6. QED BY <1>4, <1>5, <2>4, <2>5, NumbersStay
<1>11. ASSUME NEW t \in Tasks, NEW s \in {"active", "hidden"}, SetTask(t, s) PROVE CurriculumInv'
  <2>1. CurriculumTypeOK' BY <1>1, <1>11 DEF SetTask, CurriculumTypeOK
  <2>2. QED BY <1>4, <1>5, <1>11, <2>1, NumbersStay DEF SetTask
<1>12. ASSUME NEW i \in SubIds, NEW k \in {"none", "points", "passfail"},
              CompleteTask(i) \/ SubmissionDelete(i) \/ AskSuggestion(i) \/ SaveGrade(i, k)
       PROVE  CurriculumInv'
  <2>1. i \in Filled /\ UNCHANGED <<levels, renumber, task, kills>>
    BY <1>12 DEF CompleteTask, SubmissionDelete, AskSuggestion, SaveGrade
  <2>2. subs[i] \in Sub BY <1>3, <2>1
  <2>3. subs' \in [SubIds -> Sub \cup {NoSub}]
    BY <1>1, <1>12, <2>2 DEF CompleteTask, SubmissionDelete, AskSuggestion, SaveGrade, Sub, Marks
  <2>4. asked' \in SubIds \cup {0}
    BY <1>1, <1>12 DEF CompleteTask, SubmissionDelete, AskSuggestion, SaveGrade
  <2>5. CurriculumTypeOK' BY <1>1, <2>1, <2>3, <2>4 DEF CurriculumTypeOK
  <2>6. QED BY <1>4, <1>5, <2>1, <2>5, NumbersStay
<1>13. CASE UNCHANGED curriculumVars
  <2>1. UNCHANGED <<levels, renumber, task, subs, asked, kills>> BY <1>13 DEF curriculumVars
  <2>2. CurriculumTypeOK' BY <1>1, <2>1 DEF CurriculumTypeOK
  <2>3. QED BY <1>4, <1>5, <2>1, <2>2, NumbersStay
<1>14. QED BY <1>6, <1>7, <1>8, <1>9, <1>10, <1>11, <1>12, <1>13 DEF CurriculumNext

\* Every step keeps the invariant.
LEMMA CurriculumStep == CurriculumInv /\ [CurriculumNext]_curriculumVars => CurriculumInv'
BY NewStep, DeleteStep, RenumberStep, OtherSteps

\* Levels, tasks and submissions have their types, and the numbers their order,
\* in every state.
LEMMA CurriculumHolds == CurriculumSpec => []CurriculumInv
BY CurriculumBegins, CurriculumStep, PTL DEF CurriculumSpec

\* Levels are numbered in their order, with at most one gap for each death between the
\* two commits of a deletion (level_new, level_edit), for any number of levels.
THEOREM LevelsInARow == CurriculumSpec => []OneGapPerDeath
<1>1. CurriculumInv => OneGapPerDeath
  BY DEF CurriculumInv, Increasing, FewGaps, Owed, OneGapPerDeath
<1>2. QED BY <1>1, CurriculumHolds, PTL

\* A new submission does not take the place of another.
LEMMA OpenedBeside ==
    ASSUME CurriculumTypeOK, NEW t \in Tasks, OpenTask(t)
    PROVE  \A i \in Filled : subs'[i] = subs[i]
<1>1. Filled \subseteq 1..MaxSubs /\ MaxSubs \in Nat BY CurriculumBounds DEF Filled, SubIds
<1>2. PICK id \in SubIds :
        /\ id = IF Filled = {} THEN 1 ELSE Max(Filled) + 1
        /\ subs' = [subs EXCEPT ![id] = [task |-> t, state |-> "open", mark |-> "none"]]
  BY DEF OpenTask
<1>3. id \notin Filled
  <2>1. CASE Filled # {}
    <3>1. PICK m : m = Max(Filled) OBVIOUS
    <3>2. m \in Filled /\ \A n \in Filled : n <= m BY <1>1, <2>1, <3>1, LastOf
    <3>3. id = m + 1 BY <1>2, <2>1, <3>1
    <3>4. QED BY <1>1, <3>2, <3>3
  <2>2. QED BY <2>1
<1>4. QED BY <1>2, <1>3 DEF CurriculumTypeOK, Filled

\* A level that has been open closes only when levels or tasks are edited or a
\* submission is deleted (is_unlocked_for, is_completed_by).
THEOREM LevelsStayOpen == CurriculumSpec => OpenStays
<1>1. ASSUME CurriculumInv, CurriculumNext, UNCHANGED <<levels, task>>,
             \A i \in Filled : subs'[i] # NoSub
      PROVE  \A l \in Unlocked : IsUnlocked(l)'
  <2>1. /\ subs \in [SubIds -> Sub \cup {NoSub}]
        /\ task \in [Tasks -> {"active", "hidden", "gone"}]
    BY <1>1 DEF CurriculumInv, CurriculumTypeOK
  <2>2. \A i \in Filled : i \in SubIds /\ subs[i] \in Sub BY <2>1 DEF Filled
  <2>3. \A i \in Filled : subs'[i].task = subs[i].task
    <3>1. ASSUME NEW t \in Tasks, OpenTask(t) PROVE \A i \in Filled : subs'[i] = subs[i]
      BY <1>1, <3>1, OpenedBeside DEF CurriculumInv
    <3>2. ASSUME NEW t \in Tasks, TaskDelete(t) PROVE FALSE
      BY <1>1, <2>1, <3>2 DEF TaskDelete
    <3>3. ASSUME NEW i \in SubIds, SubmissionDelete(i) PROVE FALSE
      BY <1>1, <2>1, <3>3 DEF SubmissionDelete, Filled
    <3>4. ASSUME NEW i \in SubIds, NEW k \in {"none", "points", "passfail"},
                 CompleteTask(i) \/ SaveGrade(i, k)
          PROVE  \A j \in Filled : subs'[j].task = subs[j].task
      BY <2>1, <2>2, <3>4 DEF CompleteTask, SaveGrade, Sub
    <3>5. CASE UNCHANGED subs BY <3>5
    <3>6. QED
      BY <1>1, <3>1, <3>2, <3>3, <3>4, <3>5
      DEF CurriculumNext, LevelNew, Renumber, Suggested, Die, LevelDelete, LevelSave, SetTask,
          AskSuggestion
  <2>4. \A i \in Filled : i \in Filled' BY <1>1, <2>2 DEF Filled
  <2>5. \A t \in Submitted : t \in Submitted' BY <2>3, <2>4 DEF Submitted
  <2>6. Present' = Present /\ \A l : ActiveIn(l)' = ActiveIn(l)
    BY <1>1 DEF Present, ActiveIn
  <2>7. \A l : IsCompleted(l) => IsCompleted(l)' BY <2>5, <2>6 DEF IsCompleted
  <2>8. QED BY <1>1, <2>6, <2>7 DEF Unlocked, IsUnlocked
<1>2. ASSUME CurriculumInv, UNCHANGED curriculumVars PROVE \A l \in Unlocked : IsUnlocked(l)'
  BY <1>2 DEF curriculumVars, Unlocked, IsUnlocked, Present, IsCompleted, ActiveIn, Submitted, Filled
<1>3. CurriculumInv /\ [CurriculumNext]_curriculumVars
        => [UNCHANGED <<levels, task>> /\ (\A i \in Filled : subs'[i] # NoSub)
              => \A l \in Unlocked : IsUnlocked(l)']_curriculumVars
  BY <1>1, <1>2
<1>4. QED BY <1>3, CurriculumHolds, PTL DEF CurriculumSpec, OpenStays
=============================================================================
