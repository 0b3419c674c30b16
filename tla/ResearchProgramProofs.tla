------------------------- MODULE ResearchProgramProofs -------------------------
(***************************************************************************)
(* For all finite sets of users and conditions: whoever is in a condition  *)
(* works with its agent, the conditions stay balanced, and a participant   *)
(* who is removed takes his rows with him.                                 *)
(*                                                                         *)
(* Served and balanced both rest on the ids: a condition that is replaced  *)
(* lets go of its participants, and one that is there is never mistaken    *)
(* for the one whose id it got.                                            *)
(***************************************************************************)
EXTENDS ResearchProgram, FiniteSetTheorems, WellFoundedInduction, TLAPS

Placements ==
    \A u \in Users : rp[u].cond # NoCond =>
        /\ rp[u].in
        /\ rp[u].cond \in LiveConditions
        /\ rp[u].agent \in {NullAgent, conds[rp[u].cond]}

RInv ==
    /\ conds \in [CondIds -> Agents \cup {NullAgent, Gone}]
    /\ rp \in [Users -> Participant]
    /\ removed \in Nat
    /\ ~prog.there => \A u \in Users : rp[u].cond = NoCond /\ ~rp[u].in
    /\ Placements
    /\ Balanced

\* Every user has a row for every study, if only that of a stranger.
SubRowsThere == DOMAIN sp = Users

In(c) == {u \in Users : rp[u].in /\ rp[u].cond = c}

-----------------------------------------------------------------------------
\* The population of a condition is a number.
LEMMA MembersType == \A c : IsFiniteSet(In(c)) /\ Members(c) \in Nat /\ Members(c) = Cardinality(In(c))
<1>1. \A c : In(c) \in SUBSET Users
  BY DEF In
<1>2. \A c : IsFiniteSet(In(c))
  BY <1>1, FS_Subset, UsersAssumption
<1>3. \A c : Cardinality(In(c)) \in Nat
  BY <1>2, FS_CardinalityType
<1> QED BY <1>2, <1>3 DEF Members, In

\* A set of numbers has a least one.
LEMMA LeastOf ==
    ASSUME NEW T \in SUBSET Nat, T # {}
    PROVE  \E m \in T : \A n \in T : m <= n
<1>1. \E m \in T : \A n \in T : ~ (<<n, m>> \in OpToRel(<, Nat))
  BY NatLessThanWellFounded, WFMin
<1>2. \A m, n \in T : ~ (<<n, m>> \in OpToRel(<, Nat)) => m <= n
  BY DEF OpToRel
<1> QED BY <1>1, <1>2

\* assign_condition has a condition to choose as soon as there is one, and none
\* has fewer participants than the one it chooses.
LEMMA Placing ==
    /\ Placed # NoCond => Placed \in LiveConditions /\ \A d \in LiveConditions : Members(Placed) <= Members(d)
    /\ Placed = NoCond \/ Placed \in CondIds
<1>1. CASE ~prog.between \/ LiveConditions = {}
  BY <1>1 DEF Placed
<1>2. CASE ~(~prog.between \/ LiveConditions = {})
  <2> DEFINE Sizes == {n \in Nat : \E c \in LiveConditions : Members(c) = n}
             Least(m) == {n \in Nat : n \in LiveConditions /\ Members(n) = m}
             First(c) == \A d \in LiveConditions :
                            Members(c) < Members(d) \/ (Members(c) = Members(d) /\ c <= d)
  <2>1. PICK m \in Sizes : \A n \in Sizes : m <= n
    <3>1. Sizes \in SUBSET Nat /\ Sizes # {}
      BY <1>2, MembersType
    <3> QED BY <3>1, LeastOf
  <2>2. LiveConditions \subseteq Nat /\ LiveConditions \subseteq CondIds
    BY CondIdsAssumption DEF LiveConditions
  <2>3. PICK c \in Least(m) : \A d \in Least(m) : c <= d
    <3>1. Least(m) \in SUBSET Nat /\ Least(m) # {}
      BY <2>1, <2>2
    <3> QED BY <3>1, LeastOf
  <2>4. c \in LiveConditions /\ First(c)
    <3> SUFFICES ASSUME NEW d \in LiveConditions
                 PROVE  Members(c) < Members(d) \/ (Members(c) = Members(d) /\ c <= d)
      BY <2>3
    <3>1. Members(c) = m /\ m \in Nat /\ Members(d) \in Nat /\ Members(d) \in Sizes
      BY <2>1, <2>3, MembersType
    <3>2. m <= Members(d)
      BY <2>1, <3>1
    <3>3. CASE Members(d) = m
      BY <2>2, <2>3, <3>1, <3>3
    <3>4. CASE Members(d) # m
      BY <3>1, <3>2, <3>4
    <3> QED BY <3>3, <3>4
  <2>5. Placed = CHOOSE x \in LiveConditions : First(x)
    BY <1>2 DEF Placed
  <2> HIDE DEF First
  <2>6. Placed \in LiveConditions /\ First(Placed)
    BY <2>4, <2>5
  <2>7. \A d \in LiveConditions : Members(Placed) <= Members(d)
    BY <2>6, MembersType DEF First
  <2> QED BY <2>2, <2>6, <2>7
<1> QED BY <1>1, <1>2

\* Rows that stay in their conditions leave the populations alone.
LEMMA SameMembers ==
    ASSUME \A u \in Users : rp'[u].in = rp[u].in /\ rp'[u].cond = rp[u].cond
    PROVE  \A c : Members(c)' = Members(c)
<1>1. \A c : {u \in Users : rp'[u].in /\ rp'[u].cond = c} = {u \in Users : rp[u].in /\ rp[u].cond = c}
  OBVIOUS
<1> QED BY <1>1 DEF Members

\* So do rows that change nothing but their flag or their agent, as long as the
\* agent of a row in a condition is the condition's or none.
LEMMA SameConditions ==
    ASSUME RInv, UNCHANGED <<conds, removed>>,
           rp' \in [Users -> Participant], prog.there => prog'.there,
           \A u \in Users : /\ rp'[u].in = rp[u].in /\ rp'[u].cond = rp[u].cond
                            /\ rp'[u].agent = rp[u].agent
    PROVE  RInv'
<1>1. Balanced'
  <2>1. \A c, d \in LiveConditions : Members(c)' - Members(d)' <= 1 + removed
    BY SameMembers DEF RInv, Balanced
  <2>2. LiveConditions' = LiveConditions
    BY DEF LiveConditions
  <2> QED BY <2>1, <2>2 DEF Balanced
<1>2. Placements'
  BY DEF RInv, Placements, LiveConditions
<1> QED BY <1>1, <1>2 DEF RInv

\* Whoever enrolls or is added makes the least populated condition one larger, so
\* the conditions stay balanced (research_enroll, research_participant_add).
LEMMA Joining ==
    ASSUME RInv, NEW u \in Users, ~rp[u].in, prog.there, UNCHANGED <<prog, conds, removed>>,
           rp' \in [Users -> Participant],
           NEW p, p = Placed,
           rp'[u].in, rp'[u].cond = p,
           \A v \in Users \ {u} : rp'[v] = rp[v],
           p # NoCond => rp'[u].agent \in {NullAgent, conds[p]}
    PROVE  RInv'
<1>1. \A c : Members(c)' = Cardinality({v \in Users : rp'[v].in /\ rp'[v].cond = c})
  BY DEF Members
<1>2. \A c \in CondIds \ {p} : Members(c)' = Members(c)
  <2> SUFFICES ASSUME NEW c \in CondIds \ {p} PROVE Members(c)' = Members(c)
    OBVIOUS
  <2>1. {v \in Users : rp'[v].in /\ rp'[v].cond = c} = In(c)
    BY DEF In
  <2> QED BY <1>1, <2>1, MembersType
<1>3. Members(p)' = Members(p) + 1
  <2>1. {v \in Users : rp'[v].in /\ rp'[v].cond = p} = In(p) \cup {u} /\ u \notin In(p)
    BY DEF In
  <2>2. Cardinality(In(p) \cup {u}) = Cardinality(In(p)) + 1
    BY <2>1, MembersType, FS_AddElement
  <2> QED BY <1>1, <2>1, <2>2, MembersType
<1>4. LiveConditions' = LiveConditions /\ LiveConditions \subseteq CondIds
  BY DEF LiveConditions
<1>5. \A c, d \in LiveConditions : Members(c)' - Members(d)' <= 1 + removed
  <2> SUFFICES ASSUME NEW c \in LiveConditions, NEW d \in LiveConditions
               PROVE  Members(c)' - Members(d)' <= 1 + removed
    OBVIOUS
  <2>0. /\ Members(c) \in Nat /\ Members(d) \in Nat /\ removed \in Nat
        /\ Members(c) - Members(d) <= 1 + removed
        /\ Members(d) - Members(c) <= 1 + removed
    BY MembersType DEF RInv, Balanced
  <2>1. CASE c = d
    <3>1. Members(c)' = Members(c) \/ Members(c)' = Members(c) + 1
      BY <1>2, <1>3, <1>4
    <3> QED BY <2>0, <2>1, <3>1
  <2>2. CASE c # d /\ c = p
    <3>1. p # NoCond
      BY <2>2, <1>4, CondIdsAssumption DEF NoCond
    <3>2. Members(c) <= Members(d)
      BY <2>2, <3>1, Placing
    <3> QED BY <2>0, <2>2, <3>2, <1>2, <1>3, <1>4
  <2>3. CASE c # p
    <3>1. Members(c)' = Members(c) /\ (Members(d)' = Members(d) \/ Members(d)' = Members(d) + 1)
      BY <2>3, <1>2, <1>3, <1>4
    <3> QED BY <2>0, <3>1
  <2> QED BY <2>1, <2>2, <2>3
<1>6. Balanced'
  BY <1>4, <1>5 DEF Balanced
<1>7. Placements'
  <2> SUFFICES ASSUME NEW v \in Users, rp'[v].cond # NoCond
               PROVE  /\ rp'[v].in
                      /\ rp'[v].cond \in LiveConditions
                      /\ rp'[v].agent \in {NullAgent, conds[rp'[v].cond]}
    BY <1>4 DEF Placements
  <2>1. CASE v = u
    BY <2>1, Placing
  <2>2. CASE v # u
    BY <2>2 DEF RInv, Placements
  <2> QED BY <2>1, <2>2
<1> QED BY <1>6, <1>7 DEF RInv

\* With all conditions new or gone nobody is in one.
LEMMA Emptied ==
    ASSUME RInv, rp' \in [Users -> Participant], \A u \in Users : rp'[u].cond = NoCond,
           conds' \in [CondIds -> Agents \cup {NullAgent, Gone}], removed' = 0,
           ~prog'.there => \A u \in Users : ~rp'[u].in
    PROVE  RInv'
<1>1. \A c \in CondIds : Members(c)' = 0
  <2> SUFFICES ASSUME NEW c \in CondIds PROVE Members(c)' = 0
    OBVIOUS
  <2>1. {v \in Users : rp'[v].in /\ rp'[v].cond = c} = {}
    BY CondIdsAssumption DEF NoCond
  <2> QED BY <2>1, FS_EmptySet DEF Members
<1>2. LiveConditions' \subseteq CondIds
  BY DEF LiveConditions
<1>3. Balanced'
  BY <1>1, <1>2 DEF Balanced
<1> QED BY <1>3 DEF RInv, Placements

-----------------------------------------------------------------------------
\* A participant's row with one column replaced is one.
LEMMA ParticipantRows ==
    /\ Outside \in Participant /\ ~Outside.in /\ Outside.cond = NoCond
    /\ \A r \in Participant :
          /\ \A d \in BOOLEAN : /\ [r EXCEPT !.dropped = d] \in Participant
                                /\ [r EXCEPT !.dropped = d].in = r.in
                                /\ [r EXCEPT !.dropped = d].cond = r.cond
                                /\ [r EXCEPT !.dropped = d].agent = r.agent
          /\ [r EXCEPT !.cond = NoCond] \in Participant
          /\ [r EXCEPT !.cond = NoCond].cond = NoCond
          /\ [r EXCEPT !.cond = NoCond].in = r.in
          /\ [r EXCEPT !.agent = NullAgent] \in Participant
          /\ [r EXCEPT !.agent = NullAgent].in = r.in
          /\ [r EXCEPT !.agent = NullAgent].cond = r.cond
          /\ [r EXCEPT !.agent = NullAgent].agent = NullAgent
BY DEF Participant, Outside

\* The invariant holds in the beginning.
LEMMA InitRInv == ProgrammeInit => RInv
<1> SUFFICES ASSUME ProgrammeInit PROVE RInv
  OBVIOUS
<1>1. rp \in [Users -> Participant] /\ \A u \in Users : rp[u].cond = NoCond /\ ~rp[u].in
  BY ParticipantRows DEF ProgrammeInit
<1>2. \A c \in CondIds : {v \in Users : rp[v].in /\ rp[v].cond = c} = {}
  BY <1>1
<1>3. \A c \in CondIds : Members(c) = 0
  BY <1>2, FS_EmptySet DEF Members
<1>4. LiveConditions \subseteq CondIds
  BY DEF LiveConditions
<1>5. removed = 0 /\ conds \in [CondIds -> Agents \cup {NullAgent, Gone}]
  BY DEF ProgrammeInit, NoConditions
<1>6. Balanced
  BY <1>3, <1>4, <1>5 DEF Balanced
<1> QED BY <1>1, <1>5, <1>6 DEF RInv, Placements

\* Every step of the administrator preserves it.
LEMMA AdministrateStep == RInv /\ Administrate => RInv'
<1> SUFFICES ASSUME RInv, Administrate PROVE RInv'
  OBVIOUS
<1>0. /\ conds \in [CondIds -> Agents \cup {NullAgent, Gone}]
      /\ rp \in [Users -> Participant] /\ removed \in Nat
  BY DEF RInv
<1>1. ASSUME NEW p \in Posted, Edit(p) PROVE RInv'
  BY <1>0, <1>1, SameConditions DEF Edit, Posted
<1>2. ASSUME NEW p \in Posted, NEW cs \in Conditions, Create(p, cs) PROVE RInv'
  <2>1. \A u \in Users : rp[u].cond = NoCond
    BY <1>2 DEF Create, RInv
  <2> QED BY <1>0, <1>2, <2>1, Emptied DEF Create, Posted, Conditions
<1>3. ASSUME NEW p \in Posted, NEW cs \in Conditions, EditConditions(p, cs) PROVE RInv'
  <2>1. rp' \in [Users -> Participant] /\ \A u \in Users : rp'[u].cond = NoCond
    BY <1>0, <1>3, ParticipantRows DEF EditConditions, ForgetCondition
  <2> QED BY <1>0, <1>3, <2>1, Emptied DEF EditConditions, Posted, Conditions
<1>4. CASE Delete
  <2>1. /\ rp' \in [Users -> Participant]
        /\ \A u \in Users : rp'[u].cond = NoCond /\ ~rp'[u].in
    BY <1>4, ParticipantRows DEF Delete
  <2> QED BY <1>0, <1>4, <2>1, Emptied DEF Delete, NoConditions
<1>5. ASSUME NEW u \in Users, AddParticipant(u) PROVE RInv'
  <2> DEFINE row == [Outside EXCEPT !.in = TRUE, !.cond = Placed]
  <2>1. row \in Participant /\ row.in /\ row.cond = Placed /\ row.agent = NullAgent
    BY Placing DEF Outside, Participant
  <2>2. rp' = [rp EXCEPT ![u] = row]
    BY <1>5 DEF AddParticipant
  <2> HIDE DEF row
  <2>3. rp' \in [Users -> Participant] /\ rp'[u] = row /\ \A v \in Users \ {u} : rp'[v] = rp[v]
    BY <1>0, <2>1, <2>2
  <2> QED BY <1>5, <2>1, <2>3, Joining DEF AddParticipant
<1>6. ASSUME NEW u \in Users, RemoveParticipant(u) PROVE RInv'
  <2>1. /\ rp' \in [Users -> Participant]
        /\ rp'[u] = Outside /\ \A v \in Users \ {u} : rp'[v] = rp[v]
        /\ UNCHANGED <<prog, conds>> /\ removed' = removed + 1 /\ prog.there
    BY <1>0, <1>6, ParticipantRows DEF RemoveParticipant
  <2>2. \A c \in CondIds : Members(c)' \in {Members(c), Members(c) - 1}
    <3> SUFFICES ASSUME NEW c \in CondIds PROVE Members(c)' \in {Members(c), Members(c) - 1}
      OBVIOUS
    <3>1. {v \in Users : rp'[v].in /\ rp'[v].cond = c} = In(c) \ {u}
      BY <2>1, ParticipantRows DEF In
    <3>2. Cardinality(In(c) \ {u}) \in {Cardinality(In(c)), Cardinality(In(c)) - 1}
      BY MembersType, FS_RemoveElement
    <3> QED BY <3>1, <3>2, MembersType DEF Members
  <2>3. LiveConditions' = LiveConditions /\ LiveConditions \subseteq CondIds
    BY <2>1 DEF LiveConditions
  <2>4. \A c, d \in LiveConditions : Members(c)' - Members(d)' <= 1 + (removed + 1)
    <3> SUFFICES ASSUME NEW c \in LiveConditions, NEW d \in LiveConditions
                 PROVE  Members(c)' - Members(d)' <= 1 + (removed + 1)
      OBVIOUS
    <3>1. /\ Members(c) \in Nat /\ Members(d) \in Nat
          /\ Members(c) - Members(d) <= 1 + removed
      BY MembersType DEF RInv, Balanced
    <3> QED BY <1>0, <2>2, <2>3, <3>1
  <2>5. Balanced'
    BY <2>1, <2>3, <2>4 DEF Balanced
  <2>6. Placements'
    BY <2>1, <2>3, ParticipantRows DEF RInv, Placements
  <2> QED BY <1>0, <2>1, <2>5, <2>6 DEF RInv
<1>7. ASSUME NEW u \in Users, Exclude(u) \/ Reinstate(u) PROVE RInv'
  <2>1. PICK d \in BOOLEAN : rp' = [rp EXCEPT ![u] = [rp[u] EXCEPT !.dropped = d]]
    BY <1>0, <1>7 DEF Exclude, Reinstate
  <2> DEFINE row == [rp[u] EXCEPT !.dropped = d]
  <2>r. row \in Participant /\ row.in = rp[u].in /\ row.cond = rp[u].cond /\ row.agent = rp[u].agent
    BY <1>0, ParticipantRows
  <2>s. rp' = [rp EXCEPT ![u] = row]
    BY <2>1
  <2> HIDE DEF row
  <2>2. /\ rp' \in [Users -> Participant]
        /\ \A v \in Users : /\ rp'[v].in = rp[v].in /\ rp'[v].cond = rp[v].cond
                            /\ rp'[v].agent = rp[v].agent
    BY <1>0, <2>r, <2>s
  <2> QED BY <1>7, <2>2, SameConditions DEF Exclude, Reinstate
<1>8. ASSUME NEW a \in Agents, DeleteAgent(a) PROVE RInv'
  <2>1. /\ rp' \in [Users -> Participant]
        /\ \A u \in Users : /\ rp'[u].in = rp[u].in /\ rp'[u].cond = rp[u].cond
                            /\ rp'[u].agent = IF rp[u].agent = a THEN NullAgent ELSE rp[u].agent
    <3> DEFINE row(u) == [rp[u] EXCEPT !.agent = NullAgent]
    <3>1. \A u \in Users : /\ row(u) \in Participant /\ row(u).in = rp[u].in
                           /\ row(u).cond = rp[u].cond /\ row(u).agent = NullAgent
      BY <1>0, ParticipantRows
    <3>2. rp' = [u \in Users |-> IF rp[u].agent = a THEN row(u) ELSE rp[u]]
      BY <1>8 DEF DeleteAgent
    <3> HIDE DEF row
    <3> QED BY <1>0, <3>1, <3>2
  <2>2. /\ conds' \in [CondIds -> Agents \cup {NullAgent, Gone}]
        /\ \A c \in CondIds : conds'[c] = IF conds[c] = a THEN NullAgent ELSE conds[c]
        /\ LiveConditions' = LiveConditions
    BY <1>0, <1>8, NullAssumption DEF DeleteAgent, LiveConditions
  <2>3. Balanced'
    <3>1. \A c, d \in LiveConditions : Members(c)' - Members(d)' <= 1 + removed'
      BY <1>8, <2>1, SameMembers DEF RInv, Balanced, DeleteAgent
    <3> QED BY <2>2, <3>1 DEF Balanced
  <2>4. Placements'
    BY <2>1, <2>2 DEF RInv, Placements, LiveConditions
  <2> QED BY <1>8, <2>1, <2>2, <2>3, <2>4 DEF RInv, DeleteAgent
<1>9. ASSUME UNCHANGED <<prog, conds, rp, removed>> PROVE RInv'
  BY <1>0, <1>9, SameConditions
<1> QED BY <1>1, <1>2, <1>3, <1>4, <1>5, <1>6, <1>7, <1>8, <1>9 DEF Administrate, EditStudy, AddToStudy

\* Every step of a participant preserves it.
LEMMA TakePartStep == ASSUME NEW u \in Users, RInv, TakePart(u) PROVE RInv'
<1>0. conds \in [CondIds -> Agents \cup {NullAgent, Gone}] /\ rp \in [Users -> Participant]
  BY DEF RInv
<1>1. CASE Enroll(u)
  <2> DEFINE row == [in |-> TRUE, dropped |-> FALSE, cond |-> Placed,
                     agent |-> IF Placed = NoCond THEN NullAgent ELSE conds[Placed]]
  <2>1. Placed # NoCond => conds[Placed] \in Agents \cup {NullAgent}
    BY <1>0, Placing DEF LiveConditions
  <2>2. /\ row \in Participant /\ row.in /\ row.cond = Placed
        /\ Placed # NoCond => row.agent = conds[Placed]
    BY <2>1, Placing DEF Participant
  <2>3. rp' = [rp EXCEPT ![u] = row]
    BY <1>1 DEF Enroll
  <2> HIDE DEF row
  <2>4. rp' \in [Users -> Participant] /\ rp'[u] = row /\ \A v \in Users \ {u} : rp'[v] = rp[v]
    BY <1>0, <2>2, <2>3
  <2> QED BY <1>1, <2>2, <2>4, Joining DEF Enroll
<1>2. ASSUME UNCHANGED <<prog, conds, rp, removed>> PROVE RInv'
  BY <1>0, <1>2, SameConditions DEF RInv
<1> QED BY <1>1, <1>2 DEF TakePart, Start, OpenTaskStep, EnrollInStudy, Leave, ChooseAgent

\* Every step does.
LEMMA NextRInv == RInv /\ [ProgrammeNext]_programmeVars => RInv'
<1> SUFFICES ASSUME RInv, [ProgrammeNext]_programmeVars PROVE RInv'
  OBVIOUS
<1>1. CASE UNCHANGED programmeVars
  BY <1>1, SameConditions DEF programmeVars, RInv
<1> QED BY <1>1, AdministrateStep, TakePartStep DEF ProgrammeNext

\* RInv holds in every state.
LEMMA RInvariant == ProgrammeSpec => []RInv
BY InitRInv, NextRInv, PTL DEF ProgrammeSpec

\* No step adds or drops a user.
LEMMA SubRowsInvariant == ProgrammeSpec => []SubRowsThere
<1>1. ProgrammeInit => SubRowsThere
  BY DEF ProgrammeInit, SubRowsThere
<1>2. SubRowsThere /\ [ProgrammeNext]_programmeVars => SubRowsThere'
  BY DEF SubRowsThere, ProgrammeNext, programmeVars, Administrate, Edit, Create, EditConditions, Delete,
         AddParticipant, RemoveParticipant, DropSubRows, Exclude, Reinstate, AddToStudy, EditStudy,
         DeleteAgent, TakePart, Enroll, Start, OpenTaskStep, EnrollInStudy, Leave, ChooseAgent
<1> QED BY <1>1, <1>2, PTL DEF ProgrammeSpec

-----------------------------------------------------------------------------
\* For all users and conditions: whoever is in a condition works with that
\* condition's agent, or without AI where it has none (task_step).
THEOREM ConditionServes == ProgrammeSpec => []ServedByCondition
<1>1. RInv => ServedByCondition
  BY DEF RInv, Placements, ServedByCondition, Served
<1> QED BY <1>1, RInvariant, PTL

\* For all users and conditions: two conditions never differ by more than one
\* participant and those removed since the conditions were saved
\* (assign_condition).
THEOREM ConditionsBalance == ProgrammeSpec => []Balanced
<1>1. RInv => Balanced
  BY DEF RInv
<1> QED BY <1>1, RInvariant, PTL

\* A participant who is removed from the programme loses his rows in its studies
\* (research_participant_remove).
THEOREM RemovalIsComplete == ProgrammeSpec => RemovedForGood
<1> DEFINE Cleared == \A u \in Users : rp[u].in /\ ~rp'[u].in /\ prog'.there =>
                         \A s \in Studies : study[s].sub => sp'[u][s] = NoSubRow
<1>1. RInv /\ SubRowsThere /\ [ProgrammeNext]_programmeVars => [Cleared]_programmeVars
  <2> SUFFICES ASSUME RInv, SubRowsThere, ProgrammeNext, NEW u \in Users, rp[u].in, ~rp'[u].in, prog'.there,
                      NEW s \in Studies, study[s].sub
               PROVE  sp'[u][s] = NoSubRow
    OBVIOUS
  <2>0. rp \in [Users -> Participant] /\ DOMAIN sp = Users
    BY DEF RInv, SubRowsThere
  <2>1. ASSUME NEW v \in Users, RemoveParticipant(v) PROVE sp'[u][s] = NoSubRow
    <3>1. v = u
      BY <2>0, <2>1 DEF RemoveParticipant
    <3>2. sp' = [sp EXCEPT ![u] = [t \in Studies |-> IF study[t].sub THEN NoSubRow ELSE sp[u][t]]]
      BY <2>1, <3>1 DEF RemoveParticipant, DropSubRows
    <3>3. sp'[u] = [t \in Studies |-> IF study[t].sub THEN NoSubRow ELSE sp[u][t]]
      BY <2>0, <3>2
    <3> QED BY <3>3
  <2>2. CASE Delete
    BY <2>2 DEF Delete, NoProgram
  <2>3. ASSUME rp' = rp PROVE FALSE
    BY <2>3
  <2>4. ASSUME NEW p \in Posted, NEW cs \in Conditions, EditConditions(p, cs) PROVE FALSE
    <3>1. [rp[u] EXCEPT !.cond = NoCond].in = rp[u].in
      BY <2>0, ParticipantRows
    <3>2. rp'[u] = [rp[u] EXCEPT !.cond = NoCond]
      BY <2>4 DEF EditConditions, ForgetCondition
    <3> QED BY <3>1, <3>2
  <2>5. ASSUME NEW v \in Users, AddParticipant(v) PROVE FALSE
    <3>1. [Outside EXCEPT !.in = TRUE, !.cond = Placed].in
      BY DEF Outside
    <3> QED BY <2>0, <2>5, <3>1 DEF AddParticipant
  <2>6. ASSUME NEW v \in Users, Exclude(v) \/ Reinstate(v) PROVE FALSE
    <3>1. PICK d \in BOOLEAN : rp' = [rp EXCEPT ![v] = [rp[v] EXCEPT !.dropped = d]]
      BY <2>0, <2>6 DEF Exclude, Reinstate
    <3>2. [rp[v] EXCEPT !.dropped = d].in = rp[v].in
      BY <2>0, ParticipantRows
    <3> QED BY <2>0, <3>1, <3>2
  <2>7. ASSUME NEW a \in Agents, DeleteAgent(a) PROVE FALSE
    <3>1. [rp[u] EXCEPT !.agent = NullAgent].in = rp[u].in
      BY <2>0, ParticipantRows
    <3>2. rp'[u] = IF rp[u].agent = a THEN [rp[u] EXCEPT !.agent = NullAgent] ELSE rp[u]
      BY <2>7 DEF DeleteAgent
    <3> QED BY <3>1, <3>2
  <2>8. ASSUME NEW v \in Users, Enroll(v) PROVE FALSE
    <3>1. \A w \in Users : rp'[w].in = (w = v \/ rp[w].in)
      BY <2>0, <2>8 DEF Enroll
    <3> QED BY <3>1
  <2>9. CASE Administrate
    BY <2>1, <2>2, <2>3, <2>4, <2>5, <2>6, <2>7, <2>9
       DEF Administrate, Edit, Create, AddToStudy, EditStudy
  <2>10. ASSUME NEW v \in Users, TakePart(v) PROVE FALSE
    BY <2>3, <2>8, <2>10 DEF TakePart, Start, OpenTaskStep, EnrollInStudy, ChooseAgent, Leave
  <2> QED BY <2>9, <2>10 DEF ProgrammeNext
<1>2. ProgrammeSpec => [][Cleared]_programmeVars
  BY RInvariant, SubRowsInvariant, <1>1, PTL DEF ProgrammeSpec
<1> QED BY <1>2 DEF RemovedForGood
=============================================================================
