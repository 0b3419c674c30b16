----------------------------- MODULE AccountsProofs -----------------------------
(***************************************************************************)
(* For all sets of addresses and browsers: no account inherits a           *)
(* confirmation or a cohort, and no step but the factory reset takes the   *)
(* last administrator away.                                                *)
(*                                                                         *)
(* Confirmations and memberships are held by number or address and outlive *)
(* the account they were made for; that they never reach another rests on  *)
(* members barring their user's deletion and on a new user's id being      *)
(* free.                                                                   *)
(***************************************************************************)
EXTENDS Accounts, FiniteSetTheorems, WellFoundedInduction, TLAPS

CInv ==
    /\ users \in [Ids -> User \cup {Nobody}]
    /\ members \subseteq [user : Ids, since : 1..MaxBorn]
    /\ born \in Nat
    /\ VerifiedIsHonest
    /\ MembersAreUsers

-----------------------------------------------------------------------------
\* A user is not mistaken for a missing one.
LEMMA UsersAreUsers == \A u \in User : u # Nobody /\ u.addr # NoAddr
BY AddressAssumption DEF User, Nobody

\* A set of numbers has a least one.
LEMMA LeastOf ==
    ASSUME NEW T \in SUBSET Nat, T # {}
    PROVE  \E m \in T : \A n \in T : m <= n
<1>1. \E m \in T : \A n \in T : ~ (<<n, m>> \in OpToRel(<, Nat))
  BY NatLessThanWellFounded, WFMin
<1>2. \A m, n \in T : ~ (<<n, m>> \in OpToRel(<, Nat)) => m <= n
  BY DEF OpToRel
<1> QED BY <1>1, <1>2

\* A set of ids has a highest.
LEMMA Highest ==
    ASSUME NEW T \in SUBSET Ids, T # {}
    PROVE  Max(T) \in T /\ \A n \in T : Max(T) >= n
<1> DEFINE Below == {n \in 0..MaxId : MaxId - n \in T}
<1>1. Below \subseteq Nat /\ Below # {}
  <2>1. PICK t \in T : TRUE
    OBVIOUS
  <2>2. MaxId - t \in 0..MaxId /\ MaxId - (MaxId - t) = t
    BY UserBounds DEF Ids
  <2>3. MaxId - t \in Below
    BY <2>2
  <2> QED BY <2>3
<1>2. PICK m \in Below : \A n \in Below : m <= n
  BY <1>1, LeastOf
<1>4. MaxId - m \in T /\ \A n \in T : MaxId - m >= n
  <2> SUFFICES ASSUME NEW n \in T PROVE MaxId - m >= n
    BY <1>2
  <2>1. MaxId - n \in 0..MaxId /\ MaxId - (MaxId - n) = n
    BY UserBounds DEF Ids
  <2>2. m <= MaxId - n
    BY <1>2, <2>1
  <2> QED BY <2>1, <2>2, UserBounds DEF Ids
<1> HIDE DEF Below
<1> QED BY <1>4 DEF Max

\* The id of a new user is nobody's.
LEMMA FreshId == NewId \in Ids => NewId \notin Exist
<1>1. Exist \in SUBSET Ids
  BY DEF Exist
<1>2. CASE Exist = {}
  BY <1>2
<1>3. CASE Exist # {}
  <2>1. NewId = Max(Exist) + 1 /\ Max(Exist) \in Ids /\ \A n \in Exist : Max(Exist) >= n
    BY <1>1, <1>3, Highest DEF NewId
  <2> QED BY <2>1 DEF Ids
<1> QED BY <1>2, <1>3

-----------------------------------------------------------------------------
\* Columns that can change without a trace in the invariant.
Same(u, v) == u.addr = v.addr /\ u.since = v.since
              /\ u.verified = v.verified /\ u.vouched = v.vouched

\* What the invariant asks of the users, for a step that leaves the members alone
\* and every user his number.
LEMMA UsersChange ==
    ASSUME CInv, UNCHANGED members, born' \in Nat,
           users' \in [Ids -> User \cup {Nobody}],
           proved \subseteq proved',
           \A i \in Exist : users'[i] # Nobody /\ users'[i].since = users[i].since,
           \A i \in Exist' : \/ i \in Exist /\ Same(users'[i], users[i])
                             \/ users'[i].verified => users'[i].vouched \/ users'[i].addr \in proved'
    PROVE  CInv'
<1>1. VerifiedIsHonest'
  <2> SUFFICES ASSUME NEW i \in Exist', users'[i].verified
               PROVE  users'[i].vouched \/ users'[i].addr \in proved'
    BY DEF VerifiedIsHonest
  <2>1. CASE i \in Exist /\ Same(users'[i], users[i])
    BY <2>1 DEF CInv, VerifiedIsHonest, Same
  <2> QED BY <2>1
<1>2. MembersAreUsers'
  BY DEF CInv, MembersAreUsers, Exist
<1> QED BY <1>1, <1>2 DEF CInv

\* A new user has the next number and is vouched for if he counts as verified.
LEMMA Inserted ==
    ASSUME CInv, NEW a \in Addresses, NEW r \in Roles, NEW ok \in BOOLEAN, Insert(Account(a, r, ok)),
           UNCHANGED members, proved \subseteq proved'
    PROVE  CInv'
<1> DEFINE u == Account(a, r, ok)
<1>1. u \in User /\ (u.verified => u.vouched)
  <2>1. born + 1 \in 1..MaxBorn
    BY UserBounds DEF CInv, Insert
  <2> QED BY <2>1 DEF Account, User, Roles
<1>2. users' = [users EXCEPT ![NewId] = u] /\ NewId \in Ids /\ NewId \notin Exist /\ born' = born + 1
  BY FreshId DEF Insert
<1> HIDE DEF u
<1>3. /\ users' \in [Ids -> User \cup {Nobody}]
      /\ users'[NewId] = u /\ \A i \in Ids \ {NewId} : users'[i] = users[i]
  BY <1>1, <1>2 DEF CInv
<1>4. \A i \in Exist : users'[i] = users[i]
  BY <1>2, <1>3 DEF Exist
<1>5. \A i \in Exist' : i = NewId \/ (i \in Exist /\ users'[i] = users[i])
  BY <1>3 DEF Exist
<1> QED BY <1>1, <1>2, <1>3, <1>4, <1>5, UsersChange DEF CInv, Exist, Same

\* A row with columns replaced is one.
LEMMA UserRows ==
    ASSUME NEW u \in User
    PROVE  /\ \A d \in BOOLEAN : [u EXCEPT !.active = d] \in User /\ Same([u EXCEPT !.active = d], u)
           /\ \A d \in BOOLEAN : [u EXCEPT !.locked = d] \in User /\ Same([u EXCEPT !.locked = d], u)
           /\ \A r \in Roles : [u EXCEPT !.role = r] \in User /\ Same([u EXCEPT !.role = r], u)
           /\ \A d, e \in BOOLEAN : /\ [u EXCEPT !.verified = d, !.vouched = e] \in User
                                    /\ [u EXCEPT !.verified = d, !.vouched = e].verified = d
                                    /\ [u EXCEPT !.verified = d, !.vouched = e].vouched = e
                                    /\ [u EXCEPT !.verified = d, !.vouched = e].since = u.since
           /\ /\ [u EXCEPT !.verified = TRUE] \in User
              /\ [u EXCEPT !.verified = TRUE].addr = u.addr
              /\ [u EXCEPT !.verified = TRUE].since = u.since
BY DEF User, Same

\* So is one with another address (profile_edit).
Readdressed(u, a, d, e) == [u EXCEPT !.addr = a, !.vouched = e, !.verified = d]

\* An account whose address changes is an account, and changes nothing else.
LEMMA ReaddressedType ==
    ASSUME NEW u \in User, NEW a \in Addresses, NEW d \in BOOLEAN, NEW e \in BOOLEAN
    PROVE  /\ Readdressed(u, a, d, e) \in User
           /\ Readdressed(u, a, d, e).verified = d
           /\ Readdressed(u, a, d, e).vouched = e
           /\ Readdressed(u, a, d, e).since = u.since
BY DEF User, Readdressed

\* Of one user's row replaced.
LEMMA OneRow ==
    ASSUME CInv, UNCHANGED <<members, born>>, proved \subseteq proved',
           NEW i \in Exist, NEW u \in User, users' = [users EXCEPT ![i] = u], u.since = users[i].since,
           Same(u, users[i]) \/ (u.verified => u.vouched)
    PROVE  CInv'
<1>1. i \in Ids /\ users' \in [Ids -> User \cup {Nobody}]
      /\ users'[i] = u /\ \A j \in Ids \ {i} : users'[j] = users[j]
  BY DEF CInv, Exist
<1>2. \A j \in Exist : users'[j] # Nobody /\ users'[j].since = users[j].since
  BY <1>1, UsersAreUsers DEF Exist
<1>3. \A j \in Exist' : j = i \/ (j \in Exist /\ users'[j] = users[j])
  BY <1>1 DEF Exist
<1> QED BY <1>1, <1>2, <1>3, UsersChange DEF CInv, Same

\* Users whom no cohort names can go.
LEMMA Removing ==
    ASSUME CInv, UNCHANGED <<members, born, proved>>, NEW S \in SUBSET Exist, Removed(S),
           \A i \in S : Free(i)
    PROVE  CInv'
<1>1. /\ users' \in [Ids -> User \cup {Nobody}]
      /\ \A i \in Ids : users'[i] = IF i \in S THEN Nobody ELSE users[i]
  BY DEF CInv, Removed
<1>2. VerifiedIsHonest'
  BY <1>1 DEF CInv, VerifiedIsHonest, Exist
<1>3. MembersAreUsers'
  <2> SUFFICES ASSUME NEW m \in members PROVE m.user \in Exist' /\ users'[m.user].since = m.since
    BY DEF MembersAreUsers
  <2>1. m.user \in Exist /\ users[m.user].since = m.since /\ m.user \notin S
    BY DEF CInv, MembersAreUsers, Free
  <2> QED BY <1>1, <2>1 DEF Exist
<1> QED BY <1>1, <1>2, <1>3 DEF CInv

\* The invariant holds in the beginning.
LEMMA InitCInv == AccountsInit => CInv
BY DEF AccountsInit, CInv, VerifiedIsHonest, MembersAreUsers, Exist

\* Every step preserves it.
LEMMA NextCInv == CInv /\ [AccountsNext]_accountVars => CInv'
<1> SUFFICES ASSUME CInv, [AccountsNext]_accountVars PROVE CInv'
  OBVIOUS
<1>0. /\ users \in [Ids -> User \cup {Nobody}]
      /\ \A i \in Exist : i \in Ids /\ users[i] \in User
      /\ born \in Nat
  BY DEF CInv, Exist
<1>a. ASSUME UNCHANGED <<users, members, born>>, proved \subseteq proved'
      PROVE  CInv'
  BY <1>0, <1>a DEF CInv, VerifiedIsHonest, MembersAreUsers, Exist
<1>b. \A b \in Browsers : Signed(b) => tabs[b] \in Exist
  BY DEF Signed
<1>1. ASSUME NEW b \in Browsers, NEW a \in Addresses, Register(b, a) PROVE CInv'
  BY <1>0, <1>1, Inserted DEF Register, Roles
<1>2. ASSUME NEW b \in Browsers, NEW a \in Addresses, VerifyEmail(b, a) PROVE CInv'
  <2> DEFINE new(i) == [users[i] EXCEPT !.verified = TRUE]
  <2>1. \A i \in Exist : new(i) \in User /\ new(i).addr = users[i].addr /\ new(i).since = users[i].since
    BY <1>0, UserRows
  <2>2. /\ users' = [i \in Ids |-> IF users[i].addr = a THEN new(i) ELSE users[i]]
        /\ proved' = proved \cup {a} /\ UNCHANGED <<members, born>>
    BY <1>2 DEF VerifyEmail
  <2> HIDE DEF new
  <2>3. \A i \in Ids \ Exist : users[i] = Nobody /\ users[i].addr # a
    BY AddressAssumption DEF Exist, Nobody
  <2>4. /\ users' \in [Ids -> User \cup {Nobody}]
        /\ \A i \in Ids : users'[i] = IF users[i].addr = a THEN new(i) ELSE users[i]
    BY <1>0, <2>1, <2>2, <2>3
  <2>5. \A i \in Exist : users'[i] # Nobody /\ users'[i].since = users[i].since
    BY <1>0, <2>1, <2>4, UsersAreUsers DEF Exist
  <2>6. \A i \in Exist' : i \in Exist /\ (users'[i] = users[i] \/ users'[i].addr = a)
    BY <2>1, <2>3, <2>4 DEF Exist
  <2> QED BY <1>0, <2>2, <2>4, <2>5, <2>6, UsersChange DEF Same
<1>3. ASSUME NEW b \in Browsers, NEW a \in Addresses, ProfileEdit(b, a) PROVE CInv'
  <2> DEFINE i == tabs[b]
             d == users[i].verified /\ ~flags.verify
             e == ~flags.verify
  <2>1. i \in Exist /\ users[i] \in User
    BY <1>0, <1>b, <1>3 DEF ProfileEdit
  <2>2. d \in BOOLEAN /\ e \in BOOLEAN /\ (d => e)
    OBVIOUS
  <2> HIDE DEF d, e, i
  <2> DEFINE u == Readdressed(users[i], a, d, e)
  <2>3. u \in User /\ u.verified = d /\ u.vouched = e /\ u.since = users[i].since
    BY <2>1, <2>2, ReaddressedType
  <2>4. users' = [users EXCEPT ![i] = u] /\ UNCHANGED <<members, born, proved>>
    BY <1>3 DEF ProfileEdit, Readdressed, d, e, i
  <2> HIDE DEF u
  <2> QED BY <2>1, <2>2, <2>3, <2>4, OneRow
<1>4. ASSUME NEW a \in Addresses, CreateAdmin(a) PROVE CInv'
  BY <1>4, Inserted DEF CreateAdmin, Roles
<1>5. ASSUME NEW b \in Browsers, NEW i \in Ids, SetFlag(b, i) PROVE CInv'
  <2>1. i \in Exist /\ users[i] \in User /\ UNCHANGED <<members, born, proved>>
    BY <1>0, <1>5 DEF SetFlag
  <2>2. CASE users' = [users EXCEPT ![i].active = ~@]
    <3> DEFINE u == [users[i] EXCEPT !.active = ~users[i].active]
    <3>1. users' = [users EXCEPT ![i] = u]
      BY <1>0, <2>1, <2>2
    <3>2. u \in User /\ Same(u, users[i])
      BY <2>1, UserRows
    <3> HIDE DEF u
    <3> QED BY <2>1, <3>1, <3>2, OneRow DEF Same
  <2>3. CASE users' = [users EXCEPT ![i].locked = ~@]
    <3> DEFINE u == [users[i] EXCEPT !.locked = ~users[i].locked]
    <3>1. users' = [users EXCEPT ![i] = u]
      BY <1>0, <2>1, <2>3
    <3>2. u \in User /\ Same(u, users[i])
      BY <2>1, UserRows
    <3> HIDE DEF u
    <3> QED BY <2>1, <3>1, <3>2, OneRow DEF Same
  <2>4. CASE users' = [users EXCEPT ![i].verified = ~@, ![i].vouched = ~users[i].verified]
    <3>1. PICK d \in BOOLEAN : users' = [users EXCEPT ![i] = [users[i] EXCEPT !.verified = d, !.vouched = d]]
      BY <1>0, <2>1, <2>4
    <3> QED BY <2>1, <3>1, UserRows, OneRow
  <2> QED BY <1>5, <2>2, <2>3, <2>4 DEF SetFlag
<1>6. ASSUME NEW b \in Browsers, NEW i \in Ids, UserDelete(b, i) PROVE CInv'
  BY <1>6, Removing DEF UserDelete
<1>7. ASSUME NEW b \in Browsers, CohortDelete(b) PROVE CInv'
  BY <1>0, <1>7 DEF CohortDelete, CInv, VerifiedIsHonest, MembersAreUsers, Exist
<1>8. ASSUME NEW b \in Browsers, Reset(b) PROVE CInv'
  BY <1>0, <1>8 DEF Reset, CInv, VerifiedIsHonest, MembersAreUsers, Exist
<1>9. ASSUME NEW b \in Browsers, NEW a \in Addresses, NEW r \in Roles, NEW ok \in BOOLEAN,
             UserCreate(b, a, r, ok)
      PROVE  CInv'
  BY <1>9, Inserted DEF UserCreate
<1>10. ASSUME NEW b \in Browsers, NEW i \in Ids, NEW r \in Roles, SetRole(b, i, r) PROVE CInv'
  <2>1. i \in Exist /\ users[i] \in User /\ UNCHANGED <<members, born, proved>>
    BY <1>0, <1>10 DEF SetRole
  <2> DEFINE u == [users[i] EXCEPT !.role = r]
  <2>2. users' = [users EXCEPT ![i] = u]
    BY <1>10 DEF SetRole
  <2>3. u \in User /\ Same(u, users[i])
    BY <2>1, UserRows
  <2> HIDE DEF u
  <2> QED BY <2>1, <2>2, <2>3, OneRow DEF Same
<1>11. ASSUME NEW b \in Browsers, NEW S \in (SUBSET Ids) \ {{}}, BulkDelete(b, S) PROVE CInv'
  BY <1>11, Removing DEF BulkDelete
<1>12. ASSUME NEW b \in Browsers, NEW S \in (SUBSET Ids) \ {{}}, AddMembers(b, S) PROVE CInv'
  <2>1. /\ S \subseteq Exist /\ UNCHANGED <<users, born, proved>>
        /\ \A m \in members' : m \in members \/ \E i \in S : m = [user |-> i, since |-> users[i].since]
    BY <1>12 DEF AddMembers
  <2>2. \A i \in S : [user |-> i, since |-> users[i].since] \in [user : Ids, since : 1..MaxBorn]
    BY <1>0, <2>1 DEF User
  <2>3. members' \subseteq [user : Ids, since : 1..MaxBorn]
    BY <2>1, <2>2 DEF CInv
  <2>4. MembersAreUsers'
    BY <2>1 DEF CInv, MembersAreUsers, Exist
  <2> QED BY <1>0, <2>1, <2>3, <2>4 DEF CInv, VerifiedIsHonest, Exist
<1>13. ASSUME NEW b \in Browsers, NEW S \in (SUBSET Ids) \ {{}}, NEW on \in BOOLEAN, BulkActivate(b, S, on)
       PROVE  CInv'
  <2> DEFINE new(i) == [users[i] EXCEPT !.active = on]
  <2>1. \A i \in Exist : new(i) \in User /\ Same(new(i), users[i])
    BY <1>0, UserRows
  <2>2. /\ users' = [i \in Ids |-> IF i \in S THEN new(i) ELSE users[i]]
        /\ S \subseteq Exist /\ UNCHANGED <<members, born, proved>>
    BY <1>13 DEF BulkActivate
  <2> HIDE DEF new
  <2>3. /\ users' \in [Ids -> User \cup {Nobody}]
        /\ \A i \in Ids : users'[i] = IF i \in S THEN new(i) ELSE users[i]
    BY <1>0, <2>1, <2>2
  <2>4. \A i \in Exist : users'[i] # Nobody /\ Same(users'[i], users[i])
    BY <1>0, <2>1, <2>3, UsersAreUsers DEF Exist, Same
  <2>5. \A i \in Exist' : i \in Exist
    BY <2>2, <2>3 DEF Exist
  <2> QED BY <1>0, <2>2, <2>3, <2>4, <2>5, UsersChange DEF Same
<1>14. ASSUME NEW b \in Browsers, NEW m \in members, RemoveMember(b, m) PROVE CInv'
  BY <1>14 DEF RemoveMember, CInv, VerifiedIsHonest, MembersAreUsers, Exist
<1>15. ASSUME NEW b \in Browsers, NEW f \in {"open", "verify", "maint"}, SaveSettings(b, f) PROVE CInv'
  BY <1>0, <1>15, <1>a DEF SaveSettings
<1>16. CASE SeedAdmin
  BY <1>16, Inserted, AddressAssumption DEF SeedAdmin, Roles
<1>17. ASSUME NEW b \in Browsers, NEW i \in Ids, Login(b, i) PROVE CInv'
  BY <1>0, <1>17, <1>a DEF Login
<1>18. ASSUME NEW b \in Browsers, Logout(b) PROVE CInv'
  BY <1>0, <1>18, <1>a DEF Logout
<1>19. ASSUME NEW a \in Addresses, LinkExpires(a) PROVE CInv'
  BY <1>0, <1>19, <1>a DEF LinkExpires
<1>20. CASE UNCHANGED accountVars
  BY <1>0, <1>20, <1>a DEF accountVars
<1> QED BY <1>1, <1>2, <1>3, <1>4, <1>5, <1>6, <1>7, <1>8, <1>9, <1>10, <1>11, <1>12, <1>13,
           <1>14, <1>15, <1>16, <1>17, <1>18, <1>19, <1>20 DEF AccountsNext

\* CInv holds in every state.
LEMMA CInvariant == AccountsSpec => []CInv
BY InitCInv, NextCInv, PTL DEF AccountsSpec

-----------------------------------------------------------------------------
\* For all addresses and browsers: whoever counts as verified is, and a cohort has
\* only the users who were put into it (verify_email, profile_edit, user_delete).
THEOREM NothingPassesOn == AccountsSpec => []NothingInherited
<1>1. CInv => NothingInherited
  BY DEF CInv, NothingInherited
<1> QED BY <1>1, CInvariant, PTL

-----------------------------------------------------------------------------
\* An administrator who keeps his row and his role remains.
LEMMA OneRemains ==
    ASSUME NEW i \in Admins, users'[i] # Nobody, users'[i].role = "admin" PROVE Admins' # {}
BY DEF Admins, Exist

\* Of several administrators one is not the one in question.
LEMMA AnotherAdmin ==
    ASSUME Cardinality(Admins) > 1, NEW i PROVE \E j \in Admins : j # i
<1>1. SUFFICES ASSUME \A j \in Admins : j = i PROVE FALSE
  OBVIOUS
<1>2. Admins \subseteq {i} /\ IsFiniteSet({i}) /\ Cardinality({i}) = 1
  BY <1>1, FS_Singleton
<1>3. Cardinality(Admins) <= 1 /\ IsFiniteSet(Admins)
  BY <1>2, FS_Subset
<1>4. Cardinality(Admins) \in Nat
  BY <1>3, FS_CardinalityType
<1> QED BY <1>3, <1>4

\* The role stays when other columns are replaced.
LEMMA RoleStays ==
    ASSUME NEW u \in User
    PROVE  /\ \A d \in BOOLEAN : [u EXCEPT !.active = d].role = u.role
           /\ \A d \in BOOLEAN : [u EXCEPT !.locked = d].role = u.role
           /\ [u EXCEPT !.verified = TRUE].role = u.role
           /\ \A d, e \in BOOLEAN : [u EXCEPT !.verified = d, !.vouched = e].role = u.role
           /\ \A a \in Addresses, d, e \in BOOLEAN : Readdressed(u, a, d, e).role = u.role
           /\ \A r \in Roles : [u EXCEPT !.role = r].role = r
BY DEF User, Readdressed

\* No step but the factory reset takes the last administrator away.
LEMMA AdminsStep ==
    ASSUME CInv, AccountsNext, Admins # {}, \A b \in Browsers : ~Reset(b) PROVE Admins' # {}
<1>0. /\ users \in [Ids -> User \cup {Nobody}] /\ Admins \subseteq Exist
      /\ \A i \in Exist : i \in Ids /\ users[i] \in User
      /\ \A i \in Admins : users[i] # Nobody /\ users[i].role = "admin"
  BY DEF CInv, Admins, Exist
<1> PICK k \in Admins : TRUE
  OBVIOUS
<1>1. ASSUME NEW i \in Exist, NEW u \in User, users' = [users EXCEPT ![i] = u], u.role = users[i].role
      PROVE  Admins' # {}
  <2>1. users'[k] = IF k = i THEN u ELSE users[k]
    BY <1>0, <1>1
  <2> QED BY <1>0, <1>1, <2>1, OneRemains, UsersAreUsers
<1>2. ASSUME NEW u, Insert(u) PROVE Admins' # {}
  <2>1. users'[k] = users[k]
    BY <1>0, <1>2, FreshId DEF Insert
  <2> QED BY <1>0, <2>1, OneRemains
<1>3. ASSUME UNCHANGED users PROVE Admins' # {}
  BY <1>3 DEF Admins, Exist
<1>4. ASSUME NEW b \in Browsers, NEW a \in Addresses, VerifyEmail(b, a) PROVE Admins' # {}
  <2> DEFINE u == [users[k] EXCEPT !.verified = TRUE]
  <2>1. u \in User /\ u.role = "admin"
    <3>1. users[k] \in User /\ users[k].role = "admin"
      BY <1>0
    <3> QED BY <3>1, UserRows, RoleStays
  <2>2. users'[k] = IF users[k].addr = a THEN u ELSE users[k]
    BY <1>0, <1>4 DEF VerifyEmail
  <2> HIDE DEF u
  <2> QED BY <1>0, <2>1, <2>2, OneRemains, UsersAreUsers
<1>5. ASSUME NEW b \in Browsers, NEW a \in Addresses, ProfileEdit(b, a) PROVE Admins' # {}
  <2> DEFINE i == tabs[b]
             d == users[i].verified /\ ~flags.verify
             e == ~flags.verify
             u == Readdressed(users[i], a, d, e)
  <2>1. i \in Exist /\ users[i] \in User
    BY <1>0, <1>5 DEF ProfileEdit, Signed
  <2>2. d \in BOOLEAN /\ e \in BOOLEAN
    OBVIOUS
  <2> HIDE DEF d, e, i
  <2>3. u \in User /\ u.role = users[i].role
    BY <2>1, <2>2, ReaddressedType, RoleStays
  <2>4. users' = [users EXCEPT ![i] = u]
    BY <1>5 DEF ProfileEdit, Readdressed, d, e, i
  <2> HIDE DEF u
  <2> QED BY <2>1, <2>3, <2>4, <1>1
<1>6. ASSUME NEW b \in Browsers, NEW i \in Ids, SetFlag(b, i) PROVE Admins' # {}
  <2>1. i \in Exist /\ users[i] \in User
    BY <1>0, <1>6 DEF SetFlag
  <2>2. CASE users' = [users EXCEPT ![i].active = ~@]
    <3> DEFINE u == [users[i] EXCEPT !.active = ~users[i].active]
    <3>1. users' = [users EXCEPT ![i] = u]
      BY <1>0, <2>1, <2>2
    <3>2. u \in User /\ u.role = users[i].role
      BY <2>1, UserRows, RoleStays
    <3> HIDE DEF u
    <3> QED BY <2>1, <3>1, <3>2, <1>1
  <2>3. CASE users' = [users EXCEPT ![i].locked = ~@]
    <3> DEFINE u == [users[i] EXCEPT !.locked = ~users[i].locked]
    <3>1. users' = [users EXCEPT ![i] = u]
      BY <1>0, <2>1, <2>3
    <3>2. u \in User /\ u.role = users[i].role
      BY <2>1, UserRows, RoleStays
    <3> HIDE DEF u
    <3> QED BY <2>1, <3>1, <3>2, <1>1
  <2>4. CASE users' = [users EXCEPT ![i].verified = ~@, ![i].vouched = ~users[i].verified]
    <3>1. PICK d \in BOOLEAN : users' = [users EXCEPT ![i] = [users[i] EXCEPT !.verified = d, !.vouched = d]]
      BY <1>0, <2>1, <2>4
    <3> DEFINE u == [users[i] EXCEPT !.verified = d, !.vouched = d]
    <3>2. u \in User /\ u.role = users[i].role
      BY <2>1, UserRows, RoleStays
    <3>3. users' = [users EXCEPT ![i] = u]
      BY <3>1
    <3> HIDE DEF u
    <3> QED BY <2>1, <3>2, <3>3, <1>1
  <2> QED BY <1>6, <2>2, <2>3, <2>4 DEF SetFlag
<1>7. ASSUME NEW b \in Browsers, NEW i \in Ids, NEW r \in Roles, SetRole(b, i, r) PROVE Admins' # {}
  <2>1. users' = [users EXCEPT ![i] = [users[i] EXCEPT !.role = r]]
    BY <1>7 DEF SetRole
  <2>2. \E j \in Admins : j # i
    BY <1>7, AnotherAdmin DEF SetRole
  <2>3. PICK j \in Admins : users'[j] = users[j]
    BY <1>0, <2>1, <2>2
  <2> QED BY <1>0, <2>3, OneRemains
<1>8. ASSUME NEW b \in Browsers, NEW i \in Ids, UserDelete(b, i) PROVE Admins' # {}
  <2>1. \E j \in Admins : j # i
    BY <1>8, AnotherAdmin DEF UserDelete
  <2>2. PICK j \in Admins : users'[j] = users[j]
    BY <1>0, <1>8, <2>1 DEF UserDelete, Removed
  <2> QED BY <1>0, <2>2, OneRemains
<1>9. ASSUME NEW b \in Browsers, NEW S \in (SUBSET Ids) \ {{}}, BulkDelete(b, S) PROVE Admins' # {}
  <2>1. users'[k] = users[k]
    BY <1>0, <1>9 DEF BulkDelete, Removed
  <2> QED BY <1>0, <2>1, OneRemains
<1>10. ASSUME NEW b \in Browsers, NEW S \in (SUBSET Ids) \ {{}}, NEW on \in BOOLEAN, BulkActivate(b, S, on)
       PROVE  Admins' # {}
  <2> DEFINE u == [users[k] EXCEPT !.active = on]
  <2>1. u \in User /\ u.role = "admin"
    <3>1. users[k] \in User /\ users[k].role = "admin"
      BY <1>0
    <3>2. u \in User /\ u.role = users[k].role
      BY <3>1, UserRows, RoleStays
    <3> QED BY <3>1, <3>2, Zenon
  <2>2. users'[k] = IF k \in S THEN u ELSE users[k]
    BY <1>0, <1>10 DEF BulkActivate
  <2> HIDE DEF u
  <2> QED BY <1>0, <2>1, <2>2, OneRemains, UsersAreUsers
<1> QED BY <1>2, <1>3, <1>4, <1>5, <1>6, <1>7, <1>8, <1>9, <1>10
        DEF AccountsNext, Register, UserCreate, SeedAdmin, CreateAdmin, LinkExpires, Login, Logout,
            CohortDelete, AddMembers, RemoveMember, SaveSettings

\* For all addresses, browsers and numbers of users: once there is an administrator
\* there is one until the factory reset (user_edit, user_delete, users_bulk).
THEOREM SomeAdminRemains == AccountsSpec => AdminRemains
<1> DEFINE Remains == Admins # {} /\ (\A b \in Browsers : ~Reset(b)) => Admins' # {}
<1>1. CInv /\ [AccountsNext]_accountVars => [Remains]_accountVars
  BY AdminsStep
<1>2. AccountsSpec => [][Remains]_accountVars
  BY CInvariant, <1>1, PTL DEF AccountsSpec
<1> QED BY <1>2 DEF AdminRemains
=============================================================================
