-------------------------------- MODULE Accounts --------------------------------
(***************************************************************************)
(* Accounts, their sessions and the cohorts they belong to:                *)
(* registration and confirmation of addresses (blueprints/auth), the       *)
(* profile (blueprints/user), user management and cohorts                  *)
(* (blueprints/admin), the maintenance gate and the account that start-up  *)
(* seeds (app/__init__.py, deploy/seed.py).                                *)
(*                                                                         *)
(* A handler reads and writes SQLite without giving up its greenlet, so    *)
(* each is one action.  The signed cookie of a browser holds a user's id   *)
(* and outlives the user; SQLite gives the highest id plus one to the next *)
(* user, so an id can come back.                                           *)
(***************************************************************************)
EXTENDS Integers, FiniteSets, FiniteSetsExt

CONSTANTS
    Addresses,  \* e-mail addresses
    AdminAddr,  \* ADMIN_EMAIL of the environment
    Browsers,
    NoAddr,
    MaxId,      \* bound: the highest user id
    MaxBorn,    \* bound: users ever created
    MaxEdits    \* bound: flags of users and settings ever switched

ASSUME AddressAssumption == AdminAddr \in Addresses /\ NoAddr \notin Addresses
ASSUME UserBounds == MaxId \in Nat \ {0} /\ MaxBorn \in Nat \ {0} /\ MaxEdits \in Nat

VARIABLES
    users,      \* [Ids -> User], Nobody where no row is
    tabs,       \* [Browsers -> the id its session cookie names, or 0]
    mailed,     \* addresses to which a confirmation link not yet expired went
    members,    \* rows of cohort_memberships with the user they were made for
    flags,      \* allow_registration, require_email_verification, maintenance_mode
    proved,     \* history: addresses whose link has been opened
    born,       \* number of users ever created
    edits       \* number of flags switched

accountVars == <<users, tabs, mailed, members, flags, proved, born, edits>>

-----------------------------------------------------------------------------
Ids == 1..MaxId
Roles == {"admin", "student"}

\* since: which user in order of creation; vouched: history, an administrator or
\* a setting has let the address pass without a link.
User == [addr : Addresses, role : Roles, active : BOOLEAN, verified : BOOLEAN,
         locked : BOOLEAN, since : 1..MaxBorn, vouched : BOOLEAN]
Nobody == [addr |-> NoAddr, role |-> "none"]
Account(a, r, ok) == [addr |-> a, role |-> r, active |-> TRUE, verified |-> ok,
                      locked |-> FALSE, since |-> born + 1, vouched |-> ok]

Exist == {i \in Ids : users[i] # Nobody}
Taken == {users[i].addr : i \in Exist}
Admins == {i \in Exist : users[i].role = "admin"}
NewId == IF Exist = {} THEN 1 ELSE Max(Exist) + 1
Insert(u) ==
    /\ NewId \in Ids /\ born < MaxBorn
    /\ users' = [users EXCEPT ![NewId] = u]
    /\ born' = born + 1

\* load_user and UserMixin.is_authenticated, which is the column is_active.
Signed(b) == tabs[b] \in Exist /\ users[tabs[b]].active
IsAdmin(b) == Signed(b) /\ tabs[b] \in Admins

\* maintenance_gate
Gate(b) == ~flags.maint \/ IsAdmin(b)

AccountsInit ==
    /\ users = [i \in Ids |-> Nobody]
    /\ tabs = [b \in Browsers |-> 0]
    /\ mailed = {} /\ members = {} /\ proved = {}
    /\ flags = [open |-> TRUE, verify |-> TRUE, maint |-> FALSE]
    /\ born = 0 /\ edits = 0

-----------------------------------------------------------------------------
(* Visitors and users *)

\* The mail may fail; nobody is told apart from one who gets it late.
Mail(a) == mailed' \in {mailed, mailed \cup {a}}

Register(b, a) ==
    /\ Gate(b) /\ flags.open /\ ~Signed(b) /\ a \notin Taken
    /\ Insert(Account(a, "student", ~flags.verify))
    /\ IF flags.verify THEN Mail(a) /\ UNCHANGED tabs
       ELSE tabs' = [tabs EXCEPT ![b] = NewId] /\ UNCHANGED mailed
    /\ UNCHANGED <<members, flags, proved, edits>>

\* verify_email: a link names an address, not a user, and can be opened again.
VerifyEmail(b, a) ==
    /\ Gate(b) /\ a \in mailed /\ a \in Taken
    /\ users' = [i \in Ids |-> IF users[i].addr = a
                               THEN [users[i] EXCEPT !.verified = TRUE] ELSE users[i]]
    /\ proved' = proved \cup {a}
    /\ UNCHANGED <<tabs, mailed, members, flags, born, edits>>

\* 24 hours
LinkExpires(a) ==
    /\ a \in mailed
    /\ mailed' = mailed \ {a}
    /\ UNCHANGED <<users, tabs, members, flags, proved, born, edits>>

\* In maintenance somebody else than an administrator is logged out at once.
Login(b, i) ==
    /\ ~Signed(b) /\ i \in Exist
    /\ ~users[i].locked /\ users[i].active
    /\ users[i].verified \/ ~flags.verify
    /\ tabs' = [tabs EXCEPT ![b] = IF flags.maint /\ i \notin Admins THEN 0 ELSE i]
    /\ UNCHANGED <<users, mailed, members, flags, proved, born, edits>>

Logout(b) ==
    /\ Signed(b)
    /\ tabs' = [tabs EXCEPT ![b] = 0]
    /\ UNCHANGED <<users, mailed, members, flags, proved, born, edits>>

\* Variant for NothingInherited: the new address keeps the old one's confirmation.
EditKeepingVerified(b, a) ==
    /\ Gate(b) /\ Signed(b) /\ a \notin Taken
    /\ users' = [users EXCEPT ![tabs[b]].addr = a, ![tabs[b]].vouched = ~flags.verify]
    /\ UNCHANGED <<tabs, mailed, members, flags, proved, born, edits>>

\* profile_edit with a new address.
ProfileEdit(b, a) ==
    /\ Gate(b) /\ Signed(b) /\ a \notin Taken
    /\ users' = [users EXCEPT ![tabs[b]] =
                   [@ EXCEPT !.addr = a, !.vouched = ~flags.verify,
                             !.verified = users[tabs[b]].verified /\ ~flags.verify]]
    /\ IF flags.verify THEN Mail(a) ELSE UNCHANGED mailed
    /\ UNCHANGED <<tabs, members, flags, proved, born, edits>>

-----------------------------------------------------------------------------
(* Administrators *)

Switch == edits < MaxEdits /\ edits' = edits + 1

UserCreate(b, a, r, ok) ==
    /\ IsAdmin(b) /\ a \notin Taken
    /\ Insert(Account(a, r, ok))
    /\ IF ok THEN UNCHANGED mailed ELSE Mail(a)
    /\ UNCHANGED <<tabs, members, flags, proved, edits>>

\* Variant for AdminRemains: all accounts are counted.
SetRoleCountingAll(b, i, r) ==
    /\ IsAdmin(b) /\ i \in Exist /\ users[i].role # r
    /\ i \in Admins => Cardinality(Exist) > 1
    /\ users' = [users EXCEPT ![i].role = r]
    /\ UNCHANGED <<tabs, mailed, members, flags, proved, born, edits>>

\* user_edit, field role
SetRole(b, i, r) ==
    /\ IsAdmin(b) /\ i \in Exist /\ users[i].role # r
    /\ i \in Admins => Cardinality(Admins) > 1
    /\ users' = [users EXCEPT ![i].role = r]
    /\ UNCHANGED <<tabs, mailed, members, flags, proved, born, edits>>

\* user_edit, the other fields: also those of the last administrator.
SetFlag(b, i) ==
    /\ IsAdmin(b) /\ i \in Exist /\ Switch
    /\ \/ users' = [users EXCEPT ![i].active = ~@]
       \/ users' = [users EXCEPT ![i].locked = ~@]
       \/ users' = [users EXCEPT ![i].verified = ~@, ![i].vouched = ~users[i].verified]
    /\ UNCHANGED <<tabs, mailed, members, flags, proved, born>>

\* A commit fails while rows of cohorts refer to the user (PRAGMA foreign_keys);
\* that the audit log refers to an administrator can fail it too, which only
\* leaves out steps.
Free(i) == i \notin {m.user : m \in members}
Removed(S) == users' = [i \in Ids |-> IF i \in S THEN Nobody ELSE users[i]]

UserDelete(b, i) ==
    /\ IsAdmin(b) /\ i \in Exist /\ i # tabs[b]
    /\ i \in Admins => Cardinality(Admins) > 1
    /\ Free(i)
    /\ Removed({i})
    /\ UNCHANGED <<tabs, mailed, members, flags, proved, born, edits>>

\* users_bulk refuses the selection as a whole.
BulkActivate(b, S, on) ==
    /\ IsAdmin(b) /\ S \subseteq Exist /\ Switch
    /\ on \/ S \cap (Admins \cup {tabs[b]}) = {}
    /\ users' = [i \in Ids |-> IF i \in S THEN [users[i] EXCEPT !.active = on] ELSE users[i]]
    /\ UNCHANGED <<tabs, mailed, members, flags, proved, born>>

BulkDelete(b, S) ==
    /\ IsAdmin(b) /\ S \subseteq Exist
    /\ S \cap (Admins \cup {tabs[b]}) = {}
    /\ \A i \in S : Free(i)
    /\ Removed(S)
    /\ UNCHANGED <<tabs, mailed, members, flags, proved, born, edits>>

\* cohort_detail, add_members_bulk: all or none, as a foreign key decides.
AddMembers(b, S) ==
    /\ IsAdmin(b) /\ S \subseteq Exist
    /\ members' = members \cup {[user |-> i, since |-> users[i].since] :
                                  i \in {j \in S : ~\E m \in members : m.user = j}}
    /\ UNCHANGED <<users, tabs, mailed, flags, proved, born, edits>>

RemoveMember(b, m) ==
    /\ IsAdmin(b) /\ m \in members
    /\ members' = members \ {m}
    /\ UNCHANGED <<users, tabs, mailed, flags, proved, born, edits>>

CohortDelete(b) ==
    /\ IsAdmin(b)
    /\ members' = {}
    /\ UNCHANGED <<users, tabs, mailed, flags, proved, born, edits>>

SaveSettings(b, f) ==
    /\ IsAdmin(b) /\ Switch
    /\ flags' = [flags EXCEPT ![f] = ~@]
    /\ UNCHANGED <<users, tabs, mailed, members, proved, born>>

\* db_reset imports step_admin and does not call it.  Links and the cookies of
\* other browsers stay good.
Reset(b) ==
    /\ IsAdmin(b)
    /\ users' = [i \in Ids |-> Nobody]
    /\ tabs' = [tabs EXCEPT ![b] = 0]
    /\ members' = {}
    /\ flags' = [open |-> TRUE, verify |-> TRUE, maint |-> FALSE]
    /\ UNCHANGED <<mailed, proved, born, edits>>

-----------------------------------------------------------------------------
(* Outside requests *)

\* step_admin, at every start of a process and hourly in the worker; an address
\* that is taken makes it fail, which create_app ignores.
SeedAdmin ==
    /\ Admins = {} /\ AdminAddr \notin Taken
    /\ Insert(Account(AdminAddr, "admin", TRUE))
    /\ UNCHANGED <<tabs, mailed, members, flags, proved, edits>>

\* The command create-admin.
CreateAdmin(a) ==
    /\ a \notin Taken
    /\ Insert(Account(a, "admin", TRUE))
    /\ UNCHANGED <<tabs, mailed, members, flags, proved, edits>>

AccountsNext ==
    \/ \E b \in Browsers, a \in Addresses :
          Register(b, a) \/ VerifyEmail(b, a) \/ ProfileEdit(b, a)
    \/ \E a \in Addresses : LinkExpires(a) \/ CreateAdmin(a)
    \/ \E b \in Browsers, i \in Ids : Login(b, i) \/ SetFlag(b, i) \/ UserDelete(b, i)
    \/ \E b \in Browsers : Logout(b) \/ CohortDelete(b) \/ Reset(b)
    \/ \E b \in Browsers, a \in Addresses, r \in Roles, ok \in BOOLEAN : UserCreate(b, a, r, ok)
    \/ \E b \in Browsers, i \in Ids, r \in Roles : SetRole(b, i, r)
    \/ \E b \in Browsers, S \in (SUBSET Ids) \ {{}} :
          BulkDelete(b, S) \/ AddMembers(b, S) \/ \E on \in BOOLEAN : BulkActivate(b, S, on)
    \/ \E b \in Browsers, m \in members : RemoveMember(b, m)
    \/ \E b \in Browsers, f \in {"open", "verify", "maint"} : SaveSettings(b, f)
    \/ SeedAdmin

AccountsSpec == AccountsInit /\ [][AccountsNext]_accountVars

-----------------------------------------------------------------------------
(* Properties *)

\* Type invariant.
AccountsTypeOK ==
    /\ users \in [Ids -> User \cup {Nobody}]
    /\ tabs \in [Browsers -> Ids \cup {0}]
    /\ mailed \subseteq Addresses /\ proved \subseteq Addresses
    /\ members \subseteq [user : Ids, since : 1..MaxBorn]
    /\ flags \in [{"open", "verify", "maint"} -> BOOLEAN]
    /\ born \in 0..MaxBorn /\ edits \in 0..MaxEdits

\* Parts of NothingInherited.
VerifiedIsHonest ==
    \A i \in Exist : users[i].verified => users[i].vouched \/ users[i].addr \in proved
MembersAreUsers ==
    \A m \in members : m.user \in Exist /\ users[m.user].since = m.since

\* Nothing passes from one account to another.  Whoever counts as verified has
\* opened a link sent to the address he has now, or an administrator or the
\* settings have let that address pass: links for old addresses, deleted users and
\* reused ids confirm nobody else (verify_email, profile_edit, user_edit).  And a
\* cohort has only the users who were put into it: no row survives its user and
\* passes to the one who gets the id next (user_delete, users_bulk, db_reset).
NothingInherited == VerifiedIsHonest /\ MembersAreUsers

\* "Do not degrade", "do not delete the last admin" (user_edit, user_delete): two
\* administrators who edit, delete and deactivate each other and whole selections
\* leave one; only the factory reset leaves none.
AdminRemains ==
    [][Admins # {} /\ (\A b \in Browsers : ~Reset(b)) => Admins' # {}]_accountVars
=============================================================================
