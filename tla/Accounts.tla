------------------------------- MODULE Accounts -------------------------------
(***************************************************************************)
(* Who may log in: rows of `users`, `organisations` and `superadmins`, as  *)
(* written by auth/service.py, users/service.py, admin/service.py and      *)
(* scripts/create_superadmin.py.  A request checks with one or two SELECTs *)
(* and then writes, on a connection of its own, in any process of the API; *)
(* what the database itself keeps is that an e-mail is UNIQUE within each  *)
(* of the tables.                                                          *)
(*                                                                         *)
(* Names, passwords, plans and time stamps are left out, and with them the *)
(* operations that write nothing else; of the roles only whether it is     *)
(* "owner" matters to login.  An id (a UUID) is used once.                 *)
(***************************************************************************)
EXTENDS Naturals

CONSTANTS
    User,           \* ids of rows of `users`
    Organisation,   \* ids of rows of `organisations`
    Email,
    Job,            \* requests being served at a time
    Absent

ASSUME AccountsConstants == Absent \notin Email \union User

VARIABLES
    account,        \* users
    spent,          \* ids given out so far
    contact,        \* organisations: the e-mail of each that exists
    superadmins,    \* superadmins, by e-mail
    job,            \* where each request is
    about,          \* its e-mail
    place,          \* its organisation
    whom,           \* the row that accept_invite has found
    met,            \* e-mails two requests were about at a time (history)
    rushed          \* rows two acceptances had found at a time (history)

tableRows == <<account, spent, contact, superadmins>>
jobVars == <<job, about, place, whom>>
accVars == <<tableRows, jobVars, met, rushed>>

Account == [org : Organisation, email : Email, owner : BOOLEAN, active : BOOLEAN,
            invited : BOOLEAN, asked : BOOLEAN, joined : Nat]
Stage == {"idle", "registerInsert", "inviteCheck", "inviteInsert", "acceptUpdate",
          "grantCheck", "grantInsert", "orgInsert"}

Exists(u) == account[u] # Absent
UserWith(e) == {u \in User : Exists(u) /\ account[u].email = e}
Founded(o) == contact[o] # Absent

AccTypeOK ==
    /\ account \in [User -> Account \union {Absent}]
    /\ spent \subseteq User /\ \A u \in User : Exists(u) => u \in spent
    /\ contact \in [Organisation -> Email \union {Absent}]
    /\ superadmins \subseteq Email
    /\ job \in [Job -> Stage]
    /\ about \in [Job -> Email \union {Absent}]
    /\ place \in [Job -> Organisation \union {Absent}]
    /\ whom \in [Job -> User \union {Absent}]
    /\ \A j \in Job : job[j] \notin {"idle", "acceptUpdate"} => about[j] \in Email
    /\ \A j \in Job : job[j] \in {"inviteCheck", "inviteInsert"} => place[j] \in Organisation
    /\ \A j \in Job : job[j] = "acceptUpdate" => whom[j] \in User
    /\ met \subseteq Email /\ rushed \subseteq User

AccInit ==
    /\ account = [u \in User |-> Absent] /\ spent = {}
    /\ contact = [o \in Organisation |-> Absent]
    /\ superadmins = {}
    /\ job = [j \in Job |-> "idle"] /\ about = [j \in Job |-> Absent]
    /\ place = [j \in Job |-> Absent] /\ whom = [j \in Job |-> Absent]
    /\ met = {} /\ rushed = {}

\* The request goes on; or it is answered, with a result or an error.
Proceed(j, stage) == job' = [job EXCEPT ![j] = stage]
Answer(j) ==
    /\ job' = [job EXCEPT ![j] = "idle"] /\ about' = [about EXCEPT ![j] = Absent]
    /\ place' = [place EXCEPT ![j] = Absent] /\ whom' = [whom EXCEPT ![j] = Absent]
\* A request about e has passed its first check.
Begin(j, stage, e, o) ==
    /\ Proceed(j, stage)
    /\ about' = [about EXCEPT ![j] = e] /\ place' = [place EXCEPT ![j] = o]
    /\ met' = IF \E i \in Job : about[i] = e THEN met \union {e} ELSE met
    /\ UNCHANGED <<whom, rushed>>

\* INSERT INTO users / organisations, with a new id.
NewUser(row) ==
    \E u \in User \ spent :
        /\ account' = [account EXCEPT ![u] = row]
        /\ spent' = spent \union {u}
NewOrganisation(o, e) ==
    /\ ~Founded(o) /\ \A p \in Organisation : contact[p] # e
    /\ contact' = [contact EXCEPT ![o] = e]

-----------------------------------------------------------------------------
(* auth/service.py *)

\* register: SELECT id FROM users WHERE email = $1; 409
Register(j, e) ==
    /\ job[j] = "idle" /\ UserWith(e) = {}
    /\ Begin(j, "registerInsert", e, Absent)
    /\ UNCHANGED tableRows

\* The organisation and its owner, in one transaction.
RegisterInsert(j) ==
    /\ job[j] = "registerInsert" /\ UserWith(about[j]) = {}
    /\ \E o \in Organisation :
         /\ NewOrganisation(o, about[j])
         /\ NewUser([org |-> o, email |-> about[j], owner |-> TRUE, active |-> TRUE,
                     invited |-> FALSE, asked |-> FALSE, joined |-> 0])
    /\ Answer(j)
    /\ UNCHANGED <<superadmins, met, rushed>>

\* accept_invite: SELECT ... WHERE u.invite_token = $1; 401
AcceptInvite(j, u) ==
    /\ job[j] = "idle" /\ Exists(u) /\ account[u].invited
    /\ Proceed(j, "acceptUpdate")
    /\ whom' = [whom EXCEPT ![j] = u]
    /\ rushed' = IF \E i \in Job : whom[i] = u THEN rushed \union {u} ELSE rushed
    /\ UNCHANGED <<tableRows, about, place, met>>

\* Mutant: the token stays.
MutAcceptUpdate(j) ==
    LET u == whom[j]
        row == [account[u] EXCEPT !.active = TRUE, !.joined = @ + 1]
    IN
    /\ job[j] = "acceptUpdate"
    /\ account' = IF Exists(u) THEN [account EXCEPT ![u] = row] ELSE account
    /\ Answer(j)
    /\ UNCHANGED <<spent, contact, superadmins, met, rushed>>

\* UPDATE users SET password_hash, invite_token = NULL, is_active = TRUE WHERE
\* id = $4: of no row if it has been deleted; the answer is the same.
AcceptUpdate(j) ==
    LET u == whom[j]
        row == [account[u] EXCEPT !.active = TRUE, !.invited = FALSE, !.joined = @ + 1]
    IN
    /\ job[j] = "acceptUpdate"
    /\ account' = IF Exists(u) THEN [account EXCEPT ![u] = row] ELSE account
    /\ Answer(j)
    /\ UNCHANGED <<spent, contact, superadmins, met, rushed>>

-----------------------------------------------------------------------------
(* users/service.py *)

\* invite_user: SELECT id FROM users WHERE email = $1; 409
Invite(j, o, e) ==
    /\ job[j] = "idle" /\ Founded(o) /\ UserWith(e) = {}
    /\ Begin(j, "inviteCheck", e, o)
    /\ UNCHANGED tableRows

\* Mutant: superadmins are not looked for.
MutInviteCheck(j) ==
    /\ job[j] = "inviteCheck"
    /\ Proceed(j, "inviteInsert") /\ UNCHANGED <<about, place, whom>>
    /\ UNCHANGED <<tableRows, met, rushed>>

\* SELECT id FROM superadmins WHERE email = $1; 409
InviteCheck(j) ==
    /\ job[j] = "inviteCheck"
    /\ IF about[j] \in superadmins THEN Answer(j)
       ELSE Proceed(j, "inviteInsert") /\ UNCHANGED <<about, place, whom>>
    /\ UNCHANGED <<tableRows, met, rushed>>

\* The pending row with its token; a role other than owner
\* (InviteUserRequest.role).
InviteInsert(j) ==
    /\ job[j] = "inviteInsert" /\ UserWith(about[j]) = {}
    /\ NewUser([org |-> place[j], email |-> about[j], owner |-> FALSE, active |-> FALSE,
                invited |-> TRUE, asked |-> TRUE, joined |-> 0])
    /\ Answer(j)
    /\ UNCHANGED <<contact, superadmins, met, rushed>>

\* update_user_role; not to owner (UserUpdateRoleRequest.role).
UpdateRole(u) ==
    /\ Exists(u)
    /\ account' = [account EXCEPT ![u].owner = FALSE]
    /\ UNCHANGED <<spent, contact, superadmins, jobVars, met, rushed>>

\* users.remove_user, admin.delete_user
RemoveUser(u) ==
    /\ Exists(u)
    /\ account' = [account EXCEPT ![u] = Absent]
    /\ UNCHANGED <<spent, contact, superadmins, jobVars, met, rushed>>

-----------------------------------------------------------------------------
(* admin/service.py and scripts/create_superadmin.py *)

SetUserActive(u, active) ==
    /\ Exists(u)
    /\ account' = [account EXCEPT ![u].active = active]
    /\ UNCHANGED <<spent, contact, superadmins, jobVars, met, rushed>>

\* create_org: SELECT id FROM organisations WHERE email = $1; 409
CreateOrg(j, e) ==
    /\ job[j] = "idle" /\ \A o \in Organisation : contact[o] # e
    /\ Begin(j, "orgInsert", e, Absent)
    /\ UNCHANGED tableRows

CreateOrgInsert(j) ==
    /\ job[j] = "orgInsert"
    /\ \E o \in Organisation : NewOrganisation(o, about[j])
    /\ Answer(j)
    /\ UNCHANGED <<account, spent, superadmins, met, rushed>>

\* create_superadmin.py: SELECT id FROM superadmins WHERE email = $1
Grant(j, e) ==
    /\ job[j] = "idle" /\ e \notin superadmins
    /\ Begin(j, "grantCheck", e, Absent)
    /\ UNCHANGED tableRows

\* Mutant: users are not looked for.
MutGrantCheck(j) ==
    /\ job[j] = "grantCheck"
    /\ Proceed(j, "grantInsert") /\ UNCHANGED <<about, place, whom>>
    /\ UNCHANGED <<tableRows, met, rushed>>

\* SELECT id FROM users WHERE email = $1
GrantCheck(j) ==
    /\ job[j] = "grantCheck"
    /\ IF UserWith(about[j]) # {} THEN Answer(j)
       ELSE Proceed(j, "grantInsert") /\ UNCHANGED <<about, place, whom>>
    /\ UNCHANGED <<tableRows, met, rushed>>

GrantInsert(j) ==
    /\ job[j] = "grantInsert" /\ about[j] \notin superadmins
    /\ superadmins' = superadmins \union {about[j]}
    /\ Answer(j)
    /\ UNCHANGED <<account, spent, contact, met, rushed>>

\* A statement fails, on a UNIQUE column or otherwise: its transaction is
\* rolled back.
RequestFails(j) ==
    /\ job[j] # "idle"
    /\ Answer(j)
    /\ UNCHANGED <<tableRows, met, rushed>>

-----------------------------------------------------------------------------
ServeJob(j) ==
    \/ \E e \in Email : Register(j, e) \/ CreateOrg(j, e) \/ Grant(j, e)
                          \/ \E o \in Organisation : Invite(j, o, e)
    \/ \E u \in User : AcceptInvite(j, u)
    \/ RegisterInsert(j) \/ AcceptUpdate(j) \/ InviteCheck(j) \/ InviteInsert(j)
    \/ CreateOrgInsert(j) \/ GrantCheck(j) \/ GrantInsert(j) \/ RequestFails(j)
AccNext ==
    \/ \E j \in Job : ServeJob(j)
    \/ \E u \in User : UpdateRole(u) \/ RemoveUser(u) \/ \E b \in BOOLEAN : SetUserActive(u, b)

AccSpec == AccInit /\ [][AccNext]_accVars

-----------------------------------------------------------------------------
(* Properties *)

\* login: the superadmin of that e-mail, and only if there is none the user,
\* who has to be active and an owner.
LoginAsUser(e) ==
    IF e \in superadmins THEN {}
    ELSE {u \in UserWith(e) : account[u].active /\ account[u].owner}

\* An e-mail is that of a superadmin and of an invited user at once, which
\* hides the user from login, only if two requests about it overlapped:
\* invite_user and the script each look into both tables.  (register looks
\* into one.)
EmailsApart ==
    \A u \in User : Exists(u) /\ account[u].asked /\ account[u].email \notin met =>
        account[u].email \notin superadmins

\* An invitation is accepted once, unless two acceptances of it overlapped:
\* no later one sets the password of the account, or activates it after it
\* has been switched off.
InvitationOpensOnce ==
    \A u \in User : Exists(u) /\ u \notin rushed => account[u].joined <= 1

\* An owner who can log in loses that by a change of the own row alone: not by
\* the creation of a superadmin, whose e-mail login would find first, unless
\* it overlapped a request about the same e-mail (a registration, say, whose
\* row appears between the script's SELECT and its INSERT).
OwnerKeepsLogin ==
    [][\A u \in User :
         /\ Exists(u) /\ u \in LoginAsUser(account[u].email)
         /\ account'[u] = account[u] /\ account[u].email \notin met'
         => u \in LoginAsUser(account[u].email)']_accVars
=============================================================================
