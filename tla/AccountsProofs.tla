---------------------------- MODULE AccountsProofs ----------------------------
(***************************************************************************)
(* Accounts, for any users, organisations and e-mails and any number of    *)
(* requests at a time.                                                     *)
(***************************************************************************)
EXTENDS Accounts, TLAPS

\* Two requests at a time are about one e-mail, or have found one row, only if
\* that is on record.
OverlapsKnown ==
    /\ \A i, j \in Job : about[i] = about[j] /\ about[i] \in Email \ met => i = j
    /\ \A i, j \in Job : whom[i] = whom[j] /\ whom[i] \in User \ rushed => i = j

\* What an invitation and a grant have found in the other table stands.
ChecksStand ==
    \A j \in Job : about[j] \notin met =>
        /\ job[j] = "inviteInsert" => about[j] \notin superadmins
        /\ job[j] = "grantInsert" =>
             \A u \in User : Exists(u) => account[u].email # about[j]

\* An invitation that is open, or that a request is accepting, has not been
\* accepted before.
OpenIsUnused ==
    /\ \A u \in User : Exists(u) /\ account[u].invited /\ u \notin rushed => account[u].joined = 0
    /\ \A j \in Job : whom[j] \in User =>
         /\ whom[j] \in spent
         /\ Exists(whom[j]) /\ whom[j] \notin rushed => account[whom[j]].invited

AccInv ==
    /\ AccTypeOK /\ OverlapsKnown /\ ChecksStand /\ OpenIsUnused
    /\ EmailsApart /\ InvitationOpensOnce

USE AccountsConstants

\* The initial states satisfy the inductive invariant.
LEMMA AccInitInv == AccInit => AccInv
<1> SUFFICES ASSUME AccInit PROVE AccInv
  OBVIOUS
<1> USE DEF AccInit, Exists
<1>1. AccTypeOK
  BY DEF AccTypeOK, Stage
<1>2. OverlapsKnown /\ ChecksStand /\ OpenIsUnused
  BY DEF OverlapsKnown, ChecksStand, OpenIsUnused
<1>3. EmailsApart /\ InvitationOpensOnce
  BY DEF EmailsApart, InvitationOpensOnce
<1> QED  BY <1>1, <1>2, <1>3 DEF AccInv

-----------------------------------------------------------------------------
(* What the operations do *)

\* A request that begins.
LEMMA Begins ==
    ASSUME AccTypeOK, NEW j \in Job,
           \/ \E e \in Email : Register(j, e) \/ CreateOrg(j, e) \/ Grant(j, e)
                               \/ \E o \in Organisation : Invite(j, o, e)
           \/ \E u \in User : AcceptInvite(j, u)
    PROVE  AccTypeOK'
<1> USE DEF AccTypeOK, Stage, tableRows, Exists
<1>1. ASSUME NEW e \in Email, NEW o \in Organisation \union {Absent}, NEW stage \in Stage,
             stage # "acceptUpdate", stage \in {"inviteCheck", "inviteInsert"} => o \in Organisation,
             Begin(j, stage, e, o), UNCHANGED tableRows
      PROVE  AccTypeOK'
  <2>1. job' \in [Job -> Stage] /\ about' \in [Job -> Email \union {Absent}]
        /\ place' \in [Job -> Organisation \union {Absent}]
    BY <1>1 DEF Begin, Proceed
  <2>2. /\ job'[j] = stage /\ about'[j] = e /\ place'[j] = o
        /\ \A i \in Job \ {j} : job'[i] = job[i] /\ about'[i] = about[i] /\ place'[i] = place[i]
        /\ UNCHANGED <<whom, rushed>> /\ met' \subseteq Email
    BY <1>1 DEF Begin, Proceed
  <2> QED  BY <1>1, <2>1, <2>2
<1>2. ASSUME NEW u \in User, AcceptInvite(j, u) PROVE AccTypeOK'
  BY <1>2 DEF AcceptInvite, Proceed
<1>3. ASSUME NEW e \in Email, Register(j, e) \/ CreateOrg(j, e) \/ Grant(j, e) PROVE AccTypeOK'
  <2>1. \E stage \in {"registerInsert", "orgInsert", "grantCheck"} :
          Begin(j, stage, e, Absent) /\ UNCHANGED tableRows
    BY <1>3 DEF Register, CreateOrg, Grant
  <2> QED  BY <1>1, <2>1
<1>4. ASSUME NEW e \in Email, NEW o \in Organisation, Invite(j, o, e) PROVE AccTypeOK'
  BY <1>1, <1>4 DEF Invite
<1> QED  BY <1>2, <1>3, <1>4

\* A request that goes on without writing, or ends.
LEMMA Moves ==
    ASSUME AccTypeOK, NEW j \in Job, InviteCheck(j) \/ GrantCheck(j) \/ RequestFails(j)
    PROVE  AccTypeOK'
<1> USE DEF AccTypeOK, Stage, tableRows, Exists
<1>1. /\ UNCHANGED <<tableRows, met, rushed>>
      /\ \/ Answer(j)
         \/ /\ job[j] \in {"inviteCheck", "grantCheck"} /\ UNCHANGED <<about, place, whom>>
            /\ Proceed(j, IF job[j] = "inviteCheck" THEN "inviteInsert" ELSE "grantInsert")
  BY DEF InviteCheck, GrantCheck, RequestFails
<1>2. CASE Answer(j)
  BY <1>1, <1>2 DEF Answer
<1>3. CASE ~Answer(j)
  BY <1>1, <1>3 DEF Proceed
<1> QED  BY <1>2, <1>3

\* A request that writes its row.
LEMMA Writes ==
    ASSUME AccTypeOK, NEW j \in Job,
           RegisterInsert(j) \/ AcceptUpdate(j) \/ InviteInsert(j) \/ CreateOrgInsert(j) \/ GrantInsert(j)
    PROVE  AccTypeOK'
<1> USE DEF AccTypeOK, Exists
<1>1. ASSUME account' \in [User -> Account \union {Absent}],
             spent' \subseteq User, \A u \in User : Exists(u)' => u \in spent',
             contact' \in [Organisation -> Email \union {Absent}], superadmins' \subseteq Email,
             Answer(j), UNCHANGED <<met, rushed>>
      PROVE  AccTypeOK'
  BY <1>1 DEF Answer, Stage
<1>2. ASSUME NEW row \in Account, NewUser(row)
      PROVE  /\ account' \in [User -> Account \union {Absent}]
             /\ spent' \subseteq User /\ \A u \in User : Exists(u)' => u \in spent'
  BY <1>2 DEF NewUser
<1>3. CASE RegisterInsert(j)
  <2>1. PICK o \in Organisation :
          /\ NewOrganisation(o, about[j])
          /\ NewUser([org |-> o, email |-> about[j], owner |-> TRUE, active |-> TRUE,
                      invited |-> FALSE, asked |-> FALSE, joined |-> 0])
    BY <1>3 DEF RegisterInsert
  <2>2. about[j] \in Email
    BY <1>3 DEF RegisterInsert
  <2>3. [org |-> o, email |-> about[j], owner |-> TRUE, active |-> TRUE,
         invited |-> FALSE, asked |-> FALSE, joined |-> 0] \in Account
    BY <2>2 DEF Account
  <2>4. contact' \in [Organisation -> Email \union {Absent}]
    BY <2>1, <2>2 DEF NewOrganisation
  <2> QED  BY <1>1, <1>2, <1>3, <2>1, <2>3, <2>4 DEF RegisterInsert
<1>4. CASE InviteInsert(j)
  <2>1. about[j] \in Email /\ place[j] \in Organisation
    BY <1>4 DEF InviteInsert
  <2>2. [org |-> place[j], email |-> about[j], owner |-> FALSE, active |-> FALSE,
         invited |-> TRUE, asked |-> TRUE, joined |-> 0] \in Account
    BY <2>1 DEF Account
  <2> QED  BY <1>1, <1>2, <1>4, <2>2 DEF InviteInsert
<1>5. CASE AcceptUpdate(j)
  <2>1. account' \in [User -> Account \union {Absent}]
    <3> DEFINE u == whom[j]
    <3>1. u \in User /\ (Exists(u) => account[u] \in Account)
      BY <1>5 DEF AcceptUpdate
    <3>2. CASE Exists(u)
      <4> DEFINE a == account[u]
      <4> DEFINE r == [[[a EXCEPT !.active = TRUE] EXCEPT !.invited = FALSE]
                          EXCEPT !.joined = @ + 1]
      <4>1. \A x \in Account : [x EXCEPT !.active = TRUE] \in Account
        BY DEF Account
      <4>4. \A x \in Account : [x EXCEPT !.invited = FALSE] \in Account
        BY DEF Account
      <4>5. \A x \in Account : [x EXCEPT !.joined = @ + 1] \in Account
        BY DEF Account
      <4>6. r \in Account
        BY <3>1, <3>2, <4>1, <4>4, <4>5
      <4>3. account' = [account EXCEPT ![u] = r]
        BY <1>5, <3>1, <3>2 DEF AcceptUpdate
      <4> HIDE DEF u, r
      <4> QED  BY <3>1, <4>3, <4>6
    <3>3. CASE ~Exists(u)
      BY <1>5, <3>3 DEF AcceptUpdate
    <3> QED  BY <3>2, <3>3
  <2>2. \A u \in User : Exists(u)' => u \in spent
    BY <1>5 DEF AcceptUpdate
  <2> QED  BY <1>1, <1>5, <2>1, <2>2 DEF AcceptUpdate
<1>6. CASE CreateOrgInsert(j)
  <2>1. contact' \in [Organisation -> Email \union {Absent}]
    BY <1>6 DEF CreateOrgInsert, NewOrganisation
  <2> QED  BY <1>1, <1>6, <2>1 DEF CreateOrgInsert
<1>7. CASE GrantInsert(j)
  <2>1. superadmins' \subseteq Email
    BY <1>7 DEF GrantInsert
  <2> QED  BY <1>1, <1>7, <2>1 DEF GrantInsert
<1> QED  BY <1>3, <1>4, <1>5, <1>6, <1>7

\* A change of a row, or its deletion.
LEMMA RowChanges ==
    ASSUME AccTypeOK, NEW u \in User,
           UpdateRole(u) \/ RemoveUser(u) \/ \E b \in BOOLEAN : SetUserActive(u, b)
    PROVE  /\ AccTypeOK'
           /\ UNCHANGED <<spent, contact, superadmins, jobVars, met, rushed>>
           /\ \A v \in User : Exists(v)' =>
                /\ Exists(v)
                /\ account'[v].email = account[v].email /\ account'[v].asked = account[v].asked
                /\ account'[v].invited = account[v].invited
                /\ account'[v].joined = account[v].joined
<1> USE DEF Exists
<1>1. /\ account \in [User -> Account \union {Absent}] /\ Exists(u) /\ account[u] \in Account
      /\ UNCHANGED <<spent, contact, superadmins, jobVars, met, rushed>>
  BY DEF AccTypeOK, UpdateRole, RemoveUser, SetUserActive
<1>2. \/ account' = [account EXCEPT ![u] = Absent]
      \/ \E r \in Account :
            /\ account' = [account EXCEPT ![u] = r]
            /\ r.email = account[u].email /\ r.asked = account[u].asked
            /\ r.invited = account[u].invited /\ r.joined = account[u].joined
  <2>1. CASE UpdateRole(u)
    <3> DEFINE r == [account[u] EXCEPT !.owner = FALSE]
    <3>1. account' = [account EXCEPT ![u] = r] /\ r \in Account
      BY <1>1, <2>1 DEF UpdateRole, Account
    <3>2. /\ r.email = account[u].email /\ r.asked = account[u].asked
          /\ r.invited = account[u].invited /\ r.joined = account[u].joined
      BY <1>1 DEF Account
    <3> QED  BY <3>1, <3>2
  <2>2. CASE RemoveUser(u)
    BY <2>2 DEF RemoveUser
  <2>3. ASSUME NEW b \in BOOLEAN, SetUserActive(u, b)
        PROVE  \E r \in Account :
                  /\ account' = [account EXCEPT ![u] = r]
                  /\ r.email = account[u].email /\ r.asked = account[u].asked
                  /\ r.invited = account[u].invited /\ r.joined = account[u].joined
    <3> DEFINE r == [account[u] EXCEPT !.active = b]
    <3>1. account' = [account EXCEPT ![u] = r] /\ r \in Account
      BY <1>1, <2>3 DEF SetUserActive, Account
    <3>2. /\ r.email = account[u].email /\ r.asked = account[u].asked
          /\ r.invited = account[u].invited /\ r.joined = account[u].joined
      BY <1>1 DEF Account
    <3> QED  BY <3>1, <3>2
  <2> QED  BY <2>1, <2>2, <2>3
<1>3. AccTypeOK'
  BY <1>1, <1>2 DEF AccTypeOK, jobVars
<1>4. \A v \in User : v # u => account'[v] = account[v]
  BY <1>1, <1>2
<1>5. \A v \in User : Exists(v)' => Exists(v)
  BY <1>1, <1>4
<1> QED  BY <1>1, <1>2, <1>3, <1>4, <1>5

\* Every step keeps the types.
LEMMA AccTypeStep == AccTypeOK /\ [AccNext]_accVars => AccTypeOK'
<1> SUFFICES ASSUME AccTypeOK, [AccNext]_accVars PROVE AccTypeOK'
  OBVIOUS
<1>1. CASE UNCHANGED accVars
  BY <1>1 DEF accVars, tableRows, jobVars, AccTypeOK, Exists
<1>2. ASSUME NEW j \in Job, ServeJob(j) PROVE AccTypeOK'
  BY <1>2, Begins, Moves, Writes DEF ServeJob
<1>3. ASSUME NEW u \in User, UpdateRole(u) \/ RemoveUser(u) \/ \E b \in BOOLEAN : SetUserActive(u, b)
      PROVE  AccTypeOK'
  BY <1>3, RowChanges
<1> QED  BY <1>1, <1>2, <1>3 DEF AccNext

\* What a step of one request does to where the requests are.
LEMMA JobStep ==
    ASSUME AccTypeOK, NEW j \in Job, ServeJob(j)
    PROVE  /\ \A i \in Job \ {j} : job'[i] = job[i] /\ about'[i] = about[i] /\ whom'[i] = whom[i]
           /\ met \subseteq met' /\ rushed \subseteq rushed'
           /\ \/ about'[j] \in {about[j], Absent}
              \/ about'[j] \in met' \/ \A i \in Job : about[i] # about'[j]
           /\ \/ whom'[j] \in {whom[j], Absent}
              \/ /\ whom'[j] \in rushed' \/ \A i \in Job : whom[i] # whom'[j]
                 /\ whom'[j] \in User /\ Exists(whom'[j]) /\ account[whom'[j]].invited
                 /\ UNCHANGED tableRows
           /\ job'[j] = "inviteInsert" => about'[j] \notin superadmins /\ UNCHANGED tableRows
           /\ job'[j] = "grantInsert" => UserWith(about'[j]) = {} /\ UNCHANGED tableRows
<1> DEFINE Told ==
      /\ \A i \in Job \ {j} : job'[i] = job[i] /\ about'[i] = about[i] /\ whom'[i] = whom[i]
      /\ met \subseteq met' /\ rushed \subseteq rushed'
      /\ \/ about'[j] \in {about[j], Absent}
         \/ about'[j] \in met' \/ \A i \in Job : about[i] # about'[j]
      /\ \/ whom'[j] \in {whom[j], Absent}
         \/ /\ whom'[j] \in rushed' \/ \A i \in Job : whom[i] # whom'[j]
            /\ whom'[j] \in User /\ Exists(whom'[j]) /\ account[whom'[j]].invited
            /\ UNCHANGED tableRows
      /\ job'[j] = "inviteInsert" => about'[j] \notin superadmins /\ UNCHANGED tableRows
      /\ job'[j] = "grantInsert" => UserWith(about'[j]) = {} /\ UNCHANGED tableRows
<1>0. /\ job \in [Job -> Stage] /\ about \in [Job -> Email \union {Absent}]
      /\ whom \in [Job -> User \union {Absent}]
  BY DEF AccTypeOK
<1>1. ASSUME NEW e \in Email, NEW stage \in Stage, stage \notin {"inviteInsert", "grantInsert"},
             NEW o, Begin(j, stage, e, o)
      PROVE  Told
  BY <1>0, <1>1 DEF Begin, Proceed
<1>2. ASSUME NEW e \in Email, Register(j, e) \/ CreateOrg(j, e) \/ Grant(j, e) PROVE Told
  <2>1. \E stage \in {"registerInsert", "orgInsert", "grantCheck"} : Begin(j, stage, e, Absent)
    BY <1>2 DEF Register, CreateOrg, Grant
  <2> HIDE DEF Told
  <2> QED  BY <1>1, <2>1 DEF Stage
<1>3. ASSUME NEW e \in Email, NEW o \in Organisation, Invite(j, o, e) PROVE Told
  <2>1. Begin(j, "inviteCheck", e, o)
    BY <1>3 DEF Invite
  <2> HIDE DEF Told
  <2> QED  BY <1>1, <2>1 DEF Stage
<1>4. ASSUME NEW u \in User, AcceptInvite(j, u) PROVE Told
  BY <1>0, <1>4 DEF AcceptInvite, Proceed
<1>5. ASSUME Answer(j), UNCHANGED <<met, rushed>> PROVE Told
  BY <1>0, <1>5 DEF Answer
<1>6. ASSUME InviteCheck(j) \/ GrantCheck(j) PROVE Told
  <2>1. CASE Answer(j)
    BY <1>5, <1>6, <2>1 DEF InviteCheck, GrantCheck
  <2>2. CASE ~Answer(j)
    BY <1>0, <1>6, <2>2 DEF InviteCheck, GrantCheck, Proceed
  <2> QED  BY <2>1, <2>2
<1>7. ASSUME \/ RegisterInsert(j) \/ AcceptUpdate(j) \/ InviteInsert(j) \/ CreateOrgInsert(j)
             \/ GrantInsert(j) \/ RequestFails(j)
      PROVE  Told
  <2>1. Answer(j) /\ UNCHANGED <<met, rushed>>
    BY <1>7 DEF RegisterInsert, AcceptUpdate, InviteInsert, CreateOrgInsert, GrantInsert, RequestFails
  <2> QED  BY <1>5, <2>1
<1> HIDE DEF Told
<1>8. Told
  BY <1>2, <1>3, <1>4, <1>6, <1>7 DEF ServeJob
<1> QED  BY <1>8 DEF Told

\* What a step of one request does to the tables.
LEMMA TableStep ==
    ASSUME AccTypeOK, NEW j \in Job, ServeJob(j)
    PROVE  \/ UNCHANGED tableRows
           \/ RegisterInsert(j) \/ InviteInsert(j) \/ AcceptUpdate(j) \/ GrantInsert(j)
           \/ CreateOrgInsert(j) /\ UNCHANGED <<account, spent, superadmins>>
  BY DEF ServeJob, Register, CreateOrg, Grant, Invite, AcceptInvite, InviteCheck, GrantCheck,
         CreateOrgInsert, RequestFails

-----------------------------------------------------------------------------
(* Steps *)

\* Every step keeps overlaps on record.
LEMMA OverlapsStep == AccInv /\ [AccNext]_accVars => OverlapsKnown'
<1> SUFFICES ASSUME AccInv, [AccNext]_accVars PROVE OverlapsKnown'
  OBVIOUS
<1>0. AccTypeOK /\ OverlapsKnown
  BY DEF AccInv
<1>1. ASSUME NEW j \in Job, ServeJob(j) PROVE OverlapsKnown'
  <2>1. ASSUME NEW a \in Job, NEW b \in Job, about'[a] = about'[b], about'[a] \in Email \ met'
        PROVE  a = b
    BY <1>0, <1>1, <2>1, JobStep DEF OverlapsKnown
  <2>2. ASSUME NEW a \in Job, NEW b \in Job, whom'[a] = whom'[b], whom'[a] \in User \ rushed'
        PROVE  a = b
    BY <1>0, <1>1, <2>2, JobStep DEF OverlapsKnown
  <2> QED  BY <2>1, <2>2 DEF OverlapsKnown
<1>2. CASE \/ \E u \in User : UpdateRole(u) \/ RemoveUser(u) \/ \E b \in BOOLEAN : SetUserActive(u, b)
           \/ UNCHANGED accVars
  <2>1. UNCHANGED <<jobVars, met, rushed>>
    BY <1>0, <1>2, RowChanges DEF accVars
  <2> QED  BY <1>0, <2>1 DEF OverlapsKnown, jobVars
<1> QED  BY <1>1, <1>2 DEF AccNext

\* Every step keeps what was found in the other table.
LEMMA ChecksStep == AccInv /\ [AccNext]_accVars => ChecksStand'
<1> SUFFICES ASSUME AccInv, [AccNext]_accVars, NEW i \in Job, about'[i] \notin met'
             PROVE  /\ job'[i] = "inviteInsert" => about'[i] \notin superadmins'
                    /\ job'[i] = "grantInsert" =>
                         \A u \in User : Exists(u)' => account'[u].email # about'[i]
  BY DEF ChecksStand
<1> DEFINE Stands == /\ job'[i] = "inviteInsert" => about'[i] \notin superadmins'
                     /\ job'[i] = "grantInsert" =>
                          \A u \in User : Exists(u)' => account'[u].email # about'[i]
<1>0. AccTypeOK /\ OverlapsKnown /\ ChecksStand
  BY DEF AccInv
<1>1. ASSUME NEW j \in Job, ServeJob(j), j = i PROVE Stands
  <2>1. job'[i] \in {"inviteInsert", "grantInsert"} => UNCHANGED tableRows
    BY <1>0, <1>1, JobStep
  <2>2. job'[i] = "inviteInsert" => about'[i] \notin superadmins
    BY <1>0, <1>1, JobStep
  <2>3. job'[i] = "grantInsert" => UserWith(about'[i]) = {}
    BY <1>0, <1>1, JobStep
  <2> QED  BY <2>1, <2>2, <2>3 DEF tableRows, UserWith, Exists
<1>2. ASSUME NEW j \in Job, ServeJob(j), j # i PROVE Stands
  <2>1. job'[i] = job[i] /\ about'[i] = about[i] /\ about[i] \notin met
    BY <1>0, <1>2, JobStep
  <2>2. /\ job[i] = "inviteInsert" => about[i] \notin superadmins
        /\ job[i] = "grantInsert" =>
             \A u \in User : Exists(u) => account[u].email # about[i]
    BY <1>0, <2>1 DEF ChecksStand
  <2>3. about[i] # about[j] \/ about[i] \notin Email
    BY <1>0, <1>2, <2>1 DEF OverlapsKnown
  <2>4. job[i] \in {"inviteInsert", "grantInsert"} => about[i] \in Email
    BY <1>0 DEF AccTypeOK
  <2>5. CASE UNCHANGED tableRows
    BY <2>1, <2>2, <2>5 DEF tableRows, Exists
  <2>6. CASE RegisterInsert(j)
    <3>1. superadmins' = superadmins
          /\ \A u \in User : account'[u] = account[u] \/ account'[u].email = about[j]
      BY <1>0, <2>6 DEF RegisterInsert, NewUser, AccTypeOK
    <3> QED  BY <2>1, <2>2, <2>3, <2>4, <3>1 DEF Exists
  <2>7. CASE InviteInsert(j)
    <3>1. superadmins' = superadmins
          /\ \A u \in User : account'[u] = account[u] \/ account'[u].email = about[j]
      BY <1>0, <2>7 DEF InviteInsert, NewUser, AccTypeOK
    <3> QED  BY <2>1, <2>2, <2>3, <2>4, <3>1 DEF Exists
  <2>8. CASE AcceptUpdate(j)
    <3>1. superadmins' = superadmins
      BY <2>8 DEF AcceptUpdate
    <3>2. \A u \in User : Exists(u)' => Exists(u) /\ account'[u].asked = account[u].asked
                                                /\ account'[u].email = account[u].email
      BY <1>0, <2>8 DEF AcceptUpdate, AccTypeOK, Account, Exists
    <3> QED  BY <2>1, <2>2, <3>1, <3>2
  <2>9. CASE GrantInsert(j)
    <3>1. superadmins' = superadmins \union {about[j]} /\ account' = account
      BY <2>9 DEF GrantInsert
    <3> QED  BY <2>1, <2>2, <2>3, <2>4, <3>1 DEF Exists
  <2>10. CASE UNCHANGED <<account, superadmins>>
    BY <2>1, <2>2, <2>10 DEF Exists
  <2> HIDE DEF Stands
  <2> QED  BY <1>0, <1>2, <2>5, <2>6, <2>7, <2>8, <2>9, <2>10, TableStep
<1>3. CASE UNCHANGED accVars
  BY <1>0, <1>3 DEF accVars, tableRows, jobVars, ChecksStand, Exists
<1>4. ASSUME NEW u \in User, UpdateRole(u) \/ RemoveUser(u) \/ \E b \in BOOLEAN : SetUserActive(u, b)
      PROVE  Stands
  <2>1. /\ UNCHANGED <<superadmins, jobVars, met>>
        /\ \A v \in User : Exists(v)' =>
             /\ Exists(v)
             /\ account'[v].email = account[v].email /\ account'[v].asked = account[v].asked
    BY <1>0, <1>4, RowChanges
  <2> QED  BY <1>0, <2>1 DEF ChecksStand, jobVars
<1> QED  BY <1>1, <1>2, <1>3, <1>4 DEF AccNext

\* What a step of one request does to a row.
LEMMA RowStep ==
    ASSUME AccTypeOK, NEW j \in Job, ServeJob(j), NEW u \in User, Exists(u)'
    PROVE  \/ account'[u] = account[u]
           \/ AcceptUpdate(j) /\ u = whom[j] /\ Exists(u) /\ ~account'[u].invited
              /\ account'[u].joined = account[u].joined + 1
              /\ account'[u].asked = account[u].asked /\ account'[u].email = account[u].email
           \/ u \notin spent /\ account'[u].joined = 0
              /\ \/ InviteInsert(j) /\ account'[u].email = about[j]
                 \/ RegisterInsert(j) /\ ~account'[u].asked
<1> USE DEF Exists
<1>0. account \in [User -> Account \union {Absent}]
  BY DEF AccTypeOK
<1>1. CASE UNCHANGED account
  BY <1>1
<1>2. CASE RegisterInsert(j)
  <2>1. PICK o \in Organisation :
          /\ NewOrganisation(o, about[j])
          /\ NewUser([org |-> o, email |-> about[j], owner |-> TRUE, active |-> TRUE,
                      invited |-> FALSE, asked |-> FALSE, joined |-> 0])
    BY <1>2 DEF RegisterInsert
  <2>2. PICK v \in User \ spent :
          account' = [account EXCEPT ![v] =
            [org |-> o, email |-> about[j], owner |-> TRUE, active |-> TRUE,
             invited |-> FALSE, asked |-> FALSE, joined |-> 0]]
    BY <2>1 DEF NewUser
  <2>3. CASE u = v
    <3>1. account'[u] = [org |-> o, email |-> about[j], owner |-> TRUE, active |-> TRUE,
                         invited |-> FALSE, asked |-> FALSE, joined |-> 0]
      BY <1>0, <2>2, <2>3
    <3>2. account'[u].asked = FALSE /\ account'[u].joined = 0
      BY <3>1
    <3> QED  BY <1>2, <2>3, <3>2
  <2>4. CASE u # v
    BY <1>0, <2>2, <2>4
  <2> QED  BY <2>3, <2>4
<1>3. CASE InviteInsert(j)
  <2>1. PICK v \in User \ spent :
          account' = [account EXCEPT ![v] =
            [org |-> place[j], email |-> about[j], owner |-> FALSE, active |-> FALSE,
             invited |-> TRUE, asked |-> TRUE, joined |-> 0]]
    BY <1>3 DEF InviteInsert, NewUser
  <2>2. CASE u = v
    <3>1. account'[u] = [org |-> place[j], email |-> about[j], owner |-> FALSE, active |-> FALSE,
                         invited |-> TRUE, asked |-> TRUE, joined |-> 0]
      BY <1>0, <2>1, <2>2
    <3>2. account'[u].email = about[j] /\ account'[u].joined = 0
      BY <3>1
    <3> QED  BY <1>3, <2>2, <3>2
  <2>3. CASE u # v
    BY <1>0, <2>1, <2>3
  <2> QED  BY <2>2, <2>3
<1>4. CASE AcceptUpdate(j)
  <2>1. CASE u = whom[j] /\ Exists(u)
    <3> DEFINE row == [account[u] EXCEPT !.active = TRUE, !.invited = FALSE, !.joined = @ + 1]
    <3>1. account[u] \in Account /\ account'[u] = row
      BY <1>0, <1>4, <2>1 DEF AcceptUpdate
    <3>2. /\ row.invited = FALSE /\ row.joined = account[u].joined + 1
          /\ row.asked = account[u].asked /\ row.email = account[u].email
      BY <3>1 DEF Account
    <3> QED  BY <1>4, <2>1, <3>1, <3>2
  <2>2. CASE ~(u = whom[j] /\ Exists(u))
    BY <1>0, <1>4, <2>2 DEF AcceptUpdate
  <2> QED  BY <2>1, <2>2
<1> QED  BY <1>1, <1>2, <1>3, <1>4, TableStep DEF GrantInsert, tableRows

\* Every step keeps open invitations unused.
LEMMA UnusedStep == AccInv /\ [AccNext]_accVars => OpenIsUnused' /\ InvitationOpensOnce'
<1> DEFINE Unused(u) == /\ account[u].invited => account[u].joined = 0
                        /\ account[u].joined <= 1
           Held(i) == /\ whom[i] \in spent
                      /\ Exists(whom[i]) /\ whom[i] \notin rushed => account[whom[i]].invited
<1> SUFFICES ASSUME AccInv, [AccNext]_accVars
             PROVE  /\ \A u \in User : Exists(u)' /\ u \notin rushed' => Unused(u)'
                    /\ \A i \in Job : whom'[i] \in User => Held(i)'
  BY DEF OpenIsUnused, InvitationOpensOnce
<1>0. AccTypeOK /\ OverlapsKnown /\ OpenIsUnused /\ InvitationOpensOnce
  BY DEF AccInv
<1>1. \A u \in User : Exists(u) /\ u \notin rushed => Unused(u) /\ account[u].joined \in Nat
  BY <1>0 DEF OpenIsUnused, InvitationOpensOnce, AccTypeOK, Exists, Account
<1>2. \A i \in Job : whom[i] \in User => Held(i)
  BY <1>0 DEF OpenIsUnused
<1>3. ASSUME NEW j \in Job, ServeJob(j), NEW u \in User, Exists(u)', u \notin rushed'
      PROVE  Unused(u)'
  <2>1. u \notin rushed
    BY <1>0, <1>3, JobStep
  <2>2. CASE account'[u] = account[u]
    BY <1>1, <1>3, <2>1, <2>2 DEF Exists
  <2>3. CASE /\ u = whom[j] /\ Exists(u) /\ ~account'[u].invited
             /\ account'[u].joined = account[u].joined + 1
    BY <1>1, <1>2, <2>1, <2>3
  <2>4. CASE account'[u].joined = 0
    BY <2>4
  <2> QED  BY <1>0, <1>3, <2>2, <2>3, <2>4, RowStep
<1>4. ASSUME NEW j \in Job, ServeJob(j), NEW i \in Job, whom'[i] \in User PROVE Held(i)'
  <2>1. spent \subseteq spent' /\ rushed \subseteq rushed'
    BY <1>0, <1>4, JobStep, TableStep
       DEF RegisterInsert, InviteInsert, AcceptUpdate, GrantInsert, NewUser, tableRows
  <2>2. CASE whom'[i] = whom[i]
    <3>1. Held(i) /\ whom[i] \in spent'
      BY <1>2, <1>4, <2>1, <2>2
    <3>2. ASSUME NEW u \in User, u = whom[i], Exists(u)', u \notin rushed'
          PROVE  account'[u].invited
      <4>1. CASE account'[u] = account[u]
        BY <2>1, <3>1, <3>2, <4>1 DEF Exists
      <4>2. ~(AcceptUpdate(j) /\ u = whom[j])
        <5> SUFFICES ASSUME AcceptUpdate(j), u = whom[j] PROVE FALSE
          OBVIOUS
        <5>1. i = j
          BY <1>0, <2>1, <3>2 DEF OverlapsKnown
        <5>2. whom'[j] = Absent
          BY <1>0 DEF AcceptUpdate, Answer, AccTypeOK
        <5> QED  BY <1>4, <5>1, <5>2
      <4>3. u \in spent
        BY <3>1, <3>2
      <4> QED  BY <1>0, <1>4, <3>2, <4>1, <4>2, <4>3, RowStep
    <3>3. Exists(whom[i])' /\ whom[i] \notin rushed' => account'[whom[i]].invited
      BY <1>4, <2>2, <3>2 DEF Exists
    <3> QED  BY <2>2, <3>1, <3>3 DEF Exists
  <2>3. CASE whom'[i] # whom[i]
    <3>1. /\ Exists(whom'[i]) /\ account[whom'[i]].invited /\ UNCHANGED tableRows
      BY <1>0, <1>4, <2>3, JobStep
    <3> QED  BY <1>0, <1>4, <2>1, <3>1 DEF AccTypeOK, Exists, tableRows
  <2> QED  BY <2>2, <2>3
<1>5. CASE UNCHANGED accVars
  BY <1>1, <1>2, <1>5 DEF accVars, tableRows, jobVars, Exists
<1>6. ASSUME NEW u \in User, UpdateRole(u) \/ RemoveUser(u) \/ \E b \in BOOLEAN : SetUserActive(u, b)
      PROVE  /\ \A v \in User : Exists(v)' /\ v \notin rushed' => Unused(v)'
             /\ \A i \in Job : whom'[i] \in User => Held(i)'
  <2>1. /\ UNCHANGED <<spent, jobVars, rushed>>
        /\ \A v \in User : Exists(v)' =>
             /\ Exists(v)
             /\ account'[v].invited = account[v].invited /\ account'[v].joined = account[v].joined
    BY <1>0, <1>6, RowChanges
  <2> QED  BY <1>1, <1>2, <2>1 DEF jobVars, Exists
<1> QED  BY <1>3, <1>4, <1>5, <1>6 DEF AccNext

\* Every step keeps e-mails apart.
LEMMA ApartStep == AccInv /\ [AccNext]_accVars => EmailsApart'
<1> SUFFICES ASSUME AccInv, [AccNext]_accVars,
                    NEW u \in User, Exists(u)', account'[u].asked, account'[u].email \notin met'
             PROVE  account'[u].email \notin superadmins'
  BY DEF EmailsApart
<1>0. AccTypeOK /\ ChecksStand /\ EmailsApart
  BY DEF AccInv
<1>1. ASSUME NEW j \in Job, ServeJob(j) PROVE account'[u].email \notin superadmins'
  <2>1. met \subseteq met'
    BY <1>0, <1>1, JobStep
  <2>2. CASE InviteInsert(j) /\ account'[u].email = about[j]
    <3>1. about[j] \notin superadmins
      BY <1>0, <2>1, <2>2 DEF ChecksStand, InviteInsert
    <3> QED  BY <2>2, <3>1 DEF InviteInsert
  <2>3. CASE /\ Exists(u) /\ account'[u].email = account[u].email
             /\ account'[u].asked = account[u].asked
    <3>1. account[u].email \notin superadmins
      BY <1>0, <2>1, <2>3 DEF EmailsApart
    <3>2. CASE GrantInsert(j)
      <4>1. job[j] = "grantInsert" /\ superadmins' = superadmins \union {about[j]}
            /\ UNCHANGED <<account, met>>
        BY <3>2 DEF GrantInsert
      <4>2. about[j] = account[u].email => account[u].email # about[j]
        BY <1>0, <2>3, <4>1 DEF ChecksStand
      <4> QED  BY <2>3, <3>1, <4>1, <4>2
    <3>3. CASE ~GrantInsert(j)
      <4>1. superadmins' = superadmins
        BY <1>0, <1>1, <3>3, TableStep DEF tableRows, RegisterInsert, InviteInsert, AcceptUpdate
      <4> QED  BY <2>3, <3>1, <4>1
    <3> QED  BY <3>2, <3>3
  <2> QED  BY <1>0, <1>1, <2>2, <2>3, RowStep DEF Exists
<1>2. CASE UNCHANGED accVars
  BY <1>0, <1>2 DEF accVars, tableRows, Exists, EmailsApart
<1>3. ASSUME NEW v \in User, UpdateRole(v) \/ RemoveUser(v) \/ \E b \in BOOLEAN : SetUserActive(v, b)
      PROVE  account'[u].email \notin superadmins'
  <2>1. /\ UNCHANGED <<superadmins, met>> /\ Exists(u)
        /\ account'[u].email = account[u].email /\ account'[u].asked = account[u].asked
    BY <1>0, <1>3, RowChanges
  <2> QED  BY <1>0, <2>1 DEF EmailsApart
<1> QED  BY <1>1, <1>2, <1>3 DEF AccNext

\* A step that leaves an owner's row alone leaves the owner able to log in.
LEMMA OwnerStep ==
    AccInv /\ [AccNext]_accVars =>
        \A u \in User :
            /\ Exists(u) /\ u \in LoginAsUser(account[u].email)
            /\ account'[u] = account[u] /\ account[u].email \notin met'
            => u \in LoginAsUser(account[u].email)'
<1> SUFFICES ASSUME AccInv, [AccNext]_accVars, NEW u \in User, Exists(u),
                    account[u].email \notin superadmins, account[u].active, account[u].owner,
                    account'[u] = account[u], account[u].email \notin met'
             PROVE  account[u].email \notin superadmins'
  BY DEF LoginAsUser, UserWith, Exists
<1>0. AccTypeOK /\ ChecksStand
  BY DEF AccInv
<1>1. ASSUME NEW j \in Job, ServeJob(j) PROVE account[u].email \notin superadmins'
  <2>1. account[u].email \notin met
    BY <1>0, <1>1, JobStep
  <2>2. CASE GrantInsert(j)
    <3>1. job[j] = "grantInsert" /\ superadmins' = superadmins \union {about[j]}
      BY <2>2 DEF GrantInsert
    <3>2. about[j] = account[u].email => account[u].email # about[j]
      BY <1>0, <2>1, <3>1 DEF ChecksStand
    <3> QED  BY <3>1, <3>2
  <2>3. CASE ~GrantInsert(j)
    BY <1>0, <1>1, <2>3, TableStep DEF tableRows, RegisterInsert, InviteInsert, AcceptUpdate
  <2> QED  BY <2>2, <2>3
<1>2. CASE UNCHANGED accVars
  BY <1>2 DEF accVars, tableRows
<1>3. ASSUME NEW v \in User, UpdateRole(v) \/ RemoveUser(v) \/ \E b \in BOOLEAN : SetUserActive(v, b)
      PROVE  account[u].email \notin superadmins'
  BY <1>0, <1>3, RowChanges
<1> QED  BY <1>1, <1>2, <1>3 DEF AccNext

-----------------------------------------------------------------------------
(* Theorems *)

\* The inductive invariant holds in every state.
THEOREM AccInvariant == AccSpec => []AccInv
<1>1. AccInv /\ [AccNext]_accVars => AccInv'
  <2>1. AccInv => AccTypeOK
    BY DEF AccInv
  <2> QED  BY <2>1, AccTypeStep, OverlapsStep, ChecksStep, UnusedStep, ApartStep DEF AccInv
<1> QED  BY AccInitInv, <1>1, PTL DEF AccSpec

\* Accounts keep their types: a request has what its stage needs.
THEOREM AccTypeCorrect == AccSpec => []AccTypeOK
<1>1. AccInv => AccTypeOK
  BY DEF AccInv
<1> QED  BY AccInvariant, <1>1, PTL

\* invite_user and create_superadmin.py do not give an e-mail to both tables
\* unless they overlap.
THEOREM ApartCorrect == AccSpec => []EmailsApart
<1>1. AccInv => EmailsApart
  BY DEF AccInv
<1> QED  BY AccInvariant, <1>1, PTL

\* accept_invite accepts an invitation once, but for overlapping calls.
THEOREM InvitationCorrect == AccSpec => []InvitationOpensOnce
<1>1. AccInv => InvitationOpensOnce
  BY DEF AccInv
<1> QED  BY AccInvariant, <1>1, PTL

\* Whatever other requests do, short of overlapping one about the same
\* e-mail, an owner whose row stays as it is keeps being let in.
THEOREM OwnerKeepsCorrect == AccSpec => OwnerKeepsLogin
<1>1. AccInv /\ [AccNext]_accVars =>
        [\A u \in User :
            /\ Exists(u) /\ u \in LoginAsUser(account[u].email)
            /\ account'[u] = account[u] /\ account[u].email \notin met'
            => u \in LoginAsUser(account[u].email)']_accVars
  BY OwnerStep
<1> QED  BY AccInvariant, <1>1, PTL DEF AccSpec, OwnerKeepsLogin
===============================================================================
