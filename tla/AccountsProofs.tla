---------------------------- MODULE AccountsProofs ----------------------------
(***************************************************************************)
(* Accounts and sessions for any accounts, requests, cookies and passwords.   *)
(* What a cookie's marker may still come to equal is decided by what a row    *)
(* may turn into: Evolves lists it, and EndedTheorem rests on it.             *)
(*                                                                         *)
(* Then the password form in front of them, module SignIn, for any browsers,  *)
(* addresses, names and limits: Limiter and Counts say what the two tables of *)
(* app/security.py remember, SlidingWindowTheorem and CaptchaGateTheorem rest *)
(* on them.                                                                *)
(***************************************************************************)
EXTENDS Accounts, SignIn, FiniteSetTheorems, TLAPS

-----------------------------------------------------------------------------
(***************************************************************************)
(* First layer: types, and that accounts are never removed.                 *)
(***************************************************************************)

\* Who changes a password has been read as an account that is still there.
ActorsPresent ==
    \A r \in Requests : parked[r].op = "change" =>
        parked[r].seen \in Account /\ parked[r].actor \in Present

RowsInv == TypeOK /\ ActorsPresent /\ \A s \in issued : s.user \in Present

\* A row is an account or absent.
LEMMA PresentRows ==
  ASSUME TypeOK
  PROVE  /\ \A u \in Users : u \in Present <=> account[u] \in Account
         /\ \A u \in Present : u \in Users /\ account[u] \in Account
<1>1. NoAccount \notin Account
  BY DEF NoAccount, Account
<1> QED
  BY <1>1 DEF TypeOK, Present

\* One row replaced by an account leaves the table well formed.
LEMMA RowReplaced ==
  ASSUME TypeOK, NEW u \in Users, NEW a \in Account, account' = [account EXCEPT ![u] = a]
  PROVE  /\ account' \in [Users -> Account \cup {NoAccount}]
         /\ account'[u] = a /\ \A v \in Users \ {u} : account'[v] = account[v]
         /\ Present' = Present \cup {u}
<1>1. /\ account' \in [Users -> Account \cup {NoAccount}]
      /\ account'[u] = a /\ \A v \in Users \ {u} : account'[v] = account[v]
  BY DEF TypeOK
<1>2. NoAccount \notin Account
  BY DEF NoAccount, Account
<1> QED
  BY <1>1, <1>2 DEF Present

\* What the handlers make of a row is a row.
LEMMA RowsOf ==
  ASSUME NEW a \in Account
  PROVE  /\ CanRotate(a) => Rotate(a) \in Account
         /\ \A b \in BOOLEAN : [a EXCEPT !.active = b] \in Account
         /\ \A role \in Roles : [a EXCEPT !.role = role] \in Account
         /\ \A h \in 0..MaxHashes : [a EXCEPT !.hash = h] \in Account
         /\ [a EXCEPT !.bound = "oauth"] \in Account
<1>1. CanRotate(a) => a.version + 1 \in 0..MaxVersion
  BY AccountsAssumption DEF CanRotate, Account
<1> QED
  BY <1>1 DEF Rotate, Account, Roles

\* So is what an OIDC sign-in leaves behind.
LEMMA SyncedRow ==
  ASSUME NEW a \in Account, CanRotate(a), NEW role \in Roles
  PROVE  Synced(a, role) \in Account
<1> DEFINE b == [a EXCEPT !.role = role, !.hash = NoPassword]
<1>1. 0 \in 0..MaxHashes
  BY AccountsAssumption
<1>2. b \in Account /\ CanRotate(b)
  BY <1>1 DEF Account, Roles, NoPassword, CanRotate
<1> HIDE DEF b
<1>3. Rotate(b) \in Account
  BY <1>2, RowsOf
<1> QED
  BY <1>3 DEF Synced, b

\* The table of a new installation.
LEMMA InitRowsInv == Init => RowsInv
<1> SUFFICES ASSUME Init PROVE RowsInv
  OBVIOUS
<1>1. 1 \in 1..MaxHashes /\ 1 \in 0..MaxHashes /\ 0 \in 0..MaxVersion /\ 0 \in 0..MaxUses
  BY AccountsAssumption
<1>2. account \in [Users -> Account \cup {NoAccount}]
  BY <1>1 DEF Init, Account
<1>3. invite \in Invite \cup {NoInvite}
  <2>1. NewInvite \in Invite
    BY <1>1 DEF Invite, NewInvite
  <2> QED
    BY <2>1 DEF Init
<1>4. /\ \A r \in Requests : parked[r] = Free
      /\ parked \in [Requests -> Parked \cup {Free}]
  BY DEF Init
<1> QED
  BY <1>1, <1>2, <1>3, <1>4 DEF Init, RowsInv, TypeOK, ActorsPresent, Free

\* The cookie of an account is a session of it.
LEMMA IssuedTypes ==
  ASSUME RowsInv, NEW u \in Users, NEW a \in Account, u \in Present', Present \subseteq Present',
         Issue(u, a)
  PROVE  issued' \subseteq Session /\ \A s \in issued' : s.user \in Present'
<1>1. [user |-> u, marker |-> a] \in Session
  BY DEF Session
<1> QED
  BY <1>1 DEF Issue, RowsInv, TypeOK

\* A request that is answered leaves the others as they are.
LEMMA AnsweredTypes ==
  ASSUME RowsInv, NEW r \in Requests, Answer(r), Present \subseteq Present'
  PROVE  parked' \in [Requests -> Parked \cup {Free}] /\ ActorsPresent'
<1>1. /\ parked' \in [Requests -> Parked \cup {Free}]
      /\ \A q \in Requests : parked'[q] = IF q = r THEN Free ELSE parked[q]
  BY DEF Answer, RowsInv, TypeOK
<1> QED
  BY <1>1 DEF RowsInv, ActorsPresent, Free

\* Accounts change their rows, and none goes.
LEMMA RowsInvStep == RowsInv /\ [Next]_vars => RowsInv' /\ Present \subseteq Present'
<1> SUFFICES ASSUME RowsInv, [Next]_vars PROVE RowsInv' /\ Present \subseteq Present'
  OBVIOUS
<1>1. /\ TypeOK /\ hashes \in Nat /\ MaxHashes \in Nat
      /\ \A u \in Present : u \in Users /\ account[u] \in Account
      /\ hashes < MaxHashes => hashes + 1 \in 1..MaxHashes /\ hashes + 1 \in 0..MaxHashes
  BY PresentRows, AccountsAssumption DEF RowsInv, TypeOK
<1>2. 0 \in 0..MaxVersion /\ 0 \in 0..MaxHashes
  BY AccountsAssumption
<1>3. InviteOpen => Consumed \in Invite
  <2>1. invite \in Invite \/ invite = NoInvite
    BY <1>1 DEF TypeOK
  <2>2. InviteOpen => invite \in Invite
    BY <2>1 DEF InviteOpen, NoInvite, NewInvite
  <2>3. InviteOpen => invite.used + 1 \in 0..MaxUses
    BY <2>2, AccountsAssumption DEF InviteOpen, Invite
  <2> QED
    BY <2>2, <2>3 DEF Consumed, Invite
\* A step of the accounts alone.
<1>4. ASSUME NEW u \in Users, NEW a \in Account, account' = [account EXCEPT ![u] = a]
      PROVE  /\ account' \in [Users -> Account \cup {NoAccount}]
             /\ Present \subseteq Present' /\ u \in Present'
  BY <1>1, <1>4, RowReplaced
<1>5. ASSUME NEW u \in Users, Register(u) PROVE RowsInv' /\ Present \subseteq Present'
  <2>1. [role |-> "member", active |-> TRUE, hash |-> hashes + 1,
         bound |-> "no", version |-> 0] \in Account
    BY <1>1, <1>2, <1>5 DEF Register, Account
  <2>2. account' \in [Users -> Account \cup {NoAccount}] /\ Present \subseteq Present'
    BY <1>4, <1>5, <2>1 DEF Register
  <2>3. invite' \in Invite \cup {NoInvite} /\ hashes' \in 1..MaxHashes
    BY <1>1, <1>3, <1>5 DEF Register, TypeOK
  <2> QED
    BY <1>5, <2>2, <2>3 DEF Register, RowsInv, TypeOK, ActorsPresent
<1>6. ASSUME RegisterFails \/ RegisterExpired \/ InvitePasses \/ DisableInvite
      PROVE  RowsInv' /\ Present \subseteq Present'
  <2>1. invite' \in Invite \cup {NoInvite}
    BY <1>1, <1>3, <1>6
       DEF RegisterFails, RegisterExpired, InvitePasses, DisableInvite, TypeOK, Invite,
           NoInvite, NewInvite
  <2>2. UNCHANGED <<account, issued, parked, hashes, demoted, asked>>
    BY <1>6 DEF RegisterFails, RegisterExpired, InvitePasses, DisableInvite
  <2> QED
    BY <2>1, <2>2 DEF RowsInv, TypeOK, ActorsPresent, Present
<1>7. ASSUME NEW u \in Users, Login(u) PROVE RowsInv' /\ Present \subseteq Present'
  <2>1. account[u] \in Account /\ u \in Present /\ Present' = Present /\ Issue(u, account[u])
    BY <1>1, <1>7 DEF Login, Present
  <2>2. issued' \subseteq Session /\ \A s \in issued' : s.user \in Present'
    BY <2>1, IssuedTypes
  <2> QED
    BY <1>7, <2>1, <2>2 DEF Login, RowsInv, TypeOK, ActorsPresent
\* The sign-ins that write a row and issue its cookie.
<1>8. ASSUME NEW u \in Users, NEW a \in Account,
             account' = [account EXCEPT ![u] = a], Issue(u, a),
             demoted' \in BOOLEAN, UNCHANGED <<parked, invite, hashes, asked>>
      PROVE  RowsInv' /\ Present \subseteq Present'
  <2>1. /\ account' \in [Users -> Account \cup {NoAccount}]
        /\ Present \subseteq Present' /\ u \in Present'
    BY <1>4, <1>8
  <2>2. issued' \subseteq Session /\ \A s \in issued' : s.user \in Present'
    BY <1>8, <2>1, IssuedTypes
  <2> QED
    BY <1>8, <2>1, <2>2 DEF RowsInv, TypeOK, ActorsPresent
<1>9. ASSUME NEW u \in Users, NEW role \in Roles, OidcLogin(u, role)
      PROVE  RowsInv' /\ Present \subseteq Present'
  <2>1. account[u] \in Account /\ CanRotate(account[u])
    BY <1>1, <1>9 DEF OidcLogin
  <2>2. Synced(account[u], role) \in Account
    BY <2>1, SyncedRow
  <2>3. account' = [account EXCEPT ![u] = Synced(account[u], role)]
    BY <1>9 DEF OidcLogin
  <2> QED
    BY <1>1, <1>8, <1>9, <2>2, <2>3 DEF OidcLogin, TypeOK
<1>10. ASSUME NEW u \in Users, NEW role \in Roles, NewOidc(u, role) \/ NewOauth(u)
       PROVE  RowsInv' /\ Present \subseteq Present'
  <2>1. PICK bound \in {"oidc", "oauth"}, rl \in Roles : NewAccount(u, bound, rl)
    BY <1>10 DEF NewOidc, NewOauth, Roles
  <2> DEFINE a == [role |-> rl, active |-> TRUE, hash |-> NoPassword,
                   bound |-> bound, version |-> 0]
  <2>2. a \in Account
    BY <1>2 DEF Account, Roles, NoPassword
  <2>3. /\ account' = [account EXCEPT ![u] = a] /\ Issue(u, a)
        /\ UNCHANGED <<parked, invite, hashes, demoted, asked>>
    BY <2>1 DEF NewAccount
  <2> HIDE DEF a
  <2> QED
    BY <1>1, <1>8, <2>2, <2>3 DEF TypeOK
<1>11. ASSUME NEW u \in Users, OauthLogin(u) PROVE RowsInv' /\ Present \subseteq Present'
  <2> DEFINE a == [account[u] EXCEPT !.bound = "oauth"]
  <2>1. a \in Account
    BY <1>1, <1>11, RowsOf DEF OauthLogin
  <2>2. /\ account' = [account EXCEPT ![u] = a] /\ Issue(u, a)
        /\ UNCHANGED <<parked, invite, hashes, demoted, asked>>
    BY <1>11 DEF OauthLogin
  <2> HIDE DEF a
  <2> QED
    BY <1>1, <1>8, <2>1, <2>2 DEF TypeOK
<1>12. ASSUME NEW r \in Requests, NEW s \in issued, NEW op \in Op, Arrive(r, s, op)
       PROVE  RowsInv' /\ Present \subseteq Present'
  <2> DEFINE seen == IF op = "change" THEN account[s.user] ELSE NoAccount
             q == [op |-> op, actor |-> s.user, seen |-> seen]
  <2>1. s.user \in Present /\ s.user \in Users /\ account[s.user] \in Account
    BY <1>1 DEF RowsInv
  <2>2. q \in Parked /\ (q.op = "change" => q.seen \in Account /\ q.actor \in Present)
    BY <2>1 DEF Parked
  <2>3. /\ parked' = [parked EXCEPT ![r] = q]
        /\ UNCHANGED <<account, issued, invite, hashes, demoted, asked>>
    BY <1>12 DEF Arrive
  <2> HIDE DEF q
  <2>4. parked' \in [Requests -> Parked \cup {Free}] /\ ActorsPresent'
    BY <2>2, <2>3 DEF RowsInv, TypeOK, ActorsPresent, Present
  <2> QED
    BY <2>3, <2>4 DEF RowsInv, TypeOK, Present
<1>13. ASSUME NEW r \in Requests, Refuse(r) PROVE RowsInv' /\ Present \subseteq Present'
  <2>1. Present' = Present
    BY <1>13 DEF Refuse, Present
  <2> QED
    BY <1>13, <2>1, AnsweredTypes DEF Refuse, RowsInv, TypeOK
\* The administration writes another account's row and is answered.
<1>14. ASSUME NEW r \in Requests, NEW u \in Users, NEW a \in Account,
              account' = [account EXCEPT ![u] = a], Answer(r),
              hashes' \in 1..MaxHashes, UNCHANGED <<issued, invite, demoted, asked>>
       PROVE  RowsInv' /\ Present \subseteq Present'
  <2>1. account' \in [Users -> Account \cup {NoAccount}] /\ Present \subseteq Present'
    BY <1>4, <1>14
  <2>2. parked' \in [Requests -> Parked \cup {Free}] /\ ActorsPresent'
    BY <1>14, <2>1, AnsweredTypes
  <2> QED
    BY <1>14, <2>1, <2>2 DEF RowsInv, TypeOK
<1>15. ASSUME NEW r \in Requests, NEW u \in Users, ToggleActive(r, u)
      PROVE  RowsInv' /\ Present \subseteq Present'
  <2> DEFINE b == [account[u] EXCEPT !.active = ~account[u].active]
  <2>1. account[u] \in Account /\ CanRotate(account[u])
    BY <1>1, <1>15 DEF ToggleActive, Administers
  <2>2. b \in Account /\ CanRotate(b)
    BY <2>1 DEF Account, CanRotate
  <2>3. /\ account' = [account EXCEPT ![u] = Rotate(b)] /\ Answer(r)
        /\ UNCHANGED <<issued, invite, hashes, demoted, asked>>
    BY <1>15 DEF ToggleActive
  <2> HIDE DEF b
  <2> QED
    BY <1>1, <1>14, <2>2, <2>3, RowsOf DEF TypeOK
<1>16. ASSUME NEW r \in Requests, NEW u \in Users, NEW role \in Roles, ChangeRole(r, u, role)
       PROVE  RowsInv' /\ Present \subseteq Present'
  <2> DEFINE b == [account[u] EXCEPT !.role = role]
  <2>1. account[u] \in Account /\ CanRotate(account[u])
    BY <1>1, <1>16 DEF ChangeRole, Administers
  <2>2. b \in Account /\ CanRotate(b)
    BY <2>1 DEF Account, CanRotate, Roles
  <2>3. /\ account' = [account EXCEPT ![u] = Rotate(b)] /\ Answer(r)
        /\ UNCHANGED <<issued, invite, hashes, demoted, asked>>
    BY <1>16 DEF ChangeRole
  <2> HIDE DEF b
  <2> QED
    BY <1>1, <1>14, <2>2, <2>3, RowsOf DEF TypeOK
<1>17. ASSUME NEW r \in Requests, NEW u \in Users, ResetPassword(r, u)
      PROVE  RowsInv' /\ Present \subseteq Present'
  <2> DEFINE b == [account[u] EXCEPT !.hash = hashes + 1]
  <2>1. account[u] \in Account /\ CanRotate(account[u]) /\ hashes < MaxHashes
    BY <1>1, <1>17 DEF ResetPassword, Administers
  <2>2. b \in Account /\ CanRotate(b)
    BY <1>1, <2>1 DEF Account, CanRotate
  <2>3. /\ account' = [account EXCEPT ![u] = Rotate(b)] /\ Answer(r)
        /\ hashes' = hashes + 1
        /\ UNCHANGED <<issued, invite, demoted, asked>>
    BY <1>17 DEF ResetPassword
  <2> HIDE DEF b
  <2> QED
    BY <1>1, <1>14, <2>1, <2>2, <2>3, RowsOf
<1>18. ASSUME NEW r \in Requests, CreateInvite(r) PROVE RowsInv' /\ Present \subseteq Present'
  <2>1. Present' = Present /\ NewInvite \in Invite
    BY <1>18, AccountsAssumption DEF CreateInvite, Present, Invite, NewInvite
  <2>2. invite' \in Invite \cup {NoInvite}
    BY <1>18, <2>1 DEF CreateInvite, RowsInv, TypeOK
  <2>3. parked' \in [Requests -> Parked \cup {Free}] /\ ActorsPresent'
    BY <1>18, <2>1, AnsweredTypes DEF CreateInvite
  <2> QED
    BY <1>18, <2>1, <2>2, <2>3 DEF CreateInvite, RowsInv, TypeOK
<1>19. ASSUME NEW r \in Requests, ChangePassword(r) PROVE RowsInv' /\ Present \subseteq Present'
  <2> DEFINE u == parked[r].actor
             b == [parked[r].seen EXCEPT !.hash = hashes + 1]
             a == Rotate(b)
             row == [account[u] EXCEPT !.hash = a.hash, !.version = a.version]
  <2>1. /\ parked[r].seen \in Account /\ u \in Present /\ u \in Users
        /\ account[u] \in Account /\ CanRotate(parked[r].seen) /\ hashes < MaxHashes
    BY <1>1, <1>19 DEF ChangePassword, RowsInv, ActorsPresent
  <2>2. b \in Account /\ CanRotate(b)
    BY <1>1, <2>1 DEF Account, CanRotate
  <2>3. a \in Account
    BY <2>2, RowsOf
  <2>4. /\ account' = [account EXCEPT ![u] = row] /\ Issue(u, a)
        /\ hashes' = hashes + 1 /\ Answer(r) /\ UNCHANGED <<invite, demoted, asked>>
    BY <1>1, <1>19, <2>1 DEF ChangePassword, TypeOK
  <2> HIDE DEF a
  <2>5. row \in Account
    BY <2>1, <2>3 DEF Account
  <2> HIDE DEF row, u
  <2>6. /\ account' \in [Users -> Account \cup {NoAccount}]
        /\ Present \subseteq Present' /\ u \in Present'
    BY <1>4, <2>1, <2>4, <2>5
  <2>7. issued' \subseteq Session /\ \A s \in issued' : s.user \in Present'
    BY <2>1, <2>3, <2>4, <2>6, IssuedTypes
  <2>8. parked' \in [Requests -> Parked \cup {Free}] /\ ActorsPresent'
    BY <2>4, <2>6, AnsweredTypes
  <2> QED
    BY <1>1, <2>1, <2>4, <2>6, <2>7, <2>8 DEF RowsInv, TypeOK
<1>20. CASE UNCHANGED vars
  BY <1>20 DEF vars, RowsInv, TypeOK, ActorsPresent, Present
<1> QED
  BY <1>5, <1>6, <1>7, <1>9, <1>10, <1>11, <1>12, <1>13, <1>15, <1>16, <1>17, <1>18,
     <1>19, <1>20 DEF Next, Roles

\* So the first layer holds in every state.
LEMMA RowsInvariant == Spec => []RowsInv
  BY InitRowsInv, RowsInvStep, PTL DEF Spec

\* Every row, cookie, parked request and invitation is well formed at every step.
THEOREM AccountsTypes == Spec => []TypeOK
<1>1. RowsInv => TypeOK
  BY DEF RowsInv
<1> QED
  BY <1>1, RowsInvariant, PTL

-----------------------------------------------------------------------------
(***************************************************************************)
(* An administrator remains.                                               *)
(***************************************************************************)

\* A row may change if it stays an administrator's or is not the last one.
LEMMA AdminKept ==
  ASSUME TypeOK, ActiveAdmins # {}, NEW u \in Users, NEW a \in Account,
         account' = [account EXCEPT ![u] = a],
         u \in ActiveAdmins => (a.role = "admin" /\ a.active) \/ ~LastAdmin(u)
  PROVE  ActiveAdmins' # {}
<1>1. /\ account'[u] = a /\ \A v \in Users \ {u} : account'[v] = account[v]
      /\ Present' = Present \cup {u}
  BY RowReplaced
<1>2. PICK v \in ActiveAdmins : v # u \/ (a.role = "admin" /\ a.active)
  <2>1. CASE ActiveAdmins \subseteq {u}
    <3>1. ActiveAdmins = {u}
      BY <2>1
    <3>2. LastAdmin(u)
      BY <3>1, FS_Singleton DEF LastAdmin
    <3> QED
      BY <3>1, <3>2
  <2>2. CASE ~(ActiveAdmins \subseteq {u})
    BY <2>2
  <2> QED
    BY <2>1, <2>2
<1>3. v \in Users /\ v \in Present /\ account[v].role = "admin" /\ account[v].active
  BY DEF ActiveAdmins, Present
<1>4. v \in ActiveAdmins'
  BY <1>1, <1>2, <1>3 DEF ActiveAdmins
<1> QED
  BY <1>4

\* Every handler that takes a role or an account away counts first, the
\* sign-in through OIDC excepted.
LEMMA AdminStep == RowsInv /\ AdminRemains /\ [Next]_vars => AdminRemains'
<1> SUFFICES ASSUME RowsInv, AdminRemains, [Next]_vars, ~demoted' PROVE ActiveAdmins' # {}
  BY DEF AdminRemains
<1> USE DEF RowsInv
<1>1. demoted => demoted'
  <2>1. CASE \E u \in Users, role \in Roles : OidcLogin(u, role)
    BY <2>1, Zenon DEF OidcLogin
  <2>2. CASE UNCHANGED demoted
    BY <2>2
  <2> QED
    BY <2>1, <2>2, Zenon
       DEF Next, Register, Login, OauthLogin, NewOauth, NewOidc, NewAccount,
           RegisterFails, RegisterExpired, InvitePasses, DisableInvite, Arrive, Refuse,
           ChangePassword, CreateInvite, ToggleActive, ResetPassword, ChangeRole, vars
<1>2. ActiveAdmins # {}
  BY <1>1 DEF AdminRemains
<1>3. /\ TypeOK /\ NoAccount \notin Account
      /\ \A u \in Present : u \in Users /\ account[u] \in Account
      /\ \A u \in Users : u \notin Present => u \notin ActiveAdmins
  BY PresentRows DEF NoAccount, Account, ActiveAdmins
\* One row changes, and not from an active administrator's.
<1>4. ASSUME NEW u \in Users, NEW a, account' = [account EXCEPT ![u] = a],
             u \in Present => a.role = account[u].role /\ a.active = account[u].active
      PROVE  ActiveAdmins' # {}
  <2>1. PICK v \in ActiveAdmins : TRUE
    BY <1>2
  <2>2. v \in Present /\ account[v].role = "admin" /\ account[v].active /\ v \in Users
    BY <1>3 DEF ActiveAdmins
  <2>3. account'[v] = IF v = u THEN a ELSE account[v]
    BY <1>3, <1>4, <2>2 DEF TypeOK
  <2>4. account'[v].role = "admin" /\ account'[v].active
    BY <1>4, <2>2, <2>3
  <2>5. account'[v] # NoAccount
    BY <2>4 DEF NoAccount
  <2> QED
    BY <2>2, <2>4, <2>5 DEF ActiveAdmins, Present
<1>5. CASE account' = account
  BY <1>2, <1>5 DEF ActiveAdmins, Present
<1>6. ASSUME NEW u \in Users,
             Register(u) \/ OauthLogin(u) \/ NewOauth(u) \/ \E role \in Roles : NewOidc(u, role)
      PROVE  ActiveAdmins' # {}
  <2>1. PICK a : /\ account' = [account EXCEPT ![u] = a]
                 /\ u \in Present => a.role = account[u].role /\ a.active = account[u].active
    <3>1. CASE Register(u)
      BY <3>1 DEF Register
    <3>2. CASE OauthLogin(u)
      <4> DEFINE b == [account[u] EXCEPT !.bound = "oauth"]
      <4>1. account[u] \in Account /\ account' = [account EXCEPT ![u] = b]
        BY <1>3, <3>2 DEF OauthLogin
      <4>2. b.role = account[u].role /\ b.active = account[u].active
        BY <4>1 DEF Account
      <4> HIDE DEF b
      <4> QED
        BY <4>1, <4>2
    <3>3. CASE NewOauth(u) \/ \E role \in Roles : NewOidc(u, role)
      BY <3>3 DEF NewOauth, NewOidc, NewAccount
    <3> QED
      BY <1>6, <3>1, <3>2, <3>3
  <2> QED
    BY <1>4, <2>1
<1>7. ASSUME NEW u \in Users, NEW role \in Roles, OidcLogin(u, role) PROVE ActiveAdmins' # {}
  <2>1. account[u] \in Account /\ account' = [account EXCEPT ![u] = Synced(account[u], role)]
    BY <1>3, <1>7 DEF OidcLogin
  <2>2. account[u].role = "admin" => role = "admin"
    BY <1>7 DEF OidcLogin, Roles
  <2>3. Synced(account[u], role) \in Account
    BY <1>7, <2>1, SyncedRow DEF OidcLogin
  <2>4. account[u].role = "admin" /\ account[u].active =>
           Synced(account[u], role).role = "admin" /\ Synced(account[u], role).active
    BY <2>1, <2>2 DEF Synced, Rotate, Account
  <2> QED
    BY <1>2, <1>3, <2>1, <2>3, <2>4, AdminKept DEF ActiveAdmins
<1>8. ASSUME NEW r \in Requests, NEW u \in Users, ToggleActive(r, u) PROVE ActiveAdmins' # {}
  <2> DEFINE b == [account[u] EXCEPT !.active = ~account[u].active]
  <2>1. /\ account[u] \in Account /\ ~LastAdmin(u) /\ CanRotate(account[u])
        /\ account' = [account EXCEPT ![u] = Rotate(b)]
    BY <1>3, <1>8 DEF ToggleActive, Administers
  <2>2. b \in Account /\ CanRotate(b)
    BY <2>1 DEF Account, CanRotate
  <2> HIDE DEF b
  <2> QED
    BY <1>2, <1>3, <2>1, <2>2, RowsOf, AdminKept
<1>9. ASSUME NEW r \in Requests, NEW u \in Users, NEW role \in Roles, ChangeRole(r, u, role)
      PROVE  ActiveAdmins' # {}
  <2> DEFINE b == [account[u] EXCEPT !.role = role]
  <2>1. /\ account[u] \in Account /\ CanRotate(account[u])
        /\ role = "member" => ~LastAdmin(u)
        /\ account' = [account EXCEPT ![u] = Rotate(b)]
    BY <1>3, <1>9 DEF ChangeRole, Administers
  <2>2. b \in Account /\ CanRotate(b) /\ b.role = role /\ b.active = account[u].active
    BY <2>1 DEF Account, CanRotate, Roles
  <2> HIDE DEF b
  <2>3. Rotate(b) \in Account /\ Rotate(b).role = role /\ Rotate(b).active = account[u].active
    BY <2>2, RowsOf DEF Rotate, Account
  <2> QED
    BY <1>2, <1>3, <2>1, <2>3, AdminKept DEF ActiveAdmins, Roles
<1>10. ASSUME NEW r \in Requests, NEW u \in Users, ResetPassword(r, u) PROVE ActiveAdmins' # {}
  <2> DEFINE a == Rotate([account[u] EXCEPT !.hash = hashes + 1])
  <2>1. account[u] \in Account /\ account' = [account EXCEPT ![u] = a]
    BY <1>3, <1>10 DEF ResetPassword, Administers
  <2>2. a.role = account[u].role /\ a.active = account[u].active
    BY <2>1 DEF Rotate, Account
  <2> HIDE DEF a
  <2> QED
    BY <1>4, <2>1, <2>2
<1>11. ASSUME NEW r \in Requests, ChangePassword(r) PROVE ActiveAdmins' # {}
  <2> DEFINE u == parked[r].actor
             n == Rotate([parked[r].seen EXCEPT !.hash = hashes + 1])
             a == [account[u] EXCEPT !.hash = n.hash, !.version = n.version]
  <2>1. u \in Users /\ account[u] \in Account
    BY <1>3, <1>11 DEF ChangePassword, ActorsPresent
  <2>2. account' = [account EXCEPT ![u] = a]
    BY <1>11, <2>1 DEF ChangePassword, TypeOK
  <2>3. a.role = account[u].role /\ a.active = account[u].active
    BY <2>1 DEF Account
  <2> HIDE DEF a, u
  <2> QED
    BY <1>4, <2>1, <2>2, <2>3
<1>12. ASSUME \/ \E u \in Users : Login(u)
              \/ RegisterFails \/ RegisterExpired \/ InvitePasses \/ DisableInvite
              \/ \E r \in Requests, s \in issued, op \in Op : Arrive(r, s, op)
              \/ \E r \in Requests : Refuse(r) \/ CreateInvite(r)
              \/ UNCHANGED vars
       PROVE  account' = account
  BY <1>12 DEF Login, RegisterFails, RegisterExpired, InvitePasses, DisableInvite, Arrive,
               Refuse, CreateInvite, vars
<1> QED
  BY <1>5, <1>6, <1>7, <1>8, <1>9, <1>10, <1>11, <1>12 DEF Next

\* As long as OIDC demotes nobody, an active administrator remains
\* (main.py:2362, :2405).
THEOREM AdminTheorem == Spec => []AdminRemains
<1>1. Init => AdminRemains
  <2> SUFFICES ASSUME Init PROVE Root \in ActiveAdmins
    BY DEF AdminRemains
  <2>1. account[Root].role = "admin" /\ account[Root].active
    BY AccountsAssumption DEF Init
  <2> QED
    BY <2>1, AccountsAssumption DEF ActiveAdmins, Present, NoAccount
<1> QED
  BY <1>1, AdminStep, RowsInvariant, PTL DEF Spec

-----------------------------------------------------------------------------
(***************************************************************************)
(* An ended session stays ended.  The version of an account may go back, when *)
(* change_password writes what it read before its await; but it does so with *)
(* a hash that no cookie has seen.                                          *)
(***************************************************************************)

\* What one step may make of an account: nothing; a higher version; a new hash,
\* with any version; or a binding to Google or GitHub.
Evolves(a, b, h, next) ==
    /\ b.bound = "oidc" <=> a.bound = "oidc"
    /\ a.bound = "oauth" => b.bound = "oauth"
    /\ b.hash <= next /\ h <= next
    /\ b.bound = "oidc" => b.hash = NoPassword
    /\ \/ b = a
       \/ b.hash = a.hash /\ b.version = a.version + 1
       \/ b.hash > h
       \/ b = [a EXCEPT !.bound = "oauth"]

\* A cookie does not come from the future of its account.
CookieOf(m, a, h) ==
    /\ m.hash <= h
    /\ m.hash = a.hash => m.version <= a.version
    /\ m.bound = "oauth" => a.bound = "oauth"

\* What a waiting change_password still knows about its account.
SeenOf(n, a) ==
    /\ n.bound = "oidc" <=> a.bound = "oidc"
    /\ n.bound = "oidc" => n.hash = NoPassword
    /\ n.bound = "oauth" => a.bound = "oauth"

HistoryInv ==
    /\ \A u \in Present \ Legacy : /\ account[u].hash <= hashes
                                   /\ account[u].bound = "oidc" => account[u].hash = NoPassword
    /\ \A s \in issued : s.user \notin Legacy => CookieOf(s.marker, account[s.user], hashes)
    /\ \A r \in Requests : parked[r].op = "change" /\ parked[r].actor \notin Legacy =>
          SeenOf(parked[r].seen, account[parked[r].actor])

\* The three facts about one account that a step has to keep.
LEMMA CookieKept ==
  ASSUME NEW m \in Account, NEW a \in Account, NEW b \in Account,
         NEW h \in Nat, NEW next \in Nat, CookieOf(m, a, h), Evolves(a, b, h, next)
  PROVE  CookieOf(m, b, next) /\ (m # a => m # b)
<1>1. /\ m.hash \in Nat /\ a.hash \in Nat /\ b.hash \in Nat
      /\ m.version \in Nat /\ a.version \in Nat /\ b.version \in Nat
  BY AccountsAssumption DEF Account
<1>2. CASE b = a
  BY <1>1, <1>2 DEF CookieOf, Evolves
<1>3. CASE b.hash = a.hash /\ b.version = a.version + 1
  BY <1>1, <1>3 DEF CookieOf, Evolves
<1>4. CASE b.hash > h
  BY <1>1, <1>4 DEF CookieOf, Evolves
<1>5. CASE b = [a EXCEPT !.bound = "oauth"]
  <2>1. /\ b.hash = a.hash /\ b.version = a.version /\ b.bound = "oauth"
        /\ b.role = a.role /\ b.active = a.active
    BY <1>5 DEF Account
  <2>2. m = b => a.bound = "oauth"
    BY <2>1 DEF CookieOf
  <2>3. m = b => m = a
    BY <2>1, <2>2 DEF Account
  <2> QED
    BY <1>1, <2>1, <2>3 DEF CookieOf, Evolves
<1> QED
  BY <1>2, <1>3, <1>4, <1>5 DEF Evolves

\* What a row was read as stays an earlier stage of what it becomes.
LEMMA SeenKept ==
  ASSUME NEW n, NEW a, NEW b, NEW h, NEW next, SeenOf(n, a), Evolves(a, b, h, next)
  PROVE  SeenOf(n, b)
BY DEF SeenOf, Evolves

\* An account that stays as it is.
LEMMA EvolvesNot ==
  ASSUME NEW a, NEW h \in Nat, NEW next \in Nat, h <= next, a.hash \in Nat,
         a.hash <= h /\ (a.bound = "oidc" => a.hash = NoPassword)
  PROVE  Evolves(a, a, h, next)
BY DEF Evolves

\* Every handler, seen from one account.
LEMMA EvolveStep ==
  ASSUME RowsInv, HistoryInv, [Next]_vars, NEW v \in Present, v \notin Legacy
  PROVE  Evolves(account[v], account'[v], hashes, hashes')
<1> USE DEF RowsInv
<1>1. /\ TypeOK /\ v \in Users /\ account[v] \in Account /\ hashes \in Nat
      /\ account[v].hash \in Nat /\ account[v].version \in Nat /\ account[v].hash <= hashes
      /\ account[v].bound = "oidc" => account[v].hash = NoPassword
  BY PresentRows, AccountsAssumption DEF Account, HistoryInv, TypeOK
<1>2. CASE account'[v] = account[v] /\ hashes' \in {hashes, hashes + 1}
  <2>1. hashes' \in Nat /\ hashes <= hashes'
    BY <1>1, <1>2
  <2> QED
    BY <1>1, <1>2, <2>1, EvolvesNot
<1>3. ASSUME NEW u \in Users, Register(u) \/ NewOauth(u) \/ \E role \in Roles : NewOidc(u, role)
      PROVE  account'[v] = account[v] /\ hashes' \in {hashes, hashes + 1}
  BY <1>1, <1>3 DEF Register, NewOauth, NewOidc, NewAccount, TypeOK
<1>4. ASSUME \/ \E u \in Users : Login(u)
             \/ RegisterFails \/ RegisterExpired \/ InvitePasses \/ DisableInvite
             \/ \E r \in Requests, s \in issued, op \in Op : Arrive(r, s, op)
             \/ \E r \in Requests : Refuse(r) \/ CreateInvite(r)
             \/ UNCHANGED vars
      PROVE  account'[v] = account[v] /\ hashes' \in {hashes, hashes + 1}
  BY <1>4 DEF Login, RegisterFails, RegisterExpired, InvitePasses, DisableInvite, Arrive,
              Refuse, CreateInvite, vars
\* One row changes into a.
<1>5. ASSUME NEW u \in Users, NEW a, account' = [account EXCEPT ![u] = a],
             hashes' \in {hashes, hashes + 1},
             u = v => Evolves(account[v], a, hashes, hashes')
      PROVE  Evolves(account[v], account'[v], hashes, hashes')
  <2>1. account'[v] = IF u = v THEN a ELSE account[v]
    BY <1>1, <1>5 DEF TypeOK
  <2> QED
    BY <1>2, <1>5, <2>1
<1>6. ASSUME NEW u \in Users, NEW role \in Roles, OidcLogin(u, role)
      PROVE  Evolves(account[v], account'[v], hashes, hashes')
  <2> DEFINE a == Synced(account[u], role)
  <2>1. /\ account' = [account EXCEPT ![u] = a] /\ hashes' = hashes
        /\ account[u].bound = "oidc"
    BY <1>6 DEF OidcLogin
  <2>2. u = v => Evolves(account[v], a, hashes, hashes')
    <3> SUFFICES ASSUME u = v PROVE Evolves(account[v], a, hashes, hashes')
      OBVIOUS
    <3>1. /\ account[v].hash = NoPassword /\ account[v].bound = "oidc"
      BY <1>1, <2>1
    <3>2. \/ a = account[v]
          \/ /\ a.hash = NoPassword /\ a.version = account[v].version + 1
             /\ a.bound = "oidc"
      BY <1>1, <3>1 DEF Synced, Rotate, Account
    <3> HIDE DEF a
    <3> QED
      BY <1>1, <2>1, <3>1, <3>2 DEF Evolves, NoPassword
  <2> HIDE DEF a
  <2> QED
    BY <1>5, <2>1, <2>2
<1>7. ASSUME NEW u \in Users, OauthLogin(u)
      PROVE  Evolves(account[v], account'[v], hashes, hashes')
  <2> DEFINE a == [account[u] EXCEPT !.bound = "oauth"]
  <2>1. /\ account' = [account EXCEPT ![u] = a] /\ hashes' = hashes
        /\ account[u].bound # "oidc"
    BY <1>7 DEF OauthLogin
  <2>2. u = v => Evolves(account[v], a, hashes, hashes')
    <3> SUFFICES ASSUME u = v PROVE Evolves(account[v], a, hashes, hashes')
      OBVIOUS
    <3>1. a = [account[v] EXCEPT !.bound = "oauth"] /\ a.bound = "oauth"
          /\ a.hash = account[v].hash
      BY <1>1 DEF Account
    <3> HIDE DEF a
    <3> QED
      BY <1>1, <2>1, <3>1 DEF Evolves
  <2> HIDE DEF a
  <2> QED
    BY <1>5, <2>1, <2>2
\* The administration rotates, with the same hash or a new one.
<1>8. ASSUME NEW u \in Users, NEW a, account' = [account EXCEPT ![u] = a],
             u = v => /\ a.bound = account[v].bound
                      /\ \/ /\ a.hash = account[v].hash /\ a.version = account[v].version + 1
                            /\ hashes' = hashes
                         \/ /\ a.hash = hashes + 1 /\ hashes' = hashes + 1
                            /\ a.bound # "oidc",
             hashes' \in {hashes, hashes + 1}
      PROVE  Evolves(account[v], account'[v], hashes, hashes')
  <2>1. u = v => Evolves(account[v], a, hashes, hashes')
    BY <1>1, <1>8 DEF Evolves
  <2> QED
    BY <1>5, <1>8, <2>1
<1>9. ASSUME NEW r \in Requests, NEW u \in Users, ToggleActive(r, u)
      PROVE  Evolves(account[v], account'[v], hashes, hashes')
  <2> DEFINE a == Rotate([account[u] EXCEPT !.active = ~account[u].active])
  <2>1. account' = [account EXCEPT ![u] = a] /\ hashes' = hashes
    BY <1>9 DEF ToggleActive
  <2>2. u = v => /\ a.bound = account[v].bound /\ a.hash = account[v].hash
                 /\ a.version = account[v].version + 1
    BY <1>1 DEF Rotate, Account
  <2> HIDE DEF a
  <2> QED
    BY <1>8, <2>1, <2>2
<1>10. ASSUME NEW r \in Requests, NEW u \in Users, NEW role \in Roles, ChangeRole(r, u, role)
       PROVE  Evolves(account[v], account'[v], hashes, hashes')
  <2> DEFINE a == Rotate([account[u] EXCEPT !.role = role])
  <2>1. account' = [account EXCEPT ![u] = a] /\ hashes' = hashes
    BY <1>10 DEF ChangeRole
  <2>2. u = v => /\ a.bound = account[v].bound /\ a.hash = account[v].hash
                 /\ a.version = account[v].version + 1
    BY <1>1 DEF Rotate, Account
  <2> HIDE DEF a
  <2> QED
    BY <1>8, <2>1, <2>2
<1>11. ASSUME NEW r \in Requests, NEW u \in Users, ResetPassword(r, u)
       PROVE  Evolves(account[v], account'[v], hashes, hashes')
  <2> DEFINE a == Rotate([account[u] EXCEPT !.hash = hashes + 1])
  <2>1. account' = [account EXCEPT ![u] = a] /\ hashes' = hashes + 1 /\ account[u].bound = "no"
    BY <1>11 DEF ResetPassword
  <2>2. u = v => a.bound = account[v].bound /\ a.hash = hashes + 1
    BY <1>1 DEF Rotate, Account
  <2> HIDE DEF a
  <2> QED
    BY <1>8, <2>1, <2>2
<1>12. ASSUME NEW r \in Requests, ChangePassword(r)
       PROVE  Evolves(account[v], account'[v], hashes, hashes')
  <2> DEFINE u == parked[r].actor
             n == Rotate([parked[r].seen EXCEPT !.hash = hashes + 1])
             a == [account[u] EXCEPT !.hash = n.hash, !.version = n.version]
  <2>1. /\ u \in Present /\ parked[r].op = "change" /\ parked[r].seen \in Account
        /\ parked[r].seen.hash # NoPassword /\ hashes' = hashes + 1
    BY <1>12 DEF ChangePassword, ActorsPresent
  <2>2. u \in Users /\ account[u] \in Account /\ n.hash = hashes + 1
    BY <2>1, PresentRows DEF Rotate, Account
  <2>3. account' = [account EXCEPT ![u] = a]
    BY <1>12, <2>2 DEF ChangePassword, TypeOK
  <2>4. u = v => a.bound = account[v].bound /\ a.hash = hashes + 1
    BY <2>2 DEF Account
  <2>5. u = v => account[v].bound # "oidc"
    BY <2>1 DEF HistoryInv, SeenOf
  <2> HIDE DEF a, u, n
  <2> QED
    BY <1>8, <2>1, <2>2, <2>3, <2>4, <2>5
<1> QED
  BY <1>2, <1>3, <1>4, <1>6, <1>7, <1>9, <1>10, <1>11, <1>12 DEF Next

\* A row that a step has added.
LEMMA NewRow ==
  ASSUME RowsInv, [Next]_vars, NEW v \in Present', v \notin Present
  PROVE  account'[v].hash <= hashes' /\ (account'[v].bound = "oidc" => account'[v].hash = NoPassword)
<1>1. /\ TypeOK /\ hashes \in Nat /\ v \in Users /\ account[v] = NoAccount
      /\ account'[v] # NoAccount
  BY AccountsAssumption DEF RowsInv, TypeOK, Present
\* Only v's own row can have been written, and only by these.
<1>2. ASSUME NEW u \in Present, NEW a, account' = [account EXCEPT ![u] = a] PROVE FALSE
  BY <1>1, <1>2 DEF TypeOK, Present
<1>3. ASSUME NEW u \in Users, Register(u)
      PROVE  account'[v].hash = hashes' /\ account'[v].bound = "no" /\ hashes' = hashes + 1
  <2>1. u = v
    BY <1>1, <1>3 DEF Register, TypeOK
  <2> QED
    BY <1>1, <1>3, <2>1 DEF Register, TypeOK
<1>4. ASSUME NEW u \in Users, NewOauth(u) \/ \E role \in Roles : NewOidc(u, role)
      PROVE  account'[v].hash = NoPassword /\ hashes' = hashes
  <2>1. PICK a : a.hash = NoPassword /\ account' = [account EXCEPT ![u] = a] /\ hashes' = hashes
    BY <1>4 DEF NewOauth, NewOidc, NewAccount
  <2>2. u = v
    BY <1>1, <2>1 DEF TypeOK
  <2> QED
    BY <1>1, <2>1, <2>2 DEF TypeOK
<1>5. ASSUME NEW u \in Users, (\E role \in Roles : OidcLogin(u, role)) \/ OauthLogin(u) PROVE FALSE
  BY <1>2, <1>5 DEF OidcLogin, OauthLogin
<1>6. ASSUME NEW r \in Requests, NEW u \in Users,
             \/ ToggleActive(r, u) \/ ResetPassword(r, u)
             \/ \E role \in Roles : ChangeRole(r, u, role)
      PROVE  FALSE
  BY <1>2, <1>6 DEF ToggleActive, ResetPassword, ChangeRole, Administers
<1>7. ASSUME NEW r \in Requests, ChangePassword(r) PROVE FALSE
  <2> DEFINE u == parked[r].actor
             n == Rotate([parked[r].seen EXCEPT !.hash = hashes + 1])
  <2>1. u \in Present /\ account' = [account EXCEPT ![u].hash = n.hash, ![u].version = n.version]
    BY <1>7 DEF ChangePassword, RowsInv, ActorsPresent
  <2> HIDE DEF u, n
  <2> QED
    BY <1>1, <2>1 DEF TypeOK, Present
<1>8. ASSUME \/ \E u \in Users : Login(u)
             \/ RegisterFails \/ RegisterExpired \/ InvitePasses \/ DisableInvite
             \/ \E r \in Requests, s \in issued, op \in Op : Arrive(r, s, op)
             \/ \E r \in Requests : Refuse(r) \/ CreateInvite(r)
             \/ UNCHANGED vars
      PROVE  FALSE
  BY <1>1, <1>8 DEF Login, RegisterFails, RegisterExpired, InvitePasses, DisableInvite, Arrive,
                    Refuse, CreateInvite, vars
<1>9. \/ \E u \in Users : Register(u)
      \/ \E u \in Users : NewOauth(u) \/ \E role \in Roles : NewOidc(u, role)
  BY <1>5, <1>6, <1>7, <1>8 DEF Next
<1> QED
  BY <1>1, <1>3, <1>4, <1>9 DEF NoPassword

\* The cookie of the row as it now is.
LEMMA OwnCookie ==
  ASSUME NEW a \in Account, NEW h, a.hash <= h
  PROVE  CookieOf(a, a, h)
<1>1. a.version \in Nat
  BY AccountsAssumption DEF Account
<1> QED
  BY <1>1 DEF CookieOf

\* A cookie that a step hands out is of its account as the step leaves it.
LEMMA NewCookie ==
  ASSUME RowsInv, HistoryInv, [Next]_vars, NEW s \in issued', s \notin issued,
         s.user \notin Legacy
  PROVE  CookieOf(s.marker, account'[s.user], hashes')
<1>1. /\ TypeOK /\ hashes \in Nat /\ TypeOK' /\ s.user \in Present' /\ s.user \in Users
      /\ s.marker \in Account
  BY RowsInvStep, AccountsAssumption DEF RowsInv, TypeOK, Session
<1>2. account'[s.user] \in Account
  BY <1>1 DEF TypeOK, Present
<1>3. account'[s.user].hash <= hashes'
  <2>1. CASE s.user \in Present
    BY <2>1, EvolveStep DEF Evolves
  <2>2. CASE s.user \notin Present
    BY <1>1, <2>2, NewRow
  <2> QED
    BY <2>1, <2>2
<1>4. ASSUME NEW u, NEW a, Issue(u, a) PROVE s = [user |-> u, marker |-> a]
  BY <1>4 DEF Issue
<1>5. ASSUME s.marker = account'[s.user] PROVE CookieOf(s.marker, account'[s.user], hashes')
  BY <1>2, <1>3, <1>5, OwnCookie
<1>6. ASSUME NEW u \in Users,
             \/ Login(u) \/ OauthLogin(u) \/ NewOauth(u)
             \/ \E role \in Roles : OidcLogin(u, role) \/ NewOidc(u, role)
      PROVE  s.marker = account'[s.user]
  <2>1. PICK a : Issue(u, a) /\ account'[u] = a
    <3>1. CASE Login(u)
      BY <3>1 DEF Login
    <3>2. CASE OauthLogin(u) \/ NewOauth(u)
      BY <1>1, <3>2 DEF OauthLogin, NewOauth, NewAccount, TypeOK
    <3>3. CASE \E role \in Roles : OidcLogin(u, role) \/ NewOidc(u, role)
      BY <1>1, <3>3 DEF OidcLogin, NewOidc, NewAccount, TypeOK
    <3> QED
      BY <1>6, <3>1, <3>2, <3>3
  <2> QED
    BY <1>4, <2>1
<1>7. ASSUME NEW r \in Requests, ChangePassword(r)
      PROVE  CookieOf(s.marker, account'[s.user], hashes')
  <2> DEFINE u == parked[r].actor
             seen == parked[r].seen
             n == Rotate([seen EXCEPT !.hash = hashes + 1])
  <2>1. /\ parked[r].op = "change" /\ seen \in Account /\ u \in Present
        /\ Issue(u, n) /\ hashes' = hashes + 1
        /\ account' = [account EXCEPT ![u].hash = n.hash, ![u].version = n.version]
    BY <1>7 DEF ChangePassword, RowsInv, ActorsPresent
  <2>2. n.hash = hashes' /\ n.version \in Nat /\ n.bound = seen.bound
    BY <2>1, AccountsAssumption DEF Rotate, Account
  <2>3. s.user = u /\ s.marker = n
    BY <1>4, <2>1
  <2>4. u \in Users /\ account[u] \in Account /\ SeenOf(seen, account[u])
    BY <1>1, <2>1, <2>3, PresentRows DEF HistoryInv
  <2> HIDE DEF n, u, seen
  <2>5. /\ account'[u].hash = n.hash /\ account'[u].version = n.version
        /\ account'[u].bound = account[u].bound
    BY <1>1, <2>1, <2>4 DEF TypeOK, Account
  <2> QED
    BY <1>1, <2>1, <2>2, <2>3, <2>4, <2>5 DEF CookieOf, SeenOf
<1>8. ASSUME \/ \E u \in Users : Register(u)
             \/ RegisterFails \/ RegisterExpired \/ InvitePasses \/ DisableInvite
             \/ \E r \in Requests, t \in issued, op \in Op : Arrive(r, t, op)
             \/ \E r \in Requests : Refuse(r) \/ CreateInvite(r)
             \/ \E r \in Requests, u \in Users : ToggleActive(r, u) \/ ResetPassword(r, u)
             \/ \E r \in Requests, u \in Users, role \in Roles : ChangeRole(r, u, role)
             \/ UNCHANGED vars
      PROVE  issued' = issued
  BY <1>8 DEF Register, RegisterFails, RegisterExpired, InvitePasses, DisableInvite, Arrive,
              Refuse, CreateInvite, ToggleActive, ResetPassword, ChangeRole, vars
<1> QED
  BY <1>5, <1>6, <1>7, <1>8 DEF Next

\* A waiting change_password has waited before, or has just read its actor.
LEMMA ParkedStep ==
  ASSUME RowsInv, [Next]_vars, NEW r \in Requests, parked'[r].op = "change"
  PROVE  \/ parked'[r] = parked[r]
         \/ /\ account' = account /\ parked'[r].actor \in Present
            /\ parked'[r].seen = account[parked'[r].actor]
<1>1. TypeOK /\ Free.op # "change"
  BY DEF RowsInv, Free
<1>2. ASSUME NEW q \in Requests, Answer(q) PROVE parked'[r] = parked[r]
  BY <1>1, <1>2 DEF Answer, TypeOK
<1>3. ASSUME NEW q \in Requests, NEW u \in Users,
             \/ Refuse(q) \/ ChangePassword(q) \/ CreateInvite(q)
             \/ ToggleActive(q, u) \/ ResetPassword(q, u)
             \/ \E role \in Roles : ChangeRole(q, u, role)
      PROVE  parked'[r] = parked[r]
  BY <1>2, <1>3 DEF Refuse, ChangePassword, CreateInvite, ToggleActive, ResetPassword, ChangeRole
<1>4. ASSUME NEW q \in Requests, NEW s \in issued, NEW op \in Op, Arrive(q, s, op),
             parked'[r] # parked[r]
      PROVE  /\ account' = account /\ parked'[r].actor \in Present
             /\ parked'[r].seen = account[parked'[r].actor]
  <2>1. /\ q = r /\ account' = account
        /\ parked'[r] = [op |-> op, actor |-> s.user,
                         seen |-> IF op = "change" THEN account[s.user] ELSE NoAccount]
    BY <1>1, <1>4 DEF Arrive, TypeOK
  <2>2. s.user \in Present
    BY DEF RowsInv
  <2> QED
    BY <2>1, <2>2
<1>5. ASSUME \/ \E u \in Users : Register(u) \/ Login(u) \/ OauthLogin(u) \/ NewOauth(u)
             \/ \E u \in Users, role \in Roles : OidcLogin(u, role) \/ NewOidc(u, role)
             \/ RegisterFails \/ RegisterExpired \/ InvitePasses \/ DisableInvite
             \/ UNCHANGED vars
      PROVE  parked'[r] = parked[r]
  BY <1>5 DEF Register, Login, OauthLogin, NewOauth, OidcLogin, NewOidc, NewAccount,
              RegisterFails, RegisterExpired, InvitePasses, DisableInvite, vars
<1>6. Users # {}
  BY AccountsAssumption
<1> QED
  BY <1>3, <1>4, <1>5, <1>6 DEF Next

\* The one password so far is the bootstrap administrator's.
LEMMA InitHistoryInv == Init => HistoryInv
<1> SUFFICES ASSUME Init PROVE HistoryInv
  OBVIOUS
<1>1. \A u \in Present \ Legacy : account[u].hash = 1 /\ account[u].bound = "no"
  BY DEF Init, Present
<1>2. issued = {} /\ hashes = 1 /\ \A r \in Requests : parked[r].op # "change"
  BY DEF Init, Free
<1> QED
  BY <1>1, <1>2 DEF HistoryInv

\* Every handler keeps what rows, cookies and waiting requests know of each other.
LEMMA HistoryInvStep == RowsInv /\ HistoryInv /\ [Next]_vars => HistoryInv'
<1> SUFFICES ASSUME RowsInv, HistoryInv, [Next]_vars PROVE HistoryInv'
  OBVIOUS
<1>1. /\ RowsInv' /\ hashes \in Nat /\ hashes' \in Nat
      /\ \A u \in Present : u \in Present' /\ account[u] \in Account /\ account'[u] \in Account
  <2>1. RowsInv' /\ \A u \in Present : account[u] \in Account
    BY RowsInvStep, PresentRows DEF RowsInv
  <2>2. hashes \in Nat /\ hashes' \in Nat
    BY <2>1, AccountsAssumption DEF RowsInv, TypeOK
  <2>3. \A u \in Present : account'[u] \in Account
    <3>1. \A u \in Present : u \in Users
      BY DEF Present
    <3>2. \A u \in Present : account'[u] # NoAccount
      BY RowsInvStep DEF Present
    <3> QED
      BY <2>1, <3>1, <3>2 DEF RowsInv, TypeOK
  <2> QED
    BY <2>1, <2>2, <2>3 DEF Present, NoAccount, Account
<1>2. \A u \in Present' \ Legacy :
         account'[u].hash <= hashes' /\ (account'[u].bound = "oidc" => account'[u].hash = NoPassword)
  BY EvolveStep, NewRow DEF Evolves
<1>3. ASSUME NEW s \in issued', s.user \notin Legacy
      PROVE  CookieOf(s.marker, account'[s.user], hashes')
  <2>1. CASE s \in issued
    <3>1. s.user \in Present /\ s.marker \in Account /\ CookieOf(s.marker, account[s.user], hashes)
      BY <1>3, <2>1 DEF RowsInv, TypeOK, Session, HistoryInv
    <3> QED
      BY <1>1, <1>3, <3>1, EvolveStep, CookieKept
  <2> QED
    BY <1>3, <2>1, NewCookie
<1>4. ASSUME NEW r \in Requests, parked'[r].op = "change", parked'[r].actor \notin Legacy
      PROVE  SeenOf(parked'[r].seen, account'[parked'[r].actor])
  <2>1. CASE parked'[r] = parked[r]
    <3>1. parked[r].actor \in Present /\ SeenOf(parked[r].seen, account[parked[r].actor])
      BY <1>4, <2>1 DEF RowsInv, ActorsPresent, HistoryInv
    <3> QED
      BY <1>4, <2>1, <3>1, EvolveStep, SeenKept
  <2>2. CASE /\ account' = account /\ parked'[r].actor \in Present
             /\ parked'[r].seen = account[parked'[r].actor]
    BY <1>4, <2>2 DEF HistoryInv, SeenOf
  <2> QED
    BY <1>4, <2>1, <2>2, ParkedStep
<1> QED
  BY <1>2, <1>3, <1>4 DEF HistoryInv

\* A cookie that a change of its account has ended never opens a session again,
\* though a slow change_password may set session_version back (security.py:325).
THEOREM EndedTheorem == Spec => EndedStaysEnded
<1>1. ASSUME RowsInv, HistoryInv, [Next]_vars
      PROVE  [\A s \in issued : s.user \notin Legacy /\ ~Valid(s) => ~Valid(s)']_vars
  <2> SUFFICES ASSUME NEW s \in issued, s.user \notin Legacy, account[s.user] # s.marker
               PROVE  account'[s.user] # s.marker
    BY DEF Valid
  <2>1. /\ s.user \in Present /\ s.marker \in Account /\ hashes \in Nat /\ hashes' \in Nat
        /\ CookieOf(s.marker, account[s.user], hashes)
    BY <1>1, RowsInvStep, AccountsAssumption DEF RowsInv, TypeOK, Session, HistoryInv
  <2>2. account[s.user] \in Account /\ account'[s.user] \in Account
    BY <1>1, <2>1, RowsInvStep, PresentRows DEF RowsInv, TypeOK, Present
  <2> QED
    BY <1>1, <2>1, <2>2, EvolveStep, CookieKept
<1>2. Spec => []HistoryInv
  BY InitHistoryInv, HistoryInvStep, RowsInvariant, PTL DEF Spec
<1> QED
  BY <1>1, <1>2, RowsInvariant, PTL DEF Spec, EndedStaysEnded

-----------------------------------------------------------------------------
(***************************************************************************)
(* Sign-in: lists of times.                                                *)
(***************************************************************************)

\* A time appended to a finite list is one more.
LEMMA OneMore ==
  ASSUME now \in Clock, NEW s \in Stamps, IsFiniteSet(s)
  PROVE  /\ Stamped(s) \in Stamps /\ IsFiniteSet(Stamped(s))
         /\ Cardinality(s) \in Nat /\ Cardinality(Stamped(s)) = Cardinality(s) + 1
         /\ \A x \in Stamped(s) : x \in s \/ x[1] = now
<1> DEFINE c == Cardinality(s)
           f == [n \in 0..c |-> <<now, n>>]
           n == CHOOSE n \in 0..c : <<now, n>> \notin s
<1>1. c \in Nat
  BY FS_CardinalityType
<1> HIDE DEF c
<1>2. \E m \in 0..c : <<now, m>> \notin s
  <2> SUFFICES ASSUME \A m \in 0..c : <<now, m>> \in s
               PROVE  FALSE
    OBVIOUS
  <2>1. f \in Injection(0..c, s)
    <3>1. f \in [0..c -> s] /\ \A x \in 0..c : f[x] = <<now, x>>
      OBVIOUS
    <3> HIDE DEF f
    <3>2. \A x, y \in 0..c : f[x] = f[y] => x = y
      BY <3>1
    <3> QED
      BY <3>1, <3>2 DEF Injection, IsInjective
  <2>2. Cardinality(0..c) = c + 1
    BY <1>1, FS_Interval
  <2>3. Cardinality(0..c) <= Cardinality(s)
    BY <2>1, FS_Injection
  <2> QED
    BY <1>1, <2>2, <2>3 DEF c
<1>3. n \in 0..c /\ <<now, n>> \notin s
  BY <1>2
<1>4. Stamped(s) = s \cup {<<now, n>>}
  BY DEF Stamped, c
<1> HIDE DEF n
<1> QED
  BY <1>1, <1>3, <1>4, FS_AddElement DEF Stamps, Clock, c

\* What is left of a finite list in a window is a part of it.
LEMMA Part ==
  ASSUME NEW s \in Stamps, IsFiniteSet(s), NEW w
  PROVE  Within(s, w) \in Stamps /\ IsFiniteSet(Within(s, w))
<1>1. Within(s, w) \subseteq s
  BY DEF Within
<1> QED
  BY <1>1, FS_Subset DEF Stamps

-----------------------------------------------------------------------------
(***************************************************************************)
(* Sign-in: tables ordered by use.                                         *)
(***************************************************************************)

\* Among any entries one has been used before all the others.
Ordered(t) ==
    \A S \in SUBSET Held(t) : S # {} => \E k \in S : S \ {k} \subseteq t.since[k]

\* A table is small enough to count, and ordered.
Dict(t, K) ==
    /\ DOMAIN t.entry = K /\ t.since \in [K -> SUBSET K]
    /\ IsFiniteSet(Held(t)) /\ \A k \in K : IsFiniteSet(t.since[k])
    /\ Ordered(t)

\* The entry to evict is there and the others have been used since.
LEMMA OldestHeld ==
  ASSUME NEW t, Ordered(t), Held(t) # {}
  PROVE  Oldest(t) \in Held(t) /\ Held(t) \ {Oldest(t)} \subseteq t.since[Oldest(t)]
<1>1. \E k \in Held(t) : Held(t) \ {k} \subseteq t.since[k]
  BY DEF Ordered
<1> QED
  BY <1>1 DEF Oldest

\* Entries may go.
LEMMA FewerHeld ==
  ASSUME NEW K, NEW t, Dict(t, K), NEW u, DOMAIN u.entry = K, u.since = t.since,
         Held(u) \subseteq Held(t)
  PROVE  Dict(u, K) /\ Cardinality(Held(u)) <= Cardinality(Held(t))
<1>1. IsFiniteSet(Held(u)) /\ Cardinality(Held(u)) <= Cardinality(Held(t))
  BY FS_Subset DEF Dict
<1>2. Ordered(u)
  BY DEF Dict, Ordered
<1> QED
  BY <1>1, <1>2 DEF Dict

\* An entry that is used becomes the last, whether it is new or not.
LEMMA OneUsed ==
  ASSUME NEW K, NEW t, Dict(t, K), NEW k \in K,
         NEW u, DOMAIN u.entry = K, u.since = Used(t, k), Held(u) \subseteq Held(t) \cup {k}
  PROVE  Dict(u, K)
<1>1. u.since \in [K -> SUBSET K] /\ \A j \in K : u.since[j] = IF j = k THEN {}
                                                            ELSE t.since[j] \cup {k}
  BY DEF Dict, Used
<1>2. IsFiniteSet(Held(u)) /\ \A j \in K : IsFiniteSet(u.since[j])
  <2>1. IsFiniteSet(Held(t) \cup {k}) /\ \A j \in K : IsFiniteSet(t.since[j] \cup {k})
    BY FS_AddElement DEF Dict
  <2> QED
    BY <1>1, <2>1, FS_Subset, FS_EmptySet
<1>3. ASSUME NEW S \in SUBSET Held(u), S # {}
      PROVE  \E j \in S : S \ {j} \subseteq u.since[j]
  <2>1. Held(u) \subseteq K
    BY DEF Held
  <2>2. CASE S = {k}
    BY <2>2
  <2>3. CASE S # {k}
    <3>1. S \ {k} \in SUBSET Held(t) /\ S \ {k} # {}
      BY <1>3, <2>3
    <3>2. PICK j \in S \ {k} : (S \ {k}) \ {j} \subseteq t.since[j]
      BY <3>1 DEF Dict, Ordered
    <3> QED
      BY <1>1, <2>1, <3>2
  <2> QED
    BY <2>2, <2>3
<1> QED
  BY <1>1, <1>2, <1>3 DEF Dict, Ordered

-----------------------------------------------------------------------------
(***************************************************************************)
(* Sign-in: the limiter.  What an entry still holds is what its key has      *)
(* passed in the window, and an entry that expires holds nothing any more.    *)
(***************************************************************************)

Tables == [entry : [Keys -> Bucket], since : [Keys -> SUBSET Keys]]

Limiter(t, h) ==
    /\ t \in Tables
    /\ h \in [Keys -> Stamps]
    /\ Dict(t, Keys) /\ Cardinality(Held(t)) <= MaxBuckets
    /\ \A k \in Keys :
         /\ IsFiniteSet(t.entry[k].stamps)
         /\ \A x \in t.entry[k].stamps : x[1] <= now /\ x[1] + Window[k] <= t.entry[k].until
         /\ h[k] = Fresh(t, k) /\ Cardinality(h[k]) <= Limit[k]

\* The empty table and the empty history.
LEMMA EmptyLimiter == Limiter(Empty(Keys, NoBucket), [k \in Keys |-> {}])
<1> DEFINE t == Empty(Keys, NoBucket)
           h == [k \in Keys |-> {}]
<1>1. /\ t \in Tables
      /\ \A k \in Keys : t.entry[k] = NoBucket /\ t.since[k] = {}
      /\ h \in [Keys -> Stamps] /\ \A k \in Keys : h[k] = {}
  BY DEF Empty, Tables, Bucket, NoBucket, Stamps
<1>2. Held(t) = {}
  BY <1>1 DEF Tables, Held, NoBucket
<1>3. Dict(t, Keys)
  BY <1>1, <1>2, FS_EmptySet DEF Tables, Dict, Ordered
<1>4. \A k \in Keys : t.entry[k].stamps = {} /\ Fresh(t, k) = {}
  BY <1>1 DEF NoBucket, Fresh, Within
<1>5. /\ IsFiniteSet({}) /\ Cardinality({}) <= MaxBuckets
      /\ \A k \in Keys : Cardinality({}) <= Limit[k]
  BY FS_EmptySet, SignInAssumption
<1> HIDE DEF t, h
<1>6. ASSUME NEW k \in Keys
      PROVE  /\ IsFiniteSet(t.entry[k].stamps)
             /\ \A x \in t.entry[k].stamps : x[1] <= now /\ x[1] + Window[k] <= t.entry[k].until
             /\ h[k] = Fresh(t, k) /\ Cardinality(h[k]) <= Limit[k]
  <2>1. \A x \in t.entry[k].stamps : x[1] <= now /\ x[1] + Window[k] <= t.entry[k].until
    BY <1>4
  <2>2. Cardinality(h[k]) <= Limit[k]
    BY <1>1, <1>5
  <2> QED
    BY <1>1, <1>4, <1>5, <2>1, <2>2
<1>7. Cardinality(Held(t)) <= MaxBuckets
  BY <1>2, <1>5
<1>8. Limiter(t, h)
  BY <1>1, <1>3, <1>6, <1>7 DEF Limiter
<1> QED
  BY <1>8 DEF t, h

\* The table and the history without the entries of S.
Lost(t, h, S, u, g) ==
    /\ Limiter(t, h) /\ S \subseteq Keys
    /\ u \in Tables /\ u.since = t.since
    /\ \A k \in Keys : u.entry[k] = IF k \in S THEN NoBucket ELSE t.entry[k]
    /\ g \in [Keys -> Stamps] /\ \A k \in Keys : g[k] = IF k \in S THEN {} ELSE h[k]

\* A table that loses entries keeps the rest, if the history forgets what they held.
LEMMA FewerBuckets ==
  ASSUME now \in Clock, NEW t, NEW h, NEW S, NEW u, NEW g, Lost(t, h, S, u, g)
  PROVE  Limiter(u, g)
<1> USE DEF Lost
<1>1. DOMAIN u.entry = Keys /\ DOMAIN t.entry = Keys
  BY DEF Limiter, Tables
<1>3. Held(u) \subseteq Held(t)
  BY <1>1 DEF Held, NoBucket
<1>4. Dict(u, Keys) /\ Cardinality(Held(u)) <= MaxBuckets
  <2>1. Dict(u, Keys) /\ Cardinality(Held(u)) <= Cardinality(Held(t))
    BY <1>1, <1>3, FewerHeld DEF Limiter
  <2>2. Cardinality(Held(u)) \in Nat /\ Cardinality(Held(t)) \in Nat
    BY <2>1, FS_CardinalityType DEF Dict, Limiter
  <2> QED
    BY <2>1, <2>2, SignInAssumption DEF Limiter
<1>5. ASSUME NEW k \in Keys
      PROVE  /\ IsFiniteSet(u.entry[k].stamps)
             /\ \A x \in u.entry[k].stamps : x[1] <= now /\ x[1] + Window[k] <= u.entry[k].until
             /\ g[k] = Fresh(u, k) /\ Cardinality(g[k]) <= Limit[k]
  <2>1. CASE k \in S
    <3>1. u.entry[k].stamps = {} /\ g[k] = {}
      BY <1>1, <2>1 DEF NoBucket
    <3>2. Fresh(u, k) = {}
      BY <3>1 DEF Fresh, Within
    <3>3. IsFiniteSet({}) /\ Cardinality({}) = 0 /\ Limit[k] \in Nat
      BY FS_EmptySet, SignInAssumption
    <3>4. Cardinality(g[k]) <= Limit[k]
      BY <3>1, <3>3
    <3>5. \A x \in u.entry[k].stamps : x[1] <= now /\ x[1] + Window[k] <= u.entry[k].until
      BY <3>1
    <3>6. g[k] = Fresh(u, k) /\ IsFiniteSet(u.entry[k].stamps)
      BY <3>1, <3>2, <3>3
    <3> QED
      BY <3>4, <3>5, <3>6
  <2>2. CASE k \notin S
    <3>1. u.entry[k] = t.entry[k] /\ g[k] = h[k] /\ Fresh(u, k) = Fresh(t, k)
      BY <1>1, <2>2 DEF Fresh
    <3> QED
      BY <3>1 DEF Limiter
  <2> QED
    BY <2>1, <2>2
<1> QED
  BY <1>4, <1>5 DEF Limiter

\* The sweep takes only what has run out.
LEMMA SweptLimiter ==
  ASSUME now \in Clock, NEW t, NEW h, Limiter(t, h)
  PROVE  Limiter(Swept(t), h) /\ \A k \in Keys : Fresh(Swept(t), k) = Fresh(t, k)
<1> DEFINE S == {k \in Keys : ~(t.entry[k].until > now)}
           u == [t EXCEPT !.entry = [k \in Keys |-> IF k \in S THEN NoBucket ELSE t.entry[k]]]
<1>1. CASE now < nextSweep
  BY <1>1 DEF Swept, Limiter
<1>2. CASE ~(now < nextSweep)
  <2>1. Swept(t) = u
    BY <1>2 DEF Swept
  <2>2. ASSUME NEW k \in S PROVE h[k] = {}
    <3>1. t.entry[k] \in Bucket /\ Window[k] \in Nat /\ ~(t.entry[k].until > now)
      BY SignInAssumption DEF Limiter, Tables
    <3>2. ASSUME NEW x \in t.entry[k].stamps PROVE ~(now - x[1] < Window[k])
      <4>1. x[1] + Window[k] <= t.entry[k].until /\ x[1] \in Nat /\ t.entry[k].until \in Nat
        BY <3>1, <3>2 DEF Limiter, Bucket, Stamps, Clock
      <4> QED
        BY <3>1, <4>1 DEF Clock
    <3> QED
      BY <3>2 DEF Limiter, Fresh, Within
  <2>3. /\ u \in Tables /\ u.since = t.since
        /\ \A k \in Keys : u.entry[k] = IF k \in S THEN NoBucket ELSE t.entry[k]
    BY DEF Limiter, Tables, Bucket, NoBucket, Stamps
  <2>4. Limiter(u, h)
    <3>1. S \in SUBSET Keys /\ h \in [Keys -> Stamps]
      BY DEF Limiter
    <3>2. \A k \in Keys : h[k] = IF k \in S THEN {} ELSE h[k]
      BY <2>2
    <3> HIDE DEF S, u
    <3>3. Lost(t, h, S, u, h)
      BY <2>3, <3>1, <3>2 DEF Lost
    <3> QED
      BY <3>3, FewerBuckets
  <2> QED
    BY <2>1, <2>4 DEF Limiter
<1> QED
  BY <1>1, <1>2

\* The entry that makes room for one of k, if one has to.
Evicted(t, k) ==
    IF k \notin Held(t) /\ Cardinality(Held(t)) >= MaxBuckets THEN {Oldest(t)} ELSE {}

\* Only the oldest goes, it goes for another key, MaxBuckets keys have come
\* after it then, and there is room for k afterwards.
LEMMA RoomMade ==
  ASSUME NEW t, NEW h, Limiter(t, h), NEW k \in Keys
  PROVE  /\ Evicted(t, k) \subseteq Held(t) \ {k}
         /\ \A j \in Keys : Room(t, k)[j] = IF j \in Evicted(t, k) THEN NoBucket ELSE t.entry[j]
         /\ Room(t, k) \in [Keys -> Bucket]
         /\ IsFiniteSet((Held(t) \ Evicted(t, k)) \cup {k})
         /\ Cardinality((Held(t) \ Evicted(t, k)) \cup {k}) <= MaxBuckets
         /\ \A j \in Evicted(t, k) : Cardinality(Used(t, k)[j]) >= MaxBuckets
<1>1. /\ IsFiniteSet(Held(t)) /\ Cardinality(Held(t)) \in Nat /\ MaxBuckets \in Nat \ {0}
      /\ Cardinality(Held(t)) <= MaxBuckets
  BY FS_CardinalityType, SignInAssumption DEF Limiter, Dict
<1>2. t.entry \in [Keys -> Bucket] /\ NoBucket \in Bucket /\ t.since \in [Keys -> SUBSET Keys]
  BY DEF Limiter, Tables, Bucket, NoBucket, Stamps
<1>3. Held(t) \subseteq Keys
  BY <1>2 DEF Held
<1>4. CASE k \notin Held(t) /\ Cardinality(Held(t)) >= MaxBuckets
  <2> DEFINE o == Oldest(t)
  <2>1. Evicted(t, k) = {o} /\ Room(t, k) = [t.entry EXCEPT ![o] = NoBucket]
    BY <1>4 DEF Evicted, Room
  <2>2. Held(t) # {}
    BY <1>1, <1>4, FS_EmptySet
  <2>3. o \in Held(t) /\ Held(t) \ {o} \subseteq t.since[o]
    BY <2>2, OldestHeld DEF Limiter, Dict
  <2> HIDE DEF o
  <2>4. /\ IsFiniteSet((Held(t) \ {o}) \cup {k})
        /\ Cardinality((Held(t) \ {o}) \cup {k}) = Cardinality(Held(t))
    <3>1. IsFiniteSet(Held(t) \ {o}) /\ Cardinality(Held(t) \ {o}) = Cardinality(Held(t)) - 1
      BY <1>1, <2>3, FS_RemoveElement
    <3>2. Cardinality((Held(t) \ {o}) \cup {k}) = Cardinality(Held(t) \ {o}) + 1
      BY <1>4, <3>1, FS_AddElement
    <3> QED
      BY <1>1, <3>1, <3>2, FS_AddElement
  <2>5. Cardinality(Used(t, k)[o]) >= MaxBuckets
    <3>1. Used(t, k)[o] = t.since[o] \cup {k} /\ o \in Keys
      BY <1>2, <1>3, <1>4, <2>3 DEF Used
    <3>2. IsFiniteSet(t.since[o] \cup {k})
      BY <3>1, FS_AddElement DEF Limiter, Dict
    <3>3. (Held(t) \ {o}) \cup {k} \in SUBSET (t.since[o] \cup {k})
      BY <2>3
    <3>4. Cardinality((Held(t) \ {o}) \cup {k}) <= Cardinality(t.since[o] \cup {k})
      BY <3>2, <3>3, FS_Subset
    <3>5. Cardinality(t.since[o] \cup {k}) \in Nat
      BY <3>2, FS_CardinalityType
    <3> QED
      BY <1>1, <1>4, <2>4, <3>1, <3>4, <3>5
  <2> QED
    BY <1>1, <1>2, <1>3, <1>4, <2>1, <2>3, <2>4, <2>5
<1>5. CASE ~(k \notin Held(t) /\ Cardinality(Held(t)) >= MaxBuckets)
  <2>1. Evicted(t, k) = {} /\ Room(t, k) = t.entry
    BY <1>5 DEF Evicted, Room
  <2>2. /\ IsFiniteSet(Held(t) \cup {k})
        /\ Cardinality(Held(t) \cup {k}) <= MaxBuckets
    <3>1. /\ IsFiniteSet(Held(t) \cup {k})
          /\ Cardinality(Held(t) \cup {k}) = IF k \in Held(t) THEN Cardinality(Held(t))
                                               ELSE Cardinality(Held(t)) + 1
      BY <1>1, FS_AddElement
    <3>2. CASE k \in Held(t)
      BY <1>1, <3>1, <3>2
    <3>3. CASE k \notin Held(t)
      BY <1>1, <1>5, <3>1, <3>3
    <3> QED
      BY <3>2, <3>3
  <2>3. (Held(t) \ {}) \cup {k} = Held(t) \cup {k}
    OBVIOUS
  <2> QED
    BY <1>2, <2>1, <2>2, <2>3
<1> QED
  BY <1>4, <1>5

\* A call, and what the history makes of it.
LEMMA CalledLimiter ==
  ASSUME now \in Clock, NEW t, NEW h, Limiter(t, h), NEW k \in Keys
  PROVE  Limiter(Called(t, k), Note(h, t, k))
<1> DEFINE E == Evicted(t, k)
           u == Called(t, k)
           g == Note(h, t, k)
           st == IF Full(t, k) THEN Fresh(t, k) ELSE Stamped(Fresh(t, k))
<1>1. /\ now \in Nat /\ Window[k] \in Nat \ {0} /\ Limit[k] \in Nat
      /\ \A x \in Clock : x \in Nat
  BY SignInAssumption DEF Clock
<1>2. /\ h[k] = Fresh(t, k) /\ h[k] \in Stamps /\ IsFiniteSet(h[k])
      /\ Cardinality(h[k]) \in Nat /\ Cardinality(h[k]) <= Limit[k]
      /\ \A x \in h[k] : x[1] \in Clock /\ x[1] <= now /\ now - x[1] < Window[k]
  <2>1. t.entry[k].stamps \in Stamps /\ IsFiniteSet(t.entry[k].stamps)
    BY DEF Limiter, Tables, Bucket
  <2>2. h[k] = Fresh(t, k) /\ h[k] \in Stamps /\ IsFiniteSet(h[k])
    BY <2>1, Part DEF Limiter, Fresh
  <2>3. \A x \in h[k] : x[1] \in Clock /\ x[1] <= now /\ now - x[1] < Window[k]
    BY <2>1, <2>2 DEF Limiter, Fresh, Within, Stamps
  <2> QED
    BY <2>2, <2>3, FS_CardinalityType DEF Limiter
<1>3. /\ st \in Stamps /\ IsFiniteSet(st) /\ Cardinality(st) <= Limit[k]
      /\ \A x \in st : x[1] \in Clock /\ x[1] <= now /\ now - x[1] < Window[k]
  <2>1. CASE Full(t, k)
    BY <1>2, <2>1
  <2>2. CASE ~Full(t, k)
    <3>1. st = Stamped(h[k]) /\ Cardinality(h[k]) < Limit[k]
      BY <1>1, <1>2, <2>2 DEF Full
    <3>2. /\ Stamped(h[k]) \in Stamps /\ IsFiniteSet(Stamped(h[k]))
          /\ Cardinality(Stamped(h[k])) = Cardinality(h[k]) + 1
          /\ \A x \in Stamped(h[k]) : x \in h[k] \/ x[1] = now
      BY <1>2, OneMore
    <3> HIDE DEF st
    <3>3. ASSUME NEW x \in st
          PROVE  x[1] \in Clock /\ x[1] <= now /\ now - x[1] < Window[k]
      BY <1>1, <1>2, <3>1, <3>2
    <3> QED
      BY <1>1, <1>2, <3>1, <3>2, <3>3
  <2> QED
    BY <2>1, <2>2
<1>4. Within(st, Window[k]) = st
  <2> HIDE DEF st
  <2> QED
    BY <1>3 DEF Within
<1>5. /\ u \in Tables /\ u.since = Used(t, k)
      /\ u.entry[k] = [until |-> now + Window[k], stamps |-> st]
      /\ \A j \in Keys \ {k} : u.entry[j] = IF j \in E THEN NoBucket ELSE t.entry[j]
  <2>1. Used(t, k) \in [Keys -> SUBSET Keys]
    BY DEF Used, Limiter, Tables
  <2>2. [until |-> now + Window[k], stamps |-> st] \in Bucket
    BY <1>1, <1>3 DEF Bucket
  <2>3. /\ Room(t, k) \in [Keys -> Bucket]
        /\ \A j \in Keys : Room(t, k)[j] = IF j \in E THEN NoBucket ELSE t.entry[j]
    BY RoomMade
  <2>4. u = [entry |-> [Room(t, k) EXCEPT ![k] = [until |-> now + Window[k], stamps |-> st]],
             since |-> Used(t, k)]
    BY DEF Called
  <2> HIDE DEF u, st, E
  <2> QED
    BY <2>1, <2>2, <2>3, <2>4 DEF Tables
<1>6. Held(u) = (Held(t) \ E) \cup {k} /\ k \notin E /\ E \subseteq Held(t)
  <2>1. k \notin E /\ E \subseteq Held(t)
    BY RoomMade
  <2>2. DOMAIN u.entry = Keys /\ DOMAIN t.entry = Keys
    BY <1>5 DEF Limiter, Tables
  <2>3. u.entry[k].until # 0
    BY <1>1, <1>5
  <2>4. \A j \in Keys \ {k} : u.entry[j].until # 0 <=> t.entry[j].until # 0 /\ j \notin E
    BY <1>5 DEF NoBucket
  <2> HIDE DEF u, E
  <2> QED
    BY <2>1, <2>2, <2>3, <2>4 DEF Held
<1>7. Dict(u, Keys) /\ Cardinality(Held(u)) <= MaxBuckets
  <2>1. Cardinality(Held(u)) <= MaxBuckets /\ Held(u) \subseteq Held(t) \cup {k}
    BY <1>6, RoomMade
  <2>2. DOMAIN u.entry = Keys /\ Dict(t, Keys)
    BY <1>5 DEF Limiter, Tables
  <2> HIDE DEF u
  <2> QED
    BY <1>5, <2>1, <2>2, OneUsed
<1>8. /\ g \in [Keys -> Stamps] /\ g[k] = st
      /\ \A j \in Keys \ {k} : g[j] = IF j \in E THEN {} ELSE h[j]
  <2>1. \A j \in E : Cardinality(u.since[j]) >= MaxBuckets
    BY <1>5, RoomMade
  <2>2. {j \in Held(t) \ Held(u) : Cardinality(u.since[j]) >= MaxBuckets} = E
    <3> HIDE DEF u, E
    <3> QED
      BY <1>6, <2>1
  <2>3. g = [j \in Keys |-> IF j \in E THEN {}
                            ELSE IF j = k /\ ~Full(t, k) THEN Stamped(h[j]) ELSE h[j]]
    BY <2>2 DEF Note
  <2>4. {} \in Stamps /\ h \in [Keys -> Stamps]
    BY DEF Stamps, Limiter
  <2> HIDE DEF g, E
  <2> QED
    BY <1>2, <1>3, <1>6, <2>3, <2>4
<1> HIDE DEF u, g, st, E
<1>9. ASSUME NEW j \in Keys
      PROVE  /\ IsFiniteSet(u.entry[j].stamps)
             /\ \A x \in u.entry[j].stamps : x[1] <= now /\ x[1] + Window[j] <= u.entry[j].until
             /\ g[j] = Fresh(u, j) /\ Cardinality(g[j]) <= Limit[j]
  <2>1. CASE j = k
    <3>1. u.entry[j].stamps = st /\ u.entry[j].until = now + Window[k]
      BY <1>5, <2>1
    <3>2. ASSUME NEW x \in st
          PROVE  x[1] <= now /\ x[1] + Window[k] <= now + Window[k]
      <4>1. x[1] \in Nat /\ x[1] <= now
        BY <1>1, <1>3
      <4> QED
        BY <1>1, <4>1
    <3>3. Fresh(u, j) = st
      BY <1>4, <2>1, <3>1 DEF Fresh
    <3> QED
      BY <1>3, <1>8, <2>1, <3>1, <3>2, <3>3
  <2>2. CASE j # k /\ j \in E
    <3>1. u.entry[j].stamps = {} /\ g[j] = {}
      BY <1>5, <1>8, <2>2 DEF NoBucket
    <3>2. Fresh(u, j) = {}
      BY <3>1 DEF Fresh, Within
    <3>3. IsFiniteSet({}) /\ Cardinality({}) <= Limit[j]
      BY FS_EmptySet, SignInAssumption
    <3>4. \A x \in u.entry[j].stamps : x[1] <= now /\ x[1] + Window[j] <= u.entry[j].until
      BY <3>1
    <3> QED
      BY <3>1, <3>2, <3>3, <3>4
  <2>3. CASE j # k /\ j \notin E
    <3>1. u.entry[j] = t.entry[j] /\ g[j] = h[j] /\ Fresh(u, j) = Fresh(t, j)
      BY <1>5, <1>8, <2>3 DEF Fresh
    <3> QED
      BY <3>1 DEF Limiter
  <2> QED
    BY <2>1, <2>2, <2>3
<1>10. Limiter(u, g)
  BY <1>5, <1>7, <1>8, <1>9 DEF Limiter
<1> QED
  BY <1>10 DEF u, g

\* A sign-in counts for both of its keys.
LEMMA CountedLimiter ==
  ASSUME now \in Clock, Limiter(table, calls), NEW i \in Keys, NEW a \in Keys
  PROVE  Limiter(Counted(i, a), Noted(i, a))
<1>1. Limiter(Swept(table), calls)
  BY SweptLimiter
<1>2. Limiter(Called(Swept(table), i), Note(calls, Swept(table), i))
  BY <1>1, CalledLimiter
<1> QED
  BY <1>2, CalledLimiter DEF Counted, Noted

\* The clock stops at its bound.
LEMMA WaitClock ==
  ASSUME now \in Clock, Wait
  PROVE  now' \in Clock
BY SignInAssumption DEF Wait, Clock

\* The window moves with the clock: what the history drops the table drops when
\* it is asked.
LEMMA WaitLimiter ==
  ASSUME now \in Clock, Limiter(table, calls), Wait
  PROVE  Limiter(table, calls)'
<1>1. now \in Nat /\ now' = now + 1 /\ now' \in Clock /\ table' = table
  BY SignInAssumption DEF Wait, Clock, server
<1>2. \A k \in Keys : calls'[k] = {x \in calls[k] : now' - x[1] < Window[k]}
  BY DEF Wait
<1>3. calls' \in [Keys -> Stamps]
  BY DEF Wait, Limiter, Stamps
<1>5. ASSUME NEW k \in Keys
      PROVE  /\ \A x \in table.entry[k].stamps : x[1] <= now'
             /\ calls'[k] = Fresh(table, k)' /\ Cardinality(calls'[k]) <= Limit[k]
  <2>1. \A x \in table.entry[k].stamps : x[1] \in Nat /\ x[1] <= now
    BY DEF Limiter, Tables, Bucket, Stamps, Clock
  <2>2. Window[k] \in Nat /\ Limit[k] \in Nat
    BY SignInAssumption
  <2>3. calls[k] = {x \in table.entry[k].stamps : now - x[1] < Window[k]}
    BY DEF Limiter, Fresh, Within
  <2>4. calls'[k] = {x \in table.entry[k].stamps : now' - x[1] < Window[k]}
    BY <1>1, <1>2, <2>1, <2>2, <2>3
  <2>5. calls'[k] \subseteq calls[k] /\ IsFiniteSet(calls[k]) /\ Cardinality(calls[k]) <= Limit[k]
    <3>1. calls'[k] \subseteq calls[k]
      BY <1>2
    <3>2. calls[k] \subseteq table.entry[k].stamps /\ IsFiniteSet(table.entry[k].stamps)
      BY <2>3 DEF Limiter
    <3> QED
      BY <3>1, <3>2, FS_Subset DEF Limiter
  <2>6. Cardinality(calls'[k]) <= Limit[k]
    BY <2>2, <2>5, FS_Subset, FS_CardinalityType
  <2> QED
    BY <1>1, <2>1, <2>4, <2>6 DEF Fresh, Within
<1> QED
  BY <1>1, <1>3, <1>5 DEF Limiter, Dict, Ordered, Held, Tables

LimiterInv == now \in Clock /\ Limiter(table, calls)

\* Every call goes through the sweep, counts, and is noted; a sign-in that
\* succeeds takes both entries out again.
LEMMA LimiterStep == LimiterInv /\ [SignInNext]_signInVars => LimiterInv'
<1> SUFFICES ASSUME now \in Clock, Limiter(table, calls), [SignInNext]_signInVars
             PROVE  LimiterInv'
  BY DEF LimiterInv
<1> USE DEF LimiterInv
<1>1. ASSUME now' = now, Limiter(table', calls')
      PROVE  LimiterInv'
  BY <1>1 DEF Limiter, Dict, Ordered, Held, Fresh, Within, Tables
<1>2. ASSUME NEW i \in Addresses, NEW a \in Names,
             now' = now, table' = Counted(i, a), calls' = Noted(i, a)
      PROVE  LimiterInv'
  <2>1. i \in Keys /\ a \in Keys
    BY DEF Keys, FailKeys
  <2> QED
    BY <1>1, <1>2, <2>1, CountedLimiter
<1>3. ASSUME NEW i \in Addresses, NEW a \in Names, NEW b \in Browsers,
             NEW answer, Accept(b, i, a, answer)
      PROVE  LimiterInv'
  <2> DEFINE t == Counted(i, a)
             h == Noted(i, a)
             S == {i, a}
  <2>1. i \in Keys /\ a \in Keys /\ S \in SUBSET Keys
    BY DEF Keys, FailKeys
  <2>2. Limiter(t, h)
    BY <2>1, CountedLimiter
  <2>3. now' = now /\ table' = Without(t, {i, a}, NoBucket) /\ calls' = [h EXCEPT ![i] = {}, ![a] = {}]
    BY <1>3 DEF Accept
  <2> HIDE DEF t, h
  <2>4. /\ table' \in Tables /\ table'.since = t.since
        /\ \A k \in Keys : table'.entry[k] = IF k \in S THEN NoBucket ELSE t.entry[k]
    BY <2>2, <2>3 DEF Without, Limiter, Tables, NoBucket, Bucket, Stamps
  <2>5. /\ calls' \in [Keys -> Stamps]
        /\ \A k \in Keys : calls'[k] = IF k \in S THEN {} ELSE h[k]
    <3>1. h \in [Keys -> Stamps] /\ {} \in Stamps
      BY <2>2 DEF Limiter, Stamps
    <3> QED
      BY <2>1, <2>3, <3>1
  <2> DEFINE u == table'
             g == calls'
  <2> HIDE DEF S
  <2>6. Limiter(u, g)
    <3>1. /\ u \in Tables /\ u.since = t.since
          /\ \A k \in Keys : u.entry[k] = IF k \in S THEN NoBucket ELSE t.entry[k]
      BY <2>4
    <3>2. /\ g \in [Keys -> Stamps]
          /\ \A k \in Keys : g[k] = IF k \in S THEN {} ELSE h[k]
      BY <2>5
    <3> HIDE DEF u, g
    <3>3. Lost(t, h, S, u, g)
      BY <2>1, <2>2, <3>1, <3>2 DEF Lost
    <3> QED
      BY <3>3, FewerBuckets
  <2> QED
    BY <1>1, <2>3, <2>6
<1>4. ASSUME NEW k \in Forms, CallForm(k)
      PROVE  LimiterInv'
  <2>1. k \in Keys
    BY DEF Keys
  <2>2. Limiter(Called(Swept(table), k), Note(calls, Swept(table), k))
    BY <2>1, SweptLimiter, CalledLimiter
  <2> QED
    BY <1>1, <1>4, <2>2 DEF CallForm
<1>5. CASE Wait
  BY <1>5, WaitLimiter, WaitClock
<1>6. CASE Restart
  BY <1>1, <1>6, EmptyLimiter DEF Restart
<1>7. ASSUME now' = now, table' = table, calls' = calls
      PROVE  LimiterInv'
  BY <1>1, <1>7
<1>8. ASSUME NEW b \in Browsers, DrawCode(b) \/ LeaveSession(b) \/ OldCookie(b)
      PROVE  LimiterInv'
  BY <1>7, <1>8 DEF DrawCode, LeaveSession, OldCookie, server
<1>9. CASE UNCHANGED signInVars
  BY <1>7, <1>9 DEF signInVars, server
<1>10. ASSUME NEW i \in Addresses, NEW a \in Names,
              RefuseLimited(i, a) \/ \E b \in Browsers, answer \in {"none", "wrong", "right"} :
                  RefuseCaptcha(b, i, a, answer) \/ RefusePassword(b, i, a, answer)
       PROVE  LimiterInv'
  BY <1>2, <1>10 DEF RefuseLimited, RefuseCaptcha, RefusePassword
<1> QED
  BY <1>3, <1>4, <1>5, <1>6, <1>8, <1>9, <1>10 DEF SignInNext

\* In every reachable state the entries hold what their keys passed in the window.
LEMMA LimiterInvariant == SignInSpec => []LimiterInv
<1>1. SignInInit => LimiterInv
  <2> SUFFICES ASSUME SignInInit PROVE LimiterInv
    OBVIOUS
  <2>1. table = Empty(Keys, NoBucket) /\ calls = [k \in Keys |-> {}] /\ now \in Clock
    BY SignInAssumption DEF SignInInit, Clock
  <2> QED
    BY <2>1, EmptyLimiter DEF LimiterInv
<1> QED
  BY <1>1, LimiterStep, PTL DEF SignInSpec

\* throttle_limit with its sweep, its evictions and its resets is a sliding
\* window of every key, for every limit, window, cap and set of keys.
THEOREM SlidingWindowTheorem == SignInSpec => []SlidingWindow
<1>1. LimiterInv => SlidingWindow
  <2> SUFFICES ASSUME now \in Clock, Limiter(table, calls), NEW k \in Keys
               PROVE  /\ Cardinality(calls[k]) <= Limit[k]
                      /\ Full(Swept(table), k) <=> Cardinality(calls[k]) = Limit[k]
    BY DEF LimiterInv, SlidingWindow
  <2>1. /\ calls[k] = Fresh(Swept(table), k) /\ Cardinality(calls[k]) <= Limit[k]
        /\ calls[k] \subseteq table.entry[k].stamps /\ IsFiniteSet(table.entry[k].stamps)
    BY SweptLimiter DEF Limiter, Fresh, Within
  <2>2. Cardinality(calls[k]) \in Nat /\ Limit[k] \in Nat
    BY <2>1, FS_Subset, FS_CardinalityType, SignInAssumption
  <2> QED
    BY <2>1, <2>2 DEF Full
<1> QED
  BY <1>1, LimiterInvariant, PTL

-----------------------------------------------------------------------------
(***************************************************************************)
(* Sign-in: the failure table.  It has counted every guess that was looked at *)
(* without a picture code, and remembers each for as long as its window.      *)
(***************************************************************************)

FailTables == [entry : [FailKeys -> Counter], since : [FailKeys -> SUBSET FailKeys]]

Counts(f, h) ==
    /\ f \in FailTables
    /\ h \in [FailKeys -> Stamps]
    /\ Dict(f, FailKeys)
    /\ \A k \in FailKeys :
         /\ IsFiniteSet(h[k]) /\ Cardinality(h[k]) <= f.entry[k].count
         /\ \A x \in h[k] : /\ x[1] <= now /\ now - x[1] < FailWindow
                            /\ x[1] + FailWindow <= f.entry[k].until

\* The empty table and the empty history.
LEMMA EmptyCounts == Counts(Empty(FailKeys, NoCounter), [k \in FailKeys |-> {}])
<1> DEFINE f == Empty(FailKeys, NoCounter)
           h == [k \in FailKeys |-> {}]
<1>1. NoCounter \in Counter /\ NoCounter.count = 0 /\ NoCounter.until = 0
  BY SignInAssumption DEF Counter, NoCounter
<1>2. /\ f \in FailTables
      /\ \A k \in FailKeys : f.entry[k] = NoCounter /\ f.since[k] = {}
      /\ h \in [FailKeys -> Stamps] /\ \A k \in FailKeys : h[k] = {}
  BY <1>1 DEF Empty, FailTables, Stamps
<1> HIDE DEF f, h
<1>3. DOMAIN f.entry = FailKeys /\ Held(f) = {}
  BY <1>1, <1>2 DEF FailTables, Held
<1>4. Dict(f, FailKeys)
  BY <1>2, <1>3, FS_EmptySet DEF FailTables, Dict, Ordered
<1>5. ASSUME NEW k \in FailKeys
      PROVE  IsFiniteSet(h[k]) /\ Cardinality(h[k]) <= f.entry[k].count
  <2>1. IsFiniteSet({}) /\ Cardinality({}) = 0
    BY FS_EmptySet
  <2> QED
    BY <1>1, <1>2, <2>1
<1>6. Counts(f, h)
  BY <1>2, <1>4, <1>5 DEF Counts
<1> QED
  BY <1>6 DEF f, h

\* The table and the history without the entries of S.
LostCounts(f, h, S, u, g) ==
    /\ Counts(f, h) /\ S \subseteq FailKeys
    /\ u \in FailTables /\ u.since = f.since
    /\ \A k \in FailKeys : u.entry[k] = IF k \in S THEN NoCounter ELSE f.entry[k]
    /\ g \in [FailKeys -> Stamps] /\ \A k \in FailKeys : g[k] = IF k \in S THEN {} ELSE h[k]

\* A count that is forgotten with its guesses leaves the others right.
LEMMA FewerCounts ==
  ASSUME NEW f, NEW h, NEW S, NEW u, NEW g, LostCounts(f, h, S, u, g)
  PROVE  Counts(u, g) /\ Held(u) = Held(f) \ S
<1> USE DEF LostCounts
<1>1. DOMAIN u.entry = FailKeys /\ DOMAIN f.entry = FailKeys
  BY DEF Counts, FailTables
<1>2. NoCounter.count = 0 /\ NoCounter.until = 0
  BY DEF NoCounter
<1>3. Held(u) = Held(f) \ S
  BY <1>1, <1>2 DEF Held
<1>4. Dict(u, FailKeys)
  BY <1>1, <1>3, FewerHeld DEF Counts
<1>5. ASSUME NEW k \in FailKeys
      PROVE  /\ IsFiniteSet(g[k]) /\ Cardinality(g[k]) <= u.entry[k].count
             /\ \A x \in g[k] : /\ x[1] <= now /\ now - x[1] < FailWindow
                                /\ x[1] + FailWindow <= u.entry[k].until
  <2>1. CASE k \in S
    <3>1. g[k] = {} /\ u.entry[k].count = 0
      BY <1>2, <2>1
    <3>2. IsFiniteSet({}) /\ Cardinality({}) = 0
      BY FS_EmptySet
    <3> QED
      BY <3>1, <3>2
  <2>2. CASE k \notin S
    <3>1. g[k] = h[k] /\ u.entry[k] = f.entry[k]
      BY <2>2
    <3> QED
      BY <3>1 DEF Counts
  <2> QED
    BY <2>1, <2>2
<1> QED
  BY <1>3, <1>4, <1>5 DEF Counts

\* A wrong password of k, looked at without a picture code if q.
Guess(h, k, q) == [h EXCEPT ![k] = IF q THEN Stamped(h[k]) ELSE h[k]]

\* A failure is counted; a guess comes only while the count can still grow, and
\* an entry that starts again has no guess left in its window.
LEMMA BumpCounts ==
  ASSUME now \in Clock, NEW f, NEW h, Counts(f, h), NEW k \in FailKeys,
         NEW q \in BOOLEAN, q => Failures(f, k) < Threshold
  PROVE  Counts(Bump(f, k), Guess(h, k, q))
<1> DEFINE u == Bump(f, k)
           g == Guess(h, k, q)
           c == IF Failures(f, k) < Threshold THEN Failures(f, k) + 1 ELSE Threshold
<1>1. now \in Nat /\ FailWindow \in Nat \ {0} /\ Threshold \in Nat \ {0}
  BY SignInAssumption DEF Clock
<1>2. f.entry[k].count \in 0..Threshold /\ f.entry[k].until \in Nat
  BY DEF Counts, FailTables, Counter
<1>3. h[k] \in Stamps /\ IsFiniteSet(h[k]) /\ Cardinality(h[k]) \in Nat
  BY FS_CardinalityType DEF Counts
<1>4. Cardinality(h[k]) <= Failures(f, k) /\ Failures(f, k) \in 0..Threshold
  <2>1. CASE f.entry[k].until > now
    BY <1>2, <2>1 DEF Failures, Counts
  <2>2. CASE ~(f.entry[k].until > now)
    <3>1. ASSUME NEW x \in h[k] PROVE FALSE
      <4>1. /\ x[1] \in Nat /\ now - x[1] < FailWindow
            /\ x[1] + FailWindow <= f.entry[k].until
        BY <1>3 DEF Counts, Stamps, Clock
      <4> QED
        BY <1>1, <1>2, <2>2, <4>1
    <3>2. h[k] = {}
      BY <3>1
    <3> QED
      BY <1>1, <2>2, <3>2, FS_EmptySet DEF Failures
  <2> QED
    BY <2>1, <2>2
<1>5. /\ u \in FailTables /\ u.since = Used(f, k)
      /\ u.entry[k] = [until |-> now + FailWindow, count |-> c]
      /\ \A j \in FailKeys \ {k} : u.entry[j] = f.entry[j]
  <2>1. Used(f, k) \in [FailKeys -> SUBSET FailKeys]
    BY DEF Used, Counts, FailTables
  <2>2. [until |-> now + FailWindow, count |-> c] \in Counter
    BY <1>1, <1>4 DEF Counter
  <2>3. u = [entry |-> [f.entry EXCEPT ![k] = [until |-> now + FailWindow, count |-> c]],
             since |-> Used(f, k)]
    BY DEF Bump
  <2> HIDE DEF u, c
  <2> QED
    BY <2>1, <2>2, <2>3 DEF Counts, FailTables
<1>6. Dict(u, FailKeys)
  <2> HIDE DEF u, c
  <2>1. DOMAIN u.entry = FailKeys /\ DOMAIN f.entry = FailKeys
    BY <1>5 DEF Counts, FailTables
  <2>2. Held(u) \subseteq Held(f) \cup {k}
    BY <1>5, <2>1 DEF Held
  <2> QED
    BY <1>5, <2>1, <2>2, OneUsed DEF Counts
<1>7. /\ IsFiniteSet(g[k]) /\ g[k] \in Stamps /\ Cardinality(g[k]) <= c
      /\ \A x \in g[k] : x \in h[k] \/ x[1] = now
      /\ g \in [FailKeys -> Stamps] /\ \A j \in FailKeys \ {k} : g[j] = h[j]
  <2>1. /\ Stamped(h[k]) \in Stamps /\ IsFiniteSet(Stamped(h[k]))
        /\ Cardinality(Stamped(h[k])) = Cardinality(h[k]) + 1
        /\ \A x \in Stamped(h[k]) : x \in h[k] \/ x[1] = now
    BY <1>3, OneMore
  <2>2. h \in [FailKeys -> Stamps]
    BY DEF Counts
  <2>3. g[k] = (IF q THEN Stamped(h[k]) ELSE h[k])
    BY <2>2 DEF Guess
  <2>4. CASE q
    <3>1. g[k] = Stamped(h[k]) /\ Failures(f, k) < Threshold
      BY <2>3, <2>4
    <3> QED
      BY <1>3, <1>4, <2>1, <2>2, <3>1 DEF Guess
  <2>5. CASE ~q
    <3>1. g[k] = h[k] /\ Cardinality(h[k]) <= c
      BY <1>1, <1>3, <1>4, <2>3, <2>5
    <3> QED
      BY <1>3, <2>2, <3>1 DEF Guess
  <2> QED
    BY <2>4, <2>5
<1> HIDE DEF u, g, c
<1>8. ASSUME NEW j \in FailKeys
      PROVE  /\ IsFiniteSet(g[j]) /\ Cardinality(g[j]) <= u.entry[j].count
             /\ \A x \in g[j] : /\ x[1] <= now /\ now - x[1] < FailWindow
                                /\ x[1] + FailWindow <= u.entry[j].until
  <2>1. CASE j = k
    <3>1. u.entry[j].until = now + FailWindow /\ u.entry[j].count = c
      BY <1>5, <2>1
    <3>2. ASSUME NEW x \in g[k]
          PROVE  /\ x[1] <= now /\ now - x[1] < FailWindow
                 /\ x[1] + FailWindow <= now + FailWindow
      <4>1. x[1] \in Nat
        BY <1>7 DEF Stamps, Clock
      <4>2. x[1] <= now /\ now - x[1] < FailWindow
        BY <1>1, <1>7 DEF Counts
      <4> QED
        BY <1>1, <4>1, <4>2
    <3> QED
      BY <1>7, <2>1, <3>1, <3>2
  <2>2. CASE j # k
    <3>1. u.entry[j] = f.entry[j] /\ g[j] = h[j]
      BY <1>5, <1>7, <2>2
    <3> QED
      BY <3>1 DEF Counts
  <2> QED
    BY <2>1, <2>2
<1>9. Counts(u, g)
  BY <1>5, <1>6, <1>7, <1>8 DEF Counts
<1> QED
  BY <1>9 DEF u, g

\* The entry that makes room takes its guesses with it, and it has been there for
\* FailMax - 1 others by then.
LEMMA FailRoomCounts ==
  ASSUME NEW f, NEW h, Counts(f, h), NEW g,
         g = [k \in FailKeys |-> IF /\ k \in Held(f) \ Held(FailRoom(f))
                                    /\ Cardinality(f.since[k]) >= FailMax - 1
                                 THEN {} ELSE h[k]]
  PROVE  /\ Counts(FailRoom(f), g)
         /\ \A k \in FailKeys : Failures(FailRoom(f), k) \in {0, Failures(f, k)}
<1>1. /\ f \in FailTables /\ IsFiniteSet(Held(f)) /\ Cardinality(Held(f)) \in Nat
      /\ FailMax \in Nat \ {0} /\ NoCounter \in Counter /\ {} \in Stamps
  BY FS_CardinalityType, SignInAssumption
     DEF Counts, Dict, NoCounter, Counter, Stamps
<1>2. NoCounter.count = 0 /\ NoCounter.until = 0
  BY DEF NoCounter
<1>3. CASE Cardinality(Held(f)) >= FailMax
  <2> DEFINE o == Oldest(f)
             u == FailRoom(f)
  <2>1. Held(f) # {}
    BY <1>1, <1>3, FS_EmptySet
  <2>2. o \in Held(f) /\ Held(f) \ {o} \subseteq f.since[o]
    BY <2>1, OldestHeld DEF Counts, Dict
  <2>3. u = [f EXCEPT !.entry[o] = NoCounter]
    BY <1>3 DEF FailRoom
  <2> HIDE DEF o, u
  <2>4. o \in FailKeys
    BY <1>1, <2>2 DEF Held, FailTables
  <2>5. /\ u \in FailTables /\ u.since = f.since
        /\ \A k \in FailKeys : u.entry[k] = IF k \in {o} THEN NoCounter ELSE f.entry[k]
    BY <1>1, <2>3, <2>4 DEF FailTables
  <2>6. o \notin Held(u) /\ \A k \in FailKeys \ {o} : k \in Held(f) => k \in Held(u)
    <3>1. DOMAIN u.entry = FailKeys
      BY <2>5 DEF FailTables
    <3> QED
      BY <1>1, <1>2, <2>4, <2>5, <3>1 DEF Held
  <2>7. Cardinality(f.since[o]) >= FailMax - 1
    <3>1. IsFiniteSet(Held(f) \ {o}) /\ Cardinality(Held(f) \ {o}) = Cardinality(Held(f)) - 1
      BY <1>1, <2>2, FS_RemoveElement
    <3>2. IsFiniteSet(f.since[o])
      BY <2>4 DEF Counts, Dict
    <3>3. /\ Cardinality(Held(f) \ {o}) <= Cardinality(f.since[o])
          /\ Cardinality(f.since[o]) \in Nat
      BY <2>2, <3>2, FS_Subset, FS_CardinalityType
    <3> QED
      BY <1>1, <1>3, <3>1, <3>3
  <2>8. /\ g \in [FailKeys -> Stamps]
        /\ \A k \in FailKeys : g[k] = IF k \in {o} THEN {} ELSE h[k]
    <3>1. h \in [FailKeys -> Stamps]
      BY DEF Counts
    <3>2. \A k \in FailKeys : (k \in Held(f) \ Held(u)
                                 /\ Cardinality(f.since[k]) >= FailMax - 1) <=> k = o
      BY <2>2, <2>6, <2>7
    <3> QED
      BY <1>1, <3>1, <3>2 DEF u
  <2>9. LostCounts(f, h, {o}, u, g)
    BY <2>4, <2>5, <2>8 DEF LostCounts
  <2>10. Counts(u, g)
    BY <2>9, FewerCounts
  <2>11. \A k \in FailKeys : Failures(u, k) \in {0, Failures(f, k)}
    BY <1>2, <2>5 DEF Failures
  <2> QED
    BY <2>10, <2>11 DEF u
<1>4. CASE ~(Cardinality(Held(f)) >= FailMax)
  <2>1. FailRoom(f) = f
    BY <1>4 DEF FailRoom
  <2>2. g = h
    BY <2>1 DEF Counts
  <2> QED
    BY <2>1, <2>2
<1> QED
  BY <1>3, <1>4

\* A failed sign-in counts for its address and its name; it is a guess only if
\* neither has reached the threshold.
LEMMA FailedCounts ==
  ASSUME now \in Clock, Counts(fails, guesses), NEW i \in Addresses, NEW a \in Names,
         NEW q \in BOOLEAN, q => ~TooManyFailures(fails, {i, a})
  PROVE  Counts(Recorded(fails, i, a), Failed(guesses, i, a, q))
<1> DEFINE r == FailRoom(fails)
           h == [k \in FailKeys |-> IF /\ k \in Held(fails) \ Held(r)
                                       /\ Cardinality(fails.since[k]) >= FailMax - 1
                                    THEN {} ELSE guesses[k]]
           s == Bump(r, i)
           hs == Guess(h, i, q)
<1>1. i \in FailKeys /\ a \in FailKeys /\ i # a
  BY SignInAssumption DEF FailKeys
<1>2. Counts(r, h) /\ \A k \in FailKeys : Failures(r, k) \in {0, Failures(fails, k)}
  BY FailRoomCounts
<1>3. q => \A k \in {i, a} : Failures(r, k) < Threshold
  <2>1. Threshold \in Nat \ {0}
    BY SignInAssumption
  <2>2. \A k \in FailKeys : Failures(fails, k) \in Nat
    BY DEF Counts, FailTables, Counter, Failures
  <2>3. q => \A k \in {i, a} : Failures(fails, k) < Threshold
    BY <1>1, <2>1, <2>2 DEF TooManyFailures
  <2> HIDE DEF r
  <2> QED
    BY <1>1, <1>2, <2>1, <2>3
<1>4. Failed(guesses, i, a, q) = Guess(hs, a, q)
  <2>1. Failed(guesses, i, a, q)
          = [k \in FailKeys |-> IF q /\ k \in {i, a} THEN Stamped(h[k]) ELSE h[k]]
    BY DEF Failed
  <2>2. h = [k \in FailKeys |-> h[k]]
    OBVIOUS
  <2> HIDE DEF h
  <2>3. hs = [k \in FailKeys |-> IF q /\ k = i THEN Stamped(h[k]) ELSE h[k]]
    BY <1>1, <2>2 DEF Guess
  <2> HIDE DEF hs
  <2>4. Guess(hs, a, q) = [k \in FailKeys |-> IF q /\ k \in {i, a} THEN Stamped(h[k]) ELSE h[k]]
    BY <1>1, <2>3 DEF Guess
  <2> QED
    BY <2>1, <2>4
<1> HIDE DEF r, h
<1>5. Counts(s, hs)
  BY <1>1, <1>2, <1>3, BumpCounts
<1>6. Failures(s, a) = Failures(r, a)
  <2>1. r.entry \in [FailKeys -> Counter]
    BY <1>2 DEF Counts, FailTables
  <2>2. s.entry[a] = r.entry[a]
    BY <1>1, <2>1 DEF Bump
  <2> QED
    BY <2>2 DEF Failures
<1>7. Recorded(fails, i, a) = Bump(s, a)
  BY DEF Recorded, r
<1> HIDE DEF s, hs
<1> QED
  BY <1>1, <1>3, <1>4, <1>5, <1>6, <1>7, BumpCounts

\* A sign-in takes both of its entries out.
LEMMA ClearedCounts ==
  ASSUME Counts(fails, guesses), NEW i \in Addresses, NEW a \in Names
  PROVE  Counts(Without(fails, {i, a}, NoCounter), [guesses EXCEPT ![i] = {}, ![a] = {}])
<1> DEFINE u == Without(fails, {i, a}, NoCounter)
           g == [guesses EXCEPT ![i] = {}, ![a] = {}]
<1>1. i \in FailKeys /\ a \in FailKeys
  BY DEF FailKeys
<1>2. fails \in FailTables /\ guesses \in [FailKeys -> Stamps]
  BY DEF Counts
<1>3. /\ NoCounter \in Counter /\ {} \in Stamps
  BY SignInAssumption DEF NoCounter, Counter, Stamps
<1>4. /\ u \in FailTables /\ u.since = fails.since
      /\ \A k \in FailKeys : u.entry[k] = IF k \in {i, a} THEN NoCounter ELSE fails.entry[k]
  BY <1>2, <1>3 DEF Without, FailTables
<1>5. /\ g \in [FailKeys -> Stamps]
      /\ \A k \in FailKeys : g[k] = IF k \in {i, a} THEN {} ELSE guesses[k]
  BY <1>1, <1>2, <1>3
<1> HIDE DEF u, g
<1>6. LostCounts(fails, guesses, {i, a}, u, g)
  BY <1>1, <1>4, <1>5 DEF LostCounts
<1>7. Counts(u, g)
  BY <1>6, FewerCounts
<1> QED
  BY <1>7 DEF u, g

\* A guess leaves the history when its window has passed; its count stays.
LEMMA WaitCounts ==
  ASSUME now \in Clock, Counts(fails, guesses), Wait
  PROVE  Counts(fails, guesses)'
<1>1. now \in Nat /\ now' = now + 1 /\ now' \in Clock /\ fails' = fails
  BY SignInAssumption DEF Wait, Clock, server
<1>2. \A k \in FailKeys : guesses'[k] = {x \in guesses[k] : now' - x[1] < FailWindow}
  BY DEF Wait
<1>3. guesses' \in [FailKeys -> Stamps]
  BY DEF Wait, Counts, Stamps
<1>4. ASSUME NEW k \in FailKeys
      PROVE  /\ IsFiniteSet(guesses'[k]) /\ Cardinality(guesses'[k]) <= fails.entry[k].count
             /\ \A x \in guesses'[k] : /\ x[1] <= now' /\ now' - x[1] < FailWindow
                                       /\ x[1] + FailWindow <= fails.entry[k].until
  <2>1. guesses'[k] \subseteq guesses[k] /\ guesses[k] \in Stamps /\ IsFiniteSet(guesses[k])
    BY <1>2 DEF Counts
  <2>2. \A x \in guesses[k] : x[1] \in Nat /\ x[1] <= now
    BY <2>1 DEF Counts, Stamps, Clock
  <2>3. /\ IsFiniteSet(guesses'[k])
        /\ Cardinality(guesses'[k]) <= Cardinality(guesses[k])
    BY <2>1, FS_Subset
  <2>4. Cardinality(guesses'[k]) \in Nat /\ Cardinality(guesses[k]) \in Nat
    BY <2>1, <2>3, FS_CardinalityType
  <2>5. fails.entry[k].count \in Nat /\ Cardinality(guesses[k]) <= fails.entry[k].count
    BY DEF Counts, FailTables, Counter
  <2>6. Cardinality(guesses'[k]) <= fails.entry[k].count
    BY <2>3, <2>4, <2>5
  <2>7. \A x \in guesses'[k] : /\ x[1] <= now' /\ now' - x[1] < FailWindow
                               /\ x[1] + FailWindow <= fails.entry[k].until
    BY <1>1, <1>2, <2>1, <2>2 DEF Counts
  <2> QED
    BY <2>3, <2>6, <2>7
<1> QED
  BY <1>1, <1>3, <1>4 DEF Counts, FailTables, Dict, Ordered, Held

CountsInv == now \in Clock /\ Counts(fails, guesses)

\* A refused sign-in is counted, an accepted one clears its two entries, and the
\* other actions leave the failure table alone.
LEMMA CountsStep == CountsInv /\ [SignInNext]_signInVars => CountsInv'
<1> SUFFICES ASSUME now \in Clock, Counts(fails, guesses), [SignInNext]_signInVars
             PROVE  CountsInv'
  BY DEF CountsInv
<1> USE DEF CountsInv
<1>1. ASSUME now' = now, Counts(fails', guesses')
      PROVE  CountsInv'
  BY <1>1 DEF Counts, FailTables, Dict, Ordered, Held
<1>2. ASSUME now' = now, fails' = fails, guesses' = guesses
      PROVE  CountsInv'
  BY <1>1, <1>2
<1>3. ASSUME NEW i \in Addresses, NEW a \in Names, NEW q \in BOOLEAN,
             q => ~TooManyFailures(fails, {i, a}), now' = now,
             fails' = Recorded(fails, i, a), guesses' = Failed(guesses, i, a, q)
      PROVE  CountsInv'
  BY <1>1, <1>3, FailedCounts
<1>4. ASSUME NEW i \in Addresses, NEW a \in Names, NEW b \in Browsers, NEW answer,
             RefuseCaptcha(b, i, a, answer)
      PROVE  CountsInv'
  BY <1>3, <1>4 DEF RefuseCaptcha
<1>5. ASSUME NEW i \in Addresses, NEW a \in Names, NEW b \in Browsers, NEW answer,
             RefusePassword(b, i, a, answer)
      PROVE  CountsInv'
  <2>1. /\ (~CaptchaRequired(b, i, a)) \in BOOLEAN
        /\ ~CaptchaRequired(b, i, a) => ~TooManyFailures(fails, {i, a})
    BY DEF CaptchaRequired
  <2> QED
    BY <1>3, <1>5, <2>1 DEF RefusePassword
<1>6. ASSUME NEW i \in Addresses, NEW a \in Names, NEW b \in Browsers, NEW answer,
             Accept(b, i, a, answer)
      PROVE  CountsInv'
  BY <1>1, <1>6, ClearedCounts DEF Accept
<1>7. CASE Wait
  BY <1>7, WaitCounts, WaitClock
<1>8. CASE Restart
  BY <1>1, <1>8, EmptyCounts DEF Restart
<1>9. ASSUME NEW k \in Forms, CallForm(k)
      PROVE  CountsInv'
  BY <1>2, <1>9 DEF CallForm
<1>10. ASSUME NEW b \in Browsers, DrawCode(b) \/ LeaveSession(b) \/ OldCookie(b)
       PROVE  CountsInv'
  BY <1>2, <1>10 DEF DrawCode, LeaveSession, OldCookie, server
<1>11. ASSUME NEW i \in Addresses, NEW a \in Names, RefuseLimited(i, a)
       PROVE  CountsInv'
  BY <1>2, <1>11 DEF RefuseLimited
<1>12. CASE UNCHANGED signInVars
  BY <1>2, <1>12 DEF signInVars, server
<1> QED
  BY <1>4, <1>5, <1>6, <1>7, <1>8, <1>9, <1>10, <1>11, <1>12 DEF SignInNext

\* In every reachable state the table has counted the guesses of the window.
LEMMA CountsInvariant == SignInSpec => []CountsInv
<1>1. SignInInit => CountsInv
  <2> SUFFICES ASSUME SignInInit PROVE CountsInv
    OBVIOUS
  <2>1. /\ fails = Empty(FailKeys, NoCounter) /\ guesses = [k \in FailKeys |-> {}]
        /\ now \in Clock
    BY SignInAssumption DEF SignInInit, Clock
  <2> QED
    BY <2>1, EmptyCounts DEF CountsInv
<1> QED
  BY <1>1, CountsStep, PTL DEF SignInSpec

\* record_login_failure and is_captcha_required together: between two sign-ins of
\* a key, at most Threshold wrong passwords of any window are looked at without
\* a picture code, for every number of browsers, addresses and names.
THEOREM CaptchaGateTheorem == SignInSpec => []CaptchaGate
<1>1. CountsInv => CaptchaGate
  <2> SUFFICES ASSUME now \in Clock, Counts(fails, guesses), NEW k \in FailKeys
               PROVE  Cardinality(guesses[k]) <= Threshold
    BY DEF CountsInv, CaptchaGate
  <2>1. /\ IsFiniteSet(guesses[k]) /\ Cardinality(guesses[k]) <= fails.entry[k].count
        /\ fails.entry[k].count \in 0..Threshold
    BY DEF Counts, FailTables, Counter
  <2>2. Cardinality(guesses[k]) \in Nat /\ Threshold \in Nat
    BY <2>1, FS_CardinalityType, SignInAssumption
  <2> QED
    BY <2>1, <2>2
<1> QED
  BY <1>1, CountsInvariant, PTL

\* What neither table holds: the time of the next sweep and the sessions.
Rest ==
    /\ now \in Clock /\ nextSweep \in 0..(MaxNow + Sweep)
    /\ session \in [Browsers -> [asked : BOOLEAN, code : Clock \cup {NoCode}]]

\* The sessions keep their shape in every outcome of a sign-in.
LEMMA RestStep == Rest /\ [SignInNext]_signInVars => Rest'
<1> SUFFICES ASSUME Rest, [SignInNext]_signInVars
             PROVE  Rest'
  OBVIOUS
<1> DEFINE Remembered == [asked : BOOLEAN, code : Clock \cup {NoCode}]
<1>1. ASSUME now' = now, SweepDone
      PROVE  nextSweep' \in 0..(MaxNow + Sweep)
  BY <1>1, SignInAssumption DEF Rest, SweepDone, Clock
<1>2. Blank \in Remembered
  BY DEF Blank
<1>3. ASSUME NEW b \in Browsers PROVE session[b] \in Remembered
  BY DEF Rest
<1>4. ASSUME NEW b \in Browsers, NEW s \in Remembered,
             session' = [session EXCEPT ![b] = s], now' = now,
             SweepDone \/ nextSweep' = nextSweep
      PROVE  Rest'
  BY <1>1, <1>4 DEF Rest
<1>5. ASSUME session' = session, now' = now, SweepDone \/ nextSweep' = nextSweep
      PROVE  Rest'
  BY <1>1, <1>5 DEF Rest
<1>6. ASSUME NEW i \in Addresses, NEW a \in Names, NEW b \in Browsers, NEW answer,
             RefuseCaptcha(b, i, a, answer)
      PROVE  Rest'
  <2> DEFINE s == [asked |-> TRUE, code |-> IF answer = "none" THEN session[b].code ELSE NoCode]
  <2>1. s \in Remembered
    BY <1>3
  <2>2. session' = [session EXCEPT ![b] = s]
    BY <1>6 DEF RefuseCaptcha
  <2> QED
    BY <1>4, <1>6, <2>1, <2>2 DEF RefuseCaptcha
<1>7. ASSUME NEW i \in Addresses, NEW a \in Names, NEW b \in Browsers, NEW answer,
             RefusePassword(b, i, a, answer)
      PROVE  Rest'
  <2> DEFINE s == [asked |-> session[b].asked \/ TooManyFailures(fails', {i}),
                   code |-> IF CaptchaRequired(b, i, a) THEN NoCode ELSE session[b].code]
  <2>1. s \in Remembered
    <3>1. (session[b].asked \/ TooManyFailures(fails', {i})) \in BOOLEAN
      OBVIOUS
    <3>2. (IF CaptchaRequired(b, i, a) THEN NoCode ELSE session[b].code) \in Clock \cup {NoCode}
      BY <1>3
    <3> QED
      BY <3>1, <3>2
  <2>2. session' = [session EXCEPT ![b] = s]
    BY <1>7 DEF RefusePassword
  <2> QED
    BY <1>4, <1>7, <2>1, <2>2 DEF RefusePassword
<1>8. ASSUME NEW i \in Addresses, NEW a \in Names, NEW b \in Browsers, NEW answer,
             Accept(b, i, a, answer)
      PROVE  Rest'
  BY <1>2, <1>4, <1>8 DEF Accept
<1>9. ASSUME NEW b \in Browsers, DrawCode(b)
      PROVE  Rest'
  <2>1. now \in Clock /\ [session[b] EXCEPT !.code = now] \in Remembered
    BY <1>3 DEF Rest
  <2>2. session' = [session EXCEPT ![b] = [session[b] EXCEPT !.code = now]]
    BY <1>9 DEF DrawCode
  <2> QED
    BY <1>4, <1>9, <2>1, <2>2 DEF DrawCode, server
<1>10. ASSUME NEW b \in Browsers, LeaveSession(b)
       PROVE  Rest'
  BY <1>2, <1>4, <1>10 DEF LeaveSession, server
<1>11. CASE Wait
  BY <1>11, WaitClock DEF Wait, server, Rest
<1>12. CASE Restart
  BY <1>12, SignInAssumption DEF Restart, Rest
<1>13. ASSUME NEW k \in Forms, CallForm(k)
       PROVE  Rest'
  BY <1>5, <1>13 DEF CallForm
<1>14. ASSUME NEW i \in Addresses, NEW a \in Names, RefuseLimited(i, a)
       PROVE  Rest'
  BY <1>5, <1>14 DEF RefuseLimited
<1>15. CASE UNCHANGED signInVars
  BY <1>5, <1>15 DEF signInVars, server
<1>16. ASSUME NEW b \in Browsers, OldCookie(b)
       PROVE  Rest'
  <2>1. PICK old \in [asked : {FALSE, session[b].asked}, code : (0..now) \cup {NoCode}] :
           session' = [session EXCEPT ![b] = old]
    BY <1>16 DEF OldCookie
  <2>2. (0..now) \subseteq Clock
    BY SignInAssumption DEF Rest, Clock
  <2>3. old \in Remembered
    BY <1>3, <2>1, <2>2
  <2> QED
    BY <1>4, <1>16, <2>1, <2>3 DEF OldCookie, server
<1> QED
  BY <1>6, <1>7, <1>8, <1>9, <1>10, <1>11, <1>12, <1>13, <1>14, <1>15, <1>16 DEF SignInNext

\* The state of the sign-in has its types: the table never outgrows its cap
\* and a list of times never loses its form.
THEOREM SignInTypes == SignInSpec => []SignInTypeOK
<1>1. SignInInit => Rest
  BY SignInAssumption DEF SignInInit, Rest, Clock, Blank
<1>2. SignInSpec => []Rest
  BY <1>1, RestStep, PTL DEF SignInSpec
<1>3. LimiterInv /\ CountsInv /\ Rest => SignInTypeOK
  BY DEF LimiterInv, CountsInv, Rest, SignInTypeOK, Limiter, Tables, Counts, FailTables, Dict
<1> QED
  BY <1>2, <1>3, LimiterInvariant, CountsInvariant, PTL
=============================================================================
