------------------------------ MODULE Accounts ------------------------------
(***************************************************************************)
(* The accounts of InvoiceDock and their signed session cookies: local       *)
(* registration with an invitation, OIDC and Google/GitHub sign-in, and the  *)
(* administration of users (app/main.py, app/security.py, invite_service.py).*)
(*                                                                         *)
(* A handler that takes a form identifies its actor first and awaits the     *)
(* form afterwards: other requests run in between, and what they do to the   *)
(* actor goes unnoticed.  What follows the await is one step.  Handlers that *)
(* read the form before they read the database are one step altogether.      *)
(***************************************************************************)
EXTENDS Naturals, FiniteSets

CONSTANTS
    Users,        \* account ids
    Root,         \* the account of bootstrap_admin
    Legacy,       \* accounts an older release bound to OIDC with a password
    Requests,     \* requests parked at "await request.form()"
    Username,     \* Username[u]: the sign-in name of u, never an id
    InviteRequired, \* FALSE too for a code preset in the environment
    MaxUses,      \* of the one invitation
    MaxHashes,    \* passwords ever set (a bound)
    MaxVersion,   \* of session_version (a bound)
    MaxSessions   \* different cookies ever issued (a bound)

ASSUME AccountsAssumption ==
    /\ Root \in Users /\ Legacy \subseteq Users \ {Root}
    /\ InviteRequired \in BOOLEAN
    /\ DOMAIN Username = Users
    /\ {MaxUses, MaxHashes} \subseteq Nat \ {0} /\ MaxVersion \in Nat

NoPassword == 0

\* hash: which of the salted hashes ever made is password_hash; bound: what
\* oidc_subject names, where "oauth" is Google or GitHub.
Account == [role : {"admin", "member"}, active : BOOLEAN, hash : 0..MaxHashes,
            bound : {"no", "oidc", "oauth"}, version : 0..MaxVersion]
NoAccount == [role |-> "absent"]

\* A cookie carries the user and session_auth_marker, a digest of just these
\* fields.
Session == [user : Users, marker : Account]

Op == {"active", "role", "reset", "change", "invite"}
\* Of the actor's row as it was read, the administration looks at the id only.
Parked == [op : Op, actor : Users, seen : Account \cup {NoAccount}]
Free == [op |-> "free"]

Invite == [used : 0..MaxUses, status : {"active", "depleted", "expired", "disabled"},
           past : BOOLEAN]
NewInvite == [used |-> 0, status |-> "active", past |-> FALSE]
NoInvite == [NewInvite EXCEPT !.status = "absent"]

VARIABLES
    account,    \* the users table
    issued,     \* the session cookies handed out, copies included
    parked,     \* parked[r]: the request, with its actor as it was read
    invite,     \* the row of invite_codes; past: expires_at has gone by
    hashes,     \* salted hashes made so far
    demoted,    \* history: OIDC has taken the role from an admin
    asked       \* history: an admin's new code has got as far as its insert

vars == <<account, issued, parked, invite, hashes, demoted, asked>>

Present == {u \in Users : account[u] # NoAccount}

TypeOK ==
    /\ account \in [Users -> Account \cup {NoAccount}]
    /\ issued \subseteq Session
    /\ parked \in [Requests -> Parked \cup {Free}]
    /\ invite \in Invite \cup {NoInvite}
    /\ hashes \in 1..MaxHashes
    /\ demoted \in BOOLEAN
    /\ asked \in BOOLEAN

\* One tick for the bootstrap password, shared by the legacy accounts' own.  The
\* table is empty or holds a code that names no creator, which the operator
\* has entered.
Init ==
    /\ account = [u \in Users |->
         IF u = Root THEN [role |-> "admin", active |-> TRUE, hash |-> 1,
                           bound |-> "no", version |-> 0]
         ELSE IF u \in Legacy THEN [role |-> "member", active |-> TRUE, hash |-> 1,
                                    bound |-> "oidc", version |-> 0]
         ELSE NoAccount]
    /\ issued = {}
    /\ parked = [r \in Requests |-> Free]
    /\ invite \in {NewInvite, NoInvite}
    /\ hashes = 1
    /\ demoted = FALSE
    /\ asked = FALSE

-----------------------------------------------------------------------------

Valid(s) == account[s.user] = s.marker

Issue(u, a) ==
    /\ Cardinality(issued) < MaxSessions
    /\ issued' = issued \cup {[user |-> u, marker |-> a]}

\* Mutant: the sessions of the account are left alone.
RotateForgotten(a) == a

\* rotate_user_sessions
Rotate(a) == [a EXCEPT !.version = @ + 1]

CanRotate(a) == a.version < MaxVersion

\* _active_admin_count
ActiveAdmins == {u \in Present : account[u].role = "admin" /\ account[u].active}

\* Mutant: deactivated admins count too.
LastAdminOfAll(u) ==
    u \in ActiveAdmins /\ Cardinality({v \in Present : account[v].role = "admin"}) <= 1

LastAdmin(u) == u \in ActiveAdmins /\ Cardinality(ActiveAdmins) <= 1

(***************************************************************************)
(* Registration.                                                           *)
(***************************************************************************)

\* Mutant: only a disabled code is refused.
InviteOpenUnlessDisabled == invite.status \notin {"disabled", "absent"} /\ ~invite.past

InviteOpen == invite.status = "active" /\ ~invite.past /\ invite.used < MaxUses

Consumed ==
    [invite EXCEPT !.used = @ + 1,
                   !.status = IF invite.used + 1 >= MaxUses THEN "depleted" ELSE @]

Register(u) ==
    /\ u \notin Present /\ hashes < MaxHashes
    /\ InviteRequired => InviteOpen
    /\ invite' = IF InviteRequired THEN Consumed ELSE invite
    /\ hashes' = hashes + 1
    /\ account' = [account EXCEPT ![u] =
          [role |-> "member", active |-> TRUE, hash |-> hashes + 1,
           bound |-> "no", version |-> 0]]
    /\ UNCHANGED <<issued, parked, demoted, asked>>

\* The form does not pass, or the address is taken: the use is spent.
RegisterFails ==
    /\ InviteRequired /\ InviteOpen
    /\ invite' = Consumed
    /\ UNCHANGED <<account, issued, parked, hashes, demoted, asked>>

\* An attempt after expires_at is what marks the code.
RegisterExpired ==
    /\ InviteRequired /\ invite.status = "active" /\ invite.past
    /\ invite' = [invite EXCEPT !.status = "expired"]
    /\ UNCHANGED <<account, issued, parked, hashes, demoted, asked>>

InvitePasses ==
    /\ invite # NoInvite /\ ~invite.past
    /\ invite' = [invite EXCEPT !.past = TRUE]
    /\ UNCHANGED <<account, issued, parked, hashes, demoted, asked>>

\* An admin disables the code, whatever its status.
DisableInvite ==
    /\ invite # NoInvite /\ invite.status # "disabled"
    /\ invite' = [invite EXCEPT !.status = "disabled"]
    /\ UNCHANGED <<account, issued, parked, hashes, demoted, asked>>

(***************************************************************************)
(* Signing in.                                                             *)
(***************************************************************************)

\* With the password.
Login(u) ==
    /\ u \in Present
    /\ account[u].active /\ account[u].hash # NoPassword
    /\ Issue(u, account[u])
    /\ UNCHANGED <<account, parked, invite, hashes, demoted, asked>>

\* The row after an OIDC sign-in with this role: OIDC accounts have no local
\* password, and a change of either ends the sessions.
Synced(a, role) ==
    LET b == [a EXCEPT !.role = role, !.hash = NoPassword] IN
    IF b = a THEN a ELSE Rotate(b)

OidcLogin(u, role) ==
    /\ u \in Present
    /\ account[u].active /\ account[u].bound = "oidc" /\ CanRotate(account[u])
    /\ account' = [account EXCEPT ![u] = Synced(@, role)]
    /\ Issue(u, Synced(account[u], role))
    /\ demoted' = (demoted \/ (account[u].role = "admin" /\ role = "member"))
    /\ UNCHANGED <<parked, invite, hashes, asked>>

\* A first sign-in from outside needs no invitation; Google and GitHub give no
\* role.
NewAccount(u, bound, role) ==
    /\ u \notin Present
    /\ LET a == [role |-> role, active |-> TRUE, hash |-> NoPassword,
                 bound |-> bound, version |-> 0] IN
          account' = [account EXCEPT ![u] = a] /\ Issue(u, a)
    /\ UNCHANGED <<parked, invite, hashes, demoted, asked>>

NewOidc(u, role) == NewAccount(u, "oidc", role)
NewOauth(u) == NewAccount(u, "oauth", "member")

\* Google and GitHub bind an account with the same address, without rotating.
OauthLogin(u) ==
    /\ u \in Present
    /\ account[u].active /\ account[u].bound # "oidc"
    /\ LET a == [account[u] EXCEPT !.bound = "oauth"] IN
          account' = [account EXCEPT ![u] = a] /\ Issue(u, a)
    /\ UNCHANGED <<parked, invite, hashes, demoted, asked>>

(***************************************************************************)
(* Requests that await their form.                                         *)
(***************************************************************************)

\* require_page_user and require_page_admin; then the handler awaits.
Arrive(r, s, op) ==
    /\ parked[r] = Free
    /\ s \in issued /\ Valid(s) /\ s.marker.active
    /\ op # "change" => s.marker.role = "admin"
    /\ parked' = [parked EXCEPT ![r] =
          [op |-> op, actor |-> s.user,
           seen |-> IF op = "change" THEN account[s.user] ELSE NoAccount]]
    /\ UNCHANGED <<account, issued, invite, hashes, demoted, asked>>

Answer(r) == parked' = [parked EXCEPT ![r] = Free]

\* The client goes, the form does not pass or the handler refuses.
Refuse(r) ==
    /\ parked[r] # Free
    /\ Answer(r)
    /\ UNCHANGED <<account, issued, invite, hashes, demoted, asked>>

Administers(r, op, u) == parked[r].op = op /\ u \in Present /\ u # parked[r].actor

ToggleActive(r, u) ==
    /\ Administers(r, "active", u)
    /\ ~LastAdmin(u) /\ CanRotate(account[u])
    /\ account' = [account EXCEPT ![u] = Rotate([@ EXCEPT !.active = ~account[u].active])]
    /\ Answer(r)
    /\ UNCHANGED <<issued, invite, hashes, demoted, asked>>

ChangeRole(r, u, role) ==
    /\ Administers(r, "role", u)
    /\ account[u].bound = "no" /\ role # account[u].role
    /\ role = "member" => ~LastAdmin(u)
    /\ CanRotate(account[u])
    /\ account' = [account EXCEPT ![u] = Rotate([@ EXCEPT !.role = role])]
    /\ Answer(r)
    /\ UNCHANGED <<issued, invite, hashes, demoted, asked>>

ResetPassword(r, u) ==
    /\ Administers(r, "reset", u)
    /\ account[u].bound = "no"
    /\ CanRotate(account[u]) /\ hashes < MaxHashes
    /\ account' = [account EXCEPT ![u] = Rotate([@ EXCEPT !.hash = hashes + 1])]
    /\ hashes' = hashes + 1
    /\ Answer(r)
    /\ UNCHANGED <<issued, invite, demoted, asked>>

\* A code that is not in the table yet; with this module's one row, the first.
\* create_invite_code stores the admin's username as created_by, a foreign key
\* to the ids of users: the commit fails and the request ends in an error.
CreateInvite(r) ==
    /\ parked[r].op = "invite"
    /\ invite = NoInvite
    /\ invite' = IF \E u \in Present : u = Username[parked[r].actor] THEN NewInvite ELSE invite
    /\ asked' = TRUE
    /\ Answer(r)
    /\ UNCHANGED <<account, issued, hashes, demoted>>

\* The row read before the await is checked, and its two columns are written
\* over what is there; the new cookie is made from that row too.
ChangePassword(r) ==
    /\ parked[r].op = "change"
    /\ LET u == parked[r].actor
           a == Rotate([parked[r].seen EXCEPT !.hash = hashes + 1]) IN
          /\ parked[r].seen.hash # NoPassword /\ CanRotate(parked[r].seen)
          /\ hashes < MaxHashes
          /\ account' = [account EXCEPT ![u].hash = a.hash, ![u].version = a.version]
          /\ Issue(u, a)
    /\ hashes' = hashes + 1
    /\ Answer(r)
    /\ UNCHANGED <<invite, demoted, asked>>

-----------------------------------------------------------------------------

Roles == {"admin", "member"}

Next ==
    \/ \E u \in Users : Register(u) \/ Login(u) \/ OauthLogin(u) \/ NewOauth(u)
    \/ \E u \in Users, role \in Roles : OidcLogin(u, role) \/ NewOidc(u, role)
    \/ RegisterFails \/ RegisterExpired \/ InvitePasses \/ DisableInvite
    \/ \E r \in Requests, s \in issued, op \in Op : Arrive(r, s, op)
    \/ \E r \in Requests : Refuse(r) \/ ChangePassword(r) \/ CreateInvite(r)
    \/ \E r \in Requests, u \in Users : ToggleActive(r, u) \/ ResetPassword(r, u)
    \/ \E r \in Requests, u \in Users, role \in Roles : ChangeRole(r, u, role)

Spec == Init /\ [][Next]_vars

-----------------------------------------------------------------------------

\* As long as OIDC demotes nobody, no order of requests, stale ones included,
\* leaves the installation without an active administrator ("at least one
\* usable administrator must remain", main.py:2362 and :2405).
AdminRemains == ~demoted => ActiveAdmins # {}

\* A code that an admin creates is in the table
\* (tests/test_oauth_and_invites.py:299, "assert created is not None").
InviteCreated == asked => invite # NoInvite

\* A session that a change of its account has ended stays ended, however often
\* the account is switched off and on again and although change_password may
\* set session_version back (the docstring of session_auth_marker,
\* security.py:325).
EndedStaysEnded ==
    [][\A s \in issued : s.user \notin Legacy /\ ~Valid(s) => ~Valid(s)']_vars
=============================================================================
