-------------------------------- MODULE Access --------------------------------
(***************************************************************************)
(* Who may act for a tenant of apps/api: accounts, sessions, password      *)
(* resets, invites, API keys and permission overrides (AuthService,        *)
(* UsersService, ApiKeysService, PermissionOverridesService, the guards    *)
(* and AbilityFactory, TenantsService.registerWithOwner).                  *)
(*                                                                         *)
(* The tables are outside row-level security and, but for the creation of  *)
(* rows that belong together, outside transactions: a handler reads,       *)
(* decides, and writes in statements of their own.  A worker is one such   *)
(* request; req keeps what it read.  A request refused leaves no trace.    *)
(*                                                                         *)
(* Links and tokens expire at any moment, which only refuses requests: it  *)
(* is modelled by requests that are not made.  The lock of an account is   *)
(* the exception, since its end lets logins through.                       *)
(***************************************************************************)
EXTENDS Naturals, FiniteSets

CONSTANTS
    Workers,      \* requests that may be in flight together
    Emails,       \* addresses of people; an account is known by its address
    Robots,       \* service accounts, one for each API key that may be made
    Sessions,     \* ids of refresh tokens
    Links,        \* ids of password reset tokens
    Invites,      \* ids of invites
    OfferedRoles, \* roles given in the requests
    Rows,         \* permission overrides given in the requests
    LockThreshold, MaxFailures,
    Starts        \* how a behaviour may begin: the operations it may be made of,
                  \* and the accounts there are, none when a tenant registers

Accounts == Emails \cup Robots

Roles == {"owner", "admin", "financeiro", "operador_caixa"}
Actions == {"manage", "create", "read", "update", "delete"}

KeyStates == {"none", "live", "revoked"}

\* What an override may be about (permissionSubjectSchema).
Overridable ==
    {"Sale", "SaleReturn", "CashSession", "Product", "Category", "Customer", "Supplier",
     "StockMovement", "StockCount", "FinanceEntry", "CostCenter", "PurchaseOrder",
     "Report", "User", "Store"}

\* One row for each subject and action of an account.
OverrideRow == [subject : Overridable, action : Actions, effect : {"allow", "deny"}]

NoUser == [role |-> "none"]
NewUser(role) == [role |-> role, active |-> TRUE, failures |-> 0, lock |-> "none"]

ASSUME AccessAssumption ==
    /\ "none" \notin Accounts /\ "revoked" \notin Accounts
    /\ Emails \cap Robots = {} /\ Accounts \cap (Sessions \cup Links \cup Invites) = {}
    /\ Sessions \cap (Links \cup Invites) = {} /\ Links \cap Invites = {}
    /\ OfferedRoles \subseteq Roles
    /\ Rows \subseteq OverrideRow
    /\ \A start \in Starts :
          /\ start.staff \in [Accounts -> {NoUser} \cup {NewUser(r) : r \in Roles}]
          /\ \A r \in Robots : start.staff[r] = NoUser
          /\ IF "register" \in start.plan
             THEN \A a \in Accounts : start.staff[a] = NoUser
             ELSE \E a \in Accounts : start.staff[a].role = "owner"
    /\ LockThreshold \in Nat \ {0} /\ MaxFailures \in Nat

VARIABLES
    plan,      \* the operations of this behaviour
    founded,   \* the tenant is registered
    users,     \* users, by account
    sessions,  \* refresh_tokens
    claims,    \* access tokens issued: the account, and its role by then
    links,     \* password_reset_tokens
    invites,   \* user_invites
    keys,      \* api_keys, by service account
    overrides, \* user_permission_overrides, by account
    req,       \* the requests
    \* history
    epoch,     \* times the sessions of an account were ended
    doubled,   \* sessions, links and addresses two requests were at together
    raced      \* two requests that take an owner away overlapped

accessVars == <<plan, founded, users, sessions, claims, links, invites, keys, overrides,
                req, epoch, doubled, raced>>

NoRow == [subject |-> "none"]
NoSession == [user |-> "none"]
NoLink == [user |-> "none"]
NoInvite == [email |-> "none"]
Revoked == [email |-> "revoked"]
Idle == [step |-> "idle"]

IsUser(a) == users[a] # NoUser

AccessInit ==
    /\ \E start \in Starts : plan = start.plan /\ users = start.staff
    /\ founded = ("register" \notin plan)
    /\ sessions = [s \in Sessions |-> NoSession]
    /\ claims = {[user |-> a, role |-> users[a].role] : a \in {b \in Accounts : IsUser(b)}}
    /\ links = [l \in Links |-> NoLink] /\ invites = [i \in Invites |-> NoInvite]
    /\ keys = [r \in Robots |-> "none"]
    /\ overrides = [a \in Accounts |-> {}]
    /\ req = [w \in Workers |-> Idle]
    /\ epoch = [a \in Accounts |-> 0] /\ doubled = {} /\ raced = FALSE

----------------------------------------------------------------------------
(* Abilities. *)

AdminSubjects == Overridable \cup {"UserAccess", "Integration"}
ReadByFinance == Overridable \ {"FinanceEntry", "CostCenter", "User"}

Rules(actions, subjects) == [action : actions, subject : subjects]

\* defineByRole.
RoleRules(role) ==
    CASE role = "owner" -> Rules({"manage"}, {"all"})
      [] role = "admin" -> Rules({"manage"}, AdminSubjects)
      [] role = "financeiro" -> Rules({"manage"}, {"FinanceEntry", "CostCenter"})
                                \cup Rules({"read"}, ReadByFinance)
      [] role = "operador_caixa" ->
            Rules({"create", "read"}, {"Sale", "SaleReturn", "CashSession"})
            \cup Rules({"update"}, {"CashSession"})
            \cup Rules({"read"}, {"Product", "Category", "Customer", "Store"})

Covers(rule, action, subject) ==
    rule.action \in {"manage", action} /\ rule.subject \in {"all", subject}

\* buildAbility: the last override that covers decides, and the rows come in no
\* particular order; without one the role does.  None applies to an owner.
May(role, rows, action, subject) ==
    LET covering == {o \in rows : Covers(o, action, subject)} IN
    IF role = "owner" \/ covering = {}
    THEN \E rule \in RoleRules(role) : Covers(rule, action, subject)
    ELSE \E o \in covering : o.effect = "allow"

\* JwtAuthGuard: a token, with the role it was issued with, or a live key, with
\* the role its account has now.
Bears(a, role) ==
    \/ [user |-> a, role |-> role] \in claims
    \/ a \in Robots /\ keys[a] = "live" /\ users[a].role = role

\* AbilityGuard.
Authorized(a, action, subject) ==
    \E role \in Roles : Bears(a, role) /\ May(role, overrides[a], action, subject)

----------------------------------------------------------------------------
OnStep(w, step) == req[w].step = step
Begin(w, r) == req[w] = Idle /\ req' = [req EXCEPT ![w] = r]
GoOn(w, step) == req' = [req EXCEPT ![w].step = step]
Done(w) == req' = [req EXCEPT ![w] = Idle]

\* An exception, a refusal after the first read, a crash, an e-mail not sent.
FailRequest(w) ==
    /\ req[w] # Idle /\ Done(w)
    /\ UNCHANGED <<plan, founded, users, sessions, claims, links, invites, keys, overrides,
                   epoch, doubled, raced>>

OnlyReq == UNCHANGED <<plan, founded, users, sessions, claims, links, invites, keys,
                       overrides, epoch, doubled, raced>>

\* The requests at a session, link or address, and those besides w.
At(thing) == {v \in Workers : req[v] # Idle /\ req[v].at = thing}
Rivals(w, thing) == At(thing) \ {w}
Doubles(w, thing) == IF Rivals(w, thing) # {} THEN doubled \cup {thing} ELSE doubled

----------------------------------------------------------------------------
(* Sessions: login, refresh, logout. *)

\* A request that ends in issueTokens: for whom, from which session, what
\* epoch the account was in when it was let in, and when its line of sessions
\* began; at is the session or the address it depends on.
Entering(step, a, s, began, strayed) ==
    [step |-> step, user |-> a, at |-> s, seen |-> users[a], epoch |-> epoch[a],
     began |-> began, strayed |-> strayed]

\* login: findByEmail and the comparison.  A locked account is refused before
\* the password counts, an inactive one whatever it is.
Login(w, a, right) ==
    /\ "login" \in plan /\ a \in Emails
    /\ IsUser(a) /\ users[a].lock # "running" /\ users[a].active
    /\ right \/ users[a].failures < MaxFailures
    /\ Begin(w, Entering(IF ~ right THEN "failed"
                         ELSE IF users[a].failures > 0 THEN "clear" ELSE "issue",
                         a, a, epoch[a], FALSE))
    /\ OnlyReq

\* Mutant: the counter is one more than it is by now, the lock from what was read.
CountFailedLogin(w) ==
    LET r == req[w] IN
    /\ OnStep(w, "failed") /\ Done(w)
    /\ users' = [users EXCEPT ![r.user].failures = @ + 1,
                              ![r.user].lock = IF r.seen.failures + 1 = LockThreshold
                                               THEN "running" ELSE r.seen.lock]
    /\ UNCHANGED <<plan, founded, sessions, claims, links, invites, keys, overrides, epoch,
                   doubled, raced>>

\* registerFailedLogin: the counter and the lock, from the row as it was read.
RegisterFailedLogin(w) ==
    LET r == req[w]
        attempts == r.seen.failures + 1 IN
    /\ OnStep(w, "failed") /\ Done(w)
    /\ users' = [users EXCEPT ![r.user].failures = attempts,
                              ![r.user].lock = IF attempts = LockThreshold THEN "running"
                                               ELSE r.seen.lock]
    /\ UNCHANGED <<plan, founded, sessions, claims, links, invites, keys, overrides, epoch,
                   doubled, raced>>

\* clearLoginLockout.
ClearLoginLockout(w) ==
    /\ OnStep(w, "clear") /\ GoOn(w, "issue")
    /\ users' = [users EXCEPT ![req[w].user].failures = 0, ![req[w].user].lock = "none"]
    /\ UNCHANGED <<plan, founded, sessions, claims, links, invites, keys, overrides, epoch,
                   doubled, raced>>

\* LOGIN_LOCKOUT_MS have passed.
LockEnds(a) ==
    /\ IsUser(a) /\ users[a].lock = "running"
    /\ users' = [users EXCEPT ![a].lock = "over"]
    /\ UNCHANGED <<plan, founded, sessions, claims, links, invites, keys, overrides, req,
                   epoch, doubled, raced>>

\* Mutant: the revoked flag of the token is not looked at.
RefreshAny(w, s) ==
    LET token == sessions[s] IN
    /\ "refresh" \in plan /\ token # NoSession
    /\ Begin(w, Entering("rotate", token.user, s, token.began, token.strayed))
    /\ doubled' = Doubles(w, s)
    /\ UNCHANGED <<plan, founded, users, sessions, claims, links, invites, keys, overrides,
                   epoch, raced>>

\* refresh: the token is on record and not revoked.
Refresh(w, s) ==
    LET token == sessions[s] IN
    /\ "refresh" \in plan /\ token # NoSession /\ token.live
    /\ Begin(w, Entering("rotate", token.user, s, token.began, token.strayed))
    /\ doubled' = Doubles(w, s)
    /\ UNCHANGED <<plan, founded, users, sessions, claims, links, invites, keys, overrides,
                   epoch, raced>>

\* The token is revoked, whatever it is by then, and the account read again.
Rotate(w) ==
    LET r == req[w] IN
    /\ OnStep(w, "rotate")
    /\ sessions' = [sessions EXCEPT ![r.at].live = FALSE]
    /\ IF users[r.user].active
       THEN req' = [req EXCEPT ![w].step = "issue", ![w].seen = users[r.user]]
       ELSE Done(w)
    /\ UNCHANGED <<plan, founded, users, claims, links, invites, keys, overrides, epoch,
                   doubled, raced>>

FreshSession == CHOOSE s \in Sessions : sessions[s] = NoSession

\* issueTokens: an access token with the role that was read, and a session.
Issue(w) ==
    LET r == req[w]
        token == [user |-> r.user, live |-> TRUE, began |-> r.began, issued |-> 0,
                  strayed |-> r.strayed \/ epoch[r.user] > r.epoch] IN
    /\ OnStep(w, "issue") /\ Done(w)
    /\ \E s \in Sessions : sessions[s] = NoSession
    /\ sessions' = [s \in Sessions |->
          IF s = FreshSession THEN token
          ELSE IF s = r.at THEN [sessions[s] EXCEPT !.issued = @ + 1] ELSE sessions[s]]
    /\ claims' = claims \cup {[user |-> r.user, role |-> r.seen.role]}
    /\ UNCHANGED <<plan, founded, users, links, invites, keys, overrides, epoch, doubled, raced>>

\* logout.
Logout(s) ==
    /\ "refresh" \in plan /\ sessions[s] # NoSession /\ sessions[s].live
    /\ sessions' = [sessions EXCEPT ![s].live = FALSE]
    /\ UNCHANGED <<plan, founded, users, claims, links, invites, keys, overrides, req, epoch,
                   doubled, raced>>

\* UPDATE refresh_tokens SET revoked WHERE user_id = a.
EndSessions(a) ==
    /\ sessions' = [s \in Sessions |-> IF sessions[s].user = a
                                       THEN [sessions[s] EXCEPT !.live = FALSE] ELSE sessions[s]]
    /\ epoch' = [epoch EXCEPT ![a] = @ + 1]

\* requestPasswordReset: the row stays if the e-mail was sent.
RequestReset(a, l) ==
    /\ "reset" \in plan /\ a \in Emails /\ IsUser(a) /\ links[l] = NoLink
    /\ links' = [links EXCEPT ![l] = [user |-> a, used |-> 0]]
    /\ UNCHANGED <<plan, founded, users, sessions, claims, invites, keys, overrides, req, epoch,
                   doubled, raced>>

\* resetPassword: the link is not used yet, as the transaction reads it.
OpenLink(w, l) ==
    /\ links[l] # NoLink /\ links[l].used = 0
    /\ Begin(w, [step |-> "reset", at |-> l])
    /\ doubled' = Doubles(w, l)
    /\ UNCHANGED <<plan, founded, users, sessions, claims, links, invites, keys, overrides,
                   epoch, raced>>

\* The new password, the link, and the sessions, in one transaction.
ResetPassword(w) ==
    LET l == req[w].at
        a == links[l].user IN
    /\ OnStep(w, "reset") /\ Done(w)
    /\ users' = [users EXCEPT ![a].failures = 0, ![a].lock = "none"]
    /\ links' = [links EXCEPT ![l].used = @ + 1]
    /\ EndSessions(a)
    /\ UNCHANGED <<plan, founded, claims, invites, keys, overrides, doubled, raced>>

----------------------------------------------------------------------------
(* Management of accounts.  The guards have let the request of account by in,  *)
(* and the controller has read its role anew.                                  *)

\* updateRole, deactivate, inviteUser, create of a key and of an override, as
\* they begin; at is the account, the address or the service account meant.
Manage(w, by, op, a, given, row) ==
    /\ op \in plan /\ founded /\ IsUser(by)
    /\ Authorized(by, IF op \in {"invite", "key"} THEN "create" ELSE "update",
                  IF op = "key" THEN "Integration" ELSE "UserAccess")
    /\ op = "deactivate" => by # a
    /\ Begin(w, [step |-> "judge", op |-> op, at |-> a, given |-> given,
                 row |-> row, acting |-> users[by].role, takes |-> FALSE])
    /\ OnlyReq

Owners == {a \in Accounts : users[a].role = "owner"}
ActiveOwners == {a \in Owners : users[a].active}

\* The acting role may give the role named.
MayGive(acting, role) == role = "owner" => acting = "owner"

Rank == [owner |-> 3, admin |-> 2, financeiro |-> 1, operador_caixa |-> 1]

Pending(email) == {i \in Invites : invites[i].email = email /\ ~ invites[i].accepted}

\* Mutant: the last owner is not looked for.
TakesNoLast(a, others) == TRUE

\* An owner is taken away by an owner, and not the last of those counted.
TakesOwner(acting, others) == acting = "owner" /\ Cardinality(others) > 1

\* The rows are read and the request judged.
Judge(w) ==
    LET r == req[w]
        target == users[r.at]
        takes == \/ r.op = "role" /\ target.role = "owner" /\ r.given # "owner"
                 \/ r.op = "deactivate" /\ target.role = "owner" IN
    /\ OnStep(w, "judge")
    /\ r.op \in {"role", "deactivate", "override"} => IsUser(r.at)
    /\ r.op \in {"role", "invite"} => MayGive(r.acting, r.given)
    /\ r.op = "role" /\ takes => TakesOwner(r.acting, Owners)
    /\ r.op = "deactivate" => target.active
    /\ r.op = "deactivate" /\ takes => TakesOwner(r.acting, ActiveOwners)
    /\ r.op = "invite" => r.at \in Emails /\ ~ IsUser(r.at) /\ Pending(r.at) = {}
    /\ r.op = "key" => r.at \in Robots /\ ~ IsUser(r.at) /\ Rank[r.given] <= Rank[r.acting]
    /\ r.op = "override" => target.role # "owner"
    /\ req' = [req EXCEPT ![w].step = r.op, ![w].takes = takes]
    /\ doubled' = IF r.op = "invite" /\ \E v \in Rivals(w, r.at) : OnStep(v, "invite")
                  THEN doubled \cup {r.at} ELSE doubled
    /\ UNCHANGED <<plan, founded, users, sessions, claims, links, invites, keys, overrides,
                   epoch, raced>>

\* Others about to take an owner away, judged before this one was.
OthersTake(w) == \E v \in Workers \ {w} : req[v].step \in {"role", "deactivate"} /\ req[v].takes

\* An owner goes, and the count that allowed it may no longer be right.
Races(w) == raced \/ OthersTake(w) \/ ~ req[w].takes

\* updateRole: the UPDATE.
SetRole(w) ==
    LET r == req[w] IN
    /\ OnStep(w, "role") /\ Done(w)
    /\ users' = [users EXCEPT ![r.at].role = r.given]
    /\ raced' = IF users[r.at].role = "owner" /\ r.given # "owner" THEN Races(w) ELSE raced
    /\ UNCHANGED <<plan, founded, sessions, claims, links, invites, keys, overrides, epoch,
                   doubled>>

\* Mutant: the sessions of the account go on.
DeactivateOnly(w) ==
    LET a == req[w].at IN
    /\ OnStep(w, "deactivate") /\ Done(w)
    /\ users' = [users EXCEPT ![a].active = FALSE]
    /\ epoch' = [epoch EXCEPT ![a] = @ + 1]
    /\ raced' = IF users[a].role = "owner" THEN Races(w) ELSE raced
    /\ UNCHANGED <<plan, founded, sessions, claims, links, invites, keys, overrides, doubled>>

\* deactivate: the account and its sessions, in one transaction.
Deactivate(w) ==
    LET a == req[w].at IN
    /\ OnStep(w, "deactivate") /\ Done(w)
    /\ users' = [users EXCEPT ![a].active = FALSE]
    /\ EndSessions(a)
    /\ raced' = IF users[a].role = "owner" THEN Races(w) ELSE raced
    /\ UNCHANGED <<plan, founded, claims, links, invites, keys, overrides, doubled>>

\* inviteUser: the row, rolled back if the e-mail is not sent.
SendInvite(w) ==
    LET r == req[w] IN
    /\ OnStep(w, "invite") /\ Done(w)
    /\ \E i \in Invites : /\ invites[i] = NoInvite
                          /\ invites' = [invites EXCEPT ![i] = [email |-> r.at, role |-> r.given,
                                                                accepted |-> FALSE]]
    /\ UNCHANGED <<plan, founded, users, sessions, claims, links, keys, overrides, epoch,
                   doubled, raced>>

\* create of a key: the service account and the key.
MintKey(w) ==
    LET r == req[w] IN
    /\ OnStep(w, "key") /\ ~ IsUser(r.at) /\ Done(w)
    /\ users' = [users EXCEPT ![r.at] = NewUser(r.given)]
    /\ keys' = [keys EXCEPT ![r.at] = "live"]
    /\ UNCHANGED <<plan, founded, sessions, claims, links, invites, overrides, epoch, doubled,
                   raced>>

\* create of an override: it replaces the row of the same subject and action.
SetOverride(w) ==
    LET r == req[w] IN
    /\ OnStep(w, "override") /\ Done(w)
    /\ overrides' = [overrides EXCEPT ![r.at] =
          {o \in @ : o.subject # r.row.subject \/ o.action # r.row.action} \cup {r.row}]
    /\ UNCHANGED <<plan, founded, users, sessions, claims, links, invites, keys, epoch, doubled,
                   raced>>

\* remove of an override, revoke of a key.
RemoveOverride(by, a, row) ==
    /\ "override" \in plan /\ Authorized(by, "update", "UserAccess") /\ row \in overrides[a]
    /\ overrides' = [overrides EXCEPT ![a] = @ \ {row}]
    /\ UNCHANGED <<plan, founded, users, sessions, claims, links, invites, keys, req, epoch,
                   doubled, raced>>

RevokeKey(by, r) ==
    /\ Authorized(by, "delete", "Integration") /\ keys[r] = "live"
    /\ keys' = [keys EXCEPT ![r] = "revoked"]
    /\ UNCHANGED <<plan, founded, users, sessions, claims, links, invites, overrides, req, epoch,
                   doubled, raced>>

\* revokeInvite: not accepted when read, deleted whatever it is by then.
FindInvite(w, by, i) ==
    /\ Authorized(by, "create", "UserAccess")
    /\ invites[i] \notin {NoInvite, Revoked} /\ ~ invites[i].accepted
    /\ Begin(w, [step |-> "revoke", at |-> i])
    /\ OnlyReq

RevokeInvite(w) ==
    /\ OnStep(w, "revoke") /\ Done(w)
    /\ invites' = [invites EXCEPT ![req[w].at] = Revoked]
    /\ UNCHANGED <<plan, founded, users, sessions, claims, links, keys, overrides, epoch,
                   doubled, raced>>

----------------------------------------------------------------------------
(* New accounts: accepting an invite, registering a tenant. *)

\* acceptInvite: not accepted, and no account with the address.
OpenInvite(w, i) ==
    /\ invites[i] \notin {NoInvite, Revoked} /\ ~ invites[i].accepted
    /\ ~ IsUser(invites[i].email)
    /\ Begin(w, [step |-> "accept", at |-> i, email |-> invites[i].email,
                 role |-> invites[i].role])
    /\ OnlyReq

\* registerWithOwner: neither the document nor the address is known.
Apply(w, a) ==
    /\ "register" \in plan /\ ~ founded /\ ~ IsUser(a) /\ a \in Emails
    /\ Begin(w, [step |-> "found", at |-> a, email |-> a, role |-> "owner"])
    /\ OnlyReq

\* The account is inserted, under the unique index of the addresses, and the
\* request goes on to issue its tokens.
Admit(w) ==
    LET r == req[w] IN
    /\ ~ IsUser(r.email)
    /\ users' = [users EXCEPT ![r.email] = NewUser(r.role)]
    /\ req' = [req EXCEPT ![w] = [step |-> "issue", user |-> r.email, at |-> r.email,
                 seen |-> NewUser(r.role), epoch |-> epoch[r.email],
                 began |-> epoch[r.email], strayed |-> FALSE]]

\* The account of an invite; the invite is marked if it is still there.
AcceptInvite(w) ==
    LET i == req[w].at IN
    /\ OnStep(w, "accept") /\ Admit(w)
    /\ invites' = IF invites[i] = Revoked THEN invites
                  ELSE [invites EXCEPT ![i].accepted = TRUE]
    /\ UNCHANGED <<plan, founded, sessions, claims, links, keys, overrides, epoch, doubled,
                   raced>>

\* The tenant, its first owner and its store, or none of them.
Found(w) ==
    /\ OnStep(w, "found") /\ ~ founded /\ Admit(w)
    /\ founded' = TRUE
    /\ UNCHANGED <<plan, sessions, claims, links, invites, keys, overrides, epoch, doubled,
                   raced>>

----------------------------------------------------------------------------
\* The routes behind the guards, as their requests begin.
AskGuarded ==
    \E by \in Accounts :
        \/ \E w \in Workers, a \in Accounts, op \in {"role", "invite", "key"}, role \in OfferedRoles :
              Manage(w, by, op, a, role, NoRow)
        \/ \E w \in Workers, a \in Accounts : Manage(w, by, "deactivate", a, "none", NoRow)
        \/ \E w \in Workers, a \in Accounts, row \in Rows : Manage(w, by, "override", a, "none", row)
        \/ \E w \in Workers, i \in Invites : FindInvite(w, by, i)
        \/ \E r \in Robots : RevokeKey(by, r)
        \/ \E a \in Accounts, row \in Rows : RemoveOverride(by, a, row)

\* The public routes.
AskPublic ==
    \/ \E w \in Workers, a \in Emails :
          Apply(w, a) \/ \E right \in BOOLEAN : Login(w, a, right)
    \/ \E w \in Workers, s \in Sessions : Refresh(w, s)
    \/ \E w \in Workers, l \in Links : OpenLink(w, l)
    \/ \E w \in Workers, i \in Invites : OpenInvite(w, i)
    \/ \E s \in Sessions : Logout(s)
    \/ \E a \in Emails, l \in Links : RequestReset(a, l)
    \/ \E a \in Accounts : LockEnds(a)

ServeAccess(w) ==
    \/ RegisterFailedLogin(w) \/ ClearLoginLockout(w) \/ Rotate(w) \/ Issue(w)
    \/ ResetPassword(w) \/ Judge(w) \/ SetRole(w) \/ Deactivate(w) \/ SendInvite(w)
    \/ MintKey(w) \/ SetOverride(w) \/ RevokeInvite(w) \/ AcceptInvite(w) \/ FailRequest(w)

AccessNext ==
    \/ AskGuarded \/ AskPublic
    \/ \E w \in Workers : ServeAccess(w) \/ Found(w)

AccessSpec == AccessInit /\ [][AccessNext]_accessVars

----------------------------------------------------------------------------
UserRow == [role : Roles, active : BOOLEAN, failures : Nat, lock : {"none", "running", "over"}]
Token == [user : Accounts, live : BOOLEAN, began : Nat, issued : Nat, strayed : BOOLEAN]
Managed == {"role", "deactivate", "invite", "key", "override"}

EnteringReq == [step : {"failed", "clear", "rotate", "issue"}, user : Accounts,
                at : Accounts \cup Sessions, seen : UserRow, epoch : Nat, began : Nat,
                strayed : BOOLEAN]
ManageReq == [step : {"judge"} \cup Managed, op : Managed, at : Accounts,
              given : Roles \cup {"none"}, row : Rows \cup {NoRow}, acting : Roles,
              takes : BOOLEAN]
LinkReq == [step : {"reset"}, at : Links] \cup [step : {"revoke"}, at : Invites]
NewReq == [step : {"accept"}, at : Invites, email : Emails, role : Roles]
          \cup [step : {"found"}, at : Emails, email : Emails, role : {"owner"}]

\* What a request was given, and what it needs once it is judged.
GivenFits(r) ==
    /\ r.step \in {"judge", r.op}
    /\ r.op \in {"role", "invite", "key"} => r.given \in Roles
    /\ r.op = "override" => r.row \in Rows
    /\ r.step \in {"role", "deactivate", "override"} => IsUser(r.at)
    /\ r.step = "invite" => r.at \in Emails
    /\ r.step = "key" => r.at \in Robots

AccessTypeOK ==
    /\ founded \in BOOLEAN /\ raced \in BOOLEAN
    /\ users \in [Accounts -> {NoUser} \cup UserRow]
    /\ sessions \in [Sessions -> {NoSession} \cup Token]
    /\ claims \subseteq [user : Accounts, role : Roles]
    /\ links \in [Links -> {NoLink} \cup [user : Emails, used : Nat]]
    /\ invites \in [Invites -> {NoInvite, Revoked} \cup
                                [email : Emails, role : Roles, accepted : BOOLEAN]]
    /\ keys \in [Robots -> KeyStates]
    /\ overrides \in [Accounts -> SUBSET Rows]
    /\ req \in [Workers -> {Idle} \cup EnteringReq \cup ManageReq \cup LinkReq \cup NewReq]
    /\ epoch \in [Accounts -> Nat]
    /\ doubled \subseteq Sessions \cup Links \cup Emails

\* Every row that names an account names one there is.
RefersToUsers ==
    /\ \A s \in Sessions : sessions[s] # NoSession => IsUser(sessions[s].user)
    /\ \A l \in Links : links[l] # NoLink => IsUser(links[l].user)
    /\ \A r \in Robots : keys[r] # "none" <=> IsUser(r)
    /\ \A w \in Workers : req[w] \in EnteringReq =>
          /\ IsUser(req[w].user)
          /\ req[w].step = "rotate" => req[w].at \in Sessions
          /\ req[w].step \in {"failed", "clear"} => req[w].at \in Emails
          /\ req[w].at \in Sessions => sessions[req[w].at] # NoSession
    /\ \A w \in Workers : req[w] \in ManageReq => GivenFits(req[w])
    /\ \A w \in Workers : OnStep(w, "reset") => links[req[w].at] # NoLink
    /\ \A w \in Workers : req[w].step \in {"accept", "revoke"} => invites[req[w].at] # NoInvite

\* A session that can be used belongs to an active account and began, by a
\* password, after the last time the sessions of the account were ended; or it
\* stems from a request that was in flight at such a time.
SessionsEndWithAccess ==
    \A s \in Sessions : sessions[s] # NoSession /\ sessions[s].live =>
        \/ sessions[s].strayed
        \/ /\ users[sessions[s].user].active
           /\ sessions[s].began = epoch[sessions[s].user]

\* The same of the sessions about to be issued.
EntriesCurrent ==
    \A w \in Workers : req[w] \in EnteringReq =>
        LET r == req[w] IN
        /\ r.epoch <= epoch[r.user]
        /\ r.strayed \/ r.epoch < epoch[r.user]
           \/ (users[r.user].active /\ r.began = epoch[r.user])

AtMostOne(S) == \A x, y \in S : x = y

Inviting(email) == {w \in Workers : OnStep(w, "invite") /\ req[w].at = email}

\* A session is exchanged for a new one once, and a link used once, unless two
\* requests had it at a time; the same of the pending invites of an address.
UsedOnce ==
    /\ \A s \in Sessions : sessions[s] # NoSession => s \in doubled \/
          /\ sessions[s].issued <= 1
          /\ sessions[s].live \/ At(s) # {} => sessions[s].issued = 0
          /\ AtMostOne(At(s))
          /\ \A w \in At(s) : OnStep(w, "issue") => ~ sessions[s].live
    /\ \A l \in Links : links[l] # NoLink => l \in doubled \/
          /\ links[l].used <= 1
          /\ At(l) # {} => links[l].used = 0
          /\ AtMostOne(At(l))
    /\ \A e \in Emails : e \in doubled \/
          /\ AtMostOne(Pending(e)) /\ AtMostOne(Inviting(e))
          /\ Inviting(e) # {} => Pending(e) = {}

\* Failures below the threshold, and no lock since they began.
LockFits(row) == row.lock = "none" <=> row.failures < LockThreshold

\* An account has had a lock exactly since its failures in a row reached the
\* threshold, although the two are written from a row read before and the lock
\* is set on equality with it (registerFailedLogin).  It says that there was a
\* lock, not that there is one again: once the first has ended, more failures set
\* no other, as they are past the threshold.
LockFollowsFailures ==
    /\ \A a \in Accounts : IsUser(a) => LockFits(users[a])
    /\ \A w \in Workers : req[w] \in EnteringReq => LockFits(req[w].seen)

\* A tenant keeps an owner, and a deactivation leaves it an active one, unless
\* two requests that take owners away overlapped.
OwnersRemain ==
    raced \/ /\ founded => Owners # {}
             /\ \A w \in Workers : req[w] \in ManageReq /\ req[w].takes =>
                   /\ OnStep(w, "role") => Owners \ {req[w].at} # {}
                   /\ OnStep(w, "deactivate") => ActiveOwners \ {req[w].at} # {}

\* No override lets an account manage access: not who has which role, and not
\* the keys that carry one.
AccessIsNotDelegated ==
    \A a \in {b \in Accounts : overrides[b] # {}}, role \in {"financeiro", "operador_caixa"},
       action \in Actions :
          /\ ~ May(role, overrides[a], action, "UserAccess")
          /\ ~ May(role, overrides[a], action, "Integration")

AccessInv ==
    /\ AccessTypeOK /\ RefersToUsers /\ SessionsEndWithAccess /\ EntriesCurrent /\ UsedOnce
    /\ LockFollowsFailures /\ OwnersRemain /\ AccessIsNotDelegated

\* The tenant always has an owner who is active, as the refusals of updateRole
\* and deactivate put it.
ActiveOwnerStays == founded => ActiveOwners # {}

=============================================================================
