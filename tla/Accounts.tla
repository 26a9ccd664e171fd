------------------------------ MODULE Accounts ------------------------------
(***************************************************************************)
(* Service accounts, roles and the credential cache of each replica.  A    *)
(* provisioning operation is a transaction (it locks and judges, then it   *)
(* commits) followed by an invalidation of its own replica's cache.  A     *)
(* request presents a token <<account, secret>>; the cache answers within  *)
(* its time to live, else the account row and then its roles are read.     *)
(***************************************************************************)
EXTENDS Naturals, FiniteSets

CONSTANTS
    Admins, Clients,      \* processes: operators and authenticating requests
    AuthReplicas, AuthOn, \* replicas, and the replica of each process
    AccountIds, RoleNames,
    AuthTTL,              \* the cache's time to live, in ticks
    MaxSecret, MaxAuthTick, MaxAdminOps

\* A time to live of zero or less leaves the cache out altogether.
ASSUME AccountsAssumption ==
    /\ AuthTTL \in Nat \ {0} /\ MaxSecret \in Nat \ {0} /\ MaxAuthTick \in Nat
    /\ AuthOn \in [Admins \cup Clients -> AuthReplicas]

VARIABLES
    tenantActive,
    account,   \* account -> [st, secret, active, roles]
    role,      \* role name -> "live" or "none"
    adm,       \* operator -> open transaction or pending invalidation
    cli,       \* request -> lookup in progress
    authCache, \* replica -> token -> [set, expires, acct, denied]
    now,
    deadSince, \* history: token -> tick at which it last stopped being valid
    evicted,   \* history: <<replica, token>> an operator evicted with no lookup of it
               \* under way, and that has not become valid again
    wrong,     \* history: a token was accepted past its time
    ops

accountVars == <<tenantActive, account, role, adm, cli, authCache, now, deadSince, evicted, wrong, ops>>

Tokens == AccountIds \X (1..MaxSecret)
Never == MaxAuthTick + 1
NoAccount == [st |-> "none", secret |-> 0, active |-> FALSE, roles |-> {}]
NoAdm == [op |-> "none"]
NoLookup == [ph |-> "none"]
NoEntry == [set |-> FALSE, expires |-> 0, denied |-> FALSE]

ValidIn(on, accounts, k) == on /\ accounts[k[1]].active /\ accounts[k[1]].secret = k[2]
Valid(k) == ValidIn(tenantActive, account, k)

-----------------------------------------------------------------------------
\* Row locks on roles: FOR UPDATE excludes all, FOR SHARE only the former.
Holds(q, n, modes) == adm[q].op # "none" /\ n \in adm[q].locks /\ adm[q].mode \in modes
Lockable(p, names, mode) ==
    \A q \in Admins \ {p}, n \in names : ~Holds(q, n, IF mode = "update" THEN {"update", "share"} ELSE {"update"})

OpenTx(p, op, id, arg, names, mode) ==
    /\ adm[p].op = "none" /\ ops < MaxAdminOps
    /\ Lockable(p, names, mode)
    /\ adm' = [adm EXCEPT ![p] = [op |-> op, id |-> id, arg |-> arg, locks |-> names, mode |-> mode]]
    /\ ops' = ops + 1
    /\ UNCHANGED <<tenantActive, account, role, cli, authCache, now, deadSince, evicted, wrong>>

\* Bug: an assignment checks its roles without locking them.
UnlockedRoles(S) == {}

\* LockRolesShared: every named role must be there, and stays there.
SharedRoles(S) == S
CheckRolesExist(S) == \A n \in S : role[n] = "live"

CreateAccount(p, a, S) ==
    /\ account[a].st = "none" /\ \A q \in Admins : adm[q].op # "none" => adm[q].id # a
    /\ CheckRolesExist(S)
    /\ OpenTx(p, "create", a, S, SharedRoles(S), "share")
AssignRoles(p, a, S) ==
    /\ account[a].st = "live"
    /\ CheckRolesExist(S)
    /\ OpenTx(p, "assign", a, S, SharedRoles(S), "share")
RotateSecret(p, a) ==
    /\ account[a].st = "live" /\ account[a].secret < MaxSecret
    /\ OpenTx(p, "rotate", a, {}, {}, "share")
Revoke(p, a) ==
    /\ account[a].st = "live"
    /\ OpenTx(p, "revoke", a, {}, {}, "share")
SetTenantActive(p, on) ==
    OpenTx(p, IF on THEN "open" ELSE "close", "tenant", {}, {}, "share")
\* The row is locked when it exists.
UpsertRole(p, n) ==
    OpenTx(p, "upsert", n, {}, IF role[n] = "live" THEN {n} ELSE {}, "update")
\* CountAccountsWithRole under the exclusive lock.
DeleteRole(p, n) ==
    /\ role[n] = "live"
    /\ \A a \in AccountIds : n \notin account[a].roles
    /\ OpenTx(p, "delete", n, {}, {n}, "update")

-----------------------------------------------------------------------------
\* The commit of the open transaction.
NewAccount(t) ==
    CASE t.op = "create" -> [account EXCEPT ![t.id] = [st |-> "live", secret |-> 1, active |-> TRUE, roles |-> t.arg]]
      [] t.op = "assign" -> [account EXCEPT ![t.id].roles = t.arg]
      [] t.op = "rotate" -> [account EXCEPT ![t.id].secret = IF @ < MaxSecret THEN @ + 1 ELSE @]
      [] t.op = "revoke" -> [account EXCEPT ![t.id].active = FALSE]
      [] OTHER -> account
NewRole(t) ==
    CASE t.op = "upsert" -> [role EXCEPT ![t.id] = "live"]
      [] t.op = "delete" -> [role EXCEPT ![t.id] = "none"]
      [] OTHER -> role

CommitAdmin(p) ==
    LET t == adm[p] IN
    /\ t.op \notin {"none", "evict"}
    /\ account' = NewAccount(t)
    /\ role' = NewRole(t)
    /\ tenantActive' = (IF t.op = "open" THEN TRUE ELSE IF t.op = "close" THEN FALSE ELSE tenantActive)
    /\ deadSince' = [k \in Tokens |->
         IF Valid(k) /\ ~ValidIn(tenantActive', account', k) THEN now
         ELSE IF ~Valid(k) /\ ValidIn(tenantActive', account', k) THEN Never
         ELSE deadSince[k]]
    /\ evicted' = {e \in evicted : ~ValidIn(tenantActive', account', e[2])}
    /\ adm' = [adm EXCEPT ![p] = [op |-> "evict", id |-> t.id, locks |-> {}, mode |-> "share",
                                  all |-> t.op \in {"open", "close", "upsert", "delete"}]]
    /\ UNCHANGED <<cli, authCache, now, wrong, ops>>

\* Bug: a rotation evicts the tokens of the new secret only.
CurrentTokens(t) == {k \in Tokens : k[1] = t.id /\ k[2] = account[k[1]].secret}

\* Invalidate by account, InvalidateTenant for roles and the tenant itself.
Affected(t) == IF t.all THEN Tokens ELSE {k \in Tokens : k[1] = t.id}

Evict(p) ==
    LET t == adm[p]  r == AuthOn[p] IN
    /\ t.op = "evict"
    /\ authCache' = [authCache EXCEPT ![r] = [k \in Tokens |-> IF k \in Affected(t) THEN NoEntry ELSE authCache[r][k]]]
    /\ evicted' = evicted \cup {e \in {r} \X Tokens :
                      /\ IF t.all THEN TRUE ELSE e[2][1] = t.id
                      /\ ~Valid(e[2])
                      /\ \A c \in Clients : cli[c].ph # "none" /\ AuthOn[c] = r => cli[c].tok # e[2]}
    /\ adm' = [adm EXCEPT ![p] = NoAdm]
    /\ UNCHANGED <<tenantActive, account, role, cli, now, deadSince, wrong, ops>>

-----------------------------------------------------------------------------
\* Accepting a token that has been invalid for a whole time to live.
Late(k, at) == deadSince[k] # Never /\ at >= deadSince[k] + AuthTTL

\* AuthenticateCtx of the cache: a live entry answers.
FromCache(c, k) ==
    LET x == authCache[AuthOn[c]][k] IN
    /\ cli[c].ph = "none" /\ x.set /\ now < x.expires
    /\ wrong' = (wrong \/ Late(k, now))
    /\ UNCHANGED <<tenantActive, account, role, adm, cli, authCache, now, deadSince, evicted, ops>>

\* Else the lookup reads the account row; a bad secret, a revoked account or
\* a closed tenant is refused and not cached.
BeginLookup(c, k) ==
    LET x == authCache[AuthOn[c]][k] IN
    /\ cli[c].ph = "none" /\ ~(x.set /\ now < x.expires)
    /\ account[k[1]].st = "live"
    /\ cli' = [cli EXCEPT ![c] = [ph |-> "row", tok |-> k, at |-> now, names |-> {}, denied |-> FALSE]]
    /\ UNCHANGED <<tenantActive, account, role, adm, authCache, now, deadSince, evicted, wrong, ops>>
ReadAccountRow(c) ==
    LET k == cli[c].tok IN
    /\ cli[c].ph = "row"
    /\ cli' = [cli EXCEPT ![c] = IF Valid(k) THEN [@ EXCEPT !.ph = "roles", !.names = account[k[1]].roles] ELSE NoLookup]
    /\ UNCHANGED <<tenantActive, account, role, adm, authCache, now, deadSince, evicted, wrong, ops>>

\* Resolve: a name without a role row denies everything.
ApplyRoles(c) ==
    /\ cli[c].ph = "roles"
    /\ cli' = [cli EXCEPT ![c].ph = "store", ![c].denied = \E n \in cli[c].names : role[n] # "live"]
    /\ UNCHANGED <<tenantActive, account, role, adm, authCache, now, deadSince, evicted, wrong, ops>>

\* Bug: the time to live starts when the entry is stored.
ExpiryFromNow(c) == now + AuthTTL

\* The clock was read before the row.
Expiry(c) == cli[c].at + AuthTTL
StoreEntry(c) ==
    LET k == cli[c].tok IN
    /\ cli[c].ph = "store"
    /\ authCache' = [authCache EXCEPT ![AuthOn[c]][k] = [set |-> TRUE, expires |-> Expiry(c), denied |-> cli[c].denied]]
    /\ wrong' = (wrong \/ Late(k, cli[c].at))
    /\ cli' = [cli EXCEPT ![c] = NoLookup]
    /\ UNCHANGED <<tenantActive, account, role, adm, now, deadSince, evicted, ops>>

AuthTick ==
    /\ now < MaxAuthTick
    /\ now' = now + 1
    /\ UNCHANGED <<tenantActive, account, role, adm, cli, authCache, deadSince, evicted, wrong, ops>>

-----------------------------------------------------------------------------
AccountsInit ==
    /\ tenantActive = TRUE
    /\ account = [a \in AccountIds |-> NoAccount]
    /\ role = [n \in RoleNames |-> "live"]
    /\ adm = [p \in Admins |-> NoAdm]
    /\ cli = [c \in Clients |-> NoLookup]
    /\ authCache = [r \in AuthReplicas |-> [k \in Tokens |-> NoEntry]]
    /\ now = 0
    /\ deadSince = [k \in Tokens |-> Never]
    /\ evicted = {} /\ wrong = FALSE /\ ops = 0

AccountsNext ==
    \/ \E p \in Admins :
          \/ \E a \in AccountIds : \/ \E S \in SUBSET RoleNames : CreateAccount(p, a, S) \/ AssignRoles(p, a, S)
                                   \/ RotateSecret(p, a) \/ Revoke(p, a)
          \/ \E n \in RoleNames : UpsertRole(p, n) \/ DeleteRole(p, n)
          \/ \E on \in BOOLEAN : SetTenantActive(p, on)
          \/ CommitAdmin(p) \/ Evict(p)
    \/ \E c \in Clients :
          \/ \E k \in Tokens : FromCache(c, k) \/ BeginLookup(c, k)
          \/ ReadAccountRow(c) \/ ApplyRoles(c) \/ StoreEntry(c)
    \/ AuthTick

AccountsSpec == AccountsInit /\ [][AccountsNext]_accountVars

-----------------------------------------------------------------------------
\* No account names a role that is gone, however assignments, creations and
\* deletions of roles interleave: the state in which the resolver would have
\* to deny everything is never produced by the API.
NoDanglingRole == \A a \in AccountIds : \A n \in account[a].roles : role[n] = "live"

\* A rotated or revoked credential, or one of a closed tenant, is accepted
\* nowhere for longer than the cache's time to live, on any replica, even when
\* a lookup that began before the change stores its result after it.
TrustIsBounded == ~wrong

\* On the replica that handled the change, the credential stops at once: after
\* its eviction no entry is cached for it until it is made valid again, unless
\* a lookup of that very token was under way.
StopsHere == \A e \in evicted : ~authCache[e[1]][e[2]].set

\* Roles, credentials and the cache in front of them.
AccountsInv == NoDanglingRole /\ TrustIsBounded /\ StopsHere

=============================================================================
