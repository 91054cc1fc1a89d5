------------------------------- MODULE Access -------------------------------
(***************************************************************************)
(* Who may do what: sessions (app/api/auth.py, app/core/session.py and     *)
(* deps.py), API keys (app/api/api_keys.py), roles (app/core/rbac.py) and  *)
(* tenant status (app/core/tenant_scope.py, tenant_access.py), with the    *)
(* operator scripts that create and suspend tenants.                       *)
(*                                                                         *)
(* A request is checked by several lookups, each a transaction of its own, *)
(* and then runs its handler; a logout-all, a revocation or a suspension   *)
(* can commit between any two of them.  A check that does not hold, an     *)
(* expired or forged token and any statement that raises end the request   *)
(* without an effect: Refused.                                             *)
(*                                                                         *)
(* `tokens` are the signed tokens that exist in some cookie jar.  Logging  *)
(* out of one browser deletes a cookie and changes nothing on the server.  *)
(* 'trial' and 'active' tenants are treated alike everywhere.              *)
(***************************************************************************)
EXTENDS Integers

CONSTANTS
  Calls,       \* slots for requests in flight
  Admins,      \* admin_user ids
  Tenants,     \* tenants and their slugs, which never change
  Keys,        \* raw API keys (and, by SHA-256, api_key rows)
  Staff,       \* tenant_user at the start: Staff[t][a] is a role
  Asked,       \* roles asked for when minting a key
  MaxVersion,  \* bound on session_version
  None

\* ROLE_RANK: viewer, editor, admin, owner.
Roles == 0 .. 3
NoRole == -1

ASSUME AccessAssumption ==
  /\ Staff \in [Tenants -> [Admins -> Roles \cup {NoRole}]]
  /\ Asked \subseteq Roles
  /\ MaxVersion \in Nat
  /\ None \notin Admins \cup Tenants \cup Keys

VARIABLES
  tenants,    \* tenant rows
  suspended,  \* those with status 'suspended'
  link,       \* tenant_user.role
  version,    \* admin_user.session_version
  tokens,     \* session tokens signed so far
  keys,       \* api_key rows
  req,        \* the requests in flight
  witnessed   \* history: what has held at some moment of each request

tableVars == <<tenants, suspended, link, version, tokens, keys>>
vars == <<tenants, suspended, link, version, tokens, keys, req, witnessed>>

Token == [admin : Admins, version : Nat]
NoToken == [admin |-> None, version |-> 0]

\* root is history: the admin at the start of the chain of keys that minted
\* keys.  created_by_admin_id is set for the first one only.
KeyRow == [tenant : Tenants, role : Roles, live : BOOLEAN, root : Admins]

ASSUME NoneAssumption == None \notin KeyRow

\* The minimum role of each kind of route: "manage" is the minting and revoking
\* of keys, "edit" stands for the routes that do not change who may do what.
Floor == [edit |-> 1, manage |-> 2]
Ops == {"edit", "manage", "login", "logout-all"}
At == {"idle", "tenant", "session", "role", "key", "handler", "login", "sign", "bump"}

\* rank is the role the checks found.
Request == [at : At, op : Ops \cup {None}, slug : Tenants \cup {None},
            key : Keys \cup {None}, token : Token \cup {NoToken},
            rank : Roles \cup {NoRole}]
Idle == [at |-> "idle", op |-> None, slug |-> None, key |-> None,
         token |-> NoToken, rank |-> NoRole]

TypeOK ==
  /\ tenants \subseteq Tenants /\ suspended \subseteq tenants
  /\ link \in [Tenants -> [Admins -> Roles \cup {NoRole}]]
  /\ version \in [Admins -> Nat]
  /\ tokens \subseteq Token
  /\ \A x \in tokens : x.version <= version[x.admin]
  /\ keys \in [Keys -> KeyRow \cup {None}]
  /\ req \in [Calls -> Request]

Init ==
  /\ tenants = {t \in Tenants : \E a \in Admins : Staff[t][a] # NoRole}
  /\ suspended = {}
  /\ link = Staff
  /\ version = [a \in Admins |-> 1]
  /\ tokens = {}
  /\ keys = [k \in Keys |-> None]
  /\ req = [p \in Calls |-> Idle]
  /\ witnessed = [p \in Calls |-> {}]

-----------------------------------------------------------------------------
(* Arrival and the checks before a handler.                                *)

\* enforce_active(get_tenant_status(tenant_id)) lets the request through.
Open(p) == req[p].slug \in tenants \ suspended

\* The token carries the account's current session version.
Current(x) == x.version = version[x.admin]

Goto(p, to) == req' = [req EXCEPT ![p].at = to]
End(p) == req' = [req EXCEPT ![p] = Idle]

\* A request names a tenant and brings a key or a session cookie (a request
\* with neither is refused).  A key was minted before it can be sent: one made
\* up is never drawn later, and fails like a revoked one.  require_role does
\* not look at a cookie beside a key; the auth routes resolve the tenant first.
Arrive(p) ==
  /\ req[p].at = "idle"
  /\ \E o \in Ops, t \in Tenants, k \in Keys \cup {None}, x \in tokens \cup {NoToken} :
       /\ k # None => keys[k] # None
       /\ o \in {"login", "logout-all"} => k = None
       /\ x # NoToken <=> o # "login" /\ k = None
       /\ req' = [req EXCEPT ![p] =
            [at |-> IF o \in {"login", "logout-all"} \/ k # None THEN "tenant" ELSE "session",
             op |-> o, slug |-> t, key |-> k, token |-> x, rank |-> NoRole]]
  /\ UNCHANGED tableVars

\* Where a request whose tenant is open goes on.
AfterTenant(p) ==
  IF req[p].op = "login" THEN "login"
  ELSE IF req[p].op = "logout-all" THEN "session"
  ELSE IF req[p].key # None THEN "key" ELSE "role"

\* Mutated form: only admin sessions are subject to the tenant's status.
ResolveTenantKeysAnyway(p) ==
  /\ req[p].at = "tenant"
  /\ req[p].slug \in tenants
  /\ req[p].key = None => req[p].slug \notin suspended
  /\ Goto(p, AfterTenant(p))
  /\ UNCHANGED tableVars

\* tenant_id_for_slug and enforce_active(get_tenant_status()).
ResolveTenant(p) ==
  /\ req[p].at = "tenant"
  /\ Open(p)
  /\ Goto(p, AfterTenant(p))
  /\ UNCHANGED tableVars

\* Mutated form: a token of an earlier version is let through.
RequireAdminOlder(p) ==
  /\ req[p].at = "session"
  /\ req[p].token.version <= version[req[p].token.admin]
  /\ Goto(p, IF req[p].op = "logout-all" THEN "bump" ELSE "tenant")
  /\ UNCHANGED tableVars

\* require_admin: the token's version must be the account's current one.
RequireAdmin(p) ==
  /\ req[p].at = "session"
  /\ Current(req[p].token)
  /\ Goto(p, IF req[p].op = "logout-all" THEN "bump" ELSE "tenant")
  /\ UNCHANGED tableVars

\* _admin_linked_to_tenant, get_role_for_tenant and the comparison with the
\* route's floor.  No code removes or changes a tenant_user row.
ReadRole(p) ==
  /\ req[p].at = "role"
  /\ LET r == link[req[p].slug][req[p].token.admin] IN
     /\ r >= Floor[req[p].op]
     /\ req' = [req EXCEPT ![p].at = "handler", ![p].rank = r]
  /\ UNCHANGED tableVars

\* SELECT role FROM api_key for this tenant, this hash, not revoked.
ReadKey(p) ==
  /\ req[p].at = "key"
  /\ LET row == keys[req[p].key] IN
     /\ row # None
     /\ row.tenant = req[p].slug /\ row.live
     /\ row.role >= Floor[req[p].op]
     /\ req' = [req EXCEPT ![p].at = "handler", ![p].rank = row.role]
  /\ UNCHANGED tableVars

Refused(p) ==
  /\ req[p].at # "idle"
  /\ End(p)
  /\ UNCHANGED tableVars

-----------------------------------------------------------------------------
(* Handlers.                                                               *)

Serve(p) ==
  /\ req[p].at = "handler" /\ req[p].op = "edit"
  /\ End(p)
  /\ UNCHANGED tableVars

MintWith(p, allowed) ==
  /\ req[p].at = "handler" /\ req[p].op = "manage"
  /\ \E k \in Keys, r \in allowed :
       /\ keys[k] = None
       /\ keys' = [keys EXCEPT ![k] =
            [tenant |-> req[p].slug, role |-> r, live |-> TRUE,
             root |-> IF req[p].key = None THEN req[p].token.admin
                                           ELSE keys[req[p].key].root]]
  /\ End(p)
  /\ UNCHANGED <<tenants, suspended, link, version, tokens>>

\* Mutated form: any known role can be asked for.
MintAnyRole(p) == MintWith(p, Asked)

\* create_api_key: no role above the caller's own.
Mint(p) == MintWith(p, {r \in Asked : r <= req[p].rank})

\* Mutated form: UPDATE api_key ... WHERE id = %s only.
RevokeAnyTenant(p) ==
  /\ req[p].at = "handler" /\ req[p].op = "manage"
  /\ \E k \in Keys :
       /\ keys[k] # None /\ keys[k].live
       /\ keys' = [keys EXCEPT ![k].live = FALSE]
  /\ End(p)
  /\ UNCHANGED <<tenants, suspended, link, version, tokens>>

\* revoke_api_key: a live key of the route's tenant.
Revoke(p) ==
  /\ req[p].at = "handler" /\ req[p].op = "manage"
  /\ \E k \in Keys :
       /\ keys[k] # None
       /\ keys[k].tenant = req[p].slug /\ keys[k].live
       /\ keys' = [keys EXCEPT ![k].live = FALSE]
  /\ End(p)
  /\ UNCHANGED <<tenants, suspended, link, version, tokens>>

\* login: one transaction reads the account; the token is signed after the
\* password check and the audit row, with the version read here.
ReadAccount(p) ==
  /\ req[p].at = "login"
  /\ \E a \in Admins :
       req' = [req EXCEPT ![p].at = "sign",
                          ![p].token = [admin |-> a, version |-> version[a]]]
  /\ UNCHANGED tableVars

\* Mutated form: the version is read again when the token is signed.
SignTokenRereading(p) ==
  /\ req[p].at = "sign"
  /\ tokens' = tokens \cup {[req[p].token EXCEPT !.version = version[req[p].token.admin]]}
  /\ End(p)
  /\ UNCHANGED <<tenants, suspended, link, version, keys>>

SignToken(p) ==
  /\ req[p].at = "sign"
  /\ tokens' = tokens \cup {req[p].token}
  /\ End(p)
  /\ UNCHANGED <<tenants, suspended, link, version, keys>>

\* logout_all: bump_session_version.  Whose session it is was decided before.
Bump(p) ==
  /\ req[p].at = "bump"
  /\ version[req[p].token.admin] < MaxVersion
  /\ version' = [version EXCEPT ![req[p].token.admin] = @ + 1]
  /\ End(p)
  /\ UNCHANGED <<tenants, suspended, link, tokens, keys>>

-----------------------------------------------------------------------------
(* Operator scripts.                                                       *)

\* create_tenant.py: the tenant and, when one is named, its owner's link in
\* one transaction.
CreateTenant(t) ==
  /\ t \notin tenants
  /\ tenants' = tenants \cup {t}
  /\ \/ UNCHANGED link
     \/ \E a \in Admins : link' = [link EXCEPT ![t][a] = 3]
  /\ UNCHANGED <<suspended, version, tokens, keys, req>>

\* set_tenant_status.py
SetStatus(t) ==
  /\ t \in tenants
  /\ suspended' = IF t \in suspended THEN suspended \ {t} ELSE suspended \cup {t}
  /\ UNCHANGED <<tenants, link, version, tokens, keys, req>>

-----------------------------------------------------------------------------
\* The credential a request is judged by, and the role it gives on the slug.
Valid(p) ==
  IF req[p].key # None THEN keys[req[p].key] # None /\ keys[req[p].key].live
  ELSE req[p].token # NoToken /\ Current(req[p].token)

Granted(p) ==
  IF req[p].key # None
  THEN IF keys[req[p].key].tenant = req[p].slug THEN keys[req[p].key].role ELSE NoRole
  ELSE link[req[p].slug][req[p].token.admin]

Facts(p) == {f \in {"valid", "open", "both"} :
               /\ req[p].op \in {"edit", "manage"}
               /\ f # "open" => Valid(p)
               /\ f # "valid" => Open(p)
               /\ f = "both" => req[p].key # None}

\* witnessed[p] collects the facts that held at some moment since p arrived:
\* of the requests that a handler is judged by, and "both" of those by key.
Watch ==
  witnessed' = [p \in Calls |-> IF req'[p].at = "idle" THEN {}
                                ELSE witnessed[p] \cup Facts(p)']

Step(p) ==
  \/ Arrive(p) \/ ResolveTenant(p) \/ RequireAdmin(p) \/ ReadRole(p) \/ ReadKey(p)
  \/ Refused(p) \/ Serve(p) \/ Mint(p) \/ Revoke(p)
  \/ ReadAccount(p) \/ SignToken(p) \/ Bump(p)

Operate == \E t \in Tenants : SetStatus(t) \/ CreateTenant(t)

Next == (Operate \/ \E p \in Calls : Step(p)) /\ Watch

Spec == Init /\ [][Next]_vars
-----------------------------------------------------------------------------
(* Properties.                                                             *)

\* A handler runs only for a request whose credential (the key if it brought
\* one, the cookie otherwise) was valid at some moment since it arrived, for
\* a tenant that was open at some moment since it arrived, and with the role
\* that credential has on that very tenant.  So what arrives after a
\* logout-all, a revocation or a suspension is refused, however the lookups
\* of earlier requests interleave with it.
ServedIsEntitled ==
  \A p \in Calls : req[p].at = "handler" =>
    /\ {"valid", "open"} \subseteq witnessed[p]
    /\ req[p].rank = Granted(p) /\ Granted(p) >= Floor[req[p].op]

\* A request by key is served only if there was one moment at which all of
\* its authorisation held: the status is read first and the key, which has
\* not been revoked before, last.  (A session is checked the other way round,
\* and a suspension lifted in between separates the two.)
KeyServedAtOneMoment ==
  \A p \in Calls : req[p].at = "handler" /\ req[p].key # None => "both" \in witnessed[p]

\* "An admin minting an owner key would let them hand themselves owner access
\* through the back door" (api_keys.py): no key, minted through however many
\* other keys, has more than the role of the admin the chain began with.
NoRoleByTheBackDoor ==
  \A k \in Keys : keys[k] # None => keys[k].role <= link[keys[k].tenant][keys[k].root]

\* The keys of a tenant are minted and revoked by requests that passed the
\* admin floor on that tenant, and a revoked key stays revoked.
KeysChangeByTheirAdmins ==
  [][\A k \in Keys : keys'[k] # keys[k] =>
       /\ keys[k] # None => keys[k].live
       /\ \E p \in Calls : /\ req[p].at = "handler" /\ req[p].rank >= 2
                           /\ req[p].slug = keys'[k].tenant]_vars

\* logout_all: "log out everywhere should mean everywhere": the step that
\* bumps an admin's version leaves none of their tokens working, a token that
\* has stopped working never works again, and a login that read the account
\* before the logout and signs after it yields no token that works.
LoggedOutForGood ==
  [][/\ \A a \in Admins : version'[a] # version[a] =>
          \A x \in tokens' : x.admin = a => ~Current(x)'
     /\ \A x \in tokens : ~Current(x) => x.version # version'[x.admin]
     /\ \A p \in Calls :
          req[p].at = "sign" /\ req'[p].at = "idle" /\ ~Current(req[p].token) =>
            \A x \in tokens' \ tokens : ~Current(x)']_vars
=============================================================================
