---------------------------- MODULE Access_proofs ----------------------------
(***************************************************************************)
(* Proofs about Access for any calls, admins, tenants, keys and tenant     *)
(* users.  A request is authorised by lookups that lie apart, so what a    *)
(* handler may rely on is proved from where the request is (CallOK) and    *)
(* from what no step undoes: a tenant's links, a key's tenant, role and    *)
(* origin, a revocation and a session version (Monotone).                  *)
(***************************************************************************)
EXTENDS Access, TLAPS

USE AccessAssumption, NoneAssumption

Routes == {"edit", "manage"}

\* What the lookups behind a request have established.
CallOK(p) ==
  /\ req[p].at # "idle" => req[p].slug \in Tenants /\ req[p].op \in Ops
  /\ req[p].key # None => keys[req[p].key] # None
  /\ req[p].at \in {"session", "role"} => req[p].key = None
  /\ req[p].at \in {"session", "role", "bump", "sign"} => req[p].token \in Token
  /\ req[p].at \in {"role", "key", "handler"} =>
       req[p].op \in Routes /\ req[p].slug \in tenants /\ "open" \in witnessed[p]
  /\ req[p].at \in {"tenant", "role", "handler"} /\ req[p].op \in Routes /\ req[p].key = None =>
       req[p].token \in Token /\ "valid" \in witnessed[p]
  /\ req[p].at = "tenant" /\ req[p].op \notin Routes => req[p].key = None
  /\ req[p].at = "tenant" /\ req[p].op = "logout-all" => req[p].token \in Token
  /\ req[p].at = "key" => req[p].key # None /\ (keys[req[p].key].live => "both" \in witnessed[p])
  /\ req[p].at = "sign" => req[p].token.version <= version[req[p].token.admin]

HandlerOK(p) ==
  req[p].at = "handler" =>
    /\ "valid" \in witnessed[p]
    /\ req[p].rank = Granted(p) /\ Granted(p) >= Floor[req[p].op]
    /\ req[p].key # None => "both" \in witnessed[p]

IInv ==
  /\ TypeOK
  /\ \A p \in Calls : CallOK(p) /\ HandlerOK(p)
  /\ NoRoleByTheBackDoor

\* What every step keeps of the tables.
Monotone ==
  /\ tenants \subseteq tenants'
  /\ \A t \in tenants : link'[t] = link[t]
  /\ \A a \in Admins : version[a] <= version'[a]
  /\ \A k \in Keys : keys[k] # None =>
       /\ keys'[k] # None
       /\ keys'[k].tenant = keys[k].tenant /\ keys'[k].role = keys[k].role
       /\ keys'[k].live => keys[k].live

LEMMA InitIInv == Init => IInv
<1> SUFFICES ASSUME Init PROVE IInv
  OBVIOUS
<1>1. TypeOK
  BY DEF Init, TypeOK, Request, Idle, At, Ops, NoToken
<1>2. ASSUME NEW p \in Calls PROVE CallOK(p) /\ HandlerOK(p)
  BY DEF Init, CallOK, HandlerOK, Idle
<1>3. NoRoleByTheBackDoor
  BY DEF Init, NoRoleByTheBackDoor
<1> QED BY <1>1, <1>2, <1>3 DEF IInv
-----------------------------------------------------------------------------
\* A request that is where it was keeps what it has established.
LEMMA Others ==
  ASSUME IInv, TypeOK', Monotone, Watch, NEW q \in Calls, req'[q] = req[q]
  PROVE  CallOK(q)' /\ HandlerOK(q)'
<1>1. req[q] \in Request /\ Idle.at = "idle"
  BY DEF IInv, TypeOK, Idle
<1>2. req[q].at # "idle" => witnessed[q] \subseteq witnessed'[q]
  BY DEF Watch
<1>3. CallOK(q) /\ HandlerOK(q)
  BY DEF IInv
<1>4. req[q].token \in Token => /\ req[q].token.admin \in Admins
                                /\ req[q].token.version \in Nat
  BY DEF Token
<1>5. version \in [Admins -> Nat] /\ version' \in [Admins -> Nat]
  BY DEF IInv, TypeOK
<1>6. CallOK(q)'
  BY <1>1, <1>2, <1>3, <1>4, <1>5 DEF CallOK, Monotone, Request
<1>7. req[q].at = "handler" => Granted(q)' = Granted(q)
  BY <1>1, <1>3 DEF CallOK, Granted, Monotone, Request
<1>8. HandlerOK(q)'
  BY <1>1, <1>2, <1>3, <1>7 DEF HandlerOK
<1> QED BY <1>6, <1>8

\* A step that leaves the tables alone moves one request only.
LEMMA LookupStep ==
  ASSUME IInv, UNCHANGED tableVars, Watch, NEW p \in Calls, NEW r \in Request,
         req' = [req EXCEPT ![p] = r], CallOK(p)', HandlerOK(p)'
  PROVE  IInv'
<1>1. TypeOK'
  BY DEF IInv, TypeOK, tableVars
<1>2. Monotone
  BY DEF Monotone, tableVars, IInv, TypeOK
<1>3. ASSUME NEW q \in Calls PROVE CallOK(q)' /\ HandlerOK(q)'
  <2>1. CASE q = p
    BY <2>1
  <2>2. CASE q # p
    <3>1. req'[q] = req[q]
      BY <2>2 DEF IInv, TypeOK
    <3> QED BY <3>1, <1>1, <1>2, Others
  <2> QED BY <2>1, <2>2
<1>4. NoRoleByTheBackDoor'
  BY DEF IInv, NoRoleByTheBackDoor, tableVars
<1> QED BY <1>1, <1>3, <1>4 DEF IInv

\* A request that ends leaves nothing to show.
LEMMA EndedOK ==
  ASSUME NEW p \in Calls, req'[p] = Idle PROVE CallOK(p)' /\ HandlerOK(p)'
BY DEF CallOK, HandlerOK, Idle

LEMMA IdleIsRequest == Idle \in Request
BY DEF Idle, Request, At, Ops, NoToken
-----------------------------------------------------------------------------
(* The lookups.                                                            *)

LEMMA ArriveStep == ASSUME IInv, Watch, NEW p \in Calls, Arrive(p) PROVE IInv'
<1> PICK o \in Ops, t \in Tenants, k \in Keys \cup {None}, x \in tokens \cup {NoToken} :
      /\ k # None => keys[k] # None
      /\ o \in {"login", "logout-all"} => k = None
      /\ x # NoToken <=> o # "login" /\ k = None
      /\ req' = [req EXCEPT ![p] =
           [at |-> IF o \in {"login", "logout-all"} \/ k # None THEN "tenant" ELSE "session",
            op |-> o, slug |-> t, key |-> k, token |-> x, rank |-> NoRole]]
  BY DEF Arrive
<1> DEFINE r == [at |-> IF o \in {"login", "logout-all"} \/ k # None THEN "tenant" ELSE "session",
                 op |-> o, slug |-> t, key |-> k, token |-> x, rank |-> NoRole]
<1>1. UNCHANGED tableVars
  BY DEF Arrive
<1>2. r \in Request
  BY DEF IInv, TypeOK, Request, At, Ops
<1>3. req'[p] = r
  BY DEF IInv, TypeOK
<1>4. x # NoToken => x \in Token
  BY DEF IInv, TypeOK
<1>5. CallOK(p)' /\ HandlerOK(p)'
  BY <1>1, <1>3, <1>4 DEF CallOK, HandlerOK, tableVars, Routes, Ops
<1> QED BY <1>1, <1>2, <1>5, LookupStep

\* The fields of a request that only moves on.
LEMMA GotoFields ==
  ASSUME IInv, NEW p \in Calls, NEW to \in At, Goto(p, to)
  PROVE  /\ req'[p].at = to
         /\ req'[p].op = req[p].op /\ req'[p].slug = req[p].slug
         /\ req'[p].key = req[p].key /\ req'[p].token = req[p].token
         /\ req'[p].rank = req[p].rank
         /\ [req[p] EXCEPT !.at = to] \in Request
         /\ req' = [req EXCEPT ![p] = [req[p] EXCEPT !.at = to]]
<1>1. req \in [Calls -> Request]
  BY DEF IInv, TypeOK
<1> QED BY <1>1 DEF Goto, Request

LEMMA ResolveTenantStep ==
  ASSUME IInv, Watch, NEW p \in Calls, ResolveTenant(p) PROVE IInv'
<1> DEFINE to == AfterTenant(p)
<1>1. /\ req[p].at = "tenant" /\ Open(p) /\ Goto(p, to)
      /\ UNCHANGED tableVars
  BY DEF ResolveTenant
<1>2. req[p] \in Request /\ to \in At
  BY DEF IInv, TypeOK, At, AfterTenant
<1> HIDE DEF to
<1>3. /\ req'[p].at = to
      /\ req'[p].op = req[p].op /\ req'[p].slug = req[p].slug
      /\ req'[p].key = req[p].key /\ req'[p].token = req[p].token
      /\ [req[p] EXCEPT !.at = to] \in Request
      /\ req' = [req EXCEPT ![p] = [req[p] EXCEPT !.at = to]]
  BY <1>1, <1>2, GotoFields
<1>4. to \in {"login", "session", "key", "role"}
  BY DEF to, AfterTenant
<1>5. Open(p)' /\ (Valid(p)' <=> Valid(p))
  BY <1>1, <1>3 DEF Open, Valid, Current, tableVars
<1>6. /\ witnessed[p] \subseteq witnessed'[p]
      /\ req[p].op \in Routes => "open" \in witnessed'[p]
      /\ req[p].op \in Routes /\ req[p].key # None /\ Valid(p) => "both" \in witnessed'[p]
  BY <1>3, <1>4, <1>5 DEF Watch, Facts, Routes
<1>7. CallOK(p)
  BY DEF IInv
<1>8. req[p].op = "login" => to = "login"
  BY DEF to, AfterTenant
<1>9. req[p].op = "logout-all" => to = "session"
  BY DEF to, AfterTenant
<1>10. req[p].op \in Routes => to = IF req[p].key # None THEN "key" ELSE "role"
  BY DEF to, AfterTenant, Routes
<1>11. req[p].op \in Routes \cup {"login", "logout-all"}
  BY <1>1, <1>7 DEF CallOK, Ops, Routes
<1>12. CallOK(p)' /\ HandlerOK(p)'
  <2>1. req'[p].slug \in tenants' /\ keys' = keys
    BY <1>1, <1>3 DEF Open, tableVars
  <2>2. CASE req[p].op \in Routes
    BY <2>1, <2>2, <1>1, <1>3, <1>6, <1>7, <1>10 DEF CallOK, HandlerOK, Routes, Ops, Valid
  <2>3. CASE req[p].op \in {"login", "logout-all"}
    BY <2>1, <2>3, <1>1, <1>3, <1>6, <1>7, <1>8, <1>9 DEF CallOK, HandlerOK, Routes, Ops
  <2> QED BY <2>2, <2>3, <1>11
<1> QED BY <1>1, <1>3, <1>12, LookupStep

LEMMA RequireAdminStep ==
  ASSUME IInv, Watch, NEW p \in Calls, RequireAdmin(p) PROVE IInv'
<1> DEFINE to == IF req[p].op = "logout-all" THEN "bump" ELSE "tenant"
<1>1. /\ req[p].at = "session" /\ Current(req[p].token) /\ Goto(p, to)
      /\ UNCHANGED tableVars
  BY DEF RequireAdmin
<1>2. /\ req'[p].at = to
      /\ req'[p].op = req[p].op /\ req'[p].slug = req[p].slug
      /\ req'[p].key = req[p].key /\ req'[p].token = req[p].token
      /\ [req[p] EXCEPT !.at = to] \in Request
      /\ req' = [req EXCEPT ![p] = [req[p] EXCEPT !.at = to]]
  BY <1>1, GotoFields DEF At
<1>3. CallOK(p)
  BY DEF IInv
<1>4. req[p].key = None /\ req[p].token \in Token /\ req[p].token # NoToken
  BY <1>1, <1>3 DEF CallOK, Token, NoToken
<1>5. Valid(p)'
  BY <1>1, <1>2, <1>4 DEF Valid, Current, tableVars
<1>6. req[p].op \in Routes => "valid" \in witnessed'[p]
  BY <1>2, <1>5 DEF Watch, Facts, Routes
<1>7. CallOK(p)' /\ HandlerOK(p)'
  BY <1>1, <1>2, <1>3, <1>4, <1>6 DEF CallOK, HandlerOK, Routes, Ops, tableVars
<1> QED BY <1>1, <1>2, <1>7, LookupStep

LEMMA ReadRoleStep == ASSUME IInv, Watch, NEW p \in Calls, ReadRole(p) PROVE IInv'
<1> DEFINE r == link[req[p].slug][req[p].token.admin]
           to == [req[p] EXCEPT !.at = "handler", !.rank = r]
<1>1. CallOK(p) /\ req[p] \in Request
  BY DEF IInv, TypeOK
<1>2. /\ req[p].at = "role" /\ r >= Floor[req[p].op] /\ UNCHANGED tableVars
      /\ req' = [req EXCEPT ![p] = to]
  BY <1>1 DEF ReadRole, IInv, TypeOK
<1>3. /\ req[p].key = None /\ req[p].token \in Token /\ req[p].op \in Routes
      /\ req[p].slug \in tenants
  BY <1>1, <1>2 DEF CallOK
<1>4. r \in Roles \cup {NoRole}
  BY <1>3 DEF IInv, TypeOK, Token
<1>5. to \in Request
  BY <1>1, <1>4 DEF Request, At
<1>6. /\ req'[p].at = "handler" /\ req'[p].rank = r
      /\ req'[p].op = req[p].op /\ req'[p].slug = req[p].slug
      /\ req'[p].key = req[p].key /\ req'[p].token = req[p].token
  BY <1>1, <1>2 DEF IInv, TypeOK, Request
<1>7. witnessed[p] \subseteq witnessed'[p]
  BY <1>6 DEF Watch
<1>8. Granted(p)' = r
  BY <1>2, <1>3, <1>6 DEF Granted, tableVars
<1>9. CallOK(p)' /\ HandlerOK(p)'
  BY <1>1, <1>2, <1>3, <1>6, <1>7, <1>8 DEF CallOK, HandlerOK, tableVars
<1> QED BY <1>2, <1>5, <1>9, LookupStep

LEMMA ReadKeyStep == ASSUME IInv, Watch, NEW p \in Calls, ReadKey(p) PROVE IInv'
<1> DEFINE row == keys[req[p].key]
           to == [req[p] EXCEPT !.at = "handler", !.rank = row.role]
<1>1. CallOK(p) /\ req[p] \in Request
  BY DEF IInv, TypeOK
<1>2. /\ req[p].at = "key" /\ row # None
      /\ row.tenant = req[p].slug /\ row.live /\ row.role >= Floor[req[p].op]
      /\ UNCHANGED tableVars
      /\ req' = [req EXCEPT ![p] = to]
  BY <1>1 DEF ReadKey, IInv, TypeOK
<1>3. /\ req[p].key # None /\ req[p].op \in Routes /\ req[p].slug \in tenants
      /\ "both" \in witnessed[p]
  BY <1>1, <1>2 DEF CallOK
<1>4. row \in KeyRow
  BY <1>1, <1>2, <1>3 DEF IInv, TypeOK, Request
<1>5. to \in Request
  BY <1>1, <1>4 DEF Request, At, KeyRow
<1>6. /\ req'[p].at = "handler" /\ req'[p].rank = row.role
      /\ req'[p].op = req[p].op /\ req'[p].slug = req[p].slug
      /\ req'[p].key = req[p].key /\ req'[p].token = req[p].token
  BY <1>1, <1>2 DEF IInv, TypeOK, Request
<1>7. Valid(p)'
  BY <1>2, <1>3, <1>6 DEF Valid, tableVars
<1>8. witnessed[p] \subseteq witnessed'[p] /\ "valid" \in witnessed'[p]
  BY <1>3, <1>6, <1>7 DEF Watch, Facts, Routes
<1>9. Granted(p)' = row.role
  BY <1>2, <1>3, <1>6 DEF Granted, tableVars
<1>10. CallOK(p)' /\ HandlerOK(p)'
  BY <1>1, <1>2, <1>3, <1>6, <1>8, <1>9 DEF CallOK, HandlerOK, tableVars
<1> QED BY <1>2, <1>5, <1>10, LookupStep

LEMMA EndSteps ==
  ASSUME IInv, Watch, NEW p \in Calls, Refused(p) \/ Serve(p) PROVE IInv'
<1>1. req' = [req EXCEPT ![p] = Idle] /\ UNCHANGED tableVars
  BY DEF Refused, Serve, End
<1>2. req'[p] = Idle
  BY <1>1 DEF IInv, TypeOK
<1> QED BY <1>1, <1>2, EndedOK, IdleIsRequest, LookupStep

LEMMA ReadAccountStep ==
  ASSUME IInv, Watch, NEW p \in Calls, ReadAccount(p) PROVE IInv'
<1>1. CallOK(p) /\ req[p] \in Request
  BY DEF IInv, TypeOK
<1> PICK a \in Admins :
      req' = [req EXCEPT ![p].at = "sign", ![p].token = [admin |-> a, version |-> version[a]]]
  BY DEF ReadAccount
<1> DEFINE to == [req[p] EXCEPT !.at = "sign", !.token = [admin |-> a, version |-> version[a]]]
<1>2. req[p].at = "login" /\ UNCHANGED tableVars /\ req' = [req EXCEPT ![p] = to]
  BY <1>1 DEF ReadAccount, IInv, TypeOK
<1>3. [admin |-> a, version |-> version[a]] \in Token
  BY DEF IInv, TypeOK, Token
<1>4. to \in Request
  BY <1>1, <1>3 DEF Request, At
<1>5. /\ req'[p].at = "sign" /\ req'[p].token = [admin |-> a, version |-> version[a]]
      /\ req'[p].op = req[p].op /\ req'[p].slug = req[p].slug
      /\ req'[p].key = req[p].key
  BY <1>1, <1>2 DEF IInv, TypeOK, Request
<1>6. version[a] \in Nat
  BY DEF IInv, TypeOK
<1>7. CallOK(p)' /\ HandlerOK(p)'
  BY <1>1, <1>2, <1>3, <1>5, <1>6 DEF CallOK, HandlerOK, tableVars
<1> QED BY <1>2, <1>4, <1>7, LookupStep
-----------------------------------------------------------------------------
(* The steps that write the tables.                                        *)

\* Such a step ends its request, or is an operator's.
LEMMA WriteStep ==
  ASSUME IInv, TypeOK', Monotone, Watch, NoRoleByTheBackDoor',
         \A q \in Calls : req'[q] \in {req[q], Idle}
  PROVE  IInv'
<1>1. ASSUME NEW q \in Calls PROVE CallOK(q)' /\ HandlerOK(q)'
  <2>1. CASE req'[q] = req[q]
    BY <2>1, Others
  <2>2. CASE req'[q] = Idle
    BY <2>2, EndedOK
  <2> QED BY <2>1, <2>2
<1> QED BY <1>1 DEF IInv

LEMMA MintStep == ASSUME IInv, Watch, NEW p \in Calls, Mint(p) PROVE IInv'
<1> DEFINE root == IF req[p].key = None THEN req[p].token.admin ELSE keys[req[p].key].root
<1> PICK k \in Keys, r \in {x \in Asked : x <= req[p].rank} :
      /\ keys[k] = None
      /\ keys' = [keys EXCEPT ![k] = [tenant |-> req[p].slug, role |-> r, live |-> TRUE,
                                      root |-> root]]
  BY DEF Mint, MintWith
<1>1. /\ req[p].at = "handler" /\ req' = [req EXCEPT ![p] = Idle]
      /\ UNCHANGED <<tenants, suspended, link, version, tokens>>
  BY DEF Mint, MintWith, End
<1>2. CallOK(p) /\ HandlerOK(p) /\ req[p] \in Request
  BY DEF IInv, TypeOK
\* The new key has no more than the caller's role, and that no more than its root's.
<1>3. root \in Admins /\ r <= link[req[p].slug][root]
  <2>0. /\ req[p].slug \in Tenants /\ req[p].slug \in tenants
        /\ req[p].rank = Granted(p) /\ req[p].op \in Routes
    BY <1>1, <1>2 DEF CallOK, HandlerOK
  <2>1. CASE req[p].key = None
    <3>1. req[p].token \in Token
      BY <1>1, <1>2, <2>0, <2>1 DEF CallOK
    <3> QED BY <2>0, <2>1, <3>1 DEF Granted, Token
  <2>2. CASE req[p].key # None
    <3>1. req[p].key \in Keys /\ keys[req[p].key] # None
      BY <1>2, <2>2 DEF CallOK, Request
    <3>2. keys[req[p].key] \in KeyRow
      BY <3>1 DEF IInv, TypeOK
    <3>3. keys[req[p].key].tenant = req[p].slug /\ req[p].rank = keys[req[p].key].role
      BY <1>1, <1>2, <2>0, <2>2 DEF HandlerOK, Granted, Floor, Routes, NoRole
    <3>4. keys[req[p].key].role <= link[req[p].slug][root]
      BY <3>1, <3>3, <2>2 DEF IInv, NoRoleByTheBackDoor
    <3>5. root \in Admins /\ link[req[p].slug][root] \in Int
      BY <3>2, <2>2, <2>0 DEF KeyRow, IInv, TypeOK, Roles, NoRole
    <3>6. keys[req[p].key].role \in Int
      BY <3>2 DEF KeyRow, Roles
    <3>7. r \in Int /\ r <= keys[req[p].key].role
      BY <3>3 DEF Roles
    <3> HIDE DEF root
    <3> QED BY <3>4, <3>5, <3>6, <3>7
  <2> QED BY <2>1, <2>2
<1>4. req[p].slug \in Tenants /\ r \in Roles
  BY <1>1, <1>2 DEF CallOK
<1> HIDE DEF root
<1>5. TypeOK'
  BY <1>1, <1>3, <1>4, IdleIsRequest DEF IInv, TypeOK, KeyRow
<1>6. Monotone
  BY <1>1 DEF Monotone, IInv, TypeOK
<1>7. NoRoleByTheBackDoor'
  BY <1>1, <1>3 DEF IInv, TypeOK, NoRoleByTheBackDoor
<1>8. \A q \in Calls : req'[q] \in {req[q], Idle}
  BY <1>1 DEF IInv, TypeOK
<1> QED BY <1>5, <1>6, <1>7, <1>8, WriteStep

LEMMA RevokeStep == ASSUME IInv, Watch, NEW p \in Calls, Revoke(p) PROVE IInv'
<1> PICK k \in Keys :
      /\ keys[k] # None /\ keys[k].live
      /\ keys' = [keys EXCEPT ![k].live = FALSE]
  BY DEF Revoke
<1>1. req' = [req EXCEPT ![p] = Idle] /\ UNCHANGED <<tenants, suspended, link, version, tokens>>
  BY DEF Revoke, End
<1>2. keys[k] \in KeyRow
  BY DEF IInv, TypeOK
<1>3. /\ keys'[k] \in KeyRow /\ keys'[k] # None
      /\ keys'[k].tenant = keys[k].tenant /\ keys'[k].role = keys[k].role
      /\ keys'[k].root = keys[k].root /\ keys'[k].live = FALSE
  BY <1>2 DEF IInv, TypeOK, KeyRow
<1>4. \A j \in Keys \ {k} : keys'[j] = keys[j]
  BY DEF IInv, TypeOK
<1>5. TypeOK'
  BY <1>1, <1>3, <1>4, IdleIsRequest DEF IInv, TypeOK
<1>6. Monotone
  BY <1>1, <1>3, <1>4 DEF Monotone, IInv, TypeOK
<1>7. NoRoleByTheBackDoor'
  BY <1>1, <1>3, <1>4 DEF IInv, NoRoleByTheBackDoor
<1>8. \A q \in Calls : req'[q] \in {req[q], Idle}
  BY <1>1 DEF IInv, TypeOK
<1> QED BY <1>5, <1>6, <1>7, <1>8, WriteStep

LEMMA SignTokenStep == ASSUME IInv, Watch, NEW p \in Calls, SignToken(p) PROVE IInv'
<1>1. /\ tokens' = tokens \cup {req[p].token} /\ req' = [req EXCEPT ![p] = Idle]
      /\ UNCHANGED <<tenants, suspended, link, version, keys>>
  BY DEF SignToken, End
<1>2. req[p].token \in Token /\ req[p].token.version <= version[req[p].token.admin]
  BY DEF SignToken, IInv, CallOK
<1>3. TypeOK'
  BY <1>1, <1>2, IdleIsRequest DEF IInv, TypeOK
<1>4. Monotone /\ NoRoleByTheBackDoor'
  BY <1>1 DEF Monotone, IInv, TypeOK, NoRoleByTheBackDoor
<1>5. \A q \in Calls : req'[q] \in {req[q], Idle}
  BY <1>1 DEF IInv, TypeOK
<1> QED BY <1>3, <1>4, <1>5, WriteStep

LEMMA BumpStep == ASSUME IInv, Watch, NEW p \in Calls, Bump(p) PROVE IInv'
<1>1. /\ version' = [version EXCEPT ![req[p].token.admin] = @ + 1]
      /\ req' = [req EXCEPT ![p] = Idle]
      /\ UNCHANGED <<tenants, suspended, link, tokens, keys>>
  BY DEF Bump, End
<1>2. version' \in [Admins -> Nat] /\ \A a \in Admins : version[a] <= version'[a]
  <2>1. version \in [Admins -> Nat] /\ \A a \in Admins : version[a] \in Nat
    BY DEF IInv, TypeOK
  <2>2. \A a \in Admins : version'[a] \in {version[a], version[a] + 1}
    BY <1>1, <2>1
  <2>3. DOMAIN version' = Admins /\ version' = [a \in Admins |-> version'[a]]
    BY <1>1, <2>1
  <2> QED BY <2>1, <2>2, <2>3
<1>3. \A x \in tokens : x.version \in Nat /\ x.admin \in Admins
  BY DEF IInv, TypeOK, Token
<1>4. TypeOK'
  BY <1>1, <1>2, <1>3, IdleIsRequest DEF IInv, TypeOK
<1>5. Monotone /\ NoRoleByTheBackDoor'
  BY <1>1, <1>2 DEF Monotone, IInv, TypeOK, NoRoleByTheBackDoor
<1>6. \A q \in Calls : req'[q] \in {req[q], Idle}
  BY <1>1 DEF IInv, TypeOK
<1> QED BY <1>4, <1>5, <1>6, WriteStep

\* An owner's link is the highest: no key of its chain can exceed it.
LEMMA OperateStep == ASSUME IInv, Watch, Operate PROVE IInv'
<1> PICK t \in Tenants : SetStatus(t) \/ CreateTenant(t)
  BY DEF Operate
<1>1. UNCHANGED <<version, tokens, keys, req>>
  BY DEF SetStatus, CreateTenant
<1>2. CASE SetStatus(t)
  <2>1. TypeOK' /\ Monotone /\ NoRoleByTheBackDoor'
    BY <1>2 DEF SetStatus, IInv, TypeOK, Monotone, NoRoleByTheBackDoor
  <2> QED BY <2>1, <1>1, WriteStep
<1>3. CASE CreateTenant(t)
  <2>1. /\ link' \in [Tenants -> [Admins -> Roles \cup {NoRole}]]
        /\ \A u \in Tenants \ {t} : link'[u] = link[u]
        /\ \A a \in Admins : link'[t][a] = link[t][a] \/ link'[t][a] = 3
    BY <1>3 DEF CreateTenant, IInv, TypeOK, Roles
  <2>2. TypeOK'
    BY <1>3, <2>1 DEF CreateTenant, IInv, TypeOK
  <2>3. Monotone
    BY <1>3, <2>1 DEF CreateTenant, IInv, TypeOK, Monotone
  <2>4. NoRoleByTheBackDoor'
    <3> SUFFICES ASSUME NEW k \in Keys, keys[k] # None
                 PROVE  keys[k].role <= link'[keys[k].tenant][keys[k].root]
      BY <1>1 DEF NoRoleByTheBackDoor
    <3>1. keys[k].tenant \in Tenants /\ keys[k].root \in Admins /\ keys[k].role \in Roles
      BY DEF IInv, TypeOK, KeyRow
    <3>2. keys[k].role <= link[keys[k].tenant][keys[k].root]
      BY DEF IInv, NoRoleByTheBackDoor
    <3>3. CASE keys[k].tenant = t
      <4>1. \/ link'[t][keys[k].root] = link[t][keys[k].root]
            \/ link'[t][keys[k].root] = 3
        BY <2>1, <3>1
      <4> QED BY <4>1, <3>1, <3>2, <3>3 DEF Roles
    <3>4. CASE keys[k].tenant # t
      <4>1. link'[keys[k].tenant] = link[keys[k].tenant]
        BY <2>1, <3>1, <3>4
      <4> QED BY <4>1, <3>2
    <3> QED BY <3>3, <3>4
  <2> QED BY <2>2, <2>3, <2>4, <1>1, WriteStep
<1> QED BY <1>2, <1>3

LEMMA NextIInv == IInv /\ [Next]_vars => IInv'
<1> SUFFICES ASSUME IInv, [Next]_vars PROVE IInv'
  OBVIOUS
<1>1. CASE UNCHANGED vars
  <2>1. TypeOK' /\ NoRoleByTheBackDoor'
    BY <1>1 DEF vars, IInv, TypeOK, NoRoleByTheBackDoor
  <2>2. ASSUME NEW p \in Calls PROVE CallOK(p)' /\ HandlerOK(p)'
    <3>1. CallOK(p) /\ HandlerOK(p)
      BY DEF IInv
    <3>2. CallOK(p)'
      BY <1>1, <3>1 DEF vars, CallOK
    <3>3. HandlerOK(p)'
      BY <1>1, <3>1 DEF vars, HandlerOK, Granted
    <3> QED BY <3>2, <3>3
  <2> QED BY <2>1, <2>2 DEF IInv
<1>2. CASE Operate /\ Watch
  BY <1>2, OperateStep
<1>3. ASSUME NEW p \in Calls, Step(p), Watch PROVE IInv'
  BY <1>3, ArriveStep, ResolveTenantStep, RequireAdminStep, ReadRoleStep, ReadKeyStep,
     EndSteps, MintStep, RevokeStep, ReadAccountStep, SignTokenStep, BumpStep DEF Step
<1> QED BY <1>1, <1>2, <1>3 DEF Next
-----------------------------------------------------------------------------
\* Accounts, tokens, keys and requests are well typed, and no token is ahead of
\* the session version of its account.
THEOREM TypeCorrect == Spec => []TypeOK
<1>1. IInv => TypeOK
  BY DEF IInv
<1> QED BY <1>1, InitIInv, NextIInv, PTL DEF Spec

\* However the lookups of a request (session, tenant, key or role) interleave
\* with logouts, revocations and suspensions, a handler runs only for a
\* credential that was valid, on a tenant that was open, at some moment of the
\* request, with the role that the credential has there.
THEOREM HandlersAreEntitled == Spec => []ServedIsEntitled
<1>1. IInv => ServedIsEntitled
  BY DEF IInv, ServedIsEntitled, CallOK, HandlerOK
<1> QED BY <1>1, InitIInv, NextIInv, PTL DEF Spec

\* What authorises a request by key all held at one moment.
THEOREM KeysAreJudgedAtOnce == Spec => []KeyServedAtOneMoment
<1>1. IInv => KeyServedAtOneMoment
  BY DEF IInv, KeyServedAtOneMoment, HandlerOK
<1> QED BY <1>1, InitIInv, NextIInv, PTL DEF Spec

\* No chain of minted keys, however long, exceeds the admin it began with.
THEOREM NoBackDoor == Spec => []NoRoleByTheBackDoor
<1>1. IInv => NoRoleByTheBackDoor
  BY DEF IInv
<1> QED BY <1>1, InitIInv, NextIInv, PTL DEF Spec

\* Keys change only by a request that passed the admin floor on their tenant,
\* and a revocation is for good.
THEOREM KeysAreTheirAdmins == Spec => KeysChangeByTheirAdmins
<1>1. IInv /\ [Next]_vars =>
        [\A k \in Keys : keys'[k] # keys[k] =>
           /\ keys[k] # None => keys[k].live
           /\ \E p \in Calls : /\ req[p].at = "handler" /\ req[p].rank >= 2
                               /\ req[p].slug = keys'[k].tenant]_vars
  <2> SUFFICES ASSUME IInv, Next, NEW k \in Keys, keys'[k] # keys[k]
               PROVE  /\ keys[k] # None => keys[k].live
                      /\ \E p \in Calls : /\ req[p].at = "handler" /\ req[p].rank >= 2
                                          /\ req[p].slug = keys'[k].tenant
    OBVIOUS
  <2>1. PICK p \in Calls : Mint(p) \/ Revoke(p)
    BY DEF Next, Operate, SetStatus, CreateTenant, Step, Arrive, ResolveTenant, RequireAdmin,
           ReadRole, ReadKey, Refused, Serve, ReadAccount, SignToken, Bump, tableVars
  <2>2. req[p].at = "handler" /\ req[p].op = "manage"
    BY <2>1 DEF Mint, MintWith, Revoke
  <2>3. req[p].rank >= 2
    BY <2>2 DEF IInv, HandlerOK, Floor
  <2>4. CASE Mint(p)
    BY <2>2, <2>3, <2>4 DEF Mint, MintWith, IInv, TypeOK
  <2>5. CASE Revoke(p)
    <3>1. PICK j \in Keys :
            /\ keys[j] # None
            /\ keys[j].tenant = req[p].slug /\ keys[j].live
            /\ keys' = [keys EXCEPT ![j].live = FALSE]
      BY <2>5 DEF Revoke
    <3>2. j = k /\ keys[k] \in KeyRow
      BY <3>1 DEF IInv, TypeOK
    <3>3. keys'[k].tenant = keys[k].tenant
      BY <3>1, <3>2 DEF IInv, TypeOK, KeyRow
    <3> QED BY <2>2, <2>3, <3>1, <3>2, <3>3
  <2> QED BY <2>1, <2>4, <2>5
<1> QED BY <1>1, InitIInv, NextIInv, PTL DEF Spec, KeysChangeByTheirAdmins

\* A logout-all leaves none of the account's tokens working, a token that has
\* stopped working never works again, and none that works is signed for a login
\* that read the account before the logout.
THEOREM LogoutIsForGood == Spec => LoggedOutForGood
<1> DEFINE Dead(x) == x.version # version'[x.admin]
<1>1. IInv /\ [Next]_vars =>
        [/\ \A a \in Admins : version'[a] # version[a] =>
              \A x \in tokens' : x.admin = a => ~Current(x)'
         /\ \A x \in tokens : ~Current(x) => x.version # version'[x.admin]
         /\ \A p \in Calls :
              req[p].at = "sign" /\ req'[p].at = "idle" /\ ~Current(req[p].token) =>
                \A x \in tokens' \ tokens : ~Current(x)']_vars
  <2> SUFFICES ASSUME IInv, Next
               PROVE  /\ \A a \in Admins : version'[a] # version[a] =>
                           \A x \in tokens' : x.admin = a => Dead(x)
                      /\ \A x \in tokens : ~Current(x) => Dead(x)
                      /\ \A p \in Calls :
                           req[p].at = "sign" /\ req'[p].at = "idle" /\ ~Current(req[p].token) =>
                             \A x \in tokens' \ tokens : Dead(x)
    BY DEF Current
  <2>0. \A x \in tokens : /\ x.admin \in Admins /\ x.version \in Nat
                          /\ x.version <= version[x.admin]
    BY DEF IInv, TypeOK, Token
  <2>1. CASE UNCHANGED <<version, tokens>>
    BY <2>1 DEF Current
  <2>2. ASSUME NEW p \in Calls, SignToken(p)
        PROVE  /\ UNCHANGED version
               /\ \A q \in Calls : req[q].at = "sign" /\ req'[q].at = "idle" => q = p
               /\ tokens' = tokens \cup {req[p].token}
    BY <2>2 DEF SignToken, End, IInv, TypeOK
  <2>3. ASSUME NEW p \in Calls, Bump(p)
        PROVE  /\ \A a \in Admins : version'[a] # version[a] =>
                    \A x \in tokens' : x.admin = a => Dead(x)
               /\ \A x \in tokens : ~Current(x) => Dead(x)
               /\ tokens' = tokens
    <3>1. /\ version' = [version EXCEPT ![req[p].token.admin] = @ + 1] /\ tokens' = tokens
          /\ version \in [Admins -> Nat]
      BY <2>3 DEF Bump, IInv, TypeOK
    <3> QED BY <3>1, <2>0 DEF Current
  <2>4. \/ UNCHANGED <<version, tokens>>
        \/ \E p \in Calls : SignToken(p) \/ Bump(p)
    BY DEF Next, Operate, SetStatus, CreateTenant, Step, Arrive, ResolveTenant,
       RequireAdmin, ReadRole, ReadKey, Refused, Serve, Mint, MintWith, Revoke,
       ReadAccount, tableVars
  <2>5. CASE \E p \in Calls : SignToken(p)
    BY <2>2, <2>5 DEF Current
  <2>6. CASE \E p \in Calls : Bump(p)
    BY <2>3, <2>6
  <2> QED BY <2>1, <2>4, <2>5, <2>6
<1> QED BY <1>1, InitIInv, NextIInv, PTL DEF Spec, LoggedOutForGood
=============================================================================
