----------------------------- MODULE RateLimit -----------------------------
(***************************************************************************)
(* The gate of POST /api/chat: enforce_rate_limit of                       *)
(* app/core/rate_limit.py and the table rate_limit_bucket.                 *)
(*                                                                         *)
(* A request is counted in the bucket of its address and then in that of   *)
(* its tenant, each in a transaction of its own that increments the        *)
(* current minute's row and reads it back under the row's lock, and each   *)
(* after reading the clock.  Only then is it refused or let in.            *)
(***************************************************************************)
EXTENDS Naturals, FiniteSets

CONSTANTS
  Requests,
  Addresses, Hosts,        \* client addresses; tenants
  IpLimit, TenantLimit,    \* IP_LIMIT_PER_MINUTE, TENANT_LIMIT_PER_MINUTE
  Minutes                  \* the windows of a behaviour

VARIABLES
  count,   \* request_count of each bucket
  gate     \* where each request is, and the buckets that had room for it

Buckets == (Addresses \cup Hosts) \X Minutes

LimitOf(scope) == IF scope \in Addresses THEN IpLimit ELSE TenantLimit

GateType ==
  /\ count \in [Buckets -> Nat]
  /\ gate \in [Requests -> [at : {"new", "counted", "open", "refused"},
                            host : Hosts, minute : Minutes \cup {0}, room : SUBSET Buckets]]

GateInit ==
  /\ count = [b \in Buckets |-> 0]
  /\ gate \in [Requests -> {[at |-> "new", host |-> h, minute |-> 0, room |-> {}] : h \in Hosts}]

-----------------------------------------------------------------------------
\* Mutated form: the row is read before it is incremented.
RoomBefore(bucket) ==
  IF count[bucket] <= LimitOf(bucket[1]) THEN {bucket} ELSE {}

\* _increment_and_check: the count that is compared is the incremented one.
Room(bucket) ==
  IF count[bucket] + 1 <= LimitOf(bucket[1]) THEN {bucket} ELSE {}

Count(bucket) == count' = [count EXCEPT ![bucket] = @ + 1]

CountAddress(r) ==
  /\ gate[r].at = "new"
  /\ \E ip \in Addresses, m \in Minutes :
       /\ Count(<<ip, m>>)
       /\ gate' = [gate EXCEPT ![r] = [@ EXCEPT !.at = "counted", !.minute = m,
                                                !.room = Room(<<ip, m>>)]]

\* The tenant's bucket is counted in although the address has no room.
CountTenant(r) ==
  /\ gate[r].at = "counted"
  /\ \E m \in {n \in Minutes : n >= gate[r].minute} :
       LET room == gate[r].room \cup Room(<<gate[r].host, m>>)
       IN /\ Count(<<gate[r].host, m>>)
          /\ gate' = [gate EXCEPT ![r] =
               [@ EXCEPT !.at = IF Cardinality(room) = 2 THEN "open" ELSE "refused",
                         !.minute = m, !.room = room]]

\* A counting transaction fails, or the process dies: the request ends.
GateFails(r) ==
  /\ gate[r].at \in {"new", "counted"}
  /\ gate' = [gate EXCEPT ![r].at = "refused"]
  /\ UNCHANGED count

-----------------------------------------------------------------------------
\* However many requests arrive at once, and on whichever side of a minute:
\* those let in that a bucket counted are no more than its limit.
AdmittedWithinLimits ==
  \A b \in Buckets :
    Cardinality({r \in Requests : gate[r].at = "open" /\ b \in gate[r].room}) <= LimitOf(b[1])
=============================================================================
