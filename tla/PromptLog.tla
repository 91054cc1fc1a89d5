------------------------------ MODULE PromptLog ------------------------------
(***************************************************************************)
(* What app/services/prompt_versions.py promises: each tenant has a log of *)
(* prompt texts that only grows at its end, and one entry of it, or the    *)
(* built-in default, is live.  Writing an entry does not make it live;     *)
(* rolling back is making an older entry live again.                       *)
(***************************************************************************)
EXTENDS Naturals, Sequences

CONSTANTS Tenants, Texts

VARIABLES
  log,   \* the prompt texts of each tenant, by version number
  live   \* the version number in use, 0 for the default prompt

logVars == <<log, live>>

LogInit ==
  /\ log = [t \in Tenants |-> <<>>]
  /\ live = [t \in Tenants |-> 0]

Draft(t) ==
  /\ \E text \in Texts : log' = [log EXCEPT ![t] = Append(@, text)]
  /\ UNCHANGED live

Activate(t) ==
  /\ \E n \in 1 .. Len(log[t]) : live' = [live EXCEPT ![t] = n]
  /\ UNCHANGED log

LogNext == \E t \in Tenants : Draft(t) \/ Activate(t)

LogSpec == LogInit /\ [][LogNext]_logVars
=============================================================================
