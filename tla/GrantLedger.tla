----------------------------- MODULE GrantLedger -----------------------------
(***************************************************************************)
(* What the allowlist store promises about an entry, seen from the far     *)
(* side of a crash.  For every target the ledger keeps the set of grants   *)
(* the agent may come back with: one value once a call was acknowledged    *)
(* as persisted, several while a call whose save failed is in doubt.  Only *)
(* a call on a target may add a value for it; saves, restarts and prunes   *)
(* only narrow the doubt, and time only fades a grant into Absent.         *)
(* Allowlist.tla is shown to implement this module.                        *)
(***************************************************************************)
EXTENDS Naturals

CONSTANTS
  Targets,   \* the addresses and prefixes that can be allowed
  Never,     \* the expiry of a permanent entry
  Absent     \* no entry

VARIABLES
  clock,     \* wall-clock time
  possible,  \* possible[t]: the grants for t a restart may bring back
  doubt      \* targets whose last call was answered with a failed save

ledgerVars == <<clock, possible, doubt>>

\* A grant that is over is the same as none.
Faded(v, time) == IF v \in Nat /\ v <= time THEN Absent ELSE v

\* What is known of u may only become more precise.
Narrow(u) == possible'[u] # {} /\ possible'[u] \subseteq possible[u]
NarrowAllBut(t) == \A u \in Targets \ {t} : Narrow(u)

One(S) == \E v \in S : S = {v}
Certain == \A t \in Targets \ doubt : One(possible[t])

\* A call on t was acknowledged: t comes back with the value it wrote.
Commit(t) ==
  /\ One(possible'[t]) /\ NarrowAllBut(t)
  /\ doubt' \subseteq doubt \ {t}
  /\ clock' = clock

\* A call on t changed the running agent, but was answered with an error.
LeaveInDoubt(t) ==
  /\ \E v \in possible'[t] : possible'[t] \subseteq possible[t] \cup {v}
  /\ NarrowAllBut(t)
  /\ doubt' \subseteq doubt \cup {t}
  /\ clock' = clock

\* A save made for another reason, a crash or a restart settles doubts.
Resolve ==
  /\ \A u \in Targets : Narrow(u)
  /\ doubt' \subseteq doubt
  /\ clock' = clock

Elapse ==
  /\ clock' = clock + 1
  /\ possible' = [u \in Targets |-> {Faded(v, clock + 1) : v \in possible[u]}]
  /\ doubt' = doubt

LedgerInit ==
  /\ clock = 0
  /\ possible = [t \in Targets |-> {Absent}]
  /\ doubt = {}

LedgerNext ==
  /\ \/ \E t \in Targets : Commit(t) \/ LeaveInDoubt(t)
     \/ Resolve
     \/ Elapse
  /\ Certain'

LedgerSpec == LedgerInit /\ [][LedgerNext]_ledgerVars
==============================================================================
