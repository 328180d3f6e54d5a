--------------------------- MODULE MCDnatMigration ---------------------------
(***************************************************************************)
(* Small instances of DnatMigration for TLC: at most one rule in dnat.     *)
(***************************************************************************)
EXTENDS DnatMigration

\* A rule without an interface and one on the default interface.
AutoAndDefault == {p \in Keys \X Keys : p[1] # p[2]}

OneRule == {[key |-> CHOOSE k \in Keys : TRUE, host |-> CHOOSE h \in Hosts : TRUE]}
==============================================================================
