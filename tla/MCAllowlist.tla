----------------------------- MODULE MCAllowlist -----------------------------
(***************************************************************************)
(* Small instances of Allowlist for TLC.                                   *)
(***************************************************************************)
EXTENDS Allowlist, TLC

\* Safety runs only: targets and connections are interchangeable.
Symmetry == Permutations(Targets) \cup Permutations(Clients)

\* Safety run: three calls with one fault, or two of each.
Budget == ops + faults <= 4

\* Every two targets share an address.
OverlappingTargets == {{s, t} : s, t \in Targets} \ {{t} : t \in Targets}
==============================================================================
