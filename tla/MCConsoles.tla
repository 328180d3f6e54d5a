----------------------------- MODULE MCConsoles ------------------------------
(***************************************************************************)
(* Small instances for TLC of what the console commands do beside the      *)
(* service: on its switches (ExposureConsole) and on its forwards          *)
(* (ForwardConsole).  The two share no state, so they are checked side by  *)
(* side: a behaviour is one of a single part, the other rests.             *)
(***************************************************************************)
EXTENDS ExposureConsole, ForwardConsole, TLC

VARIABLE part

\* Forwards that overlap in a port, that start at 0, that do not fit their
\* destination, on an odd interface, to a forbidden address, to a name of one.
Asked(iface, listen, dest, name, ip) ==
  [iface |-> iface, listen |-> listen, dest |-> dest, host |-> [name |-> name, ip |-> ip]]
lan == <<10, 0, 0, 9>>
MCRequests == {
  Asked("auto", <<80, 82>>, <<90, 92>>, FALSE, lan), Asked("eth0", <<82, 82>>, <<90, 90>>, TRUE, lan),
  Asked("auto", <<0, 80>>, <<1, 1>>, TRUE, <<127, 0, 0, 1>>),
  Asked("auto", <<82, 84>>, <<90, 91>>, TRUE, lan), Asked("odd", <<80, 80>>, <<90, 90>>, TRUE, lan),
  Asked("eth0", <<80, 80>>, <<90, 90>>, FALSE, <<169, 254, 169, 254>>)}
MCTool == {Asked("eth0", <<82, 84>>, <<90, 92>>, TRUE, lan), Asked("eth1", <<82, 84>>, <<90, 92>>, FALSE, lan)}

all == <<part, cvars, fconVars>>

AllInit ==
  /\ part \in {"switches", "forwards"} /\ CInit /\ FInit
  /\ part = "switches" => ~present /\ tool = {}

AllNext ==
  /\ part' = part
  /\ \/ part = "switches" /\ CNext /\ UNCHANGED fconVars
     \/ part = "forwards" /\ FNext /\ UNCHANGED cvars

AllSpec == AllInit /\ [][AllNext]_all

\* The types of both parts.
AllTypeOK == CTypeOK /\ FTypeOK

\* Commands on forwards are interchangeable.
Symmetry == Permutations(Consoles)
==============================================================================
