------------------------------ MODULE MCRuleset ------------------------------
(***************************************************************************)
(* Small instances for TLC of the kernel's table: the settings behind it,  *)
(* as calls change them (Exposure), and what its rules do to packets       *)
(* (PacketFilter).  The two share no state, so they are checked side by    *)
(* side: a behaviour is one of a single part, the other rests in its       *)
(* initial state.                                                          *)
(***************************************************************************)
EXTENDS Exposure, PacketFilter, TLC

VARIABLE part

Range3(protos, lo, hi) == [protos |-> protos, lo |-> lo, hi |-> hi]

InConfig == <<Range3({"udp"}, 3, 3)>>

\* Ranges that overlap, touch, cover SSH, cover the knock or start at 0.
Asks == {Range3({"tcp"}, 1, 3), Range3({"tcp", "udp"}, 2, 3), Range3({"udp"}, 2, 2),
         Range3({"tcp"}, 0, 1)}

\* A forward from port 2 to a port that is another one.
Forwards == {[protos |-> {"tcp", "udp"}, lo |-> 2, hi |-> 2, to |-> 3]}

all == <<part, vars, filterVars>>

AllInit == part \in {"settings", "packets"} /\ Init /\ FilterInit

AllNext ==
  /\ part' = part
  /\ \/ part = "settings" /\ Next /\ UNCHANGED filterVars
     \/ part = "packets" /\ FilterNext /\ UNCHANGED vars

AllSpec == AllInit /\ [][AllNext]_all

\* The types of both parts.
AllTypeOK == TypeOK /\ FilterTypeOK

Symmetry == Permutations(Sources)
==============================================================================
