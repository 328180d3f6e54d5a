-------------------------------- MODULE MCHost -------------------------------
(***************************************************************************)
(* Small instances for TLC of what the agent shares with other processes:  *)
(* sshd's files, its own secrets, dnat's rules, kernel sets others edit.   *)
(* The parts share no state, so they are checked side by side: a behaviour *)
(* is one of a single part, the others rest.                               *)
(***************************************************************************)
EXTENDS SshdAuth, Secrets, DnatConf, KernelListing, TLC

CONSTANT Eth0

VARIABLE part

Line(listen, iface, host, dest) ==
  [fields |-> 4, listen |-> listen, iface |-> iface, host |-> host, dest |-> dest, source |-> "auto"]
web == Line(<<80>>, Eth0, "a", <<8080>>)
webAgain == Line(<<80>>, Eth0, "b", <<8080>>)
wide == Line(<<80, 82>>, Eth0, "a", <<90, 92>>)
skewed == Line(<<80>>, Eth0, "a", <<90, 90>>)
comment == [web EXCEPT !.fields = 1]
MCLines == {web, webAgain, wide, skewed, comment}
MCKeys == {<<80, Eth0>>, <<80>>, <<80, 82, Eth0>>}
MCFirst == {<<web, wide, webAgain>>, <<comment, web, skewed>>, <<>>}

all == <<part, vars, secretVars, confVars, listingVars>>

\* At rest a part has one initial state.
Rests ==
  /\ part # "sshd" => owner = "no" /\ dropin = "none"
  /\ part # "dnat" => dconf = <<>>
  /\ part # "listing" => ~modern

AllInit ==
  /\ part \in {"sshd", "secrets", "dnat", "listing"}
  /\ Init /\ SecretsInit /\ ConfInit /\ ListingInit /\ Rests

AllNext ==
  /\ part' = part
  /\ \/ part = "sshd" /\ Next /\ UNCHANGED <<secretVars, confVars, listingVars>>
     \/ part = "secrets" /\ SecretsNext /\ UNCHANGED <<vars, confVars, listingVars>>
     \/ part = "dnat" /\ ConfNext /\ UNCHANGED <<vars, secretVars, listingVars>>
     \/ part = "listing" /\ ListingNext /\ UNCHANGED <<vars, secretVars, confVars>>

AllSpec == AllInit /\ [][AllNext]_all

\* The types of all parts.
AllTypeOK == TypeOK /\ SecretsTypeOK /\ ConfTypeOK /\ ListingTypeOK

\* Requests, removers and commands are interchangeable.
Symmetry ==
  Permutations(Calls) \cup Permutations(Removers) \cup Permutations(Commands)
==============================================================================
