------------------------- MODULE MCAllowlistConsole --------------------------
(***************************************************************************)
(* Small instances of AllowlistConsole for TLC.  A behaviour has one of    *)
(* three budgets: calls and faults without commands, commands one after    *)
(* another, and a command while lifetimes run.                             *)
(***************************************************************************)
EXTENDS AllowlistConsole

VARIABLE budget

all == <<consoleVars, budget>>

Within ==
  /\ budget' = budget
  /\ budget = "calls" => commands' = 0
  /\ budget = "commands" => ops' <= 1 /\ faults' <= 1 /\ now' = 0
  /\ budget = "lifetimes" => ops' <= 1 /\ faults' <= 1 /\ commands' <= 1

AllInit == ConsoleInit /\ budget \in {"calls", "commands", "lifetimes"}
AllNext == ConsoleNext /\ Within
AllSpec == AllInit /\ [][AllNext]_all /\ ConsoleFairness
==============================================================================
