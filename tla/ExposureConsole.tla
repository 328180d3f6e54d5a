--------------------------- MODULE ExposureConsole ---------------------------
(***************************************************************************)
(* The console commands `ssh-expose` and `forward-expose` beside the       *)
(* service of Exposure.tla.  A command is a process of its own: it loads   *)
(* state.json, changes one switch in its copy, loads the table itself,     *)
(* writes its copy back whole and restarts the service.  Nothing locks     *)
(* state.json, so the service's handlers and saves fall between any two of *)
(* these steps.                                                            *)
(***************************************************************************)
EXTENDS Exposure

CONSTANT MaxRuns   \* bound: console commands started
ASSUME MaxRunsOK == MaxRuns \in Nat

VARIABLES
  con,   \* the command: its step, the switch it sets, its copy of the store as
         \* loaded (old) and as changed (new)
  runs   \* commands started

cvars == <<vars, con, runs>>

Idle == [step |-> "idle", switch |-> "ssh", old |-> Fresh, new |-> Fresh,
         moved |-> FALSE, raced |-> FALSE]
Commands == [step : {"idle", "apply", "restore", "save", "restart", "done"},
             switch : {"ssh", "fwd"}, old : Settings, new : Settings,
             moved : BOOLEAN,  \* history: a client set the switch since the load
             raced : BOOLEAN]  \* history: the service saved between save and restart

Position(s, switch) == IF switch = "ssh" THEN s.ssh ELSE s.fwd
Set(s, switch, on) ==
  IF switch = "ssh" THEN [s EXCEPT !.ssh = on] ELSE [s EXCEPT !.fwd = on]

Goes(step) == con' = [con EXCEPT !.step = step]

\* A table loaded from the console is not recorded as the service's live state.
LoadUnseen(s, r) == kern' = TableOf(s, r) /\ UNCHANGED <<live, torn>>

-----------------------------------------------------------------------------
\* The command

\* Load and check; the empty allowlist is not checked here.
Start(switch, on) ==
  /\ con.step \in {"idle", "done"} /\ runs < MaxRuns
  /\ switch = "ssh" /\ on => Covering(disk) = {}
  /\ con' = [step |-> "apply", switch |-> switch, old |-> disk, new |-> Set(disk, switch, on),
             moved |-> FALSE, raced |-> FALSE]
  /\ runs' = runs + 1
  /\ UNCHANGED vars

\* The feature the command insists on was given up.
Missed(got) ==
  Position(con.new, con.switch) /\ ~(IF con.switch = "ssh" THEN got.knock ELSE got.gate)

Apply ==
  /\ con.step = "apply"
  /\ \/ \E n \in ApplyFailure(con.new) : Pay(n) /\ Goes("idle") /\ SameTable
     \/ \E a \in Applied(con.new) :
          /\ Pay(a.cost) /\ LoadUnseen(con.new, a.got)
          /\ Goes(CASE ~Missed(a.got) -> "save"
                    [] Missed(a.got) /\ con.switch = "ssh" -> "restore"
                    [] OTHER -> "idle")
  /\ UNCHANGED <<up, mem, disk, answer, runs>>

\* Knock refused: load the table of the copy as it was, and give up.
RestoreOld ==
  /\ con.step = "restore" /\ Goes("idle")
  /\ \/ \E n \in ApplyFailure(con.old) : Pay(n) /\ SameTable
     \/ \E a \in Applied(con.old) : Pay(a.cost) /\ LoadUnseen(con.old, a.got)
  /\ UNCHANGED <<up, mem, disk, answer, runs>>

\* Mutant: only the switch is written into whatever state.json holds by now.
SaveSwitch ==
  /\ con.step = "save"
  /\ \/ disk' = Set(disk, con.switch, Position(con.new, con.switch))
        /\ Pay(0) /\ Goes("restart")
     \/ disk' = disk /\ Pay(1) /\ Goes("idle")
  /\ SameTable /\ UNCHANGED <<up, mem, answer, runs>>

Save ==
  /\ con.step = "save"
  /\ \/ disk' = con.new /\ Pay(0) /\ Goes("restart")
     \/ disk' = disk /\ Pay(1) /\ Goes("idle")
  /\ SameTable /\ UNCHANGED <<up, mem, answer, runs>>

\* Mutant: a running service is left alone.
NoRestart ==
  /\ con.step = "restart" /\ Goes("done")
  /\ UNCHANGED <<vars, runs>>

\* A running service is stopped and started again by Boot; a stopped one is
\* left alone; a restart that fails ends in a warning.
Restart ==
  /\ con.step = "restart"
  /\ \/ up' = FALSE /\ Pay(0) /\ Goes("done")
     \/ up /\ up' = up /\ Pay(1) /\ Goes("idle")
  /\ SameTable /\ UNCHANGED <<mem, disk, answer, runs>>

Command ==
  \/ \E switch \in {"ssh", "fwd"}, on \in BOOLEAN : Start(switch, on)
  \/ Apply \/ RestoreOld \/ Save \/ Restart

-----------------------------------------------------------------------------
\* The service, as Exposure has it.
Service ==
  /\ Next
  /\ con' = [con EXCEPT
       !.moved = @ \/ \E on \in BOOLEAN : IF con.switch = "ssh" THEN SetSsh(on) ELSE SetForward(on),
       !.raced = @ \/ (con.step = "restart" /\ disk' # disk)]
  /\ runs' = runs

CInit == Init /\ con = Idle /\ runs = 0
CNext == Command \/ Service
CSpec == CInit /\ [][CNext]_cvars

-----------------------------------------------------------------------------
\* Properties

CTypeOK == TypeOK /\ con \in Commands /\ runs \in 0..MaxRuns

\* Whole-file writes: whatever the service and a command do to state.json
\* between each other's load and save, no mixture of the two becomes a setting
\* that contradicts itself.
NoMixedSettings == NoMootAllowlist

InForce == Position(mem, con.switch) = Position(con.new, con.switch)

\* A finished command has its switch in force once the service runs again,
\* unless a client set the switch or the service saved in the moment between
\* the command's save and the restart.
RescueHolds == con.step = "done" /\ up /\ ~con.moved /\ ~con.raced => InForce
==============================================================================
