-------------------------- MODULE AllowlistConsole ---------------------------
(***************************************************************************)
(* The console commands `allow`, `revoke` and `uninstall` beside the       *)
(* service of Allowlist.tla.  The first two load state.json, change one    *)
(* entry of their copy, write it back whole and make their nft call; they  *)
(* are meant for a service that is down, and nothing keeps them from       *)
(* running beside one that is up.  `uninstall` deletes the table under the *)
(* service: until it is loaded again nft calls and listings fail.          *)
(***************************************************************************)
EXTENDS Allowlist

CONSTANTS
  NoWord,      \* no command has left a word on a target
  MaxCommands  \* bound: commands

ASSUME NoWordOK == NoWord \notin Cell /\ MaxCommands \in Nat

VARIABLES
  tool,      \* the command: its step, the target it is about, the expiry it
             \* gives (Absent to revoke), its copy of the entries
  commands,  \* commands started
  gone,      \* the table was deleted and not loaded since
  word       \* history: word[t]: what the last command on t wrote that ran
             \* with the service down, unless a call was made on t since

toolVars == <<tool, commands, gone, word>>
consoleVars == <<vars, toolVars>>

NoTool == [step |-> "idle", target |-> CHOOSE t \in Targets : TRUE, exp |-> Absent,
           copy |-> NoEntries, alone |-> FALSE]
ToolGoes(step) == tool' = [tool EXCEPT !.step = step]

-----------------------------------------------------------------------------
\* The commands

\* Mutant: an entry that is there keeps its expiry.
ChangedIfAbsent(entries, t, e) ==
  [entries EXCEPT ![t] = IF e # Absent /\ @ # Absent THEN @ ELSE e]

\* Store::allow, Store::revoke_by_target, on a copy that nobody prunes
Changed(entries, t, e) == [entries EXCEPT ![t] = e]

\* Load and change; a target without entry is not revoked.
LoadTool(t, e) ==
  /\ tool.step = "idle" /\ commands < MaxCommands /\ commands' = commands + 1
  /\ e = Absent => disk[t] # Absent
  /\ tool' = [step |-> "save", target |-> t, exp |-> e, copy |-> Changed(disk, t, e), alone |-> ~up]
  /\ UNCHANGED <<vars, gone, word>>

SaveTool ==
  /\ tool.step = "save"
  /\ \/ /\ disk' = tool.copy /\ NoFault /\ ToolGoes("kernel")
        /\ word' = [word EXCEPT ![tool.target] = IF tool.alone THEN tool.exp ELSE NoWord]
     \/ disk' = disk /\ Fault /\ tool' = NoTool /\ word' = word
  /\ UNCHANGED <<now, up, mem, doubt, kern, call, pass, history, ops, commands, gone>>

\* The nft call; its failure is ignored.
KernelTool ==
  /\ tool.step = "kernel" /\ tool' = NoTool
  /\ LET t == tool.target IN
     /\ \/ gone /\ kern' = kern /\ NoFault
        \/ ~gone /\ NoFault /\ \E k \in (IF tool.exp = Absent THEN {Absent} ELSE AfterAdd(t, tool.exp)) :
             kern' = [kern EXCEPT ![t] = k]
        \/ kern' = kern /\ Fault
     /\ Touch({t})
  /\ UNCHANGED <<now, up, store, call, pass, ops, commands, gone, word>>

Uninstall ==
  /\ ~gone /\ gone' = TRUE /\ commands < MaxCommands /\ commands' = commands + 1
  /\ kern' = NoEntries /\ Touch(Targets)
  /\ UNCHANGED <<now, up, store, call, pass, ops, faults, tool, word>>

-----------------------------------------------------------------------------
\* The service, as Allowlist has it, with the table there or not

GoneCall(c) ==
  /\ gone /\ up /\ call[c] # NoCall
  /\ call' = [call EXCEPT ![c] = NoCall] /\ Touch({call[c].target})
  /\ UNCHANGED <<now, up, store, kern, pass, ops, faults, gone>>

GoneList ==
  /\ gone /\ up /\ phase = "list" /\ phase' = "rebuild"
  /\ UNCHANGED <<now, up, store, kern, call, snap, snapAt, missing, stale, history, ops, faults, gone>>

GoneFix(t) ==
  /\ gone /\ up /\ phase = "fix" /\ t \in missing \cup stale
  /\ missing' = missing \ {t} /\ stale' = IF t \in missing THEN stale ELSE stale \ {t}
  /\ missing = {} \/ t \in missing
  /\ Unfixed(t)
  /\ UNCHANGED <<now, up, store, kern, call, phase, snap, snapAt, ops, faults, gone>>

\* Loading the whole table needs none to be there.
Rebuilds == Rebuild /\ gone' = (gone /\ ~(CanApply(mem) /\ faults' = faults))

HandlerOrGone(c) == (~gone /\ Handler(c) /\ gone' = gone) \/ GoneCall(c)

ReconcileOrGone ==
  \/ (Snapshot \/ PassDone) /\ gone' = gone
  \/ ~gone /\ gone' = gone /\ (ListKernel \/ ListFails \/ \E t \in Targets : FixMissing(t) \/ FixStale(t))
  \/ Rebuilds \/ GoneList \/ \E t \in Targets : GoneFix(t)

Boots == Boot /\ gone' = FALSE /\ tool' = [tool EXCEPT !.alone = FALSE] /\ UNCHANGED <<commands, word>>

\* A call on a target takes back what a command said of it.
Beside ==
  /\ UNCHANGED <<tool, commands>>
  /\ word' = [t \in Targets |-> IF ops' # ops /\ mem'[t] # mem[t] THEN NoWord ELSE word[t]]

ServiceStep ==
  \/ Boots
  \/ /\ \/ (\E c \in Clients : HandlerOrGone(c)) \/ ReconcileOrGone
        \/ Reapply /\ gone' = FALSE
        \/ (Request \/ SaveStore \/ BootFails \/ Crash \/ Tick) /\ gone' = gone
     /\ Beside

ToolStep ==
  \/ \E t \in Targets, e \in Expiries \cup {Never, Absent} : LoadTool(t, e)
  \/ SaveTool \/ KernelTool \/ Uninstall

ConsoleInit ==
  /\ Init /\ tool = NoTool /\ commands = 0 /\ gone = FALSE /\ word = [t \in Targets |-> NoWord]
ConsoleNext == ServiceStep \/ ToolStep

\* As in Allowlist; a command owes nothing, it may hang between two of its steps.
ConsoleFairness ==
  /\ \A c \in Clients : WF_consoleVars(HandlerOrGone(c) /\ Beside)
  /\ WF_consoleVars(ReconcileOrGone /\ Beside)
  /\ WF_consoleVars(Boots)

ConsoleSpec == ConsoleInit /\ [][ConsoleNext]_consoleVars /\ ConsoleFairness

-----------------------------------------------------------------------------
\* Properties

Same(v, w) == v = w \/ (~Live(v, now) /\ ~Live(w, now))

\* "For use offline" (allow_cli, revoke_cli): what a command said of a target with the
\* service down is what state.json says, and the service once it runs, until a call
\* on that target or the end of its lifetime, whatever other commands, saves,
\* crashes and passes do, and also when later commands run beside the service.
OfflineLasts ==
  \A t \in Targets : word[t] # NoWord =>
    Same(disk[t], word[t]) /\ (up => Same(mem[t], word[t]))

\* What a command does beside the running service does not last in the kernel: once
\* commands, calls and faults stop the kernel enforces the service's store again
\* ("its reconcile loop takes what the command added for stale", main.rs:334), the
\* table that `uninstall` deleted under it included.
StoreWins == <>[](up /\ \A t \in Targets : Agree(t))
==============================================================================
