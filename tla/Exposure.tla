------------------------------ MODULE Exposure -------------------------------
(***************************************************************************)
(* The switches that shape the ruleset: "SSH for the allowlist only", the  *)
(* forward gate and the public ports, their RPC handlers, the fallback     *)
(* ladder of apply_ruleset, the rebuild of the reconcile thread, and       *)
(* restarts.  Every handler holds the store mutex from its checks to its   *)
(* save, so it is one step; what can go wrong is one part of it failing:   *)
(* an nft transaction, the restoring transaction after it, or the save.    *)
(*                                                                         *)
(* The allowlist itself is Allowlist.tla; here it is only empty, usable,   *)
(* or clashing (two entries that share an address, which nft refuses in a  *)
(* table).                                                                 *)
(***************************************************************************)
EXTENDS Naturals

CONSTANTS
  Ports,        \* port ranges clients may make public
  SshPorts,     \* those of them that cover the TCP port of sshd
  ConfigPorts,  \* port ranges config.json makes public
  Lists,        \* states of the allowlist: "empty", "usable", "clash"
  Supported,    \* optional features this kernel loads: "knock", "gate"
  NoTable,      \* the kernel has no table of the agent
  MaxFaults     \* bound: nft calls and saves that fail, crashes

ASSUME ExposureOK ==
  /\ SshPorts \subseteq Ports /\ ConfigPorts \subseteq Ports
  /\ Lists \subseteq {"empty", "usable", "clash"} /\ "empty" \in Lists
  /\ MaxFaults \in Nat

Settings == [ssh : BOOLEAN, fwd : BOOLEAN, pub : SUBSET Ports, list : Lists]
Features == [knock : BOOLEAN, gate : BOOLEAN]
\* A table always holds the public ports of config.json.
Tables == [ssh : BOOLEAN, knock : BOOLEAN, gate : BOOLEAN,
           pub : {ConfigPorts \cup p : p \in SUBSET Ports}]
ASSUME NoTableOK == NoTable \notin Tables

VARIABLES
  up,      \* the service process runs
  mem,     \* settings in the store of the process; ssh and fwd are TRUE when
           \* that switch restricts to the allowlist
  disk,    \* settings in state.json
  kern,    \* the table the kernel enforces
  live,    \* features the process reports as active
  torn,    \* history: an apply was not undone because undoing it failed
  answer,  \* history: how the last settings call was answered
  faults   \* faults so far

vars == <<up, mem, disk, kern, live, torn, answer, faults>>

-----------------------------------------------------------------------------
\* apply_ruleset

\* Knock rules are wanted only while SSH is for the allowlist; the ladder tries
\* everything wanted first and nothing optional last.
Rungs(s) == [knock : {FALSE, s.ssh}, gate : {FALSE, s.fwd}]
Loads(r) == (r.knock => "knock" \in Supported) /\ (r.gate => "gate" \in Supported)
Best(s) == [knock |-> s.ssh /\ "knock" \in Supported,
            gate |-> s.fwd /\ "gate" \in Supported]

\* The features an apply of s ends with and the faults it meets: a transaction
\* that fails for a passing reason makes the ladder settle for less.
Applied(s) ==
  IF s.list = "clash" THEN {}
  ELSE {[got |-> Best(s), cost |-> 0]}
         \cup {[got |-> r, cost |-> 1] : r \in {q \in Rungs(s) : Loads(q)}}

\* An apply of which every rung failed; it leaves the old table in place.
ApplyFailure(s) == IF s.list = "clash" THEN {0} ELSE {1}

\* Mutant: the ports of config.json are forgotten.
TableOfStored(s, r) == [ssh |-> s.ssh, knock |-> r.knock, gate |-> r.gate, pub |-> s.pub]

\* Mutant: without knock rules SSH is left open to everyone.
TableOfLenient(s, r) == [ssh |-> s.ssh /\ r.knock, knock |-> r.knock, gate |-> r.gate,
                         pub |-> ConfigPorts \cup s.pub]

\* The table rendered for s with the features that loaded.
TableOf(s, r) == [ssh |-> s.ssh, knock |-> r.knock, gate |-> r.gate, pub |-> ConfigPorts \cup s.pub]

\* Public ports that make "allowlist only" moot.
Covering(s) == (s.pub \cup ConfigPorts) \cap SshPorts

Pay(n) == faults + n <= MaxFaults /\ faults' = faults + n

\* Mutant: what was wanted is reported, not what loaded.
LoadAsWanted(s, r) ==
  kern' = TableOf(s, r) /\ live' = [knock |-> s.ssh, gate |-> s.fwd] /\ torn' = FALSE

Load(s, r) == kern' = TableOf(s, r) /\ live' = r /\ torn' = FALSE
SameTable == UNCHANGED <<kern, live, torn>>

-----------------------------------------------------------------------------
\* Settings calls

Refuse == answer' = "error" /\ SameTable /\ UNCHANGED <<up, mem, disk>>

ApplyFails(s) == \E n \in ApplyFailure(s) : Pay(n) /\ Refuse

\* Mutant: only the file is written, the store in memory keeps its switches.
SettleOnDisk(s, cost) ==
  /\ UNCHANGED <<up, mem>>
  /\ \/ disk' = s /\ answer' = "ok" /\ Pay(cost)
     \/ disk' = disk /\ answer' = "error" /\ Pay(cost + 1)

\* Mutant: a failing save goes unnoticed.
SettleUnsaved(s, cost) ==
  /\ up' = up /\ mem' = s /\ answer' = "ok"
  /\ (disk' = s /\ Pay(cost)) \/ (disk' = disk /\ Pay(cost + 1))

\* The switch is set in memory, then the store is saved or the save fails.
Settle(s, cost) ==
  /\ up' = up /\ mem' = s
  /\ \/ disk' = s /\ answer' = "ok" /\ Pay(cost)
     \/ disk' = disk /\ answer' = "error" /\ Pay(cost + 1)

SetSsh(on) ==
  LET want == [mem EXCEPT !.ssh = on] IN
  /\ up
  /\ on => mem.list # "empty" /\ Covering(mem) = {}
  /\ \/ ApplyFails(want)
     \/ \E a \in Applied(want) :
          \/ (on => a.got.knock) /\ Load(want, a.got) /\ Settle(want, a.cost)
          \/ \* knock refused: restore the table of the settings in force
             /\ on /\ ~a.got.knock
             /\ answer' = "error" /\ UNCHANGED <<up, mem, disk>>
             /\ \/ \E b \in Applied(mem) : Load(mem, b.got) /\ Pay(a.cost + b.cost)
                \/ \E n \in ApplyFailure(mem) :
                     /\ Pay(a.cost + n)
                     /\ kern' = TableOf(want, a.got) /\ live' = a.got /\ torn' = TRUE

SetForward(on) ==
  LET want == [mem EXCEPT !.fwd = on] IN
  /\ up
  /\ \/ ApplyFails(want)
     \/ \E a \in Applied(want) :
          /\ Load(want, a.got)
          /\ \/ (on => a.got.gate) /\ Settle(want, a.cost)
             \/ on /\ ~a.got.gate /\ answer' = "error" /\ Pay(a.cost) /\ UNCHANGED <<up, mem, disk>>

\* What loads beside the ports is not looked at.
SetPorts(ports) ==
  LET want == [mem EXCEPT !.pub = ports] IN
  \/ ApplyFails(want)
  \/ \E a \in Applied(want) : Load(want, a.got) /\ Settle(want, a.cost)

\* Mutant: the new port is not compared with the SSH switch.
AddPortUnchecked(p) == up /\ p \notin mem.pub /\ SetPorts(mem.pub \cup {p})

AddPort(p) ==
  /\ up /\ p \notin mem.pub
  /\ mem.ssh => p \notin SshPorts
  /\ SetPorts(mem.pub \cup {p})

RemovePort(p) == up /\ p \in mem.pub /\ SetPorts(mem.pub \ {p})

-----------------------------------------------------------------------------
\* Everything else that touches the store or the table

\* Calls and expiry change the allowlist and save; they never look at switches.
ChangeList(l) ==
  /\ up /\ l # mem.list
  /\ mem' = [mem EXCEPT !.list = l]
  /\ \/ disk' = mem' /\ Pay(0)
     \/ disk' = disk /\ Pay(1)
  /\ SameTable /\ UNCHANGED <<up, answer>>

\* Another component saves the store.
SaveStore ==
  /\ up /\ disk' = mem
  /\ SameTable /\ UNCHANGED <<up, mem, answer, faults>>

\* The reconcile thread could not read the kernel and rebuilds the table.
Rebuild ==
  /\ up
  /\ \E a \in Applied(mem) : Load(mem, a.got) /\ Pay(1 + a.cost)
  /\ UNCHANGED <<up, mem, disk, answer>>

\* Start: load the store and rebuild the table; failing that, try again later.
Boot ==
  /\ ~up /\ up' = TRUE
  /\ mem' = disk
  /\ \E a \in Applied(disk) : Load(disk, a.got) /\ Pay(a.cost)
  /\ UNCHANGED <<disk, answer>>

\* The process dies; with the host the table goes too.
Crash ==
  /\ up /\ up' = FALSE /\ Pay(1)
  /\ kern' \in {kern, NoTable}
  /\ UNCHANGED <<mem, disk, live, torn, answer>>

-----------------------------------------------------------------------------
Fresh == [ssh |-> FALSE, fwd |-> FALSE, pub |-> {}, list |-> "empty"]

Init ==
  /\ up = FALSE /\ mem = Fresh /\ disk = Fresh /\ kern = NoTable
  /\ live = [knock |-> FALSE, gate |-> FALSE]
  /\ torn = FALSE /\ answer = "none" /\ faults = 0

SettingsCall ==
  \/ \E on \in BOOLEAN : SetSsh(on) \/ SetForward(on)
  \/ \E p \in Ports : AddPort(p) \/ RemovePort(p)

Next ==
  \/ SettingsCall
  \/ \E l \in Lists : ChangeList(l)
  \/ SaveStore \/ Rebuild \/ Boot \/ Crash

Spec == Init /\ [][Next]_vars

-----------------------------------------------------------------------------
\* Properties

TypeOK ==
  /\ up \in BOOLEAN /\ mem \in Settings /\ disk \in Settings
  /\ kern \in Tables \cup {NoTable} /\ live \in Features
  /\ torn \in BOOLEAN /\ answer \in {"none", "ok", "error"}
  /\ faults \in 0..MaxFaults

\* The two places SSH exposure can be set never contradict each other, in
\* memory, on disk or in the kernel: while SSH is for the allowlist only, no
\* port range a client made public covers the port of sshd.
NoMootAllowlist ==
  /\ mem.ssh => Covering(mem) = {}
  /\ disk.ssh => Covering(disk) = {}
  /\ kern # NoTable /\ kern.ssh => kern.pub \cap SshPorts = {}

\* Degrading, rebuilding and restarting never open a port or drop a restriction
\* by themselves: unless undoing a refused switch failed, the table is the one
\* of the settings in force, less at most the optional features.
KernelFollowsStore ==
  up /\ ~torn =>
    /\ kern # NoTable
    /\ kern.ssh = mem.ssh /\ kern.pub = ConfigPorts \cup mem.pub
    /\ kern.gate => mem.fwd
    /\ kern.knock => mem.ssh

\* A restriction of SSH in force stays in force even when a restore failed.
ClosedStaysClosed == up /\ mem.ssh => kern # NoTable /\ kern.ssh

\* The settings report the gate and the knock exactly as the kernel has them.
LiveHonest == up => live = [knock |-> kern.knock, gate |-> kern.gate]

\* Store, kernel and report agree, as far as they can after a failed restore.
KernelTruthful == KernelFollowsStore /\ ClosedStaysClosed /\ LiveHonest

\* A settings call answered "ok" is durable: whatever else is saved or fails to
\* be saved afterwards, a restart comes back with the same switches and ports,
\* until another settings call changes them.
AckedSettingsLast ==
  answer = "ok" => disk.ssh = mem.ssh /\ disk.fwd = mem.fwd /\ disk.pub = mem.pub
==============================================================================
