--------------------------- MODULE ForwardConsole ---------------------------
(***************************************************************************)
(* Console commands on forwards: forward-add, forward-rm, dnat-migrate.    *)
(* Each is a process with a copy of state.json of its own, which it writes *)
(* back twice: when it has changed the rules, and with the addresses it    *)
(* has put into the native table, which it rewrites whole.  The service    *)
(* has a copy too, in memory, and knows nothing of the commands.           *)
(*                                                                         *)
(* The service's own calls and threads interleave in module Forwarding;    *)
(* here a call of it is one step.  Ports are ranges <<first, last>>; a     *)
(* destination is an address, or a name with the address it resolves to.   *)
(***************************************************************************)
EXTENDS Naturals, FiniteSets

CONSTANTS
  Consoles,   \* processes of console commands
  ForwardRequests, \* forwards asked for: [iface, listen, dest, host]
  ToolLines,  \* rules dnat may hold: [iface, listen, dest, host]
  Default,    \* interface of the default route
  NoIface,    \* no interface asked for
  MaxIds,    \* bound: identifiers of rules given out
  MaxActs,    \* bound: commands, starts and calls of the service, changes of dnat's user
  MaxSlips    \* bound: failing saves, applies and removals, dying commands

ASSUME ConsoleOK ==
  /\ NoIface # Default /\ \A d \in ToolLines : d.iface # NoIface
  /\ \A q \in ForwardRequests \cup ToolLines : q.listen \in Nat \X Nat /\ q.dest \in Nat \X Nat
  /\ MaxIds \in Nat /\ MaxActs \in Nat /\ MaxSlips \in Nat

VARIABLES
  serving,   \* the service runs
  memRules,  \* rules in its memory
  diskRules, \* rules in state.json
  table,     \* rules in the native table
  hashed,    \* what its resolve thread last put there: {} or {rules}
  present,   \* the adapter for dnat is enabled
  tool,      \* rules in dnat's configuration
  cmd,       \* per console process, the command under way
  ids, acts, slips,
  given,     \* history: rules of commands that nobody met, not taken back since
  keys,      \* history: <<iface, listen>> forwarded at first, not taken back
  met,       \* history: a command met the service or another command
  excused    \* history: dnat's rules that came late, or that share ports with
             \* one whose migration was begun; never cleared

fwd == <<serving, memRules, diskRules, table, hashed>>
fwdHistory == <<given, keys, met, excused>>
fconVars == <<fwd, present, tool, cmd, ids, acts, slips, fwdHistory>>

Rules == [id : 1..MaxIds, q : ForwardRequests \cup ToolLines]

\* Mutant: ranges that share their last port only do not overlap.
OverlapsInside(a, b) == a[1] < b[2] /\ b[1] < a[2]

Overlaps(a, b) == a[1] <= b[2] /\ b[1] <= a[2]
Eff(iface) == IF iface = NoIface THEN Default ELSE iface
SharePorts(p, q) == Eff(p.iface) = Eff(q.iface) /\ Overlaps(p.listen, q.listen)

-----------------------------------------------------------------------------
\* Checks of a request

\* validate_ports
Fits(q) ==
  /\ q.listen[1] <= q.listen[2] /\ q.dest[1] <= q.dest[2]
  /\ q.dest[1] = q.dest[2] \/ q.listen[2] - q.listen[1] = q.dest[2] - q.dest[1]

\* parse_port_range, which only commands go through
Parses(q) == q.listen[1] # 0 /\ q.dest[1] # 0 /\ q.listen[1] <= q.listen[2] /\ q.dest[1] <= q.dest[2]

\* forbidden_forward_target: addresses of metadata services, loopback, link-local,
\* "this network", broadcast, multicast.
ForbiddenTarget(ip) ==
  \/ ip \in {<<100, 100, 100, 200>>, <<100, 100, 100, 136>>}
  \/ ip[1] \in {0, 127} \cup (224..239)
  \/ ip[1] = 169 /\ ip[2] = 254
  \/ ip = <<255, 255, 255, 255>>

\* The destination of a request is there; an address, and an interface's name,
\* have to be sound.
Sound(q) ==
  /\ Fits(q) /\ q.host.ip # <<>> /\ q.iface # "odd"
  /\ ~q.host.name => ~ForbiddenTarget(q.host.ip)

\* Ports dnat listens on are refused.
Clashes(q) == present /\ \E d \in tool : SharePorts(q, d)

\* add_forward of the store: a rule on the same interface and ports is replaced.
Replaced(rules, q) == {r \in rules : r.q.iface = q.iface /\ r.q.listen = q.listen}

\* Mutant: whatever shares a port is replaced.
AddedOver(rules, r) == {s \in rules : ~SharePorts(s.q, r.q)} \cup {r}

Added(rules, r) == (rules \ Replaced(rules, r.q)) \cup {r}

\* Mutant: what a name resolves to is not checked.
ResolvedUnchecked(rules, answers) == {r \in rules : r.q.host.name => answers}

\* What the table gets of the rules: names resolve or do not, and what they
\* resolve to is checked like an address.
Resolved(rules, answers) ==
  {r \in rules : (r.q.host.name => answers) /\ ~ForbiddenTarget(r.q.host.ip)}

-----------------------------------------------------------------------------
\* Commands

Act == acts < MaxActs /\ acts' = acts + 1
Slip == slips < MaxSlips /\ slips' = slips + 1
NoSlip == slips' = slips

Nobody == [does |-> "nothing", step |-> "idle", q |-> CHOOSE q \in ForwardRequests : TRUE, id |-> 0,
           copy |-> {}, alone |-> FALSE]
Busy(c) == cmd[c].step # "idle"
Alone(c) == ~serving /\ \A d \in Consoles \ {c} : ~Busy(d)
Begins(c, does, q, id) ==
  /\ ~Busy(c) /\ Act
  /\ cmd' = [d \in Consoles |->
       IF d = c THEN [Nobody EXCEPT !.does = does, !.step = "load", !.q = q, !.id = id, !.alone = Alone(c)]
       ELSE [cmd[d] EXCEPT !.alone = FALSE]]
  /\ met' = (met \/ ~Alone(c))
EndsCommand(c) == cmd' = [cmd EXCEPT ![c] = Nobody]
Moves(c, step) == cmd' = [cmd EXCEPT ![c].step = step]

\* forward-add, once it has passed the checks
ForwardAdd(c, q) ==
  /\ Parses(q) /\ Sound(q) /\ ~Clashes(q) /\ Begins(c, "add", q, 0)
  /\ UNCHANGED <<fwd, present, tool, ids, slips, given, keys, excused>>

ForwardRm(c, id) ==
  /\ Begins(c, "rm", Nobody.q, id)
  /\ UNCHANGED <<fwd, present, tool, ids, slips, given, keys, excused>>

\* dnat-migrate finds the rule; a mapping that native forwards do not have is refused.
DnatMigrate(c, d) ==
  /\ d \in tool /\ Fits(d) /\ Begins(c, "migrate", d, 0)
  /\ excused' = excused \cup {e \in ToolLines : SharePorts(e, d)}
  /\ UNCHANGED <<fwd, present, tool, ids, slips, given, keys>>

\* The copy is loaded and changed; a migration looks for native rules in the way.
LoadCopy(c) ==
  /\ cmd[c].step = "load"
  /\ LET q == cmd[c].q
         r == [id |-> ids + 1, q |-> q]
     IN \/ /\ cmd[c].does = "add" \/ (cmd[c].does = "migrate" /\ \A s \in diskRules : ~SharePorts(s.q, q))
           /\ ids < MaxIds /\ ids' = ids + 1
           /\ cmd' = [cmd EXCEPT ![c].step = "save", ![c].id = ids', ![c].copy = Added(diskRules, r)]
        \/ /\ cmd[c].does = "migrate" /\ \E s \in diskRules : SharePorts(s.q, q)
           /\ EndsCommand(c) /\ ids' = ids
        \/ /\ cmd[c].does = "rm" /\ ids' = ids
           /\ IF \E s \in diskRules : s.id = cmd[c].id
              THEN cmd' = [cmd EXCEPT ![c].step = "save", ![c].copy = {s \in diskRules : s.id # cmd[c].id}]
              ELSE EndsCommand(c)
  /\ UNCHANGED <<fwd, present, tool, slips, fwdHistory, acts>>

\* What the write of a command takes back: what it was asked to.
TakenBack(c) == IF cmd[c].does = "rm" THEN {r \in diskRules : r.id = cmd[c].id}
                ELSE Replaced(diskRules, cmd[c].q)
Key(r) == <<Eff(r.q.iface), r.q.listen>>

SaveCopy(c) ==
  /\ cmd[c].step = "save"
  /\ \/ /\ diskRules' = cmd[c].copy /\ NoSlip /\ Moves(c, "apply")
        /\ given' = (given \ TakenBack(c))
             \cup (IF cmd[c].alone THEN {r \in cmd[c].copy : r.id = cmd[c].id} ELSE {})
        /\ keys' = IF cmd[c].does = "rm" THEN keys \ {Key(r) : r \in TakenBack(c)} ELSE keys
     \/ diskRules' = diskRules /\ Slip /\ EndsCommand(c) /\ UNCHANGED <<given, keys>>
  /\ UNCHANGED <<serving, memRules, table, hashed, present, tool, ids, met, excused, acts>>

\* apply_now: the table from the copy, then the addresses with the copy once more.
\* A migration goes on when its rule is among them, else it takes it back.
ApplyCopy(c) ==
  /\ cmd[c].step = "apply"
  /\ \/ \E answers \in BOOLEAN :
          /\ table' = Resolved(cmd[c].copy, answers) /\ NoSlip
          /\ cmd' = [cmd EXCEPT ![c].step = "again",
                                ![c].does = IF @ = "migrate" /\ \A r \in table' : r.id # cmd[c].id
                                            THEN "undo" ELSE @]
     \/ table' = table /\ Slip /\ EndsCommand(c)
  /\ UNCHANGED <<serving, memRules, diskRules, hashed, present, tool, ids, fwdHistory, acts>>

\* A failure of the second save is ignored.
SaveAgain(c) ==
  /\ cmd[c].step = "again"
  /\ (diskRules' = cmd[c].copy /\ NoSlip) \/ (diskRules' = diskRules /\ Slip)
  /\ CASE cmd[c].does = "migrate" -> Moves(c, "retire")
       [] cmd[c].does = "undo" -> Moves(c, "undo")
       [] OTHER -> EndsCommand(c)
  /\ UNCHANGED <<serving, memRules, table, hashed, present, tool, ids, fwdHistory, acts>>

\* The migrated rule did not resolve: out with it, as far as it goes.
UndoAdd(c) ==
  /\ cmd[c].step = "undo"
  /\ LET copy == {r \in cmd[c].copy : r.id # cmd[c].id}
     IN /\ (diskRules' = copy /\ NoSlip) \/ (diskRules' = diskRules /\ Slip)
        /\ cmd' = [cmd EXCEPT ![c].does = "undone", ![c].copy = copy, ![c].step = "apply"]
  /\ given' = {r \in given : r.id # cmd[c].id}
  /\ UNCHANGED <<serving, memRules, table, hashed, present, tool, ids, keys, met, excused, acts>>

\* Mutant: dnat's rules on these ports go, whatever their interface.
RetirePorts(c) ==
  /\ cmd[c].step = "retire" /\ EndsCommand(c)
  /\ \/ NoSlip /\ tool' = {d \in tool : d.listen # cmd[c].q.listen}
     \/ tool' = tool /\ Slip
  /\ UNCHANGED <<fwd, present, ids, fwdHistory, acts>>

\* It did: dnat's rule goes (module DnatConf).
Retire(c) ==
  /\ cmd[c].step = "retire" /\ EndsCommand(c)
  /\ \/ /\ NoSlip
        /\ tool' = {d \in tool : d.iface # cmd[c].q.iface \/ d.listen # cmd[c].q.listen}
     \/ tool' = tool /\ Slip
  /\ UNCHANGED <<fwd, present, ids, fwdHistory, acts>>

\* The console is interrupted.
CommandDies(c) ==
  /\ Busy(c) /\ Slip /\ EndsCommand(c)
  /\ UNCHANGED <<fwd, present, tool, ids, fwdHistory, acts>>

CommandStep(c) ==
  LoadCopy(c) \/ SaveCopy(c) \/ ApplyCopy(c) \/ SaveAgain(c) \/ UndoAdd(c) \/ Retire(c) \/ CommandDies(c)

-----------------------------------------------------------------------------
\* The service

ServiceStarts ==
  /\ ~serving /\ Act /\ serving' = TRUE /\ memRules' = diskRules /\ diskRules' = diskRules
  /\ \E answers \in BOOLEAN : table' = Resolved(memRules', answers)
  /\ hashed' = {}
  /\ cmd' = [c \in Consoles |-> [cmd[c] EXCEPT !.alone = FALSE]]
  /\ met' = (met \/ \E c \in Consoles : Busy(c))
  /\ UNCHANGED <<present, tool, ids, slips, given, keys, excused>>

ServiceStops ==
  /\ serving /\ serving' = FALSE /\ memRules' = {} /\ hashed' = {}
  /\ UNCHANGED <<diskRules, table, present, tool, cmd, ids, slips, fwdHistory, acts>>

\* A call changes the rules: memory, disk and table follow the service's copy.
ServiceSaves(rules, back) ==
  /\ serving /\ Act /\ memRules' = rules /\ diskRules' = rules
  /\ \E answers \in BOOLEAN : table' = Resolved(rules, answers)
  /\ given' = given \ back
  /\ UNCHANGED <<serving, hashed, present, tool, cmd, slips, met, excused>>

\* Ports are not looked at for 0 here.
ServiceAdds(q) ==
  /\ Sound(q) /\ ~Clashes(q) /\ ids < MaxIds /\ ids' = ids + 1 /\ keys' = keys
  /\ ServiceSaves(Added(memRules, [id |-> ids', q |-> q]), Replaced(memRules, q))

ServiceRemoves(r) ==
  /\ ServiceSaves(memRules \ {r}, {r}) /\ keys' = keys \ {Key(r)} /\ ids' = ids

\* Any other call that saves the store.
ServiceSavesOther ==
  /\ serving /\ diskRules # memRules /\ diskRules' = memRules
  /\ UNCHANGED <<serving, memRules, table, hashed, present, tool, cmd, ids, slips, fwdHistory, acts>>

\* The resolve thread: a table is written, and the store saved, only when it
\* differs from the one this thread wrote last; what a command put there stays.
ServiceResolves ==
  \E answers \in BOOLEAN :
    LET found == Resolved(memRules, answers)
    IN /\ serving /\ hashed # {found}
       /\ table' = found /\ hashed' = {found} /\ diskRules' = memRules
       /\ UNCHANGED <<serving, memRules, present, tool, cmd, ids, slips, fwdHistory, acts>>

\* The user of dnat
ToolChanges ==
  Act /\ \/ \E d \in ToolLines \ tool : tool' = tool \cup {d} /\ excused' = excused \cup {d} /\ keys' = keys
         \/ \E d \in tool : tool' = tool \ {d} /\ keys' = keys \ {<<d.iface, d.listen>>} /\ excused' = excused

FInit ==
  /\ serving = FALSE /\ memRules = {} /\ diskRules = {} /\ table = {} /\ hashed = {}
  /\ present \in BOOLEAN /\ tool \in SUBSET ToolLines
  /\ cmd = [c \in Consoles |-> Nobody] /\ ids = 0 /\ acts = 0 /\ slips = 0
  /\ given = {} /\ keys = {<<d.iface, d.listen>> : d \in tool} /\ met = FALSE /\ excused = {}

FNext ==
  \/ \E c \in Consoles :
       \/ \E q \in ForwardRequests : ForwardAdd(c, q)
       \/ (\E id \in 1..ids : ForwardRm(c, id)) \/ (\E d \in ToolLines : DnatMigrate(c, d))
       \/ CommandStep(c)
  \/ ServiceStarts \/ ServiceStops \/ ServiceSavesOther \/ ServiceResolves
  \/ (\E q \in ForwardRequests : ServiceAdds(q)) \/ (\E r \in memRules : ServiceRemoves(r))
  \/ ToolChanges /\ UNCHANGED <<fwd, present, cmd, ids, slips, given, met>>

FSpec == FInit /\ [][FNext]_fconVars

-----------------------------------------------------------------------------
\* Properties

Listens(q) == q.listen[1]..q.listen[2]

FTypeOK ==
  /\ serving \in BOOLEAN /\ present \in BOOLEAN /\ met \in BOOLEAN
  /\ \A rules \in {memRules, diskRules, table, given} : rules \subseteq Rules
  /\ tool \subseteq ToolLines /\ excused \subseteq ToolLines
  /\ ids \in 0..MaxIds /\ acts \in 0..MaxActs /\ slips \in 0..MaxSlips
  /\ \A r \in diskRules \cup memRules : Sound(r.q) \/ r.q \in ToolLines
  /\ \A r \in table : Fits(r.q) /\ ~ForbiddenTarget(r.q.host.ip)

\* "For use while the service does not run": a rule whose command met neither the
\* service nor another command is on disk, and in the service's memory once it
\* runs, until somebody takes it back or replaces it, whatever later commands do.
CommandsKept == \A r \in given : r \in diskRules /\ (serving => r \in memRules)

\* Wherever dnat-migrate fails or is interrupted, a forward nobody takes back is
\* on disk, dnat's or the agent's, as long as no command has met the service or
\* another command; one that has can lose it.
MigratedKept ==
  ~met => \A k \in keys :
    (\E d \in tool : <<d.iface, d.listen>> = k) \/ \E r \in diskRules : Key(r) = k

\* What a command on forwards did lasts, and none of its failures costs a forward.
ForwardsKept == CommandsKept /\ MigratedKept

\* "No port has two authorities" (forward_add_cli, check_forward_request): while
\* the adapter is there, a rule of the agent shares ports with one of dnat only
\* where dnat's user has added it since, or where a migration of it, or of one that
\* shares ports with it, was begun, also if that failed or was undone.
OneAuthority ==
  present => \A r \in diskRules \cup memRules, d \in tool :
    Eff(r.q.iface) = d.iface /\ Listens(r.q) \cap Listens(d) # {} => d \in excused
==============================================================================
