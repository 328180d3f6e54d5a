------------------------ MODULE ForwardConsoleProofs -------------------------
(***************************************************************************)
(* That what a command on forwards did lasts, that none of its failures    *)
(* costs a forward, and that no port has two authorities, for any number   *)
(* of commands beside the service and any requests.                        *)
(*                                                                         *)
(* All three are about diskRules, which a command overwrites with a copy   *)
(* it took earlier.  Their inductive invariants therefore say of every     *)
(* copy on the way what the property says of the file, up to what the      *)
(* command is about to take back, and who else can be at work meanwhile.   *)
(***************************************************************************)
EXTENDS MCConsoles, ExposureProofs, TLAPS

Requests == ForwardRequests \cup ToolLines
Cmds == [does : {"nothing", "add", "rm", "migrate", "undo", "undone"},
         step : {"idle", "load", "save", "apply", "again", "undo", "retire"},
         q : Requests \cup {Nobody.q}, id : Nat, copy : SUBSET Rules, alone : BOOLEAN]

Saved == {"apply", "again", "undo", "retire"}
Mine(m) == [id |-> m.id, q |-> m.q]

FTypes ==
  /\ serving \in BOOLEAN /\ met \in BOOLEAN /\ ids \in 0..MaxIds
  /\ memRules \in SUBSET Rules /\ diskRules \in SUBSET Rules /\ given \in SUBSET Rules
  /\ tool \in SUBSET ToolLines
  /\ cmd \in [Consoles -> Cmds]

\* What a command m does at which step.
Doing(m) ==
  /\ m.step # "idle" /\ m.does # "rm" => m.q \in Requests
  /\ m.step \in {"load", "save"} => m.does \in {"add", "rm", "migrate"}
  /\ m.step # "idle" => m.does # "nothing"
  /\ m.step = "undo" => m.does = "undo"
  /\ m.does = "undo" => m.step \in {"again", "undo"}
  /\ m.step = "retire" => m.does = "migrate"
  /\ m.does \in {"migrate", "undo"} => m.q \in ToolLines

\* A command that is alone is so until it ends.
AloneLasts ==
  \A c \in Consoles : cmd[c].alone =>
    ~serving /\ \A d \in Consoles \ {c} : ~Busy(d)

\* What the command is to take back of a rule r: see TakenBack.
Takes(m, r) == IF m.does = "rm" THEN r.id = m.id
               ELSE r.q.iface = m.q.iface /\ r.q.listen = m.q.listen

\* The copy of m has the rules in g, all but what m is about to take back.
Keeps(m, g) ==
  /\ m.step = "save" => \A r \in g : r \in m.copy \/ Takes(m, r)
  /\ m.step \in Saved => g \subseteq m.copy

KeptInv ==
  /\ FTypes /\ AloneLasts /\ CommandsKept
  /\ \A c \in Consoles : Doing(cmd[c]) /\ Keeps(cmd[c], given)

-----------------------------------------------------------------------------
\* Identifiers are given out once: a copy has one rule of its command, the one asked for.
Owns(m) ==
  m.step = "save" \/ m.step \in Saved =>
    /\ \A r \in m.copy : r.id <= ids
    /\ m.does \in {"add", "migrate", "undo"} => \A r \in m.copy : r.id = m.id => r = Mine(m)
    /\ m.does = "migrate" => Mine(m) \in m.copy

OwnRules ==
  /\ \A r \in diskRules \cup memRules : r.id <= ids
  /\ \A c \in Consoles : Owns(cmd[c])

\* The key k is forwarded by dnat, or by a rule among these.
InTool(k) == \E d \in tool : <<d.iface, d.listen>> = k
Covers(rules, k) == InTool(k) \/ \E r \in rules : Key(r) = k
Own(m) == <<m.q.iface, m.q.listen>>

\* What holds of a command m that is alone: its copy has all that is forwarded, up to
\* what it is to take back, and dnat has a forward until a rule for it is saved.
Waits(m) ==
  /\ m.step = "save" => \A k \in keys :
       Covers(m.copy, k) \/ (m.does = "rm" /\ \E r \in diskRules : r.id = m.id /\ Key(r) = k)
  /\ m.step \in Saved => \A k \in keys : Covers(m.copy, k)
  /\ m.step # "idle" /\ m.does \in {"migrate", "undo"} => (Own(m) \in keys => InTool(Own(m)))
  /\ m.step \in Saved /\ m.does = "migrate" => Mine(m) \in diskRules

\* As long as no command has met anybody:
NobodyMet ==
  /\ serving => memRules = diskRules
  /\ \A k \in keys : Covers(diskRules, k)
  /\ \A c \in Consoles : Waits(cmd[c]) /\ (Busy(c) => cmd[c].alone)

ForwardsInv == KeptInv /\ OwnRules /\ (~met => NobodyMet)

-----------------------------------------------------------------------------
\* Only excused rules of dnat share ports with q.
Apart(q) == \A d \in tool : SharePorts(q, d) => d \in excused

\* A command's copy and what it asks for clash with dnat as little as the rules do.
Parted(m) ==
  /\ \A r \in m.copy : Apart(r.q)
  /\ m.step # "idle" /\ m.does # "rm" => Apart(m.q)

ApartInv ==
  present =>
    /\ \A r \in diskRules \cup memRules : Apart(r.q)
    /\ \A c \in Consoles : Parted(cmd[c])

-----------------------------------------------------------------------------
\* How a command moves

Rest(c) == \A d \in Consoles \ {c} : cmd'[d] = cmd[d]

\* The fields of a command that does nothing.
LEMMA NobodyFacts ==
  /\ Nobody \in Cmds /\ Nobody.step = "idle" /\ Nobody.does = "nothing"
  /\ Nobody.copy = {} /\ Nobody.alone = FALSE
<1>1. /\ Nobody.step = "idle" /\ Nobody.does = "nothing" /\ Nobody.id = 0
      /\ Nobody.copy = {} /\ Nobody.alone = FALSE
  BY DEF Nobody
<1>2. Nobody = [does |-> "nothing", step |-> "idle", q |-> Nobody.q, id |-> 0, copy |-> {},
                alone |-> FALSE]
  BY DEF Nobody
<1> HIDE DEF Nobody
<1>3. \A q : [does |-> "nothing", step |-> "idle", q |-> q, id |-> 0, copy |-> {}, alone |-> FALSE]
               \in [does : {"nothing", "add", "rm", "migrate", "undo", "undone"},
                    step : {"idle", "load", "save", "apply", "again", "undo", "retire"},
                    q : Requests \cup {q}, id : Nat, copy : SUBSET Rules, alone : BOOLEAN]
  OBVIOUS
<1> DEFINE literal == [does |-> "nothing", step |-> "idle", q |-> Nobody.q, id |-> 0,
                       copy |-> {}, alone |-> FALSE]
<1>4. literal \in Cmds BY <1>3 DEF Cmds
<1>5. literal = Nobody BY <1>2
<1> HIDE DEF literal
<1>6. Nobody \in Cmds BY <1>4, <1>5
<1> QED BY <1>1, <1>6

\* A command that has begun has nothing yet; who is under way is alone no more.
Begun(c, does, q, id) ==
  /\ ~Busy(c) /\ met' = (met \/ ~Alone(c)) /\ cmd' \in [Consoles -> Cmds]
  /\ cmd'[c].does = does /\ cmd'[c].step = "load" /\ cmd'[c].q = q /\ cmd'[c].id = id
  /\ cmd'[c].copy = {} /\ cmd'[c].alone = Alone(c)
  /\ \A d \in Consoles \ {c} :
       /\ cmd'[d].does = cmd[d].does /\ cmd'[d].step = cmd[d].step
       /\ cmd'[d].q = cmd[d].q /\ cmd'[d].id = cmd[d].id /\ cmd'[d].copy = cmd[d].copy
       /\ cmd'[d].alone = FALSE

\* The fields of a command that begins.
LEMMA BeginFacts ==
  ASSUME FTypes, NEW c \in Consoles, NEW does \in {"add", "rm", "migrate"},
         NEW q \in Requests \cup {Nobody.q}, NEW id \in Nat, Begins(c, does, q, id)
  PROVE  Begun(c, does, q, id)
<1> DEFINE new == [Nobody EXCEPT !.does = does, !.step = "load", !.q = q, !.id = id,
      !.alone = Alone(c)]
<1>1. cmd' = [d \in Consoles |-> IF d = c THEN new ELSE [cmd[d] EXCEPT !.alone = FALSE]]
  BY DEF Begins
<1>2. /\ new.does = does /\ new.step = "load" /\ new.q = q /\ new.id = id /\ new.copy = {}
      /\ new.alone = Alone(c)
  BY DEF Nobody
<1>3. Alone(c) \in BOOLEAN BY DEF Alone
<1>4. new \in Cmds BY <1>3, NobodyFacts DEF Cmds
<1>5. \A d \in Consoles : [cmd[d] EXCEPT !.alone = FALSE] \in Cmds
  BY DEF FTypes, Cmds
<1> HIDE DEF new
<1>6. cmd' \in [Consoles -> Cmds] BY <1>1, <1>4, <1>5
<1>7. cmd'[c] = new BY <1>1
<1>8. \A d \in Consoles \ {c} : cmd'[d] = [cmd[d] EXCEPT !.alone = FALSE] BY <1>1
<1>9. ~Busy(c) /\ met' = (met \/ ~Alone(c)) BY DEF Begins
<1>10. \A d \in Consoles \ {c} :
              /\ cmd'[d].does = cmd[d].does /\ cmd'[d].step = cmd[d].step
              /\ cmd'[d].q = cmd[d].q /\ cmd'[d].id = cmd[d].id /\ cmd'[d].copy = cmd[d].copy
              /\ cmd'[d].alone = FALSE
  <2> TAKE d \in Consoles \ {c}
  <2>1. cmd[d] \in Cmds /\ cmd'[d] = [cmd[d] EXCEPT !.alone = FALSE] BY <1>8 DEF FTypes
  <2> QED BY <2>1 DEF Cmds
<1> QED BY <1>2, <1>6, <1>7, <1>9, <1>10 DEF Begun

\* The fields of a command that ends.
LEMMA EndFacts ==
  ASSUME FTypes, NEW c \in Consoles, EndsCommand(c)
  PROVE  cmd' \in [Consoles -> Cmds] /\ cmd'[c] = Nobody /\ Rest(c)
BY NobodyFacts DEF EndsCommand, FTypes, Rest

\* Fields of a record that EXCEPT leaves alone.
LEMMA MoveFacts ==
  ASSUME FTypes, NEW c \in Consoles,
         NEW step \in {"idle", "load", "save", "apply", "again", "undo", "retire"}, Moves(c, step)
  PROVE  /\ cmd' \in [Consoles -> Cmds] /\ Rest(c)
         /\ cmd'[c].step = step /\ cmd'[c].does = cmd[c].does /\ cmd'[c].q = cmd[c].q
         /\ cmd'[c].id = cmd[c].id /\ cmd'[c].copy = cmd[c].copy /\ cmd'[c].alone = cmd[c].alone
<1>1. cmd[c] \in Cmds BY DEF FTypes
<1>2. [cmd[c] EXCEPT !.step = step] \in Cmds BY <1>1 DEF Cmds
<1>3. cmd' = [cmd EXCEPT ![c] = [cmd[c] EXCEPT !.step = step]] BY DEF Moves
<1>4. cmd' \in [Consoles -> Cmds] BY <1>2, <1>3 DEF FTypes
<1>5. cmd'[c] = [cmd[c] EXCEPT !.step = step] /\ Rest(c) BY <1>3 DEF FTypes, Rest
<1> QED BY <1>1, <1>4, <1>5 DEF Cmds

\* The other steps of a command set what it does, its rule and its copy at once.
Sets(c, step, does, id, copy) ==
  cmd' = [cmd EXCEPT ![c] =
    [cmd[c] EXCEPT !.step = step, !.does = does, !.id = id, !.copy = copy]]
AreSet(c, step, does, id, copy) ==
  /\ cmd' \in [Consoles -> Cmds] /\ Rest(c)
  /\ cmd'[c].step = step /\ cmd'[c].does = does /\ cmd'[c].q = cmd[c].q
  /\ cmd'[c].id = id /\ cmd'[c].copy = copy /\ cmd'[c].alone = cmd[c].alone

\* The command at c after a step that replaces it; the others stay.
LEMMA SetFacts ==
  ASSUME FTypes, NEW c \in Consoles,
         NEW step \in {"save", "apply", "again"},
         NEW does \in {"add", "rm", "migrate", "undo", "undone"},
         NEW id \in Nat, NEW copy \in SUBSET Rules,
         Sets(c, step, does, id, copy)
  PROVE  AreSet(c, step, does, id, copy)
<1> DEFINE new == [cmd[c] EXCEPT !.step = step, !.does = does, !.id = id, !.copy = copy]
<1>1. cmd[c] \in Cmds BY DEF FTypes
<1>2. new \in Cmds BY <1>1 DEF Cmds
<1>3. cmd' \in [Consoles -> Cmds] BY <1>2 DEF FTypes, Sets
<1>4. cmd'[c] = new /\ Rest(c) BY DEF FTypes, Rest, Sets
<1> QED BY <1>1, <1>3, <1>4 DEF Cmds, AreSet

-----------------------------------------------------------------------------
\* A command's step keeps the invariant if it does at c.
LEMMA CommandKeeps ==
  ASSUME KeptInv, NEW c \in Consoles, Busy(c), Rest(c), serving' = serving, FTypes',
         Doing(cmd'[c]), cmd'[c].alone => cmd[c].alone, Keeps(cmd'[c], given'),
         given' \subseteq given \/ cmd[c].alone, CommandsKept'
  PROVE  KeptInv'
<1>1. \A d \in Consoles \ {c} : cmd'[d] = cmd[d] BY DEF Rest
<1>2. AloneLasts'
  <2>1. ASSUME NEW d \in Consoles, cmd'[d].alone
        PROVE  ~serving' /\ \A e \in Consoles \ {d} : ~Busy(e)'
    <3>1. CASE d = c
      BY <1>1, <2>1, <3>1 DEF KeptInv, AloneLasts, Busy
    <3>2. CASE d # c
      BY <1>1, <2>1, <3>2 DEF KeptInv, AloneLasts, Busy
    <3> QED BY <3>1, <3>2
  <2> QED BY <2>1 DEF AloneLasts
<1>3. ASSUME NEW d \in Consoles PROVE Doing(cmd'[d]) /\ Keeps(cmd'[d], given')
  <2>1. CASE d # c
    <3>1. cmd'[d] = cmd[d] /\ Doing(cmd[d]) /\ Keeps(cmd[d], given) BY <1>1, <2>1 DEF KeptInv
    <3>2. CASE given' \subseteq given BY <3>1, <3>2 DEF Keeps
    <3>3. CASE cmd[c].alone
      <4>1. cmd[d].step = "idle" BY <2>1, <3>3 DEF KeptInv, AloneLasts, Busy
      <4> QED BY <3>1, <4>1 DEF Keeps, Saved
    <3> QED BY <3>2, <3>3
  <2> QED BY <2>1
<1> QED BY <1>2, <1>3 DEF KeptInv

\* So does a step of the service that leaves commands and dnat alone.
LEMMA ServiceKeeps ==
  ASSUME KeptInv, cmd' = cmd, serving' => serving, FTypes', given' \subseteq given, CommandsKept'
  PROVE  KeptInv'
<1>1. AloneLasts' BY DEF KeptInv, AloneLasts, Busy
<1>2. \A c \in Consoles : Doing(cmd'[c]) /\ Keeps(cmd'[c], given') BY DEF KeptInv, Keeps
<1> QED BY <1>1, <1>2 DEF KeptInv

\* A command that begins holds no copy yet.
LEMMA BeginKeeps ==
  ASSUME KeptInv, NEW c \in Consoles, NEW does \in {"add", "rm", "migrate"},
         NEW q \in Requests \cup {Nobody.q}, NEW id \in Nat, Begins(c, does, q, id),
         does # "rm" => q \in Requests, does = "migrate" => q \in ToolLines,
         UNCHANGED <<fwd, ids, given>>, tool' = tool
  PROVE  KeptInv'
<1>0. FTypes BY DEF KeptInv
<1>1. Begun(c, does, q, id) BY <1>0, BeginFacts
<1>2. FTypes' BY <1>0, <1>1 DEF Begun, FTypes, fwd, Alone
<1>3. AloneLasts' BY <1>1 DEF Begun,  AloneLasts, Alone, Busy, fwd
<1>4. CommandsKept' BY DEF KeptInv, CommandsKept, fwd
<1>5. Doing(cmd'[c]) /\ Keeps(cmd'[c], given') BY <1>1 DEF Begun, Doing, Keeps, Saved
<1>6. ASSUME NEW d \in Consoles, d # c PROVE Doing(cmd'[d]) /\ Keeps(cmd'[d], given')
  <2>1. Doing(cmd[d]) /\ Keeps(cmd[d], given) BY DEF KeptInv
  <2> QED BY <1>1, <1>6, <2>1 DEF Begun, Doing, Keeps, Takes
<1> QED BY <1>2, <1>3, <1>4, <1>5, <1>6 DEF KeptInv

\* The rules a step may put on disk.
LEMMA AddedFacts ==
  ASSUME NEW rules \in SUBSET Rules, NEW q \in Requests, NEW i \in 1..MaxIds
  PROVE  /\ [id |-> i, q |-> q] \in Rules /\ Added(rules, [id |-> i, q |-> q]) \in SUBSET Rules
         /\ \A r \in rules : r \in Added(rules, [id |-> i, q |-> q])
              \/ (r.q.iface = q.iface /\ r.q.listen = q.listen)
         /\ \A r \in Added(rules, [id |-> i, q |-> q]) : r \in rules \/ r = [id |-> i, q |-> q]
         /\ [id |-> i, q |-> q] \in Added(rules, [id |-> i, q |-> q])
BY DEF Rules, Added, Replaced, Requests

\* What the loading step makes of a command.
LEMMA LoadSets ==
  ASSUME KeptInv, NEW c \in Consoles, LoadCopy(c)
  PROVE  \/ EndsCommand(c) /\ ids' = ids
         \/ /\ cmd[c].does \in {"add", "migrate"} /\ ids' = ids + 1 /\ ids' \in 1..MaxIds
            /\ Sets(c, "save", cmd[c].does, ids', Added(diskRules, [id |-> ids', q |-> cmd[c].q]))
         \/ /\ cmd[c].does = "rm" /\ ids' = ids
            /\ Sets(c, "save", "rm", cmd[c].id, {s \in diskRules : s.id # cmd[c].id})
<1>1. cmd[c] \in Cmds /\ ids \in 0..MaxIds /\ MaxIds \in Nat BY ConsoleOK DEF KeptInv, FTypes
<1> DEFINE r == [id |-> ids + 1, q |-> cmd[c].q]
<1>2. CASE /\ cmd[c].does \in {"add", "migrate"} /\ ids < MaxIds /\ ids' = ids + 1
           /\ cmd' = [cmd EXCEPT ![c].step = "save", ![c].id = ids',
                ![c].copy = Added(diskRules, r)]
  <2>1. [cmd[c] EXCEPT !.step = "save", !.id = ids', !.copy = Added(diskRules, r)]
          = [cmd[c] EXCEPT !.step = "save", !.does = cmd[c].does, !.id = ids',
            !.copy = Added(diskRules, r)]
    BY <1>1 DEF Cmds
  <2>2. cmd' = [cmd EXCEPT ![c] = [cmd[c] EXCEPT !.step = "save", !.id = ids',
                                                 !.copy = Added(diskRules, r)]]
    BY <1>2
  <2>3. ids' \in 1..MaxIds BY <1>1, <1>2
  <2>4. r = [id |-> ids', q |-> cmd[c].q] BY <1>2
  <2> HIDE DEF r
  <2> QED BY <1>2, <2>1, <2>2, <2>3, <2>4 DEF Sets
<1>3. CASE EndsCommand(c) /\ ids' = ids BY <1>3
<1>4. CASE /\ cmd[c].does = "rm" /\ ids' = ids
           /\ cmd' = [cmd EXCEPT ![c].step = "save", 
                               ![c].copy = {s \in diskRules : s.id # cmd[c].id}]
  <2> DEFINE copy == {s \in diskRules : s.id # cmd[c].id}
  <2>1. [cmd[c] EXCEPT !.step = "save", !.copy = copy]
          = [cmd[c] EXCEPT !.step = "save", !.does = cmd[c].does, !.id = cmd[c].id, !.copy = copy]
    BY <1>1 DEF Cmds
  <2>2. cmd' = [cmd EXCEPT ![c] = [cmd[c] EXCEPT !.step = "save", !.copy = copy]] BY <1>4
  <2> QED BY <1>4, <2>1, <2>2 DEF Sets
<1> QED BY <1>2, <1>3, <1>4 DEF LoadCopy

\* What the applying step makes of a command.
LEMMA ApplySets ==
  ASSUME KeptInv, NEW c \in Consoles, ApplyCopy(c)
  PROVE  \/ EndsCommand(c)
         \/ \E does \in {"add", "rm", "migrate", "undo", "undone"} :
              /\ Sets(c, "again", does, cmd[c].id, cmd[c].copy)
              /\ does = cmd[c].does \/ (does = "undo" /\ cmd[c].does = "migrate")
<1>1. cmd[c] \in Cmds BY DEF KeptInv, FTypes
<1> DEFINE does == IF cmd[c].does = "migrate" /\ \A r \in table' : r.id # cmd[c].id
                   THEN "undo" ELSE cmd[c].does
<1>2. CASE cmd' = [cmd EXCEPT ![c].step = "again", ![c].does = does]
  <2>1. [cmd[c] EXCEPT !.step = "again", !.does = does]
          = [cmd[c] EXCEPT !.step = "again", !.does = does, !.id = cmd[c].id, !.copy = cmd[c].copy]
    BY <1>1 DEF Cmds
  <2>2. cmd' = [cmd EXCEPT ![c] = [cmd[c] EXCEPT !.step = "again", !.does = does]] BY <1>2
  <2>3. cmd[c].does # "nothing"
    BY DEF KeptInv, Doing, ApplyCopy
  <2>4. does \in {"add", "rm", "migrate", "undo", "undone"} BY <1>1, <2>3 DEF Cmds
  <2>5. does = cmd[c].does \/ (does = "undo" /\ cmd[c].does = "migrate") OBVIOUS
  <2> HIDE DEF does
  <2> QED BY <2>1, <2>2, <2>4, <2>5 DEF Sets
<1> QED BY <1>2 DEF ApplyCopy

\* A step of a command keeps the first invariant.
LEMMA KeptCommand == ASSUME KeptInv, NEW c \in Consoles, CommandStep(c) PROVE KeptInv'
<1>0. FTypes /\ Doing(cmd[c]) /\ Keeps(cmd[c], given) /\ CommandsKept /\ cmd[c] \in Cmds
  BY DEF KeptInv, FTypes
<1>1. Doing(Nobody) /\ \A g : Keeps(Nobody, g) BY NobodyFacts DEF Doing, Keeps, Saved
<1>2. CASE CommandDies(c)
  <2>1. Busy(c) /\ EndsCommand(c) /\ UNCHANGED <<fwd, tool, ids, fwdHistory>>
    BY <1>2 DEF CommandDies
  <2> USE <2>1 DEF fwd, fwdHistory
  <2>2. cmd' \in [Consoles -> Cmds] /\ cmd'[c] = Nobody /\ Rest(c) BY <1>0, EndFacts
  <2>3. FTypes' BY <1>0, <2>2 DEF FTypes
  <2>4. CommandsKept' BY <1>0 DEF CommandsKept
  <2> QED BY <1>1, <2>2, <2>3, <2>4, CommandKeeps, NobodyFacts
<1>3. CASE Retire(c)
  <2>1. Busy(c) /\ EndsCommand(c) /\ UNCHANGED <<fwd, ids, fwdHistory>> /\ tool' \subseteq tool
    BY <1>3 DEF Retire, Busy
  <2> USE <2>1 DEF fwd, fwdHistory
  <2>2. cmd' \in [Consoles -> Cmds] /\ cmd'[c] = Nobody /\ Rest(c) BY <1>0, EndFacts
  <2>3. FTypes' BY <1>0, <2>2 DEF FTypes
  <2>4. CommandsKept' BY <1>0 DEF CommandsKept
  <2> QED BY <1>1, <2>2, <2>3, <2>4, CommandKeeps, NobodyFacts
<1>4. CASE LoadCopy(c)
  <2>1. Busy(c) /\ UNCHANGED <<fwd, tool, fwdHistory>> BY <1>4 DEF LoadCopy, Busy
  <2> USE <2>1 DEF fwd, fwdHistory
  <2>2. CommandsKept' BY <1>0 DEF CommandsKept
  <2>3. CASE EndsCommand(c) /\ ids' = ids
    <3>1. cmd' \in [Consoles -> Cmds] /\ cmd'[c] = Nobody /\ Rest(c) BY <1>0, <2>3, EndFacts
    <3>2. FTypes' BY <1>0, <2>3, <3>1 DEF FTypes
    <3> QED BY <1>1, <2>2, <3>1, <3>2, CommandKeeps, NobodyFacts
  <2>4. ASSUME NEW i \in Nat, NEW copy \in SUBSET Rules, ids' \in 0..MaxIds,
               cmd[c].does \in {"add", "rm", "migrate"},
               Sets(c, "save", cmd[c].does, i, copy),
               \A r \in diskRules : r \in copy \/ (IF cmd[c].does = "rm" THEN r.id = i
                 ELSE r.q.iface = cmd[c].q.iface /\ r.q.listen = cmd[c].q.listen)
        PROVE  KeptInv'
    <3> USE DEF AreSet
    <3>1. AreSet(c, "save", cmd[c].does, i, copy) BY <1>0, <2>4, SetFacts
    <3>2. FTypes' BY <1>0, <2>4, <3>1 DEF FTypes
    <3>3. Doing(cmd'[c]) BY <1>0, <1>4, <2>4, <3>1 DEF Doing, LoadCopy
    <3>4. Keeps(cmd'[c], given') BY <1>0, <2>4, <3>1 DEF Keeps, Takes, CommandsKept, Saved
    <3> QED BY <2>2, <3>1, <3>2, <3>3, <3>4, CommandKeeps
  <2>5. CASE /\ cmd[c].does \in {"add", "migrate"} /\ ids' = ids + 1 /\ ids' \in 1..MaxIds
             /\ Sets(c, "save", cmd[c].does, ids', Added(diskRules, [id |-> ids', q |-> cmd[c].q]))
    <3>1. cmd[c].q \in Requests BY <1>0, <1>4, <2>5 DEF Doing, LoadCopy
    <3> DEFINE copy == Added(diskRules, [id |-> ids', q |-> cmd[c].q])
    <3>2. /\ copy \in SUBSET Rules
          /\ \A r \in diskRules :
               r \in copy \/ (r.q.iface = cmd[c].q.iface /\ r.q.listen = cmd[c].q.listen)
      BY <1>0, <2>5, <3>1, AddedFacts DEF FTypes
    <3>3. ids' \in Nat /\ ids' \in 0..MaxIds BY <2>5, ConsoleOK
    <3>4. cmd[c].does \in {"add", "rm", "migrate"} /\ cmd[c].does # "rm" BY <2>5
    <3> HIDE DEF copy
    <3>5. Sets(c, "save", cmd[c].does, ids', copy) BY <2>5 DEF copy
    <3> QED BY <2>4, <3>2, <3>3, <3>4, <3>5
  <2>6. CASE /\ cmd[c].does = "rm" /\ ids' = ids
             /\ Sets(c, "save", "rm", cmd[c].id, {s \in diskRules : s.id # cmd[c].id})
    <3> DEFINE copy == {s \in diskRules : s.id # cmd[c].id}
    <3>1. copy \in SUBSET Rules /\ ids' \in 0..MaxIds /\ cmd[c].id \in Nat
      BY <1>0, <2>6 DEF FTypes, Cmds
    <3>2. \A r \in diskRules : r \in copy \/ r.id = cmd[c].id OBVIOUS
    <3>3. cmd[c].does \in {"add", "rm", "migrate"} BY <2>6
    <3>4. Sets(c, "save", cmd[c].does, cmd[c].id, copy) BY <2>6
    <3> HIDE DEF copy
    <3> QED BY <2>4, <2>6, <3>1, <3>2, <3>3, <3>4
  <2> QED BY <1>4, <2>3, <2>5, <2>6, LoadSets
<1>5. CASE SaveCopy(c)
  <2>1. /\ Busy(c) /\ cmd[c].step = "save" /\ UNCHANGED <<serving, memRules, tool, ids, met>>
        /\ cmd[c].does \in {"add", "rm", "migrate"}
    BY <1>0, <1>5 DEF SaveCopy, Busy, Doing
  <2>2. CASE diskRules' = diskRules /\ EndsCommand(c) /\ given' = given
    <3>1. cmd' \in [Consoles -> Cmds] /\ cmd'[c] = Nobody /\ Rest(c) BY <1>0, <2>2, EndFacts
    <3>2. FTypes' BY <1>0, <2>1, <2>2, <3>1 DEF FTypes
    <3>3. CommandsKept' BY <1>0, <2>1, <2>2 DEF CommandsKept
    <3> QED BY <1>1, <2>1, <2>2, <3>1, <3>2, <3>3, CommandKeeps, NobodyFacts
  <2>3. CASE /\ diskRules' = cmd[c].copy /\ Moves(c, "apply")
             /\ given' = (given \ TakenBack(c))
                  \cup (IF cmd[c].alone THEN {r \in cmd[c].copy : r.id = cmd[c].id} ELSE {})
    <3>1. /\ cmd' \in [Consoles -> Cmds] /\ Rest(c)
          /\ cmd'[c].step = "apply" /\ cmd'[c].does = cmd[c].does /\ cmd'[c].q = cmd[c].q
          /\ cmd'[c].id = cmd[c].id /\ cmd'[c].copy = cmd[c].copy /\ cmd'[c].alone = cmd[c].alone
      BY <1>0, <2>3, MoveFacts
    <3>2. cmd[c].copy \in SUBSET Rules BY <1>0 DEF Cmds
    <3>3. given' \subseteq cmd[c].copy
      BY <1>0, <2>1, <2>3 DEF Keeps, Takes, TakenBack, Replaced, CommandsKept
    <3>4. given' \subseteq given \/ cmd[c].alone BY <2>3
    <3>5. cmd[c].alone => ~serving BY DEF KeptInv, AloneLasts
    <3>6. FTypes' BY <1>0, <2>1, <2>3, <3>1, <3>2, <3>3 DEF FTypes
    <3>7. CommandsKept'
      <4>1. \A r \in given' : r \in diskRules' BY <2>3, <3>3
      <4>2. ASSUME serving, NEW r \in given' PROVE r \in memRules
        BY <1>0, <2>3, <3>5, <4>2 DEF CommandsKept
      <4> QED BY <2>1, <4>1, <4>2 DEF CommandsKept
    <3>8. Doing(cmd'[c]) /\ Keeps(cmd'[c], given') BY <1>0, <2>1, <3>1, <3>3 DEF Doing, Keeps
    <3> QED BY <2>1, <3>1, <3>4, <3>6, <3>7, <3>8, CommandKeeps
  <2> QED BY <1>5, <2>2, <2>3 DEF SaveCopy
<1>6. CASE ApplyCopy(c)
  <2>1. Busy(c) /\ cmd[c].step = "apply"
          /\ UNCHANGED <<serving, memRules, diskRules, tool, ids, fwdHistory>>
    BY <1>6 DEF ApplyCopy, Busy
  <2> USE <2>1 DEF fwdHistory
  <2>2. CommandsKept' BY <1>0 DEF CommandsKept
  <2>3. CASE EndsCommand(c)
    <3>1. cmd' \in [Consoles -> Cmds] /\ cmd'[c] = Nobody /\ Rest(c) BY <1>0, <2>3, EndFacts
    <3>2. FTypes' BY <1>0, <3>1 DEF FTypes
    <3> QED BY <1>1, <2>2, <3>1, <3>2, CommandKeeps, NobodyFacts
  <2>4. ASSUME NEW does \in {"add", "rm", "migrate", "undo", "undone"},
               Sets(c, "again", does, cmd[c].id, cmd[c].copy),
               does = cmd[c].does \/ (does = "undo" /\ cmd[c].does = "migrate")
        PROVE  KeptInv'
    <3>1. cmd[c].id \in Nat /\ cmd[c].copy \in SUBSET Rules BY <1>0 DEF Cmds
    <3> USE DEF AreSet
    <3>2. AreSet(c, "again", does, cmd[c].id, cmd[c].copy) BY <1>0, <2>4, <3>1, SetFacts
    <3>3. FTypes' BY <1>0, <3>2 DEF FTypes
    <3>4. Doing(cmd'[c]) BY <1>0, <2>4, <3>2 DEF Doing
    <3>5. Keeps(cmd'[c], given') BY <1>0, <3>2 DEF Keeps, Saved
    <3> QED BY <2>2, <3>2, <3>3, <3>4, <3>5, CommandKeeps
  <2> QED BY <1>6, <2>3, <2>4, ApplySets
<1>7. CASE SaveAgain(c)
  <2>1. /\ Busy(c) /\ cmd[c].step = "again"
             /\ UNCHANGED <<serving, memRules, tool, ids, fwdHistory>>
        /\ diskRules' \in {diskRules, cmd[c].copy}
    BY <1>7 DEF SaveAgain, Busy
  <2> USE <2>1 DEF fwdHistory
  <2>2. cmd[c].copy \in SUBSET Rules /\ given \subseteq cmd[c].copy BY <1>0 DEF Cmds, Keeps, Saved
  <2>3. CommandsKept' BY <1>0, <2>2 DEF CommandsKept
  <2>4. CASE EndsCommand(c)
    <3>1. cmd' \in [Consoles -> Cmds] /\ cmd'[c] = Nobody /\ Rest(c) BY <1>0, <2>4, EndFacts
    <3>2. FTypes' BY <1>0, <2>2, <3>1 DEF FTypes
    <3> QED BY <1>1, <2>3, <3>1, <3>2, CommandKeeps, NobodyFacts
  <2>5. ASSUME NEW step \in {"retire", "undo"}, Moves(c, step),
               cmd[c].does = IF step = "retire" THEN "migrate" ELSE "undo"
        PROVE  KeptInv'
    <3>1. /\ cmd' \in [Consoles -> Cmds] /\ Rest(c)
          /\ cmd'[c].step = step /\ cmd'[c].does = cmd[c].does /\ cmd'[c].q = cmd[c].q
          /\ cmd'[c].id = cmd[c].id /\ cmd'[c].copy = cmd[c].copy /\ cmd'[c].alone = cmd[c].alone
      BY <1>0, <2>5, MoveFacts
    <3>2. FTypes' BY <1>0, <2>2, <3>1 DEF FTypes
    <3>3. Doing(cmd'[c]) BY <1>0, <2>5, <3>1 DEF Doing
    <3>4. Keeps(cmd'[c], given') BY <2>2, <3>1 DEF Keeps
    <3> QED BY <2>3, <3>1, <3>2, <3>3, <3>4, CommandKeeps
  <2> QED BY <1>7, <2>4, <2>5 DEF SaveAgain
<1>8. CASE UndoAdd(c)
  <2> DEFINE copy == {r \in cmd[c].copy : r.id # cmd[c].id}
  <2>1. /\ Busy(c) /\ cmd[c].step = "undo" /\ UNCHANGED <<serving, memRules, tool, ids, met>>
        /\ diskRules' \in {diskRules, copy} /\ given' = {r \in given : r.id # cmd[c].id}
    BY <1>8 DEF UndoAdd, Busy
  <2>2. /\ copy \in SUBSET Rules /\ given' \subseteq copy /\ given' \subseteq given
        /\ cmd[c].id \in Nat
    BY <1>0, <2>1 DEF Cmds, Keeps, Saved
  <2>3. Sets(c, "apply", "undone", cmd[c].id, copy)
    <3>1. [cmd[c] EXCEPT !.does = "undone", !.copy = copy, !.step = "apply"]
            = [cmd[c] EXCEPT !.step = "apply", !.does = "undone", !.id = cmd[c].id, !.copy = copy]
      BY <1>0 DEF Cmds
    <3>2. cmd' = [cmd EXCEPT ![c] = [cmd[c] EXCEPT !.does = "undone", !.copy = copy,
            !.step = "apply"]]
      BY <1>8 DEF UndoAdd
    <3> QED BY <3>1, <3>2 DEF Sets
  <2> HIDE DEF copy
  <2> USE DEF AreSet
  <2>4. AreSet(c, "apply", "undone", cmd[c].id, copy) BY <1>0, <2>2, <2>3, SetFacts
  <2>5. FTypes' BY <1>0, <2>1, <2>2, <2>4 DEF FTypes
  <2>6. CommandsKept' BY <1>0, <2>1, <2>2 DEF CommandsKept
  <2>7. Doing(cmd'[c]) BY <1>0, <2>1, <2>4 DEF Doing
  <2>8. Keeps(cmd'[c], given') BY <2>2, <2>4 DEF Keeps
  <2> QED BY <2>1, <2>2, <2>4, <2>5, <2>6, <2>7, <2>8, CommandKeeps
<1> QED BY <1>2, <1>3, <1>4, <1>5, <1>6, <1>7, <1>8 DEF CommandStep

\* A command that begins; what it is asked to.
BeginsSome(c) ==
  \E does \in {"add", "rm", "migrate"}, q \in Requests \cup {Nobody.q}, id \in Nat :
    /\ Begins(c, does, q, id)
    /\ does # "rm" => q \in Requests
    /\ does = "add" => ~Clashes(q)
    /\ does = "migrate" => q \in tool
    /\ does = "migrate" => {e \in ToolLines : SharePorts(e, q)} \subseteq excused'
    /\ excused \subseteq excused'
    /\ UNCHANGED <<fwd, present, tool, ids, given, keys>>

\* So do the beginnings of commands.
LEMMA Beginnings ==
  ASSUME ids \in Nat, NEW c \in Consoles,
         \/ \E q \in ForwardRequests : ForwardAdd(c, q)
         \/ (\E id \in 1..ids : ForwardRm(c, id)) \/ (\E d \in ToolLines : DnatMigrate(c, d))
  PROVE  BeginsSome(c)
<1>1. ASSUME NEW q \in ForwardRequests, ForwardAdd(c, q) PROVE BeginsSome(c)
  <2>1. q \in Requests \cup {Nobody.q} /\ q \in Requests BY DEF Requests
  <2>2. /\ Begins(c, "add", q, 0) /\ ~Clashes(q) /\ excused' = excused
        /\ UNCHANGED <<fwd, present, tool, ids, given, keys>>
    BY <1>1 DEF ForwardAdd
  <2> QED BY <2>1, <2>2 DEF BeginsSome
<1>2. ASSUME NEW id \in 1..ids, ForwardRm(c, id) PROVE BeginsSome(c)
  <2>1. Begins(c, "rm", Nobody.q, id) /\ id \in Nat /\ excused' = excused
        /\ UNCHANGED <<fwd, present, tool, ids, given, keys>>
    BY <1>2 DEF ForwardRm
  <2> QED BY <2>1 DEF BeginsSome
<1>3. ASSUME NEW d \in ToolLines, DnatMigrate(c, d) PROVE BeginsSome(c)
  <2>1. d \in Requests \cup {Nobody.q} /\ d \in Requests BY DEF Requests
  <2>2. /\ Begins(c, "migrate", d, 0) /\ d \in tool
        /\ excused' = excused \cup {e \in ToolLines : SharePorts(e, d)}
        /\ UNCHANGED <<fwd, present, tool, ids, given, keys>>
    BY <1>3 DEF DnatMigrate
  <2> QED BY <2>1, <2>2 DEF BeginsSome
<1> QED BY <1>1, <1>2, <1>3

ServiceRuns ==
  \/ ServiceStops \/ ServiceSavesOther \/ ServiceResolves
  \/ (\E q \in ForwardRequests : ServiceAdds(q)) \/ (\E r \in memRules : ServiceRemoves(r))

\* So does the service when it starts.
LEMMA KeptStarts == ASSUME KeptInv, ServiceStarts PROVE KeptInv'
<1>1. FTypes /\ CommandsKept BY DEF KeptInv
<1>2. /\ serving' = TRUE /\ memRules' = diskRules /\ diskRules' = diskRules
      /\ met' = (met \/ \E c \in Consoles : Busy(c)) /\ tool' = tool /\ ids' = ids /\ given' = given
      /\ cmd' = [c \in Consoles |-> [cmd[c] EXCEPT !.alone = FALSE]]
  BY DEF ServiceStarts
<1>3. ASSUME NEW c \in Consoles
      PROVE  /\ cmd'[c] \in Cmds /\ cmd'[c].alone = FALSE
             /\ cmd'[c].does = cmd[c].does /\ cmd'[c].step = cmd[c].step
             /\ cmd'[c].q = cmd[c].q /\ cmd'[c].id = cmd[c].id /\ cmd'[c].copy = cmd[c].copy
  <2>1. cmd[c] \in Cmds /\ cmd'[c] = [cmd[c] EXCEPT !.alone = FALSE] BY <1>1, <1>2 DEF FTypes
  <2> QED BY <2>1 DEF Cmds
<1>4. cmd' \in [Consoles -> Cmds] BY <1>2, <1>3
<1>5. FTypes' BY <1>1, <1>2, <1>4 DEF FTypes
<1>6. AloneLasts' BY <1>3 DEF AloneLasts
<1>7. CommandsKept' BY <1>1, <1>2 DEF CommandsKept
<1>8. ASSUME NEW c \in Consoles PROVE Doing(cmd'[c]) /\ Keeps(cmd'[c], given')
  <2>1. Doing(cmd[c]) /\ Keeps(cmd[c], given) BY DEF KeptInv
  <2> QED BY <1>2, <1>3, <2>1 DEF Doing, Keeps, Takes
<1> QED BY <1>5, <1>6, <1>7, <1>8 DEF KeptInv

\* So does the service while it runs.
LEMMA KeptService == ASSUME KeptInv, ServiceRuns PROVE KeptInv'
<1>0. FTypes /\ CommandsKept /\ MaxIds \in Nat BY ConsoleOK DEF KeptInv
<1>1. ASSUME NEW rules \in SUBSET Rules, NEW i \in 0..MaxIds, NEW back,
             ServiceSaves(rules, back), ids' = i, given \ back \subseteq rules
      PROVE  KeptInv'
  <2>1. /\ serving /\ serving' = serving /\ memRules' = rules /\ diskRules' = rules
        /\ given' = given \ back /\ tool' = tool /\ cmd' = cmd /\ met' = met
    BY <1>1 DEF ServiceSaves
  <2>2. FTypes' BY <1>0, <1>1, <2>1 DEF FTypes
  <2>3. CommandsKept' BY <1>1, <2>1 DEF CommandsKept
  <2> QED BY <2>1, <2>2, <2>3, ServiceKeeps
<1>2. CASE ServiceStops
  <2>1. serving' = FALSE /\ memRules' = {} /\ UNCHANGED <<diskRules, tool, cmd, ids, given, met>>
    BY <1>2 DEF ServiceStops, fwdHistory
  <2>2. FTypes' BY <1>0, <2>1 DEF FTypes
  <2>3. CommandsKept' BY <1>0, <2>1 DEF CommandsKept
  <2> QED BY <2>1, <2>2, <2>3, ServiceKeeps
<1>3. CASE ServiceSavesOther \/ ServiceResolves
  <2>1. serving /\ diskRules' = memRules
          /\ UNCHANGED <<serving, memRules, tool, cmd, ids, given, met>>
    BY <1>3 DEF ServiceSavesOther, ServiceResolves, fwdHistory
  <2>2. FTypes' BY <1>0, <2>1 DEF FTypes
  <2>3. CommandsKept' BY <1>0, <2>1 DEF CommandsKept
  <2> QED BY <2>1, <2>2, <2>3, ServiceKeeps
<1>4. ASSUME NEW q \in ForwardRequests, ServiceAdds(q) PROVE KeptInv'
  <2> DEFINE new == [id |-> ids', q |-> q]
  <2>1. ids' \in 1..MaxIds /\ ids' \in 0..MaxIds BY <1>0, <1>4 DEF ServiceAdds, FTypes
  <2>2. q \in Requests BY DEF Requests
  <2>3. /\ Added(memRules, new) \in SUBSET Rules
        /\ \A r \in memRules : r \in Added(memRules, new) \/ r \in Replaced(memRules, q)
    BY <1>0, <2>1, <2>2, AddedFacts DEF FTypes, Replaced
  <2>4. ServiceSaves(Added(memRules, new), Replaced(memRules, q)) BY <1>4 DEF ServiceAdds
  <2>5. given \subseteq memRules BY <1>0, <2>4 DEF ServiceSaves, CommandsKept
  <2>6. given \ Replaced(memRules, q) \subseteq Added(memRules, new) BY <2>3, <2>5
  <2> HIDE DEF new
  <2> QED BY <1>1, <2>1, <2>3, <2>4, <2>6
<1>5. ASSUME NEW r \in memRules, ServiceRemoves(r) PROVE KeptInv'
  <2>1. ServiceSaves(memRules \ {r}, {r}) /\ ids' = ids BY <1>5 DEF ServiceRemoves
  <2>2. given \subseteq memRules BY <1>0, <2>1 DEF ServiceSaves, CommandsKept
  <2>3. memRules \ {r} \in SUBSET Rules /\ ids \in 0..MaxIds /\ given \ {r} \subseteq memRules \ {r}
    BY <1>0, <2>2 DEF FTypes
  <2> QED BY <1>1, <2>1, <2>3
<1> QED BY <1>2, <1>3, <1>4, <1>5 DEF ServiceRuns

\* So does every step.
LEMMA KeptStep == KeptInv /\ [FNext]_fconVars => KeptInv'
<1> SUFFICES ASSUME KeptInv, [FNext]_fconVars PROVE KeptInv'
  OBVIOUS
<1>0. FTypes /\ CommandsKept BY DEF KeptInv
<1>1. ASSUME NEW c \in Consoles, BeginsSome(c) PROVE KeptInv'
  BY <1>0, <1>1, BeginKeeps DEF BeginsSome, FTypes
<1>2. ASSUME ToolChanges, UNCHANGED <<fwd, present, cmd, ids, slips, given, met>> PROVE KeptInv'
  <2>1. UNCHANGED <<serving, memRules, diskRules, cmd, ids, given, met>> BY <1>2 DEF fwd
  <2>2. tool' \in SUBSET ToolLines BY <1>0, <1>2 DEF ToolChanges, FTypes
  <2>3. FTypes' BY <1>0, <2>1, <2>2 DEF FTypes
  <2>4. CommandsKept' BY <1>0, <2>1 DEF CommandsKept
  <2> QED BY <2>1, <2>3, <2>4, ServiceKeeps
<1>3. CASE UNCHANGED fconVars
  <2>1. UNCHANGED <<serving, memRules, diskRules, tool, cmd, ids, given, met>>
    BY <1>3 DEF fconVars, fwd, fwdHistory
  <2>2. FTypes' BY <1>0, <2>1 DEF FTypes
  <2>3. CommandsKept' BY <1>0, <2>1 DEF CommandsKept
  <2> QED BY <2>1, <2>2, <2>3, ServiceKeeps
<1>4. ids \in Nat BY <1>0, ConsoleOK DEF FTypes
<1> QED
  BY <1>1, <1>2, <1>3, <1>4, Beginnings, KeptCommand, KeptStarts, KeptService DEF FNext, ServiceRuns

\* It holds at first.
LEMMA KeptInit == FInit => KeptInv
<1> SUFFICES ASSUME FInit PROVE KeptInv
  OBVIOUS
<1>1. FTypes
  <2>1. cmd \in [Consoles -> Cmds] BY NobodyFacts DEF FInit
  <2>2. ids \in 0..MaxIds BY ConsoleOK DEF FInit
  <2> QED BY <2>1, <2>2 DEF FInit, FTypes
<1>2. \A c \in Consoles : cmd[c] = Nobody BY DEF FInit
<1>3. AloneLasts BY <1>2, NobodyFacts DEF AloneLasts
<1>4. CommandsKept BY DEF FInit, CommandsKept
<1>5. \A c \in Consoles : Doing(cmd[c]) /\ Keeps(cmd[c], given)
  BY <1>2, NobodyFacts DEF Doing, Keeps, Saved
<1> QED BY <1>1, <1>3, <1>4, <1>5 DEF KeptInv

-----------------------------------------------------------------------------
\* Whose rule is whose

\* A step of c keeps the rules of every command its own if it does those of c.
LEMMA OwnOthers ==
  ASSUME FTypes, OwnRules, NEW c \in Consoles, Rest(c), ids' \in Nat, ids' >= ids,
         \A r \in (diskRules \cup memRules)' : r.id <= ids', Owns(cmd[c])'
  PROVE  OwnRules'
<1>1. ASSUME NEW d \in Consoles, d # c PROVE Owns(cmd[d])'
  <2>1. cmd'[d] = cmd[d] /\ Owns(cmd[d]) BY <1>1 DEF Rest, OwnRules
  <2>2. cmd[d].copy \in SUBSET Rules /\ ids \in Nat BY ConsoleOK DEF FTypes, Cmds
  <2>3. \A r \in cmd[d].copy : r.id \in Nat BY <2>2 DEF Rules
  <2> QED BY <2>1, <2>2, <2>3 DEF Owns, Mine
<1> QED BY <1>1 DEF OwnRules

\* A step of a command keeps rules its adder's own.
LEMMA OwnCommand == ASSUME KeptInv, OwnRules, NEW c \in Consoles, CommandStep(c) PROVE OwnRules'
<1>0. FTypes /\ Doing(cmd[c]) /\ cmd[c] \in Cmds /\ Owns(cmd[c]) /\ MaxIds \in Nat
  BY ConsoleOK DEF KeptInv, FTypes, OwnRules
<1>1. ids \in Nat /\ \A r \in Rules : r.id \in Nat BY <1>0 DEF FTypes, Rules
<1>2. /\ \A r \in diskRules \cup memRules : r \in Rules /\ r.id <= ids
      /\ cmd[c].copy \in SUBSET Rules /\ cmd[c].id \in Nat
  BY <1>0 DEF OwnRules, FTypes, Cmds
<1>3. ASSUME EndsCommand(c), diskRules' \in {diskRules, cmd[c].copy}, memRules' = memRules,
             ids' = ids, diskRules' = diskRules \/ cmd[c].step \in {"save"} \cup Saved
      PROVE  OwnRules'
  <2>1. cmd'[c] = Nobody /\ Rest(c) BY <1>0, <1>3, EndFacts
  <2>2. Owns(cmd[c])' BY <2>1, NobodyFacts DEF Owns, Saved
  <2>3. \A r \in (diskRules \cup memRules)' : r.id <= ids' BY <1>0, <1>2, <1>3 DEF Owns
  <2> QED BY <1>0, <1>1, <1>3, <2>1, <2>2, <2>3, OwnOthers
<1>4. CASE CommandDies(c) BY <1>3, <1>4 DEF CommandDies, fwd
<1>5. CASE Retire(c) BY <1>3, <1>5 DEF Retire, fwd
<1>6. CASE LoadCopy(c)
  <2>1. diskRules' = diskRules /\ memRules' = memRules /\ cmd[c].step = "load"
    BY <1>6 DEF LoadCopy, fwd
  <2>2. CASE EndsCommand(c) /\ ids' = ids BY <1>3, <2>1, <2>2
  <2>3. CASE /\ cmd[c].does \in {"add", "migrate"} /\ ids' = ids + 1 /\ ids' \in 1..MaxIds
             /\ Sets(c, "save", cmd[c].does, ids', Added(diskRules, [id |-> ids', q |-> cmd[c].q]))
    <3> DEFINE new == [id |-> ids', q |-> cmd[c].q]
               copy == Added(diskRules, new)
    <3>1. cmd[c].q \in Requests BY <1>0, <2>1, <2>3 DEF Doing
    <3>2. /\ copy \in SUBSET Rules /\ new \in copy
          /\ \A r \in copy : r \in diskRules \/ r = new
      <4>1. diskRules \in SUBSET Rules /\ ids' \in 1..MaxIds BY <1>0, <2>3 DEF FTypes
      <4>2. copy \in SUBSET Rules /\ new \in copy BY <3>1, <4>1, AddedFacts
      <4>3. \A r \in copy : r \in diskRules \/ r = new BY DEF Added
      <4> QED BY <4>2, <4>3
    <3>3. ids' \in Nat /\ new.id = ids' /\ ids' > ids BY <1>1, <2>3
    <3> HIDE DEF copy
    <3>4. Sets(c, "save", cmd[c].does, ids', copy) BY <2>3 DEF copy
    <3>5. AreSet(c, "save", cmd[c].does, ids', copy) BY <1>0, <2>3, <3>2, <3>3, <3>4, SetFacts
    <3>6. Mine(cmd[c])' = new BY <3>5 DEF AreSet, Mine
    <3> HIDE DEF new
    <3>7. \A r \in copy : r.id <= ids' /\ (r.id = ids' => r = new) BY <1>1, <1>2, <3>2, <3>3
    <3>8. Owns(cmd[c])' BY <3>2, <3>5, <3>6, <3>7 DEF AreSet, Owns
    <3>9. \A r \in (diskRules \cup memRules)' : r.id <= ids' BY <1>1, <1>2, <2>1, <3>3
    <3> QED BY <1>0, <1>1, <3>3, <3>5, <3>8, <3>9, OwnOthers DEF AreSet
  <2>4. CASE /\ cmd[c].does = "rm" /\ ids' = ids
             /\ Sets(c, "save", "rm", cmd[c].id, {s \in diskRules : s.id # cmd[c].id})
    <3> DEFINE copy == {s \in diskRules : s.id # cmd[c].id}
    <3>1. copy \in SUBSET Rules /\ \A r \in copy : r.id <= ids BY <1>0, <1>2 DEF FTypes
    <3>2. Sets(c, "save", "rm", cmd[c].id, copy) BY <2>4
    <3> HIDE DEF copy
    <3>3. AreSet(c, "save", "rm", cmd[c].id, copy) BY <1>0, <1>2, <3>1, <3>2, SetFacts
    <3>4. Owns(cmd[c])' BY <2>4, <3>1, <3>3 DEF AreSet, Owns
    <3>5. \A r \in (diskRules \cup memRules)' : r.id <= ids' BY <1>2, <2>1, <2>4
    <3> QED BY <1>0, <1>1, <2>4, <3>3, <3>4, <3>5, OwnOthers DEF AreSet
  <2> QED BY <1>6, <2>2, <2>3, <2>4, LoadSets
<1>7. CASE SaveCopy(c)
  <2>1. ids' = ids /\ memRules' = memRules /\ cmd[c].step = "save" BY <1>7 DEF SaveCopy
  <2>2. CASE diskRules' = diskRules /\ EndsCommand(c) BY <1>3, <2>1, <2>2
  <2>3. CASE diskRules' = cmd[c].copy /\ Moves(c, "apply")
    <3>1. /\ cmd' \in [Consoles -> Cmds] /\ Rest(c)
          /\ cmd'[c].step = "apply" /\ cmd'[c].does = cmd[c].does /\ cmd'[c].q = cmd[c].q
          /\ cmd'[c].id = cmd[c].id /\ cmd'[c].copy = cmd[c].copy /\ cmd'[c].alone = cmd[c].alone
      BY <1>0, <2>3, MoveFacts
    <3>2. Owns(cmd[c])' BY <1>0, <2>1, <3>1 DEF Owns, Mine
    <3>3. \A r \in (diskRules \cup memRules)' : r.id <= ids' BY <1>0, <1>2, <2>1, <2>3 DEF Owns
    <3> QED BY <1>0, <1>1, <2>1, <3>1, <3>2, <3>3, OwnOthers
  <2> QED BY <1>7, <2>2, <2>3 DEF SaveCopy
<1>8. CASE ApplyCopy(c)
  <2>1. ids' = ids /\ memRules' = memRules /\ diskRules' = diskRules /\ cmd[c].step = "apply"
    BY <1>8 DEF ApplyCopy
  <2>2. CASE EndsCommand(c) BY <1>3, <2>1, <2>2
  <2>3. ASSUME NEW does \in {"add", "rm", "migrate", "undo", "undone"},
               Sets(c, "again", does, cmd[c].id, cmd[c].copy),
               does = cmd[c].does \/ (does = "undo" /\ cmd[c].does = "migrate")
        PROVE  OwnRules'
    <3>1. AreSet(c, "again", does, cmd[c].id, cmd[c].copy) BY <1>0, <1>2, <2>3, SetFacts
    <3>2. Owns(cmd[c])' BY <1>0, <2>1, <2>3, <3>1 DEF Owns, Mine, AreSet, Saved
    <3>3. \A r \in (diskRules \cup memRules)' : r.id <= ids' BY <1>2, <2>1
    <3> QED BY <1>0, <1>1, <2>1, <3>1, <3>2, <3>3, OwnOthers DEF AreSet
  <2> QED BY <1>8, <2>2, <2>3, ApplySets
<1>9. CASE SaveAgain(c)
  <2>1. /\ ids' = ids /\ memRules' = memRules /\ cmd[c].step = "again"
        /\ diskRules' \in {diskRules, cmd[c].copy}
    BY <1>9 DEF SaveAgain
  <2>2. CASE EndsCommand(c) BY <1>3, <2>1, <2>2 DEF Saved
  <2>3. ASSUME NEW step \in {"retire", "undo"}, Moves(c, step) PROVE OwnRules'
    <3>1. /\ cmd' \in [Consoles -> Cmds] /\ Rest(c)
          /\ cmd'[c].step = step /\ cmd'[c].does = cmd[c].does /\ cmd'[c].q = cmd[c].q
          /\ cmd'[c].id = cmd[c].id /\ cmd'[c].copy = cmd[c].copy /\ cmd'[c].alone = cmd[c].alone
      BY <1>0, <2>3, MoveFacts
    <3>2. Owns(cmd[c])' BY <1>0, <2>1, <3>1 DEF Owns, Mine, Saved
    <3>3. \A r \in (diskRules \cup memRules)' : r.id <= ids'
      BY <1>0, <1>2, <2>1 DEF Owns, Saved
    <3> QED BY <1>0, <1>1, <2>1, <3>1, <3>2, <3>3, OwnOthers
  <2> QED BY <1>9, <2>2, <2>3 DEF SaveAgain
<1>10. CASE UndoAdd(c)
  <2> DEFINE copy == {r \in cmd[c].copy : r.id # cmd[c].id}
  <2>1. /\ ids' = ids /\ memRules' = memRules /\ cmd[c].step = "undo"
        /\ diskRules' \in {diskRules, copy}
        /\ cmd' = [cmd EXCEPT ![c] = [cmd[c] EXCEPT !.does = "undone", !.copy = copy,
             !.step = "apply"]]
    BY <1>10 DEF UndoAdd
  <2>2. copy \in SUBSET Rules /\ \A r \in copy : r.id <= ids
    BY <1>0, <1>2, <2>1 DEF Owns, Saved
  <2>3. Sets(c, "apply", "undone", cmd[c].id, copy)
    <3>1. [cmd[c] EXCEPT !.does = "undone", !.copy = copy, !.step = "apply"]
            = [cmd[c] EXCEPT !.step = "apply", !.does = "undone", !.id = cmd[c].id, !.copy = copy]
      BY <1>0 DEF Cmds
    <3> QED BY <2>1, <3>1 DEF Sets
  <2> HIDE DEF copy
  <2>4. AreSet(c, "apply", "undone", cmd[c].id, copy) BY <1>0, <1>2, <2>2, <2>3, SetFacts
  <2>5. Owns(cmd[c])' BY <2>1, <2>2, <2>4 DEF Owns, AreSet
  <2>6. \A r \in (diskRules \cup memRules)' : r.id <= ids' BY <1>2, <2>1, <2>2
  <2> QED BY <1>0, <1>1, <2>1, <2>4, <2>5, <2>6, OwnOthers DEF AreSet
<1> QED BY <1>4, <1>5, <1>6, <1>7, <1>8, <1>9, <1>10 DEF CommandStep

\* Every step does.
LEMMA OwnStep == ASSUME KeptInv, OwnRules, [FNext]_fconVars PROVE OwnRules'
<1>0. FTypes /\ MaxIds \in Nat BY ConsoleOK DEF KeptInv
<1>1. ids \in Nat /\ diskRules \in SUBSET Rules /\ memRules \in SUBSET Rules
      /\ \A r \in Rules : r.id \in Nat
  BY <1>0 DEF FTypes, Rules
<1>2. \A c \in Consoles : cmd[c].copy \in SUBSET Rules BY <1>0 DEF FTypes, Cmds
<1>3. ASSUME ids' \in Nat, ids' >= ids, \A r \in (diskRules \cup memRules)' : r.id <= ids',
             \A c \in Consoles : /\ cmd'[c].step = cmd[c].step /\ cmd'[c].does = cmd[c].does
                                 /\ cmd'[c].q = cmd[c].q /\ cmd'[c].id = cmd[c].id
                                 /\ cmd'[c].copy = cmd[c].copy
      PROVE  OwnRules'
  <2>1. ASSUME NEW c \in Consoles PROVE Owns(cmd[c])'
    <3>1. Owns(cmd[c]) BY DEF OwnRules
    <3>2. \A r \in cmd[c].copy : r.id \in Nat BY <1>1, <1>2
    <3> QED BY <1>1, <1>3, <3>1, <3>2 DEF Owns, Mine
  <2> QED BY <1>3, <2>1 DEF OwnRules
<1>4. ASSUME NEW c \in Consoles, BeginsSome(c) PROVE OwnRules'
  <2>1. PICK does \in {"add", "rm", "migrate"}, q \in Requests \cup {Nobody.q}, id \in Nat :
          Begins(c, does, q, id) /\ UNCHANGED <<fwd, ids>>
    BY <1>4 DEF BeginsSome
  <2>2. Begun(c, does, q, id) BY <1>0, <2>1, BeginFacts
  <2>3. ASSUME NEW d \in Consoles PROVE Owns(cmd[d])'
    <3>1. CASE d = c BY <2>2, <3>1 DEF Begun, Owns, Saved
    <3>2. CASE d # c BY <2>1, <2>2, <3>2 DEF Begun, Owns, Mine, OwnRules
    <3> QED BY <3>1, <3>2
  <2> QED BY <2>1, <2>3 DEF OwnRules, fwd
<1>5. CASE ServiceStarts
  <2>1. /\ ids' = ids /\ memRules' = diskRules /\ diskRules' = diskRules
        /\ cmd' = [c \in Consoles |-> [cmd[c] EXCEPT !.alone = FALSE]]
    BY <1>5 DEF ServiceStarts
  <2>2. ASSUME NEW c \in Consoles
        PROVE  /\ cmd'[c].step = cmd[c].step /\ cmd'[c].does = cmd[c].does
               /\ cmd'[c].q = cmd[c].q /\ cmd'[c].id = cmd[c].id /\ cmd'[c].copy = cmd[c].copy
    <3>1. cmd[c] \in Cmds /\ cmd'[c] = [cmd[c] EXCEPT !.alone = FALSE] BY <1>0, <2>1 DEF FTypes
    <3> QED BY <3>1 DEF Cmds
  <2> QED BY <1>1, <1>3, <2>1, <2>2 DEF OwnRules
<1>6. CASE ServiceRuns
  <2>1. cmd' = cmd /\ ids' \in {ids, ids + 1}
    <3>1. CASE ServiceStops \/ ServiceSavesOther \/ ServiceResolves
      BY <3>1 DEF ServiceStops, ServiceSavesOther, ServiceResolves
    <3>2. ASSUME NEW q \in ForwardRequests, ServiceAdds(q) PROVE <2>1!:
      BY <3>2 DEF ServiceAdds, ServiceSaves
    <3>3. ASSUME NEW r \in memRules, ServiceRemoves(r) PROVE <2>1!:
      BY <3>3 DEF ServiceRemoves, ServiceSaves
    <3> QED BY <1>6, <3>1, <3>2, <3>3 DEF ServiceRuns
  <2>2. \A r \in (diskRules \cup memRules)' : r.id <= ids'
    <3>1. CASE ServiceStops \/ ServiceSavesOther \/ ServiceResolves
      BY <3>1 DEF ServiceStops, ServiceSavesOther, ServiceResolves, OwnRules
    <3>2. ASSUME NEW q \in ForwardRequests, ServiceAdds(q) PROVE <2>2!:
      BY <1>1, <3>2 DEF ServiceAdds, ServiceSaves, Added, OwnRules
    <3>3. ASSUME NEW r \in memRules, ServiceRemoves(r) PROVE <2>2!:
      BY <3>3 DEF ServiceRemoves, ServiceSaves, OwnRules
    <3> QED BY <1>6, <3>1, <3>2, <3>3 DEF ServiceRuns
  <2>3. ids' \in Nat /\ ids' >= ids BY <1>1, <2>1
  <2> QED BY <1>3, <2>1, <2>2, <2>3
<1>7. ASSUME UNCHANGED <<fwd, cmd, ids>> PROVE OwnRules'
  BY <1>1, <1>3, <1>7 DEF fwd, OwnRules
<1>8. fconVars' = fconVars => OwnRules' BY <1>7 DEF fconVars
<1> QED BY <1>1, <1>4, <1>5, <1>6, <1>7, <1>8, Beginnings, OwnCommand DEF FNext, ServiceRuns

-----------------------------------------------------------------------------
\* No forward is lost

\* While nobody has met anyone, only the command at work has to be looked at.
LEMMA MetOthers ==
  ASSUME KeptInv, NobodyMet, NEW c \in Consoles, Busy(c), Rest(c), serving' = serving,
         cmd'[c].step = "idle" \/ cmd'[c].alone,
         (\A k \in keys : Covers(diskRules, k))', Waits(cmd[c])'
  PROVE  NobodyMet'
<1>1. cmd[c].alone BY DEF NobodyMet
<1>2. ~serving /\ \A d \in Consoles \ {c} : cmd[d].step = "idle"
  BY <1>1 DEF KeptInv, AloneLasts, Busy
<1>3. ASSUME NEW d \in Consoles, d # c PROVE Waits(cmd[d])' /\ ~Busy(d)'
  BY <1>2, <1>3 DEF Rest, Waits, Busy, Saved
<1> QED BY <1>2, <1>3 DEF NobodyMet, Busy

\* A step of a command keeps what holds as long as nobody has met.
LEMMA MetCommand ==
  ASSUME KeptInv, OwnRules, NobodyMet, NEW c \in Consoles, CommandStep(c)
  PROVE  NobodyMet'
<1>0. /\ FTypes /\ Doing(cmd[c]) /\ cmd[c] \in Cmds /\ Owns(cmd[c]) /\ Waits(cmd[c])
      /\ \A k \in keys : Covers(diskRules, k)
  BY DEF KeptInv, FTypes, OwnRules, NobodyMet
<1>1. cmd[c].copy \in SUBSET Rules /\ cmd[c].id \in Nat /\ (Busy(c) => cmd[c].alone)
  BY <1>0 DEF Cmds, NobodyMet
<1>2. Busy(c) /\ serving' = serving
  BY DEF CommandStep, CommandDies, Retire, LoadCopy, SaveCopy, ApplyCopy, SaveAgain, UndoAdd, Busy,
    fwd
<1>3. ASSUME EndsCommand(c), (\A k \in keys : Covers(diskRules, k))' PROVE NobodyMet'
  <2>1. cmd'[c] = Nobody /\ Rest(c) BY <1>0, <1>3, EndFacts
  <2>2. Waits(cmd[c])' BY <2>1, NobodyFacts DEF Waits, Saved
  <2> QED BY <1>2, <1>3, <2>1, <2>2, MetOthers, NobodyFacts
<1>5. CASE CommandDies(c)
  <2>1. EndsCommand(c) /\ diskRules' = diskRules /\ keys' = keys /\ tool' = tool
    BY <1>5 DEF CommandDies, fwd, fwdHistory
  <2>2. (\A k \in keys : Covers(diskRules, k))' BY <1>0, <2>1 DEF Covers, InTool, Key
  <2> QED BY <1>3, <2>1, <2>2
<1>6. CASE Retire(c)
  <2>1. /\ EndsCommand(c) /\ diskRules' = diskRules /\ keys' = keys /\ cmd[c].step = "retire"
        /\ tool' \in {tool, {d \in tool : d.iface # cmd[c].q.iface \/ d.listen # cmd[c].q.listen}}
    BY <1>6 DEF Retire, fwd, fwdHistory
  <2>2. Mine(cmd[c]) \in diskRules /\ cmd[c].q \in ToolLines
    BY <1>0, <2>1 DEF Waits, Saved, Doing
  <2>3. Key(Mine(cmd[c])) = Own(cmd[c]) BY <2>2, ConsoleOK DEF Key, Mine, Own, Eff
  <2>4. ASSUME NEW k \in keys PROVE Covers(diskRules, k)'
    <3>1. CASE \E r \in diskRules : Key(r) = k BY <2>1, <3>1 DEF Covers, Key
    <3>2. ASSUME NEW d \in tool, <<d.iface, d.listen>> = k PROVE Covers(diskRules, k)'
      <4>1. CASE d \in tool' BY <3>2, <4>1 DEF Covers, InTool
      <4>2. CASE d \notin tool'
        <5>1. k = Own(cmd[c]) BY <2>1, <3>2, <4>2 DEF Own
        <5> QED BY <2>1, <2>2, <2>3, <5>1 DEF Covers, Key
      <4> QED BY <4>1, <4>2
    <3> QED BY <1>0, <3>1, <3>2 DEF Covers, InTool
  <2> QED BY <1>3, <2>1, <2>4
<1>7. CASE LoadCopy(c)
  <2>1. diskRules' = diskRules /\ keys' = keys /\ tool' = tool /\ cmd[c].step = "load"
    BY <1>7 DEF LoadCopy, fwd, fwdHistory
  <2>2. (\A k \in keys : Covers(diskRules, k))' BY <1>0, <2>1 DEF Covers, InTool, Key
  <2>3. CASE EndsCommand(c) BY <1>3, <2>2, <2>3
  <2>4. CASE /\ cmd[c].does \in {"add", "migrate"} /\ ids' \in 1..MaxIds
             /\ Sets(c, "save", cmd[c].does, ids', Added(diskRules, [id |-> ids', q |-> cmd[c].q]))
    <3> DEFINE new == [id |-> ids', q |-> cmd[c].q]
               copy == Added(diskRules, new)
    <3>1. cmd[c].q \in Requests BY <1>0, <2>1, <2>4 DEF Doing
    <3>2. diskRules \in SUBSET Rules /\ ids' \in Nat BY <1>0, <2>4, ConsoleOK DEF FTypes
    <3>3. copy \in SUBSET Rules BY <2>4, <3>1, <3>2, AddedFacts
    <3>4. ASSUME NEW k \in keys PROVE Covers(copy, k)
      <4>1. ASSUME NEW r \in diskRules, Key(r) = k PROVE \E s \in copy : Key(s) = k
        <5>1. CASE r \in copy BY <4>1, <5>1
        <5>2. CASE r \notin copy
          <6>1. r.q.iface = cmd[c].q.iface /\ r.q.listen = cmd[c].q.listen
            BY <5>2 DEF Added, Replaced
          <6>2. Key(new) = k /\ new \in copy BY <4>1, <6>1 DEF Key, Added
          <6> QED BY <6>2
        <5> QED BY <5>1, <5>2
      <4> QED BY <1>0, <4>1 DEF Covers
    <3> HIDE DEF copy
    <3>5. Sets(c, "save", cmd[c].does, ids', copy) BY <2>4 DEF copy
    <3> HIDE DEF new
    <3>6. AreSet(c, "save", cmd[c].does, ids', copy) BY <1>0, <2>4, <3>2, <3>3, <3>5, SetFacts
    <3>7. Waits(cmd[c])'
      BY <1>0, <2>1, <3>4, <3>6 DEF AreSet, Waits, Covers, InTool, Key, Own, Saved
    <3> QED BY <1>1, <1>2, <2>2, <3>6, <3>7, MetOthers DEF AreSet
  <2>5. CASE /\ cmd[c].does = "rm"
             /\ Sets(c, "save", "rm", cmd[c].id, {s \in diskRules : s.id # cmd[c].id})
    <3> DEFINE copy == {s \in diskRules : s.id # cmd[c].id}
    <3>1. copy \in SUBSET Rules BY <1>0 DEF FTypes
    <3>2. \A k \in keys : Covers(copy, k) \/ \E r \in diskRules : r.id = cmd[c].id /\ Key(r) = k
      BY <1>0 DEF Covers
    <3>3. Sets(c, "save", "rm", cmd[c].id, copy) BY <2>5
    <3> HIDE DEF copy
    <3>4. AreSet(c, "save", "rm", cmd[c].id, copy) BY <1>0, <1>1, <3>1, <3>3, SetFacts
    <3>5. Waits(cmd[c])'
      BY <2>1, <3>2, <3>4 DEF AreSet, Waits, Covers, InTool, Key, Saved
    <3> QED BY <1>1, <1>2, <2>2, <3>4, <3>5, MetOthers DEF AreSet
  <2> QED BY <1>7, <2>3, <2>4, <2>5, LoadSets
<1>8. CASE SaveCopy(c)
  <2>1. tool' = tool /\ cmd[c].step = "save" BY <1>8 DEF SaveCopy
  <2>2. CASE diskRules' = diskRules /\ EndsCommand(c) /\ keys' = keys
    BY <1>0, <1>3, <2>1, <2>2 DEF Covers, InTool, Key
  <2>3. CASE /\ diskRules' = cmd[c].copy /\ Moves(c, "apply")
             /\ keys' = IF cmd[c].does = "rm" THEN keys \ {Key(r) : r \in TakenBack(c)} ELSE keys
    <3>1. /\ cmd' \in [Consoles -> Cmds] /\ Rest(c)
          /\ cmd'[c].step = "apply" /\ cmd'[c].does = cmd[c].does /\ cmd'[c].q = cmd[c].q
          /\ cmd'[c].id = cmd[c].id /\ cmd'[c].copy = cmd[c].copy /\ cmd'[c].alone = cmd[c].alone
      BY <1>0, <2>3, MoveFacts
    <3>2. keys' \subseteq keys BY <2>3
    <3>3. \A k \in keys' : Covers(cmd[c].copy, k)
      BY <1>0, <2>1, <2>3 DEF Waits, TakenBack
    <3>4. (\A k \in keys : Covers(diskRules, k))' BY <2>1, <2>3, <3>3 DEF Covers, InTool, Key
    <3>5. cmd[c].does = "migrate" => Mine(cmd[c]) \in cmd[c].copy BY <1>0, <2>1 DEF Owns
    <3>6. Waits(cmd[c])'
      BY <1>0, <2>1, <2>3, <3>1, <3>2, <3>3, <3>5 DEF Waits, Covers, InTool, Key, Own, Mine
    <3> QED BY <1>1, <1>2, <3>1, <3>4, <3>6, MetOthers
  <2> QED BY <1>8, <2>2, <2>3 DEF SaveCopy
<1>9. CASE ApplyCopy(c)
  <2>1. diskRules' = diskRules /\ keys' = keys /\ tool' = tool /\ cmd[c].step = "apply"
    BY <1>9 DEF ApplyCopy, fwdHistory
  <2>2. (\A k \in keys : Covers(diskRules, k))' BY <1>0, <2>1 DEF Covers, InTool, Key
  <2>3. CASE EndsCommand(c) BY <1>3, <2>2, <2>3
  <2>4. ASSUME NEW does \in {"add", "rm", "migrate", "undo", "undone"},
               Sets(c, "again", does, cmd[c].id, cmd[c].copy),
               does = cmd[c].does \/ (does = "undo" /\ cmd[c].does = "migrate")
        PROVE  NobodyMet'
    <3>1. AreSet(c, "again", does, cmd[c].id, cmd[c].copy) BY <1>0, <1>1, <2>4, SetFacts
    <3>2. Waits(cmd[c])'
      BY <1>0, <2>1, <2>4, <3>1 DEF AreSet, Waits, Covers, InTool, Key, Own, Mine, Saved
    <3> QED BY <1>1, <1>2, <2>2, <3>1, <3>2, MetOthers DEF AreSet
  <2> QED BY <1>9, <2>3, <2>4, ApplySets
<1>10. CASE SaveAgain(c)
  <2>1. /\ keys' = keys /\ tool' = tool /\ cmd[c].step = "again"
        /\ diskRules' \in {diskRules, cmd[c].copy}
    BY <1>10 DEF SaveAgain, fwdHistory
  <2>2. \A k \in keys : Covers(cmd[c].copy, k) BY <1>0, <2>1 DEF Waits, Saved
  <2>3. (\A k \in keys : Covers(diskRules, k))' BY <1>0, <2>1, <2>2 DEF Covers, InTool, Key
  <2>4. CASE EndsCommand(c) BY <1>3, <2>3, <2>4
  <2>5. ASSUME NEW step \in {"retire", "undo"}, Moves(c, step) PROVE NobodyMet'
    <3>1. /\ cmd' \in [Consoles -> Cmds] /\ Rest(c)
          /\ cmd'[c].step = step /\ cmd'[c].does = cmd[c].does /\ cmd'[c].q = cmd[c].q
          /\ cmd'[c].id = cmd[c].id /\ cmd'[c].copy = cmd[c].copy /\ cmd'[c].alone = cmd[c].alone
      BY <1>0, <2>5, MoveFacts
    <3>2. cmd[c].does = "migrate" => Mine(cmd[c]) \in diskRules'
      BY <1>0, <2>1 DEF Owns, Waits, Saved
    <3>3. Waits(cmd[c])'
      BY <1>0, <2>1, <2>2, <3>1, <3>2 DEF Waits, Covers, InTool, Key, Own, Mine
    <3> QED BY <1>1, <1>2, <2>3, <3>1, <3>3, MetOthers
  <2> QED BY <1>10, <2>4, <2>5 DEF SaveAgain
<1>11. CASE UndoAdd(c)
  <2> DEFINE copy == {r \in cmd[c].copy : r.id # cmd[c].id}
  <2>1. /\ keys' = keys /\ tool' = tool /\ cmd[c].step = "undo" /\ diskRules' \in {diskRules, copy}
        /\ cmd' = [cmd EXCEPT ![c] = [cmd[c] EXCEPT !.does = "undone", !.copy = copy,
             !.step = "apply"]]
    BY <1>11 DEF UndoAdd
  <2>2. cmd[c].does = "undo" /\ cmd[c].q \in ToolLines BY <1>0, <2>1 DEF Doing
  <2>3. ASSUME NEW k \in keys PROVE Covers(copy, k)
    <3>1. ASSUME NEW r \in cmd[c].copy, Key(r) = k, r.id = cmd[c].id PROVE InTool(k)
      <4>1. r = Mine(cmd[c]) BY <1>0, <2>1, <2>2, <3>1 DEF Owns, Saved
      <4>2. k = Own(cmd[c]) BY <2>2, <3>1, <4>1, ConsoleOK DEF Mine, Key, Own, Eff
      <4> QED BY <1>0, <2>1, <2>2, <4>2 DEF Waits
    <3>2. Covers(cmd[c].copy, k) BY <1>0, <2>1 DEF Waits, Saved
    <3> QED BY <3>1, <3>2 DEF Covers
  <2>4. copy \in SUBSET Rules BY <1>1
  <2>5. Sets(c, "apply", "undone", cmd[c].id, copy)
    <3>1. [cmd[c] EXCEPT !.does = "undone", !.copy = copy, !.step = "apply"]
            = [cmd[c] EXCEPT !.step = "apply", !.does = "undone", !.id = cmd[c].id, !.copy = copy]
      BY <1>0 DEF Cmds
    <3> QED BY <2>1, <3>1 DEF Sets
  <2> HIDE DEF copy
  <2>6. AreSet(c, "apply", "undone", cmd[c].id, copy) BY <1>0, <1>1, <2>4, <2>5, SetFacts
  <2>7. (\A k \in keys : Covers(diskRules, k))' BY <1>0, <2>1, <2>3 DEF Covers, InTool, Key
  <2>8. Waits(cmd[c])' BY <2>1, <2>3, <2>6 DEF AreSet, Waits, Covers, InTool, Key, Saved
  <2> QED BY <1>1, <1>2, <2>6, <2>7, <2>8, MetOthers DEF AreSet
<1> QED BY <1>5, <1>6, <1>7, <1>8, <1>9, <1>10, <1>11 DEF CommandStep

\* Every step does.
LEMMA MetStep ==
  ASSUME KeptInv, OwnRules, ~met => NobodyMet, ~met', [FNext]_fconVars
  PROVE  NobodyMet'
<1>0. FTypes /\ AloneLasts BY DEF KeptInv
<1>1. ASSUME NEW c \in Consoles, BeginsSome(c) PROVE NobodyMet'
  <2>1. PICK does \in {"add", "rm", "migrate"}, q \in Requests \cup {Nobody.q}, id \in Nat :
          /\ Begins(c, does, q, id) /\ UNCHANGED <<fwd, tool, keys>>
          /\ does = "migrate" => q \in tool
    BY <1>1 DEF BeginsSome
  <2>2. Begun(c, does, q, id) BY <1>0, <2>1, BeginFacts
  <2>3. ~met /\ Alone(c) BY <2>2 DEF Begun
  <2>4. ~serving /\ \A d \in Consoles \ {c} : cmd[d].step = "idle" BY <2>3 DEF Alone, Busy
  <2>5. /\ \A d \in Consoles \ {c} : cmd'[d].step = "idle"
        /\ cmd'[c].alone /\ cmd'[c].step = "load" /\ cmd'[c].does = does /\ cmd'[c].q = q
    BY <2>2, <2>3, <2>4 DEF Begun
  <2>6. (\A k \in keys : Covers(diskRules, k))'
    BY <1>1, <2>1, <2>3 DEF NobodyMet, Covers, InTool, Key, fwd
  <2>7. Waits(cmd[c])' BY <2>1, <2>5 DEF Waits, Own, InTool, Saved
  <2>8. \A d \in Consoles \ {c} : Waits(cmd[d])' BY <2>5 DEF Waits, Saved
  <2> QED BY <2>1, <2>4, <2>5, <2>6, <2>7, <2>8 DEF NobodyMet, Busy, fwd
<1>2. ASSUME NEW c \in Consoles, CommandStep(c) PROVE NobodyMet'
  <2>1. met' = met
    BY <1>2 DEF CommandStep, CommandDies, Retire, LoadCopy, SaveCopy, ApplyCopy, SaveAgain, UndoAdd,
                fwdHistory
  <2> QED BY <1>2, <2>1, MetCommand
<1>3. CASE ServiceStarts
  <2>1. /\ met' = (met \/ \E c \in Consoles : Busy(c)) /\ keys' = keys /\ tool' = tool
        /\ memRules' = diskRules /\ diskRules' = diskRules
        /\ cmd' = [c \in Consoles |-> [cmd[c] EXCEPT !.alone = FALSE]]
    BY <1>3 DEF ServiceStarts
  <2>2. ~met /\ \A c \in Consoles : cmd[c].step = "idle" BY <2>1 DEF Busy
  <2>3. \A c \in Consoles : cmd'[c].step = "idle" BY <1>0, <2>1, <2>2 DEF FTypes, Cmds
  <2>4. (\A k \in keys : Covers(diskRules, k))' BY <2>1, <2>2 DEF NobodyMet, Covers, InTool, Key
  <2>5. \A c \in Consoles : Waits(cmd[c])' BY <2>3 DEF Waits, Saved
  <2> QED BY <2>1, <2>3, <2>4, <2>5 DEF NobodyMet, Busy
<1>4. CASE ServiceRuns
  <2>1. serving /\ cmd' = cmd /\ met' = met /\ tool' = tool
    <3>1. CASE ServiceStops \/ ServiceSavesOther \/ ServiceResolves
      BY <3>1 DEF ServiceStops, ServiceSavesOther, ServiceResolves, fwdHistory
    <3>2. ASSUME NEW q \in ForwardRequests, ServiceAdds(q) PROVE <2>1!:
      BY <3>2 DEF ServiceAdds, ServiceSaves
    <3>3. ASSUME NEW r \in memRules, ServiceRemoves(r) PROVE <2>1!:
      BY <3>3 DEF ServiceRemoves, ServiceSaves
    <3> QED BY <1>4, <3>1, <3>2, <3>3 DEF ServiceRuns
  <2>2. ~met /\ NobodyMet BY <2>1
  <2>3. \A c \in Consoles : cmd'[c].step = "idle"
    BY <1>0, <2>1, <2>2 DEF NobodyMet, AloneLasts, Busy
  <2>4. memRules = diskRules /\ \A k \in keys : Covers(memRules, k) BY <2>1, <2>2 DEF NobodyMet
  <2>5. /\ serving' => memRules' = diskRules'
        /\ \A k \in keys' : InTool(k) \/ \E r \in diskRules' : Key(r) = k
    <3>1. CASE ServiceStops \/ ServiceSavesOther \/ ServiceResolves
      BY <2>4, <3>1 DEF ServiceStops, ServiceSavesOther, ServiceResolves, fwdHistory, Covers
    <3>2. ASSUME NEW q \in ForwardRequests, ServiceAdds(q) PROVE <2>5!:
      <4> DEFINE new == [id |-> ids', q |-> q]
      <4>1. memRules' = diskRules' /\ diskRules' = Added(memRules, new) /\ keys' = keys
        BY <3>2 DEF ServiceAdds, ServiceSaves
      <4>2. ASSUME NEW r \in memRules PROVE \E s \in diskRules' : Key(s) = Key(r)
        <5>1. CASE r \in diskRules' BY <5>1
        <5>2. CASE r \notin diskRules'
          <6>1. r.q.iface = q.iface /\ r.q.listen = q.listen
            BY <4>1, <5>2 DEF Added, Replaced
          <6>2. Key(new) = Key(r) /\ new \in diskRules' BY <4>1, <6>1 DEF Key, Added
          <6> QED BY <6>2
        <5> QED BY <5>1, <5>2
      <4> QED BY <2>4, <4>1, <4>2 DEF Covers
    <3>3. ASSUME NEW r \in memRules, ServiceRemoves(r) PROVE <2>5!:
      <4>1. memRules' = diskRules' /\ diskRules' = memRules \ {r} /\ keys' = keys \ {Key(r)}
        BY <3>3 DEF ServiceRemoves, ServiceSaves
      <4> QED BY <2>4, <4>1 DEF Covers
    <3> QED BY <1>4, <3>1, <3>2, <3>3 DEF ServiceRuns
  <2>6. (\A k \in keys : Covers(diskRules, k))' BY <2>1, <2>5 DEF Covers, InTool, Key
  <2>7. \A c \in Consoles : Waits(cmd[c])' BY <2>3 DEF Waits, Saved
  <2> QED BY <2>3, <2>5, <2>6, <2>7 DEF NobodyMet, Busy
<1>5. ASSUME ToolChanges, UNCHANGED <<fwd, present, cmd, ids, slips, given, met>> PROVE NobodyMet'
  <2>1. NobodyMet /\ UNCHANGED <<serving, memRules, diskRules, cmd>> BY <1>5 DEF fwd
  <2>2. keys' \subseteq keys /\ \A k \in keys' : InTool(k) => InTool(k)'
    <3>1. CASE \E d \in ToolLines \ tool : tool' = tool \cup {d} /\ keys' = keys
      BY <3>1 DEF InTool
    <3>2. CASE \E d \in tool : tool' = tool \ {d} /\ keys' = keys \ {<<d.iface, d.listen>>}
      BY <3>2 DEF InTool
    <3> QED BY <1>5, <3>1, <3>2 DEF ToolChanges
  <2>3. \A rules : \A k \in keys' : Covers(rules, k) => InTool(k)' \/ \E r \in rules : Key(r) = k
    BY <2>2 DEF Covers
  <2>4. (\A k \in keys : Covers(diskRules, k))' BY <2>1, <2>2, <2>3 DEF NobodyMet, Covers, Key
  <2>5. ASSUME NEW c \in Consoles PROVE Waits(cmd[c])'
    <3>1. Waits(cmd[c]) BY <2>1 DEF NobodyMet
    <3> QED BY <2>1, <2>2, <2>3, <3>1 DEF Waits, Covers, Key, Own, Mine
  <2> QED BY <2>1, <2>4, <2>5 DEF NobodyMet, Busy
<1>6. CASE UNCHANGED fconVars
  BY <1>6 DEF fconVars, fwd, fwdHistory, NobodyMet, Waits, Covers, InTool, Key, Own, Mine, Busy
<1>7. ids \in Nat BY <1>0, ConsoleOK DEF FTypes
<1> QED BY <1>1, <1>2, <1>3, <1>4, <1>5, <1>6, <1>7, Beginnings DEF FNext, ServiceRuns

\* What a command on forwards did lasts, also when later commands run beside the
\* service; and wherever one fails or is interrupted no forward is lost, unless it met
\* the service or another command.
THEOREM CommandsLast == FSpec => []ForwardsKept
<1>1. FInit => ForwardsInv
  <2> SUFFICES ASSUME FInit PROVE ForwardsInv
    OBVIOUS
  <2>1. \A c \in Consoles : cmd[c].step = "idle" BY NobodyFacts DEF FInit
  <2>2. OwnRules BY <2>1 DEF OwnRules, Owns, Saved, FInit
  <2>3. NobodyMet BY <2>1 DEF NobodyMet, Waits, Saved, Busy, Covers, InTool, FInit
  <2> QED BY <2>2, <2>3, KeptInit DEF ForwardsInv
<1>2. ForwardsInv /\ [FNext]_fconVars => ForwardsInv'
  <2> SUFFICES ASSUME KeptInv, OwnRules, ~met => NobodyMet, [FNext]_fconVars
               PROVE  KeptInv' /\ OwnRules' /\ (~met' => NobodyMet')
    BY DEF ForwardsInv
  <2>1. KeptInv' BY KeptStep
  <2>2. OwnRules' BY OwnStep
  <2>3. ~met' => NobodyMet' BY MetStep
  <2> QED BY <2>1, <2>2, <2>3
<1>3. ForwardsInv => ForwardsKept
  BY DEF ForwardsInv, KeptInv, NobodyMet, Covers, InTool, ForwardsKept, MigratedKept
<1>4. QED BY <1>1, <1>2, <1>3, PTL DEF FSpec

-----------------------------------------------------------------------------
\* One authority

\* What dnat's user adds is excused, and stays so.
Excuses == present' = present /\ tool' \ tool \subseteq excused' /\ excused \subseteq excused'

\* Every step leaves an excuse an excuse.
LEMMA ApartStays ==
  ASSUME [FNext]_fconVars, ids \in Nat
  PROVE  Excuses
<1>1. ASSUME NEW c \in Consoles, BeginsSome(c) PROVE Excuses
  BY <1>1 DEF Excuses, BeginsSome
<1>2. ASSUME NEW c \in Consoles, CommandStep(c) PROVE Excuses
  BY <1>2 DEF Excuses, CommandStep, CommandDies, Retire, LoadCopy, SaveCopy, ApplyCopy, SaveAgain,
              UndoAdd, fwdHistory
<1>3. CASE ServiceStarts BY <1>3 DEF Excuses, ServiceStarts
<1>4. CASE ServiceStops \/ ServiceSavesOther \/ ServiceResolves
  BY <1>4 DEF Excuses, ServiceStops, ServiceSavesOther, ServiceResolves, fwdHistory
<1>5. ASSUME NEW q \in ForwardRequests, ServiceAdds(q) PROVE Excuses
  BY <1>5 DEF Excuses, ServiceAdds, ServiceSaves
<1>6. ASSUME NEW r \in memRules, ServiceRemoves(r) PROVE Excuses
  BY <1>6 DEF Excuses, ServiceRemoves, ServiceSaves
<1>7. CASE ToolChanges /\ present' = present BY <1>7 DEF Excuses, ToolChanges
<1>8. CASE UNCHANGED fconVars BY <1>8 DEF Excuses, fconVars, fwdHistory
<1> QED BY <1>1, <1>2, <1>3, <1>4, <1>5, <1>6, <1>7, <1>8, Beginnings DEF FNext

\* Where the rules of a command's step come from.
Asks(m) == m.step # "idle" /\ m.does # "rm"
Goal(c) ==
  /\ Rest(c) /\ memRules' = memRules /\ diskRules' \subseteq diskRules \cup cmd[c].copy
  /\ \A r \in cmd'[c].copy : r \in diskRules \cup cmd[c].copy \/ (r.q = cmd[c].q /\ Asks(cmd[c]))
  /\ Asks(cmd'[c]) => cmd'[c].q = cmd[c].q /\ Asks(cmd[c])

\* A step of a command puts only what it has taken care of on disk.
LEMMA CopyMoves == ASSUME KeptInv, NEW c \in Consoles, CommandStep(c) PROVE Goal(c)
<1>0. FTypes /\ cmd[c] \in Cmds /\ MaxIds \in Nat /\ Doing(cmd[c]) BY ConsoleOK DEF KeptInv, FTypes
<1>1. /\ memRules' = memRules /\ diskRules' \subseteq diskRules \cup cmd[c].copy
      /\ cmd[c].step # "idle" /\ cmd[c].copy \in SUBSET Rules /\ cmd[c].id \in Nat
  BY <1>0 DEF CommandStep, CommandDies, Retire, LoadCopy, SaveCopy, ApplyCopy, SaveAgain, UndoAdd,
              fwd, Busy, Cmds
<1>2. ASSUME EndsCommand(c) PROVE Goal(c)
  <2>1. cmd'[c] = Nobody /\ Rest(c) BY <1>0, <1>2, EndFacts
  <2> QED BY <1>1, <2>1, NobodyFacts DEF Goal, Asks
<1>3. ASSUME NEW step \in {"apply", "retire", "undo"}, Moves(c, step) PROVE Goal(c)
  <2>1. /\ cmd' \in [Consoles -> Cmds] /\ Rest(c)
        /\ cmd'[c].step = step /\ cmd'[c].does = cmd[c].does /\ cmd'[c].q = cmd[c].q
        /\ cmd'[c].id = cmd[c].id /\ cmd'[c].copy = cmd[c].copy /\ cmd'[c].alone = cmd[c].alone
    BY <1>0, <1>3, MoveFacts
  <2> QED BY <1>1, <2>1 DEF Goal, Asks
<1>4. ASSUME NEW step \in {"save", "apply", "again"},
             NEW does \in {"add", "rm", "migrate", "undo", "undone"}, NEW id \in Nat,
             NEW copy \in SUBSET Rules, Sets(c, step, does, id, copy),
             does # "rm" => cmd[c].does # "rm",
             \A r \in copy : r \in diskRules \cup cmd[c].copy
               \/ (r.q = cmd[c].q /\ cmd[c].does # "rm")
      PROVE  Goal(c)
  <2>1. AreSet(c, step, does, id, copy) BY <1>0, <1>4, SetFacts
  <2> QED BY <1>1, <1>4, <2>1 DEF AreSet, Goal, Asks
<1>5. CASE LoadCopy(c)
  <2>1. CASE /\ cmd[c].does \in {"add", "migrate"} /\ ids' \in 1..MaxIds
             /\ Sets(c, "save", cmd[c].does, ids', Added(diskRules, [id |-> ids', q |-> cmd[c].q]))
    <3> DEFINE copy == Added(diskRules, [id |-> ids', q |-> cmd[c].q])
    <3>1. cmd[c].q \in Requests /\ diskRules \in SUBSET Rules /\ ids' \in Nat
      BY <1>0, <1>5, <2>1 DEF Doing, LoadCopy, FTypes
    <3>2. copy \in SUBSET Rules BY <2>1, <3>1, AddedFacts
    <3>3. \A r \in copy : r \in diskRules \/ r.q = cmd[c].q BY DEF Added
    <3> HIDE DEF copy
    <3>4. Sets(c, "save", cmd[c].does, ids', copy) BY <2>1 DEF copy
    <3>5. cmd[c].does \in {"add", "rm", "migrate", "undo", "undone"} /\ cmd[c].does # "rm" BY <2>1
    <3> QED BY <1>4, <3>1, <3>2, <3>3, <3>4, <3>5
  <2>2. CASE /\ cmd[c].does = "rm"
             /\ Sets(c, "save", "rm", cmd[c].id, {s \in diskRules : s.id # cmd[c].id})
    <3> DEFINE copy == {s \in diskRules : s.id # cmd[c].id}
    <3>1. copy \in SUBSET Rules /\ copy \subseteq diskRules BY <1>0 DEF FTypes
    <3>2. Sets(c, "save", "rm", cmd[c].id, copy) BY <2>2
    <3> HIDE DEF copy
    <3> QED BY <1>1, <1>4, <3>1, <3>2
  <2> QED BY <1>2, <1>5, <2>1, <2>2, LoadSets
<1>6. CASE ApplyCopy(c)
  <2>1. ASSUME NEW does \in {"add", "rm", "migrate", "undo", "undone"},
               Sets(c, "again", does, cmd[c].id, cmd[c].copy),
               does = cmd[c].does \/ (does = "undo" /\ cmd[c].does = "migrate")
        PROVE  Goal(c)
    <3> QED BY <1>1, <1>4, <2>1
  <2> QED BY <1>2, <1>6, <2>1, ApplySets
<1>7. CASE UndoAdd(c)
  <2> DEFINE copy == {r \in cmd[c].copy : r.id # cmd[c].id}
  <2>1. copy \in SUBSET Rules /\ copy \subseteq cmd[c].copy BY <1>1
  <2>2. cmd[c].does = "undo" BY <1>0, <1>7 DEF UndoAdd, Doing
  <2>3. [cmd[c] EXCEPT !.does = "undone", !.copy = copy, !.step = "apply"]
          = [cmd[c] EXCEPT !.step = "apply", !.does = "undone", !.id = cmd[c].id, !.copy = copy]
    BY <1>0 DEF Cmds
  <2>4. cmd' = [cmd EXCEPT ![c] = [cmd[c] EXCEPT !.does = "undone", !.copy = copy,
          !.step = "apply"]]
    BY <1>7 DEF UndoAdd
  <2>5. Sets(c, "apply", "undone", cmd[c].id, copy) BY <2>3, <2>4 DEF Sets
  <2> HIDE DEF copy
  <2> QED BY <1>1, <1>4, <2>1, <2>2, <2>5
<1> QED
  BY <1>2, <1>3, <1>5, <1>6, <1>7 DEF CommandStep, CommandDies, Retire, SaveCopy, SaveAgain

\* Every step keeps ports apart.
LEMMA ApartStep == ASSUME KeptInv, ApartInv, [FNext]_fconVars PROVE ApartInv'
<1>0. FTypes /\ ids \in Nat BY ConsoleOK DEF KeptInv, FTypes
<1>1. Excuses BY <1>0, ApartStays
<1>2. CASE ~present BY <1>1, <1>2 DEF ApartInv, Excuses
<1>3. CASE present
  <2>1. ASSUME NEW q, Apart(q) PROVE Apart(q)'
    BY <1>1, <2>1 DEF Apart, Excuses, SharePorts, Eff, Overlaps
  <2>2. /\ \A r \in diskRules \cup memRules : Apart(r.q)
        /\ \A c \in Consoles : Parted(cmd[c])
    BY <1>3 DEF ApartInv
  <2>3. ASSUME NEW c \in Consoles, cmd'[c] = cmd[c] PROVE Parted(cmd[c])'
    BY <2>1, <2>2, <2>3 DEF Parted
  <2>4. ASSUME NEW c \in Consoles, cmd'[c].step = cmd[c].step, cmd'[c].does = cmd[c].does,
               cmd'[c].q = cmd[c].q, cmd'[c].copy = cmd[c].copy
        PROVE  Parted(cmd[c])'
    BY <2>1, <2>2, <2>4 DEF Parted
  <2>5. ASSUME NEW q, ~Clashes(q) PROVE Apart(q) BY <1>3, <2>5 DEF Clashes, Apart
  <2>6. ASSUME NEW c \in Consoles, BeginsSome(c) PROVE ApartInv'
    <3>1. PICK does \in {"add", "rm", "migrate"}, q \in Requests \cup {Nobody.q}, id \in Nat :
            /\ Begins(c, does, q, id) /\ UNCHANGED <<fwd, tool>>
            /\ does = "add" => ~Clashes(q)
            /\ does = "migrate" => {e \in ToolLines : SharePorts(e, q)} \subseteq excused'
      BY <2>6 DEF BeginsSome
    <3>2. Begun(c, does, q, id) BY <1>0, <3>1, BeginFacts
    <3>3. does # "rm" => Apart(q)'
      <4>1. CASE does = "add" BY <2>1, <2>5, <3>1, <4>1
      <4>2. CASE does = "migrate"
        <5>1. ASSUME NEW d \in tool', SharePorts(q, d)' PROVE d \in excused'
          <6>1. d \in ToolLines BY <1>0, <3>1, <5>1 DEF FTypes
          <6>2. SharePorts(d, q) BY <5>1 DEF SharePorts, Eff, Overlaps
          <6> QED BY <3>1, <4>2, <6>1, <6>2
        <5> QED BY <5>1 DEF Apart
      <4> QED BY <4>1, <4>2
    <3>4. Parted(cmd[c])' BY <3>2, <3>3 DEF Begun, Parted
    <3>5. \A d \in Consoles \ {c} : Parted(cmd[d])' BY <2>4, <3>2 DEF Begun
    <3>6. \A r \in (diskRules \cup memRules)' : Apart(r.q)' BY <2>1, <2>2, <3>1 DEF fwd
    <3> QED BY <3>4, <3>5, <3>6 DEF ApartInv
  <2>7. ASSUME NEW c \in Consoles, CommandStep(c) PROVE ApartInv'
    <3> USE DEF Goal
    <3>1. Goal(c) BY <2>7, CopyMoves
    <3>2. Parted(cmd[c]) BY <2>2
    <3>3. \A r \in diskRules \cup cmd[c].copy : Apart(r.q)' BY <2>1, <2>2, <3>2 DEF Parted
    <3>q. PICK q : q = cmd[c].q OBVIOUS
    <3>4. Asks(cmd[c]) => Apart(q)' BY <2>1, <3>2, <3>q DEF Parted, Asks
    <3>5. Parted(cmd[c])' BY <3>1, <3>3, <3>4, <3>q DEF Parted, Asks
    <3>6. \A d \in Consoles \ {c} : Parted(cmd[d])' BY <2>3, <3>1 DEF Rest
    <3>7. \A r \in (diskRules \cup memRules)' : Apart(r.q)' BY <2>1, <2>2, <3>1, <3>3
    <3> QED BY <3>5, <3>6, <3>7 DEF ApartInv
  <2>8. ASSUME \A r \in (diskRules \cup memRules)' : r \in diskRules \cup memRules \/ Apart(r.q),
               cmd' = cmd
        PROVE  ApartInv'
    BY <2>1, <2>2, <2>3, <2>8 DEF ApartInv
  <2>9. CASE ServiceStarts
    <3>1. /\ memRules' = diskRules /\ diskRules' = diskRules
          /\ cmd' = [c \in Consoles |-> [cmd[c] EXCEPT !.alone = FALSE]]
      BY <2>9 DEF ServiceStarts
    <3>2. ASSUME NEW c \in Consoles PROVE Parted(cmd[c])'
      <4>1. cmd[c] \in Cmds /\ cmd'[c] = [cmd[c] EXCEPT !.alone = FALSE] BY <1>0, <3>1 DEF FTypes
      <4>2. /\ cmd'[c].step = cmd[c].step /\ cmd'[c].does = cmd[c].does
            /\ cmd'[c].q = cmd[c].q /\ cmd'[c].copy = cmd[c].copy
        BY <4>1 DEF Cmds
      <4> QED BY <2>4, <4>2
    <3> QED BY <2>1, <2>2, <3>1, <3>2 DEF ApartInv
  <2>10. CASE ServiceStops \/ ServiceSavesOther \/ ServiceResolves
    BY <2>8, <2>10 DEF ServiceStops, ServiceSavesOther, ServiceResolves
  <2>11. ASSUME NEW q \in ForwardRequests, ServiceAdds(q) PROVE ApartInv'
    <3>1. /\ memRules' = Added(memRules, [id |-> ids', q |-> q]) /\ diskRules' = memRules'
          /\ cmd' = cmd /\ ~Clashes(q)
      BY <2>11 DEF ServiceAdds, ServiceSaves
    <3>2. \A r \in memRules' : r \in memRules \/ r.q = q BY <3>1 DEF Added
    <3> QED BY <2>5, <2>8, <3>1, <3>2
  <2>12. ASSUME NEW r \in memRules, ServiceRemoves(r) PROVE ApartInv'
    BY <2>8, <2>12 DEF ServiceRemoves, ServiceSaves
  <2>13. CASE UNCHANGED <<fwd, cmd>> BY <2>8, <2>13 DEF fwd
  <2>14. fconVars' = fconVars => UNCHANGED <<fwd, cmd>> BY DEF fconVars
  <2> QED BY <1>0, <2>6, <2>7, <2>9, <2>10, <2>11, <2>12, <2>13, <2>14, Beginnings DEF FNext
<1> QED BY <1>2, <1>3

\* "No port has two authorities": a rule of the agent shares ports with one of dnat
\* only where dnat's user has added it since, or where a migration of it, or of one
\* that shares ports with it, was begun, also if that failed or was undone.
THEOREM Authority == FSpec => []OneAuthority
<1>1. FInit => KeptInv /\ ApartInv
  <2>1. FInit => ApartInv BY NobodyFacts DEF FInit, ApartInv, Parted
  <2> QED BY <2>1, KeptInit
<1>2. KeptInv /\ ApartInv /\ [FNext]_fconVars => (KeptInv /\ ApartInv)'
  <2>1. ASSUME KeptInv, ApartInv, [FNext]_fconVars PROVE KeptInv' /\ ApartInv'
    BY <2>1, KeptStep, ApartStep
  <2> QED BY <2>1
<1>3. KeptInv /\ ApartInv => OneAuthority
  <2> SUFFICES ASSUME KeptInv, ApartInv, present, NEW r \in diskRules \cup memRules, NEW d \in tool,
                      Eff(r.q.iface) = d.iface, NEW p \in Listens(r.q), p \in Listens(d)
               PROVE  d \in excused
    BY DEF OneAuthority
  <2>1. r.q \in Requests /\ d \in ToolLines /\ d \in Requests
    BY DEF KeptInv, FTypes, Rules, Requests
  <2>2. Eff(d.iface) = d.iface BY <2>1, ConsoleOK DEF Eff
  <2>3. /\ r.q.listen[1] \in Nat /\ r.q.listen[2] \in Nat
        /\ d.listen[1] \in Nat /\ d.listen[2] \in Nat
    BY <2>1, ConsoleOK DEF Requests
  <2>4. Overlaps(r.q.listen, d.listen) BY <2>3 DEF Overlaps, Listens
  <2>5. SharePorts(r.q, d) BY <2>2, <2>4 DEF SharePorts
  <2> QED BY <2>5 DEF ApartInv, Apart
<1>4. QED BY <1>1, <1>2, <1>3, PTL DEF FSpec

-----------------------------------------------------------------------------
(***************************************************************************)
(* What rules are.  A rule comes from a request that was checked, or from  *)
(* one of dnat's rules that native forwards have; every copy on the way to *)
(* disk or to the table is made of such rules.                             *)
(***************************************************************************)

Checked(q) == Sound(q) \/ (q \in ToolLines /\ Fits(q))

CopyChecked(m) ==
  (\A r \in m.copy : Checked(r.q)) /\ (Asks(m) => Checked(m.q))

Forwarded == table \subseteq Rules /\ \A r \in table : Fits(r.q) /\ ~ForbiddenTarget(r.q.host.ip)

CheckedInv ==
  /\ \A r \in diskRules \cup memRules : Checked(r.q)
  /\ \A c \in Consoles : CopyChecked(cmd[c])
  /\ Forwarded

Counts ==
  /\ present \in BOOLEAN /\ excused \subseteq ToolLines
  /\ acts \in 0..MaxActs /\ slips \in 0..MaxSlips

\* The counts and histories no other invariant speaks of.
LEMMA CountsStep == ASSUME KeptInv, Counts, [FNext]_fconVars PROVE Counts'
<1>0. FTypes /\ MaxActs \in Nat /\ MaxSlips \in Nat BY ConsoleOK DEF KeptInv
<1>1. /\ present' = present /\ (Act \/ acts' = acts) /\ (Slip \/ slips' = slips)
      /\ excused' \subseteq excused \cup ToolLines
  <2>1. ASSUME NEW c \in Consoles, NEW q \in ForwardRequests, ForwardAdd(c, q) PROVE <1>1!:
    BY <2>1 DEF ForwardAdd, Begins
  <2>2. ASSUME NEW c \in Consoles, NEW id, ForwardRm(c, id) PROVE <1>1!:
    BY <2>2 DEF ForwardRm, Begins
  <2>3. ASSUME NEW c \in Consoles, NEW d \in ToolLines, DnatMigrate(c, d) PROVE <1>1!:
    BY <2>3 DEF DnatMigrate, Begins
  <2>4. ASSUME NEW c \in Consoles, CommandStep(c) PROVE <1>1!:
    BY <2>4 DEF CommandStep, CommandDies, Retire, LoadCopy, SaveCopy, ApplyCopy, SaveAgain,
                UndoAdd, fwdHistory, NoSlip
  <2>5. CASE ServiceStarts BY <2>5 DEF ServiceStarts
  <2>6. CASE ServiceStops \/ ServiceSavesOther \/ ServiceResolves
    BY <2>6 DEF ServiceStops, ServiceSavesOther, ServiceResolves, fwdHistory
  <2>7. ASSUME NEW q \in ForwardRequests, ServiceAdds(q) PROVE <1>1!:
    BY <2>7 DEF ServiceAdds, ServiceSaves
  <2>8. ASSUME NEW r \in memRules, ServiceRemoves(r) PROVE <1>1!:
    BY <2>8 DEF ServiceRemoves, ServiceSaves
  <2>9. CASE ToolChanges /\ UNCHANGED <<fwd, present, cmd, ids, slips, given, met>>
    BY <2>9 DEF ToolChanges
  <2>10. CASE UNCHANGED fconVars BY <2>10 DEF fconVars, fwdHistory
  <2> QED BY <2>1, <2>2, <2>3, <2>4, <2>5, <2>6, <2>7, <2>8, <2>9, <2>10 DEF FNext
<1>2. acts' \in 0..MaxActs BY <1>0, <1>1 DEF Act, Counts
<1>3. slips' \in 0..MaxSlips BY <1>0, <1>1 DEF Slip, Counts
<1> QED BY <1>1, <1>2, <1>3 DEF Counts

\* Of rules that were checked the table gets those that reach no forbidden address.
LEMMA ResolvedFits ==
  ASSUME NEW rules \in SUBSET Rules, \A r \in rules : Checked(r.q), NEW answers \in BOOLEAN,
         table' = Resolved(rules, answers)
  PROVE  Forwarded'
BY DEF Forwarded, Resolved, Checked, Sound

BeginsWell(c) ==
  \E does \in {"add", "rm", "migrate"}, q \in Requests \cup {Nobody.q}, id \in Nat :
    Begins(c, does, q, id) /\ (does # "rm" => Checked(q)) /\ UNCHANGED fwd

\* What a command begins with was checked.
LEMMA BeginsChecked ==
  ASSUME ids \in Nat, NEW c \in Consoles,
         \/ \E q \in ForwardRequests : ForwardAdd(c, q)
         \/ (\E id \in 1..ids : ForwardRm(c, id)) \/ (\E d \in ToolLines : DnatMigrate(c, d))
  PROVE  BeginsWell(c)
<1>1. ASSUME NEW q \in ForwardRequests, ForwardAdd(c, q) PROVE BeginsWell(c)
  <2>1. q \in Requests \cup {Nobody.q} BY DEF Requests
  <2>2. Begins(c, "add", q, 0) /\ Checked(q) /\ UNCHANGED fwd BY <1>1 DEF ForwardAdd, Checked
  <2> QED BY <2>1, <2>2 DEF BeginsWell
<1>2. ASSUME NEW id \in 1..ids, ForwardRm(c, id) PROVE BeginsWell(c)
  <2>1. Begins(c, "rm", Nobody.q, id) /\ id \in Nat /\ UNCHANGED fwd BY <1>2 DEF ForwardRm
  <2> QED BY <2>1 DEF BeginsWell
<1>3. ASSUME NEW d \in ToolLines, DnatMigrate(c, d) PROVE BeginsWell(c)
  <2>1. d \in Requests \cup {Nobody.q} BY DEF Requests
  <2>2. Begins(c, "migrate", d, 0) /\ Checked(d) /\ UNCHANGED fwd
    BY <1>3 DEF DnatMigrate, Checked
  <2> QED BY <2>1, <2>2 DEF BeginsWell
<1> QED BY <1>1, <1>2, <1>3

\* Every step keeps rules checked.
LEMMA CheckedStep == ASSUME KeptInv, CheckedInv, [FNext]_fconVars PROVE CheckedInv'
<1>0. FTypes /\ ids \in Nat BY ConsoleOK DEF KeptInv, FTypes
<1>1. /\ \A r \in diskRules \cup memRules : Checked(r.q)
      /\ \A c \in Consoles : CopyChecked(cmd[c])
      /\ Forwarded
  BY DEF CheckedInv
<1>2. ASSUME NEW c \in Consoles, BeginsWell(c) PROVE CheckedInv'
  <2>1. PICK does \in {"add", "rm", "migrate"}, q \in Requests \cup {Nobody.q}, id \in Nat :
          Begins(c, does, q, id) /\ (does # "rm" => Checked(q)) /\ UNCHANGED fwd
    BY <1>2 DEF BeginsWell
  <2>2. Begun(c, does, q, id) BY <1>0, <2>1, BeginFacts
  <2>3. CopyChecked(cmd'[c]) BY <2>1, <2>2 DEF Begun, CopyChecked, Asks
  <2>4. \A d \in Consoles \ {c} : CopyChecked(cmd'[d]) BY <1>1, <2>2 DEF Begun, CopyChecked, Asks
  <2>5. UNCHANGED <<memRules, diskRules, table>> BY <2>1 DEF fwd
  <2>6. Forwarded' BY <1>1, <2>5 DEF Forwarded
  <2> QED BY <1>1, <2>3, <2>4, <2>5, <2>6 DEF CheckedInv
<1>3. ASSUME NEW c \in Consoles, CommandStep(c) PROVE CheckedInv'
  <2>1. Goal(c) BY <1>3, CopyMoves
  <2>2. CopyChecked(cmd[c]) BY <1>1
  <2>q. PICK q : q = cmd[c].q OBVIOUS
  <2>3. CopyChecked(cmd'[c]) BY <1>1, <2>1, <2>2, <2>q DEF Goal, CopyChecked
  <2>4. \A d \in Consoles \ {c} : CopyChecked(cmd'[d]) BY <1>1, <2>1 DEF Goal, Rest
  <2>5. \A r \in (diskRules \cup memRules)' : Checked(r.q) BY <1>1, <2>1, <2>2 DEF Goal, CopyChecked
  <2>6. table' = table \/ \E answers \in BOOLEAN : table' = Resolved(cmd[c].copy, answers)
    BY <1>3 DEF CommandStep, CommandDies, Retire, LoadCopy, SaveCopy, ApplyCopy, SaveAgain,
                UndoAdd, fwd
  <2>7. cmd[c].copy \in SUBSET Rules /\ \A r \in cmd[c].copy : Checked(r.q)
    BY <1>0, <2>2 DEF FTypes, Cmds, CopyChecked
  <2>8. Forwarded'
    <3>1. CASE table' = table BY <1>1, <3>1 DEF Forwarded
    <3> QED BY <2>6, <2>7, <3>1, ResolvedFits
  <2> QED BY <2>3, <2>4, <2>5, <2>8 DEF CheckedInv
<1>4. CASE ServiceStarts
  <2>1. /\ memRules' = diskRules /\ diskRules' = diskRules
        /\ cmd' = [c \in Consoles |-> [cmd[c] EXCEPT !.alone = FALSE]]
        /\ \E answers \in BOOLEAN : table' = Resolved(diskRules, answers)
    BY <1>4 DEF ServiceStarts
  <2>2. ASSUME NEW c \in Consoles PROVE CopyChecked(cmd'[c])
    <3>1. cmd[c] \in Cmds /\ cmd'[c] = [cmd[c] EXCEPT !.alone = FALSE] BY <1>0, <2>1 DEF FTypes
    <3>2. /\ cmd'[c].step = cmd[c].step /\ cmd'[c].does = cmd[c].does
          /\ cmd'[c].q = cmd[c].q /\ cmd'[c].copy = cmd[c].copy
      BY <3>1 DEF Cmds
    <3> QED BY <1>1, <3>2 DEF CopyChecked, Asks
  <2>3. Forwarded' BY <1>0, <1>1, <2>1, ResolvedFits DEF FTypes
  <2> QED BY <1>1, <2>1, <2>2, <2>3 DEF CheckedInv
<1>5. ASSUME cmd' = cmd, \A r \in (diskRules \cup memRules)' : Checked(r.q),
             \/ table' = table
             \/ \E answers \in BOOLEAN : \E rules \in SUBSET Rules :
                  (\A r \in rules : Checked(r.q)) /\ table' = Resolved(rules, answers)
      PROVE  CheckedInv'
  <2>1. Forwarded'
    <3>1. CASE table' = table BY <1>1, <3>1 DEF Forwarded
    <3> QED BY <1>5, <3>1, ResolvedFits
  <2> QED BY <1>1, <1>5, <2>1 DEF CheckedInv
<1>6. CASE ServiceStops \/ ServiceSavesOther
  BY <1>1, <1>5, <1>6 DEF ServiceStops, ServiceSavesOther
<1>7. CASE ServiceResolves
  <2>1. /\ \E answers \in BOOLEAN : table' = Resolved(memRules, answers)
        /\ diskRules' = memRules /\ memRules' = memRules /\ cmd' = cmd
    BY <1>7 DEF ServiceResolves
  <2> QED BY <1>0, <1>1, <1>5, <2>1 DEF FTypes
<1>8. ASSUME NEW q \in ForwardRequests, ServiceAdds(q) PROVE CheckedInv'
  <2> DEFINE new == [id |-> ids', q |-> q]
             rules == Added(memRules, new)
  <2>1. /\ memRules' = rules /\ diskRules' = rules /\ cmd' = cmd /\ Sound(q)
        /\ \E answers \in BOOLEAN : table' = Resolved(rules, answers)
        /\ ids < MaxIds /\ ids' = ids + 1
    BY <1>8 DEF ServiceAdds, ServiceSaves
  <2>2. ids' \in 1..MaxIds /\ q \in Requests BY <1>0, <2>1, ConsoleOK DEF FTypes, Requests
  <2>3. rules \in SUBSET Rules /\ \A r \in rules : r \in memRules \/ r = new
    BY <1>0, <2>2, AddedFacts DEF FTypes
  <2>4. new.q = q OBVIOUS
  <2> HIDE DEF rules, new
  <2>5. \A r \in rules : Checked(r.q) BY <1>1, <2>1, <2>3, <2>4 DEF Checked
  <2> QED BY <1>5, <2>1, <2>3, <2>5
<1>9. ASSUME NEW r \in memRules, ServiceRemoves(r) PROVE CheckedInv'
  <2> DEFINE rules == memRules \ {r}
  <2>1. /\ memRules' = rules /\ diskRules' = rules /\ cmd' = cmd
        /\ \E answers \in BOOLEAN : table' = Resolved(rules, answers)
    BY <1>9 DEF ServiceRemoves, ServiceSaves
  <2>2. rules \in SUBSET Rules /\ \A s \in rules : Checked(s.q) BY <1>0, <1>1 DEF FTypes
  <2> HIDE DEF rules
  <2> QED BY <1>5, <2>1, <2>2
<1>10. CASE UNCHANGED <<fwd, cmd>> BY <1>1, <1>5, <1>10 DEF fwd
<1>11. fconVars' = fconVars => UNCHANGED <<fwd, cmd>> BY DEF fconVars
<1> QED BY <1>0, <1>2, <1>3, <1>4, <1>6, <1>7, <1>8, <1>9, <1>10, <1>11, BeginsChecked DEF FNext

\* All rules, on disk, in memory and in the table, were checked.
LEMMA ForwardTypes == FSpec => []FTypeOK
<1>1. FInit => KeptInv /\ CheckedInv /\ Counts
  <2>1. FInit => CheckedInv BY NobodyFacts DEF FInit, CheckedInv, CopyChecked, Asks, Forwarded
  <2>2. FInit => Counts BY ConsoleOK DEF FInit, Counts
  <2> QED BY <2>1, <2>2, KeptInit
<1>2. KeptInv /\ CheckedInv /\ Counts /\ [FNext]_fconVars => (KeptInv /\ CheckedInv /\ Counts)'
  <2>1. ASSUME KeptInv, CheckedInv, Counts, [FNext]_fconVars
        PROVE  KeptInv' /\ CheckedInv' /\ Counts'
    BY <2>1, KeptStep, CheckedStep, CountsStep
  <2> QED BY <2>1
<1>3. KeptInv /\ CheckedInv /\ Counts => FTypeOK
  <2> SUFFICES ASSUME KeptInv, CheckedInv, Counts PROVE FTypeOK OBVIOUS
  <2>1. \A r \in diskRules \cup memRules : Sound(r.q) \/ r.q \in ToolLines
    BY DEF CheckedInv, Checked
  <2> QED BY <2>1 DEF KeptInv, FTypes, CheckedInv, Forwarded, Counts, FTypeOK
<1>4. QED BY <1>1, <1>2, <1>3, PTL DEF FSpec

-----------------------------------------------------------------------------
(***************************************************************************)
(* Side by side with the commands on switches (ExposureProofs): a part     *)
(* that rests does not change.                                             *)
(***************************************************************************)

\* Every behaviour of the two is one of each of them.
THEOREM ConsoleParts == AllSpec => CSpec /\ FSpec
<1>1. AllInit => CInit /\ FInit BY DEF AllInit
<1>2. [AllNext]_all => [CNext]_cvars /\ [FNext]_fconVars
  BY Zenon DEF AllNext, all
<1>3. QED BY <1>1, <1>2, PTL DEF AllSpec, CSpec, FSpec

\* The values both parts range over; and no rule gets to disk, to memory or to the table
\* unchecked: ranges fit each other, and no destination is a forbidden address, whatever
\* copies of state.json commands and service overwrite each other with.
THEOREM ConsoleTypes == AllSpec => []AllTypeOK
<1>1. CInv => CTypeOK BY DEF CInv, Safe, CTypeOK
<1>2. QED BY <1>1, ConsoleParts, CInvHolds, ForwardTypes, PTL DEF AllTypeOK
=============================================================================
