---------------------------- MODULE ExposureProofs ----------------------------
(***************************************************************************)
(* Proofs about Exposure for any ports, features and number of faults, and *)
(* about ExposureConsole for any number of console commands beside it.     *)
(***************************************************************************)
EXTENDS ExposureConsole, TLAPS

(***************************************************************************)
(* The four safety properties are proved together: that a restart finds    *)
(* switches that do not contradict each other rests on what every call     *)
(* wrote, and that the table follows the store on what every apply loaded. *)
(***************************************************************************)

IInv == TypeOK /\ NoMootAllowlist /\ KernelFollowsStore /\ ClosedStaysClosed /\ LiveHonest

\* The settings s contradict nothing.
SoundSettings(s) == s \in Settings /\ (s.ssh => Covering(s) = {})

-----------------------------------------------------------------------------
\* An apply of s ends with features s asked for, at the price of a fault.
LEMMA AppliedFacts ==
  ASSUME NEW s \in Settings, NEW a \in Applied(s)
  PROVE  /\ a.got \in Features /\ a.cost \in Nat
         /\ a.got.knock => s.ssh
         /\ a.got.gate => s.fwd
<1>1. Best(s) \in Features /\ (Best(s).knock => s.ssh) /\ (Best(s).gate => s.fwd)
  BY DEF Best, Features, Settings
<1>2. \A q \in Rungs(s) : q \in Features /\ (q.knock => s.ssh) /\ (q.gate => s.fwd)
  BY DEF Rungs, Features, Settings
<1>3. a = [got |-> Best(s), cost |-> 0] \/ \E q \in Rungs(s) : a = [got |-> q, cost |-> 1]
  BY DEF Applied
<1> QED BY <1>1, <1>2, <1>3

LEMMA TableTyped ==
  ASSUME NEW s \in Settings, NEW r \in Features
  PROVE  TableOf(s, r) \in Tables /\ TableOf(s, r) # NoTable
<1>1. s.pub \in SUBSET Ports /\ ConfigPorts \cup s.pub \in {ConfigPorts \cup p : p \in SUBSET Ports}
  BY DEF Settings
<1>2. TableOf(s, r) \in Tables
  BY <1>1 DEF TableOf, Tables, Features, Settings
<1> QED BY <1>2, NoTableOK

LEMMA FailureFacts == ASSUME NEW s, NEW n \in ApplyFailure(s) PROVE n \in Nat
BY DEF ApplyFailure

LEMMA PayFacts ==
  ASSUME TypeOK, NEW n \in Nat, Pay(n)
  PROVE  faults' \in 0..MaxFaults
BY ExposureOK DEF Pay, TypeOK

\* Once s is in force in memory and its table is loaded, the invariant holds.
LEMMA LoadStep ==
  ASSUME NEW s, SoundSettings(s), NEW a \in Applied(s), Load(s, a.got), up', mem' = s,
         SoundSettings(disk'), answer' \in {"none", "ok", "error"}, faults' \in 0..MaxFaults,
         up' \in BOOLEAN
  PROVE  IInv'
<1>1. s \in Settings /\ a.got \in Features /\ (a.got.knock => s.ssh) /\ (a.got.gate => s.fwd)
  BY AppliedFacts DEF SoundSettings
<1>2. kern' = [ssh |-> s.ssh, knock |-> a.got.knock, gate |-> a.got.gate,
               pub |-> ConfigPorts \cup s.pub]
      /\ live' = a.got /\ torn' = FALSE
  BY DEF Load, TableOf
<1>3. kern' \in Tables
  BY <1>1, TableTyped DEF Load
<1>4. kern' # NoTable
  BY <1>3, NoTableOK
<1>5. TypeOK'
  BY <1>1, <1>2, <1>3 DEF TypeOK, SoundSettings
<1>6. NoMootAllowlist'
  BY <1>2 DEF NoMootAllowlist, SoundSettings, Covering
<1>7. KernelFollowsStore' /\ ClosedStaysClosed'
  BY <1>1, <1>2, <1>4 DEF KernelFollowsStore, ClosedStaysClosed
<1>8. LiveHonest'
  BY <1>1, <1>2 DEF LiveHonest, Features
<1> QED BY <1>5, <1>6, <1>7, <1>8 DEF IInv

\* A step after which table, report and switches in memory are what they were.
LEMMA KeepStep ==
  ASSUME IInv, SameTable, up' = up, SoundSettings(mem'), mem'.ssh = mem.ssh, mem'.fwd = mem.fwd,
         mem'.pub = mem.pub, SoundSettings(disk'), answer' \in {"none", "ok", "error"},
         faults' \in 0..MaxFaults
  PROVE  IInv'
<1>1. TypeOK'
  BY DEF IInv, TypeOK, SameTable, SoundSettings
<1>2. NoMootAllowlist' /\ LiveHonest'
  BY DEF IInv, NoMootAllowlist, LiveHonest, SameTable, SoundSettings
<1>3. KernelFollowsStore' /\ ClosedStaysClosed'
  BY DEF IInv, KernelFollowsStore, ClosedStaysClosed, SameTable
<1> QED BY <1>1, <1>2, <1>3 DEF IInv

LEMMA RefuseStep ==
  ASSUME IInv, Refuse, NEW n \in Nat, Pay(n) PROVE IInv'
<1>1. SoundSettings(mem) /\ SoundSettings(disk)
  BY DEF IInv, TypeOK, NoMootAllowlist, SoundSettings
<1>2. faults' \in 0..MaxFaults
  BY PayFacts DEF IInv
<1> QED BY <1>1, <1>2, KeepStep DEF Refuse

\* A switch that loaded and was set, whether or not it could be saved.
LEMMA SettleStep ==
  ASSUME IInv, up, NEW s, SoundSettings(s), NEW a \in Applied(s), Load(s, a.got), Settle(s, a.cost)
  PROVE  IInv'
<1>1. a.cost \in Nat /\ a.cost + 1 \in Nat
  BY AppliedFacts DEF SoundSettings
<1>2. faults' \in 0..MaxFaults
  BY <1>1, PayFacts DEF Settle, IInv
<1>3. SoundSettings(disk) /\ up \in BOOLEAN
  BY DEF IInv, TypeOK, NoMootAllowlist, SoundSettings
<1> QED BY <1>2, <1>3, LoadStep DEF Settle

-----------------------------------------------------------------------------
LEMMA InvStep == IInv /\ [Next]_vars => IInv'
<1> SUFFICES ASSUME IInv, [Next]_vars PROVE IInv'
  OBVIOUS
<1>0. SoundSettings(mem) /\ SoundSettings(disk) /\ TypeOK /\ up \in BOOLEAN
  BY DEF IInv, TypeOK, NoMootAllowlist, SoundSettings
<1>1. ASSUME NEW s, ApplyFails(s) PROVE IInv'
  BY <1>1, RefuseStep, FailureFacts DEF ApplyFails
<1>2. ASSUME NEW on \in BOOLEAN, SetSsh(on) PROVE IInv'
  <2> DEFINE want == [mem EXCEPT !.ssh = on]
  <2>1. SoundSettings(want)
    BY <1>0, <1>2 DEF SetSsh, SoundSettings, Settings, Covering
  <2>2. CASE ApplyFails(want)
    BY <1>1, <2>2
  <2>3. ASSUME NEW a \in Applied(want), Load(want, a.got), Settle(want, a.cost) PROVE IInv'
    BY <1>2, <2>1, <2>3, SettleStep DEF SetSsh
  <2>4. ASSUME NEW a \in Applied(want), on, ~a.got.knock, answer' = "error",
               UNCHANGED <<up, mem, disk>>,
               NEW b \in Applied(mem), Load(mem, b.got), Pay(a.cost + b.cost)
        PROVE  IInv'
    <3>1. a.cost + b.cost \in Nat
      BY <1>0, <2>1, AppliedFacts DEF SoundSettings
    <3>2. faults' \in 0..MaxFaults
      BY <1>0, <2>4, <3>1, PayFacts
    <3> QED BY <1>0, <1>2, <2>4, <3>2, LoadStep DEF SetSsh
  <2>5. ASSUME NEW a \in Applied(want), on, ~a.got.knock, answer' = "error",
               UNCHANGED <<up, mem, disk>>,
               NEW n \in ApplyFailure(mem), Pay(a.cost + n),
               kern' = TableOf(want, a.got), live' = a.got, torn' = TRUE
        PROVE  IInv'
    <3>1. a.cost + n \in Nat /\ a.got \in Features
      BY <2>1, AppliedFacts, FailureFacts DEF SoundSettings
    <3>2. faults' \in 0..MaxFaults
      BY <1>0, <2>5, <3>1, PayFacts
    <3>. on = TRUE /\ mem' = mem /\ disk' = disk /\ up' = up
      BY <2>5
    <3>3. kern' = [ssh |-> TRUE, knock |-> a.got.knock, gate |-> a.got.gate,
                   pub |-> ConfigPorts \cup mem.pub]
      BY <1>0, <2>5 DEF TableOf, SoundSettings, Settings
    <3>4. kern' \in Tables /\ kern' # NoTable
      BY <2>1, <2>5, <3>1, TableTyped DEF SoundSettings
    <3>5. TypeOK'
      BY <1>0, <2>5, <3>1, <3>2, <3>4 DEF TypeOK
    <3>6. Covering(mem) = {}
      BY <1>2, <2>5 DEF SetSsh
    <3>7. NoMootAllowlist'
      <4>1. kern'.pub \cap SshPorts = {}
        BY <3>3, <3>6 DEF Covering
      <4> QED BY <1>0, <3>6, <4>1 DEF NoMootAllowlist, Covering, SoundSettings
    <3>8. torn' = TRUE /\ live' = a.got
      BY <2>5
    <3>9. KernelFollowsStore' /\ ClosedStaysClosed' /\ LiveHonest'
      BY <3>1, <3>3, <3>4, <3>8 DEF KernelFollowsStore, ClosedStaysClosed, LiveHonest, Features
    <3> QED BY <3>5, <3>7, <3>9 DEF IInv
  <2> QED BY <1>2, <2>2, <2>3, <2>4, <2>5 DEF SetSsh
<1>3. ASSUME NEW on \in BOOLEAN, SetForward(on) PROVE IInv'
  <2> DEFINE want == [mem EXCEPT !.fwd = on]
  <2>1. SoundSettings(want) /\ want.ssh = mem.ssh /\ want.pub = mem.pub
    BY <1>0 DEF SoundSettings, Settings, Covering
  <2>2. CASE ApplyFails(want)
    BY <1>1, <2>2
  <2>3. ASSUME NEW a \in Applied(want), Load(want, a.got), Settle(want, a.cost) PROVE IInv'
    BY <1>3, <2>1, <2>3, SettleStep DEF SetForward
  <2>4. ASSUME NEW a \in Applied(want), Load(want, a.got), ~a.got.gate, answer' = "error",
               Pay(a.cost), UNCHANGED <<up, mem, disk>>
        PROVE  IInv'
    <3>1. a.cost \in Nat /\ a.got \in Features /\ (a.got.knock => mem.ssh)
      BY <2>1, AppliedFacts DEF SoundSettings
    <3>2. faults' \in 0..MaxFaults
      BY <1>0, <2>4, <3>1, PayFacts
    <3>3. kern' = [ssh |-> mem.ssh, knock |-> a.got.knock, gate |-> FALSE,
                   pub |-> ConfigPorts \cup mem.pub]
          /\ live' = a.got /\ torn' = FALSE
      BY <2>1, <2>4, <3>1 DEF Load, TableOf, Features
    <3>4. kern' \in Tables /\ kern' # NoTable
      BY <2>1, <2>4, <3>1, TableTyped DEF Load, SoundSettings
    <3>5. TypeOK'
      BY <1>0, <2>4, <3>1, <3>2, <3>3, <3>4 DEF TypeOK
    <3>6. NoMootAllowlist'
      BY <1>0, <2>4, <3>3 DEF NoMootAllowlist, Covering, SoundSettings
    <3>7. KernelFollowsStore' /\ ClosedStaysClosed' /\ LiveHonest'
      BY <2>4, <3>1, <3>3, <3>4 DEF KernelFollowsStore, ClosedStaysClosed, LiveHonest, Features
    <3> QED BY <3>5, <3>6, <3>7 DEF IInv
  <2> QED BY <1>3, <2>2, <2>3, <2>4 DEF SetForward
<1>4. ASSUME NEW ports \in SUBSET Ports, up, mem.ssh => (ports \cup ConfigPorts) \cap SshPorts = {},
             SetPorts(ports)
      PROVE  IInv'
  <2> DEFINE want == [mem EXCEPT !.pub = ports]
  <2>1. SoundSettings(want)
    BY <1>0, <1>4 DEF SoundSettings, Settings, Covering
  <2>2. CASE ApplyFails(want)
    BY <1>1, <2>2
  <2>3. ASSUME NEW a \in Applied(want), Load(want, a.got), Settle(want, a.cost) PROVE IInv'
    BY <1>4, <2>1, <2>3, SettleStep
  <2> QED BY <1>4, <2>2, <2>3 DEF SetPorts
<1>5. ASSUME NEW p \in Ports, AddPort(p) PROVE IInv'
  <2>1. mem.pub \cup {p} \in SUBSET Ports
        /\ (mem.ssh => (mem.pub \cup {p} \cup ConfigPorts) \cap SshPorts = {})
    BY <1>0, <1>5 DEF AddPort, SoundSettings, Settings, Covering
  <2> QED BY <1>4, <1>5, <2>1 DEF AddPort
<1>6. ASSUME NEW p \in Ports, RemovePort(p) PROVE IInv'
  <2>1. mem.pub \ {p} \in SUBSET Ports
        /\ (mem.ssh => ((mem.pub \ {p}) \cup ConfigPorts) \cap SshPorts = {})
    BY <1>0, <1>6 DEF RemovePort, SoundSettings, Settings, Covering
  <2> QED BY <1>4, <1>6, <2>1 DEF RemovePort
<1>7. ASSUME NEW l \in Lists, ChangeList(l) PROVE IInv'
  <2>1. mem' = [mem EXCEPT !.list = l] /\ (disk' = mem' \/ disk' = disk) /\ SameTable
        /\ up' = up /\ answer' = answer
    BY <1>7 DEF ChangeList
  <2>2. SoundSettings(mem') /\ mem'.ssh = mem.ssh /\ mem'.fwd = mem.fwd /\ mem'.pub = mem.pub
    BY <1>0, <2>1 DEF SoundSettings, Settings, Covering
  <2>3. faults' \in 0..MaxFaults
    BY <1>0, <1>7, PayFacts DEF ChangeList
  <2> QED BY <1>0, <2>1, <2>2, <2>3, KeepStep DEF TypeOK
<1>8. ASSUME SaveStore PROVE IInv'
  BY <1>0, <1>8, KeepStep DEF SaveStore, TypeOK
<1>9. ASSUME Rebuild PROVE IInv'
  <2>1. PICK a \in Applied(mem) : Load(mem, a.got) /\ Pay(1 + a.cost)
    BY <1>9 DEF Rebuild
  <2>2. 1 + a.cost \in Nat
    BY <1>0, AppliedFacts DEF SoundSettings
  <2>3. faults' \in 0..MaxFaults
    BY <1>0, <2>1, <2>2, PayFacts
  <2> QED BY <1>0, <1>9, <2>1, <2>3, LoadStep DEF Rebuild, TypeOK
<1>10. ASSUME Boot PROVE IInv'
  <2>1. PICK a \in Applied(disk) : Load(disk, a.got) /\ Pay(a.cost)
    BY <1>10 DEF Boot
  <2>2. faults' \in 0..MaxFaults
    BY <1>0, <2>1, AppliedFacts, PayFacts DEF SoundSettings
  <2> QED BY <1>0, <1>10, <2>1, <2>2, LoadStep DEF Boot, TypeOK
<1>11. ASSUME Crash PROVE IInv'
  <2>1. faults' \in 0..MaxFaults
    BY <1>0, <1>11, PayFacts DEF Crash
  <2> QED BY <1>11, <2>1 DEF Crash, IInv, TypeOK, NoMootAllowlist, KernelFollowsStore,
                            ClosedStaysClosed, LiveHonest
<1>12. ASSUME UNCHANGED vars PROVE IInv'
  BY <1>12 DEF vars, IInv, TypeOK, NoMootAllowlist, KernelFollowsStore,
               ClosedStaysClosed, LiveHonest, Covering
<1> QED
  BY <1>2, <1>3, <1>5, <1>6, <1>7, <1>8, <1>9, <1>10, <1>11, <1>12 DEF Next, SettingsCall

LEMMA InvHolds == Spec => []IInv
<1>1. Init => IInv
  <2> SUFFICES ASSUME Init PROVE IInv
    OBVIOUS
  <2>1. Fresh \in Settings /\ ~Fresh.ssh
    BY ExposureOK DEF Fresh, Settings
  <2>2. live \in Features /\ 0 \in 0..MaxFaults
    BY ExposureOK DEF Init, Features
  <2>. TypeOK
    BY <2>1, <2>2 DEF Init, TypeOK
  <2>3. NoMootAllowlist /\ KernelFollowsStore /\ ClosedStaysClosed /\ LiveHonest
    BY <2>1 DEF Init, NoMootAllowlist, KernelFollowsStore, ClosedStaysClosed, LiveHonest
  <2> QED BY <2>3 DEF IInv
<1> QED BY <1>1, InvStep, PTL DEF Spec

\* AckedSettingsLast needs of the invariant only that the store is well-typed:
\* a call either saves what it sets, or is answered with an error.
LEMMA AckedStep == TypeOK /\ AckedSettingsLast /\ [Next]_vars => AckedSettingsLast'
<1> SUFFICES ASSUME TypeOK, AckedSettingsLast, [Next]_vars PROVE AckedSettingsLast'
  OBVIOUS
<1>1. ASSUME NEW s, ApplyFails(s) PROVE AckedSettingsLast'
  BY <1>1 DEF ApplyFails, Refuse, AckedSettingsLast
<1>2. ASSUME NEW s, NEW cost, Settle(s, cost) PROVE AckedSettingsLast'
  BY <1>2 DEF Settle, AckedSettingsLast
<1>3. ASSUME answer' = "error" PROVE AckedSettingsLast'
  BY <1>3 DEF AckedSettingsLast
<1>4. ASSUME NEW on \in BOOLEAN, SetSsh(on) \/ SetForward(on) PROVE AckedSettingsLast'
  BY <1>1, <1>2, <1>3, <1>4 DEF SetSsh, SetForward
<1>5. ASSUME NEW p \in Ports, AddPort(p) \/ RemovePort(p) PROVE AckedSettingsLast'
  BY <1>1, <1>2, <1>5 DEF AddPort, RemovePort, SetPorts
<1>6. ASSUME NEW l \in Lists, ChangeList(l) PROVE AckedSettingsLast'
  <2>1. mem'.ssh = mem.ssh /\ mem'.fwd = mem.fwd /\ mem'.pub = mem.pub
    BY <1>6 DEF ChangeList, TypeOK, Settings
  <2> QED BY <1>6, <2>1 DEF ChangeList, AckedSettingsLast
<1>7. CASE SaveStore \/ Rebuild \/ Boot \/ Crash
  BY <1>7 DEF SaveStore, Rebuild, Boot, Crash, AckedSettingsLast
<1>8. CASE UNCHANGED vars
  BY <1>8 DEF vars, AckedSettingsLast
<1> QED BY <1>4, <1>5, <1>6, <1>7, <1>8 DEF Next, SettingsCall

-----------------------------------------------------------------------------
\* NoMootAllowlist, for any ports and faults: no order of switch and port
\* calls, failed saves and restarts yields settings that contradict each other.
THEOREM NoMootAllowlistHolds == Spec => []NoMootAllowlist
BY InvHolds, PTL DEF IInv

\* KernelFollowsStore, for any features the kernel supports: the ladder of
\* apply_ruleset gives up optional features only, whatever fails on the way.
THEOREM KernelFollowsStoreHolds == Spec => []KernelFollowsStore
BY InvHolds, PTL DEF IInv

\* ClosedStaysClosed: a restriction of SSH in force is in the kernel, even
\* after a refused switch could not be undone.
THEOREM ClosedStaysClosedHolds == Spec => []ClosedStaysClosed
BY InvHolds, PTL DEF IInv

\* LiveHonest: Live::record follows every apply of the process, so the
\* reported features are the loaded ones.
THEOREM LiveHonestHolds == Spec => []LiveHonest
BY InvHolds, PTL DEF IInv

\* KernelTruthful, the three together: no failing transaction, save or restart makes
\* store, kernel and report part further than a failed restore explains.
THEOREM KernelTruthfulHolds == Spec => []KernelTruthful
BY KernelFollowsStoreHolds, ClosedStaysClosedHolds, LiveHonestHolds, PTL DEF KernelTruthful

\* AckedSettingsLast: a settings call answered "ok" survives every failed save
\* of another component, every crash and every restart.
THEOREM AckedSettingsLastHolds == Spec => []AckedSettingsLast
<1>1. Init => AckedSettingsLast
  BY DEF Init, AckedSettingsLast
<1>2. IInv => TypeOK
  BY DEF IInv
<1> QED BY <1>1, <1>2, InvHolds, AckedStep, PTL DEF Spec

-----------------------------------------------------------------------------
(***************************************************************************)
(* Both the service and a command write state.json whole, so what has to   *)
(* be shown of NoMixedSettings is that every copy either may still write   *)
(* is sound by itself.  What the service keeps of its invariant beside a   *)
(* command is only Safe: a table loaded from the console is not the one    *)
(* its memory or its report names.                                         *)
(***************************************************************************)

Safe == TypeOK /\ NoMootAllowlist

\* Both copies of the store a command holds contradict nothing, and what it has
\* written is what state.json holds as long as the service has saved nothing since.
CInv ==
  /\ Safe
  /\ con \in Commands /\ SoundSettings(con.old) /\ SoundSettings(con.new)
  /\ con.step = "restart" /\ ~con.raced => disk = con.new
  /\ con.step = "done" /\ ~con.raced /\ ~con.moved =>
       /\ Position(disk, con.switch) = Position(con.new, con.switch)
       /\ up => InForce
  /\ runs \in 0..MaxRuns

-----------------------------------------------------------------------------
\* Whoever loads it, the table of sound settings leaves no public port on sshd.
LEMMA SafeLoad ==
  ASSUME NEW s, SoundSettings(s), NEW a \in Applied(s), kern' = TableOf(s, a.got),
         SoundSettings(mem'), SoundSettings(disk'),
         up' \in BOOLEAN, live' \in Features, torn' \in BOOLEAN,
         answer' \in {"none", "ok", "error"}, faults' \in 0..MaxFaults
  PROVE  Safe'
<1>1. a.got \in Features /\ kern' \in Tables
  BY AppliedFacts, TableTyped DEF SoundSettings
<1>2. kern'.ssh = s.ssh /\ kern'.pub = ConfigPorts \cup s.pub
  BY DEF TableOf
<1>3. TypeOK'
  BY <1>1 DEF TypeOK, SoundSettings
<1>4. NoMootAllowlist'
  BY <1>2 DEF NoMootAllowlist, SoundSettings, Covering
<1> QED BY <1>3, <1>4 DEF Safe

LEMMA SafeKeep ==
  ASSUME Safe, kern' = kern \/ kern' = NoTable, live' = live, torn' = torn, up' \in BOOLEAN,
         SoundSettings(mem'), SoundSettings(disk'),
         answer' \in {"none", "ok", "error"}, faults' \in 0..MaxFaults
  PROVE  Safe'
<1>1. TypeOK'
  BY DEF Safe, TypeOK, SoundSettings
<1>2. NoMootAllowlist'
  BY DEF Safe, NoMootAllowlist, SoundSettings
<1> QED BY <1>1, <1>2 DEF Safe

\* A settings call that asks for the sound settings s: refused, or loaded and then
\* set and saved, or loaded and given up.
LEMMA SafeCall ==
  ASSUME Safe, NEW s, SoundSettings(s),
         \/ ApplyFails(s)
         \/ \E a \in Applied(s) : Load(s, a.got) /\ Settle(s, a.cost)
         \/ \E a \in Applied(s) : /\ Load(s, a.got) /\ Pay(a.cost)
                                  /\ answer' = "error" /\ UNCHANGED <<up, mem, disk>>
  PROVE  Safe'
<1>1. SoundSettings(mem) /\ SoundSettings(disk) /\ TypeOK /\ up \in BOOLEAN
  BY DEF Safe, TypeOK, NoMootAllowlist, SoundSettings
<1>2. CASE ApplyFails(s)
  <2>1. PICK n \in ApplyFailure(s) : Pay(n) /\ Refuse
    BY <1>2 DEF ApplyFails
  <2>2. faults' \in 0..MaxFaults
    BY <1>1, <2>1, FailureFacts, PayFacts
  <2> QED BY <1>1, <2>1, <2>2, SafeKeep DEF Refuse, SameTable
<1>3. ASSUME NEW a \in Applied(s), Load(s, a.got), Settle(s, a.cost) PROVE Safe'
  <2>1. a.cost \in Nat /\ a.cost + 1 \in Nat /\ a.got \in Features
    BY AppliedFacts DEF SoundSettings
  <2>2. faults' \in 0..MaxFaults
    BY <1>1, <1>3, <2>1, PayFacts DEF Settle
  <2> QED BY <1>1, <1>3, <2>1, <2>2, SafeLoad DEF Settle, Load
<1>4. ASSUME NEW a \in Applied(s), Load(s, a.got), Pay(a.cost), answer' = "error",
             UNCHANGED <<up, mem, disk>>
      PROVE  Safe'
  <2>1. a.cost \in Nat /\ a.got \in Features
    BY AppliedFacts DEF SoundSettings
  <2>2. faults' \in 0..MaxFaults
    BY <1>1, <1>4, <2>1, PayFacts
  <2> QED BY <1>1, <1>4, <2>1, <2>2, SafeLoad DEF Load
<1> QED BY <1>2, <1>3, <1>4

\* No step of the service, taken alone, mixes settings.
LEMMA SafeService == Safe /\ Next => Safe'
<1> SUFFICES ASSUME Safe, Next PROVE Safe'
  OBVIOUS
<1>0. SoundSettings(mem) /\ SoundSettings(disk) /\ TypeOK /\ up \in BOOLEAN
  BY DEF Safe, TypeOK, NoMootAllowlist, SoundSettings
<1>1. ASSUME NEW on \in BOOLEAN, SetSsh(on) PROVE Safe'
  <2> DEFINE want == [mem EXCEPT !.ssh = on]
  <2>1. SoundSettings(want)
    BY <1>0, <1>1 DEF SetSsh, SoundSettings, Settings, Covering
  <2>2. CASE ApplyFails(want) \/ \E a \in Applied(want) : Load(want, a.got) /\ Settle(want, a.cost)
    BY <2>1, <2>2, SafeCall
  <2>3. ASSUME NEW a \in Applied(want), answer' = "error", UNCHANGED <<up, mem, disk>>,
               NEW b \in Applied(mem), Load(mem, b.got), Pay(a.cost + b.cost)
        PROVE  Safe'
    <3>1. a.cost + b.cost \in Nat /\ b.got \in Features
      BY <1>0, <2>1, AppliedFacts DEF SoundSettings
    <3>2. faults' \in 0..MaxFaults
      BY <1>0, <2>3, <3>1, PayFacts
    <3> QED BY <1>0, <2>3, <3>1, <3>2, SafeLoad DEF Load
  <2>4. ASSUME NEW a \in Applied(want), answer' = "error", UNCHANGED <<up, mem, disk>>,
               NEW n \in ApplyFailure(mem), Pay(a.cost + n),
               kern' = TableOf(want, a.got), live' = a.got, torn' = TRUE
        PROVE  Safe'
    <3>1. a.cost + n \in Nat /\ a.got \in Features
      BY <2>1, AppliedFacts, FailureFacts DEF SoundSettings
    <3>2. faults' \in 0..MaxFaults
      BY <1>0, <2>4, <3>1, PayFacts
    <3> QED BY <1>0, <2>1, <2>4, <3>1, <3>2, SafeLoad
  <2> QED BY <1>1, <2>2, <2>3, <2>4 DEF SetSsh
<1>2. ASSUME NEW on \in BOOLEAN, SetForward(on) PROVE Safe'
  <2> DEFINE want == [mem EXCEPT !.fwd = on]
  <2>1. SoundSettings(want)
    BY <1>0 DEF SoundSettings, Settings, Covering
  <2> QED BY <1>2, <2>1, SafeCall DEF SetForward
<1>3. ASSUME NEW ports \in SUBSET Ports, mem.ssh => (ports \cup ConfigPorts) \cap SshPorts = {},
             SetPorts(ports)
      PROVE  Safe'
  <2> DEFINE want == [mem EXCEPT !.pub = ports]
  <2>1. SoundSettings(want)
    BY <1>0, <1>3 DEF SoundSettings, Settings, Covering
  <2> QED BY <1>3, <2>1, SafeCall DEF SetPorts
<1>4. ASSUME NEW p \in Ports, AddPort(p) PROVE Safe'
  <2>1. mem.pub \cup {p} \in SUBSET Ports
        /\ (mem.ssh => (mem.pub \cup {p} \cup ConfigPorts) \cap SshPorts = {})
    BY <1>0, <1>4 DEF AddPort, SoundSettings, Settings, Covering
  <2> QED BY <1>3, <1>4, <2>1 DEF AddPort
<1>5. ASSUME NEW p \in Ports, RemovePort(p) PROVE Safe'
  <2>1. mem.pub \ {p} \in SUBSET Ports
        /\ (mem.ssh => ((mem.pub \ {p}) \cup ConfigPorts) \cap SshPorts = {})
    BY <1>0, <1>5 DEF RemovePort, SoundSettings, Settings, Covering
  <2> QED BY <1>3, <1>5, <2>1 DEF RemovePort
<1>6. ASSUME NEW l \in Lists, ChangeList(l) PROVE Safe'
  <2>1. SoundSettings([mem EXCEPT !.list = l])
    BY <1>0 DEF SoundSettings, Settings, Covering
  <2>2. faults' \in 0..MaxFaults
    BY <1>0, <1>6, PayFacts DEF ChangeList
  <2> QED BY <1>0, <1>6, <2>1, <2>2, SafeKeep DEF ChangeList, SameTable, TypeOK
<1>7. ASSUME SaveStore PROVE Safe'
  BY <1>0, <1>7, SafeKeep DEF SaveStore, SameTable, TypeOK
<1>8. ASSUME Rebuild PROVE Safe'
  <2>1. PICK a \in Applied(mem) : Load(mem, a.got) /\ Pay(1 + a.cost)
    BY <1>8 DEF Rebuild
  <2>2. 1 + a.cost \in Nat /\ a.got \in Features
    BY <1>0, AppliedFacts DEF SoundSettings
  <2>3. faults' \in 0..MaxFaults
    BY <1>0, <2>1, <2>2, PayFacts
  <2> QED BY <1>0, <1>8, <2>1, <2>2, <2>3, SafeLoad DEF Rebuild, Load, TypeOK
<1>9. ASSUME Boot PROVE Safe'
  <2>1. PICK a \in Applied(disk) : Load(disk, a.got) /\ Pay(a.cost)
    BY <1>9 DEF Boot
  <2>2. a.cost \in Nat /\ a.got \in Features
    BY <1>0, AppliedFacts DEF SoundSettings
  <2>3. faults' \in 0..MaxFaults
    BY <1>0, <2>1, <2>2, PayFacts
  <2> QED BY <1>0, <1>9, <2>1, <2>2, <2>3, SafeLoad DEF Boot, Load, TypeOK
<1>10. ASSUME Crash PROVE Safe'
  <2>1. faults' \in 0..MaxFaults
    BY <1>0, <1>10, PayFacts DEF Crash
  <2> QED BY <1>0, <1>10, <2>1, SafeKeep DEF Crash, TypeOK
<1> QED
  BY <1>1, <1>2, <1>4, <1>5, <1>6, <1>7, <1>8, <1>9, <1>10 DEF Next, SettingsCall

\* The call that sets a command's switch from a client.
SetsSwitch(switch) ==
  \E on \in BOOLEAN : IF switch = "ssh" THEN SetSsh(on) ELSE SetForward(on)

\* Unless a client sets the switch, the service leaves its position alone, in
\* memory and, whatever else it saves and however often it restarts, on disk.
LEMMA SwitchStays ==
  ASSUME Safe, Next, NEW switch \in {"ssh", "fwd"}, ~SetsSwitch(switch), NEW v,
         Position(disk, switch) = v, up => Position(mem, switch) = v
  PROVE  Position(disk', switch) = v /\ (up' => Position(mem', switch) = v)
<1>0. mem \in Settings /\ disk \in Settings
  BY DEF Safe, TypeOK
<1>1. ASSUME UNCHANGED <<up, mem, disk>>
      PROVE  Position(disk', switch) = v /\ (up' => Position(mem', switch) = v)
  BY <1>1
<1>2. ASSUME NEW s, NEW cost, up, Settle(s, cost), Position(s, switch) = Position(mem, switch)
      PROVE  Position(disk', switch) = v /\ (up' => Position(mem', switch) = v)
  BY <1>2 DEF Settle
<1>3. ASSUME NEW s, up, Position(s, switch) = Position(mem, switch),
             \/ ApplyFails(s)
             \/ \E a \in Applied(s) : Load(s, a.got) /\ Settle(s, a.cost)
             \/ UNCHANGED <<up, mem, disk>>
      PROVE  Position(disk', switch) = v /\ (up' => Position(mem', switch) = v)
  BY <1>1, <1>2, <1>3 DEF ApplyFails, Refuse
<1>4. ASSUME NEW on \in BOOLEAN, SetSsh(on)
      PROVE  Position(disk', switch) = v /\ (up' => Position(mem', switch) = v)
  <2> DEFINE want == [mem EXCEPT !.ssh = on]
  <2>1. switch = "fwd"
    BY <1>4 DEF SetsSwitch
  <2>2. Position(want, switch) = Position(mem, switch)
    BY <1>0, <2>1 DEF Position, Settings
  <2>3. \/ ApplyFails(want)
        \/ \E a \in Applied(want) : Load(want, a.got) /\ Settle(want, a.cost)
        \/ UNCHANGED <<up, mem, disk>>
    BY <1>4 DEF SetSsh
  <2> QED BY <1>3, <1>4, <2>2, <2>3 DEF SetSsh
<1>5. ASSUME NEW on \in BOOLEAN, SetForward(on)
      PROVE  Position(disk', switch) = v /\ (up' => Position(mem', switch) = v)
  <2> DEFINE want == [mem EXCEPT !.fwd = on]
  <2>1. switch = "ssh"
    BY <1>5 DEF SetsSwitch
  <2>2. Position(want, switch) = Position(mem, switch)
    BY <1>0, <2>1 DEF Position, Settings
  <2>3. \/ ApplyFails(want)
        \/ \E a \in Applied(want) : Load(want, a.got) /\ Settle(want, a.cost)
        \/ UNCHANGED <<up, mem, disk>>
    BY <1>5 DEF SetForward
  <2> QED BY <1>3, <1>5, <2>2, <2>3 DEF SetForward
<1>6. ASSUME NEW ports, up, SetPorts(ports)
      PROVE  Position(disk', switch) = v /\ (up' => Position(mem', switch) = v)
  <2> DEFINE want == [mem EXCEPT !.pub = ports]
  <2>1. Position(want, switch) = Position(mem, switch)
    BY <1>0 DEF Position, Settings
  <2> QED BY <1>3, <1>6, <2>1 DEF SetPorts
<1>7. ASSUME NEW l \in Lists, ChangeList(l)
      PROVE  Position(disk', switch) = v /\ (up' => Position(mem', switch) = v)
  <2>1. Position(mem', switch) = Position(mem, switch)
    BY <1>0, <1>7 DEF ChangeList, Position, Settings
  <2> QED BY <1>7, <2>1 DEF ChangeList
<1>8. CASE SaveStore \/ Rebuild \/ Boot \/ Crash
  BY <1>8 DEF SaveStore, Rebuild, Boot, Crash
<1> QED
  BY <1>4, <1>5, <1>6, <1>7, <1>8 DEF Next, SettingsCall, AddPort, RemovePort

-----------------------------------------------------------------------------
\* What a step of the service does to the command's record is to remember it.
LEMMA ServiceStep == CInv /\ Service => CInv'
<1> SUFFICES ASSUME CInv, Service PROVE CInv'
  OBVIOUS
<1> DEFINE m == con.moved \/ SetsSwitch(con.switch)
           r == con.raced \/ (con.step = "restart" /\ disk' # disk)
<1>1. con' = [con EXCEPT !.moved = m, !.raced = r]
  BY DEF Service, SetsSwitch
<1>2. m \in BOOLEAN /\ r \in BOOLEAN
  OBVIOUS
<1> HIDE DEF m, r
<1>3. /\ con' \in Commands /\ con'.step = con.step /\ con'.switch = con.switch
      /\ con'.old = con.old /\ con'.new = con.new /\ con'.moved = m /\ con'.raced = r
  BY <1>1, <1>2 DEF CInv, Commands
<1>4. Safe' /\ runs' = runs
  BY SafeService DEF CInv, Service
<1>5. SoundSettings(con'.old) /\ SoundSettings(con'.new)
  BY <1>3 DEF CInv
<1>6. ASSUME con'.step = "restart", ~con'.raced PROVE disk' = con'.new
  BY <1>3, <1>6 DEF CInv, r
<1>7. ASSUME con'.step = "done", ~con'.raced, ~con'.moved
      PROVE  /\ Position(disk', con'.switch) = Position(con'.new, con'.switch)
             /\ up' => Position(mem', con'.switch) = Position(con'.new, con'.switch)
  <2>1. con.step = "done" /\ ~con.raced /\ ~con.moved /\ ~SetsSwitch(con.switch)
    BY <1>3, <1>7 DEF m, r
  <2>2. con.switch \in {"ssh", "fwd"}
    BY DEF CInv, Commands
  <2>3. /\ Position(disk, con.switch) = Position(con.new, con.switch)
        /\ up => Position(mem, con.switch) = Position(con.new, con.switch)
    BY <2>1 DEF CInv, InForce
  <2>4. Safe /\ Next
    BY DEF CInv, Service
  <2> QED BY <1>3, <2>1, <2>2, <2>3, <2>4, SwitchStays
<1> QED BY <1>3, <1>4, <1>5, <1>6, <1>7 DEF CInv, InForce

\* A command checks the switch against the ports of its copy, never of the file.
LEMMA SafeCommand == CInv /\ Command => CInv'
<1> SUFFICES ASSUME CInv, Command PROVE CInv'
  OBVIOUS
<1>0. SoundSettings(mem) /\ SoundSettings(disk) /\ TypeOK /\ up \in BOOLEAN /\ Safe
  BY DEF CInv, Safe, TypeOK, NoMootAllowlist, SoundSettings
<1>1. ASSUME NEW step \in {"idle", "apply", "restore", "save", "restart", "done"}, Goes(step)
      PROVE  /\ con' \in Commands /\ con'.step = step /\ con'.switch = con.switch
             /\ con'.old = con.old /\ con'.new = con.new /\ con'.raced = con.raced
             /\ con'.moved = con.moved
  BY <1>1 DEF CInv, Goes, Commands
<1>2. ASSUME NEW step \in {"idle", "restore", "save"}, Goes(step), Safe', runs' = runs PROVE CInv'
  <2>1. /\ con' \in Commands /\ con'.step = step /\ con'.old = con.old /\ con'.new = con.new
    BY <1>1, <1>2
  <2> QED BY <1>2, <2>1 DEF CInv
<1>3. ASSUME NEW switch \in {"ssh", "fwd"}, NEW on \in BOOLEAN, Start(switch, on) PROVE CInv'
  <2>1. SoundSettings(Set(disk, switch, on))
    BY <1>0, <1>3 DEF Start, Set, SoundSettings, Settings, Covering
  <2>2. con' = [step |-> "apply", switch |-> switch, old |-> disk,
                new |-> Set(disk, switch, on), moved |-> FALSE, raced |-> FALSE]
    BY <1>3 DEF Start
  <2>3. con' \in Commands
    BY <1>0, <2>1, <2>2 DEF Commands, SoundSettings
  <2>4. runs' \in 0..MaxRuns
    BY <1>3, MaxRunsOK DEF Start, CInv
  <2>5. Safe'
    BY <1>0, <1>3 DEF Start, Safe, vars, TypeOK, NoMootAllowlist, Covering
  <2>6. con'.step = "apply" /\ con'.old = disk /\ con'.new = Set(disk, switch, on)
    BY <2>2
  <2> QED BY <1>0, <2>1, <2>3, <2>4, <2>5, <2>6 DEF CInv
<1>4. ASSUME NEW s, SoundSettings(s), UNCHANGED <<up, mem, disk, answer>>,
             \/ \E n \in ApplyFailure(s) : Pay(n) /\ SameTable
             \/ \E a \in Applied(s) : Pay(a.cost) /\ LoadUnseen(s, a.got)
      PROVE  Safe'
  <2>1. ASSUME NEW n \in ApplyFailure(s), Pay(n), SameTable PROVE Safe'
    <3>1. faults' \in 0..MaxFaults
      BY <1>0, <2>1, FailureFacts, PayFacts
    <3> QED BY <1>0, <1>4, <2>1, <3>1, SafeKeep DEF SameTable, TypeOK
  <2>2. ASSUME NEW a \in Applied(s), Pay(a.cost), LoadUnseen(s, a.got) PROVE Safe'
    <3>1. faults' \in 0..MaxFaults
      BY <1>0, <1>4, <2>2, AppliedFacts, PayFacts DEF SoundSettings
    <3> QED BY <1>0, <1>4, <2>2, <3>1, SafeLoad DEF LoadUnseen, TypeOK
  <2> QED BY <1>4, <2>1, <2>2
<1>5. CASE Apply
  <2>1. Safe'
    BY <1>4, <1>5 DEF Apply, CInv
  <2>2. \E step \in {"idle", "restore", "save"} : Goes(step)
    BY <1>5 DEF Apply
  <2> QED BY <1>2, <1>5, <2>1, <2>2 DEF Apply
<1>6. CASE RestoreOld
  <2>1. Safe'
    BY <1>4, <1>6 DEF RestoreOld, CInv
  <2> QED BY <1>2, <1>6, <2>1 DEF RestoreOld
<1>7. CASE Save
  <2>1. faults' \in 0..MaxFaults
    BY <1>0, <1>7, PayFacts DEF Save
  <2>2. Safe'
    BY <1>0, <1>7, <2>1, SafeKeep DEF Save, SameTable, TypeOK, CInv
  <2>3. CASE disk' = con.new /\ Goes("restart")
    <3>1. /\ con' \in Commands /\ con'.step = "restart"
          /\ con'.old = con.old /\ con'.new = con.new
      BY <1>1, <2>3
    <3> QED BY <1>7, <2>2, <2>3, <3>1 DEF Save, CInv
  <2>4. CASE Goes("idle")
    BY <1>2, <1>7, <2>2, <2>4 DEF Save
  <2> QED BY <1>7, <2>3, <2>4 DEF Save
<1>8. CASE Restart
  <2>1. faults' \in 0..MaxFaults
    BY <1>0, <1>8, PayFacts DEF Restart
  <2>2. Safe'
    BY <1>0, <1>8, <2>1, SafeKeep DEF Restart, SameTable, TypeOK
  <2>3. CASE up' = FALSE /\ Goes("done")
    <3>1. /\ con' \in Commands /\ con'.step = "done" /\ con'.switch = con.switch
          /\ con'.old = con.old /\ con'.new = con.new /\ con'.raced = con.raced
      BY <1>1, <2>3
    <3>2. ~con.raced => disk = con.new
      BY <1>8 DEF Restart, CInv
    <3> QED BY <1>8, <2>2, <2>3, <3>1, <3>2 DEF Restart, CInv
  <2>4. CASE Goes("idle")
    BY <1>2, <1>8, <2>2, <2>4 DEF Restart
  <2> QED BY <1>8, <2>3, <2>4 DEF Restart
<1> QED BY <1>3, <1>5, <1>6, <1>7, <1>8 DEF Command

LEMMA CInvHolds == CSpec => []CInv
<1>1. CInit => CInv
  <2> SUFFICES ASSUME CInit PROVE CInv
    OBVIOUS
  <2>1. SoundSettings(Fresh) /\ 0 \in 0..MaxRuns
    BY ExposureOK, MaxRunsOK DEF Fresh, Settings, SoundSettings
  <2>2. Safe
    <3>1. live \in Features /\ 0 \in 0..MaxFaults
      BY ExposureOK DEF CInit, Init, Features
    <3>2. TypeOK
      BY <2>1, <3>1 DEF CInit, Init, TypeOK, SoundSettings
    <3>3. NoMootAllowlist
      BY <2>1 DEF CInit, Init, NoMootAllowlist, SoundSettings
    <3> QED BY <3>2, <3>3 DEF Safe
  <2>3. con = Idle /\ Idle \in Commands /\ Idle.step = "idle" /\ Idle.old = Fresh
          /\ Idle.new = Fresh
    BY <2>1 DEF CInit, Idle, Commands, SoundSettings
  <2> QED BY <2>1, <2>2, <2>3 DEF CInit, CInv
<1>2. CInv /\ [CNext]_cvars => CInv'
  <2>1. CInv /\ UNCHANGED cvars => CInv'
    BY DEF CInv, cvars, vars, Safe, TypeOK, NoMootAllowlist, Covering, InForce, SoundSettings
  <2> QED BY <2>1, ServiceStep, SafeCommand DEF CNext
<1> QED BY <1>1, <1>2, PTL DEF CSpec

-----------------------------------------------------------------------------
\* NoMixedSettings, for any ports, faults and number of commands: the console and the
\* service overwrite each other's state.json, but no order of their loads, saves and
\* restarts leaves settings in which public ports undo "SSH for the allowlist only".
THEOREM NoMixedSettingsHolds == CSpec => []NoMixedSettings
<1>1. CInv => NoMixedSettings
  BY DEF CInv, Safe, NoMixedSettings
<1> QED BY <1>1, CInvHolds, PTL

\* RescueHolds: what `ssh-expose` or `forward-expose` saved is what the restarted service
\* comes up with and keeps, through every later call, save and crash.
THEOREM RescueHoldsAlways == CSpec => []RescueHolds
<1>1. CInv => RescueHolds
  BY DEF CInv, RescueHolds
<1> QED BY <1>1, CInvHolds, PTL
==============================================================================
