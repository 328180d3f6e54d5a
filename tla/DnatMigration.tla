---------------------------- MODULE DnatMigration ----------------------------
(***************************************************************************)
(* Moving a forward from the `dnat` tool of the host to the agent beside   *)
(* the client calls and the resolve thread of Forwarding.tla: add the      *)
(* native rule, update the native table, see whether the rule resolved,    *)
(* and only then take the rule out of dnat's configuration.  The tool has  *)
(* its own table, which it matches first, and a daemon that follows its    *)
(* configuration.                                                          *)
(***************************************************************************)
EXTENDS Forwarding

CONSTANT DnatRules   \* what dnat's configuration may hold at first: [key, host]
ASSUME DnatRulesOK == DnatRules \subseteq [key : Keys, host : Hosts]
ASSUME SomethingToForward == Keys # {} /\ Hosts # {}

VARIABLES
  conf,    \* rules in dnat's configuration
  dkern,   \* rules in dnat's table
  mig,     \* per call: the migration under way
  wanted   \* history: keys forwarded at first and not given up by a client

mvars == <<vars, conf, dkern, mig, wanted>>

NoRule == [key |-> CHOOSE k \in Keys : TRUE, host |-> CHOOSE h \in Hosts : TRUE]
NoMig == [step |-> "none", rule |-> NoRule, id |-> 0]
Migs == [step : {"none", "add", "wait", "retire", "undo"},
         rule : [key : Keys, host : Hosts], id : 0..MaxEdits]

Moves(c, step) == mig' = [mig EXCEPT ![c].step = step]
Leaves(c) == mig' = [mig EXCEPT ![c] = NoMig]
Ready(c) == Free(c) /\ mig[c].step = "none"
SameDnat == UNCHANGED <<conf, dkern, wanted>>

-----------------------------------------------------------------------------
\* migrate_dnat_forward

\* Find the rule, and refuse it where a native rule listens already.
MigrateStart(c, d) ==
  /\ Ready(c) /\ d \in conf /\ \A r \in rules : ~Meet(r.key, d.key)
  /\ mig' = [mig EXCEPT ![c] = [step |-> "add", rule |-> d, id |-> 0]]
  /\ UNCHANGED vars /\ SameDnat

\* The store is locked anew; a rule added to the key meanwhile is replaced.
MigrateAdd(c) ==
  /\ mig[c].step = "add" /\ AddRule(c, mig[c].rule.key, mig[c].rule.host)
  /\ mig' = [mig EXCEPT ![c] = IF job'[c].step # "copy" THEN NoMig
                               ELSE [@ EXCEPT !.step = "wait", !.id = edits']]
  /\ UNCHANGED <<up, nat, dns, last, shifts>> /\ SameDnat

\* Mutant: the cached address is not looked at.
CheckTrusting(c) ==
  /\ mig[c].step = "wait" /\ job[c].step = "idle"
  /\ IF job[c].ok THEN Moves(c, "retire") ELSE Leaves(c)
  /\ UNCHANGED vars /\ SameDnat

\* The update is done: an address in the cache passes for "in the kernel"; a rule
\* without one is taken back.  A failed update ends the call.
MigrateCheck(c) ==
  /\ mig[c].step = "wait" /\ job[c].step = "idle"
  /\ \/ ~job[c].ok /\ Leaves(c) /\ UNCHANGED vars
     \/ job[c].ok /\ cache[mig[c].id] # NoIp /\ Moves(c, "retire") /\ UNCHANGED vars
     \/ /\ job[c].ok /\ cache[mig[c].id] = NoIp /\ Moves(c, "undo")
        /\ rules' = {r \in rules : r.id # mig[c].id} /\ cache' = cache
        /\ \/ disk' = [rules |-> rules', cache |-> cache] /\ Pay(0)
           \/ disk' = disk /\ Pay(1)
        /\ Goes(c, "copy")
        /\ UNCHANGED <<up, nat, dns, last, edits, shifts>>
  /\ SameDnat

MigrateUndone(c) ==
  /\ mig[c].step = "undo" /\ job[c].step = "idle" /\ Leaves(c)
  /\ UNCHANGED vars /\ SameDnat

\* dnat applies its configuration at once or its daemon does later.
DropDnat(d) == conf' = conf \ {d} /\ dkern' \in {conf', dkern}

\* Take the rule out of dnat; failing that, the answer says the migration may be
\* tried again.
MigrateRetire(c) ==
  /\ mig[c].step = "retire" /\ Leaves(c)
  /\ \/ DropDnat(mig[c].rule) /\ UNCHANGED vars
     \/ /\ UNCHANGED <<conf, dkern>>
        /\ Pay(1) /\ UNCHANGED <<up, store, nat, dns, job, last, edits, shifts>>
  /\ wanted' = wanted

Migration(c) ==
  \/ \E d \in conf : MigrateStart(c, d)
  \/ MigrateAdd(c) \/ MigrateCheck(c) \/ MigrateUndone(c) \/ MigrateRetire(c)

-----------------------------------------------------------------------------
\* Everything else

RemoveDnat(c, d) ==
  /\ Ready(c) /\ d \in conf /\ DropDnat(d)
  /\ wanted' = wanted \ {d.key}
  /\ UNCHANGED <<vars, mig>>

DnatDaemon == dkern # conf /\ dkern' = conf /\ UNCHANGED <<vars, conf, mig, wanted>>

\* Client calls of Forwarding; a port that dnat listens on is refused.
NativeCall(c) ==
  /\ Ready(c)
  /\ \/ /\ \E k \in Keys, h \in Hosts :
             /\ \A d \in conf : ~Meet(d.key, k)
             /\ AddForward(c, k, h) \/ \E r \in rules : UpdateForward(c, r, k, h)
        /\ wanted' = wanted \ ({r.key : r \in rules} \ {r.key : r \in rules'})
     \/ \E r \in rules : RemoveForward(c, r) /\ wanted' = wanted \ {r.key}
  /\ UNCHANGED <<conf, dkern, mig>>

World ==
  \/ (\E w \in Workers : Update(w)) /\ UNCHANGED <<conf, dkern, mig, wanted>>
  \/ (Shift \/ Boot) /\ UNCHANGED <<conf, dkern, mig, wanted>>
  \/ Crash /\ mig' = [c \in Calls |-> NoMig] /\ SameDnat

MInit ==
  /\ Init /\ conf \in SUBSET DnatRules /\ dkern = conf /\ mig = [c \in Calls |-> NoMig]
  /\ wanted = {d.key : d \in conf}

MNext ==
  \/ \E c \in Calls : Migration(c) \/ NativeCall(c) \/ \E d \in conf : RemoveDnat(c, d)
  \/ DnatDaemon \/ World

MSpec == MInit /\ [][MNext]_mvars

MFairSpec ==
  /\ MSpec /\ WF_mvars(DnatDaemon) /\ WF_mvars(Boot /\ SameDnat /\ mig' = mig)
  /\ \A w \in Workers : WF_mvars(Update(w) /\ SameDnat /\ mig' = mig)
  /\ \A c \in Calls :
       WF_mvars(MigrateAdd(c) \/ MigrateCheck(c) \/ MigrateUndone(c) \/ MigrateRetire(c))

-----------------------------------------------------------------------------
\* Properties

MTypeOK ==
  /\ TypeOK /\ conf \subseteq DnatRules /\ dkern \subseteq DnatRules
  /\ mig \in [Calls -> Migs] /\ wanted \subseteq Keys

Kept(k) == (\E d \in conf : d.key = k) \/ \E r \in disk.rules : r.key = k
Served(k) == (\E d \in dkern : d.key = k) \/ \E n \in nat : n.key = k

\* Wherever a migration is interrupted, by a failure or by a crash: a forward no
\* client gave up is on disk, with dnat or with the agent.
NeverLost == \A k \in wanted : Kept(k)

\* "dnat's rule was kept" (handlers.rs:577), the answer of a migration that takes
\* its native rule back: a forward no client gave up is then still with dnat, or at
\* least in another native rule.
UndoneKept ==
  \A c \in Calls : mig[c].step = "undo" /\ mig[c].rule.key \in wanted => Kept(mig[c].rule.key)

\* A migrated forward ends up working: without faults and changing answers,
\* every forward no client gave up is served in the end.
MigrationServes ==
  [](faults = 0 /\ shifts = 0) => <>[](\A k \in wanted : Served(k))

\* The same for the native table as a whole: it ends up as the rules want it.
EndsServed == MigrationServes /\ ForwardsSettle
==============================================================================
