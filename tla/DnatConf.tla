------------------------------ MODULE DnatConf -------------------------------
(***************************************************************************)
(* The configuration file of the `dnat` tool, which is not the agent's:    *)
(* the tool's daemon and its user edit it too.  The agent only takes lines *)
(* out, by key, from RPC threads and console commands: it locks conf.lock  *)
(* (flock), reads the file, drops the lines, writes conf.tmp, renames it   *)
(* over the file, unlocks, and has `dnat apply` load the result.           *)
(*                                                                         *)
(* A line is a record of what parse_line looks at; how it is written is    *)
(* left out.  Ports are <<p>> for a single one and <<a, b>> for a range.   *)
(***************************************************************************)
EXTENDS Naturals, Sequences

CONSTANTS
  Removers,      \* threads and commands that take out rules
  ConfLines,     \* what can stand in the file
  FirstConfs,    \* contents of the file at first
  AskedKeys,     \* keys clients ask for, of rules and others
  NoOne,         \* nobody holds the lock
  DnatTool,      \* the tool's daemon and user
  MaxConfLines,  \* bound: lines in the file
  MaxConfSteps,  \* bound: removals asked for and edits of the tool
  MaxConfFaults  \* bound: failing reads, writes and applies, dying processes

ASSUME DnatConfOK ==
  /\ FirstConfs \subseteq Seq(ConfLines) /\ AskedKeys # {}
  /\ \A text \in FirstConfs : Len(text) <= MaxConfLines
  /\ NoOne \notin Removers \cup {DnatTool} /\ DnatTool \notin Removers
  /\ MaxConfLines \in Nat /\ MaxConfSteps \in Nat /\ MaxConfFaults \in Nat

VARIABLES
  dconf,      \* lines of the file
  dtmp,       \* lines of conf.tmp
  confLock,   \* who holds conf.lock
  applying,   \* who runs `dnat apply` (it holds apply.lock) and what it read
  dtable,     \* rules in dnat's table
  removal,    \* per remover: the removal under way or the last one
  confSteps, confFaults

confVars == <<dconf, dtmp, confLock, applying, dtable, removal, confSteps, confFaults>>

LinesOf(text) == {text[i] : i \in 1..Len(text)}
Width(ports) == ports[Len(ports)] - ports[1]

-----------------------------------------------------------------------------
\* parse_line

\* A range has to go up; 0 is no port.
ParsesAsPorts(ports) == ports[1] # 0 /\ (Len(ports) = 2 => ports[1] < ports[2])

\* Everything else is skipped: comments, and lines dnat would skip itself.
IsRule(l) ==
  /\ l.fields = 4 /\ l.iface # "" /\ l.host # "" /\ l.source \in {"auto", "ip"}
  /\ ParsesAsPorts(l.listen) /\ ParsesAsPorts(l.dest)
  /\ Len(l.listen) = 2 /\ Len(l.dest) = 2 => Width(l.listen) = Width(l.dest)

RulesOf(text) == {l \in LinesOf(text) : IsRule(l)}

PrefixKey(l) == Append(l.listen, l.iface)

\* Mutant: the key is compared as the beginning of a line.
HasKeyPrefix(l, key) ==
  IsRule(l) /\ Len(key) <= Len(PrefixKey(l)) /\ SubSeq(PrefixKey(l), 1, Len(key)) = key

\* Only a line that parses has a key, and all of it has to fit.
HasKey(l, key) == IsRule(l) /\ PrefixKey(l) = key

\* The clients know the key of every rule.
ASSUME DnatKeysOK == \A l \in ConfLines : IsRule(l) => PrefixKey(l) \in AskedKeys

\* The lines of text that are in S, in their order.
Filtered(text, S) ==
  LET f[n \in 0..Len(text)] ==
        IF n = 0 THEN <<>>
        ELSE IF text[n] \in S THEN Append(f[n - 1], text[n]) ELSE f[n - 1]
  IN  f[Len(text)]

\* remove_rule_lines
Without(text, key) == Filtered(text, {l \in LinesOf(text) : ~HasKey(l, key)})

-----------------------------------------------------------------------------
\* remove_prefix

Removals == [step : {"none", "lock", "read", "write", "rename", "apply", "applying", "done"},
             key : AskedKeys, text : Seq(ConfLines),
             answer : {"none", "removed", "absent", "error"},
             applied : BOOLEAN,  \* its `dnat apply` succeeded
             gone : BOOLEAN]     \* history: no line of the key was added since

NewRemoval(key) == [step |-> "lock", key |-> key, text |-> <<>>, answer |-> "none",
                    applied |-> FALSE, gone |-> FALSE]
Steps(r, step) == removal' = [removal EXCEPT ![r].step = step]
Answers(r, answer) == removal' = [removal EXCEPT ![r].step = "done", ![r].answer = answer,
                                                 ![r].text = <<>>]
ConfFault == confFaults < MaxConfFaults /\ confFaults' = confFaults + 1
NoConfFault == confFaults' = confFaults
ConfStep == confSteps < MaxConfSteps /\ confSteps' = confSteps + 1

AskRemoval(r, key) ==
  /\ removal[r].step \in {"none", "done"} /\ ConfStep
  /\ removal' = [removal EXCEPT ![r] = NewRemoval(key)]
  /\ UNCHANGED <<dconf, dtmp, confLock, applying, dtable, confFaults>>

\* dnat-rm looks the rule up first, without the lock.
DnatRm(r) == \E l \in RulesOf(dconf) : AskRemoval(r, PrefixKey(l))

\* Mutant: the lock is not waited for.
LockAnyway(r) ==
  /\ removal[r].step = "lock" /\ Steps(r, "read")
  /\ confLock' = r
  /\ UNCHANGED <<dconf, dtmp, applying, dtable, confSteps, confFaults>>

LockConf(r) ==
  /\ removal[r].step = "lock" /\ confLock = NoOne
  /\ confLock' = r /\ Steps(r, "read")
  /\ UNCHANGED <<dconf, dtmp, applying, dtable, confSteps, confFaults>>

\* A file that cannot be read passes for an empty one, with nothing to remove.
ReadConf(r) ==
  /\ removal[r].step = "read"
  /\ \/ removal' = [removal EXCEPT ![r].step = "write", ![r].text = dconf]
        /\ NoConfFault /\ confLock' = confLock
     \/ Answers(r, "absent") /\ ConfFault /\ confLock' = NoOne
  /\ UNCHANGED <<dconf, dtmp, applying, dtable, confSteps>>

\* Nothing to remove: unlock and say so.
NothingThere(r) ==
  /\ removal[r].step = "write"
  /\ Without(removal[r].text, removal[r].key) = removal[r].text
  /\ Answers(r, "absent") /\ confLock' = NoOne
  /\ UNCHANGED <<dconf, dtmp, applying, dtable, confSteps, confFaults>>

\* Mutant: conf.tmp is opened to append to what a dead remover left there.
WriteConfTmpAppending(r) ==
  /\ removal[r].step = "write"
  /\ Without(removal[r].text, removal[r].key) # removal[r].text
  /\ \/ /\ dtmp' = dtmp \o Without(removal[r].text, removal[r].key) /\ NoConfFault
        /\ Steps(r, "rename") /\ confLock' = confLock
     \/ ConfFault /\ Answers(r, "error") /\ confLock' = NoOne /\ dtmp' = dtmp
  /\ UNCHANGED <<dconf, applying, dtable, confSteps>>

WriteConfTmp(r) ==
  /\ removal[r].step = "write"
  /\ Without(removal[r].text, removal[r].key) # removal[r].text
  /\ \/ /\ dtmp' = Without(removal[r].text, removal[r].key) /\ NoConfFault
        /\ Steps(r, "rename") /\ confLock' = confLock
     \/ dtmp' = <<>> /\ ConfFault /\ Answers(r, "error") /\ confLock' = NoOne
  /\ UNCHANGED <<dconf, applying, dtable, confSteps>>

\* The rename commits the removal; the lock goes with it.
RenameConf(r) ==
  /\ removal[r].step = "rename" /\ confLock' = NoOne
  /\ \/ dconf' = dtmp /\ dtmp' = <<>> /\ NoConfFault
        /\ removal' = [removal EXCEPT ![r].step = "apply", ![r].text = <<>>, ![r].gone = TRUE]
     \/ UNCHANGED <<dconf, dtmp>> /\ ConfFault /\ Answers(r, "error")
  /\ UNCHANGED <<applying, dtable, confSteps>>

\* run_apply: the tool reads the file under a lock of its own.
StartApply(r) ==
  /\ removal[r].step = "apply" /\ applying.by = NoOne
  /\ applying' = [by |-> r, text |-> dconf] /\ Steps(r, "applying")
  /\ UNCHANGED <<dconf, dtmp, confLock, dtable, confSteps, confFaults>>

\* Mutant: the exit status of `dnat apply` is not looked at.
FinishApplyTrusting(r) ==
  /\ removal[r].step = "applying"
  /\ applying' = [by |-> NoOne, text |-> <<>>]
  /\ \/ dtable' = RulesOf(applying.text) /\ NoConfFault
     \/ dtable' = dtable /\ ConfFault
  /\ removal' = [removal EXCEPT ![r].step = "done", ![r].answer = "removed", ![r].applied = TRUE]
  /\ UNCHANGED <<dconf, dtmp, confLock, confSteps>>

\* A failing apply is logged only: the daemon applies the file before long.
FinishApply(r) ==
  /\ removal[r].step = "applying"
  /\ applying' = [by |-> NoOne, text |-> <<>>]
  /\ \E ok \in BOOLEAN :
       /\ dtable' = IF ok THEN RulesOf(applying.text) ELSE dtable
       /\ IF ok THEN NoConfFault ELSE ConfFault
       /\ removal' = [removal EXCEPT ![r].step = "done", ![r].answer = "removed", ![r].applied = ok]
  /\ UNCHANGED <<dconf, dtmp, confLock, confSteps>>

\* A process dies at any point and the kernel drops its lock; a `dnat apply` it
\* started finishes without it.
RemoverDies(r) ==
  /\ removal[r].step \notin {"none", "done"} /\ ConfFault
  /\ Answers(r, "error")
  /\ confLock' = IF confLock = r THEN NoOne ELSE confLock
  /\ applying' = IF applying.by = r THEN [applying EXCEPT !.by = DnatTool] ELSE applying
  /\ UNCHANGED <<dconf, dtmp, dtable, confSteps>>

RemovePrefix(r) ==
  \/ LockConf(r) \/ ReadConf(r) \/ NothingThere(r) \/ WriteConfTmp(r) \/ RenameConf(r)
  \/ StartApply(r) \/ FinishApply(r)

-----------------------------------------------------------------------------
\* The tool: edits under conf.lock, applies under apply.lock

ToolAdds(l) ==
  /\ confLock = NoOne /\ Len(dconf) < MaxConfLines /\ ConfStep
  /\ dconf' = Append(dconf, l)
  /\ removal' = [r \in Removers |->
                   IF HasKey(l, removal[r].key) THEN [removal[r] EXCEPT !.gone = FALSE] ELSE removal[r]]
  /\ UNCHANGED <<dtmp, confLock, applying, dtable, confFaults>>

ToolDrops(i) ==
  /\ confLock = NoOne /\ ConfStep
  /\ dconf' = SubSeq(dconf, 1, i - 1) \o SubSeq(dconf, i + 1, Len(dconf))
  /\ UNCHANGED <<dtmp, confLock, applying, dtable, removal, confFaults>>

ToolApplies ==
  /\ applying.by = NoOne /\ dtable # RulesOf(dconf)
  /\ applying' = [by |-> DnatTool, text |-> dconf]
  /\ UNCHANGED <<dconf, dtmp, confLock, dtable, removal, confSteps, confFaults>>

ToolApplied ==
  /\ applying.by = DnatTool
  /\ dtable' = RulesOf(applying.text) /\ applying' = [by |-> NoOne, text |-> <<>>]
  /\ UNCHANGED <<dconf, dtmp, confLock, removal, confSteps, confFaults>>

Tool ==
  \/ \E l \in ConfLines : ToolAdds(l)
  \/ \E i \in 1..Len(dconf) : ToolDrops(i)
  \/ ToolApplies \/ ToolApplied

-----------------------------------------------------------------------------
NoRemoval(key) == [NewRemoval(key) EXCEPT !.step = "none"]

ConfInit ==
  /\ dconf \in FirstConfs /\ dtmp = <<>> /\ confLock = NoOne
  /\ applying = [by |-> NoOne, text |-> <<>>] /\ dtable = RulesOf(dconf)
  /\ removal = [r \in Removers |-> NoRemoval(CHOOSE k \in AskedKeys : TRUE)]
  /\ confSteps = 0 /\ confFaults = 0

ConfNext ==
  \/ \E r \in Removers : (\E k \in AskedKeys : AskRemoval(r, k)) \/ DnatRm(r) \/ RemovePrefix(r) \/ RemoverDies(r)
  \/ Tool

ConfSpec == ConfInit /\ [][ConfNext]_confVars

-----------------------------------------------------------------------------
\* Properties

ConfTypeOK ==
  /\ dconf \in Seq(ConfLines) /\ dtmp \in Seq(ConfLines) /\ Len(dconf) <= MaxConfLines
  /\ confLock \in Removers \cup {NoOne}
  /\ applying \in [by : Removers \cup {NoOne, DnatTool}, text : Seq(ConfLines)]
  /\ dtable \subseteq ConfLines /\ removal \in [Removers -> Removals]
  /\ confSteps \in 0..MaxConfSteps /\ confFaults \in 0..MaxConfFaults

\* Removers beside each other and beside the tool's edits lose none of its lines
\* (remove_prefix under conf.lock), and take out no line but rules of the very key
\* asked for (remove_rule_lines): the agent only ever replaces the file by the lines
\* it holds at that moment, in their order, less those; comments, lines that do not
\* parse and rules whose key only begins alike stay.
EditsAreAtomic ==
  [][dconf' # dconf /\ removal' # removal =>
       \/ \E r \in Removers :
            /\ removal[r].step = "rename"
            /\ dconf' = Filtered(dconf, {l \in LinesOf(dconf) :
                          ~(IsRule(l) /\ Append(l.listen, l.iface) = removal[r].key)})
       \/ \E l \in ConfLines : dconf' = Append(dconf, l)]_confVars

\* A removal answered after a successful `dnat apply` is in force: no apply that
\* read the file earlier brings the rule back into dnat's table.
RemovedLeavesTable ==
  \A r \in Removers :
    LET m == removal[r] IN
    m.answer = "removed" /\ m.applied /\ m.gone => \A l \in dtable : ~HasKey(l, m.key)
==============================================================================
