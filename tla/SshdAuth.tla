------------------------------ MODULE SshdAuth -------------------------------
(***************************************************************************)
(* Switching SSH password login: set_password_auth puts a managed block on *)
(* top of the main configuration of sshd, checks the configuration,        *)
(* reloads sshd, looks at what is effective, and rolls back on failure.    *)
(* Each request runs this without a lock, so the steps of two requests     *)
(* interleave; sshd itself reads the files only when it is reloaded.       *)
(*                                                                         *)
(* A configuration file is its managed block, if any, and what its owner   *)
(* wrote.  A write is one rename; two writers that collide in the          *)
(* temporary file they share count as a failing write.                     *)
(***************************************************************************)
EXTENDS Naturals

CONSTANTS
  Calls,     \* requests that can run at the same time
  Owners,    \* what the owner's part may set: "yes", "no", or "broken" when
             \* sshd rejects it
  Dropins,   \* what the drop-in of version 0.2.3 may set, "none" without one
  MaxCalls,  \* bound: requests made
  MaxFaults  \* bound: writes, checks, reloads and probes that fail

Values == {"yes", "no"}
ASSUME SshdOK ==
  /\ Owners \subseteq Values \cup {"broken"} /\ Dropins \subseteq Values \cup {"none"}
  /\ MaxCalls \in Nat /\ MaxFaults \in Nat

VARIABLES
  owner,    \* what the owner's part sets
  block,    \* managed block of the main file: a value, or "none"
  dropin,   \* the old drop-in: a value, or "none"
  running,  \* value sshd was last loaded with, or "down"
  call,     \* requests under way
  count,    \* requests made
  faults,   \* faults so far
  mixed,    \* history: requests have overlapped since sshd was last left alone
  acked,    \* history: value of the last request answered "ok", or "none"; one
            \* that overlapped another leaves it open
  torn      \* history: a part of a rollback failed since then

files == <<owner, block, dropin>>
history == <<mixed, acked, torn>>
vars == <<files, running, call, count, faults, history>>

Requests == [step : {"idle", "read", "write", "unlink", "check", "reload", "probe",
                     "undo", "again"},
             want : Values, prev : Values \cup {"none"},
             was : Values \cup {"broken"},  \* history: what the files meant when it read them
             had : Values \cup {"none"},    \* history: the drop-in there was then
             lost : BOOLEAN]  \* history: its rollback could not write the main file
None == [step |-> "idle", want |-> "no", prev |-> "none", was |-> "no",
         had |-> "none", lost |-> FALSE]

Pay(n) == faults + n <= MaxFaults /\ faults' = faults + n
Goes(c, step) == call' = [call EXCEPT ![c].step = step]
Ends(c) == call' = [call EXCEPT ![c] = None]

\* Mutant: only the managed block counts.
EffectiveOfBlock(b, d) == b

\* What sshd makes of the files: the first value it finds, the block before the
\* drop-in before the owner's own; nothing when it rejects them.
Effective(b, d) ==
  CASE owner = "broken" -> "broken"
    [] owner # "broken" /\ b # "none" -> b
    [] owner # "broken" /\ b = "none" /\ d # "none" -> d
    [] OTHER -> owner

\* `systemctl reload`, then `restart`: sshd takes the files; with files it
\* rejects it keeps its settings, or does not come back from a restart.
SshdLoads ==
  IF Effective(block, dropin) # "broken" THEN running' = Effective(block, dropin)
  ELSE running' \in {running, "down"}

-----------------------------------------------------------------------------
Ask(c, v) ==
  /\ call[c].step = "idle" /\ count < MaxCalls /\ count' = count + 1
  /\ call' = [call EXCEPT ![c] = [None EXCEPT !.step = "read", !.want = v]]
  /\ mixed' = (\E d \in Calls : call[d].step # "idle")
  /\ acked' = IF mixed' THEN "none" ELSE acked
  /\ UNCHANGED <<files, running, faults, torn>>

Read(c) ==
  /\ call[c].step = "read"
  /\ call' = [call EXCEPT ![c].step = "write", ![c].prev = block,
                          ![c].was = Effective(block, dropin), ![c].had = dropin]
  /\ UNCHANGED <<files, running, count, faults, history>>

\* The new block replaces the one that was read.
Write(c) ==
  /\ call[c].step = "write"
  /\ \/ block' = call[c].want /\ Pay(0) /\ Goes(c, "unlink")
     \/ block' = block /\ Pay(1) /\ Ends(c)
  /\ UNCHANGED <<owner, dropin, running, count, history>>

Unlink(c) ==
  /\ call[c].step = "unlink" /\ Goes(c, "check")
  /\ \/ dropin' = "none" /\ Pay(0)
     \/ dropin' = dropin /\ Pay(1)
  /\ UNCHANGED <<owner, block, running, count, history>>

\* A configuration that sshd rejects is not reloaded.
Check(c) ==
  /\ call[c].step = "check"
  /\ \/ Effective(block, dropin) # "broken" /\ Pay(0) /\ Goes(c, "reload")
     \/ Effective(block, dropin) = "broken" /\ Pay(0) /\ Goes(c, "undo")
     \/ Pay(1) /\ Goes(c, "undo")
  /\ UNCHANGED <<files, running, count, history>>

\* Mutant: a reload that failed is not noticed.
ReloadTrusting(c) ==
  /\ call[c].step = "reload" /\ Goes(c, "probe")
  /\ (SshdLoads /\ Pay(0)) \/ (running' = running /\ Pay(1))
  /\ UNCHANGED <<files, count, history>>

Reload(c) ==
  /\ call[c].step = "reload"
  /\ \/ SshdLoads /\ Pay(0) /\ Goes(c, "probe")
     \/ running' = running /\ Pay(1) /\ Goes(c, "undo")
  /\ UNCHANGED <<files, count, history>>

\* `sshd -T` reads the files, not the daemon.
Probe(c) ==
  /\ call[c].step = "probe"
  /\ \/ /\ Effective(block, dropin) = call[c].want /\ Pay(0) /\ Ends(c)
        /\ acked' = (IF mixed THEN "none" ELSE call[c].want)
        /\ torn' = (mixed /\ torn) /\ mixed' = mixed
     \/ /\ Effective(block, dropin) # call[c].want /\ Pay(0) /\ Goes(c, "undo")
        /\ UNCHANGED history
     \/ Pay(1) /\ Goes(c, "undo") /\ UNCHANGED history
  /\ UNCHANGED <<files, running, count>>

\* Mutant: the main file is not written back.
UndoNothing(c) ==
  /\ call[c].step = "undo" /\ Goes(c, "again") /\ Pay(0)
  /\ UNCHANGED <<files, running, count, history>>

\* The main file as it was read is written back, then sshd reloads; failures of
\* either are ignored.
Undo(c) ==
  /\ call[c].step = "undo"
  /\ \/ block' = call[c].prev /\ torn' = torn /\ Pay(0) /\ Goes(c, "again")
     \/ /\ block' = block /\ torn' = TRUE /\ Pay(1)
        /\ call' = [call EXCEPT ![c].step = "again", ![c].lost = TRUE]
  /\ UNCHANGED <<owner, dropin, running, count, mixed, acked>>

\* Mutant: the rollback is not followed by a reload.
AgainNothing(c) ==
  /\ call[c].step = "again" /\ Ends(c) /\ Pay(0)
  /\ UNCHANGED <<files, running, count, history>>

Again(c) ==
  /\ call[c].step = "again" /\ Ends(c)
  /\ \/ SshdLoads /\ torn' = torn /\ Pay(0)
     \/ running' = running /\ torn' = TRUE /\ Pay(1)
  /\ UNCHANGED <<files, count, mixed, acked>>

Init ==
  /\ owner \in Owners /\ block = "none" /\ dropin \in Dropins
  /\ running = IF owner # "broken" THEN Effective(block, dropin) ELSE "yes"
  /\ call = [c \in Calls |-> None] /\ count = 0 /\ faults = 0
  /\ mixed = FALSE /\ acked = "none" /\ torn = FALSE

Next ==
  \E c \in Calls :
    \/ \E v \in Values : Ask(c, v)
    \/ Read(c) \/ Write(c) \/ Unlink(c) \/ Check(c) \/ Reload(c) \/ Probe(c)
    \/ Undo(c) \/ Again(c)

Spec == Init /\ [][Next]_vars

-----------------------------------------------------------------------------
\* Properties

TypeOK ==
  /\ owner \in Owners /\ block \in Values \cup {"none"} /\ dropin \in Values \cup {"none"}
  /\ running \in Values \cup {"down"} /\ call \in [Calls -> Requests]
  /\ count \in 0..MaxCalls /\ faults \in 0..MaxFaults
  /\ mixed \in BOOLEAN /\ acked \in Values \cup {"none"} /\ torn \in BOOLEAN

Settled == (\A c \in Calls : call[c].step = "idle") /\ ~torn

\* Reloading is part of every way a request can end once it has written: however
\* requests overlap, when all are answered sshd runs with what its files say,
\* unless a rollback failed or sshd rejects them.
FilesInForce ==
  Settled /\ Effective(block, dropin) # "broken" => running = Effective(block, dropin)

\* "reload, then see that it is effective": requests that fail later leave sshd
\* and its files with the value last answered "ok".
AckInForce ==
  Settled /\ acked # "none" => running = acked /\ Effective(block, dropin) = acked

\* sshd runs with its files, and both say what was last acknowledged.
SshdInForce == FilesInForce /\ AckInForce

\* "Whatever step fails, the main configuration goes back to what it was, no
\* half-done setting stays behind": a rollback that wrote the main file back
\* leaves the files meaning what they meant before, where no old drop-in went
\* and no other request came in between.
RollbackRestores ==
  [][\A c \in Calls :
       /\ call[c].step = "again" /\ call[c].had = "none"
       /\ ~call[c].lost /\ ~mixed
       => Effective(block, dropin)' = call[c].was]_vars
=============================================================================
