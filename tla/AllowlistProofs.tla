--------------------------- MODULE AllowlistProofs ----------------------------
(***************************************************************************)
(* Proofs about Allowlist and AllowlistConsole for any targets,            *)
(* connections and bounds: the settled service, its refinement of          *)
(* GrantLedger, and what a console command said with the service down.     *)
(***************************************************************************)
EXTENDS AllowlistConsole, TLAPS

(***************************************************************************)
(* SettledAgree is not inductive: that a pass may end with "everything     *)
(* else agrees" rests on what it planned, and that rests on its snapshot.  *)
(* IInv says how much of a pass in progress is still true: of the targets  *)
(* that are not dirty the snapshot tells the present truth, and the plan   *)
(* repairs exactly the disagreements.                                      *)
(***************************************************************************)

\* Of a target that is not dirty, the snapshot still says whether it is live.
SnapshotHolds ==
  phase \in {"list", "fix"} =>
    \A t \in Targets \ dirty : Live(snap[t], snapAt) <=> Live(mem[t], now)

\* Of a target that is not dirty, the plan adds only a live one, removes only
\* a dead one, and leaves alone only one on which kernel and store agree.
PlanHolds ==
  phase = "fix" =>
    \A t \in Targets \ dirty :
      /\ t \in missing => Live(mem[t], now)
      /\ t \in stale => ~Live(mem[t], now)
      /\ t \notin missing \cup stale => Agree(t)

\* A process that is down is in no pass.
DownIsIdle == ~up => phase = "sleep"

IInv == TypeOK /\ SettledAgree /\ SnapshotHolds /\ PlanHolds /\ DownIsIdle

-----------------------------------------------------------------------------
\* The values the helpers return are entries and elements.
LEMMA CellFacts ==
  ASSUME TypeOK
  PROVE  /\ \A e \in Cell : ElementExpiry(e) \in Cell
         /\ \A m \in [Targets -> Cell], n \in Nat : Pruned(m, n) \in [Targets -> Cell]
         /\ \A m \in [Targets -> Cell] : Rendered(m) \in [Targets -> Cell]
         /\ \A t \in Targets, e \in Cell : AfterAdd(t, e) \subseteq Cell
         /\ NoEntries \in [Targets -> Cell]
<1>1. now \in Nat /\ kern \in [Targets -> Cell] /\ now + 1 \in Nat
  BY DEF TypeOK
<1>2. \A e \in Cell : ElementExpiry(e) \in Cell
  BY <1>1 DEF ElementExpiry, Cell, Lifetimes
<1>3. \A m \in [Targets -> Cell], n \in Nat : Pruned(m, n) \in [Targets -> Cell]
  BY DEF Pruned, Cell
<1>4. \A m \in [Targets -> Cell] : Rendered(m) \in [Targets -> Cell]
  BY <1>2 DEF Rendered, Cell
<1>5. \A t \in Targets, e \in Cell : AfterAdd(t, e) \subseteq Cell
  BY <1>1, <1>2 DEF AfterAdd
<1>6. NoEntries \in [Targets -> Cell]
  BY DEF NoEntries, Cell
<1> QED BY <1>2, <1>3, <1>4, <1>5, <1>6

\* Every step keeps every variable in its type.
LEMMA TypeStep == TypeOK /\ [Next]_vars => TypeOK'
<1> SUFFICES ASSUME TypeOK, [Next]_vars PROVE TypeOK'
  OBVIOUS
<1> USE ConstantsOK
<1>0. now \in Nat /\ snapAt \in Nat /\ now + 1 \in Nat /\ faults \in 0..MaxFaults
      /\ ops \in 0..MaxOps /\ MaxOps \in Nat /\ MaxFaults \in Nat
  BY DEF TypeOK
<1>1. ASSUME NEW c \in Clients, NEW t \in Targets, NEW e \in Cell, NEW next,
             next \in AddCalls \cup RemoveCalls, ChangeEntry(c, t, e, next)
      PROVE  TypeOK'
  BY <1>0, <1>1 DEF TypeOK, ChangeEntry, Touch, Saved, Fault, NoFault, pass
<1>2. ASSUME Request PROVE TypeOK'
  <2>1. PICK c \in Clients, t \in Targets :
          (\E e \in Expiries \cup {Never} : Allow(c, t, e)) \/ Revoke(c, t)
    BY <1>2 DEF Request
  <2>2. ASSUME NEW e \in Expiries \cup {Never}, Allow(c, t, e) PROVE TypeOK'
    <3>1. e \in Cell /\ [op |-> "add", target |-> t, exp |-> e] \in AddCalls
      BY DEF Cell, Lifetimes, AddCalls
    <3> QED BY <1>1, <2>2, <3>1 DEF Allow
  <2>3. ASSUME Revoke(c, t) PROVE TypeOK'
    <3>1. Absent \in Cell /\ [op |-> "remove", target |-> t] \in RemoveCalls
      BY DEF Cell, RemoveCalls
    <3> QED BY <1>1, <2>3, <3>1 DEF Revoke
  <2> QED BY <2>1, <2>2, <2>3
<1>3. ASSUME NEW c \in Clients, KernelAdd(c) PROVE TypeOK'
  <2>1. call[c].target \in Targets /\ call[c].exp \in Cell
    BY <1>3 DEF KernelAdd, AddCalls, Cell
  <2>2. AfterAdd(call[c].target, call[c].exp) \subseteq Cell
    BY <2>1, CellFacts
  <2> QED BY <1>0, <1>3, <2>1, <2>2
          DEF TypeOK, KernelAdd, Touch, Fault, NoFault, store, pass
<1>4. ASSUME NEW c \in Clients, KernelRemove(c) PROVE TypeOK'
  <2>1. call[c].target \in Targets /\ Absent \in Cell
    BY <1>4 DEF KernelRemove, RemoveCalls, Cell
  <2> QED BY <1>0, <1>4, <2>1
          DEF TypeOK, KernelRemove, Touch, Fault, NoFault, store, pass
<1>5. ASSUME Reapply PROVE TypeOK'
  BY <1>0, <1>5, CellFacts DEF TypeOK, Reapply, Saved, Fault, NoFault, pass
<1>6. ASSUME SaveStore PROVE TypeOK'
  BY <1>6 DEF TypeOK, SaveStore, Saved, pass, history
<1>7. ASSUME Snapshot PROVE TypeOK'
  BY <1>0, <1>7, CellFacts DEF TypeOK, Snapshot, Saved, Fault, NoFault, Phases
<1>8. ASSUME ListKernel PROVE TypeOK'
  BY <1>8 DEF TypeOK, ListKernel, MissingIn, StaleIn, store, history, Phases
<1>9. ASSUME ListFails PROVE TypeOK'
  BY <1>0, <1>9 DEF TypeOK, ListFails, Fault, store, history, Phases
<1>10. ASSUME NEW t \in Targets, FixMissing(t) PROVE TypeOK'
  <2>1. AfterAdd(t, snap[t]) \subseteq Cell
    BY CellFacts DEF TypeOK
  <2> QED BY <1>0, <1>10, <2>1 DEF TypeOK, FixMissing, Fixed, Unfixed, Fault, NoFault, store
<1>11. ASSUME NEW t \in Targets, FixStale(t) PROVE TypeOK'
  <2>1. Absent \in Cell
    BY DEF Cell
  <2> QED BY <1>0, <1>11, <2>1 DEF TypeOK, FixStale, Fixed, Unfixed, Fault, NoFault, store
<1>12. ASSUME PassDone PROVE TypeOK'
  BY <1>12, CellFacts DEF TypeOK, PassDone, EndPass, store, Phases
<1>13. ASSUME Rebuild PROVE TypeOK'
  BY <1>0, <1>13, CellFacts DEF TypeOK, Rebuild, EndPass, Fault, NoFault, store, Phases
<1>14. ASSUME Boot PROVE TypeOK'
  BY <1>0, <1>14, CellFacts DEF TypeOK, Boot, Saved, pass
<1>15. ASSUME BootFails PROVE TypeOK'
  BY <1>0, <1>15, CellFacts DEF TypeOK, BootFails, Fault, pass, history
<1>16. ASSUME Crash PROVE TypeOK'
  <2>1. kern' \in [Targets -> Cell] /\ snap' \in [Targets -> Cell]
    BY <1>16, CellFacts DEF TypeOK, Crash, EndPass
  <2>2. call' \in [Clients -> AddCalls \cup RemoveCalls \cup {NoCall}]
    BY <1>16 DEF Crash
  <2>3. faults' \in 0..MaxFaults
    BY <1>0, <1>16 DEF Crash, Fault
  <2>4. mem' = mem /\ disk' = disk /\ doubt' = doubt /\ now' = now /\ ops' = ops
    BY <1>16 DEF Crash, store
  <2> QED BY <1>0, <1>16, <2>1, <2>2, <2>3, <2>4 DEF TypeOK, Crash, EndPass, Phases
<1>17. ASSUME Tick PROVE TypeOK'
  <2>1. Absent \in Cell
    BY DEF Cell
  <2> QED BY <1>0, <1>17, <2>1 DEF TypeOK, Tick, store, pass
<1>18. ASSUME UNCHANGED vars PROVE TypeOK'
  BY <1>18 DEF TypeOK, vars
<1> QED
  BY <1>2, <1>3, <1>4, <1>5, <1>6, <1>7, <1>8, <1>9, <1>10, <1>11, <1>12, <1>13,
     <1>14, <1>15, <1>16, <1>17, <1>18 DEF Next, Handler, Reconcile

\* TypeOK holds in every reachable state: no handler, pass, fault or restart
\* leaves the store, the kernel sets or the thread states outside their types.
THEOREM TypeCorrect == Spec => []TypeOK
<1>1. Init => TypeOK
  <2> SUFFICES ASSUME Init PROVE TypeOK
    OBVIOUS
  <2>1. NoEntries \in [Targets -> Cell]
    BY DEF NoEntries, Cell
  <2> QED BY <2>1, ConstantsOK DEF Init, TypeOK, Phases
<1> QED BY <1>1, TypeStep, PTL DEF Spec

-----------------------------------------------------------------------------
\* What is live and what is not.

\* Pruning keeps what is live; time only matters to a finite expiry.
LEMMA LiveFacts ==
  ASSUME NEW n \in Nat
  PROVE  /\ ~Live(Absent, n)
         /\ \A m \in [Targets -> Cell], t \in Targets :
              Live(Pruned(m, n)[t], n) <=> Live(m[t], n)
         /\ \A e \in Cell, k \in Nat : e \notin Nat => (Live(e, n) <=> Live(e, k))
         /\ \A e \in Cell : Live(e, n + 1) => Live(e, n)
<1>1. ~Live(Absent, n)
  BY DEF Live
<1>2. \A m \in [Targets -> Cell], t \in Targets :
        Live(Pruned(m, n)[t], n) <=> Live(m[t], n)
  BY DEF Live, Pruned
<1>3. \A e \in Cell, k \in Nat : e \notin Nat => (Live(e, n) <=> Live(e, k))
  BY DEF Live
<1>4. \A e \in Cell : Live(e, n + 1) => Live(e, n)
  BY DEF Live
<1> QED BY <1>1, <1>2, <1>3, <1>4

\* A rendered table holds the live entries and no others.
LEMMA RenderedAgrees ==
  ASSUME TypeOK, NEW m \in [Targets -> Cell], NEW t \in Targets
  PROVE  Rendered(m)[t] # Absent <=> Live(m[t], now)
<1>1. now + 1 # Absent
  BY ConstantsOK DEF TypeOK
<1>2. Live(m[t], now) => ElementExpiry(m[t]) # Absent
  BY <1>1 DEF ElementExpiry, Live
<1> QED BY <1>2 DEF Rendered

-----------------------------------------------------------------------------
\* Each kind of step keeps the invariant.

\* A step that touches one target outside the running pass.
LEMMA TouchStep ==
  ASSUME IInv, TypeOK', NEW t \in Targets, Touch({t}), up, up' = up, now' = now,
         UNCHANGED pass,
         \A u \in Targets \ {t} : mem'[u] = mem[u] /\ kern'[u] = kern[u]
  PROVE  IInv'
<1>1. settled' \subseteq settled \ {t}
  BY DEF Touch
<1>2. phase # "sleep" => dirty' = dirty \cup {t}
  BY DEF Touch
<1>3. SettledAgree'
  BY <1>1 DEF IInv, TypeOK, SettledAgree, Agree, InKernel
<1>4. SnapshotHolds'
  BY <1>2 DEF IInv, TypeOK, SnapshotHolds, pass
<1>5. PlanHolds'
  BY <1>2 DEF IInv, TypeOK, PlanHolds, Agree, InKernel, pass
<1> QED BY <1>3, <1>4, <1>5 DEF IInv, DownIsIdle

\* A pass that is over leaves only the settled targets to account for.
LEMMA IdleStep ==
  ASSUME TypeOK', phase' = "sleep", SettledAgree'
  PROVE  IInv'
BY DEF IInv, SnapshotHolds, PlanHolds, DownIsIdle

LEMMA FixMissingStep ==
  ASSUME IInv, TypeOK', NEW t \in Targets, FixMissing(t)
  PROVE  IInv'
<1>1. kern' = [kern EXCEPT ![t] = kern'[t]] /\ mem' = mem /\ now' = now
      /\ kern \in [Targets -> Cell]
  BY DEF FixMissing, store, IInv, TypeOK
<1>2. t \in dirty' => t \notin settled'
  BY DEF FixMissing, Fixed, Unfixed
<1>3. t \notin dirty' => kern'[t] # Absent /\ Live(mem[t], now) /\ t \notin stale
  <2> SUFFICES ASSUME t \notin dirty' PROVE kern'[t] # Absent /\ Live(mem[t], now) /\ t \notin stale
    OBVIOUS
  <2>1. t \notin dirty
    BY DEF FixMissing, Fixed, Unfixed
  <2>2. Live(mem[t], now) /\ t \notin stale
    BY <2>1 DEF IInv, PlanHolds, FixMissing
  <2>3. kern'[t] # Absent
    BY <1>1 DEF FixMissing, Fixed, Unfixed
  <2> QED BY <2>2, <2>3
<1>4. settled' \subseteq settled /\ dirty \subseteq dirty' /\ dirty' \subseteq dirty \cup {t}
  BY DEF FixMissing, Fixed, Unfixed, IInv, TypeOK
<1>5. SettledAgree'
  BY <1>1, <1>2, <1>3, <1>4 DEF IInv, TypeOK, SettledAgree, Agree, InKernel
<1>6. SnapshotHolds'
  BY <1>1, <1>4 DEF IInv, SnapshotHolds, FixMissing
<1>7. PlanHolds'
  BY <1>1, <1>3, <1>4 DEF IInv, TypeOK, PlanHolds, Agree, InKernel, FixMissing
<1> QED BY <1>5, <1>6, <1>7 DEF IInv, DownIsIdle, FixMissing

LEMMA FixStaleStep ==
  ASSUME IInv, TypeOK', NEW t \in Targets, FixStale(t)
  PROVE  IInv'
<1>1. kern' = [kern EXCEPT ![t] = kern'[t]] /\ mem' = mem /\ now' = now
      /\ kern \in [Targets -> Cell]
  BY DEF FixStale, store, IInv, TypeOK
<1>2. t \in dirty' => t \notin settled'
  BY DEF FixStale, Fixed, Unfixed
<1>3. t \notin dirty' => kern'[t] = Absent /\ ~Live(mem[t], now)
  <2> SUFFICES ASSUME t \notin dirty' PROVE kern'[t] = Absent /\ ~Live(mem[t], now)
    OBVIOUS
  <2>1. t \notin dirty
    BY DEF FixStale, Fixed, Unfixed
  <2>2. ~Live(mem[t], now)
    BY <2>1 DEF IInv, PlanHolds, FixStale
  <2>3. kern'[t] = Absent
    BY <1>1 DEF FixStale, Fixed, Unfixed
  <2> QED BY <2>2, <2>3
<1>4. settled' \subseteq settled /\ dirty \subseteq dirty' /\ dirty' \subseteq dirty \cup {t}
  BY DEF FixStale, Fixed, Unfixed, IInv, TypeOK
<1>5. SettledAgree'
  BY <1>1, <1>2, <1>3, <1>4 DEF IInv, TypeOK, SettledAgree, Agree, InKernel
<1>6. SnapshotHolds'
  BY <1>1, <1>4 DEF IInv, SnapshotHolds, FixStale
<1>7. PlanHolds'
  BY <1>1, <1>3, <1>4 DEF IInv, TypeOK, PlanHolds, Agree, InKernel, FixStale
<1> QED BY <1>5, <1>6, <1>7 DEF IInv, DownIsIdle, FixStale

LEMMA TickStep ==
  ASSUME IInv, TypeOK', Tick
  PROVE  IInv'
<1> USE ConstantsOK
<1>1. now \in Nat /\ now' = now + 1 /\ mem' = mem /\ UNCHANGED pass /\ up' = up
      /\ mem \in [Targets -> Cell] /\ kern \in [Targets -> Cell]
  BY DEF Tick, store, IInv, TypeOK
<1>2. \A t \in Targets : kern'[t] = IF Live(kern[t], now + 1) THEN kern[t] ELSE Absent
  BY DEF Tick
<1>3. SettledAgree'
  <2> SUFFICES ASSUME NEW t \in Targets, t \in settled' PROVE Agree(t)'
    BY DEF SettledAgree, TypeOK
  <2>1. Pruned(mem, now)[t] = kern[t]
    BY DEF Tick
  <2>2. CASE Live(mem[t], now)
    BY <1>1, <1>2, <2>1, <2>2, LiveFacts DEF Pruned, Agree, InKernel, Live
  <2>3. CASE ~Live(mem[t], now)
    <3>1. kern[t] = Absent
      BY <2>1, <2>3 DEF Pruned
    <3> QED BY <1>1, <1>2, <2>3, <3>1, LiveFacts DEF Agree, InKernel
  <2> QED BY <2>2, <2>3
<1>4. phase # "sleep" =>
        \A t \in Targets \ dirty' : t \notin dirty /\ mem[t] \notin Nat /\ kern[t] \notin Nat
  BY DEF Tick
<1>5. phase # "sleep" =>
        \A t \in Targets \ dirty' : /\ Live(mem[t], now + 1) <=> Live(mem[t], now)
                                    /\ kern'[t] = kern[t]
  BY <1>1, <1>2, <1>4 DEF Live
<1>6. SnapshotHolds'
  BY <1>1, <1>4, <1>5 DEF IInv, SnapshotHolds, pass
<1>7. PlanHolds'
  BY <1>1, <1>4, <1>5 DEF IInv, PlanHolds, Agree, InKernel, pass
<1> QED BY <1>1, <1>3, <1>6, <1>7 DEF IInv, DownIsIdle, pass

LEMMA InvStep == IInv /\ TypeOK' /\ [Next]_vars => IInv'
<1> SUFFICES ASSUME IInv, TypeOK', [Next]_vars PROVE IInv'
  OBVIOUS
<1>0. mem \in [Targets -> Cell] /\ kern \in [Targets -> Cell] /\ now \in Nat
      /\ disk \in [Targets -> Cell] /\ TypeOK
  BY DEF IInv, TypeOK
<1>1. ASSUME NEW c \in Clients, NEW t \in Targets, NEW e, NEW next,
             ChangeEntry(c, t, e, next)
      PROVE  IInv'
  <2>1. \A u \in Targets \ {t} : mem'[u] = mem[u] /\ kern'[u] = kern[u]
    BY <1>0, <1>1 DEF ChangeEntry
  <2> QED BY <1>1, <2>1, TouchStep DEF ChangeEntry
<1>2. ASSUME Request PROVE IInv'
  BY <1>1, <1>2 DEF Request, Allow, Revoke
<1>3. ASSUME NEW c \in Clients, KernelAdd(c) PROVE IInv'
  <2>1. call[c].target \in Targets
    BY <1>3 DEF KernelAdd, AddCalls
  <2>2. \A u \in Targets \ {call[c].target} : mem'[u] = mem[u] /\ kern'[u] = kern[u]
    BY <1>0, <1>3 DEF KernelAdd, store
  <2> QED BY <1>3, <2>1, <2>2, TouchStep DEF KernelAdd
<1>4. ASSUME NEW c \in Clients, KernelRemove(c) PROVE IInv'
  <2>1. call[c].target \in Targets
    BY <1>4 DEF KernelRemove, RemoveCalls
  <2>2. \A u \in Targets \ {call[c].target} : mem'[u] = mem[u] /\ kern'[u] = kern[u]
    BY <1>0, <1>4 DEF KernelRemove, store
  <2> QED BY <1>4, <2>1, <2>2, TouchStep DEF KernelRemove
<1>5. ASSUME Reapply PROVE IInv'
  <2>1. \A t \in Targets : Agree(t)'
    BY <1>0, <1>5, RenderedAgrees DEF Reapply, Agree, InKernel
  <2>2. mem' = mem /\ now' = now /\ dirty' = dirty /\ UNCHANGED pass /\ up' = up
    BY <1>5 DEF Reapply
  <2> QED BY <2>1, <2>2 DEF IInv, TypeOK, SettledAgree, SnapshotHolds, PlanHolds,
                            DownIsIdle, pass
<1>6. ASSUME SaveStore PROVE IInv'
  BY <1>6 DEF IInv, SaveStore, SettledAgree, Agree, InKernel, SnapshotHolds, PlanHolds,
              DownIsIdle, pass, history
<1>7. ASSUME Snapshot PROVE IInv'
  <2>1. mem' = Pruned(mem, now) /\ now' = now /\ kern' = kern /\ snap' = mem' /\ snapAt' = now
        /\ settled' = settled /\ phase' = "list" /\ up /\ up' = up
    BY <1>7 DEF Snapshot
  <2>2. \A t \in Targets : Live(mem'[t], now) <=> Live(mem[t], now)
    BY <1>0, <2>1, LiveFacts
  <2> QED BY <2>1, <2>2 DEF IInv, TypeOK, SettledAgree, Agree, InKernel, SnapshotHolds,
                            PlanHolds, DownIsIdle
<1>8. ASSUME ListKernel PROVE IInv'
  <2>1. mem' = mem /\ now' = now /\ kern' = kern /\ UNCHANGED history /\ snap' = snap
        /\ snapAt' = snapAt /\ phase = "list" /\ phase' = "fix" /\ up /\ up' = up
        /\ missing' = MissingIn(kern, snap, snapAt) /\ stale' = StaleIn(kern, snap, snapAt)
    BY <1>8 DEF ListKernel, store
  <2>2. SnapshotHolds' /\ SettledAgree' /\ DownIsIdle'
    BY <2>1 DEF IInv, SnapshotHolds, SettledAgree, Agree, InKernel, DownIsIdle, history
  <2>3. PlanHolds'
    BY <2>1 DEF IInv, SnapshotHolds, PlanHolds, MissingIn, StaleIn, Agree, InKernel, history
  <2> QED BY <2>2, <2>3 DEF IInv
<1>9. ASSUME ListFails PROVE IInv'
  BY <1>9 DEF IInv, ListFails, SettledAgree, Agree, InKernel, SnapshotHolds, PlanHolds,
              DownIsIdle, store, history
<1>10. ASSUME NEW t \in Targets, FixMissing(t) PROVE IInv'
  BY <1>10, FixMissingStep
<1>11. ASSUME NEW t \in Targets, FixStale(t) PROVE IInv'
  BY <1>11, FixStaleStep
<1>12. ASSUME PassDone PROVE IInv'
  <2>1. \A t \in Targets \ dirty : Agree(t)
    BY <1>12 DEF PassDone, IInv, PlanHolds
  <2>2. SettledAgree'
    BY <1>12, <2>1 DEF PassDone, IInv, TypeOK, SettledAgree, Agree, InKernel, store
  <2> QED BY <1>12, <2>2, IdleStep DEF PassDone, EndPass
<1>13. ASSUME Rebuild PROVE IInv'
  <2>1. SettledAgree'
    <3>1. mem' = mem /\ now' = now
      BY <1>13 DEF Rebuild, store
    <3>2. CASE kern' = Rendered(mem)
      BY <1>0, <3>1, <3>2, RenderedAgrees DEF TypeOK, SettledAgree, Agree, InKernel
    <3>3. CASE UNCHANGED <<kern, settled>>
      BY <3>1, <3>3 DEF IInv, SettledAgree, Agree, InKernel
    <3> QED BY <1>13, <3>2, <3>3 DEF Rebuild
  <2> QED BY <1>13, <2>1, IdleStep DEF Rebuild, EndPass
<1>14. ASSUME Boot PROVE IInv'
  <2>1. mem' \in [Targets -> Cell] /\ kern' = Rendered(mem') /\ now' = now
    BY <1>14 DEF Boot, TypeOK
  <2>2. SettledAgree'
    BY <1>0, <2>1, RenderedAgrees DEF TypeOK, SettledAgree, Agree, InKernel
  <2>3. phase' = "sleep"
    BY <1>14 DEF Boot, IInv, DownIsIdle, pass
  <2> QED BY <2>2, <2>3, IdleStep
<1>15. ASSUME BootFails PROVE IInv'
  BY <1>15 DEF IInv, BootFails, SettledAgree, Agree, InKernel, SnapshotHolds, PlanHolds,
               DownIsIdle, pass, history
<1>16. ASSUME Crash PROVE IInv'
  <2>1. SettledAgree' /\ phase' = "sleep"
    BY <1>16 DEF Crash, EndPass, SettledAgree
  <2> QED BY <2>1, IdleStep
<1>17. ASSUME Tick PROVE IInv'
  BY <1>17, TickStep
<1>18. ASSUME UNCHANGED vars PROVE IInv'
  BY <1>18 DEF IInv, SettledAgree, Agree, InKernel, SnapshotHolds, PlanHolds, DownIsIdle, vars
<1> QED
  BY <1>2, <1>3, <1>4, <1>5, <1>6, <1>7, <1>8, <1>9, <1>10, <1>11, <1>12, <1>13,
     <1>14, <1>15, <1>16, <1>17, <1>18 DEF Next, Handler, Reconcile

LEMMA InvHolds == Spec => []IInv
<1>1. Init => IInv
  <2> SUFFICES ASSUME Init PROVE IInv
    OBVIOUS
  <2>1. NoEntries \in [Targets -> Cell]
    BY DEF NoEntries, Cell
  <2>2. TypeOK
    BY <2>1, ConstantsOK DEF Init, TypeOK, Phases
  <2> QED BY <2>2 DEF Init, IInv, SettledAgree, SnapshotHolds, PlanHolds, DownIsIdle
<1> QED BY <1>1, InvStep, TypeStep, TypeCorrect, PTL DEF Spec

\* SettledAgree holds in every reachable state, for any number of targets,
\* connections, calls and faults: whatever the reconcile thread's outdated
\* snapshot says, it breaks no target that was left alone since.
THEOREM SettledAgreeHolds == Spec => []SettledAgree
<1>1. IInv => SettledAgree
  BY DEF IInv
<1> QED BY <1>1, InvHolds, PTL

\* WithdrawsOnlyOutdated holds of every step: reconcile_loop removes a live
\* entry's element only if the entry changed, or time ran, after its snapshot.
THEOREM WithdrawsOnlyOutdatedHolds == Spec => WithdrawsOnlyOutdated
<1>1. IInv => [\A t \in Targets :
                 /\ phase = "fix" /\ stale' = stale \ {t} /\ t \in stale
                 /\ InKernel(t) /\ ~InKernel(t)'
                 => ~Live(mem[t], now) \/ t \in dirty]_vars
  BY DEF IInv, PlanHolds
<1> QED BY <1>1, InvHolds, PTL DEF WithdrawsOnlyOutdated

-----------------------------------------------------------------------------
(***************************************************************************)
(* Allowlist implements GrantLedger: every step of the agent is a step of  *)
(* the ledger under the mapping in Allowlist.  The fact it rests on: where *)
(* no failed save is outstanding, memory and state.json hold the same live *)
(* entry.                                                                  *)
(***************************************************************************)

\* The grants a restart may bring back for t, as the mapping defines them.
Held(t) ==
  {Pruned(disk, now)[t]} \cup (IF up THEN {Pruned(mem, now)[t]} ELSE {})

DiskCurrent ==
  up => \A t \in Targets \ doubt : Pruned(disk, now)[t] = Pruned(mem, now)[t]

-----------------------------------------------------------------------------
\* Pruning twice is pruning once, also when time passed in between.
LEMMA PrunedFacts ==
  ASSUME NEW n \in Nat, NEW m \in [Targets -> Cell], NEW t \in Targets
  PROVE  /\ Pruned(Pruned(m, n), n)[t] = Pruned(m, n)[t]
         /\ Pruned(m, n + 1)[t] = Ledger!Faded(Pruned(m, n)[t], n + 1)
<1>1. Pruned(m, n)[t] = IF Live(m[t], n) THEN m[t] ELSE Absent
  BY DEF Pruned
<1>2. Pruned(m, n + 1)[t] = IF Live(m[t], n + 1) THEN m[t] ELSE Absent
  BY DEF Pruned
<1>3. Pruned(Pruned(m, n), n)[t] = IF Live(Pruned(m, n)[t], n) THEN Pruned(m, n)[t] ELSE Absent
  BY DEF Pruned
<1>4. Pruned(Pruned(m, n), n)[t] = Pruned(m, n)[t]
  BY <1>1, <1>3
<1>5. CASE m[t] \in Nat
  BY <1>1, <1>2, <1>4, <1>5, ConstantsOK DEF Live, Ledger!Faded
<1>6. CASE m[t] \notin Nat
  BY <1>1, <1>2, <1>4, <1>6, ConstantsOK DEF Live, Ledger!Faded
<1> QED BY <1>5, <1>6

\* Outside Tick and the steps that change the store, nothing the mapping looks
\* at changes.
LEMMA StoreKept ==
  ASSUME TypeOK, UNCHANGED <<now, up, mem, disk, doubt>>
  PROVE  /\ DiskCurrent => DiskCurrent'
         /\ \A t \in Targets : Held(t)' = Held(t)
BY DEF DiskCurrent, Held

\* The steps, sorted by what they do to what a restart may bring back.
LEMMA StoreStep ==
  ASSUME TypeOK, TypeOK', DiskCurrent, [Next]_vars
  PROVE  /\ DiskCurrent'
         /\ \/ /\ now' = now /\ doubt' \subseteq doubt
               /\ \A u \in Targets : Held(u)' \subseteq Held(u)
            \/ \E t \in Targets :
                 /\ now' = now
                 /\ \A u \in Targets \ {t} : Held(u)' \subseteq Held(u)
                 /\ \/ up' /\ disk' = mem' /\ doubt' = {}
                    \/ up' /\ Held(t)' \subseteq Held(t) \cup {Pruned(mem', now)[t]}
                       /\ doubt' = doubt \cup {t}
            \/ now' = now + 1 /\ UNCHANGED <<up, mem, disk, doubt>>
<1> DEFINE Kept == /\ now' = now /\ doubt' \subseteq doubt
                   /\ \A u \in Targets : Held(u)' \subseteq Held(u)
<1>0. mem \in [Targets -> Cell] /\ disk \in [Targets -> Cell] /\ now \in Nat
  BY DEF TypeOK
<1>1. ASSUME NEW c \in Clients, NEW t \in Targets, NEW e, NEW next,
             ChangeEntry(c, t, e, next)
      PROVE  /\ DiskCurrent'
             /\ now' = now
             /\ \A u \in Targets \ {t} : Held(u)' \subseteq Held(u)
             /\ \/ up' /\ disk' = mem' /\ doubt' = {}
                \/ up' /\ Held(t)' \subseteq Held(t) \cup {Pruned(mem', now)[t]}
                   /\ doubt' = doubt \cup {t}
  <2>1. up /\ up' = up /\ now' = now
    BY <1>1 DEF ChangeEntry
  <2>2. \A u \in Targets \ {t} : Pruned(mem', now)[u] = Pruned(mem, now)[u]
    BY <1>0, <1>1 DEF ChangeEntry, Pruned
  <2>3. CASE disk' = mem' /\ doubt' = {}
    BY <2>1, <2>2, <2>3 DEF DiskCurrent, Held
  <2>4. CASE disk' = disk /\ doubt' = doubt \cup {t}
    BY <2>1, <2>2, <2>4 DEF DiskCurrent, Held
  <2> QED BY <1>1, <2>1, <2>3, <2>4 DEF ChangeEntry, Saved
<1>2. ASSUME up, up' = up, now' = now, mem' = mem, Saved(mem)
      PROVE  DiskCurrent' /\ Kept
  BY <1>2 DEF Saved, DiskCurrent, Held
<1>3. ASSUME UNCHANGED <<now, up, mem, disk, doubt>>
      PROVE  DiskCurrent' /\ Kept
  BY <1>3, StoreKept
<1>4. ASSUME Request
      PROVE  DiskCurrent' /\ \E t \in Targets :
                 /\ now' = now
                 /\ \A u \in Targets \ {t} : Held(u)' \subseteq Held(u)
                 /\ \/ up' /\ disk' = mem' /\ doubt' = {}
                    \/ up' /\ Held(t)' \subseteq Held(t) \cup {Pruned(mem', now)[t]}
                       /\ doubt' = doubt \cup {t}
  <2>1. PICK c \in Clients, t \in Targets :
          (\E e \in Expiries \cup {Never} : Allow(c, t, e)) \/ Revoke(c, t)
    BY <1>4 DEF Request
  <2>2. CASE \E e \in Expiries \cup {Never} : Allow(c, t, e)
    BY <1>1, <2>2 DEF Allow
  <2>3. CASE Revoke(c, t)
    BY <1>1, <2>3 DEF Revoke
  <2> QED BY <2>1, <2>2, <2>3
<1>5. ASSUME NEW c \in Clients, Handler(c) PROVE DiskCurrent' /\ Kept
  BY <1>3, <1>5 DEF Handler, KernelAdd, KernelRemove, store
<1>6. ASSUME Reapply \/ SaveStore PROVE DiskCurrent' /\ Kept
  BY <1>2, <1>3, <1>6 DEF Reapply, SaveStore
<1>7. ASSUME Snapshot PROVE DiskCurrent' /\ Kept
  <2>1. up /\ up' = up /\ now' = now /\ mem' = Pruned(mem, now)
    BY <1>7 DEF Snapshot
  <2>2. \A t \in Targets : Pruned(mem', now)[t] = Pruned(mem, now)[t]
    BY <1>0, <2>1, PrunedFacts
  <2>3. CASE disk' = mem' /\ doubt' = {}
    BY <2>1, <2>2, <2>3 DEF DiskCurrent, Held
  <2>4. CASE UNCHANGED <<disk, doubt>>
    BY <2>1, <2>2, <2>4 DEF DiskCurrent, Held
  <2> QED BY <1>7, <2>3, <2>4 DEF Snapshot, Saved
<1>8. ASSUME ListKernel \/ ListFails \/ PassDone \/ Rebuild
              \/ \E t \in Targets : FixMissing(t) \/ FixStale(t)
      PROVE  DiskCurrent' /\ Kept
  BY <1>3, <1>8 DEF ListKernel, ListFails, PassDone, Rebuild, FixMissing, FixStale, store
<1>9. ASSUME Boot PROVE DiskCurrent' /\ Kept
  <2>1. ~up /\ up' = TRUE /\ now' = now /\ mem' = Pruned(disk, now) /\ disk' = mem'
        /\ doubt' = {}
    BY <1>9 DEF Boot, Saved
  <2>2. \A t \in Targets : Pruned(mem', now)[t] = Pruned(disk, now)[t]
    BY <1>0, <2>1, PrunedFacts
  <2> QED BY <2>1, <2>2 DEF DiskCurrent, Held
<1>10. ASSUME BootFails PROVE DiskCurrent' /\ Kept
  <2>1. ~up /\ up' = up /\ now' = now /\ doubt' = doubt
    BY <1>10 DEF BootFails
  <2>2. \A t \in Targets : Pruned(disk', now)[t] = Pruned(disk, now)[t]
    BY <1>0, <1>10, PrunedFacts DEF BootFails
  <2> QED BY <2>1, <2>2 DEF DiskCurrent, Held
<1>11. ASSUME Crash PROVE DiskCurrent' /\ Kept
  BY <1>11 DEF Crash, store, DiskCurrent, Held
<1>12. ASSUME Tick
       PROVE  DiskCurrent' /\ now' = now + 1 /\ UNCHANGED <<up, mem, disk, doubt>>
  <2>1. now' = now + 1 /\ UNCHANGED <<up, mem, disk, doubt>>
    BY <1>12 DEF Tick, store
  <2>2. \A t \in Targets : /\ Pruned(mem, now + 1)[t] = Ledger!Faded(Pruned(mem, now)[t], now + 1)
                           /\ Pruned(disk, now + 1)[t] = Ledger!Faded(Pruned(disk, now)[t], now + 1)
    BY <1>0, PrunedFacts
  <2> QED BY <2>1, <2>2 DEF DiskCurrent
<1>13. ASSUME UNCHANGED vars PROVE DiskCurrent' /\ Kept
  BY <1>3, <1>13 DEF vars
<1> QED
  BY <1>4, <1>5, <1>6, <1>7, <1>8, <1>9, <1>10, <1>11, <1>12, <1>13 DEF Next, Reconcile

-----------------------------------------------------------------------------
\* A step of the agent is a step of the ledger.
LEMMA LedgerStep ==
  ASSUME TypeOK, TypeOK', DiskCurrent, [Next]_vars
  PROVE  [Ledger!LedgerNext]_Ledger!ledgerVars
<1> DEFINE Grants == [t \in Targets |->
             {Pruned(disk, now)[t]} \cup (IF up THEN {Pruned(mem, now)[t]} ELSE {})]
<1>0. \A t \in Targets : Grants[t] = Held(t) /\ Grants'[t] = Held(t)'
  BY DEF Held
<1>1. \A t \in Targets : Held(t) # {} /\ Held(t)' # {}
  BY DEF Held
<1>2. DiskCurrent'
  BY StoreStep
<1>3. Ledger!Certain'
  <2> SUFFICES ASSUME NEW t \in Targets, t \notin doubt'
               PROVE  \E v \in Grants'[t] : Grants'[t] = {v}
    BY DEF Ledger!Certain, Ledger!One
  <2> QED BY <1>2 DEF DiskCurrent
<1>4. ASSUME now' = now, doubt' \subseteq doubt,
             \A u \in Targets : Held(u)' \subseteq Held(u)
      PROVE  Ledger!Resolve
  BY <1>0, <1>1, <1>4 DEF Ledger!Resolve, Ledger!Narrow
<1>5. ASSUME NEW t \in Targets, now' = now,
             \A u \in Targets \ {t} : Held(u)' \subseteq Held(u),
             up' /\ disk' = mem' /\ doubt' = {}
      PROVE  Ledger!Commit(t)
  <2>1. \E v \in Grants'[t] : Grants'[t] = {v}
    BY <1>5
  <2>2. \A u \in Targets \ {t} : Grants'[u] # {} /\ Grants'[u] \subseteq Grants[u]
    BY <1>0, <1>1, <1>5
  <2> QED BY <1>5, <2>1, <2>2
          DEF Ledger!Commit, Ledger!One, Ledger!NarrowAllBut, Ledger!Narrow
<1>6. ASSUME NEW t \in Targets, now' = now,
             \A u \in Targets \ {t} : Held(u)' \subseteq Held(u), up',
             Held(t)' \subseteq Held(t) \cup {Pruned(mem', now)[t]},
             doubt' = doubt \cup {t}
      PROVE  Ledger!LeaveInDoubt(t)
  <2>1. Pruned(mem', now)[t] \in Held(t)'
    BY <1>6 DEF Held
  <2>2. \E v \in Grants'[t] : Grants'[t] \subseteq Grants[t] \cup {v}
    BY <1>0, <1>6, <2>1
  <2>3. \A u \in Targets \ {t} : Grants'[u] # {} /\ Grants'[u] \subseteq Grants[u]
    BY <1>0, <1>1, <1>6
  <2> QED BY <1>6, <2>2, <2>3
          DEF Ledger!LeaveInDoubt, Ledger!NarrowAllBut, Ledger!Narrow
<1>7. ASSUME now' = now + 1, UNCHANGED <<up, mem, disk, doubt>>
      PROVE  Ledger!Elapse
  <2>1. mem \in [Targets -> Cell] /\ disk \in [Targets -> Cell] /\ now \in Nat
    BY DEF TypeOK
  <2>2. \A t \in Targets : /\ Pruned(mem, now + 1)[t] = Ledger!Faded(Pruned(mem, now)[t], now + 1)
                           /\ Pruned(disk, now + 1)[t] = Ledger!Faded(Pruned(disk, now)[t], now + 1)
    BY <2>1, PrunedFacts
  <2>3. \A t \in Targets : Grants'[t] = {Ledger!Faded(v, now + 1) : v \in Grants[t]}
    BY <1>7, <2>2
  <2>4. Grants' = [t \in Targets |-> {Ledger!Faded(v, now + 1) : v \in Grants[t]}]
    BY <2>3
  <2> QED BY <1>7, <2>4 DEF Ledger!Elapse
<1> QED
  BY <1>3, <1>4, <1>5, <1>6, <1>7, StoreStep DEF Ledger!LedgerNext

\* ImplementsLedger: an acknowledged allow or revoke survives every crash and
\* restart, for any number of targets, calls and faults.
THEOREM LedgerImplemented == Spec => ImplementsLedger
<1>1. Init => Ledger!LedgerInit /\ DiskCurrent
  <2> SUFFICES ASSUME Init PROVE Ledger!LedgerInit /\ DiskCurrent
    OBVIOUS
  <2>1. \A t \in Targets : Pruned(mem, now)[t] = Absent /\ Pruned(disk, now)[t] = Absent
    BY DEF Init, Pruned, NoEntries
  <2>2. DiskCurrent
    BY <2>1 DEF DiskCurrent
  <2>3. [t \in Targets |-> {Pruned(disk, now)[t]} \cup (IF up THEN {Pruned(mem, now)[t]} ELSE {})]
        = [t \in Targets |-> {Absent}]
    BY <2>1
  <2> QED BY <2>2, <2>3 DEF Init, Ledger!LedgerInit
<1>2. TypeOK /\ TypeOK' /\ DiskCurrent /\ [Next]_vars
        => DiskCurrent' /\ [Ledger!LedgerNext]_Ledger!ledgerVars
  BY StoreStep, LedgerStep
<1> QED BY <1>1, <1>2, TypeCorrect, PTL DEF Spec, ImplementsLedger, Ledger!LedgerSpec

-----------------------------------------------------------------------------
(***************************************************************************)
(* What a console command said with the service down lasts.  The copy a    *)
(* command works on is old when it is written back; that nothing is taken  *)
(* back by it rests on what the copy still says of the other targets.      *)
(***************************************************************************)

Tools == [step : {"save", "kernel"}, target : Targets, exp : Cell,
          copy : [Targets -> Cell], alone : BOOLEAN]

StoreTypes ==
  /\ now \in Nat /\ up \in BOOLEAN /\ ops \in Nat
  /\ mem \in [Targets -> Cell] /\ disk \in [Targets -> Cell]
  /\ word \in [Targets -> Cell \cup {NoWord}]
  /\ tool \in Tools \cup {NoTool}

\* A command is alone only while the service is down, and the copy it is about to
\* write says of its target what it was asked to, of others what was last said.
CopyHolds ==
  tool.step = "save" =>
    /\ tool.alone => ~up
    /\ tool.copy[tool.target] = tool.exp
    /\ \A t \in Targets \ {tool.target} : word[t] # NoWord => Same(tool.copy[t], word[t])

WordInv == StoreTypes /\ CopyHolds /\ OfflineLasts

\* What a step of the service may leave of an entry of t: what file and process
\* said of it, pruned or not.
Kept(v) == IF Live(v, now) THEN v ELSE Absent
Says(t) == {disk[t], Kept(disk[t])} \cup (IF up THEN {mem[t], Kept(mem[t])} ELSE {})

-----------------------------------------------------------------------------
\* Entries stay the same when they are pruned and when time passes.
SameAt(v, w, n) == v = w \/ (~Live(v, n) /\ ~Live(w, n))

\* Cells that are the same stay so as time goes on, pruned or not.
LEMMA SameFacts ==
  ASSUME now \in Nat, NEW n \in {now, now + 1}, NEW v \in Cell, NEW w \in Cell, Same(v, w)
  PROVE  Kept(v) \in Cell /\ Same(Kept(v), w) /\ SameAt(v, w, n) /\ SameAt(Kept(v), w, n)
<1>1. \A u \in Cell : ~Live(u, now) => ~Live(u, n)
  BY ConstantsOK DEF Live, Cell, Lifetimes
<1>2. ~Live(Absent, now) /\ ~Live(Absent, n) BY DEF Live
<1>3. Kept(v) \in Cell BY DEF Kept, Cell
<1> QED BY <1>1, <1>2, <1>3 DEF Same, SameAt, Kept

\* A step of the service that changes the store only so, and takes back the word
\* on what else it changes, keeps the invariant.
LEMMA ConsoleStoreStep ==
  ASSUME WordInv, StoreTypes', now' \in {now, now + 1},
         tool' \in {tool, [tool EXCEPT !.alone = FALSE]},
         ~up /\ up' => ~tool'.alone,
         \A t \in Targets : word'[t] # NoWord =>
           word'[t] = word[t] /\ disk'[t] \in Says(t) /\ (up' => mem'[t] \in Says(t))
  PROVE  WordInv'
<1>1. ASSUME NEW t \in Targets, word[t] # NoWord, NEW v \in Says(t)
      PROVE  SameAt(v, word[t], now')
  <2>1. /\ word[t] \in Cell /\ disk[t] \in Cell /\ mem[t] \in Cell /\ now \in Nat
        /\ Same(disk[t], word[t]) /\ (up => Same(mem[t], word[t]))
    BY <1>1 DEF WordInv, StoreTypes, OfflineLasts
  <2>2. CASE v \in {disk[t], Kept(disk[t])}
    BY <2>1, <2>2, SameFacts
  <2>3. CASE up /\ v \in {mem[t], Kept(mem[t])}
    BY <2>1, <2>3, SameFacts
  <2> QED BY <1>1, <2>2, <2>3 DEF Says
<1>2. OfflineLasts'
  <2> SUFFICES ASSUME NEW t \in Targets, word'[t] # NoWord
               PROVE  SameAt(disk'[t], word'[t], now') /\ (up' => SameAt(mem'[t], word'[t], now'))
    BY DEF OfflineLasts, Same, SameAt
  <2> QED BY <1>1
<1>3. CopyHolds'
  <2>1. tool'.step = tool.step /\ tool'.copy = tool.copy /\ tool'.target = tool.target
        /\ tool'.exp = tool.exp /\ (tool'.alone => tool.alone)
    BY DEF WordInv, StoreTypes, Tools, NoTool
  <2>2. ASSUME tool.step = "save", NEW t \in Targets \ {tool.target}, word'[t] # NoWord
        PROVE  SameAt(tool.copy[t], word[t], now')
    <3>1. word[t] # NoWord /\ Same(tool.copy[t], word[t]) /\ now \in Nat
      BY <2>2 DEF WordInv, CopyHolds, StoreTypes
    <3>2. word[t] \in Cell /\ tool.copy[t] \in Cell
      BY <2>2, <3>1 DEF WordInv, StoreTypes, Tools, NoTool
    <3> QED BY <3>1, <3>2, SameFacts
  <2>3. ~up => (tool'.alone => ~up') OBVIOUS
  <2> QED BY <2>1, <2>2, <2>3 DEF WordInv, CopyHolds, Same, SameAt
<1> QED BY <1>2, <1>3 DEF WordInv

-----------------------------------------------------------------------------
\* What the steps of the service do to the store, whatever they do besides: only
\* a call leaves something new, of the target it is about.
Effect ==
  /\ now' \in {now, now + 1} /\ up' \in BOOLEAN /\ ops' \in Nat
  /\ mem' \in [Targets -> Cell] /\ disk' \in [Targets -> Cell]
  /\ \A t \in Targets :
       \/ ops' # ops /\ mem'[t] # mem[t]
       \/ disk'[t] \in Says(t) /\ (up' => mem'[t] \in Says(t))

Quiet == UNCHANGED <<now, up, mem, disk, ops>>

\* A step that leaves the stores alone says nothing.
LEMMA QuietEffect == ASSUME StoreTypes, Quiet PROVE Effect
BY DEF StoreTypes, Quiet, Effect, Says

\* What pruning leaves of each cell.
LEMMA ConsolePrunedFacts ==
  ASSUME NEW m \in [Targets -> Cell]
  PROVE  /\ Pruned(m, now) \in [Targets -> Cell]
         /\ \A t \in Targets : Pruned(m, now)[t] = Kept(m[t])
BY DEF Pruned, Kept, Cell

\* A client's call says what it writes.
LEMMA CallEffect == ASSUME StoreTypes, Request PROVE Effect
<1>1. ASSUME NEW c, NEW t \in Targets, NEW e \in Cell, NEW next, ChangeEntry(c, t, e, next)
      PROVE  Effect
  <2>1. /\ up /\ up' = up /\ now' = now /\ ops' = ops + 1
        /\ mem' = [mem EXCEPT ![t] = e] /\ disk' \in {disk, mem'}
    BY <1>1 DEF ChangeEntry, Saved
  <2>2. mem' \in [Targets -> Cell] /\ disk' \in [Targets -> Cell]
    BY <2>1 DEF StoreTypes
  <2>3. ops' # ops /\ ops' \in Nat BY <2>1 DEF StoreTypes
  <2> QED BY <2>1, <2>2, <2>3 DEF StoreTypes, Effect, Says
<1>2. ASSUME NEW e \in Expiries \cup {Never} PROVE e \in Cell
  BY ConstantsOK DEF Cell, Lifetimes
<1>3. Absent \in Cell BY DEF Cell
<1> QED BY <1>1, <1>2, <1>3 DEF Request, Allow, Revoke

\* The service's other steps say nothing a call has not said.
LEMMA StepEffect ==
  ASSUME StoreTypes,
         \/ \E c \in Clients : HandlerOrGone(c)
         \/ ReconcileOrGone \/ Reapply \/ SaveStore \/ BootFails \/ Crash \/ Tick
  PROVE  Effect /\ (up' => up)
<1>1. ASSUME NEW c \in Clients, HandlerOrGone(c) PROVE Quiet
  BY <1>1 DEF HandlerOrGone, Handler, KernelAdd, KernelRemove, GoneCall, Quiet, store
<1>2. CASE Snapshot
  <2>1. /\ up /\ up' = up /\ now' = now /\ ops' = ops
        /\ mem' = Pruned(mem, now) /\ disk' \in {disk, mem'}
    BY <1>2 DEF Snapshot, Saved
  <2>2. mem' \in [Targets -> Cell] /\ \A t \in Targets : mem'[t] = Kept(mem[t])
    BY <2>1, ConsolePrunedFacts DEF StoreTypes
  <2> QED BY <2>1, <2>2 DEF StoreTypes, Effect, Says
<1>3. ASSUME ReconcileOrGone, ~Snapshot PROVE Quiet
  BY <1>3 DEF ReconcileOrGone, PassDone, ListKernel, ListFails, FixMissing, FixStale, Rebuilds,
              Rebuild, GoneList, GoneFix, Quiet, store
<1>4. CASE Reapply \/ SaveStore
  <2>1. /\ up /\ up' = up /\ now' = now /\ ops' = ops /\ mem' = mem /\ disk' \in {disk, mem}
    BY <1>4 DEF Reapply, SaveStore, Saved
  <2> QED BY <2>1 DEF StoreTypes, Effect, Says
<1>5. CASE BootFails
  <2>1. /\ ~up /\ up' = up /\ now' = now /\ ops' = ops /\ mem' = mem
        /\ disk' \in {disk, Pruned(disk, now)}
    BY <1>5 DEF BootFails
  <2> QED BY <2>1, ConsolePrunedFacts DEF StoreTypes, Effect, Says
<1>6. CASE Crash
  BY <1>6 DEF Crash, store, StoreTypes, Effect, Says
<1>7. CASE Tick
  BY <1>7 DEF Tick, store, StoreTypes, Effect, Says
<1>8. Quiet => Effect /\ (up' => up) BY QuietEffect DEF Quiet
<1>9. ReconcileOrGone => Snapshot \/ Quiet BY <1>3
<1> QED BY <1>1, <1>2, <1>4, <1>5, <1>6, <1>7, <1>8, <1>9 DEF Snapshot

\* Every step of the service keeps the invariant.
LEMMA ServiceKeeps == ASSUME WordInv, ServiceStep PROVE WordInv'
<1>0. StoreTypes BY DEF WordInv
<1>1. CASE Boots
  <2>1. /\ ~up /\ up' = TRUE /\ now' = now /\ ops' = ops /\ word' = word
        /\ mem' = Pruned(disk, now) /\ disk' = mem' /\ tool' = [tool EXCEPT !.alone = FALSE]
    BY <1>1 DEF Boots, Boot, Saved
  <2>2. mem' \in [Targets -> Cell] /\ \A t \in Targets : mem'[t] = Kept(disk[t])
    BY <1>0, <2>1, ConsolePrunedFacts DEF StoreTypes
  <2>3. tool' \in Tools \cup {NoTool} /\ ~tool'.alone
    <3>1. CASE tool = NoTool
      <4>1. tool' = NoTool BY <2>1, <3>1 DEF NoTool
      <4> QED BY <4>1 DEF NoTool
    <3>2. CASE tool \in Tools
      BY <2>1, <3>2 DEF Tools
    <3> QED BY <1>0, <3>1, <3>2 DEF StoreTypes
  <2>4. StoreTypes' BY <1>0, <2>1, <2>2, <2>3 DEF StoreTypes
  <2> QED BY <1>0, <2>1, <2>2, <2>3, <2>4, ConsoleStoreStep DEF Says
<1>2. ASSUME ~Boots PROVE WordInv'
  <2>1. Effect /\ (up' => up) /\ Beside
    <3>1. CASE Request
      BY <1>0, <1>2, <3>1, CallEffect DEF ServiceStep, Request, Allow, Revoke, ChangeEntry
    <3> QED BY <1>0, <1>2, <3>1, StepEffect DEF ServiceStep
  <2>2. tool' = tool BY <2>1 DEF Beside
  <2>3. \A t \in Targets :
          /\ word'[t] \in {word[t], NoWord}
          /\ word'[t] # NoWord => word'[t] = word[t] /\ ~(ops' # ops /\ mem'[t] # mem[t])
    BY <2>1 DEF Beside
  <2>4. word' \in [Targets -> Cell \cup {NoWord}] BY <1>0, <2>1 DEF Beside, StoreTypes
  <2>5. StoreTypes' BY <1>0, <2>1, <2>2, <2>4 DEF StoreTypes, Effect
  <2> QED BY <2>1, <2>2, <2>3, <2>5, ConsoleStoreStep DEF Effect
<1> QED BY <1>1, <1>2

\* So does every step of a console command.
LEMMA ToolKeeps == ASSUME WordInv, ToolStep PROVE WordInv'
<1>0. StoreTypes /\ CopyHolds /\ OfflineLasts BY DEF WordInv
<1>1. ASSUME NEW t \in Targets, NEW e \in Expiries \cup {Never, Absent}, LoadTool(t, e)
      PROVE  WordInv'
  <2> DEFINE new == [step |-> "save", target |-> t, exp |-> e, copy |-> Changed(disk, t, e),
                     alone |-> ~up]
  <2>1. tool' = new /\ UNCHANGED <<now, up, mem, disk, ops, word>>
    BY <1>1 DEF LoadTool, vars
  <2>2. e \in Cell BY ConstantsOK DEF Cell, Lifetimes
  <2>3. /\ Changed(disk, t, e) \in [Targets -> Cell] /\ Changed(disk, t, e)[t] = e
        /\ \A u \in Targets \ {t} : Changed(disk, t, e)[u] = disk[u]
    BY <1>0, <2>2 DEF Changed, StoreTypes
  <2>4. new \in Tools BY <1>0, <2>2, <2>3 DEF Tools, StoreTypes
  <2>5. StoreTypes' BY <1>0, <2>1, <2>4 DEF StoreTypes
  <2>6. OfflineLasts' BY <1>0, <2>1 DEF OfflineLasts, Same
  <2>7. CopyHolds' BY <1>0, <2>1, <2>3 DEF CopyHolds, OfflineLasts, Same
  <2> QED BY <2>5, <2>6, <2>7 DEF WordInv
<1>2. CASE SaveTool
  <2>1. tool \in Tools /\ tool.step = "save" BY <1>0, <1>2 DEF SaveTool, StoreTypes, NoTool
  <2>2. CASE /\ disk' = tool.copy /\ ToolGoes("kernel")
             /\ word' = [word EXCEPT ![tool.target] = IF tool.alone THEN tool.exp ELSE NoWord]
    <3>1. tool' \in Tools /\ tool'.step = "kernel"
      BY <2>1, <2>2 DEF ToolGoes, Tools
    <3>2. UNCHANGED <<now, up, mem, ops>> BY <1>2 DEF SaveTool
    <3>3. tool.target \in Targets /\ tool.copy \in [Targets -> Cell] /\ tool.exp \in Cell
      BY <2>1 DEF Tools
    <3>4. StoreTypes' BY <1>0, <2>2, <3>1, <3>2, <3>3 DEF StoreTypes
    <3>5. CopyHolds' BY <3>1 DEF CopyHolds
    <3>6. OfflineLasts'
      <4> SUFFICES ASSUME NEW t \in Targets, word'[t] # NoWord
                   PROVE  (Same(disk[t], word[t]) /\ (up => Same(mem[t], word[t])))'
        BY DEF OfflineLasts
      <4>1. CASE t = tool.target
        <5>1. word'[t] = tool.exp /\ tool.alone BY <1>0, <2>2, <3>3, <4>1 DEF StoreTypes
        <5>2. ~up /\ tool.copy[t] = tool.exp BY <1>0, <2>1, <4>1, <5>1 DEF CopyHolds
        <5> QED BY <2>2, <3>2, <5>1, <5>2 DEF Same
      <4>2. CASE t # tool.target
        <5>1. word'[t] = word[t] BY <1>0, <2>2, <3>3, <4>2 DEF StoreTypes
        <5>2. Same(tool.copy[t], word[t]) /\ (up => Same(mem[t], word[t]))
          BY <1>0, <2>1, <4>2, <5>1 DEF CopyHolds, OfflineLasts
        <5> QED BY <2>2, <3>2, <5>1, <5>2 DEF Same
      <4> QED BY <4>1, <4>2
    <3> QED BY <3>4, <3>5, <3>6 DEF WordInv
  <2>3. CASE disk' = disk /\ tool' = NoTool /\ word' = word
    <3>1. UNCHANGED <<now, up, mem, ops>> BY <1>2 DEF SaveTool
    <3> QED BY <1>0, <2>3, <3>1 DEF WordInv, StoreTypes, CopyHolds, OfflineLasts, Same, NoTool
  <2> QED BY <1>2, <2>2, <2>3 DEF SaveTool
<1>3. CASE KernelTool
  <2>1. tool' = NoTool /\ UNCHANGED <<now, up, mem, disk, ops, word>>
    BY <1>3 DEF KernelTool, store
  <2> QED BY <1>0, <2>1 DEF WordInv, StoreTypes, CopyHolds, OfflineLasts, Same, NoTool
<1>4. CASE Uninstall
  <2>1. UNCHANGED <<now, up, mem, disk, ops, word, tool>>
    BY <1>4 DEF Uninstall, store
  <2> QED BY <1>0, <2>1 DEF WordInv, StoreTypes, CopyHolds, OfflineLasts, Same
<1> QED BY <1>1, <1>2, <1>3, <1>4 DEF ToolStep

\* What `allow` and `revoke` said with the service down is what state.json and the
\* service say, until a call on that target or the end of its lifetime.
THEOREM OfflineWordLasts == ConsoleSpec => []OfflineLasts
<1>1. ConsoleInit => WordInv
  <2> SUFFICES ASSUME ConsoleInit PROVE WordInv
    OBVIOUS
  <2>1. NoEntries \in [Targets -> Cell] BY DEF NoEntries, Cell
  <2>2. now = 0 /\ ops = 0 /\ up \in BOOLEAN /\ mem = NoEntries /\ disk = NoEntries
    BY DEF ConsoleInit, Init
  <2>3. tool = NoTool /\ word = [t \in Targets |-> NoWord] BY DEF ConsoleInit
  <2>4. StoreTypes
    <3>1. word \in [Targets -> Cell \cup {NoWord}] BY <2>3
    <3> QED BY <2>1, <2>2, <2>3, <3>1 DEF StoreTypes
  <2>5. CopyHolds BY <2>3 DEF CopyHolds, NoTool
  <2>6. OfflineLasts BY <2>3 DEF OfflineLasts
  <2> QED BY <2>4, <2>5, <2>6 DEF WordInv
<1>2. WordInv /\ [ConsoleNext]_consoleVars => WordInv'
  <2>1. ASSUME WordInv, UNCHANGED consoleVars PROVE WordInv'
    BY <2>1 DEF consoleVars, vars, toolVars, WordInv, StoreTypes, CopyHolds, OfflineLasts, Same
  <2> QED BY <2>1, ServiceKeeps, ToolKeeps DEF ConsoleNext
<1>3. WordInv => OfflineLasts BY DEF WordInv
<1>4. QED BY <1>1, <1>2, <1>3, PTL DEF ConsoleSpec
==============================================================================
