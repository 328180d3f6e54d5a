------------------------------ MODULE Allowlist ------------------------------
(***************************************************************************)
(* The allowlist of the ipgate agent: the store (memory and state.json),   *)
(* the nftables sets it is enforced with, the RPC handlers that change     *)
(* both, the reconcile thread, and restarts.  The store mutex covers the   *)
(* store only: a handler releases it before its nft call, and the          *)
(* reconcile thread works from a snapshot it took earlier, so the steps    *)
(* below interleave wherever the code leaves the lock.                     *)
(*                                                                         *)
(* An entry is reduced to its expiry; the store holds at most one entry    *)
(* per target (Store::allow), so a map from targets is exact.              *)
(***************************************************************************)
EXTENDS Naturals

CONSTANTS
  Targets,    \* the addresses and prefixes that can be allowed
  Clients,    \* RPC connections; each serves one request at a time
  Expiries,   \* the instants a request may ask an entry to expire at
  Never,      \* the expiry of a permanent entry
  Absent,     \* no entry, no element
  NoCall,     \* a connection with no nft call pending
  Overlap,    \* the pairs {s, t} of distinct targets sharing an address
  MaxTime,    \* bound: last instant of the clock
  MaxOps,     \* bound: allow and revoke calls
  MaxFaults   \* bound: failed nft calls, failed saves, crashes, reboots

ASSUME ConstantsOK ==
  /\ Expiries \subseteq Nat
  /\ Never \notin Nat /\ Absent \notin Nat /\ Never # Absent
  /\ Overlap \subseteq SUBSET Targets
  /\ MaxTime \in Nat /\ MaxOps \in Nat /\ MaxFaults \in Nat

Lifetimes == Nat \cup {Never}
Cell == Lifetimes \cup {Absent}

AddCalls == [op : {"add"}, target : Targets, exp : Lifetimes]
RemoveCalls == [op : {"remove"}, target : Targets]
ASSUME NoCallOK == NoCall \notin AddCalls \cup RemoveCalls

VARIABLES
  now,      \* wall-clock time, shared by the agent and the kernel timeouts
  up,       \* the service process runs
  mem,      \* mem[t]: expiry of t's entry in the store of the process
  disk,     \* disk[t]: expiry of t's entry in state.json
  kern,     \* kern[t]: when the kernel drops t's set element by itself
  call,     \* call[c]: the nft call c's handler makes next
  phase,    \* where the reconcile thread is
  snap,     \* the entries it cloned under the lock
  snapAt,   \* the time it read before cloning them
  missing,  \* elements it still has to add
  stale,    \* elements it still has to remove
  dirty,    \* history: targets this pass can conclude nothing about
  settled,  \* history: targets found or put in agreement, untouched since
  doubt,    \* history: targets whose last call failed to save, unsaved since
  ops,      \* calls made so far
  faults    \* faults so far

store == <<mem, disk, doubt>>
pass == <<phase, snap, snapAt, missing, stale>>
history == <<dirty, settled>>
vars == <<now, up, mem, disk, kern, call, phase, snap, snapAt, missing, stale,
          dirty, settled, doubt, ops, faults>>

Phases == {"sleep", "list", "fix", "rebuild"}
NoEntries == [t \in Targets |-> Absent]

----------------------------------------------------------------------------
\* Entries and elements

\* Entry::is_expired: an entry is over at its expiry instant, not after it.
Live(e, time) == e # Absent /\ (e \in Nat => time < e)

\* The pruned store: expired entries are gone.
Pruned(entries, time) ==
  [t \in Targets |-> IF Live(entries[t], time) THEN entries[t] ELSE Absent]

\* Mutant: the remaining seconds, without the floor of one.
ElementExpiryUnclamped(e) == IF e \in Nat THEN e - now ELSE e

\* The kernel timeout of an element added now: at least one second.
ElementExpiry(e) == IF e \in Nat /\ e <= now THEN now + 1 ELSE e

\* Mutant: expired entries are rendered too.
RenderedWithExpired(entries) ==
  [t \in Targets |-> IF entries[t] # Absent THEN ElementExpiry(entries[t]) ELSE Absent]

\* The sets of a freshly rendered table.
Rendered(entries) ==
  [t \in Targets |-> IF Live(entries[t], now)
                     THEN ElementExpiry(entries[t]) ELSE Absent]

\* An interval set takes no element that overlaps another one.
Clash(s, elements) == \E t \in Targets \ {s} : elements[t] # Absent /\ {s, t} \in Overlap
CanApply(entries) ==
  \A t \in Targets : Live(entries[t], now) => ~Clash(t, Rendered(entries))

\* "add element" on an element that is there may or may not reset its timeout:
\* kernels differ, so both outcomes are possible.
AfterAdd(t, e) ==
  IF Clash(t, kern) THEN {kern[t]}
  ELSE {ElementExpiry(e)} \cup (IF kern[t] # Absent THEN {kern[t]} ELSE {})

\* Mutants: the set difference taken the wrong way round, and elements
\* compared by their timeout instead of their target.
MissingInSwapped(elements, entries, time) ==
  {t \in Targets : ~Live(entries[t], time) /\ elements[t] # Absent}
StaleInByTimeout(elements, entries, time) ==
  {t \in Targets : elements[t] # Absent /\ elements[t] # entries[t]}

\* The difference the reconcile thread acts on.
MissingIn(elements, entries, time) ==
  {t \in Targets : Live(entries[t], time) /\ elements[t] = Absent}
StaleIn(elements, entries, time) ==
  {t \in Targets : elements[t] # Absent /\ ~Live(entries[t], time)}

----------------------------------------------------------------------------
\* Bookkeeping

\* Mutant: the temporary file is written and never renamed.
SavedToTmp(entries) == disk' = disk /\ doubt' = {}

\* The whole store is written, in one rename.
Saved(entries) == disk' = entries /\ doubt' = {}

Fault == faults < MaxFaults /\ faults' = faults + 1
NoFault == faults' = faults

\* A step outside the running pass changed what there is to know about S.
Touch(S) ==
  /\ dirty' = IF phase = "sleep" THEN {} ELSE dirty \cup S
  /\ settled' = settled \ S

\* Back to sleep: the pass forgets everything it worked from.
EndPass ==
  /\ phase' = "sleep"
  /\ snap' = NoEntries /\ snapAt' = 0
  /\ missing' = {} /\ stale' = {} /\ dirty' = {}

----------------------------------------------------------------------------
\* RPC handlers: under the lock change the store and save it, release the
\* lock, then make the nft call.

\* The store part of a call on t; next is the nft call made after the save.
ChangeEntry(c, t, e, next) ==
  /\ up /\ call[c] = NoCall
  /\ ops < MaxOps /\ ops' = ops + 1
  /\ mem' = [mem EXCEPT ![t] = e]
  /\ \/ Saved(mem') /\ call' = [call EXCEPT ![c] = next] /\ NoFault
     \/ \* the save failed: the call is answered with an error
        Fault /\ doubt' = doubt \cup {t} /\ UNCHANGED <<disk, call>>
  /\ Touch({t})
  /\ UNCHANGED <<now, up, kern, pass>>

Allow(c, t, e) ==
  ChangeEntry(c, t, e, [op |-> "add", target |-> t, exp |-> e])

Revoke(c, t) ==
  /\ mem[t] # Absent
  /\ ChangeEntry(c, t, Absent, [op |-> "remove", target |-> t])

\* The nft call of allow, lock released.
KernelAdd(c) ==
  /\ up /\ call[c] \in AddCalls
  /\ LET t == call[c].target IN
     /\ \/ \E k \in AfterAdd(t, call[c].exp) :
             kern' = [kern EXCEPT ![t] = k] /\ NoFault
        \/ Fault /\ UNCHANGED kern
     /\ Touch({t})
  /\ call' = [call EXCEPT ![c] = NoCall]
  /\ UNCHANGED <<now, up, store, pass, ops>>

\* The nft call of revoke; deleting an element that is gone is an error that
\* changes nothing.
KernelRemove(c) ==
  /\ up /\ call[c] \in RemoveCalls
  /\ LET t == call[c].target IN
     /\ \/ kern' = [kern EXCEPT ![t] = Absent] /\ NoFault
        \/ Fault /\ UNCHANGED kern
     /\ Touch({t})
  /\ call' = [call EXCEPT ![c] = NoCall]
  /\ UNCHANGED <<now, up, store, pass, ops>>

\* A settings call rebuilds the whole table under the lock and saves.
Reapply ==
  /\ up /\ CanApply(mem)
  /\ kern' = Rendered(mem)
  /\ settled' = Targets
  /\ \/ Saved(mem) /\ NoFault
     \/ UNCHANGED <<disk, doubt>> /\ Fault
  /\ UNCHANGED <<now, up, mem, call, pass, dirty, ops>>

\* Another component saves the store (a device connects, forwards resolve).
SaveStore ==
  /\ up
  /\ Saved(mem)
  /\ UNCHANGED <<now, up, mem, kern, call, pass, history, ops, faults>>

----------------------------------------------------------------------------
\* The reconcile thread

\* Under the lock: prune, save if that removed something, clone the entries.
Snapshot ==
  /\ up /\ phase = "sleep"
  /\ phase' = "list"
  /\ snapAt' = now
  /\ mem' = Pruned(mem, now)
  /\ snap' = mem'
  /\ \/ mem' = mem /\ UNCHANGED <<disk, doubt>> /\ NoFault
     \/ mem' # mem /\ Saved(mem') /\ NoFault
     \/ mem' # mem /\ UNCHANGED <<disk, doubt>> /\ Fault
  /\ dirty' = {}
  /\ UNCHANGED <<now, up, kern, call, missing, stale, settled, ops>>

\* Lock released: read the kernel sets and compare them with the snapshot.
ListKernel ==
  /\ up /\ phase = "list"
  /\ phase' = "fix"
  /\ missing' = MissingIn(kern, snap, snapAt)
  /\ stale' = StaleIn(kern, snap, snapAt)
  /\ UNCHANGED <<now, up, store, kern, call, snap, snapAt, history, ops, faults>>

ListFails ==
  /\ up /\ phase = "list"
  /\ phase' = "rebuild"
  /\ Fault
  /\ UNCHANGED <<now, up, store, kern, call, snap, snapAt, missing, stale,
                 history, ops>>

\* A fix that failed, or one decided on outdated facts, proves nothing.
Fixed(t) ==
  /\ dirty' = dirty
  /\ settled' = IF t \in dirty THEN settled \ {t} ELSE settled
Unfixed(t) == dirty' = dirty \cup {t} /\ settled' = settled \ {t}

\* Missing elements are added first, one nft call each; errors are ignored.
FixMissing(t) ==
  /\ up /\ phase = "fix" /\ t \in missing
  /\ missing' = missing \ {t}
  /\ \/ \E k \in AfterAdd(t, snap[t]) :
          /\ kern' = [kern EXCEPT ![t] = k]
          /\ IF k = Absent THEN Unfixed(t) ELSE Fixed(t)
          /\ NoFault
     \/ Fault /\ Unfixed(t) /\ UNCHANGED kern
  /\ UNCHANGED <<now, up, store, call, phase, snap, snapAt, stale, ops>>

FixStale(t) ==
  /\ up /\ phase = "fix" /\ missing = {} /\ t \in stale
  /\ stale' = stale \ {t}
  /\ \/ kern' = [kern EXCEPT ![t] = Absent] /\ Fixed(t) /\ NoFault
     \/ Fault /\ Unfixed(t) /\ UNCHANGED kern
  /\ UNCHANGED <<now, up, store, call, phase, snap, snapAt, missing, ops>>

PassDone ==
  /\ up /\ phase = "fix" /\ missing = {} /\ stale = {}
  /\ EndPass
  /\ settled' = settled \cup (Targets \ dirty)
  /\ UNCHANGED <<now, up, store, kern, call, ops, faults>>

\* Listing failed: rebuild the table from the entries of this moment.
Rebuild ==
  /\ up /\ phase = "rebuild"
  /\ \/ CanApply(mem) /\ kern' = Rendered(mem) /\ settled' = Targets /\ NoFault
     \/ ~CanApply(mem) /\ UNCHANGED <<kern, settled>> /\ NoFault
     \/ Fault /\ UNCHANGED <<kern, settled>>
  /\ EndPass
  /\ UNCHANGED <<now, up, store, call, ops>>

----------------------------------------------------------------------------
\* The service and its environment

\* Start: load and prune the store, save it if that removed something, and
\* rebuild the table; an error ends the process and systemd tries again.
Boot ==
  /\ ~up /\ up' = TRUE
  /\ mem' = Pruned(disk, now) /\ Saved(mem')
  /\ CanApply(mem') /\ kern' = Rendered(mem')
  /\ settled' = Targets
  /\ UNCHANGED <<now, call, pass, dirty, ops, faults>>

BootFails ==
  /\ ~up
  /\ disk' \in {disk, Pruned(disk, now)}
  /\ Fault
  /\ UNCHANGED <<now, up, mem, doubt, kern, call, pass, history, ops>>

\* The process dies between two steps; the kernel keeps its table unless the
\* whole host went down.
Crash ==
  /\ up /\ up' = FALSE
  /\ Fault
  /\ kern' \in {kern, NoEntries}
  /\ call' = [c \in Clients |-> NoCall]
  /\ EndPass
  /\ settled' = {}
  /\ UNCHANGED <<now, store, ops>>

\* Time passes: the kernel drops the elements whose timeout has come.
Tick ==
  /\ now < MaxTime /\ now' = now + 1
  /\ kern' = [t \in Targets |-> IF Live(kern[t], now + 1) THEN kern[t] ELSE Absent]
  /\ dirty' = IF phase = "sleep" THEN {}
              ELSE dirty \cup {t \in Targets : {mem[t], kern[t]} \cap Nat # {}}
  /\ settled' = {t \in settled : Pruned(mem, now)[t] = kern[t]}
  /\ UNCHANGED <<up, store, call, pass, ops, faults>>

----------------------------------------------------------------------------
Init ==
  /\ now = 0 /\ up = TRUE
  /\ mem = NoEntries /\ disk = NoEntries /\ kern = NoEntries
  /\ call = [c \in Clients |-> NoCall]
  /\ phase = "sleep" /\ snap = NoEntries /\ snapAt = 0
  /\ missing = {} /\ stale = {} /\ dirty = {} /\ settled = {}
  /\ doubt = {} /\ ops = 0 /\ faults = 0

Request ==
  \E c \in Clients, t \in Targets :
    \/ \E e \in Expiries \cup {Never} : Allow(c, t, e)
    \/ Revoke(c, t)
Handler(c) == KernelAdd(c) \/ KernelRemove(c)
Reconcile ==
  \/ Snapshot \/ ListKernel \/ ListFails
  \/ \E t \in Targets : FixMissing(t) \/ FixStale(t)
  \/ PassDone \/ Rebuild

Next ==
  \/ Request
  \/ \E c \in Clients : Handler(c)
  \/ Reapply \/ SaveStore
  \/ Reconcile
  \/ Boot \/ BootFails \/ Crash
  \/ Tick

Spec == Init /\ [][Next]_vars

\* The scheduler runs every thread, an nft process returns, and systemd
\* restarts the service (Restart=on-failure); clients and faults owe nothing.
Fairness ==
  /\ \A c \in Clients : WF_vars(Handler(c))
  /\ WF_vars(Reconcile)
  /\ WF_vars(Boot)

FairSpec == Spec /\ Fairness

----------------------------------------------------------------------------
\* Properties

TypeOK ==
  /\ now \in Nat /\ up \in BOOLEAN
  /\ mem \in [Targets -> Cell] /\ disk \in [Targets -> Cell]
  /\ kern \in [Targets -> Cell]
  /\ call \in [Clients -> AddCalls \cup RemoveCalls \cup {NoCall}]
  /\ phase \in Phases
  /\ snap \in [Targets -> Cell] /\ snapAt \in Nat
  /\ missing \subseteq Targets /\ stale \subseteq Targets
  /\ dirty \subseteq Targets /\ settled \subseteq Targets
  /\ doubt \subseteq Targets
  /\ ops \in 0..MaxOps /\ faults \in 0..MaxFaults

InKernel(t) == kern[t] # Absent
Agree(t) == InKernel(t) <=> Live(mem[t], now)

\* Whatever interleaves with a reconcile pass, a target that was found or put
\* in agreement keeps the kernel and the store in agreement until a call, a
\* failed nft command or an ending lifetime concerns that target itself: a
\* pass working from an old snapshot (reconcile_loop) can hurt no other.
SettledAgree == \A t \in settled : Agree(t)

\* The reconcile thread withdraws a live entry from the kernel only when the
\* entry was changed, or its lifetime ran, after the snapshot it works from.
WithdrawsOnlyOutdated ==
  [][\A t \in Targets :
       /\ phase = "fix" /\ stale' = stale \ {t} /\ t \in stale
       /\ InKernel(t) /\ ~InKernel(t)'
       => ~Live(mem[t], now) \/ t \in dirty]_vars

\* "the reconcile loop makes up for a failed kernel add": a live entry of the
\* store reaches the kernel, or stops being live.
AllowReachesKernel ==
  \A t \in Targets : (up /\ Live(mem[t], now)) ~> (InKernel(t) \/ ~Live(mem[t], now))

\* The store keeps the promises of a ledger whose entries survive crashes.
Ledger == INSTANCE GrantLedger WITH
  clock <- now,
  possible <- [t \in Targets |->
                 {Pruned(disk, now)[t]} \cup (IF up THEN {Pruned(mem, now)[t]} ELSE {})]

\* An acknowledged allow or revoke is what every later restart comes back
\* with; a save, prune, crash or restart never brings back another value.
ImplementsLedger == Ledger!LedgerSpec
=============================================================================
