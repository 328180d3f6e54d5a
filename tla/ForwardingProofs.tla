--------------------------- MODULE ForwardingProofs --------------------------
(***************************************************************************)
(* Proofs about Forwarding and DnatMigration, for any calls, keys, hosts   *)
(* and addresses.  The table is loaded from rows computed two steps before *)
(* from a copy of rules and cache taken before that, so the invariant says *)
(* of every update under way that its rows lead nowhere forbidden.  What   *)
(* is in the cache or in state.json does not matter: the list is consulted *)
(* for the address that is used, not where one is stored.  That no forward *)
(* is lost is about the files instead, and needs that no two calls migrate *)
(* the same rule at once.                                                  *)
(***************************************************************************)
EXTENDS DnatMigration, TLAPS, FiniteSetTheorems

Allowed(rows) == \A n \in rows : n.ip \notin Forbidden

FInv == TypeOK /\ Allowed(nat) /\ \A w \in Workers : Allowed(job[w].rows)

-----------------------------------------------------------------------------
\* resolve_one yields an address that may be used, or none.
LEMMA UsableFacts ==
  ASSUME TypeOK, NEW r \in Rules, NEW old \in Cached
  PROVE  Usable(r, old) \in (Ips \cup {NoIp}) \ Forbidden
<1>1. dns[r.host] \in Ips \cup {NoIp} /\ old[r.id] \in Ips \cup {NoIp}
  BY DEF TypeOK, Rules, Cached
<1> QED BY <1>1, NoIpOK, ForwardingOK DEF Usable

LEMMA FoundFacts ==
  ASSUME TypeOK, NEW rs \in SUBSET Rules, NEW old \in Cached
  PROVE  Found(rs, old) \in [Ids -> (Ips \cup {NoIp}) \ Forbidden]
<1>1. ASSUME NEW i \in Ids, \E r \in rs : r.id = i
      PROVE  Usable(CHOOSE r \in rs : r.id = i, old) \in (Ips \cup {NoIp}) \ Forbidden
  <2>1. (CHOOSE r \in rs : r.id = i) \in Rules
    BY <1>1
  <2> QED BY <2>1, UsableFacts
<1>2. NoIp \notin Forbidden
  BY NoIpOK, ForwardingOK
<1> QED BY <1>1, <1>2 DEF Found

LEMMA RowsFacts ==
  ASSUME NEW rs \in SUBSET Rules, NEW found \in [Ids -> (Ips \cup {NoIp}) \ Forbidden]
  PROVE  RowsOf(rs, found) \in SUBSET Rows /\ Allowed(RowsOf(rs, found))
<1>1. ASSUME NEW r \in rs, found[r.id] # NoIp
      PROVE  r.key \in Keys /\ found[r.id] \in Ips /\ found[r.id] \notin Forbidden
  BY <1>1 DEF Rules
<1> QED BY <1>1 DEF RowsOf, Rows, Allowed

LEMMA SkipFacts ==
  ASSUME NEW rs \in SUBSET Rules, NEW skip \in Skips(rs)
  PROVE  rs \ skip \in SUBSET Rules /\ Cardinality(skip) \in Nat
<1>1. skip = {} \/ \E r \in rs : skip = {r}
  BY DEF Skips
<1>2. Cardinality({}) = 0 /\ \A r \in rs : Cardinality({r}) = 1
  BY FS_EmptySet, FS_Singleton
<1>3. Cardinality(skip) = 0 \/ Cardinality(skip) = 1
  BY <1>1, <1>2, Zenon
<1> QED BY <1>3

LEMMA PayFacts == ASSUME TypeOK, NEW n \in Nat, Pay(n) PROVE faults' \in 0..MaxFaults
BY ForwardingOK DEF Pay, TypeOK

LEMMA GoesFacts ==
  ASSUME FInv, NEW w \in Workers, NEW step \in {"idle", "copy", "resolve", "install", "record"},
         NEW ok \in BOOLEAN, Goes(w, step) \/ Ends(w, ok)
  PROVE  job' \in [Workers -> Jobs] /\ \A v \in Workers : Allowed(job'[v].rows)
<1>0. job \in [Workers -> Jobs] /\ \A v \in Workers : Allowed(job[v].rows)
  BY DEF FInv, TypeOK
<1>1. [Idle EXCEPT !.ok = ok] \in Jobs /\ Allowed([Idle EXCEPT !.ok = ok].rows)
  BY NoIpOK DEF Idle, Jobs, Allowed, Empty, Cached
<1>2. [job[w] EXCEPT !.step = step] \in Jobs /\ [job[w] EXCEPT !.step = step].rows = job[w].rows
  BY <1>0 DEF Jobs
<1>3. CASE Goes(w, step)
  <2>1. job' = [job EXCEPT ![w] = [job[w] EXCEPT !.step = step]]
    BY <1>3 DEF Goes
  <2> QED BY <1>0, <1>2, <2>1
<1>4. CASE Ends(w, ok)
  <2>1. job' = [job EXCEPT ![w] = [Idle EXCEPT !.ok = ok]]
    BY <1>4 DEF Ends
  <2> QED BY <1>0, <1>1, <2>1
<1> QED BY <1>3, <1>4

-----------------------------------------------------------------------------
\* The update of the table

LEMMA UpdateStep == ASSUME FInv, NEW w \in Workers, Update(w) PROVE FInv'
<1>0. /\ TypeOK /\ job \in [Workers -> Jobs] /\ Allowed(nat)
      /\ \A v \in Workers : Allowed(job[v].rows)
      /\ job[w] \in Jobs
  BY DEF FInv, TypeOK
<1>1. CASE Copy(w)
  <2> DEFINE j == [job[w] EXCEPT !.step = "resolve", !.rules = rules, !.cache = cache]
  <2>1. job' = [job EXCEPT ![w] = j]
    BY <1>0, <1>1 DEF Copy
  <2>2. j \in Jobs /\ j.rows = job[w].rows
    BY <1>0 DEF Jobs, TypeOK
  <2>3. job' \in [Workers -> Jobs] /\ \A v \in Workers : Allowed(job'[v].rows)
    BY <1>0, <2>1, <2>2
  <2> QED BY <1>0, <1>1, <2>3 DEF Copy, FInv, TypeOK, store
<1>2. CASE Resolve(w)
  <2> DEFINE rs(skip) == job[w].rules \ skip
             found(skip) == Found(rs(skip), job[w].cache)
             rows(skip) == RowsOf(rs(skip), found(skip))
  <2>1. PICK skip \in Skips(job[w].rules) :
          /\ Pay(Cardinality(skip))
          /\ \/ Ends(w, TRUE)
             \/ job' = [job EXCEPT ![w] = [Idle EXCEPT
                          !.step = "install", !.rows = rows(skip), !.found = found(skip)]]
    BY <1>2 DEF Resolve
  <2>2. job[w].rules \in SUBSET Rules /\ job[w].cache \in Cached
    BY <1>0 DEF Jobs
  <2>3. rs(skip) \in SUBSET Rules /\ Cardinality(skip) \in Nat
    BY <2>2, SkipFacts
  <2>4. found(skip) \in [Ids -> (Ips \cup {NoIp}) \ Forbidden]
    BY <1>0, <2>2, <2>3, FoundFacts
  <2>5. rows(skip) \in SUBSET Rows /\ Allowed(rows(skip)) /\ found(skip) \in Cached
    BY <2>3, <2>4, RowsFacts DEF Cached
  <2>6. faults' \in 0..MaxFaults
    BY <1>0, <2>1, <2>3, PayFacts
  <2> HIDE DEF rs, found, rows
  <2>7. job' \in [Workers -> Jobs] /\ \A v \in Workers : Allowed(job'[v].rows)
    <3>1. CASE Ends(w, TRUE)
      BY <3>1, GoesFacts
    <3>2. CASE job' = [job EXCEPT ![w] = [Idle EXCEPT
                          !.step = "install", !.rows = rows(skip), !.found = found(skip)]]
      <4> DEFINE j == [Idle EXCEPT !.step = "install", !.rows = rows(skip), !.found = found(skip)]
      <4>1. j \in Jobs /\ j.rows = rows(skip)
        BY <2>5, NoIpOK DEF Idle, Jobs, Empty, Cached
      <4> HIDE DEF j
      <4> QED BY <1>0, <2>5, <3>2, <4>1 DEF j
    <3> QED BY <2>1, <3>1, <3>2
  <2> QED BY <1>0, <1>2, <2>6, <2>7 DEF Resolve, FInv, TypeOK, store
<1>3. CASE Install(w)
  <2>1. job' \in [Workers -> Jobs] /\ \A v \in Workers : Allowed(job'[v].rows)
    BY <1>3, GoesFacts DEF Install
  <2>2. nat' \in SUBSET Rows /\ Allowed(nat')
    BY <1>0, <1>3 DEF Install, TypeOK, Jobs
  <2>3. faults' \in 0..MaxFaults
    BY <1>0, <1>3, PayFacts DEF Install
  <2> QED BY <1>0, <1>3, <2>1, <2>2, <2>3 DEF Install, FInv, TypeOK, store
<1>4. CASE Record(w)
  <2>1. job' \in [Workers -> Jobs] /\ \A v \in Workers : Allowed(job'[v].rows)
    BY <1>4, GoesFacts DEF Record
  <2>2. cache' \in Cached /\ disk' \in Stores /\ rules' = rules
    BY <1>0, <1>4 DEF Record, TypeOK, Jobs, Stores
  <2>3. faults' \in 0..MaxFaults
    BY <1>0, <1>4, PayFacts DEF Record
  <2>4. last' \in SUBSET SUBSET Rows
    BY <1>0, <1>4 DEF Record, TypeOK, Jobs, HashOf
  <2> QED BY <1>0, <1>4, <2>1, <2>2, <2>3, <2>4 DEF Record, FInv, TypeOK
<1> QED BY <1>1, <1>2, <1>3, <1>4 DEF Update

-----------------------------------------------------------------------------
\* Client calls

LEMMA SavesFacts ==
  ASSUME FInv, NEW c \in Calls, rules' \in SUBSET Rules, cache' \in Cached, Saves(c)
  PROVE  /\ disk' \in Stores /\ faults' \in 0..MaxFaults
         /\ job' \in [Workers -> Jobs] /\ \A v \in Workers : Allowed(job'[v].rows)
<1>1. disk' \in Stores
  <2>1. [rules |-> rules', cache |-> cache'] \in Stores /\ disk \in Stores
    BY DEF FInv, TypeOK, Stores
  <2>2. disk' = [rules |-> rules', cache |-> cache'] \/ disk' = disk
    BY DEF Saves
  <2> QED BY <2>1, <2>2
<1>2. faults' \in 0..MaxFaults
  BY PayFacts DEF Saves, FInv
<1>3. job' \in [Workers -> Jobs] /\ \A v \in Workers : Allowed(job'[v].rows)
  BY GoesFacts DEF Saves, Workers
<1> QED BY <1>1, <1>2, <1>3

\* A step that saves other rules and leaves the table to the update.
LEMMA StoreStep ==
  ASSUME FInv, NEW c \in Calls, rules' \in SUBSET Rules, cache' \in Cached, Saves(c),
         edits' \in 0..MaxEdits, UNCHANGED <<up, nat, dns, last, shifts>>
  PROVE  FInv'
BY SavesFacts DEF FInv, TypeOK

LEMMA AddStep ==
  ASSUME FInv, NEW c \in Calls, NEW k \in Keys, NEW h \in Hosts, AddRule(c, k, h),
         UNCHANGED <<up, nat, dns, last, shifts>>
  PROVE  FInv'
<1>1. edits' \in 0..MaxEdits /\ edits' \in Ids
  BY ForwardingOK DEF AddRule, FInv, TypeOK, Ids
<1>2. rules' \in SUBSET Rules /\ cache' \in Cached
  BY <1>1 DEF AddRule, FInv, TypeOK, Rules
<1> QED BY <1>1, <1>2, StoreStep DEF AddRule

LEMMA ClientStep == ASSUME FInv, NEW c \in Calls, ClientCall(c) PROVE FInv'
<1>1. ASSUME NEW k \in Keys, NEW h \in Hosts, AddForward(c, k, h) PROVE FInv'
  BY <1>1, AddStep DEF AddForward
<1>2. ASSUME NEW r \in rules, NEW k \in Keys, NEW h \in Hosts, UpdateForward(c, r, k, h) PROVE FInv'
  <2>1. edits' \in 0..MaxEdits
    BY <1>2, ForwardingOK DEF UpdateForward, FInv, TypeOK
  <2>2. rules' \in SUBSET Rules
    BY <1>2 DEF UpdateForward, FInv, TypeOK, Rules
  <2>3. cache' \in Cached
    BY <1>2 DEF UpdateForward, FInv, TypeOK, Cached
  <2> QED BY <1>2, <2>1, <2>2, <2>3, StoreStep DEF UpdateForward
<1>3. ASSUME NEW r \in rules, RemoveForward(c, r) PROVE FInv'
  <2>1. rules' \in SUBSET Rules /\ cache' \in Cached /\ edits' \in 0..MaxEdits
    BY <1>3 DEF RemoveForward, DropRule, FInv, TypeOK, Cached
  <2> QED BY <1>3, <2>1, StoreStep DEF RemoveForward, DropRule
<1> QED BY <1>1, <1>2, <1>3 DEF ClientCall

-----------------------------------------------------------------------------
\* The world

LEMMA WorldStep == ASSUME FInv, Shift \/ Crash \/ Boot PROVE FInv'
<1>0. TypeOK /\ Allowed(nat) /\ \A w \in Workers : Allowed(job[w].rows)
  BY DEF FInv
<1>1. CASE Shift
  <2>1. dns' \in [Hosts -> Ips \cup {NoIp}] /\ shifts' \in 0..MaxShifts
    BY <1>1, ForwardingOK DEF Shift, FInv, TypeOK
  <2> QED BY <1>0, <1>1, <2>1 DEF Shift, FInv, TypeOK, store
<1>2. CASE Crash
  <2>1. faults' \in 0..MaxFaults
    BY <1>0, <1>2, PayFacts DEF Crash
  <2>2. Idle \in Jobs /\ Allowed(Idle.rows)
    BY NoIpOK DEF Idle, Jobs, Empty, Cached, Allowed
  <2>3. job' \in [Workers -> Jobs] /\ \A w \in Workers : Allowed(job'[w].rows)
    BY <1>2, <2>2 DEF Crash
  <2>4. nat' \in SUBSET Rows /\ Allowed(nat')
    BY <1>0, <1>2 DEF Crash, TypeOK, Allowed
  <2> QED BY <1>0, <1>2, <2>1, <2>3, <2>4 DEF Crash, FInv, TypeOK, store
<1>3. CASE Boot
  <2>0. disk.rules \in SUBSET Rules /\ disk.cache \in Cached /\ disk \in Stores
    BY <1>0 DEF TypeOK, Stores
  <2>1. ASSUME NEW skip \in Skips(disk.rules),
               NEW found, found = Found(disk.rules \ skip, disk.cache),
               nat' = RowsOf(disk.rules \ skip, found), cache' = found,
               \/ disk' = [disk EXCEPT !.cache = found] /\ Pay(Cardinality(skip))
               \/ disk' = disk /\ Pay(Cardinality(skip) + 1)
        PROVE  FInv'
    <3>1. disk.rules \ skip \in SUBSET Rules /\ Cardinality(skip) \in Nat
             /\ Cardinality(skip) + 1 \in Nat
      BY <2>0, SkipFacts
    <3>2. found \in [Ids -> (Ips \cup {NoIp}) \ Forbidden]
      BY <1>0, <2>0, <2>1, <3>1, FoundFacts
    <3>3. nat' \in SUBSET Rows /\ Allowed(nat')
      BY <2>1, <3>1, <3>2, RowsFacts
    <3>4. cache' \in Cached /\ disk' \in Stores
      BY <2>0, <2>1, <3>2 DEF Cached, Stores
    <3>5. faults' \in 0..MaxFaults
      BY <1>0, <2>1, <3>1, PayFacts
    <3>6. rules' \in SUBSET Rules
      BY <1>3, <2>0 DEF Boot
    <3> QED BY <1>0, <1>3, <3>3, <3>4, <3>5, <3>6 DEF Boot, FInv, TypeOK
  <2>2. ASSUME nat' = nat, cache' = disk.cache, disk' = disk, Pay(1) PROVE FInv'
    <3>1. faults' \in 0..MaxFaults
      BY <1>0, <2>2, PayFacts
    <3> QED BY <1>0, <1>3, <2>0, <2>2, <3>1 DEF Boot, FInv, TypeOK
  <2> QED BY <1>3, <2>1, <2>2 DEF Boot
<1> QED BY <1>1, <1>2, <1>3

LEMMA StutterStep == ASSUME FInv, UNCHANGED vars PROVE FInv'
BY DEF FInv, vars, store, TypeOK, Allowed

LEMMA InitStep == Init => FInv
<1> SUFFICES ASSUME Init PROVE FInv
  OBVIOUS
<1>1. Idle \in Jobs /\ Empty \in Cached
  BY NoIpOK DEF Idle, Jobs, Empty, Cached
<1>2. job \in [Workers -> Jobs] /\ \A w \in Workers : job[w].rows = {}
  BY <1>1 DEF Init, Idle
<1>3. disk \in Stores
  BY <1>1 DEF Init, Stores
<1>4. up \in BOOLEAN /\ rules \in SUBSET Rules /\ cache \in Cached /\ nat = {} /\ last = {}
  BY <1>1 DEF Init
<1>5. dns \in [Hosts -> Ips \cup {NoIp}]
  BY DEF Init
<1>6. edits \in 0..MaxEdits /\ shifts \in 0..MaxShifts /\ faults \in 0..MaxFaults
  BY ForwardingOK DEF Init
<1>7. TypeOK
  BY <1>2, <1>3, <1>4, <1>5, <1>6 DEF TypeOK
<1> QED BY <1>2, <1>4, <1>7 DEF FInv, Allowed

LEMMA FInvHolds == Spec => []FInv
<1>1. FInv /\ [Next]_vars => FInv'
  BY UpdateStep, ClientStep, WorldStep, StutterStep DEF Next
<1> QED BY <1>1, InitStep, PTL DEF Spec

-----------------------------------------------------------------------------
\* Migrations beside all that

MInv == FInv /\ MTypeOK

LEMMA MigTyped ==
  ASSUME MInv, NEW c \in Calls, NEW step \in {"none", "add", "wait", "retire", "undo"},
         Moves(c, step) \/ Leaves(c)
  PROVE  mig' \in [Calls -> Migs]
<1>1. NoMig \in Migs
  BY SomethingToForward, ForwardingOK DEF NoMig, NoRule, Migs
<1>2. mig \in [Calls -> Migs] /\ [mig[c] EXCEPT !.step = step] \in Migs
  BY DEF MInv, MTypeOK, Migs
<1> QED BY <1>1, <1>2 DEF Moves, Leaves

LEMMA MigrationStep == ASSUME MInv, NEW c \in Calls, Migration(c) PROVE MInv'
<1>0. /\ FInv /\ TypeOK /\ mig \in [Calls -> Migs] /\ mig[c] \in Migs
      /\ conf \subseteq DnatRules /\ dkern \subseteq DnatRules /\ wanted \subseteq Keys
  BY DEF MInv, MTypeOK
<1>1. ASSUME NEW d \in conf, MigrateStart(c, d) PROVE MInv'
  <2>1. [step |-> "add", rule |-> d, id |-> 0] \in Migs
    BY <1>0, DnatRulesOK, ForwardingOK DEF Migs
  <2>2. mig' \in [Calls -> Migs]
    BY <1>0, <1>1, <2>1 DEF MigrateStart
  <2>3. FInv'
    BY <1>0, <1>1, StutterStep DEF MigrateStart
  <2> QED BY <1>0, <1>1, <2>2, <2>3 DEF MigrateStart, SameDnat, MInv, MTypeOK, FInv
<1>2. CASE MigrateAdd(c)
  <2>1. mig[c].rule.key \in Keys /\ mig[c].rule.host \in Hosts
    BY <1>0 DEF Migs
  <2>2. FInv'
    BY <1>0, <1>2, <2>1, AddStep DEF MigrateAdd
  <2>3. edits' \in 0..MaxEdits
    BY <2>2 DEF FInv, TypeOK
  <2>4. NoMig \in Migs
    BY SomethingToForward, ForwardingOK DEF NoMig, NoRule, Migs
  <2>5. [mig[c] EXCEPT !.step = "wait", !.id = edits'] \in Migs
    BY <1>0, <2>3 DEF Migs
  <2>6. mig' \in [Calls -> Migs]
    BY <1>0, <1>2, <2>4, <2>5 DEF MigrateAdd
  <2> QED BY <1>0, <1>2, <2>2, <2>6 DEF MigrateAdd, SameDnat, MInv, MTypeOK, FInv
<1>3. CASE MigrateCheck(c)
  <2>1. mig' \in [Calls -> Migs]
    BY <1>3, MigTyped DEF MInv, MigrateCheck
  <2>2. CASE UNCHANGED vars
    BY <1>0, <1>3, <2>1, <2>2, StutterStep DEF MigrateCheck, SameDnat, MInv, MTypeOK, FInv
  <2>3. ASSUME rules' = {r \in rules : r.id # mig[c].id}, cache' = cache,
               \/ disk' = [rules |-> rules', cache |-> cache] /\ Pay(0)
               \/ disk' = disk /\ Pay(1),
               Goes(c, "copy"), UNCHANGED <<up, nat, dns, last, edits, shifts>>
        PROVE  MInv'
    <3>1. rules' \in SUBSET Rules /\ cache' \in Cached
      BY <1>0, <2>3 DEF TypeOK
    <3>2. disk' \in Stores
      BY <1>0, <2>3, <3>1 DEF TypeOK, Stores
    <3>3. faults' \in 0..MaxFaults
      BY <1>0, <2>3, PayFacts
    <3>4. job' \in [Workers -> Jobs] /\ \A v \in Workers : Allowed(job'[v].rows)
      BY <1>0, <2>3, GoesFacts DEF Workers
    <3>5. FInv'
      BY <1>0, <2>3, <3>1, <3>2, <3>3, <3>4 DEF FInv, TypeOK
    <3> QED BY <1>0, <1>3, <2>1, <3>5 DEF MigrateCheck, SameDnat, MInv, MTypeOK, FInv
  <2> QED BY <1>3, <2>2, <2>3 DEF MigrateCheck
<1>4. CASE MigrateUndone(c)
  <2>1. mig' \in [Calls -> Migs] /\ FInv'
    BY <1>0, <1>4, MigTyped, StutterStep DEF MInv, MigrateUndone
  <2> QED BY <1>0, <1>4, <2>1 DEF MigrateUndone, SameDnat, MInv, MTypeOK, FInv
<1>5. CASE MigrateRetire(c)
  <2>1. mig' \in [Calls -> Migs]
    BY <1>5, MigTyped DEF MInv, MigrateRetire
  <2>2. CASE UNCHANGED vars
    BY <1>0, <1>5, <2>1, <2>2, StutterStep DEF MigrateRetire, DropDnat, MInv, MTypeOK, FInv
  <2>3. CASE Pay(1) /\ UNCHANGED <<up, store, nat, dns, job, last, edits, shifts>>
    <3>1. faults' \in 0..MaxFaults
      BY <1>0, <2>3, PayFacts
    <3>2. FInv'
      BY <1>0, <2>3, <3>1 DEF FInv, TypeOK, store, Allowed
    <3> QED BY <1>0, <1>5, <2>1, <3>2 DEF MigrateRetire, DropDnat, MInv, MTypeOK, FInv
  <2> QED BY <1>5, <2>2, <2>3 DEF MigrateRetire
<1> QED BY <1>1, <1>2, <1>3, <1>4, <1>5 DEF Migration

LEMMA MNextStep == MInv /\ [MNext]_mvars => MInv'
<1> SUFFICES ASSUME MInv, [MNext]_mvars PROVE MInv'
  OBVIOUS
<1>0. /\ FInv /\ TypeOK /\ mig \in [Calls -> Migs]
      /\ conf \subseteq DnatRules /\ dkern \subseteq DnatRules /\ wanted \subseteq Keys
  BY DEF MInv, MTypeOK
<1>1. ASSUME FInv', conf' \subseteq DnatRules, dkern' \subseteq DnatRules, wanted' \subseteq Keys,
             mig' \in [Calls -> Migs]
      PROVE  MInv'
  BY <1>1 DEF MInv, MTypeOK, FInv
<1>2. ASSUME NEW c \in Calls, NativeCall(c) PROVE MInv'
  <2>1. ASSUME NEW k \in Keys, NEW h \in Hosts,
               AddForward(c, k, h) \/ \E r \in rules : UpdateForward(c, r, k, h)
        PROVE  FInv'
    BY <1>0, <2>1, ClientStep DEF ClientCall
  <2>2. ASSUME NEW r \in rules, RemoveForward(c, r) PROVE FInv'
    BY <1>0, <2>2, ClientStep DEF ClientCall
  <2> QED BY <1>0, <1>1, <1>2, <2>1, <2>2 DEF NativeCall
<1>3. ASSUME NEW c \in Calls, NEW d \in conf, RemoveDnat(c, d) PROVE MInv'
  <2>1. FInv'
    BY <1>0, <1>3, StutterStep DEF RemoveDnat
  <2> QED BY <1>0, <1>1, <1>3, <2>1 DEF RemoveDnat, DropDnat
<1>4. CASE DnatDaemon
  <2>1. FInv'
    BY <1>0, <1>4, StutterStep DEF DnatDaemon
  <2> QED BY <1>0, <1>1, <1>4, <2>1 DEF DnatDaemon
<1>5. CASE World
  <2>1. FInv'
    BY <1>0, <1>5, UpdateStep, WorldStep DEF World
  <2>2. [c \in Calls |-> NoMig] \in [Calls -> Migs]
    BY SomethingToForward, ForwardingOK DEF NoMig, NoRule, Migs
  <2> QED BY <1>0, <1>1, <1>5, <2>1, <2>2 DEF World, SameDnat
<1>6. CASE UNCHANGED mvars
  <2>1. FInv'
    BY <1>0, <1>6, StutterStep DEF mvars
  <2> QED BY <1>0, <1>1, <1>6, <2>1 DEF mvars
<1> QED BY <1>2, <1>3, <1>4, <1>5, <1>6, MigrationStep DEF MNext

LEMMA MInvHolds == MSpec => []MInv
<1>1. MInit => MInv
  <2> SUFFICES ASSUME MInit PROVE MInv
    OBVIOUS
  <2>1. FInv /\ TypeOK
    BY InitStep DEF MInit, FInv
  <2>2. mig \in [Calls -> Migs]
    BY SomethingToForward, ForwardingOK DEF MInit, NoMig, NoRule, Migs
  <2>3. conf \subseteq DnatRules /\ dkern \subseteq DnatRules /\ wanted \subseteq Keys
    BY DnatRulesOK DEF MInit
  <2> QED BY <2>1, <2>2, <2>3 DEF MInv, MTypeOK
<1> QED BY <1>1, MNextStep, PTL DEF MSpec

-----------------------------------------------------------------------------
\* MTypeOK, and with it the type invariant of the forwards below, for any number of
\* calls, rules, hosts and addresses.
THEOREM MigrationTyped == MSpec => []MTypeOK
<1>1. MInv => MTypeOK
  BY DEF MInv
<1> QED BY <1>1, MInvHolds, PTL

\* NoForbiddenTarget: whatever hosts resolve to meanwhile, whatever the cache still
\* holds, and in whatever order calls, the resolve thread, crashes and migrations load
\* the table, no forward leads to an address on the list.
THEOREM NoForbiddenTargetHolds ==
  (Spec => []NoForbiddenTarget) /\ (MSpec => []NoForbiddenTarget)
<1>1. FInv => NoForbiddenTarget
  BY DEF FInv, Allowed, NoForbiddenTarget
<1>2. MInv => NoForbiddenTarget
  BY <1>1 DEF MInv
<1> QED BY <1>1, <1>2, FInvHolds, MInvHolds, PTL

-----------------------------------------------------------------------------
(***************************************************************************)
(* No forward is lost, as long as no two calls migrate the same rule at    *)
(* once.  What a call saves are the rules in memory, so a forward that     *)
(* left dnat has to be there as well as in state.json; a migration that    *)
(* takes its rule back must not take another one; and the dnat rule that   *)
(* then stands in for the key must be one that no other call is about to   *)
(* retire.                                                                 *)
(***************************************************************************)

NoTwins ==
  \A c, d \in Calls :
    c # d /\ mig[c].step # "none" /\ mig[d].step # "none" => mig[c].rule # mig[d].rule

OneClient == \A c, d \in Calls : c = d

Among(rs, k) == \E r \in rs : r.key = k

\* Identifiers are given out once.
Numbered(rs) == \A r \in rs : r.id <= edits /\ \A q \in rs : r.id = q.id => r = q
RulesInv == Numbered(rules) /\ Numbered(disk.rules)

Native(k) == Among(rules, k) /\ Among(disk.rules, k)

\* No migration of e has added its native rule, so none retires e.
Rests(e) == \A c \in Calls : mig[c].rule = e => mig[c].step \notin {"wait", "retire"}
HeldBy(k) == Native(k) \/ \E e \in conf : e.key = k /\ Rests(e)

\* A migration has not taken its rule out of dnat yet, unless a client gave the key
\* up; and what its identifier stands for is its key, or one given up.
Migrates(c) ==
  /\ mig[c].step # "none" => mig[c].rule \in conf \/ mig[c].rule.key \notin wanted
  /\ mig[c].step = "wait" =>
       /\ mig[c].id <= edits
       /\ \A r \in rules : r.id = mig[c].id => r.key = mig[c].rule.key \/ r.key \notin wanted

HeldInv ==
  /\ RulesInv
  /\ \A k \in wanted : HeldBy(k)
  /\ \A c \in Calls : Migrates(c)
  /\ ~up => \A c \in Calls : mig[c].step = "none"

-----------------------------------------------------------------------------
\* What a call saves are the rules in memory, or nothing.
LEMMA SavedRules ==
  ASSUME MInv, NEW c \in Calls, Saves(c)
  PROVE  /\ disk'.rules = rules' \/ disk' = disk
         /\ job'[c].step = "copy" => disk'.rules = rules'
<1>1. job \in [Workers -> Jobs] /\ c \in Workers BY DEF MInv, MTypeOK, TypeOK, Workers
<1>2. Ends(c, FALSE) => job'[c].step # "copy" BY <1>1 DEF Ends, Idle
<1>3. \/ disk' = [rules |-> rules', cache |-> cache']
      \/ disk' = disk /\ Ends(c, FALSE)
  BY DEF Saves
<1> HIDE DEF Ends
<1>4. CASE disk' = [rules |-> rules', cache |-> cache'] BY <1>4
<1>5. CASE disk' = disk /\ Ends(c, FALSE) BY <1>2, <1>5
<1> QED BY <1>3, <1>4, <1>5

LEMMA AddKeeps ==
  ASSUME MInv, RulesInv, NEW c \in Calls, NEW k \in Keys, NEW h \in Hosts, AddRule(c, k, h)
  PROVE  /\ RulesInv' /\ Among(rules', k)
         /\ \A l : Among(rules, l) => Among(rules', l)
         /\ \A r \in rules' : r.id = edits' => r.key = k
         /\ disk'.rules = rules' \/ disk' = disk
         /\ job'[c].step = "copy" => disk'.rules = rules'
<1>1. /\ edits \in Nat /\ edits' = edits + 1
      /\ \A r \in rules \cup disk.rules : r.id \in Nat
  BY ForwardingOK DEF MInv, MTypeOK, TypeOK, Stores, Rules, Ids, AddRule
<1> DEFINE new == [id |-> edits', key |-> k, host |-> h]
<1>2. rules' = {r \in rules : r.key # k} \cup {new} BY DEF AddRule
<1>3. new.id = edits' /\ new.key = k OBVIOUS
<1> HIDE DEF new
<1>4. Numbered(rules)' BY <1>1, <1>2, <1>3 DEF Numbered, RulesInv
<1>5. Saves(c) BY DEF AddRule
<1>6. Numbered(disk.rules)' BY <1>1, <1>4, <1>5, SavedRules DEF Numbered, RulesInv
<1>7. Among(rules', k) /\ \A l : Among(rules, l) => Among(rules', l) BY <1>2, <1>3 DEF Among
<1>8. \A r \in rules' : r.id = edits' => r.key = k BY <1>1, <1>2, <1>3 DEF RulesInv, Numbered
<1> QED BY <1>4, <1>5, <1>6, <1>7, <1>8, SavedRules DEF RulesInv

\* Other calls see nothing of a migration's own progress.
LEMMA OnlyMine ==
  ASSUME MInv, NEW c \in Calls, NEW m, mig' = [mig EXCEPT ![c] = m]
  PROVE  mig'[c] = m /\ \A d \in Calls : d # c => mig'[d] = mig[d]
BY DEF MInv, MTypeOK

\* A dnat rule rests on, unless this step adds the native rule of its migration.
LEMMA RestsOn ==
  ASSUME MInv, NEW c \in Calls, NEW m, mig' = [mig EXCEPT ![c] = m], NEW e, Rests(e),
         m.step \in {"wait", "retire"} => m.rule # e
  PROVE  Rests(e)'
BY OnlyMine DEF Rests

\* The next step of a migration.
LEMMA HeldMigration ==
  ASSUME MInv, HeldInv, NoTwins, NEW c \in Calls, Migration(c)
  PROVE  HeldInv'
<1>1. /\ mig \in [Calls -> Migs] /\ mig[c] \in Migs /\ conf \subseteq DnatRules
      /\ job \in [Workers -> Jobs] /\ edits \in Nat
      /\ \A d \in Calls : Migrates(d)
      /\ RulesInv /\ \A k \in wanted : HeldBy(k)
  BY ForwardingOK DEF MInv, MTypeOK, TypeOK, HeldInv
<1>0. up'
  <2>1. up BY DEF Migration, MigrateStart, Ready, Free, MigrateAdd, MigrateCheck, MigrateUndone,
                  MigrateRetire, HeldInv
  <2> QED BY <2>1 DEF Migration, MigrateStart, MigrateAdd, MigrateCheck, MigrateUndone,
                      MigrateRetire, vars
<1>2. ASSUME RulesInv', \A k \in wanted' : HeldBy(k)', \A d \in Calls : Migrates(d)'
      PROVE  HeldInv'
  BY <1>0, <1>2 DEF HeldInv
<1>3. NoMig.step = "none" BY DEF NoMig
\* Steps that touch neither the rules nor dnat.
<1>4. ASSUME UNCHANGED <<rules, disk, edits, conf, wanted>>, NEW m,
             mig' = [mig EXCEPT ![c] = m], Migrates(c)',
             m.step = "retire" => m.rule = mig[c].rule /\ mig[c].step = "wait",
             m.step # "wait"
      PROVE  HeldInv'
  <2>1. \A d \in Calls : d # c => mig'[d] = mig[d] BY <1>4, OnlyMine
  <2>2. \A d \in Calls : Migrates(d)' BY <1>1, <1>4, <2>1 DEF Migrates
  <2>3. \A e : Rests(e) => Rests(e)'
    <3>1. ASSUME NEW e, Rests(e) PROVE m.step \in {"wait", "retire"} => m.rule # e
      BY <1>4, <3>1 DEF Rests
    <3> QED BY <1>4, <3>1, RestsOn
  <2>4. \A k \in wanted' : HeldBy(k)' BY <1>1, <1>4, <2>3 DEF HeldBy, Native
  <2>5. RulesInv' BY <1>1, <1>4 DEF RulesInv, Numbered
  <2> QED BY <1>2, <2>2, <2>4, <2>5
<1>5. ASSUME UNCHANGED <<rules, disk, edits, conf, wanted>>, Leaves(c) PROVE HeldInv'
  <2>1. mig' = [mig EXCEPT ![c] = NoMig] BY <1>5 DEF Leaves
  <2>2. Migrates(c)' BY <1>3, <2>1, OnlyMine DEF Migrates
  <2> QED BY <1>3, <1>4, <1>5, <2>1, <2>2
<1>6. ASSUME NEW d \in conf, MigrateStart(c, d) PROVE HeldInv'
  <2> DEFINE m == [step |-> "add", rule |-> d, id |-> 0]
  <2>1. mig' = [mig EXCEPT ![c] = m] /\ m.step = "add" /\ m.rule = d
    BY <1>6 DEF MigrateStart
  <2>2. UNCHANGED <<rules, disk, edits, conf, wanted>>
    BY <1>6 DEF MigrateStart, vars, store, SameDnat
  <2> HIDE DEF m
  <2>3. mig'[c] = m BY <2>1, OnlyMine
  <2>4. Migrates(c)' BY <1>6, <2>1, <2>2, <2>3 DEF Migrates
  <2> QED BY <1>4, <2>1, <2>2, <2>4
<1>7. CASE MigrateAdd(c)
  <2> DEFINE k == mig[c].rule.key
  <2>1. AddRule(c, k, mig[c].rule.host) /\ k \in Keys /\ mig[c].rule.host \in Hosts
    BY <1>1, <1>7 DEF MigrateAdd, Migs
  <2>2. conf' = conf /\ wanted' = wanted BY <1>7 DEF MigrateAdd, SameDnat
  <2>3. /\ RulesInv' /\ Among(rules', k)
        /\ \A l : Among(rules, l) => Among(rules', l)
        /\ \A r \in rules' : r.id = edits' => r.key = k
        /\ disk'.rules = rules' \/ disk' = disk
        /\ job'[c].step = "copy" => disk'.rules = rules'
    BY <1>1, <2>1, AddKeeps
  <2>4. /\ edits' = edits + 1
        /\ \A r \in rules' : r \in rules \/ r.id = edits'
    BY <2>1 DEF AddRule
  <2>5. \A l : Native(l) => Native(l)' BY <2>3 DEF Native, Among
  <2> DEFINE m == IF job'[c].step # "copy" THEN NoMig
                  ELSE [mig[c] EXCEPT !.step = "wait", !.id = edits']
  <2>6. mig' = [mig EXCEPT ![c] = m] BY <1>7 DEF MigrateAdd
  <2>7. \/ job'[c].step = "copy" /\ m.step = "wait" /\ m.rule = mig[c].rule /\ m.id = edits'
        \/ m.step = "none"
    BY <1>1, <1>3 DEF Migs
  <2> HIDE DEF m
  <2>8. ASSUME NEW d \in Calls PROVE Migrates(d)'
    <3>1. CASE d = c
      <4>1. mig'[c] = m BY <2>6, OnlyMine
      <4>2. mig[c].rule \in conf \/ k \notin wanted
        BY <1>1, <1>7 DEF Migrates, MigrateAdd
      <4>3. edits' <= edits' BY <1>1, <2>4
      <4> QED BY <2>2, <2>3, <2>7, <3>1, <4>1, <4>2, <4>3 DEF Migrates
    <3>2. CASE d # c
      <4>1. mig'[d] = mig[d] BY <2>6, <3>2, OnlyMine
      <4>2. mig[d].id \in Nat BY <1>1 DEF Migs
      <4>3. mig[d].id <= edits => mig[d].id <= edits' /\ mig[d].id # edits'
        BY <1>1, <2>4, <4>2
      <4> QED BY <1>1, <2>2, <2>4, <4>1, <4>3 DEF Migrates
    <3> QED BY <3>1, <3>2
  <2>9. ASSUME NEW l \in wanted' PROVE HeldBy(l)'
    <3>1. CASE Native(l) BY <2>5, <3>1 DEF HeldBy
    <3>2. ASSUME NEW e \in conf, e.key = l, Rests(e) PROVE HeldBy(l)'
      <4>1. CASE m.step = "wait" /\ m.rule = e
        <5>1. Native(l)' BY <2>3, <2>7, <3>2, <4>1 DEF Native
        <5> QED BY <5>1 DEF HeldBy
      <4>2. CASE ~(m.step = "wait" /\ m.rule = e)
        <5>1. Rests(e)' BY <2>6, <2>7, <3>2, <4>2, RestsOn
        <5> QED BY <2>2, <3>2, <5>1 DEF HeldBy
      <4> QED BY <4>1, <4>2
    <3> QED BY <1>1, <2>2, <3>1, <3>2 DEF HeldBy
  <2> QED BY <1>2, <2>3, <2>8, <2>9
<1>8. CASE MigrateCheck(c)
  <2>1. conf' = conf /\ wanted' = wanted /\ mig[c].step = "wait"
    BY <1>8 DEF MigrateCheck, SameDnat
  <2>2. mig[c].rule \in conf \/ mig[c].rule.key \notin wanted BY <1>1, <2>1 DEF Migrates
  <2>3. ASSUME NEW step \in {"retire", "undo"}, Moves(c, step)
        PROVE  /\ mig' = [mig EXCEPT ![c] = [mig[c] EXCEPT !.step = step]]
               /\ [mig[c] EXCEPT !.step = step].step = step
               /\ [mig[c] EXCEPT !.step = step].rule = mig[c].rule
               /\ Migrates(c)'
    <3>1. mig' = [mig EXCEPT ![c] = [mig[c] EXCEPT !.step = step]] BY <2>3 DEF Moves
    <3>2. /\ [mig[c] EXCEPT !.step = step].step = step
          /\ [mig[c] EXCEPT !.step = step].rule = mig[c].rule
      BY <1>1 DEF Migs
    <3>3. mig'[c].step = step /\ mig'[c].rule = mig[c].rule BY <3>1, <3>2, OnlyMine
    <3>4. Migrates(c)' BY <2>1, <2>2, <3>3 DEF Migrates
    <3> QED BY <3>1, <3>2, <3>4
  <2>4. CASE UNCHANGED vars
    <3>1. UNCHANGED <<rules, disk, edits>> BY <2>4 DEF vars, store
    <3>2. CASE Leaves(c) BY <1>5, <2>1, <3>1, <3>2
    <3>3. ASSUME NEW step \in {"retire", "undo"}, Moves(c, step) PROVE HeldInv'
      BY <1>4, <2>1, <2>3, <3>1, <3>3
    <3> QED BY <1>8, <3>2, <3>3 DEF MigrateCheck
  <2>5. ASSUME Moves(c, "undo"), rules' = {r \in rules : r.id # mig[c].id}, edits' = edits,
               disk' = [rules |-> rules', cache |-> cache] \/ disk' = disk
        PROVE  HeldInv'
    <3> DEFINE m == [mig[c] EXCEPT !.step = "undo"]
    <3>0. PICK e : e = mig[c].rule OBVIOUS
    <3>1. mig' = [mig EXCEPT ![c] = m] /\ m.step = "undo" /\ m.rule = e /\ Migrates(c)'
      BY <2>3, <2>5, <3>0
    <3> HIDE DEF m
    <3>2. mig'[c] = m /\ \A d \in Calls : d # c => mig'[d] = mig[d] BY <3>1, OnlyMine
    <3>3. disk'.rules = rules' \/ disk' = disk BY <2>5
    <3>4. RulesInv' BY <1>1, <2>5, <3>3 DEF RulesInv, Numbered
    <3>5. \A d \in Calls : Migrates(d)' BY <1>1, <2>1, <2>5, <3>1, <3>2 DEF Migrates
    <3>6. \A r \in rules : r.id = mig[c].id => r.key = e.key \/ r.key \notin wanted
      BY <1>1, <2>1, <3>0 DEF Migrates
    <3>7. Rests(e)'
      <4>1. ASSUME NEW d \in Calls, d # c, mig[d].rule = e PROVE mig[d].step = "none"
        BY <2>1, <3>0, <4>1 DEF NoTwins
      <4> QED BY <3>1, <3>2, <4>1 DEF Rests
    <3>8. ASSUME NEW l \in wanted' PROVE HeldBy(l)'
      <4>1. CASE l = e.key BY <2>1, <2>2, <3>0, <3>7, <4>1 DEF HeldBy
      <4>2. ASSUME NEW x \in conf, x.key = l, Rests(x) PROVE HeldBy(l)'
        <5>1. Rests(x)' BY <3>1, <4>2, RestsOn
        <5> QED BY <2>1, <4>2, <5>1 DEF HeldBy
      <4>3. CASE l # e.key /\ Native(l)
        <5>1. Among(rules', l) /\ Among(disk.rules, l)
          BY <2>1, <2>5, <3>6, <4>3 DEF Native, Among
        <5>2. Native(l)' BY <3>3, <5>1 DEF Native
        <5> QED BY <5>2 DEF HeldBy
      <4> QED BY <1>1, <2>1, <4>1, <4>2, <4>3 DEF HeldBy
    <3> QED BY <1>2, <3>4, <3>5, <3>8
  <2> QED BY <1>8, <2>4, <2>5 DEF MigrateCheck
<1>9. CASE MigrateUndone(c)
  BY <1>5, <1>9 DEF MigrateUndone, vars, store, SameDnat
<1>10. CASE MigrateRetire(c)
  <2>1. UNCHANGED <<rules, disk, edits, wanted>> /\ mig' = [mig EXCEPT ![c] = NoMig]
        /\ (conf' = conf \/ conf' = conf \ {mig[c].rule}) /\ mig[c].step = "retire"
    BY <1>10 DEF MigrateRetire, vars, store, DropDnat, Leaves
  <2>2. mig'[c] = NoMig /\ \A d \in Calls : d # c => mig'[d] = mig[d] BY <2>1, OnlyMine
  <2>3. ASSUME NEW d \in Calls PROVE Migrates(d)'
    <3>1. CASE d = c BY <1>3, <2>2, <3>1 DEF Migrates
    <3>2. CASE d # c
      <4>1. mig[d].step # "none" => mig[d].rule # mig[c].rule BY <2>1, <3>2 DEF NoTwins
      <4> QED BY <1>1, <2>1, <2>2, <3>2, <4>1 DEF Migrates
    <3> QED BY <3>1, <3>2
  <2>4. ASSUME NEW l \in wanted' PROVE HeldBy(l)'
    <3>1. ASSUME NEW x \in conf, x.key = l, Rests(x) PROVE HeldBy(l)'
      <4>1. x # mig[c].rule BY <2>1, <3>1 DEF Rests
      <4>2. Rests(x)' BY <1>3, <2>1, <3>1, RestsOn
      <4> QED BY <2>1, <3>1, <4>1, <4>2 DEF HeldBy
    <3> QED BY <1>1, <2>1, <3>1 DEF HeldBy, Native
  <2> QED BY <1>1, <1>2, <2>1, <2>3, <2>4 DEF RulesInv, Numbered
<1> QED BY <1>6, <1>7, <1>8, <1>9, <1>10 DEF Migration

\* Calls that migrate nothing, while others do.
LEMMA HeldCall ==
  ASSUME MInv, HeldInv, NEW c \in Calls, NativeCall(c) \/ \E d \in conf : RemoveDnat(c, d)
  PROVE  HeldInv'
<1>1. /\ RulesInv /\ \A k \in wanted : HeldBy(k)
      /\ \A d \in Calls : Migrates(d) /\ mig[d] \in Migs
      /\ edits \in Nat /\ \A r \in rules \cup disk.rules : r.id \in Nat
      /\ \A r \in rules : r \in Rules
  BY ForwardingOK DEF MInv, MTypeOK, TypeOK, Stores, Rules, Ids, HeldInv
<1>2. up' /\ mig' = mig
  <2>1. up BY DEF NativeCall, RemoveDnat, Ready, Free
  <2> QED BY <2>1 DEF NativeCall, RemoveDnat, AddForward, UpdateForward, RemoveForward, vars
<1>0. \A d \in Calls : mig[d].id \in Nat BY <1>1 DEF Migs
<1>3. ASSUME RulesInv', \A k \in wanted' : HeldBy(k)', \A d \in Calls : Migrates(d)'
      PROVE  HeldInv'
  BY <1>2, <1>3 DEF HeldInv
<1>4. \A e : Rests(e) => Rests(e)' BY <1>2 DEF Rests
<1>5. ASSUME conf' = conf, wanted' \subseteq wanted, NEW l \in wanted', Native(l) => Native(l)'
      PROVE  HeldBy(l)'
  BY <1>1, <1>4, <1>5 DEF HeldBy
<1>6. ASSUME NEW d \in conf, RemoveDnat(c, d) PROVE HeldInv'
  <2>1. /\ UNCHANGED <<rules, disk, edits>> /\ conf' = conf \ {d}
        /\ wanted' = wanted \ {d.key}
    BY <1>6 DEF RemoveDnat, DropDnat, vars, store
  <2>2. \A x \in Calls : Migrates(x)' BY <1>1, <1>2, <2>1 DEF Migrates
  <2>3. \A l \in wanted' : HeldBy(l)' BY <1>1, <1>4, <2>1 DEF HeldBy, Native
  <2> QED BY <1>1, <1>3, <2>1, <2>2, <2>3 DEF RulesInv, Numbered
<1>7. ASSUME NEW k \in Keys, NEW h \in Hosts, AddForward(c, k, h), conf' = conf,
             wanted' \subseteq wanted
      PROVE  HeldInv'
  <2>1. AddRule(c, k, h) BY <1>7 DEF AddForward
  <2>2. /\ RulesInv' /\ \A l : Among(rules, l) => Among(rules', l)
        /\ disk'.rules = rules' \/ disk' = disk
    BY <1>1, <2>1, AddKeeps
  <2>3. edits' = edits + 1 /\ \A r \in rules' : r \in rules \/ r.id = edits'
    BY <2>1 DEF AddRule
  <2>4. ASSUME NEW d \in Calls PROVE Migrates(d)'
    <3>1. mig[d].id <= edits => mig[d].id <= edits' /\ mig[d].id # edits'
      BY <1>0, <1>1, <2>3
    <3> QED BY <1>1, <1>2, <1>7, <2>3, <3>1 DEF Migrates
  <2>5. \A l : Native(l) => Native(l)' BY <2>2 DEF Native, Among
  <2> QED BY <1>3, <1>5, <1>7, <2>2, <2>4, <2>5
<1>8. ASSUME NEW r \in rules, NEW k \in Keys, NEW h \in Hosts, UpdateForward(c, r, k, h),
             \A d \in conf : ~Meet(d.key, k),
             conf' = conf, wanted' = wanted \ ({q.key : q \in rules} \ {q.key : q \in rules'})
      PROVE  HeldInv'
  <2> DEFINE new == [r EXCEPT !.key = k, !.host = h]
  <2>1. /\ rules' = (rules \ {r}) \cup {new}
        /\ edits' = edits + 1 /\ Saves(c)
        /\ \A q \in rules \ {r} : ~Meet(q.key, k)
    BY <1>8 DEF UpdateForward
  <2>2. new.id = r.id /\ new.key = k BY <1>1 DEF Rules
  <2> HIDE DEF new
  <2>3. Numbered(rules)'
    <3>1. \A q \in rules : q.id <= edits' /\ (q.id = r.id => q = r)
      BY <1>1, <2>1 DEF RulesInv, Numbered
    <3>2. \A p, q \in rules : p.id = q.id => p = q BY <1>1 DEF RulesInv, Numbered
    <3>3. \A q \in rules' : q.id <= edits' BY <2>1, <2>2, <3>1
    <3>4. ASSUME NEW p \in rules', NEW q \in rules', p.id = q.id PROVE p = q
      <4>1. CASE p = new /\ q = new BY <4>1
      <4>2. CASE p = new /\ q \in rules \ {r} BY <4>2, <2>2, <3>1, <3>4
      <4>3. CASE p \in rules \ {r} /\ q = new BY <4>3, <2>2, <3>1, <3>4
      <4>4. CASE p \in rules \ {r} /\ q \in rules \ {r} BY <4>4, <3>2, <3>4
      <4> QED BY <4>1, <4>2, <4>3, <4>4, <2>1
    <3> QED BY <3>3, <3>4 DEF Numbered
  <2>4. disk'.rules = rules' \/ disk' = disk BY <2>1, SavedRules
  <2>5. RulesInv' BY <1>1, <2>1, <2>3, <2>4 DEF RulesInv, Numbered
  <2>6. \A l \in wanted' : Native(l) => Among(rules', l) BY <1>8 DEF Native, Among
  <2>7. \A l \in wanted' : Native(l) => Native(l)' BY <2>4, <2>6 DEF Native
  \* The key it moves to is forwarded by no one else, so it is given up, or the rule's own.
  <2>8. k = r.key \/ k \notin wanted
    <3>1. \A x : Meet(x, k) \/ x # k BY DEF Meet
    <3>2. ASSUME Native(k) PROVE k = r.key BY <2>1, <3>1, <3>2 DEF Native, Among
    <3>3. \A e \in conf : e.key # k BY <1>8, <3>1
    <3> QED BY <1>1, <3>2, <3>3 DEF HeldBy
  <2>9. ASSUME NEW d \in Calls PROVE Migrates(d)'
    <3>1. mig[d].id <= edits => mig[d].id <= edits' BY <1>0, <1>1, <2>1
    <3>2. wanted' \subseteq wanted BY <1>8
    <3>3. ASSUME NEW q \in rules', mig[d].step = "wait", q.id = mig[d].id
          PROVE  q.key = mig[d].rule.key \/ q.key \notin wanted'
      <4>1. CASE q \in rules BY <1>1, <3>2, <3>3, <4>1 DEF Migrates
      <4>2. CASE q = new
        <5>1. r.key = mig[d].rule.key \/ r.key \notin wanted
          BY <1>1, <2>2, <3>3, <4>2 DEF Migrates
        <5> QED BY <2>2, <2>8, <3>2, <4>2, <5>1
      <4> QED BY <2>1, <4>1, <4>2
    <3> QED BY <1>1, <1>2, <1>8, <3>1, <3>2, <3>3 DEF Migrates
  <2> QED BY <1>3, <1>5, <1>8, <2>5, <2>7, <2>9
<1>9. ASSUME NEW r \in rules, RemoveForward(c, r), conf' = conf, wanted' = wanted \ {r.key}
      PROVE  HeldInv'
  <2>1. rules' = {q \in rules : q.id # r.id} /\ edits' = edits /\ Saves(c)
    BY <1>9 DEF RemoveForward, DropRule
  <2>2. disk'.rules = rules' \/ disk' = disk BY <2>1, SavedRules
  <2>3. RulesInv' BY <1>1, <2>1, <2>2 DEF RulesInv, Numbered
  <2>4. \A q \in rules : q.id = r.id => q.key = r.key BY <1>1 DEF RulesInv, Numbered
  <2>5. \A l \in wanted' : Native(l) => Among(rules', l) BY <1>9, <2>1, <2>4 DEF Native, Among
  <2>6. \A l \in wanted' : Native(l) => Native(l)' BY <2>2, <2>5 DEF Native
  <2>7. \A d \in Calls : Migrates(d)' BY <1>1, <1>2, <1>9, <2>1 DEF Migrates
  <2> QED BY <1>3, <1>5, <1>9, <2>3, <2>6, <2>7
<1> QED BY <1>6, <1>7, <1>8, <1>9 DEF NativeCall

\* The resolve thread, updates under way, crashes and starts.
LEMMA HeldWorld ==
  ASSUME MInv, HeldInv, World \/ DnatDaemon \/ UNCHANGED mvars
  PROVE  HeldInv'
<1>1. /\ RulesInv /\ \A k \in wanted : HeldBy(k)
      /\ \A c \in Calls : Migrates(c)
      /\ ~up => \A c \in Calls : mig[c].step = "none"
  BY DEF HeldInv
<1>2. ASSUME UNCHANGED <<edits, conf, wanted>>, rules' = rules \/ rules' = disk.rules,
             disk'.rules = disk.rules \/ disk'.rules = rules',
             (mig' = mig /\ rules' = rules /\ up' = up) \/ \A c \in Calls : mig'[c].step = "none"
      PROVE  HeldInv'
  <2>1. RulesInv' BY <1>1, <1>2 DEF RulesInv, Numbered
  <2>2. \A k : Native(k) => Native(k)' BY <1>2 DEF Native
  <2>3. \A e : Rests(e) => Rests(e)' BY <1>2 DEF Rests
  <2>4. \A k \in wanted' : HeldBy(k)' BY <1>1, <1>2, <2>2, <2>3 DEF HeldBy
  <2>5. ASSUME NEW c \in Calls PROVE Migrates(c)' BY <1>1, <1>2 DEF Migrates
  <2>6. ~up' => \A c \in Calls : mig'[c].step = "none" BY <1>1, <1>2
  <2> QED BY <2>1, <2>4, <2>5, <2>6 DEF HeldInv
<1>3. ASSUME NEW w \in Workers, Update(w), UNCHANGED <<conf, mig, wanted>> PROVE HeldInv'
  <2>1. /\ rules' = rules /\ edits' = edits /\ up' = up
        /\ disk'.rules = disk.rules \/ disk'.rules = rules'
    <3>1. CASE Copy(w) BY <3>1 DEF Copy, store
    <3>2. CASE Resolve(w) BY <3>2 DEF Resolve, store
    <3>3. CASE Install(w) BY <3>3 DEF Install, store
    <3>4. CASE Record(w)
      <4>1. disk' = [rules |-> rules, cache |-> cache'] \/ disk' = disk
        BY <3>4 DEF Record
      <4>2. rules' = rules /\ edits' = edits /\ up' = up BY <3>4 DEF Record
      <4> QED BY <4>1, <4>2
    <3> QED BY <1>3, <3>1, <3>2, <3>3, <3>4 DEF Update
  <2> QED BY <1>2, <1>3, <2>1
<1>4. CASE Shift /\ UNCHANGED <<conf, mig, wanted>>
  BY <1>2, <1>4 DEF Shift, store
<1>5. CASE Boot /\ UNCHANGED <<conf, mig, wanted>>
  <2>1. ~up /\ rules' = disk.rules /\ edits' = edits BY <1>5 DEF Boot
  <2>2. disk \in Stores BY DEF MInv, MTypeOK, TypeOK
  <2>3. disk' = disk \/ \E found : disk' = [disk EXCEPT !.cache = found] BY <1>5 DEF Boot
  <2>4. disk'.rules = disk.rules BY <2>2, <2>3 DEF Stores
  <2> QED BY <1>1, <1>2, <1>5, <2>1, <2>4
<1>6. CASE Crash /\ mig' = [c \in Calls |-> NoMig] /\ SameDnat
  <2>1. NoMig.step = "none" BY DEF NoMig
  <2> QED BY <1>2, <1>6, <2>1 DEF Crash, store, SameDnat
<1>7. CASE DnatDaemon BY <1>2, <1>7 DEF DnatDaemon, vars, store
<1>8. CASE UNCHANGED mvars BY <1>2, <1>8 DEF mvars, vars, store
<1> QED BY <1>3, <1>4, <1>5, <1>6, <1>7, <1>8 DEF World

LEMMA HeldInit == MInit => HeldInv
<1> SUFFICES ASSUME MInit PROVE HeldInv OBVIOUS
<1>1. rules = {} /\ disk.rules = {} BY DEF MInit, Init
<1>2. \A c \in Calls : mig[c].step = "none" BY DEF MInit, NoMig
<1>3. \A k \in wanted : \E d \in conf : d.key = k BY DEF MInit
<1> QED BY <1>1, <1>2, <1>3 DEF HeldInv, RulesInv, Numbered, Migrates, HeldBy, Rests

LEMMA HeldStep == MInv /\ HeldInv /\ NoTwins /\ [MNext]_mvars => HeldInv'
BY HeldMigration, HeldCall, HeldWorld DEF MNext

\* However many clients add, update, remove and migrate forwards at once: as long as no
\* two of them migrate the same rule of dnat (migrate_dnat_forward), a forward that no
\* client gave up is on disk at every moment, with dnat or with the agent, and the
\* answer "dnat's rule was kept" is true; for any number of rules, keys, edits,
\* failures, crashes and starts.  That two do is the only way to the loss which the
\* run on UndoneKept exhibits.
THEOREM OnlyTwinsLose == MSpec /\ []NoTwins => [](NeverLost /\ UndoneKept)
<1>1. HeldInv => NeverLost BY DEF HeldInv, NeverLost, Kept, HeldBy, Native, Among
<1>2. NeverLost => UndoneKept BY DEF NeverLost, UndoneKept
<1> QED BY <1>1, <1>2, HeldInit, HeldStep, MInvHolds, PTL DEF MSpec

\* In particular, a client that makes one call at a time loses nothing.
THEOREM OneClientLosesNothing ==
  ASSUME OneClient
  PROVE  MSpec => []NeverLost
<1>1. NoTwins BY OneClient DEF OneClient, NoTwins
<1> QED BY <1>1, OnlyTwinsLose, PTL
=============================================================================
