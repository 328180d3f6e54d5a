----------------------------- MODULE Forwarding ------------------------------
(***************************************************************************)
(* Native port forwards: rules in the store, the cache of addresses their  *)
(* destination hosts last resolved to, and the `ip ipgate_nat` table.      *)
(* Every client call and the resolve thread bring the table up to date     *)
(* alike, in steps nothing holds together: copy the rules and the cache    *)
(* (store locked), resolve, replace the table (one nft transaction), write *)
(* the cache back (store locked).                                          *)
(*                                                                         *)
(* Rules are a set: the order of their rows only decides between rules     *)
(* that overlap.  An address stands for the answer of a host name.         *)
(***************************************************************************)
EXTENDS Naturals, FiniteSets

CONSTANTS
  Calls,      \* client calls that can run at the same time
  Keys,       \* what a rule listens on: an interface, given or not, and ports
  Overlap,    \* pairs of different keys that catch the same packets
  Hosts,      \* destination hosts
  Ips,        \* addresses they resolve to
  Forbidden,  \* addresses no forward may lead to: loopback, link-local, ...
  NoIp,       \* no answer, nothing cached
  MaxEdits,   \* bound: rules added or updated
  MaxShifts,  \* bound: changes of a host's answer
  MaxFaults   \* bound: failing nft transactions and saves, interfaces without
              \* an address, crashes

ASSUME ForwardingOK ==
  /\ Overlap \subseteq Keys \X Keys /\ Forbidden \subseteq Ips
  /\ MaxEdits \in Nat /\ MaxShifts \in Nat /\ MaxFaults \in Nat
ASSUME NoIpOK == NoIp \notin Ips

VARIABLES
  up,      \* the service process runs
  rules,   \* the rules in memory
  cache,   \* address each rule resolved to last
  disk,    \* rules and cache in state.json
  nat,     \* rows of the kernel's table
  dns,     \* what each host resolves to now
  job,     \* per call and for the resolve thread: the update under way
  last,    \* hash of the rows the resolve thread installed last, if any: {} or {hash}
  edits,   \* rules added or updated; also the source of fresh identifiers
  shifts,  \* changes of answers so far
  faults   \* faults so far

store == <<rules, cache, disk>>
vars == <<up, store, nat, dns, job, last, edits, shifts, faults>>

Resolver == "resolver"
Workers == Calls \cup {Resolver}
Ids == 1..MaxEdits
Rules == [id : Ids, key : Keys, host : Hosts]
Rows == [key : Keys, ip : Ips]
Cached == [Ids -> Ips \cup {NoIp}]
Empty == [i \in Ids |-> NoIp]

\* Mutant: only the number of rows is hashed.
HashOfCount(rows) == Cardinality(rows)

HashOf(rows) == rows

Meet(k, l) == k = l \/ <<k, l>> \in Overlap \/ <<l, k>> \in Overlap

Jobs == [step : {"idle", "copy", "resolve", "install", "record"},
         ok : BOOLEAN,                         \* how the last update ended
         rules : SUBSET Rules, cache : Cached, \* the copy it works on
         rows : SUBSET Rows, found : Cached]   \* what it resolved
Idle == [step |-> "idle", ok |-> TRUE, rules |-> {}, cache |-> Empty, rows |-> {}, found |-> Empty]

Pay(n) == faults + n <= MaxFaults /\ faults' = faults + n
Goes(w, step) == job' = [job EXCEPT ![w].step = step]
Ends(w, ok) == job' = [job EXCEPT ![w] = [Idle EXCEPT !.ok = ok]]

-----------------------------------------------------------------------------
\* resolve_one

\* Mutant: the list of forbidden targets is not consulted.
UsableAny(r, old) == IF dns[r.host] # NoIp THEN dns[r.host] ELSE old[r.id]

\* The address rule r is forwarded to: what its host resolves to, or what it
\* resolved to last; NoIp when there is none or it is forbidden.
Usable(r, old) ==
  LET ip == IF dns[r.host] # NoIp THEN dns[r.host] ELSE old[r.id] IN
  IF ip \in Forbidden THEN NoIp ELSE ip

Found(rs, old) ==
  [i \in Ids |-> IF \E r \in rs : r.id = i THEN Usable(CHOOSE r \in rs : r.id = i, old) ELSE NoIp]

\* Mutant: a rule that did not resolve is installed all the same.
RowsOfAll(rs, found) == {[key |-> r.key, ip |-> found[r.id]] : r \in rs}

RowsOf(rs, found) == {[key |-> r.key, ip |-> found[r.id]] : r \in {q \in rs : found[q.id] # NoIp}}

\* A rule whose interface has no address now is skipped like one that does not
\* resolve.
Skips(rs) == {{}} \cup {{r} : r \in rs}

-----------------------------------------------------------------------------
\* The update of the table

Copy(w) ==
  /\ \/ job[w].step = "copy"
     \/ w = Resolver /\ job[w].step = "idle" /\ up
  /\ job' = [job EXCEPT ![w].step = "resolve", ![w].rules = rules, ![w].cache = cache]
  /\ UNCHANGED <<up, store, nat, dns, last, edits, shifts, faults>>

\* The resolve thread stops here when the rows hash to what it installed last.
Resolve(w) ==
  /\ job[w].step = "resolve"
  /\ \E skip \in Skips(job[w].rules) :
       LET found == Found(job[w].rules \ skip, job[w].cache)
           rows == RowsOf(job[w].rules \ skip, found)
       IN /\ Pay(Cardinality(skip))
          /\ IF w = Resolver /\ HashOf(rows) \in last THEN Ends(w, TRUE)
             ELSE job' = [job EXCEPT ![w] = [Idle EXCEPT
                            !.step = "install", !.rows = rows, !.found = found]]
  /\ UNCHANGED <<up, store, nat, dns, last, edits, shifts>>

Install(w) ==
  /\ job[w].step = "install"
  /\ \/ nat' = job[w].rows /\ Pay(0) /\ Goes(w, "record")
     \/ nat' = nat /\ Pay(1) /\ Ends(w, FALSE)
  /\ UNCHANGED <<up, store, dns, last, edits, shifts>>

\* The whole cache is replaced; a failing save is ignored.
Record(w) ==
  /\ job[w].step = "record"
  /\ cache' = job[w].found /\ rules' = rules
  /\ \/ disk' = [rules |-> rules, cache |-> cache'] /\ Pay(0)
     \/ disk' = disk /\ Pay(1)
  /\ last' = IF w = Resolver THEN {HashOf(job[w].rows)} ELSE last
  /\ Ends(w, TRUE)
  /\ UNCHANGED <<up, nat, dns, edits, shifts>>

Update(w) == Copy(w) \/ Resolve(w) \/ Install(w) \/ Record(w)

-----------------------------------------------------------------------------
\* Client calls: change and save the store, then update the table

\* The call goes on to the update unless the save failed.
Saves(c) ==
  \/ disk' = [rules |-> rules', cache |-> cache'] /\ Pay(0) /\ Goes(c, "copy")
  \/ disk' = disk /\ Pay(1) /\ Ends(c, FALSE)

Free(c) == up /\ job[c].step = "idle"

\* Mutant: the new rule is saved with the cache only.
AddRuleUnsaved(c, k, h) ==
  /\ edits < MaxEdits /\ edits' = edits + 1
  /\ rules' = {r \in rules : r.key # k} \cup {[id |-> edits', key |-> k, host |-> h]}
  /\ cache' = cache /\ disk' = disk
  /\ Pay(0) /\ Goes(c, "copy")

\* A rule with the same key is replaced.
AddRule(c, k, h) ==
  /\ edits < MaxEdits /\ edits' = edits + 1
  /\ rules' = {r \in rules : r.key # k} \cup {[id |-> edits', key |-> k, host |-> h]}
  /\ cache' = cache
  /\ Saves(c)

AddForward(c, k, h) ==
  /\ Free(c) /\ AddRule(c, k, h)
  /\ UNCHANGED <<up, nat, dns, last, shifts>>

UpdateForward(c, r, k, h) ==
  /\ Free(c) /\ r \in rules
  /\ \A q \in rules \ {r} : ~Meet(q.key, k)
  /\ edits < MaxEdits /\ edits' = edits + 1
  /\ rules' = (rules \ {r}) \cup {[r EXCEPT !.key = k, !.host = h]}
  /\ cache' = IF h = r.host THEN cache ELSE [cache EXCEPT ![r.id] = NoIp]
  /\ Saves(c)
  /\ UNCHANGED <<up, nat, dns, last, shifts>>

DropRule(c, i) ==
  /\ rules' = {r \in rules : r.id # i}
  /\ cache' = [cache EXCEPT ![i] = NoIp]
  /\ Saves(c)

RemoveForward(c, r) ==
  /\ Free(c) /\ r \in rules /\ DropRule(c, r.id)
  /\ UNCHANGED <<up, nat, dns, last, edits, shifts>>

ClientCall(c) ==
  \/ \E k \in Keys, h \in Hosts : AddForward(c, k, h)
  \/ \E r \in rules, k \in Keys, h \in Hosts : UpdateForward(c, r, k, h)
  \/ \E r \in rules : RemoveForward(c, r)

-----------------------------------------------------------------------------
\* The world

Shift ==
  /\ shifts < MaxShifts /\ shifts' = shifts + 1
  /\ \E h \in Hosts, ip \in Ips \cup {NoIp} :
       /\ ip # dns[h]
       /\ dns' = [dns EXCEPT ![h] = ip]
  /\ UNCHANGED <<up, store, nat, job, last, edits, faults>>

\* The process dies; with the host the table goes too.
Crash ==
  /\ up /\ up' = FALSE /\ Pay(1)
  /\ nat' \in {nat, {}}
  /\ job' = [w \in Workers |-> Idle] /\ last' = {}
  /\ UNCHANGED <<store, dns, edits, shifts>>

\* Start: load the store and update the table once before anything else runs; a
\* table that does not load is left for later.
Boot ==
  /\ ~up /\ up' = TRUE
  /\ rules' = disk.rules
  /\ \/ \E skip \in Skips(disk.rules) :
          LET found == Found(disk.rules \ skip, disk.cache) IN
          /\ nat' = RowsOf(disk.rules \ skip, found) /\ cache' = found
          /\ \/ disk' = [disk EXCEPT !.cache = found] /\ Pay(Cardinality(skip))
             \/ disk' = disk /\ Pay(Cardinality(skip) + 1)
     \/ nat' = nat /\ cache' = disk.cache /\ disk' = disk /\ Pay(1)
  /\ UNCHANGED <<dns, job, last, edits, shifts>>

Init ==
  /\ up = FALSE /\ rules = {} /\ cache = Empty /\ disk = [rules |-> {}, cache |-> Empty]
  /\ nat = {} /\ dns \in [Hosts -> Ips \cup {NoIp}]
  /\ job = [w \in Workers |-> Idle] /\ last = {}
  /\ edits = 0 /\ shifts = 0 /\ faults = 0

Next ==
  \/ \E c \in Calls : ClientCall(c)
  \/ \E w \in Workers : Update(w)
  \/ Shift \/ Crash \/ Boot

Spec == Init /\ [][Next]_vars

\* Threads are scheduled, sleeps end, and systemd starts the service again.
Fairness == WF_vars(Boot) /\ \A w \in Workers : WF_vars(Update(w))
FairSpec == Spec /\ Fairness

-----------------------------------------------------------------------------
\* Properties

Stores == [rules : SUBSET Rules, cache : Cached]
TypeOK ==
  /\ up \in BOOLEAN /\ rules \in SUBSET Rules /\ cache \in Cached /\ disk \in Stores
  /\ nat \in SUBSET Rows /\ dns \in [Hosts -> Ips \cup {NoIp}]
  /\ job \in [Workers -> Jobs] /\ last \in SUBSET SUBSET Rows
  /\ edits \in 0..MaxEdits /\ shifts \in 0..MaxShifts /\ faults \in 0..MaxFaults

\* No forward ever leads to a forbidden address, whatever a host starts to
\* resolve to and whatever is still in the cache.
NoForbiddenTarget == \A n \in nat : n.ip \notin Forbidden

\* Once nothing changes any more, every rule whose host resolves is forwarded to
\* where it resolves, and nothing else is forwarded.
Healed ==
  /\ \A r \in rules : dns[r.host] \notin Forbidden \cup {NoIp} =>
       {n.ip : n \in {m \in nat : m.key = r.key}} = {dns[r.host]}
  /\ \A n \in nat : \E r \in rules : r.key = n.key
ForwardsHeal == <>[]Healed

\* A client call and a pass of the resolve thread, in whatever order their steps
\* fall, leave no outdated table behind: without faults and changing answers it
\* ends up as the rules want it.
ForwardsSettle == [](faults = 0 /\ shifts = 0) => <>[]Healed
==============================================================================
