---------------------------- MODULE SessionsProofs ---------------------------
(***************************************************************************)
(* Proofs about Sessions, for any number of connections, clients, codes    *)
(* and faults.  What makes removals and welcomes last is that identifiers  *)
(* are fresh: the one a handshake may still enrol is in no store, in no    *)
(* other handshake and was never removed, so that no save that is still to *)
(* come brings back what a client took away.                               *)
(* What lets clients in is another matter, the file of pairing codes,      *)
(* which its writers replace without looking: below, what holds in spite   *)
(* of that, and what holds only as long as no two of them overlap.         *)
(***************************************************************************)
EXTENDS Sessions, TLAPS, FiniteSetTheorems

Workers == Conns \cup {Console}

\* Until it enrols, a connection may still put its identifier into the store.
Pending == {"hello", "load", "write", "rename", "enrol"}

Shape ==
  /\ job[Console].step \in {"free", "write", "rename"} /\ job[Console].key = NoKey
  /\ job[Console].step # "free" => job[Console].code \in Codes
  /\ \A c \in Conns : job[c].step # "free" => up /\ job[c].key \in Keys

Bounded ==
  /\ \A c \in Conns : job[c].id <= accepts
  /\ \A k \in Keys : mem[k] <= accepts /\ disk[k] <= accepts
  /\ revoked \subseteq 1..accepts

FreshIds ==
  \A c \in Conns : job[c].step \in Pending =>
    /\ job[c].id # 0 /\ job[c].id \notin revoked
    /\ \A k \in Keys : mem[k] # job[c].id /\ disk[k] # job[c].id
    /\ \A d \in Conns \ {c} : job[d].id # job[c].id

\* An identifier names one device.
Unique(store) == \A k, l \in Keys : store[k] = store[l] /\ store[k] # 0 => k = l

Welcomed ==
  \A c \in Conns : job[c].step = "welcome" =>
    job[c].id # 0 /\ (mem[job[c].key] = job[c].id => disk[job[c].key] # 0)

Punctual ==
  \A c \in Conns : /\ job[c].step = "check" /\ job[c].late => mem[job[c].key] = 0
                   /\ job[c].step = "exec" => ~job[c].late

Known ==
  /\ Shape /\ Bounded /\ FreshIds /\ Unique(mem) /\ Unique(disk)
  /\ RevokedStaysOut /\ Welcomed /\ WelcomeLasts /\ Punctual

SInv == TypeOK /\ Known /\ CountsExact

-----------------------------------------------------------------------------
\* Counting connections

OpenOf(k) == {c \in Conns : job[c].step \in Counted /\ job[c].key = k}

LEMMA CountKept ==
  ASSUME CountsExact, online' = online,
         \A c \in Conns : /\ job'[c].step \in Counted <=> job[c].step \in Counted
                          /\ job[c].step \in Counted => job'[c].key = job[c].key
  PROVE  CountsExact'
<1>1. ASSUME NEW k \in Keys
      PROVE  {c \in Conns : job'[c].step \in Counted /\ job'[c].key = k}
               = {c \in Conns : job[c].step \in Counted /\ job[c].key = k}
  OBVIOUS
<1> QED BY <1>1 DEF CountsExact

\* Whatever step it is in, a connection that closes takes itself off the count.
LEMMA CountClosed ==
  ASSUME SInv, NEW c \in Conns, Closes(c)
  PROVE  CountsExact' /\ online' \in [Keys -> 0..Share]
<1>0. /\ job \in [Workers -> Jobs] /\ online \in [Keys -> 0..Share] /\ Share \in Nat
      /\ job[c].step # "free" => job[c].key \in Keys
  BY SessionsOK DEF SInv, TypeOK, Known, Shape, Workers
<1>1. \A d \in Conns : job'[d] = IF d = c THEN Free ELSE job[d]
  BY <1>0 DEF Closes, Workers
<1>2. Free.step \notin Counted
  BY DEF Free, Counted
<1>3. CASE job[c].step \notin Counted
  <2>1. online' = online
    BY <1>3 DEF Closes
  <2> QED BY <1>0, <1>1, <1>2, <1>3, <2>1, CountKept DEF SInv
<1>4. CASE job[c].step \in Counted
  <2> DEFINE l == job[c].key
  <2>1. l \in Keys /\ online' = [online EXCEPT ![l] = @ - 1]
    BY <1>0, <1>4 DEF Closes, Counted
  <2>2. ASSUME NEW k \in Keys PROVE IsFiniteSet(OpenOf(k)) /\ online[k] = Cardinality(OpenOf(k))
    BY FinitePermits, FS_Subset DEF OpenOf, SInv, CountsExact
  <2>3. ASSUME NEW k \in Keys
        PROVE  {d \in Conns : job'[d].step \in Counted /\ job'[d].key = k}
                 = IF k = l THEN OpenOf(k) \ {c} ELSE OpenOf(k)
    BY <1>1, <1>2 DEF OpenOf
  <2>4. c \in OpenOf(l)
    BY <1>4 DEF OpenOf
  <2>5. Cardinality(OpenOf(l) \ {c}) = Cardinality(OpenOf(l)) - 1 /\ Cardinality(OpenOf(l)) \in Nat
    BY <2>1, <2>2, <2>4, FS_RemoveElement, FS_CardinalityType
  <2>6. Cardinality(OpenOf(l)) # 0
    BY <2>1, <2>2, <2>4, FS_EmptySet
  <2>7. online' \in [Keys -> 0..Share]
    BY <1>0, <2>1, <2>2, <2>5, <2>6
  <2>8. ASSUME NEW k \in Keys
        PROVE  online'[k] = Cardinality({d \in Conns : job'[d].step \in Counted /\ job'[d].key = k})
    BY <1>0, <2>1, <2>2, <2>3, <2>5
  <2>9. \A k \in Keys : online'[k] <= Share
    BY <1>0, <2>7
  <2> QED BY <2>7, <2>8, <2>9 DEF CountsExact
<1> QED BY <1>3, <1>4

\* A connection let in under the share of its device is counted.
LEMMA CountOpened ==
  ASSUME SInv, NEW c \in Conns, job[c].step \in {"welcome", "reply"}, online[job[c].key] < Share,
         job' = [job EXCEPT ![c] = [Free EXCEPT !.step = "open", !.key = job[c].key]],
         online' = [online EXCEPT ![job[c].key] = @ + 1]
  PROVE  CountsExact' /\ online' \in [Keys -> 0..Share]
<1> DEFINE l == job[c].key
<1>0. /\ job \in [Workers -> Jobs] /\ online \in [Keys -> 0..Share] /\ Share \in Nat /\ l \in Keys
  BY SessionsOK DEF SInv, TypeOK, Known, Shape, Workers
<1>1. \A d \in Conns : /\ job'[d].step = IF d = c THEN "open" ELSE job[d].step
                       /\ job'[d].key = job[d].key
  BY <1>0 DEF Workers, Free
<1>2. job[c].step \notin Counted /\ "open" \in Counted
  BY DEF Counted
<1>3. ASSUME NEW k \in Keys PROVE IsFiniteSet(OpenOf(k)) /\ online[k] = Cardinality(OpenOf(k))
  BY FinitePermits, FS_Subset DEF OpenOf, SInv, CountsExact
<1>4. ASSUME NEW k \in Keys
      PROVE  {d \in Conns : job'[d].step \in Counted /\ job'[d].key = k}
               = IF k = l THEN OpenOf(k) \cup {c} ELSE OpenOf(k)
  BY <1>1, <1>2 DEF OpenOf
<1>5. c \notin OpenOf(l)
  BY <1>2 DEF OpenOf
<1>6. Cardinality(OpenOf(l) \cup {c}) = Cardinality(OpenOf(l)) + 1
  BY <1>0, <1>3, <1>5, FS_AddElement
<1>7. online' \in [Keys -> 0..Share]
  BY <1>0
<1>8. ASSUME NEW k \in Keys
      PROVE  online'[k] = Cardinality({d \in Conns : job'[d].step \in Counted /\ job'[d].key = k})
  BY <1>0, <1>3, <1>4, <1>6
<1>9. \A k \in Keys : online'[k] <= Share
  BY <1>0, <1>7
<1> QED BY <1>7, <1>8, <1>9 DEF CountsExact

-----------------------------------------------------------------------------
\* Steps of one connection that enrol and remove nobody

\* Connection c becomes x; a save may write what the store holds.
Moves(c, x) ==
  /\ x \in Jobs /\ job' = [job EXCEPT ![c] = x]
  /\ x.step # "free" => x.key \in Keys /\ x.key = job[c].key
  /\ x.id \in {0, job[c].id}
  /\ x.step \in Pending => job[c].step \in Pending /\ x.id = job[c].id
  /\ x.step # "welcome"
  /\ x.step = "check" /\ x.late => mem[x.key] = 0
  /\ x.step = "exec" => ~x.late

\* The devices a restart would bring back.
InStores == {k \in Keys : mem[k] # 0 /\ disk[k] # 0}

LEMMA MoveStep ==
  ASSUME SInv, NEW c \in Conns, job[c].step # "free", NEW x, Moves(c, x),
         UNCHANGED <<up, mem, accepts, revoked>>, disk' = disk \/ disk' = mem,
         told' \subseteq told \cup InStores
  PROVE  Known' /\ job' \in [Workers -> Jobs]
<1>0. /\ job \in [Workers -> Jobs] /\ c # Console /\ up /\ accepts \in Nat
      /\ mem \in [Keys -> Ids] /\ disk \in [Keys -> Ids]
  BY SessionsOK DEF SInv, TypeOK, Known, Shape, Workers, Ids
<1>1. /\ job' \in [Workers -> Jobs]
      /\ \A d \in Workers : job'[d] = IF d = c THEN x ELSE job[d]
  BY <1>0 DEF Moves, Workers
<1>2. Shape'
  BY <1>0, <1>1 DEF Shape, SInv, Known, Moves, Workers
<1>3. Bounded'
  <2>1. x.id <= accepts
    BY <1>0 DEF Bounded, SInv, Known, Moves
  <2> QED BY <1>0, <1>1, <2>1 DEF Bounded, SInv, Known, Workers
<1>4. FreshIds'
  <2>1. ASSUME NEW e \in Conns, job'[e].step \in Pending
        PROVE  /\ job'[e].id = job[e].id /\ job[e].step \in Pending
               /\ \A d \in Conns : job'[d].id \in {0, job[d].id}
    BY <1>1, <2>1 DEF Moves, Workers
  <2> QED BY <1>0, <2>1 DEF FreshIds, SInv, Known
<1>5. Unique(mem)' /\ Unique(disk)' /\ RevokedStaysOut'
  BY <1>0 DEF Unique, RevokedStaysOut, SInv, Known
<1>6. Welcomed'
  BY <1>0, <1>1 DEF Welcomed, SInv, Known, Moves, Workers
<1>7. WelcomeLasts'
  BY <1>0 DEF WelcomeLasts, InStores, SInv, Known
<1>8. Punctual'
  BY <1>0, <1>1 DEF Punctual, SInv, Known, Moves, Workers
<1> QED BY <1>1, <1>2, <1>3, <1>4, <1>5, <1>6, <1>7, <1>8 DEF Known

LEMMA FreeFacts == Free \in Jobs /\ Free.step = "free" /\ Free.id = 0 /\ Free.key = NoKey
BY SessionsOK DEF Free, Jobs, Steps, Ids

\* Closing ends in whatever order with the count right and nobody's place lost.
LEMMA CloseStep ==
  ASSUME SInv, NEW c \in Conns, job[c].step # "free", Closes(c),
         UNCHANGED <<up, mem, accepts, revoked>>, disk' = disk \/ disk' = mem,
         told' \subseteq told \cup InStores
  PROVE  Known' /\ CountsExact' /\ job' \in [Workers -> Jobs] /\ online' \in [Keys -> 0..Share]
<1>1. Moves(c, Free)
  BY FreeFacts DEF Moves, Closes, Pending
<1> QED BY <1>1, MoveStep, CountClosed

\* A connection goes from one uncounted step to another, or between counted ones.
LEMMA GoStep ==
  ASSUME SInv, NEW c \in Conns, job[c].step # "free", NEW x, Moves(c, x), online' = online,
         x.step \in Counted <=> job[c].step \in Counted,
         UNCHANGED <<up, mem, accepts, revoked, told>>, disk' = disk \/ disk' = mem
  PROVE  Known' /\ CountsExact' /\ job' \in [Workers -> Jobs] /\ online' \in [Keys -> 0..Share]
<1>1. job \in [Workers -> Jobs] /\ online \in [Keys -> 0..Share]
  BY DEF SInv, TypeOK, Workers
<1>2. \A d \in Conns : job'[d] = IF d = c THEN x ELSE job[d]
  BY <1>1 DEF Moves, Workers
<1>3. job[c].step \in Counted => x.key = job[c].key
  BY DEF Moves, Counted
<1>4. CountsExact'
  BY <1>2, <1>3, CountKept DEF SInv
<1> QED BY <1>1, <1>4, MoveStep

LEMMA PayFacts == ASSUME SInv, NEW n \in {0, 1}, Pay(n) PROVE faults' \in 0..MaxFaults
BY SessionsOK DEF SInv, TypeOK, Pay

\* The rest of the type invariant.
Rest ==
  /\ codes \subseteq Codes /\ tmp \in SUBSET SUBSET Codes /\ requests \in 0..MaxRequests
  /\ faults \in 0..MaxFaults /\ expired \subseteq Codes
  /\ made \subseteq Codes /\ paired \in [Codes -> SUBSET Ids]

LEMMA QuietStep ==
  ASSUME SInv, Known', CountsExact', job' \in [Workers -> Jobs], online' \in [Keys -> 0..Share],
         UNCHANGED <<up, mem, accepts, revoked>>, disk' = disk \/ disk' = mem, Rest',
         told' \subseteq Keys
  PROVE  SInv'
BY DEF SInv, TypeOK, Rest, Workers

LEMMA RestFacts == ASSUME SInv PROVE Rest
BY DEF SInv, TypeOK, Rest

LEMMA HandshakeStep ==
  ASSUME SInv, NEW c \in Conns,
         \/ \E p \in Codes \cup {NoCode} : Lookup(c, p)
         \/ LoadCodes(c) \/ WriteTmp(c) \/ Rename(c) \/ HandshakeEnds(c)
  PROVE  SInv'
<1>0. /\ job \in [Workers -> Jobs] /\ c \in Workers /\ c # Console /\ job[c] \in Jobs /\ Rest
      /\ told \subseteq Keys
      /\ job[c].step # "free" => job[c].key \in Keys
  BY RestFacts, SessionsOK DEF SInv, TypeOK, Known, Shape, Workers
<1>1. ASSUME NEW step \in {"reply", "rename", "enrol"}, job[c].step \in Pending,
             Goes(c, step), online' = online,
             UNCHANGED <<up, mem, accepts, revoked, told>>, disk' = disk \/ disk' = mem
      PROVE  Known' /\ CountsExact' /\ job' \in [Workers -> Jobs] /\ online' \in [Keys -> 0..Share]
  <2> DEFINE x == [job[c] EXCEPT !.step = step]
  <2>1. /\ x \in Jobs /\ x.step = step /\ x.key = job[c].key /\ x.id = job[c].id
        /\ job' = [job EXCEPT ![c] = x]
    BY <1>0, <1>1 DEF Goes, Jobs, Steps
  <2> HIDE DEF x
  <2>2. job[c].step # "free" /\ Moves(c, x) /\ (x.step \in Counted <=> job[c].step \in Counted)
    BY <1>0, <1>1, <2>1 DEF Moves, Pending, Counted
  <2> QED BY <1>1, <2>2, GoStep
<1>2. ASSUME NEW p \in Codes \cup {NoCode}, Lookup(c, p) PROVE SInv'
  <2>1. Rest' /\ told' = told
    BY <1>0, <1>2, PayFacts DEF Lookup, Rest, files, history
  <2>2. Known' /\ CountsExact' /\ job' \in [Workers -> Jobs] /\ online' \in [Keys -> 0..Share]
    <3>1. CASE job' = [job EXCEPT ![c].step = "load", ![c].code = p] /\ online' = online
      <4> DEFINE x == [job[c] EXCEPT !.step = "load", !.code = p]
      <4>1. /\ x \in Jobs /\ x.step = "load" /\ x.key = job[c].key /\ x.id = job[c].id
            /\ job' = [job EXCEPT ![c] = x]
        BY <1>0, <3>1 DEF Jobs, Steps
      <4> HIDE DEF x
      <4>2. /\ job[c].step = "hello" /\ Moves(c, x)
            /\ x.step \in Counted <=> job[c].step \in Counted
        BY <1>0, <1>2, <4>1 DEF Moves, Pending, Counted, Lookup
      <4> QED BY <1>2, <3>1, <4>2, GoStep DEF Lookup, history
    <3> QED BY <1>1, <1>2, <3>1, CloseStep DEF Lookup, history, Pending
  <2> QED BY <1>0, <1>2, <2>1, <2>2, QuietStep DEF Lookup, history
<1>3. CASE LoadCodes(c)
  <2>1. Rest' /\ told' = told
    BY <1>0, <1>3 DEF LoadCodes, Rest, files, history
  <2>2. CASE Closes(c)
    BY <1>0, <1>3, <2>1, <2>2, CloseStep, QuietStep DEF LoadCodes, history, devices
  <2>3. ASSUME NEW copy \in SUBSET Codes, NEW code \in {job[c].code, NoCode}, online' = online,
               job' = [job EXCEPT ![c].step = "write", ![c].copy = copy, ![c].code = code]
        PROVE  SInv'
    <3> DEFINE x == [job[c] EXCEPT !.step = "write", !.copy = copy, !.code = code]
    <3>1. /\ x \in Jobs /\ x.step = "write" /\ x.key = job[c].key /\ x.id = job[c].id
          /\ job' = [job EXCEPT ![c] = x]
      BY <1>0, <2>3 DEF Jobs, Steps
    <3> HIDE DEF x
    <3>2. /\ job[c].step # "free" /\ Moves(c, x)
          /\ x.step \in Counted <=> job[c].step \in Counted
      BY <1>0, <1>3, <3>1 DEF Moves, Pending, Counted, LoadCodes
    <3> QED BY <1>0, <1>3, <2>1, <2>3, <3>2, GoStep, QuietStep DEF LoadCodes, history, devices
  <2>4. (codes \ expired) \ {job[c].code} \in SUBSET Codes
    BY <1>0 DEF Rest
  <2> QED BY <1>3, <2>2, <2>3, <2>4 DEF LoadCodes
<1>4. CASE WriteTmp(c)
  <2>1. Rest' /\ told' = told
    BY <1>0, <1>4, PayFacts DEF WriteTmp, Rest, Jobs, history
  <2>2. Known' /\ CountsExact' /\ job' \in [Workers -> Jobs] /\ online' \in [Keys -> 0..Share]
    BY <1>1, <1>4, CloseStep DEF WriteTmp, history, devices, Pending
  <2> QED BY <1>0, <1>4, <2>1, <2>2, QuietStep DEF WriteTmp, history, devices
<1>5. CASE Rename(c)
  <2>1. Rest' /\ told' = told
    BY <1>0, <1>5 DEF Rename, Renames, Rest, history
  <2>2. Known' /\ CountsExact' /\ job' \in [Workers -> Jobs] /\ online' \in [Keys -> 0..Share]
    BY <1>1, <1>5, CloseStep DEF Rename, history, devices, Pending
  <2> QED BY <1>0, <1>5, <2>1, <2>2, QuietStep DEF Rename, history, devices
<1>6. CASE HandshakeEnds(c)
  <2>1. Rest' /\ told' = told
    BY <1>0, <1>6 DEF HandshakeEnds, Rest, files, history
  <2> QED BY <1>0, <1>6, <2>1, CloseStep, QuietStep DEF HandshakeEnds, history, devices
<1> QED BY <1>2, <1>3, <1>4, <1>5, <1>6

LEMMA RequestStep ==
  ASSUME SInv, NEW c \in Conns, Receive(c) \/ Check(c) \/ ExecOther(c) \/ IdleEnds(c)
  PROVE  SInv'
<1>0. /\ job \in [Workers -> Jobs] /\ c \in Workers /\ c # Console /\ job[c] \in Jobs /\ Rest
      /\ told \subseteq Keys
      /\ job[c].step # "free" => job[c].key \in Keys
  BY RestFacts, SessionsOK DEF SInv, TypeOK, Known, Shape, Workers
<1>1. ASSUME NEW step \in Counted, job[c].step \in Counted, NEW late \in BOOLEAN,
             step = "check" /\ late => mem[job[c].key] = 0, step = "exec" => ~late,
             job' = [job EXCEPT ![c] = [job[c] EXCEPT !.step = step, !.late = late]],
             online' = online,
             UNCHANGED <<up, mem, accepts, revoked, told>>, disk' = disk \/ disk' = mem, Rest'
      PROVE  SInv'
  <2> DEFINE x == [job[c] EXCEPT !.step = step, !.late = late]
  <2>1. /\ x \in Jobs /\ x.step = step /\ x.key = job[c].key /\ x.id = job[c].id /\ x.late = late
        /\ job' = [job EXCEPT ![c] = x]
    BY <1>0, <1>1 DEF Jobs, Steps, Counted
  <2> HIDE DEF x
  <2>2. job[c].step # "free" /\ Moves(c, x) /\ (x.step \in Counted <=> job[c].step \in Counted)
    BY <1>0, <1>1, <2>1 DEF Moves, Pending, Counted
  <2> QED BY <1>0, <1>1, <2>2, GoStep, QuietStep
<1>2. CASE Receive(c)
  <2>1. Rest'
    BY <1>0, <1>2, SessionsOK DEF Receive, Rest, files, history
  <2>2. job' = [job EXCEPT ![c] = [job[c] EXCEPT !.step = "check", !.late = mem[job[c].key] = 0]]
    BY <1>0, <1>2 DEF Receive
  <2> QED BY <1>1, <1>2, <2>1, <2>2 DEF Receive, Counted, history, devices
<1>3. CASE Check(c)
  <2>1. Rest'
    BY <1>0, <1>3 DEF Check, Rest, files, history
  <2>2. CASE Closes(c)
    BY <1>0, <1>3, <2>1, <2>2, CloseStep, QuietStep DEF Check, history, devices
  <2>3. CASE mem[job[c].key] # 0 /\ Goes(c, "exec") /\ online' = online
    <3>1. ~job[c].late /\ job[c].late \in BOOLEAN
      BY <1>0, <1>3, <2>3 DEF Check, SInv, Known, Punctual, Jobs
    <3>2. job' = [job EXCEPT ![c] = [job[c] EXCEPT !.step = "exec", !.late = FALSE]]
      BY <1>0, <2>3, <3>1 DEF Goes, Jobs
    <3> QED BY <1>1, <1>3, <2>1, <2>3, <3>2 DEF Check, Counted, history, devices
  <2> QED BY <1>3, <2>2, <2>3 DEF Check
<1>4. CASE ExecOther(c)
  <2>1. Rest'
    BY <1>0, <1>4 DEF ExecOther, Rest, files, history
  <2>2. job' = [job EXCEPT ![c] = [job[c] EXCEPT !.step = "open", !.late = FALSE]]
    BY <1>0, <1>4 DEF ExecOther, Answers
  <2> QED BY <1>1, <1>4, <2>1, <2>2 DEF ExecOther, Counted, history
<1>5. CASE IdleEnds(c)
  <2>1. Rest'
    BY <1>0, <1>5 DEF IdleEnds, Rest, files, history
  <2> QED BY <1>0, <1>5, <2>1, CloseStep, QuietStep DEF IdleEnds, history, devices
<1> QED BY <1>2, <1>3, <1>4, <1>5

\* Only a client whose device is on disk is told "paired".
LEMMA ReplyStep == ASSUME SInv, NEW c \in Conns, Reply(c) PROVE SInv'
<1>0. /\ job \in [Workers -> Jobs] /\ c \in Workers /\ c # Console /\ job[c] \in Jobs /\ Rest
      /\ told \subseteq Keys /\ job[c].key \in Keys /\ job[c].step # "free"
  BY RestFacts, SessionsOK DEF SInv, TypeOK, Known, Shape, Workers, Reply
<1>1. Rest'
  BY <1>0 DEF Reply, Rest, files
<1>2. told' \subseteq told \cup InStores /\ told' \subseteq Keys
  BY <1>0 DEF Reply, InStores, SInv, Known, Welcomed
<1>3. CASE Closes(c)
  BY <1>0, <1>1, <1>2, <1>3, CloseStep, QuietStep DEF Reply, devices
<1>4. CASE /\ online[job[c].key] < Share
           /\ job' = [job EXCEPT ![c] = [Free EXCEPT !.step = "open", !.key = job[c].key]]
           /\ online' = [online EXCEPT ![job[c].key] = @ + 1]
  <2> DEFINE x == [Free EXCEPT !.step = "open", !.key = job[c].key]
  <2>1. x \in Jobs /\ x.step = "open" /\ x.key = job[c].key /\ x.id = 0
    BY <1>0, FreeFacts DEF Free, Jobs, Steps
  <2>2. job' = [job EXCEPT ![c] = x]
    BY <1>4
  <2> HIDE DEF x
  <2>3. Moves(c, x)
    BY <1>0, <2>1, <2>2 DEF Moves, Pending
  <2>4. CountsExact' /\ online' \in [Keys -> 0..Share]
    BY <1>4, CountOpened DEF Reply
  <2> QED BY <1>0, <1>1, <1>2, <2>3, <2>4, MoveStep, QuietStep DEF Reply, devices
<1> QED BY <1>3, <1>4 DEF Reply

-----------------------------------------------------------------------------
\* Steps that give out an identifier, enrol or remove

LEMMA AcceptStep ==
  ASSUME SInv, NEW c \in Conns, NEW k \in Keys, Accept(c, k)
  PROVE  SInv'
<1>0. /\ job \in [Workers -> Jobs] /\ c # Console /\ up /\ accepts \in Ids /\ accepts' \in Ids
      /\ accepts' = accepts + 1
      /\ mem \in [Keys -> Ids] /\ disk \in [Keys -> Ids] /\ revoked \subseteq Ids
      /\ UNCHANGED <<up, mem, disk, revoked, told, online>>
      /\ Known /\ online \in [Keys -> 0..Share] /\ told \subseteq Keys /\ up \in BOOLEAN
  BY SessionsOK DEF SInv, TypeOK, Workers, Ids, Accept, devices, history
<1> DEFINE x == [Free EXCEPT !.step = "hello", !.key = k, !.id = accepts']
<1>1. x \in Jobs /\ x.step = "hello" /\ x.key = k /\ x.id = accepts'
  BY <1>0, FreeFacts DEF Free, Jobs, Steps
<1>2. job' = [job EXCEPT ![c] = x]
  BY DEF Accept
<1> HIDE DEF x
<1>3. /\ job' \in [Workers -> Jobs]
      /\ \A d \in Workers : job'[d] = IF d = c THEN x ELSE job[d]
  BY <1>0, <1>1, <1>2 DEF Workers
<1>4. Shape' /\ Welcomed' /\ Punctual'
  BY <1>0, <1>1, <1>3 DEF Shape, Known, Welcomed, Punctual, Workers
<1>5. Bounded'
  <2>1. ASSUME NEW d \in Conns PROVE job'[d].id <= accepts'
    <3>1. job[d].id <= accepts /\ job[d].id \in Ids
      BY <1>0 DEF Known, Bounded, Jobs, Workers
    <3> QED BY <1>0, <1>1, <1>3, <3>1 DEF Ids, Workers
  <2>2. ASSUME NEW l \in Keys PROVE mem'[l] <= accepts' /\ disk'[l] <= accepts'
    BY <1>0 DEF Known, Bounded, Ids
  <2>3. revoked' \subseteq 1..accepts'
    BY <1>0 DEF Known, Bounded, Ids
  <2> QED BY <2>1, <2>2, <2>3 DEF Bounded
<1>6. FreshIds'
  <2>1. \A d \in Conns : job[d].id # accepts' /\ job[d].id \in Ids
    BY <1>0 DEF Known, Bounded, Jobs, Workers, Ids
  <2>2. \A l \in Keys : mem[l] # accepts' /\ disk[l] # accepts'
    BY <1>0 DEF Known, Bounded, Ids
  <2>3. accepts' \notin revoked /\ accepts' # 0
    BY <1>0 DEF Known, Bounded, Ids
  <2> QED BY <1>0, <1>1, <1>3, <2>1, <2>2, <2>3 DEF Known, FreshIds, Workers
<1>7. Unique(mem)' /\ Unique(disk)' /\ RevokedStaysOut' /\ WelcomeLasts'
  BY <1>0 DEF Known, Unique, RevokedStaysOut, WelcomeLasts
<1>8. CountsExact'
  <2>1. \A d \in Conns : /\ job'[d].step \in Counted <=> job[d].step \in Counted
                         /\ job[d].step \in Counted => job'[d].key = job[d].key
    BY <1>1, <1>3 DEF Accept, Counted, Workers
  <2> QED BY <1>0, <2>1, CountKept DEF SInv
<1>9. TypeOK'
  BY <1>0, <1>3 DEF Accept, SInv, TypeOK, Workers, devices, files, history
<1> QED BY <1>4, <1>5, <1>6, <1>7, <1>8, <1>9 DEF SInv, Known

\* Enrolling puts a fresh identifier in, so nothing that was removed comes back with
\* the save, and requests of the key that were late are late no more.
LEMMA EnrolStep == ASSUME SInv, NEW c \in Conns, Enrol(c) PROVE SInv'
<1> DEFINE k == job[c].key
           i == job[c].id
<1>0. /\ job \in [Workers -> Jobs] /\ c # Console /\ c \in Workers /\ up /\ accepts \in Nat
      /\ k \in Keys /\ i \in Ids /\ i <= accepts /\ i # 0 /\ i \notin revoked
      /\ \A l \in Keys : mem[l] # i /\ disk[l] # i
      /\ \A d \in Conns \ {c} : job[d].id # i
      /\ mem \in [Keys -> Ids] /\ disk \in [Keys -> Ids] /\ job[Console].key = NoKey
      /\ UNCHANGED <<up, accepts, online, revoked, told>>
      /\ job[c].step = "enrol"
  BY SessionsOK DEF SInv, TypeOK, Known, Shape, Bounded, FreshIds, Pending, Workers, Ids, Jobs,
                    Enrol
<1>1. mem' = [mem EXCEPT ![k] = i]
  BY DEF Enrol
<1>2. mem' \in [Keys -> Ids] /\ disk' \in [Keys -> Ids] /\ (disk' = mem' \/ disk' = disk)
  BY <1>0, <1>1 DEF Enrol
<1>3. /\ job' \in [Workers -> Jobs]
      /\ \A d \in Workers \ {c} :
           /\ job'[d].step = job[d].step /\ job'[d].key = job[d].key /\ job'[d].id = job[d].id
           /\ job'[d].late = (job[d].late /\ job[d].key # k) /\ job'[d].code = job[d].code
      /\ \/ job'[c].step = "welcome" /\ job'[c].id = i /\ job'[c].key = k /\ disk' = mem'
         \/ job'[c] = Free
  <2> DEFINE seen == [w \in DOMAIN job |->
                    IF job[w].key = job[c].key THEN [job[w] EXCEPT !.late = FALSE] ELSE job[w]]
  <2>1. /\ seen \in [Workers -> Jobs]
        /\ \A d \in Workers :
             /\ seen[d].step = job[d].step /\ seen[d].key = job[d].key /\ seen[d].id = job[d].id
             /\ seen[d].late = (job[d].late /\ job[d].key # k) /\ seen[d].code = job[d].code
    <3>1. DOMAIN job = Workers BY <1>0
    <3>2. ASSUME NEW d \in Workers
          PROVE  /\ seen[d] \in Jobs
                 /\ seen[d].step = job[d].step /\ seen[d].key = job[d].key /\ seen[d].id = job[d].id
                 /\ seen[d].late = (job[d].late /\ job[d].key # k) /\ seen[d].code = job[d].code
      <4>1. job[d] \in Jobs BY <1>0
      <4>2. seen[d] = IF job[d].key = k THEN [job[d] EXCEPT !.late = FALSE] ELSE job[d]
        BY <3>1
      <4> HIDE DEF seen, k
      <4>3. CASE job[d].key = k BY <4>1, <4>2, <4>3 DEF Jobs
      <4>4. CASE job[d].key # k BY <4>1, <4>2, <4>4 DEF Jobs
      <4> QED BY <4>3, <4>4
    <3>3. seen = [w \in Workers |-> seen[w]] BY <3>1
    <3> HIDE DEF seen
    <3> QED BY <3>2, <3>3
  <2>2. \/ /\ disk' = mem'
           /\ job' = [seen EXCEPT ![c].step = "welcome", ![c].code = NoCode, ![c].copy = {}]
        \/ job' = [seen EXCEPT ![c] = Free]
    BY DEF Enrol
  <2> HIDE DEF seen
  <2>3. CASE job' = [seen EXCEPT ![c] = Free]
    BY <1>0, <2>1, <2>3, FreeFacts
  <2>4. CASE /\ disk' = mem'
             /\ job' = [seen EXCEPT ![c].step = "welcome", ![c].code = NoCode, ![c].copy = {}]
    <3> DEFINE x == [seen[c] EXCEPT !.step = "welcome", !.code = NoCode, !.copy = {}]
    <3>1. x \in Jobs /\ x.step = "welcome" /\ x.id = seen[c].id /\ x.key = seen[c].key
      <4>1. seen[c] \in Jobs BY <1>0, <2>1
      <4> HIDE DEF k, i
      <4> QED BY <4>1 DEF Jobs, Steps
    <3>2. job' = [seen EXCEPT ![c] = x]
      BY <1>0, <2>1, <2>4
    <3> HIDE DEF x
    <3>3. job' \in [Workers -> Jobs] /\ \A d \in Workers : job'[d] = IF d = c THEN x ELSE seen[d]
      BY <1>0, <2>1, <3>1, <3>2
    <3> QED BY <1>0, <2>1, <2>4, <3>1, <3>3
  <2> QED BY <2>2, <2>3, <2>4
<1>4. Shape'
  BY <1>0, <1>3, FreeFacts DEF SInv, Known, Shape, Workers
<1>5. Bounded'
  BY <1>0, <1>1, <1>2, <1>3, FreeFacts DEF SInv, Known, Bounded, Workers
<1>6. FreshIds'
  <2>1. ASSUME NEW e \in Conns, job'[e].step \in Pending
        PROVE  e # c /\ job[e].step \in Pending /\ job'[e].id = job[e].id
    BY <1>3, <2>1, FreeFacts DEF Pending, Workers
  <2>2. \A d \in Conns : job'[d].id \in {0, job[d].id}
    BY <1>3, FreeFacts DEF Workers
  <2> QED BY <1>0, <1>1, <1>2, <2>1, <2>2 DEF SInv, Known, FreshIds
<1>7. Unique(mem)' /\ Unique(disk)' /\ RevokedStaysOut'
  BY <1>0, <1>1, <1>2 DEF SInv, Known, Unique, RevokedStaysOut
<1>8. Welcomed'
  <2>1. ASSUME NEW e \in Conns, e # c, job[e].step = "welcome"
        PROVE  /\ job[e].id # 0
               /\ mem'[job[e].key] = job[e].id => disk'[job[e].key] # 0
    <3>1. job[e].key \in Keys /\ job[e].id # i /\ job[e].id # 0
            /\ (mem[job[e].key] = job[e].id => disk[job[e].key] # 0)
      BY <1>0, <2>1 DEF SInv, Known, Shape, Welcomed
    <3> QED BY <1>0, <1>1, <1>2, <3>1
  <2>2. job'[c].step = "welcome" => job'[c].id # 0 /\ disk'[job'[c].key] # 0
    BY <1>0, <1>1, <1>3, FreeFacts
  <2> QED BY <1>3, <2>1, <2>2 DEF Welcomed, Workers
<1>9. WelcomeLasts'
  BY <1>0, <1>1, <1>2 DEF SInv, TypeOK, Known, WelcomeLasts
<1>10. Punctual'
  <2>1. ASSUME NEW d \in Conns, d # c, job'[d].step = "check", job'[d].late
        PROVE  mem'[job'[d].key] = 0
    <3>1. job[d].step = "check" /\ job[d].late /\ job[d].key # k /\ job'[d].key = job[d].key
      BY <1>3, <2>1 DEF Workers
    <3>2. mem[job[d].key] = 0 BY <3>1 DEF SInv, Known, Punctual
    <3>3. job[d].key \in Keys BY <3>1 DEF SInv, Known, Shape
    <3> QED BY <1>0, <1>1, <3>1, <3>2, <3>3
  <2>2. ASSUME NEW d \in Conns, d # c, job'[d].step = "exec" PROVE ~job'[d].late
    BY <1>3, <2>2 DEF SInv, Known, Punctual, Workers
  <2>3. job'[c].step \notin {"check", "exec"} BY <1>3, FreeFacts
  <2> QED BY <2>1, <2>2, <2>3 DEF Punctual
<1>11. CountsExact'
  <2>1. \A d \in Conns : /\ job'[d].step \in Counted <=> job[d].step \in Counted
                         /\ job[d].step \in Counted => job'[d].key = job[d].key
    BY <1>0, <1>3, FreeFacts DEF Counted, Workers
  <2> QED BY <1>0, <2>1, CountKept DEF SInv
<1>12. TypeOK'
  <2>1. faults' \in 0..MaxFaults
    BY PayFacts DEF Enrol
  <2>2. paired' \in [Codes -> SUBSET Ids]
    BY <1>0 DEF Enrol, SInv, TypeOK
  <2> QED BY <1>0, <1>2, <1>3, <2>1, <2>2 DEF Enrol, SInv, TypeOK, Workers, files
<1> QED BY <1>4, <1>5, <1>6, <1>7, <1>8, <1>9, <1>10, <1>11, <1>12 DEF SInv, Known

\* Removing takes the identifier out of memory, where no handshake has it.
LEMMA RevokeStep == ASSUME SInv, NEW c \in Conns, NEW k \in Keys, RevokeDevice(c, k) PROVE SInv'
<1>0. /\ job \in [Workers -> Jobs] /\ c # Console /\ c \in Workers /\ up /\ accepts \in Nat
      /\ mem[k] # 0 /\ mem[k] \in Ids /\ mem[k] <= accepts
      /\ mem \in [Keys -> Ids] /\ disk \in [Keys -> Ids] /\ job[c].step = "exec"
      /\ UNCHANGED <<up, accepts, online>> /\ told' = told \ {k}
      /\ mem' = [mem EXCEPT ![k] = 0]
  BY SessionsOK DEF SInv, TypeOK, Known, Shape, Bounded, Workers, Ids, RevokeDevice
<1>1. /\ mem' \in [Keys -> Ids] /\ disk' \in [Keys -> Ids]
      /\ \/ disk' = mem' /\ revoked' = revoked \cup {mem[k]}
         \/ disk' = disk /\ revoked' = revoked
  BY <1>0, SessionsOK DEF RevokeDevice, Ids
<1>2. /\ job' \in [Workers -> Jobs]
      /\ \A d \in Workers : /\ job'[d].step = IF d = c THEN "open" ELSE job[d].step
                            /\ job'[d].key = job[d].key /\ job'[d].id = job[d].id
                            /\ job'[d].late = (job[d].late /\ d # c)
                            /\ job'[d].code = job[d].code
  <2> DEFINE x == [job[c] EXCEPT !.step = "open", !.late = FALSE]
  <2>1. /\ x \in Jobs /\ x.step = "open" /\ x.key = job[c].key /\ x.id = job[c].id
        /\ x.late = FALSE /\ x.code = job[c].code
    BY <1>0 DEF Jobs, Steps
  <2>2. job' = [job EXCEPT ![c] = x]
    BY <1>0 DEF RevokeDevice, Answers
  <2>3. \A d \in Workers : job[d].late \in BOOLEAN
    BY <1>0 DEF Jobs
  <2> HIDE DEF x
  <2> QED BY <1>0, <2>1, <2>2, <2>3
<1>3. Shape' /\ Punctual'
  BY <1>0, <1>2 DEF SInv, Known, Shape, Punctual, Workers
<1>4. Bounded'
  <2>1. revoked' \subseteq 1..accepts
    <3>1. mem[k] \in 1..accepts
      BY <1>0 DEF Ids
    <3> QED BY <1>1, <3>1 DEF SInv, Known, Bounded
  <2>2. \A l \in Keys : mem'[l] <= accepts /\ disk'[l] <= accepts
    BY <1>0, <1>1 DEF SInv, Known, Bounded
  <2> QED BY <1>0, <1>2, <2>1, <2>2 DEF SInv, Known, Bounded, Workers
<1>5. FreshIds'
  <2>1. ASSUME NEW e \in Conns, job'[e].step \in Pending
        PROVE  job[e].step \in Pending /\ job'[e].id = job[e].id
    BY <1>2, <2>1 DEF Pending, Workers
  <2>2. \A d \in Conns : job'[d].id = job[d].id
    BY <1>2 DEF Workers
  <2> QED BY <1>0, <1>1, <2>1, <2>2 DEF SInv, Known, FreshIds
<1>6. Unique(mem)' /\ Unique(disk)'
  BY <1>0, <1>1 DEF SInv, Known, Unique
<1>7. RevokedStaysOut'
  <2>1. 0 \notin revoked
    BY DEF SInv, Known, Bounded
  <2> QED BY <1>0, <1>1, <2>1 DEF SInv, Known, Unique, RevokedStaysOut
<1>8. Welcomed'
  <2>1. ASSUME NEW e \in Conns, job[e].step = "welcome"
        PROVE  mem'[job[e].key] = job[e].id => disk'[job[e].key] # 0
    BY <1>0, <1>1, <2>1 DEF SInv, Known, Shape, Welcomed
  <2> QED BY <1>0, <1>2, <2>1 DEF SInv, Known, Welcomed, Workers
<1>9. WelcomeLasts'
  BY <1>0, <1>1 DEF SInv, TypeOK, Known, WelcomeLasts
<1>10. CountsExact'
  <2>1. \A d \in Conns : /\ job'[d].step \in Counted <=> job[d].step \in Counted
                         /\ job[d].step \in Counted => job'[d].key = job[d].key
    BY <1>0, <1>2 DEF Counted, Workers
  <2> QED BY <1>0, <2>1, CountKept DEF SInv
<1>11. TypeOK'
  <2>1. faults' \in 0..MaxFaults
    BY PayFacts DEF RevokeDevice
  <2> QED BY <1>0, <1>1, <1>2, <2>1 DEF RevokeDevice, SInv, TypeOK, Workers, files
<1> QED BY <1>3, <1>4, <1>5, <1>6, <1>7, <1>8, <1>9, <1>10, <1>11 DEF SInv, Known

-----------------------------------------------------------------------------
\* The console and the world

\* What the console does to pairing.json leaves every connection as it is.
LEMMA ConsoleStep ==
  ASSUME SInv, UNCHANGED <<up, devices, accepts, online, told, revoked>>, Rest',
         job' \in [Workers -> Jobs], \A c \in Conns : job'[c] = job[c],
         job'[Console].step \in {"free", "write", "rename"}, job'[Console].key = NoKey,
         job'[Console].step # "free" => job'[Console].code \in Codes
  PROVE  SInv'
<1>1. Shape' /\ Bounded' /\ FreshIds' /\ Welcomed' /\ Punctual'
  BY DEF SInv, Known, Shape, Bounded, FreshIds, Welcomed, Punctual, devices
<1>2. Unique(mem)' /\ Unique(disk)' /\ RevokedStaysOut' /\ WelcomeLasts'
  BY DEF SInv, Known, Unique, RevokedStaysOut, WelcomeLasts, devices
<1>3. CountsExact'
  BY CountKept DEF SInv
<1>4. TypeOK'
  BY DEF SInv, TypeOK, Rest, Workers, devices
<1> QED BY <1>1, <1>2, <1>3, <1>4 DEF SInv, Known

LEMMA PairStep == ASSUME SInv, Pair \/ Expire PROVE SInv'
<1>0. /\ job \in [Workers -> Jobs] /\ Console \in Workers /\ job[Console] \in Jobs /\ Rest
      /\ job[Console].key = NoKey /\ job[Console].step \in {"free", "write", "rename"}
      /\ job[Console].step # "free" => job[Console].code \in Codes
      /\ Console \notin Conns
  BY RestFacts, SessionsOK DEF SInv, TypeOK, Known, Shape, Workers
<1>1. ASSUME NEW x \in Jobs, job' = [job EXCEPT ![Console] = x], online' = online,
             x.step \in {"free", "write", "rename"}, x.key = NoKey,
             x.step # "free" => x.code \in Codes, Rest',
             UNCHANGED <<up, devices, accepts, told, revoked>>
      PROVE  SInv'
  <2>1. job' \in [Workers -> Jobs] /\ job'[Console] = x /\ \A c \in Conns : job'[c] = job[c]
    BY <1>0, <1>1 DEF Workers
  <2> QED BY <1>1, <2>1, ConsoleStep
<1>2. Closes(Console) => job' = [job EXCEPT ![Console] = Free] /\ online' = online
  BY <1>0 DEF Closes, Counted
<1>3. CASE PairLoad
  <2>1. PICK p \in Codes \ made :
          /\ made' = made \cup {p}
          /\ job' = [job EXCEPT ![Console] = [Free EXCEPT
                      !.step = "write", !.code = p, !.copy = (codes \ expired) \cup {p}]]
    BY <1>3 DEF PairLoad
  <2> DEFINE x == [Free EXCEPT !.step = "write", !.code = p, !.copy = (codes \ expired) \cup {p}]
  <2>2. (codes \ expired) \cup {p} \in SUBSET Codes
    BY <1>0 DEF Rest
  <2>3. x \in Jobs /\ x.step = "write" /\ x.key = NoKey /\ x.code \in Codes
    BY <2>2, FreeFacts DEF Free, Jobs, Steps
  <2>4. Rest' /\ UNCHANGED <<up, devices, accepts, told, revoked, online>>
    BY <1>0, <1>3, <2>1 DEF PairLoad, Rest, files
  <2> HIDE DEF x
  <2>5. job' = [job EXCEPT ![Console] = x]
    BY <2>1 DEF x
  <2> QED BY <1>1, <2>3, <2>4, <2>5
<1>4. CASE WriteTmp(Console)
  <2>1. Rest' /\ UNCHANGED <<up, devices, accepts, told, revoked>>
    BY <1>0, <1>4, PayFacts DEF WriteTmp, Rest, Jobs, history
  <2>2. CASE Closes(Console)
    BY <1>1, <1>2, <2>1, <2>2, FreeFacts
  <2>3. CASE Goes(Console, "rename") /\ online' = online
    <3> DEFINE x == [job[Console] EXCEPT !.step = "rename"]
    <3>1. x \in Jobs /\ x.step = "rename" /\ x.key = NoKey /\ x.code \in Codes
      BY <1>0, <1>4 DEF WriteTmp, Jobs, Steps
    <3>2. job' = [job EXCEPT ![Console] = x]
      BY <2>3 DEF Goes
    <3> HIDE DEF x
    <3> QED BY <1>1, <2>1, <2>3, <3>1, <3>2
  <2> QED BY <1>4, <2>2, <2>3 DEF WriteTmp
<1>5. CASE PairPrint
  <2>1. tmp' \in SUBSET SUBSET Codes /\ codes' \subseteq Codes
    BY <1>0, <1>5 DEF PairPrint, Renames, Rest
  <2>2. Rest' /\ UNCHANGED <<up, devices, accepts, told, revoked>>
    BY <1>0, <1>5, <2>1 DEF PairPrint, Rest
  <2> QED BY <1>1, <1>2, <1>5, <2>2, FreeFacts DEF PairPrint
<1>6. CASE Expire
  <2>1. Rest' /\ UNCHANGED <<up, devices, accepts, job, online, told, revoked>>
    BY <1>0, <1>6 DEF Expire, Rest, files, history
  <2> QED BY <1>0, <2>1, ConsoleStep
<1> QED BY <1>3, <1>4, <1>5, <1>6 DEF Pair

LEMMA CountNone ==
  ASSUME \A c \in Conns : job[c].step \notin Counted, online = [k \in Keys |-> 0]
  PROVE  CountsExact
<1>1. ASSUME NEW k \in Keys
      PROVE  {c \in Conns : job[c].step \in Counted /\ job[c].key = k} = {}
  OBVIOUS
<1> QED BY <1>1, FS_EmptySet, SessionsOK DEF CountsExact

\* A restart takes every handshake with it, and state.json has no removed device.
LEMMA RestartStep == ASSUME SInv, Crash \/ Boot PROVE SInv'
<1>0. /\ job \in [Workers -> Jobs] /\ Console \notin Conns /\ job[Console].key = NoKey
      /\ job[Console].step \in {"free", "write", "rename"} /\ Share \in Nat
      /\ mem \in [Keys -> Ids] /\ disk \in [Keys -> Ids] /\ Rest /\ accepts \in Nat
  BY RestFacts, SessionsOK DEF SInv, TypeOK, Known, Shape, Workers, Ids
<1>1. CASE Crash
  <2>1. /\ job' \in [Workers -> Jobs] /\ \A c \in Conns : job'[c] = Free
        /\ job'[Console] = job[Console]
        /\ up' = FALSE /\ online' = [k \in Keys |-> 0]
        /\ UNCHANGED <<mem, disk, accepts, told, revoked>>
    BY <1>0, <1>1, FreeFacts DEF Crash, Workers, devices, history
  <2>2. Free.step \notin Counted /\ Free.step \notin Pending
          /\ Free.step \notin {"welcome", "check", "exec"}
    BY FreeFacts DEF Counted, Pending
  <2>3. Shape' /\ Bounded' /\ FreshIds' /\ Welcomed' /\ Punctual'
    BY <1>0, <2>1, <2>2, FreeFacts
       DEF SInv, Known, Shape, Bounded, FreshIds, Welcomed, Punctual
  <2>4. Unique(mem)' /\ Unique(disk)' /\ RevokedStaysOut' /\ WelcomeLasts'
    BY <2>1 DEF SInv, Known, Unique, RevokedStaysOut, WelcomeLasts
  <2>5. CountsExact'
    <3>1. ASSUME NEW k \in Keys
          PROVE  {c \in Conns : job'[c].step \in Counted /\ job'[c].key = k} = {}
      BY <2>1, <2>2
    <3>2. \A k \in Keys : online'[k] = 0 /\ 0 <= Share
      BY <1>0, <2>1
    <3>3. Cardinality({}) = 0
      BY FS_EmptySet
    <3> QED BY <3>1, <3>2, <3>3 DEF CountsExact
  <2>6. Rest'
    BY <1>0, <1>1, PayFacts DEF Crash, Rest, files, history
  <2>7. TypeOK'
    <3>1. online' \in [Keys -> 0..Share] /\ up' \in BOOLEAN
      <4>1. 0 \in 0..Share /\ FALSE \in BOOLEAN
        BY <1>0
      <4> QED BY <2>1, <4>1
    <3>2. /\ mem' \in [Keys -> Ids] /\ disk' \in [Keys -> Ids] /\ accepts' \in Ids
          /\ told' \subseteq Keys /\ revoked' \subseteq Ids
      BY <2>1 DEF SInv, TypeOK
    <3> QED BY <2>1, <2>6, <3>1, <3>2 DEF TypeOK, Rest, Workers
  <2> QED BY <2>3, <2>4, <2>5, <2>7 DEF SInv, Known
<1>2. CASE Boot
  <2>1. /\ ~up /\ up' = TRUE /\ mem' = disk
        /\ UNCHANGED <<disk, accepts, job, online, told, revoked>> /\ Rest'
    BY <1>0, <1>2 DEF Boot, Rest, files, history
  <2>2. \A c \in Conns : job[c].step = "free"
    BY <2>1 DEF SInv, Known, Shape
  <2>3. Shape' /\ Bounded' /\ FreshIds' /\ Welcomed' /\ Punctual'
    BY <2>1, <2>2 DEF SInv, Known, Shape, Bounded, FreshIds, Welcomed, Punctual, Pending
  <2>4. Unique(mem)' /\ Unique(disk)' /\ RevokedStaysOut' /\ WelcomeLasts'
    BY <2>1 DEF SInv, Known, Unique, RevokedStaysOut, WelcomeLasts
  <2>5. CountsExact'
    BY <2>1, CountKept DEF SInv
  <2>6. TypeOK'
    BY <1>0, <2>1 DEF SInv, TypeOK, Rest, Workers
  <2> QED BY <2>3, <2>4, <2>5, <2>6 DEF SInv, Known
<1> QED BY <1>1, <1>2

LEMMA StutterStep == ASSUME SInv, UNCHANGED vars PROVE SInv'
<1>1. /\ UNCHANGED <<up, devices, accepts, online, told, revoked, job>> /\ Rest'
      /\ job \in [Workers -> Jobs]
      /\ job[Console].key = NoKey /\ job[Console].step \in {"free", "write", "rename"}
      /\ job[Console].step # "free" => job[Console].code \in Codes
  BY RestFacts DEF vars, Rest, files, history, SInv, TypeOK, Known, Shape, Workers
<1> QED BY <1>1, ConsoleStep

LEMMA SInvHolds == Spec => []SInv
<1>1. Init => SInv
  <2> SUFFICES ASSUME Init PROVE SInv
    OBVIOUS
  <2>1. job \in [Workers -> Jobs] /\ \A w \in Workers : job[w] = Free
    BY FreeFacts DEF Init, Workers
  <2>2. mem = [k \in Keys |-> 0] /\ disk = mem /\ accepts = 0 /\ 0 \in Ids
    BY SessionsOK DEF Init, Ids
  <2>3. Shape /\ Bounded /\ FreshIds /\ Welcomed /\ Punctual
    BY <2>1, <2>2, FreeFacts
       DEF Init, Workers, Shape, Bounded, FreshIds, Welcomed, Punctual, Pending
  <2>4. Unique(mem) /\ Unique(disk) /\ RevokedStaysOut /\ WelcomeLasts
    BY <2>2 DEF Init, Unique, RevokedStaysOut, WelcomeLasts
  <2>5. CountsExact
    BY <2>1, CountNone, FreeFacts DEF Init, Workers, Counted
  <2>6. TypeOK
    BY <2>1, <2>2, SessionsOK DEF Init, TypeOK, Workers
  <2> QED BY <2>3, <2>4, <2>5, <2>6 DEF SInv, Known
<1>2. SInv /\ [Next]_vars => SInv'
  <2> SUFFICES ASSUME SInv, [Next]_vars PROVE SInv'
    OBVIOUS
  <2>1. ASSUME NEW c \in Conns,
               \/ (\E k \in Keys : Accept(c, k)) \/ \E p \in Codes \cup {NoCode} : Lookup(c, p)
               \/ Authorize(c) \/ Reply(c)
               \/ Receive(c) \/ Check(c) \/ Exec(c) \/ Ends(c)
        PROVE  SInv'
    BY <2>1, AcceptStep, HandshakeStep, EnrolStep, ReplyStep, RequestStep, RevokeStep
       DEF Authorize, Exec, Ends
  <2> QED BY <2>1, PairStep, RestartStep, StutterStep DEF Next
<1> QED BY <1>1, <1>2, PTL DEF Spec

-----------------------------------------------------------------------------
\* TypeOK, and with it that the counter of a device never leaves 0..Share.
THEOREM SessionsTyped == Spec => []TypeOK
<1>1. SInv => TypeOK
  BY DEF SInv
<1> QED BY <1>1, SInvHolds, PTL

\* WelcomeLasts: a device that was told "paired" is in state.json and survives every save
\* of the service, failing or not, crash and restart until a client removes it.
THEOREM WelcomeLastsHolds == Spec => []WelcomeLasts
<1>1. SInv => WelcomeLasts
  BY DEF SInv, Known
<1> QED BY <1>1, SInvHolds, PTL

\* RevocationHolds: with any number of handshakes, requests and saves of the service
\* under way, a removal answered "ok" is undone by none of them, and no request that
\* arrives after it is executed on a connection that was open.
THEOREM RevocationAlwaysHolds == Spec => []RevocationHolds
<1>1. SInv => RevocationHolds
  BY DEF SInv, Known, Punctual, RevocationHolds, NoLateRequest
<1> QED BY <1>1, SInvHolds, PTL

\* CountsExact: no end of a connection, in whatever step, leaks a place among those of
\* its device or gives one back twice.
THEOREM CountsExactHolds == Spec => []CountsExact
<1>1. SInv => CountsExact
  BY DEF SInv
<1> QED BY <1>1, SInvHolds, PTL

-----------------------------------------------------------------------------
(***************************************************************************)
(* Who gets in.  Clients present whatever they like; consume lets in what  *)
(* it finds in pairing.json.  In whatever order the writers of that file   *)
(* overtake each other and rename one another's copies, every copy on the  *)
(* way holds only codes that the console made.                             *)
(***************************************************************************)

Writing(w) == job[w].step \in {"write", "rename"}

\* What a worker is about to put back, or to enrol with, was made by the console.
Lawful(w) ==
  /\ Writing(w) => job[w].copy \subseteq made /\ job[w].code \in made \cup {NoCode}
  /\ job[w].step = "enrol" => job[w].code \in made

InvitedInv ==
  /\ Invited /\ codes \subseteq made
  /\ \A copy \in tmp : copy \subseteq made
  /\ \A w \in Workers : Lawful(w)

\* Steps that put no new device into the store.
LEMMA InvitedKept ==
  ASSUME SInv, InvitedInv, made \subseteq made', \A p \in Codes : paired[p] \subseteq paired'[p],
         \A k \in Keys : {mem'[k], disk'[k]} \subseteq {0, mem[k], disk[k]},
         codes' \subseteq made', \A copy \in tmp' : copy \subseteq made',
         \A w \in Workers : Lawful(w)'
  PROVE  InvitedInv'
<1>1. ASSUME NEW k \in Keys, NEW i \in {mem'[k], disk'[k]} \ {0}
      PROVE  \E p \in made' : i \in paired'[p]
  <2>1. i \in {mem[k], disk[k]} \ {0} BY <1>1
  <2>2. PICK p \in made : i \in paired[p] BY <2>1 DEF InvitedInv, Invited
  <2>3. p \in Codes BY DEF SInv, TypeOK
  <2> QED BY <2>2, <2>3
<1> QED BY <1>1 DEF InvitedInv, Invited

\* Steps of one worker after which what it holds is still lawful.
LEMMA LawfulKept ==
  ASSUME SInv, InvitedInv, NEW w \in Workers, NEW x, job' = [job EXCEPT ![w] = x], made' = made,
         x.step \in {"write", "rename"} => x.copy \subseteq made /\ x.code \in made \cup {NoCode},
         x.step = "enrol" => x.code \in made
  PROVE  \A v \in Workers : Lawful(v)'
<1>1. \A v \in Workers : job'[v] = IF v = w THEN x ELSE job[v] BY DEF SInv, TypeOK, Workers
<1> QED BY <1>1 DEF InvitedInv, Lawful, Writing

\* Steps of one worker after which it is not about to use anything.
LEMMA LawfulMove ==
  ASSUME SInv, InvitedInv, NEW w \in Workers, NEW x, job' = [job EXCEPT ![w] = x], made' = made,
         x.step \notin {"write", "rename", "enrol"}
  PROVE  \A v \in Workers : Lawful(v)'
BY LawfulKept

LEMMA LawfulGo ==
  ASSUME SInv, InvitedInv, NEW w \in Workers, made' = made,
         Closes(w) \/ \E step \in Steps \ {"write", "rename", "enrol"} : Goes(w, step)
  PROVE  \A v \in Workers : Lawful(v)'
<1>1. CASE Closes(w)
  <2>1. Free.step = "free" BY DEF Free
  <2> QED BY <1>1, <2>1, LawfulMove DEF Closes
<1>2. ASSUME NEW step \in Steps \ {"write", "rename", "enrol"}, Goes(w, step)
      PROVE  \A v \in Workers : Lawful(v)'
  <2> DEFINE x == [job[w] EXCEPT !.step = step]
  <2>1. x.step = step /\ job' = [job EXCEPT ![w] = x]
    BY <1>2 DEF Goes, SInv, TypeOK, Jobs, Workers
  <2> HIDE DEF x
  <2> QED BY <1>2, <2>1, LawfulMove
<1> QED BY <1>1, <1>2

\* A save carries what was lawful from the copy to the temporary file.
LEMMA InvitedWrite ==
  ASSUME SInv, InvitedInv, NEW w \in Workers, WriteTmp(w)
  PROVE  InvitedInv'
<1>0. /\ job[w] \in Jobs /\ job[w].step = "write" /\ Lawful(w)
      /\ UNCHANGED <<mem, disk, codes, made, paired>>
  BY DEF SInv, TypeOK, Workers, WriteTmp, InvitedInv, devices, history
<1>1. \A v \in Workers : Lawful(v)'
  <2>1. ASSUME Goes(w, "rename") PROVE \A v \in Workers : Lawful(v)'
    <3> DEFINE x == [job[w] EXCEPT !.step = "rename"]
    <3>1. /\ x.step = "rename" /\ x.copy = job[w].copy /\ x.code = job[w].code
          /\ job' = [job EXCEPT ![w] = x]
      BY <1>0, <2>1 DEF Goes, Jobs
    <3> HIDE DEF x
    <3> QED BY <1>0, <3>1, LawfulKept DEF Lawful, Writing
  <2> QED BY <1>0, <2>1, LawfulGo DEF WriteTmp
<1>2. tmp' = tmp \/ tmp' = {job[w].copy} BY DEF WriteTmp
<1>3. \A copy \in tmp' : copy \subseteq made' BY <1>0, <1>2 DEF InvitedInv, Lawful, Writing
<1> QED BY <1>0, <1>1, <1>3, InvitedKept DEF InvitedInv

\* And whoever's copy a rename puts into place, from there to pairing.json.
LEMMA RenamesMade ==
  ASSUME InvitedInv, Renames, made' = made
  PROVE  codes' \subseteq made' /\ \A copy \in tmp' : copy \subseteq made'
<1>1. CASE tmp = {} BY <1>1 DEF InvitedInv, Renames
<1>2. CASE tmp # {}
  <2>1. (CHOOSE copy \in tmp : TRUE) \in tmp BY <1>2
  <2> QED BY <1>2, <2>1 DEF InvitedInv, Renames
<1> QED BY <1>1, <1>2

LEMMA InvitedConn ==
  ASSUME SInv, InvitedInv, NEW c \in Conns,
         \/ (\E k \in Keys : Accept(c, k)) \/ \E p \in Codes \cup {NoCode} : Lookup(c, p)
         \/ Authorize(c) \/ Reply(c)
         \/ Receive(c) \/ Check(c) \/ Exec(c) \/ Ends(c)
  PROVE  InvitedInv'
<1>0. /\ job \in [Workers -> Jobs] /\ c \in Workers /\ job[c] \in Jobs /\ c # Console
      /\ mem \in [Keys -> Ids] /\ disk \in [Keys -> Ids]
      /\ paired \in [Codes -> SUBSET Ids] /\ made \subseteq Codes /\ codes \subseteq made
      /\ \A copy \in tmp : copy \subseteq made
      /\ Invited /\ \A w \in Workers : Lawful(w)
      /\ NoCode \notin Codes /\ Free.step = "free"
  BY SessionsOK DEF SInv, TypeOK, Workers, InvitedInv, Free
<1>1. ASSUME UNCHANGED <<mem, made, paired, codes, tmp>>, disk' = disk \/ disk' = mem,
             \A w \in Workers : Lawful(w)'
      PROVE  InvitedInv'
  BY <1>0, <1>1, InvitedKept
<1>2. ASSUME NEW k \in Keys, Accept(c, k) PROVE InvitedInv'
  <2> DEFINE x == [Free EXCEPT !.step = "hello", !.key = k, !.id = accepts']
  <2>1. x.step = "hello" /\ job' = [job EXCEPT ![c] = x] BY <1>2 DEF Accept, Free
  <2> HIDE DEF x
  <2>2. \A w \in Workers : Lawful(w)' BY <1>0, <1>2, <2>1, LawfulMove DEF Accept, history
  <2> QED BY <1>1, <1>2, <2>2 DEF Accept, devices, files, history
\* What is presented is not looked at yet.
<1>3. ASSUME NEW p \in Codes \cup {NoCode}, Lookup(c, p) PROVE InvitedInv'
  <2>1. CASE job' = [job EXCEPT ![c].step = "load", ![c].code = p]
    <3> DEFINE x == [job[c] EXCEPT !.step = "load", !.code = p]
    <3>1. x.step = "load" /\ job' = [job EXCEPT ![c] = x] BY <1>0, <2>1 DEF Jobs
    <3> HIDE DEF x
    <3>2. \A w \in Workers : Lawful(w)' BY <1>0, <1>3, <3>1, LawfulMove DEF Lookup, history
    <3> QED BY <1>1, <1>3, <3>2 DEF Lookup, files, history
  <2>2. CASE Closes(c) \/ Goes(c, "reply")
    <3>1. \A w \in Workers : Lawful(w)'
      BY <1>0, <1>3, <2>2, LawfulGo DEF Lookup, Steps, history
    <3> QED BY <1>1, <1>3, <3>1 DEF Lookup, files, history
  <2> QED BY <1>3, <2>1, <2>2 DEF Lookup
\* Here it is: only a code that is in pairing.json stays with the connection.
<1>4. CASE LoadCodes(c)
  <2>1. CASE Closes(c)
    <3>1. \A w \in Workers : Lawful(w)' BY <1>0, <1>4, <2>1, LawfulGo DEF LoadCodes, history
    <3> QED BY <1>1, <1>4, <3>1 DEF LoadCodes, devices, files, history
  <2> DEFINE valid == codes \ expired
             copy == valid \ {job[c].code}
             code == IF job[c].code \in valid THEN job[c].code ELSE NoCode
  <2>2. CASE job' = [job EXCEPT ![c].step = "write", ![c].copy = copy, ![c].code = code]
    <3>1. copy \subseteq made /\ code \in made \cup {NoCode} BY <1>0
    <3> HIDE DEF valid, copy, code
    <3> DEFINE x == [job[c] EXCEPT !.step = "write", !.copy = copy, !.code = code]
    <3>2. /\ x.step = "write" /\ x.copy = copy /\ x.code = code
          /\ job' = [job EXCEPT ![c] = x]
      BY <1>0, <2>2 DEF Jobs
    <3> HIDE DEF x
    <3>3. \A w \in Workers : Lawful(w)'
      BY <1>0, <1>4, <3>1, <3>2, LawfulKept DEF LoadCodes, history
    <3> QED BY <1>1, <1>4, <3>3 DEF LoadCodes, devices, files, history
  <2> QED BY <1>4, <2>1, <2>2 DEF LoadCodes
<1>5. CASE WriteTmp(c) BY <1>0, <1>5, InvitedWrite
<1>6. CASE Rename(c)
  <2>1. UNCHANGED <<mem, disk, made, paired>> /\ Renames /\ job[c].step = "rename"
    BY <1>6 DEF Rename, devices, history
  <2>2. ASSUME Goes(c, "enrol"), job[c].code # NoCode PROVE \A w \in Workers : Lawful(w)'
    <3> DEFINE x == [job[c] EXCEPT !.step = "enrol"]
    <3>1. x.step = "enrol" /\ x.code = job[c].code /\ job' = [job EXCEPT ![c] = x]
      BY <1>0, <2>2 DEF Goes, Jobs
    <3> HIDE DEF x
    <3>2. job[c].code \in made BY <1>0, <2>1, <2>2 DEF Lawful, Writing
    <3> QED BY <1>0, <2>1, <3>1, <3>2, LawfulKept
  <2>3. \A w \in Workers : Lawful(w)' BY <1>0, <1>6, <2>1, <2>2, LawfulGo DEF Rename
  <2> QED BY <1>0, <2>1, <2>3, RenamesMade, InvitedKept
\* The identifier that goes into the store goes to the code, which was made.
<1>7. CASE Enrol(c)
  <2> DEFINE k == job[c].key
             i == job[c].id
             code == job[c].code
             seen == [w \in DOMAIN job |->
                        IF job[w].key = k THEN [job[w] EXCEPT !.late = FALSE] ELSE job[w]]
  <2>1. k \in Keys /\ code \in made /\ code \in Codes /\ DOMAIN job = Workers
    BY <1>0, <1>7 DEF Enrol, Lawful, SInv, Known, Shape
  <2>2. /\ mem' = [mem EXCEPT ![k] = i] /\ (disk' = mem' \/ disk' = disk)
        /\ paired' = [paired EXCEPT ![code] = @ \cup {i}] /\ UNCHANGED <<made, codes, tmp>>
        /\ \/ job' = [seen EXCEPT ![c].step = "welcome", ![c].code = NoCode, ![c].copy = {}]
           \/ job' = [seen EXCEPT ![c] = Free]
    BY <1>7 DEF Enrol, files
  <2>3. \A w \in Workers : /\ seen[w].code = job[w].code /\ seen[w].step = job[w].step
                           /\ seen[w].copy = job[w].copy /\ seen[w] \in Jobs
    BY <1>0, <2>1 DEF Jobs
  <2>4. DOMAIN seen = Workers BY <2>1
  <2> HIDE DEF seen
  <2>5. ASSUME NEW w \in Workers PROVE Lawful(w)'
    <3>1. CASE w = c
      <4>1. job'[c].step \notin {"write", "rename", "enrol"}
        BY <1>0, <2>2, <2>3, <2>4 DEF Jobs
      <4> QED BY <3>1, <4>1 DEF Lawful, Writing
    <3>2. CASE w # c
      <4>1. job'[w] = seen[w] BY <2>2, <2>4, <3>2
      <4> QED BY <1>0, <2>2, <2>3, <4>1 DEF Lawful, Writing
    <3> QED BY <3>1, <3>2
  <2>6. \A p \in Codes : paired[p] \subseteq paired'[p] BY <1>0, <2>2
  <2>7. i \in paired'[code] BY <1>0, <2>1, <2>2
  <2>8. ASSUME NEW l \in Keys, NEW j \in {mem'[l], disk'[l]} \ {0}
        PROVE  \E p \in made' : j \in paired'[p]
    <3>1. j \in {mem[l], disk[l]} \/ j = i BY <1>0, <2>2, <2>8
    <3>2. CASE j = i BY <2>1, <2>2, <2>7, <3>2
    <3>3. CASE j \in {mem[l], disk[l]}
      <4>1. PICK p \in made : j \in paired[p] BY <1>0, <2>8, <3>3 DEF Invited
      <4> QED BY <1>0, <2>2, <2>6, <4>1
    <3> QED BY <3>1, <3>2, <3>3
  <2> QED BY <1>0, <2>2, <2>5, <2>8 DEF InvitedInv, Invited
<1>8. CASE Reply(c)
  <2>1. UNCHANGED <<mem, disk, made, paired, codes, tmp>> BY <1>8 DEF Reply, devices, files
  <2>2. CASE job' = [job EXCEPT ![c] = [Free EXCEPT !.step = "open", !.key = job[c].key]]
    <3> DEFINE x == [Free EXCEPT !.step = "open", !.key = job[c].key]
    <3>1. x.step = "open" /\ job' = [job EXCEPT ![c] = x] BY <2>2 DEF Free
    <3> HIDE DEF x
    <3>2. \A w \in Workers : Lawful(w)' BY <1>0, <2>1, <3>1, LawfulMove
    <3> QED BY <1>1, <2>1, <3>2
  <2>3. CASE Closes(c)
    <3>1. \A w \in Workers : Lawful(w)' BY <1>0, <2>1, <2>3, LawfulGo
    <3> QED BY <1>1, <2>1, <3>1
  <2> QED BY <1>8, <2>2, <2>3 DEF Reply
<1>9. CASE Receive(c)
  <2>1. PICK late : job' = [job EXCEPT ![c].step = "check", ![c].late = late]
    BY <1>9 DEF Receive
  <2> DEFINE x == [job[c] EXCEPT !.step = "check", !.late = late]
  <2>2. x.step = "check" /\ job' = [job EXCEPT ![c] = x] BY <1>0, <2>1 DEF Jobs
  <2> HIDE DEF x
  <2>3. \A w \in Workers : Lawful(w)' BY <1>0, <1>9, <2>2, LawfulMove DEF Receive, history
  <2> QED BY <1>1, <1>9, <2>3 DEF Receive, devices, files, history
<1>10. CASE Check(c)
  <2>1. \A w \in Workers : Lawful(w)' BY <1>0, <1>10, LawfulGo DEF Check, Steps, history
  <2> QED BY <1>1, <1>10, <2>1 DEF Check, devices, files, history
<1>11. ASSUME Answers(c), made' = made PROVE \A w \in Workers : Lawful(w)'
  <2> DEFINE x == [job[c] EXCEPT !.step = "open", !.late = FALSE]
  <2>1. x.step = "open" /\ job' = [job EXCEPT ![c] = x] BY <1>0, <1>11 DEF Answers, Jobs
  <2> HIDE DEF x
  <2> QED BY <1>0, <1>11, <2>1, LawfulMove
<1>12. CASE ExecOther(c) BY <1>1, <1>11, <1>12 DEF ExecOther, files, history
<1>13. ASSUME NEW k \in Keys, RevokeDevice(c, k) PROVE InvitedInv'
  <2>1. /\ mem' = [mem EXCEPT ![k] = 0] /\ (disk' = mem' \/ disk' = disk)
        /\ UNCHANGED <<made, paired, codes, tmp>> /\ Answers(c)
    BY <1>13 DEF RevokeDevice, files
  <2>2. \A l \in Keys : {mem'[l], disk'[l]} \subseteq {0, mem[l], disk[l]} BY <1>0, <2>1
  <2> QED BY <1>0, <1>11, <2>1, <2>2, InvitedKept
<1>14. CASE Ends(c)
  <2>1. Closes(c) /\ UNCHANGED <<mem, disk, made, paired, codes, tmp>>
    BY <1>14 DEF Ends, HandshakeEnds, IdleEnds, devices, files, history
  <2>2. \A w \in Workers : Lawful(w)' BY <1>0, <2>1, LawfulGo
  <2> QED BY <1>1, <2>1, <2>2
<1> QED BY <1>2, <1>3, <1>4, <1>5, <1>6, <1>7, <1>8, <1>9, <1>10, <1>12, <1>13, <1>14
        DEF Authorize, Exec

LEMMA InvitedWorld ==
  ASSUME SInv, InvitedInv, Pair \/ Expire \/ Crash \/ Boot \/ UNCHANGED vars
  PROVE  InvitedInv'
<1>0. /\ job \in [Workers -> Jobs] /\ Console \in Workers /\ codes \subseteq made
      /\ NoCode \notin Codes
      /\ job[Console].step # "free" => job[Console].code \in Codes
      /\ \A copy \in tmp : copy \subseteq made
      /\ \A w \in Workers : Lawful(w)
      /\ Free.step = "free"
  BY SessionsOK DEF SInv, TypeOK, Workers, InvitedInv, Free, Known, Shape
<1>1. CASE PairLoad
  <2>1. PICK p \in Codes \ made :
          /\ made' = made \cup {p}
          /\ job' = [job EXCEPT ![Console] = [Free EXCEPT
                      !.step = "write", !.code = p, !.copy = (codes \ expired) \cup {p}]]
    BY <1>1 DEF PairLoad
  <2> DEFINE x == [Free EXCEPT !.step = "write", !.code = p, !.copy = (codes \ expired) \cup {p}]
  <2>2. x.step = "write" /\ x.code = p /\ x.copy = (codes \ expired) \cup {p} BY DEF Free
  <2>3. job' = [job EXCEPT ![Console] = x] BY <2>1
  <2> HIDE DEF x
  <2>4. \A w \in Workers : job'[w] = IF w = Console THEN x ELSE job[w] BY <1>0, <2>3
  <2>5. \A w \in Workers : Lawful(w)' BY <1>0, <2>1, <2>2, <2>4 DEF Lawful, Writing
  <2>6. UNCHANGED <<mem, disk, paired, codes, tmp>>
    BY <1>1 DEF PairLoad, devices, files
  <2> QED BY <1>0, <2>1, <2>5, <2>6, InvitedKept
<1>2. CASE WriteTmp(Console) BY <1>0, <1>2, InvitedWrite
<1>3. CASE PairPrint
  <2>1. UNCHANGED <<mem, disk, made, paired>> /\ Renames /\ Closes(Console)
    BY <1>3 DEF PairPrint, devices
  <2>2. \A w \in Workers : Lawful(w)' BY <1>0, <2>1, LawfulGo
  <2> QED BY <1>0, <2>1, <2>2, RenamesMade, InvitedKept
<1>4. ASSUME UNCHANGED <<made, paired, codes, tmp>>,
             \A k \in Keys : {mem'[k], disk'[k]} \subseteq {mem[k], disk[k]},
             \A w \in Workers : job'[w] = job[w] \/ job'[w] = Free
      PROVE  InvitedInv'
  <2>1. \A w \in Workers : Lawful(w)' BY <1>0, <1>4 DEF Lawful, Writing
  <2> QED BY <1>0, <1>4, <2>1, InvitedKept
<1>5. CASE Expire BY <1>4, <1>5 DEF Expire, devices, files, history
<1>6. CASE Crash BY <1>0, <1>4, <1>6 DEF Crash, devices, files, history
<1>7. CASE Boot BY <1>4, <1>7 DEF Boot, files, history
<1>8. CASE UNCHANGED vars BY <1>4, <1>8 DEF vars, devices, files, history
<1> QED BY <1>1, <1>2, <1>3, <1>5, <1>6, <1>7, <1>8 DEF Pair

LEMMA InvitedHolds == Spec => []InvitedInv
<1>1. Init => InvitedInv
  <2> SUFFICES ASSUME Init PROVE InvitedInv OBVIOUS
  <2>1. \A k \in Keys : mem[k] = 0 /\ disk[k] = 0 BY DEF Init
  <2>2. \A w \in Workers : job[w].step = "free" BY DEF Init, Free, Workers
  <2>3. codes = {} /\ tmp = {} BY DEF Init
  <2> QED BY <2>1, <2>2, <2>3 DEF InvitedInv, Invited, Lawful, Writing
<1>2. SInv /\ InvitedInv /\ [Next]_vars => InvitedInv'
  BY InvitedConn, InvitedWorld DEF Next
<1> QED BY <1>1, <1>2, SInvHolds, PTL DEF Spec

\* PairingHolds: whatever clients guess, and whatever races for pairing.json, fails to be
\* saved, crashes or expires meanwhile, the store has every device that was welcomed and
\* not removed since, and none that did not enrol with a code the console made (authorize,
\* pairing::consume).  The flaw of SingleUse lets a code in twice, but no other code in.
THEOREM PairingAlwaysHolds == Spec => []PairingHolds
<1>1. InvitedInv => Invited BY DEF InvitedInv
<1> QED BY <1>1, WelcomeLastsHolds, InvitedHolds, PTL DEF PairingHolds

-----------------------------------------------------------------------------
(***************************************************************************)
(* How often a code is used.  consume and `pair` load pairing.json, change *)
(* and replace it, and nothing keeps another writer out meanwhile.  Where  *)
(* none comes in between, what a writer puts back differs from what is     *)
(* there by its own code alone, so a code that was used stays out of it.   *)
(***************************************************************************)

\* At most one worker at a time is between loading pairing.json and replacing it.
OneWriter == \A v, w \in Workers : Writing(v) /\ Writing(w) => v = w

Consumed(p) == paired[p] # {} \/ \E c \in Conns : job[c].step = "enrol" /\ job[c].code = p

\* The temporary file is the writer's own.
OwnFile == \A w \in Workers : job[w].step = "rename" => tmp = {job[w].copy}

OwnCode ==
  /\ \A c \in Conns : Writing(c) =>
       /\ job[c].copy \subseteq codes
       /\ job[c].code \notin job[c].copy /\ job[c].code \in codes \cup {NoCode}
  /\ Writing(Console) =>
       /\ job[Console].copy \subseteq codes \cup {job[Console].code}
       /\ ~Consumed(job[Console].code)

\* A used code is gone for good, and whoever used it is alone with it.
UsedUp ==
  /\ \A p \in Codes : Consumed(p) => p \in made \ codes
  /\ \A c \in Conns : job[c].step = "enrol" =>
       /\ paired[job[c].code] = {}
       /\ \A d \in Conns : job[d].step = "enrol" /\ job[d].code = job[c].code => d = c
  /\ \A p \in Codes : \A i, j \in paired[p] : i = j

PairingInv == OwnFile /\ OwnCode /\ UsedUp

\* What a worker holds, if it is about to use it.
Holds(w) ==
  job'[w].step \in {"write", "rename", "enrol"} =>
    job'[w].step = job[w].step /\ job'[w].code = job[w].code /\ job'[w].copy = job[w].copy

LEMMA PairingKept ==
  ASSUME PairingInv, UNCHANGED <<codes, tmp, made, paired>>, \A w \in Workers : Holds(w)
  PROVE  PairingInv'
<1>1. Conns \subseteq Workers /\ Console \in Workers BY DEF Workers
<1>2. OwnFile' BY DEF PairingInv, OwnFile, Holds
<1>3. \A p : Consumed(p)' => Consumed(p) BY <1>1 DEF Consumed, Holds
<1>4. OwnCode' BY <1>1, <1>3 DEF PairingInv, OwnCode, Writing, Holds
<1>5. UsedUp' BY <1>1, <1>3 DEF PairingInv, UsedUp, Holds
<1> QED BY <1>2, <1>4, <1>5 DEF PairingInv

\* A step of one worker after which it is not about to use anything.
LEMMA PairingMove ==
  ASSUME SInv, PairingInv, NEW w \in Workers, NEW x, job' = [job EXCEPT ![w] = x],
         x.step \notin {"write", "rename", "enrol"}, UNCHANGED <<codes, tmp, made, paired>>
  PROVE  PairingInv'
<1>1. \A v \in Workers : job'[v] = IF v = w THEN x ELSE job[v] BY DEF SInv, TypeOK, Workers
<1> QED BY <1>1, PairingKept DEF Holds

LEMMA PairingGo ==
  ASSUME SInv, PairingInv, NEW w \in Workers,
         Closes(w) \/ \E step \in Steps \ {"write", "rename", "enrol"} : Goes(w, step),
         UNCHANGED <<codes, tmp, made, paired>>
  PROVE  PairingInv'
<1>1. CASE Closes(w)
  <2>1. Free.step = "free" BY DEF Free
  <2> QED BY <1>1, <2>1, PairingMove DEF Closes
<1>2. ASSUME NEW step \in Steps \ {"write", "rename", "enrol"}, Goes(w, step) PROVE PairingInv'
  <2> DEFINE x == [job[w] EXCEPT !.step = step]
  <2>1. x.step = step /\ job' = [job EXCEPT ![w] = x]
    BY <1>2 DEF Goes, SInv, TypeOK, Jobs, Workers
  <2> HIDE DEF x
  <2> QED BY <2>1, PairingMove
<1> QED BY <1>1, <1>2

\* Writing the temporary file, connection or console.
LEMMA PairingWrite ==
  ASSUME SInv, PairingInv, OneWriter, NEW w \in Workers, WriteTmp(w)
  PROVE  PairingInv'
<1>0. job \in [Workers -> Jobs] /\ job[w].step = "write" /\ UNCHANGED <<codes, made, paired>>
  BY DEF SInv, TypeOK, Workers, WriteTmp, history
<1>1. CASE Closes(w) /\ tmp' = tmp BY <1>0, <1>1, PairingGo
<1>2. CASE Goes(w, "rename") /\ tmp' = {job[w].copy}
  <2>1. \A v \in Workers : /\ job'[v].code = job[v].code /\ job'[v].copy = job[v].copy
                           /\ job'[v].step = IF v = w THEN "rename" ELSE job[v].step
    BY <1>0, <1>2 DEF Goes, Jobs
  <2>2. Conns \subseteq Workers /\ Console \in Workers BY DEF Workers
  <2>3. OwnFile'
    <3>1. \A v \in Workers : v # w => job[v].step # "rename" BY <1>0 DEF OneWriter, Writing
    <3> QED BY <1>2, <2>1, <3>1 DEF OwnFile
  <2>4. \A v \in Workers : Writing(v)' => Writing(v) BY <1>0, <2>1 DEF Writing
  <2>5. \A v \in Workers : job'[v].step = "enrol" <=> job[v].step = "enrol" BY <1>0, <2>1
  <2>6. \A p : Consumed(p)' => Consumed(p) BY <1>0, <2>1, <2>2, <2>5 DEF Consumed
  <2>7. OwnCode' BY <1>0, <2>1, <2>2, <2>4, <2>6 DEF PairingInv, OwnCode
  <2>8. UsedUp'
    <3>1. \A p \in Codes : \A i, j \in paired'[p] : i = j
      BY <1>0 DEF PairingInv, UsedUp
    <3>2. \A p \in Codes : Consumed(p)' => p \in (made \ codes)'
      BY <1>0, <2>6 DEF PairingInv, UsedUp
    <3>3. ASSUME NEW c \in Conns, job'[c].step = "enrol"
          PROVE  /\ paired'[job'[c].code] = {}
                 /\ \A d \in Conns : job'[d].step = "enrol" /\ job'[d].code = job'[c].code => d = c
      <4>1. job[c].step = "enrol" /\ job'[c].code = job[c].code BY <2>1, <2>2, <2>5, <3>3
      <4>2. \A d \in Conns : /\ job'[d].step = "enrol" => job[d].step = "enrol"
                             /\ job'[d].code = job[d].code
        BY <2>1, <2>2, <2>5
      <4> QED BY <1>0, <4>1, <4>2 DEF PairingInv, UsedUp
    <3> QED BY <3>1, <3>2, <3>3 DEF UsedUp
  <2> QED BY <2>3, <2>7, <2>8 DEF PairingInv
<1> QED BY <1>1, <1>2 DEF WriteTmp

\* Replacing pairing.json: what comes in is the writer's own copy.
LEMMA RenameFacts ==
  ASSUME PairingInv, NEW w \in Workers, job[w].step = "rename", Renames
  PROVE  tmp # {} /\ tmp' = {} /\ codes' = job[w].copy
<1>1. tmp = {job[w].copy} BY DEF PairingInv, OwnFile
<1>2. (CHOOSE copy \in tmp : TRUE) = job[w].copy BY <1>1
<1> QED BY <1>1, <1>2 DEF Renames

LEMMA PairingConn ==
  ASSUME SInv, InvitedInv, PairingInv, OneWriter, NEW c \in Conns,
         \/ (\E k \in Keys : Accept(c, k)) \/ \E p \in Codes \cup {NoCode} : Lookup(c, p)
         \/ Authorize(c) \/ Reply(c)
         \/ Receive(c) \/ Check(c) \/ Exec(c) \/ Ends(c)
  PROVE  PairingInv'
<1>0. /\ job \in [Workers -> Jobs] /\ c \in Workers /\ job[c] \in Jobs /\ c # Console
      /\ paired \in [Codes -> SUBSET Ids] /\ codes \subseteq Codes
      /\ NoCode \notin Codes /\ Conns \subseteq Workers /\ Console \in Workers
      /\ job[Console].step # "enrol" /\ (Writing(Console) => job[Console].code \in Codes)
  BY SessionsOK DEF SInv, TypeOK, Workers, Known, Shape, Writing
<1>1. ASSUME NEW k \in Keys, Accept(c, k) PROVE PairingInv'
  <2> DEFINE x == [Free EXCEPT !.step = "hello", !.key = k, !.id = accepts']
  <2>1. x.step = "hello" /\ job' = [job EXCEPT ![c] = x] BY <1>1 DEF Accept, Free
  <2> HIDE DEF x
  <2> QED BY <1>0, <1>1, <2>1, PairingMove DEF Accept, files, history
<1>2. ASSUME NEW p \in Codes \cup {NoCode}, Lookup(c, p) PROVE PairingInv'
  <2>1. CASE job' = [job EXCEPT ![c].step = "load", ![c].code = p]
    <3> DEFINE x == [job[c] EXCEPT !.step = "load", !.code = p]
    <3>1. x.step = "load" /\ job' = [job EXCEPT ![c] = x] BY <1>0, <2>1 DEF Jobs
    <3> HIDE DEF x
    <3> QED BY <1>0, <1>2, <3>1, PairingMove DEF Lookup, files, history
  <2> QED BY <1>0, <1>2, <2>1, PairingGo DEF Lookup, Steps, files, history
<1>3. CASE LoadCodes(c)
  <2>1. CASE Closes(c) BY <1>0, <1>3, <2>1, PairingGo DEF LoadCodes, files, history
  <2> DEFINE valid == codes \ expired
             copy == valid \ {job[c].code}
             code == IF job[c].code \in valid THEN job[c].code ELSE NoCode
  <2>2. CASE job' = [job EXCEPT ![c].step = "write", ![c].copy = copy, ![c].code = code]
    <3>1. \A d \in Workers : d # c => job'[d] = job[d] BY <1>0, <2>2
    <3>2. job'[c].step = "write" /\ job'[c].copy = copy /\ job'[c].code = code
      BY <1>0, <2>2 DEF Jobs
    <3>3. /\ copy \subseteq codes /\ code \notin copy /\ code \in codes \cup {NoCode}
          /\ job[c].step = "load" /\ UNCHANGED <<codes, tmp, made, paired>>
      BY <1>0, <1>3 DEF LoadCodes, files, history
    <3> HIDE DEF valid, copy, code
    <3>4. OwnFile' BY <3>1, <3>2, <3>3 DEF PairingInv, OwnFile
    <3>5. \A d \in Conns : job'[d].step = "enrol" => d # c /\ job'[d] = job[d]
      BY <1>0, <3>1, <3>2
    <3>6. \A p : Consumed(p)' => Consumed(p) BY <3>3, <3>5 DEF Consumed
    <3>7. OwnCode' BY <1>0, <3>1, <3>2, <3>3, <3>6 DEF PairingInv, OwnCode, Writing
    <3>8. UsedUp' BY <3>3, <3>5, <3>6 DEF PairingInv, UsedUp
    <3> QED BY <3>4, <3>7, <3>8 DEF PairingInv
  <2> QED BY <1>3, <2>1, <2>2 DEF LoadCodes
<1>4. CASE WriteTmp(c) BY <1>0, <1>4, PairingWrite
<1>5. CASE Rename(c)
  <2>1. /\ job[c].step = "rename" /\ tmp # {} /\ tmp' = {} /\ codes' = job[c].copy
        /\ UNCHANGED <<made, paired>>
    BY <1>0, <1>5, RenameFacts DEF Rename, history
  <2>2. /\ codes' \subseteq codes /\ job[c].code \notin codes'
        /\ job[c].code \in codes \cup {NoCode}
    BY <2>1 DEF PairingInv, OwnCode, Writing
  <2>3. \A v \in Workers : v # c => ~Writing(v) /\ job'[v] = job[v]
    <3>1. \A v \in Workers : v # c => ~Writing(v) BY <1>0, <2>1 DEF OneWriter, Writing
    <3> QED BY <1>0, <1>5, <3>1 DEF Rename, Goes, Closes
  <2>4. \/ job'[c].step = "free"
        \/ job'[c].step = "enrol" /\ job'[c].code = job[c].code /\ job[c].code # NoCode
    BY <1>0, <1>5, <2>1 DEF Rename, Goes, Closes, Free, Jobs
  <2>5. \A v \in Workers : ~Writing(v)' BY <1>0, <2>3, <2>4 DEF Writing
  <2>6. OwnFile' /\ OwnCode' BY <1>0, <2>5 DEF OwnFile, OwnCode, Writing
  <2>7. \A p \in Codes : Consumed(p)' => Consumed(p) \/ (p = job[c].code /\ p \in codes)
    BY <1>0, <2>1, <2>2, <2>3, <2>4 DEF Consumed
  <2>8. \A p \in Codes : Consumed(p)' => p \in (made \ codes)'
    BY <2>1, <2>2, <2>7 DEF PairingInv, UsedUp, InvitedInv
  <2>9. ASSUME NEW d \in Conns, job'[d].step = "enrol"
        PROVE  /\ paired'[job'[d].code] = {}
               /\ \A e \in Conns : job'[e].step = "enrol" /\ job'[e].code = job'[d].code => e = d
    <3>1. \A e \in Conns : e # c /\ job'[e].step = "enrol" =>
            /\ job[e].step = "enrol" /\ job'[e].code = job[e].code
            /\ job[e].code # job[c].code \/ job[c].code \notin codes
      <4>1. \A e \in Conns : job[e].step = "enrol" /\ job[e].code \in Codes => Consumed(job[e].code)
        BY DEF Consumed
      <4>2. \A e \in Conns : job[e].step = "enrol" /\ job[e].code \in Codes =>
                             job[e].code \notin codes
        BY <4>1 DEF PairingInv, UsedUp
      <4> QED BY <1>0, <2>3, <4>2
    <3>2. job'[c].step = "enrol" => job[c].code \in codes /\ job[c].code \in Codes
                                    /\ paired[job[c].code] = {}
      <4>1. job[c].code \in codes => paired[job[c].code] = {}
        BY <1>0 DEF PairingInv, UsedUp, Consumed
      <4> QED BY <1>0, <2>2, <2>4, <4>1
    <3> QED BY <1>0, <2>1, <2>3, <2>4, <2>9, <3>1, <3>2 DEF PairingInv, UsedUp
  <2>10. UsedUp' BY <2>1, <2>2, <2>8, <2>9 DEF PairingInv, UsedUp
  <2> QED BY <2>6, <2>10 DEF PairingInv
<1>6. CASE Enrol(c)
  <2> DEFINE k == job[c].key
             i == job[c].id
             code == job[c].code
             seen == [w \in DOMAIN job |->
                        IF job[w].key = k THEN [job[w] EXCEPT !.late = FALSE] ELSE job[w]]
  <2>1. DOMAIN job = Workers BY <1>0
  <2>2. /\ job[c].step = "enrol" /\ UNCHANGED <<codes, tmp, made>>
        /\ paired' = [paired EXCEPT ![code] = @ \cup {i}]
        /\ \/ job' = [seen EXCEPT ![c].step = "welcome", ![c].code = NoCode, ![c].copy = {}]
           \/ job' = [seen EXCEPT ![c] = Free]
    BY <1>6 DEF Enrol, files
  <2>3. \A w \in Workers : /\ seen[w].code = job[w].code /\ seen[w].step = job[w].step
                           /\ seen[w].copy = job[w].copy /\ seen[w] \in Jobs
    BY <1>0, <2>1 DEF Jobs
  <2>4. DOMAIN seen = Workers BY <2>1
  <2> HIDE DEF seen
  <2>5. job'[c].step \notin {"write", "rename", "enrol"}
    BY <1>0, <2>2, <2>3, <2>4 DEF Jobs, Free
  <2>6. \A w \in Workers : w # c => job'[w].step = job[w].step /\ job'[w].code = job[w].code
                                    /\ job'[w].copy = job[w].copy
    BY <2>2, <2>3, <2>4
  <2>7. \A w \in Workers : Holds(w) BY <2>5, <2>6 DEF Holds
  <2>8. /\ paired[code] = {}
        /\ \A d \in Conns : job[d].step = "enrol" /\ job[d].code = code => d = c
    BY <2>2 DEF PairingInv, UsedUp
  <2>9. \A p \in Codes : paired'[p] = IF p = code THEN {i} ELSE paired[p] BY <1>0, <2>2, <2>8
  <2>10. \A p \in Codes : Consumed(p)' => Consumed(p)
    BY <1>0, <2>2, <2>7, <2>9 DEF Consumed, Holds
  <2>11. OwnFile' BY <2>2, <2>7 DEF PairingInv, OwnFile, Holds
  <2>12. OwnCode' BY <1>0, <2>2, <2>7, <2>10 DEF PairingInv, OwnCode, Writing, Holds
  <2>13. \A d \in Conns : job'[d].step = "enrol" =>
           /\ d # c /\ job[d].step = "enrol" /\ job'[d].code = job[d].code
           /\ paired'[job[d].code] = paired[job[d].code]
    BY <1>0, <2>2, <2>5, <2>7, <2>8 DEF Holds
  <2>14. UsedUp'
    <3>1. \A p \in Codes : \A h, j \in paired'[p] : h = j
      BY <2>2, <2>9 DEF PairingInv, UsedUp
    <3>2. \A p \in Codes : Consumed(p)' => p \in (made \ codes)'
      BY <2>2, <2>10 DEF PairingInv, UsedUp
    <3>3. \A d \in Conns : job'[d].step = "enrol" => paired'[job'[d].code] = {}
      BY <2>13 DEF PairingInv, UsedUp
    <3>4. \A d, e \in Conns : job'[d].step = "enrol" /\ job'[e].step = "enrol"
                              /\ job'[e].code = job'[d].code => e = d
      BY <2>13 DEF PairingInv, UsedUp
    <3> QED BY <3>1, <3>2, <3>3, <3>4 DEF UsedUp
  <2> QED BY <2>11, <2>12, <2>14 DEF PairingInv
<1>7. CASE Reply(c)
  <2>1. CASE Closes(c) BY <1>0, <1>7, <2>1, PairingGo DEF Reply, files
  <2>2. CASE job' = [job EXCEPT ![c] = [Free EXCEPT !.step = "open", !.key = job[c].key]]
    <3>1. [Free EXCEPT !.step = "open", !.key = job[c].key].step = "open" BY DEF Free
    <3> QED BY <1>0, <1>7, <2>2, <3>1, PairingMove DEF Reply, files
  <2> QED BY <1>7, <2>1, <2>2 DEF Reply
<1>8. CASE Receive(c)
  <2>1. PICK late : job' = [job EXCEPT ![c].step = "check", ![c].late = late]
    BY <1>8 DEF Receive
  <2> DEFINE x == [job[c] EXCEPT !.step = "check", !.late = late]
  <2>2. x.step = "check" /\ job' = [job EXCEPT ![c] = x] BY <1>0, <2>1 DEF Jobs
  <2> HIDE DEF x
  <2> QED BY <1>0, <1>8, <2>2, PairingMove DEF Receive, files, history
<1>9. CASE Check(c) BY <1>0, <1>9, PairingGo DEF Check, Steps, files, history
<1>10. CASE Exec(c)
  <2>1. Answers(c) /\ UNCHANGED <<codes, tmp, made, paired>>
    BY <1>10 DEF Exec, ExecOther, RevokeDevice, files, history
  <2> DEFINE x == [job[c] EXCEPT !.step = "open", !.late = FALSE]
  <2>2. x.step = "open" /\ job' = [job EXCEPT ![c] = x] BY <1>0, <2>1 DEF Answers, Jobs
  <2> HIDE DEF x
  <2> QED BY <1>0, <2>1, <2>2, PairingMove
<1>11. CASE Ends(c)
  <2>1. Closes(c) /\ UNCHANGED <<codes, tmp, made, paired>>
    BY <1>11 DEF Ends, HandshakeEnds, IdleEnds, files, history
  <2> QED BY <1>0, <2>1, PairingGo
<1> QED BY <1>1, <1>2, <1>3, <1>4, <1>5, <1>6, <1>7, <1>8, <1>9, <1>10, <1>11 DEF Authorize

LEMMA PairingWorld ==
  ASSUME SInv, PairingInv, OneWriter, Pair \/ Expire \/ Crash \/ Boot \/ UNCHANGED vars
  PROVE  PairingInv'
<1>0. /\ job \in [Workers -> Jobs] /\ Console \notin Conns /\ Conns \subseteq Workers
      /\ Console \in Workers /\ job[Console].step # "enrol" /\ codes \subseteq Codes
  BY SessionsOK DEF SInv, TypeOK, Workers, Known, Shape
<1>1. CASE PairLoad
  <2>1. PICK p \in Codes \ made :
          /\ made' = made \cup {p}
          /\ job' = [job EXCEPT ![Console] = [Free EXCEPT
                      !.step = "write", !.code = p, !.copy = (codes \ expired) \cup {p}]]
    BY <1>1 DEF PairLoad
  <2> DEFINE x == [Free EXCEPT !.step = "write", !.code = p, !.copy = (codes \ expired) \cup {p}]
  <2>2. x.step = "write" /\ x.code = p /\ x.copy = (codes \ expired) \cup {p} BY DEF Free
  <2> HIDE DEF x
  <2>3. \A w \in Workers : job'[w] = IF w = Console THEN x ELSE job[w] BY <1>0, <2>1 DEF x
  <2>4. \A c \in Conns : job'[c] = job[c] BY <1>0, <2>3
  <2>5. UNCHANGED <<codes, tmp, paired>> BY <1>1 DEF PairLoad, files
  <2>6. OwnFile' BY <2>2, <2>3, <2>5 DEF PairingInv, OwnFile
  <2>7. \A q : Consumed(q)' => Consumed(q) BY <2>4, <2>5 DEF Consumed
  <2>8. ~Consumed(p) BY <2>1 DEF PairingInv, UsedUp
  <2>9. OwnCode'
    BY <1>0, <2>2, <2>3, <2>4, <2>5, <2>7, <2>8 DEF PairingInv, OwnCode, Writing
  <2>10. UsedUp' BY <2>1, <2>4, <2>5, <2>7 DEF PairingInv, UsedUp
  <2> QED BY <2>6, <2>9, <2>10 DEF PairingInv
<1>2. CASE WriteTmp(Console) BY <1>0, <1>2, PairingWrite
<1>3. CASE PairPrint
  <2> DEFINE code == job[Console].code
  <2>1. /\ job[Console].step = "rename" /\ tmp' = {} /\ codes' = job[Console].copy
        /\ made' = made /\ paired' = paired
    BY <1>0, <1>3, RenameFacts DEF PairPrint
  <2>2. codes' \subseteq codes \cup {code} /\ ~Consumed(code)
    BY <2>1 DEF PairingInv, OwnCode, Writing
  <2>3. \A v \in Workers : v # Console => ~Writing(v) /\ job'[v] = job[v]
    <3>1. \A v \in Workers : v # Console => ~Writing(v) BY <1>0, <2>1 DEF OneWriter, Writing
    <3> QED BY <1>0, <1>3, <3>1 DEF PairPrint, Closes
  <2>4. job'[Console].step = "free" BY <1>0, <1>3 DEF PairPrint, Closes, Free
  <2>5. \A v \in Workers : ~Writing(v)' BY <2>3, <2>4 DEF Writing
  <2>6. OwnFile' /\ OwnCode' BY <1>0, <2>5 DEF OwnFile, OwnCode, Writing
  <2>7. \A c \in Conns : job'[c] = job[c] BY <1>0, <2>3
  <2>8. \A p \in Codes : Consumed(p)' => Consumed(p) BY <2>1, <2>7 DEF Consumed
  <2>9. \A p \in Codes : Consumed(p)' => p \in (made \ codes)'
    BY <2>1, <2>2, <2>8 DEF PairingInv, UsedUp
  <2>10. UsedUp' BY <2>1, <2>2, <2>7, <2>9 DEF PairingInv, UsedUp
  <2> QED BY <2>6, <2>10 DEF PairingInv
<1>4. CASE Expire BY <1>4, PairingKept DEF Expire, Holds, files, history
<1>5. CASE Crash
  <2>1. \A w \in Workers : job'[w] = job[w] \/ job'[w].step = "free"
    BY <1>0, <1>5 DEF Crash, Free
  <2>2. \A w \in Workers : Holds(w) BY <2>1 DEF Holds
  <2> QED BY <1>5, <2>2, PairingKept DEF Crash, files, history
<1>6. CASE Boot BY <1>6, PairingKept DEF Boot, Holds, files, history
<1>7. CASE UNCHANGED vars BY <1>7, PairingKept DEF vars, Holds, files, history
<1> QED BY <1>1, <1>2, <1>3, <1>4, <1>5, <1>6, <1>7 DEF Pair

\* SingleUse, the promise of the documentation that a code enrols one device at most,
\* holds as long as no two writers of pairing.json overlap, through failing saves,
\* crashes between the two steps of a save, expiry and any number of clients that
\* present the same code.  The run on SingleUse shows that it fails when they do overlap,
\* so a lock around load and save (pairing::create, pairing::consume) would do.
THEOREM OneWriterSingleUse == Spec /\ []OneWriter => []SingleUse
<1>1. Init => PairingInv
  <2> SUFFICES ASSUME Init PROVE PairingInv OBVIOUS
  <2>1. \A w \in Workers : job[w].step = "free" BY DEF Init, Workers, Free
  <2>2. Conns \subseteq Workers /\ Console \in Workers BY DEF Workers
  <2>3. codes = {} /\ \A p \in Codes : paired[p] = {} BY DEF Init
  <2>4. OwnFile BY <2>1 DEF OwnFile
  <2>5. OwnCode BY <2>1, <2>2 DEF OwnCode, Writing
  <2>6. UsedUp BY <2>1, <2>2, <2>3 DEF UsedUp, Consumed
  <2> QED BY <2>4, <2>5, <2>6 DEF PairingInv
<1>2. SInv /\ InvitedInv /\ PairingInv /\ OneWriter /\ [Next]_vars => PairingInv'
  BY PairingConn, PairingWorld DEF Next
<1>3. PairingInv => SingleUse
  <2> SUFFICES ASSUME PairingInv, NEW p \in Codes PROVE Cardinality(paired[p]) <= 1
    BY DEF SingleUse
  <2>1. \A i, j \in paired[p] : i = j BY DEF PairingInv, UsedUp
  <2>2. CASE paired[p] = {} BY <2>2, FS_EmptySet
  <2>3. CASE paired[p] # {}
    <3>1. PICK i : paired[p] = {i} BY <2>1, <2>3
    <3>2. Cardinality({i}) = 1 BY FS_Singleton
    <3> QED BY <3>1, <3>2
  <2> QED BY <2>2, <2>3
<1> QED BY <1>1, <1>2, <1>3, SInvHolds, InvitedHolds, PTL DEF Spec
==============================================================================
