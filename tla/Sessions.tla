------------------------------ MODULE Sessions -------------------------------
(***************************************************************************)
(* Connections of clients to the agent: handshake, pairing with a one-time *)
(* code, requests, revocation of devices.  Connections run on a pool of    *)
(* threads; the store mutex covers the list of devices and its save, but   *)
(* nothing covers pairing.json, which the connections and the console      *)
(* command `pair` load, change and write back alike, all of them through   *)
(* one temporary file.                                                     *)
(*                                                                         *)
(* A device is its key; each enrolment of a key has an identifier of its   *)
(* own.  The store keeps at most one device per key (Store::add_device),   *)
(* so a map from keys is exact.                                            *)
(***************************************************************************)
EXTENDS Naturals, FiniteSets

CONSTANTS
  Conns,        \* permits: the connections that can be open at the same time
  Console,      \* the console command `pair`
  Keys,         \* keys clients identify themselves with
  NoKey,        \* nobody is connected
  Codes,        \* pairing codes
  NoCode,       \* a client that presents no code
  Share,        \* connections one device may have open
  MaxAccepts,   \* bound: connections accepted
  MaxRequests,  \* bound: requests received
  MaxFaults     \* bound: saves that fail, crashes

ASSUME SessionsOK ==
  /\ Console \notin Conns /\ NoKey \notin Keys /\ NoCode \notin Codes
  /\ Share \in Nat \ {0}
  /\ MaxAccepts \in Nat /\ MaxRequests \in Nat /\ MaxFaults \in Nat
ASSUME FinitePermits == IsFiniteSet(Conns)

VARIABLES
  up,        \* the service process runs
  mem,       \* mem[k]: identifier of the device with key k in the store, or 0
  disk,      \* the same in state.json
  codes,     \* codes in pairing.json
  tmp,       \* pairing.json.tmp: {} or {its contents}
  job,       \* connections, and the console command
  online,    \* counter of open connections per key
  accepts,   \* connections accepted; a device is named after the one it came with
  requests,  \* requests received
  faults,    \* faults so far
  expired,   \* codes whose ten minutes are over
  made,      \* history: codes the console made
  paired,    \* history: identifiers enrolled with each code
  told,      \* history: keys told "paired" and not removed since
  revoked    \* history: identifiers whose revocation was answered "ok"

devices == <<mem, disk>>
files == <<codes, tmp>>
history == <<made, paired, told, revoked>>
vars == <<up, devices, files, accepts, job, online, requests, faults, expired, history>>

Ids == 0..MaxAccepts
Steps == {"free", "hello", "load", "write", "rename", "enrol", "welcome", "reply",
          "open", "check", "exec"}
Jobs == [step : Steps, key : Keys \cup {NoKey}, code : Codes \cup {NoCode},
         copy : SUBSET Codes,  \* its copy of pairing.json
         id : Ids,             \* of the device it would enrol
         late : BOOLEAN]       \* history: the request arrived with the device gone
Free == [step |-> "free", key |-> NoKey, code |-> NoCode,
         copy |-> {}, id |-> 0, late |-> FALSE]

Pay(n) == faults + n <= MaxFaults /\ faults' = faults + n
Goes(w, step) == job' = [job EXCEPT ![w].step = step]

Counted == {"open", "check", "exec"}

\* Mutant: the place among the device's connections is kept.
ClosesKeeping(c) == job' = [job EXCEPT ![c] = Free] /\ online' = online

\* The permit goes back, and with it the place among the device's connections.
Closes(c) ==
  /\ job' = [job EXCEPT ![c] = Free]
  /\ online' = IF job[c].step \in Counted
               THEN [online EXCEPT ![job[c].key] = @ - 1] ELSE online

-----------------------------------------------------------------------------
\* authorize

\* A connection is accepted while a permit is free.
Accept(c, k) ==
  /\ up /\ job[c].step = "free"
  /\ accepts < MaxAccepts /\ accepts' = accepts + 1
  /\ job' = [job EXCEPT ![c] = [Free EXCEPT !.step = "hello", !.key = k, !.id = accepts']]
  /\ UNCHANGED <<up, devices, files, online, requests, faults, expired, history>>

\* A known key is let in; a failing save of its last visit is ignored.  Another
\* client presents what it likes: no code, one it was given or one it guesses,
\* be it made already or not.
Lookup(c, code) ==
  /\ job[c].step = "hello"
  /\ IF mem[job[c].key] # 0
     THEN /\ Goes(c, "reply") /\ online' = online
          /\ (disk' = mem /\ Pay(0)) \/ (disk' = disk /\ Pay(1))
     ELSE /\ disk' = disk /\ Pay(0)
          /\ IF code = NoCode THEN Closes(c)
             ELSE /\ job' = [job EXCEPT ![c].step = "load", ![c].code = code]
                  /\ online' = online
  /\ UNCHANGED <<up, mem, files, accepts, requests, expired, history>>

\* Mutant: a code is not looked up in pairing.json.
LoadCodesAny(c) ==
  /\ job[c].step = "load"
  /\ job' = [job EXCEPT ![c].step = "write", ![c].copy = (codes \ expired) \ {job[c].code}]
  /\ UNCHANGED <<up, devices, files, accepts, online, requests, faults, expired, history>>

\* consume reads pairing.json; expired codes are dropped on the way.
LoadCodes(c) ==
  /\ job[c].step = "load"
  /\ LET valid == codes \ expired
         hit == job[c].code \in valid
     IN IF hit \/ valid # codes
        THEN /\ job' = [job EXCEPT ![c].step = "write", ![c].copy = valid \ {job[c].code},
                                   ![c].code = IF hit THEN @ ELSE NoCode]
             /\ online' = online
        ELSE Closes(c)
  /\ UNCHANGED <<up, devices, files, accepts, requests, faults, expired, history>>

\* Saving pairing.json: write the temporary file, rename it.  Renaming fails
\* when another writer has just renamed the file they share.
WriteTmp(w) ==
  /\ job[w].step = "write"
  /\ \/ tmp' = {job[w].copy} /\ Pay(0) /\ Goes(w, "rename") /\ online' = online
     \/ tmp' = tmp /\ Pay(1) /\ Closes(w)
  /\ UNCHANGED <<up, devices, codes, accepts, requests, expired, history>>

Renames == tmp' = {} /\ codes' = IF tmp = {} THEN codes ELSE CHOOSE copy \in tmp : TRUE

\* Of the connections only one whose code was there goes on to enrol.
Rename(c) ==
  /\ c # Console /\ job[c].step = "rename"
  /\ Renames
  /\ IF tmp # {} /\ job[c].code # NoCode
     THEN Goes(c, "enrol") /\ online' = online ELSE Closes(c)
  /\ UNCHANGED <<up, devices, accepts, requests, faults, expired, history>>

\* Mutant: the client is welcomed without waiting for the save.
EnrolUnsaved(c) ==
  /\ job[c].step = "enrol"
  /\ mem' = [mem EXCEPT ![job[c].key] = job[c].id] /\ disk' = disk
  /\ paired' = [paired EXCEPT ![job[c].code] = @ \cup {job[c].id}]
  /\ job' = [w \in DOMAIN job |-> IF job[w].key = job[c].key THEN [job[w] EXCEPT !.late = FALSE,
                !.step = IF w = c THEN "welcome" ELSE @] ELSE job[w]]
  /\ UNCHANGED <<up, files, accepts, online, requests, faults, expired,
                 made, told, revoked>>

\* The device is added, replacing one with the same key; without a save the
\* client is turned away.
Enrol(c) ==
  /\ job[c].step = "enrol"
  /\ mem' = [mem EXCEPT ![job[c].key] = job[c].id]
  /\ paired' = [paired EXCEPT ![job[c].code] = @ \cup {job[c].id}]
  /\ LET seen == [w \in DOMAIN job |->
                    IF job[w].key = job[c].key THEN [job[w] EXCEPT !.late = FALSE] ELSE job[w]]
     IN \/ /\ disk' = mem' /\ Pay(0)
           /\ job' = [seen EXCEPT ![c].step = "welcome", ![c].code = NoCode, ![c].copy = {}]
        \/ /\ disk' = disk /\ Pay(1)
           /\ job' = [seen EXCEPT ![c] = Free]
  /\ UNCHANGED <<up, files, accepts, online, requests, expired, made, told, revoked>>

\* Mutant: one connection too many is let in.
ReplyOver(c) ==
  /\ job[c].step \in {"welcome", "reply"}
  /\ IF online[job[c].key] <= Share
     THEN /\ job' = [job EXCEPT ![c] = [Free EXCEPT !.step = "open", !.key = job[c].key]]
          /\ online' = [online EXCEPT ![job[c].key] = @ + 1]
     ELSE Closes(c)
  /\ told' = IF job[c].step = "welcome" /\ mem[job[c].key] = job[c].id
             THEN told \cup {job[c].key} ELSE told
  /\ UNCHANGED <<up, devices, files, accepts, requests, faults, expired,
                 made, paired, revoked>>

\* The reply is sent; the device may have too many connections open already.
Reply(c) ==
  /\ job[c].step \in {"welcome", "reply"}
  /\ IF online[job[c].key] < Share
     THEN /\ job' = [job EXCEPT ![c] = [Free EXCEPT !.step = "open", !.key = job[c].key]]
          /\ online' = [online EXCEPT ![job[c].key] = @ + 1]
     ELSE Closes(c)
  /\ told' = IF job[c].step = "welcome" /\ mem[job[c].key] = job[c].id
             THEN told \cup {job[c].key} ELSE told
  /\ UNCHANGED <<up, devices, files, accepts, requests, faults, expired,
                 made, paired, revoked>>

\* Mutant: the time limit covers the handshake after the first message only.
HandshakeEndsLate(c) ==
  /\ job[c].step \in {"welcome", "reply"} /\ Closes(c)
  /\ UNCHANGED <<up, devices, files, accepts, requests, faults, expired, history>>

\* The handshake takes too long or the client goes away: authorize itself is
\* never interrupted.
HandshakeEnds(c) ==
  /\ job[c].step \in {"hello", "welcome", "reply"} /\ Closes(c)
  /\ UNCHANGED <<up, devices, files, accepts, requests, faults, expired, history>>

-----------------------------------------------------------------------------
\* Requests

Receive(c) ==
  /\ job[c].step = "open" /\ requests < MaxRequests /\ requests' = requests + 1
  /\ job' = [job EXCEPT ![c].step = "check", ![c].late = mem[job[c].key] = 0]
  /\ UNCHANGED <<up, devices, files, accepts, online, faults, expired, history>>

\* Mutant: the handshake is proof enough.
CheckNothing(c) ==
  /\ job[c].step = "check" /\ Goes(c, "exec") /\ online' = online
  /\ UNCHANGED <<up, devices, files, accepts, requests, faults, expired, history>>

\* Before each request the device is looked up again.
Check(c) ==
  /\ job[c].step = "check"
  /\ IF mem[job[c].key] # 0 THEN Goes(c, "exec") /\ online' = online ELSE Closes(c)
  /\ UNCHANGED <<up, devices, files, accepts, requests, faults, expired, history>>

Answers(c) == job' = [job EXCEPT ![c].step = "open", ![c].late = FALSE]

\* A request that leaves the devices alone, and may save the store.
ExecOther(c) ==
  /\ job[c].step = "exec" /\ Answers(c)
  /\ disk' \in {disk, mem}
  /\ UNCHANGED <<up, mem, files, accepts, online, requests, faults, expired, history>>

\* Mutant: revoking is not saved.
RevokeUnsaved(c, k) ==
  /\ job[c].step = "exec" /\ mem[k] # 0 /\ Answers(c)
  /\ mem' = [mem EXCEPT ![k] = 0] /\ disk' = disk
  /\ told' = told \ {k} /\ revoked' = revoked \cup {mem[k]}
  /\ UNCHANGED <<up, files, accepts, online, requests, faults, expired, made, paired>>

\* revoke_device; an identifier that is not there changes nothing.
RevokeDevice(c, k) ==
  /\ job[c].step = "exec" /\ mem[k] # 0 /\ Answers(c)
  /\ mem' = [mem EXCEPT ![k] = 0]
  /\ told' = told \ {k}
  /\ \/ disk' = mem' /\ revoked' = revoked \cup {mem[k]} /\ Pay(0)
     \/ disk' = disk /\ revoked' = revoked /\ Pay(1)
  /\ UNCHANGED <<up, files, accepts, online, requests, expired, made, paired>>

\* The client is idle for too long, or goes away.
IdleEnds(c) ==
  /\ job[c].step = "open" /\ Closes(c)
  /\ UNCHANGED <<up, devices, files, accepts, requests, faults, expired, history>>

-----------------------------------------------------------------------------
\* The console command `pair`: load, drop expired codes, add a new one, save,
\* print it.

PairLoad ==
  /\ job[Console].step = "free"
  /\ \E p \in Codes \ made :
       /\ made' = made \cup {p}
       /\ job' = [job EXCEPT ![Console] = [Free EXCEPT
                   !.step = "write", !.code = p, !.copy = (codes \ expired) \cup {p}]]
  /\ UNCHANGED <<up, devices, files, accepts, online, requests, faults, expired,
                 paired, told, revoked>>

\* A code that is not printed may be valid all the same: when a connection has
\* renamed the temporary file, the command fails after its code got into place.
PairPrint ==
  /\ job[Console].step = "rename"
  /\ Renames
  /\ Closes(Console)
  /\ UNCHANGED <<up, devices, accepts, requests, faults, expired, made, paired, told, revoked>>

-----------------------------------------------------------------------------
\* The world

Expire ==
  /\ \E p \in made \ expired : expired' = expired \cup {p}
  /\ UNCHANGED <<up, devices, files, accepts, job, online, requests, faults, history>>

Crash ==
  /\ up /\ up' = FALSE /\ Pay(1)
  /\ job' = [w \in DOMAIN job |-> IF w = Console THEN job[w] ELSE Free]
  /\ online' = [k \in Keys |-> 0]
  /\ UNCHANGED <<devices, files, accepts, requests, expired, history>>

Boot ==
  /\ ~up /\ up' = TRUE /\ mem' = disk
  /\ UNCHANGED <<disk, files, accepts, job, online, requests, faults, expired, history>>

Init ==
  /\ up = TRUE /\ mem = [k \in Keys |-> 0] /\ disk = mem /\ accepts = 0
  /\ codes = {} /\ tmp = {}
  /\ job = [w \in Conns \cup {Console} |-> Free] /\ online = [k \in Keys |-> 0]
  /\ requests = 0 /\ faults = 0 /\ expired = {}
  /\ made = {} /\ paired = [p \in Codes |-> {}] /\ told = {} /\ revoked = {}

Authorize(c) == LoadCodes(c) \/ WriteTmp(c) \/ Rename(c) \/ Enrol(c)
Exec(c) == ExecOther(c) \/ \E k \in Keys : RevokeDevice(c, k)
Ends(c) == HandshakeEnds(c) \/ IdleEnds(c)
Pair == PairLoad \/ WriteTmp(Console) \/ PairPrint

Next ==
  \/ \E c \in Conns :
       \/ (\E k \in Keys : Accept(c, k)) \/ \E p \in Codes \cup {NoCode} : Lookup(c, p)
       \/ Authorize(c) \/ Reply(c)
       \/ Receive(c) \/ Check(c) \/ Exec(c) \/ Ends(c)
  \/ Pair \/ Expire \/ Crash \/ Boot

Spec == Init /\ [][Next]_vars

\* Tasks are scheduled, timeouts fire, systemd restarts the service.  Clients owe
\* neither the first message of a handshake nor a request, but they read replies:
\* one that is not read is waited for without limit (api/mod.rs:229; NoiseFraming).
Fairness ==
  /\ \A c \in Conns : WF_vars(Authorize(c)) /\ WF_vars(Check(c) \/ Exec(c)) /\ WF_vars(Ends(c))
  /\ WF_vars(Boot)
FairSpec == Spec /\ Fairness

-----------------------------------------------------------------------------
\* Properties

TypeOK ==
  /\ up \in BOOLEAN /\ mem \in [Keys -> Ids] /\ disk \in [Keys -> Ids] /\ accepts \in Ids
  /\ codes \subseteq Codes /\ tmp \in SUBSET SUBSET Codes
  /\ job \in [Conns \cup {Console} -> Jobs] /\ online \in [Keys -> 0..Share]
  /\ requests \in 0..MaxRequests /\ faults \in 0..MaxFaults /\ expired \subseteq Codes
  /\ made \subseteq Codes /\ paired \in [Codes -> SUBSET Ids]
  /\ told \subseteq Keys /\ revoked \subseteq Ids

\* A client that was told "paired" is known after every restart, whatever other
\* connections save or fail to save, until a client removes it.
WelcomeLasts == \A k \in told : disk[k] # 0 /\ (up => mem[k] # 0)

\* Every device in the store was enrolled with a code that the console made,
\* whatever clients guess and whoever replaces pairing.json.
Invited == \A k \in Keys : \A i \in {mem[k], disk[k]} \ {0} : \E p \in made : i \in paired[p]

\* The store has all devices that were welcomed, and only invited ones, through
\* all the service saves.
PairingHolds == WelcomeLasts /\ Invited

\* A device whose removal was answered "ok" does not come back with a save of the
\* service that started earlier, a restart or a crash.
RevokedStaysOut == \A k \in Keys : {mem[k], disk[k]} \cap revoked = {}

\* Removing a device reaches its open connections: a request that arrives after
\* the removal is not executed.
NoLateRequest == \A c \in Conns : job[c].step = "exec" => ~job[c].late

\* A removal answered "ok" holds on disk, in memory and on connections, through
\* all the service saves.
RevocationHolds == RevokedStaysOut /\ NoLateRequest

\* The counter of a device is the number of its open connections, however they
\* end, so no device is shut out or holds more than its share.
CountsExact ==
  \A k \in Keys :
    LET n == Cardinality({c \in Conns : job[c].step \in Counted /\ job[c].key = k})
    IN online[k] = n /\ n <= Share

\* Permits come back: whatever clients that read their replies do or leave undone,
\* there is again and again a permit for a new connection.
PermitsComeBack == []<>(\E c \in Conns : job[c].step = "free")

\* "single use": a code enrols one device at most.
SingleUse == \A p \in Codes : Cardinality(paired[p]) <= 1
=============================================================================
