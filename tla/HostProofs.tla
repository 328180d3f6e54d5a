------------------------------ MODULE HostProofs ------------------------------
(***************************************************************************)
(* Proofs about what the agent shares with other processes of the host,    *)
(* for any number of requests, processes and removals: sshd's files        *)
(* (SshdAuth), the agent's own secrets (Secrets), dnat's rules (DnatConf)  *)
(* and the kernel's sets as nft lists them (KernelListing).                *)
(***************************************************************************)
EXTENDS MCHost, WellFoundedInduction, TLAPS

(***************************************************************************)
(* Password logins.  A request leaves sshd's configuration torn between    *)
(* its writes and its reload; what it knows of the files it writes, as     *)
(* long as it is alone with them, carries what was last acknowledged       *)
(* across that.                                                            *)
(***************************************************************************)

\* A request that may have changed a file and has not had sshd load it since.
Dirty == {"unlink", "check", "reload", "undo", "again"}
Wrote == Dirty \cup {"probe"}

\* Without an overlap there is at most one request.
Alone == ~mixed => \A c, d \in Calls : call[c].step # "idle" /\ call[d].step # "idle" => c = d

\* Files that nobody is at work on have been loaded, unless a rollback failed; so
\* have those of a request that is alone and has seen its reload succeed.
Loaded ==
  (~torn \/ (~mixed /\ \E c \in Calls : call[c].step = "probe"))
  /\ (\A c \in Calls : call[c].step \notin Dirty)
  /\ owner # "broken"
  => running = Effective(block, dropin)

\* What a request that is alone knows of the files.
Knows ==
  ~mixed => \A c \in Calls :
    /\ call[c].step \in Wrote \ {"undo", "again"} => block = call[c].want
    /\ call[c].step \in Wrote \cup {"write"} =>
         /\ call[c].was = Effective(call[c].prev, call[c].had)
         /\ call[c].had = "none" => dropin = "none"
    /\ call[c].step = "write" => block = call[c].prev
    /\ call[c].step = "again" /\ ~call[c].lost => block = call[c].prev

\* The value last acknowledged is in the main file, or a request that is alone
\* remembers it for its rollback.
Remembered ==
  acked # "none" =>
    /\ ~mixed /\ owner # "broken"
    /\ ~torn =>
         /\ (\A c \in Calls : call[c].step \in {"idle", "read", "write", "again"})
            => block = acked
         /\ \A c \in Calls : call[c].step \in Wrote \cup {"write"} => call[c].prev = acked

SshdInv == TypeOK /\ Alone /\ Loaded /\ Knows /\ Remembered

-----------------------------------------------------------------------------
\* Files mean one of the values.
LEMMA EffectiveType ==
  ASSUME owner \in Owners, NEW b \in Values \cup {"none"}, NEW d \in Values \cup {"none"}
  PROVE  /\ Effective(b, d) \in Values \cup {"broken"}
         /\ Effective(b, d) = "broken" <=> owner = "broken"
         /\ owner # "broken" /\ b # "none" => Effective(b, d) = b
         /\ owner # "broken" => Effective(b, d) \in Values
BY SshdOK DEF Effective, Values

\* Every step keeps the types.
LEMMA SshdTypes == TypeOK /\ [Next]_vars => TypeOK'
<1> SUFFICES ASSUME TypeOK, [Next]_vars PROVE TypeOK'
  OBVIOUS
<1> USE SshdOK DEF TypeOK
<1>e. Effective(block, dropin) \in Values \cup {"broken"}
  BY EffectiveType
<1>l. SshdLoads => running' \in Values \cup {"down"}
  BY <1>e DEF SshdLoads, Values
<1>n. None \in Requests BY DEF None, Requests, Values
<1>g. ASSUME NEW c \in Calls, NEW s \in {"idle", "read", "write", "unlink", "check", "reload",
             "probe", "undo", "again"}, Goes(c, s)
      PROVE call' \in [Calls -> Requests]
  BY <1>g DEF Goes, Requests
<1>d. ASSUME NEW c \in Calls, Ends(c) PROVE call' \in [Calls -> Requests]
  BY <1>d, <1>n DEF Ends
<1>p. ASSUME NEW n \in Nat, Pay(n) PROVE faults' \in 0..MaxFaults
  BY <1>p DEF Pay
<1>1. ASSUME NEW c \in Calls, NEW v \in Values, Ask(c, v) PROVE TypeOK'
  <2>1. [None EXCEPT !.step = "read", !.want = v] \in Requests
    BY DEF None, Requests, Values
  <2> QED BY <1>1, <2>1 DEF Ask, files
<1>2. ASSUME NEW c \in Calls, Read(c) PROVE TypeOK'
  <2>1. [call[c] EXCEPT !.step = "write", !.prev = block, !.was = Effective(block, dropin),
                        !.had = dropin] \in Requests
    BY <1>e DEF Requests
  <2>2. call' = [call EXCEPT ![c] = [call[c] EXCEPT !.step = "write", !.prev = block,
                        !.was = Effective(block, dropin), !.had = dropin]]
    BY <1>2 DEF Read
  <2> QED BY <1>2, <2>1, <2>2 DEF Read, files, history
<1>3. ASSUME NEW c \in Calls, Write(c) PROVE TypeOK'
  <2>1. call[c].want \in Values BY DEF Requests
  <2> QED BY <1>3, <1>g, <1>d, <1>p, <2>1 DEF Write, history
<1>4. ASSUME NEW c \in Calls, Unlink(c) PROVE TypeOK'
  BY <1>4, <1>g, <1>p DEF Unlink, history
<1>5. ASSUME NEW c \in Calls, Check(c) PROVE TypeOK'
  BY <1>5, <1>g, <1>p DEF Check, history, files
<1>6. ASSUME NEW c \in Calls, Reload(c) PROVE TypeOK'
  BY <1>6, <1>g, <1>p, <1>l DEF Reload, history, files
<1>7. ASSUME NEW c \in Calls, Probe(c) PROVE TypeOK'
  <2>1. call[c].want \in Values BY DEF Requests
  <2> QED BY <1>7, <1>g, <1>p, <1>d, <2>1 DEF Probe, history, files
<1>8. ASSUME NEW c \in Calls, Undo(c) PROVE TypeOK'
  <2>1. call[c].prev \in Values \cup {"none"} BY DEF Requests
  <2>2. call' \in [Calls -> Requests] BY <1>8, <1>g DEF Undo, Requests
  <2> QED BY <1>8, <1>p, <2>1, <2>2 DEF Undo
<1>9. ASSUME NEW c \in Calls, Again(c) PROVE TypeOK'
  BY <1>9, <1>d, <1>p, <1>l DEF Again, files
<1>10. CASE UNCHANGED vars BY <1>10 DEF vars, files, history
<1> QED BY <1>1, <1>2, <1>3, <1>4, <1>5, <1>6, <1>7, <1>8, <1>9, <1>10 DEF Next

\* Every step keeps the invariant.
LEMMA SshdStep == SshdInv /\ [Next]_vars => SshdInv'
<1> SUFFICES ASSUME SshdInv, [Next]_vars PROVE SshdInv'
  OBVIOUS
<1>t. TypeOK /\ TypeOK' BY SshdTypes DEF SshdInv
<1>o. owner' = owner
  BY DEF Next, vars, files, history, Ask, Read, Write, Unlink, Check, Reload, Probe, Undo, Again
<1> USE DEF Dirty, Wrote
<1>1. ASSUME NEW c \in Calls, NEW v \in Values, Ask(c, v) PROVE SshdInv'
  <2>1. /\ call[c].step = "idle" /\ call'[c].step = "read"
        /\ \A d \in Calls \ {c} : call'[d] = call[d]
    BY <1>1, <1>t DEF Ask, TypeOK, None
  <2>2. UNCHANGED <<files, running, torn>> BY <1>1 DEF Ask
  <2> QED BY <1>1, <1>t, <2>1, <2>2
      DEF SshdInv, Ask, Alone, Loaded, Knows, Remembered, files, Effective
<1>2. ASSUME NEW c \in Calls, Read(c) PROVE SshdInv'
  <2>1. /\ call[c].step = "read" /\ call'[c].step = "write" /\ call'[c].prev = block
        /\ call'[c].had = dropin /\ call'[c].was = Effective(block, dropin)
        /\ \A d \in Calls \ {c} : call'[d] = call[d]
    BY <1>2, <1>t DEF Read, TypeOK, Requests
  <2>2. UNCHANGED <<files, running, history>> BY <1>2 DEF Read
  <2> QED BY <1>2, <1>t, <2>1, <2>2
      DEF SshdInv, Alone, Loaded, Knows, Remembered, files, history, Effective
<1>3. ASSUME NEW c \in Calls, Write(c) PROVE SshdInv'
  <2>0. call[c].step = "write" /\ UNCHANGED <<owner, dropin, running, history>>
    BY <1>3 DEF Write
  <2>1. CASE block' = call[c].want /\ Goes(c, "unlink")
    <3>1. /\ call'[c].step = "unlink" /\ call'[c].prev = call[c].prev
               /\ call'[c].want = call[c].want
          /\ call'[c].had = call[c].had /\ call'[c].was = call[c].was
          /\ \A d \in Calls \ {c} : call'[d] = call[d]
      BY <2>1, <1>t DEF Goes, TypeOK, Requests
    <3> QED BY <1>t, <2>0, <2>1, <3>1
        DEF SshdInv, Alone, Loaded, Knows, Remembered, history, Effective
  <2>2. CASE block' = block /\ Ends(c)
    <3>1. call'[c].step = "idle" /\ \A d \in Calls \ {c} : call'[d] = call[d]
      BY <2>2, <1>t DEF Ends, TypeOK, None
    <3> QED BY <1>t, <2>0, <2>2, <3>1
        DEF SshdInv, Alone, Loaded, Knows, Remembered, history, Effective
  <2> QED BY <1>3, <2>1, <2>2 DEF Write
<1>4. ASSUME NEW c \in Calls, Unlink(c) PROVE SshdInv'
  <2>1. /\ call[c].step = "unlink" /\ call'[c].step = "check" /\ call'[c].prev = call[c].prev
        /\ call'[c].want = call[c].want /\ call'[c].had = call[c].had /\ call'[c].was = call[c].was
        /\ \A d \in Calls \ {c} : call'[d] = call[d]
    BY <1>4, <1>t DEF Unlink, Goes, TypeOK, Requests
  <2>2. UNCHANGED <<owner, block, running, history>> /\ dropin' \in {"none", dropin}
    BY <1>4 DEF Unlink
  <2> QED BY <1>t, <2>1, <2>2
        DEF SshdInv, Alone, Loaded, Knows, Remembered, history, Effective
<1>5. ASSUME NEW c \in Calls, Check(c) PROVE SshdInv'
  <2>1. /\ call[c].step = "check" /\ call'[c].step \in {"reload", "undo"}
        /\ call'[c].prev = call[c].prev
        /\ call'[c].want = call[c].want /\ call'[c].had = call[c].had /\ call'[c].was = call[c].was
        /\ \A d \in Calls \ {c} : call'[d] = call[d]
    BY <1>5, <1>t DEF Check, Goes, TypeOK, Requests
  <2>2. UNCHANGED <<files, running, history>>
    BY <1>5 DEF Check
  <2> QED BY <1>t, <2>1, <2>2
        DEF SshdInv, Alone, Loaded, Knows, Remembered, history, files, Effective
<1>6. ASSUME NEW c \in Calls, Reload(c) PROVE SshdInv'
  <2>1. /\ call[c].step = "reload" /\ call'[c].step \in {"probe", "undo"}
        /\ call'[c].step = "probe" => SshdLoads
        /\ call'[c].prev = call[c].prev
        /\ call'[c].want = call[c].want /\ call'[c].had = call[c].had /\ call'[c].was = call[c].was
        /\ \A d \in Calls \ {c} : call'[d] = call[d]
    BY <1>6, <1>t DEF Reload, Goes, TypeOK, Requests
  <2>2. UNCHANGED <<files, history>>
    BY <1>6 DEF Reload
  <2>3. SshdLoads /\ owner # "broken" => running' = Effective(block, dropin)
    BY <1>t, EffectiveType DEF SshdLoads, TypeOK
  <2> QED BY <1>t, <2>1, <2>2, <2>3
        DEF SshdInv, Alone, Loaded, Knows, Remembered, history, files, Effective
<1>7. ASSUME NEW c \in Calls, Probe(c) PROVE SshdInv'
  <2>0. call[c].step = "probe" /\ UNCHANGED <<files, running>>
    BY <1>7 DEF Probe
  <2>1. CASE /\ Effective(block, dropin) = call[c].want /\ Ends(c)
             /\ acked' = (IF mixed THEN "none" ELSE call[c].want)
             /\ torn' = (mixed /\ torn) /\ mixed' = mixed
    <3>1. call'[c].step = "idle" /\ \A d \in Calls \ {c} : call'[d] = call[d]
      BY <2>1, <1>t DEF Ends, TypeOK, None
    <3>2. owner # "broken" /\ Effective(block, dropin)' = Effective(block, dropin)
      <4>1. call[c].want \in Values BY <1>t DEF TypeOK, Requests
      <4> QED BY <1>t, <2>0, <2>1, <4>1, EffectiveType DEF TypeOK, Values, files, Effective
    <3>3. Alone' /\ Knows'
      BY <1>t, <2>0, <2>1, <3>1 DEF SshdInv, Alone, Knows, files, Effective
    <3>4. Loaded'
      BY <1>t, <2>0, <2>1, <3>1, <3>2 DEF SshdInv, Alone, Loaded, files
    <3>5. Remembered'
      BY <1>t, <2>0, <2>1, <3>1, <3>2 DEF SshdInv, Alone, Knows, Remembered, files
    <3> QED BY <1>t, <3>3, <3>4, <3>5 DEF SshdInv
  <2>2. CASE Goes(c, "undo") /\ UNCHANGED history
    <3>1. /\ call'[c].step = "undo" /\ call'[c].prev = call[c].prev /\ call'[c].want = call[c].want
          /\ call'[c].had = call[c].had /\ call'[c].was = call[c].was
          /\ \A d \in Calls \ {c} : call'[d] = call[d]
      BY <2>2, <1>t DEF Goes, TypeOK, Requests
    <3> QED BY <1>t, <2>0, <2>2, <3>1
        DEF SshdInv, Alone, Loaded, Knows, Remembered, history, files, Effective
  <2> QED BY <1>7, <2>1, <2>2 DEF Probe
<1>8. ASSUME NEW c \in Calls, Undo(c) PROVE SshdInv'
  <2>1. /\ call[c].step = "undo" /\ call'[c].step = "again" /\ call'[c].prev = call[c].prev
        /\ call'[c].had = call[c].had /\ call'[c].was = call[c].was
        /\ \A d \in Calls \ {c} : call'[d] = call[d]
        /\ \/ block' = call[c].prev /\ torn' = torn
           \/ block' = block /\ torn' = TRUE /\ call'[c].lost
    <3>1. call \in [Calls -> Requests] BY <1>t DEF TypeOK
    <3>2. CASE block' = call[c].prev /\ torn' = torn /\ Goes(c, "again")
      BY <1>8, <3>1, <3>2 DEF Undo, Goes, Requests
    <3>3. CASE /\ block' = block /\ torn' = TRUE
               /\ call' = [call EXCEPT ![c].step = "again", ![c].lost = TRUE]
      BY <1>8, <3>1, <3>3 DEF Undo, Requests
    <3> QED BY <1>8, <3>2, <3>3 DEF Undo
  <2>2. UNCHANGED <<owner, dropin, running, mixed, acked>> BY <1>8 DEF Undo
  <2> QED BY <1>t, <2>1, <2>2
        DEF SshdInv, Alone, Loaded, Knows, Remembered, Effective
<1>9. ASSUME NEW c \in Calls, Again(c) PROVE SshdInv'
  <2>1. /\ call[c].step = "again" /\ call'[c].step = "idle"
        /\ \A d \in Calls \ {c} : call'[d] = call[d]
    BY <1>9, <1>t DEF Again, Ends, TypeOK, None
  <2>2. UNCHANGED <<files, mixed, acked>> BY <1>9 DEF Again
  <2>3. torn' = TRUE \/ (torn' = torn /\ (owner # "broken" => running' = Effective(block, dropin)))
    <3>1. SshdLoads /\ owner # "broken" => running' = Effective(block, dropin)
      BY <1>t, EffectiveType DEF SshdLoads, TypeOK
    <3> QED BY <1>9, <3>1 DEF Again
  <2> QED BY <1>t, <2>1, <2>2, <2>3
        DEF SshdInv, Alone, Loaded, Knows, Remembered, files, Effective
<1>10. CASE UNCHANGED vars
  BY <1>10, <1>t DEF SshdInv, Alone, Loaded, Knows, Remembered, vars, files, history, Effective
<1> QED BY <1>1, <1>2, <1>3, <1>4, <1>5, <1>6, <1>7, <1>8, <1>9, <1>10 DEF Next

\* The invariant holds in every state.
LEMMA SshdInvariant == Spec => []SshdInv
<1>1. Init => SshdInv
  <2> SUFFICES ASSUME Init PROVE SshdInv OBVIOUS
  <2>1. owner \in Owners /\ dropin \in Values \cup {"none"} /\ block = "none"
    BY SshdOK DEF Init
  <2>2. owner # "broken" => Effective(block, dropin) \in Values BY <2>1, EffectiveType
  <2>3. None \in Requests BY DEF None, Requests, Values
  <2>4. TypeOK
    <3>1. running \in Values \cup {"down"} BY <2>2 DEF Init, Values
    <3>2. call \in [Calls -> Requests] BY <2>3 DEF Init
    <3>3. count \in 0..MaxCalls /\ faults \in 0..MaxFaults BY SshdOK DEF Init
    <3>4. mixed \in BOOLEAN /\ torn \in BOOLEAN /\ acked \in Values \cup {"none"} BY DEF Init
    <3> QED BY <2>1, <3>1, <3>2, <3>3, <3>4 DEF TypeOK
  <2>5. \A c \in Calls : call[c].step = "idle" BY DEF Init, None
  <2> QED BY <2>1, <2>2, <2>4, <2>5
      DEF Init, SshdInv, Alone, Loaded, Knows, Remembered, Dirty, Wrote
<1>2. SshdInv /\ [Next]_vars => SshdInv' BY SshdStep
<1>3. QED BY <1>1, <1>2, PTL DEF Spec

\* sshd runs with its files, which say what was last acknowledged, whenever all
\* requests are answered and no rollback failed (set_password_auth).
THEOREM InForce == Spec => []SshdInForce
<1>1. SshdInv => SshdInForce
  <2> SUFFICES ASSUME SshdInv, Settled PROVE SshdInForce
    BY EffectiveType DEF SshdInForce, FilesInForce, AckInForce
  <2>1. \A c \in Calls : call[c].step = "idle" /\ ~torn
    BY DEF Settled
  <2>2. owner # "broken" => running = Effective(block, dropin)
    BY <2>1 DEF SshdInv, Loaded, Dirty, Settled
  <2>3. acked # "none" => owner # "broken" /\ block = acked
    BY <2>1 DEF SshdInv, Remembered, Settled
  <2> QED BY <2>2, <2>3, EffectiveType
      DEF SshdInv, TypeOK, SshdInForce, FilesInForce, AckInForce
<1>2. QED BY <1>1, SshdInvariant, PTL

\* A rollback that wrote the main file back leaves the files meaning what they
\* meant before, where no old drop-in went and the request was alone.
THEOREM Restores == Spec => RollbackRestores
<1> DEFINE Step == \A c \in Calls :
             /\ call[c].step = "again" /\ call[c].had = "none"
             /\ ~call[c].lost /\ ~mixed
             => Effective(block, dropin)' = call[c].was
<1>1. SshdInv /\ [Next]_vars => [Step]_vars
  <2> SUFFICES ASSUME SshdInv, Next, NEW c \in Calls, call[c].step = "again",
                      call[c].had = "none", ~call[c].lost, ~mixed
               PROVE  Effective(block, dropin)' = call[c].was
    OBVIOUS
  <2>1. Effective(block, dropin) = call[c].was
    BY DEF SshdInv, Knows, Dirty, Wrote
  <2>2. \A d \in Calls : d # c => call[d].step = "idle"
    BY DEF SshdInv, Alone
  <2>3. UNCHANGED files
    BY <2>2 DEF Next, Ask, Read, Write, Unlink, Check, Reload, Probe, Undo, Again
  <2> QED BY <2>1, <2>3 DEF files, Effective
<1>2. QED BY <1>1, SshdInvariant, PTL DEF Spec, RollbackRestores

-----------------------------------------------------------------------------
(***************************************************************************)
(* One key for all.  A secret is made once because only a maker that found *)
(* none writes, and what a process holds was loaded from the file.         *)
(***************************************************************************)

SecretsTypes ==
  /\ file \in [Files -> [there : BOOLEAN, secret : 0..MaxSecrets]]
  /\ proc \in [Processes -> Held] /\ made \in 0..MaxSecrets
  /\ resets \in 0..MaxResets /\ deaths \in 0..MaxDeaths /\ runs \in 0..MaxRuns
  /\ raced \in BOOLEAN /\ outdated \in BOOLEAN

\* A process has what its program has loaded so far.
HasLoaded(r) ==
  /\ r.runs = "run" => /\ r.at \in 1..4 /\ (r.at > 1 => r.knock # 0)
                       /\ (r.at > 2 => r.identity # 0) /\ (r.at > 3 => r.psk # 0)
  /\ r.runs = "pair" => /\ r.at \in 1..3 /\ (r.at > 1 => r.identity # 0)
                        /\ (r.at > 2 => r.psk # 0)
  /\ r.runs \in {"key", "reset"} => r.at \in 1..2 /\ (r.at > 1 => r.psk # 0)
  /\ r.runs = "expose" => r.at \in 1..3 /\ (r.at > 1 => r.knock # 0)
  /\ r.runs = "nothing" => r = NoProc

\* A file that is not there holds nothing; the service, and nobody else, runs
\* "run"; a process that resets the key has been counted.
Kinds ==
  /\ \A f \in Files : ~file[f].there => file[f].secret = 0
  /\ \A p \in Processes : /\ HasLoaded(proc[p])
                          /\ proc[p].runs = "run" => p = Service
                          /\ p = Service => proc[p].runs \in {"run", "nothing"}
                          /\ proc[p].runs = "reset" => resets # 0

\* A secret that only its first maker has made: one maker at a time, who finds no
\* secret in the file, and whoever holds one holds that of the file.
Single(f) == ~raced /\ (f = "key" => resets = 0)

OneMaker ==
  \A f \in Files : Single(f) =>
    \A p \in Processes :
      /\ Making(p, f) => file[f].secret = 0
      /\ \A q \in Processes : Making(p, f) /\ Making(q, f) => p = q
      /\ \A s \in Secrets : FileOf(s) = f /\ proc[p][s] # 0 => file[f].secret = proc[p][s]

\* Where nobody else wrote access.key since, what the service has taken from it is
\* what stands in it, and it will not make another.
TakesOne ==
  proc[Service].runs = "run" /\ ~outdated /\ ~raced =>
    /\ proc[Service].at > 1 => proc[Service].knock = file["key"].secret
    /\ proc[Service].at > 3 => proc[Service].psk = file["key"].secret
    /\ proc[Service].at = 3 => proc[Service].doing = "ready"

SecretsInv == SecretsTypes /\ Kinds /\ OneMaker /\ TakesOne

-----------------------------------------------------------------------------
\* What each program loads, and in which order.
LEMMA ProgramFacts ==
  /\ DOMAIN Program = {"run", "pair", "key", "reset", "expose"}
  /\ Len(Program["run"]) = 3 /\ Program["run"][1] = "knock" /\ Program["run"][2] = "identity"
  /\ Program["run"][3] = "psk"
  /\ Len(Program["pair"]) = 2 /\ Program["pair"][1] = "identity" /\ Program["pair"][2] = "psk"
  /\ Len(Program["key"]) = 1 /\ Program["key"][1] = "psk"
  /\ Len(Program["reset"]) = 1 /\ Program["reset"][1] = "psk"
  /\ Len(Program["expose"]) = 2 /\ Program["expose"][1] = "knock"
  /\ Program["expose"][2] = "restart"
BY DEF Program

\* Where a running process stands.
LEMMA Spots ==
  ASSUME SecretsTypes, Kinds, NEW p \in Processes, Running(p)
  PROVE  \/ proc[p].runs = "run" /\ proc[p].at = 1 /\ Slot(p) = "knock"
         \/ proc[p].runs = "run" /\ proc[p].at = 2 /\ Slot(p) = "identity"
         \/ proc[p].runs = "run" /\ proc[p].at = 3 /\ Slot(p) = "psk"
         \/ proc[p].runs = "pair" /\ proc[p].at = 1 /\ Slot(p) = "identity"
         \/ proc[p].runs = "pair" /\ proc[p].at = 2 /\ Slot(p) = "psk"
         \/ proc[p].runs = "key" /\ proc[p].at = 1 /\ Slot(p) = "psk"
         \/ proc[p].runs = "reset" /\ proc[p].at = 1 /\ Slot(p) = "psk"
         \/ proc[p].runs = "expose" /\ proc[p].at = 1 /\ Slot(p) = "knock"
         \/ proc[p].runs = "expose" /\ proc[p].at = 2 /\ Slot(p) = "restart"
<1>1. proc[p].runs \in {"run", "pair", "key", "reset", "expose"}
      /\ proc[p].at \in 1..Len(Program[proc[p].runs])
  BY ProgramFacts DEF Running
<1>2. CASE proc[p].runs = "run"
  BY <1>1, <1>2, ProgramFacts DEF Slot
<1>3. CASE proc[p].runs = "pair"
  BY <1>1, <1>3, ProgramFacts DEF Slot
<1>4. CASE proc[p].runs \in {"key", "reset"}
  BY <1>1, <1>4, ProgramFacts DEF Slot
<1>5. CASE proc[p].runs = "expose"
  BY <1>1, <1>5, ProgramFacts DEF Slot
<1> QED BY <1>1, <1>2, <1>3, <1>4, <1>5

\* What the invariant says of the property.
LEMMA Implied == SecretsInv => SecretsTypeOK /\ SecretsAgree
<1> SUFFICES ASSUME SecretsInv PROVE SecretsTypeOK /\ SecretsAgree
  OBVIOUS
<1> USE DEF SecretsInv
<1>1. ASSUME NEW p \in Processes, NEW i \in 1..(proc[p].at - 1)
      PROVE  LET slot == Program[proc[p].runs][i] IN slot \in Secrets => proc[p][slot] # 0
  <2>1. proc[p] \in Held BY DEF SecretsTypes
  <2>2. HasLoaded(proc[p]) BY DEF Kinds
  <2>3. proc[p].at \in Nat /\ proc[p].runs \in DOMAIN Program \cup {"nothing"}
    BY <2>1 DEF Held
  <2>4. proc[p].runs # "nothing" BY <2>2, <2>3 DEF HasLoaded, NoProc
  <2>5. proc[p].runs \in {"run", "pair", "key", "reset", "expose"} BY <2>3, <2>4, ProgramFacts
  <2> QED BY <2>2, <2>3, <2>5, ProgramFacts DEF HasLoaded, Secrets
<1>2. SecretsTypeOK BY <1>1 DEF SecretsTypes, SecretsTypeOK
<1>3. OneSecret
  <2> SUFFICES ASSUME ~raced, resets = 0
               PROVE  /\ \A k, l \in KeysHeld : k = l
                      /\ \A i, j \in IdentitiesHeld : i = j
    BY DEF OneSecret
  <2>1. \A p \in Processes :
          /\ proc[p].knock # 0 => file["key"].secret = proc[p].knock
          /\ proc[p].psk # 0 => file["key"].secret = proc[p].psk
    BY DEF OneMaker, Single, Files, FileOf, Secrets
  <2>2. \A p \in Processes : proc[p].identity # 0 => file["identity"].secret = proc[p].identity
    BY DEF OneMaker, Single, Files, FileOf, Secrets
  <2>3. \A k \in KeysHeld : k = file["key"].secret
    <3> SUFFICES ASSUME NEW k \in KeysHeld PROVE k = file["key"].secret OBVIOUS
    <3>1. PICK p \in Processes : k \in {proc[p].knock, proc[p].psk} BY DEF KeysHeld
    <3>2. k # 0 BY DEF KeysHeld
    <3> QED BY <2>1, <3>1, <3>2
  <2>4. \A i \in IdentitiesHeld : i = file["identity"].secret BY <2>2 DEF IdentitiesHeld
  <2> QED BY <2>3, <2>4
<1>4. StartUsesFile
  <2> SUFFICES ASSUME Up, ~outdated, ~raced
               PROVE  /\ proc[Service].knock = file["key"].secret
                      /\ proc[Service].psk = file["key"].secret
                      /\ proc[Service].identity = file["identity"].secret
    BY DEF StartUsesFile
  <2>1. Service \in Processes /\ proc[Service].runs = "run" BY DEF Up, Processes
  <2>2. proc[Service].at = 4
    <3>1. proc[Service].at \in 1..4 BY <2>1 DEF Kinds, HasLoaded
    <3>2. ~(proc[Service].at \in 1..3) BY <2>1, ProgramFacts DEF Up, Running
    <3> QED BY <3>1, <3>2
  <2>3. proc[Service].identity # 0 BY <2>1, <2>2 DEF Kinds, HasLoaded
  <2>4. file["identity"].secret = proc[Service].identity
    BY <2>1, <2>3 DEF OneMaker, Single, Files, FileOf, Secrets
  <2> QED BY <2>1, <2>2, <2>4 DEF TakesOne
<1> QED BY <1>2, <1>3, <1>4 DEF SecretsAgree
-----------------------------------------------------------------------------
\* What a process is after it came to hold v.
LEMMA HoldsFacts ==
  ASSUME SecretsTypes, NEW p \in Processes, Slot(p) \in Secrets, proc[p].at \in 0..3,
         NEW v \in 0..MaxSecrets, proc' = Holds(p, v)
  PROVE  /\ proc' \in [Processes -> Held]
         /\ \A q \in Processes \ {p} : proc'[q] = proc[q]
         /\ proc'[p].runs = proc[p].runs /\ proc'[p].at = proc[p].at + 1
         /\ proc'[p].doing = "ready"
         /\ \A s \in Secrets : proc'[p][s] = IF s = Slot(p) THEN v ELSE proc[p][s]
         /\ proc'[p].knock = IF "knock" = Slot(p) THEN v ELSE proc[p].knock
         /\ proc'[p].identity = IF "identity" = Slot(p) THEN v ELSE proc[p].identity
         /\ proc'[p].psk = IF "psk" = Slot(p) THEN v ELSE proc[p].psk
<1>1. proc[p] \in Held /\ proc \in [Processes -> Held] BY DEF SecretsTypes
<1>2. CASE Slot(p) = "knock"
  <2>1. proc' = [proc EXCEPT ![p] = [proc[p] EXCEPT !.knock = v, !.at = proc[p].at + 1,
                                                    !.doing = "ready"]]
    BY <1>1, <1>2 DEF Holds, Held
  <2>2. [proc[p] EXCEPT !.knock = v, !.at = proc[p].at + 1, !.doing = "ready"] \in Held
    <3>1. proc[p].at + 1 \in 0..4 OBVIOUS
    <3> QED BY <1>1, <3>1 DEF Held
  <2>3. proc'[p] = [proc[p] EXCEPT !.knock = v, !.at = proc[p].at + 1, !.doing = "ready"]
    BY <1>1, <2>1
  <2>4. proc' \in [Processes -> Held] BY <1>1, <2>1, <2>2
  <2>5. \A q \in Processes \ {p} : proc'[q] = proc[q] BY <1>1, <2>1
  <2>6. proc[p] = [runs |-> proc[p].runs, at |-> proc[p].at, doing |-> proc[p].doing,
                   knock |-> proc[p].knock, identity |-> proc[p].identity, psk |-> proc[p].psk]
    BY <1>1 DEF Held
  <2> QED BY <1>2, <2>3, <2>4, <2>5, <2>6 DEF Secrets
<1>3. CASE Slot(p) = "identity"
  <2>1. proc' = [proc EXCEPT ![p] = [proc[p] EXCEPT !.identity = v, !.at = proc[p].at + 1,
                                                    !.doing = "ready"]]
    BY <1>1, <1>3 DEF Holds, Held
  <2>2. [proc[p] EXCEPT !.identity = v, !.at = proc[p].at + 1, !.doing = "ready"] \in Held
    <3>1. proc[p].at + 1 \in 0..4 OBVIOUS
    <3> QED BY <1>1, <3>1 DEF Held
  <2>3. proc'[p] = [proc[p] EXCEPT !.identity = v, !.at = proc[p].at + 1, !.doing = "ready"]
    BY <1>1, <2>1
  <2>4. proc' \in [Processes -> Held] BY <1>1, <2>1, <2>2
  <2>5. \A q \in Processes \ {p} : proc'[q] = proc[q] BY <1>1, <2>1
  <2>6. proc[p] = [runs |-> proc[p].runs, at |-> proc[p].at, doing |-> proc[p].doing,
                   knock |-> proc[p].knock, identity |-> proc[p].identity, psk |-> proc[p].psk]
    BY <1>1 DEF Held
  <2> QED BY <1>3, <2>3, <2>4, <2>5, <2>6 DEF Secrets
<1>4. CASE Slot(p) = "psk"
  <2>1. proc' = [proc EXCEPT ![p] = [proc[p] EXCEPT !.psk = v, !.at = proc[p].at + 1,
                                                    !.doing = "ready"]]
    BY <1>1, <1>4 DEF Holds, Held
  <2>2. [proc[p] EXCEPT !.psk = v, !.at = proc[p].at + 1, !.doing = "ready"] \in Held
    <3>1. proc[p].at + 1 \in 0..4 OBVIOUS
    <3> QED BY <1>1, <3>1 DEF Held
  <2>3. proc'[p] = [proc[p] EXCEPT !.psk = v, !.at = proc[p].at + 1, !.doing = "ready"]
    BY <1>1, <2>1
  <2>4. proc' \in [Processes -> Held] BY <1>1, <2>1, <2>2
  <2>5. \A q \in Processes \ {p} : proc'[q] = proc[q] BY <1>1, <2>1
  <2>6. proc[p] = [runs |-> proc[p].runs, at |-> proc[p].at, doing |-> proc[p].doing,
                   knock |-> proc[p].knock, identity |-> proc[p].identity, psk |-> proc[p].psk]
    BY <1>1 DEF Held
  <2> QED BY <1>4, <2>3, <2>4, <2>5, <2>6 DEF Secrets
<1> QED BY <1>2, <1>3, <1>4 DEF Secrets

\* Every step keeps the invariant.
LEMMA SecretsStep == SecretsInv /\ [SecretsNext]_secretVars => SecretsInv'
<1> SUFFICES ASSUME SecretsInv, [SecretsNext]_secretVars PROVE SecretsInv'
  OBVIOUS
<1>i. SecretsTypes /\ Kinds /\ OneMaker /\ TakesOne BY DEF SecretsInv
<1>n. NoProc \in Held BY SecretsOK DEF NoProc, Held
<1>f. Service \in Processes /\ \A s \in Secrets : FileOf(s) \in Files
  BY DEF Processes, Files, FileOf
<1>t. proc \in [Processes -> Held] /\ file \in [Files -> [there : BOOLEAN, secret : 0..MaxSecrets]]
  BY <1>i DEF SecretsTypes
<1>m. ASSUME NEW q \in Processes, proc'[q] = proc[q]
      PROVE  \A f \in Files : Making(q, f)' <=> Making(q, f)
  BY <1>m DEF Making, At, Running, Slot
<1>z. ASSUME NEW q \in Processes, proc'[q].doing = "ready"
      PROVE  \A f \in Files : ~Making(q, f)'
  BY <1>z DEF Making, At
<1>p. \A q \in Processes, f \in Files : Making(q, f) => Running(q) /\ Slot(q) \in Secrets
  BY DEF Making, At
\* What a process loads is what the file holds.
<1>1. ASSUME NEW p \in Processes, Load(p) PROVE SecretsInv'
  <2> DEFINE s == Slot(p)
             v == file[FileOf(s)].secret
  <2>1. /\ Running(p) /\ s \in Secrets /\ proc[p].doing = "ready" /\ v # 0
        /\ UNCHANGED <<file, made, resets, deaths, runs, raced, outdated>> /\ proc' = Holds(p, v)
    BY <1>1 DEF Load, At, Whole
  <2>2. v \in 0..MaxSecrets BY <1>t, <1>f, <2>1
  <2>s. \/ proc[p].runs = "run" /\ proc[p].at = 1 /\ s = "knock"
        \/ proc[p].runs = "run" /\ proc[p].at = 2 /\ s = "identity"
        \/ proc[p].runs = "run" /\ proc[p].at = 3 /\ s = "psk"
        \/ proc[p].runs = "pair" /\ proc[p].at = 1 /\ s = "identity"
        \/ proc[p].runs = "pair" /\ proc[p].at = 2 /\ s = "psk"
        \/ proc[p].runs \in {"key", "reset"} /\ proc[p].at = 1 /\ s = "psk"
        \/ proc[p].runs = "expose" /\ proc[p].at = 1 /\ s = "knock"
    BY <1>i, <2>1, Spots DEF Secrets
  <2> HIDE DEF s, v
  <2>h. /\ proc' \in [Processes -> Held]
        /\ \A q \in Processes \ {p} : proc'[q] = proc[q]
        /\ proc'[p].runs = proc[p].runs /\ proc'[p].at = proc[p].at + 1
        /\ proc'[p].doing = "ready"
        /\ \A r \in Secrets : proc'[p][r] = IF r = s THEN v ELSE proc[p][r]
        /\ proc'[p].knock = IF "knock" = s THEN v ELSE proc[p].knock
        /\ proc'[p].identity = IF "identity" = s THEN v ELSE proc[p].identity
        /\ proc'[p].psk = IF "psk" = s THEN v ELSE proc[p].psk
    BY <1>i, <2>1, <2>2, <2>s, HoldsFacts DEF s
  <2>3. SecretsTypes' BY <1>i, <2>1, <2>h DEF SecretsTypes
  <2>4. Kinds'
    <3>1. HasLoaded(proc'[p])
      <4>1. HasLoaded(proc[p]) BY <1>i DEF Kinds
      <4> QED BY <2>1, <2>s, <2>h, <4>1 DEF HasLoaded
    <3> QED BY <1>i, <2>1, <2>h, <3>1 DEF Kinds
  <2>5. OneMaker'
    <3>1. \A f \in Files : ~Making(p, f)' BY <1>z, <2>h
    <3>2. \A q \in Processes \ {p} : \A f \in Files : Making(q, f)' <=> Making(q, f)
      BY <1>m, <2>h
    <3> QED BY <1>i, <2>1, <2>h, <3>1, <3>2 DEF OneMaker, Single, v
  <2>6. TakesOne'
    <3>1. CASE p = Service
      BY <1>i, <1>f, <2>1, <2>s, <2>h, <3>1 DEF TakesOne, v, FileOf
    <3>2. CASE p # Service
      BY <1>i, <1>f, <2>1, <2>h, <3>2 DEF TakesOne
    <3> QED BY <3>1, <3>2
  <2> QED BY <2>3, <2>4, <2>5, <2>6 DEF SecretsInv
\* A process that is no more holds and makes nothing.
<1>x. ASSUME NEW p \in Processes, proc' = [proc EXCEPT ![p] = NoProc], deaths' \in 0..MaxDeaths,
             UNCHANGED <<file, made, resets, runs, raced, outdated>>
      PROVE  SecretsInv'
  <2>1. proc' \in [Processes -> Held] /\ proc'[p] = NoProc
        /\ \A q \in Processes \ {p} : proc'[q] = proc[q]
    BY <1>t, <1>n, <1>x
  <2>2. SecretsTypes' BY <1>i, <1>x, <2>1 DEF SecretsTypes
  <2>3. Kinds' BY <1>i, <1>x, <2>1 DEF Kinds, HasLoaded, NoProc
  <2>4. OneMaker'
    <3>1. \A f \in Files : ~Making(p, f)' BY <1>z, <2>1 DEF NoProc
    <3>2. \A q \in Processes \ {p} : \A f \in Files : Making(q, f)' <=> Making(q, f)
      BY <1>m, <2>1
    <3> QED BY <1>i, <1>x, <2>1, <3>1, <3>2 DEF OneMaker, Single, NoProc, Secrets
  <2>5. TakesOne' BY <1>i, <1>f, <1>x, <2>1 DEF TakesOne, NoProc
  <2> QED BY <2>2, <2>3, <2>4, <2>5 DEF SecretsInv
<1>2. ASSUME NEW p \in Processes, KeyDamaged(p) PROVE SecretsInv'
  BY <1>2, <1>x, <1>i DEF KeyDamaged, SecretsTypes
<1>3. ASSUME NEW p \in Processes, Dies(p) PROVE SecretsInv'
  <2>1. deaths' \in 0..MaxDeaths BY <1>3, <1>i, SecretsOK DEF Dies, SecretsTypes
  <2> QED BY <1>3, <1>x, <2>1 DEF Dies
\* Whoever begins to make a secret of the file f finds none there, unless f is the
\* access key and has been reset.
<1>e. ASSUME NEW p \in Processes, At(p, "ready", Secrets), Makes(p)
      PROVE  LET f == FileOf(Slot(p)) IN Single(f) => file[f].secret = 0
  <2>1. Running(p) /\ Slot(p) \in Secrets BY <1>e DEF At
  <2>2. CASE proc[p].runs = "reset"
    <3>1. Slot(p) = "psk" /\ resets # 0 BY <1>i, <2>1, <2>2, Spots DEF Kinds
    <3> QED BY <3>1 DEF Single, FileOf
  <2>3. CASE Slot(p) = "identity" /\ ~Whole("identity")
    BY <1>i, <2>3 DEF Whole, FileOf, Kinds, Files
  <2>4. CASE Slot(p) # "identity" /\ ~file["key"].there
    BY <1>i, <2>4 DEF FileOf, Kinds, Files
  <2> QED BY <1>e, <2>2, <2>3, <2>4 DEF Makes
<1>4. ASSUME NEW p \in Processes, Decide(p) PROVE SecretsInv'
  <2>1. /\ At(p, "ready", Secrets) /\ Makes(p) /\ Running(p) /\ Slot(p) \in Secrets
        /\ UNCHANGED <<file, made, resets, deaths, runs, outdated>>
        /\ raced' \in BOOLEAN
        /\ ~raced' => ~raced /\ \A q \in Processes \ {p} : ~Making(q, FileOf(Slot(p)))
    BY <1>4, <1>i DEF Decide, At, SecretsTypes
  <2>2. /\ proc' = [proc EXCEPT ![p] = [proc[p] EXCEPT !.doing = "make"]]
        /\ [proc[p] EXCEPT !.doing = "make"] \in Held
    BY <1>4, <1>t DEF Decide, Held
  <2>3. /\ proc' \in [Processes -> Held] /\ \A q \in Processes \ {p} : proc'[q] = proc[q]
        /\ proc'[p].runs = proc[p].runs /\ proc'[p].at = proc[p].at
        /\ proc'[p].knock = proc[p].knock /\ proc'[p].identity = proc[p].identity
        /\ proc'[p].psk = proc[p].psk
        /\ \A s \in Secrets : proc'[p][s] = proc[p][s]
    BY <1>t, <2>2 DEF Held, Secrets
  <2>4. SecretsTypes' BY <1>i, <2>1, <2>3 DEF SecretsTypes
  <2>5. Kinds'
    <3>1. HasLoaded(proc'[p])
      <4>1. proc[p].runs # "nothing" BY <2>1, ProgramFacts DEF Running
      <4>2. HasLoaded(proc[p]) BY <1>i DEF Kinds
      <4> QED BY <2>3, <4>1, <4>2 DEF HasLoaded
    <3> QED BY <1>i, <2>1, <2>3, <3>1 DEF Kinds
  <2>6. OneMaker'
    <3>1. \A q \in Processes \ {p} : \A f \in Files : Making(q, f)' <=> Making(q, f)
      BY <1>m, <2>3
    <3>2. \A f \in Files : Making(p, f)' => f = FileOf(Slot(p))
      BY <2>3 DEF Making, Slot
    <3>3. ASSUME NEW f \in Files, Single(f)' PROVE Single(f)
      BY <2>1, <3>3 DEF Single
    <3>4. ASSUME NEW f \in Files, Single(f)', NEW q \in Processes, Making(q, f)'
          PROVE  file[f].secret = 0
      BY <1>e, <1>i, <2>1, <3>1, <3>2, <3>3, <3>4 DEF OneMaker
    <3>5. ASSUME NEW f \in Files, Single(f)', NEW q \in Processes, NEW r \in Processes,
                 Making(q, f)', Making(r, f)'
          PROVE  q = r
      <4>1. CASE q = p /\ r # p
        BY <2>1, <3>1, <3>2, <3>5, <4>1 DEF Single
      <4>2. CASE r = p /\ q # p
        BY <2>1, <3>1, <3>2, <3>5, <4>2 DEF Single
      <4>3. CASE q # p /\ r # p
        BY <1>i, <3>1, <3>3, <3>5, <4>3 DEF OneMaker
      <4> QED BY <4>1, <4>2, <4>3
    <3>6. ASSUME NEW f \in Files, Single(f)', NEW q \in Processes, NEW s \in Secrets,
                 FileOf(s) = f, proc'[q][s] # 0
          PROVE  file[f].secret = proc'[q][s]
      <4>1. proc'[q][s] = proc[q][s] BY <2>3
      <4> QED BY <1>i, <3>3, <3>6, <4>1 DEF OneMaker
    <3> QED BY <2>1, <3>4, <3>5, <3>6 DEF OneMaker
  <2>7. TakesOne'
    <3> SUFFICES ASSUME (proc[Service].runs = "run" /\ ~outdated /\ ~raced)'
                 PROVE  (/\ proc[Service].at > 1 => proc[Service].knock = file["key"].secret
                         /\ proc[Service].at > 3 => proc[Service].psk = file["key"].secret
                         /\ proc[Service].at = 3 => proc[Service].doing = "ready")'
      BY DEF TakesOne
    <3>1. proc[Service].runs = "run" /\ ~outdated /\ ~raced
      BY <1>f, <2>1, <2>3
    <3>2. /\ proc[Service].at > 1 => proc[Service].knock = file["key"].secret
          /\ proc[Service].at > 3 => proc[Service].psk = file["key"].secret
          /\ proc[Service].at = 3 => proc[Service].doing = "ready"
      BY <1>i, <3>1 DEF TakesOne
    <3>3. p = Service => proc[Service].at # 3
      <4> SUFFICES ASSUME p = Service, proc[Service].at = 3 PROVE FALSE OBVIOUS
      <4>1. Slot(p) = "psk" BY <1>i, <2>1, <3>1, Spots
      <4>2. ~file["key"].there BY <2>1, <3>1, <4>1 DEF Makes
      <4>3. file["key"].secret = 0 BY <1>i, <4>2 DEF Kinds, Files
      <4>4. proc[Service].knock # 0 BY <1>i, <1>f, <3>1 DEF Kinds, HasLoaded
      <4> QED BY <3>2, <4>3, <4>4
    <3> QED BY <1>f, <2>1, <2>3, <3>2, <3>3
  <2> QED BY <2>4, <2>5, <2>6, <2>7 DEF SecretsInv
\* Who is making a secret finds none in its file, and nobody holds one of it.
<1>k. ASSUME NEW p \in Processes, At(p, "make", Secrets) \/ At(p, "write", Secrets)
      PROVE  LET f == FileOf(Slot(p)) IN
             /\ Making(p, f)
             /\ Single(f) => /\ file[f].secret = 0
                             /\ \A q \in Processes : \A s \in Secrets :
                                  FileOf(s) = f => proc[q][s] = 0
  <2> DEFINE f == FileOf(Slot(p))
  <2>1. f \in Files /\ Making(p, f) BY <1>k, <1>f DEF At, Making
  <2> QED BY <1>i, <2>1 DEF OneMaker
\* The service makes no second key while what it took from the file is in it.
<1>o. ASSUME proc[Service].runs = "run", ~outdated, ~raced, Running(Service),
             proc[Service].doing \in {"make", "write"}
      PROVE  \/ proc[Service].at = 1 /\ Slot(Service) = "knock"
             \/ proc[Service].at = 2 /\ Slot(Service) = "identity"
  BY <1>f, <1>i, <1>o, Spots DEF TakesOne
<1>5. ASSUME NEW p \in Processes, Truncate(p) PROVE SecretsInv'
  <2> DEFINE f == FileOf(Slot(p))
  <2>1. /\ At(p, "make", Secrets) /\ Running(p) /\ Slot(p) \in Secrets /\ proc[p].doing = "make"
        /\ f \in Files /\ Making(p, f)
        /\ UNCHANGED <<made, resets, deaths, runs, raced>>
        /\ file' = [file EXCEPT ![f] = [there |-> TRUE, secret |-> 0]]
        /\ outdated' \in BOOLEAN
        /\ ~outdated' => ~outdated /\ (p = Service \/ f # "key")
    BY <1>5, <1>i, <1>f, <1>k DEF Truncate, At, SecretsTypes, Outdates
  <2>2. /\ proc' = [proc EXCEPT ![p] = [proc[p] EXCEPT !.doing = "write"]]
        /\ [proc[p] EXCEPT !.doing = "write"] \in Held
    BY <1>5, <1>t DEF Truncate, Held
  <2>3. /\ proc' \in [Processes -> Held] /\ \A q \in Processes \ {p} : proc'[q] = proc[q]
        /\ proc'[p].runs = proc[p].runs /\ proc'[p].at = proc[p].at
        /\ proc'[p].doing = "write"
        /\ proc'[p].knock = proc[p].knock /\ proc'[p].identity = proc[p].identity
        /\ proc'[p].psk = proc[p].psk
        /\ \A q \in Processes, s \in Secrets : proc'[q][s] = proc[q][s]
    BY <1>t, <2>2 DEF Held, Secrets
  <2>4. file' \in [Files -> [there : BOOLEAN, secret : 0..MaxSecrets]]
    BY <1>t, <2>1, SecretsOK
  <2>5. SecretsTypes' BY <1>i, <2>1, <2>3, <2>4 DEF SecretsTypes
  <2>6. Kinds'
    <3>1. HasLoaded(proc'[p])
      <4>1. proc[p].runs # "nothing" BY <2>1, ProgramFacts DEF Running
      <4>2. HasLoaded(proc[p]) BY <1>i DEF Kinds
      <4> QED BY <2>3, <4>1, <4>2 DEF HasLoaded
    <3>2. \A g \in Files : ~file'[g].there => file'[g].secret = 0
      BY <1>i, <1>t, <2>1 DEF Kinds
    <3> QED BY <1>i, <2>1, <2>3, <3>1, <3>2 DEF Kinds
  <2>7. OneMaker'
    <3> HIDE DEF f
    <3>1. \A q \in Processes \ {p} : \A g \in Files : Making(q, g)' <=> Making(q, g)
      BY <1>m, <2>3
    <3>2. \A g \in Files : Making(p, g)' => g = f
      BY <2>3 DEF Making, Slot, f
    <3>3. \A g \in Files : Single(g)' <=> Single(g) BY <2>1 DEF Single
    <3>4. \A g \in Files : file'[g].secret = IF g = f THEN 0 ELSE file[g].secret
      BY <1>t, <2>1
    <3>5. Single(f) => \A q \in Processes : \A s \in Secrets : FileOf(s) = f => proc[q][s] = 0
      BY <1>k, <2>1 DEF f
    <3> QED BY <1>i, <2>1, <2>3, <3>1, <3>2, <3>3, <3>4, <3>5 DEF OneMaker
  <2>8. TakesOne'
    <3> SUFFICES ASSUME (proc[Service].runs = "run" /\ ~outdated /\ ~raced)'
                 PROVE  (/\ proc[Service].at > 1 => proc[Service].knock = file["key"].secret
                         /\ proc[Service].at > 3 => proc[Service].psk = file["key"].secret
                         /\ proc[Service].at = 3 => proc[Service].doing = "ready")'
      BY DEF TakesOne
    <3>1. proc[Service].runs = "run" /\ ~outdated /\ ~raced /\ (p = Service \/ f # "key")
      BY <1>f, <2>1, <2>3
    <3>2. CASE p = Service
      <4>1. \/ proc[p].at = 1
            \/ proc[p].at = 2 /\ f = "identity"
        BY <1>o, <2>1, <3>1, <3>2 DEF FileOf
      <4>2. f = "identity" => file'["key"] = file["key"] BY <1>t, <2>1 DEF Files
      <4> QED BY <1>i, <1>f, <2>3, <3>1, <3>2, <4>1, <4>2 DEF TakesOne
    <3>3. CASE p # Service
      <4>1. file'["key"] = file["key"] BY <1>t, <2>1, <3>1, <3>3 DEF Files
      <4> QED BY <1>i, <1>f, <2>3, <3>1, <3>3, <4>1 DEF TakesOne
    <3> QED BY <3>2, <3>3
  <2> QED BY <2>5, <2>6, <2>7, <2>8 DEF SecretsInv
<1>6. ASSUME NEW p \in Processes, WriteSecret(p) PROVE SecretsInv'
  <2> DEFINE s == Slot(p)
             f == FileOf(s)
  <2>1. /\ At(p, "write", Secrets) /\ Running(p) /\ s \in Secrets /\ proc[p].doing = "write"
        /\ f \in Files /\ Making(p, f)
        /\ UNCHANGED <<resets, deaths, runs, raced>> /\ made' \in 1..MaxSecrets
        /\ file' = [file EXCEPT ![f] = [there |-> TRUE, secret |-> made']]
        /\ proc' = Holds(p, made')
        /\ outdated' \in BOOLEAN
        /\ ~outdated' => ~outdated /\ (p = Service \/ f # "key")
    <3>1. made' \in 1..MaxSecrets BY <1>6, <1>i, SecretsOK DEF WriteSecret, SecretsTypes
    <3>2. At(p, "write", Secrets) /\ Running(p) /\ s \in Secrets /\ proc[p].doing = "write"
      BY <1>6 DEF WriteSecret, At
    <3>3. f \in Files /\ Making(p, f) BY <1>f, <1>k, <3>2
    <3>4. outdated' \in BOOLEAN /\ (~outdated' => ~outdated /\ (p = Service \/ f # "key"))
      BY <1>6, <1>i DEF WriteSecret, SecretsTypes, Outdates
    <3> QED BY <1>6, <3>1, <3>2, <3>3, <3>4 DEF WriteSecret
  <2>s. \/ proc[p].runs = "run" /\ proc[p].at = 1 /\ s = "knock"
        \/ proc[p].runs = "run" /\ proc[p].at = 2 /\ s = "identity"
        \/ proc[p].runs = "run" /\ proc[p].at = 3 /\ s = "psk"
        \/ proc[p].runs = "pair" /\ proc[p].at = 1 /\ s = "identity"
        \/ proc[p].runs = "pair" /\ proc[p].at = 2 /\ s = "psk"
        \/ proc[p].runs \in {"key", "reset"} /\ proc[p].at = 1 /\ s = "psk"
        \/ proc[p].runs = "expose" /\ proc[p].at = 1 /\ s = "knock"
    BY <1>i, <2>1, Spots DEF Secrets
  <2>h. /\ proc' \in [Processes -> Held]
        /\ \A q \in Processes \ {p} : proc'[q] = proc[q]
        /\ proc'[p].runs = proc[p].runs /\ proc'[p].at = proc[p].at + 1
        /\ proc'[p].doing = "ready"
        /\ \A r \in Secrets : proc'[p][r] = IF r = s THEN made' ELSE proc[p][r]
        /\ proc'[p].knock = IF "knock" = s THEN made' ELSE proc[p].knock
        /\ proc'[p].identity = IF "identity" = s THEN made' ELSE proc[p].identity
        /\ proc'[p].psk = IF "psk" = s THEN made' ELSE proc[p].psk
    BY <1>i, <2>1, <2>s, HoldsFacts
  <2>4. file' \in [Files -> [there : BOOLEAN, secret : 0..MaxSecrets]]
    BY <1>t, <2>1
  <2>5. SecretsTypes' BY <1>i, <2>1, <2>h, <2>4 DEF SecretsTypes
  <2>6. Kinds'
    <3> HIDE DEF s
    <3>1. HasLoaded(proc'[p])
      <4>1. HasLoaded(proc[p]) BY <1>i DEF Kinds
      <4> QED BY <2>1, <2>s, <2>h, <4>1 DEF HasLoaded
    <3>2. \A g \in Files : ~file'[g].there => file'[g].secret = 0
      BY <1>i, <1>t, <2>1 DEF Kinds
    <3> QED BY <1>i, <2>1, <2>h, <3>1, <3>2 DEF Kinds
  <2>7. OneMaker'
    <3>5. Single(f) => \A q \in Processes : \A r \in Secrets : FileOf(r) = f => proc[q][r] = 0
      BY <1>k, <2>1
    <3> HIDE DEF f, s
    <3>1. \A q \in Processes \ {p} : \A g \in Files : Making(q, g)' <=> Making(q, g)
      BY <1>m, <2>h
    <3>2. \A g \in Files : ~Making(p, g)' BY <1>z, <2>h
    <3>3. \A g \in Files : Single(g)' <=> Single(g) BY <2>1 DEF Single
    <3>4. \A g \in Files : file'[g].secret = IF g = f THEN made' ELSE file[g].secret
      BY <1>t, <2>1
    <3>6. ASSUME NEW g \in Files, Single(g), NEW q \in Processes, NEW r \in Secrets,
                 FileOf(r) = g, proc'[q][r] # 0
          PROVE  file'[g].secret = proc'[q][r]
      <4>1. CASE q = p /\ r = s BY <2>h, <3>4, <3>6, <4>1 DEF f
      <4>2. CASE q # p \/ r # s
        <5>1. proc'[q][r] = proc[q][r] BY <2>h, <4>2
        <5>2. g # f BY <3>5, <3>6, <5>1
        <5> QED BY <1>i, <3>4, <3>6, <5>1, <5>2 DEF OneMaker
      <4> QED BY <4>1, <4>2
    <3>7. ASSUME NEW g \in Files, Single(g), NEW q \in Processes, Making(q, g)'
          PROVE  file'[g].secret = 0 /\ \A r \in Processes : Making(r, g)' => q = r
      <4>1. q # p /\ Making(q, g) BY <3>1, <3>2, <3>7
      <4>2. g # f BY <1>i, <2>1, <3>7, <4>1 DEF OneMaker
      <4> QED BY <1>i, <3>1, <3>2, <3>4, <3>7, <4>1, <4>2 DEF OneMaker
    <3> QED BY <3>3, <3>6, <3>7 DEF OneMaker
  <2>8. TakesOne'
    <3> SUFFICES ASSUME (proc[Service].runs = "run" /\ ~outdated /\ ~raced)'
                 PROVE  (/\ proc[Service].at > 1 => proc[Service].knock = file["key"].secret
                         /\ proc[Service].at > 3 => proc[Service].psk = file["key"].secret
                         /\ proc[Service].at = 3 => proc[Service].doing = "ready")'
      BY DEF TakesOne
    <3>1. proc[Service].runs = "run" /\ ~outdated /\ ~raced /\ (p = Service \/ f # "key")
      BY <1>f, <2>1, <2>h
    <3>2. CASE p = Service
      <4>1. \/ proc[p].at = 1 /\ s = "knock" /\ f = "key"
            \/ proc[p].at = 2 /\ s = "identity" /\ f = "identity"
        BY <1>o, <2>1, <3>1, <3>2 DEF FileOf
      <4>2. f = "identity" => file'["key"] = file["key"] BY <1>t, <2>1 DEF Files
      <4>3. f = "key" => file'["key"].secret = made' BY <1>t, <2>1 DEF Files
      <4> QED BY <1>i, <1>f, <2>h, <3>1, <3>2, <4>1, <4>2, <4>3 DEF TakesOne
    <3>3. CASE p # Service
      <4>1. file'["key"] = file["key"] BY <1>t, <2>1, <3>1, <3>3 DEF Files
      <4> QED BY <1>i, <1>f, <2>h, <3>1, <3>3, <4>1 DEF TakesOne
    <3> QED BY <3>2, <3>3
  <2> QED BY <2>5, <2>6, <2>7, <2>8 DEF SecretsInv
<1>7. ASSUME NEW p \in Processes, NEW prog \in DOMAIN Program, Start(p, prog) PROVE SecretsInv'
  <2> DEFINE new == [NoProc EXCEPT !.runs = prog, !.at = 1]
  <2>1. /\ (p = Service <=> prog = "run") /\ prog \in {"run", "pair", "key", "reset", "expose"}
        /\ UNCHANGED <<file, made, deaths, raced>>
        /\ proc' = [proc EXCEPT ![p] = new]
        /\ runs' \in 0..MaxRuns /\ resets' \in 0..MaxResets
        /\ resets' >= resets /\ (prog = "reset" => resets' # 0)
        /\ outdated' \in BOOLEAN /\ (p # Service => outdated' = outdated)
    BY <1>7, <1>i, SecretsOK, ProgramFacts DEF Start, SecretsTypes
  <2>2. /\ new \in Held /\ new.runs = prog /\ new.at = 1 /\ new.doing = "ready"
        /\ new.knock = 0 /\ new.identity = 0 /\ new.psk = 0
    <3>1. /\ NoProc \in Held /\ NoProc.doing = "ready"
          /\ NoProc.knock = 0 /\ NoProc.identity = 0 /\ NoProc.psk = 0
      BY <1>n DEF NoProc
    <3> HIDE DEF NoProc
    <3>2. prog \in DOMAIN Program OBVIOUS
    <3>3. new \in Held
      <4>1. \A r \in Held, k \in DOMAIN Program, j \in 0..4 :
              [r EXCEPT !.runs = k, !.at = j] \in Held
        BY DEF Held
      <4>2. 1 \in 0..4 OBVIOUS
      <4> QED BY <3>1, <3>2, <4>1, <4>2
    <3>4. DOMAIN NoProc = {"runs", "at", "doing", "knock", "identity", "psk"} BY <3>1 DEF Held
    <3>5. new.runs = prog /\ new.at = 1 BY <3>4
    <3> QED BY <3>1, <3>3, <3>4, <3>5
  <2> HIDE DEF new
  <2>3. proc' \in [Processes -> Held] /\ proc'[p] = new
        /\ \A q \in Processes \ {p} : proc'[q] = proc[q]
    BY <1>t, <2>1, <2>2
  <2>4. SecretsTypes' BY <1>i, <2>1, <2>3 DEF SecretsTypes
  <2>5. Kinds'
    <3>1. HasLoaded(proc'[p]) BY <2>1, <2>2, <2>3 DEF HasLoaded
    <3>2. resets \in Nat /\ resets' \in Nat BY <1>i, <2>1 DEF SecretsTypes
    <3> QED BY <1>i, <2>1, <2>2, <2>3, <3>1, <3>2 DEF Kinds
  <2>6. OneMaker'
    <3>1. \A f \in Files : ~Making(p, f)' BY <1>z, <2>2, <2>3
    <3>2. \A q \in Processes \ {p} : \A f \in Files : Making(q, f)' <=> Making(q, f)
      BY <1>m, <2>3
    <3>3. resets \in Nat /\ resets' \in Nat BY <1>i, <2>1 DEF SecretsTypes
    <3>4. \A f \in Files : Single(f)' => Single(f) BY <2>1, <3>3 DEF Single
    <3>5. \A s \in Secrets : proc'[p][s] = 0 BY <2>2, <2>3 DEF Secrets
    <3> QED BY <1>i, <2>1, <2>3, <3>1, <3>2, <3>4, <3>5 DEF OneMaker
  <2>7. TakesOne' BY <1>i, <1>f, <2>1, <2>2, <2>3 DEF TakesOne
  <2> QED BY <2>4, <2>5, <2>6, <2>7 DEF SecretsInv
<1>8. ASSUME NEW p \in Processes, RestartService(p) PROVE SecretsInv'
  <2> DEFINE new == IF proc[Service].runs = "nothing" THEN NoProc
                    ELSE [NoProc EXCEPT !.runs = "run", !.at = 1]
  <2>1. /\ At(p, "ready", {"restart"})
        /\ UNCHANGED <<file, made, resets, deaths, runs, raced>>
        /\ proc' = [proc EXCEPT ![p] = NoProc, ![Service] = new]
        /\ outdated' \in BOOLEAN
    BY <1>8, <1>i DEF RestartService, SecretsTypes
  <2>2. new \in Held /\ (\/ new = NoProc
                         \/ new = [runs |-> "run", at |-> 1, doing |-> "ready",
                                   knock |-> 0, identity |-> 0, psk |-> 0])
    <3> DEFINE start == [runs |-> "run", at |-> 1, doing |-> "ready",
                         knock |-> 0, identity |-> 0, psk |-> 0]
    <3>1. new = NoProc \/ new = start BY DEF NoProc
    <3>2. start \in Held BY SecretsOK, ProgramFacts DEF Held
    <3> QED BY <1>n, <3>1, <3>2
  <2> HIDE DEF new
  <2>3. proc' \in [Processes -> Held] /\ proc'[Service] = new
        /\ (p # Service => proc'[p] = NoProc)
        /\ \A q \in Processes \ {p, Service} : proc'[q] = proc[q]
    BY <1>t, <1>n, <1>f, <2>1, <2>2
  <2>4. SecretsTypes' BY <1>i, <2>1, <2>3 DEF SecretsTypes
  <2>5. Kinds'
    <3>1. HasLoaded(new) /\ HasLoaded(NoProc) BY <2>2 DEF HasLoaded, NoProc
    <3> QED BY <1>i, <2>1, <2>2, <2>3, <3>1 DEF Kinds, NoProc
  <2>6. OneMaker'
    <3>1. \A f \in Files : ~Making(Service, f)' /\ ~Making(p, f)'
      BY <1>z, <1>f, <2>2, <2>3 DEF NoProc
    <3>2. \A q \in Processes \ {p, Service} : \A f \in Files : Making(q, f)' <=> Making(q, f)
      BY <1>m, <2>3
    <3>3. \A s \in Secrets : proc'[p][s] = 0 /\ proc'[Service][s] = 0
      BY <2>2, <2>3 DEF Secrets, NoProc
    <3> QED BY <1>i, <2>1, <2>3, <3>1, <3>2, <3>3 DEF OneMaker, Single
  <2>7. TakesOne' BY <2>2, <2>3 DEF TakesOne, NoProc
  <2> QED BY <2>4, <2>5, <2>6, <2>7 DEF SecretsInv
<1>9. CASE UNCHANGED secretVars
  BY <1>9, <1>i DEF secretVars, SecretsInv, SecretsTypes, Kinds, OneMaker, TakesOne, Single, Making,
                    At, Running, Slot
<1> QED BY <1>1, <1>2, <1>3, <1>4, <1>5, <1>6, <1>7, <1>8, <1>9 DEF SecretsNext

\* The invariant holds in every state.
LEMMA SecretsInvariant == SecretsSpec => []SecretsInv
<1>1. SecretsInit => SecretsInv
  <2> SUFFICES ASSUME SecretsInit PROVE SecretsInv OBVIOUS
  <2>1. NoProc \in Held BY SecretsOK DEF NoProc, Held
  <2>2. SecretsTypes
    <3>1. file \in [Files -> [there : BOOLEAN, secret : 0..MaxSecrets]]
      BY SecretsOK DEF SecretsInit
    <3>2. proc \in [Processes -> Held] BY <2>1 DEF SecretsInit
    <3>3. made \in 0..MaxSecrets /\ resets \in 0..MaxResets /\ deaths \in 0..MaxDeaths
          /\ runs \in 0..MaxRuns
      BY SecretsOK DEF SecretsInit
    <3>4. raced \in BOOLEAN /\ outdated \in BOOLEAN BY DEF SecretsInit
    <3> QED BY <3>1, <3>2, <3>3, <3>4 DEF SecretsTypes
  <2>3. Service \in Processes BY DEF Processes
  <2> QED BY <2>2, <2>3
      DEF SecretsInit, SecretsInv, Kinds, HasLoaded, OneMaker, TakesOne, NoProc, Making, At,
          Secrets, Files
<1>2. QED BY <1>1, SecretsStep, PTL DEF SecretsSpec

\* Without a reset and unless two make one at once, all processes hold one key and
\* one identity, and a service that nobody wrote beside runs with those of its
\* files (load_or_generate).
THEOREM OneKey == SecretsSpec => []SecretsAgree
<1> QED BY SecretsInvariant, Implied, PTL

-----------------------------------------------------------------------------
(***************************************************************************)
(* Removals of rules from dnat's file.  That a rename puts the right text  *)
(* in place rests on what a remover knows while it holds conf.lock: the    *)
(* text it has read is still the file's, and conf.tmp is its own.  That a  *)
(* rule that was removed is not in dnat's table rests on what Without      *)
(* leaves, which is proved by induction over the length of the text.       *)
(***************************************************************************)

Fields == {"step", "key", "text", "answer", "applied", "gone"}

RemovalsAreRecords ==
  DOMAIN removal = Removers /\ \A r \in Removers : DOMAIN removal[r] = Fields

\* Who is between lock and unlock holds the lock, and nobody else does.
LockHeld ==
  \A r \in Removers : removal[r].step \in {"read", "write", "rename"} <=> confLock = r

\* What the holder of the lock has read and written still holds.
HolderKnows ==
  \A r \in Removers :
    /\ removal[r].step = "write" => removal[r].text = dconf
    /\ removal[r].step = "rename" => dtmp = Without(dconf, removal[r].key)

EditInv == RemovalsAreRecords /\ LockHeld /\ HolderKnows

\* The action of EditsAreAtomic, in terms of the code's own operator.
Atomic ==
  dconf' # dconf /\ removal' # removal =>
    \/ \E r \in Removers : removal[r].step = "rename" /\ dconf' = Without(dconf, removal[r].key)
    \/ \E l \in ConfLines : dconf' = Append(dconf, l)

\* A remover's step keeps the invariant; its rename is atomic because of it.
LEMMA RemoverStep ==
  ASSUME EditInv, NEW r \in Removers,
         (\E k \in AskedKeys : AskRemoval(r, k)) \/ DnatRm(r) \/ RemovePrefix(r) \/ RemoverDies(r)
  PROVE  EditInv' /\ Atomic
<1> USE DnatConfOK DEF EditInv, RemovalsAreRecords, LockHeld, HolderKnows, Fields, Atomic
<1>1. ASSUME NEW k, AskRemoval(r, k) PROVE EditInv' /\ Atomic
  BY <1>1 DEF AskRemoval, NewRemoval
<1>2. CASE DnatRm(r) BY <1>1, <1>2 DEF DnatRm
<1>3. CASE LockConf(r) BY <1>3 DEF LockConf, Steps
<1>4. CASE ReadConf(r) BY <1>4 DEF ReadConf, Answers
<1>5. CASE NothingThere(r) BY <1>5 DEF NothingThere, Answers
<1>6. CASE WriteConfTmp(r) BY <1>6 DEF WriteConfTmp, Steps, Answers
<1>7. CASE RenameConf(r) BY <1>7 DEF RenameConf, Answers
<1>8. CASE StartApply(r) BY <1>8 DEF StartApply, Steps
<1>9. CASE FinishApply(r) BY <1>9 DEF FinishApply
<1>10. CASE RemoverDies(r) BY <1>10 DEF RemoverDies, Answers
<1>11. QED BY <1>1, <1>2, <1>3, <1>4, <1>5, <1>6, <1>7, <1>8, <1>9, <1>10 DEF RemovePrefix

\* The tool edits only while nobody holds the lock.
LEMMA ToolStep ==
  ASSUME EditInv, Tool PROVE EditInv' /\ Atomic
<1> USE DnatConfOK DEF EditInv, RemovalsAreRecords, LockHeld, HolderKnows, Fields, Atomic
<1>1. ASSUME NEW l \in ConfLines, ToolAdds(l) PROVE EditInv' /\ Atomic
  <2>1. /\ confLock = NoOne /\ confLock' = NoOne /\ dconf' = Append(dconf, l)
        /\ removal' = [r \in Removers |->
                         IF HasKey(l, removal[r].key) THEN [removal[r] EXCEPT !.gone = FALSE]
                         ELSE removal[r]]
    BY <1>1 DEF ToolAdds
  <2>2. \A r \in Removers : /\ removal'[r].step = removal[r].step
                            /\ DOMAIN removal'[r] = Fields
    BY <2>1
  <2>3. \A r \in Removers : removal[r].step \notin {"read", "write", "rename"}
    BY <2>1
  <2>4. QED BY <2>1, <2>2, <2>3
<1>2. ASSUME NEW i, ToolDrops(i) PROVE EditInv' /\ Atomic
  BY <1>2 DEF ToolDrops
<1>3. CASE ToolApplies BY <1>3 DEF ToolApplies
<1>4. CASE ToolApplied BY <1>4 DEF ToolApplied
<1>5. QED BY <1>1, <1>2, <1>3, <1>4 DEF Tool

\* Every step keeps the invariant and is atomic.
LEMMA ConfStepFacts ==
  ASSUME EditInv, [ConfNext]_confVars PROVE EditInv' /\ Atomic
<1>1. CASE UNCHANGED confVars
  BY <1>1 DEF confVars, EditInv, RemovalsAreRecords, LockHeld, HolderKnows, Atomic
<1>2. QED BY <1>1, RemoverStep, ToolStep DEF ConfNext

\* In every state a holder of the lock knows the file.
LEMMA ConfInvariant == ConfSpec => []EditInv
<1>1. ConfInit => EditInv
  BY DnatConfOK
  DEF ConfInit, NoRemoval, NewRemoval, EditInv, RemovalsAreRecords, LockHeld, HolderKnows, Fields
<1>2. EditInv /\ [ConfNext]_confVars => EditInv' BY ConfStepFacts
<1>3. QED BY <1>1, <1>2, PTL DEF ConfSpec

\* The agent replaces dnat's file only by the lines it holds at that moment less
\* the rules of one key, whoever edits beside it and wherever processes die
\* (remove_prefix).
THEOREM AtomicEdits == ConfSpec => EditsAreAtomic
<1> DEFINE Exact ==
      dconf' # dconf /\ removal' # removal =>
        \/ \E r \in Removers :
             /\ removal[r].step = "rename"
             /\ dconf' = Filtered(dconf, {l \in LinesOf(dconf) :
                           ~(IsRule(l) /\ Append(l.listen, l.iface) = removal[r].key)})
        \/ \E l \in ConfLines : dconf' = Append(dconf, l)
<1>1. Atomic => Exact BY DEF Atomic, Without, HasKey, PrefixKey
<1>2. EditInv /\ [ConfNext]_confVars => [Exact]_confVars BY <1>1, ConfStepFacts
<1>3. QED BY <1>2, ConfInvariant, PTL DEF ConfSpec, EditsAreAtomic

-----------------------------------------------------------------------------
\* Induction over the natural numbers, for a set instead of a predicate: what is not in
\* S would have a least element.
LEMMA NatInduces ==
  ASSUME NEW S, 0 \in S, \A n \in Nat : n \in S => n + 1 \in S
  PROVE  \A n \in Nat : n \in S
<1> DEFINE T == Nat \ S
<1> SUFFICES ASSUME T # {} PROVE FALSE OBVIOUS
<1>1. \E x \in T : \A y \in T : ~ (<<y, x>> \in OpToRel(<,Nat))
  <2>1. IsWellFoundedOn(OpToRel(<,Nat), Nat) BY NatLessThanWellFounded
  <2>2. T \subseteq Nat OBVIOUS
  <2> HIDE DEF T
  <2>3. QED BY <2>1, <2>2, WFMin
<1>2. PICK x \in T : \A y \in T : ~ (<<y, x>> \in OpToRel(<,Nat)) BY <1>1
<1>3. x \in Nat /\ x \notin S OBVIOUS
<1>4. x # 0 BY <1>3
<1>5. x - 1 \in Nat /\ (x - 1) + 1 = x BY <1>3, <1>4
<1>6. x - 1 \in T BY <1>3, <1>5
<1>7. <<x-1, x>> \in OpToRel(<,Nat)
  BY <1>3, <1>5 DEF OpToRel
<1> QED BY <1>2, <1>6, <1>7

\* f[n] holds what is left of the first n lines.
IsFilter(f, text, S, m) ==
  /\ f \in [0..m -> Seq(S)]
  /\ f[0] = <<>>
  /\ \A n \in 1..m : f[n] = IF text[n] \in S THEN Append(f[n-1], text[n]) ELSE f[n-1]

\* There is such a function, for texts of any length.
LEMMA FilterExists ==
  ASSUME NEW L, NEW text \in Seq(L), NEW S
  PROVE  \A n \in Nat : n <= Len(text) => \E f : IsFilter(f, text, S, n)
<1> DEFINE Done == {n \in Nat : n <= Len(text) => \E f : IsFilter(f, text, S, n)}
<1>1. 0 \in Done
  <2> DEFINE f == [i \in 0..0 |-> <<>>]
  <2>1. IsFilter(f, text, S, 0) BY DEF IsFilter
  <2> QED BY <2>1
<1>2. ASSUME NEW n \in Nat, n \in Done PROVE n + 1 \in Done
  <2> SUFFICES ASSUME n + 1 <= Len(text) PROVE \E f : IsFilter(f, text, S, n + 1)
    OBVIOUS
  <2>1. PICK g : IsFilter(g, text, S, n) BY <1>2
  <2> DEFINE f == [i \in 0..(n+1) |->
                     IF i # n + 1 THEN g[i]
                     ELSE IF text[n+1] \in S THEN Append(g[n], text[n+1]) ELSE g[n]]
  <2>2. g[n] \in Seq(S) BY <2>1 DEF IsFilter
  <2>3. f \in [0..(n+1) -> Seq(S)] BY <2>1, <2>2 DEF IsFilter
  <2>4. f[0] = <<>> BY <2>1 DEF IsFilter
  <2>5. ASSUME NEW i \in 1..(n+1)
        PROVE f[i] = IF text[i] \in S THEN Append(f[i-1], text[i]) ELSE f[i-1]
    <3>1. i-1 \in 0..(n+1) /\ i - 1 # n + 1 /\ i \in 0..(n+1) OBVIOUS
    <3>2. f[i-1] = g[i-1] BY <3>1
    <3>3. CASE i = n + 1 BY <3>2, <3>3
    <3>4. CASE i # n + 1
      <4>1. i \in 1..n BY <3>4
      <4>2. f[i] = g[i] BY <3>1, <3>4
      <4> QED BY <2>1, <4>1, <4>2, <3>2 DEF IsFilter
    <3> QED BY <3>3, <3>4
  <2> HIDE DEF f
  <2>6. IsFilter(f, text, S, n + 1) BY <2>3, <2>4, <2>5 DEF IsFilter
  <2> QED BY <2>6
<1> HIDE DEF Done
<1>3. \A n \in Nat : n \in Done BY <1>1, <1>2, NatInduces
<1> QED BY <1>3 DEF Done

\* Filtered is the last value of the one its definition chooses.
LEMMA FilteredIs ==
  ASSUME NEW L, NEW text \in Seq(L), NEW S
  PROVE  \E f : IsFilter(f, text, S, Len(text)) /\ Filtered(text, S) = f[Len(text)]
<1> DEFINE Rec(f) == [n \in 0..Len(text) |->
        IF n = 0 THEN <<>>
        ELSE IF text[n] \in S THEN Append(f[n-1], text[n]) ELSE f[n-1]]
           F == CHOOSE f : f = Rec(f)
<1>1. Filtered(text, S) = F[Len(text)]
  BY DEF Filtered
<1>0. Len(text) \in Nat OBVIOUS
<1>2. PICK g : IsFilter(g, text, S, Len(text)) BY <1>0, FilterExists
<1>3. g = Rec(g)
  <2>1. \A n \in 0..Len(text) : g[n] = Rec(g)[n]
    <3> SUFFICES ASSUME NEW n \in 0..Len(text) PROVE g[n] = Rec(g)[n] OBVIOUS
    <3>1. CASE n = 0 BY <1>2, <3>1 DEF IsFilter
    <3>2. CASE n # 0
      <4>1. n \in 1..Len(text) BY <3>2, <1>0
      <4> QED BY <1>2, <4>1, <3>2 DEF IsFilter
    <3> QED BY <3>1, <3>2
  <2>2. g \in [0..Len(text) -> Seq(S)] BY <1>2 DEF IsFilter
  <2> QED BY <2>1, <2>2
<1>4. F = Rec(F)
  <2> HIDE DEF Rec
  <2> QED BY <1>3
<1>5. \A n \in 0..Len(text) : F[n] = IF n = 0 THEN <<>> ELSE
         IF text[n] \in S THEN Append(F[n-1], text[n]) ELSE F[n-1]
  <2> HIDE DEF F
  <2> QED BY <1>4
<1> HIDE DEF F
<1>7. \A n \in Nat : n <= Len(text) => F[n] \in Seq(S)
  <2> DEFINE T == {n \in Nat : n <= Len(text) => F[n] \in Seq(S)}
  <2>1. 0 \in T
    <3>1. 0 \in 0..Len(text) BY <1>0
    <3>2. F[0] = <<>> BY <1>5, <3>1
    <3>3. F[0] \in Seq(S) BY <3>2
    <3> QED BY <3>3
  <2>2. ASSUME NEW n \in Nat, n \in T PROVE n + 1 \in T
    <3> SUFFICES ASSUME n + 1 <= Len(text) PROVE F[n+1] \in Seq(S) OBVIOUS
    <3>1. F[n] \in Seq(S) BY <2>2, <1>0
    <3>2. n + 1 \in 0..Len(text) /\ n + 1 # 0 /\ (n + 1) - 1 = n BY <1>0
    <3>3. F[n+1] = IF text[n+1] \in S THEN Append(F[n], text[n+1]) ELSE F[n]
      BY <1>5, <3>2
    <3> QED BY <3>1, <3>3
  <2> HIDE DEF T
  <2>3. \A n \in Nat : n \in T BY <2>1, <2>2, NatInduces
  <2> QED BY <2>3 DEF T
<1>8. IsFilter(F, text, S, Len(text))
  <2>1. F \in [0..Len(text) -> Seq(S)]
    <3>1. \A n \in 0..Len(text) :
            (IF n = 0 THEN <<>> ELSE IF text[n] \in S THEN Append(F[n-1], text[n]) ELSE F[n-1])
            \in Seq(S)
      <4>1. \A n \in 0..Len(text) : F[n] \in Seq(S) BY <1>0, <1>7
      <4> QED BY <1>5, <4>1
    <3>2. Rec(F) \in [0..Len(text) -> Seq(S)] BY <3>1
    <3> QED BY <1>4, <3>2
  <2>2. F[0] = <<>> BY <1>0, <1>5
  <2>3. \A n \in 1..Len(text) : F[n] = IF text[n] \in S THEN Append(F[n-1], text[n]) ELSE F[n-1]
    BY <1>0, <1>5
  <2> QED BY <2>1, <2>2, <2>3 DEF IsFilter
<1> QED BY <1>1, <1>8

\* Filtering keeps the lines in S, all of them and no others.
LEMMA FilteredLines ==
  ASSUME NEW L, NEW text \in Seq(L), NEW S
  PROVE  /\ Filtered(text, S) \in Seq(L)
         /\ Len(Filtered(text, S)) <= Len(text)
         /\ LinesOf(Filtered(text, S)) = LinesOf(text) \cap S
<1>1. PICK f : IsFilter(f, text, S, Len(text)) /\ Filtered(text, S) = f[Len(text)]
  BY FilteredIs
<1> DEFINE HoldsUpTo(n) == /\ f[n] \in Seq(L) /\ Len(f[n]) <= n
                       /\ LinesOf(f[n]) = {text[i] : i \in 1..n} \cap S
           T == {n \in Nat : n <= Len(text) => HoldsUpTo(n)}
<1>0. Len(text) \in Nat OBVIOUS
<1>2. 0 \in T
  <2>1. f[0] = <<>> BY <1>1 DEF IsFilter
  <2>2. f[0] \in Seq(L) /\ Len(f[0]) <= 0 BY <2>1
  <2>3. LinesOf(f[0]) = {} BY <2>1 DEF LinesOf
  <2>4. {text[i] : i \in 1..0} = {} OBVIOUS
  <2> QED BY <2>2, <2>3, <2>4
<1>3. ASSUME NEW n \in Nat, n \in T PROVE n + 1 \in T
  <2> SUFFICES ASSUME n + 1 <= Len(text) PROVE HoldsUpTo(n + 1) OBVIOUS
  <2>1. HoldsUpTo(n)
    <3> HIDE DEF HoldsUpTo
    <3>1. n <= Len(text) BY <1>0
    <3> QED BY <1>3, <3>1
  <2>2. n + 1 \in 1..Len(text) /\ (n+1) - 1 = n BY <1>0
  <2>3. f[n+1] = IF text[n+1] \in S THEN Append(f[n], text[n+1]) ELSE f[n]
    BY <1>1, <2>2 DEF IsFilter
  <2>4. {text[i] : i \in 1..(n+1)} = {text[i] : i \in 1..n} \cup {text[n+1]}
    OBVIOUS
  <2>5. text[n+1] \in L BY <2>2
  <2>6. CASE text[n+1] \in S
    <3>1. f[n+1] = Append(f[n], text[n+1]) BY <2>3, <2>6
    <3>2. LinesOf(Append(f[n], text[n+1])) = LinesOf(f[n]) \cup {text[n+1]}
      <4>1. /\ Len(Append(f[n], text[n+1])) = Len(f[n]) + 1
            /\ \A i \in 1..Len(f[n]) : Append(f[n], text[n+1])[i] = f[n][i]
            /\ Append(f[n], text[n+1])[Len(f[n]) + 1] = text[n+1]
        BY <2>1, <2>5
      <4>2. Len(f[n]) \in Nat BY <2>1
      <4>3. 1..(Len(f[n]) + 1) = 1..Len(f[n]) \cup {Len(f[n]) + 1} BY <4>2
      <4> QED BY <4>1, <4>2, <4>3 DEF LinesOf
    <3> QED BY <2>1, <2>4, <2>5, <2>6, <3>1, <3>2
  <2>7. CASE text[n+1] \notin S
    BY <2>1, <2>3, <2>4, <2>7
  <2> QED BY <2>6, <2>7
<1> HIDE DEF T
<1>4. \A n \in Nat : n \in T BY <1>2, <1>3, NatInduces
<1>5. HoldsUpTo(Len(text))
  <2> HIDE DEF HoldsUpTo
  <2> QED BY <1>0, <1>4 DEF T
<1> QED BY <1>1, <1>5 DEF LinesOf

\* A text without its i-th line.
Dropped(text, i) == SubSeq(text, 1, i - 1) \o SubSeq(text, i + 1, Len(text))

\* Taking one line out leaves the others.
LEMMA DroppedLines ==
  ASSUME NEW L, NEW text \in Seq(L), NEW i \in 1..Len(text)
  PROVE  /\ Dropped(text, i) \in Seq(L) /\ Len(Dropped(text, i)) <= Len(text)
         /\ \A l \in LinesOf(Dropped(text, i)) : l \in LinesOf(text)
<1> DEFINE a == SubSeq(text, 1, i - 1)
           b == SubSeq(text, i + 1, Len(text))
<1>1. a \in Seq(L) /\ Len(a) = i - 1 /\ \A j \in 1..(i - 1) : a[j] = text[j]
  OBVIOUS
<1>2. b \in Seq(L) /\ Len(b) = Len(text) - i /\ \A j \in 1..(Len(text) - i) : b[j] = text[i + j]
  OBVIOUS
<1> HIDE DEF a, b
<1>3. a \o b \in Seq(L) /\ Len(a \o b) = Len(text) - 1
  <2>1. a \o b \in Seq(L) BY <1>1, <1>2
  <2>2. Len(a \o b) = Len(a) + Len(b)
    <3>1. a \in Seq(L) /\ b \in Seq(L) BY <1>1, <1>2
    <3> QED BY <3>1
  <2>3. i \in Int /\ Len(text) \in Int OBVIOUS
  <2> QED BY <1>1, <1>2, <2>1, <2>2, <2>3
<1>4. ASSUME NEW j \in 1..Len(a \o b) PROVE (a \o b)[j] \in LinesOf(text)
  <2>1. CASE j <= i - 1
    BY <1>1, <1>2, <1>3, <2>1 DEF LinesOf
  <2>2. CASE j > i - 1
    <3>1. (a \o b)[j] = b[j - (i - 1)] BY <1>1, <1>2, <1>3, <2>2
    <3>2. j - (i - 1) \in 1..(Len(text) - i) BY <1>1, <1>2, <1>3, <2>2
    <3>3. i + (j - (i - 1)) \in 1..Len(text) BY <3>2
    <3> QED BY <1>2, <3>1, <3>2, <3>3 DEF LinesOf
  <2> QED BY <2>1, <2>2
<1>5. \A l \in LinesOf(a \o b) : l \in LinesOf(text) BY <1>4 DEF LinesOf
<1>6. Len(a \o b) <= Len(text) BY <1>3
<1> QED BY <1>3, <1>5, <1>6 DEF a, b, Dropped

-----------------------------------------------------------------------------
\* A key whose rules were taken out is in the file no more, nor in what an apply
\* that began later has read, nor, once applied, in the table.
Gone ==
  \A r \in Removers : removal[r].gone => \A l \in LinesOf(dconf) : ~HasKey(l, removal[r].key)
GoneFromApply ==
  \A r \in Removers :
    /\ removal[r].gone /\ applying.by # NoOne
    /\ removal[r].applied \/ removal[r].step = "applying"
    => \A l \in LinesOf(applying.text) : ~HasKey(l, removal[r].key)
GoneFromTable ==
  \A r \in Removers :
    removal[r].applied /\ removal[r].gone => \A l \in dtable : ~HasKey(l, removal[r].key)
Applies ==
  \A r \in Removers :
    /\ removal[r].step = "applying" <=> applying.by = r
    /\ removal[r].applied => removal[r].step = "done"

GoneInv == ConfTypeOK /\ EditInv /\ Applies /\ Gone /\ GoneFromApply /\ GoneFromTable

\* Every step keeps the types.
LEMMA ConfTypes == ASSUME ConfTypeOK, EditInv, [ConfNext]_confVars PROVE ConfTypeOK'
<1> USE DnatConfOK DEF ConfTypeOK
<1>1. ASSUME NEW r \in Removers, NEW k \in AskedKeys, AskRemoval(r, k) PROVE ConfTypeOK'
  <2>1. NewRemoval(k) \in Removals BY DEF NewRemoval, Removals
  <2> QED BY <1>1, <2>1 DEF AskRemoval, ConfStep
<1>2. ASSUME NEW r \in Removers, DnatRm(r) PROVE ConfTypeOK'
  <2>1. PICK l \in RulesOf(dconf) : AskRemoval(r, PrefixKey(l)) BY <1>2 DEF DnatRm
  <2>2. l \in ConfLines /\ IsRule(l) BY <2>1 DEF RulesOf, LinesOf
  <2> QED BY <1>1, <2>1, <2>2, DnatKeysOK
<1>s. ASSUME NEW r \in Removers, NEW s \in {"none", "lock", "read", "write", "rename", "apply",
             "applying", "done"}, Steps(r, s)
      PROVE  removal' \in [Removers -> Removals]
  <2>1. [removal[r] EXCEPT !.step = s] \in Removals BY DEF Removals
  <2>2. removal' = [removal EXCEPT ![r] = [removal[r] EXCEPT !.step = s]] BY <1>s DEF Steps
  <2> QED BY <2>1, <2>2
<1>a. ASSUME NEW r \in Removers, NEW a \in {"none", "removed", "absent", "error"}, Answers(r, a)
      PROVE  removal' \in [Removers -> Removals]
  <2>1. [removal[r] EXCEPT !.step = "done", !.answer = a, !.text = <<>>] \in Removals
    <3>1. removal[r] \in Removals /\ <<>> \in Seq(ConfLines) OBVIOUS
    <3> QED BY <3>1 DEF Removals
  <2>2. removal' = [removal EXCEPT ![r] =
          [removal[r] EXCEPT !.step = "done", !.answer = a, !.text = <<>>]]
    BY <1>a DEF Answers
  <2> QED BY <2>1, <2>2
<1>3. ASSUME NEW r \in Removers, LockConf(r) PROVE ConfTypeOK'
  BY <1>3, <1>s DEF LockConf
<1>4. ASSUME NEW r \in Removers, ReadConf(r) PROVE ConfTypeOK'
  <2>1. CASE removal' = [removal EXCEPT ![r].step = "write", ![r].text = dconf]
    <3>1. [removal[r] EXCEPT !.step = "write", !.text = dconf] \in Removals
      <4>1. removal[r] \in Removals /\ dconf \in Seq(ConfLines) OBVIOUS
      <4> QED BY <4>1 DEF Removals
    <3>2. removal' = [removal EXCEPT ![r] = [removal[r] EXCEPT !.step = "write", !.text = dconf]]
      BY <2>1
    <3>3. removal' \in [Removers -> Removals] BY <3>1, <3>2
    <3> QED BY <1>4, <3>3 DEF ReadConf, ConfFault, NoConfFault
  <2>2. CASE Answers(r, "absent")
    BY <1>4, <1>a, <2>2 DEF ReadConf, ConfFault, NoConfFault
  <2> QED BY <1>4, <2>1, <2>2 DEF ReadConf
<1>5. ASSUME NEW r \in Removers, NothingThere(r) PROVE ConfTypeOK'
  BY <1>5, <1>a DEF NothingThere
<1>6. ASSUME NEW r \in Removers, WriteConfTmp(r) PROVE ConfTypeOK'
  <2>1. removal[r].text \in Seq(ConfLines) BY DEF Removals
  <2>2. Without(removal[r].text, removal[r].key) \in Seq(ConfLines)
    BY <2>1, FilteredLines DEF Without
  <2>3. removal' \in [Removers -> Removals] BY <1>6, <1>s, <1>a DEF WriteConfTmp
  <2>4. dtmp' \in Seq(ConfLines)
    <3>1. <<>> \in Seq(ConfLines) OBVIOUS
    <3> QED BY <1>6, <2>2, <3>1 DEF WriteConfTmp
  <2>5. confLock' \in Removers \cup {NoOne} BY <1>6 DEF WriteConfTmp
  <2>6. confFaults' \in 0..MaxConfFaults BY <1>6 DEF WriteConfTmp, ConfFault, NoConfFault
  <2> QED BY <1>6, <2>3, <2>4, <2>5, <2>6 DEF WriteConfTmp
<1>7. ASSUME NEW r \in Removers, RenameConf(r) PROVE ConfTypeOK'
  <2>1. removal' \in [Removers -> Removals]
    <3>1. CASE removal' = [removal EXCEPT ![r].step = "apply", ![r].text = <<>>, ![r].gone = TRUE]
      <4>1. [removal[r] EXCEPT !.step = "apply", !.text = <<>>, !.gone = TRUE] \in Removals
        <5>1. removal[r] \in Removals /\ <<>> \in Seq(ConfLines) OBVIOUS
        <5> QED BY <5>1 DEF Removals
      <4>2. removal' = [removal EXCEPT ![r] =
              [removal[r] EXCEPT !.step = "apply", !.text = <<>>, !.gone = TRUE]]
        BY <3>1
      <4> QED BY <4>1, <4>2
    <3> QED BY <1>7, <1>a, <3>1 DEF RenameConf
  <2>2. Len(Without(dconf, removal[r].key)) <= Len(dconf)
    BY FilteredLines DEF Without
  <2>3. removal[r].step = "rename" => dtmp = Without(dconf, removal[r].key)
    BY DEF EditInv, HolderKnows
  <2>4. Len(dtmp) <= MaxConfLines \/ removal[r].step # "rename"
    BY <2>2, <2>3
  <2>5. dconf' \in Seq(ConfLines) /\ dtmp' \in Seq(ConfLines) /\ Len(dconf') <= MaxConfLines
    <3>1. <<>> \in Seq(ConfLines) OBVIOUS
    <3> QED BY <1>7, <2>4, <3>1 DEF RenameConf
  <2>6. confFaults' \in 0..MaxConfFaults BY <1>7 DEF RenameConf, ConfFault, NoConfFault
  <2> QED BY <1>7, <2>1, <2>5, <2>6 DEF RenameConf
<1>8. ASSUME NEW r \in Removers, StartApply(r) PROVE ConfTypeOK'
  BY <1>8, <1>s DEF StartApply
<1>9. ASSUME NEW r \in Removers, FinishApply(r) PROVE ConfTypeOK'
  <2>1. PICK ok \in BOOLEAN :
          /\ dtable' = IF ok THEN RulesOf(applying.text) ELSE dtable
          /\ IF ok THEN NoConfFault ELSE ConfFault
          /\ removal' = [removal EXCEPT ![r].step = "done", ![r].answer = "removed",
               ![r].applied = ok]
    BY <1>9 DEF FinishApply
  <2>2. RulesOf(applying.text) \subseteq ConfLines BY DEF RulesOf, LinesOf
  <2>3. removal' \in [Removers -> Removals]
    <3>1. [removal[r] EXCEPT !.step = "done", !.answer = "removed", !.applied = ok] \in Removals
      BY DEF Removals
    <3>2. removal' = [removal EXCEPT ![r] =
            [removal[r] EXCEPT !.step = "done", !.answer = "removed", !.applied = ok]]
      BY <2>1
    <3> QED BY <3>1, <3>2
  <2>4. dtable' \subseteq ConfLines BY <2>1, <2>2
  <2>5. confFaults' \in 0..MaxConfFaults BY <2>1 DEF ConfFault, NoConfFault
  <2>6. /\ UNCHANGED <<dconf, dtmp, confLock, confSteps>>
        /\ applying' = [by |-> NoOne, text |-> <<>>]
    BY <1>9 DEF FinishApply
  <2>7. applying' \in [by : Removers \cup {NoOne, DnatTool}, text : Seq(ConfLines)]
    <3>1. <<>> \in Seq(ConfLines) OBVIOUS
    <3> QED BY <2>6, <3>1
  <2> QED BY <2>3, <2>4, <2>5, <2>6, <2>7
<1>10. ASSUME NEW r \in Removers, RemoverDies(r) PROVE ConfTypeOK'
  <2>1. removal' \in [Removers -> Removals] BY <1>10, <1>a DEF RemoverDies
  <2>2. confLock' \in Removers \cup {NoOne} /\ confFaults' \in 0..MaxConfFaults
    BY <1>10 DEF RemoverDies, ConfFault
  <2>3. UNCHANGED <<dconf, dtmp, dtable, confSteps>> BY <1>10 DEF RemoverDies
  <2>4. applying' \in [by : Removers \cup {NoOne, DnatTool}, text : Seq(ConfLines)]
    BY <1>10 DEF RemoverDies
  <2> QED BY <2>1, <2>2, <2>3, <2>4
<1>11. ASSUME NEW l \in ConfLines, ToolAdds(l) PROVE ConfTypeOK'
  <2>1. removal' \in [Removers -> Removals]
    <3>1. \A r \in Removers : [removal[r] EXCEPT !.gone = FALSE] \in Removals
      BY DEF Removals
    <3> QED BY <1>11, <3>1 DEF ToolAdds
  <2> QED BY <1>11, <2>1 DEF ToolAdds, ConfStep
<1>12. ASSUME NEW i \in 1..Len(dconf), ToolDrops(i) PROVE ConfTypeOK'
  <2>1. /\ dconf' \in Seq(ConfLines) /\ Len(dconf') <= MaxConfLines
        /\ \A l \in LinesOf(dconf') : l \in LinesOf(dconf)
    <3>1. dconf' = Dropped(dconf, i) BY <1>12 DEF ToolDrops, Dropped
    <3> QED BY <3>1, DroppedLines
  <2>2. confSteps' \in 0..MaxConfSteps BY <1>12 DEF ToolDrops, ConfStep
  <2>3. UNCHANGED <<dtmp, confLock, applying, dtable, removal, confFaults>> BY <1>12 DEF ToolDrops
  <2> QED BY <2>1, <2>2, <2>3
<1>13. CASE ToolApplies BY <1>13 DEF ToolApplies
<1>14. CASE ToolApplied
  <2>1. RulesOf(applying.text) \subseteq ConfLines BY DEF RulesOf, LinesOf
  <2> QED BY <1>14, <2>1 DEF ToolApplied
<1>15. CASE UNCHANGED confVars BY <1>15 DEF confVars
<1> QED BY <1>1, <1>2, <1>3, <1>4, <1>5, <1>6, <1>7, <1>8, <1>9, <1>10, <1>11, <1>12, <1>13,
           <1>14, <1>15 DEF ConfNext, RemovePrefix, Tool

\* Every step keeps what is known of removed keys.
LEMMA GoneStep == ASSUME GoneInv, [ConfNext]_confVars PROVE GoneInv'
<1>t. ConfTypeOK /\ ConfTypeOK' /\ EditInv /\ EditInv'
  BY ConfTypes, ConfStepFacts DEF GoneInv
<1> DEFINE Rest == Applies /\ Gone /\ GoneFromApply /\ GoneFromTable
<1> SUFFICES Rest' BY <1>t DEF GoneInv
<1>r. Rest BY DEF GoneInv
<1>n. NoOne \notin Removers /\ DnatTool \notin Removers /\ NoOne # DnatTool BY DnatConfOK
<1> USE <1>n DEF Applies, Gone, GoneFromApply, GoneFromTable
\* Steps that end or begin a removal and leave files and table alone.
<1>q. ASSUME NEW r \in Removers, UNCHANGED <<dconf, applying, dtable>>,
             \A q \in Removers \ {r} : removal'[q] = removal[q],
             removal'[r].key = removal[r].key \/ ~removal'[r].gone,
             removal'[r].gone => removal[r].gone,
             removal'[r].applied => removal[r].applied /\ removal'[r].step = "done",
             removal[r].step # "applying" /\ removal'[r].step # "applying"
      PROVE  Rest'
  BY <1>q, <1>r
<1>1. ASSUME NEW r \in Removers, NEW k, AskRemoval(r, k) PROVE Rest'
  BY <1>1, <1>t, <1>q DEF AskRemoval, NewRemoval, ConfTypeOK
<1>2. ASSUME NEW r \in Removers, DnatRm(r) PROVE Rest'
  BY <1>1, <1>2 DEF DnatRm
<1>3. ASSUME NEW r \in Removers, LockConf(r) \/ ReadConf(r) \/ NothingThere(r) \/ WriteConfTmp(r)
      PROVE  Rest'
  <2>1. /\ UNCHANGED <<dconf, applying, dtable>>
        /\ removal[r].step \in {"lock", "read", "write"}
    BY <1>3 DEF LockConf, ReadConf, NothingThere, WriteConfTmp
  <2>2. /\ \A q \in Removers \ {r} : removal'[q] = removal[q]
        /\ removal'[r].key = removal[r].key /\ removal'[r].gone = removal[r].gone
        /\ removal'[r].applied = removal[r].applied /\ removal'[r].step # "applying"
    <3>1. removal \in [Removers -> Removals] BY <1>t DEF ConfTypeOK
    <3>2. \/ \E s \in {"read", "rename"} : removal' = [removal EXCEPT ![r].step = s]
          \/ removal' = [removal EXCEPT ![r].step = "write", ![r].text = dconf]
          \/ \E a \in {"absent", "error"} : Answers(r, a)
      BY <1>3 DEF LockConf, ReadConf, NothingThere, WriteConfTmp, Steps
    <3> QED BY <3>1, <3>2 DEF Removals, Answers
  <2>3. ~removal[r].applied BY <1>r, <2>1
  <2> QED BY <1>q, <2>1, <2>2, <2>3
<1>4. ASSUME NEW r \in Removers, RenameConf(r) PROVE Rest'
  <2>1. /\ removal[r].step = "rename" /\ UNCHANGED <<applying, dtable>>
        /\ \A q \in Removers \ {r} : removal'[q] = removal[q]
        /\ removal'[r].key = removal[r].key /\ removal'[r].applied = removal[r].applied
        /\ \/ dconf' = dtmp /\ removal'[r].step = "apply"
           \/ dconf' = dconf /\ removal'[r].step = "done" /\ removal'[r].gone = removal[r].gone
    BY <1>4, <1>t DEF RenameConf, Answers, ConfTypeOK, Removals
  <2>2. dtmp = Without(dconf, removal[r].key) BY <1>t, <2>1 DEF EditInv, HolderKnows
  <2>3. LinesOf(dtmp) = {l \in LinesOf(dconf) : ~HasKey(l, removal[r].key)}
    BY <2>2, <1>t, FilteredLines DEF Without, ConfTypeOK
  <2>4. ~removal[r].applied BY <1>r, <2>1
  <2> QED BY <1>r, <2>1, <2>3, <2>4
<1>5. ASSUME NEW r \in Removers, StartApply(r) PROVE Rest'
  <2>1. /\ removal[r].step = "apply" /\ removal'[r].step = "applying" /\ UNCHANGED <<dconf, dtable>>
        /\ \A q \in Removers \ {r} : removal'[q] = removal[q]
        /\ removal'[r].key = removal[r].key /\ removal'[r].applied = removal[r].applied
        /\ removal'[r].gone = removal[r].gone
        /\ applying.by = NoOne /\ applying'.by = r /\ applying'.text = dconf
    BY <1>5, <1>t DEF StartApply, Steps, ConfTypeOK, Removals
  <2> QED BY <1>r, <2>1
<1>6. ASSUME NEW r \in Removers, FinishApply(r) PROVE Rest'
  <2>1. /\ removal[r].step = "applying" /\ removal'[r].step = "done" /\ UNCHANGED dconf
        /\ \A q \in Removers \ {r} : removal'[q] = removal[q]
        /\ removal'[r].key = removal[r].key /\ removal'[r].gone = removal[r].gone
        /\ applying'.by = NoOne
        /\ \/ dtable' = RulesOf(applying.text)
           \/ dtable' = dtable /\ ~removal'[r].applied
    BY <1>6, <1>t DEF FinishApply, ConfTypeOK, Removals
  <2>2. applying.by = r BY <1>r, <2>1
  <2>3. \A q \in Removers \ {r} : removal[q].step # "applying" BY <1>r, <2>2
  <2>4. dtable' \subseteq LinesOf(applying.text) \/ dtable' = dtable BY <2>1 DEF RulesOf
  <2>5. GoneFromTable' BY <1>r, <2>1, <2>2 DEF RulesOf
  <2> QED BY <1>r, <2>1, <2>2, <2>3, <2>5
<1>7. ASSUME NEW r \in Removers, RemoverDies(r) PROVE Rest'
  <2>1. /\ removal[r].step \notin {"none", "done"} /\ removal'[r].step = "done"
        /\ UNCHANGED <<dconf, dtable>>
        /\ \A q \in Removers \ {r} : removal'[q] = removal[q]
        /\ removal'[r].key = removal[r].key /\ removal'[r].gone = removal[r].gone
        /\ removal'[r].applied = removal[r].applied
        /\ applying'.text = applying.text
        /\ applying'.by = IF applying.by = r THEN DnatTool ELSE applying.by
    BY <1>7, <1>t DEF RemoverDies, Answers, ConfTypeOK, Removals
  <2> QED BY <1>r, <2>1
<1>8. ASSUME NEW l \in ConfLines, ToolAdds(l) PROVE Rest'
  <2>1. UNCHANGED <<applying, dtable>> /\ dconf' = Append(dconf, l)
    BY <1>8 DEF ToolAdds
  <2>2. \A r \in Removers :
          /\ removal'[r].step = removal[r].step /\ removal'[r].applied = removal[r].applied
          /\ removal'[r].key = removal[r].key
          /\ removal'[r].gone => removal[r].gone /\ ~HasKey(l, removal[r].key)
    BY <1>8, <1>t DEF ToolAdds, ConfTypeOK, Removals
  <2>3. \A k \in LinesOf(dconf') : k \in LinesOf(dconf) \/ k = l
    <3>1. dconf \in Seq(ConfLines) BY <1>t DEF ConfTypeOK
    <3> QED BY <2>1, <3>1 DEF LinesOf
  <2> QED BY <1>r, <2>1, <2>2, <2>3
<1>9. ASSUME NEW i \in 1..Len(dconf), ToolDrops(i) PROVE Rest'
  <2>1. UNCHANGED <<applying, dtable, removal>> BY <1>9 DEF ToolDrops
  <2>2. \A l \in LinesOf(dconf') : l \in LinesOf(dconf)
    <3>1. dconf' = Dropped(dconf, i) BY <1>9 DEF ToolDrops, Dropped
    <3>2. dconf \in Seq(ConfLines) BY <1>t DEF ConfTypeOK
    <3> QED BY <3>1, <3>2, DroppedLines
  <2> QED BY <1>r, <2>1, <2>2
<1>10. CASE ToolApplies
  BY <1>10, <1>r DEF ToolApplies
<1>11. CASE ToolApplied
  <2>1. /\ applying.by = DnatTool /\ applying'.by = NoOne /\ UNCHANGED <<dconf, removal>>
        /\ dtable' \subseteq LinesOf(applying.text)
    BY <1>11 DEF ToolApplied, RulesOf
  <2> QED BY <1>r, <2>1
<1>12. CASE UNCHANGED confVars BY <1>12, <1>r DEF confVars
<1> QED BY <1>1, <1>2, <1>3, <1>4, <1>5, <1>6, <1>7, <1>8, <1>9, <1>10, <1>11, <1>12
        DEF ConfNext, RemovePrefix, Tool

\* The invariant holds in every state.
LEMMA GoneInvariant == ConfSpec => []GoneInv
<1>1. ConfInit => GoneInv
  <2> SUFFICES ASSUME ConfInit PROVE GoneInv OBVIOUS
  <2>1. NoRemoval(CHOOSE k \in AskedKeys : TRUE) \in Removals
    <3>1. (CHOOSE k \in AskedKeys : TRUE) \in AskedKeys /\ <<>> \in Seq(ConfLines)
      BY DnatConfOK
    <3> QED BY <3>1 DEF NoRemoval, NewRemoval, Removals
  <2>2. RulesOf(dconf) \subseteq ConfLines BY DnatConfOK DEF ConfInit, RulesOf, LinesOf
  <2>3. ConfTypeOK
    <3>1. <<>> \in Seq(ConfLines) OBVIOUS
    <3>2. dconf \in Seq(ConfLines) /\ Len(dconf) <= MaxConfLines BY DnatConfOK DEF ConfInit
    <3>3. removal \in [Removers -> Removals] BY <2>1 DEF ConfInit
    <3>4. applying \in [by : Removers \cup {NoOne, DnatTool}, text : Seq(ConfLines)]
      BY <3>1 DEF ConfInit
    <3>5. dtable \subseteq ConfLines BY <2>2 DEF ConfInit
    <3> QED BY DnatConfOK, <3>1, <3>2, <3>3, <3>4, <3>5 DEF ConfInit, ConfTypeOK
  <2>4. EditInv
    BY DnatConfOK
    DEF ConfInit, NoRemoval, NewRemoval, EditInv, RemovalsAreRecords, LockHeld, HolderKnows, Fields
  <2> QED BY DnatConfOK, <2>3, <2>4
      DEF ConfInit, GoneInv, Applies, Gone, GoneFromApply, GoneFromTable, NoRemoval, NewRemoval
<1>2. GoneInv /\ [ConfNext]_confVars => GoneInv' BY GoneStep
<1>3. QED BY <1>1, <1>2, PTL DEF ConfSpec

\* A removal answered after a successful apply is in force for good: no apply that
\* read the file earlier brings its rules back (remove_prefix, then run_apply).
THEOREM RemovedStaysOut == ConfSpec => []RemovedLeavesTable
<1>1. GoneInv => RemovedLeavesTable BY DEF GoneInv, GoneFromTable, RemovedLeavesTable
<1>2. QED BY <1>1, GoneInvariant, PTL

-----------------------------------------------------------------------------
(***************************************************************************)
(* What a pass makes of nft's answers.  It rests on spellings: what nft    *)
(* prints of an interval that is a prefix is the one canonical target that *)
(* is kept as that interval.                                               *)
(***************************************************************************)

\* There are powers of two.
LEMMA PowersExist ==
  \E p : /\ p \in [0..Bits -> Nat] /\ p[0] = 1
         /\ \A n \in 1..Bits : p[n] = 2 * p[n-1]
<1> DEFINE Upto(p, m) == /\ p \in [0..m -> Nat] /\ p[0] = 1
                         /\ \A n \in 1..m : p[n] = 2 * p[n-1]
           S == {m \in Nat : \E p : Upto(p, m)}
<1>1. 0 \in S
  <2> DEFINE p == [n \in 0..0 |-> 1]
  <2>1. Upto(p, 0) OBVIOUS
  <2> HIDE DEF p
  <2> QED BY <2>1
<1>2. ASSUME NEW m \in Nat, m \in S PROVE m + 1 \in S
  <2>1. PICK g : Upto(g, m) BY <1>2
  <2> DEFINE p == [n \in 0..m + 1 |-> IF n = m + 1 THEN 2 * g[m] ELSE g[n]]
  <2>2. \A n \in 0..m + 1 : p[n] = (IF n = m + 1 THEN 2 * g[m] ELSE g[n]) OBVIOUS
  <2>3. g[m] \in Nat /\ 2 * g[m] \in Nat BY <2>1
  <2>4. p \in [0..m + 1 -> Nat] BY <2>1, <2>3
  <2> HIDE DEF p
  <2>5. Upto(p, m + 1)
    <3>1. p[0] = 1 BY <2>1, <2>2
    <3>2. ASSUME NEW n \in 1..m + 1 PROVE p[n] = 2 * p[n-1]
      <4>1. n - 1 \in 0..m /\ n \in 0..m + 1 /\ n - 1 \in 0..m + 1 /\ n - 1 # m + 1 OBVIOUS
      <4>2. p[n-1] = g[n-1] BY <2>2, <4>1
      <4>3. CASE n = m + 1 BY <4>1, <4>2, <4>3, <2>2
      <4>4. CASE n # m + 1
        <5>1. n \in 1..m BY <4>4
        <5>2. g[n] = 2 * g[n-1] BY <5>1, <2>1
        <5> QED BY <5>2, <4>1, <4>2, <4>4, <2>2
      <4> QED BY <4>3, <4>4
    <3> QED BY <2>4, <3>1, <3>2
  <2>6. m + 1 \in Nat OBVIOUS
  <2> HIDE DEF Upto
  <2> QED BY <2>5, <2>6
<1> HIDE DEF S
<1>3. \A m \in Nat : m \in S BY <1>1, <1>2, NatInduces
<1>4. Bits \in S BY <1>3, ListingOK
<1> QED BY <1>4 DEF S

LEMMA PowersAre ==
  /\ Pow2 \in [0..Bits -> Nat] /\ Pow2[0] = 1
  /\ \A n \in 1..Bits : Pow2[n] = 2 * Pow2[n-1]
<1> DEFINE Rec(p) == [n \in 0..Bits |-> IF n = 0 THEN 1 ELSE 2 * p[n-1]]
<1>1. PICK q : /\ q \in [0..Bits -> Nat] /\ q[0] = 1
               /\ \A n \in 1..Bits : q[n] = 2 * q[n-1]
  BY PowersExist
<1>2. q = Rec(q)
  <2>1. \A n \in 0..Bits : q[n] = (IF n = 0 THEN 1 ELSE 2 * q[n-1])
    <3> SUFFICES ASSUME NEW n \in 0..Bits, n # 0 PROVE q[n] = 2 * q[n-1] BY <1>1
    <3>1. n \in 1..Bits OBVIOUS
    <3> QED BY <3>1, <1>1
  <2>2. q = [n \in 0..Bits |-> q[n]] BY <1>1
  <2> QED BY <2>1, <2>2
<1>3. Pow2 = Rec(Pow2)
  <2> HIDE DEF Rec
  <2>1. \E p : p = Rec(p) BY <1>2
  <2>2. Pow2 = CHOOSE p : p = Rec(p) BY DEF Pow2, Rec
  <2> QED BY <2>1, <2>2
<1>4. \A n \in 0..Bits : Pow2[n] = (IF n = 0 THEN 1 ELSE 2 * Pow2[n-1]) BY <1>3
<1>5. Pow2[0] = 1 /\ \A n \in 1..Bits : Pow2[n] = 2 * Pow2[n-1]
  <2>1. 0 \in 0..Bits /\ \A n \in 1..Bits : n \in 0..Bits /\ n # 0 BY ListingOK
  <2> QED BY <1>4, <2>1
<1> DEFINE S == {n \in Nat : n <= Bits => Pow2[n] \in Nat}
<1>6. \A n \in Nat : n \in S
  <2>1. 0 \in S BY <1>5
  <2>2. ASSUME NEW n \in Nat, n \in S PROVE n + 1 \in S
    <3> SUFFICES ASSUME n + 1 <= Bits PROVE Pow2[n + 1] \in Nat OBVIOUS
    <3>1. n + 1 \in 1..Bits /\ (n + 1) - 1 = n /\ n <= Bits BY ListingOK
    <3>2. Pow2[n + 1] = 2 * Pow2[n] BY <3>1, <1>5
    <3>3. Pow2[n] \in Nat BY <2>2, <3>1
    <3> QED BY <3>2, <3>3
  <2> HIDE DEF S
  <2> QED BY <2>1, <2>2, NatInduces
<1>7. Pow2 \in [0..Bits -> Nat]
  <2>1. \A n \in 0..Bits : Pow2[n] \in Nat BY <1>6, ListingOK
  <2>2. Pow2 = [n \in 0..Bits |-> Pow2[n]]
    <3>1. \A p : Rec(p) = [n \in 0..Bits |-> Rec(p)[n]] OBVIOUS
    <3> HIDE DEF Rec
    <3> QED BY <3>1, <1>3
  <2> QED BY <2>1, <2>2
<1> QED BY <1>5, <1>7

\* They are not zero, and differ from each other.
LEMMA PowersGrow ==
  /\ \A n \in 0..Bits : Pow2[n] \in Nat \ {0}
  /\ \A m, n \in 0..Bits : Pow2[m] = Pow2[n] => m = n
<1> DEFINE S == {n \in Nat : n <= Bits => /\ Pow2[n] \in Nat \ {0}
                                          /\ \A m \in 0..n : m # n => Pow2[m] < Pow2[n]}
<1>1. 0 \in S BY PowersAre
<1>2. ASSUME NEW n \in Nat, n \in S PROVE n + 1 \in S
  <2> SUFFICES ASSUME n + 1 <= Bits
               PROVE  /\ Pow2[n + 1] \in Nat \ {0}
                      /\ \A m \in 0..n + 1 : m # n + 1 => Pow2[m] < Pow2[n + 1]
    OBVIOUS
  <2>1. n + 1 \in 1..Bits /\ (n + 1) - 1 = n /\ n <= Bits BY ListingOK
  <2>2. Pow2[n + 1] = 2 * Pow2[n] BY <2>1, PowersAre
  <2>3. Pow2[n] \in Nat \ {0} /\ \A m \in 0..n : m # n => Pow2[m] < Pow2[n] BY <1>2, <2>1
  <2>4. Pow2[n] < Pow2[n + 1] /\ Pow2[n + 1] \in Nat \ {0} BY <2>2, <2>3
  <2>5. ASSUME NEW m \in 0..n + 1, m # n + 1 PROVE Pow2[m] < Pow2[n + 1]
    <3>1. m \in 0..n BY <2>5
    <3>2. m \in 0..Bits BY <3>1, <2>1, ListingOK
    <3>3. Pow2[m] \in Nat BY <3>2, PowersAre
    <3>4. CASE m = n BY <3>4, <2>4
    <3>5. CASE m # n BY <3>1, <3>3, <3>5, <2>3, <2>4
    <3> QED BY <3>4, <3>5
  <2> QED BY <2>4, <2>5
<1> HIDE DEF S
<1>3. \A n \in Nat : n \in S BY <1>1, <1>2, NatInduces
<1>4. \A n \in 0..Bits : Pow2[n] \in Nat \ {0} BY <1>3, ListingOK DEF S
<1>5. ASSUME NEW m \in 0..Bits, NEW n \in 0..Bits, Pow2[m] = Pow2[n] PROVE m = n
  <2>1. m \in Nat /\ n \in Nat /\ m <= Bits /\ n <= Bits BY ListingOK
  <2>2. m < n => Pow2[m] < Pow2[n] BY <2>1, <1>3 DEF S
  <2>3. n < m => Pow2[n] < Pow2[m] BY <2>1, <1>3 DEF S
  <2>4. Pow2[m] \in Nat /\ Pow2[n] \in Nat BY <1>4
  <2> QED BY <2>1, <2>2, <2>3, <2>4, <1>5
<1> QED BY <1>4, <1>5

-----------------------------------------------------------------------------
\* Elements: intervals of one family.
Elements == [fam : Families, lo : Nat, hi : Nat]

KeptInv == elems \subseteq Elements /\ entries \subseteq Spellings

LEMMA SizeFacts ==
  /\ \A len \in 0..Bits : Size(len) \in Nat \ {0}
  /\ \A a, b \in 0..Bits : Size(a) = Size(b) => a = b
<1>1. \A a \in 0..Bits : Bits - a \in 0..Bits BY ListingOK
<1>2. \A a, b \in 0..Bits : Bits - a = Bits - b => a = b BY ListingOK
<1> QED BY <1>1, <1>2, PowersGrow DEF Size

\* A target's network is an element; that of a canonical one begins where it says.
LEMMA NetworkFacts ==
  ASSUME NEW t \in Spellings
  PROVE  /\ Network(t) \in Elements /\ Network(t).fam = t.fam
         /\ Network(t).hi - Network(t).lo + 1 = Size(t.len)
<1>1. t.fam \in Families /\ t.len \in 0..Bits /\ t.addr \in 0..TopAddr BY DEF Spellings
<1>2. t.addr \in Nat
  <2>1. TopAddr \in Int BY PowersAre, ListingOK DEF TopAddr
  <2> QED BY <2>1, <1>1
<1>3. Size(t.len) \in Nat \ {0} BY <1>1, SizeFacts
<1> DEFINE n == Size(t.len)
           first == (t.addr \div n) * n
<1>4. Network(t) = [fam |-> t.fam, lo |-> first, hi |-> first + n - 1] BY DEF Network
<1> HIDE DEF n
<1>5. t.addr \div n \in Nat BY <1>2, <1>3 DEF n
<1>6. first \in Nat BY <1>3, <1>5 DEF n
<1>7. n \in Nat \ {0} BY <1>3 DEF n
<1> HIDE DEF first
<1>8. first + n - 1 \in Nat /\ first + n - 1 - first + 1 = n BY <1>6, <1>7
<1>9. Network(t).fam = t.fam /\ Network(t).lo = first /\ Network(t).hi = first + n - 1
  BY <1>4
<1>10. Network(t) \in Elements BY <1>1, <1>4, <1>6, <1>8 DEF Elements
<1>11. Network(t).hi - Network(t).lo + 1 = n BY <1>6, <1>7, <1>9
<1>12. n = Size(t.len) BY DEF n
<1> QED BY <1>9, <1>10, <1>11, <1>12

LEMMA Multiples ==
  ASSUME NEW a \in Nat, NEW n \in Nat \ {0}, a % n = 0
  PROVE  (a \div n) * n = a
  OBVIOUS

\* What nft prints of a block is a target that is kept as that block.
LEMMA SpelledFacts ==
  ASSUME NEW e \in Elements, IsBlock(e)
  PROVE  Network(Spelled(e)) = e
<1>1. e.lo \in Nat /\ e.hi \in Nat /\ e = [fam |-> e.fam, lo |-> e.lo, hi |-> e.hi]
  BY DEF Elements
<1>2. PICK len \in 0..Bits : Size(len) = e.hi - e.lo + 1 /\ e.lo % Size(len) = 0
  BY DEF IsBlock
<1> DEFINE l == CHOOSE x \in 0..Bits : Size(x) = e.hi - e.lo + 1
<1>3. l \in 0..Bits /\ Size(l) = e.hi - e.lo + 1 BY <1>2
<1>4. Spelled(e) = [fam |-> e.fam, addr |-> e.lo, len |-> l] BY DEF Spelled
<1> HIDE DEF l
<1>5. Size(l) = Size(len) BY <1>2, <1>3
<1>6. Size(l) \in Nat \ {0} /\ e.lo % Size(l) = 0 BY <1>2, <1>3, <1>5, SizeFacts
<1>7. (e.lo \div Size(l)) * Size(l) = e.lo BY <1>1, <1>6, Multiples
<1>8. e.lo + Size(l) - 1 = e.hi BY <1>1, <1>3
<1>9. Network(Spelled(e)) = [fam |-> e.fam, lo |-> e.lo, hi |-> e.hi]
  BY <1>4, <1>7, <1>8 DEF Network
<1> QED BY <1>1, <1>9

\* What it prints of the network of a canonical target is that target.
LEMMA CanonicalFacts ==
  ASSUME NEW t \in Spellings, Canonical(t)
  PROVE  Spelled(Network(t)) = t
<1>1. t = [fam |-> t.fam, addr |-> t.addr, len |-> t.len] /\ t.len \in 0..Bits
  BY DEF Spellings
<1>2. /\ Network(t).fam = t.fam /\ Network(t).lo = t.addr
      /\ Network(t).hi - Network(t).lo + 1 = Size(t.len)
  BY NetworkFacts DEF Canonical
<1> DEFINE l == CHOOSE x \in 0..Bits : Size(x) = Network(t).hi - Network(t).lo + 1
<1>3. l \in 0..Bits /\ Size(l) = Size(t.len) BY <1>1, <1>2
<1>4. l = t.len BY <1>1, <1>3, SizeFacts
<1>5. Spelled(Network(t)) = [fam |-> t.fam, addr |-> t.addr, len |-> l] BY <1>2 DEF Spelled
<1> QED BY <1>1, <1>4, <1>5

-----------------------------------------------------------------------------
\* A pass

\* Every target listed is what nft prints of an element that is a block, and every element is
\* listed, but for those of a family read as text that are no blocks.
LEMMA ListingFacts ==
  ASSUME KeptInv, NEW way \in Ways, NEW listed \in Listing(way)
  PROVE  /\ \A r \in listed : \E e \in elems : IsBlock(e) /\ r = Spelled(e)
         /\ \A e \in elems : (IsBlock(e) /\ Spelled(e) \in listed)
                             \/ (way[e.fam] = "text" /\ ~IsBlock(e))
<1> DEFINE Of(fam) == {e \in elems : e.fam = fam}
           Blocks(fam) == {Spelled(e) : e \in {f \in Of(fam) : IsBlock(f)}}
           Lists == {UNION ReadSet(fam, way[fam]) : fam \in Families}
<1>1. /\ \A fam \in Families : ReadSet(fam, way[fam]) # {}
      /\ listed = UNION Lists
  BY DEF Listing
<1>2. ASSUME NEW fam \in Families
      PROVE  /\ ReadSet(fam, way[fam]) = {Blocks(fam)}
             /\ \A e \in Of(fam) : IsBlock(e) \/ way[fam] = "text"
  <2>1. ReadSet(fam, way[fam]) # {} BY <1>1
  <2>2. CASE way[fam] = "json"
    <3>1. ReadSet(fam, way[fam]) = ReadJson(Of(fam)) BY <2>2 DEF ReadSet
    <3>2. \A e \in Of(fam) : IsBlock(e) BY <2>1, <3>1 DEF ReadJson
    <3>3. ReadJson(Of(fam)) = {{Spelled(e) : e \in Of(fam)}} BY <3>2 DEF ReadJson
    <3>4. {f \in Of(fam) : IsBlock(f)} = Of(fam) BY <3>2
    <3> HIDE DEF Of
    <3> QED BY <3>1, <3>2, <3>3, <3>4
  <2>3. CASE way[fam] = "text"
    BY <2>3 DEF ReadSet, ReadText
  <2>4. CASE way[fam] \notin {"json", "text"}
    BY <2>1, <2>4 DEF ReadSet
  <2> QED BY <2>2, <2>3, <2>4
<1>3. \A fam \in Families : UNION ReadSet(fam, way[fam]) = Blocks(fam)
  <2> HIDE DEF Blocks
  <2> QED BY <1>2
<1>4. ASSUME NEW r \in listed PROVE \E e \in elems : IsBlock(e) /\ r = Spelled(e)
  <2>1. PICK fam \in Families : r \in UNION ReadSet(fam, way[fam]) BY <1>1
  <2>2. r \in Blocks(fam) BY <2>1, <1>3
  <2> QED BY <2>2
<1>5. ASSUME NEW e \in elems, IsBlock(e) PROVE Spelled(e) \in listed
  <2>1. e.fam \in Families BY DEF KeptInv, Elements
  <2>2. Spelled(e) \in Blocks(e.fam) BY <1>5
  <2>3. Blocks(e.fam) \in Lists BY <1>3, <2>1
  <2> HIDE DEF Blocks, Lists
  <2> QED BY <2>2, <2>3, <1>1
<1>6. ASSUME NEW e \in elems, ~IsBlock(e) PROVE way[e.fam] = "text"
  <2>1. e.fam \in Families BY DEF KeptInv, Elements
  <2> QED BY <2>1, <1>2, <1>6
<1> QED BY <1>4, <1>5, <1>6

\* A pass does not take a canonical entry for one that is not in the store.
LEMMA NotStale ==
  ASSUME KeptInv, NEW way \in Ways, NEW listed \in Listing(way),
         NEW t \in entries, Canonical(t)
  PROVE  Network(t) \notin Networks(Stale(listed))
<1> SUFFICES ASSUME NEW r \in listed, r \notin entries, Network(r) = Network(t) PROVE FALSE
  BY DEF Networks, Stale
<1>1. PICK e \in elems : IsBlock(e) /\ r = Spelled(e) BY ListingFacts
<1>2. e \in Elements /\ t \in Spellings BY DEF KeptInv
<1>3. Network(r) = e BY <1>1, <1>2, SpelledFacts
<1>4. Spelled(Network(t)) = t BY <1>2, CanonicalFacts
<1> QED BY <1>1, <1>3, <1>4

\* What a pass that could not rebuild the table has met: two entries that are one
\* network or overlap.
LEMMA PassIs ==
  ASSUME NEW way, Pass(way)
  PROVE  /\ entries' = entries
         /\ \/ \E listed \in Listing(way) : Fixes(listed)
            \/ elems' = Networks(entries)
            \/ /\ elems' = elems
               /\ \E s, t \in entries :
                    s # t /\ (Network(s) = Network(t) \/ Collide(Network(s), Network(t)))
  BY DEF Pass, Rebuilds

LEMMA KeptStep == KeptInv /\ [ListingNext]_listingVars => KeptInv'
<1> SUFFICES ASSUME KeptInv, [ListingNext]_listingVars PROVE KeptInv' OBVIOUS
<1>1. \A T \in SUBSET Spellings : Networks(T) \subseteq Elements BY NetworkFacts DEF Networks
<1>2. ASSUME NEW way \in Ways, Pass(way) PROVE KeptInv'
  <2>1. Networks(entries) \subseteq Elements BY <1>1 DEF KeptInv
  <2>2. ASSUME NEW listed, Fixes(listed) PROVE elems' \subseteq Elements
    <3>1. Networks(Missing(listed)) \subseteq Elements BY <1>1 DEF KeptInv, Missing
    <3> QED BY <2>2, <3>1 DEF Fixes, AddedTo, KeptInv
  <2> QED BY <1>2, <2>1, <2>2, PassIs DEF KeptInv
<1>3. ASSUME NEW t \in Spellings, Allows(t) PROVE KeptInv'
  <2>1. Network(t) \in Elements BY NetworkFacts
  <2>2. elems' \subseteq elems \cup {Network(t)} BY <1>3 DEF Allows, AddedTo
  <2>3. entries' = entries \cup {t} BY <1>3 DEF Allows
  <2> QED BY <2>1, <2>2, <2>3 DEF KeptInv
<1>4. ASSUME NEW t \in Spellings, Revokes(t) PROVE KeptInv'
  BY <1>4 DEF Revokes, KeptInv
<1>5. ASSUME NEW e \in Intervals, ByHand(e) PROVE KeptInv'
  <2>1. e \in Elements
    <3>1. TopAddr \in Int BY PowersAre, ListingOK DEF TopAddr
    <3>2. 0..TopAddr \subseteq Nat BY <3>1
    <3> QED BY <3>2 DEF Intervals, Elements
  <2> QED BY <1>5, <2>1 DEF ByHand, KeptInv
<1>6. CASE Uninstalls BY <1>6 DEF Uninstalls, KeptInv
<1>7. CASE UNCHANGED listingVars BY <1>7 DEF listingVars, KeptInv
<1> QED BY <1>2, <1>3, <1>4, <1>5, <1>6, <1>7 DEF ListingNext

\* A pass takes no entry out of the kernel that is spelled as nft spells it, and settles all
\* it can, whatever nft answers (reconcile.rs, parse.rs), for addresses of every width.
THEOREM PassHarmless == ListingSpec => PassSound
<1> DEFINE Keeps == \A t \in entries :
               Canonical(t) /\ Network(t) \in elems \ elems' => ~\E way \in Ways : Pass(way)
           Settles(way) ==
               (\A t \in entries : Canonical(t)) /\ Disjoint(Networks(entries)) /\ Pass(way)
               => LET hidden == {e \in elems : way[e.fam] = "text" /\ ~IsBlock(e)}
                      seen == {t \in entries : \A e \in elems : ~Collide(Network(t), e)}
                  IN Networks(seen) \subseteq elems'
                     /\ elems' \subseteq Networks(entries) \cup hidden
<1>1. ListingInit => KeptInv BY DEF ListingInit, KeptInv
<1>2. ASSUME KeptInv PROVE Keeps
  <2> SUFFICES ASSUME NEW t \in entries, Canonical(t), Network(t) \in elems,
                      Network(t) \notin elems', NEW way \in Ways, Pass(way)
               PROVE  FALSE
    OBVIOUS
  <2>1. Network(t) \in Networks(entries) BY DEF Networks
  <2>2. PICK listed \in Listing(way) : Fixes(listed) BY <2>1, PassIs
  <2>3. Network(t) \notin Networks(Stale(listed)) BY <1>2, <2>2, NotStale
  <2> QED BY <2>2, <2>3 DEF Fixes, AddedTo
<1>3. ASSUME KeptInv, NEW way \in Ways PROVE Settles(way)
  <2> DEFINE hidden == {e \in elems : way[e.fam] = "text" /\ ~IsBlock(e)}
             seen == {t \in entries : \A e \in elems : ~Collide(Network(t), e)}
  <2> SUFFICES ASSUME \A t \in entries : Canonical(t), Disjoint(Networks(entries)), Pass(way)
               PROVE  /\ Networks(seen) \subseteq elems'
                      /\ elems' \subseteq Networks(entries) \cup hidden
    OBVIOUS
  <2>1. CASE elems' = Networks(entries) BY <2>1 DEF Networks
  <2>2. CASE \E s, t \in entries :
               s # t /\ (Network(s) = Network(t) \/ Collide(Network(s), Network(t)))
    <3>1. PICK s, t \in entries :
            s # t /\ (Network(s) = Network(t) \/ Collide(Network(s), Network(t)))
      BY <2>2
    <3>2. Network(s) # Network(t)
      <4>1. s \in Spellings /\ t \in Spellings BY <1>3 DEF KeptInv
      <4>2. Spelled(Network(s)) = s /\ Spelled(Network(t)) = t BY <4>1, CanonicalFacts
      <4> QED BY <3>1, <4>2
    <3>3. ~Collide(Network(s), Network(t)) BY DEF Disjoint, Networks
    <3> QED BY <3>1, <3>2, <3>3
  <2>3. ASSUME NEW listed \in Listing(way), Fixes(listed)
        PROVE  Networks(seen) \subseteq elems' /\ elems' \subseteq Networks(entries) \cup hidden
    <3> DEFINE news == Networks(Missing(listed))
    <3>1. PICK wider \in AddedTo(elems, news) : elems' = wider \ Networks(Stale(listed))
      BY <2>3 DEF Fixes
    <3>2. /\ elems \subseteq wider /\ wider \subseteq elems \cup news
          /\ \A n \in news \ wider : \E e \in wider : Collide(n, e)
      BY <3>1 DEF AddedTo
    <3>3. news \subseteq Networks(entries) BY DEF Networks, Missing
    <3>4. ASSUME NEW t \in seen PROVE Network(t) \in elems'
      <4>1. t \in entries /\ Canonical(t) /\ t \in Spellings BY <1>3 DEF KeptInv
      <4>2. Network(t) \notin Networks(Stale(listed)) BY <1>3, <4>1, NotStale
      <4>3. Network(t) \in wider
        <5>1. CASE t \in listed
          <6>1. PICK e \in elems : IsBlock(e) /\ t = Spelled(e) BY <1>3, <5>1, ListingFacts
          <6>2. Network(t) = e BY <1>3, <6>1, SpelledFacts DEF KeptInv
          <6> QED BY <3>2, <6>2
        <5>2. CASE t \notin listed
          <6>1. Network(t) \in news BY <4>1, <5>2 DEF Networks, Missing
          <6> SUFFICES ASSUME NEW e \in wider, Collide(Network(t), e) PROVE FALSE
            BY <3>2, <6>1
          <6>2. e \notin elems OBVIOUS
          <6>3. e \in Networks(entries) BY <3>2, <3>3, <6>2
          <6>4. Network(t) \in Networks(entries) BY <4>1 DEF Networks
          <6> QED BY <6>3, <6>4 DEF Disjoint
        <5> QED BY <5>1, <5>2
      <4> QED BY <3>1, <4>2, <4>3
    <3>5. ASSUME NEW e \in elems', e \notin hidden PROVE e \in Networks(entries)
      <4>1. e \in wider /\ e \notin Networks(Stale(listed)) BY <3>1
      <4>2. CASE e \in news BY <4>2, <3>3
      <4>3. CASE e \in elems
        <5>1. IsBlock(e) /\ Spelled(e) \in listed BY <1>3, <3>5, <4>3, ListingFacts
        <5>2. Network(Spelled(e)) = e BY <1>3, <4>3, <5>1, SpelledFacts DEF KeptInv
        <5>3. Spelled(e) \in entries BY <4>1, <5>1, <5>2 DEF Networks, Stale
        <5> QED BY <5>2, <5>3 DEF Networks
      <4> QED BY <4>1, <4>2, <4>3, <3>2
    <3> QED BY <3>4, <3>5 DEF Networks
  <2> HIDE DEF hidden, seen
  <2> QED BY <2>1, <2>2, <2>3, PassIs
<1>4. KeptInv /\ [ListingNext]_listingVars => [Keeps]_listingVars BY <1>2
<1>5. KeptInv /\ [ListingNext]_listingVars => [\A way \in Ways : Settles(way)]_listingVars
  BY <1>3
<1> HIDE DEF Keeps
<1>6. ListingSpec => []KeptInv BY <1>1, KeptStep, PTL DEF ListingSpec
<1>7. ListingSpec => PassKeepsAgreed BY <1>4, <1>6, PTL DEF ListingSpec, PassKeepsAgreed, Keeps
<1>8. ListingSpec => PassSettles BY <1>5, <1>6, PTL DEF ListingSpec, PassSettles
<1> QED BY <1>7, <1>8 DEF PassSound

-----------------------------------------------------------------------------
(***************************************************************************)
(* What the sets can hold.  Networks end where the addresses do, since the *)
(* powers of two divide each other; and elements do not overlap.           *)
(***************************************************************************)

LEMMA PowersMultiply ==
  \A n \in 0..Bits : Pow2[Bits] = Pow2[n] * Pow2[Bits - n]
<1> DEFINE S == {n \in Nat : n <= Bits => Pow2[Bits] = Pow2[n] * Pow2[Bits - n]}
<1>1. 0 \in S
  <2>1. Bits \in 0..Bits /\ Bits - 0 = Bits BY ListingOK
  <2>2. Pow2[Bits] \in Nat BY <2>1, PowersAre
  <2> QED BY <2>1, <2>2, PowersAre
<1>2. ASSUME NEW n \in Nat, n \in S PROVE n + 1 \in S
  <2> SUFFICES ASSUME n + 1 <= Bits PROVE Pow2[Bits] = Pow2[n + 1] * Pow2[Bits - (n + 1)]
    OBVIOUS
  <2>1. n + 1 \in 1..Bits /\ (n + 1) - 1 = n /\ n <= Bits /\ n \in 0..Bits BY ListingOK
  <2>2. Bits - n \in 1..Bits /\ (Bits - n) - 1 = Bits - (n + 1) /\ Bits - (n + 1) \in 0..Bits
    BY <2>1, ListingOK
  <2>3. Pow2[n + 1] = 2 * Pow2[n] /\ Pow2[Bits - n] = 2 * Pow2[Bits - (n + 1)]
    BY <2>1, <2>2, PowersAre
  <2>4. Pow2[Bits] = Pow2[n] * Pow2[Bits - n] BY <1>2, <2>1
  <2>5. Pow2[n] \in Nat /\ Pow2[Bits - (n + 1)] \in Nat BY <2>1, <2>2, PowersAre
  <2>6. \A x, y \in Nat : x * (2 * y) = (2 * x) * y OBVIOUS
  <2> QED BY <2>3, <2>4, <2>5, <2>6
<1> HIDE DEF S
<1>3. \A n \in Nat : n \in S BY <1>1, <1>2, NatInduces
<1> QED BY <1>3, ListingOK DEF S

\* The last whole block below a multiple of its size ends below it.
LEMMA BlockEnds ==
  ASSUME NEW a \in Nat, NEW n \in Nat \ {0}, NEW k \in Nat, a < k * n
  PROVE  (a \div n) * n + n <= k * n
<1> DEFINE q == a \div n
<1>1. q \in Nat /\ q * n <= a OBVIOUS
<1> HIDE DEF q
<1>2. q * n < k * n BY <1>1
<1>3. q < k
  <2> SUFFICES ASSUME k <= q PROVE FALSE BY <1>1
  <2>1. PICK d \in Nat : q = k + d
    <3>1. q - k \in Nat /\ q = k + (q - k) BY <1>1
    <3> QED BY <3>1
  <2>2. q * n = k * n + d * n BY <2>1
  <2>3. d * n \in Nat BY <2>1
  <2> QED BY <1>2, <2>2, <2>3
<1>4. PICK d \in Nat : k = q + 1 + d
  <2>1. k - (q + 1) \in Nat /\ k = q + 1 + (k - (q + 1)) BY <1>1, <1>3
  <2> QED BY <2>1
<1>5. k * n = q * n + n + d * n BY <1>1, <1>4
<1>6. d * n \in Nat /\ q * n \in Nat BY <1>1, <1>4
<1>7. q * n + n <= k * n BY <1>5, <1>6
<1> QED BY <1>7 DEF q

\* A target's network is an interval of addresses.
LEMMA NetworksFit ==
  ASSUME NEW t \in Spellings
  PROVE  Network(t) \in Intervals
<1>1. t.fam \in Families /\ t.len \in 0..Bits /\ t.addr \in 0..TopAddr BY DEF Spellings
<1>2. Pow2[Bits] \in Nat \ {0} /\ TopAddr \in Nat /\ TopAddr + 1 = Pow2[Bits]
  <2>1. Bits \in 0..Bits BY ListingOK
  <2> QED BY <2>1, PowersGrow DEF TopAddr
<1>3. Pow2[Bits] = Pow2[t.len] * Size(t.len) BY <1>1, PowersMultiply DEF Size
<1> DEFINE n == Size(t.len)
           first == (t.addr \div n) * n
<1>4. Network(t) = [fam |-> t.fam, lo |-> first, hi |-> first + n - 1] BY DEF Network
<1>5. n \in Nat \ {0} /\ Pow2[t.len] \in Nat BY <1>1, SizeFacts, PowersAre
<1>6. t.addr \in Nat /\ t.addr < Pow2[t.len] * n BY <1>1, <1>2, <1>3
<1> HIDE DEF n
<1>7. first + n <= Pow2[t.len] * n BY <1>5, <1>6, BlockEnds
<1>8. t.addr \div n \in Nat BY <1>5, <1>6
<1>9. first \in Nat BY <1>5, <1>8
<1>10. first + n <= TopAddr + 1 BY <1>2, <1>3, <1>7 DEF n
<1> HIDE DEF first
<1>11. first \in 0..TopAddr /\ first + n - 1 \in 0..TopAddr /\ first <= first + n - 1
  BY <1>2, <1>5, <1>9, <1>10
<1> QED BY <1>1, <1>4, <1>11 DEF Intervals

\* What is added keeps clear of what is there.
LEMMA AddedIsDisjoint ==
  ASSUME NEW E, Disjoint(E), NEW news, NEW wider \in AddedTo(E, news)
  PROVE  wider \subseteq E \cup news /\ Disjoint(wider)
<1>1. /\ wider \subseteq E \cup news
      /\ \A n \in wider \ E : \A e \in wider : ~Collide(n, e)
  BY DEF AddedTo
<1>2. ASSUME NEW e \in wider, NEW f \in wider PROVE ~Collide(e, f)
  <2>1. CASE e \in E /\ f \in E BY <2>1 DEF Disjoint
  <2>2. CASE e \notin E BY <2>2, <1>1
  <2>3. CASE f \notin E
    <3>1. ~Collide(f, e) BY <2>3, <1>1
    <3> QED BY <3>1 DEF Collide
  <2> QED BY <2>1, <2>2, <2>3
<1> QED BY <1>1, <1>2 DEF Disjoint

\* A step keeps the types, and elements apart.
LEMMA ListingTypesStep == ListingTypeOK /\ [ListingNext]_listingVars => ListingTypeOK'
<1> SUFFICES ASSUME ListingTypeOK, [ListingNext]_listingVars PROVE ListingTypeOK' OBVIOUS
<1>t. /\ modern \in BOOLEAN /\ installed \in BOOLEAN /\ touches \in 0..MaxTouches
      /\ entries \subseteq Spellings /\ elems \subseteq Intervals
      /\ Disjoint(elems) /\ (~installed => elems = {})
  BY DEF ListingTypeOK
<1>s. \A T \in SUBSET Spellings : Networks(T) \subseteq Intervals BY NetworksFit DEF Networks
<1>d. \A E, F : F \subseteq E /\ Disjoint(E) => Disjoint(F) BY DEF Disjoint
<1>c. ASSUME Touch PROVE touches' \in 0..MaxTouches /\ modern' \in BOOLEAN
  <2>1. MaxTouches \in Nat BY ListingOK
  <2> QED BY <1>c, <1>t, <2>1 DEF Touch
<1>1. ASSUME NEW way \in Ways, Pass(way) PROVE ListingTypeOK'
  <2>1. modern' = modern /\ entries' = entries /\ touches' = touches BY <1>1 DEF Pass
  <2>2. ASSUME NEW listed \in Listing(way), Fixes(listed) PROVE ListingTypeOK'
    <3> DEFINE news == Networks(Missing(listed))
    <3>1. PICK wider \in AddedTo(elems, news) : elems' = wider \ Networks(Stale(listed))
      BY <2>2 DEF Fixes
    <3>2. wider \subseteq elems \cup news /\ Disjoint(wider) BY <1>t, <3>1, AddedIsDisjoint
    <3>3. news \subseteq Intervals BY <1>s, <1>t DEF Missing
    <3>4. elems' \subseteq Intervals /\ Disjoint(elems') BY <1>d, <1>t, <3>1, <3>2, <3>3
    <3>5. installed' = installed BY <2>2 DEF Fixes
    <3>6. ~installed => elems' = {}
      <4>1. CASE Families = {}
        <5>1. Intervals = {} BY <4>1 DEF Intervals
        <5> QED BY <5>1, <3>4
      <4>2. CASE Families # {}
        <5>1. PICK fam \in Families : ReadSet(fam, way[fam]) # {} BY <2>2, <4>2 DEF Listing
        <5>2. way[fam] \in {"json", "text"} BY <5>1 DEF ReadSet
        <5>3. installed BY <1>1, <5>2 DEF Pass, Possible
        <5> QED BY <5>3
      <4> QED BY <4>1, <4>2
    <3> QED BY <1>t, <2>1, <3>4, <3>5, <3>6 DEF ListingTypeOK
  <2>3. CASE Rebuilds
    <3>1. CASE Disjoint(Networks(entries)) /\ elems' = Networks(entries) /\ installed' = TRUE
      BY <1>s, <1>t, <2>1, <3>1 DEF ListingTypeOK
    <3>2. CASE UNCHANGED <<elems, installed>>
      BY <1>t, <2>1, <3>2 DEF ListingTypeOK
    <3> QED BY <2>3, <3>1, <3>2 DEF Rebuilds
  <2> QED BY <1>1, <2>2, <2>3 DEF Pass
<1>2. ASSUME NEW t \in Spellings, Allows(t) PROVE ListingTypeOK'
  <2>1. entries' \subseteq Spellings /\ installed' = installed BY <1>2, <1>t DEF Allows
  <2>2. elems' \subseteq Intervals /\ Disjoint(elems') /\ (~installed => elems' = {})
    <3>1. CASE installed
      <4>1. elems' \in AddedTo(elems, {Network(t)}) BY <1>2, <3>1 DEF Allows
      <4>2. elems' \subseteq elems \cup {Network(t)} /\ Disjoint(elems')
        BY <1>t, <4>1, AddedIsDisjoint
      <4> QED BY <1>t, <3>1, <4>2, NetworksFit
    <3>2. CASE ~installed BY <1>2, <1>t, <3>2 DEF Allows
    <3> QED BY <3>1, <3>2
  <2> QED BY <1>2, <1>c, <1>t, <2>1, <2>2 DEF Allows, ListingTypeOK
<1>3. ASSUME NEW t \in Spellings, Revokes(t) PROVE ListingTypeOK'
  BY <1>3, <1>c, <1>d, <1>t DEF Revokes, ListingTypeOK
<1>4. ASSUME NEW e \in Intervals, ByHand(e) PROVE ListingTypeOK'
  BY <1>4, <1>c, <1>d, <1>t DEF ByHand, ListingTypeOK
<1>5. CASE Uninstalls
  <2>1. Disjoint({}) BY DEF Disjoint
  <2> QED BY <1>5, <1>c, <1>t, <2>1 DEF Uninstalls, ListingTypeOK
<1>6. CASE UNCHANGED listingVars BY <1>6, <1>t DEF listingVars, ListingTypeOK
<1> QED BY <1>1, <1>2, <1>3, <1>4, <1>5, <1>6 DEF ListingNext

LEMMA ListingTypes == ListingSpec => []ListingTypeOK
<1>1. ListingInit => ListingTypeOK
  BY ListingOK DEF ListingInit, ListingTypeOK, Disjoint
<1>2. QED BY <1>1, ListingTypesStep, PTL DEF ListingSpec

-----------------------------------------------------------------------------
(***************************************************************************)
(* Side by side: a part that rests does not change, so each part behaves   *)
(* as it does alone, and what is proved of it holds among the others.      *)
(***************************************************************************)

\* Every behaviour of the parts together is one of each of them.
THEOREM HostParts == AllSpec => Spec /\ SecretsSpec /\ ConfSpec /\ ListingSpec
<1>1. AllInit => Init /\ SecretsInit /\ ConfInit /\ ListingInit BY DEF AllInit
<1>2. [AllNext]_all =>
        /\ [Next]_vars /\ [SecretsNext]_secretVars
        /\ [ConfNext]_confVars /\ [ListingNext]_listingVars
  BY Zenon DEF AllNext, all
<1>3. QED BY <1>1, <1>2, PTL DEF AllSpec, Spec, SecretsSpec, ConfSpec, ListingSpec

\* The values all parts range over; nft's sets hold no two intervals that meet, and none
\* without the table.
THEOREM HostTypes == AllSpec => []AllTypeOK
<1>1. SshdInv => TypeOK BY DEF SshdInv
<1>2. GoneInv => ConfTypeOK BY DEF GoneInv
<1>3. QED
  BY <1>1, <1>2, HostParts, SshdInvariant, SecretsInvariant, Implied, GoneInvariant, ListingTypes,
     PTL DEF AllTypeOK
=============================================================================
