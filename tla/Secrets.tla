------------------------------- MODULE Secrets -------------------------------
(***************************************************************************)
(* The two secrets an agent makes for itself on first use: the access key  *)
(* (access.key), which the handshake's pre-shared key and the SSH knock    *)
(* are derived from, and the Noise identity (noise_static.key).  Neither   *)
(* file has a lock; the service and every console command that needs a     *)
(* secret load it, or make it when it is not there.  Writing truncates the *)
(* file first, so that a reader, and a crash, can meet an empty one.       *)
(*                                                                         *)
(* Secrets are numbers, new ones differ; 0 is none.                        *)
(***************************************************************************)
EXTENDS Naturals, Sequences

CONSTANTS
  Service,     \* the service process
  Commands,    \* processes of console commands
  MaxSecrets,  \* bound: secrets made
  MaxResets,   \* bound: access-key --reset
  MaxDeaths,   \* bound: processes dying
  MaxRuns      \* bound: starts of the service and console commands

ASSUME SecretsOK ==
  /\ Service \notin Commands
  /\ MaxSecrets \in Nat /\ MaxResets \in Nat /\ MaxDeaths \in Nat /\ MaxRuns \in Nat

Files == {"key", "identity"}
Processes == Commands \cup {Service}

VARIABLES
  file,      \* per file: whether it is there, and the secret in it
  proc,      \* per process: where it is and the secrets it holds
  made,      \* secrets made so far
  resets, deaths, runs,
  raced,     \* history: two processes were making the same secret at once
  outdated   \* history: another process wrote access.key since the service
             \* began to start

secretVars == <<file, proc, made, resets, deaths, runs, raced, outdated>>

\* What a process loads, in order; "knock" and "psk" both come from access.key.
\* The service takes its two from loads of its own, and `ssh-expose --allowlist`
\* ends with a restart of the service.
Program == [
  run    |-> <<"knock", "identity", "psk">>,
  pair   |-> <<"identity", "psk">>,
  key    |-> <<"psk">>,
  reset  |-> <<"psk">>,
  expose |-> <<"knock", "restart">>]

FileOf(slot) == IF slot = "identity" THEN "identity" ELSE "key"

NoProc == [runs |-> "nothing", at |-> 0, doing |-> "ready", knock |-> 0, identity |-> 0, psk |-> 0]

Running(p) == proc[p].runs \in DOMAIN Program /\ proc[p].at \in 1..Len(Program[proc[p].runs])
Slot(p) == Program[proc[p].runs][proc[p].at]
At(p, doing, slots) == Running(p) /\ proc[p].doing = doing /\ Slot(p) \in slots
Secrets == {"knock", "identity", "psk"}

\* The process holds s in its slot and goes on; the last step of a command that
\* tells nobody leaves nothing behind.
Holds(p, s) == [proc EXCEPT ![p][Slot(p)] = s, ![p].at = @ + 1, ![p].doing = "ready"]

-----------------------------------------------------------------------------
\* load_or_generate

\* A key file with something in it, or an identity of the right length.
Whole(f) == file[f].there /\ file[f].secret # 0

Load(p) ==
  /\ At(p, "ready", Secrets) /\ proc[p].runs # "reset"
  /\ Whole(FileOf(Slot(p)))
  /\ proc' = Holds(p, file[FileOf(Slot(p))].secret)
  /\ UNCHANGED <<file, made, resets, deaths, runs, raced, outdated>>

\* Mutant: the error is passed over.
KeyPassedOver(p) ==
  /\ At(p, "ready", {"knock", "psk"}) /\ proc[p].runs # "reset"
  /\ file["key"].there /\ ~Whole("key")
  /\ proc' = Holds(p, 0)
  /\ UNCHANGED <<file, made, resets, deaths, runs, raced, outdated>>

\* An access key that is there but empty is an error; the process ends.
KeyDamaged(p) ==
  /\ At(p, "ready", {"knock", "psk"}) /\ proc[p].runs # "reset"
  /\ file["key"].there /\ ~Whole("key")
  /\ proc' = [proc EXCEPT ![p] = NoProc]
  /\ UNCHANGED <<file, made, resets, deaths, runs, raced, outdated>>

\* Mutant: a key that is there is not used.
MakesKey(p) ==
  \/ proc[p].runs = "reset" \/ Slot(p) # "identity"
  \/ Slot(p) = "identity" /\ ~Whole("identity")

\* Mutant: an identity that is there is not used.
MakesIdentity(p) ==
  \/ proc[p].runs = "reset"
  \/ Slot(p) = "identity"
  \/ Slot(p) # "identity" /\ ~file["key"].there

\* A missing key, an identity that is missing or damaged, a reset.
Makes(p) ==
  \/ proc[p].runs = "reset"
  \/ Slot(p) = "identity" /\ ~Whole("identity")
  \/ Slot(p) # "identity" /\ ~file["key"].there

Making(p, f) ==
  /\ At(p, "make", Secrets) \/ At(p, "write", Secrets)
  /\ FileOf(Slot(p)) = f

Decide(p) ==
  /\ At(p, "ready", Secrets) /\ Makes(p)
  /\ proc' = [proc EXCEPT ![p].doing = "make"]
  /\ raced' = (raced \/ \E q \in Processes \ {p} : Making(q, FileOf(Slot(p))))
  /\ UNCHANGED <<file, made, resets, deaths, runs, outdated>>

Outdates(p) == outdated' = (outdated \/ (p # Service /\ FileOf(Slot(p)) = "key"))

Truncate(p) ==
  /\ At(p, "make", Secrets)
  /\ file' = [file EXCEPT ![FileOf(Slot(p))] = [there |-> TRUE, secret |-> 0]]
  /\ proc' = [proc EXCEPT ![p].doing = "write"]
  /\ Outdates(p)
  /\ UNCHANGED <<made, resets, deaths, runs, raced>>

WriteSecret(p) ==
  /\ At(p, "write", Secrets) /\ made < MaxSecrets /\ made' = made + 1
  /\ file' = [file EXCEPT ![FileOf(Slot(p))] = [there |-> TRUE, secret |-> made']]
  /\ proc' = Holds(p, made')
  /\ Outdates(p)
  /\ UNCHANGED <<resets, deaths, runs, raced>>

-----------------------------------------------------------------------------
\* Processes

Start(p, prog) ==
  /\ ~Running(p) /\ (p = Service) = (prog = "run")
  /\ p = Service => proc[p].runs = "nothing"
  /\ runs < MaxRuns /\ runs' = runs + 1
  /\ resets' = IF prog = "reset" THEN resets + 1 ELSE resets
  /\ resets' <= MaxResets
  /\ proc' = [proc EXCEPT ![p] = [NoProc EXCEPT !.runs = prog, !.at = 1]]
  /\ outdated' = (outdated /\ p # Service)
  /\ UNCHANGED <<file, made, deaths, raced>>

\* The last step of ssh-expose: systemd starts the service anew.
RestartService(p) ==
  /\ At(p, "ready", {"restart"})
  /\ proc' = [proc EXCEPT ![p] = NoProc,
                          ![Service] = IF proc[Service].runs = "nothing" THEN NoProc
                                       ELSE [NoProc EXCEPT !.runs = "run", !.at = 1]]
  /\ outdated' = (outdated /\ proc[Service].runs = "nothing")
  /\ UNCHANGED <<file, made, resets, deaths, runs, raced>>

\* Crash, stop or a restart by hand.
Dies(p) ==
  /\ proc[p].runs # "nothing" /\ deaths < MaxDeaths /\ deaths' = deaths + 1
  /\ proc' = [proc EXCEPT ![p] = NoProc]
  /\ UNCHANGED <<file, made, resets, runs, raced, outdated>>

SecretsInit ==
  /\ file = [f \in Files |-> [there |-> FALSE, secret |-> 0]]
  /\ proc = [p \in Processes |-> NoProc]
  /\ made = 0 /\ resets = 0 /\ deaths = 0 /\ runs = 0
  /\ raced = FALSE /\ outdated = FALSE

SecretsNext ==
  \E p \in Processes :
    \/ Load(p) \/ KeyDamaged(p) \/ Decide(p) \/ Truncate(p) \/ WriteSecret(p)
    \/ \E prog \in DOMAIN Program : Start(p, prog)
    \/ RestartService(p) \/ Dies(p)

SecretsSpec == SecretsInit /\ [][SecretsNext]_secretVars

-----------------------------------------------------------------------------
\* Properties

Held == [runs : DOMAIN Program \cup {"nothing"}, at : 0..4, doing : {"ready", "make", "write"},
         knock : 0..MaxSecrets, identity : 0..MaxSecrets, psk : 0..MaxSecrets]

SecretsTypeOK ==
  /\ file \in [Files -> [there : BOOLEAN, secret : 0..MaxSecrets]]
  /\ proc \in [Processes -> Held] /\ made \in 0..MaxSecrets
  /\ resets \in 0..MaxResets /\ deaths \in 0..MaxDeaths /\ runs \in 0..MaxRuns
  /\ raced \in BOOLEAN /\ outdated \in BOOLEAN
  /\ \A p \in Processes : \A i \in 1..(proc[p].at - 1) :
       LET slot == Program[proc[p].runs][i] IN slot \in Secrets => proc[p][slot] # 0

KeysHeld == (UNION {{proc[p].knock, proc[p].psk} : p \in Processes}) \ {0}
IdentitiesHeld == {proc[p].identity : p \in Processes} \ {0}

\* Whoever starts first, service or command, and wherever one of them dies: as
\* long as no two make the same secret at once and nobody resets it, all hold and
\* print the same key and the same identity for good (load_or_generate), so that
\* what `pair` printed opens the service.
OneSecret ==
  ~raced /\ resets = 0 =>
    /\ \A k, l \in KeysHeld : k = l
    /\ \A i, j \in IdentitiesHeld : i = j

\* A service that is up, and whose access.key nobody else wrote while it started
\* or since, took knock and handshake from one key, the one in the file; its
\* identity is the one in the file: a device that can knock can also talk to it,
\* also after resets.
Up == proc[Service].runs = "run" /\ ~Running(Service)
StartUsesFile ==
  Up /\ ~outdated /\ ~raced =>
    /\ proc[Service].knock = file["key"].secret /\ proc[Service].psk = file["key"].secret
    /\ proc[Service].identity = file["identity"].secret

\* One key and one identity on the host, and the service runs with them.
SecretsAgree == OneSecret /\ StartUsesFile
==============================================================================
