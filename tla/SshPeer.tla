------------------------------- MODULE SshPeer -------------------------------
(***************************************************************************)
(* Where the client behind a tunnel comes from (whoami).  The agent sees   *)
(* the loopback connection sshd forwards to it; the sshd process that owns *)
(* its other end also owns the connection of the client.  The agent reads  *)
(* the two tables of the kernel's TCP sockets one after the other, then    *)
(* which sockets that process owns, while sessions open and close          *)
(* connections.  Sockets are never numbered alike; a table is read at one  *)
(* moment.  The agent asks once per connection and keeps the answer.       *)
(***************************************************************************)
EXTENDS Naturals, FiniteSets

CONSTANTS
  Remotes,      \* addresses sessions are connected with
  Home,         \* the loopback address
  MaxSockets    \* bound: connections beside the two of the session asking

ASSUME PeerOK == Home \notin Remotes /\ MaxSockets \in Nat

Owners == {"mine", "theirs"}   \* the session asking, and another one
Tables == {"tcp", "tcp6"}
Ports == {"ssh", "other"}   \* local ports: the configured port of sshd, and others

VARIABLES
  sockets,   \* TCP sockets of the host: of whom, in which table, between what
  opened,    \* sockets opened so far
  looking,   \* how far the agent is
  rows,      \* rows it has read
  owned,     \* sockets it has seen the session own
  answer,    \* its answer: an address, or Home when it has found none
  gone       \* history: the client's connection has ended

peerVars == <<sockets, opened, looking, rows, owned, answer, gone>>

Socket(n, of, table, port, remote) ==
  [n |-> n, of |-> of, table |-> table, port |-> port, remote |-> remote, established |-> TRUE]

\* The client's own connection is socket 1, the tunnel's end socket 2.
Client == CHOOSE s \in sockets : s.n = 1

-----------------------------------------------------------------------------
\* sshd and its sessions

\* Another session begins, by its client's connection, or a session opens one to
\* somewhere its client has asked for.
SocketOpens(of, table, port, remote) ==
  /\ opened < MaxSockets /\ opened' = opened + 1
  /\ port = "ssh" => of = "theirs"
  /\ sockets' = sockets \cup {Socket(opened + 3, of, table, port, remote)}
  /\ UNCHANGED <<looking, rows, owned, answer, gone>>

SocketCloses(s) ==
  /\ s.n > 2 /\ sockets' = sockets \ {s}
  /\ UNCHANGED <<opened, looking, rows, owned, answer, gone>>

\* The client leaves; its session, and the tunnel, end a little later.
ClientLeaves ==
  /\ ~gone /\ gone' = TRUE
  /\ sockets' = {IF s.n = 1 THEN [s EXCEPT !.established = FALSE] ELSE s : s \in sockets}
  /\ UNCHANGED <<opened, looking, rows, owned, answer>>

-----------------------------------------------------------------------------
\* resolve

ReadTable(table) ==
  /\ looking = (IF table = "tcp" THEN "tcp" ELSE "tcp6")
  /\ rows' = rows \cup {s \in sockets : s.table = table}
  /\ looking' = (IF table = "tcp" THEN "tcp6" ELSE "owner")
  /\ UNCHANGED <<sockets, opened, owned, answer, gone>>

Owned == {s.n : s \in {s \in sockets : s.of = "mine"}}

\* Without the tunnel in the tables, or its owner in /proc, there is no answer.
FindOwner ==
  /\ looking = "owner"
  /\ \/ /\ \E r \in rows : r.n = 2
        /\ owned' = Owned /\ looking' = "pick"
     \/ owned' = {} /\ looking' = "done"
  /\ UNCHANGED <<sockets, opened, rows, answer, gone>>

Candidates == {r \in rows : r.n \in owned /\ r.established /\ r.remote # Home}

\* Mutant: with several candidates any of them will do.
PickAny == Candidates

\* A candidate on the port of sshd is preferred to one that is alone.
Pick ==
  LET onPort == {r \in Candidates : r.port = "ssh"}
  IN IF onPort # {} THEN onPort ELSE IF Cardinality(Candidates) = 1 THEN Candidates ELSE {}

PickClient ==
  /\ looking = "pick" /\ looking' = "done"
  /\ \/ \E r \in Pick : answer' = r.remote
     \/ Pick = {} /\ answer' = Home
  /\ UNCHANGED <<sockets, opened, rows, owned, gone>>

PeerInit ==
  /\ \E table \in Tables, port \in Ports, remote \in Remotes \cup {Home} :
       sockets = {Socket(1, "mine", table, port, remote), Socket(2, "mine", "tcp", "other", Home)}
  /\ opened = 0 /\ looking = "tcp" /\ rows = {} /\ owned = {} /\ answer = Home /\ gone = FALSE

PeerNext ==
  \/ \E of \in Owners, table \in Tables, port \in Ports, remote \in Remotes : SocketOpens(of, table, port, remote)
  \/ \E s \in sockets : SocketCloses(s)
  \/ ClientLeaves \/ (\E table \in Tables : ReadTable(table)) \/ FindOwner \/ PickClient

PeerSpec == PeerInit /\ [][PeerNext]_peerVars

-----------------------------------------------------------------------------
\* Properties

\* The address a client is told to be its own is its own, or none is found,
\* whatever port it came in by, whatever its session and others open and close
\* meanwhile (resolve).  A client that is itself behind a loopback proxy, or that
\* has left, is not promised that.
OwnAddress ==
  looking = "done" /\ ~gone /\ Client.remote # Home => answer \in {Client.remote, Home}
==============================================================================
