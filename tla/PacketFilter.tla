----------------------------- MODULE PacketFilter -----------------------------
(***************************************************************************)
(* What the rules of the agent do to packets.  render_apply turns settings *)
(* into the table inet ipgate (input chain, knock set, forward gate) and   *)
(* render_nat_apply turns forwards into ip ipgate_nat; the kernel runs     *)
(* packets through both while the agent loads table after table.  A chain  *)
(* is the sequence of its rules and the first that matches decides.        *)
(*                                                                         *)
(* The pairs of rules for IPv4 and IPv6 are one rule here, and the socket  *)
(* a packet belongs to is left out: a packet is new, belongs to a tracked  *)
(* flow from its source to its port, or fits none (ct state).              *)
(***************************************************************************)
EXTENDS Naturals, FiniteSets, SequencesExt

CONSTANTS
  Sources,       \* remote addresses
  Local,         \* the host itself, over lo
  MaxPort,       \* the highest port, 2^16 - 1 in the code
  SshPort,       \* TCP port of sshd
  KnockPort,     \* UDP port of the knock, derived from the access key
  KnockTtl,      \* seconds (ticks) a knock counts
  ConfigPublic,  \* public ports of config.json: [protos, lo, hi], in order
  Requests,      \* public ports clients ask for
  Dnats,         \* translations tables ask for: [protos, lo, hi, to]
  MaxPublic,     \* bound: public ports clients add
  MaxFlows       \* bound: tracked flows

PortNumbers == 0..MaxPort
Protos == {"tcp", "udp"}
PublicPorts == [protos : SUBSET Protos, lo : PortNumbers, hi : PortNumbers]

ASSUME PacketFilterOK ==
  /\ Local \notin Sources /\ SshPort \in PortNumbers \ {0} /\ KnockPort \in PortNumbers \ {0}
  /\ {MaxPort, KnockTtl, MaxPublic, MaxFlows} \subseteq Nat /\ KnockTtl > 0
  \* AgentConfig::validate refuses a range that starts after its end
  /\ ConfigPublic \in Seq(PublicPorts) /\ \A r \in ToSet(ConfigPublic) : r.lo <= r.hi
  /\ Requests \subseteq PublicPorts

VARIABLES
  public,   \* public ports in the store, in the order they were added
  fwd,      \* the forward switch in the store: forwards for the allowlist only
  tab,      \* the table inet ipgate as loaded: SSH for the allowlist only,
            \* knock rules, forward gate, elements of public_tcp and public_udp
  list,     \* elements of allow4 and allow6
  knocked,  \* seconds left in knock4 and knock6, 0 for no element
  dnats,    \* translations in force
  flows,    \* connections from outside that conntrack knows
  since     \* history: seconds since a source knocked, KnockTtl for long ago

filterVars == <<public, fwd, tab, list, knocked, dnats, flows, since>>

-----------------------------------------------------------------------------
\* The elements of the port sets

Covers(r, port) == r.lo <= port /\ port <= r.hi

\* Mutant: a range that begins with the SSH port is overlooked.
CoversSshInside(r) == "tcp" \in r.protos /\ r.lo < SshPort /\ SshPort <= r.hi

CoversSsh(r) == "tcp" \in r.protos /\ Covers(r, SshPort)

\* Mutant: the end of the last range is increased in 16 bits.
MergeWrapping(acc, p) ==
  IF acc # <<>> /\ p.lo <= (Last(acc).hi + 1) % (MaxPort + 1)
  THEN [acc EXCEPT ![Len(acc)].hi = Max({@, p.hi})]
  ELSE Append(acc, p)

\* A range that begins in or right after the last one extends it.
Merge(acc, p) ==
  IF acc # <<>> /\ p.lo <= Last(acc).hi + 1
  THEN [acc EXCEPT ![Len(acc)].hi = Max({@, p.hi})]
  ELSE Append(acc, p)

\* sort_by_key: behind the ranges that begin no later.
Insert(s, p) ==
  LET behind == CHOOSE k \in 0..Len(s) : \A i \in DOMAIN s : i <= k <=> s[i].lo <= p.lo
  IN InsertAt(s, behind + 1, p)
Sorted(rs) ==
  LET s[n \in 0..Len(rs)] == IF n = 0 THEN <<>> ELSE Insert(s[n - 1], rs[n]) IN s[Len(rs)]

Merged(rs) ==
  LET m[n \in 0..Len(rs)] == IF n = 0 THEN <<>> ELSE Merge(m[n - 1], rs[n]) IN m[Len(rs)]

render_ports(rs) == Merged(Sorted(rs))

\* The ranges of a protocol: those of config.json, then those clients added.
PortsFor(proto, client) ==
  LET asked == ConfigPublic \o client
      f[n \in 0..Len(asked)] ==
        IF n = 0 THEN <<>>
        ELSE IF proto \in asked[n].protos THEN Append(f[n - 1], [lo |-> asked[n].lo, hi |-> asked[n].hi])
        ELSE f[n - 1]
  IN f[Len(asked)]

InSet(rs, port) == \E i \in DOMAIN rs : Covers(rs[i], port)

-----------------------------------------------------------------------------
\* Packets

\* "infra" are the ICMP types for everyone, "echo" is ping.  dest tells packets
\* for the host from those it routes for others.
Packets ==
  {p \in [src : Sources \cup {Local}, dest : {"host", "beyond"}, proto : Protos, dport : PortNumbers,
          token : BOOLEAN, ct : {"new", "established", "invalid"}, dnat : BOOLEAN] :
     (p.src = Local \/ p.dest = "beyond" => ~p.dnat) /\ (p.token => p.proto = "udp" /\ p.dport = KnockPort)}
    \cup [src : Sources, dest : {"host"}, proto : {"infra", "echo"}, dport : {0},
          token : {FALSE}, ct : {"new"}, dnat : {FALSE}]

FlowOf(p) == [src |-> p.src, dest |-> p.dest, proto |-> p.proto, dport |-> p.dport, dnat |-> p.dnat]

\* Translation sees new packets that come in for the host; later packets of a
\* flow follow its first one.
Translations(p) == {d \in dnats : p.proto \in d.protos /\ Covers(d, p.dport)}
Arrives(p) ==
  \/ p.proto \in {"infra", "echo"}
  \/ p.ct = "established" /\ FlowOf(p) \in flows
  \/ p.ct = "new" /\ p.dnat = (p.dest = "host" /\ p.src # Local /\ Translations(p) # {})
  \/ p.ct = "invalid" /\ ~p.dnat

\* Mutant: the gate looks at the port the packet was translated to.
GatePortRewritten(p) ==
  IF Translations(p) = {} THEN p.dport ELSE (CHOOSE d \in Translations(p) : TRUE).to

\* ct original proto-dst: the port before translation.
GatePort(p) == p.dport

\* Mutant: everything sent to the knock port is taken for a knock.
KnockRuleByPort(p) == p.proto = "udp" /\ p.dport = KnockPort

\* udp dport and the first 16 bytes of the payload.
KnockRule(p) == p.proto = "udp" /\ p.dport = KnockPort /\ p.token

\* Which rules match a packet; "rest" is everything else the gate looks at.
Matches(p) ==
  [established |-> p.ct = "established",
   invalid     |-> p.ct = "invalid",
   lo          |-> p.src = Local,
   icmp        |-> p.proto = "infra",
   knock       |-> KnockRule(p),
   knocked_ssh |-> p.proto = "tcp" /\ p.dport = SshPort /\ p.src \in Sources /\ knocked[p.src] > 0,
   ssh         |-> p.proto = "tcp" /\ p.dport = SshPort,
   public_tcp  |-> p.proto = "tcp" /\ InSet(tab.tcp, p.dport),
   public_udp  |-> p.proto = "udp" /\ InSet(tab.udp, p.dport),
   listed      |-> p.src \in list,
   gate_listed |-> p.ct = "new" /\ p.dnat /\ p.src \in list,
   gate_tcp    |-> p.ct = "new" /\ p.dnat /\ p.proto = "tcp" /\ InSet(tab.tcp, GatePort(p)),
   gate_udp    |-> p.ct = "new" /\ p.dnat /\ p.proto = "udp" /\ InSet(tab.udp, GatePort(p)),
   gate_rest   |-> p.ct = "new" /\ p.dnat]

Drops == {"invalid", "knock", "gate_rest", "policy_drop"}

\* Mutant: the knock rules come first.
InputKnockingFirst(t) ==
  (IF t.knock THEN <<"knock">> ELSE <<>>) \o <<"established", "invalid", "lo", "icmp">>
    \o (IF ~t.ssh THEN <<"ssh">> ELSE IF t.knock THEN <<"knocked_ssh">> ELSE <<>>)
    \o <<"public_tcp", "public_udp", "listed">>

\* The input chain.
Input(t) ==
  <<"established", "invalid", "lo", "icmp">>
    \o (IF t.knock THEN <<"knock">> ELSE <<>>)
    \o (IF ~t.ssh THEN <<"ssh">> ELSE IF t.knock THEN <<"knocked_ssh">> ELSE <<>>)
    \o <<"public_tcp", "public_udp", "listed">>

\* The forward chain, loaded with the gate only.
Forward(t) ==
  IF t.gate THEN <<"established", "gate_listed", "gate_tcp", "gate_udp", "gate_rest">> ELSE <<>>

Routed(p) == p.dnat \/ p.dest = "beyond"
\* The rule that decides; the policies are to drop input and to forward.
Decider(p) ==
  LET matches == Matches(p)
      chain == IF Routed(p) THEN Forward(tab) ELSE Input(tab)
      hits == {i \in DOMAIN chain : matches[chain[i]]}
  IN IF hits # {} THEN chain[Min(hits)] ELSE IF Routed(p) THEN "policy_accept" ELSE "policy_drop"
Accepted(p) == Decider(p) \notin Drops

-----------------------------------------------------------------------------
\* Loading tables

Table(ssh, knock, gate, client) ==
  [ssh |-> ssh, knock |-> knock, gate |-> gate,
   tcp |-> render_ports(PortsFor("tcp", client)), udp |-> render_ports(PortsFor("udp", client))]

\* A new table has empty knock sets; the list is rendered again and conntrack
\* keeps its flows.
LoadTable(t) ==
  /\ tab' = t
  /\ knocked' = [s \in Sources |-> 0] /\ since' = [s \in Sources |-> KnockTtl]
  /\ UNCHANGED <<list, dnats, flows>>

\* The knock rules may be given up, the gate too (apply_ruleset).
Rerender ==
  /\ \E knock \in {FALSE, tab.ssh}, gate \in {FALSE, fwd} : LoadTable(Table(tab.ssh, knock, gate, public))
  /\ UNCHANGED <<public, fwd>>

\* SSH for the allowlist only needs knock rules, a list, and no public port on SSH.
SwitchSsh(on) ==
  /\ on => list # {} /\ \A r \in ToSet(ConfigPublic \o public) : ~CoversSsh(r)
  /\ \E gate \in {FALSE, fwd} : LoadTable(Table(on, on, gate, public))
  /\ UNCHANGED <<public, fwd>>

SwitchForward(on) ==
  /\ \E knock \in {FALSE, tab.ssh} : LoadTable(Table(tab.ssh, knock, on, public))
  /\ fwd' = on /\ UNCHANGED public

AddPublicPort(r) ==
  /\ r.lo # 0 /\ r.lo <= r.hi /\ r \notin ToSet(public) /\ Len(public) < MaxPublic
  /\ tab.ssh => ~CoversSsh(r)
  /\ public' = Append(public, r)
  /\ \E knock \in {FALSE, tab.ssh}, gate \in {FALSE, fwd} : LoadTable(Table(tab.ssh, knock, gate, public'))
  /\ UNCHANGED fwd

RemovePublicPort(r) ==
  /\ \E i \in DOMAIN public : public[i] = r /\ public' = RemoveAt(public, i)
  /\ \E knock \in {FALSE, tab.ssh}, gate \in {FALSE, fwd} : LoadTable(Table(tab.ssh, knock, gate, public'))
  /\ UNCHANGED fwd

\* Elements of the list come and go without a new table.
Relist(s) ==
  /\ list' = IF s \in list THEN list \ {s} ELSE list \cup {s}
  /\ UNCHANGED <<public, fwd, tab, knocked, dnats, flows, since>>

\* The agent, dnat or another tool loads its translations.
ChangeDnats(D) ==
  /\ D # dnats /\ dnats' = D
  /\ UNCHANGED <<public, fwd, tab, list, knocked, flows, since>>

-----------------------------------------------------------------------------
\* Packets and time

\* Mutant: a knock does not prolong an element that is there.
KnockedOnce(p) == [knocked EXCEPT ![p.src] = IF @ > 0 THEN @ ELSE KnockTtl]

\* The source is recorded, or its time starts anew.
Knocked(p) == [knocked EXCEPT ![p.src] = KnockTtl]

\* What a client means by a knock: the token, sent anew to the knock port from
\* outside, with no forward on that port and a table that knows of knocks.
Knocks(p) ==
  /\ p.token /\ p.dport = KnockPort /\ p.ct = "new" /\ p.src \in Sources
  /\ p.dest = "host" /\ ~p.dnat /\ tab.knock

Receive(p) ==
  /\ Arrives(p)
  /\ knocked' = IF Decider(p) = "knock" THEN Knocked(p) ELSE knocked
  /\ flows' = IF Accepted(p) /\ p.ct = "new" /\ p.proto \in Protos /\ p.src # Local
              THEN flows \cup {FlowOf(p)} ELSE flows
  /\ Cardinality(flows') <= MaxFlows
  /\ since' = IF Knocks(p) THEN [since EXCEPT ![p.src] = 0] ELSE since
  /\ UNCHANGED <<public, fwd, tab, list, dnats>>

\* Mutant: a timeout runs on below zero.
LessUnclamped(n) == n - 1

Less(n) == IF n > 0 THEN n - 1 ELSE 0

Tick ==
  /\ knocked' = [s \in Sources |-> Less(knocked[s])]
  /\ since' = [s \in Sources |-> Min({since[s] + 1, KnockTtl})]
  /\ UNCHANGED <<public, fwd, tab, list, dnats, flows>>

FlowEnds(f) == flows' = flows \ {f} /\ UNCHANGED <<public, fwd, tab, list, knocked, dnats, since>>

-----------------------------------------------------------------------------
FilterInit ==
  /\ public = <<>> /\ fwd = FALSE /\ tab = Table(FALSE, FALSE, FALSE, <<>>)
  /\ list = {} /\ dnats = {} /\ flows = {}
  /\ knocked = [s \in Sources |-> 0] /\ since = [s \in Sources |-> KnockTtl]

SwitchCall ==
  \/ Rerender
  \/ \E on \in BOOLEAN : SwitchSsh(on) \/ SwitchForward(on)
  \/ \E r \in Requests : AddPublicPort(r) \/ RemovePublicPort(r)

FilterNext ==
  \/ SwitchCall
  \/ \E s \in Sources : Relist(s)
  \/ \E D \in SUBSET Dnats : ChangeDnats(D)
  \/ \E p \in Packets : Receive(p)
  \/ Tick
  \/ \E f \in flows : FlowEnds(f)

FilterSpec == FilterInit /\ [][FilterNext]_filterVars

-----------------------------------------------------------------------------
\* Properties

IsRange(r) == r.lo \in PortNumbers /\ r.hi \in PortNumbers
RangeSeqs(rs) == Len(rs) <= MaxPublic + Len(ConfigPublic) /\ \A i \in DOMAIN rs : IsRange(rs[i])

\* Types of every variable, one clause for each.
FilterTypeOK ==
  /\ ToSet(public) \subseteq Requests /\ Len(public) <= MaxPublic
  /\ fwd \in BOOLEAN
  /\ {tab.ssh, tab.knock, tab.gate} \subseteq BOOLEAN
  /\ RangeSeqs(tab.tcp) /\ RangeSeqs(tab.udp)
  /\ list \subseteq Sources /\ dnats \subseteq Dnats
  /\ knocked \in [Sources -> 0..KnockTtl] /\ since \in [Sources -> 0..KnockTtl]
  /\ flows \subseteq {FlowOf(p) : p \in Packets} /\ Cardinality(flows) <= MaxFlows

Asked(proto, port) ==
  \E r \in ToSet(ConfigPublic \o public) : proto \in r.protos /\ Covers(r, port)

\* render_ports (nft/ruleset.rs:49-73): whatever ranges config.json and clients ask
\* for, overlapping, touching or up to the last port, the elements rendered are
\* apart from each other (an interval set takes no others) and hold the ports asked
\* for and no more.
RenderedExact ==
  \A set \in {[proto |-> "tcp", elements |-> tab.tcp], [proto |-> "udp", elements |-> tab.udp]} :
    /\ \A i, j \in DOMAIN set.elements : i < j => set.elements[i].hi + 1 < set.elements[j].lo
    /\ \A port \in PortNumbers : InSet(set.elements, port) <=> Asked(set.proto, port)

IsSsh(p) == p.proto = "tcp" /\ p.dport = SshPort /\ p.dest = "host" /\ ~p.dnat

\* "SSH for the allowlist only" (nft/ruleset.rs:163-187, config.rs:141): in no order of
\* settings calls, list changes, knocks and rebuilds does a source open a
\* connection to sshd that is neither on the list nor knocked within the time since
\* the table was loaded, unless config.json itself makes SSH public.
SshOnlyByListOrKnock ==
  [][\A f \in flows' \ flows : IsSsh(f) /\ tab.ssh /\ f.src # Local =>
       f.src \in list \/ since[f.src] < KnockTtl \/ \E r \in ToSet(ConfigPublic) : CoversSsh(r)]_filterVars

\* The knock (nft/ruleset.rs:148-180): who knocked within the time, since the table
\* was loaded, gets through to sshd, whatever else is public, listed or connected.
KnockOpensSsh ==
  \A p \in Packets :
    IsSsh(p) /\ p.ct = "new" /\ p.src \in Sources /\ Arrives(p) /\ since[p.src] < KnockTtl => Accepted(p)

Entitled(p) ==
  \/ p.src \in list \cup {Local} \/ p.proto = "infra" \/ Asked(p.proto, p.dport)
  \/ p.proto = "tcp" /\ p.dport = SshPort /\ ~Routed(p) /\ ~tab.ssh
  \/ p.dest = "beyond"

\* Nobody is shut out (nft/ruleset.rs:137-219): listed sources reach every port,
\* forwarded ones too, everyone reaches the public ports, by the port they asked
\* for, and what the host routes for others is left alone; only a knock itself is
\* swallowed, not what else is sent to its port.
EntitledGetThrough ==
  \A p \in Packets : p.ct = "new" /\ Arrives(p) /\ Entitled(p) /\ ~Knocks(p) => Accepted(p)

\* Nobody else gets in (nft/ruleset.rs:137-219): a connection that opens belongs to
\* someone entitled, to a knocked source going to sshd, or to a forward without gate.
OnlyEntitledEnter ==
  [][\A f \in flows' \ flows :
       Entitled(f) \/ (f.dnat /\ ~tab.gate) \/ (IsSsh(f) /\ f.src \in Sources /\ since[f.src] < KnockTtl)]_filterVars

\* Tables come and go under open connections (nft/ruleset.rs:130): none of their
\* packets is dropped, whatever was restricted, gated or translated since.
FlowsSurvive == \A p \in Packets : p.ct = "established" /\ Arrives(p) => Accepted(p)

\* No table, whatever is loaded in what order, drops a packet of someone who is
\* entitled, has knocked or is connected.
NobodyShutOut == KnockOpensSsh /\ EntitledGetThrough /\ FlowsSurvive

\* And no order of settings, lists, knocks and tables lets anyone else connect.
NobodyElseEnters == SshOnlyByListOrKnock /\ OnlyEntitledEnter
===============================================================================
