# ipgate: models and proofs

ipgate keeps the open ports of a host behind an allowlist. Its agent
(`agent/src`, Rust, one root process) owns two nftables tables, `inet ipgate`
(allowlist, public ports, SSH) and `ip ipgate_nat` (port forwards), keeps its
state in `state.json`, and serves paired clients over Noise on loopback, reached
through an SSH tunnel. The same binary run on the console changes the same files
and tables from a process of its own. This directory holds TLA+ models of the
agent, the TLC instances that check them, and proofs for TLAPS. Paths and line
numbers below are relative to `src/`.

Read `Allowlist.tla` first, then `Exposure.tla`; the others use the same style.

## The system

| component | state | operations | talks to |
|---|---|---|---|
| allowlist (`store.rs`, `handlers.rs:32-67`, `proto/src/entry.rs`) | entries in memory and in `state.json`, elements of the nft sets | allow, revoke, prune, save, load | reconcile loop, ruleset settings (one table), console |
| reconcile loop (`main.rs:744-790`, `reconcile.rs`) | a snapshot of the entries, the difference it works off | prune, list kernel, add, remove, rebuild | allowlist, nft |
| ruleset settings (`handlers.rs:109-270`, `nft/mod.rs:62-137`, `config.rs:110-152`) | three switches, the loaded table, the report of what loaded (`Live`) | ssh exposure, forward gate, public ports, rebuild, boot | nft, allowlist |
| console exposure commands (`main.rs:793-874`) | a private copy of `state.json` | `ssh-expose`, `forward-expose` | the running service, through `state.json`, the table and systemd |
| native forwarding (`forward.rs`, `handlers.rs:400-495`, `nft/nat.rs`) | rules, resolution cache, nat table, hash of the rows the resolve thread installed | add, update, remove, resolve pass | DNS, interfaces, nft |
| dnat migration (`handlers.rs:508-591`, `dnat/`) | the configuration and table of the tool `dnat` | migrate, remove | native forwarding, dnat's daemon |
| RPC sessions (`api/mod.rs`) | permits, per-device counters | accept, handshake, request loop, time limits | every handler |
| pairing (`auth/pairing.rs`, `main.rs:255-276`) | `pairing.json`, devices in the store | `pair`, consume, enrol, revoke a device | sessions |
| sshd password login (`sshd.rs`) | `sshd_config`, an old drop-in, the running sshd | `set_password_auth` with rollback | sshd, systemd |
| rendering (`nft/ruleset.rs`, `nft/nat.rs`, `config.rs:110-143`) | none of the agent's; in the kernel the tables, the knock sets and the tracked flows | a table from settings, ports and forwards; what its rules do to packets | nft, every component that loads a table |
| nft output parsing (`nft/parse.rs`, `nft/cli.rs`) | none | listing of the sets from JSON or text | nft, reconcile loop |
| console allowlist commands (`main.rs:332-372`) | a private copy of `state.json` | `allow`, `revoke`, `uninstall` | the running service, through `state.json` and the table |
| console forward commands (`main.rs:374-669`) | a private copy of `state.json` | `forward-add`, `forward-rm`, `dnat-migrate` | the same, and dnat |
| dnat configuration files (`dnat/conf.rs`, `dnat/lock.rs`, `dnat/mod.rs`) | `conf.lock`, the file, `dnat apply` | remove the rules of a key | dnat's daemon and user |
| port and target checks (`proto/src/forward.rs`, `proto/src/ruleset.rs`) | none | overlap, validity, forbidden targets | handlers, console |
| rate limiter (`api/limit.rs`) | a window and a counter per address | allow | sessions |
| Noise transport (`noise.rs`) | session keys, the message being collected | handshake, framing | sessions |
| access key and identity (`auth/`, `noise.rs:40-70`) | `access.key`, `noise_static.key` | load, make, reset | the service and every console command that needs them |
| egress lookup (`egress.rs`), ssh peer lookup (`sshpeer.rs`) | none | a race of services; reading `/proc` | sessions (`whoami`, `egress_ip`) |
| protocol types, ipecho (Go), deployment, CI | none the agent keeps | probes, scripts | - |

What makes it hard: connections are tasks on a multi-threaded runtime and run
handlers in parallel; the reconcile and the resolve thread run beside them; the
store mutex covers the store but, on the allowlist and forwarding paths, not the
nft call that follows; several files (`state.json`, `pairing.json`,
`sshd_config`) are loaded, changed and written back whole with no lock between
processes or threads; almost every operation has two or three external effects
of which each can fail; nft, DNS, systemd and sshd answer late or not at all.

What must hold, per component: the kernel enforces what the store says, and an
acknowledged call survives a restart (allowlist); settings never contradict each
other and no fallback opens a port (settings); a rescue from the console is not
undone (console); no forward leads to a forbidden address, and the table follows
rules and DNS (forwarding); no forward is lost on the way (migration); whoever is entitled gets
through and nobody else does, over any sequence of tables (rendering); an
enrolled device stays known, a revoked one stays out, places are given back
(sessions and pairing); sshd runs with what was acknowledged (sshd); messages arrive whole
within bounds (transport); every process on the host uses the same secrets
(secrets); a client is told its own address or none (peer lookup); dnat's lines
survive the agent's removals (dnat files); a pass harms nothing it does not
understand (parsing).

## Modules

| module | models | checked by | proved in |
|---|---|---|---|
| `GrantLedger` | abstract: what the store promises across crashes | through `ImplementsLedger` | |
| `Allowlist` | allowlist, reconcile loop, restarts, expiry | `MCAllowlist` | `AllowlistProofs` |
| `AllowlistConsole` | `allow`, `revoke`, `uninstall` beside the service; extends `Allowlist` | `MCAllowlistConsole` | `AllowlistProofs` |
| `Exposure` | ruleset settings and the fallback ladder | `MCRuleset`, `MCConsoles` | `ExposureProofs` |
| `PacketFilter` | the rendered rules run on packets, port sets, knock, gate | `MCRuleset` | `PacketFilterProofs` |
| `ExposureConsole` | `ssh-expose`, `forward-expose`; extends `Exposure` | `MCConsoles` | `ExposureProofs` |
| `ForwardConsole` | `forward-add`, `forward-rm`, `dnat-migrate` beside the service | `MCConsoles` | `ForwardConsoleProofs` |
| `Forwarding` | native forwards and the resolve thread | `MCForwarding`, `MCDnatMigration` | `ForwardingProofs` |
| `DnatMigration` | migration from dnat; extends `Forwarding` | `MCDnatMigration` | `ForwardingProofs` |
| `Sessions` | connections, pairing, device revocation | `MCSessions`, `MCConnections` | `SessionsProofs` |
| `NoiseFraming` | handshake phases, frames and messages, back pressure | `MCConnections` | `ConnectionProofs` |
| `RateLimit` | the window per source address | `MCConnections` | `ConnectionProofs` |
| `SshPeer` | the lookup behind `whoami` | `MCConnections` | `ConnectionProofs` |
| `Egress` | the lookup behind `egress_ip` | `MCConnections` | `ConnectionProofs` |
| `SshdAuth` | SSH password login | `MCHost` | `HostProofs` |
| `Secrets` | access key and identity in several processes | `MCHost` | `HostProofs` |
| `DnatConf` | removals from dnat's file | `MCHost` | `HostProofs` |
| `KernelListing` | what a pass makes of nft's answers | `MCHost` | `HostProofs` |

Composition. Where components share state they are composed by EXTENDS: the
console modules and `DnatMigration` take the actions of the smaller module
unchanged and add a process of their own. `Allowlist` sees the settings only as a
rebuild of the table (`Reapply`), `Exposure` sees the allowlist only as empty,
usable or clashing, and `Sessions` sees the other handlers only as a request that
is executed. Components that share no state with each other are checked side by
side: in `MCRuleset`, `MCConsoles`, `MCConnections` and `MCHost` a variable
`part`, chosen at the start, says which of them a behaviour is about, and the
others rest in an initial state. Interleaving them would multiply states and
show nothing, since no step of one reads or writes what another has.

Definitions whose comment starts with "Mutant" are wrong on purpose: each is a
plausible mistake in the definition that follows it, is used by nothing, and
serves to see that a property notices.

### Allowlist

`mem`, `disk` and `kern` map a target to the expiry of its entry (store, file) or
element (nft set). A handler is two steps, because the code releases the lock in
between: `Allow`/`Revoke` change and save the store, `KernelAdd`/`KernelRemove`
make the nft call. A reconcile pass is `Snapshot` (prune, save, clone, under the
lock), `ListKernel` or `ListFails`, one `FixMissing`/`FixStale` per element, and
`PassDone`, or `Rebuild` where the listing failed. `Reapply` stands for the
settings calls, which rebuild the table under the lock, and `SaveStore` for saves
other components cause. `Crash` keeps the kernel's table (process) or clears it
(host). `Tick` moves the clock; the kernel drops elements whose timeout has come.
Adding an element that is there may or may not renew its timeout (kernels
differ). `dirty`, `settled` and `doubt` are history: what a running pass can no
longer conclude, which targets were found or put in agreement, and which calls
failed to save.

### Exposure and ExposureConsole

A settings handler holds the store mutex from check to save, so it is one step;
its disjuncts are the ways it ends: refused, applied with fewer features
(`Applied`, the ladder of `apply_ruleset`), restored, restore failed, saved or
not saved. Every failing nft transaction, save and crash costs one of
`MaxFaults`; a ladder of which a rung fails for a passing reason costs one. An
overlapping pair of entries makes every table fail, at no cost. `config.json` is
constant. A console command is the steps load (`Start`), `Apply`, `RestoreOld`,
`Save`, `Restart`; any action of the service falls between two of them.

### Forwarding and DnatMigration

The update of the nat table is the same for client calls and the resolve thread:
`Copy`, `Resolve`, `Install`, `Record`, each under its own lock or under none.
An address stands for a host's whole answer, and rules are a set. `MigrateStart`
to `MigrateRetire` are the parts of `migrate_dnat_forward` between its locks;
the update in the middle is the one of `Forwarding`. The dnat daemon follows its
configuration in its own time.

### AllowlistConsole

A command is `LoadTool`, `SaveTool`, `KernelTool`: load, change and save a copy of
`state.json`, then the nft call. The service's actions are those of `Allowlist`,
with one thing added: `uninstall` deletes the table under them, after which calls,
listings and fixes fail until a rebuild or a settings call loads it again (`gone`).
`word` remembers what a command that ran with the service down said of a target.

### ForwardConsole

Here the service's calls are one step each, as their interleavings are the subject
of `Forwarding`, and the commands are the processes: they load a copy of
`state.json`, save it, rewrite the native table from it, and save it once more with
the addresses they found. `dnat-migrate` ends by taking the rule out of dnat. Ports
are ranges, so that `validate_ports`, `parse_port_range`, `PortRange::overlaps` and
`forbidden_forward_target` are what the code has and not constants. `alone` and
`met` remember whether a command met the service or another command.

### Sessions

A connection (`job`) goes through `hello`, the steps of `authorize` and consume
(`load`, `write`, `rename`, `enrol`), the reply, and the request loop (`open`,
`check`, `exec`). `pair` on the console writes `pairing.json` through the same
temporary file. The handshake limit cannot interrupt `authorize`, which is
synchronous, so `HandshakeEnds` is enabled only around it. Whether a code has
expired is decided when the file is loaded. One `pair` runs at a time. A client presents
any code or none at `Lookup`, also one the console has not made: who gets in is
decided by what `pairing.json` holds when it is loaded. `made` remembers the codes that
`pair` made, `paired` who enrolled with each.

### SshdAuth

A configuration file is its managed block and what its owner wrote; `sshd -T`
reads the files (`Effective`), the daemon has what it last loaded (`running`).
Every step of `set_password_auth` can fail where the code handles a failure.
`mixed` remembers that requests overlapped: what an acknowledgement means is
then open, but that sshd runs with its files is not.

### PacketFilter

`tab` is the loaded table: which optional rules it has and the elements of
`public_tcp` and `public_udp` as `render_ports` makes them: the ranges of
config.json, then those of clients, sorted by where they begin (`Sorted`, which like
`sort_by_key` keeps the order of equals) and merged where they overlap or touch
(`Merged`). `Input` and `Forward` are the
chains as sequences of rules, `Matches` says which rules match a packet, and
`Decider` is the first of them, or the policy. `Receive` runs a packet, with what
rules do on the way: the knock rule records the source (`knocked`), an accepted new
packet from outside opens a flow, which later packets belong to (`ct`). A packet
is translated when it is new; the flow then remembers. The settings calls and
`Rebuild` load tables with or without what `apply_ruleset` may give up; that they
can fail is in `Exposure`. `since` is what a client knows: how long ago it
knocked, counted from the last table. `Entitled` and `Asked` state the policy on the
settings, without chains and merged ranges, so that the properties compare two
accounts of the same thing.

### NoiseFraming, RateLimit, SshPeer, Egress

A byte is the message it belongs to, its place, and the length a header starting
there would announce; frames are sequences of them, the two sockets hold `Pipe`
frames, and a client may be one that does not know the key, one that does not read,
or an odd one that cuts frames as no client of ours does. `heard` and `asked` are
history: what the agent took for messages and what the client sent. `spun` counts
the frames read since the last message. `RateLimit` has time in ticks and `let`,
the connections let in per tick. `SshPeer` reads the two socket tables, then the
owner's sockets, in separate steps, with connections coming and going between them.
In `Egress` time does not go on while something is due; services answer, fail or
hang.

### Secrets, DnatConf, KernelListing

Secrets are numbers in the order they are made. A process runs a `Program`, the
list of secrets it loads; making one is `Decide`, `Truncate` and `WriteSecret`,
because the code looks first and `fs::write` truncates. `raced` remembers that two
processes were making one secret at a time, `outdated` that somebody else wrote the
key since the service started.

A removal in `DnatConf` is lock, read, write of the temporary file, rename, unlock
and `dnat apply`, which reads the file again under a lock of its own; dnat's user
and daemon add, drop and apply between any two of these. A line is the record
`parse_line` looks at, so that one which does not parse or whose key begins alike
can stand in the file.

In `KernelListing` addresses have a few bits, a target is what the client spelled,
an element is the interval the kernel keeps, and a listing gives back what nft
prints of it. Each family is read in JSON or in text or fails (`Ways`).

## Runs

| run | instance | question |
|---|---|---|
| `allowlist_safety` | 2 targets, 2 connections, clock to 2, 3 calls and 1 fault or 2 of each | `SettledAgree`: can a pass working from an old snapshot hurt a target nobody touched? `WithdrawsOnlyOutdated`: does it ever withdraw a live entry? `ImplementsLedger`: is an acknowledged call what every restart comes back with? |
| `allowlist_live` | 2 targets, 1 connection; 2 calls and 2 faults, or 2 commands, 1 call and 1 fault, or 1 of each while a lifetime runs; fair | `OfflineLasts`: does what a command wrote with the service down last? `StoreWins`: is every trace of a failed or outrun nft call, of a command beside the service, and of a deleted table repaired in the end? |
| `allowlist_overlap` | 2 overlapping targets, fair | `AllowReachesKernel` fails: see below |
| `ruleset_safety` | settings: 3 ports (one of sshd, one of config.json), 3 faults; packets: ports of 2 bits, 2 sources, 2 of 4 public ranges beside one of config.json, a knock of 2 ticks, 1 forward, 1 flow | `NoMootAllowlist`, `KernelTruthful`, `AckedSettingsLast`: do store, file, table and report agree whatever fails? `RenderedExact`: do merged ranges hold exactly the ports asked for? `NobodyElseEnters`, `NobodyShutOut`: does any sequence of tables, lists, knocks and forwards let someone else in, or shut someone out? |
| `console_safety` | switches: a port range that covers sshd, 2 commands, 1 fault; forwards: 2 consoles, 6 forwards that overlap, start at 0 or lead to forbidden addresses, 2 rules of dnat, 3 acts, 1 slip | `NoMixedSettings`: does overwriting whole files mix contradictory settings? `RescueHolds`: is the command in force after the restart? `ForwardsKept`: does what a command did on forwards last, and does no failure of it cost a forward? `OneAuthority`: can a port get two authorities? |
| `forwarding_drift` | 1 key, 2 changes of an answer, no fault, fair | `ForwardsHeal` fails: see below |
| `migration_safety` | 2 keys that overlap, no or 1 dnat rule, 1 client call beside the thread, 1 change of an answer (also to a forbidden address), 1 fault, fair | `NoForbiddenTarget`: can any order lead a forward to a forbidden address? `NeverLost`: is a forward on disk somewhere at every instant? `EndsServed`: is it served in the end, and does the table end up right? |
| `migration_twice` | 1 key, 2 client calls, no fault, no change of an answer | `UndoneKept` fails: see below |
| `sessions_safety` | 2 connections, 2 keys, 2 codes, 3 accepts, 2 requests, 1 fault | `PairingHolds`: does a welcome last through the service's saves, and does anyone get in without a code of the console, whatever is guessed and whoever races for `pairing.json`? `RevocationHolds`: does a save of the service bring a removed device back, or a removed device execute a request? `CountsExact`: is a place leaked or given back twice? |
| `sessions_live` | 2 connections, 1 code, fair; frames of 3 bytes, messages of up to 3 behind a header of 2, 2 requests, 3 odd frames; 2 sources, a limit of 2, 2 windows and a half; 1 connection coming and going beside the session; 2 services, 2 families | `PermitsComeBack`: can clients that do nothing, but read what they are sent, keep every permit? `QuietConnectionsEnd`, `MessagesWhole`, `BufferBounded`: does the transport end, keep and bound what it should? `LimitKept`, `OwnAddress`, `LookupSound` |
| `sessions_code` | 2 connections, 1 code, no fault | `SingleUse` fails: see below |
| `host_safety` | sshd: 2 overlapping requests, a third after them, with and without drop-in, sound and broken files, 2 faults; secrets: the service, 2 commands, 4 starts, 1 reset, 1 death; dnat: 2 removers beside the tool, 5 kinds of line, 3 edits, 1 fault; listing: 2-bit addresses, 2 sets, 3 touches | `SshdInForce`, `RollbackRestores`, `SecretsAgree`, `EditsAreAtomic`, `RemovedLeavesTable`, `PassSound` |

Properties that are conjunctions (`KernelTruthful`, `NobodyShutOut`,
`NobodyElseEnters`, `ForwardsKept`, `EndsServed`, `RevocationHolds`, `LimitKept`,
`LookupSound`, `PairingHolds`, `SshdInForce`, `SecretsAgree`, `PassSound`, the `AllTypeOK` of the MC
modules) join named parts, each of which states one promise with the code it is
about; where the parts can break separately each has a mutant of its own.

Why the bounds are enough. The races are between pairs: a handler and a pass, a
client's update and the resolve thread, a command and the service, two
connections, two requests. Two targets, keys or codes tell "this one" from
"another one", which is all the properties distinguish. One fault is enough for
each effect to fail alone; the settings have three because their worst case is
a transaction, the restore after it, and a save or crash. The third call, accept
or request lets something happen after a race is over. Clocks reach 2 so that a
lifetime can end before, during and after a pass. Two-bit ports are enough for
ranges to overlap, touch, begin at 0 and end at the last port, with SSH and the
knock port at an edge of some and inside others, and 2-bit addresses for intervals
that are no prefix and prefixes with host bits. Frames of three bytes cut a
message of a two-byte header in every way, and pipes of two frames fill up. In
`allowlist_live` a behaviour has one of three budgets (`budget` in
`MCAllowlistConsole`): calls, commands and lifetimes together are beyond TLC, and
each race is between two of them. `migration_safety` has one client call because
with two `NeverLost` fails, which is what `migration_twice` is about. Symmetry is
used in `allowlist_safety`, `ruleset_safety`, `console_safety`, `sessions_safety`
and `host_safety`, which check no liveness; of the action properties in them none
tells interchangeable values apart.
`CHECK_DEADLOCK FALSE` is set where the bounds leave a state in which nothing is
left to do (all requests made, nothing under way) or a stopped service out of
faults; the real system waits for a client there.

Fairness. `Allowlist`: threads are scheduled, an nft process returns, and
systemd starts the service again (`Restart=on-failure`,
`agent/deploy/ipgate-agent.service:12`). `Forwarding` and `DnatMigration`: the
same, and sleeps end. `Sessions`: the runtime polls its tasks and its timers
fire; clients owe neither a handshake nor a request. `NoiseFraming`: the same for
the time limits, for taking in a frame that is there and sending one there is room
for; a client whose `reads` is true takes replies in, which is an assumption on the
client: `QuietConnectionsEnd` is stated for such clients only, because `send` has no
time limit (`api/mod.rs:229`). `AllowlistConsole`: a command owes nothing, it may
hang for ever. Clients, clocks, DNS and
faults are never fair. Weak fairness suffices everywhere: nothing waits for a
lock that others can take again and again, as a mutex section is one step.

## Where documentation and code part

Four runs expect a violation.

* `allowlist_overlap`. An interval set takes no element that overlaps another, so
  an entry for a prefix and one for an address inside it cannot both be loaded:
  the add fails on every pass, although `handlers.rs:34` counts on the
  reconcile loop, and every rebuild of the whole table fails too, at start as well.
* `forwarding_drift`. The resolve thread skips when its rows hash to the rows it
  installed last itself (`forward.rs:159`). A client call installs rows in between
  with another answer, the answer changes back, and the table keeps the rows of the other
  answer: an address the host no longer has, or no row although it resolves.
* `migration_twice`. Two clients migrate one rule of dnat. Both pass the check for
  native rules in the way before either adds its own (`handlers.rs:540`); the second
  add replaces the first one's rule, and updates drop its cached address. One call
  sees an address and retires dnat's rule, the other sees none, takes its native
  rule back and answers that dnat's rule was kept (`handlers.rs:577`; the comment is at
  `:566`). The forward is in neither place.
* `sessions_code`. Two connections load `pairing.json` before either saves it; both
  find the code and both enrol.

The models show more, which the passing properties name as their exceptions:

* Settings. A save that fails after the table was loaded leaves the new switch in
  memory and kernel though the call is answered with an error (`handlers.rs:267`;
  `:252` says no failure changes a setting). When the restore after refused knock
  rules fails, SSH is restricted though the switch is off (`torn`;
  `handlers.rs:158`). `revoke` and expiry may empty the list while SSH is for the
  allowlist only, and the port and forward calls give up the knock rules
  without looking; docs/adr/0007-noise-over-ssh.md:118 promises that lockouts are refused.
* Console. A save of the service after the command's save and before the restart
  undoes the command (`raced`; `main.rs:820-828`). With overlapping entries on
  the list `ssh-expose --open` cannot load a table at all. A command that gives up
  leaves the service reporting the features of a table that is gone.
* Console, allowlist and forwards. A command beside a running service overwrites
  what the service saved since the command's load (entries, devices, forwards), and
  is overwritten by the service's next save; `OfflineLasts` and `ForwardsKept`
  speak of commands that met nobody. `main.rs:376` says the service's loop overwrites
  a command's native table; the resolve thread skips as long as the rows it would
  install are those it installed last, so the command's table may stay
  (`forward.rs:159`). `uninstall` beside the service lasts until the next pass.
* Listing. A target with host bits (`10.0.0.5/24`) is stored as spelled
  (`store.rs:149`) and listed by nft without them, so that every pass adds it and
  then removes it as stale (`reconcile.rs:25`); the element is back or gone by turns.
  With an element the JSON parser does not know every pass fails to list and
  rebuilds the table, which takes it away.
* Ports. The RPC accepts port 0 in a forward (`handlers.rs:402`), which the console's
  parser refuses.
* Secrets. Two processes that find no key make one each, and one of them goes on
  with a key that is not in the file; a crash between truncation and write leaves an
  empty `access.key`, which every later start refuses, and an empty identity, which
  is made anew (`auth/access.rs:19`, `noise.rs:57`).
* Sessions. A client that does not read its reply keeps its connection for as long
  as it likes (`api/mod.rs:229`). The address `whoami` falls back to is kept for the
  connection, so a lookup that failed once is not repeated (`api/mod.rs:214`).
* Forwarding. A pass that copied the rules before an update writes the former
  host's address back into the cache (`forward.rs:126`; `store.rs:248` says it is
  dropped). A rule skipped because its interface has no address loses its cached
  address (`forward.rs:96`). Rules are replaced only when interface and ports are
  identical, so two rules for one port coexist (`store.rs:222`).
* Migration. A cached address is taken for a row in the kernel, which an older pass
  may have replaced (`handlers.rs:566`), so dnat can give a forward up before the
  agent serves it. After a failed last step the retry the answer offers is
  refused by the native rule left behind (`handlers.rs:585`). A rule moved to the
  key between check and insertion is replaced (`handlers.rs:540`).
* Packets. Nothing keeps a forward off the SSH port or the knock port
  (`handlers.rs:401`): new connections to sshd are then translated before the input
  chain sees them, although the input chain still has its rule for them
  (`proto/src/forward.rs:4` promises that forwards cannot touch what keeps the
  management port open). The properties speak of packets that reach the host. Every
  rebuild empties the knock sets, so a client may have to knock again.
* Pairing. A connection that loaded `pairing.json` before `pair` saved writes its
  copy back and drops the code just printed (`auth/pairing.rs:54`). The reverse: a
  connection may rename the temporary file that `pair` wrote (`auth/pairing.rs:47`);
  `pair` then fails and prints nothing, but its code is valid.
* Devices. What the properties say of welcomes and removals they say of the service's
  saves. A console command writes the whole `state.json` it loaded (`main.rs:820`) and can
  so drop a device enrolled meanwhile, or bring a removed one back.
* sshd. The old drop-in is deleted before the checks and never put back
  (`sshd.rs:126`); the rollback reloads without a check and its ladder ends in a
  restart, also when the owner's part is what sshd rejects (`sshd.rs:141`); the
  rollback of one request undoes another acknowledged meanwhile (`sshd.rs:140`).

## Proofs

All for every value of the constants that meets the assumptions of the module
(bounds are naturals, the model values differ).

* `AllowlistProofs`: `TypeCorrect`, `SettledAgreeHolds`, `WithdrawsOnlyOutdatedHolds`.
  `SettledAgree` is not inductive: that `PassDone` may call the untouched targets
  settled rests on what the pass planned, and the plan on its snapshot. `IInv` adds
  that of a target that is not dirty the snapshot still tells whether it is live
  (`SnapshotHolds`), and that the plan adds only live ones, removes only dead
  ones and leaves alone only those on which kernel and store agree
  (`PlanHolds`); a stopped process is in no pass (`DownIsIdle`). The
  step proof has one case per action; `FixMissingStep`, `FixStaleStep` and
  `TickStep`, which need it most, are lemmas. The action property follows from
  the same invariant.
  `LedgerImplemented` is the refinement: `possible[t]` is what memory and file hold
  for `t`, pruned. The strengthening says that the two differ only on targets in
  doubt (up to pruning); each action maps to `Commit`, `LeaveInDoubt`, `Resolve`,
  `Elapse` or a stutter.

  `OfflineWordLasts` is about `AllowlistConsole`, for any number of commands. What a
  command said with the service down could be undone by a later command that writes
  back an old copy. `WordInv` adds what prevents it (`CopyHolds`): the copy still says
  of every other target what was last said of it, and a command that is alone is so
  until the service starts. `Effect` sums up what any step of the service can leave
  of an entry, so that the actions are split once.
* `ExposureProofs`: `NoMootAllowlistHolds`, `KernelFollowsStoreHolds`,
  `ClosedStaysClosedHolds`, `LiveHonestHolds` (joined in `KernelTruthfulHolds`),
  `AckedSettingsLastHolds`. The first four are inductive together with the type
  invariant: a restart takes its settings from the file, so the file must be free of contradictions too, and
  `ClosedStaysClosed` is what remains of `KernelFollowsStore` once a restore has
  failed. `LoadStep` and `KeepStep` carry the cases: either a table was loaded for
  the settings in force, or nothing a property looks at has changed.
  `NoMixedSettingsHolds` and `RescueHoldsAlways` are about `ExposureConsole`. Beside a
  console command the service's memory is not what the kernel has, so of the invariant
  above only `TypeOK` and `NoMootAllowlist` survive (`Safe`); they are shown anew for
  each step. `CInv` adds that both copies a command holds are sound by themselves,
  which makes a save of a whole stale copy harmless, and what links a command to the
  file: while nobody else saves, what it wrote is there until it restarts the service,
  and `SwitchStays` carries the switch through everything the service does later.
* `ForwardingProofs`: `MigrationTyped`, and `NoForbiddenTargetHolds` for `Forwarding` and
  for `DnatMigration`. Rows are loaded two steps after they were computed, from a copy
  taken before that; the invariant therefore speaks of the rows of every update under
  way as well as of the table. What the cache holds needs no invariant: the list is
  consulted for the address that is used.
  `OnlyTwinsLose`: any number of clients lose no forward, and the answer "dnat's rule was
  kept" is true, as long as no two calls migrate the same rule of dnat (`NoTwins`). Two
  that do can lose it, which is the finding of `migration_twice`; so this is the only way
  to. A migration takes the rule out of dnat's file last, long after it was saved, so
  `HeldInv` says that every forward a client still wants is in memory and in `state.json`,
  or in dnat's file with no call about to take it out (`HeldBy`), and for each call that
  its rule of dnat is still there and that the identifier it may take back is its own rule,
  or one a client gave up (`Migrates`). That identifiers are given out once (`Numbered`) is
  why taking back a migration's rule takes no other. `OneClientLosesNothing` is the
  corollary for a client that makes one call at a time.
* `ForwardConsoleProofs`: `CommandsLast` and `Authority`, for any number of consoles.
  What a property says of `state.json` is not inductive, because a command takes a copy
  first and writes it back in later steps. `KeptInv` says the same of every copy, up to
  what its command is about to take back (`Keeps`), and that a command that is alone is
  so until it ends; `OwnRules`, that an identifier is given out once, so that what a
  command takes back by its identifier is its own rule; `NobodyMet`, that until
  commands meet, dnat, the file and every copy together cover each forward at every
  step of a migration and of its undoing. For one authority per port `ApartInv` says of
  every copy and of every request past its check that it shares no port with
  dnat, but with rules dnat's user added later.
  `ConsoleTypes` adds that no rule gets to disk, to memory or to the table unchecked
  (`CheckedInv`): the copies commands and service overwrite each other with hold only
  rules that were checked when they were added, or lines dnat had.
* `SessionsProofs`: `SessionsTyped`, `PairingAlwaysHolds`, `RevocationAlwaysHolds`,
  `CountsExactHolds`. `RevokedStaysOut` is not inductive: an enrolment under way might put
  a removed identifier back. `FreshIds` says that it cannot, since the identifier of a
  handshake is in no store, in no other connection and never was removed; `Unique`, that
  removing one device takes no other with it; `Welcomed`, that a welcome on its way speaks
  of a device that is on disk; `Punctual`, that a request marked late finds its device
  gone when it is checked. The counts use that the permits are finite (`FinitePermits`).
  Of pairing codes the file promises too much: `SingleUse` fails, as `sessions_code` shows,
  because its writers replace it without a lock. Two theorems say how far that goes.
  `PairingAlwaysHolds`, beside welcomes: whatever clients guess and writers race for, no
  device is in memory or in `state.json` that did not enrol with a code the console
  made. It rests on `InvitedInv`: the file, its temporary copy and every copy a worker
  has loaded hold made codes only, and a connection that is past the load (`Lawful`)
  presented one, because `LoadCodes` lets on only who found his code there.
  `OneWriterSingleUse`: as long as no two of them
  overlap (`OneWriter`), a code enrols one device at most, through failing saves, crashes
  between the steps of a save and expiry. `PairingInv` says that a save under way brings
  no used code back: the temporary file is the writer's own (`OwnFile`); its copy holds no
  code that the file does not hold, but for the one `pair` adds, which nobody has used, and
  not the one it uses (`OwnCode`); and a code somebody used, or is about to enrol with, is not in the file any more (`UsedUp`).
* `ConnectionProofs`: `EgressSafe`, `BoundedBuffer`, `WholeMessages`, `OwnAddressTold`,
  `LimitHolds`. For the lookup: a family ends
  for one of three reasons, and time does not pass while one is due, so it never
  passes the limit. For the buffer: while the header is incomplete fewer bytes than
  it has are kept, and afterwards fewer than it announced, which is at most the
  limit; every frame adds a byte, so frames since the last message are bounded by
  the bytes kept. The invariant carries the types of the frames in the socket and of
  what the client has still to send, since an announced length is a number because
  a byte of theirs is.
  For messages: the frames in the socket are consecutive pieces of what
  the client sent, the first going on where the bytes collected so far end and the
  last ending where the client goes on (`PiecesInv`), and the bytes collected are the
  beginning of the message after those heard (`CollectedInv`); a message that is
  complete is then the one sent, whatever the sizes of frames, pipe and header. For the
  peer: rows are read one table after the other and may be old, but a row says of its
  socket what the socket was born with, numbers are not used twice, and the only one
  of the session on the port of sshd is the client's (`PeerInv`); a row of it is
  there if it was still open when its table was read. For the rate limiter: sums over
  ticks are differences of the sums up to a moment. A window that counts has let in,
  since it began, what it counted up to the limit, little in the ticks before it, and
  none once it is over (`Tallied`); a source whose window was swept has had none within
  a window's length (`Fresh`). Windows are apart, so an interval as long as one meets at
  most two, which is the factor of `AtMostTwice`; whoever is refused has had a window
  full.
* `PacketFilterProofs`: `ElementsExact`, `RulesShutNobodyOut`, `RulesLetNobodyElseIn`,
  for ports of any width and any lists of ranges. `render_ports` is a sort and a merge:
  `SortedIs` says that the sort loses and adds no range and leaves them in order,
  `MergeKeeps` that each step covers the same ports, keeps the ranges apart, and never
  runs over the last port, which is what the code compares in 32 bits for. The
  loops are recursive functions on `0..Len(rs)`; `LoopRuns` and `LoopInduces` give their
  equations and the induction, from the least number that fails. `FirstDecides` turns a
  chain of rules into the first that matches, and `InputVerdict` and `ForwardVerdict`
  say for each verdict which packets get it. The inductive invariant `FilterInv` is that
  the table is the one rendered for the store (`Loaded`), that no public port of the
  store covers SSH while SSH is for the allowlist only (`Closed`), and that the kernel's
  timeouts run as the client counts (`KnocksCount`: a source is in the knock set for as
  long as its knock is younger than the lifetime, and only while the knock rule is
  loaded). The properties compare this with `Entitled` and `Asked`, which know no chains.
  `RulesetTypes` needs that merging never lengthens a list (`SetsAreShort`), for
  which `Bounded` says how many ranges a client can have asked for.
* `HostProofs`. For sshd `InForce` and `Restores`: between a request's writes and its
  reload the files are not what the daemon runs with, so `SshdInv` says that files nobody
  is at work on have been loaded (`Loaded`), what a request that is alone knows of
  them (`Knows`), and that what was last acknowledged is in the main file or
  remembered for the rollback (`Remembered`). For secrets `OneKey`: a maker that was not
  raced found the file empty and is the only one, and whoever holds a secret holds that
  of the file (`OneMaker`); the service takes the key twice and gets the same
  (`TakesOne`). For dnat's file `AtomicEdits`: a remover that is between lock and unlock
  holds the lock, what it has read is still the file, and what it has written is the file
  less the rules of its key: the rename then is what `EditsAreAtomic` allows. A dead
  remover leaves its temporary file, which nobody takes for its own. `RemovedStaysOut`
  needs what the removal leaves of a text of any length (`FilteredIs`,
  `FilteredLines`); induction over naturals comes from the well-foundedness of `<`
  (`NatInduces`). It assumes that every key a rule of the file can have may be asked to
  be removed (`DnatKeysOK`), as the console's commands take any.
  For the listing `PassHarmless`: powers of two of different exponents differ, so a block
  of addresses has one spelling that nft lists (`CanonicalFacts`), and what is
  parsed of it is what the client spelled (`SpelledFacts`); `ListingFacts` says what a
  JSON or a text listing of a set contains, from which no entry in force is taken for stale.
  `HostTypes` adds that the kernel's set never holds two intervals that meet, also when
  entries come and go by hand, and that what the agent adds is an interval of the address
  space: `NetworksFit` says so of the block of any prefix, from `PowersMultiply` (the space
  is a whole number of blocks of each size).

The runs check some components side by side, one at work while the others rest. A part
that rests does not change, so every behaviour of such a run's specification is one of
each component: `HostParts`, `ConsoleParts`, `RulesetParts` and `ConnectionParts` say so
for every value of the constants. What is proved of a component alone therefore holds
where the runs check it, and `HostTypes`, `ConsoleTypes` and `RulesetTypes` join the
components' type invariants into the `AllTypeOK` of the MC modules.

Model-checked only:

* Liveness (`StoreWins`, `EndsServed`, `PermitsComeBack`, `QuietConnectionsEnd`): the
  provers know neither fairness nor ENABLED.
* What the runs that expect a violation refute. `UndoneKept` and `SingleUse` are false
  as they stand; what is proved is that overlapping calls of the kind those runs show are
  the only way to break them. `ForwardsHeal` and `AllowReachesKernel` are liveness.

## Not modelled

The cryptography of the handshake; the text of rulesets, of nft's answers and of
`/proc`; source translation and related flows; dnat's `state.json`, which is only
read for a list; read-only commands and probes; the root password reset (one
`chpasswd`); data types and their serialisation; ipecho; install scripts, the unit
and workflows. `e2e.rs` is a test.

Abstracted: expiry in whole seconds of one clock that agent and kernel share;
several answers of a host in one step; the order of forward rules; a save of
`state.json` as one step, although service and console share its temporary file
(`store.rs:98`), as `Sessions` models it for `pairing.json`; the position of bytes
beyond header and length; process tables read at one moment each.

No property covers, because the code has no guard that one could state: a forward on
the SSH or the knock port, an empty list under `ssh` restricted to it, overlapping
forward rules.
