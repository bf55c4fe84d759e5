# Le Voile in TLA+

Le Voile is a VPN: desktop services (`linux/`, `windows/`) and an Android app take the
machine's traffic through one HTTP/3 tunnel to a relay (`relay/`), and cut DNS and the
network off when the tunnel is down. This directory holds TLA+ models of the parts of it
whose correctness depends on the order of events, the TLC runs that check them on small
instances, and the theorems TLAPS proves about them for every instance.

Paths are relative to `src/`. `windows/` and `linux/` hold the same `service.go`,
`killswitch.go`, `anomaly.go` and `handler.go`, import paths apart; what differs is the
packages below them (`firewall/`, `routing/`, `dns/`, `tun/`). The models were read from
both where both exist; `<os>` stands for either.

    tlc -workers 2 -config MCReconnect.cfg MCReconnect     a run
    tlapm ReconnectProofs.tla                              the proofs of a module

1. [Inventory](#1-inventory): the system, its state, its hard behaviours
2. [Modules](#2-modules): what models what
3. [Runs](#3-runs): what each checks, its bounds
4. [Fairness](#4-fairness)
5. [Proofs](#5-proofs)
6. [Findings](#6-findings): where the code does not do what it says
7. [What is not modelled](#7-what-is-not-modelled)
8. [Plan](#8-plan)

## 1. Inventory

### How the parts interact

    UI / CLI --- IPC ---> handlers --------+            apps
                                           |             | DNS     | IP packets
              +--------- Reconnector ------+             v         v
              |   retries, failover,       |       DNS proxy    TUN device
              |   circuit breaker          |             |         |
              v                            v             v         v
        DNS kill switch            tunnel client (state, transports, heartbeat)
        (proxy, resolver)                  |
                                   HTTP/3 to a relay: /health, /verify, /dns-query, /tunnel
                                           |
                     limiters -> tunnel handler -> NAT table, port pool -> servers

The client's `StateManager` is the hub: everyone who works on the connection calls `Set`;
the Reconnector reads the channel of notifications `Set` fills. The Reconnector, the IPC
handlers, `recoverTUN`, the heartbeat and the DoH queries all run in goroutines of their
own and share the one `tunnel.Client`, without a lock that spans their operations.

### Components

| Component | State | Operations | What is hard, and what must hold |
|---|---|---|---|
| State manager (`internal/tunnel/state.go`) | current state, channel of 4 updates, closed | `Set`, `Get`, `Updates`, `Close` | `Set` never blocks, so a full channel drops its oldest entry; the last notification must always be the current state, and no loss may go unread |
| Reconnector (`internal/tunnel/reconnect.go`) | running/cancelled, failed, locals of the cycle | `Start`, `Stop`, `Reset`, `handleDisconnect`, `tripCircuitBreaker` | `Stop` from other goroutines at any point of a cycle; notifications that are stale when read; one counter for three thresholds; every cycle ends, DNS stays cut off meanwhile |
| DNS kill switch (`<os>/internal/dns/kill_switch.go`) | active | `Activate`, `Deactivate` | both consist of two effects the second of which may fail; the proxy it restarts lives under the Reconnector's context |
| IPC handlers (`<os>/internal/ipchandler/handler.go`) | none of their own | Connect, Disconnect, SelectCountry, TriggerRecovery, settings | stop the Reconnector, work on the client, start it again with `go`: that Start can come later than the next request |
| Tunnel client (`internal/tunnel/client.go`) | relay, HTTP/3 and QUIC transports, DoH failures, session token | `Connect`, `ResetTransport`, `Disconnect`, `UpdateRelay`, `SendDoHQuery`, token functions | several callers at once; a transport belongs to one relay; none may leak |
| Heartbeat (`internal/tunnel/heartbeat.go`) | stop channel, failures | `startHeartbeat`, `stopHeartbeat`, `heartbeatLoop` | exactly one while connected, whoever connects and resets; it must notice a dead link |
| Failover (`internal/registry/failover.go`) | current relay | `HandleFailover`, `SetCurrentRelay` | changes the relay inside a reconnection cycle and puts the old one back |
| TUN recovery (`<os>/internal/service/service.go`) | device, pump, retries | `startTUNWatchdog`, `recoverTUN`, `runTUNPump` | reconnects beside the Reconnector |
| Service (`<os>/internal/service/service.go`, `anomaly.go`) | everything it wires up, under `p.mu` or not | `run`, `shutdown`, `RecoverFromAnomaly`, `ReconfigureForRelay`, `SetAllowIPv6Leak` | the order of boot and shutdown against goroutines still at work: a stop returns, and the host is given back |
| Kill-switch modes, firewall (`killswitch.go`, `firewall/`) | mode, rules, options, watchdog | `SetKillSwitchMode`, `MaybeRestoreKillSwitch`, `watchFirewallAltered`; `Activate`, `Deactivate`, `SetIPv6Policy` | flag, file and rules change in three steps beside four other actors; rules re-applied when altered; no gap between two rulesets |
| Routing, TUN device, captive portal (`routing/`, `tun/`, `internal/captive`) | routes, device | set up, restore, probe | torn down in reverse order, also after a failure halfway |
| DNS proxy, resolver manager and watchdog (`dns/`, `internal/watchdog`) | listener, saved resolver | start, stop, force, restore, verify | the resolver saved once and restored whatever happens; the watchdog against the shutdown |
| Registry (`internal/registry/discoverer.go`, ...) | registry, cache | `Discover`, latency, selection | concurrent passes; an old list over a newer one |
| Updater (`internal/updater/`) | staged binary, backup, state files, retry count | check, download, verify, stage, install, confirm, roll back | a crash between any two file operations; the next boot must find a whole version; a failed version must not come back |
| Relay tunnel handler (`relay/relay/tunnel_handler.go`) | per stream: reader, writer, idle timer, slot | `HandleTunnel` | three goroutines and the flows' reverse loops end together; what was queued before EOF is written |
| Relay NAT (`relay/relay/nat_table.go`, `nat_portpool.go`) | tables, pool, counters, sessions, TCP state | `Translate`, sweeper, `CleanupSession`, `Shutdown`, reverse loops | two maps, a pool and two counters without a common lock; userspace TCP |
| Relay limits (`ip_limiter.go`, `limiter.go`, `bandwidth_limiter.go`) | counters per IP and token | acquire, release, cleanup | release exactly once; cleanup beside acquire |
| Relay HTTP handlers | none | verify, DoH, connect, health | request and response |
| Packet pump, migration, gomobile facade (`internal/tunnel/pump.go`, ...) | connection, counters | `RunPump`, `MigrateToFD`, `ConnectGomobile`, `CloseGomobile` | migration against close; the zombie window |
| Android VPN (`android/`) | service state, retries, network | start, stop, reconnect, network callbacks | callbacks of the system in any order |
| HTTP proxy, leak checks, STUN | listeners, reports | | follow the DNS proxy; periodic probes |
| Configuration, integrity, control token | files | load, save, sign | a crash between a file and its signature |
| Browser policies, block list, UI watchdog, preflight, IPC transport, CLI, UI, crypto, logging | little or none | | |

`PROJECT.json` lists them with their files and status, and under `hazards` each place
where the code can go wrong in a way that a test would hardly reach, with the properties
that cover it.

## 2. Modules

| Module | Models | Used by |
|---|---|---|
| `StateManager` | the state manager: `SetState`, `Receive`, `Close` on a bounded channel | `Reconnect`, `StateManagerLemmas` |
| `Reconnect` | Reconnector, DNS kill switch, IPC handlers, breaker flags, detectors of losses, `recoverTUN`'s Connect | `MCReconnect`, `ReconnectProofs` |
| `ReconnectPromise` | the abstract promise about DNS | `Reconnect` (`INSTANCE`) |
| `TunnelClient` | the client's transports, heartbeats and relay, with the Reconnector, failover, handlers and `recoverTUN` as its callers | `MCTunnelClient`, `TunnelClientProofs` |
| `RelayTunnel` | one `/tunnel` stream at the relay, from admission to cleanup | `MCRelayTunnel`, `RelayTunnelProofs` |
| `RelayNat` | NAT table, port pool and every evictor | `MCRelayNat`, `RelayNatProofs` |
| `RelayFlow` | the userspace TCP state of one flow | `MCRelayFlow`, `RelayFlowProofs` |
| `Updater` | the update: files, marks, download, installation, confirmation, rollback, crashes | `MCUpdater`, `UpdaterProofs` |
| `Protection` | firewall rules, kill-switch modes, TUN device, routes and resolver, with the boot, the shutdown, the requests, the recovery and the watchers that change them | `MCProtection`, `ProtectionProofs` |

Each `MC` module only extends the module it checks (`MCRelayNat` also defines the owner of
each flow). A definition marked `\* Mutant:` is no part of a specification: it is a
plausible mistake in the definition below it, and `PROJECT.json` says which property
catches it, so that no property holds for want of looking.

### StateManager and Reconnect

`current`, `updates` and `closed` are the fields of `StateManager`. The RWMutex makes each
method one step. `Push` is the send with the drain-and-retry loop of `state.go:58-63`.

The other variables of `Reconnect`:

| Variable | Code |
|---|---|
| `rpc` | where the goroutine of `Reconnector.Start` is, inside `handleDisconnect` too |
| `cancelled` | the context of the running `Start` |
| `retries`, `failoverAttempted`, `alternatives` | locals of `handleDisconnect`, and how many relays the failover still has to try |
| `failed`, `tripped` | `Reconnector.failed`, `Program.circuitBreakerTripped` |
| `ksActive`, `proxy` | `KillSwitch.active`; whether the DNS proxy runs and under whose context |
| `hpc`, `req`, `pendingStarts` | the handlers, the request of each, and the `go r.Start` not yet run |
| `tripping` | detectors (heartbeat, DoH failures) between their `Get` and their `Set` |
| `tunRecovery` | `recoverTUN` |
| `userOff` | history: the last request answered was a Disconnect |

A step of a goroutine ends where another can observe the difference: at a `Set`, a flag, a
kill-switch call (under its mutex, hence one step), a wait. `Activate` stops the proxy
before it forces the resolver, so its failure leaves the proxy down and `active` false;
`Deactivate` clears the flag only after the proxy is up. A proxy started under the
Reconnector's context dies with it (`StopReconnector`). The failover is `TryAlternative`,
`AlternativeFails/Succeeds`, `FailoverExhausted`; relays themselves are in `TunnelClient`.

`ReconnectPromise` says what the machinery is for in five phases: a cycle starts only on a
loss and never after giving up; no attempt before DNS is cut; only a cycle that connected
opens DNS; giving up leaves it cut. `Promise!Spec` under the mapping at the end of
`Reconnect` is both a checked property (`KeepsPromise`) and a theorem.

### TunnelClient

One link made of its parts. `transport`/`sni` are the HTTP/3 transport and the
`ServerName` each open one was built with (`buildTransport`); `quicTransport`/`open` the
shared `quic.Transport` that the first dial creates. `heartbeatStop` and `beat` are the
stop channel and the goroutines, which outlive it: a heartbeat is `waiting`, `probing`,
`tripping`, or `tripped`, that is ended while `heartbeatStop` still holds its channel.
`call` has the three callers (the Reconnector, the handler, the TUN watchdog), each in its
own `ResetTransport` or `Connect`, step by step. `cycle` is the Reconnector with the
failover inside it (any order of the pools), `current` is
`FailoverManager.currentRelayID`, `asked` the IPC request under way. When the breaker trips,
its hook writes `Failed` over whatever a recovery has made of the state meanwhile
(`BreakerTrips`).

Only losses matter in the channel here, so `losses` keeps the age, in `Set`s, of each
queued `StateDisconnected`; one that is `UpdatesCap` old is the entry a full channel drops.
A request goes to the relay the client had when it was sent, through the transport it had;
it can succeed only if that transport is open and bears that relay's name (`Answerable`),
and it may always fail. Transports and heartbeats of the pools are re-used once closed, so
that the state space is finite without a bound on how often they are replaced.

The kill switch, the backoff and the cancellation of a wait are in `Reconnect` and left out
here; so are DoH failures, so that the heartbeat alone must notice a dead link.

### RelayTunnel

One stream: the handler (`main`), its reader and writer goroutines, the idle timer, the
session channel `out` of `OutCap` packets, one reverse loop per flow. Its tail is modelled
in the order the deferred calls run in: wait for the reader, cancel, wait for the writer,
unregister, close `done`, close the entries, release the slot. A packet is known by who
queued it: `reply` (the reader answering a frame itself) or `data` (a reverse loop).
`CloseEntries` closes the sockets whose entry is in the table; an entry may leave the table
before its socket is closed (`EntryLeaves`), which is how `RelayNat`'s double eviction looks from
here, and such a socket is `Astray`: nothing of the session finds it, and the properties say so.

### RelayNat

Every goroutine (a reader per session, the ticker, the one that calls `Shutdown`) goes
from one atomic object to the next: `byTuple`, `byPort`, the pool, the sockets, the
counters. An eviction is delete, delete, close, release, subtract, each a step. `Range` visits
the keys in any order and may miss those added meanwhile (`visited`). A re-created key has
a new entry number. `contended` remembers that two goroutines have held one entry for
eviction.

### RelayFlow

The client's segments, the entry's `tcpState`, `clientSeqNext` and `relaySeqNext`, the
session's reader and the reverse loop with what it read under the lock (`pending`).
Sequence numbers count from each side's ISN. An entry draws an ISN of its own: when a packet
in mid-stream re-creates it, the numbers of its data do not compare with the earlier ones,
and the client, which knows the ISN of its SYN-ACK only, sees the stream start over
(`renumbered`, `startedOver`). A FIN, a RST or a bare ACK without an entry re-creates one, too.
The reader has the entry of a packet in hand before it takes the entry's lock
(`ReaderChecks`), and answers a FIN in two locked sections (`Fin`, `FinAcknowledged`). The
history variables `written`, `acked`, `delivered`, `misplaced`, `relayFin` and `forwarded` record
what went out, for the properties. Two bounds are in the guards: an entry is re-created after the
end of the old one's reverse loop, and the client sends its FIN once.

### Updater

The files of the update directory and the executable, each with the version it holds or
`Corrupt`: `exe`, `bak`, `old` (where Windows moves a running executable), `staging`
(binary, checksum, signature and label are written one by one), `rollback`
(`rollback_state.json`), `failed`, `maxSeen`, `retries`. `pc` goes through
`tryInstallStagedUpdate`, the first tunnel, its confirmation or `tryRollbackIfNeeded`; `dl`
through a download. Each change of a file is a step that may fail, the ones whose error the
code ignores or only logs included: files that `os.Remove` leaves behind (`Remove`, any of the set
may stay), the label, the record, each mark and counter. `MaxFaults` bounds them all, and also pays
for a corrupt download, a refused tunnel and a crash, which may come between any two steps. A read
that fails is left out, save where the code goes another way because of it
(`ConnectTransient`), and what is written is there after a crash: `fsync` is not modelled. A checksum
and a signature are abstracted to whether what is staged is what was published under some version
(`Verified`).

`torn` records four windows in which a stop or a failed operation does lasting harm: `placed`
(the new binary is in place and its payload stays staged, so that the next boot installs it over
its own backup), `relabel` (a payload lies under the label of another version), `unseen` (the
version installed is not marked as the highest seen), `kept` (a record could not be removed and
outlives its installation). Each step enters them only in the state that does the harm.

### Protection

| Variable | Code |
|---|---|
| `windows` | the build; both are explored |
| `prg` | fields of `Program`: `config.FirewallEnabled`, `config.AllowIPv6Leak`, `captivePortal`, `firewallMgr`, `tunDev`, `routeMgr`, `firewallRelayIP` |
| `host` | what the kernel and the system hold: the rules put in force last (`rules`), on Windows those of before whose filters are still there (`left`), device, routes, resolver |
| `fw` | the `Firewall` objects: the ruleset each would render next (`opts`, `lastParams`), the watchdog armed, a report in `AlteredCh` |
| `main`, `stopping` | where `run` or `shutdown` is; `p.ctx` cancelled |
| `locks` | `p.mu` and `config.Mu` where they are held across steps |
| `req` | the IPC handlers: mode, IPv6 policy, country |
| `reco`, `watch` | `recoverTUN` and `watchFirewallAltered`, with what each has read |
| `guards` | the TUN watchdog and the DNS watchdog |
| `drift`, `budget` | history, and what is left of the bounds |

A ruleset is a record of what it was rendered from: mode, relay, IPv6 policy. `Activate` is one
step, of nft in one run and of WFP in one transaction, with three outcomes: the rules are in
force; it failed and they are as before; or, on Linux, they are in force and the check that
follows failed. What "in force" means differs (`HostWith`). nft flushes the table and loads the new
rules. WFP *adds* the new filters to those of its provider: an earlier relay stays permitted, an
earlier IPv6 block stays, and so do the permits of the captive portal, until `Deactivate` or
`CleanupOrphans` deletes the filters of the provider. WFP needs the device to exist.

`Deactivate` is one step on Windows and two on Linux (`Disarm...`, then the deletion), and on
Linux does nothing under a cancelled context. On Windows filters that it cannot enumerate or
delete stay in force while it returns no error (`Deletion`), and `CleanupOrphans` may fail, which
the boot only logs. Filters are deleted all or none in the model, and the check of the
prerequisites always gives the same answer. The Linux watchdog reports altered rules whenever
its command fails, too (`WatchdogPoll`), for instance because `stop` kills it.

`recoverTUN` reads the relay, the mode and the manager one after the other (`ReadRelay`, `ReadMode`,
`ReadManager`); another goroutine may run in between. A step otherwise ends where the code takes
or releases `p.mu`, or calls something that blocks. The service boots with IPv6 blocked; the
requests change that.

`drift` records the operations after which the code is known not to keep rules and policy
together, and the properties excuse what is recorded, nothing else. A label enters `drift`
only in a step of the actor named in that step's `Enforce`, `Lost` or `Recorded`, and leaves
it as soon as rules and policy agree again. *Passing* labels: `unprotected` (normal mode,
rules not full), `putBack` (degraded mode, rules in force: raised again, or not taken down
because the change of mode found no manager), `stale` (another relay), `v6`
(another IPv6 policy), and on Windows `older` (a relay or an IPv6 block of earlier full rules that
the policy has dropped) and `lockdown` (filters of the captive portal, which let web traffic
through to anywhere, after the boot has cleaned up). *Lasting* ones, beyond the process: `resurrected` (raised after the
teardown by somebody nobody waits for), `kept` (raised, but no manager or route manager
knows of them), `failed` (a teardown step failed), `overtaken` (Stop gave up waiting). Section
6 tells how each arises.

## 3. Runs

| Run | Instance | What it shows |
|---|---|---|
| `reconnect` | `MCReconnect.cfg` | see below |
| `disconnect_final` | `MCDisconnectFinal.cfg` | a violation: finding 1 |
| `relay_tunnel` | `MCRelayTunnel.cfg` | see below |
| `relay_tunnel_leak` | `MCRelayTunnelLeak.cfg` | a violation: finding 2 |
| `relay_nat` | `MCRelayNat.cfg` | see below |
| `relay_flow` | `MCRelayFlow.cfg` | see below |
| `relay_flow_findata` | `MCRelayFlowFinData.cfg` | a violation: finding 3 |
| `tunnel_client` | `MCTunnelClient.cfg` | see below |
| `failover_sni` | `MCFailoverSNI.cfg` | a violation: finding 4 |
| `updater` | `MCUpdater.cfg` | see below |
| `updater_rollback` | `MCUpdaterRollback.cfg` | a violation: finding 5 |
| `protection` | `MCProtection.cfg` | see below |

### `reconnect`

One handler that serves requests of any kind one after another, a detector of losses and
`recoverTUN`, with every fault enabled, beside the Reconnector; no bound on how long it
runs.

- `DNSBlockedWhileReconnecting`, `KillSwitchSound`, `BreakerKeepsDNSBlocked`: no DNS proxy
  answers while a cycle retries, while the kill switch says it is active, or while the
  breaker is open, even when an activation or deactivation failed or a request came at any
  moment.
- `FailoverBeforeBreaker`: the breaker never trips before the failover was tried.
- `NoLostDisconnect`, `LossIsHandled`: a loss is read in the end whatever the full channel
  dropped. The newest notification is always the state, so a channel that is empty in
  state "disconnected" has been read to the end.
- `CycleTerminates`, `StopTerminates`: every cycle ends, and with it every wait in `Stop`.
- `KeepsPromise`: the refinement of `ReconnectPromise`.

Bounds: thresholds 1 and 2 for 3 and 5 (what matters is that the failover comes at one
failure and the breaker at a later one); a channel of 3 for 4, which cycles fill; one
alternative relay; `MaxPendingStarts` 1: a handler waits to spawn a second `Start` until
the first has run. The safety properties were also checked by hand with two
handlers, and with one handler, two pending Starts and a channel of 4; the proofs cover every
instance.

### `relay_tunnel`

A TCP and a UDP flow on a session channel of two packets, a client that reads, stalls or
goes away, and servers that send one packet on each flow (`MaxData` 1) and a FIN.

- `NothingOutlivesHandler`: a handler that has returned has left no goroutine touching the
  stream, no slot, no session, no entry, and no open socket but one that the table had lost.
- `RepliesDrained`: what the reader queued before EOF is written, although the context is
  cancelled meanwhile and the reverse loops go on filling the channel.
- `EndedReaderTearsDown`: once the reader has noticed that the client is gone, the handler
  returns and every reverse loop ends, including those blocked on the full channel; but for a
  socket the table had lost, which goes on until its server closes.

`OutCap` 2 is the least at which packets of two senders share the channel and it fills;
256 in the code. `CHECK_DEADLOCK FALSE`: a stream ends. The drain is only shown to end
because `MaxData` is finite: servers that send faster than the client reads could keep the
channel from being empty.

### `relay_nat`

Two sessions with a flow each on a port range of one port, with the ticker, the sweep on
exhaustion, both session cleanups and `Shutdown` interleaved at each atomic step.

- `PoolSound`: no port is twice in the pool, nor both free and handed out.
- `Accounting`, `OpenSocketsAreSwept`: between requests the counters count the table, each
  port handed out belongs to an entry, and each open socket is in the table; unless two
  goroutines have evicted one entry (see [Findings](#6-findings)).
- `EndedSessionForgotten`: an ended session leaves no entry.

One port makes the two sessions contend; `MaxEntries` 2 lets one of the keys be re-created.
`CHECK_DEADLOCK FALSE`: after `Shutdown` and both cleanups nothing is left to do.

### `relay_flow`

Data, retransmissions, FIN with and without data, RST, end of the server's stream,
eviction and re-creation by a mid-stream packet, up to seven sequence numbers of the client
and three reads of the server.

- `ServerStreamInOrder`: each server connection receives the client's bytes in order, none twice
  and none missing, from the one after the packet that created the entry.
- `ClientStreamContiguous`: under each ISN the data sent to the client is contiguous from 1 on;
  and until a re-created entry sends data, everything read from the server has been sent, at
  its place in the one stream the client knows. After that the stream has started over, which no
  entry repairs (see [Findings](#6-findings)).
- `AckedBeforeFinIsForwarded`: until the client sends a FIN, every byte acknowledged has
  been written to a server, unless a re-created entry went on past a byte it took for a SYN
  (see [Findings](#6-findings)).
- `RelayFinIsLast`: when the server closes first, the relay's FIN comes after all data of its
  entry. FINs of two entries are not compared: their numbers are not.

Segments have one or two bytes. Seven sequence numbers are a SYN, at least three segments, and
a FIN: enough for a gap, an overlap, and segments of either length after a re-creation. `CHECK_DEADLOCK FALSE`: a flow ends.

### `tunnel_client`

The Reconnector with its failover between two relays, and one event beside it: a Connect, a
Disconnect or a SelectCountry, or a recovery of the TUN device. Relays and links fail at any
time.

- `OneHeartbeat`: a heartbeat that was not told to stop is the one `stopHeartbeat` would stop.
- `NothingLeaks`: each open transport, HTTP/3 or QUIC, is the client's own or about to be
  closed. (The model speaks of `quic.Transport`s: whether quic-go closes the UDP socket it
  was handed is outside this repository.)
- `NeverAbandoned`: when nobody works on the client and it is not connected, a loss waits
  in the channel, or the user stopped the Reconnector, or the breaker is open.
- `ConnectedIsProbed`: a tunnel that stays connected is probed again and again. Two
  exceptions are in the property because the code has them: the user has stopped the
  Reconnector for good (a Disconnect that races `recoverTUN` can end "connected" with no
  heartbeat), and a heartbeat that tripped stays in `heartbeatStop`, so that a Connect without
  a reset in between starts no other.

Bounds: 1 failed probe for 3, thresholds 1 and 2 for 3 and 5, a channel of 3 for 4 (4
was also run by hand); `MaxEvents` 1 means one request or recovery beside an unbounded
number of reconnection cycles. Three transports of each kind and two heartbeats suffice: no
action waits for a free one for ever (the liveness property would not hold otherwise).
`CHECK_DEADLOCK FALSE`: after a Disconnect everything stops.

### `updater`

Three versions, of which two are released at any time and the second never gets a tunnel up
(`MaxVersion` 3, `MaxReleases` 2, `Broken` {2}), on Linux, Windows or under a package manager,
with up to four faults (failed file operations, corrupt downloads, refused tunnels, crashes) at
any step.

- `RunnableCopy`: the executable is there, or on Windows the `.old` copy is, and neither they
  nor the backup are ever a torn or forged file.
- `RollbackRestoresOther`: while an installation is on record and its backup exists, the record
  names the binary in place and rolling back changes it; unless `placed`, `relabel` or `kept`
  was met.
- `InstallsAreNew`: an installation never goes back below a version installed before, and
  never to the one marked as failed; unless one of the four windows was met. A mark that could
  not be written (`MarkFailed`) protects from nothing: the version is then downloaded again.
- `UpdateArrives`: the last release is installed in the end, unless it is marked as failed or
  below the highest version seen, a package manager owns the binary, no executable is left
  (Windows), or the version in place never gets a tunnel up (then the updater does not start).

Outside those windows every crash and failure is harmless, and that is what the two properties say;
inside them the code has no second line of defence (section 6). The run has
`CHECK_DEADLOCK FALSE`: a machine without an executable stays down.

Three versions are needed for a rollback to be followed by a newer version; `MaxRetries` is
2 for the code's 3. Two faults together reach the second operation's failure after the first
one's crash; four add a crash inside the recovery from that.

### `protection`

Both builds, either mode at the boot, with or without a captive portal, two handlers and two
relays, and a stop at any step. Two concurrent requests, or one request with one
tampering (rules, device or resolver deleted by another program, or a recovery asked for) and
one fault (`MaxEffort` 4, a request counting for two, and a poll of the watchdog that fails, which
sets off a whole repair, as well).

- `RulesFollowPolicy`: when everybody is at rest, the rules put in force last are those of the
  mode, the relay and the IPv6 policy, none is in force in degraded mode, and on Windows nothing
  left of earlier rules contradicts them, whatever the order in which requests, recovery and
  watcher came, unless `drift` has the exception on record.
- `CaptiveHandover`: on Linux the host is not open between the lockdown of the captive
  portal and the full rules, up to where their watcher, which has a gap of its own, is there.
  (On Windows it is: section 6.)
- `HostReopened`: an ended process has left no rules, last or earlier, no routes and the original
  resolver, unless a lasting label says why not.
- `StopReturns`: a stop is carried through. The shutdown waits for the DNS watchdog, for the
  recovery the TUN watchdog started, and for the handlers; these take `p.mu` and `config.Mu`.
- `TamperingRepaired`: deleted rules and a deleted device come back, when nothing failed. The
  tampering removes all rules: on Windows the watchdog counts filters, and those accumulated by
  earlier activations can hide from it that some were deleted.

Two requests are enough for each lock order and each pair of read-then-apply; the third actor
of a longer race would be the recovery or the watcher, which the tampering starts. Larger
bounds (two requests with a tampering and a fault, without liveness) were explored while the
model was written, and the three invariants are proved for every bound (section 5).

## 4. Fairness

- Goroutines run. Each has weak fairness on its own next step: Go's scheduler is
  preemptive, every wait in these steps is a timer, a bounded channel operation or a network
  call with a timeout (5 s for a Connect, 3 s for a probe).
- A `select` does not pass over a ready case for ever: Go picks among ready cases at random.
  Hence strong fairness of `Exit` (`ctx.Done` against the updates channel) and of
  `HeartbeatStops` (the stop channel against the ticker).
- At the relay, a request whose client is gone is cancelled in the end by net/http
  (`RequestCancelled`).
- The updater's boot, installation, confirmation and download each have weak fairness: they
  are local file operations and requests with a timeout. A service that runs is restarted,
  and a release that stays newer is noticed, again and again (strong fairness of `Stop` and
  `StartDownload`: the machine is rebooted now and then, and the check has a ticker).
- In `Protection`, `run` and `shutdown`, the handlers as a whole, the recovery, the watcher,
  the firewall's watchdog and the DNS watchdog each have weak fairness: their steps are
  commands with a timeout and waits for a mutex. A TUN watchdog that sees its device gone starts
  a recovery (ticker of 3 s). A stop, a request, a fault and a tampering are not promised.
- Nothing is assumed of users, relays, servers or the network: no request has to come, no
  Connect or probe has to succeed, and no loss has to happen. In particular no fairness makes a client
  read, or a reader return from a blocked read.

## 5. Proofs

Each theorem holds for every value of the constants that satisfies the module's
assumption: any set of handlers, detectors, flows, relays or heartbeats, any capacity and
any thresholds in the order that `reconnect.go`'s `init` demands.

**`StateManagerLemmas`**: `Push` keeps the channel's bound and ends with the new state
(`PushKeepsNewest`); hence `SetState` and `Receive` keep the type, and "the newest
notification, if any, is the current state".

**`ReconnectProofs`**: `IInv` is inductive (`Invariance`):

    IInv == TypeOK /\ RetriesCounted /\ FailoverRecorded /\ DNSInv /\ LossInv

- `RetriesCounted` bounds the retries by where the cycle is, which `TypeOK` alone
  (`retries <= CircuitBreakerThreshold`) needs to survive an increment; `FailoverRecorded`
  adds that past `MaxRetriesBeforeFailover` the failover has been tried.
- `DNSInv` adds to the DNS invariants that an open breaker is outside a cycle
  (`GaveUpIsBlocked`): only the end of a cycle starts a proxy.
- `LossInv` is the reason no loss is missed: the newest notification is the state; handlers
  wait in `Stop` exactly while the `Start` they cancelled runs; the end of a successful
  cycle has left notifications to read; and a loss that is not in the channel is one a
  handler or the breaker is responsible for.

From it follow `TypeCorrect`, `KillSwitchIsSound`, `DNSIsBlocked`, `BreakerBlocksDNS`,
`FailoverComesFirst`, `NothingLost`, and `ImplementsPromise`: initial states map to initial
states and, under `IInv`, every step to a step of `ReconnectPromise` or a stutter
(`StepKeepsPromise`, one step of the proof per action).

`CyclesEnd` bounds a cycle. `StepsLeft` weighs the attempts left, the alternatives the failover
has left (all of them, before it) and the place in the loop; it is at most `CycleLength`
(`2 * CircuitBreakerThreshold + 2 * MaxAlternatives + 9`), every step of a cycle lowers it or
ends the cycle, and no step of a handler, detector or recovery changes it. A failed attempt
pays for the failover that may follow it: that is why failover and breaker, sharing one
counter, cannot send each other round. `WaitersHeard`: whoever waits in `Stop` waits for a
`Start` that runs and is cancelled, and no later `Start` takes that back.

**`RelayTunnelProofs`**: `IInv == TypeOK /\ Lifecycle /\ Teardown /\ Cancellation /\
RepliesDrained`. `Lifecycle` says nothing runs before `OpenSession`, `Teardown` that the
tail's stages come in order with their goroutines ended, `Cancellation` that, a dead
connection and the idle timer apart, the context is cancelled only after the reader ended:
that is why the writer's drain finds every reply. Theorems: `TypeCorrect`, `NothingIsLeft`,
`RepliesAreDrained`.

`EndInv`, inductive on top of it, is about the end of a stream: a reverse loop has a socket,
a tail that waits for the writer has cancelled the session, and one past `CloseDone` leaves no
loop without a closed `done`. Hence `LoopsAreFreed` (what finding 2 says of senders is over once
the handler has returned), `TailIsFree` (on a dead connection the tail waits for nobody but a
writer that waits for nobody) and `StreamWindsDown`: after the end of the reader each goroutine
has a number of steps left (`MainWay`, `LoopWay`, `WriterWay`) that its own steps lower and
nobody else's raise, but for a reverse loop that queues a packet and comes closer to its own
end by it. The writer's drain is therefore bounded by what the servers send (`MaxData`
each): in the code, too, a drain lasts as long as reverse loops keep the channel filled.

**`RelayNatProofs`**: all five invariants of `RelayNat`, from

    IInv == TypeOK /\ PoolSound /\ Places /\ Readers /\ Table /\ Cleaned
            /\ (~contended => Alone /\ Owners /\ Sockets /\ Counts)

- `Places` says which goroutine can be where. `Readers`: only the reader of a session stores
  its keys, and nobody stores the key it has found missing before it does. `Table`: an entry
  lies under its own key.
- `CleanupForgets` needs `Cleaned`: a key the cleanup has visited is gone, or is the one it is
  about to delete. It holds whatever the other evictors do, contended or not.
- The rest holds while no two goroutines have evicted one entry. `Alone` is what that gives:
  evictors hold different entries, each still in the table when it is deleted. `Owners` then
  gives each port handed out to one entry or one goroutine, `Sockets` each open socket to
  the table or to a goroutine that will close it, and `Counts` says that the counter, plus
  what is stored but not yet counted, is the size of the table plus what is deleted but
  still counted. At a quiet moment these are `OpenIsInTable` and `CountersCount`. That
  the double eviction breaks them is a finding (section 6); the proviso is no assumption on
  the constants. The sets of keys and sessions need not be finite.

**`RelayFlowProofs`**: all five invariants of `RelayFlow`, for segments of any lengths and any
number of reads, with

    IInv == Labels /\ Flags /\ ClientNumbers /\ ServerStream /\ Acknowledged /\ ClientStream

`ServerStream` says that a connection that may still be written to has received exactly
the bytes between the entry's ISN and `clientSeqNext`: so the next segment accepted is the
next of the stream. `ClientStream` does the same for `relaySeqNext`, which only the reverse
loop advances, under the ISN of the entry: what the loop has read and not sent is the byte
that follows the end of that ISN's data (`StreamEnd`), and as long as no second ISN has carried
data that end counts all reads. The FIN sent on EOF is the last number it has.

**`TunnelClientProofs`**: `HeartbeatIsUnique`, from `HeartInv == HeartsTyped /\ OneHeartbeat`,
which is inductive by itself: a heartbeat goroutine only moves on or ends, `stopHeartbeat`
marks the one that is not marked, `startHeartbeat` starts one only when there is no stop channel,
and nobody else touches them. `TypeCorrect`, `TransportsAreOwned` and `LossIsSeenTo` follow from
`IInv`, which adds the types, `DeskInv`, `HandsInv` and `LossInv`:

- `DeskInv`: a cycle that tries has retries left, a failover that connects has chosen a relay,
  a selection names one. Without it a step could store no relay at all.
- `HandsInv`: only a caller between the swap of the client's fields and `Close` holds an old
  transport. `NothingLeaks` says every open one is held so or is the client's.
- `LossInv` strengthens `NeverAbandoned` over the steps at which somebody works on the client:
  a tunnel that is down, with no loss in the channel, is in the hands of the Reconnector
  or of a handler that has yet to stop it; and a handler that has, and will start it
  again, leaves a loss to be found, or a tunnel that is not down.

`ConnectedHasHeartbeat` needs a second invariant on top, `WatchInv`: `heartbeatStop` belongs to a
heartbeat that has not been told to stop; and when a tunnel that is up has none, somebody is at
`startHeartbeat`, or between a reset and the `Connect` that follows it, or the Reconnector is
stopped and no handler is about to start it. The last case is real: a `Disconnect` that resets
the transport under a recovery's `Connect` leaves a connected tunnel without heartbeat, which is
why the property says "while the Reconnector runs".

**`UpdaterProofs`**: `Types` (`TypeOK`), `ExecutableSurvives` (`RunnableCopy`),
`RollbackSound` (`RollbackRestoresOther`) and `InstallationsAreNew` (`InstallsAreNew`), for any
number of releases, faults and retries, on every platform.

- `IInv == RunnableCopy /\ InstallUnderWay`. `InstallUnderWay` says what holds at each place
  of an installation: the executable is there until it is renamed away (on Windows only), the
  backup from the copy on, what is copied is verified, and only a running service downloads.
- `RInv == torn \subseteq {"unseen"} => OnRecord /\ InPlace /\ Labelled /\ Restorable`. While a
  record exists nothing is staged and no installation runs (`OnRecord`): that is what a payload
  which could not be removed, or a record which could not, would break. The executable is the
  version that runs until the new one is copied, and the backup is then the old one
  (`InPlace`); what is staged is labelled truly and differs from the executable (`Labelled`): so
  the record names the executable and the backup is another binary (`Restorable`). That no
  other failure of an operation disturbs these is the content of the theorem: the steps of
  `RollbackStep` are where each failure is shown to leave them, or to enter a window.

- `NInv == torn = {} => Marked /\ Payloads`. As long as none of the four windows was met, the anti-downgrade
  mark is at least as high as any version installed or run, also at a boot that has not
  written it yet, and the binaries a rollback may restore are not above it (`Marked`);
  what is downloaded, staged or being installed is not below it, nor the failed version, since a
  rollback leaves nothing staged (`Payloads`). The checks of `CheckAndDownload` are made at
  the download, the installation comes one or more boots later: this is what carries
  them over.

**`ProtectionProofs`**: `TypeCorrect`, `RulesFollow` (`RulesFollowPolicy`), `LockdownHandsOver`
(`CaptiveHandover`) and `HostIsReopened` (`HostReopened`), on both systems, for any relays and IPC
connections and any number of requests, faults and tamperings (`Invariance`):

    IInv == TypeOK /\ PhaseInv /\ BootInv /\ OwnedInv /\ LeftInv /\ HostInv /\ PolicyInv
            /\ CaptiveHandover

- `PhaseInv`: what a goroutine that has released `p.mu` carries to its next step: a relay, a
  manager, the name of a field it has yet to write.
- `BootInv`: what is not there yet while the boot goes on. No recovery runs before the
  tunnel is up, no country change has a relay to leave, nobody but the boot holds the boot's
  firewall, and no rules are full before `RaiseRules`. It is why a lockdown is only ever
  replaced by the full rules.
- `OwnedInv`: who ends with what; in particular nothing but the handlers is under way once the
  process has exited, and a request that activates has a manager that the shutdown will find.
- `LeftInv`: filters of earlier rules are only left beside rules in force, since what deletes the
  last deletes them all.
- `HostInv`: while no lasting cause is on record, rules on the host have a manager, routes a
  route manager (or a request or recovery about to hand one over), and the shutdown's steps
  have each undone theirs.
- `PolicyInv`: each disagreement of rules and policy is on record, or `Excused`: somebody is
  about to end it or to record it. When boot, requests, recovery and watcher are done
  nobody is left to be excused, and the disagreement is on record: that is
  `RulesFollowPolicy`. What an activation leaves of the rules before it contradicts the policy only
  if it did before, or the operation records it (`Inherited`).

Each part has a lemma for the boot, the shutdown, the requests, the recovery and the rest, with
a step for each action; what the operations on rulesets do is shown once, before them.

Three theorems are about the stop. `LocksKept`: `p.mu` is held by the mode request that is
changing the firewall and `config.Mu` by the IPv6 request on its way to `SetIPv6Policy`, and by
nobody else. `NobodyIsStuck`: at every moment of a stop the main goroutine can go on, or one
of those it waits for can, directly or through the locks. Only the IPv6 request holds one
lock while it waits for the other, and the holder of `p.mu` waits for nothing: with any number of
handlers there is no cycle. `StopWindsDown`: under a stop the main goroutine, the
handlers, the recovery and the correction of the resolver each have a number of steps left
(`MainWay`, `RequestWay`, `RecoveryWay`, `ResolverWay`) that every step of their own lowers and no
step of anybody raises. That a request which fails to save goes back (`undo`), that a country
change may end as a mode request, and that the boot goes on under a stop are steps down
in this order.

*Only model-checked*: the liveness properties (`CycleTerminates`, `StopTerminates`,
`LossIsHandled`, `EndedReaderTearsDown`, `ConnectedIsProbed`, `UpdateArrives`, `StopReturns`,
`TamperingRepaired`), since the prover does neither liveness under fairness nor `ENABLED`. What
they rest on besides is proved for most: the measures that only fall (`CyclesEnd`,
`StreamWindsDown`, `StopWindsDown`), that somebody can always take the next step
(`WaitersHeard`, `TailIsFree`, `LoopsAreFreed`, `NobodyIsStuck`), that nothing is lost on the way
(`NothingLost`, `LossIsSeenTo`, `ConnectedHasHeartbeat`). What TLC adds is that the steps are
taken: that the guards written out in those theorems are the whole of `ENABLED`, and the
induction along the measure. Of `UpdateArrives` and `TamperingRepaired` no such half is proved.
Every safety invariant and action property of a passing run is a theorem. What a violation run
shows has no proof: a counterexample is one. No module needs induction over data or a
recursive operator.

## 6. Findings

Five runs expect a violation: each quotes a comment of the code and shows a behaviour that
breaks it.

1. `disconnect_final`. "Stop reconnector to prevent automatic reconnection after
   user-initiated disconnect" (`linux/internal/ipchandler/handler.go:463`). A Connect
   ends with `go r.Start(...)`; if that goroutine first runs after the Stop of the following
   Disconnect, it starts the Reconnector, which finds the notification of the Disconnect and
   reconnects.
2. `relay_tunnel_leak`. "`done` is closed by cleanup so a blocked sender unblocks when the
   session goes away (prevents goroutine leaks ...)" (`relay/relay/nat_table.go:171`). The
   cleanup is deferred behind `<-readerDone`. When the writer has stopped on a write error
   the channel fills; the reader, answering a packet itself, is then one of the blocked
   senders, and the handler, the reverse loops and the `IPLimiter` slot stay for ever.
3. `relay_flow_findata`. `clientSeqNext` is the "next expected byte from client"
   (`nat_table.go:119`). A FIN on a segment with data is taken before the data is looked
   at: the FIN-ACK acknowledges a byte that is never forwarded.
4. `failover_sni`. "SNI must match the cert, not the IP" (`internal/tunnel/client.go:242`).
   `tryPool` calls `UpdateRelay` and `Connect` on a transport built, when the cycle began,
   for the relay that failed: each alternative is dialled with that relay's `ServerName`.
5. `updater_rollback`. "Mark that a rollback is possible until tunnel confirms working"
   (`linux/internal/service/service.go:2140`). The process that installs the update goes on
   running the previous image, and its own tunnel clears the record and the backup: the new
   binary first runs at the next boot, with nothing to roll back to.

Exploration of the models also showed the following. No line of the repository says
otherwise, or the consequence is a matter of judgement, so no run states them:

- *After the breaker has tripped*, SelectCountry connects but leaves the breaker open (later
  losses are ignored); a manual Connect resets the breaker but leaves the kill switch
  active, so DNS stays down although connected, until the next cycle deactivates it.
- *A stale notification*: a loss still queued when a manual Connect has succeeded makes the
  next `Start` tear down a healthy tunnel and reconnect it.
- *DNS after faults*: when both activations fail, the proxy is stopped and `active` is
  false, so the end of the cycle does not restart it; and a proxy the kill switch restarted
  dies with the Reconnector's context when the next request stops the Reconnector.
- *The selected relay*: SelectCountry updates the relay before it stops the Reconnector; a
  failover under way may overwrite it, and the request answers "connected" on another one.
- *Heartbeats*: a heartbeat that trips leaves its channel in `heartbeatStop`; when the
  breaker ignores its notification, or two overlapping Connects push it out of the channel,
  a later manual Connect starts no heartbeat. A probe begun before a reconnection can trip
  the new connection. The comments at `heartbeat.go:102` and `client.go:400` speak of 2
  failures and 5 s, the code has 3 and 10 s.
- *`recoverTUN` beside a Disconnect* can end connected, with the Reconnector stopped and no
  heartbeat.
- *After a SelectCountry that failed to connect*, the failover manager's current relay is
  still the one before.
- *Relay, idle timer*: it cancels the context only; a reader blocked in a read of an idle
  stream does not see it, so the stream stays (the same cause as finding 2).
- *Relay, double eviction*: two goroutines that evict one entry subtract it from the counters
  twice, may release a port that has been handed out again, and may delete from the table an
  entry re-created under the key, whose socket then is never swept. `contended` in
  `Accounting` and `OpenSocketsAreSwept` stands for exactly this. An entry may also be
  stored after `Shutdown`.
- *Relay, closing client*: when the client closes first, data of the server follows the FIN
  the relay has already acknowledged with its own.
- *Relay, re-created entry, server to client*: it draws a new random ISN (`nat_table.go:425`), which
  its SYN-ACK announces to a client that is not connecting and ignores it. The data the new
  server connection gives is sent under numbers the client does not expect, and is lost to it.
  `ClientStreamContiguous` says what holds under each ISN, and for the whole stream until then.
- *Relay, re-created entry, client to server*: the entry a mid-stream packet re-creates counts that packet as a
  SYN. After a longer segment it expects bytes the client has sent already, and forwards
  nothing more until they are sent again. After a segment of one byte it expects the very
  next one: the rest is forwarded to the new connection with that byte missing, though it has
  been acknowledged. The comment "If it's data (non-SYN), forward payload"
  (`nat_table.go:464`) never holds for such a packet. The second case came out of the proof
  of `AckedBeforeFinIsForwarded`, which is why the run has segments of one byte and the
  invariant the proviso `gap`.
- *Updater*: `Install` ignores the errors of the four `os.Remove` at `installer.go:284`: a
  payload that stays is installed again by the next boot, over its own backup, and a rollback then
  restores the version that failed (`placed`). A label that cannot be written ends the cycle with
  the new payload under the older label (`updater.go:357`), which then goes into the record and
  the marks (`relabel`). A record that cannot be removed after a confirmation meets the backup of a
  later installation (`kept`). None of these needs a crash. A failure to write the failed version
  is logged and leaves it unmarked: it is downloaded and installed again.
  `WriteMaxSeenVersion` is called monotonic (`rollback.go:190`), but takes the
  label of the staged payload, which a crash between two files can leave stale.
  `tryInstallStagedUpdate` does not compare the staged version with the running one. On
  Windows a rollback's rename over the running executable is refused. A connect timeout
  after an installation is classed as transient and causes no rollback. A broken version that
  the old image has confirmed leaves a service that neither connects nor updates, which is
  why `UpdateArrives` excludes it.
- *A failed boot keeps the recovery alive* (`kept`): when `startProxy` or `SetResolver`
  fails, the TUN watchdog already runs; it sees the device `tunCleanup` closed and
  `recoverTUN` raises rules and routes again. `run` has returned, so nobody takes them down.
  When `ensureTUN` fails the rules of the captive portal stay likewise, while the log says
  "internet stays direct".
- *IPv6 policy*: a `SetIPv6Policy` that fails has already changed the options, so the next
  activation applies the policy that was refused (`service.go:2880` says "atomically"). In
  degraded mode it re-applies the last rules, as do a recovery or a watcher that had started
  before the change of mode (`putBack`).
- *Relay*: the Reconnector's failover changes the relay without `ReconfigureForRelay`. A
  recovery or a watcher that read the old address may apply it after `ReconfigureForRelay`
  (`stale`).
- *Booting in degraded mode* never stores `firewallRelayIP`: the normal mode, asked for or
  automatic, is refused with `tunnel_not_connected` for the life of the process, and a
  recovery takes the routes down without setting them up again.
- *Captive portal*: on Windows `CleanupOrphans` deletes the lockdown before the full rules
  are raised, and the gate then accepts the lockdown's manager even if that activation
  failed, against "zero gap between captive rules and full rules" (`service.go:3072`). The
  flag stays up when the gateway is unknown or the lockdown failed, so mode changes are
  refused. `SetKillSwitchMode` reads the flag before `p.mu`: a request accepted just before
  the portal is found lifts the lockdown.
- *Windows filters accumulate*: `Activate` is said to flush and replace any earlier ruleset
  (`windows/internal/firewall/firewall.go:78`), and `recoverTUN` relies on it
  (`service.go:2745`); `firewall_windows.go:54` only adds filters. After a country change the former relay
  stays permitted, and a block of IPv6 left over keeps it blocked once it is allowed (`older`); the
  permit of a device that was replaced is left as well (not modelled). `CleanupOrphans` at the
  boot is meant to clear the lockdown; when it fails, which is logged at most, or an IPv6 request
  re-applies the lockdown between it and the full rules, the permits of the captive portal (ports 80
  and 443 to anywhere) stay beside them (`lockdown`). `Deactivate` returns nil when it could not
  enumerate or delete the filters: the service then says "degraded", or stops, with the rules in
  force.
- *The watcher* serves the firewall made at boot only; when its activation fails, or the
  context is cancelled between its two calls on Windows, no rules and no watchdog are left.
- *A change of mode during a recovery*: `recoverTUN` activates its new firewall before it stores
  it in `firewallMgr` (`service.go:2764`). A switch to degraded mode in between finds no
  manager, takes the rules for absent (`killswitch.go:134`), and declares the mode: the
  full rules stay in force (`putBack`). The proof of `RulesFollowPolicy` needed the label; the
  shortest behaviour has more requests than the run allows.
- *The lockdown's manager published late*: a handler that has captured the manager of the
  lockdown before `RaiseRules` stores it in `firewallMgr` afterwards, without `p.mu`, and so
  puts it back over the boot's. The watcher then disarms and activates through that one, and
  the host is open in between while the boot is still at the gate. The proof of
  `CaptiveHandover` found it; the invariant therefore speaks of the time until the watcher
  is there, and a run with larger bounds confirmed both this and the previous item.
- *Shutdown* (`resurrected`): a country change, a mode change or a manual recovery in flight
  sets up rules or routes after they were taken down; a manager or route manager not handed
  over yet is nobody's to tear down (`kept`). Step 6 of the shutdown (`VerifyAndRestore`)
  never runs after a successful restore. The comment "Stop IPC server LAST" is not the
  whole order: the listener closes with the context.
- `PacketForwarder`'s "Returning an error closes the stream" is no longer so:
  `tunnel_handler.go` drops the packet and goes on.

## 7. What is not modelled

- *Of the parts modelled*: backoff durations (each wait is a step), token verification,
  frame and packet layouts, checksums, TLS pinning, and the session token with its breaker.
  `RelayFlow` stays far below 2^32, so sequence numbers do not wrap. An error of the
  `UpdateRelay` that restores the relay after a failed failover is not modelled. In
  `Protection`, the partial deletion of a ruleset, an IPv6 policy that is open at the boot, the tunnel itself, the contents of `config.toml` (only the save, its lock
  and its failure), packets, and a crash of the process, which leaves rules and resolver
  behind; in `Updater`, `fsync`, the intervals between checks and the `.bak.old` file of Windows.
- *Hazards with a property that stops short of them*: the double eviction at the relay is in
  `PoolSound` without proviso, but `Accounting`, `OpenSocketsAreSwept` and `EndedSessionForgotten`
  say what holds of the rest (`contended`); `ServerStreamInOrder` counts from the packet that created
  the entry, so the byte a re-created entry drops is in the findings and in the proviso `gap`, not
  in it; `RelayFinIsLast` speaks of one entry. `PROJECT.json` notes the same at those hazards.
- *Abstracted*: the handling of a DNS query is a detector of losses; `recoverTUN` is its
  `ResetTransport` and `Connect` in `Reconnect` and `TunnelClient`, its device, rules and
  routes in `Protection`; the registry is a constant set of relays.
- *Not yet* (next section): Android with the packet pump and QUIC migration, which has a
  client and a life cycle of its own; the limits of the relay; the discoverer's passes.
- *Out of scope*: request-response handlers with no state, parsers, I/O (IPC transport,
  routing commands, WFP/nftables calls), periodic probes that change nothing (leak checks, STUN),
  UI, CLI, cryptography, browser policies, build and release tools.

## 8. Plan

In order of importance; 1 to 11 are done.

1. `StateManager`, `Reconnect`, `ReconnectPromise` with `StateManagerLemmas` and
   `ReconnectProofs`: what the kill switch and the reconnection promise.
2. `RelayTunnel` and `RelayTunnelProofs`: the only place where three goroutines and
   unbounded senders end together.
3. `RelayNat`: lock-free bookkeeping.
4. `RelayFlow`: userspace TCP.
5. `TunnelClient` and `TunnelClientProofs`: the callers of the client on one link, composed
   with the Reconnector's cycle.
6. `Updater` and `UpdaterProofs`: staging, installation, confirmation and rollback with a
   crash between any two file operations.
7. `Protection`: boot, shutdown, kill-switch modes, watchers and recovery on the host's
   rules, routes, device and resolver.
8. `ProtectionProofs`: the type invariant and its three invariants.
9. `RelayNatProofs` and `RelayFlowProofs`: all their invariants.
10. The rest of `TunnelClientProofs` and of `UpdaterProofs`.
11. The safety halves of the liveness properties: bounded cycles and teardowns, the lock
    discipline of the stop, the heartbeat of a connected tunnel.
12. `AndroidVpn`: service states, backoff, network callbacks, `MigrateGomobile` against
    `CloseGomobile` and the pump.
13. `RelayLimits` (acquire, release and cleanup of the counters) and the discoverer's passes.
