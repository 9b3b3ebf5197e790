# ct-agent in TLA+

`ct-agent` does two jobs. The **tunnel** publishes a local service under a public hostname: the
agent dials out to an edge and bridges the streams the edge sends. The **channel** is an end-to-end
encrypted session between two members that an edge pairs: calls, pipes and TCP forwards, admitted
by grants that an operator signs and may revoke. Around both the agent keeps files and processes on
its own **host**: keys, certificates, a login, an updater and its supervisor, an event log. This
directory models all three, checks the models with TLC and proves most of their invariants with TLAPS.

All paths below are relative to the repository's root; `channel_run/` stands for
`native/src/channel_run/`, and a bare file name for one under `native/src/`.

## Inventory

### The channel

| Component | State | Operations | Interacts with | What is hard, what makes it correct |
|---|---|---|---|---|
| Session window (`channel_run/forward_stream.rs`, `SessionSend`, `SessionSending`, `SessionRecv`) | two semaphores, `SessionOwed`, the receiver's unacknowledged bytes and its flush timer | take, queue, give back on a reset, receive, flush, acknowledge | the pumps of all streams of a session, the engine of the peer | several pumps, resets in the middle of a send, batched acknowledgements: no byte of the window is lost or made up, nobody starves |
| Forward engines (`forward_stream.rs`, `run_forward_*_engine*`, `pump_forward_stream`) | stream tables, running pumps, per-stream credit, a shared queue, a control queue, inbound queues | accept, open, dial, data, credit, half-close, abort, idle close, HELLO, session end | local sockets, the peer's engine over the session, the drain | tasks and two queues reorder frames; timers cross on the wire: data in order, no silent truncation, no false violation, no slot lost, no stall |
| Peer-grant gate (`channel_run/peer_grant.rs`) | prelude, verdict, lifetime timers, the record of a grant's end | poll read/write, verify, expire, revoke, close | the session runner, the re-check, the reconnect loop | polled, never awaited: a lost wake-up keeps a session beyond its grant; whose grant ended decides what the process does |
| Grant re-check (`channel_run/grant_watch.rs`) | last valid answer, interval, grace | request, answer, timeout, verdict | the control plane, the gate | late, missing and old answers: a revoked peer is cut within a bound |
| Session runner (`channel_run/session.rs`) | grace, drain | run the pump, grace, drain, QUIC tail | gate, transport, health tickets | the end has a bound whatever the peer does |
| Reconnect loop (`forward_stream.rs`, `run_forward_initiate_reconnect_loop*`) | backoff step, own expiry, the last session's record | admit, wait, end for the own grant | admissions, the listener, the gate's record | races of expiry, session end and teardown: never on a dead grant, never stopped by the peer's end, growing backoff, no client left hanging |
| Serve loop (`channel_run/serving.rs`) and error policy (`channel_run/errors.rs`) | semaphore, session set, four streaks | acquire, admit, spawn, back off, end running sessions | admissions, session tasks, the own grant | outcomes are counted by other tasks; every path hands the slot on; stops only, and in time, with the own grant |
| Join (`channel_run/mod.rs`, `connectivity.rs`, `dialing.rs`, `peer_pin.rs`) | parked legs, the acceptor's listener, the pairing | park, dial, accept, race the two, take the relay leg | the broker, the relay's splice, Noise | a relay splices legs by age, not by pairing, and may splice one that is closed: nobody gets a session with another member than the one admitted, no open leg is left parked |
| Relay-only member (`connectivity.rs`, `run_dcutr_join_loop`; `p2p.rs`) | round, backoff, the session's path, the swarm's driver | dial, be admitted, run, move to the swarm, retry, stop | the edge relay, libp2p, the own grant | a driver task, a reservation or a session that outlives what it was for |
| Move to a direct path (`connectivity.rs`, `dialing.rs`) | one socket, the offer, the new stream | observe, offer, pick, dial, accept, handshake | the peer's same code over the relay | two functions whose roles have to fit: they never wait for each other |
| Gate transport (`p2p.rs`, `PreConnectedTransport`) | the one stream, one listener | listen, dial, poll, remove | a libp2p swarm that calls as it likes | the swarm may poll, dial and remove listeners at any time: the stream is not lost on the way, and nobody is refused while it could be had |
| Service calls (`channel_run/service_calls.rs`) | the line in hand, the session, handler processes | read, send, reply, time out, redial | stdin, the peer's handler processes | replies that come late, or from a handler of an earlier session |
| Bridge tools and revocation (`service_calls.rs`, `grant_revoke.rs`) | what was told to whom | grant, revoke, install | the control plane, whose answer may be lost | a caller is told "revoked" only if it is; a tool stays in its own channel |
| Readiness (`channel_run/health.rs`) | counters, stamps, flags | take and give back tickets, probe | every session and park, the probe command | read one by one under no lock: a probe never falls between two writes |
| Shutdown drain (`channel_run/shutdown.rs`, tickets of `health.rs`) | stop signal, looks, deadline | signal, look, exit | every session and stream of the process | looks race new and ending work: exit 0 cuts nothing, the process is gone in time |
| Login (`login.rs`) | the token file, the refresh lock, a degraded flag | device flow, refresh, save | the identity provider, every task that needs a token | rotating refresh tokens and a lock of one process only: an agent must not use one token twice, and gives a login up only with cause |

### The tunnel

| Component | State | Operations | Interacts with | What is hard, what makes it correct |
|---|---|---|---|---|
| Agent loop (`serve.rs`, `run_agent`; `reconnect.rs`) | registration, backoff, the transport in use | dial QUIC or MASQUE, register, serve, fall back, return | the edge, the pool, the control plane | the hand-over between two transports: a tunnel the pool was told of in time is not cut, no registration of the old transport stays |
| TCP fallback pool (`serve.rs`) | workers, their signals, the pool's counts, budgets, strikes | park, start, join, probe, hand over | the edge's single-use registrations | workers and pool on different threads: once nothing is on its way to the pool, a burst has not drained it |
| Framed relay (`serve.rs`) | queue, FINs, keepalive counters, idle clocks | read edge, read Origin, write, ping, judge | the edge's stream, the Origin's socket | half-closes, a silent peer, a verdict over late acknowledgements |
| Direct path (`serve.rs`) | slots, one deadline per connection | accept, handshake, authenticate, bridge | strangers, the token policy, the local-auth gate | a stranger keeps a slot no longer than the set-up time |
| Edge link (`transport.rs`) | remembered TLS configurations, the phase of each line | dial, register, ping, tunnel | the edge | phases share one byte stream; a cached configuration must match the asked-for anchors |
| MASQUE socket (`masque/`) | two queues, a capsule buffer, drop counts | dial, send and receive pumps, encode, decode | an HTTP/2 proxy, quinn | capsules cut anywhere: every datagram whole, once, in order, or counted |
| Super peer (`super_peer.rs`) | the map of clients, a task per client | forward, evict, read back, end | LAN clients, the edge | a task takes out its own entry, not its successor's |
| SSH access (`ssh_access.rs`, `ssh_owner.rs`) | preamble, two byte streams | dial, prove the key, pump, drain | ssh, sshd, the agent's door | bytes around the preamble: none lost, none added, nobody unproven gets through |

### The host

| Component | State | Operations | Interacts with | What is hard, what makes it correct |
|---|---|---|---|---|
| Secret files (`secret_file.rs`) | directory entries, inodes | write, sync, rename, sync the directory | every keeper of a key or certificate | a kill or power loss between two system calls |
| Serving identity (`capability.rs`) | key, capability, retired keys | first start, load, rotate, close a window | agent and operator on one directory | two renames that are not one |
| Self update (`self_update.rs`) and supervisor (`bin/ct-agent-supervisor.rs`) | the binary's names, the check's stages; child, backoff, stop | check, verify, download, swap, exit; spawn, wait, stop | the release page, each other | a kill between two renames, a release published anew between two requests, a stop in between: a binary stays in place, no child is left behind |
| Onboarding (`onboard.rs`, `identity.rs`) | three files, staged names | redeem, stage, rename, sync, restore | the control plane's one-time token | a crash keeps any of the unsynced renames |
| Activation and harness (`manifest_run/mod.rs`, `harness_run/mod.rs`) | bundle directory, marker | create, sign, publish, activate, run | installer engine, registry | a cut-short activation must not be taken for another manifest's bundle |
| Certificates (`acme_orchestrate.rs`, `acme_client.rs`, `dns01_authoritative.rs`) and TLS terminator (`serve.rs`, `OriginTerminator`) | order, zone, the pair of files; times seen, configuration | renew, order, check name servers, promote; reload, accept | broker, CA, name servers; connections | key and certificate are two files replaced one after the other |
| Event ring (`events.rs`) | budgets, two files | emit, rotate, read | every task | a line withheld is counted, a torn one joins the next |
| Local auth (`local_auth.rs`) | limiter atomics, the links file | check, fail, mint, redeem, revoke | connections, the command line | three atomics read one at a time; two processes write one file |

### Not modelled, and why

- the forward's target policy (`channel_run/forward.rs`): one pure decision; its refusals are scenarios of
  `ForwardStream`;
- provisioning and configuration: grants and flags parsed and minted, with no state between calls;
- status, doctor and the other reports: they only read;
- the command line, the load driver, the wasm build and the laboratory binaries and drivers;
- the libp2p behaviour inside a swarm, HTTP/2, TLS, QUIC and Noise, the control plane, the CA: they
  are environment, restricted only by what the code assumes of them.

Each component's note in `PROJECT.json` names what a modelled part leaves out. What is hard in this
code, the lines where it bites and the properties that would catch it are its `hazards`.

## Modules

Every module is one component. Definitions that begin with "Mutation:" in their comment are not part
of the model: each is a plausible bug in the definition below it, used to show that the property
named in `PROJECT.json` would catch it. Time, where it matters, is discrete; what the code itself has
to do at an instant goes before the next tick. Elsewhere a delay takes any time and a timer may fire
whenever its guard holds, hence all its races.

### Channel

- **SessionWindow** is one direction of one session's window. `first` and `budget` are the two
  semaphores, `owed` is `SessionOwed`, `wire`, `unacked` and `acks` are the bytes between the two
  members. Data is its length, frames in flight are byte counts and the receiver may cut them
  anywhere. `ahead` is tokio's first-in first-out order of waiters.
- **ForwardStream** is one session with both engines, both writers and a pump per stream and side. A
  data frame is one unit, known by its position. A scenario (how the members are set up and what may
  fail) is chosen by `Init`. The session runs without a session window, which is the module above.
- **GrantSession** is one session on one member: gate, lifetime, re-check, pump and runner, with the
  peer and the control plane as environment. A task that was not woken does not run, so that a lost
  wake-up shows up as time that passes.
- **ForwardReconnect** is the initiator's loop; a session may do what `GrantSession` lets it do: last
  any time, record an end and return.
- **ServeLoop** is the persistent accept loop. An admission and a session take any time and end in
  any way. A session's last two statements, the record of its outcome and the release of its slot,
  are two steps. An aborted task is dropped before the next tick: the code awaits it within the same
  budget, and a task that never reaches an await is not modelled.
- **ShutdownDrain** is a process with its sessions or streams and the drain on another thread.
  Tickets are read off the phase of each unit of work. `in_flight` is read in one step; the code
  reads its counters one after the other.
- **Readiness** reads the same tickets the other way: every counter and stamp in a step of its own.
- **ChannelJoin** is an acceptor with one or two slots, its callers, the broker's pairings and the
  relay, which splices the two oldest legs of different holders. A leg that its holder closed stays
  in the relay's queue until the edge drops it, and may be spliced first as a corpse.
- **DcutrJoin** is the loop of a relay-only member with its sessions and swarm drivers;
  **RelayUpgrade** both ends of the move from the relay to a direct path; **GateTransport** the
  transport over one open stream, driven by a swarm that may call it in any order.
- **ServiceCalls** is the calling side's redial loop, the session and the serving side's handlers; a
  reply is the number of the line it answers. **BridgeTools** is a serving agent's tools, called by
  several peers at once, against a control plane whose answers may be lost. Its session modes and
  the cells of a local session are there for the calls to run in; no property reads them.
- **OidcLogin** is the token file with the tasks of an agent that refresh it under their process's
  lock, other `ct-agent` commands that take no part in the lock, and a `ct-agent login` beside them.

### Tunnel

- **FallbackPool** is the TCP fallback's workers and pool loop, on different threads: a worker reads
  the edge's signal and tells the pool in two steps, the hand-over's last look at the signals and its
  aborts are two, and an aborted worker goes on to the end of its poll. **TunnelAgent** extends it with
  `run_agent`: the QUIC and MASQUE dials, registration, the fall back, the probe and the return.
- **FramedRelay** is one relayed stream: both readers and the writer's `select!`, whose branches keep
  or lose what the code keeps or loses. Whoever writes waits inside the write as long as the other
  side does not read.
- **DirectPath** is the listener for direct connections with its slots and its one deadline.
- **EdgeLink** is several lines to the edge over one memo of TLS configurations. The bytes of the
  tunnel are told apart, and may follow the end of the ping phase in the same packet.
- **MasqueTunnel** is the dial and the two pumps; varints and capsules are modelled byte by byte.
- **SuperPeer** is the LAN relay; a socket and the task that reads it have the same number.
- **SshAccess** is `ct-agent ssh` against the agent's door. Bytes are numbered as they were written.

### Host

- **SecretFile** is `replace_atomically` on directory entries and inodes, with kills and power losses
  between any two system calls. **AtomicFile** is what its callers rely on: the content is the old or
  the new one, whole, and a write that reported success survives a power loss. `SecretFile` with one
  writer implements it: `Implements` is `AtomicFile`'s specification under the mapping of `content`
  to what the path's entry shows and `kept` to what a power loss would leave.
- **OriginKeys**, **SelfUpdate** and **Onboard** use files that are atomic in this sense and model
  what is not: that there are several of them.
- **Supervisor** is the process that starts the agent; **SelfUpdate** extends it: the update replaces
  the binary that the supervisor spawns next.
- **CertOrder** is the renewal loop with the zone and the name servers; **OriginTls** extends it with
  the terminator that reads the pair while the renewal replaces it.
- **Activation** is a bundle from its manifest to the task that runs on it, with several activations of
  one directory; **EventRing** the two files and the budgets of the event log; **RateLimiter** the
  three atomics of the lockout, one access per step; **LinkStore** the share links in a file that two
  processes write.

### Compositions for TLC

`MC_Tunnel`, `MC_Channel` and `MC_Host` each instantiate the parts that run side by side in one
process; `MC_ForwardStream` gives the scenarios of a forward session. The other modules run as they
are, with the values of their `.cfg`. Parts that share state are composed in the modules themselves
(`TunnelAgent` over `FallbackPool`, `SelfUpdate` over `Supervisor`, `OriginTls` over `CertOrder`).
The others share none, so that their interleaving would only multiply states: a behaviour has one of
them in `focus`, chosen by the initial state, and the rest stay as they started. The focus `cert`
watches the zone over two orders; `origin` lets three orders go by beside the terminator, without
the name servers, which the terminator never sees.

## Runs

State counts are those of TLC; all runs end within five minutes with two workers.

| Run | Checks | Distinct states |
|---|---|---|
| `session_window` | `WindowSound`: the two parts add up, what is owed is in flight, the window is respected, no honest member is taken for a false one. `WindowLive`: first chunks, later chunks and the window itself get their bytes | 45 000 |
| `forward_safety` | `StreamIntact`: data in order and never cut silently. `LimitsKept`: credit conserved and agreed on, no false violation, slots bounded. Four scenarios | 2 900 000 |
| `forward_live` | `StreamsEnd`: a long stream and one beside a target that never reads complete; every slot is freed | 322 000 |
| `forward_abort` | **violated**: an abort after a half-close ends the stream | |
| `grant` | `OnlyWithinGrants`: data only within the grants. `EndsRightly`: whose grant ended, closed at once, ended in time. `WatchHolds`: revocation bound, never unwatched | 6 400 000 |
| `grant_bound` | **violated**: the documented bound of grace plus short drain | |
| `grant_half_closed` | **violated**: every session ends with this member's own grant | |
| `reconnect` | `EndsWithOwn`: stops only over the own end and in time, no admission after it. `BackoffGrows`. `ConnectionAnswered`: every local connection is taken or closed | 821 000 |
| `drain_tail` | **violated**: a drain look never catches two zeros around a session's hand-over to its tail | |
| `tunnel` | the eight properties of the tunnel's parts, below | 1 900 000 |
| `channel` | the nine properties of the channel's other parts | 1 700 000 |
| `host` | the twelve properties of what is kept on the machine | 1 360 000 |

**tunnel.** `RelaySound`: a reply is whole before its FIN, a half-closed relay ends, and a peer is
given up only when it was really silent. `ParkedKeptUp`: as soon as no signal and no end of a worker is
on its way to the pool, as many workers really register, wait parked or serve a plain registration as
the pool's size without those that gave up, unless more than the cap relay; and all of them together
are never more than size and cap. `HandOverClean`: the return to QUIC cuts no tunnel whose worker told
the pool before its last look at the signals, and leaves no registration of the fallback behind; a
verdict of it stays only if an aborted worker heard it in its last poll. `StrangersHoldBriefly`: a peer
that has not authenticated itself keeps a slot no longer than the set-up time. `LinksKeptApart`: the
edge gets the registration, one PONG per PING in order and then the tunnel; the tunnel takes over with
exactly the bytes that the edge relays still unread; and a connection trusts exactly the anchors it was
asked to. `DatagramsAccounted`: every datagram comes through whole, once and in order, or is counted as
dropped. `MappingsLive`: no client is left with a socket nobody reads. `SessionWhole`: between ssh and
sshd nothing is lost or added at the joints, and sshd hears nobody who was asked for the key and did
not prove it.

**channel.** `JoinSound`: a session runs with the member that was admitted to it, and no open leg is
left behind or awaited by nobody. It does not say that a session comes about: a closed leg may win the
pairing, and the partner's leg is then lost. `LeavesNothing`: a relay-only member is gone with its
grant, its driver with its session. `NeverBlockEachOther`: two peers in the handshake on a direct
connection never both wait. `StreamReachesItsUser`: the one stream is with the transport until it is
one connection, a listener is refused only when the stream is gone or another was served, and none
hears of it once removed. `DrainSound`: an idle end cut nothing, a started tail is waited for, the exit
comes in time. `NotReadyIsTrue`: a probe that says "not ready" is right. `BridgeHonest`: who is told
"revoked" is told the truth, and a tool stays in its own channel. `RepliesMatch`: a line is answered at
most once, in order, by its own reply. `DegradedHasCause`: an agent never presents a refresh token it
has itself exchanged, and gives a login up only over a cause outside it (a token or session at its end,
an answer that was lost, not saved or taken by another process, a provider that hands out no refresh
token or refuses one that it takes).

**host.** `Implements`: the refinement above. `InstallSound`: wherever an update is cut there is a
binary to run, under its name or, on Windows, moved aside; with a key pinned, what is installed was
signed for that very tag. `SupervisionHolds`: no agent is left behind, and none is missing for longer
than the backoff's cap, except on Windows after a cut update. `RunsAsOneOnboarding`: an agent runs with
the files of one redemption, except after a crash within the renames. `OwnCapabilityServed`: an agent
that starts after a cut rotation serves the identity its capability pins. `TaskOnItsOwnBundle`: a task
whose bundle was checked works on the whole bundle of its own manifest, unless a second activation
looked at the directory between the first's look and its unpacking. `PairComesRight`: a terminator that
reloaded and sees no further change serves the pair on disk, and a mismatched pair is due for renewal,
unless a power loss kept the later of the two renames only. `AskedWhereServed`: after the authoritative
check the CA is asked only if every name server for which an address was found serves this order's
token. `EventsAccounted`: recent lines in order, at most two missing for each write error and the rest
of a file that was cut inside a character; withheld ones counted. `GuessesBounded`: racing connections
do not get more guesses than one budget each beside the one that is meant. `OnceMeansOnce`: a link for
one use is redeemed once. `LoopSound`: the serve loop paces its admissions, conserves its slots, and
ends with its own grant and its sessions.

### What the violations show

- `forward_abort`: after the peer's half-close the pump no longer polls its inbound queue, so a
  reset that follows is queued and not received. The stream stays half-open until the application
  closes or the idle limit runs out (`forward_stream.rs:1254`, against the comment at 595).
- `grant_half_closed`: once the local side's input has ended nobody polls the gate, and the session
  outlives this member's own grant while the peer is silent (`peer_grant.rs:345`, against 473-475).
- `grant_bound`: a peer that sends one more byte after the grant's end makes the pump end by itself;
  the session then waits out the long drain (`session.rs:457`, against 323-326).
- `drain_tail`: one look before the handshake is done and one between the two tickets are two zero
  looks in a row (`session.rs:276`, against 272-275).

### Smaller differences met on the way

They have no run of their own; where a model has to allow them, its property says so.

- A jittered first reconnect wait may be half a second where `shutdown.rs:39-40` counts on one second
  at the earliest; pairings count as work in flight only for serve members (`shutdown.rs:182-184`).
- An edge's refusal that overtakes the timer of the own expiry makes the serve loop abort its sessions
  at once, without the time that `serving.rs:492-495` describes for an expiry.
- A line of a persistent call that was taken from standard input when its session ends may
  stay without an answer, where `service_calls.rs:593-595` speaks of lines that wait for the next session; the
  handler of a call may outlive its session.
- The first load of the TLS terminator reads the pair before the files' times: a renewal in between is
  noticed only with the next one (`serve.rs:174-180` describes reloads). The join of a relay-only
  member that declines upgrades has no peer pin to consult.
- Two processes that write one secret file at once share the temp name: `SecretFile` implements the
  atomic file with one writer. A revocation of a share link may be overwritten by an agent's write that
  crosses it, as `LinkStore`'s doc comment admits.
- Nothing keeps two activations of one directory apart (`run_activate`, `bridge/manifest-install`): one
  that looks after the other has accepted or created the directory and before it has unpacked is let in
  too, and the directory ends up with both bundles (`bundle.crowded`). A bridge's activation goes on
  after its session has ended (`service_calls.rs:2220`, `manifest_run/mod.rs:846`, `spawn_blocking`).
- An edge does not notice that the holder of a parked relay leg is gone (`connectivity.rs:510-513`,
  `channel_run/tests.rs:8044-8046`): the closed leg may be spliced as a corpse, and the leg of the member
  it is spliced with is lost.
- `login.rs`: the lock `REFRESH` (616) is of one process. A command that refreshes beside an agent may
  spend the token that the agent has read, and with a rotating provider the agent then gives the login up.
- `dns01_authoritative.rs:233` speaks of every authoritative server; one whose address lookup fails is
  skipped (106), and the CA is asked without it.
- `acme_orchestrate.rs:486-487`: nothing syncs the directory between the renames of key and
  certificate. A power loss that keeps the second and loses the first leaves a mismatched pair that is not due.
- `events.rs:499-500` says that unreadable files contribute nothing; `map_while` (512) ends a file at
  the first line that is not text, so a write cut inside a character hides the later lines of its file.
- A stop signal that arrives between two of the supervisor's listeners is dropped with the first one.
- "No live tunnel is cut" (`serve.rs:3002-3005`) covers the workers that told the pool before its last
  look at the signals. One that reads its signal or tells after it, and one that serves a plain
  registration, is aborted with its Client. The last poll of an aborted worker may note a refusal after the
  hand-over noted success (2362), and the direct path is then refused until the next registration.
- A worker that serves a plain registration tells the pool nothing (`serve.rs:3277-3279`): it stands in for
  a parked one, so that the pool may have fewer parked registrations than 3014-3021 describe. The pool
  counts refusals for other reasons towards a revocation.
- `capability.rs`: a rotation that was cut between its renames and is tried again overwrites the
  retired key of the identity that is still published; an agent that starts in the middle of a
  rotation may read one file of each identity until it is restarted. Two first starts on the same
  paths are not ordered. With key and capability in different directories only the capability's
  directory is synced.
- `super_peer.rs:72` speaks of traffic in either direction; only reads of the upstream socket keep a
  mapping. `ssh_access.rs:364` ends a session whose upstream write failed without the drain that a
  clean end gets.

### Bounds, and why they are enough

The values are in the `.cfg` files; each is the least at which the case it is there for happens.

- `session_window`: two streams are the least that compete; four chunks are the smallest window the
  code accepts, so that both parts are one to three chunks and every boundary is met.
- `forward_*`: queues of one frame make every send wait at some point; a window of two to four units
  with one more to send crosses every credit boundary; two streams through one slot reuse it.
  `CtrlCap` 6 is above what these scenarios can queue, as the code's 4096 is above what a session
  of honest members queues.
- `grant`: the expiries 2 and 5 come in both orders and equal; a prelude of two units can be cut in
  the middle; a grace of two ticks lets the peer's bytes come within it; `MaxTime` 7 leaves room for
  the bounds after the earlier one, and for the grace after the later. `Require = TRUE`: a control
  plane without the endpoint ends the session after the grace. Without it such a control plane only
  makes the polling go on and bounds nothing; that setting is in the module and not in a run.
- `reconnect`: the backoff 2, 4, 8, 8 reaches its cap before the late expiry.
- `tunnel`: the relay's queue of one makes the writer and the Origin reader wait for each other, two
  frames and one reply overlap a half-close, three ticks pass both idle bounds. A pool of two with
  one serving can have one worker signalled while the other's end is not joined. Two direct
  connections compete for one slot. A memo of two configurations forgets one of three anchors,
  and two PINGs can be answered out of order. Two
  capsules, of types and lengths on both sides of a one-byte integer, are cut at every byte. Three LAN
  clients over a cap of two evict one; four sockets let one come back. Two bytes each way can be cut
  between the preamble and the banner.
- `channel`: two callers, one of them pinned, and two slots are the least that can be crossed; three
  dials cover a direct one, a relay leg and a retry. Two grant ends fall before and after the first
  session. Two holders of tickets can hand work from one to the other around a probe. Three units of
  work are one more than the two looks of a drain that have to agree. Two lines over two sessions
  let a late reply meet the next call; two tasks of the agent, a command beside them and three refresh
  tokens let a refresh follow another one's.
- `host`: four writes over two contents distinguish a lost write from a repeated one. Two signed
  releases and two inconsistent pages cover an older release under a newer tag. Three redemptions
  leave files of two before the one that runs. Two activators with two manifests and four activations
  race for one directory and come back to it. Three addresses of two name servers separate "one
  address" from "every server". Two events of budget and a ring of two lines rotate twice in five
  events. Three connections against two failures give two that race a third. Caps of 3 to 6 over a
  retry of 2 are reached by the serve loop's first or second step, and two slots let a session end
  while the loop is parked. Four identities let a complete rotation come before and after a cut one.

In all runs but `session_window` the clock, the connections or the data are finite and the model
comes to rest, hence `CHECK_DEADLOCK FALSE`; the liveness properties and the properties with a bound
on time say that it does not rest too early.

### Fairness

Only `session_window`, `forward_live` and `reconnect` check liveness; the other parts' promises have
bounds in time or are about what may never happen. Tasks of one tokio runtime whose branch stays
ready are polled: weak fairness on the steps of the engines, writers, pumps and loops, on armed
timers, and on the arrival of what was sent. Nothing is assumed of applications, peers and the edge,
except where a scenario says that both applications send all they have and close. In `ForwardStream`
no step can be taken for ever, so one condition on all steps is the same as one for each.
`WaitingGetsWindow` holds only if new streams stop coming at some point: the reserve for first chunks
may otherwise be refilled before the rest, as the code intends.

## Proofs

**SessionWindowProofs** holds for every finite set of streams, every chunk size and every window of
at least four chunks (`WindowAssumption`, the smallest one `SessionSend::from_hello` accepts). The
invariant is

    IInv == TypeOK /\ PartsAddUp /\ OwedIsInFlight /\ NoFalseViolation

`PartsAddUp` alone is not inductive: an acknowledgement pays back the reserve first, and that this
does not overdraw it follows only if what is owed is what is in flight, which in turn needs that no
session has ended. The lemmas say what one pump adds to the sum of all pumps' bytes (a cardinality).
Theorems: `TypeCorrect`, `PartsAlwaysAddUp`, `OwedAlwaysInFlight`, `NeverFalseViolation`,
`WindowAlwaysRespected`, and `WindowAlwaysSound`, which is the property of the run.

**ForwardReconnectProofs** holds for every backoff range, budget, set of expiries and policy
(`TimeAssumption`). The invariant is

    IInv == TypeOK /\ Clock /\ OwnRecorded /\ Answered /\ OnlyOwnEndStops /\ NoAdmissionAfterOwnEnd

`Clock` bounds the time in each state of the loop (no wait is overrun), `OwnRecorded` says that an
own end on record is one, `Answered` that no connection is left once the loop is over. Theorems:
`TypeCorrect`, `OnlyOwnEndEverStops`, `NeverAdmittedAfterOwnEnd`, `AlwaysStopsInTime`, and
`AlwaysEndsWithOwn`, which is the property of the run. `BackoffAlwaysGrows` needs `Grown` beside it: the
step has grown with the streak of short sessions, and what was waited since the last of them, or is still
to be waited, is half of it. That the recursive `TwoTo` doubles is proved by induction (`Induction`,
which the library's well-foundedness gives in a form on sets that the provers can use).

**ForwardStreamProofs** holds for any number of streams, units, slots, any queue sizes and windows
and every set of failures a scenario may allow (`StreamAssumption`). `StreamIntact` says that a socket
gets a prefix of what the peer's socket sent, and an end of stream only after all of it. It is far
from inductive: between the two sockets are an inbound queue, a frame that the engine holds until
there is room, the wire, the control queue and the shared queue, and either engine may drop a stream
while frames of it are on their way. The proof numbers what a stream sends (its Open 0, its units,
its Close last). `Run(q, i, u, lo, hi)` says that the numbers of stream `i` in the queue `q` are
`lo + 1 .. hi` in this order. `Flow` chains these runs from what the socket took back to what the
peer's pump queued: the inbound queue always, the queues behind it only as long as the engine still
delivers the stream (`Carried`), because an engine that dropped its entry lets the rest go by unread.
`Closing` says that a Close is on its way only from a pump that has sent all, `Passed` that a stream's
one Open is not read twice, `Sane` and `Waits` what a pump and a waiting engine hold. `LimitsKept`
(credit, slots) is not proved.

**GrantSessionProofs** holds for every set of expiries and set-ups and every timing
(`TimeAssumption`; it asks that the short drain is not longer than the long one, as 2 s and 30 s in
`session.rs` are). The invariant is

    SessionInv == Typed /\ Bounded /\ Watched /\ Polled /\ Timely /\ Watchful /\ WhoseGrant

`OnlyWithinGrants` rests on `Bounded` (the timer that is armed is the one of the grants that count).
`EndsRightly` needs `Polled`: a direction that is not to be polled has left its waker with everything
that can end the session, and without it time could pass the end unnoticed; `Timely` then bounds the
clock in each state of the runner. `WatchHolds` needs `Watched` (how far the re-check may be behind)
and two hypotheses. `AnswersCount`: with `CT_CHANNEL_REVOCATION` not at `require`, a control plane
without the endpoint counts as a valid answer for ever, and nothing is bounded. And the application of
a re-checked session keeps its sending side open: `grant_half_closed` shows what happens otherwise.
The proof of `Polled` found an error of an earlier form of the model: a read that meets the end of the
session in the inbound direction wakes the outbound one if its timer is due.

**ServeLoopProofs** holds for every number of slots, pace, budget and expiry (`ServeAssumption`).

    LoopInv == Slotted /\ Paced /\ Rushed /\ Ended

`Paced` ties the streaks, which other tasks write, to the history of outcomes and to the earliest
park; `Rushed` counts the sessions that may still flap together with the flaps since the last wait,
which is what makes "no more flaps than slots" inductive; `Ended` says how far the own grant's end has
come in each state of the loop. The steps of the backoffs (`StepOf`, with its powers of two) are not
looked into: only which step is waited for.

**ChannelProofs** has nine parts around a session, and the SSH door.
- The drain, for any number of units of work and any times (`DrainAssumption`). Two looks that find
  nothing prove nothing by themselves, because work between two tickets is not counted. `Settling` says
  what is true after the first one: nothing new comes in after the signal (`Closed`), and what was
  uncounted is over its step by the time of the second look. `Settled` is the same after the second.
- The stored login, for any number of tasks, of commands beside them and of tokens. `OneRefreshes` says
  that one task of the agent at a time is between its read of the file and the end of its refresh,
  `Unspent` that no token an agent has exchanged is in the file, in a device flow or in a task's hands,
  `FlowApart` that a device flow's token is nobody else's, `Spurning` that a login without a refresh token
  is one the provider gave none for. An earlier form of the model, in which the flow took its token when it
  was saved, failed here: the code has it from the answer, so a refresh may come in between.
- The readiness probe, for any number of holders of tickets. A ticket's holder stamps before it counts
  down, and the probe reads the counters before the stamps. `Evidence` says that for a ticket held when
  the probe took its time there is something to be found ahead of it, in the order it reads: a counter
  still up, or a stamp already written. `LastTold` says the same of the last end before.
- The transport of the gate, for any number of listeners. The stream is with the transport or was given
  to one connection (`OneOwner`); what a listener has been told follows from what it still waits for
  (`Awaited`), a removed one is told nothing more (`RemovedStays`), and the transport is idle, and refuses
  nobody, until it has served a listener (`RefusedWithCause`).
- The tools of the bridge, for any number of peers and channels. `Checked` carries a call's check to its
  deed, across whatever other calls do in between.
- The calls of a role's service, for any number of lines and sessions. The session's one call
  is in one place, a request on the leg, a handler or a reply on the leg (`OneCall`), and handlers of
  earlier sessions carry ids below the present one (`InSession`), so what they still print is never
  taken for the reply to a later line; `QueueInOrder` and `AnswersFirst` give the order of the answers.
- The relay-only member, for any expiry and any bounds (`DcutrAssumption`). `WithinGrant` bounds the
  clock in each place of the round: it stands at the expiry until the round is being closed, and what is
  being closed has an end of its own.
- The join, for any number of callers and slots and any pins (`JoinAssumption`). `JoinInv` ties each
  leg, dial and transport to the end that waits for it (`LegsWait`, of the open legs; `TransportsHeld`,
  `DialsAwaited`, `SlotsUnused`) and a session's end to its admission (`AsAdmitted`). That one slot
  leaves no leg behind needs `PairedAlone`: as long as nothing went wrong (no leg lost or closed, no
  dial given up), the only caller on its way is the one that the slot was paired with.
- The move to a direct path. The module has no constants, so TLC's run is exhaustive already; the
  proof adds the argument: the dialer is past its dial only once the listener waits for the stream
  (`DialTaken`), and what it wrote lies in the lane until the listener has read it (`FirstFlight`).
- The SSH door, for any number of bytes each way. What is on the wire has one layout (`LaidOut`), the
  preamble before the numbered bytes; `SshInv` says for each place of the two sides how far ahead the
  other may be and which part is next.

**TunnelProofs** has five parts, and `ServeLoopProofs` has the super peer.
- The super peer (`SuperPeerAssumption`). An entry of the map and its return path name each other:
  `EntryHasPath` is the property, `PathHasEntry` is why a path that ends may remove the entry by its
  client's address without removing its successor's, and `Capped` why an eviction is made before the
  cap is passed.
- The direct listener (`DirectAssumption`). The time a stranger has held its slot and the time its one
  deadline has left add up to the set-up time.
- The link to the edge (`LineAssumption`). All that is ever sent on a connection has one layout, the
  ack, marker and counter of each PING, then the tunnel (`Laid`); the PONGs the edge has and the
  agent's place in the conversation say how much of it was read (`ReadUpTo`), so the next byte is known
  to be of the phase that reads it. `TunnelWhole` says that the bytes of the tunnel come last, after a
  STOP or none, and are all there when it takes over. In the memo, a configuration trusts the
  certificate it is kept under (`MemoRecords`).
- The fallback pool and the agent loop over it, for any sizes, ladders and budgets (`PoolAssumption`,
  `AgentAssumption`). `WorkersIn` ties the pool's books to what the workers really do: one that relays is in
  them or its signal is on its way there, one that fired after the last look is none of them, and what is
  no worker of the pool is over, or aborted without having told in time. `Losses` bounds by the workers
  really lost what the pool subtracts from its size. `Runs` says that the pool runs exactly while the
  agent's loop waits for it, and is filled up by its own books (`Filled`) until it hands over; with
  `WorkersIn` this is about the workers themselves as soon as nothing is on its way.
- The framed relay, for every queue, interval and bound and any number of frames (`RelayAssumption`).
  In `RelayInv`, `Chunks` counts what the Origin wrote: put, in the queue and in hand add up to what was
  read, so a FIN queued behind them (`FinQueued`, `FinSaid`) is written after them. `DataClock` ties
  the idle clock of the code to the history of DATA; `Unread` says that an answer waits for a reader
  that is not held up within a tick only, so a verdict is over the peer's silence.
- The MASQUE tunnel, for any queue, up to 255 capsules of the proxy and datagrams of any length UDP has
  (`MasqueAssumption`). The lemmas on the codec say what an integer, a capsule and a datagram are read as
  from a buffer that ends anywhere; `VarintRoundTrip` and `DatagramRoundTrip` say that reading undoes
  writing. The way out (`OutSound`): the stream is the frames of the first datagrams the queue took, and
  the queue has the others. The way in (`InSound`): what is buffered and on the wire is a piece of what the
  proxy wrote that begins at the first byte of a capsule, with the number of datagrams before each
  capsule (`Script`), so a read that ends within a capsule loses nothing and a refused length is the
  last that is read.

**HostProofs** is about what is kept in files.
- `SecretFile` implements `AtomicFile`, for any contents and number of writes: the initial states
  correspond, and each system call, failed call, kill and power loss is a step of the atomic file or
  none. `SecretInv` says what the writer knows before each call (`Knows`) and that both what the path
  shows and what a power loss would leave are whole and durable. One writer is a hypothesis: two share
  the temp name.
- Onboarding, for any number of agents and redemptions: outside the three renames the files are of one
  redemption and a crash brings the same ones back (`FilesWhole`); within them what is not renamed yet
  is staged (`Carried`).
- Activation, for any number of activations of one directory. `Orderly` holds as long as no second one
  has slipped in: at most one has the directory, what it holds follows from where that one is (`Follows`),
  and a whole marker is only on the whole bundle it names. `Grounded` holds even then.
- Certificates and the terminator, for any number of orders, servers and connections. `Renewing`: a
  renewal is under way only while the certificate on disk is due, and every directory a power loss may
  bring back, with any of the renames undone, is one the next tick puts right (`Mendable`), or is
  marked as skewed: the later rename kept, the earlier one lost. `Read`: orders only grow and the
  terminator reads the times before the pair, so what it saw is not newer than what it serves.
  `Asking`: a server found to serve this order's token goes on serving it while the round lasts, since
  nothing else is published then. A power loss ends the terminator too, so the order of its reads is
  never compared across one.
- The update, for any releases (`ReleasesAssumption`: tags are numbers, and what a signed manifest
  names is signed). `Tied` follows the tag and the digest through the separate requests: what was checked
  is what was downloaded and written, though the release may be another by now. `Ready` says that the
  new binary can be run before a rename puts it in place, and that only Windows moves the old one aside.
- The supervisor, for any delays, grace and waits (`SupervisorAssumption`), over the same steps of the
  updater: `ChildWhere` says where the loop may be with and without a child, `DownBound` how long it
  has been without one in each of these places.
- Share links, for any number of links, connections and sessions. A write that crosses another
  process's is recognised when it is made (`ChangedByOther`); in between, the agent's lock keeps the
  operations apart (`OpsApart`), and a redemption granted is one the file shows (`GrantsStamped`).
- The lockout, for any number of connections (`LimiterAssumption`). `LimiterInv` accounts for every wrong
  credential of the window: it is in the count, in the hands of a connection that has not added it yet,
  or was lost by a connection that read the window before it was opened, one budget for each at
  most. A limit of one is excluded: the failure that opens a window locks nothing, so the bound would be
  false; the code's constant is 5.
- The serving identity, for any number of identities. `KeysInv` says that every pair the disk may come
  back with serves its capability and the identities clients may hold, for each place of a rotation or a
  first start (`KeysAtRest`, `Staged`, `First`, `Rotating`), and what a start that is under way has read
  (`AsRead`).
- The event ring, for any number of tasks, budget and cap (`RingAssumption`). `RingKept` has these parts.
  `RingCounts`: every call is in a count or with a task on its way, and what was withheld is in the
  budget, carried by one task or reported. `RingDisk`: the lines of the two files rise, and the ones
  missing, with the one a stretch left open may still spoil, are at most two for each error counted.
  `FilesCapped`: a file has at most `RingCap` lines, so a file cut inside a character hides no more.
  `RecentInOrder`: so does what a reader was last shown. What the recursive `Readable` reads of a file is
  proved by the same induction as `TwoTo`.

No other hypotheses are used than the named assumptions of the modules and the ones above.

The proofs changed the models in some places. In `Supervisor` time could pass beside a child that had
exited within the grace, where the code sees the exit at once; `DownBound` was false of it. A CASE of
`OriginKeys` had arms that overlap, which leaves the choice open: it says now what the code does. The
limit of `RateLimiter` has its assumption. Other definitions are only stated in a form that can be
reasoned about (no CHOOSE in the start of the pool, the waiters of a join without a nested filter, what
the tasks of the event ring carry as a number of elements and not a sum, the integers of `MasqueTunnel`
with a case for each length and recursive functions instead of folds).

Only model-checked:
- liveness (`WindowLive`, `StreamsEnd`, `ConnectionAnswered`): fairness and ENABLED are beyond the prover;
- `LimitsKept`: that credit is conserved is a sum over two queues of frames, for each stream.

## Plan

1. Done: the modules above and the proofs listed.
2. Proofs left: the credit of `LimitsKept`, for which the sums over queues have to become counters.
3. Abstractions: a reliable byte stream per direction, implemented by `ForwardStream`; a lease (a
   session never outlives its grant by more than a bound), implemented by `GrantSession` and put into
   `ForwardReconnect`, `DcutrJoin` and `ServeLoop` in place of their summaries of a session.
4. Operations still left out of modelled components: the dead-peer check of the forward engines, the
   order of transports within one dial of the ladder, the environment policy of the grant gate.

Runs are few on purpose, one per question: no more than twelve, with no more than forty properties
between the passing ones, so that all of them can be run after every change. Configurations of
one component are chosen by `Init` instead of by a run of their own.

## What the models leave out

Cryptography, parsing, wording and logging; exhaustion of stream ids; clocks of the two members that
differ, and steps of the wall clock; the process's configuration beyond the switches named in the
modules. Component by component:

- `GrantSession` takes every local write at once: a session held up in a write to a local side that does
  not read is not modelled, only the half-closed one (`peer_grant.rs:345`).
- `ChannelJoin`: an accept that times out returns the relay's error (`connectivity.rs:955-964`); which
  error a join ends with is not modelled.
- `GateTransport` has no external addresses and no relay node's listening policy. `DcutrJoin` lets a
  round rest while it is torn down, where the code keeps polling it (`connectivity.rs:1257`).
- `ServiceCalls`: an input line over the limit and a failing write to standard output
  (`service_calls.rs:526-531`) end the call and are not modelled, nor are one-shot calls.
- `BridgeTools` has one flag for whether the own channel is known, for the sources that the code merges
  (1307-1315, 1515). No property covers the check of the bridge peer (1397-1399) or the installs.
- `OidcLogin`: a refresh's answer and the save of it are one step.
- `FramedRelay`: the errors of an edge or Origin socket at `serve.rs:667`, `694` and `757`, which end the
  relay. `DirectPath`: the re-arming of the listener (`ensure_running`, `serve.rs:2101-2106`).
- `MasqueTunnel`: a datagram longer than quinn's buffer is cut to it (`masque/socket.rs:296`).
  `SuperPeer`: a fatal error of the front socket ends the relay (`super_peer.rs:125`). `SshAccess`: a
  preamble that ends in the middle of its head.
- `Supervisor`: an agent's uptime in the model leaves out the wait for its stderr pump, which the code
  counts in (`bin/ct-agent-supervisor.rs:216`, `327`), and `kill_on_drop` (299) is not a step.
  `SelfUpdate`: a failed sync of the directory after the swap (`self_update.rs:833`) is reported and
  changes no file.
