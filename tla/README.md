# splitter-client in TLA+

`splitter-client` (Rust, `src/splitter-client/`) is the consumer side of a shard
coordinator. A coordinator assigns *grants* (leases on shards of a key space) to
consumers; a consumer takes up service of the grants it is assigned, hands them
over when they are revoked, and routes calls for other keys to whoever serves
them. This directory holds a formal model of that client: TLA+ modules translated
from its source, TLC configurations that check them on small instances, and proofs
that TLAPS checks for every value of the constants.

The coordinator itself, the gRPC transport and the user's closures are not in the
repository. They are the environment of every module, which may do anything the
client's source lets it do.

- [1. The system](#1-the-system)
- [2. The modules and the code](#2-the-modules-and-the-code)
- [3. What the runs check](#3-what-the-runs-check)
- [4. Bounds](#4-bounds)
- [5. Fairness](#5-fairness)
- [6. What is proved](#6-what-is-proved)
- [7. Where the code and its documentation part](#7-where-the-code-and-its-documentation-part)
- [8. What is not modelled](#8-what-is-not-modelled)
- [9. Plan](#9-plan)

## 1. The system

Paths are relative to `src/splitter-client/src/`, unless they begin with `src/`.

```
 coordinator ⇄ (Join stream) ⇄ Join driver ──closes──▶ Ownership latches ◀──closes── user / Processor
                                  │   │  ▲                 ▲
                    grant events  │   │  └── watchers, ────┘
                    (broadcast)   │   │      lease timers
                                  ▼   ▼ cluster map (watch)
                             Dispatcher ──▶ Pool ──▶ resolver / proxy / retry ──▶ peer consumers
                                  │                      ▲
                                  └─▶ filters ─▶ Processor ─▶ GrantMap
 peers ──(calls)──▶ Peer server, bound before the join, shut down after the drain
```

| component | state | operations | talks to |
|---|---|---|---|
| **Latch** `latch.rs` | an atomic flag and a `watch` channel | `close`, `reader`, `closed().await`, `is_closed`, drop | everything below waits on one |
| **Ownership** `ownership.rs` | eight latches, the lease deadline, a `Notify` | `new`, `load/unload/request_revoke`, the driver's `close_*` and `set_expiration`, `wait_for_*` | driver and timer close and move it; Processor and user wait and signal |
| **Join driver** `consumer.rs` | grant table, cluster map, session, outbound channel, `shutdown` and `closed` latches | one `select!` loop over shutdown, heartbeat and inbound messages; `on_assign/promote/revoke/notify/extend`, `remove_grant`, watchers | coordinator; Ownerships; subscribers of events and of the map |
| **Lease timer** `consumer.rs:495-524` | the deadline it has read | read, compare, sleep or listen, read again, expire | Ownership; aborted by the driver |
| **Processor**, **GrantMap** `processor.rs`, `grant_map.rs` | one run per Ownership in a five-step machine; the map shared by all runs | `try_handle`, `run_grant`, the RAII guard, the user's `Range` | Ownership; the map is read by the proxy |
| **Dispatcher** `dispatcher.rs` | tasks: router, chains, pool updater, closed watcher | `build`, routing, `run_chain`, `drain`, `Drop` | driver (broadcast, watch), filters, pool |
| **Cluster map** `cluster.rs` | consumers, shards, grants by owner and by consumer's list | `apply_snapshot`, `apply_change` with five parts, lookups | written by the driver, read by pool and resolver |
| **Connection pool** `pool.rs` | a channel per peer | `resolve`, `apply_cluster` in two lock sections | map in, channels out |
| **Routing** `resolver.rs`, `proxy.rs`, `retry.rs`, `error.rs` | one call's deadline and backoff | `handle`, `handle_with_retry`, error conversion | GrantMap, cluster map, pool, peers |
| **Session** `session.rs`, `consumer.rs` | the heartbeat interval, the frames on their way, what is left of the session | establish, heartbeat, acknowledge, farewell | driver ⇄ coordinator |
| **Peer server** `src/splitter-peer/src/lib.rs` | a server task, its shutdown signal, the requests it serves | `serve`, `shutdown`, `Drop` | tonic; the program that owns it |
| **The program** `src/splitter-client/examples/peer_server.rs` | where `main` is | bind, join, wait for ctrl-c, drain, shut down, and an exit by `?` at each | Peer server, Dispatcher, Session |
| **Ids, wrap** `ids.rs`, `wrap.rs` | none | conversions, some of which fail | driver, cluster map |
| **Proto**, other examples, end-to-end test | none | generated code, programs that use the library | |

### What is hard about it

- *Latches are a flag and a channel.* Neither is enough: a send without receivers
  stores nothing, and a flag does not wake anybody. Whether a wake-up can fall
  between them is a matter of the order of five atomic steps.
- *A grant id outlives its Ownership.* A duplicate `Assign` replaces the Ownership
  while the user, a run of the Processor, two or three watchers and a timer hold the
  old one. Whatever is keyed by id (table, events, map) may then speak of the
  wrong one.
- *The driver is one task.* What its `select!` looks at is looked at once per turn,
  while a handler of it may wait for room in a bounded channel.
- *Leases run out locally.* The timer reads, compares, sleeps and expires in
  separate steps while the driver moves the deadline; and it compares with the wall
  clock, which may be set, what it sleeps on the monotonic one. The coordinator ends
  the same lease by a clock of its own, and does not ask.
- *A handover is nobody's.* Two runs on two consumers let go and take up through latches,
  watchers, two streams and a coordinator in between; reports overtake one another,
  and either side may fail, expire or never drain.
- *A session has to be kept.* The interval of the heartbeats comes from the coordinator's
  ttl and the local clock, and the frames take their time both ways.
- *An exit has an order.* The peers are sent to the endpoint until the farewell is out, and
  six ways lead out of the program.
- *Everything downstream is eventually consistent.* The broadcast channel overwrites,
  the map skips what it cannot decode, the pool dials what may fail, and the call
  looks at three of them in turn.

### What makes each component correct

| component | properties |
|---|---|
| Latch | an await returns only after `close()`, and then does return |
| Join driver | at most one live Ownership per grant; the table, the flags, the events and the Ownerships agree; a removed grant leaves nothing behind; signals get out; an exit completes |
| Lease timer | the timer sleeps for the lease in force, and too long by no more than it was late in starting to; expiry is earned; a lease that lapses, or is revoked, ends; all this though the clock is set |
| Processor | map entries belong to runs under way; `load` and `unload` are honest; Ranges are closed; an expired run ends |
| Handover | the counterpart takes up what has been let go of, or whose lease the coordinator has ended; whoever has served lets go drained, or is excused; what the coordinator is told is so; a handover completes |
| Dispatcher | every Ownership is accounted for once; unclaimed grants are handed back, and only these; the pool follows the map |
| Cluster map | its two sides agree; it is what the coordinator's messages describe; a lookup leads to the owner of the key's range |
| Pool | at rest it is what the map asks for; unchanged peers keep their channels |
| Routing | an ownership failure is retried while there is time, and no longer; a call that outwaits a move of ownership gets through |
| Session | it does not lapse while the driver runs |
| Peer server, program | whoever is advertised serves; a shutdown cuts nobody short; ctrl-c ends the program |

## 2. The modules and the code

`PROJECT.json` maps every definition to its lines. In prose:

**`Latch`** has one action per atomic step of `close()` (swap, count the receivers,
store, notify) and of `closed().await` (test the flag, borrow, enrol, compare, park).
The `watch` channel is tokio's; its steps are taken from how `latch.rs` uses it.
**`AbstractLatch`** is the promise: `close` sets, awaits return afterwards.
`KeepsPromise` is the refinement, with `await` mapped from the waiter's
position and liveness included.

**`Grants`** is the vocabulary: an Ownership is `<<g, n>>`, the n-th assignment of
grant `g`, and its state is the set of its closed latches (`NewLatches` is
`Ownership::new`). **`Lifecycle`** is the abstract specification of the driver: which
latch may close when. The Processor and the Dispatcher are built on it, the Driver
implements it (`KeepsLifecycle`), so what they assume is what the driver delivers.
`GrantId` is the grant's identity, `MaxAssign` how often an id is assigned.

**`Driver`** is `Driver::run` and everything it owns. `loop` is where the task is;
`armed` is the `select!` precondition of the shutdown branch, evaluated once per turn;
`table` and `flagged` are `Driver::grants`; `helper` holds the watchers of every Ownership,
whose timer may fire while it is live; `view` is what a subscriber makes of the events; `queued`
and `outOpen` are the outbound `mpsc`. `OnAssign` is all of `on_assign`, the
removal of the old entry included. `Begin` is the first poll of the spawned task.

**`LeaseTimer`** splits the timer and `set_expiration` into their reads and writes. A
deadline is the number of ticks left by the wall clock, and `sleep` the number of ticks left of a
sleep by the monotonic one. `Compare` computes how long to sleep and `Listen` starts the sleep, so that
what passes in between is slept on top: `lag` counts it. `Tick` moves the deadline, and the sleep once it
has started; a step of the clock moves the deadline alone. `moved`, `jumped`, `lapsed` and `lag` are
history variables: they are read by properties only.

**`Processor`** runs the state machine of `run_grant` once per Ownership. A `Range` is the
set of facts about it that have come true. The `wait_for_*` helpers are the set of
outcomes that their `select!` may have. `Offer` is `run_chain`'s one look at `expired`, and `Build` or
`Decline` what the factory does with the Ownership later. `map` is the shared `GrantMap`; an entry
remembers the run that wrote it, which the code does not: only properties read it.

**`AbstractHandover`** is the promise of a handover between the grants of one shard. A holder takes up
what has been let go of, or what its former holder has no lease for any more *by the coordinator's
clock* (`lapsed`). Whoever has served lets go drained, unless it knows its own lease to be over or its
Range has failed (`excused`). The two clocks are not in step, and the promise says so: from the moment
the coordinator ends a lease until the holder's timer fires two may hold the shard. **`Handover`** implements it
(`KeepsHandover`): it EXTENDS `Processor` with two grants of one assignment each, for two
consumers. Each has an inbox and an outbox, first in, first out; `Receive` is its driver, which closes
latches of the run; `WatcherReports` is one of its watchers, so reports leave in any order; `Hear`, `Promote`
and `Lapse` are the coordinator, which believes what it is told, and ends the lease of a grant it moves
whenever its clock says so, before the consumer's timer has fired or after.

**`Dispatcher`** has the phases of `build()` as steps, because the driver is already running
during them, and the broadcast channel with its lag. `held` is the driver's table, which it
empties one grant at a time on its way out (`DriverRemoves`). `drain()` and `Drop` abort the router,
which stops at its next wait (`RouterStops`); what it leaves in the channel is `missed`.

**`ClusterMap`** has `view`, the map computed by the code's handlers in their order, and
`truth`, what the messages describe: consumers, shards, and the owner, shard and state of each grant. The
truth shares no operator with the handlers and has no consumers' lists. `Told` is a snapshot; `Meant` is a
change, which says of each grant what becomes of it (`Fate`): it is there if it is newly assigned, or was
there and its shard is still valid, unless it is unassigned or its owner leaves. That is the reading of the
comments in `cluster.proto`, with one choice they leave open: when two parts of one change speak of the
same grant, the last word is taken to be the client's, an Update's over an Assign's, and either over that
of the Shards. A consumer has an Instance (here its
endpoint), a grant has a shard, a shard has a domain, a region and bounds; `Lookup` is
`ClusterMap::lookup` with `shard_covers`, and `Given` its meaning, by the keys a shard has. `skipped`, `moved` and `stale` are
history variables. **`MCClusterMap`** draws the
messages for TLC.

**`Pool`** is `apply_cluster` in two steps, one per lock, and the updater's look at the watch
channel.

**`Routing`** is one call of `handle_with_retry`. Each of the three looks of an attempt is a
step, and all of its surroundings may change in between.

**`Session`** is the session in time. `HeartbeatDelay` is the arithmetic of `heartbeat_delay`; a frame
carries the ticks it has been on its way, an answer what is left of the session; `skew` is what the
client's clock is behind. The coordinator may choose another ttl each time.

**`PeerServer`** is `serve()`, the two halves of `shutdown()` (send the signal, await the task),
`Drop`, the server's task, and the requests under way. **`Membership`** composes both: `main` is where
`examples/peer_server.rs` stands, with all of its exits; of the Dispatcher and its driver
only what they owe the session is there.

Of the data, only what a property tells apart is kept: grants, consumers and
endpoints are model values; the bounds of shards and the keys, UUID strings in the code, are
naturals in `ClusterMap` with 0 for the empty string; logging is left out. A mutated form of a definition stands right
before it (`BorrowNegated` before `Borrow`): it shows which mistake the property named in
`PROJECT.json` would catch, and is used by no specification.

## 3. What the runs check

Runs with which all is well:

| run | question | distinct states |
|---|---|---|
| `latch` | Is a wake-up lost? Is the promise kept, liveness included? | 1 158 |
| `driver` | Do the table, its flags, the Ownerships and the subscribers agree through duplicate assignments, expiry, a full channel, shutdown and failure? Does the driver implement `Lifecycle`? Do signals get out while the heartbeat competes for the last place in the channel, does an exit complete, and do the helpers of a removed grant end though nobody drains it? | 161 941 |
| `lease_timer` | Does the timer sleep for the lease in force, and too long by no more than it started late, expire for a reason, and expire at all, though the clock may be set at any moment? | 124 590 |
| `processor` | Are map, handover signals and Ranges right with two runs of one id? When may a run give up? Do expired runs end? | 626 461 |
| `dispatcher` | Is every Ownership accounted for once, and handed back when, and only when, it should be? Is the queue routed, or known to be missed, does the pool catch up, does `closed` follow? | 163 700 |
| `cluster_map` | Do the two sides of the map agree, is it what the messages describe, and does a lookup lead to the owner of the key's range? | 828 (with symmetry) |
| `pool` | Is the pool at rest what the map asks for? Do unchanged peers keep their channels? | 1 297 920 |
| `routing` | What is retried, until when, and does it help? | 572 832 |
| `membership` | Is the session kept while the driver runs? Does whoever is advertised serve? Is a shutdown graceful, and does ctrl-c end the program? | 56 178 |
| `handover` | Do two Processors, their drivers, watchers and streams implement a handover, whichever clock ends a lease first? Is what they report so? Does a handover complete once Old has unloaded or its lease has run out? | 122 897 |

Every property of these runs has a mutant in `PROJECT.json`: a plausible slip in a
mapped definition under which TLC finds that property violated.

Two runs with `expect: violation` (`driver_shutdown`, `driver_exit`) check one sentence each
that a comment says of the code and the code does not keep; see section 7.

`IInv` of each module is the inductive invariant of its proofs, with the type invariant as its first conjunct.
The proofs establish both for every value of the constants, so the runs do not repeat them; each
was checked by TLC as an invariant of its run before it was proved, so that it
is known to be satisfiable where the properties are checked. (It is `LatchIInv`, `PoolIInv`
and `HandoverIInv` in the modules that share a proof module with another, or extend one.)

## 4. Bounds

| bound | module | why it is enough |
|---|---|---|
| `MaxAssign = 2` | Driver, Processor | the hazards are between an Ownership and its successor; a third meets the second as the second met the first |
| one grant id | Driver, Processor | ids share nothing but the loop and the outbound channel, and messages about several grants are handled one at a time |
| `MaxAssign = 3`, one id | Dispatcher | the router and the chains tell Ownerships apart and not ids, so three Ownerships are what counts; with one id their removals are in the channel too |
| `Watched = {load}`, `Notified = {loaded}` | Driver | the watchers are instances of one function, and the handlers of a notification differ in the latch alone. A watcher competes with the heartbeat and the farewells for the channel |
| `OutCap = 1` | Driver | 64 in the code. Full is what matters, and with one place it is full soonest. `queued` starts anywhere in `0..OutCap` because `join()` has already queued its messages |
| `Capacity = 2` | Dispatcher | 256 in the code. A removal and an assignment make two events: the channel holds one turn of the driver and overflows in the second |
| `Filters = 2` | Dispatcher | two filters are what tells "the next" from "the last" |
| `MaxVersion = 1` | Dispatcher | one map, published before, between or after the seeding and the spawn of the updater |
| `MaxLease = 3` | LeaseTimer | room for a lease that is shortened, extended and run down between two reads; it also bounds how far the clock is set, and how late the sleep starts |
| two consumers at two endpoints, one grant, two shards, five keys | ClusterMap | a grant moves from one to the other; a consumer comes back with another endpoint; a shard set loses one and keeps one; the shards share a bound and the upper one is regional, and the keys lie below, between, on the bound, in another region and in another domain. Consumers and endpoints are symmetric |
| `MCSent` | MCClusterMap | changes of at most two parts: every part meets every other in the order of the code, and a third only follows a map that two have made |
| two peers and oneself, two endpoints | Pool | one stays while the other comes, goes or moves; one dial fails while another does not |
| `Timeout = 3`, `MaxDelay = 2` | Routing | the delay doubles, reaches its cap and is cut short by the deadline |
| `State = {ACTIVE, REVOKED}` | Routing | one state the resolver prefers, one it takes for want of it |
| two grants, one assignment each | Handover | Old and New of one shard. The streams and reports need no bound: a report is made once, and no message comes more than twice |
| `Ttl = {4, 9}`, `MinDelay = 1`, `MaxDelay = 2`, `FirstDelay = 6` | Membership | a third of the shorter ttl is the smallest interval, of the longer one is cut off at the largest; the first interval outlasts the shorter session, as 60 s may in the code, so that the answer to Establish has to shorten it |
| `Latency = 1`, `Skew = 1` | Membership | a frame is on its way for a tick or not, and clocks are behind or ahead |
| `MaxRequests = 2` | Membership | one request is answered while another is under way |

No counter is wrapped or cut off otherwise. `late` in `Routing` is unbounded, and
`TimeoutRespected` says that it stays below two.

## 5. Fairness

Fairness is assumed of the client's tasks, never of the coordinator or of the user, except
where said.

- **Latch**: weak fairness of the rest of `close()`, which has no `await` in it and so runs
  to its end; and of the steps of a future that is ready.
- **Driver**: weak fairness of the task's own steps and of the helpers. The heartbeat is an
  interval, so it ticks. Strong fairness of the senders: tokio's `mpsc` is first in, first
  out, so a sender that finds room again and again gets it. Nothing is assumed of the
  transport: that it drains is a premise of `SignalForwarded` and `ExitCloses`, and
  `RemovedHelpersEnd` does without. (The run `driver_shutdown` assumes it, so that
  the shutdown is not merely waiting for room.)
- **LeaseTimer**: time passes, the timer is polled, and `set_expiration`, without an
  `await`, notifies after it has stored.
- **Processor**: a run is polled when a latch it awaits is closed. The user's `drain()` need
  not return its latch, and neither the drain nor the initialization need ever finish.
- **Dispatcher**: `build()` waits for nothing after the join; the tasks are polled;
  `drain()` has a timeout. Filters need not answer.
- **Handover**: messages are delivered and tasks polled; the coordinator goes on with what it has
  begun, and notices, sooner or later, that a lease is over which is over for its holder; a Range that is
  built is initialized or fails. The user's `drain()` need not return its latch, nor the drain finish, and
  no lease need run out, by either clock: that Old has unloaded, or its lease has run out, is the premise of
  `HandoverCompletes`.
- **Membership**: tasks are polled, `drain()` of the Dispatcher has its timeout, frames arrive,
  time passes. No ctrl-c, no answer of a request and no exit of the driver is owed; that requests are
  answered is the premise of `CtrlCEnds`.
- **Routing**: time passes, and the closures of the user answer: nothing in `handle()`
  bounds them, so `CallEnds` says nothing about a closure that never does.

Where tasks have finitely many steps each (runs, chains) the fairness is of all of
them together, which is weaker and enough.

## 6. What is proved

The proof modules EXTEND the module they are about. The pattern is the same in
all: `Init => IInv`, `IInv /\ [Next]_vars => IInv'` with one step per action, the
property from `IInv`, and `PTL` to put them together. What is assumed is named in the
module that declares the constants and evaluated by TLC on every run.

| module | theorems | for every | the strengthening |
|---|---|---|---|
| `OwnershipProofs`: `Latch` | `LatchInvariance`, `WakeupsKept`, `Implements` | set of closers and waiters | `WakeupOwed`: a waiter anywhere past its test of the flag, and not only a parked one, is owed a store or a notification by a closer in its send |
| `OwnershipProofs`: `LeaseTimer` | `Invariance`, `StaysInSync`, `ExpiryAlwaysEarned` | length of leases, steps of the clock | what the timer has read differs from the deadline only if it was moved under it (`moved`), and what it sleeps from what it has read only by the time it took to start the sleep (`lag`), or if the clock was set meanwhile (`jumped`); a deadline in the past has lapsed |
| `DriverProofs` | `Invariance`, `OneLive`, `TableFaithful`, `SubscribersFollow`, `ClosedReleases`, `Frozen`, `Implements` | `GrantId`, `MaxAssign`, `OutCap`, watched latches | `Retired`: what has left the table has expired and its helpers are aborted; `TableCurrent`: an entry is the latest assignment, and in the loop there is one for every grant assigned; `FlagAgrees` |
| `ProcessorProofs` | `Invariance`, `EntriesAlwaysBacked`, `HandoverAlwaysHonest`, `OwnedAlwaysToTheEnd`, `KeepsLifecycle`, `ServingAlwaysMapped` | `GrantId`, `MaxAssign` | `StepsEarned`: the latches and Range facts that a run has behind it at each step, and what a run that gives up gives up for; `LiveIsCurrent`: a live Ownership is its grant's latest, with the lemma `Alone`: of a grant built once, one run has a Range |
| `HandoverProofs` | `RunsAsProcessor`, `HandoverInvariance`, `ReportsAlwaysTrue`, `HandoverKept` | length of the streams and order of the reports; two grants, as the abstract specification has them | `WordIsTrue`: every message under way, report under way, and decision of the coordinator rests on a fact about the other consumer, or about the coordinator's clock, that cannot become false; `RunsInPhase`: `unload` and `drain` are never ahead of the run |
| `MembershipProofs` | `Invariance`, `SessionAlwaysKept`, `ThirdIsAmple`, `AdvertisedAlwaysServed`, `ShutdownAlwaysGraceful` | ttl, limits of the interval, latency, skew, number of requests | `RenewedInTime`: what is left of the session is enough for a heartbeat that is under way to arrive, for the interval to bring the next one, or for an answer under way to set a shorter interval; `InOrder`: what server, session and outcome are at each stage of the program |
| `DispatcherProofs` | `Invariance`, `AllAccounted`, `AlwaysSettled` | `Capacity`, `Filters`, `GrantId`, `MaxAssign`, number of maps | `ChannelInv`: no assignment is in the channel twice, and what is in a place has been made; `Asked`: what a chain has behind it at each step. The lemma `Cut` splits a channel in what is lost and what is kept |
| `ClusterMapProofs` | `OwnersAlwaysKnown`, `MirrorsAlways`, `LookupAlwaysLeads` | consumers, endpoints, grants, shards, keys, and *every* message, not only `MCSent` | `WellFormed` is preserved by each part of a change; `Followed`: until a grant moves a consumer's list is what it owns (`Exact`), so that what a part of a change does to the grants can be said by owner, in a lemma per part; `WorkedIsFate`: their composition is, grant for grant, the fate the message declares |
| `ForwardingProofs`: `Pool` | `PoolInvariance`, `StaysInSync`, `KeepsChannels` | peers, endpoints | between the locks the plan is still what the entries ask for |
| `ForwardingProofs`: `Routing` | `Invariance`, `NeverGivenUpEarly`, `TimeoutAlwaysRespected` | timeout, delays, consumers | an attempt is late only at the deadline, and none sleeps after it; the lemma `OwnershipCrossesTheWire` |

Every safety property of the runs of section 3 is so proved. Three arguments deserve a word:

- *From the parts to the handover.* `Implements` says that the Driver keeps `Lifecycle`, and
  `KeepsLifecycle` that the Processor, which assumes `Lifecycle` of its driver, keeps it too. `Handover`
  replaces that environment by streams, watchers and a coordinator. `StepSimulates` shows that
  each of its steps still is one of the Processor, so that `RunsAsProcessor` carries the
  Processor's whole invariant over; what is left to prove is about the words. A consumer goes on upon
  `unloaded` or `active`, so `NewFindsOldOut` follows the word back: from the latch to the stream, to
  the coordinator, and from there either to the end of Old's lease by the coordinator's clock, or to the
  report and the latch of the other consumer, whose run has by then let
  go (`RunsInPhase`) of a Range that had drained (`HandoverHonest`). `HandoverKept` then maps
  the runs, the Ranges and the environment to `AbstractHandover` in a lemma each (`RunMaps`, `UserMaps`,
  `EnvironmentMaps`). `HandoverAssumption` fixes two grants with one assignment each: what a duplicate
  assignment does to a run is in `ProcessorProofs`.
- *Time, in the session.* `SessionKept` is not inductive: it says nothing of a session that is about to
  lapse. `RenewedInTime` says what pays for the next tick. Its third case is needed because the
  coordinator may grant a shorter ttl than before, and the client only learns of it, and shortens its
  interval, when the answer arrives. The theorem is about the ttls that are `Ample`,
  and `ThirdIsAmple` which these are: those longer than the shortest interval and the way there and
  back, and of which two thirds outlast the way there and back and a third of the skew.
- *Order, in the program.* `AdvertisedIsServed` and `ShutdownIsGraceful` follow from `InOrder`, which has
  one line per promise of the sequence bind, join, drain, shut down; the farewell stays on its way until
  it arrives, or the process ends (`FarewellFacts`).

Assumed of the constants: bounds such as `MaxAssign`, `MaxLease` and `MaxRequests` are naturals, and the
limits of the interval are ordered and positive (`SessionAssumption`); a watched latch is one of the
user's (`DriverAssumption`); the Pool's markers are no endpoints, and its owner is a peer
(`EndpointAssumption`, `OwnerAssumption`); and the like in `RoutingAssumption`, `ShardAssumption` and
`DispatcherAssumption`. Of these `HandoverAssumption` narrows what the code can meet, as said above; and
`SessionAlwaysKept` is about the ttls that are `Ample`. What the environments are taken to do is in the modules
rather than in an assumption: the streams deliver in order and once, the coordinator of `Handover` moves one
grant once and promotes New upon Old's report or the end of Old's lease, and a cluster message names a grant
at most once in each of its parts. Of clocks nothing is
assumed in the timer and the handover; the session has `Skew`.

Only model-checked, on the instances of section 4: liveness, and with it everything under
fairness: `SignalForwarded`, `ExitCloses`, `RemovedHelpersEnd`, `LapsedLeaseExpires`,
`RevokedLeaseEnds`, `ExpiredRunsEnd`, `QueuedIsRouted`, `PoolCatchesUp`, `ClosedFollows`, `CallEnds`,
`SettledIsServed`, `HandoverCompletes`, `CtrlCEnds`, and the liveness half of `KeepsPromise`.
TLAPS proves neither liveness nor anything with `ENABLED`. No module has a `RECURSIVE` operator, and no
theorem needs induction over data.

## 7. Where the code and its documentation part

Two sentences of the source that the code does not keep have a run each:

| run | what happens |
|---|---|
| `driver_shutdown` | `shutdown()` called while a handler runs, or before the driver is first polled, disables the branch that should answer it: the driver never leaves by itself (`consumer.rs:198`) |
| `driver_exit` | a session `Closed` from the coordinator returns from `run()` past the cleanup: live Ownerships, and a `closed` latch that never fires (`consumer.rs:213`) |

The others are the named exceptions of properties that hold otherwise:

- `TimerInSync` and `ExpiryEarned` except `moved`: a deadline that the driver moves between the
  timer's read and its `select!`, or its `expire()`, is not noticed. A lease shortened then
  is slept through, one extended then expires (`consumer.rs:509-521`). `TimerInSync` excepts
  `jumped`, too: a clock that is set while the timer sleeps makes it late, or early, in which case it
  looks again and goes on. And the bound it states is `lag` wider than the lease: the sleep is computed from
  a `now` that has passed when the sleep is created (`consumer.rs:502-510`), and the timer is late by as much.
- `Accounted` has a third place, `missed`: a grant that is assigned before the router subscribes,
  or is overwritten in the channel, is offered to no filter and handed back by nobody
  (`dispatcher.rs:106`, `202`).
- `MirrorsWhatArrived` excepts `skipped`: after a change that cannot be decoded the next
  one is applied to the older map, and nothing compares versions (`consumer.rs:265`);
  `moved`: a grant assigned away stays on its former consumer's list, and leaves
  the map with that consumer (`cluster.rs:228`); and, of the endpoints, `stale`: an Assign for a known
  consumer does not change its Instance (`cluster.rs:213`). `LookupLeadsToOwner` has the same three.
- `InSync` excepts `failed`: a peer whose new endpoint cannot be dialled stays reachable at
  its old one until the next map (`pool.rs:120`).
- `OwnedToTheEnd` excepts a failed Range: the run reports the grant as owned, and nobody hands it
  back (`processor.rs:146`).
- `ServingIsMapped` excepts a grant id that was built before: after a duplicate `Assign` the old
  run writes, and its guard deletes, the map entry of the new one (`processor.rs:208`).
- `ExpiredRunsEnd` excepts a run in the user's `drain()`, the one call that is raced against
  nothing (`processor.rs:174`).
- `AdvertisedIsServed` excepts a `drain()` that has timed out. It returns Ok, so the program goes on to
  shut the server down, and the driver, detached, keeps the session with its heartbeats
  until the process ends (`dispatcher.rs:157-174`). It also excepts the end of the process, which
  may take a farewell with it that the stream has not written.
- `KeepsHandover` and `ReportsAreTrue` except a lease that is over for the coordinator. It
  "will hard-expire the grant anyway" (`processor.rs:36-37`), and the timer of the client may be late by its
  `lag`, by a deadline moved under it, or by a clock that is set back (`consumer.rs:501-518`): until it fires New may
  serve while Old still does. The overlap ends: `LapsedLeaseExpires` has the timer fire, `ExpiredRunsEnd` has the
  run end.
- `KeepsHandover` excuses a holder whose lease has run out locally from draining. With an Extend that comes too
  late the coordinator may still count on it: the grant is then served by nobody until the
  coordinator's own lease lapses.

And these follow from reading a module next to the documentation:

- the Range is built before the wait that `processor.rs:6-7` puts first (`Build` precedes `Step1`);
- a Range that fails after initialization does not end its run before the drain (`Step3`, `Step4`
  do not look at `failed`, against `processor.rs:40-41`). One that fails in step 5 holds
  the run up until the lease ends; in a handover the counterpart waits as long;
- a grant that is promoted and then revoked before its run is polled may be dropped undrained (`Step3` may bail,
  against `processor.rs:35`). It reports no unload then, and the counterpart waits for the lease;
- an Ownership that has expired by the time its run is first polled may still be taken up: `select!` is
  unbiased (`ownership.rs:196-252`);
- `PeerServer::shutdown` takes the handle by value, so that "calling twice" in its documentation
  cannot happen.

## 8. What is not modelled

- *Of the reports of a consumer*, the lease and the shard that `send_update` copies from the grant
  as it was assigned (`consumer.rs:467-482`): the coordinator of `Handover` reads the state alone. In the
  Driver outbound messages are counted: how full the channel is matters there.
- *Order and duplicates* in a consumer's list of the cluster map, its version and its timestamp,
  which nobody reads.
- *Ids and wire conversions* (`ids.rs`, `wrap.rs`): newtypes and copies field by field. That some
  fail is `DropMessage` and `OnOther`; that an unknown grant state reads as `UNKNOWN` is in
  `NewLatches`, which treats it as the code does.
- *A `shutdown()` future that is dropped half-way*: it leaves the server's task detached. The program awaits it.
- *One pool injected into two Dispatchers* (`dispatcher.rs:77`): it would be written by two updaters. `Pool` has
  one, as by default.
- *The other examples and the end-to-end test*, shorter uses of the same calls; generated code.
- *Whether a request was executed* by a peer whose answer was lost: the documentation of
  `handle_with_retry` leaves that to the caller.

## 9. Plan

Done: latch, driver and lifecycle, processor, timer, dispatcher, cluster map, pool, routing, each
with runs and proofs; session and peer server, composed in `Membership`; the
handover, composed of two Processors, with its abstract specification.

Proved: every safety property of the runs and the safety part of each refinement (section 6).

Next: cluster map and pool composed, that is how a stale endpoint travels to the channel a
call is made on; and the composition of the Driver with the Processor in place of their common
`Lifecycle`.
