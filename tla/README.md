# bifrost-trade-socket in TLA+

A verification development of the Interactive Brokers (IB) services in
`src/src/bifrost_socket`: TLA+ modules translated from the Python source, TLC
configurations that check them on small instances, and TLAPS proofs that hold
for every value of the constants. Paths below are relative to
`src/src/bifrost_socket/` unless they start with `src/`.

## 1. The system

Three services talk to TWS / IB Gateway, each a Kubernetes role with several
replicas of which one may have the IB socket open:

- the **IB Operator** executes commands of other programs,
- the **IB Account Agent** publishes orders, positions, fills and accounts,
- the **IB Ingestor** (market gateway) subscribes to market data and publishes quotes.

| component | state it keeps | operations | properties that make it correct |
|---|---|---|---|
| Leader election, `ib/lease.py` | the Lease object (holder, renewTime, resource_version); per pod `is_leader`, `_last_renew_success`, the service task | `try_acquire_or_renew`, `acquire`, `renew_until_lost`, `run_with_leadership` | one IB socket per role; the socket's pod is the Lease's holder; a cut-off leader stops in time; no early takeover; a standby takes over in time |
| Operator, command consumer, `ib/operator/service.py`, `redis_io.py`, `protocol.py` | Redis stream, consumer group, pending lists, result keys; the entry in hand, the stop event | read pending, read new, expire, execute, write result, acknowledge, close | no command lost, no repetition without a fault, stream order, every command settled |
| Operator, heartbeat and health, `service.py`, `health_writer.py`, `executor.py`, `ib/connection_lifecycle.py` | two slots' connections, heartbeat clock, shared hint, health hash, tracker | heartbeat reconnect, probe tick, health write, shutdown | slots recover; what is published converges to what holds; a stopped service is published as down |
| IB client and connector, `ib/connector/ib_client.py`, `ib_connector.py` | `_connector`, `_connected_state`, `_lock`; the session | `ensure_connected`, `disconnect`, requests, disconnect event | no second session but by a request; reported is up; the lock is always released; disconnect is final |
| the connector's walk over ports and client ids, `ib_connector.py` | host, port, client id of the connector; `client_id` of the client | `connect`, called in full, by a heartbeat or by a request | nothing free is passed over; the reported id is the used one; services with neighbouring ids do not shut each other out |
| executions, `ib_connector.py`, `ib_client.py`, `ib/operator/executor.py` | what the session knows, the handler for commission reports, the rows | `fetch_executions` | each execution once, with its commission, no handler left |
| historical bars, the same files | the end of the next request, the bars collected | `fetch_bars_range` | no gap, repetition only just before a seam, ends early only for a reason |
| Account Agent, `ib/account_agent/` | two clients, subscriptions, the buffer of fills, probe results | session, probe loop with parallel heartbeat, snapshot | one set of handlers per connection; no fill twice; Host served and Secondary connected again and again |
| Ingestor, `ib/ingestor/`, `ib/data_line_budget.py` | one client, subscriptions, message counters | session, probe loop, watchlist poll | subscriptions follow the watchlist, within the line budget |
| configuration, field schemas, mock gateway, time-zone patch | none that changes | pure functions | precedence of settings |

How they interact. The election runs each service (`run_async_ib_service`,
`run_sync_ib_service`) and cancels it or sets its stop event. Services call
`ensure_connected` of their clients; clients own connectors; ib_insync calls
back on a disconnect. The Operator takes commands from a Redis stream and
answers in result keys; every service publishes a health hash and tells the
message center's tracker about changes.

What is hard: pods that race for the Lease with skewed clocks, lost replies and
crashes; a leader that is cut off; Redis calls that fail before or after their
effect; commands delivered twice; two threads that publish the same hash;
coroutines that overlap on one client while `wait_for` cancels some of them;
connectors replaced while somebody still uses them.
`PROJECT.json` lists each hazard at its line.

## 2. Modules

| module | models | extends / instances |
|---|---|---|
| `SingleAccessor` | what the election promises: pods take turns on one resource | |
| `LeaseElection` | the election, in discrete real time | INSTANCE `SingleAccessor` |
| `LeaseFailover` | the election with an observer, for the time without a leader | EXTENDS `LeaseElection` |
| `LeaseElectionProofs` | the theorems of both | EXTENDS `LeaseFailover`, `TLAPS` |
| `CommandService` | what the Operator promises to those who send it commands | |
| `OperatorRpc` | the Operator's command consumer | INSTANCE `CommandService` |
| `OperatorHeartbeat` | the Operator's two threads, its slots and its health | |
| `OperatorProofs` | the theorems of both | EXTENDS `OperatorRpc`, `OperatorHeartbeat`, `TLAPS` |
| `IbClient` | one client with its connectors and the tasks that use it | |
| `IbClientProofs` | its theorems | EXTENDS `IbClient`, `TLAPS` |
| `IbConnect` | the clients of several services at the gateways they share: the walk over ports and ids | |
| `IbConnectProofs` | its theorems | EXTENDS `IbConnect`, `TLAPS` |
| `Executions` | the `fetch_executions` command | |
| `ExecutionsProofs` | its theorems | EXTENDS `Executions`, `TLAPS` |
| `BarsRange` | the `fetch_bars_range` command | |
| `BarsRangeProofs` | its theorems | EXTENDS `BarsRange`, `TLAPS` |
| `Ingestor` | the Ingestor's sessions, probe loop, watchlist and lines | |
| `IngestorProofs` | its theorems | EXTENDS `Ingestor`, `TLAPS` |
| `AccountAgent` | the Account Agent's sessions, probe loop and buffer of fills | |
| `AccountAgentProofs` | its theorems | EXTENDS `AccountAgent`, `TLAPS` |
| `MCLeaseElection`, `MCLeaseFailover`, `MCIbConnect`, `MCExecutions` | instances for TLC (the other modules' constants are plain values in a .cfg) | |

### LeaseElection

A backend call is several steps. `BeginAttempt` reads the clock (`stamp`),
`GetAvailable` / `GetHeldByOther` are the reply to `get`, `WriteApplied` is the
moment the API server stores the record, `ReplyOk` / `ReplyLost` are what the
pod sees of it. `current[p]` stands for the comparison of resource versions: it
says that nobody has written since p's `get`. `CallFails` is a call that fails
without an effect. What a failed attempt does depends on who made it
(`AttemptFailed`): a standby sleeps and retries; a leader does so until
`renew_deadline_sec` has passed since its last success (checked only here, as in
the code), then its renew loop returns. `RenewLoopReturns` cancels the service;
the socket stays open (`Live`) until `StopCompletes`. `StopSignal`,
`ServiceEnds`, `Exit` and `Crash` are the other ways out; `Start` restarts the
pod with the same identity. The Lease is never released, as in the code.

`Tick` advances real time and may not pass a bound on a step that is under way:
the sleep, an attempt and the unwinding take at most `LoopDelay`,
`AttemptLatency` and `StopLatency` longer. Each pod's wall clock is ahead of
real time by a constant offset. These bounds are assumptions about the
deployment: the code sets no timeout on the API calls nor on the unwinding, and
`SafeTiming` says how large the bounds may be. With the defaults 15, 10 and 2
seconds, 3 seconds are left for all of them and the skew together.

### OperatorRpc

The loop of `run_ib_operator_loop`, one action per call it makes, with the stop
event read where the code reads it. Redis is external: a read of new entries
moves one to the consumer's pending list (PEL), a read from "0" returns the
PEL's first, XACK removes it. Faults are calls that raise: before or after their
effect for a delivery, a result and an acknowledgement; the loss of the group
with its PELs; a crash; and the health write after a heartbeat's reconnect, which nothing guards
(`HeartbeatRaises`; its steps are in `OperatorHeartbeat`). `Launch` starts a process under any name of `Consumer`,
the same (the pid is often the same in a container) or another.

`CommandService` is what callers see of it, without processes, names, pending
lists and faults: a command is open until it is settled; it is executed only
while it is open and in time; an answer is one that it has earned (an outcome,
after an execution; `deadline_expired`, once that has passed); it is settled only
with an answer. `OperatorRpc` implements it (`ImplementsCommandService`): settled
are the commands that were delivered and are in no PEL (`Settled`), and only if
the group may be lost (`MayForget`) can a settled command be open again. What the
faults leave visible is that an open command may be executed more than once.

### OperatorHeartbeat

The main thread and the probe thread, each taking `_tick` in four steps: read
the slots, read the hint, write the hash, tell the tracker. (Names that
`OperatorRpc` has too carry the prefix HB, so that one module of proofs extends
both.) The heartbeat fires when `due`; the interval itself is left out. `blind` is the set of slots that a
command left connected without `_connected_state` being set (see `IbClient`).
External: whether writing an empty label clears the field is the hash
conversion of `bifrost_core`, which is not part of this repository; the constant
`ClearsHint` says that it does.

Every call that writes may fail, where the code lets it: the first two health
writes come before the try (`StartRaises`), a failing hash write is swallowed
(`WriteHealthFails`), a raising tracker is swallowed in the probe thread and
leaves the loop in the main thread (`PublishRaises`), a failing disconnect is
swallowed (`DisconnectFails`), and in the shutdown the tracker's error skips
`write_shutdown`, whose own error is only logged (`FinalHealthFails`). The join of
the probe thread may time out while a tick hangs on Redis, whose client has no read
timeout (`JoinTimesOut`); `lapses` records that, and a shutdown write that failed:
`DownAfterStop` names both as its exceptions, besides an exception that leaves the
loop function (`raised`).

### IbClient

One event loop with interleaved tasks. A task gives way at the lock, while a
connection is made, and while a request is under way. `connector` is the
client's, `mine[t]` the one a task holds in a local variable. Requests take no
lock; a connector whose session is down reconnects itself (`RequestReconnects`).
`Cancel` is the caller's `wait_for`; the caller goes on while the task still has
to unwind. With owner "operator" there is one caller at a time, with "agent" a
session and a probe loop. The ports and client ids a connect walks through are
one step with two outcomes here; `IbConnect` takes the walk apart.
`OnlyRequestsMakeOrphans` says which steps may open a session beside the
client's: only that of a connector that reconnects inside of a request. With
owner "agent" such a session does come about (section 3).

### IbConnect

The level below `IbClient`: the clients share the gateways. `sessions` is what the
gateways think: an id whose client has gone without a word stays in use ("stale")
until `Expire`. A walk is a record of where it began, how far it may go and what it
tries next. A refused port moves it to the next port from the first id on
(`NextPort`); any other failure to the next id on the same port (`NextId`), and the
last id ends the walk, whatever ports there were left, as in the nested loops of
`IBConnector.connect`. A full connect has five ports and ten ids, a heartbeat one
attempt, a request that finds its session down the ids of its connector's port.
After its own connect the client takes the connector's id over (`Serves`), so the
next walk begins there: ids drift upwards, until a service that only heartbeats
reconnect (`HeartbeatOnly`) meets an id that another has drifted to;
`ServedAtItsPlace` names what such a service needs and `ServedInReach` what one
needs that connects in full.

A request's connect takes no lock. In a service that makes one call at a time nothing
walks beside it (`MayCall`); in the Account Agent (`Beside`) the probe loop may
replace the connector on which a request walks (`Replace`, `former`), and the session
the request then gets is an orphan: live, of no client, and closed by nobody. Orphans
may break and be connected again by the request that holds them (`OrphansBreak`).
`steady` (what was free and in reach during the whole walk) and `own` (a request made
the session, so the client did not take its id over) only observe.

### Executions

`get_executions_async` for each managed account in turn (`Ask`): the request
registers a handler for commission reports, asks, waits for the reports, and
merges its answer with what the session knows (`Merge`). `Trade`, `Learn`,
`Report` and `SessionLost` happen at any time: an execution is made at TWS, the
session is told of it (at once, or when it connects again), its commission report
arrives, and the session is lost with what it knew. `heard` observes. Time is
counted in ticks, of which `DayLength` are a day. External: ib_insync writes a
commission report only to the Fill it has kept of an execution (`own`, `charged`), and
what a Fill says whose report has not come is `Empty`: 0.0 in ib_insync ("zero", the
runs' value), so that `commission is None`, on which the code consults its handler and
the second pass, is false of it; "none" is what the code seems to expect. The
theorems hold for both.

### BarsRange

The loop of `get_historical_bars_range`: each turn asks for the chunk that ends at
`cur_end` and goes on where that chunk begins. What IB has is any set of times,
and `reachesBack` says whether IB answers a request whose window is empty with
older bars; both are external and stay as they are during a command. The step
back (`chunk_seconds`, `Chunk`) and the duration IB is asked for (`duration_str`,
`Spans`) are two things: "1 Y" may be a day longer than the step of 365 days
(`Excess`). It is assumed that a duration is never shorter than the step. A bar is its
time: the conversion of rows is left out. A request that fails with the session up
ends the walk with what there is, one that finds the connection dropped raises.

### Ingestor

`main` is the place of the service's task in `run` and `_run_session`, `probe`
that of the probe task. The client is seen from outside (`conn`, `lines`; how it
connects is `IbClient`'s matter). `_apply_subs` is two steps: it takes the
connector and gives its lines up (`GivenUp`: a failing cancellation is swallowed and
the ticker forgotten, so its line stays open, in `stray`), then subscribes on it,
skipping the contracts whose subscription fails, once (fault "subscribe") or every
time (`Refused`); `held` says whether that
connector is still connected when it does, because subscribing on one that has
dropped returns without an error. Contracts are numbers in the order of the
queries, so that `First` can cut them to the cap. `Cancel` is the
`service_task.cancel()` of `run_with_leadership`: the CancelledError arrives at
the await the task is in. While the session's finally block awaits the probe
task (`main = "joining"`) it is swallowed by the except clause meant for the
probe (`Lost`). `failed` is the set of the kinds of faults there were. `Restart` stands for Kubernetes. Left out: the conversion of ticks to
quotes, the content of the health hash, the delays between sessions.

### AccountAgent

`main` and `probe` are the places of the two tasks, as in `Ingestor`; what an
await separates is separate actions, and `CopyFills` / `ClearFills` are two
because `on_sec_fill` runs on the client's thread. `conn[s]` says whether the client's
connection is up and `blind` for which slots its `_connected_state` does not know
(`Reported` is what it says), `handlers[s]` counts the sets of handlers on its present
connection (2 stands for more), `held[s]` what became of the connector the session
looked up before it awaited the open orders: still up, down, or not held any more. A
connector that is down when the open orders (or, if it is lost right before, the
positions) are asked for reconnects itself (`RequestReconnects`): without handlers,
without its client's knowledge, and no heartbeat puts that right, because
`ensure_connected` returns at once. `SecondaryRecovers` has that as its exception, and
`SessionsBeginSighted` says that it ends with the session. `lost` says
that a request of the present iteration may have met a lost connection: a slot
that was down before is not asked. A status message that fails is the tracker's
exception, which only the snapshot loop and the last push of a probe tick catch.
Left out: what snapshots and the health hash contain, and the delays' lengths.

## 3. Runs

| run | question | bounds |
|---|---|---|
| `lease_safe` | is there ever a second open socket, an early takeover, a leader that overstays? | 3 pods, one clock ahead, all calls may fail, 18 time units (two lease durations and more, so that a takeover and a second one happen) |
| `lease_slow_teardown` (violation) | is the docstring's guarantee unconditional? | 2 pods, unwinding beyond the margin |
| `lease_failover` | how long does a standby wait? | 2 pods, API server answers, 16 time units |
| `rpc_faults` | are commands lost, repeated, reordered, answered twice or left, when is the loop left, and do callers see more of it than `CommandService` says? | 2 commands, 2 names, 2 faults of any kind, 1 stop: two faults are needed for a failure in the recovery of the first |
| `heartbeat_two_slots` | do slots, hash and label converge? | 2 slots, 2 disturbances (outages, drops, commands, calls that fail) |
| `client` | second sessions and who makes them, stale reports, a lock kept | both owners, 3 tasks, of which some cancelled, 6 connectors (more than can be referred to), requests reconnect while fewer than 2 sessions are up |
| `connect` | does a walk pass over something free, which sessions are left without their client, do services on one host shut each other out? | the Account Agent (requests beside its probe loop, full connects) and the Operator (heartbeats only) with neighbouring ids, 2 ports for 5, 2 ids for 10 (the first, another, and the end of the walk), 2 faults (sessions that break, attempts that fail, gateways that stop, restarts) and gateways that start at any time: two faults make two orphans, or a stale id while a walk goes on |
| `executions` | is each execution returned once, with its commission? | 2 executions of 2 accounts, 3 days asked for at most, 5 ticks with 2 to a day (so the window begins inside the run), ib_insync's empty report |
| `executions_today` (violation) | does a request for 1 day return today's executions? | as `executions` |
| `bars_range` | repetitions, early ends and what they cost | every set of 8 times, every range, chunks of 2 with durations of 2 or 3, at most 3 requests for the code's 2000: all four ends of the loop occur, the limit included |
| `agent_sessions` | are both slots served, each event once, each buffered fill written, what is blind seen again, whatever fails? | Host and Secondary, a reset after 2 iterations (the code has 15), 1 fill, 2 changes (drops, stops, cancellations), 1 fault: two changes are a drop or cancellation during the handling of another |
| `ingestor_sessions` | does the Ingestor come back to the watchlist, within its cap, and do its sessions and cancelled services end, whatever fails? | 2 options of which IB refuses one, 1 stock, 1 on-demand stock, a cap of 1 (options, stock or both are cut), 2 changes of the world (drops, stops, cancellations, new tables), 1 fault |

Some of what the theorems of section 5 show for every instance is not repeated by
a run, to keep the runs to the questions above: the type invariants, `LinesArePublished`, `LossesAreExplained`, `AtMostOneLeader`, `DisconnectIsFinal`, `ReportedIdIsUsed`, `NoHandlerLeft`,
`CollectedSuffix`, `LittleOutside` and `LimitOnlyForLongRanges`. They are defined
beside the other properties of their modules, or beside their theorems, and TLC
finds no violation on the instances of these runs either.

Findings, each shown by a violation run:

- *Two open sockets.* `ib/lease.py:432-433` "guarantees at most one live IB
  eConnect per Lease". The guarantee needs `SafeTiming`; a service that unwinds
  slowly breaks it. The Operator's service is a thread that ends only when it
  looks at its stop event, after the command in hand.
- *Not today's executions.* `ib_connector.py:996` "since_days: 1=today (default)":
  the window begins `since_days - 1` days before the call, to the second, so a
  request for 1 day asks for what is made from now on. (What the session knows
  already is added, whatever its day, which hides this until the session is new.)

Disagreements that properties state as exceptions, with the code's behaviour
inside the exception:

- `service.py:319` says a transient Redis error must not tear down IB sessions; a
  failed `write_result` does, and so does the tracker's error in the health write
  after a heartbeat's reconnect (`LeftOnlyByFailedWrite`: apart from a stop the loop
  is left only so, and then the command stays pending).
- The same docstring of `lease.py` inside one process: the Account Agent's session
  keeps the connector it started with, and that connector reconnects by itself
  after the probe loop has replaced it (`OnlyRequestsMakeOrphans` says that
  nothing else makes a session beside the client's; `SerialCallerHasNoOrphan` that
  the Operator has none). `LiveSessionIsKnown` bounds such orphans by the faults, and
  `ServedInReach` has them as its exception: an orphan keeps an id, and may so shut
  out its own client.
- `ib_ingestor.py:276` "Connect and ingest until stop requested or IB
  disconnects": the probe loop publishes a hint before its heartbeat attempt
  without a guard; a Redis error there ends the task, and with it the only thing
  that ends a session when IB disconnects. The dead task's exception then also
  keeps the finally block from disconnecting, and takes the place of a
  CancelledError (`SessionEndsOnDisconnect`, `NoLinesBetweenSessions` and
  `CancelledServiceEnds` exempt it).
- `lease.py:429-431` "If leadership is lost the service task is cancelled and
  control returns": a cancellation that meets an Ingestor or Account Agent session
  while it awaits the cancelled probe task is swallowed, and the next session
  connects without the Lease; `run_with_leadership` waits for a service that does
  not end. (`CancelledServiceEnds` names this case, `Swallowed`, and the dead probe's,
  `Displaced`, and promises the end of the service in every other.)

More disagreements were met: `service.py:303` "Drain pending
(PEL) first" does not hold when the read of the PEL fails (so `InStreamOrder`
holds only while no read has failed); `service.py:257` "Secondary connects
on the first service heartbeat tick" does not hold while Host is down;
`ib_ingestor.py:402-403` "It does NOT attempt reconnection", but the probe loop
calls `heartbeat_reconnect_slot` at line 430; and a connector that reconnects
inside a request (`ib_connector.py:999`) does not set `_connected_state`, so that
the Operator reports a slot that is up as down and its heartbeat does nothing
(`blind` in `OperatorHeartbeat`); `health_writer.py:49` "Mark all slots
disconnected + service_alive=False on process exit", but an exception that leaves
the Operator's loop skips it, as does an error of the publishing right before it
(`service.py:395`), a tick that outlasts the join writes over it, and its own error is
only logged (`DownAfterStop` names these exceptions); and `ib_connector.py:997` "TWS
sends execDetails/execDetailsEnd before commissionReport; we subscribe and wait to
merge them", but an execution that the session knew before the request is answered
with a Fill of its own, whose empty report says 0.0 and not None, so that neither what
the handler was told nor the second pass is merged into its row (`ReportReachesRow`
promises the other rows).

Read in the code, where no doc promises otherwise:

- a fill that `on_sec_fill` appends between `list(self._fill_rows)` and `clear()`
  (`ib_account_agent.py:439-440`) is never written, nor are those of a snapshot
  whose XADD fails, nor those left in the buffer when a session ends
  (`FillIsWritten` promises the rest; `LossesAreExplained` says that a fill is lost
  in no other way);
- a Secondary that the heartbeat reconnects has no handlers until the next
  session, so its fills are not recorded; nor has one that a request reconnects, which
  is in addition reported as down until the session ends (`SecondaryRecovers`,
  `SessionsBeginSighted`);
- a probe task of the Account Agent that died of a failing status message
  (line 553) makes the session's finally block raise before it disconnects, and
  the next session adds a second set of handlers to the same connection
  (`SubscribedOnce` and `WrittenOnce` exempt it: each fill is then buffered twice);
- an Ingestor watchlist that becomes empty publishes an empty subscription set and
  keeps its lines (`Target = {}` in `ServesWatchlist`);
- a contract that IB refuses stays in the published set without a line (`Refused` in
  `ServesWatchlist`);
- `unsubscribe_ticker` passes the Ticker, not its contract, to `cancelMktData`; if that
  raises, the line stays open and its ticker is forgotten: after n such polls up to n
  caps' worth of lines beyond the cap are open until the connection ends
  (`WatchlistWithinCap` counts them, `NoLinesBetweenSessions` ends them);
- rows that come from `ib.fills()` are not cut to the days asked for;
- "1 Y" counted back over a 29 February is 366 days and the step is 365, so a bar just
  before a seam is in the result twice (`RepeatsOnlyAtSeams`);
- a range of bars that a failing request or a hole cuts off is returned as
  complete: the result does not say so (`PartialMeansHole`);
- `fetch_option_snapshot` reads the underlying's price only when no strikes were
  given.

## 4. Fairness

`LeaseElection` has none: its properties are safety properties, failover is
bounded by real time. `OperatorRpc`: the loop's thread is scheduled and its
calls return or raise, and Kubernetes restarts a process that ended (weak
fairness of `Loop` and `Launch`); faults are bounded, not unfair.
`OperatorHeartbeat`: weak fairness of both threads and of time, and strong
fairness of a successful reconnect, for a gateway that accepts connections and
does not refuse every attempt for ever; nothing is assumed of outages, commands,
failing calls or stops. The process ends, so deadlock is not checked there. `IbClient`:
attempts and requests return (they have timeouts), asyncio.Lock wakes its
waiters in order (strong fairness of `TakesLock`). `IbConnect`: an attempt ends
(it has a timeout) and a gateway frees a stale id in the end (weak fairness of
`Attempt` and `Expire`); a service that is down tries again and again, and its
requests, which begin walks of their own, do not keep it from it for ever (strong
fairness of `FullConnect` and `HeartbeatConnect`). `Executions` and `BarsRange`
have none: their properties are safety properties of a call that returns.
`Ingestor`: both tasks are scheduled and their awaits return; a session that tries to connect again and
again succeeds in the end (strong fairness of `ConnectOk`: the loop in `run`
never gives up, and a gateway that is down for ever is outside of what the
property promises); the probe's single attempt need never succeed, nor need the
heartbeat ever be due. `AccountAgent`: the same for its tasks and for Host, and
the heartbeat is due again and again; a heartbeat that tries again and again to
connect the Secondary succeeds in the end. Changes and faults are bounded, not unfair.

## 5. Proofs

`LeaseElectionProofs` proves, for every set of pods, every clock offset and every
value of the settings:

- `TypeCorrect`: `Spec => []TypeOK`;
- under `SafeTiming`: `LiveOwnsLease`, `MutualExclusion`, `UniqueLeader`,
  `BoundedLeadership`, `NoEarlyTakeover` and `Refinement` (the election
  implements `SingleAccessor`).

The invariants that the runs check are not inductive. `IInv` adds, for each pod,
how long ago its last renewal may be at each point of its loop (a sleeping
leader has begun its sleep before the deadline passed, an attempt started within
one sleep of that, and so on), that a stamp is no later than the pod's own
clock, that a pod whose `current` flag is set has seen the present Lease, and
that the Lease a live pod has written is no older than its last renewal. The
heart of the argument is `NoTakeover`: at the time another pod's write could be
accepted, the live pod's last renewal is at most `LeadershipBound` old, so by
`SafeTiming` no clock shows its Lease as expired; `current` makes this hold at
the write although the expiry was judged at the `get`. Each action is then a
lemma about the pod that moves (`MovingPod`) and one about the others
(`OtherPods`).

`BoundedFailover` proves `FailoverBound` for `ObservedSpec`, from `SafeTiming` and
`~BackendFaults` (no bound exists while the API server does not answer). The bound
counts from `EligibleSince`, which moves whenever somebody renews, so its
invariant ties a standby's place to it: the attempt under way was stamped, and the
sleep will be over, at most so long after that moment (`StandbyInv`). A standby
goes back to sleep only because its `get` found the Lease held or its write met a
newer one, and either way the Lease it lost to is fresh (`EligibleLater`);
`HolderInv` is needed for a pod that restarts and finds its own Lease, whose next
write must not be older than the one it replaces.

`OperatorProofs` proves, of the consumer, for every set of consumer names, every choice of
faults and all bounds, `TypeCorrect`, `CommandsSurvive`
(`Spec => []NoCommandLost`) and `RepetitionIsPaidFor`
(`Spec => []ReexecutionNeedsFailure`). The invariant adds that the loop
acknowledges only what is garbled or answered (`HandInv`), that a pending entry
has been delivered and that one about to be handled is in this process's PEL
unless the group was lost since (`PendingInv`), and an account of executions
(`CountInv`): an entry that may be executed again without a further fault has
been executed at most as often as there were faults. The last conjunct of
`CountInv` is what makes it inductive: an entry in hand whose group was lost will
be delivered again although its execution is still to come, so the loss has to
pay for both. `AnswersAreFinal` and `LoopIsLeftOnlyByFailedWrite` rest on `HeldInv`
(a running process has its group, and what it executes or answers is pending for
it) and `FinalInv` (an answered entry is out of every PEL or is being
acknowledged). `ExecutedInOrder` (`Spec => InStreamOrder`) adds `OrderInv`: new
entries are read only when the own PEL is empty, and what comes before the entry
in hand is answered or in the PEL of another name; `NoCommandLost` is what turns
"in no PEL" into "answered".

`ServiceRefinement` (`Spec => ImplementsCommandService`) maps each step to one of
`CommandService` or to a stutter. A delivery settles nothing, because a new entry
enters the PEL in the step that moves the group on (`DeliverySettlesNothing`), and
so does a new group (`GroupSettlesNothing`); an acknowledgement settles the entry
in hand and no other, or nothing when the group is gone (`AckSettles`); what is in
hand is open (`InHandIsOpen`), which needs `HeldInv`; and the outcome in hand was
earned (`EarnedInv`). The acknowledgement of an unanswered command is excluded by
`HandInv`.

Of the two threads it proves `HeartbeatTypeCorrect` and `ShutdownIsPublished`
(`HBSpec => []DownAfterStop`), for any failures. `ThreadsInv` says that the main
thread is in `_tick` only during `write_health_now`, and that the probe thread is over
before the slots are disconnected unless the join timed out; hence, unless `lapses`
records that, nobody is left after the shutdown's write to write an older reading over
it (`LastWriteInv`).

`IbClientProofs` proves all safety properties of `IbClient`, for every set of
tasks: `TypeCorrect`, `NoSecondSession`, `ReportIsTrue`, `OrphansAreRequests` and
`DisconnectsAreFinal`. The lock is held by exactly the task that connects
(`LockInv`); what it connects is the client's connector, is not up, and is no
other task's (`ConnectInv`), so a request's own reconnect cannot open it. For the
Operator `SerialInv` adds that of two tasks that are alive one has been cancelled,
and that a request is on the client's connector: a cancelled task may finish its
connection late, but no request is under way until then.

`IbConnectProofs` proves, for every set of clients, ports, ids and limits,
`TypeCorrect`, `SessionsAreKnown`, `ReportedIdsAreUsed` and `NothingIsSkipped`.
`WalkInv` says what a walk's next attempt can be, `SteadyInv` that what was free
all along lies at or after it in the order of ports, then ids. `OrphanInv` is the
account behind `SessionsAreKnown`: a client's orphans, the one its request may be about
to make and a connector that is down (whose request may begin such a walk) are
together no more than the faults, because a request walks only where a session has
broken; and a client whose calls are serial has no former connector, hence no orphan.

`ExecutionsProofs` proves, for every set of executions and accounts, every length
of a day and all bounds, `TypeCorrect`, `RowsAreDistinct`, `HandlersAreRemoved`,
and `ReportsReachRows`. `TodoInv` (the empty name is asked
for alone, and an account under way is no longer to be asked) and `RowInv` (at
most one row of an execution, and only of an account that is done with) keep
executions apart; `AnswerInv` says that an answer is of the request's account,
`ReportInv` that what was reported since a request began its handler knows and is
written to the session's own Fills of the answer.

`BarsRangeProofs` proves, for every set of times, chunk length and limit,
`SpecTypeOK`, `SpecCollectedSuffix`, `SpecPartialMeansHole`, `SpecRepeatsOnlyAtSeams`,
`SpecLittleOutside` and `SpecLimitOnlyForLongRanges`. `Progress` gives
`cur_end` as a function of the number of turns: `end - loops * Chunk`, as long as
it is above the start; the k-th seam is `end - k * Chunk`, and two requests that share a
bar are neighbours because `Excess < Chunk`.

`IngestorProofs` proves, for every table of contracts, cap and bounds,
`TypeCorrect`, `BudgetIsKept` and `LinesAreGivenBack`. `FirstIsCut` and
`CappedIsCut` say what a query that is cut to the remaining budget returns;
`CapInv` carries the cap through `_apply_subs` and counts what failed cancellations have
left (`GivenUpWithin`: at most one cap's worth each), `ProbeInv` says when the probe
task can be dead, and `BackInv` where the lines must have been given back.
`QuotesArePublished` adds `PollInv`: what a poll subscribes and what it then
publishes are the same contracts, but for those refused or failed, unless the
connection was lost in between; what else is open is of failed cancellations.

`AccountAgentProofs` proves, with or without a Secondary and for every set of
fills, `TypeCorrect`, `HandlersAreAddedOnce`, `FillsAreWrittenOnce` and
`NoSessionBeginsBlind`.
`HandlerInv` says where in the service's loop no connection can have handlers yet;
`PlaceInv` that a fill is in one place, except between the copy of the buffer and
its clearing, when the buffer has it still; `FillInv` that a fill which was not
handed over is nowhere. `FillLossesAreExplained` is an action property: a step
that makes a reported fill disappear unwritten is one of the three that section 3
lists. It needs `TakenInv` (a copy never replaces fills that are still on their
way); without any one of its three exceptions TLC finds it violated.

The proofs assume the modules' named assumptions and nothing else, except for the
theorems of `LeaseElectionProofs` that state `SafeTiming` (and `~BackendFaults`) as
their hypotheses. Every
safety property of a passing run is proved. Only model-checked: every liveness
property (`EveryCommandSettled`,
`SlotsRecover`, `HealthConverges`, `HintIsTakenBack`, `LockIsGranted`,
`ServedInReach`, `ServedAtItsPlace`, `FillIsWritten`, `HostIsServed`,
`SecondaryRecovers`, `ServesWatchlist`, `SessionEndsOnDisconnect`,
`CancelledServiceEnds`): liveness under fairness is out of the prover's reach.

## 6. Not modelled, and why

- legacy `ib_clients.py` and `ib_connector_legacy.py`: no entry point imports them;
- mock gateway, time-zone patch, field schemas, `wait_for_data.py`: no protocol;
- configuration: pure, sequential lookups, which unit tests reach;
- the data of the other IB requests (contracts, option chains, tick conversion)
  and log output: one request, one answer, no state that outlives it;
- the option methods of `MarketIbClient` that run on the caller's event loop
  (`ib_client.py:489-591`): what two event loops do with one session and one
  asyncio.Lock is decided inside asyncio and ib_insync, not in this repository;
- the lengths of delays, among them the Account Agent's back-off.

## 7. Plan

Done: the election with its refinement, failover bound and proofs; the Operator's
consumer, heartbeat, executions and bars; the client, the walk over ports and
ids; the Ingestor and the Account Agent; every safety property of theirs proved, and
that election and consumer implement `SingleAccessor` and `CommandService`.

Left, in order of what it would show:

1. abstract specifications of the client and of the two agents, and their refinement;
2. the composition of `IbConnect` with the election: how long the stale id of a
   deposed leader shuts the new one out;
3. `AccountAgent` joined with `IbClient`'s owner "agent": which of the session's requests
   meets which connector.
