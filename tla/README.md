# TLA+ models of trojan-go

This directory holds TLA+ models of the concurrent parts of trojan-go (`src/`), TLC configurations that model-check them on small instances, and TLAPS proofs of the central invariants of the relay engine, the HTTP server, the redirector and the MySQL updater, of the log-level maps, of the router's rule order, of the Prometheus server and recorder, of the simplesocks server's connection accounting, and of two refinements: the simplesocks server and the redirector each implement an abstract connection queue. `PROJECT.json` lists the components, the runs, the mutants that show each property can fail, the findings, the hazards and the theorems. Its `map` names the source lines each definition translates.

## The system and how its parts interact

trojan-go is a proxy. `proxy.Proxy` (src/proxy/proxy.go) takes inbound streams and datagram flows from a stack of tunnel servers and relays each one to a sink client:

- `Run` starts `relayConnLoop` and `relayPacketLoop`.
- Each accepted flow gets a handler goroutine. It dials the sink and starts two copy goroutines, which report on a two-slot `errChan`.
- `Close` cancels the context.

The tunnel servers that feed the proxy are:

- the simplesocks server (src/unnamed/part_001): an accept loop that reads a header and queues the connection on `connChan` or `packetChan`;
- the HTTP server (src/tunnel/http/server.go): CONNECT requests, and plain HTTP requests as pipe-backed sessions.

Servers that refuse a connection hand it to the redirector (src/unnamed/part_003), which forwards it to a fallback address. On the client side, the router (src/tunnel/router/client.go) picks Block, Bypass or Proxy for each destination. Users and quotas come from the MySQL authenticator (src/statistic/mysql/mysql.go): a periodic updater writes the traffic counters of the in-memory authenticator to the database and reloads the user list. Logging has two pluggable implementations, and the proxy also builds a default slog handler from the config's `log_level`:

- simplelog (src/unnamed/part_008), with the level constants in part_006;
- the slog adapter (src/unnamed/part_007 and part_005).

Beside the data path, the prometheus package (src/metrics/prometheus) runs the metrics HTTP server (`RunMetricsServer` and the `Start` / `Serve` goroutines of `server.go`, configured by `config.go`) and exposes the recorder (`recorder.go`), whose `Record*` / `Set*` functions the connection handlers call from any goroutine. The TLS tunnel client (src/tunnel/tls/client.go) wraps each connection of the transport client in a utls or crypto/tls client and runs the handshake.

## Modules

| Module | Models | State and actions |
|---|---|---|
| `Relay` | proxy.go `Run`, `Close`, `relayConnLoop`, `relayPacketLoop`, the handler and copy goroutines | per flow: handler state, open legs, the state of each copy goroutine, errChan's count and what the handler took. One action per step: accept, dial OK/fail, first report taken, ctx.Done taken, copy EOF / write error / send, a peer close, Close. |
| `RelayProofs` | proofs about `Relay` | see Proofs |
| `SimpleSocksServer` | part_001 `NewServer`, `acceptLoop`, `AcceptConn`, `AcceptPacket`, `Close` | the loop's state, where each connection is, both channels as sequences with capacity `QueueCap` |
| `Redirector` | part_003 `Redirect`, `worker` and its `handle` goroutines | each redirection's phase, its open legs, the copy goroutines and errChan, `redirectionChan` as a sequence |
| `RouterMatch` | client.go `matchDomain`, `matchIP`, `newIPAddress`, `Route`, `DialConn` | pure operators. Domain names are short strings over a small alphabet, and IPs are numbers of `Width` bits. `SpecRoute` is the reference: the spec's rule order. |
| `MySQLAuth` | mysql.go `updater`; the memory authenticator's charge (from the spec, since it is not under src/) | updater phase, users in memory, their pending and charged traffic, database rows and usage. Faults: a failed Exec, Query or Scan. Admin ops: delete or insert a row. |
| `HttpServer` | server.go `acceptLoop`, the per-connection handler, `AcceptConn`, `Close`, the relay's `Close` of `ConnectConn`/`OtherConn` | handler state per connection, request number, open connections and sessions, `connChan`. A pipe write and its read are one joint step. |
| `LogLevels` | part_006 `mapLogLevelToSlog`, `mapSlogLevelToLogLevel`; part_008 `SimpleLogger` gates; proxy.go `logLevelFromConfig` | pure operators on integer levels |
| `ConnQueue` | the promise of a connection-sorting tunnel server (abstract) | the connections seen, one queue per consumer, delivered and rejected connections, the consumers, ctx. Actions: Route, Reject, Deliver, Stop, Cancel. |
| `SimpleSocksProofs` | proofs about `SimpleSocksServer` | see Proofs |
| `RouterProofs` | proofs about `RouterMatch` | see Proofs |
| `PromServer` | server.go `RunMetricsServer`, `NewServer`, `Start` (its select on ctx.Done and errChan) and `Serve` (ListenAndServe, `ErrServerClosed`, the send on the one-slot errChan); config.go's `enabled` | where each goroutine is, the server, errChan, the parent ctx and the server's own cancel, whether `Shutdown`/`Close` ran |
| `PromRecorder` | recorder.go's `Record*`, `Set*` and `CleanupUserMetrics`; the collectors of server.go and their registration in `init` | each collector: gauges and counters as numbers, label vectors as functions from the user hashes that have a series; the state of each recorded connection |
| `Prometheus` | the server and the recorder as one process | the two next-state relations interleaved |
| `PrometheusProofs` | proofs about `Prometheus` | see Proofs |
| `TlsClient` | tls/client.go `NewClient`, `DialConn`, `Close` | the configuration (the cases NewClient tells apart), the Client built, each dial's state and its underlying connection |
| `SlogLevelCache` | part_007 `isEnabledCached`, `clearEnabledCache`, `SetLogLevel`, `recreateHandler`; adapters derived by `WithAttrs`/`WithGroup` | the shared `LevelVar`, each adapter's cache, the callers' program counters, the SetLogLevel goroutine |

`SimpleSocksServer` also defines the refinement mapping `CQ == INSTANCE ConnQueue WITH ...`:

- `seen` is the set of connections that have arrived, minus the one whose header is being read;
- `queue[k]` is channel `k` followed by the connection of a blocked send on it, if there is one;
- `rejected` is the set of connections acceptLoop closed.

`Redirector` defines a second mapping onto `ConnQueue`, with one kind, `"redirect"`, whose consumer is the worker:

- `seen` (`Settled`) is the set of redirections whose `Redirect` call has returned, either by the send on redirectionChan or by the `ctx.Done` case;
- `queue` is redirectionChan;
- `delivered` (`Received`) is the set of redirections the worker has received, whatever the handle goroutine has done with them since;
- `rejected` is the set of redirections `Redirect` gave up on when ctx was done;
- the consumer's state is the worker's.

`ConnQueue` does not say what becomes of a rejected connection. A redirection given up in `Redirect` is not closed there; that is a hazard of its own (part_003:32), and `CancelClosesAll` shows it.

Each `MC*` module gives model values to the constants. Where it is sound, it also defines a symmetry set: flows, connections and redirections are interchangeable. An action models a whole handler step between two points where another goroutine can act: a channel operation, a lock, a pipe transfer or a call into the network. Go's `select` on a channel and on `ctx.Done` becomes two actions. The payload of a flow is left out; only the events that end a copy loop are modelled.

## Runs

| Run | Checks | Shows |
|---|---|---|
| `relay` (MCRelayLive.cfg; 1 stream, 1 flow) | `TypeOK`, `NeverBlocks`, `RelayTerminates`, `ShutdownQuiesces` | No copy goroutine ever blocks on its errChan send. A relay ends once a peer closes. After Close, every loop and relay ends with both legs closed. |
| `simplesocks_safety` (3 connections, capacity 1) | `TypeOK`, `ConnsAccounted`, `ImplementsConnQueue` | acceptLoop never drops, duplicates or misroutes a connection, and the server implements `ConnQueue`. |
| `redirector` (MCRedirectorLive.cfg; 2 redirections) | `TypeOK`, `HandledClosed`, `QueuedHandled`, `ImplementsConnQueue` | A finished handle has closed both legs on every path: nil inbound, nil target, failed dial. While ctx is live, every queued redirection is taken up. The redirector implements `ConnQueue`: each redirection is queued once or given up, the worker receives them oldest first, and it returns only after ctx is done. |
| `router_route` (every small rule table, strategy and address) | `RouteFollowsSpec` | Route and DialConn follow the spec's first-match order for all three domain strategies. |
| `mysql_safety` (2 users, every fault and admin op) | `TypeOK`, `NoDoubleCount` | No unit of traffic reaches the database twice. |
| `http_safety` (2 connections, 2 requests each) | `TypeOK`, `SessionsSequential` | A keep-alive connection's sessions are handed out one at a time. |
| `loglevels` (every LogLevel, method and pair of levels) | `LoggersAgree`, `LevelRoundTrip` | simplelog and the slog adapter print the same methods at every level. The two maps invert each other and keep the order. |
| `prometheus` (metrics on or off, 1 user, 2 connections of which one unauthenticated) | `PromTypeOK`, `NoOrphanListener`, `ServerQuiesces` | A listener never outlives the Start that owns it unless Shutdown has run. Once the parent ctx is done, Start and Serve both return, even when the listen error races the cancel. |
| `mysql_revoke` (violation) | `RevokedUserLosesAccess` | The RowsAffected test in mysql.go:41-45 is inverted: a user whose row is deleted is never removed from memory. |
| `http_session` (violation) | `SessionReleased` | When writing (line 151) or reading (line 146) a response fails, the handler returns without closing the OtherConn. Its relay then waits on the pipes until the proxy shuts down. |
| `slog_race` (violation) | `CacheCoherent` | `isEnabledCached` computes the answer outside `cacheMu` and stores it afterwards. A `SetLogLevel` that sets the level and clears the cache in between leaves an answer for the old level in the cache. |
| `tls_handshake` (violation) | `HandshakeFailureCloses` | When the handshake fails, DialConn returns the error without closing the connection it dialled (tls/client.go:62 and :79), so every failed handshake leaks a transport connection. |

The relay and the redirector are run on their smaller instances because those runs also check liveness. Their safety properties are proved for every instance (see Proofs). MCRelay.cfg (2 streams, 1 flow) and MCRedirector.cfg (3 redirections) check those safety properties on the larger instances.

Each property of a passing run has a mutant in `PROJECT.json`: a variant of one mapped action, such as a dropped guard, a missing reset or a moved defer, under which TLC finds the property violated.

TLC also finds violations of the following properties, under the cfgs named. They are kept in the modules as further findings; they are not separate runs:

- `EnqueueCompletes` (MCSimpleSocksBlock.cfg): after Close, a send of acceptLoop on a full channel never completes (part_001:47). This contradicts spec section 8, property 7.
- `FullQueueDrops` (MCRedirectorFull.cfg): Redirect blocks on a full channel instead of dropping, as spec section 5 says it should.
- `CancelClosesAll` (MCRedirectorCancel.cfg): a cancelled Redirect, and a worker that exits with redirections still queued, leave their inbound connections open (part_003:32, 86-88).
- `DomainMatchAnchored` (MCRouterDomain.cfg): the Domain rule checks the suffix only at the first `strings.Index` occurrence of the rule (client.go:47-49).
- `TrafficConserved` (MCMySQLTraffic.cfg): traffic reset for an UPDATE that fails, or charged to a user the scan deletes, is lost.
- `ConnNotLeaked` (MCHttpLeak.cfg): a failed first ReadRequest returns without `conn.Close` (server.go:88-91).
- `ConfigLevelFaithful` (MCLogLevelsConfig.cfg): `log_level` 4 maps to LevelError, so error messages still print. Spec section 6 says 4 means fatal.
- `CacheCoherent` under MCSlogDerived.cfg: SetLogLevel clears only the receiver's cache, while adapters derived by WithAttrs share its LevelVar.

- `UserActiveCounted` (MCPromCleanup.cfg): `CleanupUserMetrics` deletes the UserActiveConnections series of a user with a connection still open. That connection's `RecordConnectionClose` then recreates the series at 0 and decrements it to -1 (recorder.go:84-89, 42-45).

No code under `src/` calls the recorder's functions. The model lets each connection be opened once and closed once, in that order, as a caller would do. An earlier property, `ConnsCounted`, said that ActiveConnections and ConnectionsTotal count the open and the opened connections. It was dropped, along with its theorem, because it only restated the Inc and Dec of RecordConnectionOpen/Close under that imposed order, and no other action touches these gauges. `UserActiveCounted` is the recorder property that does say something: a second caller, CleanupUserMetrics, breaks it.

`OverQuotaRevoked` (MCMySQLQuota.cfg) holds when there are no database faults and no deletions. Its mutant `ScanRowInclusive` breaks it.

### Bounds

Each bound is the smallest that lets the interesting cases happen:

- The relay has two streams, so two relays interleave.
- Channel capacities are 1, so a full channel is reached.
- The HTTP model allows two requests per connection, so a second session meets the first.
- The MySQL model has two users and every fault, so a failed UPDATE, a failed scan and a deleted row all meet the flush.
- The slog model allows two calls of SetLogLevel, so a level changes and then changes back.
- The router's run enumerates every rule table over two rules per list.
- The prometheus run has one user and two connections, one of them unauthenticated, so the `userHash != ""` test matters. Every counter is bounded by 1, and `enabled` is chosen initially, so both branches of RunMetricsServer are taken.
- The TLS client starts from every configuration NewClient tells apart and makes two dials.

Each passing run reaches more than 100 distinct states and finishes well within five minutes.

## Fairness

Liveness runs assume weak fairness of the program's own goroutines only:

- the accept loops, the handlers, the copy goroutines, the worker, and the updater with its timer;
- a goroutine blocked on a channel is enabled once a partner is, and Go's scheduler runs every runnable goroutine.

In the metrics server, Start, ListenAndServe, the ErrServerClosed return and the send on errChan are weakly fair. The parent's cancel and a listen failure are not.

Nothing is fair about the environment: peers, the database answering without failure, administrators, and the owner calling Close. A property that needs one of those is stated with it as a disjunct, for example `\/ ctxDone`.

## Proofs

`RelayProofs` proves the following for all finite sets of streams and flows (assumption `RelayAssumption`):

- `TypeCorrect`: `Spec => []TypeOK`.
- `NeverBlocksHolds`: `Spec => []NeverBlocks`.

`NeverBlocks` is not inductive as it stands. The strengthening `ChanAccount` states that, for every flow, the values in errChan plus the one the handler took equal the number of copy goroutines that have reported or are sending. It also states that a handler still dialling or relaying has taken nothing. With at most two copy goroutines, at most two values are ever sent, so a send always finds room.

The proof has these parts:

- `InitIInv` shows `Init => IInv`.
- `NextIInv` shows that IInv is preserved, with one step per action. It rests on `NextSplit`, which flattens the goroutine groups of `Next` into its actions.
- `IInvNeverBlocks` derives the property from IInv.
- The theorem combines them by PTL.


`HttpServerProofs` proves the following for any finite set of connections, any request bound and any channel capacity (assumption `HttpServerAssumption`):

- `TypeCorrect`: `Spec => []TypeOK`, which includes that connChan never holds more than `QueueCap`.
- `SessionsSequentialHolds`: `Spec => []SessionsSequential`.

Both rest on the strengthening `SessionOrder`, which relates a goroutine's state and request number to the sessions it has sent on connChan (queued or returned by AcceptConn):

- before the GET/POST loop, the request number is 0; inside the loop, it is a request;
- no session of a later request has been sent;
- every sent session of an earlier request is closed;
- the current session is not sent before SendOther, and it is closed once the goroutine reads the next request.

`SessionsSequential` alone is not inductive: it says nothing about a session that is not sent yet, or about the moment the request number moves on. The step proof (`NextIInv`) has one case per action. The three that move items through connChan (SendConnect, SendOther, AcceptQueued) rest on two lemmas about what an Append and a Tail leave in a sequence (`InSeqAppend`, `InSeqTail`).

`RedirectorProofs` proves the following for any finite set of redirections and any capacity (assumption `RedirectorAssumption`):

- `TypeCorrect`: `Spec => []TypeOK`.
- `HandledClosedHolds`: `Spec => []HandledClosed`.
- `Refinement`: `Spec => ImplementsConnQueue`, that is, `Spec => CQ!Spec` under the mapping above.

The strengthening has two parts:

- `LegsClosed`: a nil inbound connection is never open; the outbound leg is open only between the dial and handle's return; a handled redirection has neither leg open.
- `QueueOK`: every redirection in redirectionChan is queued, and appears there once.

`QueueOK` is needed because the worker's receive sets the phase of the channel's head. Without it, nothing rules out a head that is already relaying, with its outbound leg open. HandleCheck's step is split by the shape of the redirection.

The refinement rests on the same invariant. `InitRefines` maps the initial state to `ConnQueue`'s. `NextRefines` has one step per action:

- Call, the handle steps, the copy steps and a peer close are stutters of the abstract state;
- RedirectSend is `Route` of that redirection to the one kind, and RedirectCancelled is `Reject`;
- WorkerReceive is `Deliver`: `QueueOK` says the channel's head is a queued redirection that has not been received;
- WorkerExit is `Stop`, since the worker returns only on ctx.Done, and Cancel is `Cancel`.

The mutant `WorkerExitEarly` (the worker returning while ctx is live) breaks the refinement, and TLC finds it.

`MySQLAuthProofs` proves the following for any users, quotas, charge bound, faults and admin operations (assumption `MySQLAssumption`):

- `TypeCorrect`: `Spec => []TypeOK`.
- `NoDoubleCountHolds`: `Spec => []NoDoubleCount`.

The strengthening `Accounted` says that a user's row and its unflushed counters together never exceed what was charged. ResetTraffic empties the counters in the same step in which the UPDATE adds them to the row. This bound is also what keeps the counters within `MaxCharge`, so it is needed for `TypeOK` as well.

`LogLevelsProofs` proves, for every LogLevel and logging method:

- `LoggersAgreeHolds`: simplelog and the slog adapter print the same messages.
- `LevelRoundTripHolds`: `mapSlogLevelToLogLevel` inverts `mapLogLevelToSlog`, and `mapLogLevelToSlog` is strictly increasing. This proof goes through `LeastIs` (what `Least` picks) and `CasesOfMapped` (which cases of the switch a mapped level falls in).
- `LoggersAgreeAlways` and `LevelRoundTripAlways`: `Spec => []LoggersAgree` and `Spec => []LevelRoundTrip`, the two invariants the `loglevels` run checks, for every level and method of their types and not only TLC's ranges. `LogLevelsProofs` extends `MCLogLevels` for this. The inductive invariant is `InputsOK`: the level, the second level and the method keep the values the initial state chose. Each property then follows from the state-free theorem above.

`RouterProofs` proves `RouteFollowsSpecHolds`: `RouteSpec => []RouteFollowsSpec`, for every width, rule table, domain strategy and address of the types that `RouterInputsAssumption` gives. The CIDR lists are arbitrary sequences, any prefix included. The domain lists' verdicts are whatever `matchDomain` returns, so the theorem is about the order of the tests and about `matchIP`, not about `matchDomain`. The invariant is again `InputsOK`. The argument has three layers:

- Arithmetic. `DivBlock` says that two values agree above the low bits of a block of size s exactly when the second lies in the block of the first. `CIDRAgree` and `MatchIPAgree` derive from it that `matchIP`'s masked comparison is the spec's block test. It also holds when the prefix is above the width, or when a negative `ParseInt` result has wrapped through `uint32` to a large prefix. Spec section 7 says an invalid CIDR fails startup. The code accepts one: `net.CIDRMask` returns nil, and the rule matches nothing. `SpecInCIDR` follows the code here, so this divergence from the spec is documented, not checked.
- First hit. `Verdict(s, d)` is the policy of the first hitting test of a list s, or d if none hits. `SelectIsFirstHit` relates it to `SelectInSeq`, by way of the least hitting index (`MinExists`, `MinIs`, `MinProps`, on `NatLessThanWellFounded`). `ConcatVerdict` says that the verdict of s \o t is s's first hit, or else t's verdict. `PolicyVerdict` does the same for the Block, Bypass, Proxy lists.
- Route. `IPSide` and `DomSide` show that each block of Route's tests gives the verdict of its part of `SpecTests`. `RouteAgrees` composes them for each domain strategy.

`tlapm` cannot evaluate `2^k` for a symbolic k. So `RouterInputsAssumption` also states that 2^k is a positive natural for every k up to the width of a family, and TLC evaluates that on every run of the router.

This proof revealed an error in the model. `Route` had been written as a `CASE` with overlapping guards, for the code's sequence of `if ... return`. In TLA+, such a `CASE` picks an unspecified arm; only TLC takes the first true one. `Route` and its mutant are now an `IF ... ELSE` chain, in the code's order. `SpecRoute` was rewritten as the first hit of a list of tests (`SpecTests`), and both the run and the proof use that form.

`SimpleSocksProofs` proves the following for any finite set of connections and any channel capacity (assumption `SimpleSocksAssumption`):

- `TypeCorrect`: `Spec => []TypeOK`, both channels within `QueueCap` included.
- `Refinement`: `Spec => ImplementsConnQueue`, that is, `Spec => CQ!Spec`.

The invariant used is `TypeOK` together with `CurArrived`: the connection acceptLoop holds while it reads or sends is one the underlay handed out. Without it, a ReadHeader step could route a connection the mapping counts as already seen.

`NextRefines` has one step per action:

- UnderlayAccept, UnderlayFail and Enqueue are stutters of the abstract state. In the case of Enqueue, the held connection moves from the mapped tail of the queue into the channel.
- HeaderError and an unknown command are `Reject`.
- Connect and Associate are `Route`.
- AcceptQueued is `Deliver`, AcceptClosed is `Stop` and Close is `Cancel`.

Three lemmas about concatenation carry the sequence reasoning: `ConcatEmpty`, `ConcatOne` and `HeadTailConcat`.

`SimpleSocksProofs` also proves `ConnsAccountedHolds`: `Spec => []ConnsAccounted`. Every arrived connection is in exactly one place: held by acceptLoop, queued on one channel, delivered from one channel, or closed. Every queued or delivered connection was routed by its first byte. `ConnsAccounted` is not inductive. The proof uses `AInv`, which TLC checked first as an invariant (3 connections, capacity 2, 5688 states). `AInv` names each place as a set, `Part[p]`, and adds these conjuncts to `TypeOK` and `CurArrived`:

- `CurIdle`: when acceptLoop holds no connection, `cur` is `NoConn`. Without it, a stale `cur` would count as a second place.
- `QueuesNoDup`: no channel holds a connection twice, so the positions of a connection in a queue form at most one element of `Locations`.
- `Disjoint`: the places are pairwise disjoint.
- `Covered`: a connection has arrived exactly when it is in some place.
- `Routed`: every queued or delivered connection was sent on the channel its command picks.

`LocParts` turns `Locations(c)` into one location per place that contains `c`. Then `AInvAccounted` derives `ConnsAccounted` from `Disjoint` and `Covered` by counting. Each action has a lemma (`AcceptAInv`, `EnqueueAInv`, `DeliverAInv`, ...), and that lemma shows which places the action changes and that the connection moves between them. `ElemsAppend` and `ElemsTail` give the elements of a queue after `Append` and `Tail`.

The proof revealed a bug in the model. In the first version of `Locations`, the `UNION { ... }` term swallowed the `\cup` terms that followed it, because of TLA+'s precedence. So a delivered or closed connection was only counted inside the union's set expression. The earlier runs had checked `ConnsAccounted` under that misparsed definition. The terms are now parenthesised. MCSimpleSocks.cfg still passes, and the theorem is about the corrected definition.

`PrometheusProofs` proves the following for any finite sets of connections and users (assumption `PromRecorderAssumption`), for the composition `PromSpec` of server and recorder:

- `PromTypeCorrect`: `PromSpec => []PromTypeOK`.
- `NoOrphanListenerHolds`: `PromSpec => []NoOrphanListener`. Once Start has returned, the listener is closed.

The server's invariant `SrvInv` strengthens `NoOrphanListener` with three facts:

- `ErrQueuedAfterServe`: an error in errChan means the serve goroutine is done.
- `ServeAfterStart`: serving begins only after Start has reached its select.
- `RunFirst`: nothing starts before RunMetricsServer.

Without these, an induction step could let Start take an error from errChan while the listener is still open. The recorder's invariant is its type invariant. The lemmas `AddToVec`, `SetToVec` and `DeleteVec` keep the label vectors well typed. Each side's step leaves the other's variables unchanged, so `PromNextInv` has one case per side and one for a stutter. For the prover, `AddTo` is written as an explicit function over `DOMAIN v \cup {u}` instead of with `@@` and `:>`, which tlapm cannot expand. The two forms are equal.

The following stay with TLC:

- liveness and ENABLED, which TLAPS cannot reason about here;
- what `matchDomain` computes for every domain name and rule (`DomainMatchAnchored`, under MCRouterDomain.cfg): that is induction over strings, so TLC checks it by enumerating short names;
- `PromServer`'s `ServerQuiesces`, the relay's `RelayTerminates` and `ShutdownQuiesces`, and the redirector's `QueuedHandled`: they are liveness properties under fairness.

## Not modelled

- Fingerprint's `ParseCipher`: a pure lookup in which `found` is never false, so invalid suites are never reported.
- The common helpers (hashing, paths).
- The api registry and `main`.
- The CLI options, apart from `logLevelFromConfig`: `Option.Handle` (proxy/option.go), easy and url. They build config text, call Run and exit, and they have no concurrent state. `Option.Handle` exits with status 1 even after a clean `Run`.
- Prometheus's `RegisterAll`: one `MustRegister` call, modelled as part of the recorder's initial state.
- The slog adapter's writers and FallbackWriter.
- The router's geo-file loading and the construction in `NewClient`: configuration parsing. Two hazards are listed from it: `DialPacket` leaking the direct connection, and `NewClient` not calling `cancel` on an error path.
- Inside the TLS client: the key logger, which NewClient never sets, and the bytes of the handshake.

## Plan for later sittings

- Prove an action property, for example that the recorder's TotalConnections never decreases. New theorems have to go into the existing proof modules.
- Write an abstract specification of a relay (a flow is opened, relayed, closed) and show `Relay` refines it with INSTANCE ... WITH.
- Model the router's DialPacket and its direct connection.
