# A verification project for the Zilliqa-Chainlink oracle

This directory holds TLA+ modules, TLC configurations and TLAPS proofs about the
code of this repository: a Chainlink oracle for Zilliqa made of Scilla contracts,
an External Initiator written in Go and external adapters written for Node.js.

## The system

A client contract sends `data_request` to an oracle contract
(`external-adapters/*/scilla/Oracle.scilla`), which numbers the request and emits
an event. The **External Initiator** (`external-initiator/`) watches the chain
over a WebSocket or by polling, and for each event of a registered job asks the
**Chainlink node** for a job run. The node's job calls an **external adapter**
(`external-adapters/*/index.js`), which fetches a value from a REST API and sends
`set_data` to the oracle contract, which calls `callback_data` on the client.

All state but the database and the chain is lost when the Initiator stops. The
components call each other directly, except that a subscription hands its events
to the service through an unbuffered channel, and that everything between the
Initiator, the node, the adapter and the chain goes over the network.

### Inventory

| Component | Source | State it keeps | Operations | What makes it hard | Correct when |
|---|---|---|---|---|---|
| Service and HTTP API | `client/service.go`, `client/web.go` | map of active subscriptions, no lock | start, `Run`, POST/DELETE `/jobs`, POST `/config`, consumers | goroutines race on the map; a pointer to a loop variable; restarts | a subscription has a row and a live endpoint, is not doubled, and a deleted job stays deleted |
| Store | `store/database.go` | `endpoints`, `subscriptions` (soft delete, unique job), a table of parameters per blockchain | save, load, delete | several statements per operation, each may fail; the type of an endpoint decides where parameters are looked for | rows refer to live endpoints when it matters; a restart loads what was created |
| Migrations | `store/migrations` | the schema, in one transaction | fifteen migrations | interrupted upgrades, data in the way | the process serves on a complete schema |
| Chainlink client | `chainlink/node.go` | none | `TriggerJob`, `withRetry` | a timeout against a late answer | a success is a run, the runs of an event are bounded |
| WebSocket subscriber | `subscriber/ws.go` | connection, `closing`, `confirmed` | test, subscribe, read, reconnect, unsubscribe | copies of the subscription in several goroutines | one reader, events in order, the connection comes back or ends |
| RPC subscriber | `subscriber/rpc.go` | ticker, `done` channel | test, poll, unsubscribe | a poll in flight at unsubscribe | polls end, nothing is sent after the end |
| Keeper subscriber | `blockchain/keeper.go` | height, latest run | poll, or heads over WebSocket | answers overtaken by heads, value receivers | the cooldown is kept |
| Log cursors | `blockchain/{eth,hmy,binance-smart-chain,cfx}.go` | `fromBlock` | request, parse | errors in the middle of a batch | no log is skipped or repeated |
| NEAR | `blockchain/near.go` | nonces per account | parse | order of nonces, a batch dropped on an error | each request once, in order |
| Block scanners | `blockchain/{ont,iotex,bsn-irita,tezos}.go` | height | scan loops | errors half way, heights that go back, uint64 differences, several senders | no request of a block passed is left out or repeated, or when it is |
| Zilliqa events | `blockchain/zil.go` | filter | parse a notification | several logs, of several accounts, in one notification | an event is one log |
| Substrate, Agoric | `blockchain/{substrate,agoric}.go` | filter | parse a notification | decoding | the filter |
| Dispatch and validation | `blockchain/common.go` | none | switches over the type of an endpoint | three of them must agree, and with `prepareSubscription` | a job has parameters, and those it was created with |
| Oracle and client contracts | `external-adapters/*/scilla` | request counter, answers, owner | `request`, `set_data`, callbacks | answers late or repeated | the oracle calls a client back for what it asked |
| External adapters | `external-adapters/*/{app,index}.js` | none | `createRequest` | the reply precedes the transaction | a failed run writes nothing |
| Mock client, scripts, command line, metrics | `integration`, `scripts`, `main.go` | - | - | not part of the running logic | - |

`PROJECT.json` lists each component with its status, and each hazard with the
line where it bites and the properties that cover it.

## The modules

A module with the suffix `_proofs` holds the theorems of the module it is named
after; EIService_proofs also those of TriggerRetry, which the service hands its
events to, and WsSubscription_proofs those of EndpointTest, as both are about
`ws.go`. So that two modules can be extended together, the specifications of
TriggerRetry and EndpointTest are called `RetrySpec` and `TestSpec`, and what they
are made of likewise. An action is one step between two points at which other goroutines,
processes or the network can interfere; what the code does in between is one
action. Comments name the function an action stands for.

**EIService** (with `MCEIService`, which adds symmetry). The service, its HTTP
handlers and the rows of the database. `phase` is the progress of `startService`:
endpoints from the command line are saved one by one, stale ones are deleted in
two statements each (`PurgeEndpoint`, `PurgeRows`), then the service serves.
`run`, `runQueue` and `loopSub` are `Service.Run` and its range loop; `req[h]` is
one HTTP request in one goroutine; `registry` is the map, `con[a]` an
`activeSubscription` whose field `ptr` says whether its `Job` is read through its
own pointer or through the address of Run's loop variable (Go 1.15 has one
variable for all iterations); `pend` are goroutines on their way to `TriggerJob`.
`Down` is a crash or a shutdown at any step: only `row`, `rowEndpoint` and
`endpoint` survive. Any step at the database or the network may fail.

**JobLedger**. What the service promises: a job id is registered once, retired
once, never comes back, and only jobs ever registered are run. EIService
implements it with `ledger` read off the rows and `requested` off the latest run
request.

**TriggerRetry**. `withRetry` for each event. `inFlight[t]` are attempts the node
has not handled, including those whose context has timed out; `Handle` is the
node creating a run, refusing, or failing before or after it created the run.

**WsSubscription**. A subscription over WebSocket. `Gos` are goroutines; each
loss of the connection makes the reader dial, which starts a new reader in `init`
and leaves the old goroutine to write the request. `confirmed[g]` is the copy of
the value receiver, `closing` and `conn` are shared. `Unsubscribe`, `Hangup`,
`CloseChannel` are the steps of `closeSubscription`. What is lost with a
connection is its `inbox`.

**EndpointTest**. `WebsocketSubscriber.Test` and `keeperSubscriber.TestWS`: a
caller with a timer and a reader goroutine that share `err`, per test.

**Keeper** composes **KeeperRpc** and **KeeperWs**, the two goroutines that
`SubscribeToEvents` may start; which one is `connection`, and they share the
fields of the subscription. Its properties are stated with **Cooldown**, the
abstract promise of README.md:44: runs are `Cooldown` blocks apart. In KeeperWs
the answer to an `eth_call` is matched to no call, as in the code.

**LogPolling**. A job that polls the logs of a chain over HTTP: the goroutine of
`rpc.go` (`pc`) and the managers' `fromBlock` (`from`), which one pointer shares
between the copies of the manager. `PollOk(h)` is an answer of a node that has
seen the chain up to height `h`, which may be behind its neighbours; `strict` are
the managers that refuse a whole answer when one log of it cannot be parsed.
`Unsubscribe` and `CloseChannel` are the two steps of `closeSubscription`. The
chain and its logs grow by `NewBlock`.

**BlockScan**. The four managers that follow a chain block by block, told apart
by `kind`, because they share a shape and differ in every decision: where a scan
starts (`OntAsk`, `IritaAsk`, `IotexAsk`, `TezosHead`), what it takes of a block
(`OntBlock`, `IritaBlock`, `IotexBlocks`, `TezosBlock`), when the height moves
(`OntNext`, `IritaNext`, `IotexBlocks`, `TezosNext`), what a failing block does
(`FetchFails`; `IritaFails` and `IritaRetry`, a loop of its own that does not look
at `done`) and whether Unsubscribe is noticed (`Stop`). IoTeX sends from one more
goroutine per poll (`senders`). A request is `first` when no other one precedes it
in the same content of a Tezos operation: `getSuccessfulRequestCall` returns
that one only.

**NearPolling**. A NEAR job: what the contract's `get_all_requests` may return
(`Answers`), the nonces recorded (`last`), the order of nonces as strings
(`Less`), and the answer that ParseResponse gives up on at a malformed request
(`PollMalformed`), after it recorded some accounts and not others.

**JobStore**. What the database keeps of a job. `disk` is the schema, `work` the
one inside gormigrate's transaction: a migration makes tables, columns or an
index, each in a definition `MigrationN` named as its directory. `row` are the
subscriptions with their parameters, `asked` what each job was created with and
which of its lists were blank, `watched` what its subscriber filters by (`Watch`):
the parameters it was given, but for those its manager ignores (hmy, iotex and
conflux put the job id where the configured topics would be), and the job id where
the manager compares it. A list with one empty element passes `validateRequest`,
which counts elements, and is an empty column when it is read back. The switches
of `common.go` and of `prepareSubscription` are operators over the type of the
endpoint; `NearPanics` is a start that ends on a job without an account. EIService has
what concurrency and failing nodes make of the rows; here a request is one step.

**ZilOracle**, **OracleLedger**. The path of a request through the whole system:
the contracts (`DataRequest`, `ChangeOwner`, `SetData`), the notification of a
block and its parser (`Notify`, `Parsed`), the trigger, the adapter (`FetchOk`,
`FetchFails`, `Confirmed`, `NotConfirmed`). A job may watch further accounts, whose
logs (`OtherLog`) the parser merges into the one map of parameters. `set_data` is
public: any account may call it in unixtime and rhine_gauge, the owner in pricefeed
(`SetDataByOthers`, with data that are `Elsewhere`'s). The module composes the others
by what they show: notifications may be lost (WsSubscription), and an event causes
any number of job runs up to `Attempts` (TriggerRetry's `AttemptsBoundRuns`).
OracleLedger is what the oracle promises its clients: that it calls each back for
its own requests, with the date it asked for, and that the adapter's data are for that
date as long as no other watched account has logged anything (`alone`, `Disturb`).
Data that no adapter fetched are never excluded.

## Properties and runs

Each passing run also checks that the model takes every action; each property
has a mutant, a plausible mistake in the code that violates it.

| Run | Module | Bounds | Shows |
|---|---|---|---|
| `service_requests` | MCEIService | 1 job, 2 endpoints, 2 connections, 3 requests at a time, 2 starts | `RowBehindEverySubscription`, `ActiveEndpointIsLive`, `OneSubscriptionPerSource`, `NoDeadEntries` |
| `service_restart` | MCEIService | 2 jobs, 1 endpoint, 1 request at a time, 2 starts | `AckedDeleteIsDurable`, `ImplementsLedger`, `LoadedRowsAreReached` |
| `job_store` | JobStore | 1 job, all 15 migrations, all 13 blockchains, all sets of parameters and of blank lists, 3 schemes of URLs | `SchemaServes`, `WatchesSomething`, `LoadedAsCreated`, `UpgradeEnds` |
| `trigger` | TriggerRetry | 2 triggers, 3 attempts | `OkMeansRun`, `AttemptsBoundRuns`, `EveryTriggerEnds` |
| `ws` | WsSubscription | 4 goroutines (3 connections), 4 events | `SingleReader`, `OnlyConfirmationsIgnored`, `DeliveredInOrder`, `ReadsAgain`, `CalmUnsubscribeStops` |
| `endpoint_test` | EndpointTest | 2 tests, one of a manager that sends nothing | `PassedMeansAnswered`, `TestEnds` |
| `keeper` | Keeper | cooldown 3, 8 blocks, 3 messages on the way | `ImplementsCooldown`, `CooldownKept`, `HeadIsSeen`, `Reconnects` |
| `log_polling` | LogPolling | 3 blocks of up to 2 logs | `OnceInOrder`, `NoneSkipped`, `EveryLogDelivered`, `UnsubscribeEnds` |
| `near_polling` | NearPolling | 2 accounts, 2 requests each, nonces from 8 or 10 on | `OnceInOrder`, `NoneSkipped`, `EachDelivered` |
| `block_scan` | BlockScan | 4 blocks, 2 requests, `first` or not, 2 senders, a range of 3, heights modulo 8 | `OnceEach`, `NoneLeftOut`, `EachDelivered`, `UnsubscribeStops` |
| `zil_oracle` | ZilOracle | 2 requests, 2 dates, 2 logs a block, 2 job runs, 1 log of another account | `ImplementsLedger`, `FailedRunsWriteNothing`, `RequestsEnd` |
| `service_trigger` | MCEIService | 2 jobs | violated: `TriggersReachTheirJob` |

Type correctness and the inductive invariants are not among the properties of the
runs: they are proved, and hold on the instances of the runs.

Why these bounds are enough to meet the interesting cases. Three requests are
the smallest number with a POST between two DELETEs or a DELETE between two
POSTs of one job; two jobs are what it takes for Run's loop variable to point to
the wrong row; two starts give one restart with another configuration. Three
attempts have a first, a middle and a last one. Three connections are a loss
during `init` and another after it. Eight blocks with a cooldown of three hold
two runs and the blocks between them. Three blocks of two logs have a batch that
spans blocks, a block after it and a malformed log in front, in the middle and
at the end of an answer. Nonces that start at 8 cross from one digit to two,
where their order as strings changes, and those from 10 on do not; two accounts
have one that is recorded before a malformed request and one after it. Four
blocks with a range of three, which is 1000 in `iotex.go`, hold a gap as large
as the range, and a head below the cursor wraps the difference of heights; two
senders overtake each other. Every release that ever was is an initial state of
`job_store`, whose properties are about single rows; what the row of one job does to
the others is that the process does not come up, and `Blocked` names that for one
as for many. With two logs in a block one overwrites the other, and with two dates a
mixture of them is visible, whether the second log is of the oracle or of another
account, which may log a number, a date or both. Two job runs are two for
one request or one for each. In ZilOracle one client is enough: no payload carries
the client, the oracle looks it up under the request's number.

Deadlock is checked for JobStore only, where a process that is down can be started.
Elsewhere it is not, as every part may rightly stop: a trigger
ends, a process goes down for good, a bound is reached.

The violated run shows where the code departs from what its source says;
`findings` in `PROJECT.json` quotes both.

## Fairness

Only steps of the program itself are fair, and of the environment no more than a
property names.

- `RunStep`, the goroutines of WsSubscription, EndpointTest and TriggerRetry, the
  goroutine of `subscribeToNewHeads`: weakly fair, since the Go scheduler runs
  what can run. The calls of TriggerRetry have a timeout, and the WebSocket tests
  a timer. The test of an endpoint over HTTP has neither (`rpc.go:91`), so that
  `RunTest` may end in `stuck`, for good: Run waits for a node that does not answer, and
  `LoadedRowsAreReached` says so. The subscriptions that Run makes only start
  goroutines. Dialling in KeeperWs and WsSubscription eventually succeeds when the
  environment stops breaking connections; `ReadsAgain` and `Reconnects` say so
  in their premise.
- BlockScan: the goroutine and its senders are weakly fair, each call of the
  scanners being assumed to end, in an error if need be; `SF(Ask(head))`, a node
  asked again and again tells its height again and again. That blocks fail no more
  and heights go back no more is a premise of `EachDelivered`, not of the model. That
  the blocks of bsn-irita fail no more is one of `UnsubscribeStops` too, since that
  manager repeats the call without looking at `done`.
- NearPolling: as LogPolling, with an answer for the contract as it is.
- JobStore: `WF(Starting)`, whoever runs the process starts it again when it is
  down. That it is killed finitely often is the premise of `UpgradeEnds`.
- Keeper: each POST ends, as in LogPolling; `SF(RpcHead)`, a node that is asked again and again reports
  its head again and again. Without it nothing could be seen.
- LogPolling: the goroutine is weakly fair and each POST ends (the HTTP client has
  no timeout: a node that never answers would stop the job). `SF(PollOk(head))`: a
  node asked again and again answers for its head again and again. `SF(Stop)`:
  `select` chooses at random among the channels that are ready, so the closed
  `done` wins at some point.
- ZilOracle: `WF(Relay)`, a block is completed, and `WF(Progress(i))`, what a
  request waits for happens or fails. Which of the two is not assumed: the
  history variable `trouble` records failures and `RequestsEnd` allows them.
- Requests, events, unsubscribing and restarts are never fair.

## What is proved

Every invariant and every action property of the passing runs is proved, and so are
the refinements; liveness is not.

All theorems hold for every value of the constants that satisfies the module's
named assumption (`ServiceConstants`, `WsConstants`, `KeeperConstants`,
`OracleConstants`, `StoreConstants`, `ScanConstants`, `NearConstants`, ...): markers
such as `NoJob` are no members of the sets they extend, bounds are natural numbers. TLC evaluates the assumptions in the runs.
Each proof module has the same shape: `Init => IInv`, one lemma per conjunct (or
one step per action) for `IInv /\ [Next]_vars => IInv'`, `IInv => Inv`.

- **EIService_proofs**: type correctness, `RowBehind`, `EndpointLive`,
  `OncePerSource`, `DeadEntriesLeave`, `DeleteDurable`, and `Refinement` to
  JobLedger. The properties are not inductive, because they say nothing of the
  steps between a check and its use. `IInv` adds that requests and Run work on
  rows that exist (`WorkHasRows`) with endpoints that are live
  (`WorkHasEndpoints`), that of the requests of one job at most one is past its
  save (`SourcesAreSingle`: the unique index), that a request holds a connection
  of its own job, and that nothing runs before the process serves.
  For TriggerRetry, `SuccessIsReal` and `RunsAreBounded`: `RetryIInv`
  adds that an answer belongs to the latest attempt, and that a trigger which is not
  finished has attempts left and no result (`Unfinished`).
- **WsSubscription_proofs**: `OneReader`, `NoEventIgnored`, `InOrder`. `IInv`
  adds that inside `init` the server knows nothing yet (`StartsClean`), that the
  confirmation is the first message until it is read (`ConfirmationFirst`), and
  that what the reader holds comes before what is in the inbox (`Ordered`).
  For EndpointTest, `PassedEndpointAnswered`: what was read is what the endpoint
  sent (`ReadIsAnswer`), and a result is final (`ResultIsFinal`), so that the races on
  `err` can fail a good endpoint but never pass a bad one.
- **Keeper_proofs**: `RespectsCooldown`, the refinement of Cooldown over HTTP, and
  `RespectsCooldownWhileCalm` for both endpoints. The second needs that heads
  come in order (`HeadsInOrder`), so that a head read is a new block, and that
  while nothing is lost or overtaken one thing happens at a time (`OneAtATime`):
  a head, or its call, or the answer, or the run.
- **LogPolling_proofs**: `EventsOnceInOrder` and `NoLogSkipped`, for chains of any
  length. Neither is inductive: `IInv` adds that the logs are sorted by block
  (`Sorted`), and that what was sent or is being sent lies behind the cursor
  (`BehindCursor`), so that the next answer holds later logs only.
- **NearPolling_proofs**: `EventsOnceInOrder` and `NoRequestSkipped`. The nonce recorded
  last is one of the contract and above all that was taken (`Recording`), and what
  is still to be sent of an answer ascends as numbers too (`Sending`), because
  ParseResponse skips what the order of strings puts too late. The first needs
  nothing of that order but that the first of a batch comes before the others; the
  second, that it is the order of numbers when all have one length. That the
  requests recorded have a greatest nonce (`Greatest`) follows from the library's
  theorem on well-founded relations.
- **BlockScan_proofs**: `EventsOnce` and `NoBlockLeftOut`, for the four managers at
  once. Neither is inductive, because the height that is kept says little while a
  scan is under way: it stays behind (ont), goes along (bsn-irita), or is moved
  before anything is sent (iotex). `Reached` is the last block whose requests are no
  longer to be fetched, read off the height, the block in hand and the stage. `IInv`
  says that nothing was taken from a block above it (`NothingAhead`) and all from
  those up to it (`EverythingBehind`), that the chain is sorted (`Sorted`), what
  the goroutine holds at each stage (`Stages`), how the block in hand relates to the
  height (`Position`), and that the heads a Tezos node has streamed lead to the
  head without a gap (`Stream`). The steps fall into a few kinds, each a lemma: those
  that only move (`SameEvents`), that take a block (`Taking`), that deliver
  (`Delivering`). `EverythingBehind` needs no condition for ont.go, though its height
  goes back with that of the node, and `OnceEach` none for bsn-irita.go. What is
  taken of a Tezos block, and so what both say of it, are the `first` requests.
- **JobStore_proofs**: `ServesOnWholeSchema`, `WatchedHasParams`,
  `LoadsWhatWasAsked`. `IInv` adds that the schema is that of a release and the
  transaction's that of a later one (`SchemaOfRelease`), and that a row has the
  parameters its job was created with, but for the blank ones, in the table of their
  blockchain (`RowsAsAsked`); keeper rows of a release without the column `from`
  lack that parameter, and the migration does not pass them. That needs of the
  switches what `AcceptedHasParams`, `TableTells` and `TablesAreNamed` say: a
  request that is accepted leaves in the row what its manager needs (`Needed`), a
  table belongs to the blockchains that agree on it, and what is filed in a table is
  looked up there. `WatchedHasParams` then says that a job without blank lists has
  a filter, the job id or a parameter, and the parameters its manager
  compares accounts with; it does not say that topics are heeded.
- **ZilOracle_proofs**: `FailedRuns` and `Refinement` to OracleLedger. `IInv` says
  that numbers are given in order (`Numbered`), that whatever is under way for a
  request, as log, event or job run, carries its date as long as no other account has
  logged (`UnderWay`, by way of `ParsedFits`), and that the node is answered before
  a transaction is sent (`RepliedBefore`). The refinement needs the last two
  together: a transaction in the mempool belongs to a job run that is past its
  start, which carries the date of its request.

Only model-checked: liveness (`LoadedRowsAreReached`, `UpgradeEnds`,
`EveryTriggerEnds`, `ReadsAgain`, `CalmUnsubscribeStops`, `TestEnds`, `HeadIsSeen`,
`Reconnects`, `EveryLogDelivered`, `UnsubscribeEnds`, `EachDelivered` of two modules,
`UnsubscribeStops` and `RequestsEnd`), which is out of the prover's reach: it needs
`ENABLED` and fairness. That the strings of two nonces can always be compared
(`Less` is total) is not proved either, as it takes powers of ten, for which the
provers have no rules; no theorem needs it, and without it `EachDelivered` would fail.

## Abstractions

- The sleep of `reconnect` (3 s) outlasts the write of `init`; that two
  goroutines write one connection at the same moment, where gorilla panics, is
  left out.
- `AckedDeleteIsDurable` excepts a DELETE that met a subscription made by Run:
  it deletes the row the shared pointer leads to.
- Events, payloads and addresses are numbers or model values. A datum in
  ZilOracle is the date it was fetched for, or `Elsewhere` when no adapter fetched
  it; a client's list of answers is a set.
- A payload without a `requestId` is left out of ZilOracle: the adapter's
  Validator refuses it. `callback_data` of a client is public too; `received` has
  the callbacks of the oracle only.
- In LogPolling, which has the cursors of `eth.go`, `hmy.go`,
  `binance-smart-chain.go` and `cfx.go`, the comparison of addresses, topics and
  the decoding of logs are left out, as are the filters of the scanners: a
  request in BlockScan is one that passes the filter, while NearPolling has
  requests for other jobs, whose nonces count.
- The null answers on which `near.go` would write to a nil map, and its limit of
  1000 requests, are left out; `upkeepId` is a parameter that is given or not,
  though its column is an integer and its field a string.

Some behaviours of the code are in the models and excluded by no property, as no
document promises otherwise or the properties' premises name them:

- *Service.* Run and a POST may subscribe one job twice (hence
  `OneSubscriptionPerSource` per source); a DELETE between the save and the
  subscribe of a POST leaves a subscription behind. A node that never answers its
  test keeps Run (`stuck`), and the rows after it are not reached until the next
  start.
- *WebSocket.* A reader that holds an event when the channel is closed panics
  (`crashed`). An Unsubscribe between two connections closes the lost one, and
  the subscription connects anew, though `subscriber.go:54-55` promises its end:
  `CalmUnsubscribeStops` has it in its premise. When the
  time of an endpoint test is over, the connection is closed under its reader,
  which closes `resp`, sends on it all the same (`ws.go:40`) and panics
  (EndpointTest).
- *HTTP.* A poll that sends after the channel is closed panics. A log that hmy,
  bsc or cfx cannot parse loses the parsed ones before it, and in front of an
  answer blocks the job for ever (`Lossless`).
- *Keeper.* The polling goroutine tests `isDone` of a copy and goes on after an
  unsubscribe; over WebSocket, two heads before the first answer start two runs,
  and a new connection forgets the cooldown (`CooldownKept` has both in its
  premise `calm`).
- *Scanners.* `tezos.go`'s goroutine tests `isDone` of a copy too; `iotex.go`
  sends a poll's logs from a goroutine of its own, so that senders overtake each
  other, and a malformed log loses the batch. Of several requests in one content of
  a Tezos operation the first is returned and the others are left out without an
  error, for whichever job they are (`tezos.go:295-311`; `Possible` is what can be
  delivered). `bsn-irita.go:164-169` asks for a failing block for ever, whatever
  Unsubscribe says.
- *NEAR.* Nonces are compared as strings, so that `10` comes before `9`; they are
  recorded before a request is filtered or fails, and the order between accounts
  is that of a Go map. `OnceInOrder` and `NoneSkipped` state what is left.
- *Store.* `prepareSubscription` has no case for harmony: after a restart such a
  job has no addresses, and hears the requests for its job id of every contract,
  though `database.go:173-175` promises its configuration. A blank list passes the
  validation: an ethereum job with topics `[""]` hears every log, a near job with
  such accounts panics at every start after it (`Doomed`), and a conflux job with such
  addresses panics in its request. The blank row of an
  agoric job is never stored, so that it is neither loaded after a restart nor
  can be deleted. A job whose endpoint was given a type of another table is not
  loaded. A job that was stored twice, or one of a keeper, keeps the
  migrations 1582671289 and 1611169747 from running: the process never serves
  (`Blocked`). `SaveEndpoint` leaves what is empty as it was, though its
  comment says it overwrites.
- *Node.* `node.go:116` calls `Error` on a nil error.
- *Zilliqa.* Of the requests logged in one block `zil.go:218` relays the last only
  (`RequestsEnd` counts the others as trouble). When a job watches several accounts,
  `zil.go:219` puts the parameters of all into one map, so that the number of one log
  goes with the date of another, and the oracle answers a request with data for a
  date nobody asked it for. Any account may call `set_data` of unixtime and
  rhine_gauge, and the owner that of pricefeed, with data of its own.

## Not modelled, and the plan

Not modelled, because no state is kept or no logic of the program is in them:

- Substrate and Agoric: filters without state, whose work is the decoding of
  events. An Agoric node sends no confirmation, and `ws.go:102` drops the first
  message of every subscription as one; WsSubscription has a server that confirms.
- Metrics, scripts, the mock client of `integration`, and the command line but
  for the endpoints it names (EIService, JobStore).

What is left is to prove more of what the liveness properties rest on:

1. that `from` in LogPolling and the nonces in NearPolling never go back, and that
   what is owed stays owed until it is delivered;
2. that a goroutine that is to end has a step to take.
