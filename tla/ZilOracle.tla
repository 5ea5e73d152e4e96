------------------------------ MODULE ZilOracle ------------------------------
(***************************************************************************)
(* A request from a client contract to the answer it is called back with:  *)
(* the contracts of external-adapters/*/scilla, the event log of a block   *)
(* on its way through blockchain/zil.go to a job of the Chainlink node,    *)
(* and the external adapter the job calls, external-adapters/*/index.js.   *)
(* The three oracles differ in two points: only pricefeed has an owner,    *)
(* and only requests to rhine_gauge carry a date.  A job may watch other   *)
(* accounts too, whose event logs come in the same notifications.          *)
(*                                                                         *)
(* The subscription (WsSubscription) may lose notifications, and a trigger *)
(* (TriggerRetry) may create no job run or several.  A datum is            *)
(* represented by the date the adapter fetched it for, or is Elsewhere's.  *)
(* What other accounts call the clients' callback_data with is left out.   *)
(***************************************************************************)
EXTENDS Naturals, Sequences, FiniteSets

CONSTANTS
  Clients,   \* client contracts
  Dates,     \* dates asked of rhine_gauge
  NoDate,    \* what pricefeed and unixtime are asked
  MaxUint32, \* the largest Uint32
  MaxLogs,   \* bound: event logs of one block
  Attempts,  \* RetryConfig.Attempts: bounds the job runs for a number
  MaxRuns,   \* bound: job runs in all
  OtherIds,  \* numbers logged by other accounts
  MaxOthers, \* bound: event logs of other accounts
  Elsewhere, \* data that no adapter fetched
  NoRequest, NoId

ASSUME OracleConstants ==
  /\ MaxUint32 \in Nat
  /\ MaxLogs \in Nat
  /\ Attempts \in Nat
  /\ MaxRuns \in Nat
  /\ OtherIds \subseteq 0..MaxUint32
  /\ MaxOthers \in Nat
  /\ NoDate \notin Dates
  /\ NoId \notin 0..MaxUint32
  /\ NoRequest \notin [client : Clients, date : Dates \cup {NoDate}]
  /\ NoRequest \notin [client : Clients, date : Dates \cup {NoDate}, result : {"none", "some"}]

Ids == 0..MaxUint32
Runs == Ids \X (1..Attempts)
AllDates == Dates \cup {NoDate}
NoRun == [pc |-> "none", date |-> NoDate, reply |-> "none"]

VARIABLES
  oracle,      \* which of the three oracles this is
  \* The contracts.
  nextId,      \* next_request_id
  requests,    \* data_requests[i]: the request numbered i, or NoRequest
  adapterOwns, \* current_owner is the account of the adapter
  received,    \* received[c]: the callbacks client c has had from the oracle
  block,       \* event logs of the watched accounts in the block under way
  \* The External Initiator and the node.
  events,      \* parsed events whose goroutine is in TriggerJob
  run,         \* run[i, k]: the k-th job run created for request i
  mempool,     \* job runs whose set_data transaction waits to be executed
  others,      \* history: how many event logs of other accounts there were
  trouble      \* history: requests for which a notification, a trigger, a fetch or a transaction failed

contractVars == <<nextId, requests, adapterOwns, received, block>>
vars == <<oracle, contractVars, events, run, mempool, others, trouble>>

Init ==
  /\ oracle \in {"pricefeed", "unixtime", "rhine_gauge"}
  /\ nextId = 0
  /\ requests = [i \in Ids |-> NoRequest]
  /\ adapterOwns = TRUE
  /\ received = [c \in Clients |-> {}]
  /\ block = << >>
  /\ events = {}
  /\ run = [r \in Runs |-> NoRun]
  /\ mempool = {}
  /\ others = 0
  /\ trouble = {}

-----------------------------------------------------------------------------
(* The contracts                                                           *)

Logs == [event : {"request"}, id : Ids, date : AllDates]
          \cup [event : {"changeOwner", "other"}, id : Ids \cup {NoId}, date : AllDates]
Log(event, i, d) == [event |-> event, id |-> i, date |-> d]

\* data_request of a client sends request to its oracle_address, which numbers
\* it.  (change_oracle only decides where later requests go.)
Request(c, d, following) ==
  /\ d \in IF oracle = "rhine_gauge" THEN Dates ELSE {NoDate}
  /\ following \in Ids  \* builtin add throws on overflow
  /\ Len(block) < MaxLogs
  /\ requests' = [requests EXCEPT ![nextId] = [client |-> c, date |-> d, result |-> "none"]]
  /\ nextId' = following
  /\ block' = Append(block, Log("request", nextId, d))
  /\ UNCHANGED <<oracle, adapterOwns, received, events, run, mempool, others, trouble>>

\* Mutant of DataRequest: the numbers wrap around.
DataRequestWraps(c, d) == Request(c, d, (nextId + 1) % (MaxUint32 + 1))
DataRequest(c, d) == Request(c, d, nextId + 1)

\* changeOwner, which the current owner calls and pricefeed alone has.
ChangeOwner ==
  /\ oracle = "pricefeed"
  /\ Len(block) < MaxLogs
  /\ adapterOwns' \in BOOLEAN
  /\ block' = Append(block, Log("changeOwner", NoId, NoDate))
  /\ UNCHANGED <<oracle, nextId, requests, received, events, run, mempool, others, trouble>>

\* Another account the job watches logs an event, with a requestId, a date or
\* both.  (The node lists the logs of one account after those of
\* another; the last of a parameter may be of any.  A date that the adapter
\* does not read is left out.)
OtherLog(i, d) ==
  /\ others < MaxOthers
  /\ i # NoId \/ d # NoDate
  /\ d # NoDate => oracle = "rhine_gauge"
  /\ Len(block) < MaxLogs
  /\ others' = others + 1
  /\ block' = Append(block, Log("other", i, d))
  /\ UNCHANGED <<oracle, nextId, requests, adapterOwns, received, events, run, mempool, trouble>>

\* set_data stores the result and calls the requestor back.
Answer(i, d) ==
  /\ requests[i] # NoRequest
  /\ requests' = [requests EXCEPT ![i].result = "some"]
  /\ received' = [received EXCEPT ![requests[i].client] = @ \cup {[data |-> d, date |-> requests[i].date]}]
  /\ UNCHANGED <<oracle, nextId, adapterOwns, block, events, run, others, trouble>>

\* The adapter's transaction is executed.
SetData(r, d) ==
  /\ r \in mempool
  /\ oracle = "pricefeed" => adapterOwns
  /\ mempool' = mempool \ {r}
  /\ Answer(r[1], d)

\* Another account calls set_data, which in pricefeed its owner alone may do.
SetDataByOthers(i) ==
  /\ oracle = "pricefeed" => ~adapterOwns
  /\ Answer(i, Elsewhere)
  /\ UNCHANGED mempool

\* It throws, or is never executed: a second transaction with its nonce, gas.
SetDataFails(r) ==
  /\ r \in mempool
  /\ mempool' = mempool \ {r}
  /\ trouble' = trouble \cup {r[1]}
  /\ UNCHANGED <<oracle, contractVars, events, run, others>>

-----------------------------------------------------------------------------
(* zil.go: ParseResponse                                                   *)

IdLogs == {n \in DOMAIN block : block[n].id # NoId}
DateLogs == {n \in DOMAIN block : block[n].date # NoDate}
RequestLogs == {n \in DOMAIN block : block[n].event = "request"}
Last(logs) == {n \in logs : \A m \in logs : m <= n}

Payload(n, m) == [id |-> block[n].id, date |-> block[m].date]

\* The payload map is made once per Value, for the logs of all accounts, and
\* each log overwrites what those before it have put there.  (A payload without
\* a requestId fails in the adapter's Validator; it is left out.)
\* Mutant of Parsed: the first value of a parameter stays, but for the date.
ParsedMixed == {Payload(n, m) : n \in {l \in IdLogs : \A o \in IdLogs : l <= o},
                                m \in IF DateLogs = {} THEN Last(IdLogs) ELSE Last(DateLogs)}
Parsed == {Payload(n, m) : n \in Last(IdLogs),
                           m \in IF DateLogs = {} THEN Last(IdLogs) ELSE Last(DateLogs)}

\* The block is complete and its logs are notified.
Notify ==
  /\ block # << >>
  /\ block' = << >>
  /\ events' = events \cup Parsed
  /\ trouble' = trouble \cup ({block[n].id : n \in RequestLogs} \ {e.id : e \in Parsed})
  /\ UNCHANGED <<oracle, nextId, requests, adapterOwns, received, run, mempool, others>>

\* The notification is lost.
NotifyLost ==
  /\ block # << >>
  /\ block' = << >>
  /\ trouble' = trouble \cup {block[n].id : n \in RequestLogs}
  /\ UNCHANGED <<oracle, nextId, requests, adapterOwns, received, events, run, mempool, others>>

\* An attempt of TriggerJob makes the node create a job run, which calls the adapter.
Trigger(e, k) ==
  /\ e \in events
  /\ run[<<e.id, k>>].pc = "none"
  /\ \A j \in 1..(k - 1) : run[<<e.id, j>>].pc # "none"
  /\ Cardinality({r \in Runs : run[r].pc # "none"}) < MaxRuns
  /\ run' = [run EXCEPT ![<<e.id, k>>] = [pc |-> "fetch", date |-> e.date, reply |-> "none"]]
  /\ UNCHANGED <<oracle, contractVars, events, mempool, others, trouble>>

\* No further attempt creates one.
TriggerEnds(e) ==
  /\ e \in events
  /\ events' = events \ {e}
  /\ trouble' = IF \E k \in 1..Attempts : run[<<e.id, k>>].pc # "none" THEN trouble ELSE trouble \cup {e.id}
  /\ UNCHANGED <<oracle, contractVars, run, mempool, others>>

-----------------------------------------------------------------------------
(* The adapter: createRequest                                              *)

\* callback(status, ...): express refuses a second reply to the node, and the
\* refusal ends in a rejected promise that nobody handles.
Reply(r, status, label) ==
  run' = [run EXCEPT ![r].pc = label,
                     ![r].reply = IF run[r].reply = "none" THEN status ELSE run[r].reply]

\* The REST API returns a positive number: the node gets it, then oracle_sc.call
\* sends the transaction, always to the adapter's own oracle.
Fetch(r, status, sent) ==
  /\ run[r].pc = "fetch"
  /\ oracle = "rhine_gauge" => run[r].date # NoDate  \* or the Validator fails
  /\ Reply(r, status, "await")
  /\ mempool' = mempool \cup sent
  /\ UNCHANGED <<oracle, contractVars, events, others, trouble>>

\* Mutants of FetchOk: the reply waits for the transaction; no transaction is
\* sent.
FetchOkSilently(r) == Fetch(r, "none", {r})
FetchOkRejected(r) == Fetch(r, "200", {})
FetchOk(r) == Fetch(r, "200", {r})

\* The Validator fails, the API returns no number, or the adapter is restarted:
\* the node gets a 500.
\* The number is not positive, or the transaction cannot be sent: it gets a 200,
\* and a 500 that is refused.
FetchFails(r) ==
  /\ run[r].pc = "fetch"
  /\ \E status \in {"200", "500"} : Reply(r, status, "done")
  /\ trouble' = trouble \cup {r[1]}
  /\ UNCHANGED <<oracle, contractVars, events, mempool, others>>

\* The transaction is confirmed ...
Confirmed(r) ==
  /\ run[r].pc = "await" /\ r \notin mempool
  /\ run' = [run EXCEPT ![r].pc = "done"]
  /\ UNCHANGED <<oracle, contractVars, events, mempool, others, trouble>>

\* ... or has failed, or was not found 33 or 50 times, which does not keep it
\* from being executed later.
NotConfirmed(r) ==
  /\ run[r].pc = "await"
  /\ Reply(r, "500", "done")
  /\ UNCHANGED <<oracle, contractVars, events, mempool, others, trouble>>

-----------------------------------------------------------------------------
AdapterStep(r) ==
  \/ FetchOk(r) \/ FetchFails(r)
  \/ Confirmed(r) \/ NotConfirmed(r)

ChainStep(r) == SetData(r, run[r].date) \/ SetDataFails(r)

Relay == Notify \/ NotifyLost

\* What the request numbered i is waiting for.
Progress(i) ==
  \/ \E k \in 1..Attempts : AdapterStep(<<i, k>>) \/ ChainStep(<<i, k>>)
  \/ \E e \in events : e.id = i /\ (TriggerEnds(e) \/ \E k \in 1..Attempts : Trigger(e, k))

Next ==
  \/ \E c \in Clients, d \in AllDates : DataRequest(c, d)
  \/ \E i \in OtherIds \cup {NoId}, d \in AllDates : OtherLog(i, d)
  \/ \E i \in Ids : SetDataByOthers(i)
  \/ ChangeOwner
  \/ Relay
  \/ \E i \in Ids : Progress(i)

Spec == Init /\ [][Next]_vars

\* Blocks are mined, and whatever a request waits for happens or fails.
FairSpec == Spec /\ WF_vars(Relay) /\ \A i \in Ids : WF_vars(Progress(i))

-----------------------------------------------------------------------------
(* Properties                                                              *)

TypeOK ==
  /\ oracle \in {"pricefeed", "unixtime", "rhine_gauge"}
  /\ nextId \in Ids
  /\ requests \in [Ids -> [client : Clients, date : AllDates, result : {"none", "some"}]
                            \cup {NoRequest}]
  /\ adapterOwns \in BOOLEAN
  /\ received \in [Clients -> SUBSET [data : AllDates \cup {Elsewhere}, date : AllDates]]
  /\ block \in Seq(Logs)
  /\ events \subseteq [id : Ids, date : AllDates]
  /\ run \in [Runs -> [pc : {"none", "fetch", "await", "done"}, date : AllDates,
                       reply : {"none", "200", "500"}]]
  /\ mempool \subseteq Runs
  /\ others \in 0..MaxOthers
  /\ trouble \subseteq Ids

\* The contracts, the parser and the adapter together keep the promise of
\* OracleLedger: no repeated, late or lost job run, no reordering, no set_data
\* of another account makes the oracle call a client back but for a request of
\* that client, and what the adapter sends is data for the date asked, as long as
\* no other account that the job watches has logged an event.
Asked == [i \in Ids |-> IF requests[i] = NoRequest THEN NoRequest
                        ELSE [client |-> requests[i].client, date |-> requests[i].date]]
Answered == {i \in Ids : requests[i] # NoRequest /\ requests[i].result = "some"}

Ledger == INSTANCE OracleLedger WITH Dates <- AllDates, asked <- Asked, answered <- Answered,
                                 alone <- (others = 0)
ImplementsLedger == Ledger!Spec

\* A job run that the adapter reports as failed writes nothing to the chain,
\* so that the node may run it again: the reply is final and precedes the
\* transaction, whatever becomes of that.
FailedRunsWriteNothing == \A r \in Runs : run[r].reply = "500" => r \notin mempool

\* Every request is answered, unless one of its steps failed, or its log came
\* with those of other accounts.
RequestsEnd ==
  \A i \in Ids : (requests[i] # NoRequest) ~> (i \in Answered \cup trouble \/ others > 0)

-----------------------------------------------------------------------------
(* The inductive invariant                                                 *)

\* Numbers are given in order.
Numbered == \A i \in Ids : requests[i] # NoRequest <=> i < nextId

\* Only requests to rhine_gauge have dates, and only requests have numbers;
\* whatever is under way for a request carries its date.
Fits(i, d) == requests[i] # NoRequest /\ requests[i].date = d
LogFits(log) ==
  /\ log.id # NoId => Fits(log.id, log.date)
  /\ log.date # NoDate <=> oracle = "rhine_gauge" /\ log.id # NoId
UnderWay ==
  others = 0 =>
    /\ \A n \in DOMAIN block : LogFits(block[n])
    /\ \A e \in events : Fits(e.id, e.date)
    /\ \A r \in Runs : run[r].pc # "none" => Fits(r[1], run[r].date)

\* The reply to the node comes before the transaction.
RepliedBefore ==
  \A r \in Runs :
    /\ run[r].pc \in {"none", "fetch"} => run[r].reply = "none" /\ r \notin mempool
    /\ r \in mempool \/ run[r].pc = "await" => run[r].reply = "200"

IInv == TypeOK /\ Numbered /\ UnderWay /\ RepliedBefore

=============================================================================
