-------------------------- MODULE ZilOracle_proofs --------------------------
(***************************************************************************)
(* Proofs about ZilOracle, for any clients and dates, any number of        *)
(* requests, attempts and event logs in a block.                           *)
(***************************************************************************)
EXTENDS ZilOracle, TLAPS

LEMMA InitIInv == Init => IInv
  BY OracleConstants
  DEF Init, IInv, TypeOK, Numbered, UnderWay, LogFits, RepliedBefore, NoRun, AllDates, Ids, Runs

\* What a reply does to the runs.
LEMMA ReplyFields ==
  ASSUME TypeOK, NEW r \in Runs, NEW status \in {"none", "200", "500"},
         NEW label \in {"await", "done"}, Reply(r, status, label)
  PROVE  /\ run' \in [Runs -> [pc : {"none", "fetch", "await", "done"}, date : AllDates,
                               reply : {"none", "200", "500"}]]
         /\ run'[r].pc = label
         /\ run'[r].date = run[r].date
         /\ run'[r].reply = IF run[r].reply = "none" THEN status ELSE run[r].reply
         /\ \A q \in Runs : q # r => run'[q] = run[q]
  BY DEF TypeOK, Reply

\* The event logs of the block have their type.
LEMMA LogsTyped ==
  ASSUME TypeOK, NEW n \in DOMAIN block
  PROVE  /\ block[n] \in Logs
         /\ block[n].id \in Ids \cup {NoId} /\ block[n].date \in AllDates
         /\ block[n].event = "request" => block[n].id \in Ids
<1>1. block \in Seq(Logs)
  BY DEF TypeOK
<1>2. block[n] \in Logs
  BY <1>1
<1>3. QED
  BY <1>2 DEF Logs

\* An event has the number of a log, and the date of another or the same one.
LEMMA ParsedTyped ==
  ASSUME TypeOK, NEW e \in Parsed
  PROVE  e \in [id : Ids, date : AllDates]
<1>1. PICK n \in IdLogs, m \in DOMAIN block : e = Payload(n, m)
  BY DEF Parsed, Last, IdLogs, DateLogs
<1>2. block[n].id \in Ids /\ block[m].date \in AllDates
  BY <1>1, LogsTyped DEF IdLogs
<1>3. QED
  BY <1>1, <1>2 DEF Payload

\* Among the logs of the oracle alone, the last number and the last date are
\* those of one request.
LEMMA ParsedFits ==
  ASSUME TypeOK, UnderWay, others = 0, NEW e \in Parsed
  PROVE  Fits(e.id, e.date)
<1>1. PICK n \in Last(IdLogs), m \in IF DateLogs = {} THEN Last(IdLogs) ELSE Last(DateLogs) :
        e = Payload(n, m)
  BY DEF Parsed
<1>2. \A l \in DOMAIN block : LogFits(block[l])
  BY DEF UnderWay
<1>3. DateLogs # {} => DateLogs = IdLogs
  BY <1>2 DEF DateLogs, IdLogs, LogFits
<1>4. m \in Last(IdLogs)
  BY <1>1, <1>3
<1>5. n = m
  <2>1. n \in Nat /\ m \in Nat /\ n <= m /\ m <= n
    BY <1>1, <1>4 DEF Last, IdLogs, TypeOK
  <2>2. QED
    BY <2>1
<1>6. n \in DOMAIN block /\ block[n].id # NoId
  BY <1>1 DEF Last, IdLogs
<1>7. QED
  BY <1>1, <1>2, <1>5, <1>6 DEF Payload, LogFits

\* What an answer does to the requests and the callbacks.
LEMMA AnswerTyped ==
  ASSUME TypeOK, NEW i \in Ids, NEW d \in AllDates \cup {Elsewhere}, Answer(i, d)
  PROVE  /\ requests[i] \in [client : Clients, date : AllDates, result : {"none", "some"}]
         /\ requests[i] # NoRequest
         /\ requests' \in [Ids -> [client : Clients, date : AllDates, result : {"none", "some"}]
                                 \cup {NoRequest}]
         /\ received' \in [Clients -> SUBSET [data : AllDates \cup {Elsewhere}, date : AllDates]]
         /\ requests'[i].client = requests[i].client
         /\ requests'[i].date = requests[i].date
         /\ requests'[i].result = "some"
         /\ requests'[i] # NoRequest
         /\ \A j \in Ids \ {i} : requests'[j] = requests[j]
         /\ UNCHANGED <<oracle, nextId, adapterOwns, block, events, run, others, trouble>>
<1>1. /\ requests[i] \in [client : Clients, date : AllDates, result : {"none", "some"}]
      /\ requests[i] # NoRequest
      /\ UNCHANGED <<oracle, nextId, adapterOwns, block, events, run, others, trouble>>
  BY DEF Answer, TypeOK
<1>2. requests' = [requests EXCEPT ![i].result = "some"]
  BY DEF Answer
<1>3. /\ requests'[i] \in [client : Clients, date : AllDates, result : {"none", "some"}]
      /\ requests'[i].client = requests[i].client
      /\ requests'[i].date = requests[i].date
      /\ requests'[i].result = "some"
      /\ \A j \in Ids \ {i} : requests'[j] = requests[j]
  BY <1>1, <1>2 DEF TypeOK
<1>4. requests'[i] # NoRequest
  BY <1>3, OracleConstants DEF AllDates
<1>5. requests' \in [Ids -> [client : Clients, date : AllDates, result : {"none", "some"}]
                          \cup {NoRequest}]
  BY <1>1, <1>2, <1>3 DEF TypeOK
<1>6. received' \in [Clients -> SUBSET [data : AllDates \cup {Elsewhere}, date : AllDates]]
  BY <1>1 DEF Answer, TypeOK
<1>7. QED
  BY <1>1, <1>3, <1>4, <1>5, <1>6

LEMMA StepTypeOK == IInv /\ [Next]_vars => TypeOK'
<1> SUFFICES ASSUME IInv, [Next]_vars PROVE TypeOK'
  OBVIOUS
<1> USE OracleConstants DEF TypeOK, IInv
<1>1. ASSUME NEW c \in Clients, NEW d \in AllDates, DataRequest(c, d) PROVE TypeOK'
  <2>1. [client |-> c, date |-> d, result |-> "none"] \in
          [client : Clients, date : AllDates, result : {"none", "some"}]
    OBVIOUS
  <2>2. requests' \in [Ids -> [client : Clients, date : AllDates, result : {"none", "some"}]
                             \cup {NoRequest}]
    BY <1>1, <2>1 DEF DataRequest, Request
  <2>3. block' \in Seq(Logs)
    <3>1. Log("request", nextId, d) \in Logs
      BY <1>1 DEF Log, Logs
    <3>2. QED
      BY <1>1, <3>1 DEF DataRequest, Request
  <2>4. QED
    BY <1>1, <2>2, <2>3 DEF DataRequest, Request
<1>2. ASSUME ChangeOwner PROVE TypeOK'
  <2>1. block' \in Seq(Logs)
    <3>1. Log("changeOwner", NoId, NoDate) \in Logs
      BY DEF Log, Logs, AllDates
    <3>2. QED
      BY <1>2, <3>1 DEF ChangeOwner
  <2>2. QED
    BY <1>2, <2>1 DEF ChangeOwner
<1>3. ASSUME Relay PROVE TypeOK'
  <2>1. {block[n].id : n \in RequestLogs} \subseteq Ids
    BY LogsTyped DEF RequestLogs
  <2>2. Parsed \subseteq [id : Ids, date : AllDates]
    BY ParsedTyped
  <2>3. trouble' \subseteq Ids /\ events' \subseteq [id : Ids, date : AllDates]
    BY <1>3, <2>1, <2>2 DEF Relay, Notify, NotifyLost
  <2>4. block' \in Seq(Logs)
    <3>1. block' = << >>
      BY <1>3 DEF Relay, Notify, NotifyLost
    <3>2. << >> \in Seq(Logs)
      OBVIOUS
    <3>3. QED
      BY <3>1, <3>2
  <2>5. UNCHANGED <<oracle, nextId, requests, adapterOwns, received, run, mempool, others>>
    BY <1>3 DEF Relay, Notify, NotifyLost
  <2>6. /\ oracle' \in {"pricefeed", "unixtime", "rhine_gauge"} /\ nextId' \in Ids
        /\ requests' \in [Ids -> [client : Clients, date : AllDates, result : {"none", "some"}]
                                \cup {NoRequest}]
        /\ adapterOwns' \in BOOLEAN
        /\ received' \in [Clients -> SUBSET [data : AllDates \cup {Elsewhere}, date : AllDates]]
        /\ run' \in [Runs -> [pc : {"none", "fetch", "await", "done"}, date : AllDates,
                              reply : {"none", "200", "500"}]]
        /\ mempool' \subseteq Runs /\ others' \in 0..MaxOthers
    BY <2>5
  <2>7. QED
    BY <2>3, <2>4, <2>6 DEF TypeOK
<1>4. ASSUME NEW r \in Runs, AdapterStep(r) PROVE TypeOK'
  <2>1. CASE FetchOk(r)
    BY <1>4, <2>1, ReplyFields DEF FetchOk, Fetch, contractVars
  <2>2. CASE FetchFails(r)
    <3>1. PICK status \in {"200", "500"} : Reply(r, status, "done")
      BY <2>2 DEF FetchFails
    <3>2. QED
      BY <2>2, <3>1, ReplyFields DEF FetchFails, contractVars, Runs
  <2>3. CASE Confirmed(r)
    BY <2>3 DEF Confirmed, contractVars
  <2>4. CASE NotConfirmed(r)
    BY <2>4, ReplyFields DEF NotConfirmed, contractVars
  <2>5. QED
    BY <1>4, <2>1, <2>2, <2>3, <2>4 DEF AdapterStep
<1>5. ASSUME NEW r \in Runs, ChainStep(r) PROVE TypeOK'
  <2>1. CASE SetData(r, run[r].date)
    <3>1. r[1] \in Ids /\ run[r].date \in AllDates
      BY <2>1 DEF Runs, SetData
    <3>2. QED
      BY <2>1, <3>1, AnswerTyped DEF SetData
  <2>2. CASE SetDataFails(r)
    BY <2>2 DEF SetDataFails, contractVars, Runs
  <2>3. QED
    BY <1>5, <2>1, <2>2 DEF ChainStep
<1>6. ASSUME NEW e \in events, TriggerEnds(e) PROVE TypeOK'
  BY <1>6 DEF TriggerEnds, contractVars
<1>7. ASSUME NEW e \in events, NEW k \in 1..Attempts, Trigger(e, k) PROVE TypeOK'
  BY <1>7 DEF Trigger, contractVars
<1>8. ASSUME NEW i \in OtherIds \cup {NoId}, NEW d \in AllDates, OtherLog(i, d) PROVE TypeOK'
  <2>1. block' \in Seq(Logs)
    <3>1. Log("other", i, d) \in Logs
      BY DEF Log, Logs, Ids
    <3>2. QED
      BY <1>8, <3>1 DEF OtherLog
  <2>2. others' \in 0..MaxOthers
    BY <1>8 DEF OtherLog
  <2>3. QED
    BY <1>8, <2>1, <2>2 DEF OtherLog
<1>9. ASSUME NEW i \in Ids, SetDataByOthers(i) PROVE TypeOK'
  BY <1>9, AnswerTyped DEF SetDataByOthers
<1>10. CASE UNCHANGED vars
  BY <1>10 DEF vars, contractVars
<1>11. QED
  BY <1>1, <1>2, <1>3, <1>4, <1>5, <1>6, <1>7, <1>8, <1>9, <1>10 DEF Next, Progress, Runs

\* No step forgets a request, or changes who asked it and for what.
LEMMA StepNumbered ==
  ASSUME IInv, [Next]_vars
  PROVE  /\ Numbered'
         /\ \A i \in Ids : requests[i] # NoRequest =>
              /\ requests'[i] # NoRequest
              /\ requests'[i].client = requests[i].client
              /\ requests'[i].date = requests[i].date
<1> DEFINE Goal == /\ Numbered'
                   /\ \A i \in Ids : requests[i] # NoRequest =>
                        /\ requests'[i] # NoRequest
                        /\ requests'[i].client = requests[i].client
                        /\ requests'[i].date = requests[i].date
<1>1. ASSUME NEW c \in Clients, NEW d \in AllDates, DataRequest(c, d) PROVE Goal
  <2>1. [client |-> c, date |-> d, result |-> "none"] # NoRequest
    BY OracleConstants DEF AllDates
  <2>2. /\ nextId \in Ids /\ nextId' = nextId + 1
        /\ requests' = [requests EXCEPT ![nextId] = [client |-> c, date |-> d, result |-> "none"]]
        /\ DOMAIN requests = Ids
    BY <1>1 DEF DataRequest, Request, IInv, TypeOK
  <2>3. QED
    BY <2>1, <2>2, OracleConstants DEF IInv, Numbered, Ids
<1>2. ASSUME NEW i \in Ids, NEW d \in AllDates \cup {Elsewhere}, Answer(i, d) PROVE Goal
  BY <1>2, AnswerTyped DEF IInv, Numbered
<1>3. CASE UNCHANGED <<nextId, requests>>
  BY <1>3 DEF IInv, Numbered
<1>4. ASSUME NEW r \in Runs, SetData(r, run[r].date) PROVE Goal
  <2>1. r[1] \in Ids /\ run[r].date \in AllDates
    BY DEF IInv, TypeOK, Runs
  <2>2. QED
    BY <1>2, <1>4, <2>1 DEF SetData
<1>5. ASSUME NEW i \in Ids, SetDataByOthers(i) PROVE Goal
  BY <1>2, <1>5 DEF SetDataByOthers
<1>6. QED
  BY <1>1, <1>3, <1>4, <1>5
  DEF Next, OtherLog, Progress, Relay, AdapterStep, ChainStep, ChangeOwner, SetDataFails, Notify, NotifyLost,
      Trigger, TriggerEnds, FetchOk, Fetch, FetchFails, Confirmed, NotConfirmed, vars, contractVars, Runs


LEMMA StepUnderWay == ASSUME IInv, [Next]_vars PROVE UnderWay'
<1> SUFFICES ASSUME others' = 0
             PROVE  /\ \A n \in DOMAIN block' : LogFits(block[n])'
                    /\ \A e \in events' : Fits(e.id, e.date)'
                    /\ \A r \in Runs : run'[r].pc # "none" => Fits(r[1], run[r].date)'
  BY DEF UnderWay
<1> DEFINE Goal == /\ \A n \in DOMAIN block' : LogFits(block[n])'
                   /\ \A e \in events' : Fits(e.id, e.date)'
                   /\ \A r \in Runs : run'[r].pc # "none" => Fits(r[1], run[r].date)'
<1>0. others = 0 /\ oracle' = oracle
  <2>1. oracle' = oracle
    BY DEF Next, OtherLog, SetDataByOthers, Answer, Progress, Relay, AdapterStep, ChainStep, DataRequest,
           Request, ChangeOwner, SetData, SetDataFails, Notify, NotifyLost, Trigger, TriggerEnds, FetchOk,
           Fetch, FetchFails, Confirmed, NotConfirmed, vars, contractVars
  <2>2. CASE \E i \in OtherIds \cup {NoId}, d \in AllDates : OtherLog(i, d)
    BY <2>2 DEF OtherLog, IInv, TypeOK
  <2>3. CASE others' = others
    BY <2>1, <2>3
  <2>4. QED
    BY <2>1, <2>2, <2>3
    DEF Next, SetDataByOthers, Answer, Progress, Relay, AdapterStep, ChainStep, DataRequest,
        Request, ChangeOwner, SetData, SetDataFails, Notify, NotifyLost, Trigger, TriggerEnds, FetchOk,
        Fetch, FetchFails, Confirmed, NotConfirmed, vars, contractVars
<1>1. /\ \A n \in DOMAIN block : LogFits(block[n]) /\
           (block[n].id # NoId => requests'[block[n].id] # NoRequest /\ requests'[block[n].id].date = block[n].date)
      /\ \A e \in events : requests'[e.id] # NoRequest /\ requests'[e.id].date = e.date
      /\ \A r \in Runs : run[r].pc # "none" =>
           requests'[r[1]] # NoRequest /\ requests'[r[1]].date = run[r].date
  <2>1. \A n \in DOMAIN block : block[n].id # NoId => block[n].id \in Ids
    BY LogsTyped DEF IInv
  <2>2. (\A e \in events : e.id \in Ids) /\ (\A r \in Runs : r[1] \in Ids)
    BY DEF IInv, TypeOK, Runs
  <2>3. QED
    BY <1>0, <2>1, <2>2, StepNumbered DEF IInv, UnderWay, LogFits, Fits
<1>2. CASE UNCHANGED <<block, events, run>>
  BY <1>0, <1>1, <1>2 DEF LogFits, Fits
<1>3. ASSUME NEW c \in Clients, NEW d \in AllDates, DataRequest(c, d) PROVE Goal
  <2>1. /\ requests'[nextId] = [client |-> c, date |-> d, result |-> "none"] /\ requests'[nextId] # NoRequest
        /\ nextId # NoId
    BY <1>3, OracleConstants DEF DataRequest, Request, IInv, TypeOK, AllDates, Ids
  <2> DEFINE log == [event |-> "request", id |-> nextId, date |-> d]
  <2>2. block' = Append(block, log) /\ UNCHANGED <<events, run>>
    BY <1>3 DEF DataRequest, Request, Log
  <2>3. \A n \in DOMAIN block' : block'[n] = log \/ (n \in DOMAIN block /\ block'[n] = block[n])
    BY <2>2 DEF IInv, TypeOK
  <2>4. d # NoDate <=> oracle = "rhine_gauge"
    BY <1>3, OracleConstants DEF DataRequest, Request
  <2>5. QED
    BY <1>0, <1>1, <2>1, <2>2, <2>3, <2>4 DEF LogFits, Fits
<1>4. CASE ChangeOwner
  <2> DEFINE log == [event |-> "changeOwner", id |-> NoId, date |-> NoDate]
  <2>1. block' = Append(block, log) /\ UNCHANGED <<events, run>>
    BY <1>4 DEF ChangeOwner, Log
  <2>2. \A n \in DOMAIN block' : block'[n] = log \/ (n \in DOMAIN block /\ block'[n] = block[n])
    BY <2>1 DEF IInv, TypeOK
  <2>3. QED
    BY <1>0, <1>1, <2>1, <2>2 DEF LogFits, Fits
<1>5. CASE Relay
  <2>1. DOMAIN block' = {} /\ UNCHANGED <<requests, run>>
    BY <1>5 DEF Relay, Notify, NotifyLost
  <2>2. \A e \in events' : e \in events \/ e \in Parsed
    BY <1>5 DEF Relay, Notify, NotifyLost
  <2>3. \A e \in Parsed : Fits(e.id, e.date)
    BY <1>0, ParsedFits DEF IInv
  <2>4. QED
    BY <1>1, <2>1, <2>2, <2>3 DEF Fits
<1>6. ASSUME NEW r \in Runs, AdapterStep(r) PROVE Goal
  <2>1. /\ \A q \in Runs : q # r => run'[q] = run[q]
        /\ run[r].pc # "none" /\ run'[r].date = run[r].date
        /\ UNCHANGED <<block, events>>
    <3>1. CASE FetchOk(r)
      BY <3>1, ReplyFields DEF FetchOk, Fetch, contractVars, IInv
    <3>2. CASE FetchFails(r)
      BY <3>2, ReplyFields DEF FetchFails, contractVars, IInv
    <3>3. CASE Confirmed(r)
      BY <3>3 DEF Confirmed, contractVars, IInv, TypeOK
    <3>4. CASE NotConfirmed(r)
      BY <3>4, ReplyFields DEF NotConfirmed, contractVars, IInv
    <3>5. QED
      BY <1>6, <3>1, <3>2, <3>3, <3>4 DEF AdapterStep
  <2>2. QED
    BY <1>0, <1>1, <2>1 DEF LogFits, Fits
<1>7. ASSUME NEW e \in events, NEW k \in 1..Attempts, Trigger(e, k) PROVE Goal
  <2>1. e.id \in Ids /\ <<e.id, k>> \in Runs
    BY DEF IInv, TypeOK, Runs
  <2>2. /\ run'[<<e.id, k>>].date = e.date
        /\ \A q \in Runs : q # <<e.id, k>> => run'[q] = run[q]
        /\ UNCHANGED <<block, events>>
    BY <1>7, <2>1 DEF Trigger, contractVars, IInv, TypeOK
  <2>3. QED
    BY <1>0, <1>1, <2>1, <2>2 DEF LogFits, Fits
<1>8. ASSUME NEW e \in events, TriggerEnds(e) PROVE Goal
  BY <1>0, <1>1, <1>8 DEF TriggerEnds, contractVars, LogFits, Fits
<1>9. CASE \E i \in OtherIds \cup {NoId}, d \in AllDates : OtherLog(i, d)
  BY <1>0, <1>9 DEF OtherLog, IInv, TypeOK
<1>10. QED
  BY <1>2, <1>3, <1>4, <1>5, <1>6, <1>7, <1>8, <1>9
  DEF Next, Progress, ChainStep, SetData, SetDataByOthers, Answer, SetDataFails, vars, contractVars, Runs

LEMMA StepRepliedBefore == ASSUME IInv, [Next]_vars PROVE RepliedBefore'
<1>1. CASE UNCHANGED run /\ mempool' \subseteq mempool
  BY <1>1 DEF IInv, RepliedBefore
<1>2. ASSUME NEW r \in Runs, FetchOk(r) PROVE RepliedBefore'
  <2>1. /\ run'[r].pc = "await" /\ run'[r].reply = "200"
        /\ \A q \in Runs : q # r => run'[q] = run[q]
        /\ mempool' = mempool \cup {r}
    BY <1>2, ReplyFields DEF FetchOk, Fetch, IInv, RepliedBefore
  <2>2. QED
    BY <2>1 DEF IInv, RepliedBefore
<1>3. ASSUME NEW r \in Runs, FetchFails(r) PROVE RepliedBefore'
  <2>1. /\ run'[r].pc = "done" /\ run[r].pc = "fetch"
        /\ \A q \in Runs : q # r => run'[q] = run[q]
        /\ mempool' = mempool
    BY <1>3, ReplyFields DEF FetchFails, contractVars, IInv
  <2>2. QED
    BY <2>1 DEF IInv, RepliedBefore
<1>4. ASSUME NEW r \in Runs, Confirmed(r) PROVE RepliedBefore'
  <2>1. /\ run'[r].pc = "done" /\ r \notin mempool
        /\ \A q \in Runs : q # r => run'[q] = run[q]
        /\ mempool' = mempool
    BY <1>4 DEF Confirmed, contractVars, IInv, TypeOK
  <2>2. QED
    BY <2>1 DEF IInv, RepliedBefore
<1>5. ASSUME NEW r \in Runs, NotConfirmed(r) PROVE RepliedBefore'
  <2>1. /\ run'[r].pc = "done" /\ run[r].reply = "200" /\ run'[r].reply = "200"
        /\ \A q \in Runs : q # r => run'[q] = run[q]
        /\ mempool' = mempool
    BY <1>5, ReplyFields DEF NotConfirmed, contractVars, IInv, RepliedBefore
  <2>2. QED
    BY <2>1 DEF IInv, RepliedBefore
<1>6. ASSUME NEW e \in events, NEW k \in 1..Attempts, Trigger(e, k) PROVE RepliedBefore'
  <2>1. <<e.id, k>> \in Runs
    BY DEF IInv, TypeOK, Runs
  <2>2. /\ run'[<<e.id, k>>].pc = "fetch" /\ run'[<<e.id, k>>].reply = "none"
        /\ run[<<e.id, k>>].pc = "none"
        /\ \A q \in Runs : q # <<e.id, k>> => run'[q] = run[q]
        /\ mempool' = mempool
    BY <1>6, <2>1 DEF Trigger, contractVars, IInv, TypeOK
  <2>3. QED
    BY <2>1, <2>2 DEF IInv, RepliedBefore
<1>7. QED
  BY <1>1, <1>2, <1>3, <1>4, <1>5, <1>6
  DEF Next, OtherLog, SetDataByOthers, Answer, Progress, Relay, AdapterStep, ChainStep, DataRequest,
      Request, ChangeOwner, SetData, SetDataFails, Notify, NotifyLost, TriggerEnds, vars, contractVars, Runs

\* The inductive invariant holds of every behaviour.
THEOREM Invariance == Spec => []IInv
<1>1. IInv /\ [Next]_vars => IInv'
  BY StepTypeOK, StepNumbered, StepUnderWay, StepRepliedBefore DEF IInv
<1>2. QED
  BY <1>1, InitIInv, PTL DEF Spec

\* A job run that the adapter has reported as failed to the node will write
\* nothing to the chain: the reply comes first and cannot be taken back.
THEOREM FailedRuns == Spec => []FailedRunsWriteNothing
<1>1. IInv => FailedRunsWriteNothing
  BY DEF IInv, RepliedBefore, FailedRunsWriteNothing
<1>2. QED
  BY <1>1, Invariance, PTL

-----------------------------------------------------------------------------
(* The contracts, the External Initiator and the adapter keep the promise  *)
(* of the ledger                                                           *)

LEMMA InitRefines == Init => Ledger!Init
  BY DEF Init, Ledger!Init, Asked, Answered

LEMMA StepRefines == ASSUME IInv, [Next]_vars PROVE [Ledger!Next]_(Ledger!vars)
<1>1. ASSUME NEW c \in Clients, NEW d \in AllDates, DataRequest(c, d) PROVE Ledger!Ask(nextId, c, d)
  <2>1. /\ nextId \in Ids /\ requests[nextId] = NoRequest
        /\ requests' = [requests EXCEPT ![nextId] = [client |-> c, date |-> d, result |-> "none"]]
        /\ UNCHANGED <<received, others>>
        /\ [client |-> c, date |-> d, result |-> "none"] # NoRequest
    BY <1>1, OracleConstants DEF DataRequest, Request, IInv, TypeOK, Numbered, Ids, AllDates
  <2>2. Asked' = [Asked EXCEPT ![nextId] = [client |-> c, date |-> d]]
    BY <2>1 DEF Asked, IInv, TypeOK
  <2>3. Answered' = Answered
    BY <2>1 DEF Answered, IInv, TypeOK
  <2>4. Asked[nextId] = NoRequest
    BY <2>1 DEF Asked
  <2>5. \A j \in Ids : j < nextId => Asked[j] # NoRequest
    <3>1. \A j \in Ids : j < nextId => requests[j] # NoRequest
      BY DEF IInv, Numbered
    <3>2. \A j \in Ids : requests[j] # NoRequest =>
            [client |-> requests[j].client, date |-> requests[j].date] # NoRequest
      BY OracleConstants DEF IInv, TypeOK, AllDates
    <3>3. QED
      BY <3>1, <3>2 DEF Asked
  <2>6. QED
    BY <2>1, <2>2, <2>3, <2>4, <2>5 DEF Ledger!Ask
<1>2. ASSUME NEW i \in Ids, NEW d \in AllDates \cup {Elsewhere}, Answer(i, d),
             others = 0 => d \in {requests[i].date, Elsewhere}
      PROVE  Ledger!Answer(i, d)
  <2>1. /\ requests[i] \in [client : Clients, date : AllDates, result : {"none", "some"}]
        /\ requests[i] # NoRequest
        /\ requests'[i] # NoRequest
        /\ requests'[i].client = requests[i].client
        /\ requests'[i].date = requests[i].date
        /\ requests'[i].result = "some"
        /\ \A j \in Ids \ {i} : requests'[j] = requests[j]
        /\ others' = others
    BY <1>2, AnswerTyped DEF IInv
  <2>2. Asked' = Asked
    BY <2>1 DEF Asked
  <2>3. Answered' = Answered \cup {i}
    BY <2>1 DEF Answered
  <2>4. Asked[i] # NoRequest /\ Asked[i].client = requests[i].client /\ Asked[i].date = requests[i].date
    BY <2>1, OracleConstants DEF Asked, AllDates
  <2>5. received' = [received EXCEPT ![Asked[i].client] = @ \cup {[data |-> d, date |-> Asked[i].date]}]
    BY <1>2, <2>4 DEF Answer
  <2>6. QED
    BY <1>2, <2>1, <2>2, <2>3, <2>4, <2>5 DEF Ledger!Answer
<1>3. CASE UNCHANGED <<requests, received, others>>
  BY <1>3 DEF Ledger!vars, Asked, Answered
<1>4. CASE \E c \in Clients, d \in AllDates : DataRequest(c, d)
  BY <1>1, <1>4 DEF IInv, TypeOK, Ledger!Next
<1>5. CASE \E r \in Runs : SetData(r, run[r].date)
  <2>1. PICK r \in Runs : SetData(r, run[r].date)
    BY <1>5
  <2>2. /\ r[1] \in Ids /\ run[r].date \in AllDates
        /\ r \in mempool /\ Answer(r[1], run[r].date)
    BY <2>1 DEF SetData, Runs, IInv, TypeOK
  <2>3. others = 0 => run[r].date = requests[r[1]].date
    BY <2>2 DEF IInv, UnderWay, RepliedBefore, Fits
  <2>4. Ledger!Answer(r[1], run[r].date)
    BY <1>2, <2>2, <2>3
  <2>5. QED
    BY <2>2, <2>4 DEF Ledger!Next
<1>6. CASE \E i \in Ids : SetDataByOthers(i)
  BY <1>2, <1>6 DEF SetDataByOthers, Ledger!Next
<1>7. CASE \E i \in OtherIds \cup {NoId}, d \in AllDates : OtherLog(i, d)
  <2>1. UNCHANGED <<requests, received>> /\ others' = others + 1 /\ others \in Nat
    BY <1>7 DEF OtherLog, IInv, TypeOK
  <2>2. (others' = 0) = FALSE
    BY <2>1
  <2>3. Ledger!Disturb
    BY <2>1, <2>2 DEF Ledger!Disturb, Asked, Answered
  <2>4. QED
    BY <2>3 DEF Ledger!Next
<1>8. QED
  BY <1>3, <1>4, <1>5, <1>6, <1>7
  DEF Next, Progress, Relay, AdapterStep, ChainStep, ChangeOwner, SetDataFails, Notify,
      NotifyLost, Trigger, TriggerEnds, FetchOk, Fetch, FetchFails, Confirmed, NotConfirmed, vars,
      contractVars, Runs

\* Whatever is lost, repeated, reordered or late on the way, and whoever else
\* calls set_data, the oracle calls a client back for nothing but its own
\* requests; what the adapter sends is data for the date asked, as long as no
\* other account that the job watches has logged an event.
THEOREM Refinement == Spec => ImplementsLedger
<1>1. QED
  BY InitRefines, StepRefines, Invariance, PTL DEF Spec, ImplementsLedger, Ledger!Spec
=============================================================================
