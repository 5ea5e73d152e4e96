------------------------------ MODULE EIService ------------------------------
(***************************************************************************)
(* The core of the External Initiator: client/service.go and the HTTP      *)
(* handlers of client/web.go on top of store/database.go.  The process     *)
(* keeps an unlocked map from job ids to active subscriptions.  Three      *)
(* kinds of goroutine use it: Service.Run, which subscribes again to what  *)
(* the database holds after a start; one goroutine per HTTP request; and,  *)
(* per subscription, a consumer that turns events into job run triggers.   *)
(* The process may crash between any two steps and be started again with a *)
(* different list of endpoints.                                            *)
(***************************************************************************)
EXTENDS Naturals

CONSTANTS
  Jobs,        \* job ids of the Chainlink node
  Endpoints,   \* endpoint names
  Conns,       \* identities of activeSubscription objects; bounds those of one run of the process
  Handlers,    \* HTTP requests served at the same time
  NoJob, NoEndpoint, NoConn,
  MaxStarts,   \* bound: starts of the process
  MaxPending   \* bound: trigger goroutines in flight for one subscription

ASSUME ServiceConstants ==
  /\ NoJob \notin Jobs
  /\ NoEndpoint \notin Endpoints
  /\ NoConn \notin Conns
  /\ MaxStarts \in Nat
  /\ MaxPending \in Nat

VARIABLES
  \* The database survives a crash.
  row,          \* row[j]: the subscriptions row of job j, "none", "live" or (soft-) "deleted"
  rowEndpoint,  \* rowEndpoint[j]: its endpoint_name column
  endpoint,     \* endpoint[e]: the endpoints row of name e, "none", "live" or "deleted"
  \* The process.
  phase,        \* "down", "config" (arguments), "purge" (stale endpoints), "serving"
  starts,       \* number of starts so far
  names,        \* endpoint names given on the command line of this start
  unsaved,      \* those whose SaveEndpoint is still to come
  stale,        \* endpoints DeleteAllEndpointsExcept still has to delete
  purging,      \* the endpoint that is deleted while its subscriptions are not yet
  run,          \* where Service.Run is: "load", "next", "test", "check", "subscribe", "done",
                \* or "stuck" in a test that never returns
  runQueue,     \* loaded subscriptions its range loop has not reached
  loopSub,      \* the job held by its loop variable sub
  registry,     \* Service.subscriptions: registry[j] is the connection of job j or NoConn
  con,          \* con[a]: an activeSubscription object
  pend,         \* pend[a]: goroutines that received an event of a and have not called TriggerJob
  req,          \* req[h]: an HTTP request being served
  lastRun       \* the latest job run requested from the Chainlink node

dbVars    == <<row, rowEndpoint, endpoint>>
startVars == <<names, unsaved, stale, purging>>
runVars   == <<run, runQueue, loopSub>>
subVars   == <<registry, con, pend>>
vars      == <<dbVars, phase, starts, startVars, runVars, subVars, req, lastRun>>

RowState == {"none", "live", "deleted"}
FreeCon  == [st |-> "free", job |-> NoJob, ptr |-> "own"]
IdleReq  == [pc |-> "idle", job |-> NoJob, ep |-> NoEndpoint, conn |-> NoConn]
NoRun    == [src |-> NoJob, dst |-> NoJob]

\* A request is answered: 500 or 201 leaves nothing to remember, a 200 to a
\* DELETE keeps the job and the connection it found.
Replied == {"idle", "deleted"}

\* activeSubscription.Subscription is a pointer.  SaveSubscription passes the
\* handler's own object; Run passes &sub, the variable its loop reuses.
Target(a) == IF con[a].ptr = "loop" THEN loopSub ELSE con[a].job

LiveEndpoints == {e \in Endpoints : endpoint[e] = "live"}

\* LoadSubscriptions and LoadSubscription: a row counts when it and its
\* endpoint are not deleted.
Loadable(j) == row[j] = "live" /\ rowEndpoint[j] \in LiveEndpoints

Used(a) == con[a].st # "free"
Open(a) == con[a].st = "open"

-----------------------------------------------------------------------------
Init ==
  /\ row = [j \in Jobs |-> "none"]
  /\ rowEndpoint = [j \in Jobs |-> NoEndpoint]
  /\ endpoint = [e \in Endpoints |-> "none"]
  /\ phase = "down"
  /\ starts = 0
  /\ names = {} /\ unsaved = {} /\ stale = {} /\ purging = NoEndpoint
  /\ run = "load" /\ runQueue = {} /\ loopSub = NoJob
  /\ registry = [j \in Jobs |-> NoConn]
  /\ con = [a \in Conns |-> FreeCon]
  /\ pend = [a \in Conns |-> 0]
  /\ req = [h \in Handlers |-> IdleReq]
  /\ lastRun = NoRun

-----------------------------------------------------------------------------
(* Process start: startService                                             *)

Start ==
  /\ phase = "down"
  /\ starts < MaxStarts
  /\ \E given \in SUBSET Endpoints : names' = given /\ unsaved' = given
  /\ phase' = "config"
  /\ starts' = starts + 1
  /\ UNCHANGED <<dbVars, stale, purging, runVars, subVars, req, lastRun>>

\* SaveEndpoint stores or restores the endpoint; its error is only logged and
\* the name is kept either way.
SaveArgument(e) ==
  /\ phase = "config"
  /\ e \in unsaved
  /\ unsaved' = unsaved \ {e}
  /\ \/ endpoint' = [endpoint EXCEPT ![e] = "live"]
     \/ UNCHANGED endpoint
  /\ UNCHANGED <<row, rowEndpoint, phase, starts, names, stale, purging,
                 runVars, subVars, req, lastRun>>

\* DeleteAllEndpointsExcept lists what to delete; it is not called without
\* names, and its query may fail.
ListStale ==
  /\ phase = "config"
  /\ unsaved = {}
  /\ phase' = "purge"
  /\ \/ names # {} /\ stale' = LiveEndpoints \ names
     \/ stale' = {}
  /\ UNCHANGED <<dbVars, starts, names, unsaved, purging, runVars, subVars, req, lastRun>>

\* DeleteEndpoint, first statement: the endpoint.
PurgeEndpoint(e) ==
  /\ purging = NoEndpoint
  /\ e \in stale
  /\ stale' = stale \ {e}
  /\ purging' = e
  /\ endpoint' = [endpoint EXCEPT ![e] = "deleted"]
  /\ UNCHANGED <<row, rowEndpoint, phase, starts, names, unsaved,
                 runVars, subVars, req, lastRun>>

\* DeleteEndpoint, second statement: the subscriptions that rely on it.
PurgeRows ==
  /\ purging # NoEndpoint
  /\ row' = [j \in Jobs |-> IF row[j] = "live" /\ rowEndpoint[j] = purging
                            THEN "deleted" ELSE row[j]]
  /\ purging' = NoEndpoint
  /\ UNCHANGED <<rowEndpoint, endpoint, phase, starts, names, unsaved, stale,
                 runVars, subVars, req, lastRun>>

\* Either statement fails: the error is logged, the rest is not deleted.
PurgeFails ==
  /\ stale # {} \/ purging # NoEndpoint
  /\ stale' = {}
  /\ purging' = NoEndpoint
  /\ UNCHANGED <<dbVars, phase, starts, names, unsaved, runVars, subVars, req, lastRun>>

\* Mutant of Serve: goroutines started before the stale endpoints are gone.
ServeEarly ==
  /\ phase = "purge"
  /\ phase' = "serving"
  /\ UNCHANGED <<dbVars, starts, startVars, runVars, subVars, req, lastRun>>

\* Run and the web server are started as goroutines of their own.
Serve ==
  /\ phase = "purge"
  /\ stale = {} /\ purging = NoEndpoint
  /\ phase' = "serving"
  /\ UNCHANGED <<dbVars, starts, startVars, runVars, subVars, req, lastRun>>

\* SIGINT (Close, then exit), logger.Fatal, a panic outside a handler or a
\* kill: only the database is left.
Down ==
  /\ phase # "down"
  /\ phase' = "down"
  /\ names' = {} /\ unsaved' = {} /\ stale' = {} /\ purging' = NoEndpoint
  /\ run' = "load" /\ runQueue' = {} /\ loopSub' = NoJob
  /\ registry' = [j \in Jobs |-> NoConn]
  /\ con' = [a \in Conns |-> FreeCon]
  /\ pend' = [a \in Conns |-> 0]
  /\ req' = [h \in Handlers |-> IdleReq]
  /\ UNCHANGED <<dbVars, starts, lastRun>>

-----------------------------------------------------------------------------
(* Subscribing: the tail of Service.subscribe, after its check of the map   *)

\* SubscribeToEvents succeeded on a new connection a; it enters the map.
Subscribe(a, j, pointer) ==
  /\ con[a].st = "free"
  /\ con' = [con EXCEPT ![a] = [st |-> "open", job |-> j, ptr |-> pointer]]
  /\ registry' = [registry EXCEPT ![j] = a]

-----------------------------------------------------------------------------
(* Service.Run                                                             *)

\* An error of the query itself is fatal: Down.
RunLoad ==
  /\ phase = "serving"
  /\ run = "load"
  /\ runQueue' = {j \in Jobs : Loadable(j)}
  /\ run' = "next"
  /\ UNCHANGED <<dbVars, phase, starts, startVars, loopSub, subVars, req, lastRun>>

\* The range loop assigns the next row to sub; the database gives no order.
RunNext(j) ==
  /\ run = "next"
  /\ j \in runQueue
  /\ loopSub' = j
  /\ runQueue' = runQueue \ {j}
  /\ run' = "test"
  /\ UNCHANGED <<dbVars, phase, starts, startVars, subVars, req, lastRun>>

\* Mutant of RunTest: the loop returns on an error.
RunTestReturns ==
  /\ run = "test"
  /\ \/ rowEndpoint[loopSub] \in LiveEndpoints /\ run' = "check"
     \/ run' \in {"done", "stuck"}
  /\ UNCHANGED <<dbVars, phase, starts, startVars, runQueue, loopSub, subVars, req, lastRun>>

\* getAndTestSubscription; on an error the loop continues.  The HTTP clients
\* have no timeout: a node that accepts the call and never answers keeps Run.
RunTest ==
  /\ run = "test"
  /\ \/ rowEndpoint[loopSub] \in LiveEndpoints /\ run' = "check"
     \/ run' \in {"next", "stuck"}
  /\ UNCHANGED <<dbVars, phase, starts, startVars, runQueue, loopSub, subVars, req, lastRun>>

\* subscribe looks the job up in the map ...
RunCheck ==
  /\ run = "check"
  /\ run' = IF registry[loopSub] = NoConn THEN "subscribe" ELSE "next"
  /\ UNCHANGED <<dbVars, phase, starts, startVars, runQueue, loopSub, subVars, req, lastRun>>

\* ... and adds it after the subscriber has connected, or fails.
RunSubscribe ==
  /\ run = "subscribe"
  /\ run' = "next"
  /\ \/ \E a \in Conns : Subscribe(a, loopSub, "loop")
     \/ UNCHANGED <<con, registry>>
  /\ UNCHANGED <<dbVars, phase, starts, startVars, runQueue, loopSub, pend, req, lastRun>>

RunDone ==
  /\ run = "next"
  /\ runQueue = {}
  /\ run' = "done"
  /\ UNCHANGED <<dbVars, phase, starts, startVars, runQueue, loopSub, subVars, req, lastRun>>

-----------------------------------------------------------------------------
(* POST /jobs: CreateSubscription and SaveSubscription                     *)

Reply(h) == req' = [req EXCEPT ![h] = IdleReq]

Goto(h, label) == req' = [req EXCEPT ![h].pc = label]

\* The handler knows the endpoint (GetEndpoint) and the request is valid;
\* one that fails here changes nothing.
CreateRequest(h, j, e) ==
  /\ phase = "serving"
  /\ req[h].pc \in Replied
  /\ e \in LiveEndpoints
  /\ req' = [req EXCEPT ![h] = [pc |-> "test", job |-> j, ep |-> e, conn |-> NoConn]]
  /\ UNCHANGED <<dbVars, phase, starts, startVars, runVars, subVars, lastRun>>

\* Mutant of CreateTest: the job is subscribed before it is stored.
CreateTestSkipsSave(h) ==
  /\ req[h].pc = "test"
  /\ \/ req[h].ep \in LiveEndpoints /\ Goto(h, "check")
     \/ Reply(h)
  /\ UNCHANGED <<dbVars, phase, starts, startVars, runVars, subVars, lastRun>>

CreateTest(h) ==
  /\ req[h].pc = "test"
  /\ \/ req[h].ep \in LiveEndpoints /\ Goto(h, "save")
     \/ Reply(h)
  /\ UNCHANGED <<dbVars, phase, starts, startVars, runVars, subVars, lastRun>>

\* What CreateSave does when it finds the job's row in one of the given states.
StoreOver(h, states) ==
  /\ req[h].pc = "save"
  /\ \/ /\ row[req[h].job] \in states
        /\ req[h].ep \in LiveEndpoints
        /\ row' = [row EXCEPT ![req[h].job] = "live"]
        /\ rowEndpoint' = [rowEndpoint EXCEPT ![req[h].job] = req[h].ep]
        /\ Goto(h, "check")
     \/ /\ Reply(h)
        /\ UNCHANGED <<row, rowEndpoint>>
  /\ UNCHANGED <<endpoint, phase, starts, startVars, runVars, subVars, lastRun>>

\* Mutants of CreateSave: no unique index; an upsert that restores, as for endpoints.
CreateSaveNoIndex(h) == StoreOver(h, RowState)
CreateSaveRestores(h) == StoreOver(h, {"none", "deleted"})

\* The unique index on subscriptions.job also covers soft-deleted rows.
CreateSave(h) == StoreOver(h, {"none"})

\* "already subscribed to this jobid": the row stays.
CreateCheck(h) ==
  /\ req[h].pc = "check"
  /\ IF registry[req[h].job] = NoConn THEN Goto(h, "subscribe") ELSE Reply(h)
  /\ UNCHANGED <<dbVars, phase, starts, startVars, runVars, subVars, lastRun>>

\* A failure of SubscribeToEvents is answered with 500 and leaves the row.
CreateSubscribe(h) ==
  /\ req[h].pc = "subscribe"
  /\ Reply(h)
  /\ \/ \E a \in Conns : Subscribe(a, req[h].job, "own")
     \/ UNCHANGED <<con, registry>>
  /\ UNCHANGED <<dbVars, phase, starts, startVars, runVars, pend, lastRun>>

-----------------------------------------------------------------------------
(* DELETE /jobs/:jobid: DeleteJob                                          *)

\* A map hit goes on to closeSubscription, a miss to LoadSubscription, whose
\* error is the reply.
DeleteRequest(h, j) ==
  /\ phase = "serving"
  /\ req[h].pc \in Replied
  /\ \/ /\ registry[j] # NoConn
        /\ req' = [req EXCEPT ![h] = [pc |-> "close", job |-> j, ep |-> NoEndpoint,
                                      conn |-> registry[j]]]
     \/ /\ registry[j] = NoConn
        /\ Loadable(j)
        /\ req' = [req EXCEPT ![h] = [pc |-> "delete", job |-> j, ep |-> NoEndpoint,
                                      conn |-> NoConn]]
  /\ UNCHANGED <<dbVars, phase, starts, startVars, runVars, subVars, lastRun>>

\* closeSubscription.  On a subscription that another request has closed it
\* panics; gin answers 500 and the deferred removal is not reached.
DeleteClose(h) ==
  LET a == req[h].conn
  IN  /\ req[h].pc = "close"
      /\ \/ /\ Open(a)
            /\ con' = [con EXCEPT ![a].st = "closed"]
            /\ Goto(h, "delete")
         \/ /\ ~Open(a)
            /\ Reply(h)
            /\ UNCHANGED con
      /\ UNCHANGED <<dbVars, phase, starts, startVars, runVars, registry, pend, lastRun>>

\* The row the request is about to delete: the one the pointer found in the
\* map now points to, or the one LoadSubscription returned.
Doomed(h) == IF req[h].conn = NoConn THEN req[h].job ELSE Target(req[h].conn)

\* The request forgets the entry it found in the map.
Unregister(h) ==
  registry' = IF req[h].conn = NoConn THEN registry
              ELSE [registry EXCEPT ![req[h].job] = NoConn]

\* Mutant of DeleteRow: the removal is not deferred, an error returns before it.
DeleteRowNoDefer(h) ==
  /\ req[h].pc = "delete"
  /\ \/ row' = [row EXCEPT ![Doomed(h)] = "deleted"] /\ Unregister(h) /\ Goto(h, "deleted")
     \/ Reply(h) /\ UNCHANGED <<row, registry>>
  /\ UNCHANGED <<rowEndpoint, endpoint, phase, starts, startVars, runVars, con, pend, lastRun>>

\* Mutant of DeleteRow: the error of the store is ignored.
DeleteRowNoError(h) ==
  /\ req[h].pc = "delete"
  /\ Unregister(h)
  /\ Goto(h, "deleted")
  /\ \/ row' = [row EXCEPT ![Doomed(h)] = "deleted"]
     \/ UNCHANGED row
  /\ UNCHANGED <<rowEndpoint, endpoint, phase, starts, startVars, runVars, con, pend, lastRun>>

\* store.DeleteSubscription, then the deferred removal from the map if the
\* job was found there; the removal also follows a failure of the store.
DeleteRow(h) ==
  /\ req[h].pc = "delete"
  /\ Unregister(h)
  /\ \/ /\ row' = [row EXCEPT ![Doomed(h)] = "deleted"]
        /\ Goto(h, "deleted")
     \/ /\ Reply(h)
        /\ UNCHANGED row
  /\ UNCHANGED <<rowEndpoint, endpoint, phase, starts, startVars, runVars, con, pend, lastRun>>

-----------------------------------------------------------------------------
(* POST /config: CreateEndpoint, SaveEndpoint                              *)

ConfigRequest(e) ==
  /\ phase = "serving"
  /\ endpoint' = [endpoint EXCEPT ![e] = "live"]
  /\ UNCHANGED <<row, rowEndpoint, phase, starts, startVars, runVars, subVars, req, lastRun>>

-----------------------------------------------------------------------------
(* The consumer of a subscription                                          *)

\* It receives an event and starts a goroutine for it.
Receive(a) ==
  /\ Open(a)
  /\ pend[a] < MaxPending
  /\ pend' = [pend EXCEPT ![a] = @ + 1]
  /\ UNCHANGED <<dbVars, phase, starts, startVars, runVars, registry, con, req, lastRun>>

\* The goroutine reads as.Subscription.Job and triggers that job; the node
\* gets the request, or every attempt fails.
Trigger(a) ==
  /\ pend[a] > 0
  /\ pend' = [pend EXCEPT ![a] = @ - 1]
  /\ \/ lastRun' = [src |-> con[a].job, dst |-> Target(a)]
     \/ UNCHANGED lastRun
  /\ UNCHANGED <<dbVars, phase, starts, startVars, runVars, registry, con, req>>

-----------------------------------------------------------------------------
StartStep ==
  \/ Start
  \/ \E e \in Endpoints : SaveArgument(e) \/ PurgeEndpoint(e)
  \/ ListStale
  \/ PurgeRows
  \/ PurgeFails
  \/ Serve

RunStep ==
  \/ RunLoad
  \/ \E j \in Jobs : RunNext(j)
  \/ RunTest
  \/ RunCheck
  \/ RunSubscribe
  \/ RunDone

RequestStep(h) ==
  \/ CreateTest(h)
  \/ CreateSave(h)
  \/ CreateCheck(h)
  \/ CreateSubscribe(h)
  \/ DeleteClose(h)
  \/ DeleteRow(h)

Next ==
  \/ StartStep
  \/ RunStep
  \/ \E h \in Handlers :
       \/ RequestStep(h)
       \/ \E j \in Jobs : DeleteRequest(h, j) \/ \E e \in Endpoints : CreateRequest(h, j, e)
  \/ \E e \in Endpoints : ConfigRequest(e)
  \/ \E a \in Conns : Receive(a) \/ Trigger(a)
  \/ Down

Spec == Init /\ [][Next]_vars

\* The Go scheduler runs every goroutine that can run; Run is one of them, until
\* a test keeps it for good.
\* Nothing is assumed of requests, events or the operator who starts it again.
FairSpec == Spec /\ WF_vars(RunStep)

-----------------------------------------------------------------------------
(* Properties                                                              *)

Request ==
  [pc : {"idle", "test", "save", "check", "subscribe", "close", "delete", "deleted"},
   job : Jobs \cup {NoJob}, ep : Endpoints \cup {NoEndpoint}, conn : Conns \cup {NoConn}]

\* Every variable has its type; a request past its first step has a job, one
\* about to close a subscription has found one in the map, and the loop
\* variable holds a row whenever Run works on one.
TypeOK ==
  /\ row \in [Jobs -> RowState]
  /\ rowEndpoint \in [Jobs -> Endpoints \cup {NoEndpoint}]
  /\ endpoint \in [Endpoints -> RowState]
  /\ phase \in {"down", "config", "purge", "serving"}
  /\ starts \in 0..MaxStarts
  /\ names \subseteq Endpoints
  /\ unsaved \subseteq Endpoints
  /\ stale \subseteq Endpoints
  /\ purging \in Endpoints \cup {NoEndpoint}
  /\ run \in {"load", "next", "test", "check", "subscribe", "done", "stuck"}
  /\ runQueue \subseteq Jobs
  /\ loopSub \in Jobs \cup {NoJob}
  /\ run \in {"test", "check", "subscribe"} => loopSub \in Jobs
  /\ registry \in [Jobs -> Conns \cup {NoConn}]
  /\ con \in [Conns -> [st : {"free", "open", "closed"}, job : Jobs \cup {NoJob},
                        ptr : {"own", "loop"}]]
  /\ pend \in [Conns -> 0..MaxPending]
  /\ req \in [Handlers -> Request]
  /\ \A h \in Handlers : /\ req[h].pc # "idle" => req[h].job \in Jobs
                         /\ req[h].pc = "close" => req[h].conn \in Conns
  /\ lastRun \in [src : Jobs \cup {NoJob}, dst : Jobs \cup {NoJob}]

\* Whatever subscribes, there is a row behind it, so that a subscription that
\* outlives its request can still be found and retired through the database:
\* SaveSubscription stores before it subscribes and no row is ever removed.
RowBehindEverySubscription ==
  \A a \in Conns : Used(a) => con[a].job \in Jobs /\ row[con[a].job] # "none"

\* No subscription watches an endpoint that the configuration has withdrawn:
\* endpoints are deleted only before Run and the web server start, and both
\* ways to subscribe look the endpoint up.
ActiveEndpointIsLive ==
  \A a \in Conns : Used(a) => rowEndpoint[con[a].job] \in LiveEndpoints

\* A job is never subscribed twice by two requests, nor twice by Run: the
\* unique index lets one request through and Run meets each row once.
OneSubscriptionPerSource ==
  \A a, b \in Conns :
    a # b /\ Open(a) /\ Open(b) /\ con[a].job = con[b].job => con[a].ptr # con[b].ptr

\* A closed subscription does not stay in the map: it is there only while the
\* DELETE that closed it is still at the database.  (Otherwise each later
\* DELETE of the job would panic on it.)
NoDeadEntries ==
  \A j \in Jobs : registry[j] # NoConn =>
    /\ Used(registry[j])
    /\ con[registry[j]].job = j
    /\ ~Open(registry[j]) =>
         \E h \in Handlers : /\ req[h].pc = "delete"
                             /\ req[h].job = j
                             /\ req[h].conn = registry[j]

\* A DELETE answered with 200 has retired its job for good, unless it found a
\* subscription made by Run, whose pointer may lead to another row.
AckedDeleteIsDurable ==
  \A h \in Handlers : req[h].pc = "deleted" =>
    \/ row[req[h].job] = "deleted"
    \/ req[h].conn \in Conns /\ con[req[h].conn].ptr = "loop"

\* What the database and the run requests show is what JobLedger promises.
LedgerRows == [j \in Jobs |-> IF row[j] = "none" THEN "unknown"
                              ELSE IF row[j] = "live" THEN "registered" ELSE "retired"]
LedgerRun == {lastRun.dst} \ {NoJob}

Ledger == INSTANCE JobLedger WITH ledger <- LedgerRows, requested <- LedgerRun

ImplementsLedger == Ledger!Spec

\* Every row that Run has loaded is reached by its loop, whatever fails for
\* the rows before it, and however requests use the map meanwhile, unless the
\* process goes down or a node never answers the test of one of those rows.
LoadedRowsAreReached ==
  \A j \in Jobs : j \in runQueue ~> (loopSub = j \/ phase = "down" \/ run = "stuck")

-----------------------------------------------------------------------------
(* The inductive invariant: what the properties above need to know about   *)
(* the steps in progress                                                   *)

Subscribing(h) == req[h].pc \in {"check", "subscribe"}

\* Before the process serves, and after it went down, nothing runs in it.
QuietUnlessServing ==
  IF phase = "serving" THEN stale = {} /\ purging = NoEndpoint
  ELSE /\ run = "load" /\ runQueue = {} /\ loopSub = NoJob
       /\ \A h \in Handlers : req[h].pc = "idle"
       /\ \A a \in Conns : ~Used(a)

\* Run and the requests work on jobs that have a row.
WorkHasRows ==
  /\ \A a \in Conns : Used(a) => con[a].job \in Jobs /\ row[con[a].job] # "none"
  /\ \A j \in runQueue : row[j] # "none"
  /\ loopSub \in Jobs => row[loopSub] # "none"
  /\ \A h \in Handlers :
       req[h].pc \in {"check", "subscribe", "close", "delete", "deleted"} =>
         row[req[h].job] # "none"
  /\ \A a \in Conns : Used(a) /\ con[a].ptr = "loop" => loopSub \in Jobs

\* They subscribe to endpoints that are configured.
WorkHasEndpoints ==
  /\ \A j \in Jobs : row[j] # "none" => rowEndpoint[j] \in Endpoints
  /\ \A a \in Conns : Used(a) => rowEndpoint[con[a].job] \in LiveEndpoints
  /\ run \in {"check", "subscribe"} => rowEndpoint[loopSub] \in LiveEndpoints
  /\ \A h \in Handlers : Subscribing(h) => rowEndpoint[req[h].job] \in LiveEndpoints

\* Each source subscribes a job at most once: a request that is about to has
\* no rival, and a row that Run has still to reach has no subscription of Run.
SourcesAreSingle ==
  /\ \A a, b \in Conns :
       Used(a) /\ Used(b) /\ con[a].job = con[b].job /\ con[a].ptr = con[b].ptr => a = b
  /\ \A g, h \in Handlers :
       Subscribing(g) /\ Subscribing(h) /\ req[g].job = req[h].job => g = h
  /\ \A h \in Handlers, a \in Conns :
       Subscribing(h) /\ Used(a) /\ con[a].ptr = "own" => con[a].job # req[h].job
  /\ \A a \in Conns : Used(a) /\ con[a].ptr = "loop" =>
       /\ con[a].job \notin runQueue
       /\ run # "load"
       /\ run \in {"test", "check", "subscribe"} => con[a].job # loopSub
  /\ run \in {"test", "check", "subscribe"} => loopSub \notin runQueue

\* A request holds on to a connection of its own job.
RequestsMatch ==
  \A h \in Handlers : req[h].conn \in Conns =>
    Used(req[h].conn) /\ con[req[h].conn].job = req[h].job

\* Events come from subscriptions.
EventsHaveSource == \A a \in Conns : pend[a] > 0 => Used(a)

IInv ==
  /\ TypeOK
  /\ QuietUnlessServing
  /\ WorkHasRows
  /\ WorkHasEndpoints
  /\ SourcesAreSingle
  /\ RequestsMatch
  /\ EventsHaveSource
  /\ NoDeadEntries
  /\ AckedDeleteIsDurable

-----------------------------------------------------------------------------
(* What the documentation says and the code does not do                    *)

\* An event of a job's oracle starts a run of that job.
TriggersReachTheirJob == lastRun.dst = lastRun.src
=============================================================================
