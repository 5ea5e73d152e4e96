--------------------------- MODULE EIService_proofs ---------------------------
(***************************************************************************)
(* Proofs about EIService, for every set of jobs, endpoints, connections   *)
(* and requests.  The inductive invariant is IInv: its first lemma is the  *)
(* type, the next ones add one conjunct each, using those before it.  At   *)
(* the end are those about TriggerRetry, to which the service hands over.  *)
(***************************************************************************)
EXTENDS EIService, TriggerRetry, TLAPS

LEMMA InitIInv == Init => IInv
  BY ServiceConstants
  DEF Init, IInv, TypeOK, QuietUnlessServing, WorkHasRows, WorkHasEndpoints, SourcesAreSingle,
      RequestsMatch, EventsHaveSource, NoDeadEntries, AckedDeleteIsDurable, RowState, FreeCon, IdleReq, NoRun,
      Request, Used, Open, Subscribing, LiveEndpoints

\* The part of TypeOK about requests, and that moving a request on or
\* answering it keeps it.
ReqOK ==
  /\ req \in [Handlers -> Request]
  /\ \A h \in Handlers : /\ req[h].pc # "idle" => req[h].job \in Jobs
                         /\ req[h].pc = "close" => req[h].conn \in Conns

LEMMA MovingOn ==
  ASSUME ReqOK, NEW h \in Handlers, req[h].pc # "idle",
         NEW label \in {"save", "check", "subscribe", "delete", "deleted"},
         Goto(h, label) \/ Reply(h)
  PROVE  ReqOK'
<1>1. CASE Goto(h, label)
  <2>1. req' = [g \in Handlers |-> IF g = h THEN [req[h] EXCEPT !.pc = label] ELSE req[g]]
    BY <1>1 DEF Goto, ReqOK
  <2>2. [req[h] EXCEPT !.pc = label] \in Request
    BY DEF ReqOK, Request
  <2>3. /\ [req[h] EXCEPT !.pc = label].pc = label
        /\ [req[h] EXCEPT !.pc = label].job = req[h].job
    BY DEF ReqOK, Request
  <2>4. QED
    BY <2>1, <2>2, <2>3 DEF ReqOK
<1>2. CASE Reply(h)
  BY <1>2 DEF Reply, IdleReq, ReqOK, Request
<1>3. QED
  BY <1>1, <1>2

\* The type invariant is inductive by itself.
LEMMA StepTypeOK == TypeOK /\ [Next]_vars => TypeOK'
<1> SUFFICES ASSUME TypeOK, [Next]_vars PROVE TypeOK'
  OBVIOUS
<1> USE ServiceConstants DEF TypeOK
<1>1. ASSUME Start PROVE TypeOK'
  BY <1>1 DEF Start, dbVars, runVars, subVars
<1>2. ASSUME NEW e \in Endpoints, SaveArgument(e) PROVE TypeOK'
  BY <1>2 DEF SaveArgument, runVars, subVars, RowState
<1>3. ASSUME ListStale PROVE TypeOK'
  BY <1>3 DEF ListStale, dbVars, runVars, subVars, LiveEndpoints
<1>4. ASSUME NEW e \in Endpoints, PurgeEndpoint(e) PROVE TypeOK'
  BY <1>4 DEF PurgeEndpoint, runVars, subVars, RowState
<1>5. ASSUME PurgeRows PROVE TypeOK'
  BY <1>5 DEF PurgeRows, runVars, subVars, RowState
<1>6. ASSUME PurgeFails PROVE TypeOK'
  BY <1>6 DEF PurgeFails, dbVars, runVars, subVars
<1>7. ASSUME Serve PROVE TypeOK'
  BY <1>7 DEF Serve, dbVars, startVars, runVars, subVars
<1>8. ASSUME Down PROVE TypeOK'
  BY <1>8 DEF Down, dbVars, FreeCon, IdleReq, Request
<1>9. ASSUME RunLoad PROVE TypeOK'
  BY <1>9 DEF RunLoad, dbVars, startVars, subVars
<1>10. ASSUME NEW j \in Jobs, RunNext(j) PROVE TypeOK'
  BY <1>10 DEF RunNext, dbVars, startVars, subVars
<1>11. ASSUME RunTest \/ RunCheck \/ RunDone PROVE TypeOK'
  BY <1>11 DEF RunTest, RunCheck, RunDone, dbVars, startVars, subVars
<1>12. ASSUME RunSubscribe PROVE TypeOK'
  BY <1>12 DEF RunSubscribe, Subscribe, dbVars, startVars
<1>13. ASSUME NEW h \in Handlers, NEW j \in Jobs, NEW e \in Endpoints, CreateRequest(h, j, e)
       PROVE TypeOK'
  BY <1>13 DEF CreateRequest, dbVars, startVars, runVars, subVars, Request
<1>14. ASSUME NEW h \in Handlers, CreateTest(h) \/ CreateCheck(h) PROVE TypeOK'
  <2>1. ReqOK'
    BY <1>14, MovingOn DEF CreateTest, CreateCheck, ReqOK
  <2>2. QED
    BY <1>14, <2>1 DEF CreateTest, CreateCheck, ReqOK, dbVars, startVars, runVars, subVars
<1>15. ASSUME NEW h \in Handlers, CreateSave(h) PROVE TypeOK'
  <2>1. ReqOK'
    BY <1>15, MovingOn DEF CreateSave, StoreOver, ReqOK
  <2>2. QED
    BY <1>15, <2>1 DEF CreateSave, StoreOver, ReqOK, startVars, runVars, subVars, RowState, LiveEndpoints
<1>16. ASSUME NEW h \in Handlers, CreateSubscribe(h) PROVE TypeOK'
  <2>1. ReqOK'
    BY <1>16, MovingOn DEF CreateSubscribe, ReqOK
  <2>2. /\ con' \in [Conns -> [st : {"free", "open", "closed"}, job : Jobs \cup {NoJob},
                               ptr : {"own", "loop"}]]
        /\ registry' \in [Jobs -> Conns \cup {NoConn}]
    <3>1. req[h].job \in Jobs
      BY <1>16 DEF CreateSubscribe
    <3>2. QED
      BY <1>16, <3>1 DEF CreateSubscribe, Subscribe
  <2>3. QED
    BY <1>16, <2>1, <2>2 DEF CreateSubscribe, ReqOK, dbVars, startVars, runVars
<1>17. ASSUME NEW h \in Handlers, NEW j \in Jobs, DeleteRequest(h, j) PROVE TypeOK'
  <2>1. PICK label \in {"close", "delete"}, c \in Conns \cup {NoConn} :
          /\ label = "close" => c \in Conns
          /\ req' = [req EXCEPT ![h] = [pc |-> label, job |-> j, ep |-> NoEndpoint, conn |-> c]]
    BY <1>17 DEF DeleteRequest
  <2>2. ReqOK'
    BY <2>1 DEF ReqOK, Request
  <2>3. QED
    BY <1>17, <2>2 DEF DeleteRequest, ReqOK, dbVars, startVars, runVars, subVars
<1>18. ASSUME NEW h \in Handlers, DeleteClose(h) PROVE TypeOK'
  <2>1. ReqOK'
    BY <1>18, MovingOn DEF DeleteClose, ReqOK
  <2>2. QED
    BY SMTT(40), <1>18, <2>1 DEF DeleteClose, ReqOK, dbVars, startVars, runVars
<1>19. ASSUME NEW h \in Handlers, DeleteRow(h) PROVE TypeOK'
  <2>1. ReqOK'
    BY <1>19, MovingOn DEF DeleteRow, ReqOK
  <2>2. QED
    BY <1>19, <2>1 DEF DeleteRow, Unregister, ReqOK, startVars, runVars, RowState
<1>20. ASSUME NEW e \in Endpoints, ConfigRequest(e) PROVE TypeOK'
  BY <1>20 DEF ConfigRequest, startVars, runVars, subVars, RowState
<1>21. ASSUME NEW a \in Conns, Receive(a) PROVE TypeOK'
  BY <1>21 DEF Receive, dbVars, startVars, runVars
<1>22. ASSUME NEW a \in Conns, Trigger(a) PROVE TypeOK'
  BY <1>22 DEF Trigger, Target, dbVars, startVars, runVars
<1>23. CASE UNCHANGED vars
  BY <1>23 DEF vars, dbVars, startVars, runVars, subVars
<1>24. QED
  BY <1>1, <1>2, <1>3, <1>4, <1>5, <1>6, <1>7, <1>8, <1>9, <1>10, <1>11, <1>12, <1>13, <1>14,
     <1>15, <1>16, <1>17, <1>18, <1>19, <1>20, <1>21, <1>22, <1>23
  DEF Next, StartStep, RunStep, RequestStep

-----------------------------------------------------------------------------
(* What the sub-actions do to requests and connections, field by field      *)

LEMMA GotoFields ==
  ASSUME TypeOK, NEW h \in Handlers, NEW label, Goto(h, label)
  PROVE  /\ req'[h].pc = label
         /\ req'[h].job = req[h].job
         /\ req'[h].conn = req[h].conn
         /\ \A g \in Handlers : g # h => req'[g] = req[g]
  BY DEF TypeOK, Goto, Request

LEMMA ReplyFields ==
  ASSUME TypeOK, NEW h \in Handlers, Reply(h)
  PROVE  /\ req'[h] = IdleReq
         /\ \A g \in Handlers : g # h => req'[g] = req[g]
  BY DEF TypeOK, Reply

LEMMA SubscribeFields ==
  ASSUME TypeOK, NEW a \in Conns, NEW j \in Jobs, NEW pointer, Subscribe(a, j, pointer)
  PROVE  /\ ~Used(a)
         /\ con'[a] = [st |-> "open", job |-> j, ptr |-> pointer]
         /\ \A b \in Conns : b # a => con'[b] = con[b]
         /\ registry'[j] = a
         /\ \A k \in Jobs : k # j => registry'[k] = registry[k]
  BY DEF TypeOK, Subscribe, Used

LEMMA CloseFields ==
  ASSUME TypeOK, NEW h \in Handlers, DeleteClose(h)
  PROVE  /\ req[h].conn \in Conns
         /\ \A b \in Conns : /\ con'[b].job = con[b].job
                             /\ con'[b].ptr = con[b].ptr
                             /\ Used(b)' <=> Used(b)
                             /\ Open(b)' => Open(b)
                             /\ b # req[h].conn => con'[b] = con[b]
         /\ \/ ~Open(req[h].conn) /\ con' = con /\ Reply(h)
            \/ Open(req[h].conn) /\ Goto(h, "delete")
  BY DEF TypeOK, DeleteClose, Used, Open

-----------------------------------------------------------------------------
(* The conjuncts of the inductive invariant, one lemma each                  *)

LEMMA StepQuiet == IInv /\ [Next]_vars => QuietUnlessServing'
<1> SUFFICES ASSUME IInv, [Next]_vars PROVE QuietUnlessServing'
  OBVIOUS
<1> USE ServiceConstants DEF IInv, QuietUnlessServing
<1>1. CASE Start
  BY <1>1 DEF Start, runVars, subVars, Used
<1>2. CASE \E e \in Endpoints : SaveArgument(e) \/ PurgeEndpoint(e)
  BY <1>2 DEF SaveArgument, PurgeEndpoint, runVars, subVars, Used
<1>3. CASE ListStale \/ PurgeRows \/ PurgeFails \/ Serve
  BY <1>3 DEF ListStale, PurgeRows, PurgeFails, Serve, startVars, runVars, subVars, Used
<1>4. CASE Down
  BY <1>4 DEF Down, TypeOK, FreeCon, IdleReq, Used
<1>5. CASE RunStep
  BY <1>5 DEF RunStep, RunLoad, RunNext, RunTest, RunCheck, RunSubscribe, RunDone, startVars
<1>6. ASSUME NEW h \in Handlers, NEW j \in Jobs,
             DeleteRequest(h, j) \/ \E e \in Endpoints : CreateRequest(h, j, e)
      PROVE  QuietUnlessServing'
  BY <1>6 DEF DeleteRequest, CreateRequest, startVars
<1>7. ASSUME NEW h \in Handlers, RequestStep(h) PROVE QuietUnlessServing'
  BY <1>7 DEF RequestStep, CreateTest, CreateSave, StoreOver, CreateCheck, CreateSubscribe, DeleteClose,
              DeleteRow, startVars
<1>8. CASE \E e \in Endpoints : ConfigRequest(e)
  BY <1>8 DEF ConfigRequest, startVars
<1>9. CASE \E a \in Conns : Receive(a) \/ Trigger(a)
  BY <1>9 DEF Receive, Trigger, startVars, runVars, Used
<1>10. CASE UNCHANGED vars
  BY <1>10 DEF vars, startVars, runVars, subVars, Used
<1>11. QED
  BY <1>1, <1>2, <1>3, <1>4, <1>5, <1>6, <1>7, <1>8, <1>9, <1>10 DEF Next, StartStep

LEMMA StepWorkHasRows == IInv /\ [Next]_vars => WorkHasRows'
<1> SUFFICES ASSUME IInv, [Next]_vars PROVE WorkHasRows'
  OBVIOUS
<1>t. TypeOK /\ TypeOK'
  BY StepTypeOK DEF IInv
<1> USE ServiceConstants, <1>t DEF IInv, WorkHasRows
<1>1. CASE UNCHANGED <<con, row, runQueue, loopSub, req>>
  BY <1>1 DEF Used
<1>2. CASE PurgeRows
  BY <1>2 DEF PurgeRows, runVars, subVars, Used, TypeOK
<1>3. CASE Down
  BY <1>3 DEF Down, FreeCon, IdleReq, Used, TypeOK
<1>4. CASE RunLoad
  BY <1>4 DEF RunLoad, Loadable, dbVars, subVars, Used
<1>5. ASSUME NEW j \in Jobs, RunNext(j) PROVE WorkHasRows'
  BY <1>5 DEF RunNext, dbVars, subVars, Used
<1>6. CASE RunSubscribe
  <2>1. CASE UNCHANGED con
    BY <2>1, <1>6 DEF RunSubscribe, dbVars, Used
  <2>2. ASSUME NEW a \in Conns, Subscribe(a, loopSub, "loop") PROVE WorkHasRows'
    BY <2>2, <1>6, SubscribeFields DEF RunSubscribe, TypeOK, dbVars, Used
  <2>3. QED
    BY <2>1, <2>2, <1>6 DEF RunSubscribe
<1>7. ASSUME NEW h \in Handlers, NEW j \in Jobs, NEW e \in Endpoints, CreateRequest(h, j, e)
      PROVE  WorkHasRows'
  BY <1>7 DEF CreateRequest, TypeOK, dbVars, runVars, subVars, Used
<1>8. ASSUME NEW h \in Handlers, CreateTest(h) \/ CreateCheck(h) PROVE WorkHasRows'
  BY <1>8, GotoFields, ReplyFields
  DEF CreateTest, CreateCheck, IdleReq, dbVars, runVars, subVars, Used
<1>9. ASSUME NEW h \in Handlers, CreateSave(h) PROVE WorkHasRows'
  <2>1. CASE Reply(h) /\ UNCHANGED row
    BY <2>1, <1>9, ReplyFields DEF CreateSave, StoreOver, IdleReq, runVars, subVars, Used
  <2>2. CASE Goto(h, "check") /\ row' = [row EXCEPT ![req[h].job] = "live"]
    <3>1. \A j \in Jobs : row[j] # "none" => row'[j] # "none"
      BY <2>2 DEF TypeOK
    <3>2. req[h].job \in Jobs /\ row'[req[h].job] = "live"
      BY <2>2, <1>9 DEF CreateSave, StoreOver, TypeOK
    <3>3. \A g \in Handlers : req[g].pc # "idle" => req[g].job \in Jobs
      BY DEF TypeOK
    <3>4. QED
      BY <3>1, <3>2, <3>3, <2>2, <1>9, GotoFields DEF CreateSave, StoreOver, TypeOK, runVars, subVars, Used
  <2>3. QED
    BY <2>1, <2>2, <1>9 DEF CreateSave, StoreOver
<1>10. ASSUME NEW h \in Handlers, CreateSubscribe(h) PROVE WorkHasRows'
  <2>0. /\ Reply(h) /\ req[h].job \in Jobs /\ row[req[h].job] # "none"
        /\ UNCHANGED <<row, runQueue, loopSub>>
    BY <1>10 DEF CreateSubscribe, TypeOK, dbVars, runVars
  <2>1. CASE UNCHANGED con
    BY <2>0, <2>1, ReplyFields DEF IdleReq, Used
  <2>2. ASSUME NEW a \in Conns, Subscribe(a, req[h].job, "own") PROVE WorkHasRows'
    <3>1. /\ con'[a] = [st |-> "open", job |-> req[h].job, ptr |-> "own"]
          /\ \A b \in Conns : b # a => con'[b] = con[b]
      BY <2>0, <2>2, SubscribeFields
    <3>2. \A g \in Handlers : req'[g].pc = "idle" \/ req'[g] = req[g]
      BY <2>0, ReplyFields DEF IdleReq
    <3>3. QED
      BY <2>0, <3>1, <3>2 DEF Used
  <2>3. QED
    BY <2>1, <2>2, <1>10 DEF CreateSubscribe
<1>11. ASSUME NEW h \in Handlers, NEW j \in Jobs, DeleteRequest(h, j) PROVE WorkHasRows'
  <2>1. row[j] # "none"
    BY <1>11 DEF DeleteRequest, Loadable, NoDeadEntries, TypeOK
  <2>2. QED
    BY <2>1, <1>11 DEF DeleteRequest, TypeOK, dbVars, runVars, subVars, Used
<1>12. ASSUME NEW h \in Handlers, DeleteClose(h) PROVE WorkHasRows'
  <2>1. req[h].job \in Jobs /\ row[req[h].job] # "none" /\ UNCHANGED <<row, runQueue, loopSub>>
    BY <1>12 DEF DeleteClose, TypeOK, dbVars, runVars
  <2>2. QED
    BY <2>1, <1>12, CloseFields, GotoFields, ReplyFields DEF IdleReq, Used
<1>13. ASSUME NEW h \in Handlers, DeleteRow(h) PROVE WorkHasRows'
  <2>1. \A j \in Jobs : row[j] # "none" => row'[j] # "none"
    BY <1>13 DEF DeleteRow, TypeOK
  <2>2. req[h].job \in Jobs /\ row[req[h].job] # "none" /\ UNCHANGED <<con, runQueue, loopSub>>
    BY <1>13 DEF DeleteRow, TypeOK, runVars
  <2>3. \A g \in Handlers : req[g].pc # "idle" => req[g].job \in Jobs
    BY DEF TypeOK
  <2>4. Reply(h) \/ Goto(h, "deleted")
    BY <1>13 DEF DeleteRow
  <2>5. runQueue \subseteq Jobs
    BY DEF TypeOK
  <2>6. QED
    BY <2>1, <2>2, <2>3, <2>4, <2>5, GotoFields, ReplyFields DEF IdleReq, Used
<1>14. QED
  BY <1>1, <1>2, <1>3, <1>4, <1>5, <1>6, <1>7, <1>8, <1>9, <1>10, <1>11, <1>12, <1>13
  DEF Next, StartStep, RunStep, RequestStep, vars, dbVars, startVars, runVars, subVars, Start,
      SaveArgument, ListStale, PurgeEndpoint, PurgeFails, Serve, RunTest, RunCheck, RunDone,
      ConfigRequest, Receive, Trigger

LEMMA StepWorkHasEndpoints == IInv /\ [Next]_vars => WorkHasEndpoints'
<1> SUFFICES ASSUME IInv, [Next]_vars PROVE WorkHasEndpoints'
  OBVIOUS
<1>t. TypeOK /\ TypeOK'
  BY StepTypeOK DEF IInv
<1> USE ServiceConstants, <1>t DEF IInv, WorkHasEndpoints
<1>1. CASE UNCHANGED <<row, rowEndpoint, endpoint, con, run, loopSub, req>>
  BY <1>1 DEF Used, LiveEndpoints, Subscribing
<1>2. CASE \E e \in Endpoints : SaveArgument(e) \/ ConfigRequest(e)
  <2>1. UNCHANGED <<row, rowEndpoint, con, run, loopSub, req>>
    BY <1>2 DEF SaveArgument, ConfigRequest, runVars, subVars
  <2>2. \A e \in LiveEndpoints : e \in LiveEndpoints'
    BY <1>2 DEF SaveArgument, ConfigRequest, LiveEndpoints, TypeOK
  <2>3. QED
    BY <2>1, <2>2 DEF Used, Subscribing
<1>3. ASSUME NEW e \in Endpoints, PurgeEndpoint(e) PROVE WorkHasEndpoints'
  <2>1. phase # "serving"
    BY <1>3 DEF PurgeEndpoint, QuietUnlessServing
  <2>2. QED
    BY <2>1, <1>3 DEF PurgeEndpoint, QuietUnlessServing, runVars, subVars, Used, Subscribing
<1>4. CASE PurgeRows
  BY <1>4 DEF PurgeRows, runVars, subVars, Used, Subscribing, LiveEndpoints, TypeOK
<1>5. CASE Down
  BY <1>5 DEF Down, dbVars, FreeCon, IdleReq, Used, Subscribing, TypeOK
<1>6. CASE RunLoad \/ RunTest \/ RunCheck \/ RunDone \/ \E j \in Jobs : RunNext(j)
  BY <1>6 DEF RunLoad, RunTest, RunCheck, RunDone, RunNext, dbVars, subVars, Used, Subscribing,
              LiveEndpoints
<1>7. CASE RunSubscribe
  <2>0. /\ loopSub \in Jobs /\ rowEndpoint[loopSub] \in LiveEndpoints /\ run' = "next"
        /\ UNCHANGED <<row, rowEndpoint, endpoint, loopSub, req>>
    BY <1>7 DEF RunSubscribe, dbVars, TypeOK
  <2>1. CASE UNCHANGED con
    BY <2>0, <2>1 DEF Used, Subscribing, LiveEndpoints
  <2>2. ASSUME NEW a \in Conns, Subscribe(a, loopSub, "loop") PROVE WorkHasEndpoints'
    <3>1. /\ con'[a] = [st |-> "open", job |-> loopSub, ptr |-> "loop"]
          /\ \A b \in Conns : b # a => con'[b] = con[b]
      BY <2>0, <2>2, SubscribeFields
    <3>2. QED
      BY <2>0, <3>1 DEF Used, Subscribing, LiveEndpoints
  <2>3. QED
    BY <2>1, <2>2, <1>7 DEF RunSubscribe
<1>8. ASSUME NEW h \in Handlers, NEW j \in Jobs,
             DeleteRequest(h, j) \/ \E e \in Endpoints : CreateRequest(h, j, e)
      PROVE  WorkHasEndpoints'
  BY SMTT(40), <1>8 DEF DeleteRequest, CreateRequest, TypeOK, dbVars, runVars, subVars, Used, Subscribing,
              LiveEndpoints
<1>9. ASSUME NEW h \in Handlers, CreateTest(h) \/ CreateCheck(h) PROVE WorkHasEndpoints'
  <2>1. /\ UNCHANGED <<row, rowEndpoint, endpoint, con, run, loopSub>>
        /\ Reply(h) \/ Goto(h, "save") \/ (req[h].pc = "check" /\ Goto(h, "subscribe"))
    BY <1>9 DEF CreateTest, CreateCheck, dbVars, runVars, subVars
  <2>2. QED
    BY <2>1, GotoFields, ReplyFields DEF IdleReq, Used, Subscribing, LiveEndpoints
<1>10. ASSUME NEW h \in Handlers, CreateSave(h) PROVE WorkHasEndpoints'
  <2>0. req[h].job \in Jobs /\ UNCHANGED <<endpoint, con, run, loopSub>>
    BY <1>10 DEF CreateSave, StoreOver, TypeOK, runVars, subVars
  <2>1. CASE Reply(h) /\ UNCHANGED <<row, rowEndpoint>>
    BY <2>0, <2>1, ReplyFields DEF IdleReq, Used, Subscribing, LiveEndpoints
  <2>2. CASE /\ row[req[h].job] = "none" /\ req[h].ep \in LiveEndpoints /\ Goto(h, "check")
             /\ row' = [row EXCEPT ![req[h].job] = "live"]
             /\ rowEndpoint' = [rowEndpoint EXCEPT ![req[h].job] = req[h].ep]
    <3>1. /\ rowEndpoint'[req[h].job] \in LiveEndpoints
          /\ \A j \in Jobs : j # req[h].job => row'[j] = row[j] /\ rowEndpoint'[j] = rowEndpoint[j]
      BY <2>0, <2>2 DEF TypeOK
    <3>2. \A a \in Conns : Used(a) => con[a].job \in Jobs /\ con[a].job # req[h].job
      BY <2>2 DEF WorkHasRows
    <3>3. run \in {"check", "subscribe"} => loopSub \in Jobs /\ loopSub # req[h].job
      BY <2>2 DEF WorkHasRows, TypeOK
    <3>4. \A g \in Handlers : Subscribing(g) => req[g].job \in Jobs /\ req[g].job # req[h].job
      BY <2>2 DEF WorkHasRows, TypeOK, Subscribing
    <3>5. LiveEndpoints' = LiveEndpoints /\ LiveEndpoints \subseteq Endpoints
      BY <2>0 DEF LiveEndpoints
    <3>6. \A g \in Handlers : Subscribing(g)' => Subscribing(g) \/ g = h
      BY <2>2, GotoFields DEF Subscribing
    <3>7. \A g \in Handlers : req'[g].job = req[g].job
      BY <2>2, GotoFields
    <3>8. QED
      BY <2>0, <3>1, <3>2, <3>3, <3>4, <3>5, <3>6, <3>7 DEF Used
  <2>3. QED
    BY <2>1, <2>2, <1>10 DEF CreateSave, StoreOver
<1>11. ASSUME NEW h \in Handlers, CreateSubscribe(h) PROVE WorkHasEndpoints'
  <2>0. /\ req[h].job \in Jobs /\ rowEndpoint[req[h].job] \in LiveEndpoints
        /\ UNCHANGED <<row, rowEndpoint, endpoint, run, loopSub>>
    BY <1>11 DEF CreateSubscribe, TypeOK, Subscribing, dbVars, runVars
  <2>1. \A g \in Handlers : req'[g].pc = "idle" \/ req'[g] = req[g]
    BY <1>11, ReplyFields DEF CreateSubscribe, IdleReq
  <2>2. CASE UNCHANGED con
    BY <2>0, <2>1, <2>2 DEF Used, Subscribing, LiveEndpoints
  <2>3. ASSUME NEW a \in Conns, Subscribe(a, req[h].job, "own") PROVE WorkHasEndpoints'
    <3>1. /\ con'[a] = [st |-> "open", job |-> req[h].job, ptr |-> "own"]
          /\ \A b \in Conns : b # a => con'[b] = con[b]
      BY <2>0, <2>3, SubscribeFields
    <3>2. QED
      BY <2>0, <2>1, <3>1 DEF Used, Subscribing, LiveEndpoints
  <2>4. QED
    BY <2>2, <2>3, <1>11 DEF CreateSubscribe
<1>12. ASSUME NEW h \in Handlers, DeleteClose(h) PROVE WorkHasEndpoints'
  <2>1. UNCHANGED <<row, rowEndpoint, endpoint, run, loopSub>>
    BY <1>12 DEF DeleteClose, dbVars, runVars
  <2>2. QED
    BY <2>1, <1>12, CloseFields, GotoFields, ReplyFields
    DEF IdleReq, Used, Subscribing, LiveEndpoints
<1>13. ASSUME NEW h \in Handlers, DeleteRow(h) PROVE WorkHasEndpoints'
  <2>1. /\ UNCHANGED <<rowEndpoint, endpoint, con, run, loopSub>>
        /\ Reply(h) \/ Goto(h, "deleted")
    BY <1>13 DEF DeleteRow, runVars
  <2>2. \A j \in Jobs : row'[j] # "none" => row[j] # "none"
    <3>1. CASE UNCHANGED row
      BY <3>1
    <3>2. CASE row' = [row EXCEPT ![Doomed(h)] = "deleted"]
      <4>1. row[Doomed(h)] # "none"
        BY <1>13 DEF DeleteRow, Doomed, Target, WorkHasRows, RequestsMatch, TypeOK, Request
      <4>2. QED
        BY <3>2, <4>1 DEF TypeOK
    <3>3. QED
      BY <3>1, <3>2, <1>13 DEF DeleteRow
  <2>3. QED
    BY <2>1, <2>2, GotoFields, ReplyFields DEF IdleReq, Used, Subscribing, LiveEndpoints
<1>14. QED
  BY <1>1, <1>2, <1>3, <1>4, <1>5, <1>6, <1>7, <1>8, <1>9, <1>10, <1>11, <1>12, <1>13
  DEF Next, StartStep, RunStep, RequestStep, vars, dbVars, startVars, runVars, subVars, Start,
      ListStale, PurgeFails, Serve, Receive, Trigger

LEMMA StepRequestsMatch == IInv /\ [Next]_vars => RequestsMatch'
<1> SUFFICES ASSUME IInv, [Next]_vars PROVE RequestsMatch'
  OBVIOUS
<1>t. TypeOK /\ TypeOK'
  BY StepTypeOK DEF IInv
<1> USE ServiceConstants, <1>t DEF IInv, RequestsMatch
<1>1. CASE UNCHANGED <<con, req>>
  BY <1>1 DEF Used
<1>2. CASE Down
  BY <1>2 DEF Down, IdleReq, TypeOK
<1>3. CASE RunSubscribe
  <2>1. CASE UNCHANGED con
    BY <2>1, <1>3 DEF RunSubscribe, Used
  <2>2. ASSUME NEW a \in Conns, Subscribe(a, loopSub, "loop") PROVE RequestsMatch'
    <3>1. loopSub \in Jobs /\ UNCHANGED req
      BY <1>3 DEF RunSubscribe, TypeOK
    <3>2. QED
      BY ZenonT(60), <2>2, <3>1, SubscribeFields DEF Used
  <2>3. QED
    BY <2>1, <2>2, <1>3 DEF RunSubscribe
<1>4. ASSUME NEW h \in Handlers, NEW j \in Jobs,
             DeleteRequest(h, j) \/ \E e \in Endpoints : CreateRequest(h, j, e)
      PROVE  RequestsMatch'
  BY <1>4 DEF DeleteRequest, CreateRequest, NoDeadEntries, TypeOK, subVars, Used
<1>5. ASSUME NEW h \in Handlers, UNCHANGED con, Reply(h) \/ \E label : Goto(h, label)
      PROVE  RequestsMatch'
  BY <1>5, GotoFields, ReplyFields DEF IdleReq, Used
<1>6. ASSUME NEW h \in Handlers, CreateSubscribe(h) PROVE RequestsMatch'
  <2>1. Reply(h) /\ req[h].job \in Jobs
    BY <1>6 DEF CreateSubscribe, TypeOK
  <2>2. ASSUME NEW a \in Conns, Subscribe(a, req[h].job, "own") PROVE RequestsMatch'
    <3>1. /\ ~Used(a)
          /\ \A b \in Conns : b # a => con'[b] = con[b]
      BY <2>1, <2>2, SubscribeFields
    <3>2. \A g \in Handlers : req'[g].conn = NoConn \/ req'[g] = req[g]
      BY <2>1, ReplyFields DEF IdleReq
    <3>3. QED
      BY <3>1, <3>2 DEF Used
  <2>3. QED
    BY <2>1, <2>2, <1>5, <1>6 DEF CreateSubscribe
<1>7. ASSUME NEW h \in Handlers, DeleteClose(h) PROVE RequestsMatch'
  BY <1>7, CloseFields, GotoFields, ReplyFields DEF IdleReq
<1>8. QED
  BY <1>1, <1>2, <1>3, <1>4, <1>5, <1>6, <1>7
  DEF Next, StartStep, RunStep, RequestStep, vars, dbVars, startVars, runVars, subVars, Start,
      SaveArgument, ListStale, PurgeEndpoint, PurgeRows, PurgeFails, Serve, RunLoad, RunNext,
      RunTest, RunCheck, RunDone, CreateTest, CreateSave, StoreOver, CreateCheck, DeleteRow, ConfigRequest,
      Receive, Trigger

LEMMA StepEventsHaveSource == IInv /\ [Next]_vars => EventsHaveSource'
<1> SUFFICES ASSUME IInv, [Next]_vars PROVE EventsHaveSource'
  OBVIOUS
<1>t. TypeOK /\ TypeOK'
  BY StepTypeOK DEF IInv
<1> USE ServiceConstants, <1>t DEF IInv, EventsHaveSource
<1>1. CASE UNCHANGED <<con, pend>>
  BY <1>1 DEF Used
<1>2. CASE Down
  BY <1>2 DEF Down
<1>3. ASSUME NEW a \in Conns, NEW j \in Jobs, NEW pointer, Subscribe(a, j, pointer),
             UNCHANGED pend
      PROVE  EventsHaveSource'
  BY <1>3, SubscribeFields DEF Used
<1>4. CASE RunSubscribe
  BY <1>1, <1>3, <1>4 DEF RunSubscribe, TypeOK
<1>5. ASSUME NEW h \in Handlers, CreateSubscribe(h) PROVE EventsHaveSource'
  BY <1>1, <1>3, <1>5 DEF CreateSubscribe, TypeOK
<1>6. ASSUME NEW h \in Handlers, DeleteClose(h) PROVE EventsHaveSource'
  <2>1. UNCHANGED pend
    BY <1>6 DEF DeleteClose
  <2>2. QED
    BY <1>6, <2>1, CloseFields
<1>7. ASSUME NEW a \in Conns, Receive(a) \/ Trigger(a) PROVE EventsHaveSource'
  BY <1>7 DEF Receive, Trigger, Open, Used, TypeOK
<1>8. QED
  BY <1>1, <1>2, <1>4, <1>5, <1>6, <1>7
  DEF Next, StartStep, RunStep, RequestStep, vars, dbVars, startVars, runVars, subVars, Start,
      SaveArgument, ListStale, PurgeEndpoint, PurgeRows, PurgeFails, Serve, RunLoad, RunNext,
      RunTest, RunCheck, RunDone, CreateRequest, CreateTest, CreateSave, StoreOver, CreateCheck,
      DeleteRequest, DeleteRow, ConfigRequest

LEMMA StepSourcesAreSingle == IInv /\ [Next]_vars => SourcesAreSingle'
<1> SUFFICES ASSUME IInv, [Next]_vars PROVE SourcesAreSingle'
  OBVIOUS
<1>t. TypeOK /\ TypeOK'
  BY StepTypeOK DEF IInv
<1> USE ServiceConstants, <1>t DEF IInv, SourcesAreSingle
<1>1. CASE UNCHANGED <<con, runQueue, run, loopSub, req>>
  BY <1>1 DEF Used, Subscribing
<1>2. CASE Down
  BY <1>2 DEF Down, FreeCon, IdleReq, Used, Subscribing, TypeOK
<1>3. CASE RunLoad \/ RunTest \/ RunCheck \/ RunDone \/ \E j \in Jobs : RunNext(j)
  <2>1. UNCHANGED <<con, req>>
    BY <1>3 DEF RunLoad, RunTest, RunCheck, RunDone, RunNext, subVars
  <2>2. \A a \in Conns : Used(a) /\ con[a].ptr = "loop" =>
          /\ con[a].job \notin runQueue' /\ run' # "load"
          /\ run' \in {"test", "check", "subscribe"} => con[a].job # loopSub'
    BY <1>3 DEF RunLoad, RunTest, RunCheck, RunDone, RunNext
  <2>3. run' \in {"test", "check", "subscribe"} => loopSub' \notin runQueue'
    BY <1>3 DEF RunLoad, RunTest, RunCheck, RunDone, RunNext
  <2>4. QED
    BY <2>1, <2>2, <2>3 DEF Used, Subscribing
<1>4. CASE RunSubscribe
  <2>0. /\ run = "subscribe" /\ run' = "next" /\ loopSub \in Jobs
        /\ UNCHANGED <<runQueue, loopSub, req>>
    BY <1>4 DEF RunSubscribe, TypeOK
  <2>1. CASE UNCHANGED con
    BY <2>0, <2>1 DEF Used, Subscribing
  <2>2. ASSUME NEW a \in Conns, Subscribe(a, loopSub, "loop") PROVE SourcesAreSingle'
    <3>1. /\ ~Used(a)
          /\ con'[a] = [st |-> "open", job |-> loopSub, ptr |-> "loop"]
          /\ \A b \in Conns : b # a => con'[b] = con[b]
      BY <2>0, <2>2, SubscribeFields
    <3>2. \A b \in Conns : Used(b) /\ con[b].ptr = "loop" => con[b].job # loopSub
      BY <2>0
    <3>3. QED
      BY <2>0, <3>1, <3>2 DEF Used, Subscribing
  <2>3. QED
    BY <2>1, <2>2, <1>4 DEF RunSubscribe
\* A request that moves on without starting to subscribe.
<1>5. ASSUME NEW h \in Handlers, UNCHANGED <<con, runQueue, run, loopSub>>,
             \A g \in Handlers : g # h => req'[g] = req[g],
             Subscribing(h)' => Subscribing(h) /\ req'[h].job = req[h].job
      PROVE  SourcesAreSingle'
  BY <1>5 DEF Used, Subscribing
<1>6. ASSUME NEW h \in Handlers, NEW j \in Jobs,
             DeleteRequest(h, j) \/ \E e \in Endpoints : CreateRequest(h, j, e)
      PROVE  SourcesAreSingle'
  BY <1>5, <1>6 DEF DeleteRequest, CreateRequest, TypeOK, runVars, subVars, Subscribing
<1>7. ASSUME NEW h \in Handlers, CreateTest(h) \/ CreateCheck(h) \/ DeleteRow(h)
      PROVE  SourcesAreSingle'
  <2>1. /\ UNCHANGED <<con, runQueue, run, loopSub>>
        /\ \/ Reply(h) \/ Goto(h, "save") \/ Goto(h, "deleted")
           \/ req[h].pc = "check" /\ Goto(h, "subscribe")
    BY <1>7 DEF CreateTest, CreateCheck, DeleteRow, runVars, subVars
  <2>2. QED
    BY <2>1, <1>5, GotoFields, ReplyFields DEF IdleReq, Subscribing
\* The row of the job did not exist, so nobody subscribes it yet.
<1>8. ASSUME NEW h \in Handlers, CreateSave(h) PROVE SourcesAreSingle'
  <2>0. UNCHANGED <<con, runQueue, run, loopSub>>
    BY <1>8 DEF CreateSave, StoreOver, runVars, subVars
  <2>1. CASE Reply(h)
    BY <2>0, <2>1, <1>5, ReplyFields DEF IdleReq, Subscribing
  <2>2. CASE row[req[h].job] = "none" /\ Goto(h, "check")
    <3>1. \A a \in Conns : Used(a) => con[a].job # req[h].job
      BY <2>2 DEF WorkHasRows
    <3>2. \A g \in Handlers : Subscribing(g) => req[g].job # req[h].job
      BY <2>2 DEF WorkHasRows, Subscribing
    <3>3. \A g \in Handlers : Subscribing(g)' => Subscribing(g) \/ g = h
      BY <2>2, GotoFields DEF Subscribing
    <3>4. \A g \in Handlers : req'[g].job = req[g].job
      BY <2>2, GotoFields
    <3>5. QED
      BY <2>0, <3>1, <3>2, <3>3, <3>4 DEF Used
  <2>3. QED
    BY <2>1, <2>2, <1>8 DEF CreateSave, StoreOver
<1>9. ASSUME NEW h \in Handlers, CreateSubscribe(h) PROVE SourcesAreSingle'
  <2>0. Subscribing(h) /\ Reply(h) /\ req[h].job \in Jobs /\ UNCHANGED <<runQueue, run, loopSub>>
    BY <1>9 DEF CreateSubscribe, Subscribing, TypeOK, runVars
  <2>1. CASE UNCHANGED con
    BY <2>0, <2>1, <1>5, ReplyFields DEF IdleReq, Subscribing
  <2>2. ASSUME NEW a \in Conns, Subscribe(a, req[h].job, "own") PROVE SourcesAreSingle'
    <3>1. /\ ~Used(a)
          /\ con'[a] = [st |-> "open", job |-> req[h].job, ptr |-> "own"]
          /\ \A b \in Conns : b # a => con'[b] = con[b]
      BY <2>0, <2>2, SubscribeFields
    <3>2. \A g \in Handlers : Subscribing(g)' => Subscribing(g) /\ g # h /\ req'[g] = req[g]
      BY <2>0, ReplyFields DEF IdleReq, Subscribing
    <3>3. \A b \in Conns : Used(b) /\ con[b].ptr = "own" => con[b].job # req[h].job
      BY <2>0
    <3>4. \A g \in Handlers : Subscribing(g) /\ g # h => req[g].job # req[h].job
      BY <2>0
    <3>5. QED
      BY <2>0, <3>1, <3>2, <3>3, <3>4 DEF Used
  <2>3. QED
    BY <2>1, <2>2, <1>9 DEF CreateSubscribe
<1>10. ASSUME NEW h \in Handlers, DeleteClose(h) PROVE SourcesAreSingle'
  <2>1. UNCHANGED <<runQueue, run, loopSub>> /\ ~Subscribing(h)'
    BY <1>10, CloseFields, GotoFields, ReplyFields DEF DeleteClose, runVars, IdleReq, Subscribing
  <2>2. \A g \in Handlers : Subscribing(g)' => Subscribing(g) /\ g # h /\ req'[g] = req[g]
    BY <2>1, <1>10, CloseFields, GotoFields, ReplyFields DEF Subscribing
  <2>3. \A b \in Conns : con'[b].job = con[b].job /\ con'[b].ptr = con[b].ptr
                         /\ (Used(b)' <=> Used(b))
    BY <1>10, CloseFields
  <2>4. QED
    BY <2>1, <2>2, <2>3
<1>11. QED
  BY <1>1, <1>2, <1>3, <1>4, <1>6, <1>7, <1>8, <1>9, <1>10
  DEF Next, StartStep, RunStep, RequestStep, vars, dbVars, startVars, runVars, subVars, Start,
      SaveArgument, ListStale, PurgeEndpoint, PurgeRows, PurgeFails, Serve, ConfigRequest,
      Receive, Trigger

LEMMA StepNoDeadEntries == IInv /\ [Next]_vars => NoDeadEntries'
<1> SUFFICES ASSUME IInv, [Next]_vars PROVE NoDeadEntries'
  OBVIOUS
<1>t. TypeOK /\ TypeOK'
  BY StepTypeOK DEF IInv
<1> USE ServiceConstants, <1>t DEF IInv, NoDeadEntries
<1>r. registry \in [Jobs -> Conns \cup {NoConn}]
  BY DEF TypeOK
<1>1. CASE UNCHANGED <<registry, con, req>>
  BY <1>1 DEF Used, Open
<1>2. CASE Down
  BY <1>2 DEF Down
\* Requests that are not at the database come and go.
<1>3. ASSUME NEW h \in Handlers, UNCHANGED <<registry, con>>, req[h].pc # "delete",
             \A g \in Handlers : g # h => req'[g] = req[g]
      PROVE  NoDeadEntries'
  BY <1>3 DEF Used, Open
\* A subscription is added, by a goroutine that is not at the database either.
<1>4. ASSUME NEW a \in Conns, NEW j \in Jobs, NEW pointer, Subscribe(a, j, pointer),
             \A g \in Handlers : req[g].pc = "delete" => req'[g] = req[g]
      PROVE  NoDeadEntries'
  <2>1. /\ ~Used(a)
        /\ con'[a] = [st |-> "open", job |-> j, ptr |-> pointer]
        /\ \A b \in Conns : b # a => con'[b] = con[b]
        /\ registry'[j] = a
        /\ \A k \in Jobs : k # j => registry'[k] = registry[k]
    BY <1>4, SubscribeFields
  <2>2. \A k \in Jobs : registry[k] # NoConn => registry[k] \in Conns /\ registry[k] # a
    BY <1>r, <2>1
  <2>3. QED
    BY <1>4, <2>1, <2>2 DEF Used, Open
<1>5. CASE RunSubscribe
  BY <1>1, <1>4, <1>5 DEF RunSubscribe, TypeOK
<1>6. ASSUME NEW h \in Handlers, NEW j \in Jobs,
             DeleteRequest(h, j) \/ \E e \in Endpoints : CreateRequest(h, j, e)
      PROVE  NoDeadEntries'
  <2>1. UNCHANGED <<registry, con>> /\ req[h].pc # "delete"
    BY <1>6 DEF DeleteRequest, CreateRequest, Replied, subVars
  <2>2. \A g \in Handlers : g # h => req'[g] = req[g]
    BY <1>6 DEF DeleteRequest, CreateRequest, TypeOK
  <2>3. QED
    BY <2>1, <2>2, <1>3
<1>7. ASSUME NEW h \in Handlers, CreateTest(h) \/ CreateSave(h) \/ CreateCheck(h)
      PROVE  NoDeadEntries'
  <2>1. /\ UNCHANGED <<registry, con>> /\ req[h].pc # "delete"
        /\ Reply(h) \/ \E label : Goto(h, label)
    BY <1>7 DEF CreateTest, CreateSave, StoreOver, CreateCheck, subVars
  <2>2. QED
    BY <2>1, <1>3, GotoFields, ReplyFields
<1>8. ASSUME NEW h \in Handlers, CreateSubscribe(h) PROVE NoDeadEntries'
  <2>1. req[h].pc = "subscribe" /\ Reply(h) /\ req[h].job \in Jobs
    BY <1>8 DEF CreateSubscribe, TypeOK
  <2>2. \A g \in Handlers : g # h => req'[g] = req[g]
    BY <2>1, ReplyFields
  <2>3. CASE UNCHANGED <<con, registry>>
    BY <2>1, <2>2, <2>3, <1>3
  <2>4. ASSUME NEW a \in Conns, Subscribe(a, req[h].job, "own") PROVE NoDeadEntries'
    BY <2>1, <2>2, <2>4, <1>4
  <2>5. QED
    BY <2>3, <2>4, <1>8 DEF CreateSubscribe
\* The connection that is closed belongs to the job of the request, which is
\* from now on the one at the database.
<1>9. ASSUME NEW h \in Handlers, DeleteClose(h) PROVE NoDeadEntries'
  <2>1. req[h].pc = "close" /\ UNCHANGED registry
    BY <1>9 DEF DeleteClose
  <2>2. CASE con' = con /\ Reply(h)
    BY <2>1, <2>2, <1>3, ReplyFields
  <2>3. CASE Open(req[h].conn) /\ Goto(h, "delete")
    <3>1. con[req[h].conn].job = req[h].job
      BY <1>9, CloseFields DEF RequestsMatch
    <3>2. /\ req'[h].pc = "delete" /\ req'[h].job = req[h].job /\ req'[h].conn = req[h].conn
          /\ \A g \in Handlers : g # h => req'[g] = req[g]
      BY <2>3, GotoFields
    <3>3. SUFFICES ASSUME NEW j \in Jobs, registry[j] # NoConn
                   PROVE  /\ Used(registry[j])'
                          /\ con'[registry[j]].job = j
                          /\ Open(registry[j])' \/
                               \E g \in Handlers : /\ req'[g].pc = "delete"
                                                   /\ req'[g].job = j
                                                   /\ req'[g].conn = registry[j]
      BY <2>1 DEF Used, Open
    <3>4. registry[j] \in Conns
      BY <1>r, <3>3
    <3>5. Used(registry[j])' /\ con'[registry[j]].job = j
      BY <2>1, <3>3, <3>4, <1>9, CloseFields DEF Used
    <3>6. CASE registry[j] = req[h].conn
      BY <3>1, <3>2, <3>3, <3>5, <3>6
    <3>7. CASE registry[j] # req[h].conn
      <4>1. con'[registry[j]] = con[registry[j]]
        BY <3>4, <3>7, <1>9, CloseFields
      <4>2. QED
        BY <4>1, <2>1, <3>2, <3>3, <3>5 DEF Open
    <3>8. QED
      BY <3>6, <3>7
  <2>4. QED
    BY <2>2, <2>3, <1>9, CloseFields
\* The request leaves the database together with the entry it found.
<1>10. ASSUME NEW h \in Handlers, DeleteRow(h) PROVE NoDeadEntries'
  <2>1. UNCHANGED con /\ \A g \in Handlers : g # h => req'[g] = req[g]
    BY <1>10, GotoFields, ReplyFields DEF DeleteRow
  <2>2. \A j \in Jobs : registry'[j] # NoConn =>
          /\ registry'[j] = registry[j]
          /\ req[h].conn = NoConn \/ j # req[h].job
    BY <1>10, <1>r DEF DeleteRow, Unregister
  <2>3. QED
    BY <2>1, <2>2 DEF Used, Open
<1>11. QED
  BY <1>1, <1>2, <1>5, <1>6, <1>7, <1>8, <1>9, <1>10
  DEF Next, StartStep, RunStep, RequestStep, vars, dbVars, startVars, runVars, subVars, Start,
      SaveArgument, ListStale, PurgeEndpoint, PurgeRows, PurgeFails, Serve, RunLoad, RunNext,
      RunTest, RunCheck, RunDone, ConfigRequest, Receive, Trigger

LEMMA StepAckedDelete == IInv /\ [Next]_vars => AckedDeleteIsDurable'
<1> SUFFICES ASSUME IInv, [Next]_vars PROVE AckedDeleteIsDurable'
  OBVIOUS
<1>t. TypeOK /\ TypeOK'
  BY StepTypeOK DEF IInv
<1> USE ServiceConstants, <1>t DEF IInv, AckedDeleteIsDurable
<1>j. \A h \in Handlers : req[h].pc # "idle" => req[h].job \in Jobs
  BY DEF TypeOK
\* Rows stay deleted and the connections of requests keep their pointers.
<1>1. ASSUME \A j \in Jobs : row[j] = "deleted" => row'[j] = "deleted",
             \A a \in Conns : Used(a) => con'[a].ptr = con[a].ptr,
             \A h \in Handlers : req'[h].pc = "deleted" => req'[h] = req[h]
      PROVE  AckedDeleteIsDurable'
  BY <1>1, <1>j DEF RequestsMatch
<1>2. CASE UNCHANGED <<row, con, req>>
  BY <1>2
<1>3. CASE PurgeRows
  BY <1>1, <1>3 DEF PurgeRows, subVars
<1>4. CASE Down
  BY <1>4 DEF Down, IdleReq
<1>5. ASSUME NEW a \in Conns, NEW j \in Jobs, NEW pointer, Subscribe(a, j, pointer)
      PROVE  \A b \in Conns : Used(b) => con'[b].ptr = con[b].ptr
  BY <1>5, SubscribeFields
<1>6. CASE RunSubscribe
  BY <1>1, <1>5, <1>6 DEF RunSubscribe, dbVars, TypeOK
<1>7. ASSUME NEW h \in Handlers, NEW j \in Jobs,
             DeleteRequest(h, j) \/ \E e \in Endpoints : CreateRequest(h, j, e)
      PROVE  AckedDeleteIsDurable'
  BY <1>1, <1>7 DEF DeleteRequest, CreateRequest, TypeOK, dbVars, subVars
<1>8. ASSUME NEW h \in Handlers, RequestStep(h), ~DeleteRow(h) PROVE AckedDeleteIsDurable'
  <2>1. \A j \in Jobs : row[j] = "deleted" => row'[j] = "deleted"
    BY <1>8 DEF RequestStep, CreateTest, CreateSave, StoreOver, CreateCheck, CreateSubscribe, DeleteClose,
                dbVars, TypeOK
  <2>2. Reply(h) \/ \E label \in {"save", "check", "subscribe", "delete"} : Goto(h, label)
    BY <1>8 DEF RequestStep, CreateTest, CreateSave, StoreOver, CreateCheck, CreateSubscribe, DeleteClose
  <2>3. \A g \in Handlers : req'[g].pc = "deleted" => req'[g] = req[g]
    BY <2>2, GotoFields, ReplyFields DEF IdleReq
  <2>4. \A b \in Conns : Used(b) => con'[b].ptr = con[b].ptr
    <3>1. CASE UNCHANGED con
      BY <3>1
    <3>2. CASE DeleteClose(h)
      BY <3>2, CloseFields
    <3>3. CASE CreateSubscribe(h)
      BY <3>3, <1>5, <1>j DEF CreateSubscribe
    <3>4. QED
      BY <3>1, <3>2, <3>3, <1>8
      DEF RequestStep, CreateTest, CreateSave, StoreOver, CreateCheck, subVars
  <2>5. QED
    BY <2>1, <2>3, <2>4, <1>1
<1>9. ASSUME NEW h \in Handlers, DeleteRow(h) PROVE AckedDeleteIsDurable'
  <2>1. UNCHANGED con /\ req[h].job \in Jobs
    BY <1>9, <1>j DEF DeleteRow
  <2>2. CASE Reply(h) /\ UNCHANGED row
    BY <2>1, <2>2, <1>1, ReplyFields DEF IdleReq
  <2>3. CASE row' = [row EXCEPT ![Doomed(h)] = "deleted"] /\ Goto(h, "deleted")
    <3>1. \A j \in Jobs : row[j] = "deleted" => row'[j] = "deleted"
      BY <2>3 DEF TypeOK
    <3>2. \A g \in Handlers : g # h => req'[g] = req[g]
      BY <2>3, GotoFields
    <3>3. req'[h].job = req[h].job /\ req'[h].conn = req[h].conn
      BY <2>3, GotoFields
    <3>4. \/ Doomed(h) = req[h].job
          \/ req[h].conn \in Conns /\ con[req[h].conn].ptr = "loop"
      <4>1. req[h].conn \in Conns \cup {NoConn}
        BY DEF TypeOK, Request
      <4>2. QED
        BY <4>1 DEF Doomed, Target, RequestsMatch
    <3>5. \/ row'[req[h].job] = "deleted"
          \/ req[h].conn \in Conns /\ con[req[h].conn].ptr = "loop"
      <4>1. Doomed(h) = req[h].job => row'[req[h].job] = "deleted"
        BY <2>1, <2>3 DEF TypeOK
      <4>2. QED
        BY <3>4, <4>1
    <3>6. ASSUME NEW g \in Handlers, g # h, req'[g].pc = "deleted"
          PROVE  \/ row'[req'[g].job] = "deleted"
                 \/ req'[g].conn \in Conns /\ con[req'[g].conn].ptr = "loop"
      BY <3>1, <3>2, <3>6, <1>j
    <3>7. QED
      BY <2>1, <3>3, <3>5, <3>6
  <2>4. QED
    BY <2>2, <2>3, <1>9 DEF DeleteRow
<1>10. QED
  BY <1>2, <1>3, <1>4, <1>6, <1>7, <1>8, <1>9
  DEF Next, StartStep, RunStep, vars, dbVars, startVars, runVars, subVars, Start,
      SaveArgument, ListStale, PurgeEndpoint, PurgeFails, Serve, RunLoad, RunNext,
      RunTest, RunCheck, RunDone, ConfigRequest, Receive, Trigger

-----------------------------------------------------------------------------
(* The theorems                                                            *)

\* The inductive invariant of the service holds in every reachable state.
THEOREM Invariance == Spec => []IInv
<1>1. IInv /\ [Next]_vars => IInv'
  BY StepTypeOK, StepQuiet, StepWorkHasRows, StepWorkHasEndpoints, StepSourcesAreSingle,
     StepRequestsMatch, StepEventsHaveSource, StepNoDeadEntries, StepAckedDelete
  DEF IInv
<1>2. QED
  BY <1>1, InitIInv, PTL DEF Spec

\* Type correctness of Service, its requests and its database.
THEOREM TypeCorrect == Spec => []TypeOK
<1>1. IInv => TypeOK
  BY DEF IInv
<1>2. QED
  BY <1>1, Invariance, PTL

\* Every subscription the process opens has a row in the database.
THEOREM RowBehind == Spec => []RowBehindEverySubscription
<1>1. IInv => RowBehindEverySubscription
  BY DEF IInv, WorkHasRows, RowBehindEverySubscription
<1>2. QED
  BY <1>1, Invariance, PTL

\* No subscription watches an endpoint withdrawn from the configuration.
THEOREM EndpointLive == Spec => []ActiveEndpointIsLive
<1>1. IInv => ActiveEndpointIsLive
  BY DEF IInv, WorkHasEndpoints, ActiveEndpointIsLive
<1>2. QED
  BY <1>1, Invariance, PTL

\* Two open subscriptions of a job never come from the same source.
THEOREM OncePerSource == Spec => []OneSubscriptionPerSource
<1>1. IInv => OneSubscriptionPerSource
  BY DEF IInv, TypeOK, SourcesAreSingle, OneSubscriptionPerSource, Used, Open
<1>2. QED
  BY <1>1, Invariance, PTL

\* A closed subscription is in the map only while its DELETE is under way.
THEOREM DeadEntriesLeave == Spec => []NoDeadEntries
<1>1. IInv => NoDeadEntries
  BY DEF IInv
<1>2. QED
  BY <1>1, Invariance, PTL

\* A DELETE answered with 200 has retired its job, unless it met a
\* subscription made by Run.
THEOREM DeleteDurable == Spec => []AckedDeleteIsDurable
<1>1. IInv => AckedDeleteIsDurable
  BY DEF IInv
<1>2. QED
  BY <1>1, Invariance, PTL

-----------------------------------------------------------------------------
(* The service implements the ledger                                        *)

\* A step that touches neither rows nor run requests is invisible; the others
\* register a job, retire jobs or request a run.
LEMMA LedgerStep ==
  ASSUME IInv, [Next]_vars
  PROVE  [Ledger!Next]_<<LedgerRows, LedgerRun>>
<1> USE ServiceConstants
<1>t. TypeOK /\ TypeOK'
  BY StepTypeOK DEF IInv
<1>1. CASE UNCHANGED <<row, lastRun>>
  BY <1>1 DEF LedgerRows, LedgerRun
\* Rows that go from live to deleted, or none of them does.
<1>2. ASSUME NEW S \in SUBSET Jobs, \A j \in S : row[j] = "live", UNCHANGED lastRun,
             \A j \in Jobs : row'[j] = IF j \in S THEN "deleted" ELSE row[j]
      PROVE  [Ledger!Next]_<<LedgerRows, LedgerRun>>
  <2>1. CASE S = {}
    BY <1>2, <2>1 DEF LedgerRows, LedgerRun
  <2>2. CASE S # {}
    <3>1. Ledger!Retire(S)
      BY <1>2, <2>2 DEF Ledger!Retire, LedgerRows, LedgerRun
    <3>2. QED
      BY <3>1 DEF Ledger!Next
  <2>3. QED
    BY <2>1, <2>2
<1>3. CASE PurgeRows
  <2> DEFINE S == {j \in Jobs : row[j] = "live" /\ rowEndpoint[j] = purging}
  <2>1. /\ UNCHANGED lastRun
        /\ \A j \in Jobs : row'[j] = IF j \in S THEN "deleted" ELSE row[j]
    BY <1>3 DEF PurgeRows
  <2>2. QED
    BY <2>1, <1>2
<1>4. ASSUME NEW h \in Handlers, CreateSave(h)
      PROVE  [Ledger!Next]_<<LedgerRows, LedgerRun>>
  <2>1. CASE UNCHANGED row
    BY <1>1, <1>4, <2>1 DEF CreateSave, StoreOver
  <2>2. CASE row[req[h].job] = "none" /\ row' = [row EXCEPT ![req[h].job] = "live"]
    <3>1. req[h].job \in Jobs /\ UNCHANGED lastRun
      BY <1>t, <1>4 DEF CreateSave, StoreOver, TypeOK
    <3>2. Ledger!Register(req[h].job)
      <4>1. LedgerRows' = [LedgerRows EXCEPT ![req[h].job] = "registered"]
        BY <1>t, <2>2, <3>1 DEF LedgerRows, TypeOK
      <4>2. QED
        BY <2>2, <3>1, <4>1 DEF Ledger!Register, LedgerRows, LedgerRun
    <3>3. QED
      BY <3>1, <3>2 DEF Ledger!Next
  <2>3. QED
    BY <1>4, <2>1, <2>2 DEF CreateSave, StoreOver
<1>5. ASSUME NEW h \in Handlers, DeleteRow(h)
      PROVE  [Ledger!Next]_<<LedgerRows, LedgerRun>>
  <2>1. Doomed(h) \in Jobs /\ row[Doomed(h)] # "none"
    BY <1>t, <1>5
    DEF IInv, DeleteRow, Doomed, Target, WorkHasRows, RequestsMatch, TypeOK, Request
  <2>2. UNCHANGED lastRun
    BY <1>5 DEF DeleteRow
  <2>3. CASE UNCHANGED row
    BY <1>1, <2>2, <2>3
  <2>4. CASE row' = [row EXCEPT ![Doomed(h)] = "deleted"]
    <3> DEFINE S == {j \in {Doomed(h)} : row[j] = "live"}
    <3>1. row[Doomed(h)] \in {"live", "deleted"}
      BY <1>t, <2>1 DEF TypeOK, RowState
    <3>2. S \subseteq Jobs
      BY <2>1
    <3>3. \A j \in Jobs : row'[j] = IF j \in S THEN "deleted" ELSE row[j]
      BY <1>t, <2>1, <2>4, <3>1 DEF TypeOK
    <3>4. QED
      BY <1>2, <2>2, <3>2, <3>3
  <2>5. QED
    BY <1>5, <2>3, <2>4 DEF DeleteRow
<1>6. ASSUME NEW a \in Conns, Trigger(a)
      PROVE  [Ledger!Next]_<<LedgerRows, LedgerRun>>
  <2>1. UNCHANGED row
    BY <1>6 DEF Trigger, dbVars
  <2>2. CASE UNCHANGED lastRun
    BY <1>1, <2>1, <2>2
  <2>3. CASE lastRun' = [src |-> con[a].job, dst |-> Target(a)]
    <3>1. Used(a)
      BY <1>6 DEF Trigger, IInv, EventsHaveSource
    <3>2. Target(a) \in Jobs /\ row[Target(a)] # "none"
      BY <3>1, <1>t DEF IInv, WorkHasRows, Target, TypeOK
    <3>3. LedgerRun' = {Target(a)}
      BY <2>3, <3>2 DEF LedgerRun
    <3>4. LedgerRows[Target(a)] # "unknown" /\ UNCHANGED LedgerRows
      BY <2>1, <3>2, <1>t DEF LedgerRows, TypeOK, RowState
    <3>5. Ledger!RequestRun(Target(a))
      BY <3>3, <3>4 DEF Ledger!RequestRun
    <3>6. QED
      BY <3>2, <3>5 DEF Ledger!Next
  <2>4. QED
    BY <1>6, <2>2, <2>3 DEF Trigger
<1>7. QED
  BY <1>1, <1>3, <1>4, <1>5, <1>6
  DEF Next, StartStep, RunStep, RequestStep, vars, dbVars, Start, SaveArgument, ListStale,
      PurgeEndpoint, PurgeFails, Serve, RunLoad, RunNext, RunTest, RunCheck, RunSubscribe, RunDone,
      CreateRequest, CreateTest, CreateCheck, CreateSubscribe, DeleteRequest, DeleteClose,
      ConfigRequest, Receive, Down

\* The rows and the run requests of the External Initiator behave like the
\* ledger: a job is registered once, retired for good, and only run after it
\* was registered.
THEOREM Refinement == Spec => ImplementsLedger
<1>1. Init => Ledger!Init
  BY ServiceConstants DEF Init, Ledger!Init, LedgerRows, LedgerRun, NoRun
<1>2. IInv /\ [Next]_vars => [Ledger!Next]_<<LedgerRows, LedgerRun>>
  BY LedgerStep
<1>3. QED
  BY <1>1, <1>2, Invariance, PTL DEF Spec, ImplementsLedger, Ledger!Spec

-----------------------------------------------------------------------------
(* The triggers that the service sends for events, TriggerRetry, for every *)
(* set of them and every number of attempts.                               *)

LEMMA RetryStart == RetryInit => RetryIInv
<1> SUFFICES ASSUME RetryInit PROVE RetryIInv
  OBVIOUS
<1>1. crashed \in BOOLEAN
  BY Zenon DEF RetryInit
<1>2. QED
  BY <1>1, RetryConstants DEF RetryInit, RetryIInv, RetryTypeOK, OkMeansRun, AttemptsBoundRuns, Unfinished

LEMMA RetryStep == RetryIInv /\ [RetryNext]_retryVars => RetryIInv'
<1> SUFFICES ASSUME RetryIInv, [RetryNext]_retryVars PROVE RetryIInv'
  OBVIOUS
<1> USE RetryConstants DEF RetryIInv, RetryTypeOK, OkMeansRun, AttemptsBoundRuns, Unfinished, nodeVars
<1>1. ASSUME NEW t \in Triggers, Send(t) PROVE RetryIInv'
  <2>1. n[t] < Attempts /\ n[t] + 1 \in 1..Attempts
    BY <1>1 DEF Send
  <2>2. RetryTypeOK'
    BY <1>1, <2>1 DEF Send
  <2>3. AttemptsBoundRuns'
    BY <1>1, <2>1 DEF Send
  <2>4. QED
    BY <1>1, <2>1, <2>2, <2>3 DEF Send
<1>2. ASSUME NEW t \in Triggers, SendFails(t) PROVE RetryIInv'
  <2>1. n[t] < Attempts /\ n[t] + 1 \in 1..Attempts
    BY <1>2 DEF SendFails
  <2>2. QED
    BY <1>2, <2>1 DEF SendFails, Fail
<1>3. ASSUME NEW t \in Triggers, TimedOut(t) PROVE RetryIInv'
  BY <1>3 DEF TimedOut, NoAnswer, Fail
<1>4. ASSUME NEW t \in Triggers, ReadAnswer(t) PROVE RetryIInv'
  BY <1>4 DEF ReadAnswer, Read, Fail
<1>5. ASSUME NEW t \in Triggers, BodyFails(t) PROVE RetryIInv'
  BY <1>5 DEF BodyFails
<1>6. ASSUME NEW t \in Triggers, DelayOver(t) PROVE RetryIInv'
  BY <1>6 DEF DelayOver
<1>7. ASSUME NEW t \in Triggers, NEW k \in 1..Attempts, Handle(t, k) PROVE RetryIInv'
  <2>1. k \in 1..n[t]
    BY <1>7 DEF Handle
  <2>2. RetryTypeOK'
    BY <1>7 DEF Handle
  <2>3. \A u \in Triggers : runs[u] \subseteq runs'[u]
    BY <1>7 DEF Handle
  <2>4. OkMeansRun'
    BY <1>7, <2>3 DEF Handle
  <2>5. AttemptsBoundRuns'
    BY <1>7, <2>1 DEF Handle
  <2>6. Unfinished'
    BY <1>7, <2>3 DEF Handle
  <2>7. QED
    BY <2>2, <2>4, <2>5, <2>6
<1>8. CASE UNCHANGED retryVars
  BY <1>8 DEF retryVars
<1>9. QED
  BY <1>1, <1>2, <1>3, <1>4, <1>5, <1>6, <1>7, <1>8 DEF RetryNext, Step

\* The inductive invariant holds in every reachable state.
THEOREM RetryInvariance == RetrySpec => []RetryIInv
  BY RetryStart, RetryStep, PTL DEF RetrySpec

\* Type correctness.
THEOREM RetryTypeCorrect == RetrySpec => []RetryTypeOK
<1>1. RetryIInv => RetryTypeOK
  BY DEF RetryIInv
<1>2. QED
  BY <1>1, RetryInvariance, PTL

\* A trigger reported as sent has a job run.
THEOREM SuccessIsReal == RetrySpec => []OkMeansRun
<1>1. RetryIInv => OkMeansRun
  BY DEF RetryIInv
<1>2. QED
  BY <1>1, RetryInvariance, PTL

\* An event causes at most as many job runs as attempts were made, and those
\* are bounded by the configuration.
THEOREM RunsAreBounded == RetrySpec => []AttemptsBoundRuns
<1>1. RetryIInv => AttemptsBoundRuns
  BY DEF RetryIInv
<1>2. QED
  BY <1>1, RetryInvariance, PTL
=============================================================================
