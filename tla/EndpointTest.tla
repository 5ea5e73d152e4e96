---------------------------- MODULE EndpointTest ----------------------------
(***************************************************************************)
(* The test of a WebSocket endpoint, WebsocketSubscriber.Test in           *)
(* subscriber/ws.go and TestWS in blockchain/keeper.go: the goroutine of   *)
(* the caller, the one that reads the answer, and the endpoint.  The two   *)
(* share the variable err without a lock.                                  *)
(***************************************************************************)
EXTENDS Naturals

CONSTANTS
  Tests,   \* calls of Test
  Silent   \* those whose manager has no test message

ASSUME TestConstants == Silent \subseteq Tests

VARIABLES
  link,     \* link[t]: "none", "open", "lost" to the endpoint, "closed" by Test
  asked,    \* asked[t]: the test message was written
  answer,   \* answer[t]: what the endpoint sent, "none", "good" or "bad"
  caller,   \* caller[t]: "dial", "write", "written", "wait", "done"
  reader,   \* reader[t]: "none", "read", "check", "send", "gone"
  err,      \* err[t]: the shared variable holds an error
  body,     \* body[t]: what the reader got, "none" if nothing
  closed,   \* closed[t]: resp is closed
  result,   \* result[t]: of Test, "none", "ok", "error" or "timeout"
  panicked  \* a goroutine panicked, which ends the process

netVars == <<link, asked, answer>>
testVars == <<netVars, caller, reader, err, body, closed, result, panicked>>

TestInit ==
  /\ link = [t \in Tests |-> "none"]
  /\ asked = [t \in Tests |-> FALSE]
  /\ answer = [t \in Tests |-> "none"]
  /\ caller = [t \in Tests |-> "dial"]
  /\ reader = [t \in Tests |-> "none"]
  /\ err = [t \in Tests |-> FALSE]
  /\ body = [t \in Tests |-> "none"]
  /\ closed = [t \in Tests |-> FALSE]
  /\ result = [t \in Tests |-> "none"]
  /\ panicked = FALSE

-----------------------------------------------------------------------------
(* The caller                                                              *)

\* Test returns, and the deferred Close closes the connection.
Return(t, r) ==
  /\ caller' = [caller EXCEPT ![t] = "done"]
  /\ result' = [result EXCEPT ![t] = r]
  /\ link' = [link EXCEPT ![t] = "closed"]

DialFails(t) ==
  /\ ~panicked
  /\ caller[t] = "dial"
  /\ Return(t, "error")
  /\ UNCHANGED <<asked, answer, reader, err, body, closed, panicked>>

\* Without a test message a connection is all that is asked for.
DialIsEnough(t) ==
  /\ ~panicked
  /\ caller[t] = "dial" /\ t \in Silent
  /\ Return(t, "ok")
  /\ UNCHANGED <<asked, answer, reader, err, body, closed, panicked>>

\* The connection is there, and the reader starts.
Dial(t) ==
  /\ ~panicked
  /\ caller[t] = "dial" /\ t \notin Silent
  /\ link' = [link EXCEPT ![t] = "open"]
  /\ caller' = [caller EXCEPT ![t] = "write"]
  /\ reader' = [reader EXCEPT ![t] = "read"]
  /\ UNCHANGED <<asked, answer, err, body, closed, result, panicked>>

\* err = c.WriteMessage(...), which may succeed on a lost connection.
WriteMessage(t) ==
  /\ ~panicked
  /\ caller[t] = "write"
  /\ asked' = [asked EXCEPT ![t] = link[t] = "open"]
  /\ \E failed \in BOOLEAN :
       /\ failed => link[t] # "open"
       /\ err' = [err EXCEPT ![t] = failed]
  /\ caller' = [caller EXCEPT ![t] = "written"]
  /\ UNCHANGED <<link, answer, reader, body, closed, result, panicked>>

\* if err != nil, which may be that of the reader by now.
CheckWrite(t) ==
  /\ ~panicked
  /\ caller[t] = "written"
  /\ \/ err[t] /\ Return(t, "error")
     \/ /\ ~err[t]
        /\ caller' = [caller EXCEPT ![t] = "wait"]
        /\ UNCHANGED <<result, link>>
  /\ UNCHANGED <<asked, answer, reader, err, body, closed, panicked>>

\* Mutant of Timeout: the caller waits for the answer only.
NoTimeout(t) == FALSE
Timeout(t) ==
  /\ ~panicked
  /\ caller[t] = "wait"
  /\ Return(t, "timeout")
  /\ UNCHANGED <<asked, answer, reader, err, body, closed, panicked>>

\* resp hands over what was read, and ParseTestResponse decides.
Parse(t, accepted) ==
  /\ ~panicked
  /\ caller[t] = "wait" /\ reader[t] = "send" /\ ~closed[t]
  /\ Return(t, IF body[t] \in accepted THEN "ok" ELSE "error")
  /\ reader' = [reader EXCEPT ![t] = "gone"]
  /\ UNCHANGED <<asked, answer, err, body, closed, panicked>>

\* Mutant of Receive: an empty body is an answer.
ReceiveEmpty(t) == Parse(t, {"good", "none"})
Receive(t) == Parse(t, {"good"})

\* resp is closed.
ReceiveClosed(t) ==
  /\ ~panicked
  /\ caller[t] = "wait" /\ closed[t]
  /\ Return(t, "error")
  /\ UNCHANGED <<asked, answer, reader, err, body, closed, panicked>>

-----------------------------------------------------------------------------
(* The reader                                                              *)

\* _, body, err = c.ReadMessage()
ReadBody(t) ==
  /\ ~panicked
  /\ reader[t] = "read"
  /\ \/ /\ answer[t] # "none" /\ link[t] # "closed"
        /\ body' = [body EXCEPT ![t] = answer[t]]
        /\ err' = [err EXCEPT ![t] = FALSE]
     \/ /\ link[t] # "open"
        /\ err' = [err EXCEPT ![t] = TRUE]
        /\ UNCHANGED body
  /\ reader' = [reader EXCEPT ![t] = "check"]
  /\ UNCHANGED <<netVars, caller, closed, result, panicked>>

\* After an error, which may be that of the caller by now, resp is closed, but
\* the send follows all the same.
CheckRead(t) ==
  /\ ~panicked
  /\ reader[t] = "check"
  /\ closed' = [closed EXCEPT ![t] = err[t]]
  /\ reader' = [reader EXCEPT ![t] = "send"]
  /\ UNCHANGED <<netVars, caller, err, body, result, panicked>>

\* Send on a closed channel.
Panic(t) ==
  /\ ~panicked
  /\ reader[t] = "send" /\ closed[t]
  /\ panicked' = TRUE
  /\ UNCHANGED <<netVars, caller, reader, err, body, closed, result>>

-----------------------------------------------------------------------------
(* The endpoint                                                            *)

Answer(t) ==
  /\ link[t] = "open" /\ asked[t] /\ answer[t] = "none"
  /\ \E a \in {"good", "bad"} : answer' = [answer EXCEPT ![t] = a]
  /\ UNCHANGED <<link, asked, caller, reader, err, body, closed, result, panicked>>

Drop(t) ==
  /\ link[t] = "open"
  /\ link' = [link EXCEPT ![t] = "lost"]
  /\ UNCHANGED <<asked, answer, caller, reader, err, body, closed, result, panicked>>

-----------------------------------------------------------------------------
CallerStep(t) ==
  \/ DialFails(t) \/ DialIsEnough(t) \/ Dial(t)
  \/ WriteMessage(t) \/ CheckWrite(t)
  \/ Timeout(t) \/ Receive(t) \/ ReceiveClosed(t)

ReaderStep(t) == ReadBody(t) \/ CheckRead(t) \/ Panic(t)

TestNext == \E t \in Tests : CallerStep(t) \/ ReaderStep(t) \/ Answer(t) \/ Drop(t)

TestSpec == TestInit /\ [][TestNext]_testVars

\* Both goroutines run; a dial ends and the timer of five seconds fires.
FairTestSpec == TestSpec /\ \A t \in Tests : WF_testVars(CallerStep(t)) /\ WF_testVars(ReaderStep(t))

-----------------------------------------------------------------------------
(* Properties                                                              *)

TestTypeOK ==
  /\ link \in [Tests -> {"none", "open", "lost", "closed"}]
  /\ \A t \in Tests : caller[t] = "done" <=> link[t] = "closed"
  /\ asked \in [Tests -> BOOLEAN]
  /\ answer \in [Tests -> {"none", "good", "bad"}]
  /\ caller \in [Tests -> {"dial", "write", "written", "wait", "done"}]
  /\ reader \in [Tests -> {"none", "read", "check", "send", "gone"}]
  /\ err \in [Tests -> BOOLEAN]
  /\ body \in [Tests -> {"none", "good", "bad"}]
  /\ closed \in [Tests -> BOOLEAN]
  /\ result \in [Tests -> {"none", "ok", "error", "timeout"}]
  /\ panicked \in BOOLEAN

\* Although the goroutines overwrite each other's err, an endpoint passes the
\* test only if it gave the right answer, and then no reader is left behind.
PassedMeansAnswered ==
  \A t \in Tests \ Silent : result[t] = "ok" => answer[t] = "good" /\ reader[t] = "gone"

\* A test comes to an end, answer or not.
TestEnds == \A t \in Tests : <>(result[t] # "none" \/ panicked)

-----------------------------------------------------------------------------
(* The inductive invariant of the proofs                                   *)

\* What the reader has got is what the endpoint sent.
ReadIsAnswer == \A t \in Tests : body[t] # "none" => body[t] = answer[t]

\* A test has one result, that of its end.
ResultIsFinal == \A t \in Tests : result[t] # "none" => caller[t] = "done"

TestIInv == TestTypeOK /\ ReadIsAnswer /\ ResultIsFinal /\ PassedMeansAnswered
=============================================================================
