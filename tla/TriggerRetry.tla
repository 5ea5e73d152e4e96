---------------------------- MODULE TriggerRetry ----------------------------
(***************************************************************************)
(* Job run triggers, chainlink/node.go: Service starts a goroutine for     *)
(* each event, which sends the trigger to the Chainlink node and tries     *)
(* again after a transport error, a timeout or a 5xx status.  A request    *)
(* that the client gave up on may still reach the node.                    *)
(***************************************************************************)
EXTENDS Naturals

CONSTANTS
  Triggers,  \* events that ask for a job run
  Attempts   \* RetryConfig.Attempts, cl_retry_attempts

ASSUME RetryConstants == Attempts \in Nat \ {0}

VARIABLES
  pc,       \* pc[t]: "attempt", "await" the answer, "delay", "done"
  n,        \* n[t]: attempts made
  inFlight, \* inFlight[t]: attempts whose request the node has not handled
  runs,     \* runs[t]: attempts that made the node create a job run
  answer,   \* answer[t]: status class of the answer to the latest attempt, or "none"
  result,   \* result[t]: of TriggerJob, "none", "ok" or "error"
  crashed   \* a goroutine panicked, which ends the process

nodeVars == <<inFlight, runs>>
retryVars == <<pc, n, nodeVars, answer, result, crashed>>

RetryInit ==
  /\ pc = [t \in Triggers |-> "attempt"]
  /\ n = [t \in Triggers |-> 0]
  /\ inFlight = [t \in Triggers |-> {}]
  /\ runs = [t \in Triggers |-> {}]
  /\ answer = [t \in Triggers |-> "none"]
  /\ result = [t \in Triggers |-> "none"]
  /\ crashed = FALSE

-----------------------------------------------------------------------------
(* withRetry                                                               *)

\* retry.Do: after a failure comes a delay, unless it was the last attempt.
Fail(t, most) ==
  /\ pc' = [pc EXCEPT ![t] = IF n'[t] < most THEN "delay" ELSE "done"]
  /\ result' = [result EXCEPT ![t] = IF n'[t] < most THEN "none" ELSE "error"]

\* client.Do: the request is on its way ...
Send(t) ==
  /\ ~crashed
  /\ pc[t] = "attempt"
  /\ n' = [n EXCEPT ![t] = n[t] + 1]
  /\ inFlight' = [inFlight EXCEPT ![t] = inFlight[t] \cup {n[t] + 1}]
  /\ answer' = [answer EXCEPT ![t] = "none"]
  /\ pc' = [pc EXCEPT ![t] = "await"]
  /\ UNCHANGED <<runs, result, crashed>>

\* ... or cannot be sent: no connection, or the body was read by an attempt
\* before and the transport does not rewind it.
SendFails(t) ==
  /\ ~crashed
  /\ pc[t] = "attempt"
  /\ n' = [n EXCEPT ![t] = n[t] + 1]
  /\ answer' = [answer EXCEPT ![t] = "none"]
  /\ Fail(t, Attempts)
  /\ UNCHANGED <<nodeVars, crashed>>

\* The timeout of the attempt, or the connection breaks before a status comes.
NoAnswer(t, most) ==
  /\ ~crashed
  /\ pc[t] = "await" /\ answer[t] = "none"
  /\ UNCHANGED n
  /\ Fail(t, most)
  /\ UNCHANGED <<nodeVars, answer, crashed>>

\* Mutant of TimedOut: one attempt too many.
TimedOutOnceMore(t) == NoAnswer(t, Attempts + 1)
TimedOut(t) == NoAnswer(t, Attempts)

\* The answer is read: 5xx is a failure, 2xx and 4xx end the retries, and
\* sendJobrunTrigger reports 4xx.
Read(t, accepted, retried) ==
  /\ ~crashed
  /\ pc[t] = "await" /\ answer[t] # "none"
  /\ \/ /\ answer[t] \in retried
        /\ UNCHANGED n
        /\ Fail(t, Attempts)
     \/ /\ answer[t] \notin retried
        /\ pc' = [pc EXCEPT ![t] = "done"]
        /\ result' = [result EXCEPT ![t] = IF answer[t] \in accepted THEN "ok" ELSE "error"]
        /\ UNCHANGED n
  /\ UNCHANGED <<nodeVars, answer, crashed>>

\* Mutant of ReadAnswer: the status is not looked at after the retries.
ReadAnyAnswer(t) == Read(t, {"2xx", "4xx"}, {"5xx"})
ReadAnswer(t) == Read(t, {"2xx"}, {"5xx"})

\* The status came and the body does not: line 116 calls Error on the outer
\* err, which is nil.
BodyFails(t) ==
  /\ ~crashed
  /\ pc[t] = "await" /\ answer[t] # "none"
  /\ crashed' = TRUE
  /\ UNCHANGED <<pc, n, nodeVars, answer, result>>

\* Mutant of DelayOver: the goroutine does not wake up.
DelayForever(t) == FALSE
DelayOver(t) ==
  /\ ~crashed
  /\ pc[t] = "delay"
  /\ pc' = [pc EXCEPT ![t] = "attempt"]
  /\ UNCHANGED <<n, nodeVars, answer, result, crashed>>

-----------------------------------------------------------------------------
\* The node handles a request, which may create a job run, or loses it.  The
\* client hears of it if it still waits for that attempt.  A 5xx says nothing
\* about the run: a proxy may send it after the node has created one.
Handle(t, k) ==
  /\ k \in inFlight[t]
  /\ inFlight' = [inFlight EXCEPT ![t] = inFlight[t] \ {k}]
  /\ \E status \in {"2xx", "4xx", "5xx", "none"} :
       /\ \/ status # "4xx" /\ runs' = [runs EXCEPT ![t] = runs[t] \cup {k}]
          \/ status # "2xx" /\ UNCHANGED runs
       /\ answer' = IF pc[t] = "await" /\ k = n[t] THEN [answer EXCEPT ![t] = status] ELSE answer
  /\ UNCHANGED <<pc, n, result, crashed>>

-----------------------------------------------------------------------------
Step(t) == Send(t) \/ SendFails(t) \/ TimedOut(t) \/ ReadAnswer(t) \/ BodyFails(t) \/ DelayOver(t)

RetryNext == \E t \in Triggers : Step(t) \/ (\E k \in 1..Attempts : Handle(t, k))

RetrySpec == RetryInit /\ [][RetryNext]_retryVars

\* The goroutines run; the context of each attempt times out.
FairRetrySpec == RetrySpec /\ \A t \in Triggers : WF_retryVars(Step(t))

-----------------------------------------------------------------------------
(* Properties                                                              *)

RetryTypeOK ==
  /\ pc \in [Triggers -> {"attempt", "await", "delay", "done"}]
  /\ n \in [Triggers -> 0..Attempts]
  /\ inFlight \in [Triggers -> SUBSET (1..Attempts)]
  /\ runs \in [Triggers -> SUBSET (1..Attempts)]
  /\ answer \in [Triggers -> {"none", "2xx", "4xx", "5xx"}]
  /\ result \in [Triggers -> {"none", "ok", "error"}]
  /\ crashed \in BOOLEAN

\* Whatever of it is lost, late or repeated: a trigger that TriggerJob reports
\* as sent has a job run, which the attempt reported on has created.
OkMeansRun == \A t \in Triggers : result[t] = "ok" => n[t] \in runs[t]

\* README.md:37: `the maximum number of attempts that will be made for job run
\* triggers'.  It bounds the job runs that one event can cause, those of
\* requests that outlive their attempt included.
AttemptsBoundRuns ==
  \A t \in Triggers : n[t] <= Attempts /\ inFlight[t] \cup runs[t] \subseteq 1..n[t]

\* An answer belongs to the latest attempt, and there is none while a trigger
\* waits for the next one.
Unfinished ==
  \A t \in Triggers :
    /\ answer[t] = "2xx" => n[t] \in runs[t]
    /\ pc[t] \in {"attempt", "delay"} => n[t] < Attempts
    /\ pc[t] # "done" => result[t] = "none"

\* The inductive invariant of the proofs.
RetryIInv ==
  /\ RetryTypeOK
  /\ OkMeansRun
  /\ AttemptsBoundRuns
  /\ Unfinished

\* Every trigger is reported on, whatever the node does.
EveryTriggerEnds == \A t \in Triggers : <>(result[t] # "none" \/ crashed)
=============================================================================
