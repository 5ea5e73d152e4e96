----------------------------- MODULE NearPolling -----------------------------
(***************************************************************************)
(* A NEAR job, blockchain/near.go on the polls of subscriber/rpc.go.  Each *)
(* poll asks the oracle contract for all requests that are not fulfilled;  *)
(* what was seen before is told by the nonces, which each account counts   *)
(* up from one request to the next, whatever job it is for.  Test has      *)
(* copied the nonces of the contract to filter.Nonces, a map that the      *)
(* copies of the manager share.                                            *)
(***************************************************************************)
EXTENDS Naturals, Sequences

CONSTANTS
  Accounts,    \* that make requests
  Nonces,      \* those of the accounts when the subscriber was tested
  MaxRequests  \* bound: requests of an account

ASSUME NearConstants ==
  /\ Nonces \subseteq Nat
  /\ MaxRequests \in Nat

VARIABLES
  tested,     \* the nonce of each account at the time of Test
  made,       \* the contract: the requests made since, made[a][k] under nonce tested + k
  last,       \* filter.Nonces
  pc,         \* the goroutine of readMessages: "poll", "send", "wait", "gone", "crashed"
  batch,      \* nonces of the requests whose events poll has still to send
  delivered,  \* nonces of those whose events the consumer has received
  done,       \* the done channel is closed
  channel     \* the events channel, "open" or "closed"

contract == <<tested, made>>
vars == <<contract, last, pc, batch, delivered, done, channel>>

\* Requests for this job, for another one, and those that cannot be decoded.
Kinds == {"mine", "other", "bad"}

None == [a \in Accounts |-> {}]
Made(a) == {tested + k : k \in DOMAIN made[a]}
Kind(a, n) == made[a][n - tested]

Init ==
  /\ tested \in Nonces
  /\ made = [a \in Accounts |-> << >>]
  /\ last = [a \in Accounts |-> tested]
  /\ pc = "poll"
  /\ batch = None
  /\ delivered = None
  /\ done = FALSE
  /\ channel = "open"

-----------------------------------------------------------------------------
(* The contract                                                            *)

Request(a, k) ==
  /\ Len(made[a]) < MaxRequests
  /\ made' = [made EXCEPT ![a] = Append(@, k)]
  /\ UNCHANGED <<tested, last, pc, batch, delivered, done, channel>>

\* What get_all_requests returns for account a at a node that knows its first
\* k requests: all but some that this job or another one has fulfilled.
Answers(a, k) ==
  LET known == {tested + j : j \in 1..k}
  IN  {known \ gone : gone \in SUBSET {n \in known : n \in delivered[a] \/ Kind(a, n) = "other"}}

-----------------------------------------------------------------------------
(* ParseResponse                                                           *)

\* The order of decimal numerals as strings.
Width(n) == CHOOSE w \in 1..(n + 1) : n < 10^w /\ (w > 1 => 10^(w - 1) <= n)
Less(m, n) ==
  IF Width(m) = Width(n) THEN m < n
  ELSE IF Width(m) < Width(n) THEN m * 10^(Width(n) - Width(m)) <= n
  ELSE m < n * 10^(Width(m) - Width(n))

\* Of the requests S of an account, in the order of their nonces as strings,
\* those with a nonce above the one recorded last.
\* Mutant of Fresh: the nonce recorded last is taken again.
FreshAgain(a, S) == {n \in S : n >= last[a] /\ \A m \in S : Less(m, n) => m < n}
Fresh(a, S) == {n \in S : n > last[a] /\ \A m \in S : Less(m, n) => m < n}

\* ParseResponse gives up at the first of them that is malformed, which it has
\* recorded already.
Malformed(a, S) == {n \in Fresh(a, S) : Kind(a, n) = "bad"}
Recorded(a, S) == {n \in Fresh(a, S) : \A m \in Malformed(a, S) : ~Less(m, n)}

\* Mutant of Latest: the nonce of the contract is recorded, not that of the answer.
LatestOfAll(a, S) == IF S = {} THEN last[a] ELSE CHOOSE n \in Made(a) : \A m \in Made(a) : m <= n
Latest(a, S) == IF S = {} THEN last[a] ELSE CHOOSE n \in S : \A m \in S : m <= n

-----------------------------------------------------------------------------
(* The goroutine                                                           *)

\* Mutant of PollFails: the goroutine ends.
PollFailsForGood ==
  /\ pc = "poll"
  /\ pc' = "gone"
  /\ UNCHANGED <<contract, last, batch, delivered, done, channel>>

\* poll gets an answer without malformed requests.
PollOk(answer) ==
  /\ pc = "poll"
  /\ \A a \in Accounts : Malformed(a, answer[a]) = {}
  /\ last' = [a \in Accounts |-> Latest(a, Recorded(a, answer[a]))]
  /\ batch' = [a \in Accounts |-> {n \in Recorded(a, answer[a]) : Kind(a, n) = "mine"}]
  /\ pc' = "send"
  /\ UNCHANGED <<contract, delivered, done, channel>>

\* It gets one with a malformed request of x: the events of this answer are
\* lost, those of the accounts that the map gave before x included.
PollMalformed(answer, x, before) ==
  /\ pc = "poll"
  /\ Malformed(x, answer[x]) # {}
  /\ \A a \in before : Malformed(a, answer[a]) = {}
  /\ last' = [a \in Accounts |->
       IF a \in before \cup {x} THEN Latest(a, Recorded(a, answer[a])) ELSE last[a]]
  /\ pc' = "wait"
  /\ UNCHANGED <<contract, batch, delivered, done, channel>>

\* No answer, an error status, or an answer that is not one.
PollFails ==
  /\ pc = "poll"
  /\ pc' = "wait"
  /\ UNCHANGED <<contract, last, batch, delivered, done, channel>>

\* poll sends an event, in the order of an account; to send on a closed
\* channel panics.
Send(a, n) ==
  /\ pc = "send"
  /\ n \in batch[a] /\ \A m \in batch[a] \ {n} : Less(n, m)
  /\ IF channel = "open"
     THEN /\ batch' = [batch EXCEPT ![a] = @ \ {n}]
          /\ delivered' = [delivered EXCEPT ![a] = @ \cup {n}]
          /\ UNCHANGED pc
     ELSE pc' = "crashed" /\ UNCHANGED <<batch, delivered>>
  /\ UNCHANGED <<contract, last, done, channel>>

Sent ==
  /\ pc = "send" /\ batch = None
  /\ pc' = "wait"
  /\ UNCHANGED <<contract, last, batch, delivered, done, channel>>

\* The select of readMessages takes the ticker or the done channel.
Tick ==
  /\ pc = "wait"
  /\ pc' = "poll"
  /\ UNCHANGED <<contract, last, batch, delivered, done, channel>>

Stop ==
  /\ pc = "wait" /\ done
  /\ pc' = "gone"
  /\ UNCHANGED <<contract, last, batch, delivered, done, channel>>

\* closeSubscription
Unsubscribe ==
  /\ ~done /\ pc # "crashed"
  /\ done' = TRUE
  /\ UNCHANGED <<contract, last, pc, batch, delivered, channel>>

CloseChannel ==
  /\ done /\ channel = "open" /\ pc # "crashed"
  /\ channel' = "closed"
  /\ UNCHANGED <<contract, last, pc, batch, delivered, done>>

-----------------------------------------------------------------------------
Everything == UNION {Made(a) : a \in Accounts}
AllAnswers ==
  {f \in [Accounts -> SUBSET Everything] :
     \A a \in Accounts : \E k \in 0..Len(made[a]) : f[a] \in Answers(a, k)}
CurrentAnswers ==
  {f \in [Accounts -> SUBSET Everything] : \A a \in Accounts : f[a] \in Answers(a, Len(made[a]))}

ReadMessages ==
  \/ \E answer \in AllAnswers :
       \/ PollOk(answer)
       \/ \E x \in Accounts, before \in SUBSET Accounts : PollMalformed(answer, x, before)
  \/ PollFails
  \/ \E a \in Accounts : \E n \in batch[a] : Send(a, n)
  \/ Sent \/ Tick \/ Stop

Next ==
  \/ \E a \in Accounts, k \in Kinds : Request(a, k)
  \/ ReadMessages
  \/ Unsubscribe \/ CloseChannel

Spec == Init /\ [][Next]_vars

\* The goroutine runs, and a node asked again and again answers again and
\* again for the contract as it is.
FairSpec ==
  /\ Spec
  /\ WF_vars(ReadMessages)
  /\ SF_vars(\E answer \in CurrentAnswers : PollOk(answer))

-----------------------------------------------------------------------------
(* Properties                                                              *)

TypeOK ==
  /\ tested \in Nonces
  /\ made \in [Accounts -> Seq(Kinds)]
  /\ batch \in [Accounts -> SUBSET Nat] /\ delivered \in [Accounts -> SUBSET Nat]
  /\ \A a \in Accounts : batch[a] \cup delivered[a] \subseteq Made(a)
  /\ last \in [Accounts -> Nat]
  /\ pc \in {"poll", "send", "wait", "gone", "crashed"}
  /\ done \in BOOLEAN
  /\ channel \in {"open", "closed"}

\* The event of a request is sent once and after those of earlier requests of
\* the account, whatever nodes answer and whatever is malformed.
OnceInOrder == \A a \in Accounts : \A i \in delivered[a], j \in batch[a] : i < j

\* No nonce is recorded whose request is not sent, unless nonces differ in
\* length, which their order as strings does not respect, or a request is
\* malformed, which loses those before it.
Regular ==
  \A a \in Accounts : \A n \in Made(a) : Kind(a, n) # "bad" /\ Width(n) = Width(tested + 1)
NoneSkipped ==
  Regular => \A a \in Accounts : \A n \in Made(a) :
    Kind(a, n) = "mine" /\ n <= last[a] => n \in delivered[a] \cup batch[a]

\* Such requests reach the consumer in the end.
Owed(a, n) == Regular /\ ~done /\ n \in Made(a) \ delivered[a] /\ Kind(a, n) = "mine"
EachDelivered ==
  \A a \in Accounts, k \in 1..MaxRequests : Owed(a, tested + k) ~> ~Owed(a, tested + k)

-----------------------------------------------------------------------------
(* The inductive invariant of the proofs                                   *)

\* The nonce recorded last is one of the contract, and above all that was taken.
Recording ==
  \A a \in Accounts :
    /\ last[a] \in tested..(tested + Len(made[a]))
    /\ \A n \in delivered[a] \cup batch[a] : n <= last[a]

\* What poll has to send ascends in both orders, and it sends all before the
\* next answer.
Sending ==
  /\ pc \notin {"send", "crashed"} => \A a \in Accounts : batch[a] = {}
  /\ \A a \in Accounts : \A i, j \in batch[a] : Less(i, j) => i < j

IInv == TypeOK /\ Recording /\ Sending /\ OnceInOrder /\ NoneSkipped
=============================================================================
