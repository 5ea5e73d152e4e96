----------------------------- MODULE LogPolling -----------------------------
(***************************************************************************)
(* A job that polls the logs of a chain over HTTP: subscriber/rpc.go with  *)
(* the managers of blockchain/eth.go, hmy.go, binance-smart-chain.go and   *)
(* cfx.go, which remember in fromBlock from where to ask.  The managers    *)
(* have value receivers; the filter fq that holds fromBlock is shared.     *)
(* Test has set fromBlock to the height of the node, counted as 1 here.    *)
(*                                                                         *)
(* The chain has no reorganisations, so that no log is `removed', and the  *)
(* node gives every log a block number.                                    *)
(***************************************************************************)
EXTENDS Naturals, Sequences

CONSTANTS
  MaxHeight,  \* bound: blocks on the chain
  MaxLogs     \* bound: logs of the job's contracts in a block

ASSUME PollingConstants ==
  /\ MaxHeight \in Nat \ {0}
  /\ MaxLogs \in Nat

VARIABLES
  strict,    \* the manager is hmy, bsc or cfx, which turn logs into oracle requests
  head,      \* the chain: its latest block
  chain,     \* its logs, in order: chain[i].ok says that a request can be made of it
  from,      \* fq.FromBlock
  pc,        \* the goroutine of readMessages: "poll", "send", "wait", "gone", "crashed"
  batch,     \* logs whose events poll has still to send
  delivered, \* logs whose events the consumer has received
  done,      \* the done channel is closed
  channel    \* the events channel, "open" or "closed"

chainVars == <<head, chain>>
vars == <<strict, chainVars, from, pc, batch, delivered, done, channel>>

Contents == UNION {[1..n -> BOOLEAN] : n \in 0..MaxLogs}
Block(height, c) == [i \in 1..Len(c) |-> [block |-> height, ok |-> c[i]]]

\* The subscriber has passed its Test, and SubscribeToEvents starts the
\* goroutine.
Init ==
  /\ strict \in BOOLEAN
  /\ head = 1
  /\ \E c \in Contents : chain = Block(1, c)
  /\ from = 1
  /\ pc = "poll"
  /\ batch = {}
  /\ delivered = {}
  /\ done = FALSE
  /\ channel = "open"

-----------------------------------------------------------------------------
(* The chain                                                               *)

NewBlock(c) ==
  /\ head < MaxHeight
  /\ head' = head + 1
  /\ chain' = chain \o Block(head + 1, c)
  /\ UNCHANGED <<strict, from, pc, batch, delivered, done, channel>>

-----------------------------------------------------------------------------
(* ParseResponse                                                           *)

\* What eth_getLogs returns at a node that has seen the chain up to height h.
Logs(h) == {i \in DOMAIN chain : from <= chain[i].block /\ chain[i].block <= h}

\* A strict manager stops at the first log of which it cannot make a request.
Parsed(S) == IF strict THEN {i \in S : \A j \in S : j <= i => chain[j].ok} ELSE S

\* fromBlock is set to the block after that of each log parsed.
\* Mutants of Advanced: the block of the log; two blocks after it.
AdvancedLess(S, f) ==
  IF S = {} THEN f = from
  ELSE (\E i \in S : f = chain[i].block) /\ (\A i \in S : chain[i].block <= f)
AdvancedMore(S, f) ==
  IF S = {} THEN f = from
  ELSE (\E i \in S : f = chain[i].block + 2) /\ (\A i \in S : chain[i].block < f)
Advanced(S, f) ==
  IF S = {} THEN f = from
  ELSE (\E i \in S : f = chain[i].block + 1) /\ (\A i \in S : chain[i].block < f)

-----------------------------------------------------------------------------
(* The goroutine                                                           *)

Sending(S) ==
  /\ batch' = S
  /\ pc' = IF S = {} THEN "wait" ELSE "send"

\* poll gets an answer.  If a log cannot be parsed there are no events, and
\* fromBlock stays where the logs before that one have left it.
PollOk(h) ==
  /\ pc = "poll"
  /\ \E f \in 1..(head + 1) : Advanced(Parsed(Logs(h)), f) /\ from' = f
  /\ Sending(IF Parsed(Logs(h)) = Logs(h) THEN Logs(h) ELSE {})
  /\ UNCHANGED <<strict, chainVars, delivered, done, channel>>

\* Mutant of PollFails: the goroutine ends.
PollFailsForGood ==
  /\ pc = "poll"
  /\ pc' = "gone"
  /\ UNCHANGED <<strict, chainVars, from, batch, delivered, done, channel>>

\* No answer, an error status, or an answer without logs.
PollFails ==
  /\ pc = "poll"
  /\ pc' = "wait"
  /\ UNCHANGED <<strict, chainVars, from, batch, delivered, done, channel>>

\* poll sends the next event; to send on a closed channel panics.
Send(i) ==
  /\ pc = "send"
  /\ i \in batch /\ \A j \in batch : i <= j
  /\ IF channel = "open"
     THEN Sending(batch \ {i}) /\ delivered' = delivered \cup {i}
     ELSE pc' = "crashed" /\ UNCHANGED <<batch, delivered>>
  /\ UNCHANGED <<strict, chainVars, from, done, channel>>

\* The select of readMessages takes the ticker ...
Tick ==
  /\ pc = "wait"
  /\ pc' = "poll"
  /\ UNCHANGED <<strict, chainVars, from, batch, delivered, done, channel>>

\* ... or the done channel.
\* Mutant of Stop: it does so only before the events channel is closed.
StopEarly ==
  /\ pc = "wait" /\ done /\ channel = "open"
  /\ pc' = "gone"
  /\ UNCHANGED <<strict, chainVars, from, batch, delivered, done, channel>>
Stop ==
  /\ pc = "wait" /\ done
  /\ pc' = "gone"
  /\ UNCHANGED <<strict, chainVars, from, batch, delivered, done, channel>>

-----------------------------------------------------------------------------
(* closeSubscription                                                       *)

Unsubscribe ==
  /\ ~done
  /\ pc # "crashed"
  /\ done' = TRUE
  /\ UNCHANGED <<strict, chainVars, from, pc, batch, delivered, channel>>

CloseChannel ==
  /\ done /\ channel = "open"
  /\ pc # "crashed"
  /\ channel' = "closed"
  /\ UNCHANGED <<strict, chainVars, from, pc, batch, delivered, done>>

-----------------------------------------------------------------------------
ReadMessages ==
  \/ \E h \in 0..head : PollOk(h)
  \/ PollFails
  \/ \E i \in batch : Send(i)
  \/ Tick \/ Stop

Next ==
  \/ \E c \in Contents : NewBlock(c)
  \/ ReadMessages
  \/ Unsubscribe \/ CloseChannel

Spec == Init /\ [][Next]_vars

\* The goroutine runs, and each POST ends (the HTTP client has no timeout).
\* A node that is asked again and again answers for its head again and again,
\* and select chooses at random among channels that are ready.
FairSpec ==
  /\ Spec
  /\ WF_vars(ReadMessages)
  /\ SF_vars(PollOk(head))
  /\ SF_vars(Stop)
  /\ WF_vars(CloseChannel)

-----------------------------------------------------------------------------
(* Properties                                                              *)

TypeOK ==
  /\ strict \in BOOLEAN
  /\ head \in 1..MaxHeight
  /\ chain \in Seq([block : Nat, ok : BOOLEAN])
  /\ from \in 1..(head + 1)
  /\ pc \in {"poll", "send", "wait", "gone", "crashed"}
  /\ batch \subseteq DOMAIN chain
  /\ delivered \subseteq DOMAIN chain
  /\ done \in BOOLEAN
  /\ channel \in {"open", "closed"}

\* Whatever heights the nodes behind the endpoint answer with, and whatever
\* fails, the event of a log is sent once, and after those of earlier logs.
OnceInOrder == \A i \in delivered, j \in batch : i < j

\* The cursor passes no log that is not sent, unless a strict manager meets a
\* log it cannot parse: then it loses those before it in the same answer.
Lossless == strict => \A i \in DOMAIN chain : chain[i].ok
NoneSkipped ==
  Lossless => \A i \in DOMAIN chain : chain[i].block < from => i \in delivered \cup batch

\* Every log reaches the consumer, however often polls fail.
EveryLogDelivered ==
  \A i \in 1..(MaxHeight * MaxLogs) :
    i \in DOMAIN chain /\ Lossless ~> (i \in delivered \/ ~Lossless \/ done)

\* Unsubscribe ends the goroutine, or closeSubscription makes it panic.
UnsubscribeEnds == done ~> pc \in {"gone", "crashed"}

-----------------------------------------------------------------------------
(* The inductive invariant                                                 *)

Sorted ==
  /\ \A i \in DOMAIN chain : chain[i].block <= head
  /\ \A i, j \in DOMAIN chain : i < j => chain[i].block <= chain[j].block

\* What was sent or is being sent lies behind the cursor.
BehindCursor == \A i \in delivered \cup batch : chain[i].block < from

IInv ==
  /\ TypeOK
  /\ Sorted
  /\ BehindCursor
  /\ pc \in {"poll", "wait"} => batch = {}
  /\ OnceInOrder
  /\ NoneSkipped
=============================================================================
