------------------------------ MODULE BlockScan ------------------------------
(***************************************************************************)
(* The managers that follow a chain block by block in a goroutine of their *)
(* own: blockchain/ont.go, bsn-irita.go, iotex.go and tezos.go.  Each has  *)
(* its own idea of where to go on; none tells the node what it has got.    *)
(*                                                                         *)
(* Heights count from 1, and the chain has no reorganisations.  Requests   *)
(* of other jobs and contracts, which all managers filter out, are not     *)
(* part of the chain, unless they cannot be parsed.                        *)
(***************************************************************************)
EXTENDS Integers, Sequences

CONSTANTS
  Range,      \* iotex.go asks for fewer blocks than this, 1000
  Modulus,    \* 2^64: iotex.go subtracts uint64
  MaxHeight,  \* bound: blocks on the chain
  MaxLogs,    \* bound: requests on the chain
  MaxSenders  \* bound: goroutines of iotex.go that send at a time

ASSUME ScanConstants ==
  /\ {Range, Modulus, MaxHeight, MaxLogs, MaxSenders} \subseteq Nat
  /\ Range > 0 /\ MaxHeight > 0
  /\ Modulus >= Range + MaxHeight

VARIABLES
  kind,       \* "ont", "birita", "iotex" or "tezos"
  head,       \* the chain: its latest block
  chain,      \* its requests, in order: chain[i].ok says that an event can be made of it,
              \* chain[i].first that no other request precedes it in its content (tezos)
  inbox,      \* tezos: heads the node has streamed that are not read yet
  cursor,     \* ont: height; birita: lastHeight; iotex: requestedHeight
  at, to,     \* the blocks that are still to be scanned, 0 between two scans
  pc,         \* the goroutine: "ask", "read", "fetch", "retry", "send", "end", "gone", "crashed"
  batch,      \* requests whose events the goroutine has still to send
  senders,    \* iotex: those of each goroutine that poll has started
  delivered,  \* requests whose events the consumer has received
  start,      \* history: the first block scanned, 0 if none
  calm,       \* history: nothing has happened for which this manager loses or repeats events
  done,       \* the service has called Unsubscribe
  channel     \* the events channel, "open" or "closed"

chainVars == <<kind, head, chain>>
subVars == <<done, channel>>
vars == <<chainVars, inbox, cursor, at, to, pc, batch, senders, delivered, start, calm, subVars>>

Kinds == {"ont", "birita", "iotex", "tezos"}
Contents == UNION {[1..n -> [ok : BOOLEAN, first : BOOLEAN]] : n \in 0..MaxLogs}
Possible(c) == \A i \in DOMAIN c : c[i].first \/ (kind = "tezos" /\ c[i].ok)
Block(height, c) == [i \in 1..Len(c) |-> [block |-> height, ok |-> c[i].ok, first |-> c[i].first]]

\* SubscribeToEvents starts the goroutine.
Init ==
  /\ kind \in Kinds
  /\ head = 1
  /\ \E c \in Contents : Possible(c) /\ chain = Block(1, c)
  /\ inbox = << >>
  /\ cursor = 0 /\ at = 0 /\ to = 0
  /\ pc = IF kind = "iotex" THEN "end" ELSE "ask"
  /\ batch = {} /\ delivered = {}
  /\ senders = [k \in 1..MaxSenders |-> {}]
  /\ start = 0
  /\ calm = TRUE
  /\ done = FALSE
  /\ channel = "open"

-----------------------------------------------------------------------------
(* The chain; a Tezos node streams its heads to those who listen.          *)

Listening == kind = "tezos" /\ pc \in {"read", "fetch", "send"}

NewBlock(c) ==
  /\ Possible(c)
  /\ head < MaxHeight /\ Len(chain) + Len(c) <= MaxLogs
  /\ head' = head + 1
  /\ chain' = chain \o Block(head + 1, c)
  /\ inbox' = IF Listening THEN Append(inbox, head + 1) ELSE inbox
  /\ UNCHANGED <<kind, cursor, at, to, pc, batch, senders, delivered, start, calm, subVars>>

In(b) == {i \in DOMAIN chain : chain[i].block = b}
Between(a, b) == {i \in DOMAIN chain : a <= chain[i].block /\ chain[i].block <= b}
Malformed(S) == \E i \in S : ~chain[i].ok

-----------------------------------------------------------------------------
(* The start of a scan: the node says that its height is c                 *)

EndScan ==
  /\ pc' = "end"
  /\ at' = 0 /\ to' = 0
  /\ inbox' = << >>

\* Mutant of Scanning: the last block is left for the next scan.
ScanningShort(from, c, cur) ==
  /\ cursor' = cur
  /\ start' = IF cursor = 0 THEN from ELSE start
  /\ IF from < c
     THEN pc' = "fetch" /\ at' = from /\ to' = c - 1 /\ UNCHANGED inbox
     ELSE EndScan
Scanning(from, c, cur) ==
  /\ cursor' = cur
  /\ start' = IF cursor = 0 THEN from ELSE start
  /\ IF from <= c
     THEN pc' = "fetch" /\ at' = from /\ to' = c /\ UNCHANGED inbox
     ELSE EndScan

\* scan: the height stays where it is until the scan is over, and goes back
\* with that of the node.
OntAsk(c) ==
  /\ kind = "ont" /\ pc = "ask"
  /\ LET from == IF cursor = 0 THEN c ELSE cursor
     IN  Scanning(from, c, IF from <= c THEN from ELSE c + 1)
  /\ calm' = (calm /\ c >= cursor - 1)
  /\ UNCHANGED <<chainVars, batch, senders, delivered, subVars>>

IritaAsk(c) ==
  /\ kind = "birita" /\ pc = "ask"
  /\ LET from == IF cursor = 0 THEN c ELSE cursor + 1
     IN  Scanning(from, c, from - 1)
  /\ UNCHANGED <<chainVars, batch, senders, delivered, calm, subVars>>

\* poll: blocks, the difference, is huge if the height of the node went back.
IotexAsk(c) ==
  /\ kind = "iotex" /\ pc = "ask"
  /\ LET blocks == (c - cursor) % Modulus
         from   == IF blocks < Range THEN cursor + 1 ELSE c
     IN  /\ Scanning(from, c, cursor)
         /\ calm' = (calm /\ c >= cursor /\ (cursor = 0 \/ from = cursor + 1))
  /\ UNCHANGED <<chainVars, batch, senders, delivered, subVars>>

\* monitor: the node may stream the head it has first.
TezosMonitor ==
  /\ kind = "tezos" /\ pc = "ask"
  /\ inbox' \in {<<head>>, << >>}
  /\ pc' = "read"
  /\ UNCHANGED <<chainVars, cursor, at, to, batch, senders, delivered, start, calm, subVars>>

\* The next line of the stream.
TezosHead ==
  /\ kind = "tezos" /\ pc = "read" /\ inbox # << >>
  /\ at' = Head(inbox) /\ to' = Head(inbox)
  /\ inbox' = Tail(inbox)
  /\ pc' = "fetch"
  /\ start' = IF cursor = 0 THEN Head(inbox) ELSE start
  /\ UNCHANGED <<chainVars, cursor, batch, senders, delivered, calm, subVars>>

\* The stream ends.
TezosLost ==
  /\ kind = "tezos" /\ pc = "read"
  /\ EndScan
  /\ calm' = FALSE
  /\ UNCHANGED <<chainVars, cursor, batch, senders, delivered, start, subVars>>

\* The node does not answer: the next scan asks again.
AskFails ==
  /\ pc = "ask"
  /\ pc' = "end"
  /\ UNCHANGED <<chainVars, inbox, cursor, at, to, batch, senders, delivered, start, calm, subVars>>

-----------------------------------------------------------------------------
(* The requests of a block                                                 *)

Sending(S) ==
  /\ batch' = S
  /\ pc' = "send"
  /\ UNCHANGED <<inbox, cursor, at, to, senders>>

\* parseOntEvent leaves out what it cannot parse.
OntBlock ==
  /\ kind = "ont" /\ pc = "fetch"
  /\ Sending({i \in In(at) : chain[i].ok})
  /\ UNCHANGED <<chainVars, delivered, start, calm, subVars>>

\* parseServiceRequests returns at a malformed event, and leaves out the
\* requests it cannot query.
IritaBlock ==
  /\ kind = "birita" /\ pc = "fetch"
  /\ LET before == {i \in In(at) : \A j \in In(at) : j <= i => chain[j].ok}
     IN  \E queried \in SUBSET before :
           /\ Sending(queried)
           /\ calm' = (calm /\ queried = In(at))
  /\ UNCHANGED <<chainVars, delivered, start, subVars>>

\* poll moves the height; a malformed log loses the events of all; they are
\* sent by another goroutine.  Unsubscribe cancels the request.
IotexBlocks ==
  /\ kind = "iotex" /\ pc = "fetch" /\ ~done
  /\ cursor' = to
  /\ EndScan
  /\ IF Malformed(Between(at, to))
     THEN calm' = FALSE /\ UNCHANGED senders
     ELSE /\ \E k \in DOMAIN senders :
               /\ senders[k] = {} /\ \A m \in 1..(k - 1) : senders[m] # {}
               /\ senders' = [senders EXCEPT ![k] = Between(at, to)]
          /\ UNCHANGED calm
  /\ UNCHANGED <<chainVars, batch, delivered, start, subVars>>

\* extractEventsFromBlock: getSuccessfulRequestCall returns the first request of
\* each content only; a malformed one loses the events of the block and ends the
\* stream.
TezosBlock ==
  /\ kind = "tezos" /\ pc = "fetch"
  /\ IF Malformed(In(at))
     THEN EndScan /\ calm' = FALSE /\ UNCHANGED <<batch, cursor, senders>>
     ELSE Sending({i \in In(at) : chain[i].first}) /\ UNCHANGED calm
  /\ UNCHANGED <<chainVars, delivered, start, subVars>>

\* scanByRange asks for the block again at once, and again, without a look at
\* done.
IritaFails ==
  /\ kind = "birita" /\ pc = "fetch"
  /\ pc' = "retry"
  /\ UNCHANGED <<chainVars, inbox, cursor, at, to, batch, senders, delivered, start, calm, subVars>>

IritaRetry ==
  /\ pc = "retry"
  /\ pc' = "fetch"
  /\ UNCHANGED <<chainVars, inbox, cursor, at, to, batch, senders, delivered, start, calm, subVars>>

\* The block is not to be had.
Unfetched(cur) ==
  /\ pc = "fetch" /\ kind # "birita"
  /\ EndScan
  /\ cursor' = cur
  /\ calm' = (calm /\ kind = "iotex")
  /\ UNCHANGED <<chainVars, batch, senders, delivered, start, subVars>>

\* Mutant of FetchFails: the scan is over all the same.
FetchFailsForgotten == Unfetched(IF kind = "ont" THEN to + 1 ELSE cursor)
FetchFails == Unfetched(cursor)

\* events <- event; on a closed channel it panics.
Send(i) ==
  /\ pc = "send"
  /\ i \in batch /\ \A j \in batch : i <= j
  /\ IF channel = "open"
     THEN batch' = batch \ {i} /\ delivered' = delivered \cup {i} /\ UNCHANGED pc
     ELSE pc' = "crashed" /\ UNCHANGED <<batch, delivered>>
  /\ UNCHANGED <<chainVars, inbox, cursor, at, to, senders, start, calm, subVars>>

SenderSends(k, i) ==
  /\ pc # "crashed"
  /\ i \in senders[k] /\ \A j \in senders[k] : i <= j
  /\ IF channel = "open"
     THEN /\ senders' = [senders EXCEPT ![k] = @ \ {i}]
          /\ delivered' = delivered \cup {i}
          /\ UNCHANGED pc
     ELSE pc' = "crashed" /\ UNCHANGED <<senders, delivered>>
  /\ UNCHANGED <<chainVars, inbox, cursor, at, to, batch, start, calm, subVars>>

-----------------------------------------------------------------------------
(* The end of a block and of a scan                                        *)

Scanned(next, last) ==
  /\ pc = "send" /\ batch = {}
  /\ IF at < to
     THEN pc' = "fetch" /\ at' = at + 1 /\ cursor' = next /\ UNCHANGED <<to, inbox>>
     ELSE EndScan /\ cursor' = last
  /\ UNCHANGED <<chainVars, batch, senders, delivered, start, calm, subVars>>

\* Mutant of OntNext: the last block is scanned again.
OntNextAgain == kind = "ont" /\ Scanned(cursor, to)
OntNext == kind = "ont" /\ Scanned(cursor, to + 1)

IritaNext == kind = "birita" /\ Scanned(at, at)

TezosNext ==
  /\ kind = "tezos" /\ pc = "send" /\ batch = {}
  /\ cursor' = at
  /\ pc' = "read"
  /\ at' = 0 /\ to' = 0
  /\ UNCHANGED <<chainVars, inbox, batch, senders, delivered, start, calm, subVars>>

\* Another scan.  Nobody tells the goroutine of tezos.go that it is done: its
\* subscription is a copy.
Wake ==
  /\ pc = "end"
  /\ done => kind = "tezos"
  /\ pc' = "ask"
  /\ UNCHANGED <<chainVars, inbox, cursor, at, to, batch, senders, delivered, start, calm, subVars>>

\* Mutant of Stop: it looks only before the events channel is closed.
StopEarly ==
  /\ pc = "end" /\ done /\ kind # "tezos" /\ channel = "open"
  /\ pc' = "gone"
  /\ UNCHANGED <<chainVars, inbox, cursor, at, to, batch, senders, delivered, start, calm, subVars>>
Stop ==
  /\ pc = "end" /\ done /\ kind # "tezos"
  /\ pc' = "gone"
  /\ UNCHANGED <<chainVars, inbox, cursor, at, to, batch, senders, delivered, start, calm, subVars>>

-----------------------------------------------------------------------------
\* Service.closeSubscription: Unsubscribe, then close the channel.
Unsubscribe ==
  /\ ~done /\ pc # "crashed"
  /\ done' = TRUE
  /\ UNCHANGED <<chainVars, inbox, cursor, at, to, pc, batch, senders, delivered, start, calm, channel>>

CloseChannel ==
  /\ done /\ channel = "open" /\ pc # "crashed"
  /\ channel' = "closed"
  /\ UNCHANGED <<chainVars, inbox, cursor, at, to, pc, batch, senders, delivered, start, calm, done>>

-----------------------------------------------------------------------------
Ask(c) == OntAsk(c) \/ IritaAsk(c) \/ IotexAsk(c) \/ (c = head /\ TezosMonitor)
Fetch == OntBlock \/ IritaBlock \/ IotexBlocks \/ TezosBlock

Scan ==
  \/ \E c \in 1..head : Ask(c)
  \/ TezosHead \/ AskFails
  \/ Fetch \/ FetchFails \/ IritaFails \/ IritaRetry
  \/ \E i \in batch : Send(i)
  \/ OntNext \/ IritaNext \/ TezosNext
  \/ Wake \/ Stop

Sender == \E k \in DOMAIN senders : \E i \in senders[k] : SenderSends(k, i)

Next ==
  \/ \E c \in Contents : NewBlock(c)
  \/ Scan \/ Sender
  \/ TezosLost
  \/ Unsubscribe \/ CloseChannel

Spec == Init /\ [][Next]_vars

\* The goroutines run, and a node asked again and again tells its height.
FairSpec ==
  /\ Spec
  /\ WF_vars(Scan)
  /\ WF_vars(Sender)
  /\ SF_vars(Ask(head))

-----------------------------------------------------------------------------
(* Properties                                                              *)

TypeOK ==
  /\ kind \in Kinds
  /\ head \in 1..MaxHeight
  /\ chain \in Seq([block : Nat, ok : BOOLEAN, first : BOOLEAN])
  /\ inbox \in Seq(1..head)
  /\ {cursor, at, to, start} \subseteq 0..(MaxHeight + 1)
  /\ pc \in {"ask", "read", "fetch", "retry", "send", "end", "gone", "crashed"}
  /\ batch \subseteq DOMAIN chain
  /\ senders \in [1..MaxSenders -> SUBSET DOMAIN chain]
  /\ delivered \subseteq DOMAIN chain
  /\ calm \in BOOLEAN /\ done \in BOOLEAN
  /\ channel \in {"open", "closed"}

\* What may still be sent.
UnderWay == batch \cup UNION {senders[k] : k \in DOMAIN senders}

\* Whatever fails, BSN-IRITA sends an event once and in the order of the chain.
\* So do the others as long as no block fails (ont), no height goes back
\* (ont, iotex) and the stream lasts (tezos); iotex.go may change the order.
OnceEach ==
  kind = "birita" \/ calm =>
    /\ \A i \in delivered, j \in batch : i < j
    /\ \A k \in DOMAIN senders :
         /\ senders[k] \cap delivered = {}
         /\ \A m \in DOMAIN senders : m # k => senders[k] \cap senders[m] = {}

\* The blocks that are behind the goroutine.
Behind == IF kind = "ont" THEN cursor - 1 ELSE cursor

\* The requests an event is made of: tezos.go looks at the first of a content
\* only, and silently leaves out those after it.
Eventful(i) == chain[i].ok /\ chain[i].first

\* Whatever fails and wherever heights go, Ontology leaves out no request of a
\* block it has passed.  Nor do the others as long as nothing is malformed, no
\* query fails (birita), fewer than Range blocks come between two polls and no
\* height goes back (iotex), and the stream lasts (tezos, for the first request
\* of each content).
NoneLeftOut ==
  kind = "ont" \/ calm =>
    \A i \in DOMAIN chain :
      Eventful(i) /\ start > 0 /\ chain[i].block \in start..Behind => i \in delivered \cup UnderWay

\* A request in the blocks to be scanned, for as long as the conditions above
\* hold and nobody unsubscribes.
Owed(i) ==
  /\ i \in DOMAIN chain \ delivered
  /\ Eventful(i) /\ start \in 1..chain[i].block
  /\ kind = "ont" \/ calm
  /\ ~done

\* Each of them reaches the consumer, once blocks fail and heights go back no more.
EachDelivered ==
  <>[][~FetchFails /\ ~IritaFails /\ cursor' >= cursor]_vars => \A i \in 1..MaxLogs : Owed(i) ~> ~Owed(i)

\* Unsubscribe ends the goroutine, or closeSubscription makes one panic: but
\* that of tezos.go is never told, and that of bsn-irita.go hears of it only once
\* the node has the blocks of its scan.
UnsubscribeStops ==
  <>[][~IritaFails]_vars => ((done /\ kind # "tezos") ~> pc \in {"gone", "crashed"})

-----------------------------------------------------------------------------
(* The inductive invariant of the proofs                                   *)

\* Requests are on the chain in the order of their blocks.
Sorted ==
  /\ \A i \in DOMAIN chain : chain[i].block \in 1..head
  /\ \A i, j \in DOMAIN chain : i < j => chain[i].block <= chain[j].block

\* What the goroutine holds at each of its stages.
Stages ==
  /\ to \in 0..head /\ at \in 0..to
  /\ cursor <= IF kind = "ont" THEN head + 1 ELSE head
  /\ pc \in {"ask", "read", "end", "gone"} => at = 0
  /\ pc \in {"fetch", "retry", "send"} => at > 0
  /\ pc = "retry" => kind = "birita"
  /\ pc \notin {"send", "crashed"} => batch = {}
  /\ batch \subseteq In(at)
  /\ IF kind = "iotex" THEN pc # "send" /\ batch = {}
     ELSE \A k \in DOMAIN senders : senders[k] = {}

\* Where a scan is, as seen from the height that is kept.
Position ==
  at > 0 =>
    /\ kind = "ont" => cursor \in 1..at
    /\ kind = "birita" => cursor = at - 1
    /\ kind \in {"iotex", "tezos"} /\ calm => IF cursor = 0 THEN start = at ELSE at = cursor + 1

\* A stream that lasts has no gaps: it leads from the block in hand to the head.
Stream ==
  kind = "tezos" /\ calm =>
    /\ pc \in {"ask", "end"} => cursor = 0
    /\ Listening =>
         /\ \A k \in DOMAIN inbox : inbox[k] = head - Len(inbox) + k
         /\ at > 0 => at = head - Len(inbox)
         /\ at = 0 /\ cursor > 0 => cursor = head - Len(inbox)

\* The last block whose requests are no longer to be fetched.
Reached ==
  IF at = 0 \/ kind = "iotex" THEN Behind
  ELSE IF pc \in {"send", "crashed"} THEN at ELSE at - 1

\* Nothing was taken from blocks ahead, and everything from those behind.
NothingAhead ==
  kind = "birita" \/ calm => \A i \in delivered \cup UnderWay : chain[i].block <= Reached
EverythingBehind ==
  kind = "ont" \/ calm =>
    \A i \in DOMAIN chain :
      Eventful(i) /\ start > 0 /\ chain[i].block \in start..Reached => i \in delivered \cup UnderWay

IInv ==
  /\ TypeOK
  /\ Sorted
  /\ Stages
  /\ Position
  /\ Stream
  /\ NothingAhead
  /\ EverythingBehind
  /\ OnceEach
=============================================================================
