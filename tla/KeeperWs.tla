------------------------------ MODULE KeeperWs ------------------------------
(***************************************************************************)
(* A keeper job on a WebSocket endpoint, blockchain/keeper.go: the         *)
(* goroutine of subscribeToNewHeadsWithRetry and the node.  The answer to  *)
(* an eth_call comes on the same connection as the heads and is matched to *)
(* no call: it counts for the head read last.  subscribeToNewHeads has a   *)
(* value receiver, so each connection starts from the zeros of             *)
(* SubscribeToEvents.                                                      *)
(***************************************************************************)
EXTENDS Integers, Sequences

CONSTANTS
  Cooldown,   \* RuntimeConfig.KeeperBlockCooldown, from the command line
  MaxHeight,  \* bound: blocks on the chain
  MaxInbox    \* bound: messages on their way

VARIABLES
  head,             \* the chain: its latest block
  conn,             \* "down" here, "up", or "lost" and not noticed yet
  calm,             \* history: no connection was lost, no head came before an answer
  calls,            \* eth_calls the node has not answered
  inbox,            \* messages of this connection that are not read yet
  pc,               \* the goroutine: "dial", "read", "call", "send", "crashed"
  first,            \* no message of this connection was read yet
  blockHeight,      \* the height of the head read last
  lastInitiatedRun, \* the height of the latest run of this connection
  sent,             \* the height of the latest run the consumer received
  isDone,           \* sub.isDone, which the goroutine's copies do not share
  channel           \* the events channel, "open" or "closed"

netVars  == <<head, conn, calm, calls, inbox>>
loopVars == <<pc, first, blockHeight, lastInitiatedRun, sent>>
subVars  == <<isDone, channel>>

NewHead(h) == [kind |-> "head", height |-> h]
Id == [kind |-> "id"]
Due == [kind |-> "due"]
NotDue == [kind |-> "notdue"]
Answers == {Due, NotDue}
Messages == {NewHead(h) : h \in 0..MaxHeight} \cup Answers \cup {Id}

\* SubscribeToEvents
Init ==
  /\ head = 0
  /\ conn = "down"
  /\ calm = TRUE
  /\ calls = 0
  /\ inbox = << >>
  /\ pc = "dial"
  /\ first = TRUE
  /\ blockHeight = 0
  /\ lastInitiatedRun = 0
  /\ sent = 0
  /\ isDone = FALSE
  /\ channel = "open"

IsCooldownDone(height) == Cooldown <= height - lastInitiatedRun

-----------------------------------------------------------------------------
(* subscribeToNewHeads                                                     *)

\* Dial and eth_subscribe, on a new copy of the subscription.
Dial ==
  /\ pc = "dial"
  /\ conn' = "up"
  /\ calls' = 0
  /\ inbox' = <<Id>>
  /\ pc' = "read"
  /\ first' = TRUE
  /\ blockHeight' = 0
  /\ lastInitiatedRun' = 0
  /\ UNCHANGED <<head, calm, sent, subVars>>

\* The connection is lost: subscribeToNewHeads returns, and five seconds later
\* subscribeToNewHeadsWithRetry, whose copy of isDone is FALSE, dials again.
Return(next) ==
  /\ pc \in {"read", "call"}
  /\ conn = "lost"
  /\ conn' = "down"
  /\ pc' = next
  /\ UNCHANGED <<head, calm, calls, inbox, first, blockHeight, lastInitiatedRun, sent, subVars>>

\* Mutant of Lost: the error ends the subscription.
LostForGood == Return("stopped")
Lost == Return("dial")

\* ReadMessage returns the next message.
ReadMessage ==
  /\ pc = "read"
  /\ inbox # << >>
  /\ inbox' = Tail(inbox)
  /\ UNCHANGED <<head, conn, calm, calls, sent, subVars>>

\* The first message is skipped.
ReadFirst ==
  /\ first
  /\ ReadMessage
  /\ first' = FALSE
  /\ UNCHANGED <<pc, blockHeight, lastInitiatedRun>>

\* handleWsSubscriptionMessage
ReadHead ==
  /\ ReadMessage
  /\ ~first /\ Head(inbox).kind = "head"
  /\ blockHeight' = Head(inbox).height
  /\ pc' = IF IsCooldownDone(Head(inbox).height) THEN "call" ELSE "read"
  /\ UNCHANGED <<first, lastInitiatedRun>>

\* The eth_call of checkUpkeep is written.
WriteCall ==
  /\ pc = "call"
  /\ conn = "up"
  /\ calls' = calls + 1
  /\ pc' = "read"
  /\ UNCHANGED <<head, conn, calm, inbox, first, blockHeight, lastInitiatedRun, sent, subVars>>

\* handleWsMessage: a due upkeep is a run of the head read last.
AnswerRead(initiated) ==
  /\ ReadMessage
  /\ ~first
  /\ \/ /\ Head(inbox) = Due
        /\ lastInitiatedRun' = initiated
        /\ pc' = "send"
     \/ /\ Head(inbox) = NotDue
        /\ UNCHANGED <<pc, lastInitiatedRun>>
  /\ UNCHANGED <<first, blockHeight>>

\* Mutant of ReadAnswer: updateLastInitiatedRun is left out.
ReadAnswerForgotten == AnswerRead(lastInitiatedRun)
ReadAnswer == AnswerRead(blockHeight)

\* keeper.events <- event; on a closed channel it panics.
Send ==
  /\ pc = "send"
  /\ \/ /\ channel = "open"
        /\ sent' = blockHeight
        /\ pc' = "read"
     \/ /\ channel = "closed"
        /\ pc' = "crashed"
        /\ UNCHANGED sent
  /\ UNCHANGED <<netVars, first, blockHeight, lastInitiatedRun, subVars>>

-----------------------------------------------------------------------------
\* Service.closeSubscription: Unsubscribe, then close the channel.
Unsubscribe ==
  /\ pc # "crashed" /\ ~isDone
  /\ isDone' = TRUE
  /\ UNCHANGED <<netVars, loopVars, channel>>

CloseChannel ==
  /\ pc # "crashed" /\ isDone /\ channel = "open"
  /\ channel' = "closed"
  /\ UNCHANGED <<netVars, loopVars, isDone>>

-----------------------------------------------------------------------------
(* The node                                                                *)

\* The keeper is busy with a head.
Answering == calls > 0 \/ pc \in {"call", "send"} \/ \E i \in DOMAIN inbox : inbox[i].kind # "id"

\* The chain grows; a connection that is up is told.
NewBlock ==
  /\ head < MaxHeight /\ Len(inbox) < MaxInbox
  /\ head' = head + 1
  /\ calm' = (calm /\ ~Answering)
  /\ inbox' = IF conn = "up" THEN Append(inbox, NewHead(head + 1)) ELSE inbox
  /\ UNCHANGED <<conn, calls, loopVars, subVars>>

Answer ==
  /\ conn = "up" /\ calls > 0 /\ Len(inbox) < MaxInbox
  /\ calls' = calls - 1
  /\ \E answer \in Answers : inbox' = Append(inbox, answer)
  /\ UNCHANGED <<head, conn, calm, loopVars, subVars>>

Break ==
  /\ conn = "up"
  /\ conn' = "lost"
  /\ calm' = FALSE
  /\ UNCHANGED <<head, calls, inbox, loopVars, subVars>>

-----------------------------------------------------------------------------
SubscribeToNewHeads ==
  \/ Dial \/ Lost
  \/ ReadFirst \/ ReadHead \/ ReadAnswer
  \/ WriteCall
  \/ Send

-----------------------------------------------------------------------------
(* What the properties of Keeper are built from                             *)

TypeOK ==
  /\ head \in 0..MaxHeight
  /\ conn \in {"down", "up", "lost"}
  /\ calm \in BOOLEAN
  /\ calls \in Nat
  /\ inbox \in Seq(Messages)
  /\ pc \in {"dial", "read", "call", "send", "crashed"}
  /\ first \in BOOLEAN
  /\ blockHeight \in 0..head
  /\ lastInitiatedRun \in 0..blockHeight
  /\ sent \in 0..head
  /\ isDone \in BOOLEAN
  /\ channel \in {"open", "closed"}

\* Heads come in order, and none that is read is behind the one before.
HeadsInOrder ==
  \A i \in DOMAIN inbox : inbox[i].kind = "head" =>
    /\ blockHeight < inbox[i].height /\ inbox[i].height <= head
    /\ \A j \in DOMAIN inbox : j < i /\ inbox[j].kind = "head" => inbox[j].height < inbox[i].height

\* While calm, a connection carries one thing at a time after its id: a head,
\* or the call it caused, or the answer, or the run; and what is sent is what
\* was counted.
OneAtATime ==
  /\ conn = "down" => pc = "dial" /\ sent = 0 /\ calls = 0 /\ inbox = << >>
  /\ conn = "up" => pc # "dial" /\ calls \in {0, 1}
  /\ conn # "lost"
  /\ conn = "up" /\ first =>
        /\ pc = "read" /\ calls = 0 /\ sent = 0 /\ blockHeight = 0
        /\ Len(inbox) \in {1, 2} /\ inbox[1] = Id
        /\ Len(inbox) = 2 => inbox[2].kind = "head"
  /\ conn = "up" /\ ~first =>
        /\ Len(inbox) \in {0, 1}
        /\ Len(inbox) = 1 => inbox[1].kind # "id" /\ calls = 0 /\ pc \in {"read", "crashed"}
        /\ pc \in {"call", "send"} => calls = 0
  /\ pc = "call" \/ calls > 0 \/ (inbox # << >> /\ inbox[1] \in Answers) =>
        blockHeight > lastInitiatedRun /\ IsCooldownDone(blockHeight)
  /\ pc = "send" => /\ lastInitiatedRun = blockHeight
                    /\ blockHeight > sent
                    /\ Cooldown <= blockHeight - sent
  /\ pc \notin {"send", "crashed"} => sent = lastInitiatedRun

\* The heads of a connection are read.
Subscribed == conn = "up" /\ pc # "dial" /\ ~first

Schedule == INSTANCE Cooldown WITH lastRun <- sent

\* While connections last and the node answers each eth_call before it
\* announces the next block, runs respect the cooldown.
CooldownKept == [][calm => Schedule!Next]_sent
=============================================================================
