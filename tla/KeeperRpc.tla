----------------------------- MODULE KeeperRpc ------------------------------
(***************************************************************************)
(* A keeper job on an HTTP endpoint, blockchain/keeper.go: the goroutine   *)
(* of queryUntilDone, the node it asks, and Service.closeSubscription.     *)
(* queryUntilDone has a value receiver: the goroutine works on a copy of   *)
(* the subscription, and Unsubscribe sets isDone on the other one.         *)
(***************************************************************************)
EXTENDS Integers

CONSTANTS
  Cooldown,  \* RuntimeConfig.KeeperBlockCooldown, from the command line
  MaxHeight  \* bound: blocks on the chain

VARIABLES
  head,             \* the chain: its latest block
  pc,               \* queryUntilDone: "height", "call", "send", "sleep", "crashed"
  blockHeight,      \* the latest height seen
  lastInitiatedRun, \* the height of the latest run
  sent,             \* the height of the latest run the consumer received
  isDone,           \* sub.isDone, which the goroutine's copy does not share
  channel           \* the events channel, "open" or "closed"

subVars == <<isDone, channel>>
vars == <<head, pc, blockHeight, lastInitiatedRun, sent, subVars>>

\* SubscribeToEvents
Init ==
  /\ head \in 0..MaxHeight
  /\ pc = "height"
  /\ blockHeight = 0
  /\ lastInitiatedRun = 0
  /\ sent = 0
  /\ isDone = FALSE
  /\ channel = "open"

IsCooldownDone(height) == Cooldown <= height - lastInitiatedRun

-----------------------------------------------------------------------------
(* query                                                                   *)

\* getBlockHeightPost: the node answers with its head, which is behind that
\* of the chain or that of another node before; only a new block counts.
GetHeight(height) ==
  /\ pc = "height"
  /\ IF height > blockHeight
     THEN /\ blockHeight' = height
          /\ pc' = IF IsCooldownDone(height) THEN "call" ELSE "sleep"
     ELSE /\ pc' = "sleep"
          /\ UNCHANGED blockHeight
  /\ UNCHANGED <<head, lastInitiatedRun, sent, subVars>>

NoHeight(next) ==
  /\ pc = "height"
  /\ pc' = next
  /\ UNCHANGED <<head, blockHeight, lastInitiatedRun, sent, subVars>>

\* Mutant of GetHeightFails: the error ends the loop.
GetHeightFailsForGood == NoHeight("stopped")
GetHeightFails == NoHeight("sleep")

\* eth_call of checkUpkeep says that the upkeep is due: the run counts from
\* here, before it is sent.
Due(initiated) ==
  /\ pc = "call"
  /\ lastInitiatedRun' = initiated
  /\ pc' = "send"
  /\ UNCHANGED <<head, blockHeight, sent, subVars>>

\* Mutant of UpkeepDue: updateLastInitiatedRun is left out.
UpkeepDueForgotten == Due(lastInitiatedRun)
UpkeepDue == Due(blockHeight)

\* It is not due, or the call fails.
UpkeepNotDue ==
  /\ pc = "call"
  /\ pc' = "sleep"
  /\ UNCHANGED <<head, blockHeight, lastInitiatedRun, sent, subVars>>

\* keeper.events <- event; on a closed channel it panics.
Send ==
  /\ pc = "send"
  /\ \/ /\ channel = "open"
        /\ sent' = blockHeight
        /\ pc' = "sleep"
     \/ /\ channel = "closed"
        /\ pc' = "crashed"
        /\ UNCHANGED sent
  /\ UNCHANGED <<head, blockHeight, lastInitiatedRun, subVars>>

\* queryUntilDone: the interval has passed; isDone of the copy is FALSE.
NextQuery ==
  /\ pc = "sleep"
  /\ pc' = "height"
  /\ UNCHANGED <<head, blockHeight, lastInitiatedRun, sent, subVars>>

-----------------------------------------------------------------------------
\* Service.closeSubscription: Unsubscribe, then close the channel.
Unsubscribe ==
  /\ pc # "crashed" /\ ~isDone
  /\ isDone' = TRUE
  /\ UNCHANGED <<head, pc, blockHeight, lastInitiatedRun, sent, channel>>

CloseChannel ==
  /\ pc # "crashed" /\ isDone /\ channel = "open"
  /\ channel' = "closed"
  /\ UNCHANGED <<head, pc, blockHeight, lastInitiatedRun, sent, isDone>>

\* The chain grows.
NewBlock ==
  /\ head < MaxHeight
  /\ head' = head + 1
  /\ UNCHANGED <<pc, blockHeight, lastInitiatedRun, sent, subVars>>

Query ==
  \/ \E height \in 0..head : GetHeight(height)
  \/ GetHeightFails
  \/ UpkeepDue \/ UpkeepNotDue
  \/ Send
  \/ NextQuery

-----------------------------------------------------------------------------
(* What the properties of Keeper are built from                             *)

TypeOK ==
  /\ head \in 0..MaxHeight
  /\ pc \in {"height", "call", "send", "sleep", "crashed"}
  /\ blockHeight \in 0..head
  /\ lastInitiatedRun \in 0..blockHeight
  /\ sent \in 0..lastInitiatedRun
  /\ isDone \in BOOLEAN
  /\ channel \in {"open", "closed"}

\* Over HTTP, what is sent is what was counted, and the cooldown is measured from it.
Counted ==
  /\ pc = "call" => blockHeight > lastInitiatedRun /\ IsCooldownDone(blockHeight)
  /\ pc = "send" => /\ lastInitiatedRun = blockHeight
                    /\ blockHeight > sent
                    /\ Cooldown <= blockHeight - sent
  /\ pc # "send" => (sent = lastInitiatedRun \/ pc = "crashed")

=============================================================================
