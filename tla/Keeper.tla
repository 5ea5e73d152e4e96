------------------------------- MODULE Keeper -------------------------------
(***************************************************************************)
(* A keeper job, blockchain/keeper.go: SubscribeToEvents starts one of two *)
(* goroutines, by the connection of its endpoint.  KeeperRpc asks an HTTP  *)
(* endpoint again and again, KeeperWs listens on a WebSocket; each has its *)
(* own loop over the same fields of the subscription.                      *)
(***************************************************************************)
EXTENDS Integers, Sequences

CONSTANTS
  Cooldown,   \* RuntimeConfig.KeeperBlockCooldown, from the command line
  MaxHeight,  \* bound: blocks on the chain
  MaxInbox    \* bound: messages on their way from a WebSocket

ASSUME KeeperConstants ==
  /\ Cooldown \in Int
  /\ MaxHeight \in Nat
  /\ MaxInbox \in Nat

VARIABLES
  connection,                                           \* of the endpoint: "rpc" or "ws"
  head,                                                 \* the chain
  pc, blockHeight, lastInitiatedRun, sent,              \* either goroutine
  isDone, channel,                                      \* Service.closeSubscription
  conn, calm, calls, inbox, first                       \* the WebSocket

Rpc == INSTANCE KeeperRpc
Ws  == INSTANCE KeeperWs

socketVars == <<conn, calm, calls, inbox, first>>
vars == <<connection, Rpc!vars, socketVars>>

-----------------------------------------------------------------------------
Init ==
  \/ /\ connection = "rpc"
     /\ Rpc!Init
     /\ conn = "down" /\ calm = TRUE /\ calls = 0 /\ inbox = << >> /\ first = TRUE
  \/ /\ connection = "ws"
     /\ Ws!Init

\* queryUntilDone
RpcHead   == connection = "rpc" /\ Rpc!GetHeight(head) /\ UNCHANGED <<connection, socketVars>>
RpcQuery  == connection = "rpc" /\ Rpc!Query /\ UNCHANGED <<connection, socketVars>>
\* Its surroundings.
RpcOthers ==
  /\ connection = "rpc"
  /\ Rpc!Unsubscribe \/ Rpc!CloseChannel \/ Rpc!NewBlock
  /\ UNCHANGED <<connection, socketVars>>

\* subscribeToNewHeadsWithRetry
WsSubscribe == connection = "ws" /\ Ws!SubscribeToNewHeads /\ UNCHANGED connection
WsBreak     == connection = "ws" /\ Ws!Break /\ UNCHANGED connection
WsOthers    ==
  /\ connection = "ws"
  /\ Ws!Unsubscribe \/ Ws!CloseChannel \/ Ws!NewBlock \/ Ws!Answer
  /\ UNCHANGED connection

Next == RpcQuery \/ RpcOthers \/ WsSubscribe \/ WsBreak \/ WsOthers

Spec == Init /\ [][Next]_vars

\* The goroutines run.  A node asked for its head again and again reports it
\* again and again; a WebSocket that is lost is noticed in the end, and dialled
\* until that succeeds.  Nobody has to unsubscribe, no upkeep has to be due.
FairSpec ==
  /\ Spec
  /\ WF_vars(RpcQuery)
  /\ SF_vars(RpcHead)
  /\ WF_vars(WsSubscribe)

-----------------------------------------------------------------------------
(* Properties                                                              *)

TypeOK ==
  /\ connection \in {"rpc", "ws"}
  /\ connection = "rpc" => Rpc!TypeOK
  /\ connection = "ws" => Ws!TypeOK

\* The inductive invariant of the proofs: types, with the order of the heights
\* seen, counted and sent; over HTTP, what is sent is what was counted; on a
\* WebSocket, heads come in order, and while calm one thing happens at a time.
IInv ==
  /\ TypeOK
  /\ connection = "rpc" => Rpc!Counted
  /\ connection = "ws" => Ws!HeadsInOrder /\ (calm => Ws!OneAtATime)

\* Over HTTP the runs the consumer receives respect the cooldown, however the
\* node's answers go up and down and fail.
Schedule == INSTANCE Cooldown WITH lastRun <- IF connection = "rpc" THEN sent ELSE 0
ImplementsCooldown == Schedule!Spec

\* On a WebSocket they do while connections last and the node answers each
\* eth_call before it announces the next block.
CooldownKept == Ws!CooldownKept

\* Over HTTP each block the chain ends on is looked at: an error of the node,
\* however often it comes, does not end the subscription.
HeadIsSeen ==
  (connection = "rpc" /\ head > blockHeight) ~> (head = blockHeight \/ channel = "closed")

\* After the WebSockets that are lost comes one whose heads are read.
Reconnects ==
  <>[][~WsBreak]_vars => (connection = "rpc" \/ <>([]Ws!Subscribed \/ pc = "crashed"))
=============================================================================
