---------------------------- MODULE Keeper_proofs ----------------------------
(* Proofs about Keeper, for every cooldown and every length of the chain.   *)
EXTENDS Keeper, TLAPS

RpcPart == Rpc!TypeOK /\ Rpc!Counted
WsPart  == Ws!TypeOK /\ Ws!HeadsInOrder /\ (calm => Ws!OneAtATime)

-----------------------------------------------------------------------------
(* The HTTP endpoint                                                       *)

LEMMA RpcInit == Rpc!Init => RpcPart
<1> SUFFICES ASSUME Rpc!Init PROVE RpcPart
  OBVIOUS
<1>1. isDone \in BOOLEAN /\ channel \in {"open", "closed"}
  BY Zenon DEF Rpc!Init
<1>2. head \in 0..MaxHeight /\ pc = "height" /\ blockHeight = 0 /\ lastInitiatedRun = 0 /\ sent = 0
  BY DEF Rpc!Init
<1>3. QED
  BY <1>1, <1>2, KeeperConstants DEF RpcPart, Rpc!TypeOK, Rpc!Counted

\* The steps of queryUntilDone, and of what surrounds it.
RpcStep == Rpc!Query \/ Rpc!Unsubscribe \/ Rpc!CloseChannel \/ Rpc!NewBlock

LEMMA RpcPreserved == ASSUME RpcPart, RpcStep PROVE RpcPart'
<1> USE KeeperConstants DEF RpcPart, Rpc!TypeOK, Rpc!Counted, Rpc!IsCooldownDone, Rpc!subVars
<1>1. ASSUME NEW height \in 0..head, Rpc!GetHeight(height) PROVE RpcPart'
  BY <1>1 DEF Rpc!GetHeight
<1>2. ASSUME Rpc!GetHeightFails \/ Rpc!UpkeepNotDue \/ Rpc!NextQuery PROVE RpcPart'
  BY <1>2 DEF Rpc!GetHeightFails, Rpc!NoHeight, Rpc!UpkeepNotDue, Rpc!NextQuery
<1>3. ASSUME Rpc!UpkeepDue PROVE RpcPart'
  BY <1>3 DEF Rpc!UpkeepDue, Rpc!Due
<1>4. ASSUME Rpc!Send PROVE RpcPart'
  BY <1>4 DEF Rpc!Send
<1>5. ASSUME Rpc!Unsubscribe PROVE RpcPart'
  BY <1>5 DEF Rpc!Unsubscribe
<1>6. ASSUME Rpc!CloseChannel PROVE RpcPart'
  BY <1>6 DEF Rpc!CloseChannel
<1>7. ASSUME Rpc!NewBlock PROVE RpcPart'
  BY <1>7 DEF Rpc!NewBlock
<1>8. QED
  BY <1>1, <1>2, <1>3, <1>4, <1>5, <1>6, <1>7 DEF RpcStep, Rpc!Query

\* Every run the consumer receives is a step of the schedule.
LEMMA RpcKeepsCooldown == ASSUME RpcPart, RpcStep PROVE [Ws!Schedule!Next]_sent
<1>1. CASE Rpc!Send /\ channel = "open"
  BY <1>1, KeeperConstants DEF Rpc!Send, RpcPart, Rpc!TypeOK, Rpc!Counted, Ws!Schedule!Next
<1>2. CASE ~(Rpc!Send /\ channel = "open")
  <2>1. UNCHANGED sent
    BY <1>2 DEF RpcStep, Rpc!Query, Rpc!GetHeight, Rpc!GetHeightFails, Rpc!NoHeight, Rpc!UpkeepDue, Rpc!Due,
      Rpc!UpkeepNotDue, Rpc!Send, Rpc!NextQuery, Rpc!Unsubscribe, Rpc!CloseChannel, Rpc!NewBlock
  <2>2. QED
    BY <2>1
<1>3. QED
  BY <1>1, <1>2

-----------------------------------------------------------------------------
(* The WebSocket                                                           *)

LEMMA MessageFacts ==
  /\ Ws!Id \in Ws!Messages /\ Ws!Due \in Ws!Messages /\ Ws!NotDue \in Ws!Messages
  /\ \A h \in 0..MaxHeight : Ws!NewHead(h) \in Ws!Messages
  /\ \A h \in 0..MaxHeight : Ws!NewHead(h).kind = "head" /\ Ws!NewHead(h).height = h
  /\ Ws!Id.kind = "id" /\ Ws!Due.kind = "due" /\ Ws!NotDue.kind = "notdue"
  /\ \A m \in Ws!Messages : m.kind = "head" => m.height \in 0..MaxHeight
  /\ \A m \in Ws!Messages : m.kind = "id" => m = Ws!Id
  /\ \A m \in Ws!Messages : m.kind \in {"head", "due", "notdue", "id"}
  /\ \A m \in Ws!Answers : m.kind # "head" /\ m.kind # "id"
  BY KeeperConstants DEF Ws!Messages, Ws!Answers, Ws!Id, Ws!Due, Ws!NotDue, Ws!NewHead

LEMMA WsInit == Ws!Init => WsPart
<1> SUFFICES ASSUME Ws!Init PROVE WsPart
  OBVIOUS
<1>1. isDone \in BOOLEAN /\ channel \in {"open", "closed"} /\ calm \in BOOLEAN /\ first \in BOOLEAN
  BY Zenon DEF Ws!Init
<1>2. /\ head = 0 /\ conn = "down" /\ calls = 0 /\ inbox = << >> /\ pc = "dial"
      /\ blockHeight = 0 /\ lastInitiatedRun = 0 /\ sent = 0
  BY DEF Ws!Init
<1>3. Ws!TypeOK
  BY <1>1, <1>2, KeeperConstants DEF Ws!TypeOK
<1>4. Ws!HeadsInOrder /\ Ws!OneAtATime
  BY <1>2 DEF Ws!HeadsInOrder, Ws!OneAtATime
<1>5. QED
  BY <1>3, <1>4 DEF WsPart

\* The steps of the goroutine, of the node and of the service.
WsStep == Ws!SubscribeToNewHeads \/ Ws!Break \/ Ws!Unsubscribe \/ Ws!CloseChannel \/ Ws!NewBlock \/ Ws!Answer

LEMMA WsTypes == ASSUME WsPart, WsStep PROVE Ws!TypeOK'
<1> USE KeeperConstants DEF WsPart, Ws!TypeOK, Ws!netVars, Ws!loopVars, Ws!subVars
<1>1. CASE Ws!Dial
  <2>1. <<Ws!Id>> \in Seq(Ws!Messages)
    BY MessageFacts
  <2>2. QED
    BY <1>1, <2>1 DEF Ws!Dial
<1>2. CASE Ws!Lost
  BY <1>2 DEF Ws!Lost, Ws!Return
<1>3. ASSUME Ws!ReadMessage PROVE inbox' \in Seq(Ws!Messages) /\ Head(inbox) \in Ws!Messages
  BY <1>3 DEF Ws!ReadMessage
<1>4. CASE Ws!ReadFirst
  BY <1>3, <1>4 DEF Ws!ReadFirst, Ws!ReadMessage
<1>5. CASE Ws!ReadHead
  <2>1. Head(inbox) = inbox[1] /\ 1 \in DOMAIN inbox
    BY <1>5 DEF Ws!ReadHead, Ws!ReadMessage
  <2>2. blockHeight < Head(inbox).height /\ Head(inbox).height <= head
    BY <1>5, <2>1 DEF Ws!ReadHead, Ws!HeadsInOrder
  <2>3. Head(inbox).height \in 0..MaxHeight
    BY <1>3, <1>5, MessageFacts DEF Ws!ReadHead
  <2>4. QED
    BY <1>3, <1>5, <2>2, <2>3 DEF Ws!ReadHead, Ws!ReadMessage
<1>6. CASE Ws!ReadAnswer
  BY <1>3, <1>6 DEF Ws!ReadAnswer, Ws!AnswerRead, Ws!ReadMessage
<1>7. CASE Ws!WriteCall
  BY <1>7 DEF Ws!WriteCall
<1>8. CASE Ws!Send
  BY <1>8 DEF Ws!Send
<1>9. CASE Ws!Break \/ Ws!Unsubscribe \/ Ws!CloseChannel
  BY <1>9 DEF Ws!Break, Ws!Unsubscribe, Ws!CloseChannel
<1>10. CASE Ws!NewBlock
  <2>1. head + 1 \in 0..MaxHeight
    BY <1>10 DEF Ws!NewBlock
  <2>2. inbox' \in Seq(Ws!Messages)
    BY <1>10, <2>1, MessageFacts DEF Ws!NewBlock
  <2>3. calm' \in BOOLEAN
    BY <1>10, Zenon DEF Ws!NewBlock
  <2>4. QED
    BY <1>10, <2>1, <2>2, <2>3 DEF Ws!NewBlock
<1>11. CASE Ws!Answer
  <2>1. inbox' \in Seq(Ws!Messages)
    BY <1>11, MessageFacts DEF Ws!Answer, Ws!Answers
  <2>2. QED
    BY <1>11, <2>1 DEF Ws!Answer
<1>12. QED
  BY <1>1, <1>2, <1>4, <1>5, <1>6, <1>7, <1>8, <1>9, <1>10, <1>11 DEF WsStep, Ws!SubscribeToNewHeads

LEMMA WsOrder == ASSUME WsPart, WsStep PROVE Ws!HeadsInOrder'
<1> USE KeeperConstants DEF WsPart, Ws!TypeOK, Ws!HeadsInOrder, Ws!netVars, Ws!loopVars, Ws!subVars
<1>1. CASE Ws!Dial
  BY <1>1, MessageFacts DEF Ws!Dial
<1>2. CASE Ws!Lost \/ Ws!WriteCall \/ Ws!Send \/ Ws!Break \/ Ws!Unsubscribe \/ Ws!CloseChannel
  BY <1>2 DEF Ws!Lost, Ws!Return, Ws!WriteCall, Ws!Send, Ws!Break, Ws!Unsubscribe, Ws!CloseChannel
<1>3. ASSUME Ws!ReadMessage
      PROVE /\ \A i \in DOMAIN inbox' : i \in Nat \ {0} /\ i + 1 \in DOMAIN inbox /\ inbox'[i] = inbox[i + 1]
            /\ 1 \in DOMAIN inbox /\ Head(inbox) = inbox[1]
            /\ UNCHANGED head
  BY <1>3 DEF Ws!ReadMessage
<1>4. CASE Ws!ReadFirst \/ Ws!ReadAnswer
  <2>1. SUFFICES ASSUME NEW i \in DOMAIN inbox', inbox'[i].kind = "head"
                 PROVE  /\ blockHeight' < inbox'[i].height /\ inbox'[i].height <= head'
                        /\ \A j \in DOMAIN inbox' : j < i /\ inbox'[j].kind = "head" => inbox'[j].height < inbox'[i].height
    OBVIOUS
  <2>2. \A j \in DOMAIN inbox' : j \in Nat \ {0} /\ j + 1 \in DOMAIN inbox /\ inbox'[j] = inbox[j + 1]
    BY <1>3, <1>4 DEF Ws!ReadFirst, Ws!ReadAnswer, Ws!AnswerRead
  <2>3. head' = head /\ blockHeight' = blockHeight
    BY <1>3, <1>4 DEF Ws!ReadFirst, Ws!ReadAnswer, Ws!AnswerRead
  <2>4. blockHeight' < inbox'[i].height /\ inbox'[i].height <= head'
    BY <2>1, <2>2, <2>3
  <2>5. ASSUME NEW j \in DOMAIN inbox', j < i, inbox'[j].kind = "head" PROVE inbox'[j].height < inbox'[i].height
    BY <2>1, <2>2, <2>5
  <2>6. QED
    BY <2>4, <2>5
<1>5. CASE Ws!ReadHead
  <2>1. blockHeight' = inbox[1].height /\ inbox[1].kind = "head"
    BY <1>3, <1>5 DEF Ws!ReadHead
  <2>2. SUFFICES ASSUME NEW i \in DOMAIN inbox', inbox'[i].kind = "head"
                 PROVE  /\ blockHeight' < inbox'[i].height /\ inbox'[i].height <= head'
                        /\ \A j \in DOMAIN inbox' : j < i /\ inbox'[j].kind = "head" => inbox'[j].height < inbox'[i].height
    OBVIOUS
  <2>3. i \in Nat \ {0} /\ i + 1 \in DOMAIN inbox /\ inbox'[i] = inbox[i + 1] /\ 1 \in DOMAIN inbox /\ head' = head /\ 1 < i + 1
    BY <1>3, <1>5 DEF Ws!ReadHead
  <2>4. \A j \in DOMAIN inbox' : j \in Nat /\ j + 1 \in DOMAIN inbox /\ inbox'[j] = inbox[j + 1]
    BY <1>3, <1>5 DEF Ws!ReadHead
  <2>5. blockHeight' < inbox'[i].height /\ inbox'[i].height <= head'
    BY <2>1, <2>2, <2>3
  <2>6. ASSUME NEW j \in DOMAIN inbox', j < i, inbox'[j].kind = "head" PROVE inbox'[j].height < inbox'[i].height
    BY <2>2, <2>3, <2>4, <2>6
  <2>7. QED
    BY <2>5, <2>6
<1>6. CASE Ws!NewBlock
  <2>1. CASE conn = "up"
    <3>1. head' = head + 1 /\ head + 1 \in 0..MaxHeight /\ inbox' = Append(inbox, Ws!NewHead(head + 1)) /\ blockHeight' = blockHeight
      BY <1>6, <2>1 DEF Ws!NewBlock
    <3>2. DOMAIN inbox' = 1..(Len(inbox) + 1) /\ DOMAIN inbox = 1..Len(inbox)
      BY <3>1
    <3>3. \A i \in DOMAIN inbox : inbox'[i] = inbox[i]
      BY <3>1
    <3>4. inbox'[Len(inbox) + 1] = Ws!NewHead(head + 1)
      BY <3>1
    <3>5. inbox'[Len(inbox) + 1].kind = "head" /\ inbox'[Len(inbox) + 1].height = head + 1
      BY <3>1, <3>4, MessageFacts
    <3>6. \A i \in DOMAIN inbox : inbox[i].kind = "head" => inbox[i].height \in 0..MaxHeight
      BY MessageFacts
    <3>7. QED
      BY <3>1, <3>2, <3>3, <3>5, <3>6
  <2>2. CASE conn # "up"
    <3>1. head' = head + 1 /\ inbox' = inbox /\ blockHeight' = blockHeight
      BY <1>6, <2>2 DEF Ws!NewBlock
    <3>2. \A i \in DOMAIN inbox : inbox[i].kind = "head" => inbox[i].height \in 0..MaxHeight
      BY MessageFacts
    <3>3. QED
      BY <3>1, <3>2
  <2>3. QED
    BY <2>1, <2>2
<1>7. CASE Ws!Answer
  <2>1. PICK answer \in Ws!Answers : inbox' = Append(inbox, answer)
    BY <1>7 DEF Ws!Answer
  <2>2. DOMAIN inbox' = 1..(Len(inbox) + 1) /\ DOMAIN inbox = 1..Len(inbox)
    BY <2>1
  <2>3. \A i \in DOMAIN inbox : inbox'[i] = inbox[i]
    BY <2>1
  <2>4. inbox'[Len(inbox) + 1].kind # "head"
    BY <2>1, MessageFacts
  <2>5. head' = head /\ blockHeight' = blockHeight
    BY <1>7 DEF Ws!Answer
  <2>6. QED
    BY <2>2, <2>3, <2>4, <2>5
<1>8. QED
  BY <1>1, <1>2, <1>4, <1>5, <1>6, <1>7 DEF WsStep, Ws!SubscribeToNewHeads

LEMMA WsOneAtATime == ASSUME WsPart, WsStep PROVE calm' => Ws!OneAtATime'
<1> USE KeeperConstants DEF WsPart, Ws!TypeOK, Ws!OneAtATime, Ws!IsCooldownDone, Ws!netVars, Ws!loopVars, Ws!subVars
<1>1. CASE Ws!Dial
  BY <1>1, MessageFacts DEF Ws!Dial, Ws!Answers, Ws!Id, Ws!Due, Ws!NotDue
<1>2. CASE Ws!Lost \/ Ws!Break
  BY <1>2 DEF Ws!Lost, Ws!Return, Ws!Break
<1>3. CASE Ws!WriteCall
  BY <1>3 DEF Ws!WriteCall
<1>4. CASE Ws!Send \/ Ws!Unsubscribe \/ Ws!CloseChannel
  BY <1>4 DEF Ws!Send, Ws!Unsubscribe, Ws!CloseChannel
<1>5. ASSUME Ws!ReadMessage
      PROVE /\ Len(inbox') = Len(inbox) - 1 /\ Len(inbox) \in Nat \ {0} /\ Len(inbox') \in Nat
            /\ Len(inbox) = 2 => inbox'[1] = inbox[2]
            /\ Len(inbox) = 1 => inbox' = << >>
            /\ Head(inbox) = inbox[1]
            /\ inbox[1] \in Ws!Messages
  BY <1>5 DEF Ws!ReadMessage
<1>6. CASE Ws!ReadFirst
  BY <1>5, <1>6, MessageFacts DEF Ws!ReadFirst, Ws!ReadMessage
<1>7. CASE Ws!ReadHead
  <2>1. inbox[1].kind = "head" /\ 1 \in DOMAIN inbox /\ blockHeight < inbox[1].height
    BY <1>5, <1>7 DEF Ws!ReadHead, Ws!HeadsInOrder
  <2>2. inbox[1].height \in 0..MaxHeight
    BY <1>5, <1>7, <2>1, MessageFacts DEF Ws!ReadHead
  <2>3. QED
    BY <1>5, <1>7, <2>1, <2>2 DEF Ws!ReadHead, Ws!ReadMessage
<1>8. CASE Ws!ReadAnswer
  BY <1>5, <1>8, MessageFacts DEF Ws!ReadAnswer, Ws!AnswerRead, Ws!ReadMessage, Ws!Answers
<1>9. CASE Ws!NewBlock
  <2>1. SUFFICES ASSUME calm, ~Ws!Answering PROVE Ws!OneAtATime'
    BY <1>9 DEF Ws!NewBlock
  <2>2. calls = 0 /\ pc \notin {"call", "send"} /\ \A i \in DOMAIN inbox : inbox[i].kind = "id"
    BY <2>1 DEF Ws!Answering
  <2>3. CASE conn = "up"
    <3>1. head + 1 \in 0..MaxHeight /\ inbox' = Append(inbox, Ws!NewHead(head + 1))
      BY <1>9, <2>3 DEF Ws!NewBlock
    <3>2. Len(inbox') = Len(inbox) + 1 /\ inbox'[Len(inbox) + 1] = Ws!NewHead(head + 1)
      BY <3>1
    <3>3. Len(inbox) > 0 => inbox'[1] = inbox[1]
      BY <3>1
    <3>4. Len(inbox) = IF first THEN 1 ELSE 0
      BY <2>1, <2>2, <2>3
    <3>5. inbox'[Len(inbox) + 1].kind = "head" /\ inbox'[Len(inbox) + 1] \notin Ws!Answers
      BY <3>1, <3>2, MessageFacts
    <3>6. Ws!Id \notin Ws!Answers
      BY MessageFacts
    <3>7. QED
      BY <1>9, <2>1, <2>2, <2>3, <3>2, <3>3, <3>4, <3>5, <3>6 DEF Ws!NewBlock
  <2>4. CASE conn = "down"
    BY <1>9, <2>1, <2>2, <2>4 DEF Ws!NewBlock
  <2>5. QED
    BY <2>1, <2>3, <2>4
<1>10. CASE Ws!Answer
  <2>1. SUFFICES ASSUME calm PROVE Ws!OneAtATime'
    BY <1>10 DEF Ws!Answer
  <2>2. PICK answer \in Ws!Answers : inbox' = Append(inbox, answer)
    BY <1>10 DEF Ws!Answer
  <2>3. calls = 1 /\ ~first /\ Len(inbox) = 0 /\ pc \notin {"call", "send"}
    BY <1>10, <2>1 DEF Ws!Answer
  <2>4. Len(inbox') = 1 /\ inbox'[1] = answer
    BY <2>2, <2>3
  <2>5. inbox'[1].kind # "id"
    BY <2>2, <2>4, MessageFacts
  <2>6. QED
    BY <1>10, <2>1, <2>3, <2>4, <2>5 DEF Ws!Answer
<1>11. QED
  BY <1>1, <1>2, <1>3, <1>4, <1>6, <1>7, <1>8, <1>9, <1>10 DEF WsStep, Ws!SubscribeToNewHeads

LEMMA WsKeepsCooldown == ASSUME WsPart, WsStep, calm PROVE [Ws!Schedule!Next]_sent
<1>1. CASE Ws!Send /\ channel = "open"
  BY <1>1, KeeperConstants DEF Ws!Send, WsPart, Ws!TypeOK, Ws!OneAtATime, Ws!Schedule!Next
<1>2. CASE ~(Ws!Send /\ channel = "open")
  <2>1. UNCHANGED sent
    BY <1>2 DEF WsStep, Ws!SubscribeToNewHeads, Ws!Dial, Ws!Lost, Ws!Return, Ws!ReadFirst, Ws!ReadHead, Ws!ReadAnswer,
      Ws!AnswerRead, Ws!ReadMessage, Ws!WriteCall, Ws!Send, Ws!Break, Ws!Unsubscribe, Ws!CloseChannel, Ws!NewBlock,
      Ws!Answer, Ws!loopVars
  <2>2. QED
    BY <2>1
<1>3. QED
  BY <1>1, <1>2

-----------------------------------------------------------------------------
(* Both                                                                    *)

LEMMA StepSplits ==
  Next => \/ connection = "rpc" /\ RpcStep /\ UNCHANGED connection
          \/ connection = "ws" /\ WsStep /\ UNCHANGED connection
  BY DEF Next, RpcQuery, RpcOthers, WsSubscribe, WsBreak, WsOthers, RpcStep, WsStep

LEMMA InitIInv == Init => IInv
  BY RpcInit, WsInit DEF Init, IInv, TypeOK, RpcPart, WsPart

LEMMA StepIInv == IInv /\ [Next]_vars => IInv'
<1> SUFFICES ASSUME IInv, [Next]_vars PROVE IInv'
  OBVIOUS
<1>1. CASE connection = "rpc" /\ RpcStep /\ UNCHANGED connection
  BY <1>1, RpcPreserved DEF IInv, TypeOK, RpcPart
<1>2. CASE connection = "ws" /\ WsStep /\ UNCHANGED connection
  BY <1>2, WsTypes, WsOrder, WsOneAtATime DEF IInv, TypeOK, WsPart
<1>3. CASE UNCHANGED vars
  BY <1>3 DEF vars, socketVars, Rpc!vars, Rpc!subVars, IInv, TypeOK, Rpc!TypeOK, Rpc!Counted, Rpc!IsCooldownDone,
    Ws!TypeOK, Ws!HeadsInOrder, Ws!OneAtATime, Ws!IsCooldownDone
<1>4. QED
  BY <1>1, <1>2, <1>3, StepSplits

\* The inductive invariant holds in every reachable state of a keeper job, over
\* HTTP and on a WebSocket.
THEOREM Invariance == Spec => []IInv
  BY InitIInv, StepIInv, PTL DEF Spec

\* Type correctness: the run counted last is never ahead of the block seen, nor
\* over HTTP the run sent last of the one counted.
THEOREM TypeCorrect == Spec => []TypeOK
<1>1. IInv => TypeOK
  BY DEF IInv
<1>2. QED
  BY <1>1, Invariance, PTL

\* A keeper job on an HTTP endpoint respects the cooldown for every value of
\* it: runs are at least Cooldown blocks apart, and no block has two.
THEOREM RespectsCooldown == Spec => ImplementsCooldown
<1> DEFINE LastRun == IF connection = "rpc" THEN sent ELSE 0
<1>1. Init => Schedule!Init
  BY DEF Init, Rpc!Init, Schedule!Init
<1>2. IInv /\ [Next]_vars => [Schedule!Next]_LastRun
  <2>1. SUFFICES ASSUME IInv, [Next]_vars PROVE [Schedule!Next]_LastRun
    OBVIOUS
  <2>2. CASE connection = "rpc" /\ RpcStep /\ UNCHANGED connection
    BY <2>1, <2>2, RpcKeepsCooldown DEF IInv, TypeOK, RpcPart, Schedule!Next, Ws!Schedule!Next
  <2>3. CASE connection = "ws" /\ UNCHANGED connection
    BY <2>3
  <2>4. CASE UNCHANGED vars
    BY <2>4 DEF vars, Rpc!vars
  <2>5. QED
    BY <2>1, <2>2, <2>3, <2>4, StepSplits
<1>3. QED
  BY <1>1, <1>2, Invariance, PTL DEF Spec, ImplementsCooldown, Schedule!Spec

\* A keeper job on either endpoint respects the cooldown as long as no connection
\* is lost and each eth_call is answered before the next head.
THEOREM RespectsCooldownWhileCalm == Spec => CooldownKept
<1>1. IInv /\ [Next]_vars => [calm => Ws!Schedule!Next]_sent
  <2>1. SUFFICES ASSUME IInv, [Next]_vars, calm PROVE [Ws!Schedule!Next]_sent
    OBVIOUS
  <2>2. CASE connection = "rpc" /\ RpcStep
    BY <2>1, <2>2, RpcKeepsCooldown DEF IInv, TypeOK, RpcPart
  <2>3. CASE connection = "ws" /\ WsStep
    BY <2>1, <2>3, WsKeepsCooldown DEF IInv, TypeOK, WsPart
  <2>4. CASE UNCHANGED vars
    BY <2>4 DEF vars, Rpc!vars
  <2>5. QED
    BY <2>1, <2>2, <2>3, <2>4, StepSplits
<1>2. QED
  BY <1>1, Invariance, PTL DEF Spec, CooldownKept, Ws!CooldownKept
=============================================================================
