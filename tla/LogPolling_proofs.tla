-------------------------- MODULE LogPolling_proofs --------------------------
(***************************************************************************)
(* Proofs about LogPolling, for chains of any length and blocks with any   *)
(* number of logs.                                                         *)
(***************************************************************************)
EXTENDS LogPolling, TLAPS

\* The logs of a block.
LEMMA BlockLogs ==
  ASSUME NEW height \in Nat, NEW c \in Contents
  PROVE  /\ Block(height, c) \in Seq([block : Nat, ok : BOOLEAN])
         /\ \A i \in DOMAIN Block(height, c) :
              Block(height, c)[i].block = height /\ Block(height, c)[i].ok \in BOOLEAN
<1>1. PICK n \in Nat : c \in [1..n -> BOOLEAN]
  BY PollingConstants DEF Contents
<1>2. c \in Seq(BOOLEAN) /\ Len(c) = n
  BY <1>1
<1>3. QED
  BY <1>1, <1>2 DEF Block

LEMMA InitIInv == Init => IInv
<1> SUFFICES ASSUME Init PROVE IInv
  OBVIOUS
<1>1. PICK c \in Contents : chain = Block(1, c)
  BY DEF Init
<1>2. /\ chain \in Seq([block : Nat, ok : BOOLEAN])
      /\ \A i \in DOMAIN chain : chain[i].block = 1
  <2>1. 1 \in Nat /\ c \in Contents
    BY <1>1
  <2>2. /\ Block(1, c) \in Seq([block : Nat, ok : BOOLEAN])
        /\ \A i \in DOMAIN Block(1, c) : Block(1, c)[i].block = 1
    BY <2>1, BlockLogs
  <2>3. QED
    BY <2>2, <1>1
<1>3. head \in 1..MaxHeight /\ from \in 1..(head + 1)
  BY PollingConstants DEF Init
<1>4. TypeOK
  BY <1>2, <1>3 DEF Init, TypeOK
<1>5. QED
  BY <1>2, <1>4 DEF Init, IInv, Sorted, BehindCursor, OnceInOrder, NoneSkipped

\* A log of the chain has its type.
LEMMA LogTyped ==
  ASSUME TypeOK, NEW i \in DOMAIN chain
  PROVE  i \in Nat /\ chain[i].block \in Nat /\ chain[i].ok \in BOOLEAN
<1> DEFINE S == [block : Nat, ok : BOOLEAN]
<1>1. chain \in Seq(S)
  BY DEF TypeOK
<1> HIDE DEF S
<1>2. i \in Nat /\ chain[i] \in S
  BY <1>1
<1>3. QED
  BY <1>2 DEF S

\* A new block comes after the others, and changes none of them.
LEMMA NewBlockLogs ==
  ASSUME TypeOK, NEW c \in Contents, NewBlock(c)
  PROVE  /\ chain' \in Seq([block : Nat, ok : BOOLEAN])
         /\ DOMAIN chain \subseteq DOMAIN chain'
         /\ \A i \in DOMAIN chain : chain'[i] = chain[i]
         /\ \A i \in DOMAIN chain' \ DOMAIN chain :
              chain'[i].block = head + 1 /\ \A j \in DOMAIN chain : j < i
<1> DEFINE new == Block(head + 1, c)
           S == [block : Nat, ok : BOOLEAN]
<1>1. head \in Nat /\ head' = head + 1 /\ chain' = chain \o new
  BY PollingConstants DEF TypeOK, NewBlock
<1>2. /\ new \in Seq(S)
      /\ \A i \in DOMAIN new : new[i].block = head + 1
  <2>1. head + 1 \in Nat
    BY <1>1
  <2>2. QED
    BY <2>1, BlockLogs
<1>3. new \in Seq(S)
  BY <1>2
<1>4. chain \in Seq(S)
  BY DEF TypeOK
<1> HIDE DEF new, S
<1>5. chain' \in Seq(S)
  BY <1>1, <1>3, <1>4
<1>6. /\ DOMAIN chain' = 1..(Len(chain) + Len(new)) /\ DOMAIN chain = 1..Len(chain)
      /\ DOMAIN new = 1..Len(new) /\ Len(chain) \in Nat /\ Len(new) \in Nat
      /\ \A i \in DOMAIN chain' : chain'[i] = IF i <= Len(chain) THEN chain[i] ELSE new[i - Len(chain)]
  BY <1>1, <1>3, <1>4
<1>7. \A i \in DOMAIN chain' \ DOMAIN chain :
        i - Len(chain) \in DOMAIN new /\ chain'[i] = new[i - Len(chain)] /\ Len(chain) < i
  BY <1>6
<1>8. \A i \in DOMAIN chain : chain'[i] = chain[i]
  BY <1>6
<1>9. DOMAIN chain \subseteq DOMAIN chain'
  BY <1>6
<1>10. \A i \in DOMAIN chain' \ DOMAIN chain :
         chain'[i].block = head + 1 /\ \A j \in DOMAIN chain : j < i
  BY <1>2, <1>6, <1>7
<1>11. QED
  BY <1>5, <1>8, <1>9, <1>10 DEF S

LEMMA StepNewBlock == ASSUME IInv, NEW c \in Contents, NewBlock(c) PROVE IInv'
<1> USE DEF IInv
<1>1. TypeOK'
  <2>1. head' \in 1..MaxHeight /\ from' \in 1..(head' + 1)
    BY PollingConstants DEF TypeOK, NewBlock
  <2>2. UNCHANGED <<strict, pc, batch, delivered, done, channel>>
    BY DEF NewBlock
  <2>3. QED
    BY <2>1, <2>2, NewBlockLogs DEF TypeOK
<1>2. \A i \in DOMAIN chain : chain'[i] = chain[i] /\ chain[i].block <= head /\ chain[i].block \in Nat
  BY NewBlockLogs, LogTyped DEF Sorted
<1>3. UNCHANGED <<strict, from, pc, batch, delivered>> /\ head \in Nat /\ from <= head + 1 /\ from \in Nat
  BY DEF NewBlock, TypeOK
<1>4. Sorted'
  <2>1. head' = head + 1
    BY DEF NewBlock
  <2>2. QED
    BY <1>2, <1>3, <2>1, NewBlockLogs, LogTyped DEF Sorted
<1>5. BehindCursor' /\ OnceInOrder'
  BY <1>2, <1>3 DEF BehindCursor, OnceInOrder, TypeOK
<1>6. NoneSkipped'
  <2>1. \A i \in DOMAIN chain' : chain'[i].block < from => i \in DOMAIN chain
    BY <1>3, NewBlockLogs
  <2>2. Lossless' => Lossless
    BY <1>2, <1>3, NewBlockLogs DEF Lossless
  <2>3. QED
    BY <1>2, <1>3, <2>1, <2>2 DEF NoneSkipped
<1>7. QED
  BY <1>1, <1>3, <1>4, <1>5, <1>6

LEMMA StepPollOk == ASSUME IInv, NEW h \in 0..head, PollOk(h) PROVE IInv'
<1> USE DEF IInv
<1> DEFINE S == Logs(h)
           P == Parsed(Logs(h))
<1>1. PICK f \in 1..(head + 1) : Advanced(P, f) /\ from' = f
  BY DEF PollOk
<1>2. UNCHANGED <<strict, head, chain, delivered, done, channel>>
  BY DEF PollOk, chainVars
<1>3. batch = {} /\ batch' = (IF P = S THEN S ELSE {}) /\ pc' \in {"wait", "send"}
      /\ (pc' = "wait" => batch' = {})
  BY DEF PollOk, Sending
<1>4. P \subseteq S /\ S \subseteq DOMAIN chain
  BY DEF Parsed, Logs
<1>5. \A i \in DOMAIN chain : i \in Nat /\ chain[i].block \in Nat
  BY LogTyped
<1>6. \A i \in S : from <= chain[i].block /\ chain[i].block <= h
  BY DEF Logs
<1>7. from \in Nat /\ f \in Nat
  BY <1>1 DEF TypeOK
<1>8. from <= f
  BY <1>1, <1>4, <1>5, <1>6, <1>7 DEF Advanced
<1>9. \A i \in P : chain[i].block < f
  BY <1>1 DEF Advanced
<1>10. TypeOK'
  BY <1>1, <1>2, <1>3, <1>4 DEF TypeOK
<1>11. BehindCursor'
  <2>1. \A i \in delivered : chain[i].block < f
    BY <1>5, <1>7, <1>8 DEF BehindCursor, TypeOK
  <2>2. \A i \in batch' : chain[i].block < f
    BY <1>3, <1>9
  <2>3. QED
    BY <1>1, <1>2, <2>1, <2>2 DEF BehindCursor
<1>12. OnceInOrder'
  <2>1. ASSUME NEW i \in delivered, NEW j \in batch' PROVE i < j
    <3>1. chain[i].block < from /\ from <= chain[j].block
      BY <1>3, <1>6, <2>1 DEF BehindCursor
    <3>2. i \in DOMAIN chain /\ j \in DOMAIN chain
      BY <1>3, <1>4, <2>1 DEF TypeOK
    <3>3. ~(j < i) /\ i # j
      BY <1>5, <1>7, <3>1, <3>2 DEF Sorted
    <3>4. QED
      BY <1>5, <3>2, <3>3
  <2>2. QED
    BY <1>2, <2>1 DEF OnceInOrder
<1>13. NoneSkipped'
  <2>1. SUFFICES ASSUME Lossless', NEW i \in DOMAIN chain, chain[i].block < f
                 PROVE  i \in delivered \cup batch'
    BY <1>1, <1>2 DEF NoneSkipped
  <2>2. Lossless
    BY <1>2, <2>1 DEF Lossless
  <2>3. P = S
    BY <1>4, <2>2 DEF Parsed, Lossless
  <2>4. CASE chain[i].block < from
    BY <1>3, <2>2, <2>4 DEF NoneSkipped
  <2>5. CASE ~(chain[i].block < from)
    <3>1. PICK m \in S : f = chain[m].block + 1
      BY <1>1, <2>1, <2>3, <2>5 DEF Advanced
    <3>2. chain[i].block <= chain[m].block
      BY <1>4, <1>5, <2>1, <3>1
    <3>3. from <= chain[i].block /\ chain[i].block <= h
      BY <1>4, <1>5, <1>6, <1>7, <2>5, <3>2
    <3>4. i \in S
      BY <3>3 DEF Logs
    <3>5. QED
      BY <1>3, <2>3, <3>4
  <2>6. QED
    BY <2>4, <2>5
<1>14. Sorted'
  BY <1>2 DEF Sorted
<1>15. QED
  BY <1>3, <1>10, <1>11, <1>12, <1>13, <1>14

LEMMA StepSend == ASSUME IInv, NEW i \in batch, Send(i) PROVE IInv'
<1> USE DEF IInv
<1>1. UNCHANGED <<strict, head, chain, from, done, channel>>
  BY DEF Send, chainVars
<1>2. Sorted'
  BY <1>1 DEF Sorted
<1>3. CASE channel = "open"
  <2>1. /\ delivered' = delivered \cup {i} /\ batch' = batch \ {i}
        /\ pc' \in {"wait", "send"} /\ (pc' = "wait" => batch' = {})
    BY <1>3 DEF Send, Sending
  <2>2. \A j \in batch : i <= j
    BY DEF Send
  <2>3. TypeOK'
    BY <1>1, <2>1 DEF TypeOK
  <2>4. BehindCursor' /\ NoneSkipped'
    BY <1>1, <2>1 DEF BehindCursor, NoneSkipped, Lossless
  <2>5. \A j \in batch : j \in Nat
    BY LogTyped DEF TypeOK
  <2>6. OnceInOrder'
    BY <2>1, <2>2, <2>5 DEF OnceInOrder
  <2>7. QED
    BY <1>2, <2>1, <2>3, <2>4, <2>6
<1>4. CASE channel # "open"
  <2>1. pc' = "crashed" /\ UNCHANGED <<batch, delivered>>
    BY <1>4 DEF Send
  <2>2. QED
    BY <1>1, <1>2, <2>1 DEF TypeOK, BehindCursor, OnceInOrder, NoneSkipped, Lossless
<1>5. QED
  BY <1>3, <1>4

\* The inductive invariant holds of every behaviour.
THEOREM Invariance == Spec => []IInv
<1>1. IInv /\ [Next]_vars => IInv'
  <2> SUFFICES ASSUME IInv, [Next]_vars PROVE IInv'
    OBVIOUS
  <2>1. CASE \E c \in Contents : NewBlock(c)
    BY <2>1, StepNewBlock
  <2>2. CASE \E h \in 0..head : PollOk(h)
    BY <2>2, StepPollOk
  <2>3. CASE \E i \in batch : Send(i)
    BY <2>3, StepSend
  <2>4. CASE PollFails \/ Tick \/ Stop
    BY <2>4 DEF PollFails, Tick, Stop, chainVars, IInv, TypeOK, Sorted, BehindCursor, OnceInOrder, NoneSkipped, Lossless
  <2>5. CASE Unsubscribe \/ CloseChannel \/ UNCHANGED vars
    BY <2>5 DEF Unsubscribe, CloseChannel, vars, chainVars, IInv, TypeOK, Sorted, BehindCursor, OnceInOrder,
      NoneSkipped, Lossless
  <2>6. QED
    BY <2>1, <2>2, <2>3, <2>4, <2>5 DEF Next, ReadMessages
<1>2. QED
  BY <1>1, InitIInv, PTL DEF Spec

\* An event is sent once and in the order of the chain, with whatever heights
\* the nodes behind the endpoint answer.
THEOREM EventsOnceInOrder == Spec => []OnceInOrder
  BY Invariance, PTL DEF IInv

\* fromBlock passes no log that is not sent, as long as every log can be parsed.
THEOREM NoLogSkipped == Spec => []NoneSkipped
  BY Invariance, PTL DEF IInv
=============================================================================
