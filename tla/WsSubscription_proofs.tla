------------------------ MODULE WsSubscription_proofs ------------------------
(***************************************************************************)
(* Proofs about subscriber/ws.go: WsSubscription, for every set of         *)
(* goroutines and every number of events, and at the end EndpointTest.     *)
(***************************************************************************)
EXTENDS WsSubscription, EndpointTest, TLAPS

LEMMA InitIInv == Init => IInv
<1> SUFFICES ASSUME Init PROVE IInv
  OBVIOUS
<1>1. TypeOK
  <2>1. inbox \in Seq(Seq(1..MaxEvents)) /\ \A g \in Gos : batch[g] \in Seq(1..MaxEvents)
    BY DEF Init
  <2>2. batch \in [Gos -> Seq(1..MaxEvents)]
    BY <2>1 DEF Init
  <2>3. pc \in [Gos -> ReaderStates \cup {"free", "write"}] /\ \A g \in Gos : pc[g] # "send"
    BY DEF Init, ReaderStates
  <2>4. confirmed \in [Gos -> BOOLEAN] /\ closing \in BOOLEAN /\ crashed \in BOOLEAN
    BY Zenon DEF Init
  <2>5. emitted \in 0..MaxEvents /\ delivered \in 0..MaxEvents
    BY WsConstants DEF Init
  <2>6. QED
    BY <2>1, <2>2, <2>3, <2>4, <2>5 DEF Init, TypeOK
<1>2. SingleReader /\ OnlyConfirmationsIgnored /\ StartsClean /\ ConfirmationFirst
  BY DEF Init, SingleReader, OnlyConfirmationsIgnored, StartsClean, ConfirmationFirst, ReaderStates
<1>3. Ordered
  <2>1. DOMAIN inbox = {} /\ delivered <= emitted
    BY DEF Init
  <2>2. \A g \in Gos : pc[g] # "send" /\ batch[g] = << >>
    BY DEF Init
  <2>3. QED
    BY <2>1, <2>2 DEF Ordered
<1>4. QED
  BY <1>1, <1>2, <1>3 DEF IInv

\* A sequence over a set holds members of the set.
LEMMA Elements ==
  ASSUME NEW S, NEW s \in Seq(S)
  PROVE  \A i \in DOMAIN s : s[i] \in S
  OBVIOUS

\* What a receiver does to a sequence.
LEMMA TakingOne ==
  ASSUME NEW S, NEW s \in Seq(S), s # << >>
  PROVE  /\ Head(s) \in S /\ Tail(s) \in Seq(S)
         /\ 1 \in DOMAIN s /\ Head(s) = s[1]
         /\ \A i \in DOMAIN Tail(s) : i \in Nat \ {0} /\ i + 1 \in DOMAIN s /\ Tail(s)[i] = s[i + 1]
  OBVIOUS

\* What a sender does to a sequence.
LEMMA AddingOne ==
  ASSUME NEW S, NEW s \in Seq(S), NEW e \in S
  PROVE  /\ Append(s, e) \in Seq(S)
         /\ Append(s, e) # << >>
         /\ s # << >> => Head(Append(s, e)) = Head(s)
         /\ \A i \in DOMAIN Append(s, e) :
              (i \in DOMAIN s /\ Append(s, e)[i] = s[i])
                \/ (i = Len(s) + 1 /\ Append(s, e)[i] = e)
         /\ DOMAIN s = 1..Len(s) /\ Len(s) \in Nat
<1>1. Append(s, e) \in Seq(S) /\ Len(Append(s, e)) = Len(s) + 1 /\ Len(s) \in Nat
  OBVIOUS
<1>2. DOMAIN Append(s, e) = 1..Len(s) + 1 /\ DOMAIN s = 1..Len(s)
  BY <1>1
<1>3. \A i \in 1..Len(s) + 1 : Append(s, e)[i] = IF i <= Len(s) THEN s[i] ELSE e
  BY <1>1, <1>2
<1>4. s # << >> => 1 \in 1..Len(s) /\ Head(s) = s[1] /\ Head(Append(s, e)) = Append(s, e)[1]
  BY <1>1
<1>5. QED
  BY <1>1, <1>2, <1>3, <1>4

\* A message about new events is a sequence of events.
LEMMA NewEvents ==
  ASSUME TypeOK, NEW k \in 1..2, emitted + k <= MaxEvents
  PROVE  /\ [i \in 1..k |-> emitted + i] \in Seq(1..MaxEvents)
         /\ DOMAIN [i \in 1..k |-> emitted + i] = 1..k
         /\ [i \in 1..k |-> emitted + i] # << >>
<1> DEFINE m == [i \in 1..k |-> emitted + i]
<1>1. \A i \in 1..k : emitted + i \in 1..MaxEvents
  BY WsConstants DEF TypeOK
<1>2. m \in [1..k -> 1..MaxEvents]
  BY <1>1
<1>3. m \in Seq(1..MaxEvents) /\ Len(m) = k
  BY <1>2
<1>4. QED
  BY <1>3

\* The type invariant is inductive by itself.
LEMMA StepTypeOK == TypeOK /\ [Next]_vars => TypeOK'
<1> SUFFICES ASSUME TypeOK, [Next]_vars PROVE TypeOK'
  OBVIOUS
<1> USE WsConstants DEF TypeOK, ReaderStates
<1>1. ASSUME NEW g \in Gos, NEW r \in Gos, Spawn(g, r) PROVE TypeOK'
  BY <1>1 DEF Spawn
<1>2. ASSUME NEW g \in Gos, WriteTrigger(g) PROVE TypeOK'
  BY <1>2 DEF WriteTrigger, Write
<1>3. ASSUME NEW g \in Gos, ForceClose(g) PROVE TypeOK'
  BY <1>3 DEF ForceClose, GiveUp
<1>4. ASSUME NEW g \in Gos, Read(g) PROVE TypeOK'
  <2>1. Head(inbox) \in Seq(1..MaxEvents) /\ inbox' \in Seq(Seq(1..MaxEvents))
    BY <1>4, TakingOne DEF Read, ReadMessage
  <2>2. QED
    BY <1>4, <2>1 DEF Read, ReadMessage
<1>5. ASSUME NEW g \in Gos, ReadFails(g) PROVE TypeOK'
  BY <1>5 DEF ReadFails, Lost
<1>6. ASSUME NEW g \in Gos, Send(g) PROVE TypeOK'
  <2>1. Head(batch[g]) \in 1..MaxEvents /\ Tail(batch[g]) \in Seq(1..MaxEvents)
    BY <1>6, TakingOne DEF Send
  <2>2. CASE channel = "open"
    <3>1. batch' \in [Gos -> Seq(1..MaxEvents)] /\ delivered' \in 0..MaxEvents
      <4>1. batch' = [batch EXCEPT ![g] = Tail(batch[g])] /\ delivered' = Head(batch[g])
        BY <1>6, <2>2, Zenon DEF Send
      <4>2. 1..MaxEvents \subseteq 0..MaxEvents
        OBVIOUS
      <4>3. QED
        BY <2>1, <4>1, <4>2
    <3>2. pc' \in [Gos -> ReaderStates \cup {"free", "write"}]
      BY <1>6, <2>2 DEF Send
    <3>3. \A h \in Gos : pc'[h] = "send" => batch'[h] # << >>
      BY <1>6, <2>2 DEF Send
    <3>4. QED
      BY <1>6, <2>2, <3>1, <3>2, <3>3 DEF Send
  <2>3. CASE channel = "closed"
    BY <1>6, <2>3 DEF Send
  <2>4. QED
    BY <1>6, <2>2, <2>3 DEF Send
<1>7. ASSUME NEW g \in Gos, Redial(g) PROVE TypeOK'
  BY <1>7 DEF Redial
<1>8. ASSUME CloseStep PROVE TypeOK'
  BY <1>8 DEF CloseStep, Unsubscribe, Hangup, CloseChannel, goVars
<1>9. ASSUME Confirm PROVE TypeOK'
  <2>1. << >> \in Seq(1..MaxEvents)
    OBVIOUS
  <2>2. QED
    BY <1>9, <2>1 DEF Confirm, goVars
<1>10. ASSUME Break PROVE TypeOK'
  BY <1>10 DEF Break, goVars
<1>11. ASSUME NEW k \in 1..2, Emit(k) PROVE TypeOK'
  <2>1. emitted + k <= MaxEvents
    BY <1>11 DEF Emit
  <2>2. [i \in 1..k |-> emitted + i] \in Seq(1..MaxEvents)
    BY <2>1, NewEvents
  <2>3. inbox' \in Seq(Seq(1..MaxEvents))
    BY <1>11, <2>2, AddingOne DEF Emit
  <2>4. QED
    BY <1>11, <2>1, <2>3 DEF Emit, goVars
<1>12. ASSUME UNCHANGED vars PROVE TypeOK'
  BY <1>12 DEF vars, goVars
<1>13. QED
  BY <1>1, <1>2, <1>3, <1>4, <1>5, <1>6, <1>7, <1>8, <1>9, <1>10, <1>11, <1>12 DEF Next, GoStep

\* One reader, and none that starts while another goroutine is writing.
LEMMA StepReaders ==
  ASSUME TypeOK, SingleReader, StartsClean, [Next]_vars
  PROVE  SingleReader' /\ StartsClean'
<1> USE DEF TypeOK, SingleReader, StartsClean, ReaderStates
<1>1. ASSUME NEW g \in Gos, NEW r \in Gos, Spawn(g, r) PROVE SingleReader' /\ StartsClean'
  BY ZenonT(60), <1>1 DEF Spawn
<1>2. ASSUME NEW g \in Gos, WriteTrigger(g) PROVE SingleReader' /\ StartsClean'
  BY <1>2 DEF WriteTrigger, Write
<1>3. ASSUME NEW g \in Gos, ForceClose(g) PROVE SingleReader' /\ StartsClean'
  BY <1>3 DEF ForceClose, GiveUp
<1>4. ASSUME NEW g \in Gos, Read(g) PROVE SingleReader' /\ StartsClean'
  BY ZenonT(60), <1>4 DEF Read, ReadMessage
<1>5. ASSUME NEW g \in Gos, ReadFails(g) PROVE SingleReader' /\ StartsClean'
  BY <1>5 DEF ReadFails, Lost
<1>6. ASSUME NEW g \in Gos, Send(g) PROVE SingleReader' /\ StartsClean'
  BY ZenonT(60), <1>6 DEF Send
<1>7. ASSUME NEW g \in Gos, Redial(g) PROVE SingleReader' /\ StartsClean'
  BY <1>7 DEF Redial
<1>8. ASSUME Confirm PROVE SingleReader' /\ StartsClean'
  BY <1>8 DEF Confirm, goVars
<1>9. CASE UNCHANGED <<pc, server>>
  BY <1>9
<1>10. QED
  BY <1>1, <1>2, <1>3, <1>4, <1>5, <1>6, <1>7, <1>8, <1>9
  DEF Next, GoStep, CloseStep, Unsubscribe, Hangup, CloseChannel, Break, Emit, vars, goVars

\* The first message of a connection is the confirmation.
LEMMA StepConfirmation ==
  ASSUME TypeOK, SingleReader, StartsClean, OnlyConfirmationsIgnored, ConfirmationFirst, [Next]_vars
  PROVE  OnlyConfirmationsIgnored' /\ ConfirmationFirst'
<1> DEFINE Goal == OnlyConfirmationsIgnored' /\ ConfirmationFirst'
<1> USE DEF OnlyConfirmationsIgnored, ConfirmationFirst
<1>1. ASSUME NEW g \in Gos, NEW r \in Gos, Spawn(g, r) PROVE Goal
  BY <1>1 DEF Spawn, TypeOK, StartsClean
<1>2. ASSUME NEW g \in Gos, WriteTrigger(g) PROVE Goal
  BY <1>2 DEF WriteTrigger, Write, TypeOK, StartsClean
<1>3. ASSUME NEW g \in Gos, ForceClose(g) PROVE Goal
  BY <1>3 DEF ForceClose, GiveUp, TypeOK
<1>4. ASSUME NEW g \in Gos, Read(g) PROVE Goal
  <2>1. server = "on"
    BY <1>4 DEF Read, ReadMessage
  <2>2. \A h \in Gos : pc'[h] = "read" => h = g
    BY <1>4 DEF Read, ReadMessage, TypeOK, SingleReader, ReaderStates
  <2>3. confirmed'[g]
    BY <1>4 DEF Read, ReadMessage, TypeOK
  <2>4. UNCHANGED server /\ \A h \in Gos : pc'[h] = "send" => h = g \/ (pc[h] = "send" /\ confirmed'[h] = confirmed[h])
    BY <1>4 DEF Read, ReadMessage, TypeOK
  <2>5. QED
    BY <2>1, <2>2, <2>3, <2>4
<1>5. ASSUME NEW g \in Gos, ReadFails(g) PROVE Goal
  BY <1>5 DEF ReadFails, Lost, TypeOK
<1>6. ASSUME NEW g \in Gos, Send(g) PROVE Goal
  BY <1>6 DEF Send, TypeOK
<1>7. ASSUME NEW g \in Gos, Redial(g) PROVE Goal
  BY <1>7 DEF Redial, TypeOK
<1>8. ASSUME Confirm PROVE Goal
  <2>1. inbox = << >> /\ inbox' = << << >> >>
    BY <1>8 DEF Confirm
  <2>2. inbox' # << >> /\ Head(inbox') = << >>
    BY <2>1
  <2>3. QED
    BY <1>8, <2>2 DEF Confirm, goVars
<1>9. ASSUME NEW k \in 1..2, Emit(k) PROVE Goal
  <2>1. CASE UNCHANGED inbox
    BY <1>9, <2>1 DEF Emit, goVars
  <2>2. CASE server = "on" /\ inbox' = Append(inbox, [i \in 1..k |-> emitted + i])
    <3>1. emitted + k <= MaxEvents
      BY <1>9 DEF Emit
    <3>2. [i \in 1..k |-> emitted + i] \in Seq(1..MaxEvents)
      BY <3>1, NewEvents
    <3>3. inbox \in Seq(Seq(1..MaxEvents))
      BY DEF TypeOK
    <3>4. inbox' # << >> /\ (inbox # << >> => Head(inbox') = Head(inbox))
      BY <2>2, <3>2, <3>3, AddingOne
    <3>5. QED
      BY <1>9, <2>2, <3>4 DEF Emit, goVars
  <2>3. QED
    BY <1>9, <2>1, <2>2 DEF Emit
<1>10. CASE UNCHANGED <<pc, confirmed, server, inbox>>
  BY <1>10
<1>11. QED
  BY <1>1, <1>2, <1>3, <1>4, <1>5, <1>6, <1>7, <1>8, <1>9, <1>10
  DEF Next, GoStep, CloseStep, Unsubscribe, Hangup, CloseChannel, Break, vars, goVars

\* What the consumer has, what the reader holds and what is on the way are in
\* the order of the chain.
LEMMA StepOrdered ==
  ASSUME TypeOK, TypeOK', SingleReader, Ordered, [Next]_vars
  PROVE  Ordered'
<1> DEFINE PendingNext(s) == Increasing(s) /\ \A i \in DOMAIN s : s[i] \in delivered' + 1 .. emitted'
<1> USE DEF Ordered, Pending, Increasing, Before
<1>1. ASSUME NEW g \in Gos, NEW r \in Gos, Spawn(g, r) PROVE Ordered'
  BY <1>1 DEF Spawn, TypeOK
<1>2. ASSUME NEW g \in Gos, WriteTrigger(g) PROVE Ordered'
  BY <1>2 DEF WriteTrigger, Write, TypeOK
<1>3. ASSUME NEW g \in Gos, ForceClose(g) PROVE Ordered'
  BY <1>3 DEF ForceClose, GiveUp, TypeOK
<1>4. ASSUME NEW g \in Gos, Read(g) PROVE Ordered'
  <2>1. UNCHANGED <<delivered, emitted>>
    BY <1>4 DEF Read, ReadMessage
  <2>2. /\ inbox # << >>
        /\ inbox' = Tail(inbox)
        /\ \A m \in DOMAIN inbox' : m \in Nat \ {0} /\ m + 1 \in DOMAIN inbox /\ inbox'[m] = inbox[m + 1]
        /\ 1 \in DOMAIN inbox /\ Head(inbox) = inbox[1]
    BY <1>4, TakingOne DEF Read, ReadMessage, TypeOK
  <2>3. \A h \in Gos : IF pc'[h] = "send" THEN Pending(batch'[h]) ELSE batch'[h] = << >>
    BY ZenonT(60), <1>4, <2>2 DEF Read, ReadMessage, TypeOK
  <2>4. \A m \in DOMAIN inbox' : Pending(inbox'[m])
    BY <2>2
  <2>5. \A m, n \in DOMAIN inbox' : m < n => Before(inbox'[m], inbox'[n])
    <3> SUFFICES ASSUME NEW m \in DOMAIN inbox', NEW n \in DOMAIN inbox', m < n
                 PROVE  Before(inbox'[m], inbox'[n])
      BY Zenon
    <3>1. m + 1 \in DOMAIN inbox /\ n + 1 \in DOMAIN inbox /\ m + 1 < n + 1
      BY <2>2
    <3>2. QED
      BY <2>2, <3>1
  <2>6. \A h \in Gos, m \in DOMAIN inbox' : Before(batch'[h], inbox'[m])
    <3> SUFFICES ASSUME NEW h \in Gos, NEW m \in DOMAIN inbox'
                 PROVE  Before(batch'[h], inbox'[m])
      OBVIOUS
    <3>1. m + 1 \in DOMAIN inbox /\ 1 < m + 1 /\ inbox'[m] = inbox[m + 1]
      BY <2>2
    <3>2. batch'[h] = batch[h] \/ batch'[h] = inbox[1]
      BY <1>4, <2>2 DEF Read, ReadMessage, TypeOK
    <3>3. QED
      BY <2>2, <3>1, <3>2
  <2>7. QED
    BY <2>1, <2>3, <2>4, <2>5, <2>6
<1>5. ASSUME NEW g \in Gos, ReadFails(g) PROVE Ordered'
  BY <1>5 DEF ReadFails, Lost, TypeOK
<1>6. ASSUME NEW g \in Gos, Send(g) PROVE Ordered'
  <2>1. CASE channel = "closed"
    BY <1>6, <2>1 DEF Send, TypeOK
  <2>2. CASE channel = "open"
    <3>1. /\ UNCHANGED <<emitted, inbox>>
          /\ delivered' = Head(batch[g])
          /\ batch' = [batch EXCEPT ![g] = Tail(batch[g])]
          /\ pc[g] = "send" /\ batch[g] # << >>
      BY <1>6, <2>2 DEF Send, TypeOK
    <3>t. batch[g] \in Seq(1..MaxEvents) /\ batch'[g] = Tail(batch[g])
      BY <3>1 DEF TypeOK
    <3>2. /\ 1 \in DOMAIN batch[g] /\ delivered' = batch[g][1]
          /\ \A i \in DOMAIN batch'[g] :
               /\ i \in Nat \ {0} /\ i + 1 \in DOMAIN batch[g]
               /\ batch'[g][i] = batch[g][i + 1]
      <4>1. /\ 1 \in DOMAIN batch[g] /\ Head(batch[g]) = batch[g][1]
            /\ \A i \in DOMAIN Tail(batch[g]) :
                 /\ i \in Nat \ {0} /\ i + 1 \in DOMAIN batch[g]
                 /\ Tail(batch[g])[i] = batch[g][i + 1]
        BY ZenonT(60), <3>1, <3>t, TakingOne
      <4>2. QED
        BY <3>1, <3>t, <4>1, Zenon
    <3>3. \A h \in Gos : h # g => pc'[h] # "send" /\ batch'[h] = << >>
      BY <1>6, <3>1 DEF Send, TypeOK, SingleReader, ReaderStates
    <3>4. \A i \in DOMAIN batch[g] : batch[g][i] \in delivered + 1 .. emitted /\ batch[g][i] \in 1..MaxEvents
      <4>1. Pending(batch[g])
        BY <3>1
      <4>2. \A i \in DOMAIN batch[g] : batch[g][i] \in 1..MaxEvents
        BY <3>t, Elements, Zenon
      <4>3. QED
        BY <4>1, <4>2
    <3>5. \A i, j \in DOMAIN batch[g] : i < j => batch[g][i] < batch[g][j]
      BY <3>1
    <3>6. delivered' <= emitted' /\ delivered' \in Nat /\ emitted \in Nat /\ delivered' > delivered
      BY <3>1, <3>2, <3>4, WsConstants DEF TypeOK
    <3>7. Increasing(batch'[g])
      BY <3>2, <3>5
    <3>8. \A i \in DOMAIN batch'[g] : batch'[g][i] \in delivered' + 1 .. emitted'
      <4> SUFFICES ASSUME NEW i \in DOMAIN batch'[g] PROVE batch'[g][i] \in delivered' + 1 .. emitted'
        OBVIOUS
      <4>1. i + 1 \in DOMAIN batch[g] /\ 1 < i + 1 /\ batch'[g][i] = batch[g][i + 1]
        BY <3>2
      <4>2. batch[g][1] < batch[g][i + 1] /\ batch[g][i + 1] \in delivered + 1 .. emitted
        BY <3>2, <3>4, <3>5, <4>1
      <4>3. QED
        BY <3>1, <3>2, <3>6, <4>1, <4>2 DEF TypeOK
    <3>9. IF pc'[g] = "send" THEN PendingNext(batch'[g]) ELSE batch'[g] = << >>
      <4>1. pc'[g] = "send" \/ batch'[g] = << >>
        BY <1>6, <2>2 DEF Send, TypeOK
      <4>2. pc'[g] = "send" => PendingNext(batch'[g])
        BY <3>7, <3>8
      <4>3. QED
        BY <4>1, <4>2
    <3>10. \A m \in DOMAIN inbox : Before(batch[g], inbox[m])
      OBVIOUS
    <3>11. \A m \in DOMAIN inbox : Before(batch'[g], inbox[m])
      BY <3>2, <3>10
    <3>12. ASSUME NEW m \in DOMAIN inbox PROVE Pending(inbox[m])'
      <4>1. \A i \in DOMAIN inbox[m] : inbox[m][i] \in delivered + 1 .. emitted /\ batch[g][1] < inbox[m][i]
        BY <3>2, <3>10
      <4>2. QED
        BY <3>1, <3>2, <3>6, <4>1 DEF TypeOK
    <3>13. QED
      BY <3>1, <3>3, <3>6, <3>9, <3>11, <3>12
  <2>3. QED
    BY <1>6, <2>1, <2>2 DEF Send
<1>7. ASSUME NEW g \in Gos, Redial(g) PROVE Ordered'
  BY <1>7 DEF Redial, TypeOK
<1>8. ASSUME Confirm PROVE Ordered'
  BY SMTT(40), <1>8 DEF Confirm, goVars, TypeOK
<1>9. ASSUME NEW k \in 1..2, Emit(k) PROVE Ordered'
  <2> DEFINE new == [i \in 1..k |-> emitted + i]
  <2>1. /\ UNCHANGED <<pc, batch, delivered>>
        /\ emitted' = emitted + k /\ emitted + k <= MaxEvents
        /\ emitted \in Nat /\ delivered \in Nat /\ delivered <= emitted
    BY <1>9, WsConstants DEF Emit, goVars, TypeOK
  <2>2. new \in Seq(1..MaxEvents) /\ DOMAIN new = 1..k
    BY <2>1, NewEvents
  <2>3. \A s : Pending(s) => PendingNext(s)
    BY <2>1
  <2>4. PendingNext(new)
    BY <2>1, <2>2
  <2>5. ASSUME NEW s, \A i \in DOMAIN s : s[i] \in delivered + 1 .. emitted PROVE Before(s, new)
    BY <2>1, <2>2, <2>5
  <2>6. CASE UNCHANGED inbox
    BY <2>1, <2>3, <2>6
  <2>7. CASE inbox' = Append(inbox, new)
    <3>1. inbox \in Seq(Seq(1..MaxEvents))
      BY DEF TypeOK
    <3>2. /\ DOMAIN inbox = 1..Len(inbox) /\ Len(inbox) \in Nat
          /\ \A m \in DOMAIN inbox' : \/ (m \in DOMAIN inbox /\ inbox'[m] = inbox[m])
                                     \/ (m = Len(inbox) + 1 /\ inbox'[m] = new)
      BY <2>2, <2>7, <3>1, AddingOne
    <3>3. \A m \in DOMAIN inbox : Before(inbox[m], new)
      BY <2>5
    <3>4. \A g \in Gos : Before(batch[g], new)
      BY <2>5
    <3>5. \A m \in DOMAIN inbox' : PendingNext(inbox'[m])
      BY <2>3, <2>4, <3>2
    <3>6. \A m, n \in DOMAIN inbox' : m < n => Before(inbox'[m], inbox'[n])
      BY <3>2, <3>3
    <3>7. \A g \in Gos, m \in DOMAIN inbox' : Before(batch'[g], inbox'[m])
      BY <2>1, <3>2, <3>4
    <3>8. QED
      BY <2>1, <2>3, <3>5, <3>6, <3>7
  <2>8. QED
    BY <1>9, <2>6, <2>7 DEF Emit
<1>10. CASE UNCHANGED <<pc, batch, delivered, emitted, inbox>>
  BY <1>10
<1>11. QED
  BY <1>1, <1>2, <1>3, <1>4, <1>5, <1>6, <1>7, <1>8, <1>9, <1>10
  DEF Next, GoStep, CloseStep, Unsubscribe, Hangup, CloseChannel, Break, vars, goVars

\* The inductive invariant holds in every reachable state.
THEOREM Invariance == Spec => []IInv
<1>1. IInv /\ [Next]_vars => IInv'
  BY StepTypeOK, StepReaders, StepConfirmation, StepOrdered DEF IInv
<1>2. QED
  BY <1>1, InitIInv, PTL DEF Spec

\* Type correctness.
THEOREM TypeCorrect == Spec => []TypeOK
<1>1. IInv => TypeOK
  BY DEF IInv
<1>2. QED
  BY <1>1, Invariance, PTL

\* One goroutine reads the connection, however often it is lost and whoever
\* closes it.
THEOREM OneReader == Spec => []SingleReader
<1>1. IInv => SingleReader
  BY DEF IInv
<1>2. QED
  BY <1>1, Invariance, PTL

\* No event is dropped as the confirmation of the subscription.
THEOREM NoEventIgnored == Spec => []OnlyConfirmationsIgnored
<1>1. IInv => OnlyConfirmationsIgnored
  BY DEF IInv
<1>2. QED
  BY <1>1, Invariance, PTL

\* What a reader sends is later than all that was sent before it.
LEMMA SendMovesOn ==
  ASSUME IInv, [Next]_vars, delivered' # delivered
  PROVE  delivered' > delivered
<1>1. PICK g \in Gos : Send(g)
  BY DEF Next, GoStep, CloseStep, Spawn, WriteTrigger, Write, ForceClose, GiveUp, Read, ReadMessage, ReadFails,
         Lost, Redial, Unsubscribe, Hangup, CloseChannel, Confirm, Break, Emit, vars, goVars
<1>2. pc[g] = "send" /\ delivered' = Head(batch[g])
  BY <1>1 DEF Send
<1>3. batch[g] \in Seq(1..MaxEvents) /\ batch[g] # << >> /\ Pending(batch[g])
  BY <1>2 DEF IInv, TypeOK, Ordered
<1>4. 1 \in DOMAIN batch[g] /\ delivered' = batch[g][1]
  BY <1>2, <1>3, TakingOne
<1>5. delivered \in Nat /\ emitted \in Nat
  BY DEF IInv, TypeOK
<1>6. QED
  BY <1>3, <1>4, <1>5 DEF Pending

\* The consumer receives events in the order of the chain and none twice,
\* across lost connections.
THEOREM InOrder == Spec => DeliveredInOrder
<1>1. IInv /\ [Next]_vars => [delivered' # delivered => delivered' > delivered]_vars
  BY SendMovesOn
<1>2. QED
  BY <1>1, Invariance, PTL DEF Spec, DeliveredInOrder

-----------------------------------------------------------------------------
(* The test of an endpoint, EndpointTest, for any number of tests          *)

LEMMA TestStart == TestInit => TestIInv
<1> SUFFICES ASSUME TestInit PROVE TestIInv
  OBVIOUS
<1> USE DEF TestInit
<1>1. panicked \in BOOLEAN
  BY Zenon
<1>2. TestTypeOK
  BY <1>1 DEF TestTypeOK
<1>3. QED
  BY <1>2 DEF TestIInv, ReadIsAnswer, ResultIsFinal, PassedMeansAnswered

\* The caller's goroutine.
LEMMA TestCaller ==
  ASSUME TestIInv, NEW t \in Tests, CallerStep(t)
  PROVE  TestIInv'
<1> USE DEF TestIInv, TestTypeOK, ReadIsAnswer, ResultIsFinal, PassedMeansAnswered
<1>1. CASE DialFails(t)
  BY <1>1 DEF DialFails, Return
<1>2. CASE DialIsEnough(t)
  BY <1>2 DEF DialIsEnough, Return
<1>3. CASE Dial(t)
  BY <1>3 DEF Dial
<1>4. CASE WriteMessage(t)
  BY <1>4 DEF WriteMessage
<1>5. CASE CheckWrite(t)
  BY <1>5 DEF CheckWrite, Return
<1>6. CASE Timeout(t)
  BY <1>6 DEF Timeout, Return
<1>7. CASE Receive(t)
  BY <1>7 DEF Receive, Parse, Return
<1>8. CASE ReceiveClosed(t)
  BY <1>8 DEF ReceiveClosed, Return
<1>9. QED
  BY <1>1, <1>2, <1>3, <1>4, <1>5, <1>6, <1>7, <1>8 DEF CallerStep

\* The reader's goroutine, and the endpoint.
LEMMA TestOthers ==
  ASSUME TestIInv, NEW t \in Tests, ReaderStep(t) \/ Answer(t) \/ Drop(t)
  PROVE  TestIInv'
<1> USE DEF TestIInv, TestTypeOK, ReadIsAnswer, ResultIsFinal, PassedMeansAnswered
<1>1. CASE ReadBody(t)
  <2>1. /\ UNCHANGED <<link, asked, answer, caller, closed, result, panicked>>
        /\ reader[t] = "read" /\ reader' = [reader EXCEPT ![t] = "check"]
    BY <1>1 DEF ReadBody, netVars
  <2>2. \E a \in {body[t], answer[t]}, failed \in BOOLEAN :
          body' = [body EXCEPT ![t] = a] /\ err' = [err EXCEPT ![t] = failed]
    BY <1>1 DEF ReadBody
  <2>3. TestTypeOK'
    BY <2>1, <2>2
  <2>4. ReadIsAnswer' /\ ResultIsFinal' /\ PassedMeansAnswered'
    BY <2>1, <2>2
  <2>5. QED
    BY <2>3, <2>4
<1>2. CASE CheckRead(t)
  BY <1>2 DEF CheckRead, netVars
<1>3. CASE Panic(t)
  BY <1>3 DEF Panic, netVars
<1>4. CASE Answer(t)
  BY <1>4 DEF Answer
<1>5. CASE Drop(t)
  BY <1>5 DEF Drop
<1>6. QED
  BY <1>1, <1>2, <1>3, <1>4, <1>5 DEF ReaderStep

\* What the reader hands over is the answer of the endpoint, and the first
\* result of a test is its last.
THEOREM TestInvariance == TestSpec => []TestIInv
<1>1. ASSUME TestIInv, [TestNext]_testVars PROVE TestIInv'
  <2>1. CASE TestNext
    BY <1>1, <2>1, TestCaller, TestOthers DEF TestNext
  <2>2. CASE UNCHANGED testVars
    BY <1>1, <2>2 DEF testVars, netVars, TestIInv, TestTypeOK, ReadIsAnswer,
       ResultIsFinal, PassedMeansAnswered
  <2>3. QED
    BY <1>1, <2>1, <2>2
<1>2. QED
  BY <1>1, TestStart, PTL DEF TestSpec

\* The two goroutines of a test overwrite each other's err without a lock, and
\* yet an endpoint passes only if it gave the right answer, and the reader has
\* gone by then.
THEOREM PassedEndpointAnswered == TestSpec => []PassedMeansAnswered
<1>1. TestIInv => PassedMeansAnswered
  BY DEF TestIInv
<1>2. QED
  BY <1>1, TestInvariance, PTL
=============================================================================
