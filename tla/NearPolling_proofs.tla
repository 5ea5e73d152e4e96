------------------------- MODULE NearPolling_proofs -------------------------
(***************************************************************************)
(* Proofs about NearPolling, for any number of accounts and of requests.   *)
(***************************************************************************)
EXTENDS NearPolling, TLAPS, WellFoundedInduction

\* A set of numbers has a least one, and one with a bound a greatest.
LEMMA Least ==
  ASSUME NEW S, S \subseteq Nat, S # {}
  PROVE  \E n \in S : \A m \in S : n <= m
<1> DEFINE R == OpToRel(<, Nat)
<1>1. IsWellFoundedOn(R, Nat)
  BY NatLessThanWellFounded
<1>2. ASSUME NEW m \in Nat, NEW n \in Nat, ~(<<m, n>> \in R) PROVE ~(m < n)
  BY <1>2 DEF OpToRel
<1> HIDE DEF R
<1>3. PICK n \in S : \A m \in S : ~(<<m, n>> \in R)
  BY <1>1, WFMin
<1>4. \A m \in S : ~(m < n)
  BY <1>2, <1>3, Zenon
<1>5. QED
  BY <1>3, <1>4

LEMMA Greatest ==
  ASSUME NEW bound \in Nat, NEW S, S \subseteq 0..bound, S # {}
  PROVE  \E n \in S : \A m \in S : m <= n
<1> DEFINE T == {bound - n : n \in S}
<1>1. T \subseteq Nat /\ T # {}
  <2>1. \A n \in S : n \in Nat /\ n <= bound /\ bound - n \in Nat /\ bound - n \in T
    OBVIOUS
  <2>2. QED
    BY <2>1
<1>2. PICK t \in T : \A u \in T : t <= u
  BY <1>1, Least
<1>3. PICK n \in S : t = bound - n
  BY <1>2
<1>4. \A m \in S : bound - n <= bound - m
  BY <1>2, <1>3
<1>5. QED
  BY <1>4

\* The requests of an account have nonces above that of the test.
LEMMA MadeInOrder ==
  ASSUME TypeOK, NEW a \in Accounts
  PROVE  /\ tested \in Nat /\ Len(made[a]) \in Nat
         /\ Made(a) = (tested + 1)..(tested + Len(made[a]))
         /\ Made(a) \subseteq 0..(tested + Len(made[a]))
         /\ batch[a] \cup delivered[a] \subseteq Made(a)
         /\ last[a] \in Nat
<1>1. /\ tested \in Nat /\ made[a] \in Seq(Kinds) /\ last[a] \in Nat
      /\ batch[a] \cup delivered[a] \subseteq Made(a)
  BY NearConstants DEF TypeOK
<1>2. DOMAIN made[a] = 1..Len(made[a]) /\ Len(made[a]) \in Nat
  BY <1>1
<1>3. \A n \in (tested + 1)..(tested + Len(made[a])) :
        n - tested \in 1..Len(made[a]) /\ n = tested + (n - tested)
  BY <1>1, <1>2
<1>4. Made(a) = (tested + 1)..(tested + Len(made[a]))
  <2>1. \A n \in (tested + 1)..(tested + Len(made[a])) : n \in Made(a)
    BY <1>2, <1>3 DEF Made
  <2>2. \A n \in Made(a) : n \in (tested + 1)..(tested + Len(made[a]))
    BY <1>1, <1>2 DEF Made
  <2>3. QED
    BY <2>1, <2>2
<1>5. QED
  BY <1>1, <1>2, <1>4

\* The nonce that is recorded for an answer is its greatest, or that of before.
LEMMA LatestIsGreatest ==
  ASSUME TypeOK, NEW a \in Accounts, NEW S, S \subseteq Made(a)
  PROVE  /\ S = {} => Latest(a, S) = last[a]
         /\ S # {} => Latest(a, S) \in S /\ \A m \in S : m <= Latest(a, S)
<1>1. CASE S = {}
  BY <1>1 DEF Latest
<1>2. CASE S # {}
  <2>1. S \subseteq 0..(tested + Len(made[a])) /\ tested + Len(made[a]) \in Nat
    BY MadeInOrder
  <2>2. \E n \in S : \A m \in S : m <= n
    BY <1>2, <2>1, Greatest
  <2>3. QED
    BY <1>2, <2>2 DEF Latest
<1>3. QED
  BY <1>1, <1>2

\* An answer holds requests that were made, and all of them up to some nonce
\* but those that are served or for other jobs.
LEMMA AnswerHolds ==
  ASSUME TypeOK, NEW answer \in AllAnswers, NEW a \in Accounts
  PROVE  /\ answer[a] \subseteq Made(a)
         /\ \A n \in Made(a), m \in answer[a] :
              n <= m /\ Kind(a, n) = "mine" => n \in delivered[a] \cup answer[a]
<1>1. PICK k \in 0..Len(made[a]) : answer[a] \in Answers(a, k)
  BY DEF AllAnswers
<1> DEFINE known == {tested + j : j \in 1..k}
<1>2. PICK gone \in SUBSET {n \in known : n \in delivered[a] \/ Kind(a, n) = "other"} :
        answer[a] = known \ gone
  BY <1>1 DEF Answers
<1>3. tested \in Nat /\ Len(made[a]) \in Nat /\ k \in Nat /\ k <= Len(made[a])
  BY <1>1, MadeInOrder
<1>4. known = (tested + 1)..(tested + k)
  <2>1. \A n \in (tested + 1)..(tested + k) : n - tested \in 1..k /\ n = tested + (n - tested)
    BY <1>3
  <2>2. QED
    BY <1>3, <2>1
<1>5. Made(a) = (tested + 1)..(tested + Len(made[a]))
  BY MadeInOrder
<1> HIDE DEF known
<1>6. answer[a] \subseteq Made(a)
  BY <1>2, <1>3, <1>4, <1>5
<1>7. ASSUME NEW n \in Made(a), NEW m \in answer[a], n <= m, Kind(a, n) = "mine"
      PROVE  n \in delivered[a] \cup answer[a]
  <2>1. m \in known
    BY <1>2
  <2>2. n \in known
    BY <1>3, <1>4, <1>5, <1>7, <2>1
  <2>3. n \in gone => n \in delivered[a]
    BY <1>2, <1>7
  <2>4. QED
    BY <1>2, <2>2, <2>3
<1>8. QED
  BY <1>6, <1>7

\* What is recorded of an answer is new and ascends in both orders.
LEMMA RecordedAscends ==
  ASSUME NEW a \in Accounts, NEW S
  PROVE  /\ Recorded(a, S) \subseteq Fresh(a, S) /\ Fresh(a, S) \subseteq S
         /\ \A n \in Recorded(a, S) : n > last[a]
         /\ \A i, j \in Recorded(a, S) : Less(i, j) => i < j
         /\ Malformed(a, S) = {} => Recorded(a, S) = Fresh(a, S)
  BY DEF Recorded, Fresh, Malformed

\* The nonce recorded last only grows, and stays one of the contract.
LEMMA RecordingGrows ==
  ASSUME IInv, NEW answer \in AllAnswers, NEW a \in Accounts
  PROVE  LET recorded == Recorded(a, answer[a])
             latest   == Latest(a, recorded)
         IN  /\ recorded \subseteq Made(a)
             /\ latest \in last[a]..(tested + Len(made[a]))
             /\ \A n \in recorded : n <= latest
<1> DEFINE recorded == Recorded(a, answer[a])
           latest == Latest(a, recorded)
<1>1. TypeOK /\ last[a] \in tested..(tested + Len(made[a]))
  BY DEF IInv, Recording
<1>2. recorded \subseteq Made(a) /\ \A n \in recorded : n > last[a]
  BY <1>1, AnswerHolds, RecordedAscends
<1> HIDE DEF recorded
<1>3. /\ recorded = {} => latest = last[a]
      /\ recorded # {} => latest \in recorded /\ \A m \in recorded : m <= latest
  BY <1>1, <1>2, LatestIsGreatest
<1> HIDE DEF latest
<1>4. /\ tested \in Nat /\ Len(made[a]) \in Nat /\ last[a] \in Nat
      /\ Made(a) = (tested + 1)..(tested + Len(made[a]))
  BY <1>1, MadeInOrder
<1>5. latest \in last[a]..(tested + Len(made[a])) /\ \A n \in recorded : n <= latest
  BY <1>1, <1>2, <1>3, <1>4
<1>6. QED
  BY <1>2, <1>5 DEF recorded, latest

LEMMA InitIInv == Init => IInv
<1> SUFFICES ASSUME Init PROVE IInv
  OBVIOUS
<1>1. /\ tested \in Nat /\ tested \in Nonces /\ pc = "poll" /\ channel = "open"
      /\ \A a \in Accounts : /\ made[a] = << >> /\ last[a] = tested
                             /\ batch[a] = {} /\ delivered[a] = {}
  BY NearConstants DEF Init, None
<1>2. TypeOK
  <2>1. done \in BOOLEAN
    BY Zenon DEF Init
  <2>2. made \in [Accounts -> Seq(Kinds)]
    BY DEF Init
  <2>3. /\ batch \in [Accounts -> SUBSET Nat] /\ delivered \in [Accounts -> SUBSET Nat]
        /\ last \in [Accounts -> Nat]
    BY <1>1 DEF Init, None
  <2>4. QED
    BY <1>1, <2>1, <2>2, <2>3 DEF TypeOK
<1>3. \A a \in Accounts : Made(a) = {}
  <2>1. DOMAIN << >> = {}
    OBVIOUS
  <2>2. \A a \in Accounts : DOMAIN made[a] = {}
    BY <1>1, <2>1, Zenon
  <2>3. QED
    BY <2>2, Zenon DEF Made
<1>4. Recording /\ Sending /\ OnceInOrder /\ NoneSkipped
  BY <1>1, <1>3 DEF Recording, Sending, OnceInOrder, NoneSkipped
<1>5. QED
  BY <1>2, <1>4 DEF IInv

\* A new request has the next nonce of its account.
LEMMA RequestStep ==
  ASSUME IInv, NEW x \in Accounts, NEW kind \in Kinds, Request(x, kind)
  PROVE  IInv'
<1> USE DEF IInv
<1>1. /\ made' = [made EXCEPT ![x] = Append(@, kind)]
      /\ UNCHANGED <<tested, last, pc, batch, delivered, done, channel>>
      /\ made \in [Accounts -> Seq(Kinds)]
  BY DEF Request, TypeOK
<1>2. \A a \in Accounts :
        /\ made'[a] \in Seq(Kinds) /\ Len(made[a]) \in Nat
        /\ Len(made'[a]) \in Nat /\ Len(made[a]) <= Len(made'[a])
        /\ DOMAIN made[a] = 1..Len(made[a]) /\ DOMAIN made'[a] = 1..Len(made'[a])
        /\ \A k \in DOMAIN made[a] : made'[a][k] = made[a][k]
  <2> DEFINE S == Kinds
  <2>1. kind \in S /\ made \in [Accounts -> Seq(S)]
    BY <1>1
  <2> HIDE DEF S
  <2>2. ASSUME NEW a \in Accounts
        PROVE  /\ made'[a] \in Seq(S) /\ Len(made[a]) \in Nat
               /\ Len(made'[a]) \in Nat /\ Len(made[a]) <= Len(made'[a])
               /\ DOMAIN made[a] = 1..Len(made[a]) /\ DOMAIN made'[a] = 1..Len(made'[a])
               /\ \A k \in DOMAIN made[a] : made'[a][k] = made[a][k]
    <3>1. made[a] \in Seq(S) /\ (made'[a] = made[a] \/ made'[a] = Append(made[a], kind))
      BY <1>1, <2>1
    <3>2. CASE made'[a] = made[a]
      BY <3>1, <3>2
    <3>3. CASE made'[a] = Append(made[a], kind)
      BY <2>1, <3>1, <3>3
    <3>4. QED
      BY <3>1, <3>2, <3>3
  <2>3. QED
    BY <2>2 DEF S
<1>3. \A a \in Accounts :
        /\ Made(a) = (tested + 1)..(tested + Len(made[a]))
        /\ Made(a) \subseteq Made(a)'
        /\ batch[a] \cup delivered[a] \subseteq Made(a)
        /\ last[a] \in tested..(tested + Len(made[a]))
        /\ tested \in Nat
  <2>1. ASSUME NEW a \in Accounts
        PROVE  /\ Made(a) = (tested + 1)..(tested + Len(made[a])) /\ tested \in Nat
               /\ batch[a] \cup delivered[a] \subseteq Made(a)
               /\ last[a] \in tested..(tested + Len(made[a]))
    BY MadeInOrder DEF Recording
  <2>2. ASSUME NEW a \in Accounts PROVE Made(a) \subseteq Made(a)'
    BY <1>1, <1>2 DEF Made
  <2>3. QED
    BY <2>1, <2>2
<1>4. \A a \in Accounts : \A n \in Made(a) : Kind(a, n)' = Kind(a, n)
  <2>1. ASSUME NEW a \in Accounts, NEW n \in Made(a) PROVE n - tested \in DOMAIN made[a]
    BY <1>2, <1>3
  <2>2. QED
    BY <1>1, <1>2, <2>1 DEF Kind
<1>5. TypeOK'
  <2>1. made' \in [Accounts -> Seq(Kinds)]
    BY <1>1, <1>2
  <2>2. \A a \in Accounts : batch[a] \cup delivered[a] \subseteq Made(a)'
    BY <1>3
  <2>3. QED
    BY <1>1, <2>1, <2>2 DEF TypeOK
<1>6. Recording'
  BY <1>1, <1>2, <1>3 DEF Recording
<1>7. Sending' /\ OnceInOrder'
  BY <1>1 DEF Sending, OnceInOrder, Less, Width
<1>8. NoneSkipped'
  <2>1. SUFFICES ASSUME Regular', NEW a \in Accounts, NEW n \in Made(a)',
                        Kind(a, n)' = "mine", n <= last[a]
                 PROVE  n \in delivered[a] \cup batch[a]
    BY <1>1 DEF NoneSkipped
  <2>2. Regular
    BY <1>1, <1>3, <1>4, <2>1 DEF Regular, Width
  <2>3. n \in Made(a)
    <3>1. n \in Nat /\ n > tested
      BY <1>1, <1>2, <1>3, <2>1 DEF Made
    <3>2. QED
      BY <1>2, <1>3, <2>1, <3>1
  <2>4. QED
    BY <1>4, <2>1, <2>2, <2>3 DEF NoneSkipped
<1>9. QED
  BY <1>5, <1>6, <1>7, <1>8

\* The contract is the same after the other steps.
LEMMA SameContract ==
  ASSUME UNCHANGED <<tested, made>>
  PROVE  /\ \A a : Made(a)' = Made(a)
         /\ \A a, n : Kind(a, n)' = Kind(a, n)
         /\ Regular' = Regular
  BY DEF Made, Kind, Regular, Width

\* poll takes what the answer has above the nonce recorded last.
LEMMA PollOkStep ==
  ASSUME IInv, NEW answer \in AllAnswers, PollOk(answer)
  PROVE  IInv'
<1> USE DEF IInv
<1> DEFINE rec(a) == Recorded(a, answer[a])
           latest(a) == Latest(a, rec(a))
<1>1. /\ UNCHANGED <<tested, made, delivered, done, channel>> /\ pc = "poll" /\ pc' = "send"
      /\ last' = [a \in Accounts |-> latest(a)]
      /\ batch' = [a \in Accounts |-> {n \in rec(a) : Kind(a, n) = "mine"}]
      /\ \A a \in Accounts : Malformed(a, answer[a]) = {}
  BY DEF PollOk, contract
<1>2. \A a \in Accounts :
        /\ rec(a) \subseteq Made(a) /\ latest(a) \in last[a]..(tested + Len(made[a]))
        /\ \A n \in rec(a) : n <= latest(a)
  BY RecordingGrows
<1>3. \A a \in Accounts :
        /\ rec(a) = Fresh(a, answer[a])
        /\ \A n \in rec(a) : n > last[a]
        /\ \A i, j \in rec(a) : Less(i, j) => i < j
  BY <1>1, RecordedAscends
<1>4. \A a \in Accounts :
        /\ last[a] \in tested..(tested + Len(made[a])) /\ tested \in Nat /\ Len(made[a]) \in Nat
        /\ Made(a) = (tested + 1)..(tested + Len(made[a]))
        /\ batch[a] = {} /\ delivered[a] \subseteq Made(a)
        /\ \A n \in delivered[a] : n <= last[a]
  BY <1>1, MadeInOrder DEF Recording, Sending
<1>5. \A a \in Accounts : rec(a) = {} => latest(a) = last[a]
  BY DEF Latest
<1>6. \A a \in Accounts : rec(a) # {} => latest(a) \in rec(a)
  BY <1>2, LatestIsGreatest
<1> HIDE DEF rec, latest
<1>7. \A a \in Accounts :
        last'[a] = latest(a) /\ batch'[a] = {n \in rec(a) : Kind(a, n) = "mine"}
  BY <1>1
<1>8. TypeOK'
  <2>1. last' \in [Accounts -> Nat] /\ batch' \in [Accounts -> SUBSET Nat]
    BY <1>1, <1>2, <1>4
  <2>2. \A a \in Accounts : batch'[a] \cup delivered[a] \subseteq Made(a)'
    BY <1>1, <1>2, <1>4, <1>7, SameContract
  <2>3. QED
    BY <1>1, <2>1, <2>2 DEF TypeOK
<1>9. Recording'
  BY <1>1, <1>2, <1>4, <1>7 DEF Recording
<1>10. Sending'
  BY <1>1, <1>3, <1>7 DEF Sending, Less, Width
<1>11. OnceInOrder'
  <2>1. ASSUME NEW a \in Accounts, NEW i \in delivered[a], NEW j \in batch'[a] PROVE i < j
    BY <1>2, <1>3, <1>4, <1>7
  <2>2. QED
    BY <1>1, <2>1 DEF OnceInOrder
<1>12. NoneSkipped'
  <2>1. SUFFICES ASSUME Regular, NEW a \in Accounts, NEW n \in Made(a),
                        Kind(a, n) = "mine", n <= latest(a)
                 PROVE  n \in delivered[a] \cup batch'[a]
    BY <1>1, <1>7, SameContract DEF NoneSkipped
  <2>2. CASE n <= last[a]
    BY <1>4, <2>1, <2>2 DEF NoneSkipped
  <2>3. CASE ~(n <= last[a])
    <3>1. n \in Nat /\ last[a] \in Nat /\ n > last[a]
      BY <1>4, <2>3
    <3>2. latest(a) \in rec(a)
      BY <1>5, <1>6, <2>1, <2>3
    <3>3. latest(a) \in answer[a]
      BY <1>3, <3>2 DEF Fresh
    <3>4. n \in delivered[a] \/ n \in answer[a]
      BY <2>1, <3>3, AnswerHolds
    <3>5. answer[a] \subseteq Made(a)
      BY AnswerHolds
    <3>6. \A m \in answer[a] : Less(m, n) => m < n
      BY <2>1, <3>5 DEF Regular, Less
    <3>7. n \in answer[a] => n \in rec(a)
      BY <1>3, <3>1, <3>6 DEF Fresh
    <3>8. QED
      BY <1>7, <2>1, <3>4, <3>7
  <2>4. QED
    BY <2>2, <2>3
<1>13. QED
  BY <1>8, <1>9, <1>10, <1>11, <1>12

\* A malformed request loses the answer, and with it the promise that none is
\* skipped.
LEMMA PollMalformedStep ==
  ASSUME IInv, NEW answer \in AllAnswers,
         NEW x \in Accounts, NEW before \in SUBSET Accounts, PollMalformed(answer, x, before)
  PROVE  IInv'
<1> USE DEF IInv
<1>1. /\ UNCHANGED <<tested, made, batch, delivered, done, channel>> /\ pc = "poll" /\ pc' = "wait"
      /\ last' = [a \in Accounts |->
           IF a \in before \cup {x} THEN Latest(a, Recorded(a, answer[a])) ELSE last[a]]
      /\ Malformed(x, answer[x]) # {}
  BY DEF PollMalformed, contract
<1>2. \A a \in Accounts :
        /\ last[a] \in tested..(tested + Len(made[a])) /\ tested \in Nat /\ Len(made[a]) \in Nat
        /\ Made(a) = (tested + 1)..(tested + Len(made[a]))
        /\ batch[a] \cup delivered[a] \subseteq Made(a)
        /\ \A n \in delivered[a] \cup batch[a] : n <= last[a]
  BY MadeInOrder DEF Recording
<1>3. \A a \in Accounts : last'[a] \in last[a]..(tested + Len(made[a]))
  BY <1>1, <1>2, RecordingGrows
<1>4. TypeOK'
  <2>1. last' \in [Accounts -> Nat]
    BY <1>1, <1>2, <1>3
  <2>2. QED
    BY <1>1, <2>1, SameContract DEF TypeOK
<1>5. Recording'
  BY <1>1, <1>2, <1>3 DEF Recording
<1>6. Sending' /\ OnceInOrder'
  BY <1>1 DEF Sending, OnceInOrder, Less, Width
<1>7. ~Regular
  <2>1. PICK n \in answer[x] : Kind(x, n) = "bad"
    BY <1>1 DEF Malformed, Fresh
  <2>2. n \in Made(x)
    BY <2>1, AnswerHolds
  <2>3. QED
    BY <2>1, <2>2 DEF Regular
<1>8. NoneSkipped'
  BY <1>1, <1>7, SameContract DEF NoneSkipped
<1>9. QED
  BY <1>4, <1>5, <1>6, <1>8

\* The least of a batch goes first, and so after all that went before.
LEMMA SendStep ==
  ASSUME IInv, NEW x \in Accounts, NEW n \in batch[x], Send(x, n)
  PROVE  IInv'
<1> USE DEF IInv
<1>1. /\ UNCHANGED <<tested, made, last, done, channel>> /\ pc = "send"
      /\ \A m \in batch[x] \ {n} : Less(n, m)
  BY DEF Send, contract
<1>2. CASE channel # "open"
  <2>1. pc' = "crashed" /\ UNCHANGED <<batch, delivered>>
    BY <1>2 DEF Send
  <2>2. TypeOK' /\ NoneSkipped'
    BY <1>1, <2>1, SameContract DEF TypeOK, NoneSkipped
  <2>3. Recording' /\ Sending' /\ OnceInOrder'
    BY <1>1, <2>1 DEF Recording, Sending, OnceInOrder, Less, Width
  <2>4. QED
    BY <2>2, <2>3
<1>3. CASE channel = "open"
  <2>1. /\ batch' = [batch EXCEPT ![x] = @ \ {n}]
        /\ delivered' = [delivered EXCEPT ![x] = @ \cup {n}] /\ pc' = pc
        /\ batch \in [Accounts -> SUBSET Nat] /\ delivered \in [Accounts -> SUBSET Nat]
    BY <1>3 DEF Send, TypeOK
  <2>2. \A a \in Accounts :
          /\ batch'[a] = (IF a = x THEN batch[a] \ {n} ELSE batch[a])
          /\ delivered'[a] = (IF a = x THEN delivered[a] \cup {n} ELSE delivered[a])
          /\ delivered'[a] \cup batch'[a] = delivered[a] \cup batch[a]
    BY <2>1
  <2>3. TypeOK'
    <3>1. batch' \in [Accounts -> SUBSET Nat] /\ delivered' \in [Accounts -> SUBSET Nat]
      BY <2>1
    <3>2. ASSUME NEW a \in Accounts PROVE batch'[a] \cup delivered'[a] \subseteq Made(a)'
      <4>1. batch[a] \cup delivered[a] \subseteq Made(a)
        BY MadeInOrder
      <4>2. Made(a)' = Made(a)
        BY <1>1, SameContract
      <4>3. QED
        BY <2>2, <4>1, <4>2
    <3>3. QED
      BY <1>1, <2>1, <3>1, <3>2 DEF TypeOK
  <2>4. Recording'
    BY <1>1, <2>2 DEF Recording
  <2>5. Sending'
    BY <1>1, <2>1, <2>2 DEF Sending, Less, Width
  <2>6. OnceInOrder'
    <3>1. \A m \in batch'[x] : n < m
      BY <1>1, <2>2 DEF Sending
    <3>2. QED
      BY <2>2, <3>1 DEF OnceInOrder
  <2>7. NoneSkipped'
    BY <1>1, <2>2, SameContract DEF NoneSkipped
  <2>8. QED
    BY <2>3, <2>4, <2>5, <2>6, <2>7
<1>4. QED
  BY <1>2, <1>3

\* The other steps change where the goroutine is, and what the service has done.
LEMMA QuietStep ==
  ASSUME IInv,
         \/ PollFails \/ Sent \/ Tick \/ Stop
         \/ Unsubscribe \/ CloseChannel \/ UNCHANGED vars
  PROVE  IInv'
<1> USE DEF IInv
<1>1. /\ UNCHANGED <<tested, made, last, batch, delivered>>
      /\ pc' \in {"poll", "send", "wait", "gone", "crashed"}
      /\ done' \in BOOLEAN /\ channel' \in {"open", "closed"}
      /\ pc' = pc \/ \A a \in Accounts : batch[a] = {}
  <2>1. CASE PollFails \/ Tick \/ Stop
    BY <2>1 DEF PollFails, Tick, Stop, contract, TypeOK, Sending
  <2>2. CASE Sent
    BY <2>2 DEF Sent, contract, TypeOK, None
  <2>3. CASE Unsubscribe \/ CloseChannel \/ UNCHANGED vars
    BY <2>3 DEF Unsubscribe, CloseChannel, vars, contract, TypeOK
  <2>4. QED
    BY <2>1, <2>2, <2>3
<1>2. TypeOK' /\ NoneSkipped'
  BY <1>1, SameContract DEF TypeOK, NoneSkipped
<1>3. Recording' /\ Sending' /\ OnceInOrder'
  BY <1>1 DEF Recording, Sending, OnceInOrder, Less, Width
<1>4. QED
  BY <1>2, <1>3

\* The nonce recorded last is above all that was taken, and what is still to be
\* sent of an answer ascends.
THEOREM Invariance == Spec => []IInv
<1>1. Init => IInv
  BY InitIInv
<1>2. ASSUME IInv, [Next]_vars PROVE IInv'
  <2>1. CASE \E a \in Accounts, k \in Kinds : Request(a, k)
    BY <1>2, <2>1, RequestStep
  <2>2. CASE ReadMessages
    BY <1>2, <2>2, PollOkStep, PollMalformedStep, SendStep, QuietStep DEF ReadMessages
  <2>3. CASE Unsubscribe \/ CloseChannel \/ UNCHANGED vars
    BY <1>2, <2>3, QuietStep
  <2>4. QED
    BY <1>2, <2>1, <2>2, <2>3 DEF Next
<1>3. QED
  BY <1>1, <1>2, PTL DEF Spec

\* Whatever nodes answer and however nonces sort, the event of a request is sent
\* once, and after those of earlier requests of its account.
THEOREM EventsOnceInOrder == Spec => []OnceInOrder
<1>1. IInv => OnceInOrder
  BY DEF IInv
<1>2. QED
  BY <1>1, Invariance, PTL

\* As long as nonces have one length and no request is malformed, none is passed
\* over by the nonce recorded last, answers of nodes that lag included.
THEOREM NoRequestSkipped == Spec => []NoneSkipped
<1>1. IInv => NoneSkipped
  BY DEF IInv
<1>2. QED
  BY <1>1, Invariance, PTL
=============================================================================
