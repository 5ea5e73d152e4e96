-------------------------- MODULE BlockScan_proofs --------------------------
(***************************************************************************)
(* Proofs about BlockScan, for chains of any length, blocks with any       *)
(* number of requests and any number of senders.                           *)
(***************************************************************************)
EXTENDS BlockScan, TLAPS

Entry == [block : Nat, ok : BOOLEAN, first : BOOLEAN]

-----------------------------------------------------------------------------
(* The chain                                                               *)

\* The requests of a block.
LEMMA BlockRequests ==
  ASSUME NEW height \in Nat, NEW c \in Contents
  PROVE  /\ Block(height, c) \in Seq(Entry)
         /\ \A i \in DOMAIN Block(height, c) : Block(height, c)[i].block = height
<1> DEFINE S == [ok : BOOLEAN, first : BOOLEAN]
<1>1. PICK n \in Nat : c \in [1..n -> S]
  BY ScanConstants DEF Contents
<1> HIDE DEF S
<1>2. c \in Seq(S) /\ Len(c) = n
  BY <1>1
<1>3. \A i \in 1..n : [block |-> height, ok |-> c[i].ok, first |-> c[i].first] \in Entry
  BY <1>1 DEF S, Entry
<1>4. QED
  BY <1>2, <1>3 DEF Block

\* The numbers of a state.
LEMMA Numbers ==
  ASSUME TypeOK
  PROVE  /\ head \in Nat /\ cursor \in Nat /\ at \in Nat /\ to \in Nat /\ start \in Nat
         /\ MaxHeight \in Nat /\ MaxSenders \in Nat /\ head > 0 /\ head <= MaxHeight
         /\ DOMAIN senders = 1..MaxSenders /\ DOMAIN chain \subseteq Nat
<1>1. chain \in Seq(Entry)
  BY DEF TypeOK, Entry
<1>2. DOMAIN chain = 1..Len(chain) /\ Len(chain) \in Nat
  BY <1>1
<1>3. QED
  BY <1>2, ScanConstants DEF TypeOK

\* A sequence over a set is one over a larger set.
LEMMA SeqGrows ==
  ASSUME NEW S, NEW T, S \subseteq T, NEW s \in Seq(S)
  PROVE  s \in Seq(T)
<1>1. s \in [1..Len(s) -> S] /\ Len(s) \in Nat
  OBVIOUS
<1>2. s \in [1..Len(s) -> T]
  BY <1>1
<1>3. QED
  BY <1>1, <1>2

\* A new block comes after the others, and changes none of them.
LEMMA NewRequests ==
  ASSUME TypeOK, NEW c \in Contents, NewBlock(c)
  PROVE  /\ chain' \in Seq(Entry)
         /\ DOMAIN chain \subseteq DOMAIN chain'
         /\ \A i \in DOMAIN chain : chain'[i] = chain[i]
         /\ \A i \in DOMAIN chain' \ DOMAIN chain :
              chain'[i].block = head + 1 /\ \A j \in DOMAIN chain : j < i
<1> DEFINE new == Block(head + 1, c)
<1>1. head + 1 \in Nat /\ chain' = chain \o new
  BY Numbers DEF NewBlock
<1>2. /\ new \in Seq(Entry)
      /\ \A i \in DOMAIN new : new[i].block = head + 1
  BY <1>1, BlockRequests
<1>3. chain \in Seq(Entry)
  BY DEF TypeOK, Entry
<1> HIDE DEF new
<1>4. chain' \in Seq(Entry)
  BY <1>1, <1>2, <1>3
<1>5. /\ DOMAIN chain' = 1..(Len(chain) + Len(new)) /\ DOMAIN chain = 1..Len(chain)
      /\ DOMAIN new = 1..Len(new) /\ Len(chain) \in Nat /\ Len(new) \in Nat
      /\ \A i \in DOMAIN chain' : chain'[i] = IF i <= Len(chain) THEN chain[i] ELSE new[i - Len(chain)]
  BY <1>1, <1>2, <1>3
<1>6. \A i \in DOMAIN chain' \ DOMAIN chain :
        i - Len(chain) \in DOMAIN new /\ chain'[i] = new[i - Len(chain)] /\ Len(chain) < i
  BY <1>5
<1>7. \A i \in DOMAIN chain' \ DOMAIN chain :
        chain'[i].block = head + 1 /\ \A j \in DOMAIN chain : j < i
  BY <1>2, <1>5, <1>6
<1>8. QED
  BY <1>4, <1>5, <1>7

\* A request that is on the chain has its type.
LEMMA RequestTyped ==
  ASSUME TypeOK, NEW i \in DOMAIN chain
  PROVE  i \in Nat /\ chain[i].block \in Nat /\ chain[i].ok \in BOOLEAN /\ chain[i].first \in BOOLEAN
<1>1. chain \in Seq(Entry)
  BY DEF TypeOK, Entry
<1>2. i \in Nat /\ chain[i] \in Entry
  BY <1>1
<1>3. QED
  BY <1>2 DEF Entry

-----------------------------------------------------------------------------
LEMMA InitIInv == Init => IInv
<1> SUFFICES ASSUME Init PROVE IInv
  OBVIOUS
<1>1. PICK c \in Contents : chain = Block(1, c)
  BY DEF Init
<1>2. /\ chain \in Seq(Entry)
      /\ \A i \in DOMAIN chain : chain[i].block = 1
  BY <1>1, BlockRequests
<1>3. /\ head = 1 /\ head \in 1..MaxHeight /\ inbox = << >> /\ inbox \in Seq(1..head)
      /\ cursor = 0 /\ at = 0 /\ to = 0 /\ start = 0
      /\ batch = {} /\ delivered = {} /\ senders = [k \in 1..MaxSenders |-> {}]
      /\ pc \in {"ask", "end"} /\ kind \in Kinds /\ channel = "open"
  BY ScanConstants DEF Init
<1>4. calm \in BOOLEAN /\ done \in BOOLEAN
  BY Zenon DEF Init
<1>5. TypeOK
  BY <1>2, <1>3, <1>4, ScanConstants DEF TypeOK, Entry
<1>6. Sorted
  BY <1>2, <1>3 DEF Sorted
<1>7. Stages /\ Position /\ Stream
  BY <1>3 DEF Stages, Position, Stream, Listening
<1>8. OnceEach
  BY <1>3 DEF OnceEach
<1>9. UnderWay = {}
  BY <1>3 DEF UnderWay
<1>10. NothingAhead /\ EverythingBehind
  BY <1>3, <1>9 DEF NothingAhead, EverythingBehind, Eventful
<1>11. QED
  BY <1>5, <1>6, <1>7, <1>8, <1>10 DEF IInv

-----------------------------------------------------------------------------
(* Steps by what they do to the events                                     *)

\* Reached is a number.
LEMMA ReachedTyped ==
  ASSUME TypeOK
  PROVE  Reached \in Int /\ Behind \in Int
  BY Numbers DEF Reached, Behind

\* A step that sends and fetches nothing moves the bound on what was taken up
\* and the bound on what was left down, where they matter.
LEMMA SameEvents ==
  ASSUME IInv, UNCHANGED <<chainVars, batch, senders, delivered>>,
         calm' => calm,
         TypeOK', Stages', Position', Stream', Reached' \in Int,
         kind = "birita" \/ calm' => Reached <= Reached',
         kind = "ont" \/ calm' => (start' = start /\ Reached' <= Reached) \/ Reached' < start'
  PROVE  IInv'
<1> USE DEF IInv, chainVars
<1>1. Sorted'
  BY DEF Sorted
<1>2. OnceEach'
  BY DEF OnceEach
<1>3. UnderWay' = UnderWay
  BY DEF UnderWay
<1>4. Reached \in Int /\ start \in Nat /\ start' \in Nat
  BY ReachedTyped DEF TypeOK
<1>5. UnderWay \cup delivered \subseteq DOMAIN chain
  BY DEF UnderWay, TypeOK
<1>6. NothingAhead'
  BY <1>3, <1>4, <1>5, RequestTyped DEF NothingAhead
<1>7. EverythingBehind'
  BY <1>3, <1>4, RequestTyped DEF EverythingBehind, Eventful
<1>8. QED
  BY <1>1, <1>2, <1>6, <1>7

\* A step that fetches a block takes requests of it, all of them where that
\* matters.
LEMMA Taking ==
  ASSUME IInv, NEW S, S \subseteq In(at), Sending(S), pc = "fetch", kind # "iotex",
         UNCHANGED <<chainVars, delivered, start, subVars>>,
         calm' \in BOOLEAN, calm' => calm,
         kind = "ont" \/ calm' => {i \in In(at) : Eventful(i)} \subseteq S
  PROVE  IInv'
<1> USE DEF IInv, chainVars, subVars
<1>1. /\ batch' = S /\ pc' = "send" /\ batch = {}
      /\ UNCHANGED <<inbox, cursor, at, to, senders, kind, head, chain, delivered, start, done, channel>>
      /\ S \subseteq DOMAIN chain /\ \A i \in S : chain[i].block = at
      /\ at \in Nat /\ at > 0
  BY Numbers DEF Sending, Stages, In
<1>2. TypeOK'
  BY <1>1 DEF TypeOK
<1>3. Sorted' /\ Position'
  BY <1>1 DEF Sorted, Position
<1>4. Stages'
  BY <1>1 DEF Stages, In
<1>5. Stream'
  BY <1>1 DEF Stream, Listening
<1>6. Reached = at - 1 /\ Reached' = at
  BY <1>1 DEF Reached
<1>7. UnderWay = {} /\ UnderWay' = S
  BY <1>1 DEF UnderWay, Stages
<1>8. delivered \subseteq DOMAIN chain
  BY DEF TypeOK
<1>9. NothingAhead'
  BY <1>1, <1>6, <1>7, <1>8, RequestTyped DEF NothingAhead
<1>10. EverythingBehind'
  <2> SUFFICES ASSUME kind = "ont" \/ calm', NEW i \in DOMAIN chain,
                      Eventful(i), start > 0, chain[i].block \in start..at
               PROVE  i \in delivered \cup S
    BY <1>1, <1>6, <1>7 DEF EverythingBehind, Eventful
  <2>1. CASE chain[i].block = at
    BY <2>1 DEF In
  <2>2. CASE chain[i].block # at
    <3>1. chain[i].block \in start..(at - 1)
      BY <1>1, <2>2, Numbers, RequestTyped
    <3>2. QED
      BY <1>6, <1>7, <3>1 DEF EverythingBehind, Eventful
  <2>3. QED
    BY <2>1, <2>2
<1>11. OnceEach'
  <2>1. \A k \in DOMAIN senders : senders[k] = {}
    BY DEF Stages
  <2>2. ASSUME kind = "birita" \/ calm', NEW i \in delivered, NEW j \in S
        PROVE  i < j
    <3>1. chain[i].block <= at - 1 /\ chain[j].block = at
      BY <1>1, <1>6, <2>2 DEF NothingAhead
    <3>2. i \in Nat /\ j \in Nat /\ chain[i].block \in Nat
      BY <1>1, <1>8, RequestTyped
    <3>3. j <= i => chain[j].block <= chain[i].block
      BY <1>1, <1>8, <3>2 DEF Sorted
    <3>4. QED
      BY <1>1, <3>1, <3>2, <3>3
  <2>3. QED
    BY <1>1, <2>1, <2>2 DEF OnceEach
<1>12. QED
  BY <1>2, <1>3, <1>4, <1>5, <1>9, <1>10, <1>11

-----------------------------------------------------------------------------
(* The chain grows                                                         *)

LEMMA NewBlockStep == ASSUME IInv, NEW c \in Contents, NewBlock(c) PROVE IInv'
<1> USE DEF IInv
<1>1. /\ head' = head + 1 /\ head' <= MaxHeight
      /\ UNCHANGED <<kind, cursor, at, to, pc, batch, senders, delivered, start, calm, done, channel>>
  BY Numbers DEF NewBlock, subVars
<1>2. inbox' = IF Listening THEN Append(inbox, head + 1) ELSE inbox
  BY DEF NewBlock
<1>3. inbox \in Seq(1..head)
  BY DEF TypeOK
<1>4. inbox' \in Seq(1..head')
  <2> DEFINE T == 1..head'
  <2>1. 1..head \subseteq T /\ head + 1 \in T
    BY <1>1, Numbers
  <2> HIDE DEF T
  <2>2. inbox \in Seq(T)
    BY <1>3, <2>1, SeqGrows
  <2>3. inbox' \in Seq(T)
    BY <1>2, <2>1, <2>2
  <2>4. QED
    BY <2>3 DEF T
<1>5. /\ DOMAIN chain \subseteq DOMAIN chain'
      /\ \A i \in DOMAIN chain : /\ chain'[i] = chain[i]
                                 /\ chain[i].block <= head /\ chain[i].block \in Nat /\ i \in Nat
      /\ \A i \in DOMAIN chain' \ DOMAIN chain : chain'[i].block = head + 1
      /\ \A i \in DOMAIN chain' \ DOMAIN chain : \A j \in DOMAIN chain : j < i
  BY NewRequests, RequestTyped DEF Sorted
<1>6. TypeOK'
  <2>1. chain' \in Seq([block : Nat, ok : BOOLEAN, first : BOOLEAN])
    BY NewRequests DEF Entry
  <2>2. batch' \subseteq DOMAIN chain' /\ delivered' \subseteq DOMAIN chain'
        /\ senders' \in [1..MaxSenders -> SUBSET DOMAIN chain']
    BY <1>1, <1>5 DEF TypeOK
  <2>3. head' \in 1..MaxHeight
    BY <1>1, Numbers
  <2>4. QED
    BY <1>1, <1>4, <2>1, <2>2, <2>3 DEF TypeOK
<1>7. DOMAIN chain' \subseteq Nat
  <2>1. chain' \in Seq(Entry)
    BY NewRequests
  <2>2. QED
    BY <2>1
<1>8. Sorted'
  BY <1>1, <1>5, <1>7, Numbers DEF Sorted
<1>9. \A b \in 0..head : In(b)' = In(b)
  BY <1>1, <1>5, Numbers DEF In
<1>10. Stages'
  <2>1. batch \subseteq In(at)'
    BY <1>1, <1>9, Numbers DEF Stages, In
  <2>2. QED
    BY <1>1, <2>1, Numbers DEF Stages
<1>11. Position'
  BY <1>1 DEF Position
<1>12. Stream'
  <2>1. CASE ~Listening
    BY <1>1, <2>1 DEF Stream, Listening
  <2>2. CASE Listening
    <3>1. /\ Len(inbox') = Len(inbox) + 1 /\ Len(inbox) \in Nat
          /\ DOMAIN inbox = 1..Len(inbox) /\ DOMAIN inbox' = 1..(Len(inbox) + 1)
          /\ \A k \in DOMAIN inbox : inbox'[k] = inbox[k]
          /\ inbox'[Len(inbox) + 1] = head + 1
      BY <1>2, <1>3, <2>2
    <3>2. Listening' /\ head' = head + 1
      BY <1>1, <2>2 DEF Listening
    <3>3. (kind = "tezos" /\ calm) =>
            /\ pc \in {"ask", "end"} => cursor = 0
            /\ \A k \in DOMAIN inbox : inbox[k] = head - Len(inbox) + k
            /\ at > 0 => at = head - Len(inbox)
            /\ at = 0 /\ cursor > 0 => cursor = head - Len(inbox)
      BY <2>2 DEF Stream
    <3>4. head - Len(inbox) = head' - Len(inbox') /\ head \in Nat
      BY <3>1, <3>2, Numbers
    <3>5. (kind = "tezos" /\ calm) => \A k \in DOMAIN inbox' : inbox'[k] = head' - Len(inbox') + k
      <4>1. SUFFICES ASSUME kind = "tezos", calm, NEW k \in DOMAIN inbox'
                     PROVE  inbox'[k] = head' - Len(inbox') + k
        OBVIOUS
      <4>2. CASE k \in DOMAIN inbox
        BY <3>1, <3>3, <3>4, <4>1, <4>2
      <4>3. CASE k \notin DOMAIN inbox
        <5>1. k = Len(inbox) + 1 /\ inbox'[k] = head + 1
          BY <3>1, <4>1, <4>3
        <5>2. QED
          BY <3>1, <3>2, <3>4, <5>1
      <4>4. QED
        BY <4>2, <4>3
    <3>6. QED
      BY <1>1, <3>2, <3>3, <3>4, <3>5 DEF Stream
  <2>3. QED
    BY <2>1, <2>2
<1>13. Reached' = Reached /\ UnderWay' = UnderWay /\ Reached \in Int /\ start \in Nat
  BY <1>1, ReachedTyped, Numbers DEF Reached, Behind, UnderWay
<1>14. UnderWay \cup delivered \subseteq DOMAIN chain
  BY DEF UnderWay, TypeOK
<1>15. Reached <= head
  BY Numbers DEF Reached, Behind, Stages
<1>16. NothingAhead'
  BY <1>1, <1>5, <1>13, <1>14 DEF NothingAhead
<1>17. EverythingBehind'
  BY <1>1, <1>5, <1>13, <1>15, Numbers DEF EverythingBehind, Eventful
<1>18. OnceEach'
  BY <1>1 DEF OnceEach
<1>19. QED
  BY <1>6, <1>8, <1>10, <1>11, <1>12, <1>16, <1>17, <1>18

-----------------------------------------------------------------------------
(* The start of a scan                                                     *)

\* A scan of the blocks from the one given to the height of the node.
LEMMA ScanningStep ==
  ASSUME IInv, NEW c \in 1..head, NEW from \in 1..(head + 1), NEW cur \in Nat,
         Scanning(from, c, cur), pc = "ask", kind # "tezos",
         UNCHANGED <<chainVars, batch, senders, delivered, subVars>>,
         calm' \in BOOLEAN, calm' => calm,
         cursor = 0 => from <= c,
         kind = "ont" => cur = (IF from <= c THEN from ELSE c + 1),
         kind = "birita" => cur = from - 1 /\ (cursor = 0 \/ cur = cursor) /\ cur <= head,
         kind = "iotex" => cur = cursor /\ (calm' => cursor = 0 \/ from = cursor + 1),
         kind = "ont" /\ cursor > 0 => from = cursor /\ (calm' => cursor <= c + 1)
  PROVE  IInv'
<1> USE DEF IInv, chainVars, subVars
<1> USE Numbers
<1>1. /\ cursor' = cur
      /\ start' = IF cursor = 0 THEN from ELSE start
      /\ UNCHANGED <<kind, head, chain, batch, senders, delivered, done, channel>>
      /\ at = 0 /\ batch = {} /\ head + 1 \in Nat /\ head + 1 <= MaxHeight + 1
  BY DEF Scanning, Stages
<1>2. IF from <= c THEN pc' = "fetch" /\ at' = from /\ to' = c /\ inbox' = inbox
                   ELSE pc' = "end" /\ at' = 0 /\ to' = 0 /\ inbox' = << >>
  BY DEF Scanning, EndScan
<1>3. kind \in {"ont", "birita", "iotex"} /\ cursor \in 0..(head + 1) /\ start \in 0..(MaxHeight + 1)
  BY DEF TypeOK, Kinds, Stages
<1>4. cur <= IF kind = "ont" THEN head + 1 ELSE head
  BY <1>3 DEF Stages
<1>5. TypeOK'
  <2>1. inbox' \in Seq(1..head)
    <3>1. inbox \in Seq(1..head) /\ << >> \in Seq(1..head)
      BY DEF TypeOK
    <3>2. QED
      BY <1>2, <3>1, Zenon
  <2>2. at' \in 0..(MaxHeight + 1) /\ to' \in 0..(MaxHeight + 1) /\ pc' \in {"fetch", "end"}
    BY <1>1, <1>2
  <2>3. cursor' \in 0..(MaxHeight + 1) /\ start' \in 0..(MaxHeight + 1)
    BY <1>1, <1>3, <1>4
  <2>4. QED
    BY <1>1, <2>1, <2>2, <2>3 DEF TypeOK
<1>6. Stages'
  BY <1>1, <1>2, <1>3, <1>4 DEF Stages, In
<1>7. Position'
  BY <1>1, <1>2, <1>3 DEF Position
<1>8. Stream'
  BY <1>1 DEF Stream
<1>9. /\ Reached = IF kind = "ont" THEN cursor - 1 ELSE cursor
      /\ Reached' = IF kind = "iotex" \/ ~(from <= c) THEN (IF kind = "ont" THEN cur - 1 ELSE cur)
                    ELSE from - 1
  BY <1>1, <1>2 DEF Reached, Behind
<1>10. Reached' \in Int
  BY <1>9
<1>11. kind = "birita" \/ calm' => Reached <= Reached'
  BY <1>1, <1>2, <1>3, <1>9
<1>12. (start' = start /\ Reached' <= Reached) \/ Reached' < start'
  BY <1>1, <1>2, <1>3, <1>9
<1>13. QED
  BY <1>1, <1>5, <1>6, <1>7, <1>8, <1>10, <1>11, <1>12, SameEvents

LEMMA OntAskStep == ASSUME IInv, NEW c \in 1..head, OntAsk(c) PROVE IInv'
<1> DEFINE from == IF cursor = 0 THEN c ELSE cursor
           cur == IF from <= c THEN from ELSE c + 1
<1>1. cursor \in 0..(head + 1) /\ head \in Nat /\ calm \in BOOLEAN
  BY Numbers DEF IInv, OntAsk, Stages, TypeOK
<1>2. from \in 1..(head + 1) /\ cur \in Nat
  BY <1>1
<1>3. /\ Scanning(from, c, cur) /\ kind = "ont" /\ pc = "ask"
      /\ UNCHANGED <<chainVars, batch, senders, delivered, subVars>>
  BY DEF OntAsk
<1>4. calm' = (calm /\ c >= cursor - 1)
  BY DEF OntAsk
<1>5. calm' \in BOOLEAN /\ (calm' => calm)
  BY <1>1, <1>4
<1>6. calm' => cursor <= c + 1
  <2>1. calm' => c >= cursor - 1
    BY <1>4, Zenon
  <2>2. QED
    BY <1>1, <2>1
<1>7. cursor = 0 => from <= c
  BY <1>1
<1>8. cursor > 0 => from = cursor
  BY <1>1
<1> HIDE DEF from
<1>9. cur = IF from <= c THEN from ELSE c + 1
  OBVIOUS
<1> HIDE DEF cur
<1>10. QED
  BY <1>2, <1>3, <1>5, <1>6, <1>7, <1>8, <1>9, ScanningStep

LEMMA IritaAskStep == ASSUME IInv, NEW c \in 1..head, IritaAsk(c) PROVE IInv'
<1> DEFINE from == IF cursor = 0 THEN c ELSE cursor + 1
           cur == from - 1
<1>1. cursor \in 0..head /\ head \in Nat /\ calm \in BOOLEAN
  BY Numbers DEF IInv, IritaAsk, Stages, TypeOK
<1>2. /\ from \in 1..(head + 1) /\ cur \in Nat /\ cur <= head
      /\ cursor = 0 => from <= c
      /\ cursor = 0 \/ cur = cursor
  BY <1>1
<1>3. /\ Scanning(from, c, cur) /\ kind = "birita" /\ pc = "ask"
      /\ UNCHANGED <<chainVars, batch, senders, delivered, subVars>>
      /\ calm' = calm
  BY DEF IritaAsk
<1>4. cur = from - 1
  OBVIOUS
<1> HIDE DEF from, cur
<1>5. QED
  BY <1>1, <1>2, <1>3, <1>4, ScanningStep

LEMMA IotexAskStep == ASSUME IInv, NEW c \in 1..head, IotexAsk(c) PROVE IInv'
<1> DEFINE blocks == (c - cursor) % Modulus
           from == IF blocks < Range THEN cursor + 1 ELSE c
<1>1. cursor \in 0..head /\ head \in Nat /\ calm \in BOOLEAN
  BY Numbers DEF IInv, IotexAsk, Stages, TypeOK
<1>2. /\ Scanning(from, c, cursor) /\ kind = "iotex" /\ pc = "ask"
      /\ UNCHANGED <<chainVars, batch, senders, delivered, subVars>>
  BY DEF IotexAsk
<1>3. calm' = (calm /\ c >= cursor /\ (cursor = 0 \/ from = cursor + 1))
  BY DEF IotexAsk
<1> HIDE DEF blocks
<1>4. /\ from \in 1..(head + 1)
      /\ cursor = 0 => from <= c
  BY <1>1
<1> HIDE DEF from
<1>5. calm' \in BOOLEAN /\ (calm' => calm) /\ (calm' => cursor = 0 \/ from = cursor + 1)
  BY <1>1, <1>3
<1>6. QED
  BY <1>1, <1>2, <1>4, <1>5, ScanningStep

-----------------------------------------------------------------------------
(* Steps between two scans                                                 *)

\* A step that changes the stage only.
LEMMA StageStep ==
  ASSUME IInv, at = 0, UNCHANGED <<chainVars, cursor, at, to, batch, senders, delivered, start>>,
         pc' \in {"ask", "read", "end", "gone"},
         inbox' \in Seq(1..head), calm' \in BOOLEAN, calm' => calm,
         done' \in BOOLEAN, channel' \in {"open", "closed"},
         Stream'
  PROVE  IInv'
<1> USE DEF IInv, chainVars
<1>1. TypeOK'
  BY DEF TypeOK
<1>2. batch = {}
  BY DEF Stages, In, Sorted
<1>3. Stages'
  BY <1>2 DEF Stages, In
<1>4. Position'
  BY DEF Position
<1>5. Reached' = Reached /\ Reached \in Int
  BY ReachedTyped DEF Reached, Behind
<1>6. QED
  BY <1>1, <1>3, <1>4, <1>5, SameEvents

LEMMA MonitorStep == ASSUME IInv, TezosMonitor PROVE IInv'
<1> USE DEF IInv
<1>1. /\ UNCHANGED <<chainVars, cursor, at, to, batch, senders, delivered, start, calm, done, channel>>
      /\ pc = "ask" /\ pc' = "read" /\ at = 0 /\ kind = "tezos"
      /\ inbox' = <<head>> \/ inbox' = << >>
  BY DEF TezosMonitor, subVars, Stages
<1>2. calm \in BOOLEAN /\ done \in BOOLEAN /\ channel \in {"open", "closed"} /\ head \in 1..head
  BY Numbers DEF TypeOK
<1>3. inbox' \in Seq(1..head)
  <2> DEFINE S == 1..head
  <2>1. head \in S
    BY <1>2
  <2> HIDE DEF S
  <2>2. <<head>> \in Seq(S) /\ << >> \in Seq(S)
    BY <2>1
  <2>3. inbox' \in Seq(S)
    BY <1>1, <2>2, Zenon
  <2>4. QED
    BY <2>3 DEF S
<1>4. Stream'
  <2>1. calm => cursor = 0
    BY <1>1 DEF Stream
  <2>2. \A k \in DOMAIN inbox' : inbox'[k] = head - Len(inbox') + k
    <3>1. CASE inbox' = <<head>>
      <4>1. Len(inbox') = 1 /\ DOMAIN inbox' = {1} /\ inbox'[1] = head
        BY <3>1
      <4>2. QED
        BY <4>1, Numbers
    <3>2. CASE inbox' = << >>
      BY <3>2
    <3>3. QED
      BY <1>1, <3>1, <3>2
  <2>3. QED
    BY <1>1, <2>1, <2>2 DEF Stream, Listening, chainVars
<1>5. QED
  BY <1>1, <1>2, <1>3, <1>4, StageStep

LEMMA PauseStep == ASSUME IInv, AskFails \/ Wake \/ Stop PROVE IInv'
<1> USE DEF IInv
<1>1. /\ UNCHANGED <<chainVars, inbox, cursor, at, to, batch, senders, delivered, start, calm, done, channel>>
      /\ pc \in {"ask", "end"} /\ pc' \in {"ask", "end", "gone"} /\ at = 0
      /\ pc' = "gone" => kind # "tezos"
  BY DEF AskFails, Wake, Stop, subVars, Stages
<1>2. /\ calm \in BOOLEAN /\ done \in BOOLEAN /\ channel \in {"open", "closed"}
      /\ inbox \in Seq(1..head)
  BY DEF TypeOK
<1>3. Stream'
  BY <1>1 DEF Stream, Listening, chainVars
<1>4. QED
  BY <1>1, <1>2, <1>3, StageStep

\* A block of BSN-IRITA is asked for again.
LEMMA RetryStep == ASSUME IInv, IritaFails \/ IritaRetry PROVE IInv'
<1> USE DEF IInv
<1>1. /\ UNCHANGED <<chainVars, inbox, cursor, at, to, batch, senders, delivered, start, calm, done, channel>>
      /\ pc \in {"fetch", "retry"} /\ pc' \in {"fetch", "retry"} /\ kind = "birita"
  BY DEF IritaFails, IritaRetry, subVars, Stages
<1>2. TypeOK'
  BY <1>1 DEF TypeOK, chainVars
<1>3. Stages' /\ Position' /\ Stream'
  BY <1>1 DEF Stages, Position, Stream, In, chainVars
<1>4. Reached' = Reached /\ Reached \in Int
  BY <1>1, ReachedTyped DEF Reached, Behind, chainVars
<1>5. QED
  BY <1>1, <1>2, <1>3, <1>4, SameEvents

\* The scan is given up: the stream has ended, a block is not to be had, or
\* what it holds loses the events of all.
LEMMA GivingUp ==
  ASSUME IInv, EndScan, UNCHANGED <<chainVars, cursor, batch, senders, delivered, start, subVars>>,
         pc \in {"read", "fetch"}, calm' \in BOOLEAN, calm' => calm /\ kind = "iotex", kind # "birita"
  PROVE  IInv'
<1> USE DEF IInv, chainVars, subVars
<1>1. /\ UNCHANGED <<kind, head, chain, cursor, batch, senders, delivered, start, done, channel>>
      /\ pc' = "end" /\ at' = 0 /\ to' = 0 /\ inbox' = << >> /\ batch = {}
  BY DEF EndScan, Stages
<1>2. TypeOK'
  <2>1. << >> \in Seq(1..head)
    OBVIOUS
  <2>2. at' \in 0..(MaxHeight + 1) /\ to' \in 0..(MaxHeight + 1)
    BY <1>1, Numbers
  <2>3. inbox' \in Seq(1..head)
    BY <1>1, <2>1, Zenon
  <2>4. QED
    BY <1>1, <2>2, <2>3 DEF TypeOK
<1>3. Stages'
  BY <1>1, Numbers DEF Stages, In
<1>4. Position' /\ Stream'
  BY <1>1 DEF Position, Stream
<1>5. /\ Reached' = Behind /\ Behind \in Int /\ Reached \in Int
      /\ Reached' <= Reached \/ kind = "tezos"
      /\ kind = "iotex" => Reached = Reached'
  <2>1. Behind' = Behind /\ Reached' = Behind /\ Behind \in Int /\ Reached \in Int
    BY <1>1, ReachedTyped DEF Reached, Behind
  <2>2. kind = "iotex" \/ at = 0 => Reached = Behind
    BY DEF Reached
  <2>3. kind = "ont" /\ at > 0 => Behind <= at - 1 /\ Reached = at - 1
    <3>1. kind = "ont" /\ at > 0 => cursor \in 1..at /\ pc = "fetch"
      BY DEF Position, Stages
    <3>2. QED
      BY <3>1, Numbers DEF Reached, Behind
  <2>4. kind \in {"ont", "iotex", "tezos"}
    BY DEF TypeOK, Kinds
  <2>5. QED
    BY <2>1, <2>2, <2>3, <2>4, Numbers
<1>6. QED
  BY <1>1, <1>2, <1>3, <1>4, <1>5, SameEvents

LEMMA GivingUpStep ==
  ASSUME IInv,
         \/ TezosLost
         \/ FetchFails
         \/ kind = "tezos" /\ Malformed(In(at)) /\ TezosBlock
  PROVE  IInv'
<1>1. CASE TezosLost
  <2>1. calm' \in BOOLEAN /\ (calm' => calm /\ kind = "iotex")
    BY <1>1, Zenon DEF TezosLost
  <2>2. QED
    BY <1>1, <2>1, GivingUp DEF TezosLost
<1>2. CASE FetchFails
  <2>1. calm' = (calm /\ kind = "iotex")
    BY <1>2 DEF FetchFails, Unfetched
  <2>2. calm' \in BOOLEAN /\ (calm' => calm /\ kind = "iotex")
    BY <2>1, Zenon
  <2>3. EndScan /\ UNCHANGED <<chainVars, cursor, batch, senders, delivered, start, subVars>>
    BY <1>2 DEF FetchFails, Unfetched
  <2>4. pc = "fetch" /\ kind # "birita"
    BY <1>2 DEF FetchFails, Unfetched
  <2>5. QED
    BY <2>2, <2>3, <2>4, GivingUp
<1>3. CASE kind = "tezos" /\ Malformed(In(at)) /\ TezosBlock
  <2>1. calm' = FALSE
    BY <1>3 DEF TezosBlock
  <2>2. calm' \in BOOLEAN /\ (calm' => calm /\ kind = "iotex")
    BY <2>1, Zenon
  <2>3. EndScan /\ UNCHANGED <<chainVars, cursor, batch, senders, delivered, start, subVars>>
    BY <1>3 DEF TezosBlock
  <2>4. QED
    BY <1>3, <2>2, <2>3, GivingUp DEF TezosBlock
<1>4. QED
  BY <1>1, <1>2, <1>3

\* The next head of the stream.
LEMMA HeadStep == ASSUME IInv, TezosHead PROVE IInv'
<1> USE DEF IInv, chainVars, subVars
<1>1. /\ UNCHANGED <<kind, head, chain, cursor, batch, senders, delivered, calm, done, channel>>
      /\ kind = "tezos" /\ pc = "read" /\ pc' = "fetch" /\ at = 0 /\ batch = {}
      /\ at' = Head(inbox) /\ to' = Head(inbox) /\ inbox' = Tail(inbox) /\ inbox # << >>
      /\ start' = IF cursor = 0 THEN Head(inbox) ELSE start
  BY DEF TezosHead, Stages
<1>2. inbox \in Seq(1..head)
  BY DEF TypeOK
<1>3. /\ Head(inbox) \in 1..head /\ Head(inbox) = inbox[1] /\ Len(inbox) \in Nat /\ Len(inbox) > 0
      /\ Tail(inbox) \in Seq(1..head) /\ Len(Tail(inbox)) = Len(inbox) - 1
      /\ DOMAIN inbox = 1..Len(inbox) /\ DOMAIN Tail(inbox) = 1..(Len(inbox) - 1)
      /\ \A k \in 1..(Len(inbox) - 1) : Tail(inbox)[k] = inbox[k + 1]
  <2> DEFINE S == 1..head
  <2>1. inbox \in Seq(S) /\ inbox # << >>
    BY <1>1, <1>2
  <2> HIDE DEF S
  <2>2. /\ Head(inbox) \in S /\ Head(inbox) = inbox[1] /\ Len(inbox) \in Nat /\ Len(inbox) > 0
        /\ Tail(inbox) \in Seq(S) /\ Len(Tail(inbox)) = Len(inbox) - 1
        /\ DOMAIN inbox = 1..Len(inbox) /\ DOMAIN Tail(inbox) = 1..(Len(inbox) - 1)
        /\ \A k \in 1..(Len(inbox) - 1) : Tail(inbox)[k] = inbox[k + 1]
    BY <2>1
  <2>3. QED
    BY <2>2 DEF S
<1>4. TypeOK'
  <2>1. at' \in 0..(MaxHeight + 1) /\ to' \in 0..(MaxHeight + 1) /\ start' \in 0..(MaxHeight + 1)
    BY <1>1, <1>3, Numbers DEF TypeOK
  <2>2. QED
    BY <1>1, <1>3, <2>1 DEF TypeOK
<1>5. Stages'
  BY <1>1, <1>3, Numbers DEF Stages, In
<1>6. calm => /\ \A k \in 1..Len(inbox) : inbox[k] = head - Len(inbox) + k
              /\ cursor > 0 => cursor = head - Len(inbox)
  BY <1>1, <1>3 DEF Stream, Listening
<1>7. calm => at' = head - (Len(inbox) - 1) /\ (cursor > 0 => at' = cursor + 1)
  BY <1>1, <1>3, <1>6, Numbers
<1>8. Position'
  BY <1>1, <1>7, Numbers DEF Position
<1>9. Stream'
  <2>1. ASSUME calm, NEW k \in DOMAIN inbox' PROVE inbox'[k] = head - Len(inbox') + k
    <3> DEFINE l == Len(inbox)
    <3>1. /\ l \in Nat /\ head \in Nat /\ Len(inbox') = l - 1 /\ k \in 1..(l - 1)
          /\ inbox'[k] = inbox[k + 1]
      BY <1>1, <1>3, <2>1, Numbers
    <3>2. \A j \in 1..l : inbox[j] = head - l + j
      BY <1>6, <2>1
    <3> HIDE DEF l
    <3>3. k + 1 \in 1..l
      BY <3>1
    <3>4. inbox[k + 1] = head - l + (k + 1)
      BY <3>2, <3>3
    <3>5. QED
      BY <3>1, <3>4
  <2>2. QED
    BY <1>1, <1>3, <1>7, <2>1 DEF Stream, Listening
<1>10. Reached = cursor /\ Reached' = at' - 1 /\ at' \in Nat /\ at' > 0
  BY <1>1, <1>3 DEF Reached, Behind
<1>11. calm => Reached <= Reached' /\ ((start' = start /\ Reached' <= Reached) \/ Reached' < start')
  BY <1>1, <1>7, <1>10, Numbers
<1>12. QED
  BY <1>1, <1>4, <1>5, <1>8, <1>9, <1>10, <1>11, SameEvents

-----------------------------------------------------------------------------
(* The end of a block and of a scan                                        *)

LEMMA ScannedStep ==
  ASSUME IInv, OntNext \/ IritaNext
  PROVE  IInv'
<1> USE DEF IInv, chainVars, subVars
<1>1. /\ UNCHANGED <<kind, head, chain, batch, senders, delivered, start, calm, done, channel>>
      /\ kind \in {"ont", "birita"} /\ pc = "send" /\ batch = {}
      /\ IF at < to
         THEN pc' = "fetch" /\ at' = at + 1 /\ to' = to /\ inbox' = inbox
              /\ cursor' = IF kind = "ont" THEN cursor ELSE at
         ELSE pc' = "end" /\ at' = 0 /\ to' = 0 /\ inbox' = << >>
              /\ cursor' = IF kind = "ont" THEN to + 1 ELSE at
  BY DEF OntNext, IritaNext, Scanned, EndScan
<1>2. /\ at \in 1..to /\ to \in 0..head /\ head \in Nat /\ cursor \in Nat
      /\ kind = "ont" => cursor \in 1..at
      /\ head <= MaxHeight /\ MaxHeight \in Nat
  BY <1>1, Numbers DEF Stages, Position
<1>3. TypeOK'
  <2>1. << >> \in Seq(1..head) /\ inbox \in Seq(1..head)
    BY DEF TypeOK
  <2>2. inbox' \in Seq(1..head)
    BY <1>1, <2>1, Zenon
  <2>3. {cursor', at', to'} \subseteq 0..(MaxHeight + 1)
    BY <1>1, <1>2
  <2>4. QED
    BY <1>1, <2>2, <2>3 DEF TypeOK
<1>4. Stages'
  BY <1>1, <1>2 DEF Stages, In
<1>5. Position' /\ Stream'
  BY <1>1, <1>2 DEF Position, Stream
<1>6. Reached = at /\ Reached' = at
  BY <1>1, <1>2 DEF Reached, Behind
<1>7. QED
  BY <1>1, <1>2, <1>3, <1>4, <1>5, <1>6, SameEvents

LEMMA TezosNextStep == ASSUME IInv, TezosNext PROVE IInv'
<1> USE DEF IInv, chainVars, subVars
<1>1. /\ UNCHANGED <<kind, head, chain, inbox, batch, senders, delivered, start, calm, done, channel>>
      /\ kind = "tezos" /\ pc = "send" /\ batch = {} /\ pc' = "read"
      /\ cursor' = at /\ at' = 0 /\ to' = 0
  BY DEF TezosNext
<1>2. at \in 1..to /\ to \in 0..head /\ head \in Nat /\ head <= MaxHeight /\ MaxHeight \in Nat
  BY <1>1, Numbers DEF Stages
<1>3. TypeOK'
  BY <1>1, <1>2 DEF TypeOK
<1>4. Stages'
  BY <1>1, <1>2 DEF Stages, In
<1>5. Position' /\ Stream'
  BY <1>1, <1>2 DEF Position, Stream, Listening
<1>6. Reached = at /\ Reached' = at
  BY <1>1, <1>2 DEF Reached, Behind
<1>7. QED
  BY <1>1, <1>2, <1>3, <1>4, <1>5, <1>6, SameEvents

-----------------------------------------------------------------------------
(* The requests of a block                                                 *)

LEMMA OntBlockStep == ASSUME IInv, OntBlock PROVE IInv'
<1>1. /\ Sending({i \in In(at) : chain[i].ok}) /\ kind = "ont" /\ pc = "fetch"
      /\ UNCHANGED <<chainVars, delivered, start, calm, subVars>>
  BY DEF OntBlock
<1>2. calm' \in BOOLEAN /\ (calm' => calm)
  BY <1>1 DEF IInv, TypeOK
<1>3. {i \in In(at) : Eventful(i)} \subseteq {i \in In(at) : chain[i].ok}
  BY DEF Eventful
<1>4. QED
  BY <1>1, <1>2, <1>3, Taking

LEMMA IritaBlockStep == ASSUME IInv, IritaBlock PROVE IInv'
<1>1. PICK queried \in SUBSET In(at) : Sending(queried) /\ calm' = (calm /\ queried = In(at))
  BY DEF IritaBlock
<1>2. kind = "birita" /\ pc = "fetch" /\ UNCHANGED <<chainVars, delivered, start, subVars>>
  BY DEF IritaBlock
<1>3. calm' \in BOOLEAN /\ (calm' => calm) /\ (calm' => queried = In(at))
  BY <1>1, Zenon DEF IInv, TypeOK
<1>4. kind = "ont" \/ calm' => {i \in In(at) : Eventful(i)} \subseteq queried
  BY <1>2, <1>3
<1>5. QED
  BY <1>1, <1>2, <1>3, <1>4, Taking

LEMMA TezosBlockStep == ASSUME IInv, TezosBlock PROVE IInv'
<1>1. CASE Malformed(In(at))
  BY <1>1, GivingUpStep DEF TezosBlock
<1>2. CASE ~Malformed(In(at))
  <2>1. /\ Sending({i \in In(at) : chain[i].first}) /\ kind = "tezos" /\ pc = "fetch"
        /\ UNCHANGED <<chainVars, delivered, start, calm, subVars>>
    BY <1>2 DEF TezosBlock
  <2>2. calm' \in BOOLEAN /\ (calm' => calm)
    BY <2>1 DEF IInv, TypeOK
  <2>3. {i \in In(at) : Eventful(i)} \subseteq {i \in In(at) : chain[i].first}
    BY DEF Eventful
  <2>4. QED
    BY <2>1, <2>2, <2>3, Taking
<1>3. QED
  BY <1>1, <1>2

\* Blocks that another goroutine is to send are all ahead of what was taken.
LEMMA IotexBlocksStep == ASSUME IInv, IotexBlocks PROVE IInv'
<1> USE DEF IInv, chainVars, subVars
<1>1. /\ UNCHANGED <<kind, head, chain, batch, delivered, start, done, channel>>
      /\ kind = "iotex" /\ pc = "fetch" /\ batch = {} /\ cursor' = to
      /\ pc' = "end" /\ at' = 0 /\ to' = 0 /\ inbox' = << >>
  BY DEF IotexBlocks, EndScan, Stages
<1>2. /\ at \in 1..to /\ to \in 0..head /\ head \in Nat /\ cursor \in Nat /\ start \in Nat
      /\ head <= MaxHeight /\ MaxHeight \in Nat
  BY <1>1, Numbers DEF Stages
<1>3. calm => cursor < at /\ (cursor = 0 => start = at) /\ (cursor > 0 => at = cursor + 1)
  BY <1>1, <1>2 DEF Position
<1>4. Reached = cursor /\ Reached' = to
  BY <1>1 DEF Reached, Behind
<1>5. inbox' \in Seq(1..head)
  <2>1. << >> \in Seq(1..head)
    OBVIOUS
  <2>2. QED
    BY <1>1, <2>1, Zenon
<1>6. /\ {cursor', at', to', start'} \subseteq 0..(MaxHeight + 1)
      /\ pc' \in {"ask", "read", "fetch", "retry", "send", "end", "gone", "crashed"}
  BY <1>1, <1>2 DEF TypeOK
<1>7. senders' \in [1..MaxSenders -> SUBSET DOMAIN chain] /\ calm' \in BOOLEAN => TypeOK'
  BY <1>1, <1>5, <1>6 DEF TypeOK
<1>8. Stages' /\ Position' /\ Stream'
  BY <1>1, <1>2 DEF Stages, Position, Stream
<1>9. CASE Malformed(Between(at, to))
  <2>1. calm' = FALSE /\ senders' = senders
    BY <1>9 DEF IotexBlocks
  <2>2. TypeOK'
    BY <1>7, <2>1 DEF TypeOK
  <2>3. Reached' \in Int
    BY <1>2, <1>4
  <2>4. QED
    BY <1>1, <1>8, <2>1, <2>2, <2>3, SameEvents
<1>10. CASE ~Malformed(Between(at, to))
  <2> DEFINE new == Between(at, to)
  <2>1. PICK k \in DOMAIN senders :
          senders[k] = {} /\ senders' = [senders EXCEPT ![k] = new]
    BY <1>10 DEF IotexBlocks
  <2>2. calm' = calm
    BY <1>10 DEF IotexBlocks
  <2>3. /\ new \subseteq DOMAIN chain
        /\ \A i \in new : at <= chain[i].block /\ chain[i].block <= to
        /\ \A i \in DOMAIN chain : chain[i].block \in at..to => i \in new
    BY <1>2, RequestTyped DEF Between
  <2> HIDE DEF new
  <2>4. /\ DOMAIN senders' = DOMAIN senders /\ senders'[k] = new
        /\ \A m \in DOMAIN senders \ {k} : senders'[m] = senders[m]
        /\ UnderWay' = UnderWay \cup new
    <3>1. senders \in [1..MaxSenders -> SUBSET DOMAIN chain]
      BY DEF TypeOK
    <3>2. /\ DOMAIN senders' = DOMAIN senders /\ senders'[k] = new
          /\ \A m \in DOMAIN senders \ {k} : senders'[m] = senders[m]
      BY <2>1, <3>1
    <3>3. UnderWay = UNION {senders[m] : m \in DOMAIN senders}
          /\ UnderWay' = UNION {senders'[m] : m \in DOMAIN senders}
      BY <1>1, <3>2 DEF UnderWay
    <3>4. QED
      BY <2>1, <3>2, <3>3
  <2>5. TypeOK'
    <3>1. senders' \in [1..MaxSenders -> SUBSET DOMAIN chain]
      BY <2>1, <2>3 DEF TypeOK
    <3>2. QED
      BY <1>7, <2>2, <3>1 DEF TypeOK
  <2>6. Sorted'
    BY <1>1 DEF Sorted
  <2>7. delivered \cup UnderWay \subseteq DOMAIN chain
    BY DEF UnderWay, TypeOK
  <2>8. calm => \A i \in delivered \cup UnderWay : chain[i].block <= cursor
    BY <1>4 DEF NothingAhead
  <2>9. NothingAhead'
    BY <1>1, <1>2, <1>3, <1>4, <2>2, <2>3, <2>4, <2>7, <2>8, RequestTyped DEF NothingAhead
  <2>10. EverythingBehind'
    <3> SUFFICES ASSUME calm, NEW i \in DOMAIN chain,
                        Eventful(i), start > 0, chain[i].block \in start..to
                 PROVE  i \in delivered \cup UnderWay \cup new
      BY <1>1, <1>4, <2>2, <2>4 DEF EverythingBehind, Eventful
    <3>1. CASE chain[i].block >= at
      BY <1>2, <2>3, <3>1, RequestTyped
    <3>2. CASE ~(chain[i].block >= at)
      <4>1. chain[i].block \in start..cursor
        BY <1>2, <1>3, <3>2, RequestTyped
      <4>2. QED
        BY <1>4, <4>1 DEF EverythingBehind, Eventful
    <3>3. QED
      BY <3>1, <3>2
  <2>11. OnceEach'
    <3> SUFFICES ASSUME calm
                 PROVE  \A m \in DOMAIN senders :
                          /\ senders'[m] \cap delivered = {}
                          /\ \A l \in DOMAIN senders : l # m => senders'[m] \cap senders'[l] = {}
      BY <1>1, <2>2, <2>4 DEF OnceEach
    <3>1. \A i \in delivered \cup UnderWay : i \notin new
      BY <1>2, <1>3, <2>3, <2>7, <2>8, RequestTyped
    <3>2. new \cap delivered = {} /\ \A m \in DOMAIN senders : new \cap senders[m] = {}
      BY <3>1 DEF UnderWay
    <3>3. QED
      BY <2>4, <3>2 DEF OnceEach
  <2>12. QED
    BY <1>8, <2>5, <2>6, <2>9, <2>10, <2>11
<1>11. QED
  BY <1>9, <1>10

-----------------------------------------------------------------------------
(* The consumer receives an event, or the channel is closed                *)

\* An event that was under way is delivered.
LEMMA Delivering ==
  ASSUME IInv,
         UNCHANGED <<chainVars, inbox, cursor, at, to, pc, start, calm, subVars>>,
         delivered' \cup UnderWay' = delivered \cup UnderWay,
         TypeOK', Stages', OnceEach'
  PROVE  IInv'
<1> USE DEF IInv, chainVars, subVars
<1>1. Sorted' /\ Position' /\ Stream'
  BY DEF Sorted, Position, Stream, Listening
<1>2. Reached' = Reached
  BY DEF Reached, Behind
<1>3. NothingAhead' /\ EverythingBehind'
  BY <1>2 DEF NothingAhead, EverythingBehind, Eventful
<1>4. QED
  BY <1>1, <1>3

\* A goroutine panics.
LEMMA Crashing ==
  ASSUME IInv, pc' = "crashed", kind = "iotex" \/ pc = "send",
         UNCHANGED <<chainVars, inbox, cursor, at, to, batch, senders, delivered, start, calm, subVars>>
  PROVE  IInv'
<1> USE DEF IInv, chainVars, subVars
<1>1. TypeOK'
  BY DEF TypeOK
<1>2. Stages' /\ Position' /\ Stream'
  BY DEF Stages, Position, Stream, Listening, In
<1>3. Reached' = Reached /\ Reached \in Int
  BY ReachedTyped DEF Reached, Behind
<1>4. QED
  BY <1>1, <1>2, <1>3, SameEvents

LEMMA SendStep == ASSUME IInv, NEW i \in batch, Send(i) PROVE IInv'
<1> USE DEF IInv, chainVars, subVars
<1>1. /\ UNCHANGED <<kind, head, chain, inbox, cursor, at, to, senders, start, calm, done, channel>>
      /\ pc = "send" /\ kind # "iotex" /\ \A j \in batch : i <= j
  BY DEF Send, Stages
<1>2. CASE channel # "open"
  BY <1>1, <1>2, Crashing DEF Send
<1>3. CASE channel = "open"
  <2>1. batch' = batch \ {i} /\ delivered' = delivered \cup {i} /\ pc' = pc
    BY <1>3 DEF Send
  <2>2. \A k \in DOMAIN senders : senders[k] = {}
    BY <1>1 DEF Stages
  <2>3. UnderWay = batch /\ UnderWay' = batch'
    BY <1>1, <2>2 DEF UnderWay
  <2>4. delivered' \cup UnderWay' = delivered \cup UnderWay
    BY <2>1, <2>3
  <2>5. TypeOK'
    BY <1>1, <2>1 DEF TypeOK
  <2>6. Stages'
    BY <1>1, <2>1 DEF Stages, In
  <2>7. \A j \in batch' : i < j
    <3>1. \A j \in batch : j \in Nat
      BY RequestTyped DEF TypeOK
    <3>2. QED
      BY <1>1, <2>1, <3>1
  <2>8. OnceEach'
    BY <1>1, <2>1, <2>2, <2>7 DEF OnceEach
  <2>9. QED
    BY <1>1, <2>1, <2>4, <2>5, <2>6, <2>8, Delivering
<1>4. QED
  BY <1>2, <1>3

LEMMA SenderStep ==
  ASSUME IInv, NEW k \in DOMAIN senders, NEW i \in senders[k], SenderSends(k, i)
  PROVE  IInv'
<1> USE DEF IInv, chainVars, subVars
<1>1. /\ UNCHANGED <<kind, head, chain, inbox, cursor, at, to, batch, start, calm, done, channel>>
      /\ kind = "iotex" /\ batch = {} /\ i \in DOMAIN chain
      /\ senders \in [1..MaxSenders -> SUBSET DOMAIN chain]
  BY DEF SenderSends, Stages, TypeOK
<1>2. CASE channel # "open"
  BY <1>1, <1>2, Crashing DEF SenderSends
<1>3. CASE channel = "open"
  <2>1. /\ senders' = [senders EXCEPT ![k] = @ \ {i}]
        /\ delivered' = delivered \cup {i} /\ pc' = pc
    BY <1>3 DEF SenderSends
  <2>2. /\ DOMAIN senders' = DOMAIN senders /\ senders'[k] = senders[k] \ {i}
        /\ \A m \in DOMAIN senders \ {k} : senders'[m] = senders[m]
    BY <1>1, <2>1
  <2>3. delivered' \cup UnderWay' = delivered \cup UnderWay
    <3>1. UnderWay = UNION {senders[m] : m \in DOMAIN senders}
          /\ UnderWay' = UNION {senders'[m] : m \in DOMAIN senders}
      BY <1>1, <2>2 DEF UnderWay
    <3>2. \A j \in UnderWay' : j \in UnderWay
      BY <2>2, <3>1
    <3>3. \A j \in UnderWay : j \in UnderWay' \/ j = i
      BY <2>2, <3>1
    <3>4. i \in UnderWay
      BY <3>1
    <3>5. QED
      BY <2>1, <3>2, <3>3, <3>4
  <2>4. TypeOK'
    <3>1. senders' \in [1..MaxSenders -> SUBSET DOMAIN chain] /\ delivered' \subseteq DOMAIN chain
      BY <1>1, <2>1 DEF TypeOK
    <3>2. QED
      BY <1>1, <2>1, <3>1 DEF TypeOK
  <2>5. Stages'
    BY <1>1, <2>1 DEF Stages, In
  <2>6. OnceEach'
    <3> SUFFICES ASSUME calm
                 PROVE  \A m \in DOMAIN senders :
                          /\ senders'[m] \cap delivered' = {}
                          /\ \A l \in DOMAIN senders : l # m => senders'[m] \cap senders'[l] = {}
      BY <1>1, <2>2 DEF OnceEach
    <3>1. \A m \in DOMAIN senders :
            /\ senders[m] \cap delivered = {}
            /\ \A l \in DOMAIN senders : l # m => senders[m] \cap senders[l] = {}
      BY DEF OnceEach
    <3>2. \A m \in DOMAIN senders : senders'[m] \subseteq senders[m] /\ i \notin senders'[m]
      BY <2>2, <3>1
    <3>3. QED
      BY <2>1, <3>1, <3>2
  <2>7. QED
    BY <1>1, <2>1, <2>3, <2>4, <2>5, <2>6, Delivering
<1>4. QED
  BY <1>2, <1>3

\* Unsubscribe and the closing of the channel touch nothing of the goroutine.
LEMMA ClosingStep ==
  ASSUME IInv, Unsubscribe \/ CloseChannel \/ UNCHANGED vars
  PROVE  IInv'
<1> USE DEF IInv, chainVars, subVars
<1>1. UNCHANGED <<kind, head, chain, inbox, cursor, at, to, pc, batch, senders, delivered, start, calm>>
  BY DEF Unsubscribe, CloseChannel, vars
<1>2. done' \in BOOLEAN /\ channel' \in {"open", "closed"}
  BY DEF Unsubscribe, CloseChannel, vars, TypeOK
<1>3. TypeOK'
  BY <1>1, <1>2 DEF TypeOK
<1>4. Stages' /\ Position' /\ Stream'
  BY <1>1 DEF Stages, Position, Stream, Listening, In
<1>5. Reached' = Reached /\ Reached \in Int
  BY <1>1, ReachedTyped DEF Reached, Behind
<1>6. QED
  BY <1>1, <1>3, <1>4, <1>5, SameEvents

-----------------------------------------------------------------------------
LEMMA StepIInv == IInv /\ [Next]_vars => IInv'
<1> SUFFICES ASSUME IInv, [Next]_vars PROVE IInv'
  OBVIOUS
<1>1. CASE \E c \in Contents : NewBlock(c)
  BY <1>1, NewBlockStep
<1>2. CASE Scan
  <2>1. CASE \E c \in 1..head : Ask(c)
    BY <2>1, OntAskStep, IritaAskStep, IotexAskStep, MonitorStep DEF Ask
  <2>2. CASE TezosHead
    BY <2>2, HeadStep
  <2>3. CASE AskFails \/ Wake \/ Stop
    BY <2>3, PauseStep
  <2>4. CASE Fetch
    BY <2>4, OntBlockStep, IritaBlockStep, IotexBlocksStep, TezosBlockStep DEF Fetch
  <2>5. CASE FetchFails
    BY <2>5, GivingUpStep
  <2>6. CASE \E i \in batch : Send(i)
    BY <2>6, SendStep
  <2>7. CASE OntNext \/ IritaNext
    BY <2>7, ScannedStep
  <2>8. CASE TezosNext
    BY <2>8, TezosNextStep
  <2>9. CASE IritaFails \/ IritaRetry
    BY <2>9, RetryStep
  <2>10. QED
    BY <1>2, <2>1, <2>2, <2>3, <2>4, <2>5, <2>6, <2>7, <2>8, <2>9 DEF Scan
<1>3. CASE Sender
  BY <1>3, SenderStep DEF Sender
<1>4. CASE TezosLost
  BY <1>4, GivingUpStep
<1>5. CASE Unsubscribe \/ CloseChannel \/ UNCHANGED vars
  BY <1>5, ClosingStep
<1>6. QED
  BY <1>1, <1>2, <1>3, <1>4, <1>5 DEF Next

-----------------------------------------------------------------------------
(* Theorems                                                                *)

\* At each stage of its scan a goroutine knows where it is: the height it keeps
\* and the block in hand tell which requests it has taken and which it has yet
\* to fetch.
THEOREM Invariance == Spec => []IInv
<1>1. Init => IInv
  BY InitIInv
<1>2. IInv /\ [Next]_vars => IInv'
  BY StepIInv
<1>3. QED
  BY <1>1, <1>2, PTL DEF Spec

\* No height is above the chain, and every request in hand is one of the chain.
THEOREM TypeCorrect == Spec => []TypeOK
<1>1. IInv => TypeOK
  BY DEF IInv
<1>2. QED
  BY <1>1, Invariance, PTL

\* bsn-irita.go sends an event once and in the order of the chain whatever
\* fails; ont.go and tezos.go as long as no block fails, no height goes back and
\* the stream lasts; iotex.go sends each once as long as no height goes back.
THEOREM EventsOnce == Spec => []OnceEach
<1>1. IInv => OnceEach
  BY DEF IInv
<1>2. QED
  BY <1>1, Invariance, PTL

\* Every request of a block that the kept height says is scanned has been sent
\* or is being sent: for ont.go always, for the others as long as nothing is
\* malformed, no query fails, the polls are less than Range blocks apart, no
\* height goes back and the stream lasts, where an event is made of the first
\* request of each Tezos content.
THEOREM NoBlockLeftOut == Spec => []NoneLeftOut
<1>1. IInv => NoneLeftOut
  <2> SUFFICES ASSUME IInv, kind = "ont" \/ calm PROVE NoneLeftOut
    BY DEF NoneLeftOut
  <2> USE DEF IInv
  <2>1. Behind <= Reached
    <3>1. kind \in {"ont", "birita", "iotex", "tezos"}
      BY DEF TypeOK, Kinds
    <3>2. QED
      BY <3>1, Numbers DEF Behind, Reached, Position, Stages
  <2>2. \A i \in DOMAIN chain : chain[i].block \in start..Behind => chain[i].block \in start..Reached
    BY <2>1, ReachedTyped, RequestTyped, Numbers
  <2>3. QED
    BY <2>2 DEF NoneLeftOut, EverythingBehind
<1>2. QED
  BY <1>1, Invariance, PTL
=============================================================================
