--------------------------- MODULE WsSubscription ---------------------------
(***************************************************************************)
(* A WebSocket subscription, subscriber/ws.go: the connection, the reader  *)
(* goroutine, which replaces itself by a new one when the connection is    *)
(* lost, the goroutine that sends the subscription request (init), and     *)
(* Service.closeSubscription, which calls Unsubscribe and then closes the  *)
(* channel.  The methods have value receivers: `confirmed' is copied from  *)
(* goroutine to goroutine, the connection and `closing' are shared.        *)
(*                                                                         *)
(* The server confirms a subscription before it sends events; a message is *)
(* the sequence of events the manager parses from it, so the confirmation  *)
(* is << >>.                                                               *)
(***************************************************************************)
EXTENDS Naturals, Sequences

CONSTANTS
  Gos,       \* identities of goroutines
  Main,      \* the goroutine that called SubscribeToEvents
  MaxEvents  \* bound: events that happen on the chain

ASSUME WsConstants ==
  /\ Main \in Gos
  /\ MaxEvents \in Nat

VARIABLES
  conn,      \* wss.conn.connection: "open", "broken" by the network or the server, "closed" here
  closing,   \* wss.conn.closing
  server,    \* what the server knows of this connection: "idle", "asked", "on"
  inbox,     \* messages sent on this connection and not read yet
  emitted,   \* events so far; event n is the n-th one
  pc,        \* pc[g]: what goroutine g does, "free" before and after its life
  confirmed, \* confirmed[g]: its copy of wss.confirmed
  batch,     \* batch[g]: events it has parsed and not sent
  channel,   \* the events channel, "open" or "closed"
  delivered, \* the latest event the consumer received
  unsub,     \* closeSubscription: "no", "called" (closing is set), "hangup", "done"
  crashed    \* a goroutine panicked

goVars == <<pc, confirmed, batch, delivered, crashed>>
vars   == <<conn, closing, server, inbox, emitted, channel, unsub, goVars>>

\* A goroutine that reads, or that will start the next one that reads.
ReaderStates == {"read", "send", "sleep", "spawn"}

\* SubscribeToEvents has dialled and is about to call init.
Init ==
  /\ conn = "open"
  /\ closing = FALSE
  /\ server = "idle"
  /\ inbox = << >>
  /\ emitted = 0
  /\ pc = [g \in Gos |-> IF g = Main THEN "spawn" ELSE "free"]
  /\ confirmed = [g \in Gos |-> FALSE]
  /\ batch = [g \in Gos |-> << >>]
  /\ channel = "open"
  /\ delivered = 0
  /\ unsub = "no"
  /\ crashed = FALSE

-----------------------------------------------------------------------------
(* init                                                                    *)

\* go wss.readMessages(), with a copy of wss.
Spawn(g, r) ==
  /\ ~crashed
  /\ pc[g] = "spawn"
  /\ r # Main /\ pc[r] = "free"
  /\ pc' = [pc EXCEPT ![g] = "write", ![r] = "read"]
  /\ confirmed' = [confirmed EXCEPT ![r] = confirmed[g]]
  /\ UNCHANGED <<conn, closing, server, inbox, emitted, batch, channel, delivered, unsub, crashed>>

\* The request reaches the server, or a connection that is already lost.
Write(g, next) ==
  /\ ~crashed
  /\ pc[g] = "write"
  /\ conn # "closed"
  /\ server' = IF conn = "open" THEN "asked" ELSE server
  /\ pc' = [pc EXCEPT ![g] = next]
  /\ UNCHANGED <<confirmed, batch, conn, closing, inbox, emitted, channel, delivered, unsub, crashed>>

\* Mutant of WriteTrigger: the goroutine goes on reading beside the new one.
WriteTriggerAndRead(g) == Write(g, "read")
WriteTrigger(g) == Write(g, "free")

\* forceClose: closing becomes false, so that the reader connects again.
GiveUp(g, newClosing) ==
  /\ ~crashed
  /\ pc[g] = "write"
  /\ conn # "open"
  /\ conn' = "closed"
  /\ closing' = newClosing
  /\ pc' = [pc EXCEPT ![g] = "free"]
  /\ UNCHANGED <<confirmed, batch, server, inbox, emitted, channel, delivered, unsub, crashed>>

\* Mutant of ForceClose: it sets closing as Unsubscribe does.
ForceCloseForGood(g) == GiveUp(g, TRUE)
ForceClose(g) == GiveUp(g, FALSE)

-----------------------------------------------------------------------------
(* readMessages                                                            *)

\* The first message is dropped, any other one is parsed.
ReadMessage(g, confirms, unparsed) ==
  /\ ~crashed
  /\ pc[g] = "read"
  /\ conn # "closed"
  /\ inbox # << >>
  /\ inbox' = Tail(inbox)
  /\ \/ /\ ~confirmed[g]
        /\ confirmed' = [confirmed EXCEPT ![g] = confirms]
        /\ UNCHANGED <<pc, batch>>
     \/ /\ confirmed[g] /\ Head(inbox) \in unparsed
        /\ UNCHANGED <<pc, confirmed, batch>>
     \/ /\ confirmed[g] /\ Head(inbox) \notin unparsed
        /\ pc' = [pc EXCEPT ![g] = "send"]
        /\ batch' = [batch EXCEPT ![g] = Head(inbox)]
        /\ UNCHANGED confirmed
  /\ UNCHANGED <<conn, closing, server, emitted, channel, delivered, unsub, crashed>>

\* Mutant of Read: confirmed is set on another copy.
ReadUnconfirmed(g) == ReadMessage(g, FALSE, {<< >>})
Read(g) == ReadMessage(g, TRUE, {<< >>})

\* A read error: close, then connect again if told to.
Lost(g, again) ==
  /\ ~crashed
  /\ pc[g] = "read"
  /\ conn # "open"
  /\ conn' = "closed"
  /\ pc' = [pc EXCEPT ![g] = IF again THEN "sleep" ELSE "free"]
  /\ UNCHANGED <<confirmed, batch, closing, server, inbox, emitted, channel, delivered, unsub, crashed>>

\* Mutant of ReadFails: closing is not looked at.
ReadFailsAgain(g) == Lost(g, TRUE)
ReadFails(g) == Lost(g, ~closing)

\* wss.events <- event meets the consumer; on a closed channel it panics.
Send(g) ==
  /\ ~crashed
  /\ pc[g] = "send"
  /\ \/ /\ channel = "open"
        /\ delivered' = Head(batch[g])
        /\ batch' = [batch EXCEPT ![g] = Tail(batch[g])]
        /\ pc' = [pc EXCEPT ![g] = IF Tail(batch[g]) = << >> THEN "read" ELSE "send"]
        /\ UNCHANGED crashed
     \/ /\ channel = "closed"
        /\ crashed' = TRUE
        /\ UNCHANGED <<pc, batch, delivered>>
  /\ UNCHANGED <<confirmed, conn, closing, server, inbox, emitted, channel, unsub>>

\* reconnect: three seconds after the loss, which init's write does not
\* outlast, a dial succeeds.  One that fails is repeated.
Redial(g) ==
  /\ ~crashed
  /\ pc[g] = "sleep"
  /\ \A h \in Gos : pc[h] # "write"
  /\ conn' = "open"
  /\ server' = "idle"
  /\ inbox' = << >>
  /\ pc' = [pc EXCEPT ![g] = "spawn"]
  /\ UNCHANGED <<confirmed, batch, closing, emitted, channel, delivered, unsub, crashed>>

-----------------------------------------------------------------------------
(* Service.closeSubscription                                               *)

\* Unsubscribe sets closing ...
Unsubscribe ==
  /\ ~crashed
  /\ unsub = "no"
  /\ pc[Main] = "free"
  /\ unsub' = "called"
  /\ closing' = TRUE
  /\ UNCHANGED <<conn, server, inbox, emitted, channel, goVars>>

\* ... and closes whatever is the connection now, ...
Hangup ==
  /\ ~crashed
  /\ unsub = "called"
  /\ unsub' = "hangup"
  /\ conn' = "closed"
  /\ UNCHANGED <<closing, server, inbox, emitted, channel, goVars>>

\* ... before the service closes the channel.
CloseChannel ==
  /\ ~crashed
  /\ unsub = "hangup"
  /\ unsub' = "done"
  /\ channel' = "closed"
  /\ UNCHANGED <<conn, closing, server, inbox, emitted, goVars>>

-----------------------------------------------------------------------------
(* The server and the network                                              *)

Confirm ==
  /\ conn = "open"
  /\ server = "asked"
  /\ server' = "on"
  /\ inbox' = Append(inbox, << >>)
  /\ UNCHANGED <<conn, closing, emitted, channel, unsub, goVars>>

\* k events happen; a subscribed connection gets them in one message.
Emit(k) ==
  /\ emitted + k <= MaxEvents
  /\ emitted' = emitted + k
  /\ inbox' = IF conn = "open" /\ server = "on"
              THEN Append(inbox, [i \in 1..k |-> emitted + i]) ELSE inbox
  /\ UNCHANGED <<conn, closing, server, channel, unsub, goVars>>

Break ==
  /\ conn = "open"
  /\ conn' = "broken"
  /\ UNCHANGED <<closing, server, inbox, emitted, channel, unsub, goVars>>

-----------------------------------------------------------------------------
GoStep(g) ==
  \/ \E r \in Gos : Spawn(g, r)
  \/ WriteTrigger(g)
  \/ ForceClose(g)
  \/ Read(g)
  \/ ReadFails(g)
  \/ Send(g)
  \/ Redial(g)

CloseStep == Unsubscribe \/ Hangup \/ CloseChannel

Next ==
  \/ \E g \in Gos : GoStep(g)
  \/ CloseStep
  \/ Confirm \/ Break
  \/ \E k \in 1..2 : Emit(k)

Spec == Init /\ [][Next]_vars

\* Every goroutine that can run does, also the one in closeSubscription; the
\* server can be dialled again and again.  Nobody has to unsubscribe and no
\* event has to happen.
FairSpec ==
  /\ Spec
  /\ \A g \in Gos : WF_vars(GoStep(g))
  /\ WF_vars(Hangup \/ CloseChannel)

-----------------------------------------------------------------------------
(* Properties                                                              *)

\* Every variable has its type.
TypeOK ==
  /\ conn \in {"open", "broken", "closed"}
  /\ closing \in BOOLEAN
  /\ server \in {"idle", "asked", "on"}
  /\ inbox \in Seq(Seq(1..MaxEvents))
  /\ emitted \in 0..MaxEvents
  /\ pc \in [Gos -> ReaderStates \cup {"free", "write"}]
  /\ confirmed \in [Gos -> BOOLEAN]
  /\ batch \in [Gos -> Seq(1..MaxEvents)]
  /\ \A g \in Gos : pc[g] = "send" => batch[g] # << >>
  /\ channel \in {"open", "closed"}
  /\ delivered \in 0..MaxEvents
  /\ unsub \in {"no", "called", "hangup", "done"}
  /\ crashed \in BOOLEAN

\* However often the connection is lost, whoever closes it and whether or not
\* the write of init fails, there is one reader: two goroutines reading one
\* gorilla connection are not allowed.
SingleReader ==
  \A g, h \in Gos : pc[g] \in ReaderStates /\ pc[h] \in ReaderStates => g = h

\* The consumer sees events in the order of the chain and none twice, across
\* reconnections.  (Those of the time in between are lost.)
DeliveredInOrder == [][delivered' # delivered => delivered' > delivered]_vars

\* The message that is dropped as "confirmation" never carries an event, also
\* when the connection was lost before the confirmation came.
OnlyConfirmationsIgnored ==
  \A g \in Gos : pc[g] = "read" /\ ~confirmed[g] /\ inbox # << >> => Head(inbox) = << >>

-----------------------------------------------------------------------------
(* The inductive invariant                                                 *)

\* Inside init nothing has been asked of the server yet, and one goroutine
\* at a time is inside init.
StartsClean ==
  \A g \in Gos : pc[g] \in {"spawn", "write"} =>
    /\ server = "idle"
    /\ \A h \in Gos : pc[h] \in {"spawn", "write"} => g = h

\* The confirmation is the first message of a connection, and it is there
\* until a reader that has not seen one takes it.
ConfirmationFirst ==
  /\ server # "on" => inbox = << >>
  /\ \A g \in Gos : pc[g] = "send" => confirmed[g]
  /\ \A g \in Gos : server = "on" /\ pc[g] = "read" /\ ~confirmed[g] => inbox # << >>

Increasing(s) == \A i, j \in DOMAIN s : i < j => s[i] < s[j]
Pending(s) == Increasing(s) /\ \A i \in DOMAIN s : s[i] \in delivered + 1 .. emitted
Before(s, t) == \A i \in DOMAIN s, j \in DOMAIN t : s[i] < t[j]

\* What the reader holds comes before what it has not read.
Ordered ==
  /\ delivered <= emitted
  /\ \A g \in Gos : IF pc[g] = "send" THEN Pending(batch[g]) ELSE batch[g] = << >>
  /\ \A m \in DOMAIN inbox : Pending(inbox[m])
  /\ \A m, n \in DOMAIN inbox : m < n => Before(inbox[m], inbox[n])
  /\ \A g \in Gos, m \in DOMAIN inbox : Before(batch[g], inbox[m])

\* The inductive invariant of the proofs.
IInv ==
  /\ TypeOK
  /\ SingleReader
  /\ OnlyConfirmationsIgnored
  /\ StartsClean
  /\ ConfirmationFirst
  /\ Ordered

-----------------------------------------------------------------------------
(* Liveness                                                                *)

Reading == \E g \in Gos : pc[g] = "read"

Watched ==
  /\ conn = "open"
  /\ server # "idle"
  /\ \E g \in Gos : pc[g] \in ReaderStates

\* Unless somebody unsubscribes, connections that are lost, however many and
\* at whatever moment, are followed by one that asks for the events and is read.
ReadsAgain == <>[][~Break]_vars => <>([]Watched \/ unsub # "no")

Stopped == conn = "closed" /\ \A g \in Gos : pc[g] = "free"

\* Unsubscribe ends a subscription whose reader is waiting for a message and
\* whose request has been sent.
CalmUnsubscribeStops ==
  (unsub = "called" /\ closing /\ conn = "open" /\ Reading /\ \A g \in Gos : pc[g] # "write")
    ~> (Stopped \/ crashed)
=============================================================================
