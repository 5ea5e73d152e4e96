---------------------------- MODULE OracleLedger ----------------------------
(***************************************************************************)
(* What an oracle promises its clients: requests are numbered one after    *)
(* the other, what was asked under a number never changes, and a client is *)
(* called back for its own requests only, with the date it asked for.  The *)
(* data are the adapter's, for that date as long as the adapter hears of   *)
(* nothing but requests (alone), or are given by another account.  A       *)
(* request may be answered more than once, or never.                       *)
(***************************************************************************)
EXTENDS Naturals

CONSTANTS Clients, Dates, Ids, NoRequest, Elsewhere

VARIABLES
  asked,     \* asked[i]: who asked what under number i, or NoRequest
  answered,  \* numbers with an answer
  received,  \* received[c]: the answers client c has received
  alone      \* the adapter has heard of nothing but requests

vars == <<asked, answered, received, alone>>

Init ==
  /\ asked = [i \in Ids |-> NoRequest]
  /\ answered = {}
  /\ received = [c \in Clients |-> {}]
  /\ alone = TRUE

Ask(i, c, d) ==
  /\ asked[i] = NoRequest
  /\ \A j \in Ids : j < i => asked[j] # NoRequest
  /\ asked' = [asked EXCEPT ![i] = [client |-> c, date |-> d]]
  /\ UNCHANGED <<answered, received, alone>>

Answer(i, data) ==
  /\ asked[i] # NoRequest
  /\ alone => data \in {asked[i].date, Elsewhere}
  /\ answered' = answered \cup {i}
  /\ received' = [received EXCEPT ![asked[i].client] =
                    @ \cup {[data |-> data, date |-> asked[i].date]}]
  /\ UNCHANGED <<asked, alone>>

Disturb ==
  /\ alone' = FALSE
  /\ UNCHANGED <<asked, answered, received>>

Next ==
  \/ \E i \in Ids, c \in Clients, d \in Dates : Ask(i, c, d)
  \/ \E i \in Ids, data \in Dates \cup {Elsewhere} : Answer(i, data)
  \/ Disturb

Spec == Init /\ [][Next]_vars
=============================================================================
