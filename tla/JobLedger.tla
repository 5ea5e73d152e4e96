------------------------------ MODULE JobLedger ------------------------------
(***************************************************************************)
(* What the External Initiator promises about a job, seen from outside: a  *)
(* job specification is registered at most once, may be retired, and once  *)
(* retired stays retired; a job run is only ever requested for a job that  *)
(* has been registered.  Nothing is promised about WHICH registered job an *)
(* event runs: EIService shows why.                                        *)
(***************************************************************************)
CONSTANTS Jobs

VARIABLES
  ledger,   \* ledger[j] \in {"unknown", "registered", "retired"}
  requested \* the set holding the job of the latest run request, if any

Init ==
  /\ ledger = [j \in Jobs |-> "unknown"]
  /\ requested = {}

\* The Chainlink node posts a job specification.
Register(j) ==
  /\ ledger[j] = "unknown"
  /\ ledger' = [ledger EXCEPT ![j] = "registered"]
  /\ UNCHANGED requested

\* Jobs are retired together: by a DELETE, or because their endpoint went away.
Retire(S) ==
  /\ S # {}
  /\ \A j \in S : ledger[j] = "registered"
  /\ ledger' = [j \in Jobs |-> IF j \in S THEN "retired" ELSE ledger[j]]
  /\ UNCHANGED requested

\* A run of j is requested from the Chainlink node.
RequestRun(j) ==
  /\ ledger[j] # "unknown"
  /\ requested' = {j}
  /\ UNCHANGED ledger

Next ==
  \/ \E j \in Jobs : Register(j) \/ RequestRun(j)
  \/ \E S \in SUBSET Jobs : Retire(S)

Spec == Init /\ [][Next]_<<ledger, requested>>
=============================================================================
