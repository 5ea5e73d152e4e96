------------------------------ MODULE Cooldown ------------------------------
(***************************************************************************)
(* What README.md:44 promises of a keeper job: `Number of blocks to cool   *)
(* down before triggering a new run for a Keeper job'.  Two runs are       *)
(* initiated for block heights at least Cooldown apart; block 0 counts as  *)
(* the height of a run before the first.                                   *)
(***************************************************************************)
EXTENDS Integers

CONSTANT Cooldown  \* RuntimeConfig.KeeperBlockCooldown

VARIABLE lastRun   \* the block height of the latest run

Init == lastRun = 0

\* A run is initiated.
Next ==
  /\ lastRun' \in Nat
  /\ lastRun' > lastRun
  /\ lastRun' - lastRun >= Cooldown

Spec == Init /\ [][Next]_lastRun
=============================================================================
