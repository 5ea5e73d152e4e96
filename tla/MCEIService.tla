---------------------------- MODULE MCEIService ----------------------------
(* Instances of EIService for TLC. *)
EXTENDS EIService, TLC

\* Connections, requests and endpoints are interchangeable.
Symmetry == Permutations(Conns) \cup Permutations(Handlers) \cup Permutations(Endpoints)
=============================================================================
