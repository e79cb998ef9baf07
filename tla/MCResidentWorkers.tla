-------------------------- MODULE MCResidentWorkers --------------------------
(* TLC instances of the residency manager.                                   *)
EXTENDS ResidentWorkersProps

CONSTANTS image, gemma, ltx, n1, v1, h1, none

\* gemma-worker on its own card 0, image-worker and ltx-worker on the others.
CardsOfEach == [w \in Workers |-> IF w = gemma THEN {0} ELSE {1, 2}]
=============================================================================
