------------------------------ MODULE MCTopUps ------------------------------
(* TLC instances of the top-ups.                                            *)
EXTENDS TopUpsProps

CONSTANTS e1, e2, o1, h1, h2, h3, none
=============================================================================
