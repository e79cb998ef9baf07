------------------------ MODULE MCOptimisticBalance ------------------------
(* TLC instances of the optimistic balance.                                 *)
EXTENDS OptimisticBalanceProps, TLC

CONSTANTS s1, r1, t1, t2, none

TwoTickets == t1 :> 2 @@ t2 :> 1
=============================================================================
