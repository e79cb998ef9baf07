-------------------------- MODULE MCBerniniManager --------------------------
(* TLC instances of the Bernini manager.                                    *)
EXTENDS BerniniManagerProps

CONSTANTS g1, g2, l1, e1, m1, m2, x1, x2, ta, tb, none

\* One generation stays with a target, the other may ask for the other one.
Hopping == [p \in Calls |-> CASE p = g1 -> {ta} [] p = g2 -> {ta, tb} [] OTHER -> {None}]

\* The shortest video of more than one job.
PlanChunk == {<<"plan", "chunk">>}
=============================================================================
