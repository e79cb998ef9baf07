------------------------- MODULE MCDirectTransport --------------------------
(***************************************************************************)
(* Instances of DirectTransport for TLC.                                   *)
(***************************************************************************)
EXTENDS DirectTransportProps

CONSTANTS c1, c2, k1

Generation == [rail |-> "stream", signal |-> TRUE, key |-> None]
Edit == [rail |-> "json", signal |-> FALSE, key |-> None]
SteppedEdit == [rail |-> "stream", signal |-> FALSE, key |-> None]
Analysis == [rail |-> "json", signal |-> FALSE, key |-> k1]

\* an analysis next to any call: the same analysis, a generation, an edit
MCPages == {[c \in Calls |-> IF c = c1 THEN a ELSE Analysis] :
              a \in {Generation, Edit, SteppedEdit, Analysis}}
=============================================================================
