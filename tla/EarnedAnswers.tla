--------------------------- MODULE EarnedAnswers ----------------------------
(***************************************************************************)
(* What a caller of lib/direct-transport.ts is promised, without payments, *)
(* retries, streams or caches: a call is answered once, and what it gets   *)
(* is the result of finished work on the very question it asked (its own   *)
(* work, or that of another call with the same question), or a refusal.    *)
(***************************************************************************)
CONSTANT Calls

VARIABLES question,     \* [Calls -> question]
          answer,       \* [Calls -> "pending", a refusal, or the call whose work it is]
          earned        \* the calls whose work a runner has finished

vars == <<question, answer, earned>>

Init == answer = [c \in Calls |-> "pending"] /\ earned = {}

Work == /\ \E c \in Calls : earned' = earned \cup {c}
        /\ UNCHANGED <<question, answer>>

MayGet(c, v) ==
  \/ v \in {"error", "gone"}
  \/ v \in earned /\ (v = c \/ question[v] = question[c])

(* One settlement may answer several calls: those that share a promise, or *)
(* all that a reload of the page takes away.                               *)
Settle ==
  /\ answer' \in [Calls -> {"pending", "error", "gone"} \cup Calls]
  /\ \A c \in Calls : answer'[c] # answer[c] => answer[c] = "pending" /\ MayGet(c, answer'[c])
  /\ UNCHANGED <<question, earned>>

Next == Work \/ Settle

Spec == Init /\ [][Next]_vars
=============================================================================
