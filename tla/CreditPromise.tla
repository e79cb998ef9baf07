--------------------------- MODULE CreditPromise ---------------------------
(***************************************************************************)
(* What a payment promises its payer, without the machinery: a purchase is *)
(* confirmed only after its credits have arrived.  A deployment where      *)
(* nothing overlaps and nothing fails (Once) also promises that they       *)
(* arrive a single time.                                                   *)
(***************************************************************************)
EXTENDS Naturals

CONSTANTS
    Purchases,  \* what can be paid for
    Exempt,     \* purchases that carry no credits
    Once        \* credits arrive at most one time

VARIABLES
    credited,   \* how often the credits of a purchase arrived
    confirmed   \* purchases reported as done

Init == credited = [c \in Purchases |-> 0] /\ confirmed = {}

Credit(c) ==
    /\ Once => credited[c] = 0
    /\ credited' = [credited EXCEPT ![c] = @ + 1]
    /\ UNCHANGED confirmed

Confirm(c) ==
    /\ c \in Exempt \/ credited[c] > 0
    /\ confirmed' = confirmed \cup {c}
    /\ UNCHANGED credited

Next == \E c \in Purchases : Credit(c) \/ Confirm(c)

Spec == Init /\ [][Next]_<<credited, confirmed>>
=============================================================================
