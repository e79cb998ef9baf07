----------------------- MODULE OptimisticBalanceProps -----------------------
(* What is to hold of the balance of OptimisticBalance.tla.                 *)
EXTENDS OptimisticBalance

Places == {"idle", "seeking", "fetching", "seeding", "inserting", "spending", "balance",
           "pruning", "comparing", "listing", "absorbing", "syncing", "summing"}

\* A row is dropped as metered only as far as PymtHouse consumed since the
\* user's first ticket: never twice for the same money, and never for money
\* that was spent before, whatever tickets are signed, written and metered while
\* a read is at it.  Else the user is shown money that is spent.  A call that
\* fails half way may drop rows a second time, and so may two that reconcile at
\* a time.
AbsorbedWithinConsumed == faults = 0 /\ ~raced => absorbed <= consumed - Before

\* The net balance a read shows, against what the spend history lists.
Net == shown'.authority - shown'.pending

\* A read never shows more than the grant less the tickets of the spend
\* history, as long as no call failed and no two reconciled at a time, and rows
\* that reached their TTL apart.
NeverOvershown ==
    [][\A k \in Reads :
         Show(k) /\ faults = 0 /\ ~raced => Net <= Grant - Before - Total(spent \ aged)]_vars

\* Once no more requests are sent, PymtHouse's balance is shown as it is,
\* whatever failed and in whatever order tickets were metered: "once PymtHouse
\* has consumed it [...] we must stop subtracting it".
Settles == <>[](\A k \in Signs : At(k, "idle")) => <>[](shown.pending = 0)
=============================================================================
