------------------------- MODULE OptimisticBalance -------------------------
(***************************************************************************)
(* The balance a user is shown: PymtHouse's, less the tickets that were    *)
(* signed and that it has not metered yet.  resolveUserBalance of          *)
(* src/balance.ts and handleSignTicket of src/index.ts, over the tables    *)
(* optimistic_debits, balance_sync and spend_entries of src/ledger.ts, for *)
(* one user.                                                               *)
(*                                                                         *)
(* Every step of a call is one D1 statement or one request to PymtHouse.   *)
(* Calls overlap as they like; PymtHouse meters a ticket some time after   *)
(* it was signed.  Allowed says what a deployment may meet: tickets        *)
(* metered out of order (reorder) or before their row is written (early),  *)
(* rows that reach their TTL (age), sign requests sent again (retry).      *)
(* Amounts are small naturals; hasAccess and the clamp at zero, for a      *)
(* Grant never used up, are left out.                                      *)
(***************************************************************************)
EXTENDS Integers, Sequences, SequencesExt, Functions

CONSTANTS
    Signs,      \* /sign-ticket requests served at once
    Reads,      \* balance reads served at once
    Tickets,
    Face,       \* what PymtHouse charges for a ticket
    Grant,      \* lifetime grant of the user
    Before,     \* consumed before the first ticket
    Allowed,
    MaxFaults,  \* bound of the model: calls that are lost or fail
    None

Calls == Signs \cup Reads

ASSUME CallsAssumption   == Signs \cap Reads = {}
ASSUME AmountsAssumption == Face \in [Tickets -> Nat \ {0}] /\ Grant \in Nat /\ Before \in Nat
ASSUME AllowedAssumption == Allowed \subseteq {"reorder", "early", "age", "retry"}
ASSUME FaultsAssumption  == MaxFaults \in Nat
ASSUME NoneAssumption    == None \notin Tickets /\ None \notin Int

VARIABLES
    consumed,   \* PymtHouse: consumedUsdMicros
    metered,    \* PymtHouse: the tickets in it
    signed,     \* tickets in the order PymtHouse signed them
    rows,       \* optimistic_debits, oldest first
    aged,       \* rows past the TTL
    sync,       \* balance_sync
    spent,      \* spend_entries
    shown,      \* authority and pending of the last balance shown
    pc,         \* the await each call is at
    ticket,     \* the ticket a sign request is about
    seen,       \* the consumed amount a call has fetched
    left,       \* what a read may still absorb
    list,       \* the rows a read has still to look at
    absorbed,   \* history: the face value of the rows absorbed
    faults,
    raced       \* history: two calls reconciled at a time

users  == <<signed, spent, ticket>>
theirs == <<consumed, metered>>
mirror == <<rows, aged, sync, absorbed>>
locals == <<seen, left, list>>
vars   == <<users, theirs, mirror, locals, shown, pc, faults, raced>>

At(k, place) == pc[k] = place
Goto(k, place) == pc' = [pc EXCEPT ![k] = place]

\* The calls that found no baseline and have not seeded it yet, and those that
\* fetched PymtHouse's balance and have not shown it yet.
Reconciling == {k \in Calls : pc[k] \in {"fetching", "seeding", "pruning", "comparing",
                                          "listing", "absorbing", "syncing", "summing"}}
Rivals(k) == Reconciling \ {k} # {}

\* The face value of a set of tickets.
Total(S) == SumFunctionOnSet(Face, S)

-----------------------------------------------------------------------------
(* handleSignTicket *)

\* The DMZ signs, or answers a request sent again with the same requestId.
Sign(k, t) ==
    /\ k \in Signs /\ At(k, "idle")
    /\ t \in ToSet(signed) => "retry" \in Allowed
    /\ signed' = IF t \in ToSet(signed) THEN signed ELSE Append(signed, t)
    /\ ticket' = [ticket EXCEPT ![k] = t]
    /\ Goto(k, "seeking")
    /\ UNCHANGED <<spent, theirs, mirror, locals, shown, faults, raced>>

\* Mutated: the history is written before the mirror.
SpendFirst(k) ==
    /\ At(k, "seeking")
    /\ spent' = spent \cup {ticket[k]}
    /\ Goto(k, IF sync = None THEN "fetching" ELSE "inserting")
    /\ raced' = (raced \/ (sync = None /\ Rivals(k)))
    /\ UNCHANGED <<signed, ticket, theirs, mirror, locals, shown, faults>>

\* A baseline is seeded by the first debit only.
SeekSync(k) ==
    /\ At(k, "seeking")
    /\ Goto(k, IF sync = None THEN "fetching" ELSE "inserting")
    /\ raced' = (raced \/ (sync = None /\ Rivals(k)))
    /\ UNCHANGED <<users, theirs, mirror, locals, shown, faults>>

FetchSeed(k) ==
    /\ At(k, "fetching")
    /\ seen' = [seen EXCEPT ![k] = consumed]
    /\ Goto(k, "seeding")
    /\ UNCHANGED <<users, theirs, mirror, left, list, shown, faults, raced>>

\* PymtHouse does not answer: the baseline is taken for zero.
FetchNothing(k) ==
    /\ At(k, "fetching") /\ faults < MaxFaults
    /\ faults' = faults + 1
    /\ seen' = [seen EXCEPT ![k] = 0]
    /\ Goto(k, "seeding")
    /\ UNCHANGED <<users, theirs, mirror, left, list, shown, raced>>

Seed(k) ==
    /\ At(k, "seeding")
    /\ sync' = seen[k]
    /\ seen' = [seen EXCEPT ![k] = 0]
    /\ Goto(k, "inserting")
    /\ UNCHANGED <<users, theirs, rows, aged, absorbed, left, list, shown, faults, raced>>

\* INSERT OR IGNORE: a row still there is kept, one that is gone comes back.
Insert(k) ==
    LET t == ticket[k] IN
    /\ At(k, "inserting")
    /\ IF t \in ToSet(rows) THEN UNCHANGED <<rows, aged>>
       ELSE rows' = Append(rows, t) /\ aged' = aged \ {t}
    /\ Goto(k, "spending")
    /\ UNCHANGED <<users, theirs, sync, absorbed, locals, shown, faults, raced>>

RecordSpend(k) ==
    /\ At(k, "spending")
    /\ spent' = spent \cup {ticket[k]}
    /\ ticket' = [ticket EXCEPT ![k] = None]
    /\ Goto(k, "idle")
    /\ UNCHANGED <<signed, theirs, mirror, locals, shown, faults, raced>>

\* recordOptimisticDebitForUser swallows what goes wrong with the mirror.
MirrorFails(k) ==
    /\ pc[k] \in {"seeking", "seeding", "inserting"} /\ faults < MaxFaults
    /\ faults' = faults + 1
    /\ seen' = [seen EXCEPT ![k] = 0]
    /\ Goto(k, "spending")
    /\ UNCHANGED <<users, theirs, mirror, left, list, shown, raced>>

-----------------------------------------------------------------------------
(* resolveUserBalance *)

Read(k) ==
    /\ k \in Reads /\ At(k, "idle")
    /\ Goto(k, "balance")
    /\ UNCHANGED <<users, theirs, mirror, locals, shown, faults, raced>>

GetBalance(k) ==
    /\ At(k, "balance")
    /\ seen' = [seen EXCEPT ![k] = consumed]
    /\ Goto(k, "pruning")
    /\ raced' = (raced \/ Rivals(k))
    /\ UNCHANGED <<users, theirs, mirror, left, list, shown, faults>>

\* Mutated: no row is ever older than the cutoff.
AgedOrNot(s) == s

\* pruneOptimisticDebits: the aged rows are the oldest.
NotAged(s) == SubSeq(s, 1 + Cardinality({i \in 1..Len(s) : s[i] \in aged}), Len(s))

Prune(k) ==
    /\ At(k, "pruning")
    /\ rows' = NotAged(rows)
    /\ Goto(k, "comparing")
    /\ UNCHANGED <<users, theirs, aged, sync, absorbed, locals, shown, faults, raced>>

\* getBalanceSync: without a baseline there is nothing to reconcile.
Compare(k) ==
    /\ At(k, "comparing")
    /\ IF sync = None THEN Goto(k, "summing") /\ UNCHANGED left
       ELSE /\ left' = [left EXCEPT ![k] = seen[k] - sync]
            /\ Goto(k, IF seen[k] > sync THEN "listing" ELSE "syncing")
    /\ UNCHANGED <<users, theirs, mirror, seen, list, shown, faults, raced>>

List(k) ==
    /\ At(k, "listing")
    /\ list' = [list EXCEPT ![k] = rows]
    /\ Goto(k, "absorbing")
    /\ UNCHANGED <<users, theirs, mirror, seen, left, shown, faults, raced>>

\* deleteOptimisticDebit; the row may be gone already.
Delete(t) ==
    \/ \E i \in 1..Len(rows) :
         /\ rows[i] = t
         /\ rows' = RemoveAt(rows, i)
         /\ absorbed' = absorbed + Face[t]
    \/ t \notin ToSet(rows) /\ UNCHANGED <<rows, absorbed>>

\* Mutated: a row is absorbed by the first advance, however small.
AbsorbAny(k) ==
    LET t == Head(list[k]) IN
    /\ At(k, "absorbing") /\ list[k] # <<>> /\ left[k] > 0
    /\ Delete(t)
    /\ left' = [left EXCEPT ![k] = @ - Face[t]]
    /\ list' = [list EXCEPT ![k] = Tail(@)]
    /\ UNCHANGED <<users, theirs, aged, sync, seen, shown, pc, faults, raced>>

\* The next row is covered by what PymtHouse has consumed: it is deleted.
Absorb(k) ==
    LET t == Head(list[k]) IN
    /\ At(k, "absorbing") /\ list[k] # <<>> /\ left[k] >= Face[t]
    /\ Delete(t)
    /\ left' = [left EXCEPT ![k] = @ - Face[t]]
    /\ list' = [list EXCEPT ![k] = Tail(@)]
    /\ UNCHANGED <<users, theirs, aged, sync, seen, shown, pc, faults, raced>>

\* There is none, or it is covered in part: what is left over is dropped.
Absorbed(k) ==
    /\ At(k, "absorbing")
    /\ list[k] # <<>> => left[k] < Face[Head(list[k])]
    /\ left' = [left EXCEPT ![k] = 0]
    /\ list' = [list EXCEPT ![k] = <<>>]
    /\ Goto(k, "syncing")
    /\ UNCHANGED <<users, theirs, mirror, seen, shown, faults, raced>>

SetSync(k) ==
    /\ At(k, "syncing")
    /\ sync' = seen[k]
    /\ Goto(k, "summing")
    /\ UNCHANGED <<users, theirs, rows, aged, absorbed, locals, shown, faults, raced>>

\* sumOptimisticDebits prunes once more; the net of the two is shown.
Show(k) ==
    /\ At(k, "summing")
    /\ rows' = NotAged(rows)
    /\ shown' = [authority |-> Grant - seen[k], pending |-> Total(ToSet(rows'))]
    /\ seen' = [seen EXCEPT ![k] = 0]
    /\ left' = [left EXCEPT ![k] = 0]
    /\ Goto(k, "idle")
    /\ UNCHANGED <<users, theirs, aged, sync, absorbed, list, faults, raced>>

-----------------------------------------------------------------------------
(* What the calls do not decide *)

\* A call throws or its isolate is gone: the rest of its steps is not taken.
Fail(k) ==
    /\ ~At(k, "idle") /\ faults < MaxFaults
    /\ faults' = faults + 1
    /\ Goto(k, "idle")
    /\ ticket' = [ticket EXCEPT ![k] = None]
    /\ left' = [left EXCEPT ![k] = 0]
    /\ list' = [list EXCEPT ![k] = <<>>]
    /\ seen' = [seen EXCEPT ![k] = 0]
    /\ UNCHANGED <<signed, spent, theirs, mirror, shown, raced>>

\* The orchestrator redeems the ticket, PymtHouse meters it.
Meter(t) ==
    /\ t \in ToSet(signed) \ metered
    /\ "reorder" \notin Allowed =>
         \A i, j \in 1..Len(signed) : i < j /\ signed[j] = t => signed[i] \in metered
    /\ "early" \notin Allowed => \A k \in Signs : ticket[k] # t \/ At(k, "spending")
    /\ metered' = metered \cup {t}
    /\ consumed' = consumed + Face[t]
    /\ UNCHANGED <<users, mirror, locals, shown, pc, faults, raced>>

\* The oldest row that is not, gets older than the TTL.
Age ==
    /\ "age" \in Allowed
    /\ NotAged(rows) # <<>>
    /\ aged' = aged \cup {Head(NotAged(rows))}
    /\ UNCHANGED <<users, theirs, rows, sync, absorbed, locals, shown, pc, faults, raced>>

Init ==
    /\ consumed = Before /\ metered = {} /\ signed = <<>> /\ spent = {}
    /\ rows = <<>> /\ aged = {} /\ sync = None /\ absorbed = 0
    /\ shown = [authority |-> Grant - Before, pending |-> 0]
    /\ pc = [k \in Calls |-> "idle"]
    /\ ticket = [k \in Calls |-> None]
    /\ seen = [k \in Calls |-> 0]
    /\ left = [k \in Calls |-> 0]
    /\ list = [k \in Calls |-> <<>>]
    /\ faults = 0 /\ raced = FALSE

Work(k) ==
    \/ SeekSync(k) \/ FetchSeed(k) \/ Seed(k) \/ Insert(k) \/ RecordSpend(k)
    \/ GetBalance(k) \/ Prune(k) \/ Compare(k) \/ List(k) \/ Absorb(k) \/ Absorbed(k)
    \/ SetSync(k) \/ Show(k)

Faulty(k) == FetchNothing(k) \/ MirrorFails(k) \/ Fail(k)

Next ==
    \/ \E k \in Calls : (\E t \in Tickets : Sign(k, t)) \/ Read(k) \/ Work(k) \/ Faulty(k)
    \/ \E t \in Tickets : Meter(t)
    \/ Age

Spec == Init /\ [][Next]_vars

\* Calls run on, the balance is read again and again, PymtHouse meters every
\* ticket, and rows get old.
FairSpec ==
    /\ Spec
    /\ \A k \in Calls : WF_vars(Work(k)) /\ WF_vars(Read(k))
    /\ \A t \in Tickets : WF_vars(Meter(t))
    /\ WF_vars(Age)
=============================================================================
