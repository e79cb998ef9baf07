------------------------------- MODULE TopUps -------------------------------
(***************************************************************************)
(* Credits bought through Stripe or granted by an administrator:           *)
(* handleStripeWebhook and adminGrant of src/index.ts, over the tables     *)
(* idempotency and payments (src/ledger.ts, D1) and the PymtHouse          *)
(* allowance of the user.                                                  *)
(*                                                                         *)
(* A handler runs in some Worker isolate and awaits D1 or PymtHouse at     *)
(* every step.  It may throw or be lost at any of these awaits, with the   *)
(* call it was waiting for done or not: Lose.  Stripe sends an event until *)
(* it is answered with a 2xx, and may send it again, or twice at a time.   *)
(* The amounts, the users and the signature check are left out: an event   *)
(* stands for the credits it buys.                                         *)
(***************************************************************************)
EXTENDS Naturals, FiniteSets

CONSTANTS
    Events,      \* checkout.session.completed events, by event.id
    Unlabelled,  \* events with no user or no credit amount in their metadata
    Orders,      \* requests of an administrator to grant credits
    Handlers,    \* requests the Worker can be serving at once
    Overlapping, \* the same event may be delivered while it is being handled
    MaxFailures, \* bound of the model: requests that are lost or fail
    Nothing      \* no event, no order

Credits == Events \cup Orders

ASSUME CreditsAssumption  == Events \cap Orders = {} /\ Unlabelled \subseteq Events
ASSUME OverlapAssumption  == Overlapping \in BOOLEAN
ASSUME FailuresAssumption == MaxFailures \in Nat
ASSUME HandlersAssumption == IsFiniteSet(Handlers)
ASSUME NothingAssumption  == Nothing \notin Credits

VARIABLES
    await,      \* the await each handler is at
    serving,    \* the event or order of a handler
    grants,     \* how often PymtHouse was made to grant the credits
    applied,    \* table idempotency
    payments,   \* rows of table payments
    acked,      \* events and orders answered with a 2xx
    failures    \* failures so far

topUpsVars == <<await, serving, grants, applied, payments, acked, failures>>

Idle(h) == await[h] = "idle"
InHand(c) == \E h \in Handlers : serving[h] = c
Await(h, place) == await' = [await EXCEPT ![h] = place]

\* Stripe delivers an event, again and again until it is acknowledged and
\* sometimes after that; an administrator sends an order and waits for it.
Send(h, c) ==
    /\ Idle(h)
    /\ InHand(c) => Overlapping /\ c \in Events
    /\ c \in Orders => c \notin acked
    /\ serving' = [serving EXCEPT ![h] = c]
    /\ Await(h, IF c \in Events THEN "checking" ELSE "upserting")
    /\ UNCHANGED <<grants, applied, payments, acked, failures>>

\* Mutated: the event is claimed before its credits are granted.
CheckClaims(h) ==
    /\ await[h] = "checking"
    /\ IF serving[h] \in Unlabelled \cup applied THEN Await(h, "answering")
       ELSE Await(h, "upserting")
    /\ applied' = applied \cup {serving[h]}
    /\ UNCHANGED <<serving, grants, payments, acked, failures>>

\* Nothing to credit, or credited before: answered at once.
Check(h) ==
    /\ await[h] = "checking"
    /\ Await(h, IF serving[h] \in Unlabelled \cup applied THEN "answering" ELSE "upserting")
    /\ UNCHANGED <<serving, grants, applied, payments, acked, failures>>

Upsert(h) ==
    /\ await[h] = "upserting" /\ Await(h, "granting")
    /\ UNCHANGED <<serving, grants, applied, payments, acked, failures>>

\* Mutated: an error status of PymtHouse is not raised.
GrantUnchecked(h) ==
    /\ await[h] = "granting"
    /\ Await(h, IF serving[h] \in Events THEN "marking" ELSE "logging")
    /\ UNCHANGED <<serving, grants, applied, payments, acked, failures>>

\* grantAllowance: additive, and PymtHouse is given nothing to tell two apart.
GrantAllowance(h) ==
    /\ await[h] = "granting"
    /\ grants' = [grants EXCEPT ![serving[h]] = @ + 1]
    /\ Await(h, IF serving[h] \in Events THEN "marking" ELSE "logging")
    /\ UNCHANGED <<serving, applied, payments, acked, failures>>

Mark(h) ==
    /\ await[h] = "marking"
    /\ applied' = applied \cup {serving[h]}
    /\ Await(h, "logging")
    /\ UNCHANGED <<serving, grants, payments, acked, failures>>

\* logPayment
Log(h) ==
    /\ await[h] = "logging"
    /\ payments' = [payments EXCEPT ![serving[h]] = @ + 1]
    /\ Await(h, "answering")
    /\ UNCHANGED <<serving, grants, applied, acked, failures>>

Answer(h) ==
    /\ await[h] = "answering"
    /\ acked' = acked \cup {serving[h]}
    /\ Await(h, "idle")
    /\ serving' = [serving EXCEPT ![h] = Nothing]
    /\ UNCHANGED <<grants, applied, payments, failures>>

\* A call throws, the isolate is gone, or the answer does not arrive.
Lose(h) ==
    /\ ~Idle(h) /\ failures < MaxFailures
    /\ failures' = failures + 1
    /\ Await(h, "idle")
    /\ serving' = [serving EXCEPT ![h] = Nothing]
    /\ UNCHANGED <<grants, applied, payments, acked>>

TopUpsInit ==
    /\ await = [h \in Handlers |-> "idle"]
    /\ serving = [h \in Handlers |-> Nothing]
    /\ grants = [c \in Credits |-> 0]
    /\ applied = {}
    /\ payments = [c \in Credits |-> 0]
    /\ acked = {}
    /\ failures = 0

Serve(h) == Check(h) \/ Upsert(h) \/ GrantAllowance(h) \/ Mark(h) \/ Log(h) \/ Answer(h)

TopUpsNext == \E h \in Handlers : (\E c \in Credits : Send(h, c)) \/ Serve(h) \/ Lose(h)

TopUpsSpec == TopUpsInit /\ [][TopUpsNext]_topUpsVars

\* Handlers run on, and Stripe keeps sending what was not acknowledged.
TopUpsFairSpec ==
    /\ TopUpsSpec
    /\ \A h \in Handlers : WF_topUpsVars(Serve(h))
    /\ \A e \in Events :
         SF_topUpsVars(e \notin acked /\ \E h \in Handlers : ~InHand(e) /\ Send(h, e))
=============================================================================
