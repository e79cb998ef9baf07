---------------------------- MODULE TopUpsProps ----------------------------
(* What is to hold of the top-ups and grants of TopUps.                     *)
EXTENDS TopUps

Awaits == {"idle", "checking", "upserting", "granting", "marking", "logging", "answering"}

\* The state is well-formed; a handler that waits serves something, and an
\* order, which has no event.id, is never checked or marked.
TypeOK ==
    /\ await \in [Handlers -> Awaits]
    /\ serving \in [Handlers -> Credits \cup {Nothing}]
    /\ grants \in [Credits -> Nat] /\ payments \in [Credits -> Nat]
    /\ applied \subseteq Events /\ acked \subseteq Credits
    /\ failures \in 0..MaxFailures
    /\ \A h \in Handlers :
         /\ Idle(h) <=> serving[h] = Nothing
         /\ await[h] \in {"checking", "marking"} => serving[h] \in Events
         /\ await[h] \in {"upserting", "granting", "marking", "logging"} =>
              serving[h] \notin Unlabelled

\* The idempotency table only names events whose credits reached the user: the
\* webhook marks after it granted, so no failure between the two loses a payment.
AppliedIsGranted == \A e \in applied : grants[e] > 0

\* Nothing is answered with a 2xx, and so given up by its sender, unless its
\* credits arrived: the payer's side of handleStripeWebhook and adminGrant.
\* Where one delivery is handled at a time and nothing fails, the credits
\* arrive once, however often Stripe sends the event.
Promise == INSTANCE CreditPromise WITH
    Purchases <- Credits, Exempt <- Unlabelled,
    Once <- ~Overlapping /\ MaxFailures = 0,
    credited <- grants, confirmed <- acked
KeepsPromise == Promise!Spec

\* "Stripe webhook idempotency (never double-credit)".
NeverDoubleCredit == \A e \in Events : grants[e] <= 1

\* The audit never shows a payment that was not credited, repeats included.
AuditIsReal == \A c \in Credits : payments[c] <= grants[c]

\* Whatever fails, a paid event is credited in the end.
CreditsArrive == \A e \in Events \ Unlabelled : <>(grants[e] > 0)
=============================================================================
