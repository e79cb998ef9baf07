---------------------------- MODULE LedgerProofs ----------------------------
(* Proofs about the two users of the ledger, the top-ups and the optimistic    *)
(* balance.  They share no state: the proofs of each stand on their own, one   *)
(* after the other.                                                            *)
EXTENDS TopUpsProps, OptimisticBalanceProps, SequenceTheorems, FiniteSetTheorems,
        WellFoundedInduction, TLAPS

-----------------------------------------------------------------------------
(* The top-ups, for every set of events, orders and handlers: types, the       *)
(* idempotency table, the audit, and the refinement of CreditPromise.          *)

Paid == {"marking", "logging", "answering"}

\* A handler past its grant has granted, and what is acknowledged was granted.
GrantedBefore ==
    /\ \A h \in Handlers : await[h] \in Paid /\ serving[h] \notin Unlabelled =>
         grants[serving[h]] > 0
    /\ \A c \in acked \ Unlabelled : grants[c] > 0

\* The handlers that granted the credits and have not logged them yet.
Owing(c) == {h \in Handlers : serving[h] = c /\ await[h] \in {"marking", "logging"}}

\* Every row has a grant of its own, and so has every row still owed.
AuditBalanced == \A c \in Credits : payments[c] + Cardinality(Owing(c)) <= grants[c]

TopUpsIInv == TypeOK /\ AppliedIsGranted /\ GrantedBefore /\ AuditBalanced

-----------------------------------------------------------------------------
LEMMA OwingFinite ==
    ASSUME NEW c
    PROVE  IsFiniteSet(Owing(c)) /\ Cardinality(Owing(c)) \in Nat
  BY HandlersAssumption, FS_Subset, FS_CardinalityType DEF Owing

LEMMA OwingShrinks ==
    ASSUME NEW c, Owing(c)' \subseteq Owing(c)
    PROVE  /\ Cardinality(Owing(c)') <= Cardinality(Owing(c))
           /\ Cardinality(Owing(c)') \in Nat /\ Cardinality(Owing(c)) \in Nat
  BY OwingFinite, FS_Subset, FS_CardinalityType

LEMMA InitTopUps == TopUpsInit => TopUpsIInv
  <1> SUFFICES ASSUME TopUpsInit PROVE TopUpsIInv
    OBVIOUS
  <1>1. TypeOK /\ AppliedIsGranted /\ GrantedBefore
    BY NothingAssumption, FailuresAssumption
    DEF TopUpsInit, TypeOK, AppliedIsGranted, GrantedBefore, Awaits, Paid, Idle
  <1>2. ASSUME NEW c \in Credits PROVE payments[c] + Cardinality(Owing(c)) <= grants[c]
    <2>1. Owing(c) = {}
      BY DEF TopUpsInit, Owing
    <2> QED
      BY <2>1, FS_EmptySet DEF TopUpsInit
  <1> QED
    BY <1>1, <1>2 DEF TopUpsIInv, AuditBalanced

\* A step that neither grants nor logs, and only lets handlers stop owing.
LEMMA KeepsBalance ==
    ASSUME TopUpsIInv, UNCHANGED <<grants, payments>>,
           \A c \in Credits : Owing(c)' \subseteq Owing(c)
    PROVE  AuditBalanced'
  <1> SUFFICES ASSUME NEW c \in Credits
               PROVE  payments[c] + Cardinality(Owing(c)') <= grants[c]
    BY DEF AuditBalanced
  <1>1. /\ payments[c] + Cardinality(Owing(c)) <= grants[c]
        /\ payments[c] \in Nat /\ grants[c] \in Nat
    BY DEF TopUpsIInv, AuditBalanced, TypeOK
  <1> QED
    BY <1>1, OwingShrinks

LEMMA SendIInv ==
    ASSUME TopUpsIInv, NEW h \in Handlers, NEW c \in Credits, Send(h, c) PROVE TopUpsIInv'
  <1>1. TypeOK'
    BY NothingAssumption, CreditsAssumption
    DEF TopUpsIInv, TypeOK, Awaits, Send, Await, Idle, Credits
  <1>2. AppliedIsGranted' /\ GrantedBefore'
    BY DEF TopUpsIInv, TypeOK, AppliedIsGranted, GrantedBefore, Paid, Send, Await
  <1>3. AuditBalanced'
    BY KeepsBalance DEF TopUpsIInv, TypeOK, Owing, Send, Await
  <1> QED
    BY <1>1, <1>2, <1>3 DEF TopUpsIInv

LEMMA CheckIInv ==
    ASSUME TopUpsIInv, NEW h \in Handlers, Check(h) \/ Upsert(h) PROVE TopUpsIInv'
  <1>1. TypeOK'
    BY NothingAssumption DEF TopUpsIInv, TypeOK, Awaits, Check, Upsert, Await, Idle
  <1>2. AppliedIsGranted' /\ GrantedBefore'
    BY DEF TopUpsIInv, TypeOK, AppliedIsGranted, GrantedBefore, Paid, Check, Upsert, Await
  <1>3. AuditBalanced'
    BY KeepsBalance DEF TopUpsIInv, TypeOK, Owing, Check, Upsert, Await
  <1> QED
    BY <1>1, <1>2, <1>3 DEF TopUpsIInv

\* The grant is owed a row from here on.
LEMMA GrantIInv ==
    ASSUME TopUpsIInv, NEW h \in Handlers, GrantAllowance(h) PROVE TopUpsIInv'
  <1> DEFINE g == serving[h]
  <1>1. g \in Credits /\ grants' = [grants EXCEPT ![g] = @ + 1]
    BY NothingAssumption DEF TopUpsIInv, TypeOK, GrantAllowance, Idle
  <1>2. TypeOK'
    BY <1>1 DEF TopUpsIInv, TypeOK, Awaits, GrantAllowance, Await, Idle
  <1>3. AppliedIsGranted' /\ GrantedBefore'
    BY <1>1
    DEF TopUpsIInv, TypeOK, AppliedIsGranted, GrantedBefore, Paid, GrantAllowance, Await, Credits
  <1>4. ASSUME NEW c \in Credits PROVE payments'[c] + Cardinality(Owing(c)') <= grants'[c]
    <2>1. /\ payments[c] + Cardinality(Owing(c)) <= grants[c]
          /\ payments[c] \in Nat /\ grants[c] \in Nat
      BY DEF TopUpsIInv, AuditBalanced, TypeOK
    <2>2. CASE c = g
      <3>1. Owing(c)' = Owing(c) \cup {h} /\ h \notin Owing(c)
        BY <2>2 DEF TopUpsIInv, TypeOK, Owing, GrantAllowance, Await
      <3>2. Cardinality(Owing(c)') = Cardinality(Owing(c)) + 1
        BY <3>1, OwingFinite, FS_AddElement
      <3> QED
        BY <1>1, <2>1, <2>2, <3>2, OwingFinite DEF GrantAllowance, TopUpsIInv, TypeOK
    <2>3. CASE c # g
      <3>1. Owing(c)' = Owing(c)
        BY <2>3 DEF TopUpsIInv, TypeOK, Owing, GrantAllowance, Await
      <3> QED
        BY <1>1, <2>1, <2>3, <3>1 DEF GrantAllowance, TopUpsIInv, TypeOK
    <2> QED
      BY <2>2, <2>3
  <1> QED
    BY <1>2, <1>3, <1>4 DEF TopUpsIInv, AuditBalanced

LEMMA MarkIInv ==
    ASSUME TopUpsIInv, NEW h \in Handlers, Mark(h) PROVE TopUpsIInv'
  <1>1. TypeOK'
    BY NothingAssumption DEF TopUpsIInv, TypeOK, Awaits, Mark, Await, Idle
  <1>2. AppliedIsGranted' /\ GrantedBefore'
    BY DEF TopUpsIInv, TypeOK, AppliedIsGranted, GrantedBefore, Paid, Mark, Await
  <1>3. AuditBalanced'
    BY KeepsBalance DEF TopUpsIInv, TypeOK, Owing, Mark, Await
  <1> QED
    BY <1>1, <1>2, <1>3 DEF TopUpsIInv

\* The row that was owed is written.
LEMMA LogIInv ==
    ASSUME TopUpsIInv, NEW h \in Handlers, Log(h) PROVE TopUpsIInv'
  <1> DEFINE g == serving[h]
  <1>1. g \in Credits /\ payments' = [payments EXCEPT ![g] = @ + 1]
    BY NothingAssumption DEF TopUpsIInv, TypeOK, Log, Idle
  <1>2. TypeOK'
    BY <1>1 DEF TopUpsIInv, TypeOK, Awaits, Log, Await, Idle
  <1>3. AppliedIsGranted' /\ GrantedBefore'
    BY DEF TopUpsIInv, TypeOK, AppliedIsGranted, GrantedBefore, Paid, Log, Await
  <1>4. ASSUME NEW c \in Credits PROVE payments'[c] + Cardinality(Owing(c)') <= grants'[c]
    <2>1. /\ payments[c] + Cardinality(Owing(c)) <= grants[c]
          /\ payments[c] \in Nat /\ grants[c] \in Nat
      BY DEF TopUpsIInv, AuditBalanced, TypeOK
    <2>2. CASE c = g
      <3>1. Owing(c)' = Owing(c) \ {h} /\ h \in Owing(c)
        BY <2>2 DEF TopUpsIInv, TypeOK, Owing, Log, Await
      <3>2. Cardinality(Owing(c)') = Cardinality(Owing(c)) - 1
        BY <3>1, OwingFinite, FS_RemoveElement
      <3> QED
        BY <1>1, <2>1, <2>2, <3>2, OwingFinite DEF Log, TopUpsIInv, TypeOK
    <2>3. CASE c # g
      <3>1. Owing(c)' = Owing(c)
        BY <2>3 DEF TopUpsIInv, TypeOK, Owing, Log, Await
      <3> QED
        BY <1>1, <2>1, <2>3, <3>1 DEF Log, TopUpsIInv, TypeOK
    <2> QED
      BY <2>2, <2>3
  <1> QED
    BY <1>2, <1>3, <1>4 DEF TopUpsIInv, AuditBalanced

LEMMA EndIInv ==
    ASSUME TopUpsIInv, NEW h \in Handlers, Answer(h) \/ Lose(h) PROVE TopUpsIInv'
  <1>1. TypeOK'
    BY NothingAssumption, FailuresAssumption
    DEF TopUpsIInv, TypeOK, Awaits, Answer, Lose, Await, Idle
  <1>2. AppliedIsGranted' /\ GrantedBefore'
    BY DEF TopUpsIInv, TypeOK, AppliedIsGranted, GrantedBefore, Paid, Answer, Lose, Await
  <1>3. AuditBalanced'
    BY KeepsBalance DEF TopUpsIInv, TypeOK, Owing, Answer, Lose, Await
  <1> QED
    BY <1>1, <1>2, <1>3 DEF TopUpsIInv

LEMMA StutterIInv == TopUpsIInv /\ UNCHANGED topUpsVars => TopUpsIInv'
  BY DEF TopUpsIInv, TypeOK, AppliedIsGranted, GrantedBefore, AuditBalanced, Owing,
         Idle, topUpsVars

LEMMA StepTopUps == TopUpsIInv /\ [TopUpsNext]_topUpsVars => TopUpsIInv'
  BY SendIInv, CheckIInv, GrantIInv, MarkIInv, LogIInv, EndIInv, StutterIInv
  DEF TopUpsNext, Serve

LEMMA AlwaysIInv == TopUpsSpec => []TopUpsIInv
  BY InitTopUps, StepTopUps, PTL DEF TopUpsSpec

\* The webhook's state keeps its types.
THEOREM TypeCorrect == TopUpsSpec => []TypeOK
  BY AlwaysIInv, PTL DEF TopUpsIInv

\* An event is only marked as applied once its credits were granted.
THEOREM AppliedWasGranted == TopUpsSpec => []AppliedIsGranted
  BY AlwaysIInv, PTL DEF TopUpsIInv

\* The payments table never lists more than was granted.
THEOREM AuditNeverInvents == TopUpsSpec => []AuditIsReal
  <1>1. TopUpsIInv => AuditIsReal
    <2> SUFFICES ASSUME TopUpsIInv, NEW c \in Credits PROVE payments[c] <= grants[c]
      BY DEF AuditIsReal
    <2> QED
      BY OwingFinite DEF TopUpsIInv, TypeOK, AuditBalanced
  <1> QED
    BY <1>1, AlwaysIInv, PTL

-----------------------------------------------------------------------------
(* The refinement.  Where nothing overlaps and nothing fails, a second grant  *)
(* needs a handler that finds the event unmarked after the first: by then the *)
(* first handler has marked it, or is still serving it alone.                 *)

Calm == ~Overlapping /\ MaxFailures = 0

\* Handlers serve different events and orders.
OneEach == \A h, k \in Handlers : serving[h] = serving[k] /\ serving[h] # Nothing => h = k

\* What was granted is marked, answered, or with the handler that granted it.
Settled ==
    \A c \in Credits : grants[c] > 0 =>
      \/ c \in applied
      \/ c \in acked \cap Orders
      \/ \E h \in Handlers : serving[h] = c /\ await[h] \in Paid

\* A handler on its way to a grant is on its way to the first one.
FirstGrant ==
    \A h \in Handlers :
      /\ await[h] \in {"upserting", "granting"} => grants[serving[h]] = 0
      /\ serving[h] \in applied => await[h] \in Paid \cup {"checking"}

Calmly == Calm => OneEach /\ Settled /\ FirstGrant

\* An event past its mark is marked, and one without metadata is never granted.
MarkedAfter ==
    /\ \A h \in Handlers : await[h] \in {"logging", "answering"} =>
         serving[h] \in Orders \cup Unlabelled \cup applied
    /\ \A c \in Unlabelled : grants[c] = 0

RInv == TopUpsIInv /\ MarkedAfter /\ Calmly

LEMMA InitRInv == TopUpsInit => RInv
  BY InitTopUps, CreditsAssumption
  DEF TopUpsInit, RInv, MarkedAfter, Calmly, OneEach, Settled, FirstGrant, Credits

LEMMA MarkedAfterStep == RInv /\ [TopUpsNext]_topUpsVars => MarkedAfter'
  <1> SUFFICES ASSUME RInv, [TopUpsNext]_topUpsVars PROVE MarkedAfter'
    OBVIOUS
  <1>1. CASE \E h \in Handlers, c \in Credits : Send(h, c)
    <2> PICK h \in Handlers, c \in Credits : Send(h, c)
      BY <1>1
    <2>1. \A k \in Handlers : await'[k] \in {"logging", "answering"} =>
            await[k] = await'[k] /\ serving'[k] = serving[k]
      BY DEF RInv, TopUpsIInv, TypeOK, Send, Await
    <2> QED
      BY <2>1 DEF RInv, MarkedAfter, Send
  <1>2. CASE \E h \in Handlers : Check(h) \/ Upsert(h) \/ Answer(h) \/ Lose(h)
    BY <1>2 DEF RInv, TopUpsIInv, TypeOK, MarkedAfter, Check, Upsert, Answer, Lose, Await
  <1>3. CASE \E h \in Handlers : GrantAllowance(h)
    <2> PICK h \in Handlers : GrantAllowance(h)
      BY <1>3
    <2>1. serving[h] \in Credits \ Unlabelled
      BY NothingAssumption DEF RInv, TopUpsIInv, TypeOK, GrantAllowance, Idle
    <2> QED
      BY <2>1, CreditsAssumption
      DEF RInv, TopUpsIInv, TypeOK, MarkedAfter, GrantAllowance, Await, Credits
  <1>4. CASE \E h \in Handlers : Mark(h)
    BY <1>4 DEF RInv, TopUpsIInv, TypeOK, MarkedAfter, Mark, Await
  <1>5. CASE \E h \in Handlers : Log(h)
    BY <1>5 DEF RInv, TopUpsIInv, TypeOK, MarkedAfter, Log, Await
  <1>6. CASE UNCHANGED topUpsVars
    BY <1>6 DEF RInv, MarkedAfter, topUpsVars
  <1> QED
    BY <1>1, <1>2, <1>3, <1>4, <1>5, <1>6 DEF TopUpsNext, Serve

\* While an order is sent, or an event is, it is nobody else's, and an order
\* not acknowledged was never granted.
LEMMA SendRInv ==
    ASSUME RInv, Calm, NEW h \in Handlers, NEW c \in Credits, Send(h, c)
    PROVE  OneEach' /\ Settled' /\ FirstGrant'
  <1>1. ~InHand(c)
    BY DEF Send, Calm
  <1>2. serving[h] = Nothing /\ await[h] = "idle"
    BY DEF Send, RInv, TopUpsIInv, TypeOK, Idle
  <1>3. OneEach'
    BY <1>1 DEF RInv, Calmly, TopUpsIInv, TypeOK, OneEach, Send, InHand
  <1>4. Settled'
    BY <1>2, NothingAssumption DEF RInv, Calmly, TopUpsIInv, TypeOK, Settled, Send, Await, Paid
  <1>5. c \in Orders => grants[c] = 0 /\ c \notin applied
    BY <1>1, CreditsAssumption
    DEF RInv, Calmly, TopUpsIInv, TypeOK, Settled, Send, InHand, Credits
  <1>6. FirstGrant'
    BY <1>5 DEF RInv, Calmly, TopUpsIInv, TypeOK, FirstGrant, Send, Await, Credits
  <1> QED
    BY <1>3, <1>4, <1>6

LEMMA CheckRInv ==
    ASSUME RInv, Calm, NEW h \in Handlers, Check(h)
    PROVE  OneEach' /\ Settled' /\ FirstGrant'
  <1>1. OneEach'
    BY DEF RInv, Calmly, OneEach, Check
  <1>2. Settled'
    BY DEF RInv, Calmly, TopUpsIInv, TypeOK, Settled, Check, Await, Paid
  <1>3. serving[h] \in Events /\ serving[h] # Nothing
    BY DEF RInv, TopUpsIInv, TypeOK, Check, Idle
  <1>4. serving[h] \notin applied => grants[serving[h]] = 0
    BY <1>3, CreditsAssumption
    DEF RInv, Calmly, TopUpsIInv, TypeOK, OneEach, Settled, Check, Paid, Credits
  <1>5. FirstGrant'
    BY <1>4 DEF RInv, Calmly, TopUpsIInv, TypeOK, FirstGrant, Check, Await, Paid
  <1> QED
    BY <1>1, <1>2, <1>5

LEMMA GrantRInv ==
    ASSUME RInv, Calm, NEW h \in Handlers, GrantAllowance(h)
    PROVE  OneEach' /\ Settled' /\ FirstGrant'
  <1>1. OneEach' /\ serving[h] \in Credits
    BY NothingAssumption DEF RInv, Calmly, TopUpsIInv, TypeOK, OneEach, GrantAllowance, Idle
  <1>2. Settled'
    BY <1>1 DEF RInv, Calmly, TopUpsIInv, TypeOK, Settled, GrantAllowance, Await, Paid
  <1>3. FirstGrant'
    BY <1>1, NothingAssumption
    DEF RInv, Calmly, TopUpsIInv, TypeOK, OneEach, FirstGrant, GrantAllowance, Await, Paid, Idle
  <1> QED
    BY <1>1, <1>2, <1>3

LEMMA MarkRInv ==
    ASSUME RInv, Calm, NEW h \in Handlers, Upsert(h) \/ Mark(h) \/ Log(h)
    PROVE  OneEach' /\ Settled' /\ FirstGrant'
  <1>1. OneEach'
    BY DEF RInv, Calmly, OneEach, Upsert, Mark, Log
  <1>2. Settled'
    BY DEF RInv, Calmly, TopUpsIInv, TypeOK, Settled, Upsert, Mark, Log, Await, Paid
  <1>3. serving[h] # Nothing
    BY DEF RInv, TopUpsIInv, TypeOK, Upsert, Mark, Log, Idle
  <1>4. FirstGrant'
    BY <1>3
    DEF RInv, Calmly, TopUpsIInv, TypeOK, OneEach, FirstGrant, Upsert, Mark, Log, Await, Paid
  <1> QED
    BY <1>1, <1>2, <1>4

\* An event answered was marked before, or carries no credits.
LEMMA AnswerRInv ==
    ASSUME RInv, Calm, NEW h \in Handlers, Answer(h)
    PROVE  OneEach' /\ Settled' /\ FirstGrant'
  <1>1. OneEach'
    BY DEF RInv, Calmly, TopUpsIInv, TypeOK, OneEach, Answer
  <1>2. serving[h] \in Orders \cup Unlabelled \cup applied
    BY DEF RInv, MarkedAfter, Answer
  <1>3. Settled'
    <2> SUFFICES ASSUME NEW c \in Credits, grants[c] > 0
                 PROVE  \/ c \in applied
                        \/ c \in acked' \cap Orders
                        \/ \E k \in Handlers : serving'[k] = c /\ await'[k] \in Paid
      BY DEF Settled, Answer
    <2>1. CASE c = serving[h]
      BY <1>2, <2>1 DEF RInv, MarkedAfter, Answer
    <2>2. CASE c # serving[h]
      BY <2>2 DEF RInv, Calmly, TopUpsIInv, TypeOK, Settled, Answer, Await
    <2> QED
      BY <2>1, <2>2
  <1>4. FirstGrant'
    BY NothingAssumption, CreditsAssumption
    DEF RInv, Calmly, TopUpsIInv, TypeOK, FirstGrant, Answer, Await, Credits
  <1> QED
    BY <1>1, <1>3, <1>4

LEMMA StepRInv == RInv /\ [TopUpsNext]_topUpsVars => RInv'
  <1> SUFFICES ASSUME RInv, [TopUpsNext]_topUpsVars PROVE RInv'
    OBVIOUS
  <1>1. TopUpsIInv' /\ MarkedAfter'
    BY StepTopUps, MarkedAfterStep DEF RInv
  <1>2. ASSUME Calm PROVE OneEach' /\ Settled' /\ FirstGrant'
    <2>1. CASE UNCHANGED topUpsVars
      BY <1>2, <2>1 DEF RInv, Calmly, OneEach, Settled, FirstGrant, topUpsVars
    <2>2. CASE TopUpsNext
      <3>1. ASSUME NEW h \in Handlers PROVE ~Lose(h)
        BY <1>2 DEF Calm, Lose, RInv, TopUpsIInv, TypeOK
      <3> QED
        BY <1>2, <2>2, <3>1, SendRInv, CheckRInv, GrantRInv, MarkRInv, AnswerRInv
        DEF TopUpsNext, Serve
    <2> QED
      BY <2>1, <2>2
  <1> QED
    BY <1>1, <1>2 DEF RInv, Calmly, Calm

\* Every step is a credit, a confirmation or a stutter of the promise.
LEMMA StepPromise ==
    RInv /\ [TopUpsNext]_topUpsVars => [Promise!Next]_<<grants, acked>>
  <1> SUFFICES ASSUME RInv, [TopUpsNext]_topUpsVars PROVE [Promise!Next]_<<grants, acked>>
    OBVIOUS
  <1>1. ASSUME NEW h \in Handlers, GrantAllowance(h) PROVE Promise!Next
    <2>1. serving[h] \in Credits
      BY <1>1, NothingAssumption DEF RInv, TopUpsIInv, TypeOK, GrantAllowance, Idle
    <2>2. Calm => grants[serving[h]] = 0
      BY <1>1 DEF RInv, Calmly, FirstGrant, GrantAllowance
    <2> QED
      BY <1>1, <2>1, <2>2 DEF GrantAllowance, Calm, Promise!Next, Promise!Credit
  <1>2. ASSUME NEW h \in Handlers, Answer(h) PROVE Promise!Next
    <2>1. serving[h] \in Credits
      BY <1>2, NothingAssumption DEF RInv, TopUpsIInv, TypeOK, Answer, Idle
    <2>2. serving[h] \in Unlabelled \/ grants[serving[h]] > 0
      BY <1>2 DEF RInv, TopUpsIInv, GrantedBefore, Answer, Paid
    <2> QED
      BY <1>2, <2>1, <2>2 DEF Answer, Promise!Next, Promise!Confirm
  <1>3. CASE UNCHANGED <<grants, acked>>
    BY <1>3
  <1> QED
    BY <1>1, <1>2, <1>3
    DEF TopUpsNext, Serve, Send, Check, Upsert, Mark, Log, Lose, topUpsVars

\* The webhook and the admin grant keep the payer's promise: acknowledged only
\* after credited, and once where nothing overlaps and nothing fails.
THEOREM Refinement == TopUpsSpec => KeepsPromise
  <1>1. TopUpsInit => Promise!Init
    BY DEF TopUpsInit, Promise!Init
  <1>2. TopUpsSpec => []RInv
    BY InitRInv, StepRInv, PTL DEF TopUpsSpec
  <1> QED
    BY <1>1, <1>2, StepPromise, PTL DEF TopUpsSpec, KeepsPromise, Promise!Spec

-----------------------------------------------------------------------------
(* The optimistic balance, for all calls, tickets and amounts, whatever is     *)
(* signed while a read is at it and in whatever order tickets are metered:     *)
(* until a call fails or two reconcile at a time, what is dropped as metered   *)
(* was metered.                                                                *)

\* The parts of the type that matter: amounts are numbers, lists hold tickets.
Typed ==
    /\ pc \in [Calls -> Places] /\ seen \in [Calls -> Nat] /\ left \in [Calls -> Int]
    /\ list \in [Calls -> Seq(Tickets)] /\ rows \in Seq(Tickets)
    /\ consumed \in Nat /\ absorbed \in Nat /\ sync \in Nat \cup {None}
    /\ ticket \in [Calls -> Tickets \cup {None}] /\ faults = 0
    /\ \A k \in Calls :
         pc[k] \in {"seeking", "fetching", "seeding", "inserting", "spending"} =>
           ticket[k] \in Tickets

Fetched  == {"pruning", "comparing", "listing", "absorbing", "syncing", "summing"}
Reckoned == {"listing", "absorbing"}
Using    == {"fetching", "seeding"} \cup Fetched

\* One call reconciles at a time.
Alone == \A j, k \in Calls : pc[j] \in Using /\ pc[k] \in Using => j = k

\* The baseline and what a call has fetched lie between what was consumed
\* before the first ticket and now, and no baseline is set back.
Ordered ==
    /\ consumed >= Before
    /\ sync # None => Before <= sync /\ sync <= consumed
    /\ \A k \in Calls :
         /\ pc[k] \in Fetched \cup {"seeding"} => Before <= seen[k] /\ seen[k] <= consumed
         /\ pc[k] \in Fetched /\ sync # None => sync <= seen[k]
         /\ pc[k] \in {"fetching", "seeding"} => sync = None
         /\ pc[k] \in Reckoned \cup {"syncing"} => sync # None

\* What was absorbed, and what a read may still absorb, was consumed between
\* the first ticket and the baseline, or the amount the read has fetched.
Accounted ==
    /\ sync = None => absorbed = 0
    /\ \A k \in Calls :
         /\ pc[k] \in Reckoned => left[k] >= 0 /\ absorbed + left[k] <= seen[k] - Before
         /\ pc[k] = "syncing" => absorbed <= seen[k] - Before
    /\ sync # None /\ (\A k \in Calls : pc[k] \notin Reckoned \cup {"syncing"}) =>
         absorbed <= sync - Before

IInv == Typed /\ Alone /\ Ordered /\ Accounted

-----------------------------------------------------------------------------
(* Sums of tickets.  Total is a fold over a set: its recursion has one         *)
(* solution on the subsets of a finite set, and what is said of all of them is *)
(* shown at a least subset where it would fail.                                *)

\* The ticket a sum takes next, and the sums of all subsets of a set of tickets.
Picked(S) == CHOOSE t \in S : TRUE
Sums(g, S) ==
    g = [U \in SUBSET S |-> IF U = {} THEN 0 ELSE Face[Picked(U)] + g[U \ {Picked(U)}]]

\* Sets of subsets of a finite set have a least one.
LEMMA LeastSet ==
    ASSUME NEW S, IsFiniteSet(S), NEW B \in SUBSET (SUBSET S), B # {}
    PROVE  \E T \in B : \A U \in B : U \subseteq T => U = T
  <1> DEFINE R == StrictSubsetOrdering(S)
  <1>1. IsWellFoundedOn(R, SUBSET S)
    BY FS_StrictSubsetOrderingWellFounded, FS_FiniteSubsetsOfFinite
  <1>2. PICK T \in B : \A U \in B : <<U, T>> \notin R
    <2> HIDE DEF R
    <2> QED
      BY <1>1, WFMin
  <1>3. \A U \in B : U \subseteq T => U = T
    BY <1>2 DEF StrictSubsetOrdering
  <1> QED
    BY <1>3

\* There is one way to sum.
LEMMA SumsAgree ==
    ASSUME NEW S, IsFiniteSet(S), NEW T \in SUBSET S, NEW g, NEW h, Sums(g, S), Sums(h, T)
    PROVE  \A U \in SUBSET T : g[U] = h[U]
  <1> DEFINE B == {U \in SUBSET T : g[U] # h[U]}
  <1>1. SUFFICES ASSUME B # {} PROVE FALSE
    OBVIOUS
  <1>2. PICK U \in B : \A V \in B : V \subseteq U => V = U
    <2>1. IsFiniteSet(T) /\ B \in SUBSET (SUBSET T)
      BY FS_Subset
    <2> HIDE DEF B
    <2> QED
      BY <1>1, <2>1, LeastSet
  <1>3. /\ U \subseteq T /\ U \subseteq S
        /\ g[U] = IF U = {} THEN 0 ELSE Face[Picked(U)] + g[U \ {Picked(U)}]
        /\ h[U] = IF U = {} THEN 0 ELSE Face[Picked(U)] + h[U \ {Picked(U)}]
    BY DEF Sums
  <1>4. U # {} => Picked(U) \in U
    BY DEF Picked
  <1>5. U # {} => g[U \ {Picked(U)}] = h[U \ {Picked(U)}]
    BY <1>2, <1>3, <1>4
  <1> QED
    BY <1>3, <1>5

LEMMA SumsExist ==
    ASSUME NEW S, IsFiniteSet(S)
    PROVE  \E g : Sums(g, S)
  <1> DEFINE B == {T \in SUBSET S : \A g : ~Sums(g, T)}
  <1>1. SUFFICES ASSUME B # {} PROVE FALSE
    OBVIOUS
  <1>2. PICK T \in B : \A V \in B : V \subseteq T => V = T
    <2>1. B \in SUBSET (SUBSET S)
      OBVIOUS
    <2> HIDE DEF B
    <2> QED
      BY <1>1, <2>1, LeastSet
  <1> DEFINE f(U) == CHOOSE g : Sums(g, U)
             a(U) == Face[Picked(U)] + f(U \ {Picked(U)})[U \ {Picked(U)}]
             g == [U \in SUBSET T |-> IF U = {} THEN 0 ELSE a(U)]
  <1>3. ASSUME NEW U \in SUBSET T, U # T PROVE Sums(f(U), U)
    BY <1>2, <1>3
  <1>4. ASSUME NEW U \in SUBSET T, U # {}
        PROVE  g[U \ {Picked(U)}] = f(U \ {Picked(U)})[U \ {Picked(U)}]
    <2> DEFINE V == U \ {Picked(U)}
    <2>1. Picked(U) \in U /\ V \in SUBSET T /\ V # T
      BY <1>4 DEF Picked
    <2>2. Sums(f(V), V)
      BY <1>3, <2>1
    <2>3. CASE V = {}
      <3>1. f(V)[V] = 0
        BY <2>2, <2>3 DEF Sums
      <3> QED
        BY <2>3, <3>1
    <2>4. CASE V # {}
      <3> DEFINE W == V \ {Picked(V)}
      <3>1. Picked(V) \in V /\ W \in SUBSET V /\ W \in SUBSET T /\ W # T /\ IsFiniteSet(V)
        BY <2>1, <2>4, FS_Subset DEF Picked
      <3>2. Sums(f(W), W)
        BY <1>3, <3>1
      <3>3. f(V)[W] = f(W)[W]
        <4> HIDE DEF f, W, V
        <4> QED
          BY <2>2, <3>1, <3>2, SumsAgree
      <3>4. f(V)[V] = Face[Picked(V)] + f(V)[W]
        <4> HIDE DEF f
        <4> QED
          BY <2>2, <2>4 DEF Sums
      <3>5. g[V] = Face[Picked(V)] + f(W)[W]
        <4> HIDE DEF f
        <4> QED
          BY <2>1, <2>4
      <3> QED
        BY <3>3, <3>4, <3>5
    <2> QED
      BY <2>3, <2>4
  <1>5. Sums(g, T)
    <2> HIDE DEF f
    <2> QED
      BY <1>4 DEF Sums
  <1> QED
    BY <1>5

LEMMA TotalSums ==
    ASSUME NEW S, IsFiniteSet(S)
    PROVE  \E g : Sums(g, S) /\ \A U \in SUBSET S : Total(U) = g[U]
  <1>1. PICK g : Sums(g, S)
    BY SumsExist
  <1>2. ASSUME NEW U \in SUBSET S PROVE Total(U) = g[U]
    <2> DEFINE h == CHOOSE i : Sums(i, U)
    <2>1. Sums(h, U)
      BY SumsExist, FS_Subset
    <2>2. Total(U) = h[U]
      BY DEF Total, SumFunctionOnSet, FoldFunctionOnSet, MapThenFoldSet, Sums, Picked
    <2> HIDE DEF h
    <2>3. g[U] = h[U]
      BY <1>1, <2>1, SumsAgree
    <2> QED
      BY <2>2, <2>3
  <1> QED
    BY <1>1, <1>2

LEMMA TotalEmpty == Total({}) = 0
  <1>1. PICK g : Sums(g, {}) /\ \A U \in SUBSET {} : Total(U) = g[U]
    BY TotalSums, FS_EmptySet
  <1> QED
    BY <1>1 DEF Sums

LEMMA TotalPicked ==
    ASSUME NEW S, IsFiniteSet(S), S # {}
    PROVE  Picked(S) \in S /\ Total(S) = Face[Picked(S)] + Total(S \ {Picked(S)})
  <1>1. PICK g : Sums(g, S) /\ \A U \in SUBSET S : Total(U) = g[U]
    BY TotalSums
  <1>2. g[S] = Face[Picked(S)] + g[S \ {Picked(S)}]
    BY <1>1 DEF Sums
  <1>3. Picked(S) \in S
    BY DEF Picked
  <1> QED
    BY <1>1, <1>2, <1>3

\* Sums of tickets are numbers, and it does not matter which ticket is taken.
LEMMA TotalStep ==
    ASSUME NEW S \in SUBSET Tickets, IsFiniteSet(S)
    PROVE  /\ Total(S) \in Nat
           /\ \A t \in S : Total(S) = Face[t] + Total(S \ {t})
  <1> DEFINE Fine(T) == Total(T) \in Nat /\ \A t \in T : Total(T) = Face[t] + Total(T \ {t})
             B == {T \in SUBSET S : ~Fine(T)}
  <1>1. SUFFICES ASSUME B # {} PROVE FALSE
    OBVIOUS
  <1>2. PICK T \in B : \A V \in B : V \subseteq T => V = T
    <2>1. B \in SUBSET (SUBSET S)
      OBVIOUS
    <2> HIDE DEF B
    <2> QED
      BY <1>1, <2>1, LeastSet
  <1>3. ASSUME NEW U \in SUBSET T, U # T PROVE Fine(U)
    <2> HIDE DEF Fine
    <2> QED
      BY <1>2, <1>3
  <1>4. CASE T = {}
    BY <1>4, TotalEmpty
  <1>5. CASE T # {}
    <2> DEFINE p == Picked(T)
    <2>1. p \in T /\ Total(T) = Face[p] + Total(T \ {p}) /\ T \subseteq Tickets
      BY <1>5, TotalPicked, FS_Subset
    <2> HIDE DEF p
    <2>2. \A t \in T : Face[t] \in Nat
      BY <2>1, AmountsAssumption
    <2>3. Total(T \ {p}) \in Nat
      BY <1>3, <2>1
    <2>4. ASSUME NEW t \in T PROVE Total(T) = Face[t] + Total(T \ {t})
      <3>1. CASE t = p
        BY <2>1, <3>1
      <3>2. CASE t # p
        <4> DEFINE U == T \ {p, t}
        <4>1. U = (T \ {p}) \ {t} /\ U = (T \ {t}) \ {p}
          OBVIOUS
        <4>2. Total(T \ {p}) = Face[t] + Total(U)
          BY <1>3, <2>1, <3>2, <4>1
        <4>3. Total(T \ {t}) = Face[p] + Total(U)
          BY <1>3, <2>1, <3>2, <4>1
        <4>4. Total(U) \in Nat
          BY <1>3, <2>1
        <4> HIDE DEF U
        <4>5. Face[p] \in Nat /\ Face[t] \in Nat
          BY <2>1, <2>2
        <4> QED
          BY <2>1, <4>2, <4>3, <4>4, <4>5
      <3> QED
        BY <3>1, <3>2
    <2>5. Total(T) \in Nat
      BY <2>1, <2>2, <2>3
    <2> QED
      BY <2>4, <2>5
  <1> QED
    BY <1>4, <1>5

\* A part of a set amounts to no more than the set.
LEMMA TotalMonotone ==
    ASSUME NEW S \in SUBSET Tickets, IsFiniteSet(S), NEW P \in SUBSET S
    PROVE  Total(P) <= Total(S)
  <1> DEFINE B == {T \in SUBSET S : \E Q \in SUBSET T : ~(Total(Q) <= Total(T))}
  <1>1. SUFFICES ASSUME B # {} PROVE FALSE
    OBVIOUS
  <1>2. PICK T \in B : \A V \in B : V \subseteq T => V = T
    <2>1. B \in SUBSET (SUBSET S)
      OBVIOUS
    <2> HIDE DEF B
    <2> QED
      BY <1>1, <2>1, LeastSet
  <1>3. PICK Q \in SUBSET T : ~(Total(Q) <= Total(T))
    OBVIOUS
  <1>4. /\ Total(T) \in Nat /\ Total(Q) \in Nat
        /\ \A t \in T : Total(T) = Face[t] + Total(T \ {t}) /\ Total(T \ {t}) \in Nat
                        /\ Face[t] \in Nat
    <2>1. \A U \in SUBSET S : U \in SUBSET Tickets /\ IsFiniteSet(U)
      BY FS_Subset
    <2> QED
      BY <2>1, TotalStep, AmountsAssumption
  <1>5. PICK t \in T : t \notin Q
    BY <1>3, <1>4
  <1>6. Total(Q) <= Total(T \ {t})
    BY <1>2, <1>5
  <1> QED
    BY <1>3, <1>4, <1>6

\* Two sets together amount to no more than the two amounts.
LEMMA TotalUnion ==
    ASSUME NEW S \in SUBSET Tickets, IsFiniteSet(S), NEW P \in SUBSET Tickets, IsFiniteSet(P)
    PROVE  Total(S \cup P) <= Total(S) + Total(P)
  <1> DEFINE B == {T \in SUBSET S : ~(Total(T \cup P) <= Total(T) + Total(P))}
  <1>1. SUFFICES ASSUME B # {} PROVE FALSE
    OBVIOUS
  <1>2. PICK T \in B : \A V \in B : V \subseteq T => V = T
    <2>1. B \in SUBSET (SUBSET S)
      OBVIOUS
    <2> HIDE DEF B
    <2> QED
      BY <1>1, <2>1, LeastSet
  <1>3. \A U \in SUBSET S : /\ U \in SUBSET Tickets /\ IsFiniteSet(U)
                            /\ U \cup P \in SUBSET Tickets /\ IsFiniteSet(U \cup P)
    BY FS_Subset, FS_Union
  <1>4. T # {}
    BY TotalEmpty, TotalStep
  <1>5. PICK t \in T : TRUE
    BY <1>4
  <1> DEFINE U == T \ {t}
  <1>6. /\ Total(T) = Face[t] + Total(U) /\ Total(U) \in Nat /\ Total(P) \in Nat
        /\ Face[t] \in Nat /\ Total(U \cup P) \in Nat
    BY <1>3, TotalStep, AmountsAssumption
  <1>7. Total(U \cup P) <= Total(U) + Total(P)
    BY <1>2
  <1>8. Total(T \cup P) <= Face[t] + Total(U \cup P)
    <2>1. CASE t \in P
      <3>1. T \cup P = U \cup P
        BY <2>1
      <3>2. Total(T \cup P) = Total(U \cup P)
        BY <3>1
      <3> HIDE DEF U
      <3> QED
        BY <1>6, <3>2
    <2>2. CASE t \notin P
      <3>1. (T \cup P) \ {t} = U \cup P
        BY <2>2
      <3>2. Total(T \cup P) = Face[t] + Total(U \cup P)
        BY <1>3, <3>1, TotalStep
      <3> QED
        BY <1>6, <3>2
    <2> QED
      BY <2>1, <2>2
  <1>9. Total(T \cup P) \in Nat
    BY <1>3, TotalStep
  <1> QED
    <2>1. ~(Total(T \cup P) <= Total(T) + Total(P))
      OBVIOUS
    <2> HIDE DEF U, B
    <2> QED
      BY <1>6, <1>7, <1>8, <1>9, <2>1

-----------------------------------------------------------------------------
LEMMA TailTyped ==
    ASSUME NEW s \in Seq(Tickets), s # <<>>
    PROVE  Head(s) \in Tickets /\ Tail(s) \in Seq(Tickets)
  OBVIOUS

LEMMA AppendTyped ==
    ASSUME NEW s \in Seq(Tickets), NEW t \in Tickets
    PROVE  Append(s, t) \in Seq(Tickets)
  OBVIOUS

\* An amount absorbed is no longer left to absorb.
LEMMA MovedAmount ==
    ASSUME NEW a \in Nat, NEW b \in Nat, NEW f \in Nat, NEW l \in Int, NEW s \in Nat,
           NEW m \in Int, NEW base \in Nat,
           b <= a + f, m = l - f, l >= f, a + l <= s - base
    PROVE  m >= 0 /\ b + m <= s - base
  OBVIOUS

LEMMA NotAgedTyped ==
    ASSUME NEW s \in Seq(Tickets)
    PROVE  NotAged(s) \in Seq(Tickets)
  <1> DEFINE S == {i \in 1..Len(s) : s[i] \in aged}
  <1>1. Cardinality(S) \in Nat
    <2>1. IsFiniteSet(1..Len(s)) /\ S \subseteq 1..Len(s)
      BY FS_Interval
    <2> QED
      BY <2>1, FS_Subset, FS_CardinalityType
  <1>2. \A i \in (1 + Cardinality(S))..Len(s) : s[i] \in Tickets
    BY <1>1
  <1> QED
    BY <1>1, <1>2, SubSeqProperties DEF NotAged

LEMMA RemoveAtTyped ==
    ASSUME NEW s \in Seq(Tickets), NEW i \in 1..Len(s)
    PROVE  RemoveAt(s, i) \in Seq(Tickets)
  <1>1. SubSeq(s, 1, i - 1) \in Seq(Tickets)
    BY SubSeqProperties
  <1>2. SubSeq(s, i + 1, Len(s)) \in Seq(Tickets)
    BY SubSeqProperties
  <1> QED
    BY <1>1, <1>2, ConcatProperties DEF RemoveAt

LEMMA DeleteTyped ==
    ASSUME NEW t \in Tickets, Typed, Delete(t)
    PROVE  /\ rows' \in Seq(Tickets)
           /\ absorbed' \in Nat /\ absorbed' <= absorbed + Face[t]
  BY RemoveAtTyped, AmountsAssumption DEF Delete, Typed

LEMMA InitIInv == Init => IInv
  BY AmountsAssumption
  DEF Init, IInv, Typed, Alone, Ordered, Accounted, Places, Fetched, Reckoned, Using

\* A call that reconciles is the only one.
LEMMA OnlyOne ==
    ASSUME Alone, NEW k \in Calls, pc[k] \in Using
    PROVE  \A j \in Calls : j # k => pc[j] \notin Using
  BY DEF Alone

LEMMA NoRivals ==
    ASSUME NEW k \in Calls, ~Rivals(k)
    PROVE  \A j \in Calls : j # k => pc[j] \notin Using
  BY DEF Rivals, Reconciling, Using, Fetched

\* Steps of a call that does not reconcile.
LEMMA AsideIInv ==
    ASSUME IInv, Typed', NEW k \in Calls, NEW place \in Places \ Using,
           pc[k] \notin Using, pc' = [pc EXCEPT ![k] = place],
           UNCHANGED <<consumed, sync, absorbed, seen, left>>
    PROVE  IInv'
  <1>1. \A j \in Calls : pc'[j] = pc[j] \/ (j = k /\ pc'[j] \notin Using)
    BY DEF IInv, Typed
  <1>2. \A j \in Calls : pc'[j] \in Using <=> pc[j] \in Using
    BY <1>1
  <1>3. \A j \in Calls : pc'[j] \in Using => pc'[j] = pc[j]
    BY <1>1
  <1>4. Alone'
    BY <1>2 DEF IInv, Alone
  <1>5. Ordered'
    BY <1>3 DEF IInv, Ordered, Using, Fetched, Reckoned
  <1>6. Accounted'
    BY <1>2, <1>3 DEF IInv, Accounted, Using, Fetched, Reckoned
  <1> QED
    BY <1>4, <1>5, <1>6 DEF IInv

LEMMA StartIInv ==
    ASSUME IInv, NEW k \in Calls, (\E t \in Tickets : Sign(k, t)) \/ Read(k)
    PROVE  IInv'
  <1>1. CASE Read(k)
    <2>1. pc[k] = "idle" /\ pc' = [pc EXCEPT ![k] = "balance"]
          /\ UNCHANGED <<users, theirs, mirror, locals, faults>>
      BY <1>1 DEF Read, At, Goto
    <2>2. Typed'
      BY <2>1 DEF IInv, Typed, Places, mirror, users, theirs, locals
    <2> QED
      BY <2>1, <2>2, AsideIInv DEF Places, Using, Fetched, theirs, mirror, locals
  <1>2. ASSUME NEW t \in Tickets, Sign(k, t) PROVE IInv'
    <2>1. pc[k] = "idle" /\ pc' = [pc EXCEPT ![k] = "seeking"]
          /\ ticket' = [ticket EXCEPT ![k] = t]
          /\ UNCHANGED <<theirs, mirror, locals, faults>>
      BY <1>2 DEF Sign, At, Goto
    <2>2. Typed'
      <3>1. Typed
        BY DEF IInv
      <3>2. pc' \in [Calls -> Places] /\ ticket' \in [Calls -> Tickets \cup {None}]
        BY <2>1, <3>1 DEF Typed, Places
      <3>3. \A j \in Calls :
               pc'[j] \in {"seeking", "fetching", "seeding", "inserting", "spending"} =>
                 ticket'[j] \in Tickets
        BY <2>1, <3>1 DEF Typed
      <3> QED
        BY <2>1, <3>1, <3>2, <3>3 DEF Typed, theirs, mirror, locals
    <2> QED
      BY <2>1, <2>2, AsideIInv DEF Places, Using, Fetched, theirs, mirror, locals
  <1> QED
    BY <1>1, <1>2

\* The steps of a sign request that seed the baseline.
LEMMA SeedIInv ==
    ASSUME IInv, NEW k \in Calls,
           (SeekSync(k) /\ raced' = FALSE) \/ FetchSeed(k) \/ Seed(k)
    PROVE  IInv'
  <1>1. CASE SeekSync(k) /\ raced' = FALSE /\ sync # None
    <2>1. pc[k] = "seeking" /\ pc' = [pc EXCEPT ![k] = "inserting"]
          /\ UNCHANGED <<users, theirs, mirror, locals, faults>>
      BY <1>1 DEF SeekSync, At, Goto
    <2>2. Typed'
      BY <2>1 DEF IInv, Typed, Places, mirror, users, theirs, locals
    <2> QED
      BY <2>1, <2>2, AsideIInv DEF Places, Using, Fetched, theirs, mirror, locals
  <1>2. CASE SeekSync(k) /\ raced' = FALSE /\ sync = None
    <2>0. pc[k] = "seeking" /\ pc' = [pc EXCEPT ![k] = "fetching"] /\ ~Rivals(k)
          /\ UNCHANGED <<users, theirs, mirror, locals, faults>>
      BY <1>2 DEF SeekSync, At, Goto
    <2>1. Typed'
      BY <2>0 DEF IInv, Typed, Places, mirror, users, theirs, locals
    <2>2. Alone'
      BY <2>0, NoRivals DEF IInv, Typed, Alone, Using
    <2>3. Ordered'
      BY <1>2, <2>0, NoRivals, NoneAssumption
      DEF IInv, Typed, Ordered, Fetched, Reckoned, Using, mirror, users, theirs, locals
    <2>4. Accounted'
      BY <1>2, <2>0, NoRivals, NoneAssumption
      DEF IInv, Typed, Ordered, Accounted, Fetched, Reckoned, Using, mirror, users, theirs, locals
    <2> QED
      BY <2>1, <2>2, <2>3, <2>4 DEF IInv
  <1>3. CASE FetchSeed(k)
    <2>0. \A j \in Calls : j # k => pc[j] \notin Using
      BY <1>3, OnlyOne DEF IInv, FetchSeed, At, Using
    <2>1. Typed'
      BY <1>3 DEF IInv, Typed, Places, FetchSeed, At, Goto, mirror, users, theirs
    <2>2. Alone'
      BY <1>3, <2>0 DEF IInv, Typed, Alone, Using, FetchSeed, At, Goto
    <2>3. Ordered'
      BY <1>3, <2>0, NoneAssumption
      DEF IInv, Typed, Ordered, Fetched, Reckoned, Using, FetchSeed, At, Goto, mirror, users, theirs
    <2>4. Accounted'
      BY <1>3, <2>0, NoneAssumption
      DEF IInv, Typed, Ordered, Accounted, Fetched, Reckoned, Using, FetchSeed, At, Goto, mirror,
          users, theirs
    <2> QED
      BY <2>1, <2>2, <2>3, <2>4 DEF IInv
  <1>4. CASE Seed(k)
    <2>0. \A j \in Calls : j # k => pc[j] \notin Using
      BY <1>4, OnlyOne DEF IInv, Seed, At, Using
    <2>1. Typed'
      BY <1>4 DEF IInv, Typed, Places, Seed, At, Goto, users, theirs
    <2>2. Alone'
      BY <1>4, <2>0 DEF IInv, Typed, Alone, Using, Fetched, Seed, At, Goto
    <2>3. Ordered'
      BY <1>4, <2>0, NoneAssumption
      DEF IInv, Typed, Ordered, Fetched, Reckoned, Using, Seed, At, Goto, users, theirs
    <2>4. Accounted'
      BY <1>4, <2>0, NoneAssumption
      DEF IInv, Typed, Ordered, Accounted, Fetched, Reckoned, Using, Seed, At, Goto, users, theirs
    <2> QED
      BY <2>1, <2>2, <2>3, <2>4 DEF IInv
  <1> QED
    BY <1>1, <1>2, <1>3, <1>4

\* The steps of a sign request that write its row and its history.
LEMMA WriteIInv ==
    ASSUME IInv, NEW k \in Calls, Insert(k) \/ RecordSpend(k)
    PROVE  IInv'
  <1>1. CASE Insert(k)
    <2>1. pc[k] = "inserting" /\ pc' = [pc EXCEPT ![k] = "spending"]
          /\ UNCHANGED <<users, theirs, sync, absorbed, locals, faults>>
      BY <1>1 DEF Insert, At, Goto
    <2>2. rows' \in Seq(Tickets)
      <3>1. ticket[k] \in Tickets
        BY <2>1 DEF IInv, Typed
      <3>2. rows' = rows \/ rows' = Append(rows, ticket[k])
        BY <1>1 DEF Insert
      <3> QED
        BY <3>1, <3>2, AppendTyped DEF IInv, Typed
    <2>3. Typed'
      BY <2>1, <2>2 DEF IInv, Typed, Places, users, theirs, locals
    <2> QED
      BY <2>1, <2>3, AsideIInv DEF Places, Using, Fetched, theirs, locals
  <1>2. CASE RecordSpend(k)
    <2>1. pc[k] = "spending" /\ pc' = [pc EXCEPT ![k] = "idle"]
          /\ ticket' = [ticket EXCEPT ![k] = None]
          /\ UNCHANGED <<theirs, mirror, locals, faults>>
      BY <1>2 DEF RecordSpend, At, Goto
    <2>2. Typed'
      BY <2>1 DEF IInv, Typed, Places, theirs, mirror, locals
    <2> QED
      BY <2>1, <2>2, AsideIInv DEF Places, Using, Fetched, theirs, mirror, locals
  <1> QED
    BY <1>1, <1>2

\* The steps of a read before it absorbs anything.
LEMMA FetchIInv ==
    ASSUME IInv, NEW k \in Calls,
           (GetBalance(k) /\ raced' = FALSE) \/ Prune(k) \/ Compare(k) \/ List(k)
    PROVE  IInv'
  <1>1. \A j \in Calls : j # k => pc[j] \notin Using
    BY OnlyOne, NoRivals DEF IInv, GetBalance, Prune, Compare, List, At, Using, Fetched
  <1>2. CASE GetBalance(k) /\ raced' = FALSE
    <2>1. Typed'
      BY <1>2 DEF IInv, Typed, Places, GetBalance, At, Goto, mirror, users, theirs
    <2>2. Alone'
      BY <1>1, <1>2 DEF IInv, Typed, Alone, Using, Fetched, GetBalance, At, Goto
    <2>3. Ordered'
      BY <1>1, <1>2, NoneAssumption
      DEF IInv, Typed, Ordered, Fetched, Reckoned, Using, GetBalance, At, Goto, mirror, users, theirs
    <2>4. Accounted'
      BY <1>1, <1>2, NoneAssumption
      DEF IInv, Typed, Ordered, Accounted, Fetched, Reckoned, Using, GetBalance, At, Goto, mirror, users, theirs
    <2> QED
      BY <2>1, <2>2, <2>3, <2>4 DEF IInv
  <1>3. CASE Prune(k)
    <2>1. Typed'
      BY <1>3, NotAgedTyped DEF IInv, Typed, Places, Prune, At, Goto, users, theirs, locals
    <2>2. Alone'
      BY <1>1, <1>3 DEF IInv, Typed, Alone, Using, Fetched, Prune, At, Goto
    <2>3. Ordered'
      BY <1>1, <1>3, NoneAssumption
      DEF IInv, Typed, Ordered, Fetched, Reckoned, Using, Prune, At, Goto, users, theirs, locals
    <2>4. Accounted'
      BY <1>1, <1>3, NoneAssumption
      DEF IInv, Typed, Ordered, Accounted, Fetched, Reckoned, Using, Prune, At, Goto, users, theirs, locals
    <2> QED
      BY <2>1, <2>2, <2>3, <2>4 DEF IInv
  <1>4. CASE Compare(k)
    <2>1. Typed'
      <3>1. left' = left \/ (sync # None /\ left' = [left EXCEPT ![k] = seen[k] - sync])
        BY <1>4 DEF Compare
      <3>2. sync # None => seen[k] - sync \in Int
        BY DEF IInv, Typed
      <3>3. left' \in [Calls -> Int]
        BY <3>1, <3>2 DEF IInv, Typed
      <3>4. /\ pc' \in [Calls -> Places] /\ pc'[k] \in {"summing", "listing", "syncing"}
            /\ \A j \in Calls : j # k => pc'[j] = pc[j]
        BY <1>4 DEF IInv, Typed, Places, Compare, Goto
      <3>5. UNCHANGED <<users, theirs, mirror, seen, list, faults>>
        BY <1>4 DEF Compare
      <3> QED
        BY <3>3, <3>4, <3>5 DEF IInv, Typed, users, theirs, mirror
    <2>2. Alone'
      BY <1>1, <1>4 DEF IInv, Typed, Alone, Using, Fetched, Compare, At, Goto
    <2>3. Ordered'
      BY <1>1, <1>4, NoneAssumption
      DEF IInv, Typed, Ordered, Fetched, Reckoned, Using, Compare, At, Goto, mirror, users, theirs
    <2>4. Accounted'
      <3>1. /\ pc[k] = "comparing" /\ pc \in [Calls -> Places]
            /\ absorbed' = absorbed /\ sync' = sync /\ seen' = seen
        BY <1>4 DEF IInv, Typed, Compare, At, mirror
      <3>2. sync # None => absorbed <= sync - Before /\ sync <= seen[k]
        BY <1>1, <3>1 DEF IInv, Ordered, Accounted, Fetched, Reckoned, Using
      <3>3. CASE sync = None
        BY <1>1, <1>4, <3>1, <3>3 DEF IInv, Accounted, Reckoned, Fetched, Using, Compare, Goto
      <3>4. CASE sync # None /\ seen[k] > sync
        <4>1. pc' = [pc EXCEPT ![k] = "listing"] /\ left' = [left EXCEPT ![k] = seen[k] - sync]
          BY <1>4, <3>4 DEF Compare, Goto
        <4> QED
          BY <1>1, <3>1, <3>2, <3>4, <4>1, AmountsAssumption
          DEF IInv, Typed, Accounted, Reckoned, Fetched, Using
      <3>5. CASE sync # None /\ ~(seen[k] > sync)
        <4>1. pc' = [pc EXCEPT ![k] = "syncing"]
          BY <1>4, <3>5 DEF Compare, Goto
        <4> QED
          BY <1>1, <3>1, <3>2, <3>5, <4>1, AmountsAssumption
          DEF IInv, Typed, Accounted, Reckoned, Fetched, Using
      <3> QED
        BY <3>3, <3>4, <3>5
    <2> QED
      BY <2>1, <2>2, <2>3, <2>4 DEF IInv
  <1>5. CASE List(k)
    <2>1. Typed'
      BY <1>5 DEF IInv, Typed, Places, List, At, Goto, mirror, users, theirs
    <2>2. Alone'
      BY <1>1, <1>5 DEF IInv, Typed, Alone, Using, Fetched, List, At, Goto
    <2>3. Ordered'
      BY <1>1, <1>5, NoneAssumption
      DEF IInv, Typed, Ordered, Fetched, Reckoned, Using, List, At, Goto, mirror, users, theirs
    <2>4. Accounted'
      BY <1>1, <1>5, NoneAssumption
      DEF IInv, Typed, Ordered, Accounted, Fetched, Reckoned, Using, List, At, Goto, mirror, users, theirs
    <2> QED
      BY <2>1, <2>2, <2>3, <2>4 DEF IInv
  <1> QED
    BY <1>2, <1>3, <1>4, <1>5

\* A row absorbed takes its face value off what the read may absorb.
LEMMA AbsorbIInv ==
    ASSUME IInv, NEW k \in Calls, Absorb(k)
    PROVE  IInv'
  <1> DEFINE f == Face[Head(list[k])]
  <1>1. \A j \in Calls : j # k => pc[j] \notin Using
    BY OnlyOne DEF IInv, Absorb, At, Using, Fetched
  <1>2. f \in Nat /\ Tail(list[k]) \in Seq(Tickets)
    BY AmountsAssumption, TailTyped DEF IInv, Typed, Absorb
  <1>3. rows' \in Seq(Tickets) /\ absorbed' \in Nat /\ absorbed' <= absorbed + f
    BY TailTyped, DeleteTyped DEF IInv, Typed, Absorb
  <1>4. left' = [left EXCEPT ![k] = left[k] - f] /\ left[k] >= f
    BY DEF Absorb
  <1>5. Typed'
    <2>1. UNCHANGED <<pc, seen, consumed, sync, ticket, faults>>
      BY DEF Absorb, users, theirs
    <2>2. left' \in [Calls -> Int]
      <3> HIDE DEF f
      <3>1. left[k] - f \in Int
        BY <1>2 DEF IInv, Typed
      <3> QED
        BY <1>4, <3>1 DEF IInv, Typed
    <2>3. list' \in [Calls -> Seq(Tickets)]
      <3>1. list' = [list EXCEPT ![k] = Tail(list[k])]
        BY DEF Absorb
      <3> QED
        BY <1>2, <3>1 DEF IInv, Typed
    <2> QED
      BY <1>3, <2>1, <2>2, <2>3 DEF IInv, Typed
  <1>6. Alone' /\ Ordered'
    BY DEF IInv, Alone, Ordered, Absorb, users, theirs
  <1>7. Accounted'
    <2>1. /\ pc[k] = "absorbing" /\ pc' = pc /\ sync' = sync /\ seen' = seen
          /\ absorbed \in Nat /\ left[k] \in Int /\ seen[k] \in Nat /\ sync # None
          /\ left[k] >= 0 /\ absorbed + left[k] <= seen[k] - Before
      BY DEF IInv, Typed, Ordered, Accounted, Fetched, Reckoned, Using, Absorb, At
    <2>2. left'[k] = left[k] - f
      BY <1>4 DEF IInv, Typed
    <2>3. left'[k] >= 0 /\ absorbed' + left'[k] <= seen[k] - Before
      <3> HIDE DEF f
      <3>1. left[k] >= f
        BY <1>4
      <3> QED
        <4>1. /\ absorbed \in Nat /\ absorbed' \in Nat /\ f \in Nat /\ left[k] \in Int
              /\ seen[k] \in Nat /\ Before \in Nat
              /\ absorbed' <= absorbed + f /\ absorbed + left[k] <= seen[k] - Before
          BY <1>2, <1>3, <2>1, AmountsAssumption
        <4>2. left'[k] \in Int
          BY <2>2, <4>1
        <4> QED
          BY <2>2, <3>1, <4>1, <4>2, MovedAmount, Zenon
    <2> QED
      BY <1>1, <2>1, <2>3 DEF Accounted, Reckoned, Fetched, Using
  <1> QED
    BY <1>5, <1>6, <1>7 DEF IInv

LEMMA SettleIInv ==
    ASSUME IInv, NEW k \in Calls, Absorbed(k) \/ SetSync(k) \/ Show(k)
    PROVE  IInv'
  <1>1. \A j \in Calls : j # k => pc[j] \notin Using
    BY OnlyOne DEF IInv, Absorbed, SetSync, Show, At, Using, Fetched
  <1>2. CASE Absorbed(k)
    <2>1. Typed'
      BY <1>2 DEF IInv, Typed, Places, Absorbed, At, Goto, mirror, users, theirs
    <2>2. Alone'
      BY <1>1, <1>2 DEF IInv, Typed, Alone, Using, Fetched, Absorbed, At, Goto
    <2>3. Ordered'
      BY <1>1, <1>2, NoneAssumption
      DEF IInv, Typed, Ordered, Fetched, Reckoned, Using, Absorbed, At, Goto, mirror, users, theirs
    <2>4. Accounted'
      <3>1. /\ pc[k] = "absorbing" /\ pc' = [pc EXCEPT ![k] = "syncing"]
            /\ pc \in [Calls -> Places] /\ absorbed' = absorbed /\ sync' = sync
            /\ seen' = seen /\ left[k] >= 0 /\ absorbed + left[k] <= seen[k] - Before
            /\ sync # None
        BY <1>2 DEF IInv, Typed, Ordered, Accounted, Fetched, Reckoned, Using, Absorbed, At, Goto, mirror
      <3>2. absorbed <= seen[k] - Before
        BY <3>1, AmountsAssumption DEF IInv, Typed
      <3> QED
        BY <1>1, <3>1, <3>2 DEF Accounted, Reckoned, Fetched, Using
    <2> QED
      BY <2>1, <2>2, <2>3, <2>4 DEF IInv
  <1>3. CASE SetSync(k)
    <2>1. Typed'
      BY <1>3 DEF IInv, Typed, Places, SetSync, At, Goto, users, theirs, locals
    <2>2. Alone'
      BY <1>1, <1>3 DEF IInv, Typed, Alone, Using, Fetched, SetSync, At, Goto
    <2>3. Ordered'
      BY <1>1, <1>3, NoneAssumption
      DEF IInv, Typed, Ordered, Fetched, Reckoned, Using, SetSync, At, Goto, users, theirs, locals
    <2>4. Accounted'
      BY <1>1, <1>3, NoneAssumption
      DEF IInv, Typed, Ordered, Accounted, Fetched, Reckoned, Using, SetSync, At, Goto, users, theirs, locals
    <2> QED
      BY <2>1, <2>2, <2>3, <2>4 DEF IInv
  <1>4. CASE Show(k)
    <2>1. Typed'
      BY <1>4, NotAgedTyped DEF IInv, Typed, Places, Show, At, Goto, users, theirs
    <2>2. Alone'
      BY <1>1, <1>4 DEF IInv, Typed, Alone, Using, Fetched, Show, At, Goto
    <2>3. Ordered'
      BY <1>1, <1>4, NoneAssumption
      DEF IInv, Typed, Ordered, Fetched, Reckoned, Using, Show, At, Goto, users, theirs
    <2>4. Accounted'
      BY <1>1, <1>4, NoneAssumption
      DEF IInv, Typed, Ordered, Accounted, Fetched, Reckoned, Using, Show, At, Goto, users, theirs
    <2> QED
      BY <2>1, <2>2, <2>3, <2>4 DEF IInv
  <1> QED
    BY <1>2, <1>3, <1>4

\* PymtHouse only ever consumes more.
LEMMA OutsideIInv ==
    ASSUME IInv, (\E t \in Tickets : Meter(t)) \/ Age \/ UNCHANGED vars
    PROVE  IInv'
  <1>1. CASE \E t \in Tickets : Meter(t)
    <2> PICK t \in Tickets : Meter(t)
      BY <1>1
    <2>1. consumed' \in Nat /\ consumed' >= consumed
      BY AmountsAssumption DEF IInv, Typed, Meter
    <2>2. UNCHANGED <<users, mirror, locals, pc, faults>>
      BY DEF Meter
    <2>3. Typed' /\ Alone' /\ Accounted'
      BY <2>1, <2>2 DEF IInv, Typed, Alone, Accounted, users, mirror, locals
    <2>4. Ordered'
      BY <2>1, <2>2, AmountsAssumption DEF IInv, Typed, Ordered, Fetched, mirror, locals
    <2> QED
      BY <2>3, <2>4 DEF IInv
  <1>2. CASE Age
    BY <1>2 DEF IInv, Typed, Alone, Ordered, Accounted, Age, users, theirs, locals
  <1>3. CASE UNCHANGED vars
    BY <1>3 DEF IInv, Typed, Alone, Ordered, Accounted, vars, mirror, users, theirs, locals
  <1> QED
    BY <1>1, <1>2, <1>3

\* A step in which no call fails, and no two come to reconcile at a time.
LEMMA StepIInv == IInv /\ faults' = 0 /\ raced' = FALSE /\ [Next]_vars => IInv'
  <1> SUFFICES ASSUME IInv, faults' = 0, raced' = FALSE, [Next]_vars PROVE IInv'
    OBVIOUS
  <1>1. ASSUME NEW k \in Calls PROVE ~Faulty(k)
    BY DEF IInv, Typed, Faulty, FetchNothing, MirrorFails, Fail
  <1> QED
    BY <1>1, StartIInv, SeedIInv, WriteIInv, FetchIInv, AbsorbIInv, SettleIInv, OutsideIInv
    DEF Next, Work

\* Failures are only ever counted up.
LEMMA FaultsCounted == faults \in Nat /\ [Next]_vars => faults' \in Nat /\ faults' >= faults
  <1> SUFFICES ASSUME faults \in Nat, [Next]_vars PROVE faults' = faults \/ faults' = faults + 1
    OBVIOUS
  <1>1. ASSUME NEW k \in Calls, Work(k) PROVE faults' = faults
    BY <1>1 DEF Work, SeekSync, FetchSeed, Seed, Insert, RecordSpend, GetBalance, Prune,
      Compare, List, Absorb, Absorbed, SetSync, Show
  <1>2. ASSUME NEW k \in Calls, Faulty(k) PROVE faults' = faults + 1
    BY <1>2 DEF Faulty, FetchNothing, MirrorFails, Fail
  <1> QED
    BY <1>1, <1>2 DEF Next, Sign, Read, Meter, Age, vars

\* Once two calls have reconciled at a time, that stays so.
LEMMA RacedKept == raced \in BOOLEAN /\ [Next]_vars => raced' \in BOOLEAN /\ (raced => raced')
  <1> SUFFICES ASSUME raced \in BOOLEAN, [Next]_vars
               PROVE  raced' = raced \/ \E b \in BOOLEAN : raced' = (raced \/ b)
    BY Zenon
  <1>1. ASSUME NEW k \in Calls, Work(k)
        PROVE  raced' = raced \/ \E b \in BOOLEAN : raced' = (raced \/ b)
    <2>1. CASE SeekSync(k)
      <3>1. raced' = (raced \/ (sync = None /\ Rivals(k)))
        BY <2>1 DEF SeekSync
      <3>2. (sync = None /\ Rivals(k)) \in BOOLEAN
        BY DEF Rivals
      <3> QED
        BY <3>1, <3>2, Zenon
    <2>2. CASE GetBalance(k)
      <3>1. raced' = (raced \/ Rivals(k))
        BY <2>2 DEF GetBalance
      <3>2. Rivals(k) \in BOOLEAN
        BY DEF Rivals
      <3> QED
        BY <3>1, <3>2, Zenon
    <2>3. CASE ~SeekSync(k) /\ ~GetBalance(k)
      BY <1>1, <2>3 DEF Work, FetchSeed, Seed, Insert, RecordSpend, Prune, Compare, List,
        Absorb, Absorbed, SetSync, Show
    <2> QED
      BY <2>1, <2>2, <2>3
  <1>2. ASSUME NEW k \in Calls, Faulty(k) PROVE raced' = raced
    BY <1>2 DEF Faulty, FetchNothing, MirrorFails, Fail
  <1> QED
    BY <1>1, <1>2 DEF Next, Sign, Read, Meter, Age, vars

\* What holds until a call fails or two reconcile at a time.
UntilFault == faults \in Nat /\ raced \in BOOLEAN /\ (faults = 0 /\ ~raced => IInv)

LEMMA InitUntilFault == Init => UntilFault
  <1> SUFFICES ASSUME Init PROVE UntilFault
    OBVIOUS
  <1>1. faults = 0 /\ raced = FALSE
    BY DEF Init
  <1>2. faults \in Nat
    BY <1>1
  <1>3. raced \in BOOLEAN
    BY <1>1, Zenon
  <1> QED
    BY <1>2, <1>3, InitIInv DEF UntilFault

LEMMA UntilFaultKept == UntilFault /\ [Next]_vars => UntilFault'
  <1> SUFFICES ASSUME UntilFault, [Next]_vars PROVE UntilFault'
    OBVIOUS
  <1>1. faults' \in Nat /\ faults' >= faults /\ raced' \in BOOLEAN /\ (raced => raced')
    BY FaultsCounted, RacedKept DEF UntilFault
  <1>2. ASSUME faults' = 0, ~raced' PROVE IInv'
    <2>1. faults = 0 /\ ~raced /\ raced' = FALSE
      BY <1>1, <1>2 DEF UntilFault
    <2> QED
      BY <1>2, <2>1, StepIInv DEF UntilFault
  <1> QED
    BY <1>1, <1>2 DEF UntilFault

\* Whatever is signed, written and metered while a read is at it, rows are only
\* dropped for money that PymtHouse consumed since the user's first ticket, until
\* a call fails or two reconcile at a time.
THEOREM NothingForgotten == Spec => []AbsorbedWithinConsumed
  <1>1. IInv => AbsorbedWithinConsumed
    <2> SUFFICES ASSUME IInv PROVE absorbed <= consumed - Before
      BY DEF AbsorbedWithinConsumed
    <2>1. /\ absorbed \in Nat /\ consumed \in Nat /\ Before \in Nat /\ consumed >= Before
          /\ sync # None => sync \in Nat /\ sync <= consumed
      BY AmountsAssumption DEF IInv, Typed, Ordered
    <2>2. CASE \E k \in Calls : pc[k] \in Reckoned \cup {"syncing"}
      <3> PICK k \in Calls : pc[k] \in Reckoned \cup {"syncing"}
        BY <2>2
      <3>1. seen[k] \in Nat /\ left[k] \in Int /\ seen[k] <= consumed
        BY DEF IInv, Typed, Ordered, Fetched, Reckoned
      <3>2. \/ left[k] >= 0 /\ absorbed + left[k] <= seen[k] - Before
            \/ absorbed <= seen[k] - Before
        BY DEF IInv, Accounted
      <3> QED
        BY <2>1, <3>1, <3>2
    <2>3. CASE \A k \in Calls : pc[k] \notin Reckoned \cup {"syncing"}
      BY <2>1, <2>3 DEF IInv, Accounted
    <2> QED
      BY <2>2, <2>3
  <1>2. Init => UntilFault
    BY InitUntilFault
  <1>3. UntilFault /\ [Next]_vars => UntilFault'
    BY UntilFaultKept
  <1>4. UntilFault => AbsorbedWithinConsumed
    BY <1>1 DEF UntilFault, AbsorbedWithinConsumed
  <1> QED
    BY <1>2, <1>3, <1>4, PTL DEF Spec

-----------------------------------------------------------------------------
(* What a read shows.                                                          *)

\* The tickets of the spend history, and those that are about to be in it.
Listed == spent \cup {ticket[k] : k \in {j \in Calls : pc[j] = "spending"}}

\* Those of them that were dropped as metered: they have neither a row nor
\* reached their TTL.
Gone == Listed \ (aged \cup ToSet(rows))

\* A ticket has one row, and the rows past the TTL are the oldest.
Shelved ==
    /\ \A i, j \in 1..Len(rows) : rows[i] = rows[j] => i = j
    /\ \A i, j \in 1..Len(rows) : i < j /\ rows[j] \in aged => rows[i] \in aged

\* Whatever the history lists is in a row, aged, or absorbed.
Books ==
    /\ Listed \in SUBSET Tickets /\ IsFiniteSet(Listed)
    /\ Shelved
    /\ Total(Gone) <= absorbed

LEMMA ToSetFinite ==
    ASSUME NEW s \in Seq(Tickets)
    PROVE  /\ ToSet(s) \in SUBSET Tickets /\ IsFiniteSet(ToSet(s))
           /\ \A t : t \in ToSet(s) <=> \E i \in 1..Len(s) : t = s[i]
  <1>1. DOMAIN s = 1..Len(s) /\ s \in [1..Len(s) -> Tickets]
    OBVIOUS
  <1>2. ToSet(s) \in SUBSET Tickets /\ \A t : t \in ToSet(s) <=> \E i \in 1..Len(s) : t = s[i]
    BY <1>1 DEF ToSet
  <1>3. s \in Surjection(1..Len(s), ToSet(s))
    BY <1>1, <1>2 DEF Surjection
  <1>4. IsFiniteSet(1..Len(s))
    BY FS_Interval
  <1> QED
    BY <1>2, <1>3, <1>4, FS_Surjection

\* A set of indices that lacks none below its own is as long as it is large.
LEMMA PrefixIsCounted ==
    ASSUME NEW n \in Nat, NEW N \in SUBSET (1..n),
           \A i, j \in 1..n : i < j /\ j \in N => i \in N
    PROVE  Cardinality(N) \in 0..n /\ N = 1..Cardinality(N)
  <1> DEFINE M == (1..(n + 1)) \ N
  <1>1. M \subseteq Nat /\ M # {}
    <2>1. n + 1 \in M
      OBVIOUS
    <2> QED
      BY <2>1
  <1>2. PICK m \in M : \A i \in M : <<i, m>> \notin OpToRel(<, Nat)
    <2> HIDE DEF M
    <2> QED
      BY <1>1, NatLessThanWellFounded, WFMin
  <1>3. \A i \in M : ~(i < m)
    BY <1>1, <1>2 DEF OpToRel
  <1>4. m \in 1..(n + 1) /\ m \notin N /\ \A i \in 1..(m - 1) : i \in N
    BY <1>3
  <1> HIDE DEF M
  <1>5. ASSUME NEW i \in N PROVE i < m
    BY <1>4, <1>5
  <1>6. N = 1..(m - 1)
    <2>1. m \in Nat /\ \A i \in N : i \in Nat /\ 1 <= i
      BY <1>4
    <2>2. N \subseteq 1..(m - 1)
      BY <1>5, <2>1
    <2> QED
      BY <1>4, <2>2
  <1>7. Cardinality(1..(m - 1)) = m - 1
    BY <1>4, FS_Interval
  <1> QED
    BY <1>4, <1>6, <1>7

\* Pruning takes the aged rows, and no other.
LEMMA PrunedRows ==
    ASSUME Typed, Shelved
    PROVE  \E c \in 0..Len(rows) :
             /\ \A i \in 1..Len(rows) : rows[i] \in aged <=> i <= c
             /\ NotAged(rows) \in Seq(Tickets) /\ Len(NotAged(rows)) = Len(rows) - c
             /\ \A i \in 1..(Len(rows) - c) : NotAged(rows)[i] = rows[c + i]
  <1> DEFINE N == {i \in 1..Len(rows) : rows[i] \in aged}
             c == Cardinality(N)
  <1>1. rows \in Seq(Tickets) /\ Len(rows) \in Nat
    BY DEF Typed
  <1>2. c \in 0..Len(rows) /\ N = 1..c
    <2>1. N \in SUBSET (1..Len(rows)) /\ \A i, j \in 1..Len(rows) : i < j /\ j \in N => i \in N
      BY DEF Shelved
    <2> HIDE DEF N
    <2> QED
      BY <1>1, <2>1, PrefixIsCounted
  <1>3. \A i \in 1..Len(rows) : rows[i] \in aged <=> i <= c
    BY <1>1, <1>2
  <1>4. NotAged(rows) = SubSeq(rows, 1 + c, Len(rows))
    BY DEF NotAged
  <1> HIDE DEF c, N
  <1>5. \A i \in (1 + c)..Len(rows) : rows[i] \in Tickets
    BY <1>1, <1>2
  <1>6. /\ SubSeq(rows, 1 + c, Len(rows)) \in Seq(Tickets)
        /\ Len(SubSeq(rows, 1 + c, Len(rows))) = Len(rows) - c
        /\ \A i \in 1..(Len(rows) - c) : SubSeq(rows, 1 + c, Len(rows))[i] = rows[c + i]
    BY <1>1, <1>2, <1>5, SubSeqProperties
  <1> QED
    BY <1>2, <1>3, <1>4, <1>6

LEMMA RemovedRow ==
    ASSUME NEW s \in Seq(Tickets), NEW i \in 1..Len(s)
    PROVE  /\ Len(RemoveAt(s, i)) = Len(s) - 1
           /\ \A j \in 1..(Len(s) - 1) : RemoveAt(s, i)[j] = IF j < i THEN s[j] ELSE s[j + 1]
  <1>1. /\ SubSeq(s, 1, i - 1) \in Seq(Tickets) /\ Len(SubSeq(s, 1, i - 1)) = i - 1
        /\ \A j \in 1..(i - 1) : SubSeq(s, 1, i - 1)[j] = s[j]
    BY SubSeqProperties
  <1>2. /\ SubSeq(s, i + 1, Len(s)) \in Seq(Tickets)
        /\ Len(SubSeq(s, i + 1, Len(s))) = Len(s) - i
        /\ \A j \in 1..(Len(s) - i) : SubSeq(s, i + 1, Len(s))[j] = s[i + j]
    BY SubSeqProperties
  <1> DEFINE p == SubSeq(s, 1, i - 1)
             q == SubSeq(s, i + 1, Len(s))
  <1>3. RemoveAt(s, i) = p \o q
    BY DEF RemoveAt
  <1> HIDE DEF p, q
  <1>4. /\ Len(p \o q) = Len(p) + Len(q)
        /\ \A j \in 1..(Len(p) + Len(q)) :
             (p \o q)[j] = IF j <= Len(p) THEN p[j] ELSE q[j - Len(p)]
    BY <1>1, <1>2, ConcatProperties DEF p, q
  <1>5. Len(p) = i - 1 /\ Len(q) = Len(s) - i /\ Len(s) \in Nat
    BY <1>1, <1>2 DEF p, q
  <1>6. ASSUME NEW j \in 1..(Len(s) - 1)
        PROVE  RemoveAt(s, i)[j] = IF j < i THEN s[j] ELSE s[j + 1]
    <2>1. CASE j < i
      BY <1>1, <1>3, <1>4, <1>5, <2>1 DEF p
    <2>2. CASE ~(j < i)
      <3>1. (p \o q)[j] = q[j - (i - 1)]
        BY <1>4, <1>5, <2>2
      <3>2. j - (i - 1) \in 1..(Len(s) - i) /\ i + (j - (i - 1)) = j + 1
        BY <1>5, <2>2
      <3>3. q[j - (i - 1)] = s[i + (j - (i - 1))]
        BY <1>2, <3>2 DEF q
      <3> QED
        BY <1>3, <2>2, <3>1, <3>2, <3>3
    <2> QED
      BY <2>1, <2>2
  <1> QED
    BY <1>3, <1>4, <1>5, <1>6

\* Steps that touch neither the rows nor the history.
LEMMA QuietBooks ==
    ASSUME Books, UNCHANGED <<rows, aged, spent, absorbed>>,
           \A k \in Calls : /\ pc'[k] = "spending" <=> pc[k] = "spending"
                            /\ pc[k] = "spending" => ticket'[k] = ticket[k]
    PROVE  Books'
  <1>1. Listed' = Listed
    BY DEF Listed
  <1>2. Gone' = Gone
    BY <1>1 DEF Gone
  <1>3. Total(Gone)' = Total(Gone)
    BY <1>2 DEF Total
  <1> QED
    BY <1>1, <1>3 DEF Books, Shelved

\* Dropped tickets amount to no more when there are fewer of them.
LEMMA FewerGone ==
    ASSUME Books, NEW S \in SUBSET Gone, IInv
    PROVE  Total(S) <= absorbed
  <1>1. Gone \in SUBSET Tickets /\ IsFiniteSet(Gone) /\ S \in SUBSET Tickets /\ IsFiniteSet(S)
    BY FS_Subset DEF Books, Gone
  <1>2. Total(S) <= Total(Gone) /\ Total(S) \in Nat /\ Total(Gone) \in Nat
    BY <1>1, TotalMonotone, TotalStep
  <1> QED
    BY <1>2 DEF Books, IInv, Typed

LEMMA InsertBooks ==
    ASSUME IInv, Books, NEW k \in Calls, Insert(k)
    PROVE  Books'
  <1> DEFINE t == ticket[k]
  <1>1. /\ t \in Tickets /\ pc[k] = "inserting" /\ pc' = [pc EXCEPT ![k] = "spending"]
        /\ UNCHANGED <<spent, absorbed, ticket>> /\ rows \in Seq(Tickets)
        /\ pc \in [Calls -> Places]
    BY DEF IInv, Typed, Insert, At, Goto, users
  <1>4. Listed' = Listed \cup {t}
    BY <1>1 DEF Listed
  <1>5. Listed' \in SUBSET Tickets /\ IsFiniteSet(Listed')
    BY <1>1, <1>4, FS_AddElement DEF Books
  <1>2. CASE t \in ToSet(rows)
    <2>1. UNCHANGED <<rows, aged>>
      BY <1>2 DEF Insert
    <2>2. Gone' \subseteq Gone
      BY <1>2, <1>4, <2>1 DEF Gone
    <2>3. Total(Gone') <= absorbed
      BY <2>2, FewerGone
    <2>4. (Total(Gone))' = Total(Gone')
      BY DEF Total
    <2> QED
      BY <1>1, <1>5, <2>1, <2>3, <2>4 DEF Books, Shelved
  <1>3. CASE t \notin ToSet(rows)
    <2> DEFINE new == Append(rows, t)
    <2>1. rows' = new /\ aged' = aged \ {t}
      BY <1>3 DEF Insert
    <2> HIDE DEF t
    <2>2. /\ new \in Seq(Tickets) /\ Len(new) = Len(rows) + 1 /\ new[Len(rows) + 1] = t
          /\ \A i \in 1..Len(rows) : new[i] = rows[i]
          /\ Len(rows) \in Nat
      BY <1>1
    <2> HIDE DEF new
    <2>3. \A i \in 1..Len(rows) : rows[i] # t
      BY <1>1, <1>3, ToSetFinite
    <2>4. Shelved'
      <3>1. \A i, j \in 1..Len(new) : new[i] = new[j] => i = j
        BY <2>2, <2>3 DEF Books, Shelved
      <3>2. \A i, j \in 1..Len(new) : i < j /\ new[j] \in aged \ {t} => new[i] \in aged \ {t}
        <4> SUFFICES ASSUME NEW i \in 1..Len(new), NEW j \in 1..Len(new), i < j,
                            new[j] \in aged \ {t}
                     PROVE  new[i] \in aged \ {t}
          OBVIOUS
        <4>1. j # Len(rows) + 1
          BY <2>2
        <4>2. i \in 1..Len(rows) /\ j \in 1..Len(rows)
          BY <2>2, <4>1
        <4> QED
          BY <2>2, <2>3, <4>2 DEF Books, Shelved
      <3> QED
        BY <2>1, <3>1, <3>2 DEF Shelved
    <2>5. ToSet(rows') = ToSet(rows) \cup {t}
      <3>1. ASSUME NEW x PROVE x \in ToSet(new) <=> x \in ToSet(rows) \/ x = t
        <4>1. x \in ToSet(new) <=> \E i \in 1..Len(new) : x = new[i]
          BY <2>2, ToSetFinite
        <4>2. x \in ToSet(rows) <=> \E i \in 1..Len(rows) : x = rows[i]
          BY <1>1, ToSetFinite
        <4>3. (\E i \in 1..Len(new) : x = new[i]) <=>
                (\E i \in 1..Len(rows) : x = rows[i]) \/ x = t
          BY <2>2
        <4> QED
          BY <4>1, <4>2, <4>3
      <3> QED
        BY <2>1, <3>1
    <2>6. Gone' \subseteq Gone
      BY <1>4, <2>1, <2>5 DEF Gone, t
    <2>7. Total(Gone') <= absorbed
      BY <2>6, FewerGone
    <2>8. (Total(Gone))' = Total(Gone')
      BY DEF Total
    <2> QED
      BY <1>1, <1>5, <2>4, <2>7, <2>8 DEF Books
  <1> QED
    BY <1>2, <1>3

\* What is written in the history was about to be.
LEMMA SpendBooks ==
    ASSUME IInv, Books, NEW k \in Calls, RecordSpend(k)
    PROVE  Books'
  <1>1. /\ pc[k] = "spending" /\ pc' = [pc EXCEPT ![k] = "idle"]
        /\ ticket' = [ticket EXCEPT ![k] = None]
        /\ UNCHANGED <<rows, aged, absorbed>> /\ spent' = spent \cup {ticket[k]}
        /\ pc \in [Calls -> Places] /\ ticket \in [Calls -> Tickets \cup {None}]
    BY DEF IInv, Typed, RecordSpend, At, Goto, mirror
  <1>2. \A j \in Calls : /\ pc'[j] = "spending" <=> pc[j] = "spending" /\ j # k
                         /\ j # k => ticket'[j] = ticket[j]
    BY <1>1
  <1>3. Listed' = Listed
    BY <1>1, <1>2 DEF Listed
  <1>4. Gone' = Gone
    BY <1>1, <1>3 DEF Gone
  <1>5. Shelved'
    BY <1>1 DEF Books, Shelved
  <1>6. Total(Gone)' = Total(Gone)
    BY <1>4 DEF Total
  <1> QED
    BY <1>1, <1>3, <1>5, <1>6 DEF Books

\* The rows that are left are those that are not aged.
LEMMA PrunedToSet ==
    ASSUME Typed, Shelved
    PROVE  ToSet(NotAged(rows)) = ToSet(rows) \ aged
  <1>1. PICK c \in 0..Len(rows) :
          /\ \A i \in 1..Len(rows) : rows[i] \in aged <=> i <= c
          /\ NotAged(rows) \in Seq(Tickets) /\ Len(NotAged(rows)) = Len(rows) - c
          /\ \A i \in 1..(Len(rows) - c) : NotAged(rows)[i] = rows[c + i]
    BY PrunedRows
  <1>2. rows \in Seq(Tickets) /\ Len(rows) \in Nat
    BY DEF Typed
  <1>3. ASSUME NEW x PROVE x \in ToSet(NotAged(rows)) <=> x \in ToSet(rows) /\ x \notin aged
    <2>1. x \in ToSet(NotAged(rows)) <=> \E i \in 1..(Len(rows) - c) : x = NotAged(rows)[i]
      BY <1>1, ToSetFinite
    <2>2. x \in ToSet(rows) <=> \E i \in 1..Len(rows) : x = rows[i]
      BY <1>2, ToSetFinite
    <2>3. ASSUME NEW i \in 1..(Len(rows) - c), x = NotAged(rows)[i]
          PROVE  x \in ToSet(rows) /\ x \notin aged
      <3>1. c + i \in 1..Len(rows) /\ ~(c + i <= c) /\ x = rows[c + i]
        BY <1>1, <1>2, <2>3
      <3> QED
        BY <1>1, <2>2, <3>1
    <2>4. ASSUME NEW i \in 1..Len(rows), x = rows[i], x \notin aged
          PROVE  x \in ToSet(NotAged(rows))
      <3>1. i - c \in 1..(Len(rows) - c) /\ c + (i - c) = i
        BY <1>1, <1>2, <2>4
      <3>2. x = NotAged(rows)[i - c]
        BY <1>1, <2>4, <3>1
      <3> QED
        BY <2>1, <3>1, <3>2
    <2> QED
      BY <2>1, <2>2, <2>3, <2>4
  <1> QED
    BY <1>3

LEMMA PruneBooks ==
    ASSUME IInv, Books, NEW k \in Calls, Prune(k) \/ Show(k)
    PROVE  Books'
  <1>1. /\ rows' = NotAged(rows) /\ UNCHANGED <<aged, absorbed, spent, ticket>>
        /\ \A j \in Calls : pc'[j] = "spending" <=> pc[j] = "spending"
    BY DEF IInv, Typed, Prune, Show, At, Goto, users
  <1>5. Listed' = Listed
    BY <1>1 DEF Listed
  <1>2. Gone' = Gone
    BY <1>1, <1>5, PrunedToSet DEF IInv, Books, Gone
  <1>3. Shelved'
    <2>1. PICK c \in 0..Len(rows) :
            /\ \A i \in 1..Len(rows) : rows[i] \in aged <=> i <= c
            /\ NotAged(rows) \in Seq(Tickets) /\ Len(NotAged(rows)) = Len(rows) - c
            /\ \A i \in 1..(Len(rows) - c) : NotAged(rows)[i] = rows[c + i]
      BY PrunedRows DEF IInv, Books
    <2>2. \A i \in 1..(Len(rows) - c) : c + i \in 1..Len(rows) /\ ~(c + i <= c)
      BY <2>1
    <2>3. \A i \in 1..Len(rows') : /\ i \in 1..(Len(rows) - c) /\ rows'[i] = rows[c + i]
                                   /\ rows'[i] \notin aged'
      BY <1>1, <2>1, <2>2
    <2>4. \A i, j \in 1..Len(rows') : rows'[i] = rows'[j] => i = j
      <3> SUFFICES ASSUME NEW i \in 1..Len(rows'), NEW j \in 1..Len(rows'), rows'[i] = rows'[j]
                   PROVE  i = j
        OBVIOUS
      <3>1. c + i = c + j
        BY <2>2, <2>3 DEF Books, Shelved
      <3> QED
        BY <2>3, <3>1
    <2> QED
      BY <2>3, <2>4 DEF Shelved
  <1>4. Total(Gone)' = Total(Gone)
    BY <1>2 DEF Total
  <1> QED
    BY <1>1, <1>3, <1>4, <1>5 DEF Books

\* A row that is absorbed adds its face value to what was absorbed.
LEMMA AbsorbBooks ==
    ASSUME IInv, Books, NEW k \in Calls, Absorb(k)
    PROVE  Books'
  <1> DEFINE t == Head(list[k])
  <1>1. t \in Tickets /\ Delete(t) /\ UNCHANGED <<aged, spent, ticket, pc>>
    BY TailTyped DEF IInv, Typed, Absorb, At, users
  <1>4. Listed' = Listed
    BY <1>1 DEF Listed
  <1>2. CASE UNCHANGED <<rows, absorbed>>
    BY <1>1, <1>2, QuietBooks
  <1>3. CASE \E i \in 1..Len(rows) :
               rows[i] = t /\ rows' = RemoveAt(rows, i) /\ absorbed' = absorbed + Face[t]
    <2> HIDE DEF t
    <2> PICK i \in 1..Len(rows) :
               rows[i] = t /\ rows' = RemoveAt(rows, i) /\ absorbed' = absorbed + Face[t]
      BY <1>3
    <2>1. rows \in Seq(Tickets) /\ Len(rows) \in Nat /\ rows' \in Seq(Tickets)
      BY RemoveAtTyped DEF IInv, Typed
    <2>2. /\ Len(rows') = Len(rows) - 1
          /\ \A j \in 1..(Len(rows) - 1) : rows'[j] = IF j < i THEN rows[j] ELSE rows[j + 1]
      BY <2>1, RemovedRow
    <2>3. Shelved'
      <3> DEFINE at(j) == IF j < i THEN j ELSE j + 1
      <3>1. \A j \in 1..Len(rows') : at(j) \in 1..Len(rows) /\ rows'[j] = rows[at(j)]
        BY <2>1, <2>2
      <3>2. \A j, l \in 1..Len(rows') : /\ at(j) = at(l) => j = l
                                        /\ j < l => at(j) < at(l)
        BY <2>1, <2>2
      <3> HIDE DEF at
      <3>3. /\ \A j, l \in 1..Len(rows) : rows[j] = rows[l] => j = l
            /\ \A j, l \in 1..Len(rows) : j < l /\ rows[l] \in aged => rows[j] \in aged
        BY DEF Books, Shelved
      <3>4. \A j, l \in 1..Len(rows') : rows'[j] = rows'[l] => j = l
        <4> SUFFICES ASSUME NEW j \in 1..Len(rows'), NEW l \in 1..Len(rows'),
                            rows'[j] = rows'[l]
                     PROVE  j = l
          OBVIOUS
        <4>1. rows[at(j)] = rows[at(l)] /\ at(j) \in 1..Len(rows) /\ at(l) \in 1..Len(rows)
          BY <3>1
        <4>2. at(j) = at(l)
          BY <3>3, <4>1
        <4> QED
          BY <3>2, <4>2
      <3>5. \A j, l \in 1..Len(rows') : j < l /\ rows'[l] \in aged => rows'[j] \in aged
        <4> SUFFICES ASSUME NEW j \in 1..Len(rows'), NEW l \in 1..Len(rows'), j < l,
                            rows'[l] \in aged
                     PROVE  rows'[j] \in aged
          OBVIOUS
        <4>1. at(j) < at(l) /\ at(j) \in 1..Len(rows) /\ at(l) \in 1..Len(rows)
          BY <3>1, <3>2
        <4>2. rows[at(l)] \in aged /\ rows'[j] = rows[at(j)]
          BY <3>1
        <4> QED
          BY <3>3, <4>1, <4>2
      <3> QED
        BY <1>1, <3>4, <3>5 DEF Shelved
    <2>4. ToSet(rows) \ {t} \subseteq ToSet(rows')
      <3> SUFFICES ASSUME NEW x \in ToSet(rows), x # t PROVE x \in ToSet(rows')
        OBVIOUS
      <3>1. PICK j \in 1..Len(rows) : x = rows[j]
        BY <2>1, ToSetFinite
      <3>2. CASE j < i
        <4>1. j \in 1..Len(rows') /\ x = rows'[j]
          BY <2>1, <2>2, <3>1, <3>2
        <4> QED
          BY <2>1, <4>1, ToSetFinite
      <3>3. CASE j > i
        <4>1. j - 1 \in 1..Len(rows') /\ ~(j - 1 < i) /\ (j - 1) + 1 = j
          BY <2>1, <2>2, <3>3
        <4>2. x = rows'[j - 1]
          BY <2>2, <3>1, <4>1
        <4> QED
          BY <2>1, <4>1, <4>2, ToSetFinite
      <3> QED
        BY <3>1, <3>2, <3>3
    <2>5. Total(Gone') <= absorbed'
      <3>1. Gone' \subseteq Gone \cup {t}
        BY <1>1, <1>4, <2>4 DEF Gone
      <3>2. /\ Gone \in SUBSET Tickets /\ IsFiniteSet(Gone)
            /\ {t} \in SUBSET Tickets /\ IsFiniteSet({t})
            /\ Gone \cup {t} \in SUBSET Tickets /\ IsFiniteSet(Gone \cup {t})
            /\ Gone' \in SUBSET Tickets /\ IsFiniteSet(Gone')
        <4>1. Gone \in SUBSET Tickets /\ IsFiniteSet(Gone)
          BY FS_Subset DEF Books, Gone
        <4>2. IsFiniteSet({t}) /\ IsFiniteSet(Gone \cup {t})
          BY <4>1, FS_Singleton, FS_AddElement
        <4>3. Gone' \in SUBSET (Gone \cup {t})
          BY <3>1
        <4>4. IsFiniteSet(Gone')
          BY <4>2, <4>3, FS_Subset
        <4> QED
          BY <1>1, <4>1, <4>2, <4>3, <4>4
      <3>3. Total({t}) = Face[t]
        <4>1. Total({t}) = Face[t] + Total({t} \ {t})
          BY <3>2, TotalStep
        <4>2. {t} \ {t} = {} /\ Face[t] \in Nat
          BY <1>1, AmountsAssumption
        <4>3. Total({t} \ {t}) = 0
          BY <4>2, TotalEmpty
        <4> QED
          BY <4>1, <4>2, <4>3
      <3>4. Total(Gone') <= Total(Gone \cup {t})
        BY <3>1, <3>2, TotalMonotone
      <3>5. Total(Gone \cup {t}) <= Total(Gone) + Total({t})
        BY <3>2, TotalUnion
      <3>6. /\ Total(Gone) \in Nat /\ Total(Gone') \in Nat /\ Total(Gone \cup {t}) \in Nat
            /\ Face[t] \in Nat /\ absorbed \in Nat /\ Total(Gone) <= absorbed
        BY <1>1, <3>2, TotalStep, AmountsAssumption DEF Books, IInv, Typed
      <3> QED
        BY <3>3, <3>4, <3>5, <3>6
    <2>6. Total(Gone)' = Total(Gone')
      BY DEF Total
    <2> QED
      BY <1>4, <2>3, <2>5, <2>6 DEF Books
  <1> QED
    BY <1>1, <1>2, <1>3 DEF Delete

\* The next row to age is the first that has not.
LEMMA AgeBooks ==
    ASSUME IInv, Books, Age
    PROVE  Books'
  <1>1. PICK c \in 0..Len(rows) :
          /\ \A i \in 1..Len(rows) : rows[i] \in aged <=> i <= c
          /\ NotAged(rows) \in Seq(Tickets) /\ Len(NotAged(rows)) = Len(rows) - c
          /\ \A i \in 1..(Len(rows) - c) : NotAged(rows)[i] = rows[c + i]
    BY PrunedRows DEF IInv, Books
  <1>2. /\ NotAged(rows) # <<>> /\ aged' = aged \cup {Head(NotAged(rows))}
        /\ UNCHANGED <<rows, absorbed, spent, ticket, pc>> /\ Len(rows) \in Nat
    BY DEF Age, users, IInv, Typed
  <1>3. Len(rows) - c >= 1 /\ Head(NotAged(rows)) = rows[c + 1] /\ c + 1 \in 1..Len(rows)
    BY <1>1, <1>2
  <1>4. \A i \in 1..Len(rows) : rows[i] \in aged' <=> i <= c + 1
    BY <1>1, <1>2, <1>3 DEF Books, Shelved
  <1>5. Shelved'
    BY <1>2, <1>4 DEF Books, Shelved
  <1>9. Listed' = Listed
    BY <1>2 DEF Listed
  <1>6. Gone' \subseteq Gone
    BY <1>2, <1>9 DEF Gone
  <1>7. Total(Gone') <= absorbed
    BY <1>6, FewerGone
  <1>8. Total(Gone)' = Total(Gone')
    BY DEF Total
  <1> QED
    BY <1>2, <1>5, <1>7, <1>8, <1>9 DEF Books

LEMMA StepBooks ==
    ASSUME IInv, Books, faults' = 0, [Next]_vars
    PROVE  Books'
  <1>1. ASSUME NEW k \in Calls PROVE ~Faulty(k)
    BY DEF IInv, Typed, Faulty, FetchNothing, MirrorFails, Fail
  <1>2. ASSUME NEW k \in Calls, NEW t \in Tickets, Sign(k, t) PROVE Books'
    BY <1>2, QuietBooks DEF IInv, Typed, At, Sign, Goto, mirror
  <1>3. ASSUME NEW k \in Calls, Read(k) PROVE Books'
    BY <1>3, QuietBooks DEF IInv, Typed, At, Read, Goto, mirror, users
  <1>4. ASSUME NEW k \in Calls, SeekSync(k) \/ FetchSeed(k) \/ Seed(k) PROVE Books'
    BY <1>4, QuietBooks DEF IInv, Typed, At, SeekSync, FetchSeed, Seed, Goto, mirror, users
  <1>5. ASSUME NEW k \in Calls, GetBalance(k) \/ Compare(k) \/ List(k) PROVE Books'
    BY <1>5, QuietBooks DEF IInv, Typed, At, GetBalance, Compare, List, Goto, mirror, users
  <1>6. ASSUME NEW k \in Calls, Absorbed(k) \/ SetSync(k) PROVE Books'
    BY <1>6, QuietBooks DEF IInv, Typed, At, Absorbed, SetSync, Goto, mirror, users
  <1>7. ASSUME NEW t \in Tickets, Meter(t) PROVE Books'
    BY <1>7, QuietBooks DEF Meter, mirror, users
  <1>8. CASE UNCHANGED vars
    BY <1>8, QuietBooks DEF vars, mirror, users
  <1> QED
    BY <1>1, <1>2, <1>3, <1>4, <1>5, <1>6, <1>7, <1>8,
       InsertBooks, SpendBooks, PruneBooks, AbsorbBooks, AgeBooks
    DEF Next, Work

\* What the history lists and no row stands for was consumed by the time a
\* read has fetched PymtHouse's balance.
LEMMA ShownIsCovered ==
    ASSUME IInv, Books, NEW k \in Calls, Show(k)
    PROVE  Net <= Grant - Before - Total(spent \ aged)
  <1>1. /\ pc[k] = "summing" /\ rows' = NotAged(rows)
        /\ shown' = [authority |-> Grant - seen[k], pending |-> Total(ToSet(rows'))]
    BY DEF Show, At
  <1>2. Net = (Grant - seen[k]) - Total(ToSet(NotAged(rows)))
    BY <1>1 DEF Net
  <1> DEFINE kept == ToSet(NotAged(rows))
  <1>3. kept = ToSet(rows) \ aged
    BY PrunedToSet DEF IInv, Books
  <1>4. /\ kept \in SUBSET Tickets /\ IsFiniteSet(kept)
        /\ Gone \in SUBSET Tickets /\ IsFiniteSet(Gone)
        /\ spent \ aged \in SUBSET (Gone \cup kept) /\ spent \subseteq Listed
    <2>1. ToSet(rows) \in SUBSET Tickets /\ IsFiniteSet(ToSet(rows))
      BY ToSetFinite DEF IInv, Typed
    <2> QED
      BY <1>3, <2>1, FS_Subset DEF Books, Gone, Listed
  <1> HIDE DEF kept
  <1>5. Total(spent \ aged) <= Total(Gone) + Total(kept)
    <2>1. Gone \cup kept \in SUBSET Tickets /\ IsFiniteSet(Gone \cup kept)
      BY <1>4, FS_Union
    <2>2. spent \ aged \in SUBSET Tickets /\ IsFiniteSet(spent \ aged)
      BY <1>4, <2>1, FS_Subset
    <2>3. Total(spent \ aged) <= Total(Gone \cup kept)
      BY <1>4, <2>1, TotalMonotone
    <2>4. Total(Gone \cup kept) <= Total(Gone) + Total(kept)
      BY <1>4, TotalUnion
    <2>5. /\ Total(spent \ aged) \in Nat /\ Total(Gone \cup kept) \in Nat
          /\ Total(Gone) \in Nat /\ Total(kept) \in Nat
      BY <1>4, <2>1, <2>2, TotalStep
    <2> QED
      BY <2>3, <2>4, <2>5
  <1>6. absorbed <= seen[k] - Before
    <2>1. \A j \in Calls : pc[j] \notin Reckoned \cup {"syncing"}
      BY <1>1, OnlyOne DEF IInv, Using, Fetched, Reckoned
    <2>2. /\ Before <= seen[k]
          /\ sync # None => Before <= sync /\ sync <= seen[k]
      BY <1>1 DEF IInv, Ordered, Fetched
    <2>3. /\ sync = None => absorbed = 0
          /\ sync # None => absorbed <= sync - Before
      BY <2>1 DEF IInv, Accounted
    <2>4. /\ absorbed \in Nat /\ seen[k] \in Nat /\ Before \in Nat
          /\ sync # None => sync \in Nat
      BY AmountsAssumption DEF IInv, Typed
    <2>5. CASE sync = None
      BY <2>2, <2>3, <2>4, <2>5
    <2>6. CASE sync # None
      BY <2>2, <2>3, <2>4, <2>6
    <2> QED
      BY <2>5, <2>6
  <1>7. /\ Total(spent \ aged) \in Nat /\ Total(Gone) \in Nat /\ Total(kept) \in Nat
        /\ Total(Gone) <= absorbed
    <2>1. spent \ aged \in SUBSET Tickets /\ IsFiniteSet(spent \ aged)
      BY <1>4, FS_Subset DEF Books
    <2> QED
      BY <1>4, <2>1, TotalStep DEF Books
  <1>8. absorbed \in Nat /\ seen[k] \in Nat /\ Grant \in Nat /\ Before \in Nat
    BY AmountsAssumption DEF IInv, Typed
  <1> QED
    BY <1>2, <1>5, <1>6, <1>7, <1>8 DEF kept

\* Until a call fails or two reconcile at a time, a read never shows more than
\* the grant less the tickets of the spend history, rows past the TTL apart,
\* whatever is signed, written and metered while it is at it.
THEOREM NeverShownTooMuch == Spec => NeverOvershown
  <1> DEFINE Inv == UntilFault /\ (faults = 0 /\ ~raced => Books)
             A == \A k \in Reads :
                    Show(k) /\ faults = 0 /\ ~raced =>
                      Net <= Grant - Before - Total(spent \ aged)
  <1>1. Init => Inv
    <2> SUFFICES ASSUME Init PROVE Inv
      OBVIOUS
    <2>1. UntilFault
      BY InitUntilFault
    <2>2. Shelved /\ Listed = {}
      BY DEF Init, Shelved, Listed
    <2>3. Gone = {} /\ absorbed = 0
      BY <2>2 DEF Init, Gone
    <2>4. Total(Gone) <= absorbed
      BY <2>3, TotalEmpty
    <2> QED
      BY <2>1, <2>2, <2>4, FS_EmptySet DEF Books
  <1>2. Inv /\ [Next]_vars => Inv'
    <2> SUFFICES ASSUME Inv, [Next]_vars PROVE Inv'
      OBVIOUS
    <2>1. UntilFault'
      BY UntilFaultKept
    <2>2. ASSUME faults' = 0, ~raced' PROVE Books'
      <3>1. faults = 0 /\ ~raced
        BY <2>2, FaultsCounted, RacedKept DEF UntilFault
      <3> QED
        BY <2>2, <3>1, StepBooks DEF UntilFault
    <2> QED
      BY <2>1, <2>2
  <1>3. Inv => A
    BY ShownIsCovered DEF UntilFault, Calls
  <1>4. NeverOvershown <=> [][A]_vars
    BY DEF NeverOvershown
  <1> HIDE DEF A, Inv
  <1> QED
    BY <1>1, <1>2, <1>3, <1>4, PTL DEF Spec
=============================================================================
