----------------------- MODULE DirectTransportProofs ------------------------
(***************************************************************************)
(* Proofs about the direct transport, for every set of calls and keys and  *)
(* every number of retries: its types, that paid work is paid by its own   *)
(* ticket, that an analysis is paid once, and that the transport           *)
(* implements EarnedAnswers.                                               *)
(***************************************************************************)
EXTENDS DirectTransportProps, TLAPS

\* The ticket of an attempt, from the challenge to the paid POST.
AttemptOK ==
  \A c \in Calls :
    /\ step[c] \in {"probe", "challenge"} => expects[c] = None /\ manifest[c].by = "browser"
    /\ step[c] \in {"probe", "challenge", "sign"} =>
         /\ manifest[c] \in Manifest /\ manifest[c].call = c /\ manifest[c].try = retries[c]
         /\ manifest[c] = expects[c] \/ (expects[c] = None /\ manifest[c].by = "browser")
    /\ step[c] \in {"idle", "look", "shared", "address", "probe", "challenge", "sign", "wait"} =>
         tickets[c] <= retries[c]

\* Whoever looks something up or shares a promise has a key.
KeysOK == \A c \in Calls : step[c] \in {"look", "shared"} => Key(c) # None

\* What is remembered, in memory and on disk, is finished work on its key.
MemoryOK ==
  \A k \in Keys :
    /\ cache[k] # None => job[cache[k]] = "finished" /\ Key(cache[k]) = k
    /\ disk[k] # None => job[disk[k]] = "finished" /\ Key(disk[k]) = k

\* Only calls that are over have an answer.
PendingOK == \A c \in Calls : step[c] # "over" => answer[c] = "pending"

IInv ==
  TypeOK /\ AttemptOK /\ TicketsFit /\ KeysOK /\ PaidOnce /\ MemoryOK /\ PendingOK

(* What a step of the transport is to a caller.                             *)
Mapped == [Promise!Next]_(Promise!vars)

LEMMA InitIInv == Init => IInv
  BY PagesAreCalls, BoundsAreNaturals
  DEF Init, IInv, TypeOK, AttemptOK, TicketsFit, KeysOK, PaidOnce, MemoryOK, PendingOK,
      Steps, Jobs, Running, Key, Asks

LEMMA InitMapped == Init => Promise!Init
  BY DEF Init, Promise!Init

\* Two calls that run for one key are one call.
LEMMA OneRuns ==
  ASSUME IInv, NEW c \in Calls, NEW d \in Calls, step[c] \in Running, step[d] \in Running,
         Key(c) # None, Key(c) = Key(d)
  PROVE  c = d
  BY DEF IInv, PaidOnce

-----------------------------------------------------------------------------
(* A call that runs is settled, and with it those that share its promise.   *)

LEMMA FinishIInv ==
  ASSUME IInv, NEW c \in Calls, step[c] \in Running,
         NEW v, v = "error" \/ (v = c /\ job[c] = "finished"),
         Finish(c, v), cancelled' \in [Calls -> BOOLEAN], UNCHANGED job,
         \/ UNCHANGED tickets
         \/ step[c] = "sign" /\ tickets' = [tickets EXCEPT ![c] = @ + 1]
  PROVE  IInv'
  <1> DEFINE ends == {c} \cup Sharing(c)
  <1>1. /\ ends \subseteq Calls /\ c \in ends
        /\ \A d \in ends \ {c} : step[d] = "shared" /\ Key(d) = Key(c) /\ Key(c) # None
        /\ \A d \in Calls : step'[d] = IF d \in ends THEN "over" ELSE step[d]
        /\ \A d \in Calls : answer'[d] = IF d \in ends THEN v ELSE answer[d]
        /\ ask' = ask /\ retries' = retries /\ job' = job /\ disk' = disk
        /\ \A d \in Calls : Key(d)' = Key(d) /\ Key(d) \in Keys \cup {None}
    BY PagesAreCalls DEF Finish, Sharing, Key, IInv, TypeOK, Asks
  <1>2. v \in {"error"} \cup Calls
    OBVIOUS
  <1>3. TypeOK'
    <2>1. step' \in [Calls -> Steps] /\ answer' \in [Calls -> {"pending", "error", "gone"} \cup Calls]
      BY <1>2 DEF Finish, IInv, TypeOK, Steps
    <2>2. cache' \in [Keys -> Calls \cup {None}] /\ inFlight' \in [Keys -> Calls \cup {None}]
      BY DEF Finish, Remembered, IInv, TypeOK
    <2>3. tickets' \in [Calls -> Nat]
      BY DEF IInv, TypeOK
    <2> QED
      BY <2>1, <2>2, <2>3 DEF Finish, IInv, TypeOK
  <1>4. \A d \in Calls : d # c => tickets'[d] = tickets[d] /\ expects'[d] = expects[d]
                                  /\ manifest'[d] = manifest[d] /\ ticket'[d] = ticket[d]
    BY DEF Finish, IInv, TypeOK
  <1>5. tickets'[c] <= retries[c] + 1
    BY BoundsAreNaturals DEF IInv, TypeOK, TicketsFit, AttemptOK
  <1>6. AttemptOK' /\ TicketsFit'
    <2> SUFFICES ASSUME NEW d \in Calls
                 PROVE  AttemptOK!(d)' /\ TicketsFit!(d)'
      BY DEF AttemptOK, TicketsFit
    <2>1. CASE d = c
      BY <2>1, <1>1, <1>5 DEF IInv, TypeOK, AttemptOK, TicketsFit
    <2>2. CASE d # c
      BY <2>2, <1>1, <1>4 DEF IInv, TypeOK, AttemptOK, TicketsFit
    <2> QED
      BY <2>1, <2>2
  <1>7. KeysOK' /\ PendingOK'
    BY <1>1 DEF IInv, KeysOK, PendingOK
  <1>8. PaidOnce'
    <2> SUFFICES ASSUME NEW d \in Calls, step'[d] \in Running, Key(d)' # None
                 PROVE  inFlight'[Key(d)'] = d /\ cache'[Key(d)'] = None
      BY DEF PaidOnce
    <2>1. d # c /\ step[d] \in Running /\ Key(d) # None /\ Key(d) \in Keys
      BY <1>1 DEF Running
    <2>2. inFlight[Key(d)] = d /\ cache[Key(d)] = None
      BY <2>1 DEF IInv, PaidOnce
    <2>3. Key(d) # Key(c)
      BY <2>1, OneRuns
    <2> QED
      BY <1>1, <2>1, <2>2, <2>3 DEF Finish, Remembered, IInv, TypeOK
  <1>9. MemoryOK'
    BY <1>1, PagesAreCalls DEF Finish, Remembered, IInv, TypeOK, MemoryOK
  <1> QED
    BY <1>3, <1>6, <1>7, <1>8, <1>9 DEF IInv

LEMMA FinishMapped ==
  ASSUME IInv, NEW c \in Calls, step[c] \in Running,
         NEW v, v = "error" \/ (v = c /\ job[c] = "finished"),
         Finish(c, v), UNCHANGED job
  PROVE  Mapped
  <1>1. /\ answer' \in [Calls -> {"pending", "error", "gone"} \cup Calls]
        /\ ask' = ask
    BY DEF Finish, IInv, TypeOK
  <1>2. ASSUME NEW d \in Calls, answer'[d] # answer[d]
        PROVE  /\ answer[d] = "pending"
               /\ answer'[d] = v
               /\ d = c \/ (Key(d) = Key(c) /\ Key(c) # None)
    BY <1>2 DEF Finish, Sharing, IInv, PendingOK, Running
  <1>3. Promise!Settle
    BY <1>1, <1>2 DEF Promise!Settle, Promise!MayGet, Key
  <1> QED
    BY <1>3 DEF Mapped, Promise!Next

-----------------------------------------------------------------------------
(* The steps that settle nothing.                                           *)

LEMMA LookIInv ==
  ASSUME IInv, NEW c \in Calls, Ask(c) \/ Miss(c)
  PROVE  IInv' /\ Mapped
  <1>1. /\ UNCHANGED <<ask, retries, cancelled, attempt, tickets, job, answer, cache, disk, reloads>>
        /\ \A d \in Calls \ {c} : step'[d] = step[d]
        /\ step[c] \in {"idle", "look"} /\ step'[c] \in {"look", "shared", "address"}
        /\ step' \in [Calls -> Steps]
    BY DEF Ask, Miss, Go, IInv, TypeOK, Steps
  <1>2. TypeOK'
    BY <1>1 DEF Ask, Miss, Go, IInv, TypeOK, attempt
  <1>3. AttemptOK' /\ TicketsFit' /\ MemoryOK' /\ PendingOK'
    BY <1>1 DEF IInv, TypeOK, AttemptOK, TicketsFit, MemoryOK, PendingOK, attempt, Key
  <1>4. KeysOK'
    BY <1>1 DEF Ask, Miss, Go, IInv, TypeOK, KeysOK, Key
  <1>5. PaidOnce'
    <2>1. CASE Ask(c)
      BY <1>1, <2>1 DEF Ask, Go, IInv, TypeOK, PaidOnce, Running, Key
    <2>2. CASE Miss(c)
      <3> SUFFICES ASSUME NEW d \in Calls, step'[d] \in Running, Key(d)' # None
                   PROVE  inFlight'[Key(d)'] = d /\ cache'[Key(d)'] = None
        BY DEF PaidOnce
      <3>1. Key(d)' = Key(d) /\ Key(d) \in Keys /\ Key(c) \in Keys
        BY <1>1, <2>2, PagesAreCalls DEF Key, Miss, IInv, TypeOK, Asks, KeysOK
      <3>2. CASE d = c
        BY <2>2, <3>1, <3>2, <1>1 DEF Miss, Shares, IInv, TypeOK, Running
      <3>3. CASE d # c
        <4>1. inFlight[Key(d)] = d /\ cache[Key(d)] = None
          BY <1>1, <3>1, <3>3 DEF IInv, PaidOnce
        <4> QED
          BY <2>2, <3>1, <4>1, <1>1, PagesAreCalls DEF Miss, Shares, IInv, TypeOK
      <3> QED
        BY <3>2, <3>3
    <2> QED
      BY <2>1, <2>2
  <1>6. Mapped
    BY <1>1 DEF Mapped, Promise!vars, Key
  <1> QED
    BY <1>2, <1>3, <1>4, <1>5, <1>6 DEF IInv

LEMMA HitIInv ==
  ASSUME IInv, NEW c \in Calls, Hit(c)
  PROVE  IInv' /\ Mapped
  <1>1. /\ Key(c) \in Keys /\ cache[Key(c)] \in Calls /\ step[c] = "look"
        /\ job[cache[Key(c)]] = "finished" /\ Key(cache[Key(c)]) = Key(c)
    BY PagesAreCalls DEF Hit, Key, IInv, TypeOK, Asks, KeysOK, MemoryOK
  <1>2. UNCHANGED <<ask, retries, cancelled, attempt, tickets, job, inFlight, cache, disk, reloads>>
    BY DEF Hit
  <1>3. TypeOK'
    BY <1>1, <1>2 DEF Hit, IInv, TypeOK, Steps, attempt
  <1>4. \A d \in Calls : IF d = c THEN step'[d] = "over" /\ answer'[d] = cache[Key(c)]
                                  ELSE step'[d] = step[d] /\ answer'[d] = answer[d]
    BY DEF Hit, IInv, TypeOK
  <1>5. AttemptOK' /\ TicketsFit' /\ KeysOK' /\ PaidOnce' /\ MemoryOK' /\ PendingOK'
    BY <1>2, <1>4
    DEF IInv, AttemptOK, TicketsFit, KeysOK, PaidOnce, MemoryOK, PendingOK, attempt, Running, Key
  <1>6. \A d \in Calls : answer'[d] # answer[d] => answer[d] = "pending" /\ d = c
    BY <1>1, <1>4 DEF IInv, PendingOK
  <1>7. Promise!MayGet(c, answer'[c])
    BY <1>1, <1>4, PagesAreCalls DEF Promise!MayGet
  <1>8. /\ answer' \in [Calls -> {"pending", "error", "gone"} \cup Calls]
        /\ ask' = ask /\ job' = job
    BY <1>2, <1>3 DEF TypeOK
  <1>9. Promise!Settle
    BY <1>6, <1>7, <1>8 DEF Promise!Settle, Key
  <1> QED
    BY <1>3, <1>5, <1>9 DEF IInv, Mapped, Promise!Next

\* A running call that goes on, with no other part of the state touched but
\* its own attempt.
LEMMA GoIInv ==
  ASSUME IInv, NEW c \in Calls, NEW s \in Running, step[c] \in Running,
         Go(c, s), UNCHANGED job, TypeOK',
         \A d \in Calls \ {c} : /\ retries'[d] = retries[d] /\ expects'[d] = expects[d]
                                /\ manifest'[d] = manifest[d] /\ ticket'[d] = ticket[d]
                                /\ tickets'[d] = tickets[d],
         AttemptOK!(c)', TicketsFit!(c)'
  PROVE  IInv' /\ Mapped
  <1>1. /\ UNCHANGED <<ask, job, answer, inFlight, cache, disk>>
        /\ \A d \in Calls \ {c} : step'[d] = step[d]
        /\ step'[c] = s
    BY DEF Go, IInv, TypeOK
  <1>2. AttemptOK' /\ TicketsFit'
    <2> SUFFICES ASSUME NEW d \in Calls
                 PROVE  AttemptOK!(d)' /\ TicketsFit!(d)'
      BY DEF AttemptOK, TicketsFit
    <2>1. CASE d = c
      BY <2>1
    <2>2. CASE d # c
      BY <2>2, <1>1 DEF IInv, AttemptOK, TicketsFit
    <2> QED
      BY <2>1, <2>2
  <1>3. KeysOK' /\ PaidOnce' /\ MemoryOK' /\ PendingOK'
    BY <1>1 DEF IInv, KeysOK, PaidOnce, MemoryOK, PendingOK, Running, Key
  <1>4. Mapped
    BY <1>1 DEF Mapped, Promise!vars, Key
  <1> QED
    BY <1>2, <1>3, <1>4 DEF IInv

-----------------------------------------------------------------------------
(* One lemma per action.                                                    *)

LEMMA WorkerIInv ==
  ASSUME IInv, NEW c \in Calls, Worker(c)
  PROVE  IInv' /\ Mapped
  <1>1. CASE AddressArrives(c) /\ cancelled[c]
    <2>1. /\ step[c] \in Running /\ Finish(c, "error")
          /\ UNCHANGED <<job, tickets>> /\ cancelled' \in [Calls -> BOOLEAN]
      BY <1>1 DEF AddressArrives, Running, IInv, TypeOK
    <2> QED
      BY <2>1, FinishIInv, FinishMapped
  <1>2. CASE AddressArrives(c) /\ ~cancelled[c]
    <2>1. /\ step[c] = "address" /\ Go(c, "probe") /\ UNCHANGED <<retries, cancelled, tickets, job>>
          /\ manifest' = [manifest EXCEPT ![c] =
                            [call |-> c, try |-> retries[c], by |-> "browser"]]
          /\ expects' = [expects EXCEPT ![c] = None] /\ ticket' = [ticket EXCEPT ![c] = None]
      BY <1>2 DEF AddressArrives
    <2>2. [call |-> c, try |-> retries[c], by |-> "browser"] \in Manifest
      BY DEF IInv, TypeOK, Manifest
    <2>3. TypeOK'
      BY <2>1, <2>2 DEF Go, IInv, TypeOK, Steps
    <2>4. AttemptOK!(c)' /\ TicketsFit!(c)'
      BY <2>1, <2>2 DEF Go, IInv, TypeOK, AttemptOK, TicketsFit
    <2>5. \A d \in Calls \ {c} :
            /\ retries'[d] = retries[d] /\ expects'[d] = expects[d]
            /\ manifest'[d] = manifest[d] /\ ticket'[d] = ticket[d] /\ tickets'[d] = tickets[d]
      BY <2>1 DEF IInv, TypeOK
    <2>6. step[c] \in Running /\ "probe" \in Running
      BY <2>1 DEF Running
    <2> QED
      BY <2>1, <2>3, <2>4, <2>5, <2>6, GoIInv
  <1>3. CASE AddressFails(c) \/ SignFails(c)
    <2>1. /\ step[c] \in Running /\ Finish(c, "error")
          /\ UNCHANGED <<job, tickets>> /\ cancelled' \in [Calls -> BOOLEAN]
      BY <1>3 DEF AddressFails, SignFails, Running, IInv, TypeOK
    <2> QED
      BY <2>1, FinishIInv, FinishMapped
  <1>4. CASE Signed(c) /\ cancelled[c]
    <2>1. /\ step[c] \in Running /\ step[c] = "sign" /\ Finish(c, "error")
          /\ UNCHANGED job /\ tickets' = [tickets EXCEPT ![c] = @ + 1]
          /\ cancelled' \in [Calls -> BOOLEAN]
      BY <1>4 DEF Signed, SendsPaid, Running, IInv, TypeOK
    <2> QED
      BY <2>1, FinishIInv, FinishMapped
  <1>5. CASE Signed(c) /\ ~cancelled[c]
    <2>1. /\ step[c] = "sign" /\ Go(c, "paid")
          /\ ticket' = [ticket EXCEPT ![c] = manifest[c]]
          /\ tickets' = [tickets EXCEPT ![c] = @ + 1]
          /\ UNCHANGED <<retries, cancelled, expects, manifest, job>>
      BY <1>5 DEF Signed, SendsPaid
    <2>2. TypeOK'
      BY <2>1 DEF Go, IInv, TypeOK, Steps
    <2>3. /\ manifest[c] \in Manifest /\ manifest[c].call = c /\ manifest[c].try = retries[c]
          /\ manifest[c] = expects[c] \/ (expects[c] = None /\ manifest[c].by = "browser")
          /\ tickets[c] <= retries[c]
      BY <2>1 DEF IInv, AttemptOK
    <2>4. AttemptOK!(c)' /\ TicketsFit!(c)'
      BY <2>1, <2>3 DEF Go, IInv, TypeOK, AttemptOK, TicketsFit
    <2>5. \A d \in Calls \ {c} :
            /\ retries'[d] = retries[d] /\ expects'[d] = expects[d]
            /\ manifest'[d] = manifest[d] /\ ticket'[d] = ticket[d] /\ tickets'[d] = tickets[d]
      BY <2>1 DEF IInv, TypeOK
    <2>6. step[c] \in Running /\ "paid" \in Running
      BY <2>1 DEF Running
    <2> QED
      BY <2>1, <2>2, <2>4, <2>5, <2>6, GoIInv
  <1> QED
    BY <1>1, <1>2, <1>3, <1>4, <1>5 DEF Worker

LEMMA ChallengeIInv ==
  ASSUME IInv, NEW c \in Calls, Challenge(c)
  PROVE  IInv' /\ Mapped
  <1> PICK by \in {"browser", "orchestrator"} :
        LET m == [call |-> c, try |-> retries[c], by |-> by] IN
          /\ expects' = [expects EXCEPT ![c] = m]
          /\ manifest' = [manifest EXCEPT ![c] = Challenged(c, m)]
    BY DEF Challenge
  <1> DEFINE m == [call |-> c, try |-> retries[c], by |-> by]
  <1>1. /\ step[c] = "challenge" /\ Go(c, "sign")
        /\ UNCHANGED <<retries, cancelled, ticket, tickets, job>>
    BY DEF Challenge
  <1>2. m \in Manifest /\ m.by = by
    BY DEF IInv, TypeOK, Manifest
  <1>3. Challenged(c, m) = m
    <2>1. CASE by = "orchestrator"
      BY <2>1, <1>2 DEF Challenged
    <2>2. CASE by = "browser"
      <3>1. /\ manifest[c] \in Manifest /\ manifest[c].try = retries[c]
            /\ manifest[c].call = c /\ manifest[c].by = "browser"
        BY <1>1 DEF IInv, AttemptOK
      <3>2. manifest[c] = m
        BY <2>2, <3>1 DEF Manifest
      <3> QED
        BY <2>2, <3>2 DEF Challenged
    <2> QED
      BY <2>1, <2>2
  <1>4. expects' = [expects EXCEPT ![c] = m] /\ manifest' = [manifest EXCEPT ![c] = m]
    BY <1>3
  <1> HIDE DEF m
  <1>5. TypeOK'
    BY <1>1, <1>2, <1>4 DEF Go, IInv, TypeOK, Steps
  <1>6. m.call = c /\ m.try = retries[c]
    BY DEF m
  <1>7. AttemptOK!(c)' /\ TicketsFit!(c)'
    BY <1>1, <1>2, <1>4, <1>6 DEF Go, IInv, TypeOK, AttemptOK, TicketsFit
  <1>8. \A d \in Calls \ {c} :
          /\ retries'[d] = retries[d] /\ expects'[d] = expects[d]
          /\ manifest'[d] = manifest[d] /\ ticket'[d] = ticket[d] /\ tickets'[d] = tickets[d]
    BY <1>1, <1>4 DEF IInv, TypeOK
  <1>9. step[c] \in Running /\ "sign" \in Running
    BY <1>1 DEF Running
  <1> QED
    BY <1>1, <1>5, <1>7, <1>8, <1>9, GoIInv

\* The steps that go on within an attempt and touch no ticket of it.
LEMMA OnwardIInv ==
  ASSUME IInv, NEW c \in Calls,
         \/ Demand(c) \/ ChallengeLost(c) \/ Opens(c) \/ BackOff(c)
         \/ Timer(c) /\ step[c] = "challenge"
         \/ Busy(c) /\ retries[c] < MaxRetries /\ ~cancelled[c]
         \/ Cancel(c) /\ step[c] \notin Fetches
  PROVE  IInv' /\ Mapped
  <1>1. PICK s \in Running :
          /\ Go(c, s) /\ step[c] \in Running /\ UNCHANGED <<attempt, tickets, job>>
          /\ \/ step[c] = "probe" /\ s = "challenge" /\ UNCHANGED retries
             \/ step[c] = "challenge" /\ s = "sign" /\ UNCHANGED retries
             \/ step[c] \in {"probe", "paid"} /\ s \in {"stream", "read"} /\ UNCHANGED retries
             \/ step[c] = "wait" /\ s = "address" /\ UNCHANGED retries
             \/ /\ step[c] \in {"probe", "paid"} /\ s = "wait"
                /\ retries[c] < MaxRetries /\ retries' = [retries EXCEPT ![c] = @ + 1]
             \/ step[c] \in {"address", "sign"} /\ s = step[c] /\ UNCHANGED retries
          /\ cancelled' \in [Calls -> BOOLEAN]
    <2>1. CASE Demand(c) \/ ChallengeLost(c) \/ (Timer(c) /\ step[c] = "challenge")
      BY <2>1 DEF Demand, ChallengeLost, Timer, Running, IInv, TypeOK
    <2>2. CASE Opens(c)
      BY <2>2 DEF Opens, Running, IInv, TypeOK
    <2>3. CASE BackOff(c)
      BY <2>3 DEF BackOff, Running, IInv, TypeOK
    <2>4. CASE Busy(c) /\ retries[c] < MaxRetries /\ ~cancelled[c]
      BY <2>4 DEF Busy, Counted, Running, IInv, TypeOK
    <2>5. CASE Cancel(c) /\ step[c] \notin Fetches
      BY <2>5 DEF Cancel, Onward, Fetches, Running, IInv, TypeOK
    <2> QED
      BY <2>1, <2>2, <2>3, <2>4, <2>5
  <1>2. TypeOK'
    <2>1. retries' \in [Calls -> 0 .. MaxRetries]
      BY <1>1, BoundsAreNaturals DEF IInv, TypeOK
    <2>2. step' \in [Calls -> Steps]
      BY <1>1 DEF Go, IInv, TypeOK, Steps, Running
    <2> QED
      BY <1>1, <2>1, <2>2 DEF Go, IInv, TypeOK, attempt
  <1>3. tickets[c] \in Nat /\ retries[c] \in 0 .. MaxRetries /\ tickets[c] <= retries[c] + 1
    BY DEF IInv, TypeOK, TicketsFit
  <1>4. AttemptOK!(c)' /\ TicketsFit!(c)'
    BY <1>1, <1>3, BoundsAreNaturals DEF Go, IInv, TypeOK, AttemptOK, TicketsFit, attempt
  <1>5. \A d \in Calls \ {c} :
          /\ retries'[d] = retries[d] /\ expects'[d] = expects[d]
          /\ manifest'[d] = manifest[d] /\ ticket'[d] = ticket[d] /\ tickets'[d] = tickets[d]
    BY <1>1 DEF IInv, TypeOK, attempt
  <1> QED
    BY <1>1, <1>2, <1>4, <1>5, GoIInv

\* The steps that settle the call.
LEMMA EndIInv ==
  ASSUME IInv, NEW c \in Calls,
         \/ Busy(c) /\ ~(retries[c] < MaxRetries /\ ~cancelled[c])
         \/ Refused(c) \/ Completes(c) \/ Breaks(c)
         \/ Timer(c) /\ step[c] # "challenge"
         \/ Cancel(c) /\ step[c] \in Fetches
  PROVE  IInv' /\ Mapped
  <1>1. PICK v : /\ v = "error" \/ (v = c /\ job[c] = "finished")
                 /\ Finish(c, v) /\ step[c] \in Running
                 /\ UNCHANGED <<tickets, job>> /\ cancelled' \in [Calls -> BOOLEAN]
    <2>1. CASE Completes(c)
      BY <2>1 DEF Completes, Running, IInv, TypeOK
    <2>2. CASE Busy(c) /\ ~(retries[c] < MaxRetries /\ ~cancelled[c])
      BY <2>2 DEF Busy, Running, IInv, TypeOK
    <2>3. CASE Refused(c) \/ Breaks(c) \/ (Timer(c) /\ step[c] # "challenge")
      BY <2>3 DEF Refused, Breaks, Timer, Guarded, Running, IInv, TypeOK
    <2>4. CASE Cancel(c) /\ step[c] \in Fetches
      BY <2>4 DEF Cancel, Fetches, Running, IInv, TypeOK
    <2> QED
      BY <2>1, <2>2, <2>3, <2>4
  <1> QED
    BY <1>1, FinishIInv, FinishMapped

\* The runner takes up the work, or ends it.
LEMMA RunnerIInv ==
  ASSUME IInv, NEW c \in Calls, Accept(c) \/ Work(c)
  PROVE  IInv' /\ Mapped
  <1>1. /\ UNCHANGED <<ask, step, retries, cancelled, attempt, tickets, answer, inFlight, cache,
                       disk, reloads>>
        /\ job' \in [Calls -> Jobs]
        /\ \A d \in Calls : d # c => job'[d] = job[d]
        /\ job[c] # "finished"
    BY DEF Accept, Work, IInv, TypeOK, Jobs
  <1>2. TypeOK'
    BY <1>1 DEF IInv, TypeOK, attempt
  <1>3. AttemptOK' /\ TicketsFit' /\ KeysOK' /\ PaidOnce' /\ PendingOK'
    BY <1>1 DEF IInv, AttemptOK, TicketsFit, KeysOK, PaidOnce, PendingOK, attempt, Key
  <1>4. MemoryOK'
    BY <1>1, PagesAreCalls DEF IInv, TypeOK, MemoryOK, Key
  <1>5. \/ {d \in Calls : job'[d] = "finished"} = {d \in Calls : job[d] = "finished"}
        \/ {d \in Calls : job'[d] = "finished"} = {d \in Calls : job[d] = "finished"} \cup {c}
    BY <1>1
  <1>6. Mapped
    BY <1>1, <1>5 DEF Mapped, Promise!Next, Promise!Work, Promise!vars, Key
  <1> QED
    BY <1>2, <1>3, <1>4, <1>6 DEF IInv

LEMMA PersistIInv ==
  ASSUME IInv, Persist
  PROVE  IInv' /\ Mapped
  <1>1. IInv'
    BY DEF Persist, IInv, TypeOK, AttemptOK, TicketsFit, KeysOK, PaidOnce, MemoryOK, PendingOK,
           attempt, Key
  <1>2. Mapped
    BY DEF Persist, Mapped, Promise!vars, Key
  <1> QED
    BY <1>1, <1>2

LEMMA ReloadIInv ==
  ASSUME IInv, Reload
  PROVE  IInv' /\ Mapped
  <1>1. TypeOK'
    <2>1. cache' \in [Keys -> Calls \cup {None}]
      BY DEF Reload, IInv, TypeOK
    <2> QED
      BY <2>1 DEF Reload, IInv, TypeOK, Steps
  <1>2. \A c \in Calls : step'[c] \in {"idle", "over"} /\ (step'[c] = "idle" => step[c] = "idle")
    BY DEF Reload
  <1>3. AttemptOK' /\ TicketsFit' /\ KeysOK' /\ PaidOnce'
    BY <1>2 DEF Reload, IInv, AttemptOK, TicketsFit, KeysOK, PaidOnce, Running
  <1>4. MemoryOK' /\ PendingOK'
    BY DEF Reload, IInv, MemoryOK, PendingOK, Key
  <1>5. /\ answer' \in [Calls -> {"pending", "error", "gone"} \cup Calls]
        /\ \A c \in Calls : answer'[c] # answer[c] => answer[c] = "pending" /\ answer'[c] = "gone"
        /\ ask' = ask /\ job' = job
    BY <1>1 DEF Reload, IInv, TypeOK, PendingOK
  <1>6. Mapped
    BY <1>5 DEF Mapped, Promise!Next, Promise!Settle, Promise!MayGet, Key
  <1> QED
    BY <1>1, <1>3, <1>4, <1>6 DEF IInv

LEMMA StepIInv == IInv /\ [Next]_vars => IInv' /\ Mapped
  <1> SUFFICES ASSUME IInv, [Next]_vars PROVE IInv' /\ Mapped
    OBVIOUS
  <1>1. CASE \E c \in Calls : Browser(c)
    <2> PICK c \in Calls : Browser(c)
      BY <1>1
    <2> QED
      BY LookIInv, HitIInv, OnwardIInv, EndIInv DEF Browser
  <1>2. CASE \E c \in Calls : Worker(c)
    BY <1>2, WorkerIInv
  <1>3. CASE \E c \in Calls : Runner(c)
    <2> PICK c \in Calls : Runner(c)
      BY <1>3
    <2> QED
      BY ChallengeIInv, OnwardIInv, EndIInv, RunnerIInv DEF Runner
  <1>4. CASE Persist
    BY <1>4, PersistIInv
  <1>5. CASE Reload
    BY <1>5, ReloadIInv
  <1>6. CASE UNCHANGED vars
    <2>1. IInv'
      BY <1>6 DEF vars, IInv, TypeOK, AttemptOK, TicketsFit, KeysOK, PaidOnce, MemoryOK, PendingOK,
                  attempt, Key
    <2>2. Mapped
      BY <1>6 DEF vars, Mapped, Promise!vars, Key
    <2> QED
      BY <2>1, <2>2
  <1> QED
    BY <1>1, <1>2, <1>3, <1>4, <1>5, <1>6 DEF Next

LEMMA AlwaysIInv == Spec => []IInv
  BY InitIInv, StepIInv, PTL DEF Spec

\* The transport's state keeps its types.
THEOREM TypeCorrect == Spec => []TypeOK
  BY AlwaysIInv, PTL DEF IInv

\* A paid POST carries the ticket of its own attempt, signed for the manifest
\* of its challenge, and a call costs at most one ticket per attempt.
THEOREM TicketsAlwaysFit == Spec => []TicketsFit
  BY AlwaysIInv, PTL DEF IInv

\* At most one call runs for a key, and none once its result is known.
THEOREM AnalysesPaidOnce == Spec => []PaidOnce
  BY AlwaysIInv, PTL DEF IInv

\* The transport implements EarnedAnswers: a call is answered once, and with
\* finished work on its own question.
THEOREM TransportKeepsPromise == Spec => AnswersAreEarned
  <1>1. IInv /\ [Next]_vars => [Promise!Next]_(Promise!vars)
    BY StepIInv DEF Mapped
  <1> QED
    BY <1>1, InitMapped, AlwaysIInv, PTL DEF Spec, AnswersAreEarned, Promise!Spec

-----------------------------------------------------------------------------
(* What a cancelled call can still do.                                      *)

\* A cancelled call waits for the Worker at most, and then it is over.
CancelOK ==
  \A c \in Calls : cancelled[c] => step[c] \in {"address", "sign", "over"}

\* What a step may do to a call that is, or now becomes, cancelled.
Halts(d) ==
  /\ cancelled'[d] => step'[d] \in {"address", "sign", "over"}
  /\ cancelled[d] =>
       /\ cancelled'[d]
       /\ step'[d] = "sign" => step[d] = "sign"
       /\ tickets'[d] # tickets[d] => step'[d] = "over"
  /\ cancelled'[d] # cancelled[d] /\ step'[d] = "sign" =>
       \/ step[d] = "sign"
       \/ step[d] = "challenge" /\ expects'[d] = None

\* A step of one call touches another one only to settle it.
LEMMA OthersOnlySettle ==
  ASSUME IInv, NEW c \in Calls, Browser(c) \/ Worker(c) \/ Runner(c),
         NEW d \in Calls, d # c
  PROVE  /\ cancelled'[d] = cancelled[d] /\ tickets'[d] = tickets[d]
         /\ step'[d] \in {step[d], "over"}
  <1>1. CASE Browser(c)
    BY <1>1 DEF Browser, Ask, Hit, Miss, BackOff, Timer, Cancel, Go, Finish, IInv, TypeOK
  <1>2. CASE Worker(c)
    BY <1>2 DEF Worker, AddressArrives, AddressFails, Signed, SignFails, Go, Finish, IInv, TypeOK
  <1>3. CASE Runner(c)
    BY <1>3 DEF Runner, Demand, Challenge, ChallengeLost, Busy, Refused, Accept, Work, Opens, Completes,
                Breaks, Go, Finish, IInv, TypeOK
  <1> QED
    BY <1>1, <1>2, <1>3

\* A call that is settled halts.
LEMMA SettledHalts ==
  ASSUME NEW c \in Calls, NEW v, Finish(c, v), cancelled[c] => cancelled'[c]
  PROVE  Halts(c)
  <1>1. step'[c] = "over"
    BY DEF Finish
  <1> QED
    BY <1>1 DEF Halts

LEMMA OwnStepHalts ==
  ASSUME IInv, CancelOK, NEW c \in Calls, Browser(c) \/ Worker(c) \/ Runner(c)
  PROVE  Halts(c)
  <1>1. CASE \/ Ask(c) \/ Hit(c) \/ Miss(c) \/ BackOff(c)
             \/ Demand(c) \/ Challenge(c) \/ ChallengeLost(c) \/ Opens(c) \/ Busy(c)
    <2>1. ~cancelled[c] /\ UNCHANGED cancelled
      BY <1>1 DEF CancelOK, Ask, Hit, Miss, BackOff, Demand, Challenge, ChallengeLost, Opens, Busy
    <2> QED
      BY <2>1 DEF Halts
  <1>2. CASE Cancel(c)
    <2>1. ~cancelled[c]
      BY <1>2 DEF Cancel
    <2>2. CASE step[c] \in Fetches
      BY <1>2, <2>1, <2>2, SettledHalts DEF Cancel
    <2>3. CASE step[c] \notin Fetches
      <3>1. step[c] \in {"address", "challenge", "sign", "wait"} /\ UNCHANGED <<expects, tickets>>
        BY <1>2, <2>3 DEF Cancel, Onward, attempt
      <3>2. step'[c] = Onward[step[c]]
        BY <1>2, <2>3 DEF Cancel, Go, IInv, TypeOK
      <3>3. step'[c] \in {"address", "sign"} /\ (step'[c] = "sign" => step[c] \in {"challenge", "sign"})
        BY <3>1, <3>2 DEF Onward
      <3>4. step[c] = "challenge" => expects[c] = None
        BY DEF IInv, AttemptOK
      <3> QED
        BY <2>1, <3>1, <3>3, <3>4 DEF Halts
    <2> QED
      BY <2>2, <2>3
  <1>3. CASE AddressArrives(c) \/ Signed(c)
    <2>1. UNCHANGED cancelled
      BY <1>3 DEF AddressArrives, Signed
    <2>2. CASE cancelled[c]
      BY <1>3, <2>1, <2>2, SettledHalts DEF AddressArrives, Signed, SendsPaid
    <2>3. CASE ~cancelled[c]
      BY <2>1, <2>3 DEF Halts
    <2> QED
      BY <2>2, <2>3
  <1>4. CASE \/ AddressFails(c) \/ SignFails(c) \/ Refused(c) \/ Completes(c) \/ Breaks(c)
             \/ Timer(c)
    <2>1. UNCHANGED cancelled
      BY <1>4 DEF Timer, AddressFails, SignFails, Refused, Completes, Breaks
    <2>2. CASE Timer(c) /\ step[c] = "challenge"
      BY <2>1, <2>2 DEF CancelOK, Halts
    <2>3. CASE ~(Timer(c) /\ step[c] = "challenge")
      BY <1>4, <2>1, <2>3, SettledHalts
      DEF Timer, AddressFails, SignFails, Refused, Completes, Breaks
    <2> QED
      BY <2>2, <2>3
  <1>5. CASE Accept(c) \/ Work(c)
    <2>1. UNCHANGED <<step, cancelled, tickets>>
      BY <1>5 DEF Accept, Work
    <2> QED
      BY <2>1 DEF Halts, CancelOK
  <1> QED
    BY <1>1, <1>2, <1>3, <1>4, <1>5 DEF Browser, Worker, Runner

LEMMA StepHalts ==
  ASSUME IInv, CancelOK, [Next]_vars, NEW d \in Calls
  PROVE  Halts(d)
  <1>1. CASE \E c \in Calls : Browser(c) \/ Worker(c) \/ Runner(c)
    <2> PICK c \in Calls : Browser(c) \/ Worker(c) \/ Runner(c)
      BY <1>1
    <2>1. CASE d = c
      BY <2>1, OwnStepHalts
    <2>2. CASE d # c
      <3>1. /\ cancelled'[d] = cancelled[d] /\ tickets'[d] = tickets[d]
            /\ step'[d] \in {step[d], "over"}
        BY <2>2, OthersOnlySettle
      <3> QED
        BY <3>1 DEF Halts, CancelOK
    <2> QED
      BY <2>1, <2>2
  <1>2. CASE Persist \/ UNCHANGED vars
    <2>1. UNCHANGED <<step, cancelled, tickets>>
      BY <1>2 DEF Persist, vars
    <2> QED
      BY <2>1 DEF Halts, CancelOK
  <1>3. CASE Reload
    <2>1. UNCHANGED <<cancelled, tickets>> /\ (step[d] # "idle" => step'[d] = "over")
      BY <1>3 DEF Reload
    <2> QED
      BY <2>1 DEF Halts, CancelOK
  <1> QED
    BY <1>1, <1>2, <1>3 DEF Next

\* After the user's cancel no paid POST leaves and no ticket is asked for, but
\* by the cancel that breaks off the reading of a challenge.
THEOREM CancelsAreKept == Spec => CancelStopsSpending
  <1> DEFINE A == \A c \in Calls :
                    /\ cancelled[c] => /\ step'[c] # "paid"
                                       /\ step'[c] = "sign" => step[c] = "sign"
                                       /\ tickets'[c] # tickets[c] => step'[c] = "over"
                    /\ cancelled'[c] # cancelled[c] /\ step'[c] = "sign" =>
                         \/ step[c] = "sign"
                         \/ step[c] = "challenge" /\ expects'[c] = None
  <1>1. Init => CancelOK
    BY DEF Init, CancelOK
  <1>2. IInv /\ CancelOK /\ [Next]_vars => CancelOK'
    BY StepHalts DEF Halts, CancelOK
  <1>3. IInv /\ CancelOK /\ [Next]_vars => A
    BY StepHalts DEF Halts
  <1>4. CancelStopsSpending <=> [][A]_vars
    BY DEF CancelStopsSpending
  <1> QED
    BY <1>1, <1>2, <1>3, <1>4, AlwaysIInv, PTL DEF Spec
=============================================================================
