------------------------- MODULE GpuSchedulerProofs -------------------------
(***************************************************************************)
(* Theorems about the GPU scheduler, for any number of cards, workers and  *)
(* handlers.  IInv strengthens what the runs check with two facts about    *)
(* the handlers; every action is shown to keep it, one lemma per conjunct. *)
(***************************************************************************)
EXTENDS GpuSchedulerProps, FiniteSetTheorems, TLAPS

\* A handler that queues or runs has a worker, one that evicts or runs has a
\* card, a gpu-pick call never runs, and the backfill loop has gemma's card.
HandlersOK ==
    /\ \A p \in Procs :
         /\ pc[p] \in Queueing \cup {"running"} => task[p] \in Workers
         /\ pc[p] \in {"evicting", "running"} => card[p] \in GPUs
         /\ pc[p] \in {"running", "leaving"} => p \in Requests
    /\ backfill => GemmaGpu \in GPUs

IInv == TypeOK /\ HandlersOK /\ SlotConsistent /\ InFlightExact

-----------------------------------------------------------------------------
(* The operators the actions are built from *)

LEMMA OrderTypes ==
  ASSUME NEW ord \in SUBSET (GPUs \X GPUs), NEW g \in GPUs
  PROVE  /\ Touch(ord, g) \in SUBSET (GPUs \X GPUs)
         /\ Reset(ord, g) \in SUBSET (GPUs \X GPUs)
BY DEF Touch, Reset

LEMMA SlotValues ==
  ASSUME NEW w \in Workers, NEW st \in {"idle", "busy"}
  PROVE  /\ Warm(w, st) \in Slot /\ Consistent(Warm(w, st))
         /\ Empty \in Slot /\ Consistent(Empty)
BY WorkersAssumption DEF Warm, Empty, Slot, Consistent

LEMMA TakeableCards ==
  ASSUME NEW p, NEW sl, NEW ord
  PROVE  Takeable(p, sl, ord) \subseteq GPUs
BY DEF Takeable, Reusable, PickIdleWarm, Oldest, WarmGpuOf, PickIdleGpu

LEMMA VictimCards ==
  ASSUME NEW w, NEW sl, NEW ord
  PROVE  PickLruVictim(sl, ord, w) \subseteq GPUs \ {GemmaGpu}
BY DEF PickLruVictim, Oldest

LEMMA NotifyType ==
  ASSUME NEW pcs \in [Procs -> Pc]
  PROVE  /\ NotifyAll(pcs) \in [Procs -> Pc]
         /\ \A p \in Procs : (NotifyAll(pcs)[p] = "idle") <=> (pcs[p] = "idle")
         /\ \A p \in Procs : NotifyAll(pcs)[p] # pcs[p] =>
              pcs[p] = "waiting" /\ NotifyAll(pcs)[p] = "woken"
BY DEF NotifyAll, Pc, Queueing

-----------------------------------------------------------------------------
(* A turn of the loop, from well-formed intermediate values *)

LEMMA TurnKeeps ==
  ASSUME TypeOK, HandlersOK,
         NEW p \in Procs, pc[p] \in Queueing,
         NEW sl \in [GPUs -> Slot], \A g \in GPUs : Consistent(sl[g]),
         NEW ord \in SUBSET (GPUs \X GPUs),
         NEW pcs \in [Procs -> Pc],
         \A q \in Procs : pcs[q] # pc[q] => pc[q] = "waiting" /\ pcs[q] = "woken",
         Turn(p, sl, ord, pcs), UNCHANGED <<inFlight, backfill>>
  PROVE  TypeOK' /\ HandlersOK' /\ SlotConsistent' /\ (p \in Requests => pc'[p] # "idle")
         /\ \A q \in Procs \ {p} : pc'[q] = pcs[q]
<1> DEFINE Kept == /\ TypeOK' /\ HandlersOK' /\ SlotConsistent'
                   /\ p \in Requests => pc'[p] # "idle"
                   /\ \A q \in Procs \ {p} : pc'[q] = pcs[q]
<1>1. task[p] \in Workers
  BY DEF HandlersOK
<1>2. ASSUME NEW g \in Takeable(p, sl, ord), Take(p, g, sl, ord, pcs)
      PROVE  Kept
  <2>1. g \in GPUs
    BY TakeableCards
  <2>2. older' \in SUBSET (GPUs \X GPUs)
    BY <1>2, <2>1, OrderTypes DEF Take
  <2>3. PICK s \in {Warm(task[p], "busy"), Warm(task[p], "idle")} : slot' = [sl EXCEPT ![g] = s]
    BY <1>2 DEF Take
  <2>4. s \in Slot /\ Consistent(s)
    BY <1>1, <2>3, SlotValues
  <2>5. slot' \in [GPUs -> Slot] /\ SlotConsistent'
    BY <2>1, <2>3, <2>4 DEF SlotConsistent
  <2>6. CASE p \in Requests
    <3>1. pc' = [pcs EXCEPT ![p] = "running"] /\ card' = [card EXCEPT ![p] = g] /\ task' = task
      BY <1>2, <2>6 DEF Take
    <3>2. TypeOK'
      BY <2>1, <2>2, <2>5, <3>1 DEF TypeOK, Pc
    <3>3. HandlersOK'
      BY <1>1, <2>1, <2>6, <3>1 DEF HandlersOK, TypeOK, Pc, Queueing
    <3>4. QED
      BY <2>5, <3>1, <3>2, <3>3 DEF TypeOK
  <2>7. CASE p \notin Requests
    <3>1. /\ pc' = [pcs EXCEPT ![p] = "idle"]
          /\ card' = [card EXCEPT ![p] = NoGpu] /\ task' = [task EXCEPT ![p] = NoWorker]
      BY <1>2, <2>7 DEF Take
    <3>2. TypeOK'
      BY <2>1, <2>2, <2>5, <3>1 DEF TypeOK, Pc
    <3>3. HandlersOK'
      BY <2>7, <3>1 DEF HandlersOK, TypeOK, Pc, Queueing
    <3>4. QED
      BY <2>5, <2>7, <3>1, <3>2, <3>3
  <2>8. QED
    BY <2>6, <2>7
<1>3. ASSUME slot' = sl, older' = ord
      PROVE  /\ slot' \in [GPUs -> Slot] /\ older' \in SUBSET (GPUs \X GPUs)
             /\ inFlight' \in Int /\ backfill' \in BOOLEAN /\ SlotConsistent'
  BY <1>3 DEF SlotConsistent, TypeOK
<1>4. ASSUME NEW g \in PickLruVictim(sl, ord, task[p]), card' = [card EXCEPT ![p] = g],
             pc' = [pcs EXCEPT ![p] = "evicting"], slot' = sl, older' = ord, task' = task
      PROVE  Kept
  <2>1. g \in GPUs
    BY VictimCards
  <2>2. TypeOK'
    BY <1>3, <1>4, <2>1 DEF TypeOK, Pc, Queueing
  <2>3. HandlersOK'
    BY <1>1, <1>4, <2>1 DEF HandlersOK, TypeOK, Pc, Queueing
  <2>4. QED
    BY <1>3, <1>4, <2>2, <2>3
<1>5. ASSUME slot' = sl, older' = ord, pc' = [pcs EXCEPT ![p] = "waiting"],
             card' = [card EXCEPT ![p] = NoGpu], task' = task
      PROVE  Kept
  <2>1. TypeOK'
    BY <1>3, <1>5 DEF TypeOK, Pc, Queueing
  <2>2. HandlersOK'
    BY <1>1, <1>5 DEF HandlersOK, TypeOK, Pc, Queueing
  <2>3. QED
    BY <1>3, <1>5, <2>1, <2>2
<1>6. ASSUME slot' = sl, older' = ord, GiveUp(p, pcs)
      PROVE  Kept
  <2>1. TypeOK'
    BY <1>3, <1>6 DEF TypeOK, GiveUp, Pc, Queueing
  <2>2. HandlersOK'
    BY <1>6 DEF HandlersOK, TypeOK, GiveUp, Pc, Queueing
  <2>3. QED
    BY <1>3, <1>6, <2>1, <2>2 DEF GiveUp
<1>7. QED
  BY <1>2, <1>4, <1>5, <1>6 DEF Turn
-----------------------------------------------------------------------------
(* The counter *)

LEMMA CounterKept ==
  ASSUME InFlightExact, inFlight' = inFlight,
         \A r \in Requests : pc'[r] = "idle" <=> pc[r] = "idle"
  PROVE  InFlightExact'
<1>1. Active' = Active
  BY DEF Active
<1>2. QED
  BY <1>1 DEF InFlightExact

LEMMA ActiveFinite == IsFiniteSet(Active)
BY ProcsAssumption, FS_Subset DEF Active

LEMMA CounterUp ==
  ASSUME TypeOK, InFlightExact, NEW r \in Requests, pc[r] = "idle",
         pc' = [pc EXCEPT ![r] = "arrived"], inFlight' = inFlight + 1
  PROVE  InFlightExact'
<1>1. Active' = Active \cup {r} /\ r \notin Active
  BY DEF Active, TypeOK, Procs
<1>2. QED
  BY <1>1, ActiveFinite, FS_AddElement DEF InFlightExact

LEMMA CounterDown ==
  ASSUME TypeOK, InFlightExact, NEW r \in Requests, pc[r] = "leaving",
         pc' = [pc EXCEPT ![r] = "idle"], inFlight' = inFlight - 1
  PROVE  InFlightExact'
<1>1. Active' = Active \ {r} /\ r \in Active
  BY DEF Active, TypeOK, Procs
<1>2. Cardinality(Active') = Cardinality(Active) - 1
  BY <1>1, ActiveFinite, FS_RemoveElement
<1>3. QED
  BY <1>2 DEF InFlightExact

-----------------------------------------------------------------------------
(* The invariant *)

LEMMA InitIInv == Init => IInv
<1> SUFFICES ASSUME Init PROVE IInv
  OBVIOUS
<1>1. TypeOK
  <2>1. slot \in [GPUs -> Slot]
    BY SlotValues, WorkersAssumption DEF Init
  <2>2. older \in SUBSET (GPUs \X GPUs)
    <3>1. older \subseteq (GPUs \ {GemmaGpu}) \X GPUs
      BY DEF Init
    <3>2. (GPUs \ {GemmaGpu}) \X GPUs \subseteq GPUs \X GPUs
      OBVIOUS
    <3>3. QED
      BY <3>1, <3>2
  <2>3. pc \in [Procs -> Pc] /\ task \in [Procs -> Workers \cup {NoWorker}]
    BY DEF Init, Pc
  <2>4. card \in [Procs -> GPUs \cup {NoGpu}]
    BY DEF Init
  <2>5. inFlight \in Int
    BY DEF Init
  <2>6. backfill \in BOOLEAN
    BY Zenon DEF Init
  <2>7. QED
    BY <2>1, <2>2, <2>3, <2>4, <2>5, <2>6 DEF TypeOK
<1>2. HandlersOK
  BY DEF Init, HandlersOK, Queueing
<1>3. SlotConsistent
  BY SlotValues, WorkersAssumption DEF Init, SlotConsistent
<1>4. InFlightExact
  <2>1. Active = {}
    BY DEF Init, Active, Procs
  <2>2. QED
    BY <2>1, FS_EmptySet DEF Init, InFlightExact
<1>5. QED
  BY <1>1, <1>2, <1>3, <1>4 DEF IInv

\* A turn of the loop, whatever critical section it ends.
LEMMA TurnIInv ==
  ASSUME IInv, NEW p \in Procs, pc[p] \in Queueing,
         NEW sl \in [GPUs -> Slot], \A g \in GPUs : Consistent(sl[g]),
         NEW ord \in SUBSET (GPUs \X GPUs),
         NEW pcs \in {pc, NotifyAll(pc)},
         Turn(p, sl, ord, pcs), UNCHANGED <<inFlight, backfill>>
  PROVE  IInv'
<1>1. /\ pcs \in [Procs -> Pc]
      /\ \A q \in Procs : pcs[q] # pc[q] => pc[q] = "waiting" /\ pcs[q] = "woken"
  BY NotifyType DEF IInv, TypeOK
<1>2. /\ TypeOK' /\ HandlersOK' /\ SlotConsistent' /\ (p \in Requests => pc'[p] # "idle")
      /\ \A q \in Procs \ {p} : pc'[q] = pcs[q]
  BY <1>1, TurnKeeps DEF IInv
<1>3. \A r \in Requests : pc'[r] = "idle" <=> pc[r] = "idle"
  BY <1>1, <1>2 DEF Procs, Queueing
<1>4. InFlightExact'
  BY <1>3, CounterKept DEF IInv
<1>5. QED
  BY <1>2, <1>4 DEF IInv

LEMMA ProgressIInv ==
  ASSUME IInv, NEW p \in Procs, Progress(p)
  PROVE  IInv'
<1> USE DEF IInv
<1>1. CASE p \in Requests /\ AcquireGemma(p)
  <2>1. TypeOK'
    BY <1>1, OrderTypes, CardsAssumption DEF TypeOK, AcquireGemma, Pc, Queueing
  <2>2. HandlersOK'
    BY <1>1, CardsAssumption DEF HandlersOK, TypeOK, AcquireGemma, Queueing
  <2>3. SlotConsistent'
    BY <1>1 DEF SlotConsistent, AcquireGemma
  <2>4. InFlightExact'
    BY <1>1, CounterKept DEF AcquireGemma, TypeOK, Procs
  <2>5. QED
    BY <2>1, <2>2, <2>3, <2>4
<1>2. CASE p \in Requests /\ Acquire(p)
  BY <1>2, TurnIInv DEF Acquire, Queueing, TypeOK, SlotConsistent
<1>3. CASE p \in Requests /\ Release(p)
  <2> DEFINE own == slot[card[p]].worker = task[p]
             pcs == IF own THEN NotifyAll(pc) ELSE pc
  <2>1. card[p] \in GPUs /\ pc[p] = "running"
    BY <1>3 DEF Release, HandlersOK
  <2>2. /\ pcs \in [Procs -> Pc] /\ pc' = [pcs EXCEPT ![p] = "leaving"]
        /\ \A q \in Procs : pcs[q] # pc[q] => pc[q] = "waiting" /\ pcs[q] = "woken"
    BY <1>3, NotifyType DEF Release, TypeOK
  <2>3. /\ slot' = IF own THEN [slot EXCEPT ![card[p]].state = "idle"] ELSE slot
        /\ older' = IF own THEN Touch(older, card[p]) ELSE older
        /\ task' = [task EXCEPT ![p] = NoWorker] /\ card' = [card EXCEPT ![p] = NoGpu]
        /\ inFlight' = inFlight /\ backfill' = backfill
    BY <1>3 DEF Release
  <2>4. slot' \in [GPUs -> Slot] /\ SlotConsistent'
    BY <2>1, <2>3 DEF TypeOK, Slot, SlotConsistent, Consistent
  <2>5. TypeOK'
    BY <2>1, <2>2, <2>3, <2>4, OrderTypes DEF TypeOK, Pc, Queueing
  <2>6. HandlersOK'
    BY <1>3, <2>2, <2>3 DEF HandlersOK, TypeOK, Pc, Queueing
  <2>7. InFlightExact'
    BY <2>1, <2>2, <2>3, CounterKept DEF TypeOK, Procs
  <2>8. QED
    BY <2>4, <2>5, <2>6, <2>7
<1>4. CASE p \in Requests /\ Leave(p)
  <2>1. TypeOK'
    BY <1>4 DEF TypeOK, Leave, Pc, Queueing
  <2>2. HandlersOK' /\ SlotConsistent'
    BY <1>4 DEF HandlersOK, SlotConsistent, TypeOK, Leave, Queueing
  <2>3. InFlightExact'
    BY <1>4, CounterDown DEF Leave
  <2>4. QED
    BY <2>1, <2>2, <2>3
<1>5. CASE p \in Pickers /\ PickForWorker(p)
  BY <1>5, TurnIInv DEF PickForWorker, Queueing, TypeOK, SlotConsistent
<1>6. CASE EvictDone(p)
  <2>1. pc[p] \in Queueing /\ card[p] \in GPUs
    BY <1>6 DEF EvictDone, HandlersOK, Queueing
  <2> DEFINE sl == [slot EXCEPT ![card[p]] = Empty]
  <2>2. sl \in [GPUs -> Slot] /\ \A g \in GPUs : Consistent(sl[g])
    BY <2>1, WorkersAssumption DEF TypeOK, SlotConsistent, Slot, Empty, Consistent
  <2>3. Reset(older, card[p]) \in SUBSET (GPUs \X GPUs)
    BY <2>1, OrderTypes DEF TypeOK
  <2>4. QED
    BY <1>6, <2>1, <2>2, <2>3, TurnIInv DEF EvictDone
<1>7. QED
  BY <1>1, <1>2, <1>3, <1>4, <1>5, <1>6 DEF Progress

LEMMA ReconcileIInv ==
  ASSUME IInv, NEW poll \in Polls, Reconcile(poll)
  PROVE  IInv'
<1> USE DEF IInv
<1>1. ASSUME NEW g \in GPUs
      PROVE  Reconciled(poll, g) \in Slot /\ Consistent(Reconciled(poll, g))
  <2>1. Healed(slot[g]) \in Slot /\ Consistent(Healed(slot[g]))
    BY DEF TypeOK, SlotConsistent, Healed, Slot, Consistent
  <2>2. poll.claim[g] \in Workers \cup {NoWorker}
    BY PollsAssumption
  <2>3. /\ Adopted(Healed(slot[g]), poll.claim[g]) \in Slot
        /\ Consistent(Adopted(Healed(slot[g]), poll.claim[g]))
    <3>1. Healed(slot[g]).state \in {"idle", "busy"}
      BY <2>1 DEF Slot
    <3>2. QED
      BY <2>1, <2>2, <3>1, SlotValues DEF Adopted
  <2>4. QED
    BY <2>3, WorkersAssumption DEF Reconciled, Slot, Empty, Consistent
<1>2. slot' \in [GPUs -> Slot] /\ SlotConsistent'
  BY <1>1 DEF Reconcile, SlotConsistent
<1>3. older' \in SUBSET (GPUs \X GPUs)
  BY DEF Reconcile, Restamped, TypeOK
<1>4. TypeOK' /\ HandlersOK'
  BY <1>2, <1>3 DEF Reconcile, TypeOK, HandlersOK
<1>5. InFlightExact'
  BY CounterKept DEF Reconcile
<1>6. QED
  BY <1>2, <1>4, <1>5

LEMMA NextIInv == IInv /\ [Next]_vars => IInv'
<1> SUFFICES ASSUME IInv, [Next]_vars PROVE IInv'
  OBVIOUS
<1> USE DEF IInv
<1>1. ASSUME NEW r \in Requests, NEW w \in Workers, Arrive(r, w)
      PROVE  IInv'
  <2>1. TypeOK'
    BY <1>1 DEF TypeOK, Arrive, Procs, Pc, Queueing
  <2>2. HandlersOK' /\ SlotConsistent'
    BY <1>1 DEF HandlersOK, SlotConsistent, TypeOK, Arrive, Queueing
  <2>3. InFlightExact'
    BY <1>1, CounterUp DEF Arrive
  <2>4. QED
    BY <2>1, <2>2, <2>3
<1>2. ASSUME NEW b \in Pickers, NEW w \in Workers, Boot(b, w)
      PROVE  IInv'
  <2>1. TypeOK'
    BY <1>2 DEF TypeOK, Boot, Pc, Queueing
  <2>2. HandlersOK' /\ SlotConsistent'
    BY <1>2 DEF HandlersOK, SlotConsistent, TypeOK, Boot, Queueing
  <2>3. InFlightExact'
    BY <1>2, ProcsAssumption, CounterKept DEF Boot, TypeOK, Procs
  <2>4. QED
    BY <2>1, <2>2, <2>3
<1>3. ASSUME NEW p \in Procs, Progress(p)
      PROVE  IInv'
  BY <1>3, ProgressIInv
<1>4. ASSUME NEW p \in Procs, Timeout(p)
      PROVE  IInv'
  <2>1. TypeOK'
    BY <1>4 DEF TypeOK, Timeout, GiveUp, Pc, Queueing
  <2>2. HandlersOK' /\ SlotConsistent'
    BY <1>4 DEF HandlersOK, SlotConsistent, TypeOK, Timeout, GiveUp, Queueing
  <2>3. InFlightExact'
    BY <1>4, CounterKept DEF Timeout, GiveUp, TypeOK, Procs
  <2>4. QED
    BY <2>1, <2>2, <2>3
<1>5. ASSUME NEW poll \in Polls, Reconcile(poll)
      PROVE  IInv'
  BY <1>5, ReconcileIInv
<1>6. CASE BackfillStart
  <2>1. TypeOK' /\ HandlersOK' /\ SlotConsistent'
    BY <1>6, CardsAssumption DEF BackfillStart, TypeOK, HandlersOK, SlotConsistent
  <2>2. QED
    BY <1>6, <2>1, CounterKept DEF BackfillStart
<1>7. CASE MarkGemmaLoaded
  <2>1. GemmaGpu \in GPUs /\ Warm(Gemma, "idle") \in Slot /\ Consistent(Warm(Gemma, "idle"))
    BY <1>7, SlotValues, WorkersAssumption DEF MarkGemmaLoaded, HandlersOK
  <2>2. TypeOK'
    BY <1>7, <2>1, OrderTypes DEF MarkGemmaLoaded, TypeOK
  <2>3. HandlersOK' /\ SlotConsistent'
    BY <1>7, <2>1 DEF MarkGemmaLoaded, TypeOK, HandlersOK, SlotConsistent
  <2>4. QED
    BY <1>7, <2>2, <2>3, CounterKept DEF MarkGemmaLoaded
<1>8. CASE BackfillFailed
  <2>1. TypeOK' /\ HandlersOK' /\ SlotConsistent'
    BY <1>8 DEF BackfillFailed, TypeOK, HandlersOK, SlotConsistent
  <2>2. QED
    BY <1>8, <2>1, CounterKept DEF BackfillFailed
<1>9. CASE UNCHANGED vars
  BY <1>9 DEF vars, TypeOK, HandlersOK, SlotConsistent, InFlightExact, Active
<1>10. QED
  BY <1>1, <1>2, <1>3, <1>4, <1>5, <1>6, <1>7, <1>8, <1>9 DEF Next

LEMMA InvariantHolds == Spec => []IInv
<1>1. QED
  BY InitIInv, NextIInv, PTL DEF Spec

\* The state stays well formed.
THEOREM TypeCorrect == Spec => []TypeOK
<1>1. IInv => TypeOK
  BY DEF IInv
<1>2. QED
  BY <1>1, InvariantHolds, PTL

\* Worker, residency and busy mark of a slot never disagree.
THEOREM SlotsConsistent == Spec => []SlotConsistent
<1>1. IInv => SlotConsistent
  BY DEF IInv
<1>2. QED
  BY <1>1, InvariantHolds, PTL

\* _in_flight is exactly the number of handlers, whatever the interleaving of
\* requests, boots, evictions, time-outs and heartbeats.
THEOREM CounterExact == Spec => []InFlightExact
<1>1. IInv => InFlightExact
  BY DEF IInv
<1>2. QED
  BY <1>1, InvariantHolds, PTL

LEMMA IInvNoHeal == IInv => NoHealUnderLoad
<1> SUFFICES ASSUME IInv, NEW r \in Requests, pc[r] = "running"
             PROVE  \A g \in GPUs : Healed(slot[g]) = slot[g]
  BY DEF NoHealUnderLoad
<1>1. Active # {}
  BY DEF Active
<1>2. inFlight # 0
  BY <1>1, ActiveFinite, FS_EmptySet DEF IInv, InFlightExact
<1>3. QED
  BY <1>2 DEF Healed

\* A heartbeat never demotes the card of a running request to idle.
THEOREM NoHealWhileRunning == Spec => []NoHealUnderLoad
BY IInvNoHeal, InvariantHolds, PTL

-----------------------------------------------------------------------------
(* Gemma's own card *)

\* A loop that evicts has somebody else's card in hand.
GemmaSpared == \A p \in Procs : pc[p] = "evicting" => card[p] \notin {NoGpu, GemmaGpu}

EvictsOther == IInv /\ GemmaSpared

LEMMA EvictsOtherHolds == Spec => []EvictsOther
<1>1. Init => EvictsOther
  BY InitIInv DEF EvictsOther, GemmaSpared, Init
<1>2. EvictsOther /\ [Next]_vars => EvictsOther'
  <2> SUFFICES ASSUME EvictsOther, [Next]_vars PROVE EvictsOther'
    OBVIOUS
  <2> USE DEF EvictsOther
  <2>1. IInv'
    BY NextIInv
  <2>2. ASSUME NEW p \in Procs, NEW sl, NEW ord, NEW pcs \in {pc, NotifyAll(pc)},
               Turn(p, sl, ord, pcs)
        PROVE  GemmaSpared'
    <3>1. /\ pcs \in [Procs -> Pc]
          /\ \A q \in Procs : pcs[q] = "evicting" => pc[q] = "evicting"
      BY NotifyType DEF IInv, TypeOK
    <3>2. ASSUME NEW g, Take(p, g, sl, ord, pcs)
          PROVE  GemmaSpared'
      BY <3>1, <3>2 DEF Take, GemmaSpared, IInv, TypeOK
    <3>3. ASSUME NEW g \in PickLruVictim(sl, ord, task[p]), card' = [card EXCEPT ![p] = g],
                 pc' = [pcs EXCEPT ![p] = "evicting"]
          PROVE  GemmaSpared'
      <4>1. g \in GPUs \ {GemmaGpu} /\ g # NoGpu
        BY VictimCards DEF GPUs, NoGpu
      <4>2. QED
        BY <3>1, <3>3, <4>1 DEF GemmaSpared, IInv, TypeOK
    <3>4. ASSUME pc' = [pcs EXCEPT ![p] = "waiting"], card' = [card EXCEPT ![p] = NoGpu]
          PROVE  GemmaSpared'
      BY <3>1, <3>4 DEF GemmaSpared, IInv, TypeOK
    <3>5. ASSUME GiveUp(p, pcs)
          PROVE  GemmaSpared'
      BY <3>1, <3>5 DEF GiveUp, GemmaSpared, IInv, TypeOK
    <3>6. QED
      BY <2>2, <3>2, <3>3, <3>4, <3>5 DEF Turn
  <2>3. ASSUME NEW p \in Procs, Progress(p)
        PROVE  GemmaSpared'
    <3>1. CASE p \in Requests /\ Release(p)
      <4>1. PICK pcs \in {pc, NotifyAll(pc)} :
              pc' = [pcs EXCEPT ![p] = "leaving"] /\ card' = [card EXCEPT ![p] = NoGpu]
        BY <3>1 DEF Release
      <4>2. pcs \in [Procs -> Pc] /\ \A q \in Procs : pcs[q] = "evicting" => pc[q] = "evicting"
        BY NotifyType DEF IInv, TypeOK
      <4>3. QED
        BY <4>1, <4>2 DEF GemmaSpared, IInv, TypeOK
    <3>2. CASE p \in Requests /\ (AcquireGemma(p) \/ Leave(p))
      BY <3>2 DEF AcquireGemma, Leave, GemmaSpared, IInv, TypeOK
    <3>3. QED
      BY <2>2, <2>3, <3>1, <3>2 DEF Progress, Acquire, PickForWorker, EvictDone
  <2>4. GemmaSpared'
    BY <2>3 DEF Next, vars, Arrive, Boot, Timeout, GiveUp, Reconcile, BackfillStart,
                MarkGemmaLoaded, BackfillFailed, GemmaSpared, IInv, TypeOK
  <2>5. QED
    BY <2>1, <2>4
<1>3. QED
  BY <1>1, <1>2, PTL DEF Spec

\* A turn of the loop gives gemma's card, while it has it, to gemma alone.
LEMMA TurnKeepsGemma ==
  ASSUME NEW p \in Procs, NEW sl \in [GPUs -> Slot], NEW ord, NEW pcs,
         Turn(p, sl, ord, pcs), NEW g \in GPUs, sl[g].worker = Gemma
  PROVE  slot'[g].worker = Gemma
<1>1. ASSUME NEW h \in Takeable(p, sl, ord), Take(p, h, sl, ord, pcs)
      PROVE  slot'[g].worker = Gemma
  <2>1. h \in GPUs
    BY TakeableCards
  <2>2. PICK st \in {"busy", "idle"} : slot' = [sl EXCEPT ![h] = Warm(task[p], st)]
    BY <1>1 DEF Take
  <2>3. CASE h # g
    BY <2>1, <2>2, <2>3
  <2>4. CASE h = g
    <3>1. \/ h \in PickIdleWarm(sl, ord, task[p])
          \/ h \in WarmGpuOf(sl, task[p])
          \/ h \in PickIdleGpu(sl)
      BY <1>1 DEF Takeable, Reusable
    <3>2. task[p] = Gemma
      BY <2>4, <3>1, WorkersAssumption DEF PickIdleWarm, Oldest, Warm, WarmGpuOf, PickIdleGpu
    <3>3. QED
      BY <2>1, <2>2, <2>4, <3>2 DEF Warm
  <2>5. QED
    BY <2>3, <2>4
<1>2. QED
  BY <1>1 DEF Turn

\* A heartbeat takes it only for the worker that claims it.
LEMMA ReconcileKeepsGemma ==
  ASSUME IInv, NEW poll \in Polls, Reconcile(poll),
         GemmaGpu \in GPUs, slot[GemmaGpu].worker = Gemma, slot'[GemmaGpu].worker # Gemma
  PROVE  poll.claim[GemmaGpu] = slot'[GemmaGpu].worker
<1>1. slot'[GemmaGpu] = Reconciled(poll, GemmaGpu)
  BY DEF Reconcile
<1>2. /\ poll.claim[GemmaGpu] \in poll.up \cup {NoWorker}
      /\ slot[GemmaGpu] \in Slot
  BY PollsAssumption DEF IInv, TypeOK
<1>3. Healed(slot[GemmaGpu]).worker = Gemma
  BY <1>2 DEF Healed, Slot
<1>4. CASE poll.claim[GemmaGpu] = NoWorker
  BY <1>1, <1>3, <1>4 DEF Reconciled, Adopted
<1>5. CASE poll.claim[GemmaGpu] \in poll.up /\ poll.claim[GemmaGpu] # NoWorker
  BY <1>1, <1>5 DEF Reconciled, Adopted, Warm
<1>6. QED
  BY <1>2, <1>4, <1>5

\* No request, boot, eviction or time-out takes the language model's card from
\* it: it changes hands only at a heartbeat that found another model there.
THEOREM GemmaNeverEvicted == Spec => GemmaCardKept
<1> DEFINE Kept == \A g \in GPUs \cap {GemmaGpu} :
                     slot[g].worker = Gemma /\ slot'[g].worker # Gemma
                       => \E poll \in Polls : Reconcile(poll) /\ poll.claim[g] = slot'[g].worker
<1>1. EvictsOther /\ [Next]_vars => Kept
  <2> SUFFICES ASSUME EvictsOther, [Next]_vars, GemmaGpu \in GPUs, slot[GemmaGpu].worker = Gemma,
                      slot'[GemmaGpu].worker # Gemma
               PROVE  \E poll \in Polls :
                        Reconcile(poll) /\ poll.claim[GemmaGpu] = slot'[GemmaGpu].worker
    OBVIOUS
  <2>1. slot \in [GPUs -> Slot]
    BY DEF EvictsOther, IInv, TypeOK
  <2>2. ASSUME NEW p \in Procs, Progress(p)
        PROVE  FALSE
    <3>1. ~ Acquire(p) /\ ~ PickForWorker(p)
      BY <2>1, TurnKeepsGemma DEF Acquire, PickForWorker
    <3>2. ~ EvictDone(p)
      <4> SUFFICES ASSUME EvictDone(p) PROVE FALSE
        OBVIOUS
      <4> DEFINE sl == [slot EXCEPT ![card[p]] = Empty]
      <4>1. card[p] # GemmaGpu
        BY DEF EvictDone, EvictsOther, GemmaSpared
      <4>2. sl \in [GPUs -> Slot] /\ sl[GemmaGpu].worker = Gemma
        BY <2>1, <4>1, WorkersAssumption DEF Slot, Empty
      <4>3. Turn(p, sl, Reset(older, card[p]), NotifyAll(pc))
        BY DEF EvictDone
      <4>4. QED
        BY <4>2, <4>3, TurnKeepsGemma
    <3>3. ~ Release(p) /\ ~ AcquireGemma(p) /\ ~ Leave(p)
      BY <2>1 DEF Release, AcquireGemma, Leave, Slot
    <3>4. QED
      BY <2>2, <3>1, <3>2, <3>3 DEF Progress
  <2>3. ~ MarkGemmaLoaded
    BY <2>1 DEF MarkGemmaLoaded, Warm
  <2>4. PICK poll \in Polls : Reconcile(poll)
    BY <2>2, <2>3 DEF Next, vars, Arrive, Boot, Timeout, BackfillStart, BackfillFailed
  <2>5. QED
    BY <2>4, ReconcileKeepsGemma DEF EvictsOther
<1>2. QED
  BY <1>1, EvictsOtherHolds, PTL DEF Spec, GemmaCardKept

-----------------------------------------------------------------------------
(* A running request keeps its card *)

\* No card in use is among those a turn of the loop hands out, but to a boot
\* call of the same worker.
LEMMA TakeableSpares ==
  ASSUME NEW p \in Procs, NEW sl, NEW ord, NEW w \in Workers,
         NEW g \in Takeable(p, sl, ord), sl[g] = Warm(w, "busy")
  PROVE  p \notin Requests /\ task[p] = w
<1>1. g \notin PickIdleGpu(sl)
  BY WorkersAssumption DEF PickIdleGpu, Warm
<1>2. g \notin PickIdleWarm(sl, ord, task[p])
  BY DEF PickIdleWarm, Oldest, Warm
<1>3. g \in WarmGpuOf(sl, task[p]) => task[p] = w
  BY DEF WarmGpuOf, Warm
<1>4. QED
  BY <1>1, <1>2, <1>3 DEF Takeable, Reusable

LEMMA TurnSpares ==
  ASSUME IInv, NEW p \in Procs, NEW sl \in [GPUs -> Slot], NEW ord,
         NEW pcs \in {pc, NotifyAll(pc)}, NEW g \in GPUs, NEW w \in Workers,
         sl[g] = Warm(w, "busy"), Turn(p, sl, ord, pcs),
         ~(p \in Pickers /\ task[p] = w /\ pc'[p] = "idle")
  PROVE  /\ slot'[g] = sl[g]
         /\ \A r \in Requests : pc'[r] = "running" /\ card'[r] = g => pc[r] = "running"
<1>1. /\ pcs \in [Procs -> Pc] /\ card \in [Procs -> GPUs \cup {NoGpu}] /\ Requests \subseteq Procs
      /\ \A q \in Procs : pcs[q] = "running" => pc[q] = "running"
  BY NotifyType DEF IInv, TypeOK, Procs
<1>2. ASSUME NEW h \in Takeable(p, sl, ord), Take(p, h, sl, ord, pcs)
      PROVE  /\ slot'[g] = sl[g]
             /\ \A r \in Requests : pc'[r] = "running" /\ card'[r] = g => pc[r] = "running"
  <2>1. h \in GPUs
    BY TakeableCards
  <2>2. h # g
    <3> SUFFICES ASSUME h = g PROVE FALSE
      OBVIOUS
    <3>1. p \notin Requests /\ task[p] = w
      BY TakeableSpares
    <3>2. p \in Pickers /\ pc' = [pcs EXCEPT ![p] = "idle"]
      BY <1>2, <3>1 DEF Take, Procs
    <3>3. QED
      BY <1>1, <3>1, <3>2
  <2>3. PICK st \in {"busy", "idle"}, at \in {"running", "idle"}, c \in {h, NoGpu} :
          /\ slot' = [sl EXCEPT ![h] = Warm(task[p], st)] /\ pc' = [pcs EXCEPT ![p] = at]
          /\ card' = [card EXCEPT ![p] = c]
    BY <1>2 DEF Take
  <2>4. slot'[g] = sl[g]
    BY <2>1, <2>2, <2>3
  <2>5. c # g
    BY <2>2, <2>3 DEF GPUs, NoGpu
  <2>6. QED
    BY <1>1, <2>3, <2>4, <2>5
<1>3. ASSUME slot' = sl, NEW at \in {"evicting", "waiting", "leaving", "idle"}, NEW c,
             pc' = [pcs EXCEPT ![p] = at], card' = [card EXCEPT ![p] = c]
      PROVE  /\ slot'[g] = sl[g]
             /\ \A r \in Requests : pc'[r] = "running" /\ card'[r] = g => pc[r] = "running"
  BY <1>1, <1>3
<1>4. QED
  BY <1>2, <1>3 DEF Turn, GiveUp

\* The mark of card g, and nobody new on it.
SparedBy(g) ==
    /\ slot'[g] = slot[g]
    /\ \A r \in Requests : pc'[r] = "running" /\ card'[r] = g => pc[r] = "running"

LEMMA ProgressSpares ==
  ASSUME IInv, NEW s \in Requests, pc[s] = "running", pc'[s] = "running", card[s] # GemmaGpu,
         slot[card[s]] = Warm(task[s], "busy"), ~Preempted(s), NEW p \in Procs, Progress(p)
  PROVE  SparedBy(card[s])
<1> DEFINE g == card[s]
<1>1. /\ slot \in [GPUs -> Slot] /\ pc \in [Procs -> Pc] /\ Requests \subseteq Procs
      /\ card \in [Procs -> GPUs \cup {NoGpu}]
      /\ g \in GPUs /\ task[s] \in Workers
      /\ \A r \in Requests : pc[r] = "running" => card[r] \in GPUs
  BY DEF IInv, TypeOK, HandlersOK, Procs
<1>2. pc[p] \in Queueing => p # s
  BY DEF Queueing
<1>3. ~(p \in Pickers /\ pc[p] # "idle" /\ task[p] = task[s] /\ pc'[p] = "idle")
  BY DEF Preempted
<1>4. CASE p \in Requests /\ AcquireGemma(p)
  BY <1>1, <1>4 DEF AcquireGemma, SparedBy
<1>5. CASE (p \in Requests /\ Acquire(p)) \/ (p \in Pickers /\ PickForWorker(p))
  <2>1. Turn(p, slot, older, pc) /\ pc[p] # "idle"
    BY <1>5 DEF Acquire, PickForWorker
  <2>2. QED
    BY <1>1, <1>3, <2>1, TurnSpares DEF SparedBy
<1>6. CASE EvictDone(p)
  <2> DEFINE sl == [slot EXCEPT ![card[p]] = Empty]
  <2>1. card[p] # g /\ pc[p] # "idle"
    BY <1>6 DEF Preempted, EvictDone
  <2>2. sl \in [GPUs -> Slot] /\ sl[g] = slot[g]
    BY <1>1, <2>1, WorkersAssumption DEF Slot, Empty
  <2>3. Turn(p, sl, Reset(older, card[p]), NotifyAll(pc))
    BY <1>6 DEF EvictDone
  <2> HIDE DEF sl
  <2>4. /\ slot'[g] = sl[g]
        /\ \A r \in Requests : pc'[r] = "running" /\ card'[r] = g => pc[r] = "running"
    BY <1>1, <1>3, <2>1, <2>2, <2>3, TurnSpares
  <2>5. QED
    BY <2>2, <2>4 DEF SparedBy
<1>7. CASE p \in Requests /\ Release(p)
  <2>1. PICK pcs \in {pc, NotifyAll(pc)} : pc' = [pcs EXCEPT ![p] = "leaving"]
    BY <1>7 DEF Release
  <2>2. pcs \in [Procs -> Pc] /\ \A q \in Procs : pcs[q] = "running" => pc[q] = "running"
    BY <1>1, <2>1, NotifyType
  <2>3. p # s /\ card[p] # g
    BY <1>1, <1>7, <2>1, <2>2 DEF Preempted
  <2>4. slot'[g] = slot[g]
    BY <1>1, <1>7, <2>3 DEF Release
  <2>5. QED
    BY <1>1, <2>1, <2>2, <2>4 DEF SparedBy
<1>8. CASE p \in Requests /\ Leave(p)
  BY <1>1, <1>8 DEF Leave, SparedBy
<1>9. QED
  BY <1>4, <1>5, <1>6, <1>7, <1>8 DEF Progress

\* A heartbeat that heard the worker, and nobody else on its card, changes
\* nothing there: the request is in flight, so nothing is healed.
LEMMA ReconcileSpares ==
  ASSUME IInv, NEW s \in Requests, pc[s] = "running", slot[card[s]] = Warm(task[s], "busy"),
         ~Preempted(s), NEW poll \in Polls, Reconcile(poll)
  PROVE  SparedBy(card[s])
<1>1. slot \in [GPUs -> Slot] /\ card[s] \in GPUs /\ task[s] \in Workers
  BY DEF IInv, TypeOK, HandlersOK, Procs
<1>2. Healed(slot[card[s]]) = slot[card[s]]
  BY <1>1, IInvNoHeal DEF NoHealUnderLoad
<1>3. poll.claim[card[s]] \in {task[s], NoWorker} /\ task[s] \in poll.up
  BY DEF Preempted
<1>4. Adopted(slot[card[s]], poll.claim[card[s]]) = slot[card[s]]
  <2>1. slot[card[s]].state = "busy"
    BY DEF Warm
  <2>2. Adopted(slot[card[s]], task[s]) = slot[card[s]]
    BY <2>1 DEF Adopted
  <2>3. Adopted(slot[card[s]], NoWorker) = slot[card[s]]
    BY DEF Adopted
  <2>4. QED
    BY <1>3, <2>2, <2>3
<1>5. Reconciled(poll, card[s]) = slot[card[s]]
  BY <1>2, <1>3, <1>4 DEF Reconciled, Warm
<1>6. slot'[card[s]] = slot[card[s]]
  BY <1>1, <1>5 DEF Reconcile
<1>7. QED
  BY <1>6 DEF Reconcile, SparedBy

\* A request keeps its card to itself until an eviction, a boot call of its own
\* worker, the end of a request it already shares the card with, or a heartbeat
\* takes the card from it.
THEOREM RunningKeepsCard == Spec => CardKept
<1> DEFINE Keeps == \A s \in Requests :
         pc[s] = "running" /\ pc'[s] = "running" /\ card[s] # GemmaGpu
         /\ slot[card[s]] = Warm(task[s], "busy")
           => \/ /\ slot'[card[s]] = Warm(task[s], "busy")
                 /\ \A r \in Requests :
                      pc'[r] = "running" /\ card'[r] = card[s] => pc[r] = "running"
              \/ Preempted(s)
<1>1. IInv /\ [Next]_vars => Keeps
  <2> SUFFICES ASSUME IInv, [Next]_vars, NEW s \in Requests, pc[s] = "running",
                      pc'[s] = "running", card[s] # GemmaGpu,
                      slot[card[s]] = Warm(task[s], "busy"), ~Preempted(s)
               PROVE  SparedBy(card[s])
    BY DEF SparedBy
  <2>1. /\ slot \in [GPUs -> Slot] /\ pc \in [Procs -> Pc] /\ Requests \subseteq Procs
        /\ card[s] \in GPUs /\ backfill => GemmaGpu \in GPUs
    BY DEF IInv, TypeOK, HandlersOK, Procs
  <2>2. ASSUME NEW q \in Procs, NEW w \in Workers, Arrive(q, w) \/ Boot(q, w)
        PROVE  SparedBy(card[s])
    BY <2>1, <2>2 DEF Arrive, Boot, SparedBy
  <2>3. ASSUME NEW p \in Procs, Timeout(p)
        PROVE  SparedBy(card[s])
    <3>1. slot' = slot /\ \E at \in {"leaving", "idle"} : pc' = [pc EXCEPT ![p] = at]
      BY <2>3 DEF Timeout, GiveUp
    <3>2. QED
      BY <2>1, <3>1 DEF SparedBy
  <2>4. CASE BackfillStart \/ BackfillFailed \/ UNCHANGED vars
    BY <2>4 DEF BackfillStart, BackfillFailed, vars, SparedBy
  <2>5. CASE MarkGemmaLoaded
    BY <2>1, <2>5 DEF MarkGemmaLoaded, SparedBy
  <2>6. QED
    BY <2>2, <2>3, <2>4, <2>5, ProgressSpares, ReconcileSpares DEF Next, Procs
<1>2. CardKept <=> [][Keeps]_vars
  BY DEF CardKept
<1>3. QED
  BY <1>1, <1>2, InvariantHolds, PTL DEF Spec

-----------------------------------------------------------------------------
(* The order of use, and the cards that are chosen by it *)

StrictOrder(ord) ==
    /\ \A g \in GPUs : <<g, g>> \notin ord
    /\ \A f, g, h \in GPUs : <<f, g>> \in ord /\ <<g, h>> \in ord => <<f, h>> \in ord

\* A set of cards that is not empty has an oldest one: the sets of the cards
\* before each of them cannot shrink for ever.
LEMMA OldestExists ==
  ASSUME NEW ord \in SUBSET (GPUs \X GPUs), StrictOrder(ord), NEW T \in SUBSET GPUs, T # {}
  PROVE  Oldest(T, ord) # {}
<1> DEFINE before(g) == {h \in GPUs : <<h, g>> \in ord}
           family == {before(g) : g \in T}
           R == StrictSubsetOrdering(GPUs)
<1>1. IsFiniteSet(GPUs)
  BY CardsAssumption, FS_Interval DEF GPUs
<1>2. IsWellFoundedOn(R, SUBSET GPUs)
  BY <1>1, FS_StrictSubsetOrderingWellFounded, FS_FiniteSubsetsOfFinite
<1>3. family \subseteq SUBSET GPUs /\ family # {}
  OBVIOUS
<1>4. PICK b \in family : \A c \in family : <<c, b>> \notin R
  <2> HIDE DEF family, R
  <2>1. QED
    BY <1>2, <1>3, WFMin
<1>5. PICK g \in T : b = before(g)
  OBVIOUS
<1>6. ASSUME NEW h \in T, <<h, g>> \in ord
      PROVE  FALSE
  <2>1. before(h) \subseteq before(g)
    BY <1>6 DEF StrictOrder
  <2>2. h \in before(g) /\ h \notin before(h)
    BY <1>6 DEF StrictOrder
  <2>3. <<before(h), before(g)>> \in R
    BY <2>1, <2>2 DEF StrictSubsetOrdering
  <2>4. QED
    BY <1>4, <1>5, <2>3
<1>7. QED
  BY <1>6 DEF Oldest

\* The least card of a set.
LEMMA LeastCard ==
  ASSUME NEW T \in SUBSET GPUs, T # {}
  PROVE  \E g \in T : \A h \in T : g <= h
<1> DEFINE ord == {e \in GPUs \X GPUs : e[1] < e[2]}
<1>1. GPUs \subseteq Int
  BY CardsAssumption DEF GPUs
<1>2. \A g, h \in GPUs : <<g, h>> \in ord <=> g < h
  OBVIOUS
<1>3. ord \in SUBSET (GPUs \X GPUs) /\ StrictOrder(ord)
  BY <1>1, <1>2 DEF StrictOrder
<1> HIDE DEF ord
<1>4. PICK g \in T : \A h \in T : <<h, g>> \notin ord
  BY <1>3, OldestExists DEF Oldest
<1>5. ASSUME NEW h \in T PROVE g <= h
  <2>1. g \in Int /\ h \in Int /\ ~(h < g)
    BY <1>1, <1>2, <1>4
  <2>2. QED
    BY <2>1
<1>6. QED
  BY <1>5

\* What the loop finds is there exactly when a card is.
LEMMA FreeCardFound ==
  ASSUME NEW sl, NEW g \in GPUs, sl[g].worker = NoWorker, ~sl[g].resident
  PROVE  PickIdleGpu(sl) # {}
<1> DEFINE free == {h \in GPUs : sl[h].worker = NoWorker /\ ~sl[h].resident}
           best == IF free \subseteq {GemmaGpu} THEN free ELSE free \ {GemmaGpu}
<1>1. best \in SUBSET GPUs /\ best # {}
  OBVIOUS
<1> HIDE DEF best
<1>2. PICK h \in best : \A k \in best : h <= k
  BY <1>1, LeastCard
<1>3. PickIdleGpu(sl) = {i \in best : \A k \in best : i <= k}
  BY DEF PickIdleGpu, best
<1>4. QED
  BY <1>2, <1>3

LEMMA WarmCardFound ==
  ASSUME NEW sl, NEW w, NEW g \in GPUs, sl[g].worker = w
  PROVE  WarmGpuOf(sl, w) # {}
<1> DEFINE T == {h \in GPUs : sl[h].worker = w}
<1>1. T \in SUBSET GPUs /\ T # {}
  OBVIOUS
<1>2. PICK h \in T : \A k \in T : h <= k
  BY <1>1, LeastCard
<1>3. \A k \in 0 .. h - 1 : k \in GPUs /\ ~(h <= k)
  BY CardsAssumption DEF GPUs
<1>4. QED
  BY <1>2, <1>3 DEF WarmGpuOf

LEMMA StrictOrderKept ==
  ASSUME NEW ord \in SUBSET (GPUs \X GPUs), StrictOrder(ord), NEW g \in GPUs
  PROVE  StrictOrder(Touch(ord, g)) /\ StrictOrder(Reset(ord, g))
BY DEF StrictOrder, Touch, Reset

\* What the heartbeat stamps is an order: cards of silent workers first, then
\* those nobody claimed, then the claimed ones in the order of the poll.
LEMMA StrictOrderRestamped ==
  ASSUME TypeOK, StrictOrder(older), NEW poll \in Polls
  PROVE  StrictOrder(Restamped(poll))
<1> DEFINE seen  == {g \in GPUs : poll.claim[g] # NoWorker}
           freed == {g \in GPUs \ seen : slot[g] # Empty /\ Reconciled(poll, g) = Empty}
           kept  == GPUs \ (seen \cup freed)
<1>1. /\ seen \subseteq GPUs /\ freed \subseteq GPUs /\ kept \subseteq GPUs
      /\ seen \cap freed = {} /\ seen \cap kept = {} /\ freed \cap kept = {}
      /\ GPUs = seen \cup freed \cup kept
  OBVIOUS
<1>2. \A g \in seen : poll.claim[g] \in Workers /\ PollRank[poll.claim[g]] \in Nat /\ g \in Int
  BY PollsAssumption, CardsAssumption DEF GPUs
<1>3. /\ \A g \in seen : ~StampedBefore(poll, g, g)
      /\ \A f, g, h \in seen :
           StampedBefore(poll, f, g) /\ StampedBefore(poll, g, h) => StampedBefore(poll, f, h)
  BY <1>2 DEF StampedBefore
<1>4. Restamped(poll) = {e \in older : e[1] \in kept /\ e[2] \in kept}
        \cup {e \in older : e[1] \in freed /\ e[2] \in freed}
        \cup (freed \X (kept \cup seen)) \cup (kept \X seen)
        \cup {e \in seen \X seen : StampedBefore(poll, e[1], e[2])}
  BY DEF Restamped
<1> HIDE DEF seen, freed, kept
<1>5. \A g, h \in GPUs : <<g, h>> \in Restamped(poll) <=>
        \/ g \in kept /\ h \in kept /\ <<g, h>> \in older
        \/ g \in freed /\ h \in freed /\ <<g, h>> \in older
        \/ g \in freed /\ h \in kept \cup seen
        \/ g \in kept /\ h \in seen
        \/ g \in seen /\ h \in seen /\ StampedBefore(poll, g, h)
  BY <1>4
<1>6. \A g \in GPUs : <<g, g>> \notin Restamped(poll)
  BY <1>1, <1>3, <1>5 DEF StrictOrder
<1>7. ASSUME NEW f \in GPUs, NEW g \in GPUs, NEW h \in GPUs,
             <<f, g>> \in Restamped(poll), <<g, h>> \in Restamped(poll)
      PROVE  <<f, h>> \in Restamped(poll)
  <2>1. CASE f \in freed
    BY <1>1, <1>5, <1>7, <2>1 DEF StrictOrder
  <2>2. CASE f \in kept
    BY <1>1, <1>5, <1>7, <2>2 DEF StrictOrder
  <2>3. CASE f \in seen
    BY <1>1, <1>3, <1>5, <1>7, <2>3
  <2>4. QED
    BY <1>1, <2>1, <2>2, <2>3
<1>8. QED
  BY <1>6, <1>7 DEF StrictOrder

\* The invariant with what evictions and the order of use add.
Ordered == EvictsOther /\ StrictOrder(older)

LEMMA OrderedHolds == Spec => []Ordered
<1>1. Init => StrictOrder(older)
  <2> SUFFICES ASSUME Init PROVE StrictOrder(older)
    OBVIOUS
  <2>1. GPUs \subseteq Int
    BY CardsAssumption DEF GPUs
  <2>2. \A g, h \in GPUs : <<g, h>> \in older <=> g # GemmaGpu /\ (g < h \/ h = GemmaGpu)
    BY DEF Init
  <2>3. QED
    BY <2>1, <2>2 DEF StrictOrder
<1>2. IInv /\ StrictOrder(older) /\ [Next]_vars => StrictOrder(older)'
  <2> SUFFICES ASSUME IInv, StrictOrder(older), [Next]_vars PROVE StrictOrder(older')
    BY DEF StrictOrder
  <2> USE DEF IInv
  <2>1. older \in SUBSET (GPUs \X GPUs)
    BY DEF TypeOK
  <2>2. ASSUME NEW p \in Procs, NEW sl, NEW pcs, NEW ord \in SUBSET (GPUs \X GPUs),
               StrictOrder(ord), Turn(p, sl, ord, pcs)
        PROVE  StrictOrder(older')
    <3>1. older' = ord \/ \E g \in GPUs : older' = Touch(ord, g)
      BY <2>2, TakeableCards DEF Turn, Take
    <3>2. QED
      BY <2>2, <3>1, StrictOrderKept
  <2>3. ASSUME NEW p \in Procs, Progress(p) PROVE StrictOrder(older')
    <3>1. CASE Acquire(p) \/ PickForWorker(p)
      BY <2>1, <2>2, <3>1 DEF Acquire, PickForWorker
    <3>2. CASE EvictDone(p)
      <4>1. card[p] \in GPUs
        BY <3>2 DEF EvictDone, HandlersOK
      <4>2. /\ Reset(older, card[p]) \in SUBSET (GPUs \X GPUs)
            /\ StrictOrder(Reset(older, card[p]))
        BY <2>1, <4>1, OrderTypes, StrictOrderKept
      <4>3. QED
        BY <2>2, <3>2, <4>2 DEF EvictDone
    <3>3. CASE p \in Requests /\ (AcquireGemma(p) \/ Release(p) \/ Leave(p))
      <4>1. older' = older \/ \E g \in GPUs : older' = Touch(older, g)
        BY <3>3, CardsAssumption DEF AcquireGemma, Release, Leave, HandlersOK, Procs
      <4>2. QED
        BY <2>1, <4>1, StrictOrderKept
    <3>4. QED
      BY <2>3, <3>1, <3>2, <3>3 DEF Progress
  <2>4. ASSUME NEW poll \in Polls, Reconcile(poll) PROVE StrictOrder(older')
    BY <2>4, StrictOrderRestamped DEF Reconcile
  <2>5. CASE MarkGemmaLoaded
    BY <2>1, <2>5, StrictOrderKept DEF MarkGemmaLoaded, HandlersOK
  <2>6. CASE older' = older
    BY <2>6
  <2>7. QED
    BY <2>3, <2>4, <2>5, <2>6 DEF Next, vars, Arrive, Boot, Timeout, BackfillStart, BackfillFailed
<1>3. QED
  BY <1>1, <1>2, EvictsOtherHolds, PTL DEF Spec, Ordered, EvictsOther

-----------------------------------------------------------------------------
(* Evictions *)

\* The steps that take a handler out of its eviction are its own.
LEMMA EvictsUntilDone ==
  ASSUME IInv, [Next]_vars, NEW p \in Procs, pc[p] = "evicting", pc'[p] # "evicting"
  PROVE  EvictDone(p)
<1> USE DEF IInv, TypeOK
<1>1. ASSUME NEW q \in Procs, NEW sl, NEW ord, NEW pcs \in {pc, NotifyAll(pc)},
             Turn(q, sl, ord, pcs), q # p
      PROVE  pc'[p] = "evicting"
  <2>1. pcs \in [Procs -> Pc] /\ pcs[p] = "evicting"
    BY NotifyType
  <2>2. \E at : pc' = [pcs EXCEPT ![q] = at]
    BY <1>1 DEF Turn, Take, GiveUp
  <2>3. QED
    BY <1>1, <2>1, <2>2
<1>2. ASSUME NEW q \in Procs, Progress(q), ~EvictDone(p)
      PROVE  FALSE
  <2>1. CASE q \in Requests /\ Release(q)
    <3>1. q # p
      BY <2>1 DEF Release
    <3>2. PICK pcs \in {pc, NotifyAll(pc)} : pc' = [pcs EXCEPT ![q] = "leaving"]
      BY <2>1 DEF Release
    <3>3. pcs \in [Procs -> Pc] /\ pcs[p] = "evicting"
      BY NotifyType
    <3>4. QED
      BY <3>1, <3>2, <3>3
  <2>2. CASE q \in Requests /\ (AcquireGemma(q) \/ Leave(q))
    BY <2>2 DEF AcquireGemma, Leave
  <2>3. CASE (q \in Requests /\ Acquire(q)) \/ (q \in Pickers /\ PickForWorker(q))
    <3>1. q # p /\ Turn(q, slot, older, pc)
      BY <2>3 DEF Acquire, PickForWorker
    <3>2. QED
      BY <1>1, <3>1
  <2>4. CASE EvictDone(q)
    <3>1. q # p
      BY <1>2, <2>4
    <3>2. QED
      BY <1>1, <2>4, <3>1 DEF EvictDone
  <2>5. QED
    BY <1>2, <2>1, <2>2, <2>3, <2>4 DEF Progress
<1>3. QED
  BY <1>2 DEF Next, vars, Arrive, Boot, Timeout, GiveUp, Reconcile, BackfillStart, MarkGemmaLoaded,
              BackfillFailed, Procs

\* An eviction is never wasted: the turn that follows it finds the card it
\* cleared, whatever else changed while the hook ran, so that the loop that
\* paid for it neither waits, nor times out, nor evicts again.
THEOREM EvictionsPayOff == Spec => EvictionPaysOff
<1> DEFINE Paid == \A p \in Procs :
         pc[p] = "evicting" /\ pc'[p] # "evicting"
           => \/ p \in Requests /\ pc'[p] = "running" /\ slot'[card'[p]] = Warm(task[p], "busy")
              \/ p \in Pickers /\ pc'[p] = "idle"
                 /\ \E g \in GPUs : slot'[g] = Warm(task[p], "idle")
<1>1. EvictsOther /\ [Next]_vars => Paid
  <2> SUFFICES ASSUME EvictsOther, [Next]_vars, NEW p \in Procs,
                      pc[p] = "evicting", pc'[p] # "evicting"
               PROVE  \/ p \in Requests /\ pc'[p] = "running"
                         /\ slot'[card'[p]] = Warm(task[p], "busy")
                      \/ p \in Pickers /\ pc'[p] = "idle"
                         /\ \E g \in GPUs : slot'[g] = Warm(task[p], "idle")
    OBVIOUS
  <2> USE DEF EvictsOther
  <2> DEFINE sl  == [slot EXCEPT ![card[p]] = Empty]
             ord == Reset(older, card[p])
             pcs == NotifyAll(pc)
  <2>1. Turn(p, sl, ord, pcs)
    BY EvictsUntilDone DEF EvictDone
  <2>2. /\ slot \in [GPUs -> Slot] /\ card \in [Procs -> GPUs \cup {NoGpu}]
        /\ card[p] \in GPUs \ {GemmaGpu} /\ pcs \in [Procs -> Pc]
    BY NotifyType DEF IInv, TypeOK, HandlersOK, GemmaSpared
  <2>3. sl[card[p]].worker = NoWorker /\ ~sl[card[p]].resident /\ DOMAIN sl = GPUs
    BY <2>2 DEF Empty
  <2> HIDE DEF sl, ord, pcs
  <2>4. Takeable(p, sl, ord) # {}
    BY <2>2, <2>3, FreeCardFound DEF Takeable
  <2>5. PICK g \in Takeable(p, sl, ord) : Take(p, g, sl, ord, pcs)
    BY <2>1, <2>4 DEF Turn
  <2>6. g \in GPUs
    BY TakeableCards
  <2>7. CASE p \in Requests
    <3>1. /\ slot' = [sl EXCEPT ![g] = Warm(task[p], "busy")]
          /\ pc' = [pcs EXCEPT ![p] = "running"] /\ card' = [card EXCEPT ![p] = g]
      BY <2>5, <2>7 DEF Take
    <3>2. QED
      BY <2>2, <2>3, <2>6, <2>7, <3>1
  <2>8. CASE p \notin Requests
    <3>1. /\ slot' = [sl EXCEPT ![g] = Warm(task[p], "idle")] /\ pc' = [pcs EXCEPT ![p] = "idle"]
      BY <2>5, <2>8 DEF Take
    <3>2. QED
      BY <2>2, <2>3, <2>6, <2>8, <3>1 DEF Procs
  <2>9. QED
    BY <2>7, <2>8
<1>2. EvictionPaysOff <=> [][Paid]_vars
  BY DEF EvictionPaysOff
<1>3. QED
  BY <1>1, <1>2, EvictsOtherHolds, PTL DEF Spec

-----------------------------------------------------------------------------
(* Sleepers *)

\* Whether a card can be had depends on the slots alone, for every order.
LEMMA ServableBySlots ==
  ASSUME NEW p, NEW sl, NEW o1 \in SUBSET (GPUs \X GPUs), StrictOrder(o1), NEW o2,
         Servable(p, sl, o2)
  PROVE  Servable(p, sl, o1)
<1>1. \A T \in SUBSET GPUs : Oldest(T, o2) # {} => Oldest(T, o1) # {}
  BY OldestExists DEF Oldest
<1>2. \A w : PickIdleWarm(sl, o2, w) # {} => PickIdleWarm(sl, o1, w) # {}
  BY <1>1 DEF PickIdleWarm
<1>3. \A w : PickLruVictim(sl, o2, w) # {} => PickLruVictim(sl, o1, w) # {}
  BY <1>1 DEF PickLruVictim
<1>4. QED
  BY <1>2, <1>3 DEF Servable, Takeable, Reusable

\* A request that takes a card serves no sleeper by it: a card that was free
\* was there for everyone, and one it reuses keeps its worker.
LEMMA TakingServesNobody ==
  ASSUME IInv, StrictOrder(older), NEW p \in Procs, NEW r \in Requests,
         NEW g \in Takeable(r, slot, older), slot' = [slot EXCEPT ![g] = Warm(task[r], "busy")],
         NEW o, Servable(p, slot', o)
  PROVE  Servable(p, slot, older)
<1>1. /\ slot \in [GPUs -> Slot] /\ older \in SUBSET (GPUs \X GPUs) /\ g \in GPUs
      /\ task[p] \in Workers \cup {NoWorker}
  BY TakeableCards DEF IInv, TypeOK
<1>2. CASE PickIdleGpu(slot) # {}
  BY <1>2 DEF Servable, Takeable
<1>3. CASE PickIdleGpu(slot) = {}
  <2>1. slot[g] = Warm(task[r], "idle")
    BY <1>3 DEF Takeable, Reusable, PickIdleWarm, Oldest
  <2>2. /\ \A h \in GPUs : slot'[h].worker = slot[h].worker /\ slot'[h].resident = slot[h].resident
        /\ \A h \in GPUs : \A w : slot'[h] = Warm(w, "idle") => slot[h] = Warm(w, "idle")
    <3>1. slot'[g] = Warm(task[r], "busy") /\ \A h \in GPUs \ {g} : slot'[h] = slot[h]
      BY <1>1
    <3>2. /\ Warm(task[r], "busy").worker = Warm(task[r], "idle").worker
          /\ Warm(task[r], "busy").resident = Warm(task[r], "idle").resident
          /\ \A w : Warm(task[r], "busy") # Warm(w, "idle")
      <4>1. \A w, st : Warm(w, st).state = st
        BY DEF Warm
      <4>2. QED
        BY <4>1 DEF Warm
    <3>3. QED
      BY <2>1, <3>1, <3>2
  <2>3. PickIdleGpu(slot') = PickIdleGpu(slot)
    BY <2>2 DEF PickIdleGpu
  <2>4. PickLruVictim(slot', o, task[p]) = PickLruVictim(slot, o, task[p])
    BY <2>2 DEF PickLruVictim
  <2>5. WarmGpuOf(slot', task[p]) # {} => WarmGpuOf(slot, task[p]) # {}
    BY <2>2, WarmCardFound DEF WarmGpuOf
  <2>6. PickIdleWarm(slot', o, task[p]) # {} => PickIdleWarm(slot, older, task[p]) # {}
    <3> DEFINE T(sl) == {h \in GPUs : sl[h] = Warm(task[p], "idle")}
    <3>1. T(slot') \subseteq T(slot)
      BY <2>2
    <3>2. T(slot) # {} => Oldest(T(slot), older) # {}
      BY <1>1, OldestExists
    <3>3. QED
      BY <3>1, <3>2 DEF PickIdleWarm, Oldest
  <2>7. Servable(p, slot, o) \/ Servable(p, slot, older)
    BY <2>3, <2>4, <2>5, <2>6 DEF Servable, Takeable, Reusable
  <2>8. QED
    BY <1>1, <2>7, ServableBySlots
<1>4. QED
  BY <1>2, <1>3

\* Each change of a request that frees a card wakes the whole queue: a sleeper
\* the step leaves asleep could be served after it only if it could before.
THEOREM SleepersAreWoken == Spec => NoMissedWakeup
<1> DEFINE Woken == \A p \in Procs, r \in Requests :
         pc[p] = "waiting" /\ pc'[p] = "waiting" /\ pc'[r] # pc[r] =>
           (Servable(p, slot', older') => Servable(p, slot, older))
<1>1. Ordered /\ [Next]_vars => Woken
  <2> SUFFICES ASSUME Ordered, [Next]_vars, NEW p \in Procs, NEW r \in Requests,
                      pc[p] = "waiting", pc'[p] = "waiting", pc'[r] # pc[r],
                      Servable(p, slot', older')
               PROVE  Servable(p, slot, older)
    OBVIOUS
  <2> USE DEF Ordered, EvictsOther
  <2>1. /\ older \in SUBSET (GPUs \X GPUs) /\ pc \in [Procs -> Pc] /\ r \in Procs /\ r \notin Pickers
        /\ NotifyAll(pc) \in [Procs -> Pc] /\ NotifyAll(pc)[p] = "woken" /\ r # p
    BY ProcsAssumption, NotifyType DEF IInv, TypeOK, Procs, NotifyAll
  <2>2. ASSUME slot' = slot
        PROVE  Servable(p, slot, older)
    BY <2>1, <2>2, ServableBySlots
  <2>3. ASSUME NEW q \in Procs, Progress(q)
        PROVE  Servable(p, slot, older)
    <3>1. CASE q \in Requests /\ Acquire(q)
      <4>1. Turn(q, slot, older, pc)
        BY <3>1 DEF Acquire
      <4>2. ASSUME NEW g \in Takeable(q, slot, older), Take(q, g, slot, older, pc)
            PROVE  Servable(p, slot, older)
        <5>1. slot' = [slot EXCEPT ![g] = Warm(task[q], "busy")]
          BY <3>1, <4>2 DEF Take
        <5>2. QED
          BY <3>1, <5>1, TakingServesNobody
      <4>3. QED
        BY <2>2, <4>1, <4>2 DEF Turn
    <3>2. CASE q \in Requests /\ Release(q)
      <4>1. slot' = slot \/ pc' = [NotifyAll(pc) EXCEPT ![q] = "leaving"]
        BY <3>2 DEF Release
      <4>2. q # p
        BY <3>2 DEF Release
      <4>3. QED
        BY <2>1, <2>2, <4>1, <4>2
    <3>3. CASE q \in Requests /\ (AcquireGemma(q) \/ Leave(q))
      BY <2>2, <3>3 DEF AcquireGemma, Leave
    <3>4. ~(q \in Pickers /\ PickForWorker(q))
      <4> SUFFICES ASSUME q \in Pickers, PickForWorker(q) PROVE FALSE
        OBVIOUS
      <4>1. \E at : pc' = [pc EXCEPT ![q] = at]
        BY DEF PickForWorker, Turn, Take, GiveUp
      <4>2. QED
        BY <2>1, <4>1
    <3>5. ~EvictDone(q)
      <4> SUFFICES ASSUME EvictDone(q) PROVE FALSE
        OBVIOUS
      <4>1. q # p
        BY DEF EvictDone
      <4>2. \E at : pc' = [NotifyAll(pc) EXCEPT ![q] = at]
        BY DEF EvictDone, Turn, Take, GiveUp
      <4>3. QED
        BY <2>1, <4>1, <4>2
    <3>6. QED
      BY <2>3, <3>1, <3>2, <3>3, <3>4, <3>5 DEF Progress
  <2>4. QED
    BY <2>2, <2>3 DEF Next, vars, Arrive, Boot, Timeout, Reconcile, BackfillStart, MarkGemmaLoaded,
                      BackfillFailed
<1>2. NoMissedWakeup <=> [][Woken]_vars
  BY DEF NoMissedWakeup
<1>3. QED
  BY <1>1, <1>2, OrderedHolds, PTL DEF Spec
=============================================================================
