---------------------------- MODULE GpuScheduler ----------------------------
(***************************************************************************)
(* The live-runner's GPU scheduler: runner/live_runner/scheduler.py and    *)
(* the request accounting of runner/live_runner/server.py around it.       *)
(*                                                                         *)
(* One asyncio event loop runs every task below.  The scheduler's lock is  *)
(* never held across a suspension except inside Condition.wait (which      *)
(* gives it up) and around the evict hook (which drops it explicitly), so  *)
(* one critical section between two such points is one step.               *)
(*                                                                         *)
(* Requests are HTTP/WS handlers: acquire a card, run, release, answer.    *)
(* Pickers are POST /gpu-pick calls a worker container makes at boot; they *)
(* run the same loop and are not counted in _in_flight.  What the workers  *)
(* report in /info is the environment's choice, one member of Polls.       *)
(***************************************************************************)
EXTENDS Integers, FiniteSets

CONSTANTS
    GpuCount,     \* config.GPU_COUNT
    GemmaGpu,     \* config.GEMMA_RESIDENT_GPU, or NoGpu when it is None
    Workers,      \* names of the worker containers
    Gemma,        \* "gemma-worker"
    NoWorker,     \* GPUSlot.worker = None
    Requests,     \* request handlers that can be active at once
    Pickers,      \* gpu-pick calls that can be active at once
    PollRank,     \* place of a worker in config.WORKERS, the order of a poll
    Polls,        \* the /info reports a heartbeat may collect
    EvictWired    \* evict_cb is not None

NoGpu == -1
GPUs  == 0 .. GpuCount - 1
Procs == Requests \cup Pickers

ASSUME CardsAssumption   == GpuCount \in Nat /\ GemmaGpu \in GPUs \cup {NoGpu}
ASSUME WorkersAssumption == Gemma \in Workers /\ NoWorker \notin Workers
ASSUME ProcsAssumption   == Requests \cap Pickers = {} /\ IsFiniteSet(Requests)
ASSUME EvictAssumption   == EvictWired \in BOOLEAN
ASSUME PollsAssumption   ==
    /\ PollRank \in [Workers -> Nat]
    /\ \A poll \in Polls :
         /\ poll.up \subseteq Workers
         /\ poll.claim \in [GPUs -> poll.up \cup {NoWorker}]

VARIABLES
    slot,       \* _slots
    older,      \* <<g, h>> when g.last_used is below h.last_used
    pc,         \* where each handler is
    task,       \* the worker a handler asks for
    card,       \* the card a handler holds, or is evicting
    inFlight,   \* _in_flight
    backfill    \* the idle backfill loop is awaiting ensure(gemma)

vars == <<slot, older, pc, task, card, inFlight, backfill>>

-----------------------------------------------------------------------------
(* Slots and their order of use *)

Slot  == [worker : Workers \cup {NoWorker}, state : {"idle", "busy"}, resident : BOOLEAN]
Empty == [worker |-> NoWorker, state |-> "idle", resident |-> FALSE]
Warm(w, st) == [worker |-> w, state |-> st, resident |-> TRUE]

\* last_used = time.monotonic(): g becomes the most recent card.
Touch(ord, g) == (ord \ ({g} \X GPUs)) \cup ((GPUs \ {g}) \X {g})

\* last_used = 0.0: g becomes the least recent card.
Reset(ord, g) == (ord \ (GPUs \X {g})) \cup ({g} \X (GPUs \ {g}))

\* The members of S no other member is older than.
Oldest(S, ord) == {g \in S : \A h \in S : <<h, g>> \notin ord}

\* Mutant: a warm card is reused while it runs.
PickAnyWarm(sl, ord, w) ==
    Oldest({g \in GPUs : sl[g].worker = w /\ sl[g].resident}, ord)

\* acquire only reuses a card of its worker that is resident and idle.
PickIdleWarm(sl, ord, w) ==
    Oldest({g \in GPUs : sl[g] = Warm(w, "idle")}, ord)

\* The first slot of w in card order, whatever its state.
WarmGpuOf(sl, w) ==
    {g \in GPUs : sl[g].worker = w /\ \A h \in 0 .. g - 1 : sl[h].worker # w}

\* A card with nothing on it; gemma's own card only when there is no other.
PickIdleGpu(sl) ==
    LET free == {g \in GPUs : sl[g].worker = NoWorker /\ ~sl[g].resident}
        best == IF free \subseteq {GemmaGpu} THEN free ELSE free \ {GemmaGpu}
    IN  {g \in best : \A h \in best : g <= h}

\* Mutant: gemma's own card is a victim like any other.
PickAnyVictim(sl, ord, w) ==
    IF EvictWired THEN Oldest({g \in GPUs : sl[g].worker \notin {NoWorker, w}}, ord) ELSE {}

\* The victim of an eviction: least recently used, busy or not.
PickLruVictim(sl, ord, w) ==
    IF EvictWired
    THEN Oldest({g \in GPUs \ {GemmaGpu} : sl[g].worker \notin {NoWorker, w}}, ord)
    ELSE {}

-----------------------------------------------------------------------------
(* The queue *)

\* notify_all of the condition, on the program counters.
NotifyAll(pcs) == [p \in Procs |-> IF pcs[p] = "waiting" THEN "woken" ELSE pcs[p]]

\* What the loop of acquire, or of pick_for_worker, reuses first.
Reusable(p, sl, ord) ==
    IF p \in Requests THEN PickIdleWarm(sl, ord, task[p]) ELSE WarmGpuOf(sl, task[p])

\* The card the loop can hand out at once, if any (at most one).
Takeable(p, sl, ord) ==
    IF Reusable(p, sl, ord) # {} THEN Reusable(p, sl, ord) ELSE PickIdleGpu(sl)

\* _claim; a boot assignment leaves the card idle and ends the call.
Take(p, g, sl, ord, pcs) ==
    /\ older' = Touch(ord, g)
    /\ IF p \in Requests
       THEN /\ slot' = [sl EXCEPT ![g] = Warm(task[p], "busy")]
            /\ pc' = [pcs EXCEPT ![p] = "running"]
            /\ card' = [card EXCEPT ![p] = g]
            /\ UNCHANGED task
       ELSE /\ slot' = [sl EXCEPT ![g] = Warm(task[p], "idle")]
            /\ pc' = [pcs EXCEPT ![p] = "idle"]
            /\ card' = [card EXCEPT ![p] = NoGpu]
            /\ task' = [task EXCEPT ![p] = NoWorker]

\* QueueTimeout reaches the handler: a request answers 503, a boot call ends.
GiveUp(p, pcs) ==
    /\ pc' = [pcs EXCEPT ![p] = IF p \in Requests THEN "leaving" ELSE "idle"]
    /\ task' = [task EXCEPT ![p] = NoWorker]
    /\ card' = [card EXCEPT ![p] = NoGpu]

\* One turn of the loop, from the slots sl, the order ord and the program
\* counters pcs the critical section has built so far.
Turn(p, sl, ord, pcs) ==
    LET takeable == Takeable(p, sl, ord)
        victims  == PickLruVictim(sl, ord, task[p])
    IN  \/ \E g \in takeable : Take(p, g, sl, ord, pcs)
        \/ /\ takeable = {}
           /\ \E g \in victims : card' = [card EXCEPT ![p] = g]
           /\ pc' = [pcs EXCEPT ![p] = "evicting"]
           /\ slot' = sl /\ older' = ord
           /\ UNCHANGED task
        \/ /\ takeable = {} /\ victims = {}
           /\ slot' = sl /\ older' = ord
           /\ \/ pc' = [pcs EXCEPT ![p] = "waiting"]
                 /\ card' = [card EXCEPT ![p] = NoGpu]
                 /\ UNCHANGED task
              \/ pc[p] # "arrived" /\ GiveUp(p, pcs)

-----------------------------------------------------------------------------
(* Handlers *)

\* Mutant: a request is not counted while it queues.
ArriveUncounted(r, w) ==
    /\ pc[r] = "idle"
    /\ pc' = [pc EXCEPT ![r] = "arrived"]
    /\ task' = [task EXCEPT ![r] = w]
    /\ UNCHANGED <<slot, older, card, inFlight, backfill>>

\* A request enters its handler: _in_flight += 1 precedes the acquire.
Arrive(r, w) ==
    /\ pc[r] = "idle"
    /\ pc' = [pc EXCEPT ![r] = "arrived"]
    /\ task' = [task EXCEPT ![r] = w]
    /\ inFlight' = inFlight + 1
    /\ UNCHANGED <<slot, older, card, backfill>>

\* A booting worker asks for a card; gpu-pick is not counted in _in_flight.
Boot(b, w) ==
    /\ pc[b] = "idle"
    /\ pc' = [pc EXCEPT ![b] = "arrived"]
    /\ task' = [task EXCEPT ![b] = w]
    /\ UNCHANGED <<slot, older, card, inFlight, backfill>>

\* acquire(gemma-worker): gemma's own card at once, whoever is on it.
\* _gemma_evicted is never set, so the waiting branch is dead code.
AcquireGemma(r) ==
    /\ pc[r] = "arrived" /\ task[r] = Gemma /\ GemmaGpu # NoGpu
    /\ older' = Touch(older, GemmaGpu)
    /\ pc' = [pc EXCEPT ![r] = "running"]
    /\ card' = [card EXCEPT ![r] = GemmaGpu]
    /\ UNCHANGED <<slot, task, inFlight, backfill>>

\* acquire: a turn of the loop, on arrival or after a wake-up.
Acquire(r) ==
    /\ pc[r] \in {"arrived", "woken"}
    /\ ~(task[r] = Gemma /\ GemmaGpu # NoGpu)
    /\ Turn(r, slot, older, pc)
    /\ UNCHANGED <<inFlight, backfill>>

\* pick_for_worker: the same loop, entered from a boot.
PickForWorker(b) ==
    /\ pc[b] \in {"arrived", "woken"}
    /\ Turn(b, slot, older, pc)
    /\ UNCHANGED <<inFlight, backfill>>

\* Mutant: the loop goes on without clearing the slot it evicted.
EvictDoneUncleared(p) ==
    /\ pc[p] = "evicting"
    /\ Turn(p, slot, older, NotifyAll(pc))
    /\ UNCHANGED <<inFlight, backfill>>

\* The evict hook returned: the lock is taken again, the slot is cleared
\* whatever happened to it meanwhile, everyone is notified, and the loop
\* takes its next turn before the lock is given up.
EvictDone(p) ==
    /\ pc[p] = "evicting"
    /\ Turn(p, [slot EXCEPT ![card[p]] = Empty], Reset(older, card[p]), NotifyAll(pc))
    /\ UNCHANGED <<inFlight, backfill>>

\* wait_for(cond.wait()) ran out of time.
Timeout(p) ==
    /\ pc[p] = "waiting"
    /\ GiveUp(p, pc)
    /\ UNCHANGED <<slot, older, inFlight, backfill>>

\* Mutant: release frees the card and tells nobody.
ReleaseSilent(r) ==
    /\ pc[r] = "running"
    /\ slot' = IF slot[card[r]].worker = task[r]
               THEN [slot EXCEPT ![card[r]].state = "idle"] ELSE slot
    /\ older' = IF slot[card[r]].worker = task[r] THEN Touch(older, card[r]) ELSE older
    /\ pc' = [pc EXCEPT ![r] = "leaving"]
    /\ task' = [task EXCEPT ![r] = NoWorker]
    /\ card' = [card EXCEPT ![r] = NoGpu]
    /\ UNCHANGED <<inFlight, backfill>>

\* Mutant: release insists on the slot being its own, and is tried again.
ReleaseOwned(r) ==
    /\ pc[r] = "running" /\ slot[card[r]].worker = task[r]
    /\ slot' = [slot EXCEPT ![card[r]].state = "idle"]
    /\ older' = Touch(older, card[r])
    /\ pc' = [NotifyAll(pc) EXCEPT ![r] = "leaving"]
    /\ task' = [task EXCEPT ![r] = NoWorker]
    /\ card' = [card EXCEPT ![r] = NoGpu]
    /\ UNCHANGED <<inFlight, backfill>>

\* release: a slot that changed hands is left alone, and then nobody is notified.
Release(r) ==
    /\ pc[r] = "running"
    /\ LET g   == card[r]
           own == slot[g].worker = task[r]
           pcs == IF own THEN NotifyAll(pc) ELSE pc
       IN  /\ slot' = IF own THEN [slot EXCEPT ![g].state = "idle"] ELSE slot
           /\ older' = IF own THEN Touch(older, g) ELSE older
           /\ pc' = [pcs EXCEPT ![r] = "leaving"]
    /\ task' = [task EXCEPT ![r] = NoWorker]
    /\ card' = [card EXCEPT ![r] = NoGpu]
    /\ UNCHANGED <<inFlight, backfill>>

\* The handler's post-chain and answer are done: _in_flight -= 1.
Leave(r) ==
    /\ pc[r] = "leaving"
    /\ pc' = [pc EXCEPT ![r] = "idle"]
    /\ inFlight' = inFlight - 1
    /\ UNCHANGED <<slot, older, task, card, backfill>>

-----------------------------------------------------------------------------
(* The heartbeat *)

\* reconcile, slot by slot: heal a stale busy mark when nothing is in
\* flight, adopt the last worker that claims the card, then free the card of
\* a worker that did not answer, gemma's own card excepted.
Healed(s) == IF inFlight = 0 /\ s.state = "busy" /\ s.resident
             THEN [s EXCEPT !.state = "idle"] ELSE s

\* Mutant: a reported card is recorded without its residency.
AdoptedNotResident(s, w) == IF w = NoWorker THEN s ELSE [s EXCEPT !.worker = w]

Adopted(s, w) == IF w = NoWorker THEN s ELSE Warm(w, s.state)

Reconciled(poll, g) ==
    LET s    == Adopted(Healed(slot[g]), poll.claim[g])
        kept == \/ s.worker \in poll.up \cup {NoWorker}
                \/ g = GemmaGpu /\ s.worker = Gemma
    IN  IF kept THEN s ELSE Empty

\* Cards are stamped in the order the poll meets them: by worker, then card.
StampedBefore(poll, g, h) ==
    LET rank(x) == PollRank[poll.claim[x]]
    IN  rank(g) < rank(h) \/ (rank(g) = rank(h) /\ g < h)

Restamped(poll) ==
    LET seen  == {g \in GPUs : poll.claim[g] # NoWorker}
        freed == {g \in GPUs \ seen : slot[g] # Empty /\ Reconciled(poll, g) = Empty}
        kept  == GPUs \ (seen \cup freed)
    IN  {e \in older : e[1] \in kept /\ e[2] \in kept}
        \cup {e \in older : e[1] \in freed /\ e[2] \in freed}
        \cup (freed \X (kept \cup seen)) \cup (kept \X seen)
        \cup {e \in seen \X seen : StampedBefore(poll, e[1], e[2])}

\* reconcile notifies nobody.
Reconcile(poll) ==
    /\ slot' = [g \in GPUs |-> Reconciled(poll, g)]
    /\ older' = Restamped(poll)
    /\ UNCHANGED <<pc, task, card, inFlight, backfill>>

-----------------------------------------------------------------------------
(* The idle backfill loop *)

\* gemma_slot_free() holds, so the loop awaits ensure(gemma-worker).
BackfillStart ==
    /\ ~backfill /\ GemmaGpu # NoGpu
    /\ slot[GemmaGpu].worker \in {NoWorker, Gemma}
    /\ backfill' = TRUE
    /\ UNCHANGED <<slot, older, pc, task, card, inFlight>>

\* mark_gemma_loaded, without the lock and without looking at the slot again.
MarkGemmaLoaded ==
    /\ backfill
    /\ slot' = [slot EXCEPT ![GemmaGpu] = Warm(Gemma, "idle")]
    /\ older' = Touch(older, GemmaGpu)
    /\ backfill' = FALSE
    /\ UNCHANGED <<pc, task, card, inFlight>>

\* ensure raised; the loop logs and tries again later.
BackfillFailed ==
    /\ backfill
    /\ backfill' = FALSE
    /\ UNCHANGED <<slot, older, pc, task, card, inFlight>>

-----------------------------------------------------------------------------
Init ==
    /\ slot = [g \in GPUs |-> IF g = GemmaGpu THEN Warm(Gemma, "idle") ELSE Empty]
    /\ older = {e \in (GPUs \ {GemmaGpu}) \X GPUs : e[1] < e[2] \/ e[2] = GemmaGpu}
    /\ pc = [p \in Procs |-> "idle"]
    /\ task = [p \in Procs |-> NoWorker]
    /\ card = [p \in Procs |-> NoGpu]
    /\ inFlight = 0
    /\ backfill = FALSE

\* What a handler does once it is in the scheduler's hands.
Progress(p) ==
    \/ p \in Requests /\ (AcquireGemma(p) \/ Acquire(p) \/ Release(p) \/ Leave(p))
    \/ p \in Pickers /\ PickForWorker(p)
    \/ EvictDone(p)

Next ==
    \/ \E r \in Requests, w \in Workers : Arrive(r, w)
    \/ \E b \in Pickers, w \in Workers : Boot(b, w)
    \/ \E p \in Procs : Progress(p) \/ Timeout(p)
    \/ \E poll \in Polls : Reconcile(poll)
    \/ BackfillStart \/ MarkGemmaLoaded \/ BackfillFailed

Spec == Init /\ [][Next]_vars

\* The event loop runs every ready task; a job, an evict call and a /load
\* end within their HTTP timeouts.  The deadline of a call is fixed when it
\* starts, so a call cannot go on waiting again and again without reaching
\* it: Timeout is strongly fair.
FairSpec ==
    /\ Spec
    /\ \A p \in Procs : WF_vars(Progress(p)) /\ SF_vars(Timeout(p))
    /\ WF_vars(MarkGemmaLoaded \/ BackfillFailed)
=============================================================================
