-------------------------- MODULE GpuSchedulerProps --------------------------
(* What the GPU scheduler promises, stated over the model of GpuScheduler.  *)
EXTENDS GpuScheduler

Queueing == {"arrived", "evicting", "waiting", "woken"}
Pc       == Queueing \cup {"idle", "running", "leaving"}

TypeOK ==
    /\ slot \in [GPUs -> Slot]
    /\ older \in SUBSET (GPUs \X GPUs)
    /\ pc \in [Procs -> Pc]
    /\ task \in [Procs -> Workers \cup {NoWorker}]
    /\ card \in [Procs -> GPUs \cup {NoGpu}]
    /\ inFlight \in Int
    /\ backfill \in BOOLEAN

\* A slot names a worker exactly when its card is resident, and only such a
\* slot is busy: the evict hook is therefore called for every victim.
Consistent(s) ==
    /\ s.resident <=> s.worker # NoWorker
    /\ s.state = "busy" => s.resident

SlotConsistent == \A g \in GPUs : Consistent(slot[g])

Active == {r \in Requests : pc[r] # "idle"}

\* The counter reconcile trusts is exact: a request that holds a card, or
\* waits for one, is counted ("A genuinely-running request always holds
\* in_flight >= 1", scheduler.py:326).
InFlightExact == inFlight = Cardinality(Active)

\* Consequently the heartbeat never heals a card under a running request.
NoHealUnderLoad ==
    (\E r \in Requests : pc[r] = "running") => \A g \in GPUs : Healed(slot[g]) = slot[g]

\* The card reserved for the language model stays with it: whatever requests,
\* boots, evictions and time-outs do, it only leaves when a heartbeat finds
\* another worker's model on that card.
GemmaCardKept ==
    [][\A g \in GPUs \cap {GemmaGpu} :
         slot[g].worker = Gemma /\ slot'[g].worker # Gemma
           => \E poll \in Polls : Reconcile(poll) /\ poll.claim[g] = slot'[g].worker]_vars

\* An eviction is never wasted: the loop that paid for one leaves with a
\* card, it neither waits, nor times out, nor evicts a second time.
EvictionPaysOff ==
    [][\A p \in Procs :
         pc[p] = "evicting" /\ pc'[p] # "evicting"
           => \/ p \in Requests /\ pc'[p] = "running" /\ slot'[card'[p]] = Warm(task[p], "busy")
              \/ p \in Pickers /\ pc'[p] = "idle"
                 /\ \E g \in GPUs : slot'[g] = Warm(task[p], "idle")]_vars

\* The loop of p would leave with a card, or with a victim to evict.
Servable(p, sl, ord) == Takeable(p, sl, ord) # {} \/ PickLruVictim(sl, ord, task[p]) # {}

\* No request leaves a sleeper behind that it has just made servable: each of
\* its changes that frees a card wakes the queue (notify_all).  A heartbeat,
\* a boot and the backfill wake nobody.
NoMissedWakeup ==
    [][\A p \in Procs, r \in Requests :
         pc[p] = "waiting" /\ pc'[p] = "waiting" /\ pc'[r] # pc[r] =>
           (Servable(p, slot', older') => Servable(p, slot, older))]_vars

\* What takes its card from the running request s: the eviction of the card; a
\* boot call of the same worker, which is sent to the first card that carries
\* its name, busy or not; the end of another request that already shares the
\* card; a heartbeat that finds another worker's model on it, or hears nothing
\* of the worker.
Preempted(s) ==
    \/ \E p \in Procs : EvictDone(p) /\ card[p] = card[s]
    \/ \E b \in Pickers : task[b] = task[s] /\ pc[b] # "idle" /\ pc'[b] = "idle"
    \/ \E r \in Requests \ {s} : Release(r) /\ card[r] = card[s]
    \/ \E poll \in Polls :
         /\ Reconcile(poll)
         /\ poll.claim[card[s]] \notin {task[s], NoWorker} \/ task[s] \notin poll.up

\* A card marked for the request that runs on it keeps the mark, and is given
\* to no other request, until something preempts it: not by a warm pick, a free
\* pick, a wake-up, a time-out, or a heartbeat that heals what it takes for
\* stale.  (Gemma's own card is shared by design.)
CardKept ==
    [][\A s \in Requests :
         pc[s] = "running" /\ pc'[s] = "running" /\ card[s] # GemmaGpu
         /\ slot[card[s]] = Warm(task[s], "busy")
           => \/ /\ slot'[card[s]] = Warm(task[s], "busy")
                 /\ \A r \in Requests :
                      pc'[r] = "running" /\ card'[r] = card[s] => pc[r] = "running"
              \/ Preempted(s)]_vars

\* "One GPU serves ONE request at a time" (scheduler.py:10).
OneRequestPerGpu ==
    \A r, s \in Requests :
      pc[r] = "running" /\ pc[s] = "running" /\ card[r] = card[s] /\ card[r] # GemmaGpu
        => r = s

\* A request that entered its handler answers: it is served or times out.
RequestsEnd == \A r \in Requests : pc[r] = "arrived" ~> pc[r] = "idle"
=============================================================================
