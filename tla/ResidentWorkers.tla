--------------------------- MODULE ResidentWorkers ---------------------------
(***************************************************************************)
(* ResidentWorkerManager of runner/live_runner/swap.py: which worker's     *)
(* model the live-runner believes to be on which card, and the /load and   *)
(* /evict POSTs that make it so.                                           *)
(*                                                                         *)
(* One asyncio lock is held across each POST.  Requests, gpu evictions of  *)
(* the scheduler and the idle backfill call ensure and evict; a heartbeat  *)
(* reads the workers' /health one after the other, without the lock, and   *)
(* then drops what a worker says it has lost.                              *)
(*                                                                         *)
(* At the other end is what the workers' handlers do: image-worker keeps   *)
(* an engine per card, the others one engine that moves.  The session's    *)
(* 300 s or the worker may fail a POST, before or after it took effect.    *)
(*                                                                         *)
(* Generations are left out, and with them that one which finds no engine  *)
(* starts it by itself.                                                    *)
(*                                                                         *)
(* The server steers every worker but vp-worker to a card.  vp-worker is   *)
(* left out: its /load and /evict do nothing (runner/vp/server.py:69-87).  *)
(* As it is alone in taking the older branch of ensure, the branch never   *)
(* evicts anything but vp-worker, and _current is never a steered worker.  *)
(***************************************************************************)
EXTENDS Integers, Sequences, SequencesExt

CONSTANTS
    Workers,      \* names of the worker containers the server steers
    Cards,        \* GPU indices
    CardsOf,      \* the cards the server asks for a worker
    Pinned,       \* ResidentWorkerManager.pinned
    MultiEngine,  \* workers with one engine per card
    Reporting,    \* workers whose /health has a model_loaded key
    Restarting,   \* workers whose container may restart
    Failing,      \* workers whose POSTs may fail
    Ensures,      \* calls of ensure that can be active at once
    Evicts,       \* calls of evict that can be active at once
    Probes,       \* health probes that can be active at once
    None

Calls == Ensures \cup Evicts \cup Probes

ASSUME WorkersAssumption ==
    /\ Pinned \cup MultiEngine \cup Reporting \cup Restarting \cup Failing \subseteq Workers
    /\ CardsOf \in [Workers -> SUBSET Cards]
ASSUME CallsAssumption ==
    /\ Ensures \cap Evicts = {} /\ Probes \cap (Ensures \cup Evicts) = {}
    /\ None \notin Workers \cup Cards

VARIABLES
    lock,       \* holder and waiters of _lock
    pc,         \* the await each call is at
    worker,     \* the worker a call is about
    place,      \* the card it is about
    toRead,     \* workers of which a probe has not read model_loaded yet
    unloaded,   \* workers a probe was told have no model
    pinnedLoaded,  \* _pinned_loaded
    resident,   \* _resident, as a function that is empty for absent keys
    loaded      \* the cards each worker's model really is on

believed == <<pinnedLoaded, resident>>
vars == <<lock, pc, worker, place, toRead, unloaded, believed, loaded>>

Holds(p) == lock # <<>> /\ Head(lock) = p

Finish(p) ==
    /\ lock' = Tail(lock)
    /\ pc' = [pc EXCEPT ![p] = "idle"]

-----------------------------------------------------------------------------
(* The workers' ends of the POSTs *)

\* handle_load of worker w: a single engine leaves the card it was on.
LoadedAt(w, g) ==
    [loaded EXCEPT ![w] = IF w \in MultiEngine THEN @ \cup {g} ELSE {g}]

\* handle_evict: only an engine per card can tell cards apart.
EvictedAt(w, g) ==
    [loaded EXCEPT ![w] = IF w \in MultiEngine THEN @ \ {g} ELSE {}]

\* What the POST under way does at the worker's end.
Effect(p) ==
    IF pc[p] = "loading" THEN LoadedAt(worker[p], place[p]) ELSE EvictedAt(worker[p], place[p])

-----------------------------------------------------------------------------
(* ensure *)

Ensure(p, w, g) ==
    /\ p \in Ensures /\ pc[p] = "idle" /\ g \in CardsOf[w]
    /\ pc' = [pc EXCEPT ![p] = "locking"]
    /\ worker' = [worker EXCEPT ![p] = w]
    /\ place' = [place EXCEPT ![p] = g]
    /\ lock' = Append(lock, p)
    /\ UNCHANGED <<toRead, unloaded, believed, loaded>>

Enters(p) == pc[p] = "locking" /\ Holds(p)

BelievedThere(p) == place[p] \in resident[worker[p]]

AlreadyResident(p) ==
    /\ p \in Ensures /\ Enters(p) /\ BelievedThere(p)
    /\ Finish(p)
    /\ UNCHANGED <<worker, place, toRead, unloaded, believed, loaded>>

\* Mutated: the residency is recorded before the POST.
StartPostsRecorded(p) ==
    /\ p \in Ensures /\ Enters(p) /\ ~BelievedThere(p)
    /\ pc' = [pc EXCEPT ![p] = "loading"]
    /\ resident' = [resident EXCEPT ![worker[p]] = @ \cup {place[p]}]
    /\ UNCHANGED <<lock, worker, place, toRead, unloaded, pinnedLoaded, loaded>>

StartPosts(p) ==
    /\ p \in Ensures /\ Enters(p) /\ ~BelievedThere(p)
    /\ pc' = [pc EXCEPT ![p] = "loading"]
    /\ UNCHANGED <<lock, worker, place, toRead, unloaded, believed, loaded>>

\* The residency is recorded once the POST has succeeded.
LoadDone(p) ==
    /\ pc[p] = "loading"
    /\ loaded' = Effect(p)
    /\ resident' = [resident EXCEPT ![worker[p]] = @ \cup {place[p]}]
    /\ pinnedLoaded' = pinnedLoaded \cup ({worker[p]} \cap Pinned)
    /\ Finish(p)
    /\ UNCHANGED <<worker, place, toRead, unloaded>>

-----------------------------------------------------------------------------
(* evict: the scheduler's hook, which names the card w was given *)

Evict(p, w, g) ==
    /\ p \in Evicts /\ pc[p] = "idle"
    /\ g \in CardsOf[w]
    /\ pc' = [pc EXCEPT ![p] = "locking"]
    /\ worker' = [worker EXCEPT ![p] = w]
    /\ place' = [place EXCEPT ![p] = g]
    /\ lock' = Append(lock, p)
    /\ UNCHANGED <<toRead, unloaded, believed, loaded>>

\* Mutated: the residency on every card is dropped.
StartEvictAll(p) ==
    /\ p \in Evicts /\ Enters(p)
    /\ resident' = [resident EXCEPT ![worker[p]] = {}]
    /\ pinnedLoaded' = pinnedLoaded \ {worker[p]}
    /\ pc' = [pc EXCEPT ![p] = "evicting"]
    /\ UNCHANGED <<lock, worker, place, toRead, unloaded, loaded>>

\* The residency is dropped before the POST.
StartEvict(p) ==
    /\ p \in Evicts /\ Enters(p)
    /\ resident' = [resident EXCEPT ![worker[p]] = @ \ {place[p]}]
    /\ pinnedLoaded' = pinnedLoaded \ {worker[p]}
    /\ pc' = [pc EXCEPT ![p] = "evicting"]
    /\ UNCHANGED <<lock, worker, place, toRead, unloaded, loaded>>

EvictDone(p) ==
    /\ pc[p] = "evicting"
    /\ loaded' = Effect(p)
    /\ Finish(p)
    /\ UNCHANGED <<worker, place, toRead, unloaded, believed>>

\* A POST raises, and so does the call; it may have taken effect.
PostFailed(p) ==
    /\ pc[p] \in {"loading", "evicting"} /\ worker[p] \in Failing
    /\ loaded' \in {loaded, Effect(p)}
    /\ Finish(p)
    /\ UNCHANGED <<worker, place, toRead, unloaded, believed>>

-----------------------------------------------------------------------------
(* check_health *)

StartProbe(h) ==
    /\ h \in Probes /\ pc[h] = "idle"
    /\ toRead' = [toRead EXCEPT ![h] = Reporting]
    /\ unloaded' = [unloaded EXCEPT ![h] = {}]
    /\ pc' = [pc EXCEPT ![h] = "probing"]
    /\ UNCHANGED <<lock, worker, place, believed, loaded>>

\* GET /health of one worker; one that cannot be reached says nothing.
ReadHealth(h, w) ==
    /\ pc[h] = "probing" /\ w \in toRead[h]
    /\ toRead' = [toRead EXCEPT ![h] = @ \ {w}]
    /\ \/ loaded[w] = {} /\ unloaded' = [unloaded EXCEPT ![h] = @ \cup {w}]
       \/ (loaded[w] # {} \/ w \in Failing) /\ UNCHANGED unloaded
    /\ UNCHANGED <<lock, pc, worker, place, believed, loaded>>

ProbesRead(h) ==
    /\ pc[h] = "probing" /\ toRead[h] = {}
    /\ lock' = Append(lock, h)
    /\ pc' = [pc EXCEPT ![h] = "locking"]
    /\ UNCHANGED <<worker, place, toRead, unloaded, believed, loaded>>

\* Mutated: only the pinned residency is dropped.
ReconcilePinned(h) ==
    /\ h \in Probes /\ Enters(h)
    /\ pinnedLoaded' = pinnedLoaded \ unloaded[h]
    /\ unloaded' = [unloaded EXCEPT ![h] = {}]
    /\ Finish(h)
    /\ UNCHANGED <<worker, place, toRead, resident, loaded>>

\* _reconcile_loaded, on answers read before the lock was.
ReconcileLoaded(h) ==
    /\ h \in Probes /\ Enters(h)
    /\ pinnedLoaded' = pinnedLoaded \ unloaded[h]
    /\ resident' = [w \in Workers |-> IF w \in unloaded[h] THEN {} ELSE resident[w]]
    /\ unloaded' = [unloaded EXCEPT ![h] = {}]
    /\ Finish(h)
    /\ UNCHANGED <<worker, place, toRead, loaded>>

\* A container restarts with no model.
Restart(w) ==
    /\ w \in Restarting /\ loaded[w] # {}
    /\ loaded' = [loaded EXCEPT ![w] = {}]
    /\ UNCHANGED <<lock, pc, worker, place, toRead, unloaded, believed>>

-----------------------------------------------------------------------------
Init ==
    /\ lock = <<>>
    /\ pc = [p \in Calls |-> "idle"]
    /\ worker = [p \in Calls |-> None]
    /\ place = [p \in Calls |-> None]
    /\ toRead = [h \in Probes |-> {}]
    /\ unloaded = [h \in Probes |-> {}]
    /\ pinnedLoaded = {}
    /\ resident = [w \in Workers |-> {}]
    /\ loaded = [w \in Workers |-> {}]

\* What goes on by itself once a call or a probe has begun.
Work(p) ==
    \/ AlreadyResident(p) \/ StartPosts(p) \/ LoadDone(p)
    \/ StartEvict(p) \/ EvictDone(p) \/ PostFailed(p)

Probe(h) == (\E w \in Workers : ReadHealth(h, w)) \/ ProbesRead(h) \/ ReconcileLoaded(h)

Next ==
    \/ \E p \in Calls, w \in Workers, g \in Cards : Ensure(p, w, g) \/ Evict(p, w, g)
    \/ \E p \in Calls : Work(p)
    \/ \E h \in Probes : StartProbe(h) \/ Probe(h)
    \/ \E w \in Workers : Restart(w)

Spec == Init /\ [][Next]_vars

\* The event loop runs ready tasks, POSTs and GETs end within the session's
\* timeout, and the heartbeat probes again and again.
FairSpec ==
    /\ Spec
    /\ \A p \in Calls : WF_vars(Work(p))
    /\ \A h \in Probes : WF_vars(StartProbe(h)) /\ WF_vars(Probe(h))
=============================================================================
