------------------------- MODULE ResidentWorkersProps -------------------------
(* What the residency manager promises, over the model of ResidentWorkers.    *)
EXTENDS ResidentWorkers

TypeOK ==
    /\ lock \in Seq(Calls)
    /\ pc \in [Calls -> {"idle", "locking", "loading", "evicting", "probing"}]
    /\ worker \in [Calls -> Workers \cup {None}] /\ place \in [Calls -> Cards \cup {None}]
    /\ toRead \in [Probes -> SUBSET Workers] /\ unloaded \in [Probes -> SUBSET Workers]
    /\ pinnedLoaded \subseteq Workers
    /\ resident \in [Workers -> SUBSET Cards] /\ loaded \in [Workers -> SUBSET Cards]

\* "record residency ONLY after /load succeeds" (swap.py:156): a card the
\* manager takes for loaded, and so never loads again, has the model on it,
\* whatever POSTs failed and however calls queued.  The worker has an engine
\* per card and keeps running.
ResidencyIsReal ==
    \A w \in MultiEngine \ Restarting : resident[w] \subseteq loaded[w]

\* Cards with a worker's model on them that no eviction will be asked to free:
\* the books do not list them, and no eviction of them is under way.
Unbooked(w) ==
    {g \in loaded[w] \ resident[w] :
       ~\E p \in Evicts : pc[p] = "evicting" /\ worker[p] = w /\ place[p] = g}

\* No model is left on a card behind the manager's back: a card leaves the
\* books only with its own eviction, whichever cards the worker is on besides
\* (swap.py:103).  Two things may strand one: a POST that fails after it took
\* effect, and a probe that applies an answer older than a load.
NothingStranded ==
    [][\A w \in Workers :
         \/ Unbooked(w)' \subseteq Unbooked(w)
         \/ \E p \in Calls : worker[p] = w /\ PostFailed(p)
         \/ \E h \in Probes : w \in unloaded[h] /\ ReconcileLoaded(h)]_vars

\* A container that restarted and says so is not taken for loaded for ever:
\* its residency is dropped, so that the next ensure loads it again.
StaleResidencyEnds ==
    \A w \in Reporting : ~(resident[w] \subseteq loaded[w]) ~> (resident[w] \subseteq loaded[w])
=============================================================================
