------------------------- MODULE BerniniManagerProps -------------------------
(* What the Bernini manager promises, over the model of BerniniManager.       *)
EXTENDS BerniniManager

TimedOut(p) == answer[p] = "timeout"

\* Stale results are drained "so only fresh results are seen" (bernini.py:341),
\* on time: a generation is answered by its own jobs' results, until the
\* handler of a generation runs into its deadline.  That evicts nothing, its
\* result comes after the drain of the next generation, which takes it for
\* its own, and each one after that is answered with the one before.
OwnAnswer ==
    [][\A p, j \in Gens :
         answer[p] # j /\ answer'[p] = j => j = p \/ \E q \in Gens : TimedOut(q)]_vars

\* A result is read by the call that wrote the job, under the manager's lock,
\* from a process that manager still has: no eviction of the slot, whichever
\* handler asks for it, takes the process from under it.
ReaderKeepsProcess ==
    \A p \in Gens :
      pc[p] \in {"draining", "writing", "reading"} =>
        Holds(p) /\ Pipe(p) # None /\ state[Pipe(p)] # "terminating"

\* Every handler answers: no lock is waited for by the one that holds it.
CallsEnd == \A p \in Calls : pc[p] = "slot" ~> pc[p] = "idle"
=============================================================================
