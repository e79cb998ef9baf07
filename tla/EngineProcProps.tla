--------------------------- MODULE EngineProcProps ---------------------------
(* What the engine-subprocess harness promises, over the model of EngineProc. *)
EXTENDS EngineProc

Cancelled(p) == answer[p] = "cancelled"

\* Orphaned result lines "can't be misread as the next job's result"
\* (engineproc.py:244): a run returns the result of its own job, until the
\* caller of a run cancels it.  Nobody evicts the child of such a job, the
\* drain is over before its result is printed, and the next run takes that
\* for its own, as does the one after with the result this one left behind.
OwnAnswer ==
    [][\A p, j \in Runs :
         answer[p] # j /\ answer'[p] = j => j = p \/ \E q \in Runs : Cancelled(q)]_vars

\* stop() terminates the child, "destroying its CUDA context"
\* (engineproc.py:210): a process the handle lost is on its way out, it never
\* just lives on where no later stop can reach it, unless a call was
\* cancelled while the process was loading.
NoStrayChild ==
    (\E p \in Calls : Cancelled(p)) \/
    \A c \in Children : Alive(c) /\ c # proc => state[c] = "terminating"

\* "a concurrent stop cannot tear the child's streams out from under an
\* in-flight result read" (engineproc.py:269): between its handshake and its
\* answer a run keeps the process, whatever else is called meanwhile.
ReaderKeepsChild ==
    \A p \in Calls :
      pc[p] \in {"probing", "draining", "writing", "reading"} =>
        Holds(p) /\ proc # None /\ state[proc] # "terminating"

\* A run that failed leaves no process for the next one to inherit: it
\* "evicts the child so a wedged state can never linger" (engineproc.py:267).
\* Cancellation is no failure to the code.
FailureEvicts ==
    [][\A p \in Runs : pc[p] # "idle" /\ pc'[p] = "idle" /\ answer'[p] \notin Runs \cup {"cancelled"}
         => proc' = None]_vars

\* Every call ends, whatever the child does: it is answered, it is given up,
\* or it gets the lock in the end and then one of the two; unless a job too
\* large for the pipe is being written to a child that lives and does not read
\* it.  That write has no deadline and holds the lock.
OnlyWritesHang ==
    \A p \in Calls :
      \/ pc[p] = "locking" ~> pc[p] = "idle"
      \/ <>[](\E q \in Large : Writing(q))
=============================================================================
