--------------------------- MODULE BerniniManager ---------------------------
(***************************************************************************)
(* The wan-worker's Bernini renderer: runner/idv2v/bernini.py (a manager   *)
(* owns one resident CLI process, a module-global slot owns the manager)   *)
(* and its callers in runner/idv2v/server.py: generations, loads, evicts.  *)
(*                                                                         *)
(* Two asyncio locks: _manager_lock around the slot, and each manager's    *)
(* own lock around its process.  A handler fetches the manager, and uses   *)
(* it later.  A generation is a list of _run_one calls: the chunks of a    *)
(* long video, after a plan pre-pass on the 14B model.                     *)
(*                                                                         *)
(* handle_bernini and /load bound the manager's work with asyncio.wait_for *)
(* (900 s and more, counted from before the lock), next to the manager's   *)
(* own JOB_TIMEOUT per job; Impatient names the handlers whose outer one   *)
(* may expire.  Progress lines and noise are skipped by the reader, left   *)
(* out.                                                                    *)
(***************************************************************************)
EXTENDS Integers, Sequences, SequencesExt

CONSTANTS
    Gens,           \* generations that can be active at once
    Loads,          \* loads of a Bernini model
    Evicts,         \* evictions
    Jobs,           \* what a generation runs: sequences of "plan" and "chunk"
    Targets,        \* <<model, device>> pairs the scheduler asks for
    Wants,          \* bound of the model: the targets each handler may ask for
    Managers,       \* manager objects that can be around at once
    Processes,      \* CLI processes that can be around at once
    Impatient,      \* the handlers whose own deadline may expire
    None

Users == Gens \cup Loads
Calls == Users \cup Evicts

ASSUME CallsAssumption ==
    Gens \cap Loads = {} /\ Evicts \cap Users = {} /\ Impatient \subseteq Users
ASSUME WantsAssumption == Wants \in [Calls -> SUBSET (Targets \cup {None})]
ASSUME JobsAssumption  == Jobs \subseteq Seq({"plan", "chunk"}) \ {<<>>}
ASSUME NoneAssumption  == None \notin Managers \cup Processes \cup Targets \cup Calls
\* Neither a call nor None is an outcome: a generation that was served answers
\* with the job of a generation, one that has not ended with None.
ASSUME OutcomesAssumption == (Calls \cup {None}) \cap {"done", "error", "timeout"} = {}

VARIABLES
    slotLock,   \* holder and waiters of _manager_lock
    current,    \* _manager
    target,     \* model and device of a manager
    lock,       \* holder and waiters of a manager's _lock
    proc,       \* a manager's _proc
    ready,      \* a manager's _ready
    pc, goal, mine, todo, answer, victim,   \* the calls' local state
    state, job, stdin, stdout               \* the processes

slotVars == <<slotLock, current, target>>
procVars == <<state, job, stdin, stdout>>
vars == <<slotVars, lock, proc, ready, pc, goal, mine, todo, answer, victim, procVars>>

Line(type, j) == [type |-> type, job |-> j]
Eof == Line("eof", None)

Alive(x) == x # None /\ state[x] \in {"alive", "terminating"}

HoldsSlot(p) == slotLock # <<>> /\ Head(slotLock) = p
Holds(p)     == LET q == lock[mine[p]] IN q # <<>> /\ Head(q) = p

At(p, place) == pc[p] = place
Goto(p, place) == pc' = [pc EXCEPT ![p] = place]

\* A handler answers, and what it was asked for goes with it.
Answer(p, ans) ==
    /\ answer' = [answer EXCEPT ![p] = ans]
    /\ goal' = [goal EXCEPT ![p] = None]
    /\ todo' = [todo EXCEPT ![p] = <<>>]
    /\ Goto(p, "idle")

-----------------------------------------------------------------------------
(* The slot: get_manager and evict_manager *)

\* Bound of the model: a process no eviction can reach stays for good, so a
\* handler starts only while there are objects left for all that may need one.
Reachable == {m \in Managers : m = current \/ m \in Range(mine)}
FreeManagers == Managers \ Reachable
FreeProcesses == {x \in Processes :
                    ~Alive(x) /\ x \notin Range(victim) \cup {proc[m] : m \in Reachable}}
\* Which of the free objects is used makes no difference.
Unused(x, S) == x \in S /\ x = CHOOSE y \in S : TRUE

Fetching == {p \in Users : pc[p] = "slot" \/ HoldsSlot(p)}
Room ==
    /\ Cardinality(FreeManagers) > Cardinality(Fetching)
    /\ Cardinality(FreeProcesses) >
         Cardinality(Fetching \cup {p \in Users : pc[p] \in {"fetched", "ensuring"}})

\* A handler starts; what an earlier one of the same name left has been read.
\* Bound of the model: one whose deadline expired does not start again.
Call(p) ==
    /\ At(p, "idle") /\ answer[p] # "timeout" /\ Room
    /\ \A x \in Processes :
         /\ p \notin ToSet(stdin[x]) /\ job[x] # p
         /\ \A line \in ToSet(stdout[x]) : line.job # p
    /\ goal' \in {[goal EXCEPT ![p] = t] : t \in Wants[p]}
    /\ todo' \in {[todo EXCEPT ![p] = js] : js \in IF p \in Gens THEN Jobs ELSE {<<>>}}
    /\ Goto(p, "slot")
    /\ slotLock' = Append(slotLock, p)
    /\ answer' = [answer EXCEPT ![p] = None]
    /\ UNCHANGED <<current, target, lock, proc, ready, mine, victim, procVars>>

\* The resident manager is the one asked for, or there is none yet.
GetManager(p) ==
    /\ p \in Users /\ At(p, "slot") /\ HoldsSlot(p)
    /\ \E m \in Managers :
         /\ \/ m = current /\ target[m] = goal[p]
            \/ current = None /\ Unused(m, FreeManagers)
         /\ IF m = current THEN UNCHANGED <<proc, ready>>
            ELSE /\ proc' = [proc EXCEPT ![m] = None]
                 /\ ready' = [ready EXCEPT ![m] = FALSE]
         /\ current' = m
         /\ target' = [target EXCEPT ![m] = goal[p]]
         /\ mine' = [mine EXCEPT ![p] = m]
    /\ slotLock' = Tail(slotLock)
    /\ Goto(p, "fetched")
    /\ UNCHANGED <<lock, goal, todo, answer, victim, procVars>>

\* It has to go first: the slot stays locked while its process is evicted.
EvictResident(p) ==
    /\ At(p, "slot") /\ HoldsSlot(p) /\ current # None
    /\ p \in Users => target[current] # goal[p]
    /\ mine' = [mine EXCEPT ![p] = current]
    /\ lock' = [lock EXCEPT ![current] = Append(@, p)]
    /\ Goto(p, "evicting")
    /\ UNCHANGED <<slotVars, proc, ready, goal, todo, answer, victim, procVars>>

\* evict_manager on an empty slot.
EvictNothing(p) ==
    /\ p \in Evicts /\ At(p, "slot") /\ HoldsSlot(p) /\ current = None
    /\ slotLock' = Tail(slotLock)
    /\ Answer(p, "done")
    /\ UNCHANGED <<current, target, lock, proc, ready, mine, victim, procVars>>

-----------------------------------------------------------------------------
(* A manager's process *)

\* The call returns or raises, and gives up its manager's lock.
Return(p, ans) ==
    /\ lock' = [lock EXCEPT ![mine[p]] = Tail(@)]
    /\ mine' = [mine EXCEPT ![p] = None]
    /\ Answer(p, ans)

\* ensure_loaded and generate start as a task of their own.
EnsureLoaded(p) ==
    /\ At(p, "fetched")
    /\ lock' = [lock EXCEPT ![mine[p]] = Append(@, p)]
    /\ Goto(p, "ensuring")
    /\ UNCHANGED <<slotVars, proc, ready, goal, mine, todo, answer, victim, procVars>>

\* ensure_loaded is over: a generation gives the lock up and asks for it again.
Loaded(p) ==
    IF p \in Loads THEN Return(p, "done")
    ELSE /\ lock' = [lock EXCEPT ![mine[p]] = Append(Tail(@), p)]
         /\ Goto(p, "queued")
         /\ UNCHANGED <<mine, answer, goal, todo>>

AlreadyLoaded(p) ==
    LET m == mine[p] IN
    /\ At(p, "ensuring") /\ Holds(p)
    /\ ready[m] /\ Alive(proc[m])
    /\ Loaded(p)
    /\ UNCHANGED <<slotVars, proc, ready, victim, procVars>>

Spawn(p) ==
    LET m == mine[p] IN
    /\ At(p, "ensuring") /\ Holds(p)
    /\ ~(ready[m] /\ Alive(proc[m]))
    /\ \E x \in Processes :
         /\ (x = proc[m] /\ ~Alive(x)) \/ Unused(x, FreeProcesses)
         /\ proc' = [proc EXCEPT ![m] = x]
         /\ state' = [state EXCEPT ![x] = "alive"]
         /\ stdout' = [stdout EXCEPT ![x] = <<>>]
    /\ Goto(p, "probing")
    /\ UNCHANGED <<slotVars, lock, ready, goal, mine, todo, answer, victim, job, stdin>>

\* _probe_ready is half a second's sleep: nothing is asked of the process.
ProbeReady(p) ==
    /\ At(p, "probing")
    /\ ready' = [ready EXCEPT ![mine[p]] = TRUE]
    /\ Loaded(p)
    /\ UNCHANGED <<slotVars, proc, victim, procVars>>

\* _evict_unlocked up to its await; a process that is gone needs no waiting.
StopProcess(p) ==
    LET m == mine[p]
        x == proc[m]
    IN  /\ proc' = [proc EXCEPT ![m] = None]
        /\ ready' = [ready EXCEPT ![m] = FALSE]
        /\ victim' = [victim EXCEPT ![p] = x]
        /\ state' = IF Alive(x) THEN [state EXCEPT ![x] = "terminating"] ELSE state
        /\ Goto(p, "stopping")
        /\ UNCHANGED <<slotVars, lock, goal, mine, todo, answer, job, stdin, stdout>>

\* Mutated: the eviction does not wait for the manager's lock.
EvictUnlocked(p) == At(p, "evicting") /\ StopProcess(p)

Evict(p) == At(p, "evicting") /\ Holds(p) /\ StopProcess(p)

Stopped(p) == At(p, "stopping") /\ ~Alive(victim[p])

\* A failed job raises BerniniError.
JobFailed(p) ==
    /\ p \in Users /\ ~HoldsSlot(p) /\ Stopped(p)
    /\ Return(p, "error")
    /\ victim' = [victim EXCEPT ![p] = None]
    /\ UNCHANGED <<slotVars, proc, ready, procVars>>

\* The slot is emptied; get_manager goes on to create its own manager.
SlotEmptied(p) ==
    /\ HoldsSlot(p) /\ Stopped(p)
    /\ current' = None
    /\ lock' = [lock EXCEPT ![mine[p]] = Tail(@)]
    /\ mine' = [mine EXCEPT ![p] = None]
    /\ victim' = [victim EXCEPT ![p] = None]
    /\ IF p \in Evicts
       THEN /\ slotLock' = Tail(slotLock)
            /\ Answer(p, "done")
       ELSE Goto(p, "slot") /\ UNCHANGED <<slotLock, answer, goal, todo>>
    /\ UNCHANGED <<target, proc, ready, procVars>>

-----------------------------------------------------------------------------
(* One job on the process: _run_one *)

Pipe(p) == proc[mine[p]]
NextLine(p, line) == stdout[Pipe(p)] # <<>> /\ Head(stdout[Pipe(p)]) = line
TakeLine(p) == stdout' = [stdout EXCEPT ![Pipe(p)] = Tail(@)]

\* generate has the lock; the process may be gone since ensure_loaded.
StartJob(p) ==
    /\ At(p, "queued") /\ Holds(p)
    /\ IF Pipe(p) = None THEN Return(p, "error")
       ELSE Goto(p, "draining") /\ UNCHANGED <<lock, mine, answer, goal, todo>>
    /\ UNCHANGED <<slotVars, proc, ready, victim, procVars>>

\* _drain_stale_stdout: what is buffered, up to an end of file or 0.05 s of silence.
DrainLine(p) ==
    /\ At(p, "draining") /\ stdout[Pipe(p)] # <<>> /\ ~NextLine(p, Eof)
    /\ TakeLine(p)
    /\ UNCHANGED <<slotVars, lock, proc, ready, pc, goal, mine, todo, answer, victim,
                   state, job, stdin>>

DrainDone(p) ==
    /\ At(p, "draining")
    /\ stdout[Pipe(p)] = <<>> \/ NextLine(p, Eof)
    /\ Goto(p, "writing")
    /\ UNCHANGED <<slotVars, lock, proc, ready, goal, mine, todo, answer, victim, procVars>>

\* ffmpeg fails on a window of a long video, between two jobs: the error
\* leaves the process as it is, with nothing outstanding.
CutFailed(p) ==
    /\ At(p, "draining") /\ Head(todo[p]) = "chunk"
    /\ answer[p] # None \/ Len(todo[p]) > 1
    /\ Return(p, "error")
    /\ UNCHANGED <<slotVars, proc, ready, victim, procVars>>

WriteJob(p) ==
    /\ At(p, "writing")
    /\ IF Alive(Pipe(p))
       THEN /\ stdin' = [stdin EXCEPT ![Pipe(p)] = Append(@, p)]
            /\ Goto(p, "reading")
            /\ UNCHANGED <<slotVars, lock, proc, ready, goal, mine, todo, answer, victim,
                           state, job, stdout>>
       ELSE StopProcess(p)

\* The first result line is the answer to the chunk, the last one's ends the job.
ReadResult(p) ==
    /\ At(p, "reading")
    /\ \E j \in Gens :
         /\ NextLine(p, Line("ok", j))
         /\ IF Len(todo[p]) = 1 THEN Return(p, j)
            ELSE /\ Goto(p, "draining")
                 /\ answer' = [answer EXCEPT ![p] = j]
                 /\ todo' = [todo EXCEPT ![p] = Tail(@)]
                 /\ UNCHANGED <<lock, goal, mine>>
    /\ TakeLine(p)
    /\ UNCHANGED <<slotVars, proc, ready, victim, state, job, stdin>>

\* An error of the job, of a plan pre-pass too, or the end of the process.
ReadError(p) ==
    /\ At(p, "reading")
    /\ NextLine(p, Eof) \/ \E j \in Gens : NextLine(p, Line("error", j))
    /\ StopProcess(p)

\* Mutated: the process of a job that timed out is kept.
ReadTimeoutKeeps(p) ==
    /\ At(p, "reading") /\ Return(p, "error")
    /\ UNCHANGED <<slotVars, proc, ready, victim, procVars>>

\* Mutated: the deadline is one of each line, the reader starts over.
ReadTimeoutPerLine(p) == At(p, "reading") /\ UNCHANGED vars

\* JOB_TIMEOUT.
ReadTimeout(p) == At(p, "reading") /\ StopProcess(p)

\* The handler's wait_for expires: CancelledError passes every except clause
\* of the manager, frees its lock, and leaves its process as it is.
Cancel(p) ==
    /\ p \in Impatient /\ ~HoldsSlot(p)
    /\ pc[p] \notin {"idle", "slot", "fetched"}
    /\ \E i \in DOMAIN lock[mine[p]] :
         lock[mine[p]][i] = p /\ lock' = [lock EXCEPT ![mine[p]] = RemoveAt(@, i)]
    /\ mine' = [mine EXCEPT ![p] = None]
    /\ victim' = [victim EXCEPT ![p] = None]
    /\ Answer(p, "timeout")
    /\ UNCHANGED <<slotVars, proc, ready, procVars>>

-----------------------------------------------------------------------------
(* The process: bernini_cli.py reads a job line, prints a result line *)

TakeJob(x) ==
    /\ state[x] = "alive" /\ job[x] = None /\ stdin[x] # <<>>
    /\ job' = [job EXCEPT ![x] = Head(stdin[x])]
    /\ stdin' = [stdin EXCEPT ![x] = Tail(@)]
    /\ UNCHANGED <<slotVars, lock, proc, ready, pc, goal, mine, todo, answer, victim, state, stdout>>

FinishJob(x) ==
    /\ state[x] = "alive" /\ job[x] # None
    /\ job' = [job EXCEPT ![x] = None]
    /\ \E type \in {"ok", "error"} :
         stdout' = [stdout EXCEPT ![x] = Append(@, Line(type, job[x]))]
    /\ UNCHANGED <<slotVars, lock, proc, ready, pc, goal, mine, todo, answer, victim, state, stdin>>

Exit(x) ==
    /\ Alive(x)
    /\ state' = [state EXCEPT ![x] = "exited"]
    /\ job' = [job EXCEPT ![x] = None]
    /\ stdin' = [stdin EXCEPT ![x] = <<>>]
    /\ stdout' = [stdout EXCEPT ![x] =
                    IF \E m \in Reachable : proc[m] = x THEN Append(@, Eof) ELSE <<>>]
    /\ UNCHANGED <<slotVars, lock, proc, ready, pc, goal, mine, todo, answer, victim>>

-----------------------------------------------------------------------------
Init ==
    /\ slotLock = <<>> /\ current = None
    /\ target = [m \in Managers |-> None]
    /\ lock = [m \in Managers |-> <<>>]
    /\ proc = [m \in Managers |-> None]
    /\ ready = [m \in Managers |-> FALSE]
    /\ pc = [p \in Calls |-> "idle"]
    /\ goal = [p \in Calls |-> None]
    /\ mine = [p \in Calls |-> None]
    /\ todo = [p \in Calls |-> <<>>]
    /\ answer = [p \in Calls |-> None]
    /\ victim = [p \in Calls |-> None]
    /\ state = [x \in Processes |-> "exited"]
    /\ job = [x \in Processes |-> None]
    /\ stdin = [x \in Processes |-> <<>>]
    /\ stdout = [x \in Processes |-> <<>>]

Work(p) ==
    \/ GetManager(p) \/ EvictResident(p) \/ EvictNothing(p)
    \/ EnsureLoaded(p) \/ AlreadyLoaded(p) \/ Spawn(p) \/ ProbeReady(p)
    \/ Evict(p) \/ JobFailed(p) \/ SlotEmptied(p)
    \/ StartJob(p) \/ DrainLine(p) \/ DrainDone(p) \/ CutFailed(p) \/ WriteJob(p)
    \/ ReadResult(p) \/ ReadError(p)

Next ==
    \/ \E p \in Calls : Call(p) \/ Work(p) \/ ReadTimeout(p) \/ Cancel(p)
    \/ \E x \in Processes : TakeJob(x) \/ FinishJob(x) \/ Exit(x)

Spec == Init /\ [][Next]_vars

\* The event loop runs ready tasks, JOB_TIMEOUT passes, and a terminated
\* process is killed in the end.
FairSpec ==
    /\ Spec
    /\ \A p \in Calls : WF_vars(Work(p)) /\ WF_vars(ReadTimeout(p))
    /\ \A x \in Processes : WF_vars(state[x] = "terminating" /\ Exit(x))
=============================================================================
