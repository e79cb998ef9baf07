----------------------------- MODULE EngineProc -----------------------------
(***************************************************************************)
(* The parent side of a model subprocess: EngineProc of                    *)
(* runner/common/engineproc.py, with the child loop run_child_loop at the  *)
(* other end of the pipes.                                                 *)
(*                                                                         *)
(* run, start and stop each hold the handle's asyncio.Lock for the whole   *)
(* call, so their awaits are the only places where others move: the queue  *)
(* for the lock, the ready handshake, the drain, the write (a thread), the *)
(* read of the result, the termination (a thread).  All but the write are  *)
(* bounded by a deadline.                                                  *)
(*                                                                         *)
(* Stdout lines are "ready", "eof" and results; progress lines, blank      *)
(* lines and noise are read and skipped, and left out.  A call that its    *)
(* own caller bounds with asyncio.wait_for (id-v2v's ensure_loaded) can be *)
(* cancelled at any of these awaits, and no handler catches that.          *)
(***************************************************************************)
EXTENDS Sequences, SequencesExt

CONSTANTS
    Runs,         \* calls of run that can be active at once
    Starts,       \* calls of start
    Stops,        \* calls of stop
    Large,        \* the runs whose job does not fit into a pipe (images, clips)
    Cancellable,  \* the calls made under a deadline of their caller
    Children,     \* processes that can be around at once
    None

Calls == Runs \cup Starts \cup Stops

ASSUME CallsAssumption ==
    /\ Runs \cap Starts = {} /\ Stops \cap (Runs \cup Starts) = {}
    /\ Large \subseteq Runs
    /\ Cancellable \subseteq Calls \ Large    \* id-v2v's ensure_loaded writes a line
ASSUME NoneAssumption == None \notin Children \cup Calls
\* Neither a call nor None is an outcome: a run that was served answers with
\* a job of Runs, one that has not ended with None.
ASSUME OutcomesAssumption == (Calls \cup {None}) \cap {"done", "error", "cancelled"} = {}

VARIABLES
    lock,       \* holder and waiters of _lock, first come first served
    pc,         \* the await each call is at
    answer,     \* the job whose result a run returned, or how else it ended
    proc,       \* _proc, and with it _stdout_q
    ready,      \* _ready
    victim,     \* the process a call is terminating
    state,      \* what each process is doing
    job,        \* the job a process works on
    stdin,      \* jobs written to a process and not read by it
    stdout      \* lines of a process nobody has taken

vars == <<lock, pc, answer, proc, ready, victim, state, job, stdin, stdout>>

Ready == [type |-> "ready", job |-> None]
Eof   == [type |-> "eof", job |-> None]
Result(type, j) == [type |-> type, job |-> j]

Alive(c) == state[c] \notin {"none", "exited"}

-----------------------------------------------------------------------------
(* Entering and leaving a call *)

Holds(p) == lock # <<>> /\ Head(lock) = p

\* The call returns or raises, and the lock goes to the next in line.
Return(p, ans) ==
    /\ pc' = [pc EXCEPT ![p] = "idle"]
    /\ answer' = [answer EXCEPT ![p] = ans]
    /\ lock' = Tail(lock)

\* A call starts; jobs are new, so the last one of p has left the pipes.
\* Bound of the model: a call that was cancelled is not made again, so there
\* are as many cancellations as Cancellable has members.
Call(p) ==
    /\ pc[p] = "idle" /\ answer[p] # "cancelled"
    /\ \A c \in Children :
         /\ p \notin ToSet(stdin[c]) /\ job[c] # p
         /\ \A line \in ToSet(stdout[c]) : line.job # p
    /\ pc' = [pc EXCEPT ![p] = "locking"]
    /\ answer' = [answer EXCEPT ![p] = None]
    /\ lock' = Append(lock, p)
    /\ UNCHANGED <<proc, ready, victim, state, job, stdin, stdout>>

-----------------------------------------------------------------------------
(* start, stop and the first half of run *)

\* Popen, on a fresh pair of pipes; the handle to an earlier process is lost.
Spawn(p) ==
    /\ \E c \in Children :
         /\ ~Alive(c)
         /\ proc' = c
         /\ state' = [state EXCEPT ![c] = "booting"]
         /\ job' = [job EXCEPT ![c] = None]
         /\ stdin' = [stdin EXCEPT ![c] = <<>>]
         /\ stdout' = [stdout EXCEPT ![c] = <<>>]
    /\ pc' = [pc EXCEPT ![p] = "probing"]
    /\ UNCHANGED <<lock, answer, ready, victim>>

\* _ensure_started_unlocked with nothing to do.
Started == ready /\ proc # None /\ Alive(proc)

EnterStart(p) ==
    /\ p \in Runs \cup Starts /\ pc[p] = "locking" /\ Holds(p)
    /\ IF ~Started THEN Spawn(p)
       ELSE /\ IF p \in Starts THEN Return(p, "done")
               ELSE pc' = [pc EXCEPT ![p] = "draining"] /\ UNCHANGED <<lock, answer>>
            /\ UNCHANGED <<proc, ready, victim, state, job, stdin, stdout>>

\* _stop_unlocked up to its await: the handle is dropped at once, and the
\* process, unless it is gone already, is being terminated in a thread.
StopChild(p) ==
    /\ proc # None
    /\ proc' = None /\ ready' = FALSE
    /\ state' = IF Alive(proc) THEN [state EXCEPT ![proc] = "terminating"] ELSE state
    /\ victim' = [victim EXCEPT ![p] = proc]
    /\ pc' = [pc EXCEPT ![p] = "stopping"]
    /\ UNCHANGED <<lock, answer, job, stdin, stdout>>

\* Mutated: stop does not wait for the lock.
EnterStopUnlocked(p) == p \in Stops /\ pc[p] = "locking" /\ StopChild(p)

EnterStop(p) ==
    /\ p \in Stops /\ pc[p] = "locking" /\ Holds(p)
    /\ \/ StopChild(p)
       \/ /\ proc = None /\ ready' = FALSE
          /\ Return(p, "done")
          /\ UNCHANGED <<proc, victim, state, job, stdin, stdout>>

\* The process is gone: stop returns, a failed run raises.
StopDone(p) ==
    /\ pc[p] = "stopping" /\ ~Alive(victim[p])
    /\ victim' = [victim EXCEPT ![p] = None]
    /\ Return(p, IF p \in Stops THEN "done" ELSE "error")
    /\ UNCHANGED <<proc, ready, state, job, stdin, stdout>>

-----------------------------------------------------------------------------
(* The ready handshake *)

NextLine(line) == proc # None /\ stdout[proc] # <<>> /\ Head(stdout[proc]) = line

TakeLine == stdout' = [stdout EXCEPT ![proc] = Tail(@)]

ProbeReady(p) ==
    /\ pc[p] = "probing" /\ NextLine(Ready) /\ TakeLine
    /\ ready' = TRUE
    /\ IF p \in Starts THEN Return(p, "done")
       ELSE pc' = [pc EXCEPT ![p] = "draining"] /\ UNCHANGED <<lock, answer>>
    /\ UNCHANGED <<proc, victim, state, job, stdin>>

\* The process exited before its handshake: run stops it, start just raises.
ProbeEof(p) ==
    /\ pc[p] = "probing" /\ NextLine(Eof)
    /\ IF p \in Starts
       THEN Return(p, "error") /\ TakeLine /\ UNCHANGED <<proc, ready, victim, state, job, stdin>>
       ELSE StopChild(p)

\* Mutated: a missed handshake raises and leaves the child loading.
ProbeTimeoutKeeps(p) ==
    /\ pc[p] = "probing" /\ Return(p, "error")
    /\ UNCHANGED <<proc, ready, victim, state, job, stdin, stdout>>

ProbeTimeout(p) == pc[p] = "probing" /\ StopChild(p)

-----------------------------------------------------------------------------
(* The second half of run *)

\* _drain_stale_stdout drops what is there, the end-of-file mark included...
DrainLine(p) ==
    /\ pc[p] = "draining" /\ stdout[proc] # <<>> /\ TakeLine
    /\ pc' = [pc EXCEPT ![p] = IF NextLine(Eof) THEN "writing" ELSE "draining"]
    /\ UNCHANGED <<lock, answer, proc, ready, victim, state, job, stdin>>

\* ...and gives up after 0.05 s without a line.
DrainDone(p) ==
    /\ pc[p] = "draining" /\ stdout[proc] = <<>>
    /\ pc' = [pc EXCEPT ![p] = "writing"]
    /\ UNCHANGED <<lock, answer, proc, ready, victim, state, job, stdin, stdout>>

\* _write_job; the pipe of a dead process is broken.  A job larger than the
\* pipe is written when the child has come to it and reads, if it ever does.
WriteJob(p) ==
    /\ pc[p] = "writing"
    /\ IF Alive(proc)
       THEN /\ p \in Large => stdin[proc] = <<>> /\ job[proc] = None
            /\ stdin' = [stdin EXCEPT ![proc] = Append(@, p)]
            /\ pc' = [pc EXCEPT ![p] = "reading"]
            /\ UNCHANGED <<lock, answer, proc, ready, victim, state, job, stdout>>
       ELSE StopChild(p)

\* _read_result: the first result line is taken for the answer.
ReadResult(p) ==
    /\ pc[p] = "reading"
    /\ \E j \in Runs : NextLine(Result("ok", j)) /\ Return(p, j)
    /\ TakeLine
    /\ UNCHANGED <<proc, ready, victim, state, job, stdin>>

ReadReady(p) ==
    /\ pc[p] = "reading" /\ NextLine(Ready) /\ TakeLine
    /\ UNCHANGED <<lock, pc, answer, proc, ready, victim, state, job, stdin>>

\* Mutated: an error of the job is reported, and the child kept.
ReadErrorKeeps(p) ==
    /\ pc[p] = "reading"
    /\ NextLine(Eof) \/ \E j \in Runs : NextLine(Result("error", j))
    /\ TakeLine /\ Return(p, "error")
    /\ UNCHANGED <<proc, ready, victim, state, job, stdin>>

\* An error of the child, its death or the deadline: the child is evicted.
ReadError(p) ==
    /\ pc[p] = "reading"
    /\ NextLine(Eof) \/ \E j \in Runs : NextLine(Result("error", j))
    /\ StopChild(p)

\* Mutated: the child of a job that timed out is kept.
ReadTimeoutKeeps(p) ==
    /\ pc[p] = "reading" /\ Return(p, "error")
    /\ UNCHANGED <<proc, ready, victim, state, job, stdin, stdout>>

\* Mutated: the deadline is one of each line, the reader starts over.
ReadTimeoutPerLine(p) == pc[p] = "reading" /\ UNCHANGED vars

ReadTimeout(p) == pc[p] = "reading" /\ StopChild(p)

-----------------------------------------------------------------------------
(* Cancellation: CancelledError leaves the call and only the lock is freed;  *)
(* a write that is in its thread still reaches the pipe, and so does a       *)
(* termination its process.                                                  *)

Cancel(p) ==
    /\ p \in Cancellable /\ pc[p] # "idle"
    /\ pc' = [pc EXCEPT ![p] = "idle"]
    /\ answer' = [answer EXCEPT ![p] = "cancelled"]
    /\ victim' = [victim EXCEPT ![p] = None]
    /\ \E i \in DOMAIN lock : lock[i] = p /\ lock' = RemoveAt(lock, i)
    /\ stdin' = IF pc[p] = "writing" /\ Alive(proc)
               THEN [stdin EXCEPT ![proc] = Append(@, p)] ELSE stdin
    /\ UNCHANGED <<proc, ready, state, job, stdout>>

-----------------------------------------------------------------------------
(* The child: run_child_loop, and what can happen to a process *)

Boot(c) ==
    /\ state[c] = "booting"
    /\ state' = [state EXCEPT ![c] = "serving"]
    /\ stdout' = [stdout EXCEPT ![c] = Append(@, Ready)]
    /\ UNCHANGED <<lock, pc, answer, proc, ready, victim, job, stdin>>

TakeJob(c) ==
    /\ state[c] = "serving" /\ job[c] = None /\ stdin[c] # <<>>
    /\ job' = [job EXCEPT ![c] = Head(stdin[c])]
    /\ stdin' = [stdin EXCEPT ![c] = Tail(@)]
    /\ UNCHANGED <<lock, pc, answer, proc, ready, victim, state, stdout>>

\* One result line per job, whether the handler returned or raised.
FinishJob(c) ==
    /\ state[c] = "serving" /\ job[c] # None
    /\ job' = [job EXCEPT ![c] = None]
    /\ \E type \in {"ok", "error"} :
         stdout' = [stdout EXCEPT ![c] = Append(@, Result(type, job[c]))]
    /\ UNCHANGED <<lock, pc, answer, proc, ready, victim, state, stdin>>

\* The process dies, of itself or of SIGTERM and then SIGKILL.  What was
\* written to it is lost, what it printed is still read.
Exit(c) ==
    /\ Alive(c)
    /\ state' = [state EXCEPT ![c] = "exited"]
    /\ job' = [job EXCEPT ![c] = None]
    /\ stdin' = [stdin EXCEPT ![c] = <<>>]
    /\ stdout' = [stdout EXCEPT ![c] = IF c = proc THEN Append(@, Eof) ELSE <<>>]
    /\ UNCHANGED <<lock, pc, answer, proc, ready, victim>>

-----------------------------------------------------------------------------
Init ==
    /\ lock = <<>>
    /\ pc = [p \in Calls |-> "idle"]
    /\ answer = [p \in Calls |-> None]
    /\ proc = None
    /\ ready = FALSE
    /\ victim = [p \in Calls |-> None]
    /\ state = [c \in Children |-> "none"]
    /\ job = [c \in Children |-> None]
    /\ stdin = [c \in Children |-> <<>>]
    /\ stdout = [c \in Children |-> <<>>]

\* What the event loop and its threads do for a call, deadlines apart.
Work(p) ==
    \/ EnterStart(p) \/ EnterStop(p) \/ StopDone(p) \/ ProbeReady(p) \/ ProbeEof(p)
    \/ DrainLine(p) \/ DrainDone(p) \/ WriteJob(p)
    \/ ReadResult(p) \/ ReadReady(p) \/ ReadError(p)

Deadline(p) == ProbeTimeout(p) \/ ReadTimeout(p)

Next ==
    \/ \E p \in Calls : Call(p) \/ Work(p) \/ Deadline(p) \/ Cancel(p)
    \/ \E c \in Children : Boot(c) \/ TakeJob(c) \/ FinishJob(c) \/ Exit(c)

Spec == Init /\ [][Next]_vars

\* A write in its thread that only the child can end.
Writing(p) == p \in Large /\ pc[p] = "writing" /\ Alive(proc)

\* Ready tasks run and deadlines pass; a terminated process is killed in the
\* end.  Nothing is assumed of a child that serves: it may leave a job in its
\* pipe, and a large one outside.
FairSpec ==
    /\ Spec
    /\ \A p \in Calls : WF_vars(~Writing(p) /\ Work(p)) /\ WF_vars(Deadline(p))
    /\ \A c \in Children : WF_vars(state[c] = "terminating" /\ Exit(c))
=============================================================================
