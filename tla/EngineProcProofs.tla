--------------------------- MODULE EngineProcProofs ---------------------------
(* Proofs about the engine-subprocess harness, for every number of calls and  *)
(* of processes: who may touch the child, what becomes of it, and whose       *)
(* result a run returns.                                                      *)
EXTENDS EngineProcProps, SequenceTheorems, TLAPS

Using  == {"probing", "draining", "writing", "reading"}
Inside == Using \cup {"stopping"}

Line == {Ready, Eof} \cup {Result(type, j) : type \in {"ok", "error"}, j \in Runs}

\* The types of the state.
TypeOK ==
    /\ lock \in Seq(Calls)
    /\ pc \in [Calls -> {"idle", "locking"} \cup Inside]
    /\ answer \in [Calls -> Runs \cup {None, "done", "error", "cancelled"}]
    /\ proc \in Children \cup {None}
    /\ ready \in BOOLEAN
    /\ victim \in [Calls -> Children \cup {None}]
    /\ state \in [Children -> {"none", "booting", "serving", "terminating", "exited"}]
    /\ job \in [Children -> Runs \cup {None}]
    /\ stdin \in [Children -> Seq(Runs)]
    /\ stdout \in [Children -> Seq(Line)]

\* Only the holder of the lock is past it.
InsideHolds == \A p \in Calls : pc[p] \in Inside => Holds(p)

\* Which calls get how far, and that a cancelled one is over.
RolesOK ==
    \A p \in Calls :
      /\ pc[p] = "probing" => p \notin Stops
      /\ pc[p] \in {"draining", "writing", "reading"} => p \in Runs
      /\ Cancelled(p) => pc[p] = "idle"

\* The handle names no process that is being terminated, a call that uses
\* the handle has one, and one that stops the process has dropped it.
HandleOK ==
    /\ proc # None => state[proc] # "terminating"
    /\ \A p \in Calls :
         /\ pc[p] \in Using => proc # None
         /\ pc[p] = "stopping" => proc = None

\* A process that printed its end of file is gone.
EofIsLast == \A c \in Children : \A i \in DOMAIN stdout[c] :
    stdout[c][i] = Eof => state[c] = "exited"

\* A process is only loading while a call waits for its handshake.
LoadingIsWatched ==
    (\E p \in Calls : Cancelled(p)) \/
    (proc # None /\ Alive(proc) /\ ~ready => \E p \in Calls : pc[p] = "probing")

-----------------------------------------------------------------------------
(* The jobs in the pipes of the child *)

\* Nothing is asked of c that it has not answered, and no answer is unread.
Silent(c) == \A i \in DOMAIN stdout[c] : stdout[c][i].job = None
Quiet(c)  == stdin[c] = <<>> /\ job[c] = None /\ Silent(c)

\* The job of p is at one place of the pipes of c at most, and alone in them.
OnlyJob(c, p) ==
    \/ stdin[c] = <<p>> /\ job[c] = None /\ Silent(c)
    \/ stdin[c] = <<>> /\ job[c] = p /\ Silent(c)
    \/ /\ stdin[c] = <<>> /\ job[c] = None
       /\ \A i \in DOMAIN stdout[c] : stdout[c][i].job \in {None, p}
       /\ \A i, k \in DOMAIN stdout[c] :
            stdout[c][i].job = p /\ stdout[c][k].job = p => i = k

\* Until a run is cancelled, the pipes hold the job of the run that reads.
PipesInStep ==
    \/ \E q \in Runs : Cancelled(q)
    \/ proc = None
    \/ Quiet(proc)
    \/ \E p \in Calls : pc[p] = "reading" /\ OnlyJob(proc, p)

IInv ==
    /\ TypeOK /\ InsideHolds /\ RolesOK /\ HandleOK /\ EofIsLast
    /\ LoadingIsWatched /\ NoStrayChild /\ PipesInStep

-----------------------------------------------------------------------------
(* Sequences *)

LEMMA LastWaits ==
    ASSUME NEW S, NEW s \in Seq(S), NEW e \in S
    PROVE  /\ Append(s, e) \in Seq(S) /\ Append(s, e) # <<>>
           /\ s # <<>> => Head(Append(s, e)) = Head(s)
  BY AppendProperties, EmptySeq

\* One who leaves the queue from behind its head leaves the head in place.
LEMMA OneLeaves ==
    ASSUME NEW S, NEW s \in Seq(S), NEW i \in DOMAIN s
    PROVE  /\ RemoveAt(s, i) \in Seq(S)
           /\ s[i] # Head(s) => RemoveAt(s, i) # <<>> /\ Head(RemoveAt(s, i)) = Head(s)
  <1>1. i \in 1..Len(s) /\ Len(s) \in Nat
    BY LenProperties
  <1>2. /\ SubSeq(s, 1, i - 1) \in Seq(S) /\ SubSeq(s, i + 1, Len(s)) \in Seq(S)
        /\ Len(SubSeq(s, 1, i - 1)) = i - 1
        /\ \A k \in 1..(i - 1) : SubSeq(s, 1, i - 1)[k] = s[k]
    BY <1>1, SubSeqProperties, ElementOfSeq
  <1>3. /\ RemoveAt(s, i) \in Seq(S)
        /\ i # 1 => RemoveAt(s, i)[1] = s[1] /\ Len(RemoveAt(s, i)) >= 1
    BY <1>1, <1>2, ConcatProperties, LenProperties DEF RemoveAt
  <1>4. i # 1 => RemoveAt(s, i) # <<>> /\ Head(RemoveAt(s, i)) = Head(s)
    BY <1>3, EmptySeq
  <1> QED
    BY <1>3, <1>4

\* Taking the first line.
LEMMA FirstIsTaken ==
    ASSUME NEW S, NEW s \in Seq(S), s # <<>>
    PROVE  /\ Head(s) = s[1] /\ 1 \in DOMAIN s /\ Tail(s) \in Seq(S)
           /\ \A i \in DOMAIN Tail(s) : i + 1 \in DOMAIN s /\ Tail(s)[i] = s[i + 1] /\ i \in Nat \ {0}
  BY HeadTailProperties, LenProperties, EmptySeq

\* Printing a line.
LEMMA LastIsPrinted ==
    ASSUME NEW S, NEW s \in Seq(S), NEW e \in S
    PROVE  /\ Append(s, e) \in Seq(S)
           /\ \A i \in DOMAIN Append(s, e) :
                \/ i \in DOMAIN s /\ Append(s, e)[i] = s[i]
                \/ i = Len(s) + 1 /\ i \notin DOMAIN s /\ Append(s, e)[i] = e
  BY AppendProperties, LenProperties

-----------------------------------------------------------------------------
(* Steps *)

LEMMA InitIInv == Init => IInv
  <1> SUFFICES ASSUME Init PROVE IInv
    OBVIOUS
  <1>1. TypeOK
    BY EmptySeq, NoneAssumption DEF Init, TypeOK
  <1>2. InsideHolds /\ RolesOK /\ HandleOK /\ EofIsLast
    BY NoneAssumption, OutcomesAssumption
    DEF Init, InsideHolds, RolesOK, HandleOK, EofIsLast, Inside, Using, Cancelled, Calls
  <1>3. LoadingIsWatched /\ NoStrayChild /\ PipesInStep
    BY DEF Init, LoadingIsWatched, NoStrayChild, Alive, PipesInStep
  <1> QED
    BY <1>1, <1>2, <1>3 DEF IInv

\* Two calls are never past the lock at the same time.
LEMMA OneInside ==
    ASSUME InsideHolds, NEW p \in Calls, NEW q \in Calls, pc[q] \in Inside, Holds(p)
    PROVE  p = q
  BY DEF InsideHolds, Holds

\* The actions of a call that must hold the lock.
Held(p) == Work(p) \/ Deadline(p)

LEMMA HeldHolds ==
    ASSUME InsideHolds, NEW p \in Calls, Held(p)
    PROVE  Holds(p) /\ pc[p] # "idle" /\ (pc[p] \in Inside \/ pc[p] = "locking")
  BY DEF Held, Work, Deadline, InsideHolds, Inside, Using, EnterStart, EnterStop, StopDone,
         ProbeReady, ProbeEof, DrainLine, DrainDone, WriteJob, ReadResult, ReadReady, ReadError,
         ProbeTimeout, ReadTimeout

\* Such a step moves one call: to another await, or out, with an outcome.
LEMMA HeldMoves ==
    ASSUME TypeOK, InsideHolds, RolesOK, NEW p \in Calls, Held(p)
    PROVE  /\ \/ /\ lock' = lock /\ answer' = answer
                 /\ \E place \in Inside : pc' = [pc EXCEPT ![p] = place]
              \/ /\ lock' = Tail(lock) /\ pc' = [pc EXCEPT ![p] = "idle"]
                 /\ \E ans \in Runs \cup {"done", "error"} : answer' = [answer EXCEPT ![p] = ans]
           /\ pc'[p] = "probing" => p \notin Stops
           /\ pc'[p] \in {"draining", "writing", "reading"} => p \in Runs
  <1> USE DEF Calls, Inside, Using
  <1>1. CASE EnterStart(p) \/ EnterStop(p) \/ StopDone(p)
    BY <1>1, CallsAssumption DEF EnterStart, Spawn, EnterStop, StopChild, StopDone, Return, TypeOK
  <1>2. CASE ProbeReady(p) \/ ProbeEof(p) \/ ProbeTimeout(p)
    BY <1>2, CallsAssumption DEF ProbeReady, ProbeEof, ProbeTimeout, StopChild, Return, TypeOK,
                                 RolesOK
  <1>3. CASE DrainLine(p) \/ DrainDone(p) \/ WriteJob(p)
    BY <1>3, CallsAssumption DEF DrainLine, DrainDone, WriteJob, StopChild, TypeOK, RolesOK
  <1>4. CASE ReadError(p) \/ ReadTimeout(p)
    BY <1>4, CallsAssumption DEF ReadError, ReadTimeout, StopChild, TypeOK, RolesOK
  <1>5. CASE ReadResult(p)
    <2> PICK j \in Runs : Return(p, j)
      BY <1>5 DEF ReadResult
    <2> QED
      BY DEF Return, TypeOK
  <1>6. CASE ReadReady(p)
    <2>1. pc' = [pc EXCEPT ![p] = "reading"] /\ lock' = lock /\ answer' = answer /\ p \in Runs
      BY <1>6 DEF ReadReady, TypeOK, RolesOK
    <2> QED
      BY <2>1, CallsAssumption DEF TypeOK
  <1> QED
    BY <1>1, <1>2, <1>3, <1>4, <1>5, <1>6 DEF Held, Work, Deadline

\* The lock, the places of the calls and their answers keep their invariants.
LEMMA HeldQueue ==
    ASSUME IInv, NEW p \in Calls, Held(p)
    PROVE  /\ lock' \in Seq(Calls) /\ pc' \in [Calls -> {"idle", "locking"} \cup Inside]
           /\ answer' \in [Calls -> Runs \cup {None, "done", "error", "cancelled"}]
           /\ InsideHolds' /\ RolesOK'
  <1> USE DEF IInv
  <1>1. Holds(p) /\ lock # <<>> /\ pc[p] # "idle"
    BY HeldHolds DEF Holds
  <1>2. ~Cancelled(p)
    BY <1>1 DEF RolesOK
  <1>3. \A q \in Calls : q # p => pc[q] \notin Inside
    BY <1>1, OneInside
  <1>4. CASE /\ lock' = lock /\ answer' = answer
             /\ \E place \in Inside : pc' = [pc EXCEPT ![p] = place]
    <2>1. InsideHolds'
      BY <1>1, <1>3, <1>4 DEF InsideHolds, Holds, TypeOK
    <2>2. RolesOK'
      BY <1>2, <1>4, HeldMoves DEF RolesOK, TypeOK, Cancelled
    <2> QED
      BY <1>4, <2>1, <2>2 DEF TypeOK
  <1>5. CASE /\ lock' = Tail(lock) /\ pc' = [pc EXCEPT ![p] = "idle"]
             /\ \E ans \in Runs \cup {"done", "error"} : answer' = [answer EXCEPT ![p] = ans]
    <2>1. InsideHolds'
      BY <1>3, <1>5 DEF InsideHolds, TypeOK, Inside, Using
    <2>2. RolesOK'
      BY <1>2, <1>5, HeldMoves DEF RolesOK, TypeOK, Cancelled
    <2>3. lock' \in Seq(Calls)
      BY <1>1, <1>5, FirstIsTaken DEF TypeOK
    <2> QED
      BY <1>5, <2>1, <2>2, <2>3 DEF TypeOK
  <1> QED
    BY <1>4, <1>5, HeldMoves

LEMMA LinesAre ==
    /\ Ready \in Line /\ Eof \in Line /\ Ready # Eof /\ Ready.job = None /\ Eof.job = None
    /\ \A type \in {"ok", "error"}, j \in Runs :
         /\ Result(type, j) \in Line /\ Result(type, j).job = j
         /\ Result(type, j) # Ready /\ Result(type, j) # Eof /\ j # None
  <1>1. /\ Ready \in Line /\ Eof \in Line
        /\ \A type \in {"ok", "error"}, j \in Runs : Result(type, j) \in Line
    BY DEF Line
  <1>2. Ready # Eof /\ Ready.job = None /\ Eof.job = None
    BY DEF Ready, Eof
  <1>3. ASSUME NEW type \in {"ok", "error"}, NEW j \in Runs
        PROVE  Result(type, j).job = j /\ Result(type, j) # Ready /\ Result(type, j) # Eof /\ j # None
    BY NoneAssumption DEF Ready, Eof, Result, Calls
  <1> QED
    BY <1>1, <1>2, <1>3

\* What a step of a call does to the processes: it starts one, it lets the
\* one of the handle go, it takes a line of it or it writes its job.
LEMMA HeldTouches ==
    ASSUME IInv, NEW p \in Calls, Held(p)
    PROVE  \/ pc[p] = "locking" /\ p \notin Stops /\ ~Started /\ Spawn(p)
           \/ (pc[p] = "locking" \/ pc[p] \in Using) /\ StopChild(p)
           \/ /\ pc[p] \in Using /\ proc # None /\ stdout[proc] # <<>> /\ TakeLine
              /\ pc'[p] = "reading" => Head(stdout[proc]) = Ready
              /\ ready' \in {ready, TRUE}
              /\ pc[p] = "probing" =>
                   Head(stdout[proc]) = Eof \/ (ready' /\ Head(stdout[proc]) = Ready)
              /\ pc[p] = "reading" /\ pc'[p] # "reading" =>
                   \E j \in Runs : Head(stdout[proc]) = Result("ok", j) /\ answer'[p] = j
              /\ UNCHANGED <<proc, victim, state, job, stdin>>
           \/ /\ pc[p] = "writing" /\ pc'[p] = "reading" /\ Alive(proc)
              /\ stdin' = [stdin EXCEPT ![proc] = Append(@, p)]
              /\ UNCHANGED <<proc, ready, victim, state, job, stdout>>
           \/ /\ pc[p] \notin {"probing", "reading"} /\ pc'[p] # "reading" /\ pc'[p] # "probing"
              /\ pc[p] = "stopping" => ~Alive(victim[p])
              /\ ready' = ready \/ (proc = None /\ ready' = FALSE)
              /\ victim' \in [Calls -> Children \cup {None}]
              /\ UNCHANGED <<proc, state, job, stdin, stdout>>
  <1> USE DEF IInv, Inside, Using, TypeOK
  <1>1. CASE EnterStart(p)
    BY <1>1, CallsAssumption DEF EnterStart, Return
  <1>2. CASE EnterStop(p)
    BY <1>2 DEF EnterStop, Return
  <1>3. CASE StopDone(p)
    BY <1>3 DEF StopDone, Return
  <1>4. CASE ProbeReady(p)
    BY <1>4, LinesAre DEF ProbeReady, NextLine, Return
  <1>5. CASE ProbeEof(p)
    BY <1>5, LinesAre DEF ProbeEof, NextLine, Return
  <1>6. CASE DrainLine(p)
    BY <1>6 DEF DrainLine, HandleOK
  <1>7. CASE DrainDone(p)
    BY <1>7 DEF DrainDone
  <1>8. CASE WriteJob(p)
    BY <1>8 DEF WriteJob
  <1>9. CASE ReadResult(p)
    BY <1>9 DEF ReadResult, NextLine, Return
  <1>10. CASE ReadReady(p)
    BY <1>10 DEF ReadReady, NextLine
  <1>11. CASE ReadError(p) \/ ProbeTimeout(p) \/ ReadTimeout(p)
    BY <1>11 DEF ReadError, ProbeTimeout, ReadTimeout
  <1> QED
    BY <1>1, <1>2, <1>3, <1>4, <1>5, <1>6, <1>7, <1>8, <1>9, <1>10, <1>11
    DEF Held, Work, Deadline

-----------------------------------------------------------------------------
(* The child and the handle *)

LEMMA HeldChild ==
    ASSUME IInv, NEW p \in Calls, Held(p)
    PROVE  /\ proc' \in Children \cup {None} /\ ready' \in BOOLEAN
           /\ victim' \in [Calls -> Children \cup {None}]
           /\ state' \in [Children -> {"none", "booting", "serving", "terminating", "exited"}]
           /\ job' \in [Children -> Runs \cup {None}]
           /\ stdin' \in [Children -> Seq(Runs)] /\ stdout' \in [Children -> Seq(Line)]
  <1> USE DEF IInv, TypeOK
  <1>1. CASE Spawn(p)
    BY <1>1, EmptySeq DEF Spawn
  <1>2. CASE StopChild(p)
    BY <1>2 DEF StopChild
  <1>3. CASE /\ proc # None /\ stdout[proc] # <<>> /\ TakeLine /\ ready' \in {ready, TRUE}
             /\ UNCHANGED <<proc, victim, state, job, stdin>>
    BY <1>3, FirstIsTaken DEF TakeLine
  <1>4. CASE /\ pc[p] = "writing" /\ stdin' = [stdin EXCEPT ![proc] = Append(@, p)]
             /\ UNCHANGED <<proc, ready, victim, state, job, stdout>>
    <2>1. proc \in Children /\ p \in Runs
      BY <1>4 DEF HandleOK, RolesOK, Using
    <2> QED
      BY <1>4, <2>1, LastIsPrinted
  <1> QED
    BY <1>1, <1>2, <1>3, <1>4, HeldTouches

\* While p steps nobody else is past the lock.
LEMMA AloneInside ==
    ASSUME IInv, NEW p \in Calls, Held(p), NEW q \in Calls, q # p
    PROVE  pc[q] \notin Inside /\ pc'[q] = pc[q]
  BY HeldHolds, OneInside, HeldMoves DEF IInv, TypeOK

\* A call that begins to use the handle without a process of its own making
\* found one, and a step that leaves the handle alone stops nothing.
LEMMA HeldUses ==
    ASSUME IInv, NEW p \in Calls, Held(p), proc' = proc
    PROVE  /\ pc[p] \notin Using /\ pc'[p] \in Using => proc # None
           /\ pc'[p] # "stopping"
  <1> USE DEF IInv, Inside, Using, TypeOK
  <1>1. CASE EnterStart(p)
    <2>1. CASE Spawn(p)
      BY <2>1, NoneAssumption DEF Spawn
    <2>2. CASE Started
      BY <1>1, <2>2, CallsAssumption DEF EnterStart, Started, Return
    <2> QED
      BY <1>1, <2>1, <2>2 DEF EnterStart
  <1>0. CASE EnterStop(p) \/ StopDone(p)
    BY <1>0 DEF EnterStop, StopChild, StopDone, Return
  <1>2. CASE ProbeReady(p) \/ ProbeEof(p) \/ ProbeTimeout(p)
    BY <1>2 DEF ProbeReady, ProbeEof, ProbeTimeout, StopChild, Return
  <1>3. CASE DrainLine(p) \/ DrainDone(p) \/ WriteJob(p)
    BY <1>3 DEF DrainLine, DrainDone, WriteJob, StopChild
  <1>4. CASE ReadError(p) \/ ReadTimeout(p) \/ ReadResult(p) \/ ReadReady(p)
    BY <1>4 DEF ReadError, ReadTimeout, StopChild, ReadResult, ReadReady, Return
  <1> QED
    BY <1>0, <1>1, <1>2, <1>3, <1>4 DEF Held, Work, Deadline

LEMMA HeldHandle ==
    ASSUME IInv, NEW p \in Calls, Held(p)
    PROVE  HandleOK' /\ EofIsLast'
  <1> USE DEF IInv, TypeOK
  <1>0. \A q \in Calls : pc'[q] \in Inside => q = p
    BY AloneInside
  <1>1. CASE Spawn(p)
    <2> PICK c \in Children : /\ proc' = c /\ state' = [state EXCEPT ![c] = "booting"]
                              /\ stdout' = [stdout EXCEPT ![c] = <<>>]
      BY <1>1 DEF Spawn
    <2>1. HandleOK'
      BY <1>0, <1>1, NoneAssumption DEF Spawn, HandleOK, Inside, Using
    <2>2. EofIsLast'
      BY DEF EofIsLast
    <2> QED
      BY <2>1, <2>2
  <1>2. CASE StopChild(p)
    <2>1. HandleOK'
      BY <1>0, <1>2 DEF StopChild, HandleOK, Inside, Using
    <2>2. EofIsLast'
      BY <1>2 DEF StopChild, EofIsLast, Alive
    <2> QED
      BY <2>1, <2>2
  <1>3. CASE UNCHANGED <<proc, state>> /\ (stdout' = stdout \/ (proc # None /\ stdout[proc] # <<>> /\ TakeLine))
    <2>1. HandleOK'
      <3>1. pc'[p] \in Using => proc # None
        <4>1. CASE pc[p] \in Using
          BY <1>3, <4>1 DEF HandleOK
        <4>2. CASE pc[p] \notin Using
          BY <1>3, <4>2, HeldUses
        <4> QED
          BY <4>1, <4>2
      <3>2. pc'[p] = "stopping" => proc = None
        BY <1>3, HeldUses
      <3> QED
        BY <1>0, <1>3, <3>1, <3>2 DEF HandleOK, Inside
    <2>2. EofIsLast'
      <3> SUFFICES ASSUME NEW c \in Children, NEW i \in DOMAIN stdout'[c], stdout'[c][i] = Eof
                   PROVE  state[c] = "exited"
        BY <1>3 DEF EofIsLast
      <3>1. CASE stdout'[c] = stdout[c]
        BY <3>1 DEF EofIsLast
      <3>2. CASE c = proc /\ stdout[c] # <<>> /\ stdout'[c] = Tail(stdout[c])
        <4>1. i + 1 \in DOMAIN stdout[c] /\ stdout[c][i + 1] = Eof
          BY <3>2, FirstIsTaken
        <4> QED
          BY <4>1 DEF EofIsLast
      <3> QED
        BY <1>3, <3>1, <3>2 DEF TakeLine
    <2> QED
      BY <2>1, <2>2
  <1> QED
    BY <1>1, <1>2, <1>3, HeldTouches

LEMMA HeldKeepsCancelled ==
    ASSUME IInv, NEW p \in Calls, Held(p), NEW q \in Calls, Cancelled(q)
    PROVE  Cancelled(q)'
  BY HeldHolds, HeldMoves DEF IInv, TypeOK, RolesOK, Cancelled

\* A process that is lost to the handle is not one that loads: nobody probes
\* while p, at the head of the lock, is about to start another.
LEMMA HeldLoading ==
    ASSUME IInv, NEW p \in Calls, Held(p)
    PROVE  LoadingIsWatched' /\ NoStrayChild'
  <1> USE DEF IInv, TypeOK
  <1>0. CASE \E q \in Calls : Cancelled(q)
    BY <1>0, HeldKeepsCancelled DEF LoadingIsWatched, NoStrayChild
  <1> SUFFICES ASSUME ~ \E q \in Calls : Cancelled(q)
               PROVE  LoadingIsWatched' /\ NoStrayChild'
    BY <1>0
  <1>1. \A q \in Calls : pc[q] = "probing" => q = p
    BY AloneInside DEF Inside, Using
  <1>2. pc[p] # "probing" => (proc # None /\ Alive(proc) => ready)
    BY <1>1 DEF LoadingIsWatched
  <1>3. CASE pc[p] = "locking" /\ ~Started /\ Spawn(p)
    <2>0. proc # None => ~Alive(proc)
      BY <1>2, <1>3, Zenon DEF Started
    <2>1. NoStrayChild'
      <3> PICK c \in Children : proc' = c /\ state' = [state EXCEPT ![c] = "booting"]
        BY <1>3 DEF Spawn
      <3> SUFFICES ASSUME NEW d \in Children, Alive(d)', d # c
                   PROVE  state'[d] = "terminating"
        BY DEF NoStrayChild
      <3>1. Alive(d) /\ state'[d] = state[d]
        BY DEF Alive
      <3> QED
        BY <2>0, <3>1, NoneAssumption DEF NoStrayChild
    <2>2. LoadingIsWatched'
      BY <1>3 DEF Spawn, LoadingIsWatched
    <2> QED
      BY <2>1, <2>2
  <1>4. CASE StopChild(p)
    BY <1>4 DEF StopChild, LoadingIsWatched, NoStrayChild, Alive
  <1>5. CASE /\ proc # None /\ stdout[proc] # <<>> /\ ready' \in {ready, TRUE}
             /\ pc[p] = "probing" => Head(stdout[proc]) = Eof \/ ready'
             /\ UNCHANGED <<proc, state>>
    <2>1. Head(stdout[proc]) = Eof => ~Alive(proc)
      BY <1>5, FirstIsTaken DEF EofIsLast, Alive
    <2>2. proc # None /\ Alive(proc) => ready'
      <3> SUFFICES ASSUME proc # None, Alive(proc) PROVE ready'
        OBVIOUS
      <3>1. CASE pc[p] = "probing"
        BY <1>5, <2>1, <3>1, Zenon
      <3>2. CASE ready
        BY <1>5, <3>2, Zenon
      <3> QED
        BY <1>2, <3>1, <3>2, Zenon
    <2> QED
      BY <1>5, <2>2 DEF LoadingIsWatched, NoStrayChild, Alive
  <1>6. CASE /\ pc[p] # "probing" /\ (ready' = ready \/ proc = None)
             /\ UNCHANGED <<proc, state>>
    BY <1>2, <1>6 DEF LoadingIsWatched, NoStrayChild, Alive
  <1> QED
    BY <1>3, <1>4, <1>5, <1>6, HeldTouches

\* The job a run writes is the only one, the result it reads leaves none.
LEMMA HeldPipes ==
    ASSUME IInv, NEW p \in Calls, Held(p)
    PROVE  PipesInStep'
  <1> USE DEF IInv, TypeOK
  <1>0. CASE \E q \in Runs : Cancelled(q)
    BY <1>0, HeldKeepsCancelled DEF PipesInStep, Calls
  <1> SUFFICES ASSUME ~ \E q \in Runs : Cancelled(q)
               PROVE  PipesInStep'
    BY <1>0
  <1>1. \A q \in Calls : pc[q] = "reading" => q = p
    BY AloneInside DEF Inside, Using
  <1>2. pc[p] # "reading" => proc = None \/ Quiet(proc)
    BY <1>1 DEF PipesInStep
  <1>3. CASE Spawn(p)
    BY <1>3 DEF Spawn, PipesInStep, Quiet, Silent
  <1>4. CASE StopChild(p)
    BY <1>4 DEF StopChild, PipesInStep
  <1>5. CASE /\ proc # None /\ stdout[proc] # <<>> /\ TakeLine
             /\ pc'[p] = "reading" => Head(stdout[proc]) = Ready
             /\ pc[p] = "reading" /\ pc'[p] # "reading" =>
                   \E j \in Runs : Head(stdout[proc]) = Result("ok", j) /\ answer'[p] = j
             /\ UNCHANGED <<proc, job, stdin>>
    <2>1. /\ 1 \in DOMAIN stdout[proc] /\ Head(stdout[proc]) = stdout[proc][1]
          /\ stdout'[proc] = Tail(stdout[proc])
          /\ \A i \in DOMAIN stdout'[proc] :
               /\ i + 1 \in DOMAIN stdout[proc] /\ stdout'[proc][i] = stdout[proc][i + 1]
               /\ i + 1 # 1 /\ i \in Nat
      BY <1>5, FirstIsTaken DEF TakeLine
    <2>2. CASE Quiet(proc)
      BY <1>5, <2>1, <2>2 DEF PipesInStep, Quiet, Silent
    <2>3. CASE pc[p] = "reading" /\ OnlyJob(proc, p) /\ pc'[p] = "reading"
      <3>1. CASE Silent(proc)
        <4>1. Silent(proc)'
          BY <1>5, <2>1, <3>1 DEF Silent
        <4>2. stdin[proc] = <<>> /\ job[proc] = None => Quiet(proc)'
          BY <1>5, <4>1 DEF Quiet
        <4>3. OnlyJob(proc, p)' \/ (stdin[proc] = <<>> /\ job[proc] = None)
          BY <1>5, <2>3, <4>1 DEF OnlyJob
        <4> QED
          BY <1>5, <2>3, <4>2, <4>3 DEF PipesInStep
      <3>2. CASE ~Silent(proc)
        <4>1. /\ stdin[proc] = <<>> /\ job[proc] = None
              /\ \A i \in DOMAIN stdout[proc] : stdout[proc][i].job \in {None, p}
              /\ \A i, k \in DOMAIN stdout[proc] :
                   stdout[proc][i].job = p /\ stdout[proc][k].job = p => i = k
          BY <2>3, <3>2 DEF OnlyJob
        <4>2. \A i \in DOMAIN stdout'[proc] : stdout'[proc][i].job \in {None, p}
          BY <2>1, <4>1
        <4>3. \A i, k \in DOMAIN stdout'[proc] :
                 stdout'[proc][i].job = p /\ stdout'[proc][k].job = p => i = k
          <5> TAKE i, k \in DOMAIN stdout'[proc]
          <5>1. /\ i + 1 \in DOMAIN stdout[proc] /\ stdout'[proc][i] = stdout[proc][i + 1]
                /\ k + 1 \in DOMAIN stdout[proc] /\ stdout'[proc][k] = stdout[proc][k + 1]
                /\ i \in Nat /\ k \in Nat
            BY <2>1
          <5> QED
            BY <4>1, <5>1
        <4>4. OnlyJob(proc, p)'
          BY <1>5, <4>1, <4>2, <4>3 DEF OnlyJob
        <4> QED
          BY <2>3, <4>4 DEF PipesInStep
      <3> QED
        BY <3>1, <3>2
    <2>4. CASE pc[p] = "reading" /\ OnlyJob(proc, p) /\ pc'[p] # "reading"
      <3>1. stdout[proc][1].job # None
        BY <1>5, <2>1, <2>4, LinesAre
      <3>2. /\ stdin[proc] = <<>> /\ job[proc] = None
            /\ \A i \in DOMAIN stdout[proc] : stdout[proc][i].job \in {None, p}
            /\ \A i, k \in DOMAIN stdout[proc] :
                 stdout[proc][i].job = p /\ stdout[proc][k].job = p => i = k
        BY <2>1, <2>4, <3>1 DEF OnlyJob, Silent
      <3>3. Silent(proc)'
        BY <1>5, <2>1, <3>1, <3>2 DEF Silent
      <3> QED
        BY <1>5, <3>2, <3>3 DEF PipesInStep, Quiet
    <2> QED
      BY <1>1, <1>5, <2>2, <2>3, <2>4 DEF PipesInStep
  <1>6. CASE /\ pc[p] = "writing" /\ pc'[p] = "reading"
             /\ stdin' = [stdin EXCEPT ![proc] = Append(@, p)]
             /\ UNCHANGED <<proc, job, stdout>>
    <2>1. proc \in Children /\ Quiet(proc)
      BY <1>2, <1>6 DEF HandleOK, Using
    <2>2. stdin'[proc] = <<p>>
      BY <1>6, <2>1 DEF Quiet
    <2> QED
      BY <1>6, <2>1, <2>2 DEF PipesInStep, OnlyJob, Quiet, Silent
  <1>7. CASE pc[p] # "reading" /\ UNCHANGED <<proc, job, stdin, stdout>>
    BY <1>2, <1>7 DEF PipesInStep, Quiet, Silent
  <1> QED
    BY <1>3, <1>4, <1>5, <1>6, <1>7, HeldTouches

LEMMA HeldIInv ==
    ASSUME IInv, NEW p \in Calls, Held(p)
    PROVE  IInv'
  BY HeldQueue, HeldChild, HeldHandle, HeldLoading, HeldPipes DEF IInv, TypeOK

-----------------------------------------------------------------------------
(* The other steps *)

LEMMA CallIInv ==
    ASSUME IInv, NEW p \in Calls, Call(p)
    PROVE  IInv'
  <1> USE DEF IInv
  <1>1. /\ pc' = [pc EXCEPT ![p] = "locking"] /\ pc[p] = "idle"
        /\ answer' = [answer EXCEPT ![p] = None] /\ answer[p] # "cancelled"
        /\ lock' = Append(lock, p)
        /\ UNCHANGED <<proc, ready, victim, state, job, stdin, stdout>>
    BY DEF Call
  <1>2. \A q \in Calls : Cancelled(q)' <=> Cancelled(q)
    BY <1>1, OutcomesAssumption DEF TypeOK, Cancelled
  <1>3. \A q \in Calls : pc'[q] = pc[q] \/ (q = p /\ pc'[q] = "locking" /\ pc[q] = "idle")
    BY <1>1 DEF TypeOK
  <1>4. TypeOK'
    BY <1>1, LastWaits DEF TypeOK
  <1>5. InsideHolds'
    BY <1>1, <1>3, LastWaits DEF TypeOK, InsideHolds, Holds, Inside, Using
  <1>6. RolesOK' /\ HandleOK' /\ EofIsLast'
    <2>1. RolesOK'
      <3> SUFFICES ASSUME NEW q \in Calls
                   PROVE  /\ pc'[q] = "probing" => q \notin Stops
                          /\ pc'[q] \in {"draining", "writing", "reading"} => q \in Runs
                          /\ Cancelled(q)' => pc'[q] = "idle"
        BY DEF RolesOK
      <3>1. CASE pc'[q] = pc[q]
        BY <1>2, <3>1 DEF RolesOK
      <3>2. CASE q = p /\ pc'[q] = "locking"
        BY <1>1, <1>2, <3>2 DEF Cancelled
      <3> QED
        BY <1>3, <3>1, <3>2
    <2>2. HandleOK'
      BY <1>1, <1>3 DEF HandleOK, Using
    <2>3. EofIsLast'
      BY <1>1 DEF EofIsLast
    <2> QED
      BY <2>1, <2>2, <2>3
  <1>7. LoadingIsWatched' /\ NoStrayChild'
    BY <1>1, <1>2, <1>3 DEF LoadingIsWatched, NoStrayChild, Alive
  <1>8. PipesInStep'
    BY <1>1, <1>2, <1>3 DEF PipesInStep, Calls, Quiet, OnlyJob, Silent
  <1> QED
    BY <1>4, <1>5, <1>6, <1>7, <1>8

LEMMA CancelIInv ==
    ASSUME IInv, NEW p \in Calls, Cancel(p)
    PROVE  IInv'
  <1> USE DEF IInv
  <1>1. /\ pc' = [pc EXCEPT ![p] = "idle"] /\ answer' = [answer EXCEPT ![p] = "cancelled"]
        /\ victim' = [victim EXCEPT ![p] = None]
        /\ stdin' = IF pc[p] = "writing" /\ Alive(proc)
                    THEN [stdin EXCEPT ![proc] = Append(@, p)] ELSE stdin
        /\ UNCHANGED <<proc, ready, state, job, stdout>>
    BY DEF Cancel
  <1> PICK i \in DOMAIN lock : lock[i] = p /\ lock' = RemoveAt(lock, i)
    BY DEF Cancel
  <1>2. Cancelled(p)' /\ \A q \in Calls : Cancelled(q) => Cancelled(q)'
    BY <1>1 DEF TypeOK, Cancelled
  <1>3. \A q \in Calls : pc'[q] = IF q = p THEN "idle" ELSE pc[q]
    BY <1>1 DEF TypeOK
  <1>4. TypeOK'
    <2>1. stdin' \in [Children -> Seq(Runs)]
      <3>1. CASE pc[p] = "writing"
        <4>1. proc \in Children /\ p \in Runs
          BY <3>1 DEF HandleOK, RolesOK, Using, TypeOK
        <4> QED
          BY <1>1, <4>1, LastIsPrinted DEF TypeOK
      <3>2. CASE pc[p] # "writing"
        BY <1>1, <3>2 DEF TypeOK
      <3> QED
        BY <3>1, <3>2
    <2>2. lock' \in Seq(Calls)
      BY OneLeaves DEF TypeOK
    <2>3. /\ pc' \in [Calls -> {"idle", "locking"} \cup Inside]
          /\ answer' \in [Calls -> Runs \cup {None, "done", "error", "cancelled"}]
          /\ victim' \in [Calls -> Children \cup {None}]
      BY <1>1 DEF TypeOK
    <2> QED
      BY <1>1, <2>1, <2>2, <2>3 DEF TypeOK
  <1>5. InsideHolds'
    <2> SUFFICES ASSUME NEW q \in Calls, pc'[q] \in Inside PROVE Holds(q)'
      BY DEF InsideHolds
    <2>1. q # p /\ pc[q] \in Inside
      BY <1>3 DEF Inside, Using
    <2>2. lock # <<>> /\ Head(lock) = q /\ lock[i] # Head(lock)
      BY <2>1 DEF InsideHolds, Holds
    <2> QED
      BY <2>2, OneLeaves DEF TypeOK, Holds
  <1>6. RolesOK' /\ HandleOK' /\ EofIsLast'
    <2>1. RolesOK'
      <3> SUFFICES ASSUME NEW q \in Calls
                   PROVE  /\ pc'[q] = "probing" => q \notin Stops
                          /\ pc'[q] \in {"draining", "writing", "reading"} => q \in Runs
                          /\ Cancelled(q)' => pc'[q] = "idle"
        BY DEF RolesOK
      <3>1. CASE q = p
        BY <1>3, <3>1
      <3>2. CASE q # p
        BY <1>1, <1>3, <3>2 DEF RolesOK, Cancelled, TypeOK
      <3> QED
        BY <3>1, <3>2
    <2>2. HandleOK'
      BY <1>1, <1>3 DEF HandleOK, Using
    <2>3. EofIsLast'
      BY <1>1 DEF EofIsLast
    <2> QED
      BY <2>1, <2>2, <2>3
  <1>7. LoadingIsWatched' /\ NoStrayChild'
    BY <1>2 DEF LoadingIsWatched, NoStrayChild
  <1>8. PipesInStep'
    <2>1. CASE p \in Runs
      BY <1>2, <2>1 DEF PipesInStep
    <2>2. CASE p \notin Runs
      <3>1. pc[p] \notin {"writing", "reading"} /\ stdin' = stdin
        BY <1>1, <2>2 DEF RolesOK
      <3> QED
        BY <1>1, <1>2, <1>3, <3>1 DEF PipesInStep, Calls, Quiet, OnlyJob, Silent
    <2> QED
      BY <2>1, <2>2
  <1> QED
    BY <1>4, <1>5, <1>6, <1>7, <1>8

\* What a process does leaves the queue and the calls alone.
LEMMA ChildQueue ==
    ASSUME IInv, UNCHANGED <<lock, pc, answer>>
    PROVE  InsideHolds' /\ RolesOK' /\ \A q \in Calls : Cancelled(q)' <=> Cancelled(q)
  BY DEF IInv, InsideHolds, Holds, RolesOK, Cancelled

\* What happens to a process the handle does not name is of no account.
LEMMA OtherPipes ==
    ASSUME IInv, UNCHANGED <<pc, answer, proc>>,
           proc \in Children => /\ stdin'[proc] = stdin[proc] /\ job'[proc] = job[proc]
                               /\ stdout'[proc] = stdout[proc]
    PROVE  PipesInStep'
  <1>1. CASE proc \in Children
    <2>1. Quiet(proc) => Quiet(proc)'
      BY <1>1 DEF Quiet, Silent
    <2>2. ASSUME NEW p \in Calls, OnlyJob(proc, p)
          PROVE  OnlyJob(proc, p)'
      BY <1>1, <2>2 DEF OnlyJob, Silent
    <2> QED
      BY <2>1, <2>2 DEF IInv, PipesInStep, Cancelled
  <1>2. CASE proc = None
    BY <1>2 DEF PipesInStep
  <1> QED
    BY <1>1, <1>2 DEF IInv, TypeOK

LEMMA BootIInv ==
    ASSUME IInv, NEW c \in Children, Boot(c)
    PROVE  IInv'
  <1> USE DEF IInv
  <1>1. /\ state[c] = "booting" /\ state' = [state EXCEPT ![c] = "serving"]
        /\ stdout' = [stdout EXCEPT ![c] = Append(@, Ready)]
        /\ UNCHANGED <<lock, pc, answer, proc, ready, victim, job, stdin>>
    BY DEF Boot
  <1>2. /\ stdout'[c] \in Seq(Line)
        /\ \A i \in DOMAIN stdout'[c] :
             \/ i \in DOMAIN stdout[c] /\ stdout'[c][i] = stdout[c][i]
             \/ stdout'[c][i] = Ready
    BY <1>1, LinesAre, LastIsPrinted DEF TypeOK
  <1>3. TypeOK'
    BY <1>1, <1>2 DEF TypeOK
  <1>4. HandleOK'
    BY <1>1 DEF HandleOK, TypeOK
  <1>5. EofIsLast'
    BY <1>1, <1>2, LinesAre DEF EofIsLast, TypeOK
  <1>6. \A q \in Calls : Cancelled(q)' <=> Cancelled(q)
    BY <1>1, ChildQueue
  <1>7. LoadingIsWatched' /\ NoStrayChild'
    BY <1>1, <1>6, Zenon DEF LoadingIsWatched, NoStrayChild, Alive, TypeOK
  <1>8. PipesInStep'
    <2>1. CASE c = proc
      <3>1. Silent(c) => Silent(c)'
        BY <1>2, LinesAre DEF Silent
      <3>2. ASSUME NEW p \in Calls, pc[p] = "reading", OnlyJob(c, p)
            PROVE  OnlyJob(c, p)'
        <4>1. \A i \in DOMAIN stdout'[c] : stdout'[c][i].job = p =>
                i \in DOMAIN stdout[c] /\ stdout'[c][i] = stdout[c][i]
          BY <1>2, LinesAre, NoneAssumption
        <4> QED
          BY <1>1, <1>2, <3>1, <3>2, <4>1, LinesAre DEF OnlyJob
      <3> QED
        BY <1>1, <1>6, <2>1, <3>1, <3>2 DEF PipesInStep, Quiet, Calls
    <2>2. CASE c # proc
      BY <1>1, <2>2, OtherPipes DEF TypeOK
    <2> QED
      BY <2>1, <2>2
  <1> QED
    BY <1>1, <1>3, <1>4, <1>5, <1>7, <1>8, ChildQueue

LEMMA TakeJobIInv ==
    ASSUME IInv, NEW c \in Children, TakeJob(c)
    PROVE  IInv'
  <1> USE DEF IInv
  <1>1. /\ state[c] = "serving" /\ job[c] = None /\ stdin[c] # <<>>
        /\ job' = [job EXCEPT ![c] = Head(stdin[c])]
        /\ stdin' = [stdin EXCEPT ![c] = Tail(stdin[c])]
        /\ UNCHANGED <<lock, pc, answer, proc, ready, victim, state, stdout>>
    BY DEF TakeJob
  <1>2. Head(stdin[c]) \in Runs /\ Tail(stdin[c]) \in Seq(Runs)
    BY <1>1, HeadTailProperties DEF TypeOK
  <1>3. TypeOK' /\ HandleOK' /\ EofIsLast'
    BY <1>1, <1>2 DEF TypeOK, HandleOK, EofIsLast
  <1>4. \A q \in Calls : Cancelled(q)' <=> Cancelled(q)
    BY <1>1, ChildQueue
  <1>5. LoadingIsWatched' /\ NoStrayChild'
    BY <1>1, <1>4, Zenon DEF LoadingIsWatched, NoStrayChild, Alive
  <1>6. PipesInStep'
    <2>1. CASE c = proc
      <3>1. ~Quiet(c)
        BY <1>1 DEF Quiet
      <3>2. ASSUME NEW p \in Calls, pc[p] = "reading", OnlyJob(c, p)
            PROVE  OnlyJob(c, p)'
        <4>1. stdin[c] = <<p>> /\ Silent(c)
          BY <1>1, <3>2 DEF OnlyJob
        <4>2. stdin'[c] = <<>> /\ job'[c] = p
          BY <1>1, <4>1 DEF TypeOK
        <4> QED
          BY <1>1, <4>1, <4>2 DEF OnlyJob, Silent
      <3> QED
        BY <1>1, <1>4, <2>1, <3>1, <3>2 DEF PipesInStep, Calls
    <2>2. CASE c # proc
      BY <1>1, <2>2, OtherPipes DEF TypeOK
    <2> QED
      BY <2>1, <2>2
  <1> QED
    BY <1>1, <1>3, <1>5, <1>6, ChildQueue

LEMMA FinishJobIInv ==
    ASSUME IInv, NEW c \in Children, FinishJob(c)
    PROVE  IInv'
  <1> USE DEF IInv
  <1>1. /\ state[c] = "serving" /\ job[c] # None /\ job' = [job EXCEPT ![c] = None]
        /\ UNCHANGED <<lock, pc, answer, proc, ready, victim, state, stdin>>
    BY DEF FinishJob
  <1> PICK type \in {"ok", "error"} :
        stdout' = [stdout EXCEPT ![c] = Append(@, Result(type, job[c]))]
    BY DEF FinishJob
  <1> DEFINE line == Result(type, job[c])
  <1>2. job[c] \in Runs /\ line \in Line /\ line.job = job[c] /\ line # Eof
    BY <1>1, LinesAre DEF TypeOK
  <1>3. /\ stdout'[c] \in Seq(Line) /\ stdout' = [stdout EXCEPT ![c] = stdout'[c]]
        /\ \A i \in DOMAIN stdout'[c] :
             \/ i \in DOMAIN stdout[c] /\ stdout'[c][i] = stdout[c][i]
             \/ i = Len(stdout[c]) + 1 /\ i \notin DOMAIN stdout[c] /\ stdout'[c][i] = line
    <2>1. stdout'[c] = Append(stdout[c], line) /\ stdout' = [stdout EXCEPT ![c] = stdout'[c]]
      BY DEF TypeOK
    <2> HIDE DEF line
    <2> QED
      BY <1>2, <2>1, LastIsPrinted DEF TypeOK
  <1> HIDE DEF line
  <1>4. TypeOK'
    BY <1>1, <1>3 DEF TypeOK
  <1>5. HandleOK' /\ EofIsLast'
    BY <1>1, <1>2, <1>3 DEF HandleOK, EofIsLast, TypeOK
  <1>6. \A q \in Calls : Cancelled(q)' <=> Cancelled(q)
    BY <1>1, ChildQueue
  <1>7. LoadingIsWatched' /\ NoStrayChild'
    BY <1>1, <1>6, Zenon DEF LoadingIsWatched, NoStrayChild, Alive
  <1>8. PipesInStep'
    <2>1. CASE c = proc
      <3>1. ~Quiet(c)
        BY <1>1 DEF Quiet
      <3>2. ASSUME NEW p \in Calls, pc[p] = "reading", OnlyJob(c, p)
            PROVE  OnlyJob(c, p)'
        <4>1. stdin[c] = <<>> /\ job[c] = p /\ Silent(c) /\ p # None
          BY <1>1, <3>2, NoneAssumption DEF OnlyJob
        <4>2. \A i \in DOMAIN stdout'[c] :
                \/ stdout'[c][i].job = None
                \/ i = Len(stdout[c]) + 1 /\ stdout'[c][i].job = p
          BY <1>2, <1>3, <4>1 DEF Silent
        <4> QED
          BY <1>1, <4>1, <4>2 DEF OnlyJob, TypeOK
      <3> QED
        BY <1>1, <1>6, <2>1, <3>1, <3>2 DEF PipesInStep, Calls
    <2>2. CASE c # proc
      BY <1>1, <2>2, OtherPipes DEF TypeOK
    <2> QED
      BY <2>1, <2>2
  <1> QED
    BY <1>1, <1>4, <1>5, <1>7, <1>8, ChildQueue

LEMMA ExitIInv ==
    ASSUME IInv, NEW c \in Children, Exit(c)
    PROVE  IInv'
  <1> USE DEF IInv
  <1>1. /\ Alive(c) /\ state' = [state EXCEPT ![c] = "exited"]
        /\ job' = [job EXCEPT ![c] = None] /\ stdin' = [stdin EXCEPT ![c] = <<>>]
        /\ UNCHANGED <<lock, pc, answer, proc, ready, victim>>
        /\ stdout' = [stdout EXCEPT ![c] = IF c = proc THEN Append(@, Eof) ELSE <<>>]
    BY DEF Exit
  <1>2. /\ stdout'[c] \in Seq(Line)
        /\ \A i \in DOMAIN stdout'[c] :
             \/ i \in DOMAIN stdout[c] /\ stdout'[c][i] = stdout[c][i]
             \/ stdout'[c][i] = Eof
    BY <1>1, LinesAre, LastIsPrinted, EmptySeq DEF TypeOK
  <1>3. TypeOK'
    BY <1>1, <1>2, EmptySeq DEF TypeOK
  <1>4. HandleOK' /\ EofIsLast'
    BY <1>1 DEF HandleOK, EofIsLast, TypeOK
  <1>5. \A q \in Calls : Cancelled(q)' <=> Cancelled(q)
    BY <1>1, ChildQueue
  <1>6. \A d \in Children : Alive(d)' => Alive(d) /\ state'[d] = state[d]
    BY <1>1 DEF Alive, TypeOK
  <1>7. LoadingIsWatched' /\ NoStrayChild'
    <2>1. LoadingIsWatched'
      BY <1>1, <1>5, <1>6, Zenon DEF LoadingIsWatched, TypeOK
    <2>2. NoStrayChild'
      BY <1>1, <1>5, <1>6 DEF NoStrayChild
    <2> QED
      BY <2>1, <2>2
  <1>8. PipesInStep'
    <2>1. CASE c = proc
      <3>0. stdin'[c] = <<>> /\ job'[c] = None
        BY <1>1 DEF TypeOK
      <3>1. Silent(c) => Quiet(c)'
        BY <1>2, <3>0, LinesAre DEF Quiet, Silent
      <3>2. ASSUME NEW p \in Calls, pc[p] = "reading", OnlyJob(c, p), ~Silent(c)
            PROVE  OnlyJob(c, p)'
        <4>1. \A i \in DOMAIN stdout'[c] : stdout'[c][i].job = p =>
                i \in DOMAIN stdout[c] /\ stdout'[c][i] = stdout[c][i]
          BY <1>2, LinesAre, NoneAssumption
        <4> QED
          BY <1>2, <3>0, <3>2, <4>1, LinesAre DEF OnlyJob
      <3> QED
        BY <1>1, <1>5, <2>1, <3>1, <3>2 DEF PipesInStep, Quiet, Calls
    <2>2. CASE c # proc
      BY <1>1, <2>2, OtherPipes DEF TypeOK
    <2> QED
      BY <2>1, <2>2
  <1> QED
    BY <1>1, <1>3, <1>4, <1>7, <1>8, ChildQueue

-----------------------------------------------------------------------------
LEMMA StepIInv == IInv /\ [Next]_vars => IInv'
  <1> SUFFICES ASSUME IInv, [Next]_vars PROVE IInv'
    OBVIOUS
  <1>1. ASSUME NEW p \in Calls, Call(p) \/ Work(p) \/ Deadline(p) \/ Cancel(p)
        PROVE  IInv'
    BY <1>1, CallIInv, HeldIInv, CancelIInv DEF Held
  <1>2. ASSUME NEW c \in Children, Boot(c) \/ TakeJob(c) \/ FinishJob(c) \/ Exit(c)
        PROVE  IInv'
    BY <1>2, BootIInv, TakeJobIInv, FinishJobIInv, ExitIInv
  <1>3. CASE UNCHANGED vars
    <2> USE <1>3 DEF vars
    <2>1. TypeOK' /\ HandleOK' /\ EofIsLast'
      BY DEF IInv, TypeOK, HandleOK, EofIsLast
    <2>2. LoadingIsWatched' /\ NoStrayChild'
      BY Zenon DEF IInv, LoadingIsWatched, NoStrayChild, Alive, Cancelled
    <2> QED
      BY <2>1, <2>2, ChildQueue, OtherPipes DEF IInv
  <1> QED
    BY <1>1, <1>2, <1>3 DEF Next

LEMMA AlwaysIInv == Spec => []IInv
  BY InitIInv, StepIInv, PTL DEF Spec

\* The variables keep their types.
THEOREM TypeCorrect == Spec => []TypeOK
  BY AlwaysIInv, PTL DEF IInv

\* Between its handshake and its answer a run keeps the lock and the child,
\* however many runs, starts, stops and cancellations there are meanwhile.
THEOREM ReaderKeepsItsChild == Spec => []ReaderKeepsChild
  <1>1. IInv => ReaderKeepsChild
    BY DEF IInv, InsideHolds, HandleOK, ReaderKeepsChild, Inside, Using
  <1> QED
    BY <1>1, AlwaysIInv, PTL

\* A process the handle lost is being terminated, until a call is cancelled.
THEOREM NoChildStrays == Spec => []NoStrayChild
  BY AlwaysIInv, PTL DEF IInv

\* What changes the answer of a call, or ends it, is a step of that call.
LEMMA OwnSteps ==
    ASSUME IInv, [Next]_vars, NEW p \in Calls, pc'[p] # pc[p] \/ answer'[p] # answer[p]
    PROVE  Call(p) \/ Held(p) \/ Cancel(p)
  <1>1. ASSUME NEW q \in Calls, q # p, Call(q) \/ Cancel(q)
        PROVE  pc'[p] = pc[p] /\ answer'[p] = answer[p]
    BY <1>1 DEF Call, Cancel, IInv, TypeOK
  <1>2. ASSUME NEW q \in Calls, q # p, Held(q)
        PROVE  pc'[p] = pc[p] /\ answer'[p] = answer[p]
    BY <1>2, HeldMoves DEF IInv, TypeOK
  <1>3. ASSUME NEW c \in Children, Boot(c) \/ TakeJob(c) \/ FinishJob(c) \/ Exit(c)
        PROVE  pc' = pc /\ answer' = answer
    BY <1>3 DEF Boot, TakeJob, FinishJob, Exit
  <1> QED
    BY <1>1, <1>2, <1>3 DEF Next, Held, vars

\* A run that fails has dropped the handle, so that the next starts a process
\* of its own: a failed call leaves through stopping, and then proc is None.
THEOREM FailuresEvict == Spec => FailureEvicts
  <1> DEFINE Evicts ==
        \A p \in Runs : pc[p] # "idle" /\ pc'[p] = "idle"
          /\ answer'[p] \notin Runs \cup {"cancelled"} => proc' = None
  <1>1. IInv /\ [Next]_vars => Evicts
    <2> SUFFICES ASSUME IInv, [Next]_vars, NEW p \in Runs, pc[p] # "idle", pc'[p] = "idle",
                        answer'[p] \notin Runs \cup {"cancelled"}
                 PROVE  proc' = None
      OBVIOUS
    <2> USE DEF IInv, TypeOK, Calls
    <2>1. p \notin Starts /\ p \notin Stops
      BY CallsAssumption
    <2>2. ~Call(p) /\ ~Cancel(p)
      BY DEF Call, Cancel
    <2>3. CASE EnterStart(p) \/ EnterStop(p) \/ ProbeReady(p) \/ ProbeEof(p) \/ ProbeTimeout(p)
      BY <2>1, <2>3 DEF EnterStart, Spawn, EnterStop, ProbeReady, ProbeEof, ProbeTimeout, StopChild
    <2>4. CASE DrainLine(p) \/ DrainDone(p) \/ WriteJob(p) \/ ReadReady(p) \/ ReadError(p)
                 \/ ReadTimeout(p)
      BY <2>4 DEF DrainLine, DrainDone, WriteJob, ReadReady, ReadError, ReadTimeout, StopChild
    <2>5. CASE ReadResult(p)
      BY <2>5 DEF ReadResult, Return
    <2>6. CASE StopDone(p)
      BY <2>6 DEF StopDone, HandleOK
    <2> QED
      BY <2>2, <2>3, <2>4, <2>5, <2>6, OwnSteps DEF Held, Work, Deadline
  <1>2. FailureEvicts <=> [][Evicts]_vars
    BY DEF FailureEvicts
  <1> QED
    BY <1>1, <1>2, AlwaysIInv, PTL DEF Spec

\* A run returns the result of its own job, until a run is cancelled: the
\* pipes of the child hold no job but that of the run that reads.
THEOREM AnswersAreOwn == Spec => OwnAnswer
  <1> DEFINE Own ==
        \A p, j \in Runs :
          answer[p] # j /\ answer'[p] = j => j = p \/ \E q \in Runs : Cancelled(q)
  <1>1. IInv /\ [Next]_vars => Own
    <2> SUFFICES ASSUME IInv, [Next]_vars, NEW p \in Runs, NEW j \in Runs,
                        answer[p] # j, answer'[p] = j, ~ \E q \in Runs : Cancelled(q)
                 PROVE  j = p
      OBVIOUS
    <2> USE DEF IInv, TypeOK
    <2>1. p \in Calls /\ j \notin {None, "done", "error", "cancelled"}
      BY NoneAssumption, OutcomesAssumption DEF Calls
    <2>2. ~Call(p) /\ ~Cancel(p)
      BY <2>1 DEF Call, Cancel
    <2>3. ReadResult(p)
      <3>1. ~EnterStart(p) /\ ~EnterStop(p) /\ ~ProbeReady(p) /\ ~ProbeEof(p) /\ ~ProbeTimeout(p)
        BY <2>1 DEF EnterStart, Spawn, EnterStop, ProbeReady, ProbeEof, ProbeTimeout, StopChild,
                    Return
      <3>2. /\ ~DrainLine(p) /\ ~DrainDone(p) /\ ~WriteJob(p) /\ ~ReadReady(p)
            /\ ~ReadError(p) /\ ~ReadTimeout(p)
        BY <2>1 DEF DrainLine, DrainDone, WriteJob, ReadReady, ReadError, ReadTimeout, StopChild
      <3>3. ~StopDone(p)
        BY <2>1 DEF StopDone, Return
      <3> QED
        BY <2>1, <2>2, <3>1, <3>2, <3>3, OwnSteps DEF Held, Work, Deadline
    <2>4. pc[p] = "reading" /\ proc # None /\ stdout[proc] # <<>>
          /\ Head(stdout[proc]) = Result("ok", j)
      <3> PICK k \in Runs : NextLine(Result("ok", k)) /\ Return(p, k)
        BY <2>3 DEF ReadResult
      <3>1. k = j
        BY <2>1 DEF Return
      <3> QED
        BY <2>3, <3>1 DEF ReadResult, NextLine
    <2>5. /\ 1 \in DOMAIN stdout[proc] /\ stdout[proc][1] = Result("ok", j)
          /\ stdout[proc][1].job = j /\ j # None
      BY <2>1, <2>4, FirstIsTaken, LinesAre
    <2>6. PICK q \in Calls : pc[q] = "reading" /\ OnlyJob(proc, q)
      BY <2>4, <2>5 DEF PipesInStep, Quiet, Silent
    <2>7. q = p
      BY <2>1, <2>4, <2>6, OneInside DEF InsideHolds, Inside, Using
    <2> QED
      BY <2>5, <2>6, <2>7 DEF OnlyJob, Silent
  <1>2. OwnAnswer <=> [][Own]_vars
    BY DEF OwnAnswer
  <1> QED
    BY <1>1, <1>2, AlwaysIInv, PTL DEF Spec
=============================================================================
