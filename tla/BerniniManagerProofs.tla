------------------------ MODULE BerniniManagerProofs ------------------------
(* Proofs about the Bernini manager, for every number of handlers, managers   *)
(* and processes: whose process a generation reads, and whose result.         *)
EXTENDS BerniniManagerProps, SequenceTheorems, TLAPS

\* A handler in Inside is past its manager's lock, one in Jobbing has a
\* process to use, one in Owning has a manager.
Jobbing == {"draining", "writing", "reading"}
Inside  == Jobbing \cup {"probing", "stopping"}
Owning  == Inside \cup {"fetched", "ensuring", "queued", "evicting"}

Lines == {Eof} \cup {Line(type, j) : type \in {"ok", "error"}, j \in Gens}

\* The types of the state.
TypeOK ==
    /\ slotLock \in Seq(Calls)
    /\ current \in Managers \cup {None}
    /\ target \in [Managers -> Targets \cup {None}]
    /\ lock \in [Managers -> Seq(Calls)]
    /\ proc \in [Managers -> Processes \cup {None}]
    /\ ready \in [Managers -> BOOLEAN]
    /\ pc \in [Calls -> {"idle", "slot"} \cup Owning]
    /\ goal \in [Calls -> Targets \cup {None}]
    /\ mine \in [Calls -> Managers \cup {None}]
    /\ todo \in [Calls -> Seq({"plan", "chunk"})]
    /\ answer \in [Calls -> Gens \cup {None, "done", "error", "timeout"}]
    /\ victim \in [Calls -> Processes \cup {None}]
    /\ state \in [Processes -> {"alive", "terminating", "exited"}]
    /\ job \in [Processes -> Gens \cup {None}]
    /\ stdin \in [Processes -> Seq(Gens)]
    /\ stdout \in [Processes -> Seq(Lines)]

\* Only the holder of a manager's lock is past it.
InsideHolds == \A p \in Calls : pc[p] \in Inside => Holds(p)

\* Which handlers get how far and what they have; a late one is over.
RolesOK ==
    \A p \in Calls :
      /\ pc[p] \in Owning => mine[p] # None
      /\ pc[p] \in {"fetched", "ensuring", "probing"} => p \in Users
      /\ pc[p] \in Jobbing \cup {"queued"} => p \in Gens
      /\ p \in Gens /\ pc[p] # "idle" => todo[p] # <<>>
      /\ TimedOut(p) => pc[p] = "idle"

\* The managers within reach have a process each, none that is on its way
\* out, and one that runs a job has a process.
ProcsApart ==
    /\ \A m \in Reachable :
         /\ proc[m] # None => state[proc[m]] # "terminating"
         /\ \A n \in Reachable : proc[m] # None /\ proc[m] = proc[n] => m = n
    /\ \A p \in Calls : pc[p] \in Jobbing => proc[mine[p]] # None

\* A process that is gone has nothing to do.
DeadIsEmpty == \A x \in Processes :
    state[x] = "exited" => stdin[x] = <<>> /\ job[x] = None

-----------------------------------------------------------------------------
(* The jobs in the pipes of a process *)

\* Nothing is asked of x that it has not answered, and no answer is unread.
Silent(x) == \A i \in DOMAIN stdout[x] : stdout[x][i].job = None
Quiet(x)  == stdin[x] = <<>> /\ job[x] = None /\ Silent(x)

\* The job of p is at one place of the pipes of x at most, and alone in them.
OnlyJob(x, p) ==
    \/ stdin[x] = <<p>> /\ job[x] = None /\ Silent(x)
    \/ stdin[x] = <<>> /\ job[x] = p /\ Silent(x)
    \/ /\ stdin[x] = <<>> /\ job[x] = None
       /\ \A i \in DOMAIN stdout[x] : stdout[x][i].job \in {None, p}
       /\ \A i, k \in DOMAIN stdout[x] :
            stdout[x][i].job = p /\ stdout[x][k].job = p => i = k

Served(m) == \E p \in Calls : pc[p] = "reading" /\ mine[p] = m /\ OnlyJob(proc[m], p)

\* Until a generation is late, the pipes of a manager's process hold the job
\* of the generation that reads.
PipesInStep ==
    \/ \E q \in Gens : TimedOut(q)
    \/ \A m \in Reachable : proc[m] # None => Quiet(proc[m]) \/ Served(m)

IInv ==
    /\ TypeOK /\ InsideHolds /\ RolesOK /\ ProcsApart /\ DeadIsEmpty /\ PipesInStep

-----------------------------------------------------------------------------
(* Sequences *)

LEMMA LastWaits ==
    ASSUME NEW S, NEW s \in Seq(S), NEW e \in S
    PROVE  /\ Append(s, e) \in Seq(S) /\ Append(s, e) # <<>>
           /\ s # <<>> => Head(Append(s, e)) = Head(s)
  BY AppendProperties, EmptySeq

\* One who leaves the queue from behind its head leaves the head in place.
LEMMA OneLeaves ==
    ASSUME NEW S, NEW s \in Seq(S), NEW i \in DOMAIN s
    PROVE  /\ RemoveAt(s, i) \in Seq(S)
           /\ s[i] # Head(s) => RemoveAt(s, i) # <<>> /\ Head(RemoveAt(s, i)) = Head(s)
  <1>1. i \in 1..Len(s) /\ Len(s) \in Nat
    BY LenProperties
  <1>2. /\ SubSeq(s, 1, i - 1) \in Seq(S) /\ SubSeq(s, i + 1, Len(s)) \in Seq(S)
        /\ Len(SubSeq(s, 1, i - 1)) = i - 1
        /\ \A k \in 1..(i - 1) : SubSeq(s, 1, i - 1)[k] = s[k]
    BY <1>1, SubSeqProperties, ElementOfSeq
  <1>3. /\ RemoveAt(s, i) \in Seq(S)
        /\ i # 1 => RemoveAt(s, i)[1] = s[1] /\ Len(RemoveAt(s, i)) >= 1
    BY <1>1, <1>2, ConcatProperties, LenProperties DEF RemoveAt
  <1>4. i # 1 => RemoveAt(s, i) # <<>> /\ Head(RemoveAt(s, i)) = Head(s)
    BY <1>3, EmptySeq
  <1> QED
    BY <1>3, <1>4

\* Taking the first line.
LEMMA FirstIsTaken ==
    ASSUME NEW S, NEW s \in Seq(S), s # <<>>
    PROVE  /\ Head(s) = s[1] /\ 1 \in DOMAIN s /\ Tail(s) \in Seq(S)
           /\ \A i \in DOMAIN Tail(s) : i + 1 \in DOMAIN s /\ Tail(s)[i] = s[i + 1] /\ i \in Nat \ {0}
  BY HeadTailProperties, LenProperties, EmptySeq

\* Printing a line.
LEMMA LastIsPrinted ==
    ASSUME NEW S, NEW s \in Seq(S), NEW e \in S
    PROVE  /\ Append(s, e) \in Seq(S)
           /\ \A i \in DOMAIN Append(s, e) :
                \/ i \in DOMAIN s /\ Append(s, e)[i] = s[i]
                \/ i = Len(s) + 1 /\ i \notin DOMAIN s /\ Append(s, e)[i] = e
  BY AppendProperties, LenProperties

LEMMA LinesAre ==
    /\ Eof \in Lines /\ Eof.job = None
    /\ \A type \in {"ok", "error"}, j \in Gens :
         /\ Line(type, j) \in Lines /\ Line(type, j).job = j
         /\ Line(type, j) # Eof /\ j # None
  <1>1. /\ Eof \in Lines
        /\ \A type \in {"ok", "error"}, j \in Gens : Line(type, j) \in Lines
    BY DEF Lines
  <1>2. Eof.job = None
    BY DEF Eof, Line
  <1>3. ASSUME NEW type \in {"ok", "error"}, NEW j \in Gens
        PROVE  Line(type, j).job = j /\ Line(type, j) # Eof /\ j # None
    BY NoneAssumption DEF Eof, Line, Calls, Users
  <1> QED
    BY <1>1, <1>2, <1>3

-----------------------------------------------------------------------------
(* Steps *)

LEMMA InitIInv == Init => IInv
  <1> SUFFICES ASSUME Init PROVE IInv
    OBVIOUS
  <1>1. TypeOK
    BY EmptySeq, NoneAssumption DEF Init, TypeOK
  <1>2. \A p \in Calls : pc[p] = "idle" /\ ~TimedOut(p)
    BY OutcomesAssumption DEF Init, TimedOut
  <1>3. InsideHolds /\ RolesOK /\ ProcsApart
    BY <1>2 DEF Init, InsideHolds, RolesOK, ProcsApart, Inside, Jobbing, Owning, Reachable
  <1>4. DeadIsEmpty /\ PipesInStep
    BY <1>2 DEF Init, DeadIsEmpty, PipesInStep, Reachable
  <1> QED
    BY <1>1, <1>3, <1>4 DEF IInv

\* Two handlers are never past the lock of a manager at the same time.
LEMMA OneInside ==
    ASSUME InsideHolds, NEW p \in Calls, NEW q \in Calls, pc[q] \in Inside, Holds(p),
           mine[p] = mine[q]
    PROVE  p = q
  BY DEF InsideHolds, Holds

Does(p) == Work(p) \/ ReadTimeout(p)

\* The steps with the manager's lock held.
Held(p) ==
    \/ AlreadyLoaded(p) \/ Spawn(p) \/ ProbeReady(p) \/ Evict(p) \/ JobFailed(p)
    \/ SlotEmptied(p) \/ StartJob(p) \/ DrainLine(p) \/ DrainDone(p) \/ CutFailed(p)
    \/ WriteJob(p) \/ ReadResult(p) \/ ReadError(p) \/ ReadTimeout(p)

LEMMA HeldHolds ==
    ASSUME IInv, NEW p \in Calls, Held(p)
    PROVE  /\ Holds(p) /\ mine[p] \in Managers
           /\ pc[p] \in Inside \cup {"ensuring", "queued", "evicting"}
  <1>1. Holds(p) /\ pc[p] \in Inside \cup {"ensuring", "queued", "evicting"}
    BY DEF IInv, Held, InsideHolds, Inside, Jobbing, At, AlreadyLoaded, Spawn, ProbeReady, Evict,
         JobFailed, SlotEmptied, Stopped, StartJob, DrainLine, DrainDone, CutFailed, WriteJob,
         ReadResult, ReadError, ReadTimeout
  <1> QED
    BY <1>1 DEF IInv, RolesOK, TypeOK, Owning

\* What a handler's step does to the handlers and the queues: it queues up,
\* it gives up a lock it holds, or it leaves the queue of the lock alone.
LEMMA HeldMoves ==
    ASSUME IInv, NEW p \in Calls, Held(p)
    PROVE  /\ slotLock' \in {slotLock, Tail(slotLock)}
           /\ slotLock' # slotLock => HoldsSlot(p)
           /\ \/ lock' = lock /\ mine' = mine /\ pc'[p] \in Inside
              \/ lock' = [lock EXCEPT ![mine[p]] = Tail(@)] /\ mine' = [mine EXCEPT ![p] = None]
                 /\ pc'[p] \in {"idle", "slot"}
              \/ lock' = [lock EXCEPT ![mine[p]] = Append(Tail(@), p)] /\ mine' = mine
                 /\ pc'[p] = "queued" /\ p \in Gens
           /\ \E place \in {"idle", "slot"} \cup Owning : pc' = [pc EXCEPT ![p] = place]
           /\ goal' \in {goal, [goal EXCEPT ![p] = None]}
           /\ \/ pc'[p] # "idle" /\ todo' = todo
              \/ pc'[p] = "idle" /\ todo' = [todo EXCEPT ![p] = <<>>]
              \/ pc'[p] = "draining" /\ Len(todo[p]) # 1 /\ todo' = [todo EXCEPT ![p] = Tail(@)]
           /\ \/ answer' = answer
              \/ \E ans \in Gens \cup {"done", "error"} : answer' = [answer EXCEPT ![p] = ans]
           /\ pc'[p] = "probing" => p \in Users
           /\ pc'[p] \in Jobbing => p \in Gens
  <1> USE DEF IInv, TypeOK, At, Goto, slotVars, procVars, Inside, Jobbing, Owning
  <1>0. p \in Calls /\ p \in Gens \cup Loads \cup Evicts
    BY DEF Calls, Users
  <1>1. CASE AlreadyLoaded(p)
    <2>1. p \in Users
      BY <1>1 DEF AlreadyLoaded, RolesOK
    <2> QED
      BY <1>1, <2>1 DEF AlreadyLoaded, Loaded, Return, Answer, Users
  <1>2. CASE Spawn(p)
    BY <1>2 DEF Spawn, RolesOK
  <1>3. CASE ProbeReady(p)
    <2>1. p \in Users
      BY <1>3 DEF ProbeReady, RolesOK
    <2> QED
      BY <1>3, <2>1 DEF ProbeReady, Loaded, Return, Answer, Users
  <1>4. CASE Evict(p) \/ ReadError(p) \/ ReadTimeout(p)
    BY <1>4 DEF Evict, ReadError, ReadTimeout, StopProcess
  <1>5. CASE JobFailed(p)
    BY <1>5 DEF JobFailed, Return, Answer
  <1>6. CASE SlotEmptied(p)
    BY <1>6 DEF SlotEmptied, Answer
  <1>7. CASE StartJob(p)
    BY <1>7 DEF StartJob, Return, Answer, RolesOK
  <1>8. CASE DrainLine(p)
    <2>1. pc' = pc /\ pc[p] = "draining" /\ p \in Gens
      BY <1>8 DEF DrainLine, RolesOK
    <2>2. pc' = [pc EXCEPT ![p] = "draining"]
      BY <2>1
    <2> QED
      BY <1>8, <2>1, <2>2 DEF DrainLine
  <1>9. CASE DrainDone(p)
    BY <1>9 DEF DrainDone, RolesOK
  <1>10. CASE CutFailed(p)
    BY <1>10 DEF CutFailed, Return, Answer
  <1>11. CASE WriteJob(p)
    BY <1>11 DEF WriteJob, StopProcess, RolesOK
  <1>12. CASE ReadResult(p)
    <2> PICK j \in Gens :
          IF Len(todo[p]) = 1 THEN Return(p, j)
            ELSE /\ Goto(p, "draining")
                 /\ answer' = [answer EXCEPT ![p] = j]
                 /\ todo' = [todo EXCEPT ![p] = Tail(@)]
                 /\ UNCHANGED <<lock, goal, mine>>
      BY <1>12 DEF ReadResult
    <2>1. slotLock' = slotLock /\ p \in Gens
      BY <1>12 DEF ReadResult, RolesOK
    <2> QED
      BY <2>1 DEF Return, Answer
  <1> QED
    BY <1>1, <1>2, <1>3, <1>4, <1>5, <1>6, <1>7, <1>8, <1>9, <1>10, <1>11, <1>12 DEF Held

LEMMA HeldQueue ==
    ASSUME IInv, NEW p \in Calls, Held(p)
    PROVE  /\ slotLock' \in Seq(Calls) /\ lock' \in [Managers -> Seq(Calls)]
           /\ pc' \in [Calls -> {"idle", "slot"} \cup Owning]
           /\ goal' \in [Calls -> Targets \cup {None}]
           /\ mine' \in [Calls -> Managers \cup {None}]
           /\ todo' \in [Calls -> Seq({"plan", "chunk"})]
           /\ answer' \in [Calls -> Gens \cup {None, "done", "error", "timeout"}]
           /\ InsideHolds' /\ RolesOK'
  <1>a. slotLock' \in {slotLock, Tail(slotLock)} /\ (slotLock' # slotLock => HoldsSlot(p))
    BY HeldMoves
  <1>b. \/ lock' = lock /\ mine' = mine /\ pc'[p] \in Inside
        \/ lock' = [lock EXCEPT ![mine[p]] = Tail(@)] /\ mine' = [mine EXCEPT ![p] = None]
           /\ pc'[p] \in {"idle", "slot"}
        \/ lock' = [lock EXCEPT ![mine[p]] = Append(Tail(@), p)] /\ mine' = mine
           /\ pc'[p] = "queued" /\ p \in Gens
    BY HeldMoves
  <1>c. /\ \E place \in {"idle", "slot"} \cup Owning : pc' = [pc EXCEPT ![p] = place]
        /\ goal' \in {goal, [goal EXCEPT ![p] = None]}
    BY HeldMoves
  <1>d. \/ pc'[p] # "idle" /\ todo' = todo
        \/ pc'[p] = "idle" /\ todo' = [todo EXCEPT ![p] = <<>>]
        \/ pc'[p] = "draining" /\ Len(todo[p]) # 1 /\ todo' = [todo EXCEPT ![p] = Tail(@)]
    BY HeldMoves
  <1>e. \/ answer' = answer
        \/ \E ans \in Gens \cup {"done", "error"} : answer' = [answer EXCEPT ![p] = ans]
    BY HeldMoves
  <1>f. (pc'[p] = "probing" => p \in Users) /\ (pc'[p] \in Jobbing => p \in Gens)
    BY HeldMoves
  <1> USE DEF IInv
  <1>1. Holds(p) /\ mine[p] \in Managers /\ pc[p] # "idle" /\ ~TimedOut(p)
    BY HeldHolds DEF Inside, Jobbing, RolesOK
  <1>2. lock[mine[p]] \in Seq(Calls) /\ lock[mine[p]] # <<>> /\ Tail(lock[mine[p]]) \in Seq(Calls)
    BY <1>1, FirstIsTaken DEF TypeOK, Holds
  <1>3. Append(Tail(lock[mine[p]]), p) \in Seq(Calls)
    BY <1>2, LastWaits
  <1>4. slotLock' \in Seq(Calls)
    <2>1. slotLock # <<>> => Tail(slotLock) \in Seq(Calls)
      BY FirstIsTaken DEF TypeOK
    <2> QED
      BY <1>a, <2>1 DEF TypeOK, HoldsSlot
  <1>5. lock' \in [Managers -> Seq(Calls)]
    BY <1>1, <1>2, <1>3, <1>b DEF TypeOK
  <1>6. \A q \in Calls \ {p} : /\ pc'[q] = pc[q] /\ mine'[q] = mine[q] /\ todo'[q] = todo[q]
                               /\ answer'[q] = answer[q]
    BY <1>b, <1>c, <1>d, <1>e DEF TypeOK
  <1>7. pc' \in [Calls -> {"idle", "slot"} \cup Owning] /\ goal' \in [Calls -> Targets \cup {None}]
        /\ mine' \in [Calls -> Managers \cup {None}]
    <2>1. pc' \in [Calls -> {"idle", "slot"} \cup Owning]
      BY <1>c DEF TypeOK
    <2>2. goal' \in [Calls -> Targets \cup {None}]
      BY <1>c DEF TypeOK
    <2>3. mine' \in [Calls -> Managers \cup {None}]
      BY <1>b DEF TypeOK
    <2> QED
      BY <2>1, <2>2, <2>3
  <1>8. todo' \in [Calls -> Seq({"plan", "chunk"})] /\ (p \in Gens /\ pc'[p] # "idle" => todo'[p] # <<>>)
    <2>0. p \in Gens => todo[p] # <<>>
      BY <1>1 DEF RolesOK
    <2>1. CASE todo' = todo
      BY <2>0, <2>1 DEF TypeOK
    <2>2. CASE pc'[p] = "idle" /\ todo' = [todo EXCEPT ![p] = <<>>]
      BY <2>2, EmptySeq DEF TypeOK
    <2>3. CASE pc'[p] = "draining" /\ Len(todo[p]) # 1 /\ todo' = [todo EXCEPT ![p] = Tail(@)]
      <3>1. p \in Gens /\ todo[p] \in Seq({"plan", "chunk"}) /\ todo[p] # <<>>
        BY <2>0, <2>3, <1>f DEF TypeOK, Jobbing
      <3>2. Tail(todo[p]) \in Seq({"plan", "chunk"}) /\ Tail(todo[p]) # <<>>
        <4>1. /\ Tail(todo[p]) \in Seq({"plan", "chunk"})
              /\ Len(Tail(todo[p])) = Len(todo[p]) - 1 /\ Len(todo[p]) \in Nat
          BY <3>1, HeadTailProperties, LenProperties
        <4>2. Len(Tail(todo[p])) # 0
          BY <2>3, <4>1
        <4> QED
          BY <4>1, <4>2, EmptySeq
      <3> QED
        BY <2>3, <3>2 DEF TypeOK
    <2> QED
      BY <2>1, <2>2, <2>3, <1>d
  <1>9. /\ answer' \in [Calls -> Gens \cup {None, "done", "error", "timeout"}]
        /\ ~TimedOut(p)'
    <2>1. CASE answer' = answer
      BY <1>1, <2>1 DEF TypeOK, TimedOut
    <2>2. ASSUME NEW ans \in Gens \cup {"done", "error"}, answer' = [answer EXCEPT ![p] = ans]
          PROVE  /\ answer' \in [Calls -> Gens \cup {None, "done", "error", "timeout"}]
                 /\ ~TimedOut(p)'
      <3>1. ans # "timeout"
        BY OutcomesAssumption DEF Calls, Users
      <3> QED
        BY <2>2, <3>1 DEF TypeOK, TimedOut
    <2> QED
      BY <2>1, <2>2, <1>e
  <1>10. InsideHolds'
    <2> SUFFICES ASSUME NEW q \in Calls, pc'[q] \in Inside PROVE Holds(q)'
      BY DEF InsideHolds
    <2>1. CASE q = p
      BY <1>1, <1>b, <2>1 DEF Holds, Inside, Jobbing
    <2>2. CASE q # p
      <3>1. pc[q] \in Inside /\ mine'[q] = mine[q] /\ mine[q] \in Managers
        BY <1>6, <2>2 DEF RolesOK, TypeOK, Owning
      <3>2. mine[q] # mine[p]
        BY <1>1, <2>2, <3>1, OneInside
      <3>3. lock'[mine[q]] = lock[mine[q]]
        BY <1>1, <1>b, <3>1, <3>2 DEF TypeOK
      <3> QED
        BY <3>1, <3>3 DEF InsideHolds, Holds
    <2> QED
      BY <2>1, <2>2
  <1>11. RolesOK'
    <2> SUFFICES ASSUME NEW q \in Calls
                 PROVE  /\ pc'[q] \in Owning => mine'[q] # None
                        /\ pc'[q] \in {"fetched", "ensuring", "probing"} => q \in Users
                        /\ pc'[q] \in Jobbing \cup {"queued"} => q \in Gens
                        /\ q \in Gens /\ pc'[q] # "idle" => todo'[q] # <<>>
                        /\ TimedOut(q)' => pc'[q] = "idle"
      BY DEF RolesOK
    <2>1. CASE q = p
      <3>1. pc'[p] \in {"idle", "slot", "queued", "probing", "stopping"} \cup Jobbing
        BY <1>b DEF Inside
      <3>2. pc'[p] \in Owning => mine'[p] # None
        <4>1. mine' = mine \/ pc'[p] \in {"idle", "slot"}
          BY <1>b
        <4> QED
          BY <1>1, <4>1, NoneAssumption DEF Owning, Inside, Jobbing
      <3>3. pc'[p] \in Jobbing \cup {"queued"} => p \in Gens
        BY <1>b, <1>f DEF Inside, Jobbing
      <3> QED
        BY <1>8, <1>9, <2>1, <3>1, <3>2, <3>3, <1>f DEF Jobbing
    <2>2. CASE q # p
      BY <1>6, <2>2 DEF RolesOK, TimedOut
    <2> QED
      BY <2>1, <2>2
  <1> QED
    BY <1>4, <1>5, <1>7, <1>8, <1>9, <1>10, <1>11

\* What such a step does to the processes: it starts one, it lets the one of
\* its manager go, it takes a line of it, it writes its job, or it leaves them
\* alone; what it then may do has been done before it.
LEMMA HeldTouches ==
    ASSUME IInv, NEW p \in Calls, Held(p)
    PROVE  LET m == mine[p] IN
           /\ target' = target /\ current' \in {current, None}
           /\ ready' \in [Managers -> BOOLEAN] /\ victim' \in [Calls -> Processes \cup {None}]
           /\ \/ /\ pc'[p] = "probing" /\ current' = current
                 /\ \E x \in Processes :
                      /\ (x = proc[m] /\ ~Alive(x)) \/ x \in FreeProcesses
                      /\ proc' = [proc EXCEPT ![m] = x]
                      /\ state' = [state EXCEPT ![x] = "alive"]
                      /\ stdout' = [stdout EXCEPT ![x] = <<>>]
                 /\ UNCHANGED <<job, stdin>>
              \/ /\ pc'[p] = "stopping" /\ current' = current /\ proc' = [proc EXCEPT ![m] = None]
                 /\ state' = IF Alive(proc[m]) THEN [state EXCEPT ![proc[m]] = "terminating"]
                             ELSE state
                 /\ UNCHANGED <<job, stdin, stdout>>
              \/ /\ pc[p] \in {"draining", "reading"} /\ pc'[p] # "reading" /\ TakeLine(p)
                 /\ pc'[p] \in Jobbing => pc[p] \in Jobbing
                 /\ stdout[proc[m]] # <<>>
                 /\ pc[p] = "reading" => \E j \in Gens : Head(stdout[proc[m]]) = Line("ok", j)
                 /\ UNCHANGED <<current, proc, state, job, stdin>>
              \/ /\ pc[p] = "writing" /\ pc'[p] = "reading" /\ Alive(proc[m])
                 /\ stdin' = [stdin EXCEPT ![proc[m]] = Append(@, p)]
                 /\ UNCHANGED <<current, proc, state, job, stdout>>
              \/ /\ pc[p] # "reading" /\ pc'[p] # "reading"
                 /\ pc'[p] \in Jobbing => proc[m] # None
                 /\ UNCHANGED <<proc, state, job, stdin, stdout>>
  <1> USE DEF IInv, TypeOK, At, Goto, slotVars, procVars, Jobbing, Pipe, NextLine
  <1>0. mine[p] \in Managers
    BY HeldHolds
  <1>1. CASE AlreadyLoaded(p)
    BY <1>1 DEF AlreadyLoaded, Loaded, Return, Answer
  <1>2. CASE Spawn(p)
    BY <1>2 DEF Spawn, Unused
  <1>3. CASE ProbeReady(p)
    BY <1>3 DEF ProbeReady, Loaded, Return, Answer
  <1>4. CASE StopProcess(p)
    BY <1>0, <1>4 DEF StopProcess
  <1>5. CASE JobFailed(p)
    BY <1>5 DEF JobFailed, Return, Answer, Stopped
  <1>6. CASE SlotEmptied(p)
    BY <1>6 DEF SlotEmptied, Answer, Stopped
  <1>7. CASE StartJob(p)
    BY <1>7 DEF StartJob, Return, Answer
  <1>8. CASE DrainLine(p)
    BY <1>8 DEF DrainLine
  <1>9. CASE DrainDone(p)
    BY <1>9 DEF DrainDone, ProcsApart
  <1>10. CASE CutFailed(p)
    BY <1>10 DEF CutFailed, Return, Answer
  <1>11. CASE WriteJob(p) /\ ~StopProcess(p)
    BY <1>11 DEF WriteJob
  <1>12. CASE ReadResult(p)
    BY <1>12 DEF ReadResult, Return, Answer
  <1> QED
    BY <1>1, <1>2, <1>3, <1>4, <1>5, <1>6, <1>7, <1>8, <1>9, <1>10, <1>11, <1>12
    DEF Held, Evict, ReadError, ReadTimeout

\* The other handlers, and what p's step leaves within reach.
LEMMA HeldApart ==
    ASSUME IInv, NEW p \in Calls, Held(p)
    PROVE  /\ \A q \in Calls \ {p} :
                /\ pc'[q] = pc[q] /\ mine'[q] = mine[q] /\ answer'[q] = answer[q]
                /\ pc[q] \in Inside => mine[q] # mine[p]
           /\ \A q \in Calls : TimedOut(q) => TimedOut(q)'
           /\ mine[p] \in Managers /\ mine[p] \in Reachable /\ Reachable' \subseteq Reachable
           /\ pc'[p] \in Inside => mine'[p] = mine[p]
  <1>1. Holds(p) /\ mine[p] \in Managers /\ ~TimedOut(p)
    BY HeldHolds DEF Inside, Jobbing, RolesOK, IInv
  <1>2. mine' = mine \/ (mine' = [mine EXCEPT ![p] = None] /\ pc'[p] \in {"idle", "slot"})
    BY HeldMoves
  <1>3. \E place \in {"idle", "slot"} \cup Owning : pc' = [pc EXCEPT ![p] = place]
    BY HeldMoves
  <1>4. \/ answer' = answer
        \/ \E ans \in Gens \cup {"done", "error"} : answer' = [answer EXCEPT ![p] = ans]
    BY HeldMoves
  <1>5. \A q \in Calls \ {p} : pc'[q] = pc[q] /\ mine'[q] = mine[q] /\ answer'[q] = answer[q]
    BY <1>2, <1>3, <1>4 DEF IInv, TypeOK
  <1>6. \A q \in Calls \ {p} : pc[q] \in Inside => mine[q] # mine[p]
    BY <1>1, OneInside DEF IInv
  <1>7. \A q \in Calls : TimedOut(q) => TimedOut(q)'
    BY <1>1, <1>5 DEF TimedOut
  <1>8. current' \in {current, None}
    BY HeldTouches
  <1>9. mine[p] \in Reachable
    BY <1>1 DEF Reachable, Range, IInv, TypeOK
  <1>10. Reachable' \subseteq Reachable
    <2>1. mine' \in [Calls -> Managers \cup {None}] /\ mine \in [Calls -> Managers \cup {None}]
      BY HeldQueue DEF IInv, TypeOK
    <2>2. \A q \in Calls : mine'[q] \in {mine[q], None}
      BY <1>2, <2>1
    <2> QED
      BY <1>8, <2>1, <2>2, NoneAssumption DEF Reachable, Range
  <1> QED
    BY <1>1, <1>2, <1>5, <1>6, <1>7, <1>9, <1>10 DEF Inside, Jobbing

LEMMA HeldProcs ==
    ASSUME IInv, NEW p \in Calls, Held(p)
    PROVE  /\ current' \in Managers \cup {None} /\ target' \in [Managers -> Targets \cup {None}]
           /\ proc' \in [Managers -> Processes \cup {None}]
           /\ ready' \in [Managers -> BOOLEAN] /\ victim' \in [Calls -> Processes \cup {None}]
           /\ state' \in [Processes -> {"alive", "terminating", "exited"}]
           /\ job' \in [Processes -> Gens \cup {None}]
           /\ stdin' \in [Processes -> Seq(Gens)] /\ stdout' \in [Processes -> Seq(Lines)]
           /\ DeadIsEmpty'
  <1> DEFINE m == mine[p]
  <1>0. m \in Managers /\ m \in Reachable
    BY HeldApart
  <1>a. /\ target' = target /\ current' \in {current, None}
        /\ ready' \in [Managers -> BOOLEAN] /\ victim' \in [Calls -> Processes \cup {None}]
    BY HeldTouches
  <1> HIDE DEF m
  <1> USE DEF IInv, TypeOK
  <1>1. CASE /\ \E x \in Processes :
                  /\ proc' = [proc EXCEPT ![m] = x]
                  /\ state' = [state EXCEPT ![x] = "alive"]
                  /\ stdout' = [stdout EXCEPT ![x] = <<>>]
             /\ UNCHANGED <<job, stdin>>
    <2> PICK x \in Processes : /\ proc' = [proc EXCEPT ![m] = x]
                               /\ state' = [state EXCEPT ![x] = "alive"]
                               /\ stdout' = [stdout EXCEPT ![x] = <<>>]
      BY <1>1
    <2>1. DeadIsEmpty'
      BY <1>1 DEF DeadIsEmpty
    <2>2. <<>> \in Seq(Lines)
      BY EmptySeq
    <2>3. stdout' \in [Processes -> Seq(Lines)]
      BY <2>2
    <2> QED
      BY <1>1, <1>a, <2>1, <2>3
  <1>2. CASE /\ proc' = [proc EXCEPT ![m] = None]
             /\ state' = IF Alive(proc[m]) THEN [state EXCEPT ![proc[m]] = "terminating"] ELSE state
             /\ UNCHANGED <<job, stdin, stdout>>
    BY <1>0, <1>2, <1>a DEF DeadIsEmpty, Alive
  <1>3. CASE /\ proc[m] \in Processes /\ stdout[proc[m]] # <<>>
             /\ stdout' = [stdout EXCEPT ![proc[m]] = Tail(@)]
             /\ UNCHANGED <<proc, state, job, stdin>>
    BY <1>3, <1>a, FirstIsTaken DEF DeadIsEmpty
  <1>4. CASE /\ p \in Gens /\ Alive(proc[m])
             /\ stdin' = [stdin EXCEPT ![proc[m]] = Append(@, p)]
             /\ UNCHANGED <<proc, state, job, stdout>>
    <2>1. proc[m] \in Processes
      BY <1>0, <1>4 DEF Alive
    <2> QED
      BY <1>4, <1>a, <2>1, LastIsPrinted DEF DeadIsEmpty, Alive
  <1>5. CASE UNCHANGED <<proc, state, job, stdin, stdout>>
    BY <1>5, <1>a DEF DeadIsEmpty
  <1>6. pc[p] \in Jobbing => p \in Gens /\ proc[m] \in Processes
    BY <1>0 DEF RolesOK, ProcsApart, m
  <1> QED
    BY <1>1, <1>2, <1>3, <1>4, <1>5, <1>6, HeldTouches DEF m, Jobbing, TakeLine, Pipe

\* Managers within reach keep processes of their own: the one that p's step
\* starts is free, and the one it stops was p's manager's alone.
LEMMA HeldKeepsApart ==
    ASSUME IInv, NEW p \in Calls, Held(p)
    PROVE  ProcsApart'
  <1> DEFINE m == mine[p]
  <1>0. m \in Managers /\ m \in Reachable /\ Reachable' \subseteq Reachable
    BY HeldApart
  <1>1. \A q \in Calls : pc'[q] \in Jobbing /\ q # p =>
          pc[q] \in Jobbing /\ mine'[q] = mine[q] /\ mine[q] # m
    BY HeldApart DEF Inside
  <1>2. pc'[p] \in Jobbing => mine'[p] = m
    BY HeldApart DEF Inside
  <1>3. Reachable \subseteq Managers /\ \A q \in Calls : pc[q] \in Jobbing => mine[q] \in Managers
    BY DEF Reachable, IInv, TypeOK, RolesOK, Owning, Inside
  <1> HIDE DEF m
  <1> USE DEF IInv, TypeOK, ProcsApart
  <1>4. CASE /\ pc'[p] = "probing"
             /\ \E x \in Processes :
                  /\ (x = proc[m] /\ ~Alive(x)) \/ x \in FreeProcesses
                  /\ proc' = [proc EXCEPT ![m] = x]
                  /\ state' = [state EXCEPT ![x] = "alive"]
    <2> PICK x \in Processes : /\ (x = proc[m] /\ ~Alive(x)) \/ x \in FreeProcesses
                               /\ proc' = [proc EXCEPT ![m] = x]
                               /\ state' = [state EXCEPT ![x] = "alive"]
      BY <1>4
    <2>1. \A n \in Reachable : n # m => proc[n] # x /\ proc'[n] = proc[n]
      <3> SUFFICES ASSUME NEW n \in Reachable, n # m
                   PROVE  proc[n] # x /\ proc'[n] = proc[n]
        OBVIOUS
      <3>1. proc'[n] = proc[n] /\ x # None
        BY <1>0, <1>3, NoneAssumption
      <3>2. CASE x = proc[m]
        BY <1>0, <3>1, <3>2
      <3>3. CASE x \in FreeProcesses
        BY <3>3 DEF FreeProcesses
      <3> QED
        BY <3>1, <3>2, <3>3
    <2>2. \A n \in Reachable : proc'[n] # None => state'[proc'[n]] # "terminating"
      BY <1>0, <1>3, <2>1
    <2>3. \A n, o \in Reachable : proc'[n] # None /\ proc'[n] = proc'[o] => n = o
      BY <1>0, <1>3, <2>1
    <2>4. \A q \in Calls : pc'[q] \in Jobbing => proc'[mine'[q]] # None
      BY <1>0, <1>1, <1>3, <1>4 DEF Jobbing
    <2> QED
      BY <1>0, <2>2, <2>3, <2>4
  <1>5. CASE /\ pc'[p] = "stopping" /\ proc' = [proc EXCEPT ![m] = None]
             /\ state' = IF Alive(proc[m]) THEN [state EXCEPT ![proc[m]] = "terminating"] ELSE state
    <2>1. \A n \in Reachable : n # m => proc'[n] = proc[n]
      BY <1>0, <1>3, <1>5
    <2>2. proc'[m] = None
      BY <1>0, <1>5
    <2>3. \A n \in Reachable : proc'[n] # None =>
            n # m /\ proc[n] # proc[m] /\ state'[proc[n]] = state[proc[n]]
      BY <1>0, <1>3, <1>5, <2>1, <2>2 DEF Alive
    <2>4. \A q \in Calls : pc'[q] \in Jobbing => proc'[mine'[q]] # None
      BY <1>0, <1>1, <1>3, <1>5 DEF Jobbing
    <2>5. \A n \in Reachable : proc'[n] # None => state'[proc'[n]] # "terminating"
      <3> SUFFICES ASSUME NEW n \in Reachable, proc'[n] # None
                   PROVE  state'[proc'[n]] # "terminating"
        OBVIOUS
      <3>1. proc'[n] = proc[n] /\ state'[proc[n]] = state[proc[n]]
        BY <2>1, <2>3
      <3>2. state[proc[n]] # "terminating"
        BY <3>1
      <3> QED
        BY <3>1, <3>2
    <2>6. \A n, o \in Reachable : proc'[n] # None /\ proc'[n] = proc'[o] => n = o
      <3> SUFFICES ASSUME NEW n \in Reachable, NEW o \in Reachable,
                          proc'[n] # None, proc'[n] = proc'[o]
                   PROVE  n = o
        OBVIOUS
      <3>1. n # m /\ o # m
        BY <2>3
      <3>2. proc[n] = proc[o] /\ proc[n] # None
        BY <2>1, <3>1
      <3> QED
        BY <3>2
    <2> QED
      BY <1>0, <2>4, <2>5, <2>6
  <1>6. CASE /\ pc'[p] \in Jobbing => proc[m] # None
             /\ UNCHANGED <<proc, state>>
    <2>1. \A q \in Calls : pc'[q] \in Jobbing => proc'[mine'[q]] # None
      BY <1>1, <1>2, <1>6
    <2> QED
      BY <1>0, <1>6, <2>1
  <1>7. pc[p] \in Jobbing => proc[m] # None
    BY DEF m
  <1> QED
    BY <1>4, <1>5, <1>6, <1>7, HeldTouches DEF m, Jobbing

\* The pipes of the other managers' processes.
LEMMA OtherPipes ==
    ASSUME IInv, NEW p \in Calls, Held(p), NEW n \in Reachable, n # mine[p],
           Quiet(proc[n]) \/ Served(n), proc'[n] = proc[n],
           stdin'[proc[n]] = stdin[proc[n]], job'[proc[n]] = job[proc[n]],
           stdout'[proc[n]] = stdout[proc[n]]
    PROVE  Quiet(proc[n])' \/ Served(n)'
  <1>1. CASE Quiet(proc[n])
    BY <1>1 DEF Quiet, Silent
  <1>2. CASE Served(n)
    <2> PICK q \in Calls : pc[q] = "reading" /\ mine[q] = n /\ OnlyJob(proc[n], q)
      BY <1>2 DEF Served
    <2>1. pc'[q] = "reading" /\ mine'[q] = n
      BY HeldApart
    <2>2. OnlyJob(proc[n], q)'
      BY DEF OnlyJob, Silent
    <2> QED
      BY <2>1, <2>2 DEF Served
  <1> QED
    BY <1>1, <1>2

\* The job a generation writes is the only one, the result it reads leaves none.
LEMMA HeldPipes ==
    ASSUME IInv, NEW p \in Calls, Held(p)
    PROVE  PipesInStep'
  <1> PICK m \in Managers : m = mine[p]
    BY HeldApart
  <1>0. /\ m \in Managers /\ m \in Reachable /\ Reachable' \subseteq Reachable
        /\ Reachable \subseteq Managers
    BY HeldApart DEF Reachable
  <1>1. CASE \E q \in Gens : TimedOut(q)
    BY <1>1, HeldApart DEF PipesInStep, Calls, Users
  <1> SUFFICES ASSUME ~ \E q \in Gens : TimedOut(q), NEW n \in Reachable, proc'[n] # None
               PROVE  Quiet(proc[n])' \/ Served(n)'
    BY <1>0, <1>1 DEF PipesInStep
  <1>2. proc[n] # None => Quiet(proc[n]) \/ Served(n)
    BY DEF IInv, PipesInStep
  <1>3. pc[p] # "reading" /\ pc[p] \in Inside => ~Served(m)
    <2> SUFFICES ASSUME NEW q \in Calls, pc[q] = "reading", mine[q] = m, pc[p] # "reading"
                 PROVE  FALSE
      BY DEF Served
    <2> QED
      BY HeldApart DEF Inside, Jobbing
  <1>4. CASE \E x \in Processes :
               /\ (x = proc[m] /\ ~Alive(x)) \/ x \in FreeProcesses
               /\ proc' = [proc EXCEPT ![m] = x]
               /\ state' = [state EXCEPT ![x] = "alive"]
               /\ stdout' = [stdout EXCEPT ![x] = <<>>]
               /\ UNCHANGED <<job, stdin>>
    <2> PICK x \in Processes : /\ (x = proc[m] /\ ~Alive(x)) \/ x \in FreeProcesses
                               /\ proc' = [proc EXCEPT ![m] = x]
                               /\ stdout' = [stdout EXCEPT ![x] = <<>>]
                               /\ UNCHANGED <<job, stdin>>
      BY <1>4
    <2>1. state[x] = "exited" /\ x # None
      BY NoneAssumption DEF FreeProcesses, Alive, IInv, ProcsApart, TypeOK, Reachable
    <2>2. stdin[x] = <<>> /\ job[x] = None /\ stdout'[x] = <<>>
      BY <2>1 DEF IInv, DeadIsEmpty, TypeOK
    <2>3. CASE n = m
      <3>1. proc'[n] = x
        BY <1>0, <2>3 DEF IInv, TypeOK
      <3> QED
        BY <2>2, <3>1 DEF Quiet, Silent
    <2>4. CASE n # m
      <3>1. proc'[n] = proc[n] /\ n \in Managers
        BY <1>0, <2>4 DEF IInv, TypeOK
      <3>2. proc[n] # x
        BY <1>0, <2>1, <2>4 DEF FreeProcesses, IInv, ProcsApart
      <3>3. stdout'[proc[n]] = stdout[proc[n]]
        BY <3>1, <3>2 DEF IInv, TypeOK
      <3> QED
        BY <1>2, <2>4, <3>1, <3>3, OtherPipes
    <2> QED
      BY <2>3, <2>4
  <1>5. CASE proc' = [proc EXCEPT ![m] = None] /\ UNCHANGED <<job, stdin, stdout>>
    <2>1. n # m /\ proc'[n] = proc[n]
      BY <1>0, <1>5 DEF IInv, TypeOK
    <2> QED
      BY <1>2, <1>5, <2>1, OtherPipes
  <1>6. CASE /\ pc[p] \in {"draining", "reading"} /\ pc'[p] # "reading" /\ TakeLine(p)
             /\ stdout[proc[m]] # <<>>
             /\ pc[p] = "reading" => \E j \in Gens : Head(stdout[proc[m]]) = Line("ok", j)
             /\ UNCHANGED <<proc, job, stdin>>
    <2>0. proc[m] \in Processes
      BY <1>0, <1>6 DEF IInv, TypeOK, ProcsApart, Jobbing
    <2>1. /\ stdout'[proc[m]] = Tail(stdout[proc[m]])
          /\ \A x \in Processes : x # proc[m] => stdout'[x] = stdout[x]
      BY <1>6, <2>0 DEF TakeLine, Pipe, IInv, TypeOK
    <2>2. CASE n = m /\ Quiet(proc[m])
      <3>1. Silent(proc[m])'
        BY <1>6, <2>0, <2>1, <2>2, FirstIsTaken DEF Quiet, Silent, IInv, TypeOK
      <3> QED
        BY <1>6, <2>2, <3>1 DEF Quiet
    <2>3. CASE n = m /\ ~Quiet(proc[m])
      <3>1. Served(m) /\ pc[p] = "reading"
        BY <1>2, <1>3, <1>6, <2>3 DEF Inside, Jobbing
      <3> PICK q \in Calls : pc[q] = "reading" /\ mine[q] = m /\ OnlyJob(proc[m], q)
        BY <3>1 DEF Served
      <3>2. 1 \in DOMAIN stdout[proc[m]] /\ stdout[proc[m]][1].job # None
        BY <1>6, <2>0, <3>1, FirstIsTaken, LinesAre DEF IInv, TypeOK
      <3>3. /\ stdin[proc[m]] = <<>> /\ job[proc[m]] = None
            /\ \A i \in DOMAIN stdout[proc[m]] : stdout[proc[m]][i].job \in {None, q}
            /\ \A i, k \in DOMAIN stdout[proc[m]] :
                 stdout[proc[m]][i].job = q /\ stdout[proc[m]][k].job = q => i = k
        BY <3>2 DEF OnlyJob, Silent
      <3>4. Silent(proc[m])'
        <4> SUFFICES ASSUME NEW i \in DOMAIN stdout'[proc[m]]
                     PROVE  stdout'[proc[m]][i].job = None
          BY <1>6 DEF Silent
        <4>1. /\ i + 1 \in DOMAIN stdout[proc[m]] /\ i + 1 # 1
              /\ stdout'[proc[m]][i] = stdout[proc[m]][i + 1]
          BY <1>6, <2>0, <2>1, FirstIsTaken DEF IInv, TypeOK
        <4> QED
          BY <3>2, <3>3, <4>1
      <3> QED
        BY <1>6, <2>3, <3>3, <3>4 DEF Quiet
    <2>4. CASE n # m
      <3>1. proc[n] # proc[m] /\ proc[n] \in Processes
        BY <1>0, <1>6, <2>0, <2>4 DEF IInv, ProcsApart, TypeOK
      <3> QED
        BY <1>2, <1>6, <2>1, <2>4, <3>1, OtherPipes
    <2> QED
      BY <2>2, <2>3, <2>4
  <1>7. CASE /\ pc[p] = "writing" /\ pc'[p] = "reading" /\ Alive(proc[m])
             /\ stdin' = [stdin EXCEPT ![proc[m]] = Append(@, p)]
             /\ UNCHANGED <<proc, job, stdout>>
    <2>0. proc[m] \in Processes /\ mine'[p] = m
      BY <1>0, <1>7, HeldApart DEF IInv, TypeOK, Alive, Inside, Jobbing
    <2>1. CASE n = m
      <3>1. Quiet(proc[m])
        BY <1>2, <1>3, <1>7, <2>1 DEF Inside, Jobbing, Alive
      <3>2. stdin'[proc[m]] = <<p>>
        BY <1>7, <2>0, <3>1 DEF Quiet, IInv, TypeOK
      <3>3. OnlyJob(proc[m], p)'
        BY <1>7, <3>1, <3>2 DEF OnlyJob, Quiet, Silent
      <3> QED
        BY <1>7, <2>0, <2>1, <3>3 DEF Served
    <2>2. CASE n # m
      <3>1. proc[n] # proc[m] /\ stdin'[proc[n]] = stdin[proc[n]]
        BY <1>0, <1>7, <2>0, <2>2 DEF IInv, ProcsApart, TypeOK
      <3> QED
        BY <1>2, <1>7, <2>2, <3>1, OtherPipes
    <2> QED
      BY <2>1, <2>2
  <1>8. CASE pc[p] # "reading" /\ pc'[p] # "reading" /\ UNCHANGED <<proc, job, stdin, stdout>>
    <2>1. CASE Quiet(proc[n])
      BY <1>8, <2>1 DEF Quiet, Silent
    <2>2. CASE Served(n)
      <3> PICK q \in Calls : pc[q] = "reading" /\ mine[q] = n /\ OnlyJob(proc[n], q)
        BY <2>2 DEF Served
      <3>1. pc'[q] = "reading" /\ mine'[q] = n
        BY <1>8, HeldApart
      <3> QED
        BY <1>8, <3>1 DEF Served, OnlyJob, Silent
    <2> QED
      BY <1>2, <1>8, <2>1, <2>2
  <1> QED
    BY <1>4, <1>5, <1>6, <1>7, <1>8, HeldTouches

LEMMA HeldIInv ==
    ASSUME IInv, NEW p \in Calls, Held(p)
    PROVE  IInv'
  <1>1. TypeOK'
    BY HeldQueue, HeldProcs DEF TypeOK
  <1> QED
    BY <1>1, HeldQueue, HeldProcs, HeldKeepsApart, HeldPipes DEF IInv

-----------------------------------------------------------------------------
(* The steps without the manager's lock *)

\* Nothing becomes of the processes and of those who use them.
LEMMA Bystanders ==
    ASSUME IInv, UNCHANGED <<state, job, stdin, stdout>>,
           Reachable' \subseteq Managers,
           \A m \in Reachable' : proc'[m] = None \/ (m \in Reachable /\ proc'[m] = proc[m]),
           \A q \in Calls : pc'[q] \in Jobbing =>
             pc[q] \in Jobbing /\ mine'[q] = mine[q] /\ proc'[mine[q]] = proc[mine[q]],
           \A q \in Gens : TimedOut(q) => TimedOut(q)',
           \/ \E q \in Gens : TimedOut(q)'
           \/ \A q \in Calls : pc[q] = "reading" => pc'[q] = "reading" /\ mine'[q] = mine[q]
    PROVE  ProcsApart' /\ DeadIsEmpty' /\ PipesInStep'
  <1> USE DEF IInv
  <1>1. ProcsApart'
    BY DEF ProcsApart
  <1>2. DeadIsEmpty'
    BY DEF DeadIsEmpty
  <1>3. PipesInStep'
    <2> SUFFICES ASSUME ~ \E q \in Gens : TimedOut(q)', NEW n \in Reachable', proc'[n] # None
                 PROVE  Quiet(proc[n])' \/ Served(n)'
      BY DEF PipesInStep
    <2>1. n \in Reachable /\ proc'[n] = proc[n]
      OBVIOUS
    <2>2. Quiet(proc[n]) \/ Served(n)
      BY <2>1 DEF PipesInStep
    <2>3. CASE Quiet(proc[n])
      BY <2>1, <2>3 DEF Quiet, Silent
    <2>4. CASE Served(n)
      <3> PICK q \in Calls : pc[q] = "reading" /\ mine[q] = n /\ OnlyJob(proc[n], q)
        BY <2>4 DEF Served
      <3>1. pc'[q] = "reading" /\ mine'[q] = n
        OBVIOUS
      <3> QED
        BY <2>1, <3>1 DEF Served, OnlyJob, Silent
    <2> QED
      BY <2>2, <2>3, <2>4
  <1> QED
    BY <1>1, <1>2, <1>3

\* The holders of the managers' locks stay at the head of their queues.
LEMMA HeadsStay ==
    ASSUME IInv,
           \A q \in Calls : pc'[q] \in Inside =>
             /\ pc[q] \in Inside /\ mine'[q] = mine[q]
             /\ lock[mine[q]] # <<>> =>
                  lock'[mine[q]] # <<>> /\ Head(lock'[mine[q]]) = Head(lock[mine[q]])
    PROVE  InsideHolds'
  BY DEF IInv, InsideHolds, Holds

LEMMA InReach ==
    ASSUME IInv
    PROVE  /\ Reachable \subseteq Managers
           /\ \A q \in Calls : mine[q] # None => mine[q] \in Managers /\ mine[q] \in Reachable
           /\ current # None => current \in Managers /\ current \in Reachable
  BY DEF IInv, TypeOK, Reachable, Range

LEMMA CallIInv ==
    ASSUME IInv, NEW p \in Calls, Call(p)
    PROVE  IInv'
  <1> USE DEF IInv
  <1>1. /\ pc[p] = "idle" /\ answer[p] # "timeout" /\ pc' = [pc EXCEPT ![p] = "slot"]
        /\ slotLock' = Append(slotLock, p) /\ answer' = [answer EXCEPT ![p] = None]
        /\ UNCHANGED <<current, target, lock, proc, ready, mine, victim, state, job, stdin, stdout>>
    BY DEF Call, At, Goto, procVars
  <1>2. \E js \in IF p \in Gens THEN Jobs ELSE {<<>>} : todo' = [todo EXCEPT ![p] = js]
    BY DEF Call
  <1>3. \E t \in Wants[p] : goal' = [goal EXCEPT ![p] = t]
    BY DEF Call
  <1>4. TypeOK'
    <2>1. slotLock' \in Seq(Calls)
      BY <1>1, LastWaits DEF TypeOK
    <2>2. todo' \in [Calls -> Seq({"plan", "chunk"})]
      <3> PICK js \in IF p \in Gens THEN Jobs ELSE {<<>>} : todo' = [todo EXCEPT ![p] = js]
        BY <1>2
      <3>1. js \in Seq({"plan", "chunk"})
        BY JobsAssumption, EmptySeq
      <3> QED
        BY <3>1 DEF TypeOK
    <2>3. goal' \in [Calls -> Targets \cup {None}]
      <3> PICK t \in Wants[p] : goal' = [goal EXCEPT ![p] = t]
        BY <1>3
      <3>1. t \in Targets \cup {None}
        <4>1. Wants[p] \in SUBSET (Targets \cup {None})
          BY WantsAssumption
        <4> QED
          BY <4>1
      <3>2. goal \in [Calls -> Targets \cup {None}]
        BY DEF TypeOK
      <3> QED
        BY <3>1, <3>2
    <2>4. /\ pc' \in [Calls -> {"idle", "slot"} \cup Owning]
          /\ answer' \in [Calls -> Gens \cup {None, "done", "error", "timeout"}]
      BY <1>1 DEF TypeOK
    <2> QED
      BY <1>1, <2>1, <2>2, <2>3, <2>4 DEF TypeOK
  <1>5. \A q \in Calls : pc'[q] = IF q = p THEN "slot" ELSE pc[q]
    BY <1>1 DEF TypeOK
  <1>6. InsideHolds'
    BY <1>1, <1>5, HeadsStay DEF Inside, Jobbing
  <1>7. RolesOK'
    <2>1. p \in Gens => todo'[p] # <<>>
      BY <1>2, JobsAssumption DEF TypeOK
    <2>2. \A q \in Calls \ {p} : todo'[q] = todo[q] /\ answer'[q] = answer[q]
      BY <1>1, <1>2 DEF TypeOK
    <2>3. ~TimedOut(p)'
      BY <1>1, OutcomesAssumption DEF TypeOK, TimedOut
    <2> SUFFICES ASSUME NEW q \in Calls
                 PROVE  /\ pc'[q] \in Owning => mine'[q] # None
                        /\ pc'[q] \in {"fetched", "ensuring", "probing"} => q \in Users
                        /\ pc'[q] \in Jobbing \cup {"queued"} => q \in Gens
                        /\ q \in Gens /\ pc'[q] # "idle" => todo'[q] # <<>>
                        /\ TimedOut(q)' => pc'[q] = "idle"
      BY DEF RolesOK
    <2>4. CASE q = p
      BY <1>5, <2>1, <2>3, <2>4 DEF Owning, Inside, Jobbing
    <2>5. CASE q # p
      BY <1>1, <1>5, <2>2, <2>5 DEF RolesOK, TimedOut
    <2> QED
      BY <2>4, <2>5
  <1>8. ProcsApart' /\ DeadIsEmpty' /\ PipesInStep'
    <2>1. Reachable' = Reachable
      BY <1>1 DEF Reachable
    <2>2. \A q \in Calls : TimedOut(q) => TimedOut(q)'
      BY <1>1 DEF TimedOut, TypeOK
    <2> QED
      BY <1>1, <1>5, <2>1, <2>2, InReach, Bystanders DEF Jobbing, Calls, Users
  <1> QED
    BY <1>4, <1>6, <1>7, <1>8

LEMMA GetManagerIInv ==
    ASSUME IInv, NEW p \in Calls, GetManager(p)
    PROVE  IInv'
  <1> USE DEF IInv
  <1>1. /\ p \in Users /\ pc[p] = "slot" /\ HoldsSlot(p) /\ slotLock' = Tail(slotLock)
        /\ pc' = [pc EXCEPT ![p] = "fetched"]
        /\ UNCHANGED <<lock, goal, todo, answer, victim, state, job, stdin, stdout>>
    BY DEF GetManager, At, Goto, procVars
  <1> PICK m \in Managers :
         /\ m = current \/ (current = None /\ m \in FreeManagers)
         /\ IF m = current THEN UNCHANGED <<proc, ready>>
            ELSE /\ proc' = [proc EXCEPT ![m] = None]
                 /\ ready' = [ready EXCEPT ![m] = FALSE]
         /\ current' = m
         /\ target' = [target EXCEPT ![m] = goal[p]]
         /\ mine' = [mine EXCEPT ![p] = m]
    BY DEF GetManager, Unused
  <1>2. TypeOK'
    <2>1. slotLock' \in Seq(Calls)
      BY <1>1, FirstIsTaken DEF TypeOK, HoldsSlot
    <2>2. proc' \in [Managers -> Processes \cup {None}] /\ ready' \in [Managers -> BOOLEAN]
      BY DEF TypeOK
    <2>3. /\ pc' \in [Calls -> {"idle", "slot"} \cup Owning]
          /\ mine' \in [Calls -> Managers \cup {None}]
          /\ target' \in [Managers -> Targets \cup {None}]
      BY <1>1 DEF TypeOK, Owning
    <2> QED
      BY <1>1, <2>1, <2>2, <2>3 DEF TypeOK
  <1>3. \A q \in Calls : /\ pc'[q] = IF q = p THEN "fetched" ELSE pc[q]
                         /\ mine'[q] = IF q = p THEN m ELSE mine[q]
    BY <1>1 DEF TypeOK
  <1>4. InsideHolds'
    BY <1>1, <1>3, HeadsStay DEF Inside, Jobbing
  <1>5. RolesOK'
    <2> SUFFICES ASSUME NEW q \in Calls
                 PROVE  /\ pc'[q] \in Owning => mine'[q] # None
                        /\ pc'[q] \in {"fetched", "ensuring", "probing"} => q \in Users
                        /\ pc'[q] \in Jobbing \cup {"queued"} => q \in Gens
                        /\ q \in Gens /\ pc'[q] # "idle" => todo'[q] # <<>>
                        /\ TimedOut(q)' => pc'[q] = "idle"
      BY DEF RolesOK
    <2>1. CASE q = p
      BY <1>1, <1>3, <2>1, NoneAssumption DEF RolesOK, TimedOut, Jobbing
    <2>2. CASE q # p
      BY <1>1, <1>3, <2>2 DEF RolesOK, TimedOut
    <2> QED
      BY <2>1, <2>2
  <1>6. ProcsApart' /\ DeadIsEmpty' /\ PipesInStep'
    <2>1. Reachable' \subseteq Managers /\ Reachable' \subseteq Reachable \cup {m}
      BY <1>2, <1>3, NoneAssumption DEF Reachable, Range, TypeOK
    <2>2. \A n \in Reachable : proc'[n] = proc[n]
      BY InReach DEF FreeManagers, TypeOK
    <2>3. m \in Reachable \/ proc'[m] = None
      BY InReach, NoneAssumption DEF TypeOK
    <2>4. \A q \in Calls : TimedOut(q) => TimedOut(q)'
      BY <1>1 DEF TimedOut
    <2>5. \A q \in Calls : pc'[q] \in Jobbing =>
             pc[q] \in Jobbing /\ mine'[q] = mine[q] /\ proc'[mine[q]] = proc[mine[q]]
      <3> SUFFICES ASSUME NEW q \in Calls, pc'[q] \in Jobbing
                   PROVE  pc[q] \in Jobbing /\ mine'[q] = mine[q] /\ proc'[mine[q]] = proc[mine[q]]
        OBVIOUS
      <3>1. q # p /\ pc[q] \in Jobbing /\ mine'[q] = mine[q]
        BY <1>3 DEF Jobbing
      <3>2. mine[q] \in Reachable
        BY <3>1, InReach DEF RolesOK, Owning, Inside
      <3> QED
        BY <2>2, <3>1, <3>2
    <2>6. \A q \in Calls : pc[q] = "reading" => pc'[q] = "reading" /\ mine'[q] = mine[q]
      BY <1>1, <1>3
    <2>7. \A n \in Reachable' : proc'[n] = None \/ (n \in Reachable /\ proc'[n] = proc[n])
      BY <2>1, <2>2, <2>3
    <2> QED
      BY <1>1, <2>1, <2>4, <2>5, <2>6, <2>7, Bystanders DEF Calls, Users
  <1> QED
    BY <1>2, <1>4, <1>5, <1>6

\* Queueing for a manager's lock, and leaving an empty slot.
LEMMA QueueIInv ==
    ASSUME IInv, NEW p \in Calls, EvictResident(p) \/ EvictNothing(p) \/ EnsureLoaded(p)
    PROVE  IInv'
  <1> USE DEF IInv
  <1>1. /\ pc[p] \in {"slot", "fetched"}
        /\ UNCHANGED <<current, target, proc, ready, victim, state, job, stdin, stdout>>
    BY DEF EvictResident, EvictNothing, EnsureLoaded, At, slotVars, procVars
  <1>2. \/ slotLock' = slotLock
        \/ slotLock # <<>> /\ slotLock' = Tail(slotLock)
    BY DEF EvictResident, EvictNothing, EnsureLoaded, slotVars, HoldsSlot
  <1>3. \/ lock' = lock
        \/ \E m \in Managers : lock' = [lock EXCEPT ![m] = Append(lock[m], p)]
    BY InReach DEF EvictResident, EvictNothing, EnsureLoaded, RolesOK, Owning, At
  <1>4. \/ pc' = [pc EXCEPT ![p] = "evicting"] /\ mine' = [mine EXCEPT ![p] = current]
           /\ current # None /\ UNCHANGED <<goal, todo, answer>>
        \/ pc' = [pc EXCEPT ![p] = "ensuring"] /\ pc[p] = "fetched"
           /\ UNCHANGED <<mine, goal, todo, answer>>
        \/ pc' = [pc EXCEPT ![p] = "idle"] /\ UNCHANGED mine
           /\ goal' = [goal EXCEPT ![p] = None] /\ todo' = [todo EXCEPT ![p] = <<>>]
           /\ answer' = [answer EXCEPT ![p] = "done"]
    BY DEF EvictResident, EvictNothing, EnsureLoaded, At, Goto, Answer
  <1>5. \A q \in Calls \ {p} : /\ pc'[q] = pc[q] /\ mine'[q] = mine[q]
                               /\ todo'[q] = todo[q] /\ answer'[q] = answer[q]
    BY <1>4 DEF TypeOK
  <1>6. /\ pc'[p] \in {"evicting", "ensuring", "idle"} /\ mine'[p] \in {mine[p], current}
        /\ pc'[p] = "evicting" => mine'[p] = current /\ current # None
        /\ pc'[p] = "ensuring" => pc[p] = "fetched" /\ mine'[p] = mine[p]
        /\ pc'[p] # "idle" => todo'[p] = todo[p]
        /\ answer'[p] \in {answer[p], "done"}
    BY <1>4 DEF TypeOK
  <1>7. TypeOK'
    <2>1. slotLock' \in Seq(Calls)
      <3>1. slotLock # <<>> => Tail(slotLock) \in Seq(Calls)
        BY FirstIsTaken DEF TypeOK
      <3> QED
        BY <1>2, <3>1 DEF TypeOK
    <2>2. lock' \in [Managers -> Seq(Calls)]
      <3>1. CASE lock' = lock
        BY <3>1 DEF TypeOK
      <3>2. ASSUME NEW m \in Managers, lock' = [lock EXCEPT ![m] = Append(lock[m], p)]
            PROVE  lock' \in [Managers -> Seq(Calls)]
        <4>1. Append(lock[m], p) \in Seq(Calls)
          BY LastWaits DEF TypeOK
        <4> QED
          BY <3>2, <4>1 DEF TypeOK
      <3> QED
        BY <1>3, <3>1, <3>2
    <2>3. pc' \in [Calls -> {"idle", "slot"} \cup Owning] /\ mine' \in [Calls -> Managers \cup {None}]
      BY <1>4 DEF TypeOK, Owning
    <2>4. /\ goal' \in [Calls -> Targets \cup {None}]
          /\ answer' \in [Calls -> Gens \cup {None, "done", "error", "timeout"}]
      BY <1>4 DEF TypeOK
    <2>5. todo' \in [Calls -> Seq({"plan", "chunk"})]
      <3>1. <<>> \in Seq({"plan", "chunk"})
        BY EmptySeq
      <3> QED
        BY <1>4, <3>1 DEF TypeOK
    <2> QED
      BY <1>1, <2>1, <2>2, <2>3, <2>4, <2>5 DEF TypeOK
  <1>8. InsideHolds'
    <2> SUFFICES ASSUME NEW q \in Calls, pc'[q] \in Inside, lock[mine[q]] # <<>>
                 PROVE  /\ pc[q] \in Inside /\ mine'[q] = mine[q]
                        /\ lock'[mine[q]] # <<>> /\ Head(lock'[mine[q]]) = Head(lock[mine[q]])
      <3>1. \A q \in Calls : pc'[q] \in Inside => pc[q] \in Inside /\ mine'[q] = mine[q]
        BY <1>5, <1>6 DEF Inside, Jobbing
      <3> QED
        BY <3>1, HeadsStay
    <2>1. q # p /\ pc[q] \in Inside /\ mine'[q] = mine[q] /\ mine[q] \in Managers
      BY <1>5, <1>6, InReach DEF Inside, Jobbing, RolesOK, Owning
    <2>2. CASE lock' = lock
      BY <2>1, <2>2
    <2>3. ASSUME NEW m \in Managers, lock' = [lock EXCEPT ![m] = Append(lock[m], p)]
          PROVE  lock'[mine[q]] # <<>> /\ Head(lock'[mine[q]]) = Head(lock[mine[q]])
      <3>1. lock[m] # <<>> => Append(lock[m], p) # <<>> /\ Head(Append(lock[m], p)) = Head(lock[m])
        BY LastWaits DEF TypeOK
      <3> QED
        BY <2>1, <2>3, <3>1 DEF TypeOK
    <2> QED
      BY <1>3, <2>1, <2>2, <2>3
  <1>9. RolesOK'
    <2> SUFFICES ASSUME NEW q \in Calls
                 PROVE  /\ pc'[q] \in Owning => mine'[q] # None
                        /\ pc'[q] \in {"fetched", "ensuring", "probing"} => q \in Users
                        /\ pc'[q] \in Jobbing \cup {"queued"} => q \in Gens
                        /\ q \in Gens /\ pc'[q] # "idle" => todo'[q] # <<>>
                        /\ TimedOut(q)' => pc'[q] = "idle"
      BY DEF RolesOK
    <2>1. CASE q = p
      BY <1>1, <1>6, <2>1 DEF RolesOK, TimedOut, Jobbing, Inside, Owning
    <2>2. CASE q # p
      BY <1>5, <2>2 DEF RolesOK, TimedOut
    <2> QED
      BY <2>1, <2>2
  <1>10. ProcsApart' /\ DeadIsEmpty' /\ PipesInStep'
    <2>1. Reachable' \subseteq Reachable /\ Reachable \subseteq Managers
      <3>1. \A q \in Calls : mine'[q] \in {mine[q], current}
        BY <1>5, <1>6
      <3> QED
        BY <1>1, <1>7, <3>1 DEF Reachable, Range, TypeOK
    <2>2. \A q \in Calls : TimedOut(q) => TimedOut(q)'
      BY <1>1, <1>5 DEF TimedOut, RolesOK
    <2>3. \A q \in Calls : pc[q] \in Jobbing \/ pc'[q] \in Jobbing =>
            pc'[q] = pc[q] /\ mine'[q] = mine[q]
      BY <1>1, <1>5, <1>6 DEF Jobbing
    <2> QED
      BY <1>1, <2>1, <2>2, <2>3, Bystanders DEF Jobbing, Calls, Users
  <1> QED
    BY <1>7, <1>8, <1>9, <1>10

\* A late handler goes: out of a queue, or from the head of it.
LEMMA CancelIInv ==
    ASSUME IInv, NEW p \in Calls, Cancel(p)
    PROVE  IInv'
  <1> USE DEF IInv
  <1>1. /\ p \in Users /\ pc[p] \notin {"idle", "slot", "fetched"}
        /\ pc' = [pc EXCEPT ![p] = "idle"] /\ mine' = [mine EXCEPT ![p] = None]
        /\ answer' = [answer EXCEPT ![p] = "timeout"] /\ todo' = [todo EXCEPT ![p] = <<>>]
        /\ goal' = [goal EXCEPT ![p] = None] /\ victim' = [victim EXCEPT ![p] = None]
        /\ UNCHANGED <<slotLock, current, target, proc, ready, state, job, stdin, stdout>>
    BY CallsAssumption DEF Cancel, Answer, Goto, slotVars, procVars
  <1>2. mine[p] \in Managers
    BY <1>1, InReach DEF TypeOK, RolesOK
  <1> PICK i \in DOMAIN lock[mine[p]] :
        lock[mine[p]][i] = p /\ lock' = [lock EXCEPT ![mine[p]] = RemoveAt(@, i)]
    BY DEF Cancel
  <1>3. /\ RemoveAt(lock[mine[p]], i) \in Seq(Calls)
        /\ Head(lock[mine[p]]) # p => /\ RemoveAt(lock[mine[p]], i) # <<>>
                                      /\ Head(RemoveAt(lock[mine[p]], i)) = Head(lock[mine[p]])
    BY <1>2, OneLeaves DEF TypeOK
  <1>4. \A q \in Calls : /\ pc'[q] = IF q = p THEN "idle" ELSE pc[q]
                         /\ mine'[q] = IF q = p THEN None ELSE mine[q]
                         /\ todo'[q] = IF q = p THEN <<>> ELSE todo[q]
                         /\ answer'[q] = IF q = p THEN "timeout" ELSE answer[q]
    BY <1>1 DEF TypeOK
  <1>5. TypeOK'
    <2>1. todo' \in [Calls -> Seq({"plan", "chunk"})]
      <3>1. <<>> \in Seq({"plan", "chunk"})
        BY EmptySeq
      <3> QED
        BY <1>1, <3>1 DEF TypeOK
    <2>2. lock' \in [Managers -> Seq(Calls)]
      BY <1>2, <1>3 DEF TypeOK
    <2>3. /\ pc' \in [Calls -> {"idle", "slot"} \cup Owning]
          /\ goal' \in [Calls -> Targets \cup {None}]
          /\ mine' \in [Calls -> Managers \cup {None}]
          /\ answer' \in [Calls -> Gens \cup {None, "done", "error", "timeout"}]
          /\ victim' \in [Calls -> Processes \cup {None}]
      BY <1>1 DEF TypeOK
    <2> QED
      BY <1>1, <2>1, <2>2, <2>3 DEF TypeOK
  <1>6. InsideHolds'
    <2> SUFFICES ASSUME NEW q \in Calls, pc'[q] \in Inside
                 PROVE  Holds(q)'
      BY DEF InsideHolds
    <2>1. q # p /\ pc[q] \in Inside /\ mine'[q] = mine[q] /\ mine[q] \in Managers
      BY <1>4, InReach DEF Inside, Jobbing, RolesOK, Owning
    <2>2. lock[mine[q]] # <<>> /\ Head(lock[mine[q]]) = q
      BY <2>1 DEF InsideHolds, Holds
    <2>3. CASE mine[q] = mine[p]
      BY <1>2, <1>3, <2>1, <2>2, <2>3 DEF Holds, TypeOK
    <2>4. CASE mine[q] # mine[p]
      BY <1>2, <2>1, <2>2, <2>4 DEF Holds, TypeOK
    <2> QED
      BY <2>3, <2>4
  <1>7. RolesOK'
    <2> SUFFICES ASSUME NEW q \in Calls
                 PROVE  /\ pc'[q] \in Owning => mine'[q] # None
                        /\ pc'[q] \in {"fetched", "ensuring", "probing"} => q \in Users
                        /\ pc'[q] \in Jobbing \cup {"queued"} => q \in Gens
                        /\ q \in Gens /\ pc'[q] # "idle" => todo'[q] # <<>>
                        /\ TimedOut(q)' => pc'[q] = "idle"
      BY DEF RolesOK
    <2>1. CASE q = p
      BY <1>4, <2>1 DEF Owning, Inside, Jobbing
    <2>2. CASE q # p
      BY <1>4, <2>2 DEF RolesOK, TimedOut
    <2> QED
      BY <2>1, <2>2
  <1>8. ProcsApart' /\ DeadIsEmpty' /\ PipesInStep'
    <2>1. Reachable' \subseteq Reachable /\ Reachable \subseteq Managers
      <3>1. \A q \in Calls : mine'[q] \in {mine[q], None}
        BY <1>4
      <3> QED
        BY <1>1, <1>5, <3>1, NoneAssumption DEF Reachable, Range, TypeOK
    <2>2. \A q \in Calls : TimedOut(q) => TimedOut(q)'
      BY <1>4 DEF TimedOut
    <2>3. \A q \in Calls : pc'[q] \in Jobbing => pc[q] \in Jobbing /\ mine'[q] = mine[q]
      BY <1>4 DEF Jobbing
    <2>4. \/ \E q \in Gens : TimedOut(q)'
          \/ \A q \in Calls : pc[q] = "reading" => pc'[q] = "reading" /\ mine'[q] = mine[q]
      <3>1. CASE p \in Gens
        BY <1>4, <3>1 DEF TimedOut
      <3>2. CASE p \notin Gens
        BY <1>4, <3>2 DEF RolesOK, Jobbing
      <3> QED
        BY <3>1, <3>2
    <2> QED
      BY <1>1, <2>1, <2>2, <2>3, <2>4, Bystanders DEF Calls, Users
  <1> QED
    BY <1>5, <1>6, <1>7, <1>8

-----------------------------------------------------------------------------
(* The steps of a process *)

\* A process moves: if it is a manager's, what it does keeps its pipes in step.
LEMMA ProcessIInv ==
    ASSUME IInv, NEW x \in Processes,
           UNCHANGED <<slotLock, current, target, lock, proc, ready, pc, goal, mine, todo, answer,
                       victim>>,
           /\ state' \in [Processes -> {"alive", "terminating", "exited"}]
           /\ job' \in [Processes -> Gens \cup {None}]
           /\ stdin' \in [Processes -> Seq(Gens)] /\ stdout' \in [Processes -> Seq(Lines)],
           \A y \in Processes \ {x} : /\ state'[y] = state[y] /\ job'[y] = job[y]
                                      /\ stdin'[y] = stdin[y] /\ stdout'[y] = stdout[y],
           state'[x] = "terminating" => state[x] = "terminating",
           state'[x] = "exited" => stdin'[x] = <<>> /\ job'[x] = None,
           (\E m \in Reachable : proc[m] = x) =>
             /\ Quiet(x) => Quiet(x)'
             /\ \A q \in Gens : OnlyJob(x, q) => Quiet(x)' \/ OnlyJob(x, q)'
    PROVE  IInv'
  <1> USE DEF IInv
  <1>1. TypeOK'
    BY DEF TypeOK
  <1>2. InsideHolds' /\ RolesOK' /\ Reachable' = Reachable
    BY DEF InsideHolds, Holds, RolesOK, TimedOut, Reachable
  <1>3. ProcsApart'
    <2>1. \A m \in Reachable : proc[m] # None => proc[m] \in Processes
      BY InReach DEF TypeOK
    <2> QED
      BY <1>2, <2>1 DEF ProcsApart
  <1>4. DeadIsEmpty'
    BY DEF DeadIsEmpty
  <1>5. PipesInStep'
    <2>1. CASE \E q \in Gens : TimedOut(q)
      BY <2>1 DEF PipesInStep, TimedOut
    <2> SUFFICES ASSUME ~ \E q \in Gens : TimedOut(q), NEW m \in Reachable, proc[m] # None
                 PROVE  Quiet(proc[m])' \/ Served(m)'
      BY <1>2, <2>1 DEF PipesInStep
    <2>2. proc[m] \in Processes /\ (Quiet(proc[m]) \/ Served(m))
      BY InReach DEF TypeOK, PipesInStep
    <2>3. CASE Quiet(proc[m])
      <3>1. CASE proc[m] = x
        BY <2>3, <3>1 DEF Quiet, Silent
      <3>2. CASE proc[m] # x
        BY <2>2, <2>3, <3>2 DEF Quiet, Silent
      <3> QED
        BY <3>1, <3>2
    <2>4. CASE Served(m)
      <3> PICK q \in Calls : pc[q] = "reading" /\ mine[q] = m /\ OnlyJob(proc[m], q)
        BY <2>4 DEF Served
      <3>1. q \in Gens
        BY DEF RolesOK, Jobbing
      <3>2. Quiet(proc[m])' \/ OnlyJob(proc[m], q)'
        <4>1. CASE proc[m] = x
          <5>1. Quiet(x)' \/ OnlyJob(x, q)'
            BY <3>1, <4>1
          <5>2. proc'[m] = x
            BY <4>1
          <5>3. CASE Quiet(x)'
            BY <5>2, <5>3 DEF Quiet, Silent
          <5>4. CASE OnlyJob(x, q)'
            BY <5>2, <5>4 DEF OnlyJob, Silent
          <5> QED
            BY <5>1, <5>3, <5>4
        <4>2. CASE proc[m] # x
          <5>1. /\ proc'[m] = proc[m] /\ stdin'[proc[m]] = stdin[proc[m]]
                /\ job'[proc[m]] = job[proc[m]] /\ stdout'[proc[m]] = stdout[proc[m]]
            BY <2>2, <4>2
          <5> QED
            BY <5>1 DEF OnlyJob, Silent
        <4> QED
          BY <4>1, <4>2
      <3> QED
        BY <3>2 DEF Served
    <2> QED
      BY <2>2, <2>3, <2>4
  <1> QED
    BY <1>1, <1>2, <1>3, <1>4, <1>5

LEMMA TakeJobIInv ==
    ASSUME IInv, NEW x \in Processes, TakeJob(x)
    PROVE  IInv'
  <1>1. /\ state[x] = "alive" /\ job[x] = None /\ stdin[x] # <<>>
        /\ job' = [job EXCEPT ![x] = Head(stdin[x])]
        /\ stdin' = [stdin EXCEPT ![x] = Tail(stdin[x])]
        /\ UNCHANGED <<slotLock, current, target, lock, proc, ready, pc, goal, mine, todo, answer,
                       victim, state, stdout>>
    BY DEF TakeJob, slotVars
  <1>2. Head(stdin[x]) \in Gens /\ Tail(stdin[x]) \in Seq(Gens)
    BY <1>1, HeadTailProperties DEF IInv, TypeOK
  <1>3. /\ state' \in [Processes -> {"alive", "terminating", "exited"}]
        /\ job' \in [Processes -> Gens \cup {None}]
        /\ stdin' \in [Processes -> Seq(Gens)] /\ stdout' \in [Processes -> Seq(Lines)]
        /\ \A y \in Processes \ {x} : /\ state'[y] = state[y] /\ job'[y] = job[y]
                                      /\ stdin'[y] = stdin[y] /\ stdout'[y] = stdout[y]
    BY <1>1, <1>2 DEF IInv, TypeOK
  <1>4. ~Quiet(x)
    BY <1>1 DEF Quiet
  <1>5. ASSUME NEW q \in Gens, OnlyJob(x, q)
        PROVE  OnlyJob(x, q)'
    <2>1. stdin[x] = <<q>> /\ Silent(x)
      BY <1>1, <1>5 DEF OnlyJob
    <2>2. stdin'[x] = <<>> /\ job'[x] = q
      BY <1>1, <2>1 DEF IInv, TypeOK
    <2> QED
      BY <1>1, <2>1, <2>2 DEF OnlyJob, Silent
  <1> QED
    BY <1>1, <1>3, <1>4, <1>5, ProcessIInv

LEMMA FinishJobIInv ==
    ASSUME IInv, NEW x \in Processes, FinishJob(x)
    PROVE  IInv'
  <1>1. /\ state[x] = "alive" /\ job[x] # None /\ job' = [job EXCEPT ![x] = None]
        /\ UNCHANGED <<slotLock, current, target, lock, proc, ready, pc, goal, mine, todo, answer,
                       victim, state, stdin>>
    BY DEF FinishJob, slotVars
  <1> PICK type \in {"ok", "error"} :
        stdout' = [stdout EXCEPT ![x] = Append(@, Line(type, job[x]))]
    BY DEF FinishJob
  <1> DEFINE line == Line(type, job[x])
  <1>2. job[x] \in Gens /\ line \in Lines /\ line.job = job[x]
    BY <1>1, LinesAre DEF IInv, TypeOK
  <1>3. stdout'[x] = Append(stdout[x], line) /\ stdout' = [stdout EXCEPT ![x] = stdout'[x]]
    BY DEF IInv, TypeOK
  <1> HIDE DEF line
  <1>4. /\ stdout'[x] \in Seq(Lines)
        /\ \A i \in DOMAIN stdout'[x] :
             \/ i \in DOMAIN stdout[x] /\ stdout'[x][i] = stdout[x][i]
             \/ i = Len(stdout[x]) + 1 /\ i \notin DOMAIN stdout[x] /\ stdout'[x][i] = line
    BY <1>2, <1>3, LastIsPrinted DEF IInv, TypeOK
  <1>5. /\ state' \in [Processes -> {"alive", "terminating", "exited"}]
        /\ job' \in [Processes -> Gens \cup {None}]
        /\ stdin' \in [Processes -> Seq(Gens)] /\ stdout' \in [Processes -> Seq(Lines)]
        /\ \A y \in Processes \ {x} : /\ state'[y] = state[y] /\ job'[y] = job[y]
                                      /\ stdin'[y] = stdin[y] /\ stdout'[y] = stdout[y]
    BY <1>1, <1>3, <1>4 DEF IInv, TypeOK
  <1>6. ~Quiet(x)
    BY <1>1 DEF Quiet
  <1>7. ASSUME NEW q \in Gens, OnlyJob(x, q)
        PROVE  OnlyJob(x, q)'
    <2>1. stdin[x] = <<>> /\ job[x] = q /\ Silent(x) /\ q # None
      BY <1>1, <1>7 DEF OnlyJob
    <2>2. \A i \in DOMAIN stdout'[x] :
            \/ stdout'[x][i].job = None
            \/ i = Len(stdout[x]) + 1 /\ stdout'[x][i].job = q
      BY <1>2, <1>4, <2>1 DEF Silent
    <2> QED
      BY <1>1, <2>1, <2>2 DEF OnlyJob, IInv, TypeOK
  <1> QED
    BY <1>1, <1>5, <1>6, <1>7, ProcessIInv

LEMMA ExitIInv ==
    ASSUME IInv, NEW x \in Processes, Exit(x)
    PROVE  IInv'
  <1>1. /\ Alive(x) /\ state' = [state EXCEPT ![x] = "exited"]
        /\ job' = [job EXCEPT ![x] = None] /\ stdin' = [stdin EXCEPT ![x] = <<>>]
        /\ UNCHANGED <<slotLock, current, target, lock, proc, ready, pc, goal, mine, todo, answer,
                       victim>>
        /\ \/ stdout' = [stdout EXCEPT ![x] = Append(@, Eof)]
           \/ stdout' = [stdout EXCEPT ![x] = <<>>]
    BY DEF Exit, slotVars
  <1>2. /\ stdout'[x] \in Seq(Lines) /\ stdout' = [stdout EXCEPT ![x] = stdout'[x]]
        /\ \A i \in DOMAIN stdout'[x] :
             \/ i \in DOMAIN stdout[x] /\ stdout'[x][i] = stdout[x][i]
             \/ stdout'[x][i] = Eof
    <2>1. CASE stdout' = [stdout EXCEPT ![x] = Append(@, Eof)]
      BY <2>1, LinesAre, LastIsPrinted DEF IInv, TypeOK
    <2>2. CASE stdout' = [stdout EXCEPT ![x] = <<>>]
      BY <2>2, EmptySeq DEF IInv, TypeOK
    <2> QED
      BY <1>1, <2>1, <2>2
  <1>3. /\ stdin'[x] = <<>> /\ job'[x] = None /\ state'[x] = "exited"
        /\ stdin' \in [Processes -> Seq(Gens)]
    BY <1>1, EmptySeq DEF IInv, TypeOK
  <1>4. /\ state' \in [Processes -> {"alive", "terminating", "exited"}]
        /\ job' \in [Processes -> Gens \cup {None}]
        /\ stdout' \in [Processes -> Seq(Lines)]
        /\ \A y \in Processes \ {x} : /\ state'[y] = state[y] /\ job'[y] = job[y]
                                      /\ stdin'[y] = stdin[y] /\ stdout'[y] = stdout[y]
    BY <1>1, <1>2 DEF IInv, TypeOK
  <1>5. Silent(x) => Quiet(x)'
    BY <1>2, <1>3, LinesAre DEF Quiet, Silent
  <1>6. ASSUME NEW q \in Gens, OnlyJob(x, q), ~Silent(x)
        PROVE  OnlyJob(x, q)'
    <2>1. \A i \in DOMAIN stdout'[x] : stdout'[x][i].job = q =>
            i \in DOMAIN stdout[x] /\ stdout'[x][i] = stdout[x][i]
      BY <1>2, LinesAre
    <2> QED
      BY <1>2, <1>3, <1>6, <2>1, LinesAre DEF OnlyJob
  <1>7. Quiet(x) => Quiet(x)'
    BY <1>5 DEF Quiet
  <1> QED
    BY <1>1, <1>3, <1>4, <1>5, <1>6, <1>7, ProcessIInv

-----------------------------------------------------------------------------
LEMMA StepIInv == IInv /\ [Next]_vars => IInv'
  <1> SUFFICES ASSUME IInv, [Next]_vars PROVE IInv'
    OBVIOUS
  <1>1. ASSUME NEW p \in Calls, Call(p) \/ Work(p) \/ ReadTimeout(p) \/ Cancel(p)
        PROVE  IInv'
    BY <1>1, CallIInv, GetManagerIInv, QueueIInv, HeldIInv, CancelIInv DEF Work, Held
  <1>2. ASSUME NEW x \in Processes, TakeJob(x) \/ FinishJob(x) \/ Exit(x)
        PROVE  IInv'
    BY <1>2, TakeJobIInv, FinishJobIInv, ExitIInv
  <1>3. CASE UNCHANGED vars
    <2> USE <1>3 DEF vars, slotVars, procVars, IInv
    <2>1. TypeOK' /\ InsideHolds' /\ RolesOK' /\ Reachable' = Reachable
      BY DEF TypeOK, InsideHolds, Holds, RolesOK, TimedOut, Reachable
    <2>2. \A q \in Calls : TimedOut(q)' <=> TimedOut(q)
      BY DEF TimedOut
    <2> QED
      BY <2>1, <2>2, InReach, Bystanders DEF Calls, Users, RolesOK
  <1> QED
    BY <1>1, <1>2, <1>3 DEF Next

LEMMA AlwaysIInv == Spec => []IInv
  BY InitIInv, StepIInv, PTL DEF Spec

\* The variables keep their types.
THEOREM TypeCorrect == Spec => []TypeOK
  BY AlwaysIInv, PTL DEF IInv

\* From its drain to its answer a generation keeps its manager's lock and its
\* process, whatever the slot is emptied for or another handler's deadline ends.
THEOREM ReaderKeepsItsProcess == Spec => []ReaderKeepsProcess
  <1>1. IInv => ReaderKeepsProcess
    <2> SUFFICES ASSUME IInv, NEW p \in Gens, pc[p] \in Jobbing
                 PROVE  Holds(p) /\ Pipe(p) # None /\ state[Pipe(p)] # "terminating"
      BY DEF ReaderKeepsProcess, Jobbing
    <2>1. p \in Calls /\ Holds(p) /\ mine[p] \in Reachable /\ proc[mine[p]] # None
      BY InReach DEF IInv, InsideHolds, Inside, ProcsApart, RolesOK, Owning, Calls, Users
    <2> QED
      BY <2>1 DEF IInv, ProcsApart, Pipe
  <1> QED
    BY <1>1, AlwaysIInv, PTL

\* A generation is answered by the results of its own jobs, until the handler
\* of a generation runs into its deadline.
THEOREM AnswersAreOwn == Spec => OwnAnswer
  <1> DEFINE Own ==
        \A p, j \in Gens :
          answer[p] # j /\ answer'[p] = j => j = p \/ \E q \in Gens : TimedOut(q)
  <1>1. IInv /\ [Next]_vars => Own
    <2> SUFFICES ASSUME IInv, [Next]_vars, NEW p \in Gens, NEW j \in Gens,
                        answer[p] # j, answer'[p] = j, ~ \E q \in Gens : TimedOut(q)
                 PROVE  j = p
      OBVIOUS
    <2> USE DEF IInv
    <2>1. p \in Calls /\ j \notin {None, "done", "error", "timeout"}
      BY NoneAssumption, OutcomesAssumption DEF Calls, Users
    <2>2. ReadResult(p)
      <3>1. ASSUME NEW q \in Calls, Held(q) PROVE q = p
        BY <2>1, <3>1, HeldApart
      <3>2. ASSUME NEW q \in Calls,
                   Call(q) \/ GetManager(q) \/ EvictResident(q) \/ EvictNothing(q)
                     \/ EnsureLoaded(q) \/ Cancel(q)
            PROVE  FALSE
        BY <2>1, <3>2 DEF Call, GetManager, EvictResident, EvictNothing, EnsureLoaded, Cancel,
                          Answer, TypeOK
      <3>3. ~(\E x \in Processes : TakeJob(x) \/ FinishJob(x) \/ Exit(x)) /\ ~UNCHANGED vars
        BY <2>1 DEF TakeJob, FinishJob, Exit, vars
      <3>4. Held(p)
        BY <3>1, <3>2, <3>3 DEF Next, Work, Held
      <3>5. ~AlreadyLoaded(p) /\ ~Spawn(p) /\ ~ProbeReady(p) /\ ~Evict(p)
        BY <2>1 DEF AlreadyLoaded, Spawn, ProbeReady, Evict, Loaded, Return, Answer, StopProcess,
                    TypeOK
      <3>6. ~JobFailed(p) /\ ~SlotEmptied(p) /\ ~StartJob(p) /\ ~DrainLine(p) /\ ~DrainDone(p)
        BY <2>1 DEF JobFailed, SlotEmptied, StartJob, DrainLine, DrainDone, Return, Answer, TypeOK
      <3>7. ~CutFailed(p) /\ ~WriteJob(p) /\ ~ReadError(p) /\ ~ReadTimeout(p)
        BY <2>1 DEF CutFailed, WriteJob, ReadError, ReadTimeout, Return, Answer, StopProcess, TypeOK
      <3> QED
        BY <3>4, <3>5, <3>6, <3>7 DEF Held
    <2> PICK m \in Managers : m = mine[p] /\ m \in Reachable
      BY <2>1, <2>2, InReach DEF ReadResult, At, RolesOK, Owning, Inside, Jobbing
    <2>3. pc[p] = "reading" /\ stdout[proc[m]] # <<>> /\ Head(stdout[proc[m]]) = Line("ok", j)
      <3> PICK k \in Gens :
            /\ NextLine(p, Line("ok", k))
            /\ Return(p, k) \/ answer' = [answer EXCEPT ![p] = k]
        BY <2>2 DEF ReadResult
      <3>1. k = j
        BY <2>1 DEF Return, Answer, TypeOK
      <3> QED
        BY <2>2, <3>1 DEF ReadResult, NextLine, Pipe, At
    <2>4. proc[m] \in Processes
      BY <2>1, <2>3 DEF ProcsApart, Jobbing, TypeOK
    <2>5. /\ 1 \in DOMAIN stdout[proc[m]] /\ stdout[proc[m]][1] = Line("ok", j)
          /\ stdout[proc[m]][1].job = j /\ j # None
      BY <2>3, <2>4, FirstIsTaken, LinesAre DEF TypeOK
    <2>6. PICK q \in Calls : pc[q] = "reading" /\ mine[q] = m /\ OnlyJob(proc[m], q)
      BY <2>4, <2>5, NoneAssumption DEF PipesInStep, Quiet, Silent, Served
    <2>7. q = p
      BY <2>1, <2>3, <2>6, OneInside DEF InsideHolds, Inside, Jobbing
    <2> QED
      BY <2>5, <2>6, <2>7 DEF OnlyJob, Silent
  <1>2. OwnAnswer <=> [][Own]_vars
    BY DEF OwnAnswer
  <1> QED
    BY <1>1, <1>2, AlwaysIInv, PTL DEF Spec
=============================================================================
