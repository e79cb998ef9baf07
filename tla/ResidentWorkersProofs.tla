------------------------ MODULE ResidentWorkersProofs ------------------------
(* Proofs about the residency manager, for every set of workers, cards and    *)
(* calls: its types, and that what it believes to be loaded is loaded.        *)
EXTENDS ResidentWorkersProps, SequenceTheorems, TLAPS

Posting(p) == pc[p] \in {"loading", "evicting"}

\* A POST is only under way while its call holds the lock.
PostsHoldLock == \A p \in Calls : Posting(p) => Holds(p)

\* What the arguments of a call under way can be.
CallsOK ==
    \A p \in Calls :
      /\ p \in Ensures /\ pc[p] # "idle" =>
           worker[p] \in Workers /\ place[p] \in CardsOf[worker[p]]
      /\ p \in Evicts /\ pc[p] # "idle" => worker[p] \in Workers /\ place[p] \in Cards
      /\ pc[p] = "loading" => p \in Ensures
      /\ pc[p] = "evicting" => p \in Evicts

\* While the POST of an eviction is under way, its card is out of the books.
EvictingDropped ==
    \A p \in Calls : pc[p] = "evicting" => place[p] \notin resident[worker[p]]

IInv ==
    TypeOK /\ PostsHoldLock /\ CallsOK /\ EvictingDropped /\ ResidencyIsReal

-----------------------------------------------------------------------------
(* The lock *)

LEMMA LastWaits ==
    ASSUME NEW S, NEW s \in Seq(S), NEW e \in S
    PROVE  /\ Append(s, e) \in Seq(S) /\ Append(s, e) # <<>>
           /\ s # <<>> => Head(Append(s, e)) = Head(s)
  BY AppendProperties, EmptySeq

LEMMA FirstLeaves ==
    ASSUME NEW S, NEW s \in Seq(S), s # <<>>
    PROVE  Tail(s) \in Seq(S)
  OBVIOUS

\* Two calls never have a POST under way at the same time.
LEMMA OnePost ==
    ASSUME PostsHoldLock, NEW p \in Calls, NEW q \in Calls, Posting(q), Holds(p)
    PROVE  p = q
  BY DEF PostsHoldLock, Holds

-----------------------------------------------------------------------------
LEMMA InitIInv == Init => IInv
  BY CallsAssumption, WorkersAssumption
  DEF Init, IInv, TypeOK, PostsHoldLock, Posting, CallsOK, EvictingDropped,
      ResidencyIsReal, Calls, believed

\* A call or a probe joins the queue.
LEMMA JoinIInv ==
    ASSUME IInv, NEW p \in Calls, ~Posting(p),
           lock' = Append(lock, p), pc' = [pc EXCEPT ![p] = "locking"],
           \A q \in Calls \ {p} : worker'[q] = worker[q] /\ place'[q] = place[q],
           worker' \in [Calls -> Workers \cup {None}], place' \in [Calls -> Cards \cup {None}],
           p \in Ensures => worker'[p] \in Workers /\ place'[p] \in CardsOf[worker'[p]],
           p \in Evicts => worker'[p] \in Workers /\ place'[p] \in Cards,
           UNCHANGED <<toRead, unloaded, believed, loaded>>
    PROVE  IInv'
  <1>1. lock' \in Seq(Calls) /\ lock' # <<>> /\ (lock # <<>> => Head(lock') = Head(lock))
    BY LastWaits DEF IInv, TypeOK
  <1>2. TypeOK'
    BY <1>1 DEF IInv, TypeOK, believed
  <1>3. PostsHoldLock'
    <2> SUFFICES ASSUME NEW q \in Calls, Posting(q)' PROVE Holds(q)'
      BY DEF PostsHoldLock
    <2>1. q # p /\ Posting(q)
      BY DEF Posting, IInv, TypeOK
    <2>2. Holds(q)
      BY <2>1 DEF IInv, PostsHoldLock
    <2> QED
      BY <2>2, <1>1 DEF Holds
  <1>4. CallsOK'
    BY DEF IInv, CallsOK, TypeOK, believed
  <1>5. EvictingDropped'
    BY DEF IInv, EvictingDropped, TypeOK, believed
  <1>6. ResidencyIsReal'
    BY DEF IInv, ResidencyIsReal, believed
  <1> QED
    BY <1>2, <1>3, <1>4, <1>5, <1>6 DEF IInv

\* The holder finishes, and leaves books that are right.
LEMMA FinishIInv ==
    ASSUME IInv, NEW p \in Calls, Holds(p), Finish(p),
           UNCHANGED <<worker, place, toRead>>,
           unloaded' \in [Probes -> SUBSET Workers],
           pinnedLoaded' \subseteq Workers,
           resident' \in [Workers -> SUBSET Cards], loaded' \in [Workers -> SUBSET Cards],
           ResidencyIsReal'
    PROVE  IInv'
  <1>1. lock' \in Seq(Calls)
    BY FirstLeaves DEF IInv, TypeOK, Holds, Finish
  <1>2. TypeOK'
    BY <1>1 DEF IInv, TypeOK, Finish
  <1>3. \A q \in Calls : ~Posting(q)'
    <2> SUFFICES ASSUME NEW q \in Calls, Posting(q)' PROVE FALSE
      OBVIOUS
    <2>1. q # p /\ Posting(q)
      BY DEF Posting, Finish, IInv, TypeOK
    <2> QED
      BY <2>1, OnePost DEF IInv
  <1>4. PostsHoldLock' /\ EvictingDropped'
    BY <1>3 DEF PostsHoldLock, EvictingDropped, Posting
  <1>5. CallsOK'
    BY <1>3 DEF IInv, CallsOK, TypeOK, Finish, Posting
  <1> QED
    BY <1>2, <1>4, <1>5 DEF IInv

\* What a POST does leaves the books right, whether or not it then raises.
LEMMA EffectReal ==
    ASSUME IInv, NEW p \in Calls, Posting(p)
    PROVE  /\ Effect(p) \in [Workers -> SUBSET Cards]
           /\ \A w \in MultiEngine \ Restarting : resident[w] \subseteq Effect(p)[w]
           /\ pc[p] = "loading" /\ worker[p] \in MultiEngine =>
                place[p] \in Effect(p)[worker[p]]
  <1> USE WorkersAssumption, CallsAssumption
  <1>1. CASE pc[p] = "loading"
    <2>1. worker[p] \in Workers /\ place[p] \in Cards
      BY <1>1 DEF IInv, CallsOK, TypeOK
    <2> QED
      BY <1>1, <2>1 DEF Effect, LoadedAt, IInv, TypeOK, ResidencyIsReal
  <1>2. CASE pc[p] = "evicting"
    <2>1. worker[p] \in Workers /\ place[p] \in Cards /\ place[p] \notin resident[worker[p]]
      BY <1>2 DEF IInv, CallsOK, EvictingDropped
    <2> QED
      BY <1>2, <2>1 DEF Effect, EvictedAt, IInv, TypeOK, ResidencyIsReal
  <1> QED
    BY <1>1, <1>2 DEF Posting

-----------------------------------------------------------------------------
(* The actions *)

LEMMA CallIInv ==
    ASSUME IInv, NEW p \in Calls, NEW w \in Workers, NEW g \in Cards,
           Ensure(p, w, g) \/ Evict(p, w, g)
    PROVE  IInv'
  <1>1. p \in Ensures => p \notin Evicts
    BY CallsAssumption
  <1>2. /\ p \in Ensures => w \in Workers /\ g \in CardsOf[w]
        /\ p \in Evicts => w \in Workers /\ g \in Cards
        /\ ~Posting(p)
    BY <1>1 DEF Ensure, Evict, Posting
  <1>3. /\ lock' = Append(lock, p) /\ pc' = [pc EXCEPT ![p] = "locking"]
        /\ worker' = [worker EXCEPT ![p] = w] /\ place' = [place EXCEPT ![p] = g]
        /\ UNCHANGED <<toRead, unloaded, believed, loaded>>
    BY DEF Ensure, Evict
  <1>4. /\ worker' \in [Calls -> Workers \cup {None}] /\ place' \in [Calls -> Cards \cup {None}]
        /\ worker'[p] = w /\ place'[p] = g
        /\ \A q \in Calls \ {p} : worker'[q] = worker[q] /\ place'[q] = place[q]
    BY <1>3 DEF IInv, TypeOK
  <1> QED
    BY <1>2, <1>3, <1>4, JoinIInv

LEMMA StartIInv ==
    ASSUME IInv, NEW p \in Calls, StartPosts(p) \/ StartEvict(p)
    PROVE  IInv'
  <1> USE CallsAssumption, WorkersAssumption
  <1>1. Holds(p) /\ pc[p] = "locking" /\ worker[p] \in Workers
    BY DEF StartPosts, StartEvict, Enters, IInv, CallsOK
  <1>2. TypeOK'
    BY <1>1 DEF StartPosts, StartEvict, IInv, TypeOK, believed
  <1>3. PostsHoldLock'
    BY <1>1 DEF StartPosts, StartEvict, IInv, TypeOK, PostsHoldLock, Posting, Holds
  <1>4. \A q \in Calls \ {p} : ~Posting(q)
    BY <1>1, OnePost DEF IInv
  <1>5. CallsOK'
    BY <1>1, <1>4 DEF StartPosts, StartEvict, IInv, TypeOK, CallsOK, Posting, believed
  <1>6. EvictingDropped'
    BY <1>1, <1>4 DEF StartPosts, StartEvict, IInv, TypeOK, EvictingDropped, Posting, believed
  <1>7. ResidencyIsReal'
    BY <1>1 DEF StartPosts, StartEvict, IInv, TypeOK, ResidencyIsReal, believed
  <1> QED
    BY <1>2, <1>3, <1>5, <1>6, <1>7 DEF IInv

LEMMA LoadIInv ==
    ASSUME IInv, NEW p \in Calls, LoadDone(p)
    PROVE  IInv'
  <1> USE CallsAssumption, WorkersAssumption
  <1>1. Posting(p) /\ Holds(p)
    BY DEF LoadDone, Posting, IInv, PostsHoldLock
  <1>2. worker[p] \in Workers /\ place[p] \in CardsOf[worker[p]]
    BY DEF LoadDone, IInv, CallsOK
  <1>3. /\ pinnedLoaded' \subseteq Workers /\ resident' \in [Workers -> SUBSET Cards]
        /\ loaded' \in [Workers -> SUBSET Cards]
    <2>1. loaded' = Effect(p) /\ pinnedLoaded' = pinnedLoaded \cup ({worker[p]} \cap Pinned)
      BY DEF LoadDone
    <2>2. resident' = [resident EXCEPT ![worker[p]] = @ \cup {place[p]}]
      BY DEF LoadDone
    <2>3. place[p] \in Cards
      BY <1>2
    <2>4. resident' \in [Workers -> SUBSET Cards]
      BY <1>2, <2>2, <2>3 DEF IInv, TypeOK
    <2>5. pinnedLoaded' \subseteq Workers
      BY <1>2, <2>1 DEF IInv, TypeOK
    <2> QED
      BY <1>1, <2>1, <2>4, <2>5, EffectReal
  <1>4. ResidencyIsReal'
    BY <1>1, <1>2, EffectReal DEF LoadDone, IInv, TypeOK, ResidencyIsReal
  <1> QED
    BY <1>1, <1>3, <1>4, FinishIInv DEF LoadDone, IInv, TypeOK

LEMMA EndIInv ==
    ASSUME IInv, NEW p \in Calls, AlreadyResident(p) \/ EvictDone(p) \/ PostFailed(p)
    PROVE  IInv'
  <1>1. Holds(p) /\ Finish(p)
    BY DEF AlreadyResident, EvictDone, PostFailed, Enters, IInv, PostsHoldLock, Posting
  <1>2. loaded' = loaded \/ (Posting(p) /\ loaded' = Effect(p))
    BY DEF AlreadyResident, EvictDone, PostFailed, Posting
  <1>3. loaded' \in [Workers -> SUBSET Cards] /\ ResidencyIsReal'
    BY <1>2, EffectReal
    DEF AlreadyResident, EvictDone, PostFailed, IInv, TypeOK, ResidencyIsReal, believed
  <1> QED
    BY <1>1, <1>3, FinishIInv
    DEF AlreadyResident, EvictDone, PostFailed, IInv, TypeOK, believed

LEMMA ProbeIInv ==
    ASSUME IInv, NEW h \in Probes, StartProbe(h) \/ Probe(h)
    PROVE  IInv'
  <1> USE CallsAssumption, WorkersAssumption
  <1>0. h \in Calls /\ h \notin Ensures \cup Evicts
    BY DEF Calls
  <1>1. CASE ProbesRead(h)
    BY <1>0, <1>1, JoinIInv DEF ProbesRead, Posting, IInv, TypeOK
  <1>2. CASE ReconcileLoaded(h)
    <2>1. /\ pinnedLoaded' \subseteq Workers
          /\ resident' \in [Workers -> SUBSET Cards] /\ loaded' \in [Workers -> SUBSET Cards]
          /\ unloaded' \in [Probes -> SUBSET Workers]
      BY <1>2 DEF ReconcileLoaded, IInv, TypeOK
    <2>2. ResidencyIsReal'
      BY <1>2 DEF ReconcileLoaded, IInv, TypeOK, ResidencyIsReal
    <2> QED
      BY <1>0, <1>2, <2>1, <2>2, FinishIInv DEF ReconcileLoaded, Enters
  <1>3. CASE StartProbe(h) \/ \E w \in Workers : ReadHealth(h, w)
    <2>1. pc' = pc \/ (pc[h] = "idle" /\ pc' = [pc EXCEPT ![h] = "probing"])
      BY <1>3 DEF StartProbe, ReadHealth
    <2>2. TypeOK'
      <3>1. CASE StartProbe(h)
        BY <3>1 DEF StartProbe, IInv, TypeOK, believed
      <3>2. CASE \E w \in Workers : ReadHealth(h, w)
        <4> PICK w \in Workers : ReadHealth(h, w)
          BY <3>2
        <4>1. /\ toRead' = [toRead EXCEPT ![h] = @ \ {w}]
              /\ unloaded' = unloaded \/ unloaded' = [unloaded EXCEPT ![h] = @ \cup {w}]
              /\ UNCHANGED <<lock, pc, worker, place, believed, loaded>>
          BY DEF ReadHealth
        <4>2. toRead' \in [Probes -> SUBSET Workers] /\ unloaded' \in [Probes -> SUBSET Workers]
          BY <4>1 DEF IInv, TypeOK
        <4> QED
          BY <4>1, <4>2 DEF IInv, TypeOK, believed
      <3> QED
        BY <1>3, <3>1, <3>2
    <2>3. UNCHANGED <<lock, worker, place, resident, loaded>>
      BY <1>3 DEF StartProbe, ReadHealth, believed
    <2>4. PostsHoldLock' /\ CallsOK' /\ EvictingDropped'
      BY <1>0, <2>1, <2>3
      DEF IInv, TypeOK, PostsHoldLock, Posting, Holds, CallsOK, EvictingDropped
    <2>5. ResidencyIsReal'
      BY <2>3 DEF IInv, ResidencyIsReal
    <2> QED
      BY <2>2, <2>4, <2>5 DEF IInv
  <1> QED
    BY <1>1, <1>2, <1>3 DEF Probe

LEMMA RestartIInv ==
    ASSUME IInv, NEW w \in Workers, Restart(w)
    PROVE  IInv'
  <1>1. TypeOK'
    BY DEF Restart, IInv, TypeOK, believed
  <1>2. PostsHoldLock' /\ CallsOK' /\ EvictingDropped'
    BY DEF Restart, IInv, PostsHoldLock, Posting, Holds, CallsOK, EvictingDropped,
           believed
  <1>3. ResidencyIsReal'
    BY DEF Restart, IInv, TypeOK, ResidencyIsReal, believed
  <1> QED
    BY <1>1, <1>2, <1>3 DEF IInv

LEMMA StutterIInv == IInv /\ UNCHANGED vars => IInv'
  BY DEF IInv, TypeOK, PostsHoldLock, Posting, Holds, CallsOK, EvictingDropped,
         ResidencyIsReal, vars, believed

LEMMA StepIInv == IInv /\ [Next]_vars => IInv'
  <1> SUFFICES ASSUME IInv, [Next]_vars PROVE IInv'
    OBVIOUS
  <1>1. CASE \E p \in Calls, w \in Workers, g \in Cards : Ensure(p, w, g) \/ Evict(p, w, g)
    BY <1>1, CallIInv
  <1>2. CASE \E p \in Calls : Work(p)
    <2> PICK p \in Calls : Work(p)
      BY <1>2
    <2> QED
      BY StartIInv, LoadIInv, EndIInv DEF Work
  <1>3. CASE \E h \in Probes : StartProbe(h) \/ Probe(h)
    BY <1>3, ProbeIInv
  <1>4. CASE \E w \in Workers : Restart(w)
    BY <1>4, RestartIInv
  <1>5. CASE UNCHANGED vars
    BY <1>5, StutterIInv
  <1> QED
    BY <1>1, <1>2, <1>3, <1>4, <1>5 DEF Next

LEMMA AlwaysIInv == Spec => []IInv
  BY InitIInv, StepIInv, PTL DEF Spec

\* The residency manager's state keeps its types.
THEOREM TypeCorrect == Spec => []TypeOK
  BY AlwaysIInv, PTL DEF IInv

\* A card the manager takes for loaded has the worker's model on it.
THEOREM BooksAreReal == Spec => []ResidencyIsReal
  BY AlwaysIInv, PTL DEF IInv
-----------------------------------------------------------------------------
(* Nothing is left on a card behind the manager's back *)

\* As long as the evictions of w go on, only its cards and its books matter.
LEMMA UnbookedKept ==
    ASSUME NEW w \in Workers,
           \A q \in Evicts : pc[q] = "evicting" /\ worker[q] = w =>
             pc'[q] = "evicting" /\ worker'[q] = w /\ place'[q] = place[q],
           loaded'[w] \ resident'[w] \subseteq loaded[w] \ resident[w]
    PROVE  Unbooked(w)' \subseteq Unbooked(w)
  BY DEF Unbooked

\* A call takes a POST's effect into the books, or its card out of them.
LEMMA WorkStrandsNothing ==
    ASSUME IInv, NEW p \in Calls, Work(p), NEW w \in Workers,
           ~(worker[p] = w /\ PostFailed(p))
    PROVE  Unbooked(w)' \subseteq Unbooked(w)
  <1> USE CallsAssumption, WorkersAssumption
  <1>1. UNCHANGED <<worker, place>> /\ \A q \in Calls \ {p} : pc'[q] = pc[q]
    BY DEF Work, AlreadyResident, StartPosts, LoadDone, StartEvict, EvictDone, PostFailed, Finish,
           IInv, TypeOK
  <1>2. Evicts \subseteq Calls
    BY DEF Calls
  <1>3. CASE AlreadyResident(p) \/ StartPosts(p)
    <2>1. pc[p] = "locking" /\ UNCHANGED <<resident, loaded>>
      BY <1>3 DEF AlreadyResident, StartPosts, Enters, believed
    <2> QED
      BY <1>1, <1>2, <2>1, UnbookedKept
  <1>4. CASE LoadDone(p)
    <2>1. pc[p] = "loading" /\ worker[p] \in Workers /\ place[p] \in Cards
      BY <1>4 DEF LoadDone, IInv, CallsOK
    <2>2. loaded'[w] \ resident'[w] \subseteq loaded[w] \ resident[w]
      BY <1>4, <2>1 DEF LoadDone, Effect, LoadedAt, IInv, TypeOK
    <2> QED
      BY <1>1, <1>2, <2>1, <2>2, UnbookedKept
  <1>5. CASE StartEvict(p)
    <2>1. /\ pc'[p] = "evicting" /\ p \in Evicts /\ loaded' = loaded /\ pc[p] = "locking"
          /\ resident'[w] = IF worker[p] = w THEN resident[w] \ {place[p]} ELSE resident[w]
      BY <1>5 DEF StartEvict, Enters, IInv, TypeOK
    <2> SUFFICES ASSUME NEW g \in Unbooked(w)' PROVE g \in Unbooked(w)
      OBVIOUS
    <2>2. g \in loaded[w] /\ g \notin resident'[w]
      BY <2>1 DEF Unbooked
    <2>3. ~(worker[p] = w /\ place[p] = g)
      BY <1>1, <2>1 DEF Unbooked
    <2> QED
      BY <1>1, <1>2, <2>1, <2>2, <2>3 DEF Unbooked
  <1>6. CASE EvictDone(p) \/ PostFailed(p)
    <2>1. CASE worker[p] = w
      <3>1. EvictDone(p) /\ pc[p] = "evicting" /\ loaded' = Effect(p) /\ resident' = resident
        BY <1>6, <2>1 DEF EvictDone, believed
      <3>2. loaded'[w] \subseteq loaded[w] \ {place[p]}
        BY <2>1, <3>1 DEF Effect, EvictedAt, IInv, TypeOK
      <3> SUFFICES ASSUME NEW g \in Unbooked(w)' PROVE g \in Unbooked(w)
        OBVIOUS
      <3> QED
        BY <1>1, <1>2, <3>1, <3>2 DEF Unbooked
    <2>2. CASE worker[p] # w
      <3>1. resident' = resident /\ (loaded' = loaded \/ loaded' = Effect(p))
        BY <1>6 DEF EvictDone, PostFailed, believed
      <3>2. Effect(p)[w] = loaded[w]
        BY <2>2 DEF Effect, LoadedAt, EvictedAt, IInv, TypeOK
      <3> QED
        BY <1>1, <1>2, <2>2, <3>1, <3>2, UnbookedKept
    <2> QED
      BY <2>1, <2>2
  <1> QED
    BY <1>3, <1>4, <1>5, <1>6 DEF Work

\* A card leaves the books only with its own eviction: no step leaves a model
\* on a card the books do not list, but a POST that fails and a probe whose
\* answer is old.
THEOREM NothingIsStranded == Spec => NothingStranded
  <1> DEFINE Kept ==
        \A w \in Workers :
          \/ Unbooked(w)' \subseteq Unbooked(w)
          \/ \E p \in Calls : worker[p] = w /\ PostFailed(p)
          \/ \E h \in Probes : w \in unloaded[h] /\ ReconcileLoaded(h)
  <1>1. IInv /\ [Next]_vars => Kept
    <2> SUFFICES ASSUME IInv, [Next]_vars, NEW w \in Workers,
                        ~\E p \in Calls : worker[p] = w /\ PostFailed(p),
                        ~\E h \in Probes : w \in unloaded[h] /\ ReconcileLoaded(h)
                 PROVE  Unbooked(w)' \subseteq Unbooked(w)
      OBVIOUS
    <2> USE CallsAssumption
    <2>0. Evicts \subseteq Calls
      BY DEF Calls
    <2>1. ASSUME NEW p \in Calls, NEW v \in Workers, NEW g \in Cards,
                 Ensure(p, v, g) \/ Evict(p, v, g)
          PROVE  Unbooked(w)' \subseteq Unbooked(w)
      <3>1. /\ pc[p] = "idle" /\ UNCHANGED <<resident, loaded>>
            /\ \A q \in Calls \ {p} :
                 pc'[q] = pc[q] /\ worker'[q] = worker[q] /\ place'[q] = place[q]
        BY <2>1 DEF Ensure, Evict, IInv, TypeOK, believed
      <3> QED
        BY <2>0, <3>1, UnbookedKept
    <2>2. ASSUME NEW p \in Calls, Work(p) PROVE Unbooked(w)' \subseteq Unbooked(w)
      BY <2>2, WorkStrandsNothing
    <2>3. ASSUME NEW h \in Probes, StartProbe(h) \/ Probe(h)
          PROVE  Unbooked(w)' \subseteq Unbooked(w)
      <3>1. UNCHANGED <<worker, place, loaded>> /\ \A q \in Evicts : pc'[q] = pc[q]
        BY <2>3 DEF StartProbe, Probe, ReadHealth, ProbesRead, ReconcileLoaded, Finish, IInv,
                    TypeOK, Calls
      <3>2. resident'[w] = resident[w]
        BY <2>3 DEF StartProbe, Probe, ReadHealth, ProbesRead, ReconcileLoaded, IInv, TypeOK,
                    believed
      <3> QED
        BY <3>1, <3>2, UnbookedKept
    <2>4. ASSUME NEW v \in Workers, Restart(v) PROVE Unbooked(w)' \subseteq Unbooked(w)
      <3>1. UNCHANGED <<pc, worker, place, resident>> /\ loaded'[w] \subseteq loaded[w]
        BY <2>4 DEF Restart, IInv, TypeOK, believed
      <3> QED
        BY <3>1, UnbookedKept
    <2>5. CASE UNCHANGED vars
      BY <2>5, UnbookedKept DEF vars, believed
    <2> QED
      BY <2>1, <2>2, <2>3, <2>4, <2>5 DEF Next
  <1>2. NothingStranded <=> [][Kept]_vars
    BY DEF NothingStranded
  <1> QED
    BY <1>1, <1>2, AlwaysIInv, PTL DEF Spec
=============================================================================
