------------------------ MODULE GenSpaceRailsProofs ------------------------
(* Proofs about the rails, for every number of clicks, of copies that fail    *)
(* and of visits to the page: a card shows the result of its own job and is   *)
(* not taken back, and no result is in the project twice.                     *)
EXTENDS GenSpaceRailsProps, SequenceTheorems, TLAPS

MaybeJob  == Jobs \cup {None}
HookState == [bind : MaybeJob, busy : BOOLEAN, result : MaybeJob]
Copy == [by : AllKinds, result : Jobs, bind : MaybeJob, said : MaybeJob, mount : Nat]
Item == [result : Jobs, said : MaybeJob]
Cards == [Jobs -> [status : {"none", "running", "done", "error"}, shows : MaybeJob]]

\* The types of the state.
TypeOK ==
    /\ kind \in [Jobs -> AllKinds \cup {None}]
    /\ call \in [Jobs -> {"none", "running", "landed", "failed"}]
    /\ born \in [Jobs -> Nat] /\ aborted \in SUBSET Jobs
    /\ hook \in [Hooks -> HookState]
    /\ newest \in MaybeJob /\ submission \in [Submitting -> MaybeJob] /\ lastPrompt \in MaybeJob
    /\ persisted \in MaybeJob /\ adding \in BOOLEAN /\ imported \in SUBSET Jobs
    /\ imports \in Seq(Copy) /\ library \in Seq(Item)
    /\ card \in Cards /\ saved \in Cards /\ restoring \in Cards \cup {None}
    /\ errors \in SUBSET {"generation", "local"}
    /\ shown \in BOOLEAN /\ mount \in Nat /\ session \in Sessions
    /\ faults \in Nat /\ disturbed \in SUBSET Jobs

-----------------------------------------------------------------------------
(* Cards *)

\* The cards of the dock, those on disk and those on their way from it.
Docks == {card, saved} \cup ({restoring} \ {None})

\* A card that is done shows its own job, whose result has arrived.
CardsOwn == \A d \in Docks : \A j \in Jobs :
    d[j].status = "done" => d[j].shows = j /\ call[j] = "landed"

\* A job nobody clicked has no card.
CardsClicked == \A j \in Jobs :
    kind[j] = None => call[j] = "none" /\ \A d \in Docks : d[j] = NoCard

\* The cards that are restored are those of jobs that have none in the dock.
RestoredLater ==
    /\ restoring # None => \A j \in Jobs : card[j] = NoCard \/ restoring[j] = NoCard
    /\ shown \/ \A j \in Jobs : card[j] = NoCard

-----------------------------------------------------------------------------
(* Results: in a hook, in a copy, in the project *)

\* A hook holds the result of a job of its rails that this page submitted.
HooksOwn == \A h \in Hooks :
    LET r == hook[h].result IN
    r # None => /\ shown /\ born[r] = mount /\ call[r] = "landed"
                /\ HookOf(kind[r]) = h
                /\ h = "generation" => hook[h].bind = r

CopiesOwn == \A i \in DOMAIN imports :
    LET c == imports[i] IN
    /\ call[c.result] = "landed" /\ c.by = kind[c.result] /\ c.mount = born[c.result]
    /\ c.bind \in {None, c.result}

LibraryOwn == \A i \in DOMAIN library : call[library[i].result] = "landed"

IsCopied(r) == \E i \in DOMAIN imports : imports[i].result = r
IsKept(r)   == \E i \in DOMAIN library : library[i].result = r

CopiedOnce == \A i, k \in DOMAIN imports : imports[i].result = imports[k].result => i = k
KeptOnce   == \A i, k \in DOMAIN library : library[i].result = library[k].result => i = k

\* No effect copies a result again that a hook still holds: the refs say so.
Remembered ==
    \A h \in Hooks : LET r == hook[h].result IN
      r # None =>
        /\ kind[r] = "video" /\ (IsCopied(r) \/ IsKept(r)) => persisted = r
        /\ kind[r] = "image" => ~IsKept(r) /\ (IsCopied(r) => adding)
        /\ h \in Submitting /\ (IsCopied(r) \/ IsKept(r)) => submission[h] = None

\* Until a copy fails every result is at one place of the copies and the
\* project at most.
Once ==
    faults = 0 =>
      /\ CopiedOnce /\ KeptOnce /\ Remembered
      /\ \A r \in Jobs : ~(IsCopied(r) /\ IsKept(r))

IInv ==
    /\ TypeOK /\ CardsOwn /\ CardsClicked /\ RestoredLater
    /\ HooksOwn /\ CopiesOwn /\ LibraryOwn /\ Once

-----------------------------------------------------------------------------
(* Sequences *)

\* One more at the end.
LEMMA OneMore ==
    ASSUME NEW S, NEW s \in Seq(S), NEW e \in S
    PROVE  /\ Append(s, e) \in Seq(S)
           /\ \A i \in DOMAIN Append(s, e) :
                \/ i \in DOMAIN s /\ Append(s, e)[i] = s[i]
                \/ i = Len(s) + 1 /\ i \notin DOMAIN s /\ Append(s, e)[i] = e
           /\ \A i \in DOMAIN s : i \in DOMAIN Append(s, e) /\ Append(s, e)[i] = s[i]
           /\ \E i \in DOMAIN Append(s, e) : Append(s, e)[i] = e
  BY AppendProperties, LenProperties

\* The index in s of what is at k once i is removed.
Was(i, k) == IF k < i THEN k ELSE k + 1

\* One less: what is left stood elsewhere, and at one index each.
LEMMA OneLess ==
    ASSUME NEW S, NEW s \in Seq(S), NEW i \in DOMAIN s
    PROVE  /\ RemoveAt(s, i) \in Seq(S)
           /\ \A k \in DOMAIN RemoveAt(s, i) :
                Was(i, k) \in DOMAIN s \ {i} /\ RemoveAt(s, i)[k] = s[Was(i, k)]
           /\ \A k, l \in DOMAIN RemoveAt(s, i) : Was(i, k) = Was(i, l) => k = l
  <1>1. i \in 1..Len(s) /\ Len(s) \in Nat /\ DOMAIN s = 1..Len(s)
    BY LenProperties
  <1> DEFINE a == SubSeq(s, 1, i - 1)
             b == SubSeq(s, i + 1, Len(s))
  <1>2. /\ a \in Seq(S) /\ Len(a) = i - 1
        /\ \A k \in 1..(i - 1) : a[k] = s[k]
    BY <1>1, SubSeqProperties, ElementOfSeq
  <1>3. /\ b \in Seq(S) /\ Len(b) = Len(s) - i
        /\ \A k \in 1..(Len(s) - i) : b[k] = s[i + k]
    <2> DEFINE m == i + 1
               n == Len(s)
    <2>1. /\ m \in Int /\ n \in Int /\ n - m + 1 = n - i
          /\ (m <= n \/ n - i = 0) /\ \A k \in m..n : s[k] \in S
      BY <1>1, ElementOfSeq
    <2>2. \A k \in 1..(n - i) : m + k - 1 = i + k
      BY <1>1
    <2> HIDE DEF m, n
    <2>3. /\ b \in Seq(S) /\ Len(b) = IF m <= n THEN n - m + 1 ELSE 0
          /\ \A k \in 1..(n - m + 1) : b[k] = s[m + k - 1]
      BY <2>1, SubSeqProperties DEF m, n
    <2> QED
      BY <1>1, <2>1, <2>2, <2>3 DEF m, n
  <1> HIDE DEF a, b
  <1> DEFINE c == a \o b
  <1>4. /\ c \in Seq(S) /\ Len(c) = Len(s) - 1
        /\ \A k \in 1..(Len(s) - 1) : c[k] = IF k <= i - 1 THEN a[k] ELSE b[k - (i - 1)]
    <2>1. /\ c \in Seq(S) /\ Len(c) = Len(a) + Len(b)
          /\ \A k \in 1..(Len(a) + Len(b)) : c[k] = IF k <= Len(a) THEN a[k] ELSE b[k - Len(a)]
      BY <1>2, <1>3, ConcatProperties
    <2>2. Len(a) + Len(b) = Len(s) - 1
      BY <1>1, <1>2, <1>3
    <2> QED
      BY <2>1, <2>2, <1>2
  <1>5. c = RemoveAt(s, i)
    BY DEF RemoveAt, a, b
  <1> HIDE DEF c
  <1>6. DOMAIN c = 1..(Len(s) - 1)
    BY <1>4, LenProperties
  <1>7. \A k \in 1..(Len(s) - 1) : c[k] = s[Was(i, k)] /\ Was(i, k) \in DOMAIN s \ {i}
    <2> SUFFICES ASSUME NEW k \in 1..(Len(s) - 1)
                 PROVE  c[k] = s[Was(i, k)] /\ Was(i, k) \in DOMAIN s \ {i}
      OBVIOUS
    <2>1. CASE k < i
      <3>1. c[k] = a[k] /\ k \in 1..(i - 1) /\ k \in 1..Len(s) /\ k # i
        BY <2>1, <1>1, <1>4
      <3> QED
        BY <3>1, <2>1, <1>1, <1>2 DEF Was
    <2>2. CASE ~(k < i)
      <3>1. c[k] = b[k - (i - 1)] /\ k - (i - 1) \in 1..(Len(s) - i)
        BY <2>2, <1>1, <1>4
      <3>2. b[k - (i - 1)] = s[i + (k - (i - 1))] /\ i + (k - (i - 1)) = k + 1
        BY <3>1, <1>1, <1>3
      <3>3. k + 1 \in 1..Len(s) /\ k + 1 # i
        BY <2>2, <1>1
      <3> QED
        BY <3>1, <3>2, <3>3, <2>2, <1>1 DEF Was
    <2> QED
      BY <2>1, <2>2
  <1>8. \A k, l \in 1..(Len(s) - 1) : Was(i, k) = Was(i, l) => k = l
    BY <1>1 DEF Was
  <1> QED
    BY <1>4, <1>5, <1>6, <1>7, <1>8

-----------------------------------------------------------------------------
(* Types *)

LEMMA SetHookTyped ==
    ASSUME hook \in [Hooks -> HookState], NEW m, NEW h \in Hooks, NEW state \in HookState,
           SetHook(m, h, state)
    PROVE  hook' \in [Hooks -> HookState]
  BY DEF SetHook

LEMMA SetCardTyped ==
    ASSUME card \in Cards, NEW m, NEW j \in MaybeJob,
           NEW state \in [status : {"none", "running", "done", "error"}, shows : MaybeJob],
           SetCard(m, j, state)
    PROVE  card' \in Cards
  BY DEF SetCard, Cards, MaybeJob

LEMMA HookStates ==
    ASSUME TypeOK
    PROVE  /\ Idle \in HookState
           /\ \A b, r \in MaybeJob : /\ [bind |-> b, busy |-> TRUE, result |-> r] \in HookState
                                     /\ [bind |-> b, busy |-> FALSE, result |-> r] \in HookState
           /\ \A h \in Hooks : /\ FailedHook(h) \in HookState
                               /\ hook[h].bind \in MaybeJob /\ hook[h].result \in MaybeJob
           /\ hook["generation"] \in HookState /\ WatchdogClears \in [Hooks -> HookState]
           /\ \A k \in AllKinds : HookOf(k) \in Hooks
           /\ \A j \in Jobs : Done(j) \in [status : {"none", "running", "done", "error"},
                                           shows : MaybeJob]
           /\ \A s \in {"none", "running", "error"} :
                [status |-> s, shows |-> None] \in [status : {"none", "running", "done", "error"},
                                                    shows : MaybeJob]
  <1>1. Idle \in HookState /\ (\A h \in Hooks : hook[h] \in HookState)
    BY DEF Idle, HookState, MaybeJob, TypeOK
  <1>2. \A b, r \in MaybeJob : /\ [bind |-> b, busy |-> TRUE, result |-> r] \in HookState
                               /\ [bind |-> b, busy |-> FALSE, result |-> r] \in HookState
    BY DEF HookState
  <1>3. \A h \in Hooks : FailedHook(h) \in HookState
    BY <1>1 DEF FailedHook, HookState
  <1>4. WatchdogClears \in [Hooks -> HookState]
    BY <1>1 DEF WatchdogClears, HookState, TypeOK, Hooks
  <1>5. \A k \in AllKinds : HookOf(k) \in Hooks
    BY DEF HookOf, Hooks, AllKinds, Submitting
  <1>6. \A h \in Hooks : hook[h].bind \in MaybeJob /\ hook[h].result \in MaybeJob
    BY <1>1 DEF HookState
  <1> QED
    BY <1>1, <1>2, <1>3, <1>4, <1>5, <1>6 DEF Done, MaybeJob, Hooks

LEMMA InitIInv == Init => IInv
  <1> SUFFICES ASSUME Init PROVE IInv
    OBVIOUS
  <1>1. TypeOK
    BY EmptySeq DEF Init, TypeOK, Idle, NoCard, HookState, Cards, MaybeJob
  <1>2. CardsOwn /\ CardsClicked /\ RestoredLater
    BY DEF Init, CardsOwn, CardsClicked, RestoredLater, Docks, NoCard
  <1>3. HooksOwn /\ CopiesOwn /\ LibraryOwn
    BY EmptySeq DEF Init, HooksOwn, CopiesOwn, LibraryOwn, Idle
  <1>4. Once
    BY EmptySeq DEF Init, Once, CopiedOnce, KeptOnce, Remembered, IsCopied, IsKept, Idle
  <1> QED
    BY <1>1, <1>2, <1>3, <1>4 DEF IInv

LEMMA StartTyped ==
    ASSUME TypeOK, NEW j \in Jobs, NEW k \in AllKinds, Start(j, k)
    PROVE  /\ kind' \in [Jobs -> AllKinds \cup {None}]
           /\ call' \in [Jobs -> {"none", "running", "landed", "failed"}]
           /\ hook' \in [Hooks -> HookState]
           /\ newest' \in MaybeJob /\ submission' \in [Submitting -> MaybeJob]
           /\ lastPrompt' \in MaybeJob /\ errors' \in SUBSET {"generation", "local"}
  <1>1. hook' \in [Hooks -> HookState]
    <2>1. CASE k = "panel"
      BY <2>1 DEF Start, TypeOK
    <2>2. CASE k # "panel"
      <3>1. PICK b \in MaybeJob :
              SetHook(mount, HookOf(k), [bind |-> b, busy |-> TRUE, result |-> None])
        BY <2>2 DEF Start, MaybeJob
      <3>2. [bind |-> b, busy |-> TRUE, result |-> None] \in HookState /\ HookOf(k) \in Hooks
        BY HookStates DEF MaybeJob
      <3> QED
        BY <3>1, <3>2, SetHookTyped DEF TypeOK
    <2> QED
      BY <2>1, <2>2
  <1>2. /\ kind' \in [Jobs -> AllKinds \cup {None}]
        /\ call' \in [Jobs -> {"none", "running", "landed", "failed"}]
    BY DEF Start, TypeOK
  <1>3. /\ newest' \in MaybeJob /\ submission' \in [Submitting -> MaybeJob]
        /\ lastPrompt' \in MaybeJob /\ errors' \in SUBSET {"generation", "local"}
    BY DEF Start, TypeOK, MaybeJob
  <1> QED
    BY <1>1, <1>2, <1>3

\* Jobs that are under way, and what the copies bring.
LEMMA CopyTyped ==
    ASSUME TypeOK
    PROVE  /\ Unsettled \in SUBSET Jobs
           /\ \A i \in DOMAIN imports :
                LET c == imports[i] IN
                /\ c \in Copy /\ c.by \in AllKinds /\ c.result \in Jobs /\ c.bind \in MaybeJob
                /\ c.said \in MaybeJob /\ HookOf(c.by) \in Hooks /\ CardOf(c) \in MaybeJob
                /\ [result |-> c.result, said |-> c.said] \in Item
  <1>1. \A i \in DOMAIN imports : imports[i] \in Copy
    BY ElementOfSeq, LenProperties DEF TypeOK
  <1>2. \A h \in Hooks : hook[h].result \in MaybeJob
    BY HookStates
  <1>3. \A i \in DOMAIN imports : imports[i].result \in Jobs
    BY <1>1 DEF Copy
  <1>4. Unsettled \in SUBSET Jobs
    BY <1>2, <1>3 DEF Unsettled, MaybeJob
  <1>5. \A i \in DOMAIN imports :
                LET c == imports[i] IN
                /\ c \in Copy /\ c.by \in AllKinds /\ c.result \in Jobs /\ c.bind \in MaybeJob
                /\ c.said \in MaybeJob
    BY <1>1 DEF Copy
  <1> QED
    BY <1>4, <1>5, HookStates DEF CardOf, MaybeJob, Item

LEMMA RailsTyped ==
    ASSUME TypeOK, CardsClicked, NEW j \in Jobs
    PROVE  /\ \A k \in AllKinds : Submit(j, k) \/ Refuse(j, k) => TypeOK'
           /\ FallThrough(j) => TypeOK'
           /\ Land(j) \/ Fail(j) \/ Vanish(j) => TypeOK'
  <1>1. ASSUME NEW k \in AllKinds, Submit(j, k) PROVE TypeOK'
    <2>1. card' \in Cards
      BY <1>1 DEF Submit, TypeOK, Cards, MaybeJob
    <2>2. born' \in [Jobs -> Nat] /\ disturbed' \in SUBSET Jobs
      BY <1>1, CopyTyped DEF Submit, TypeOK
    <2>3. Start(j, k) /\ UNCHANGED <<aborted, persisted, adding, imported, imports, saved, restoring,
                   library, page, faults>>
      BY <1>1 DEF Submit
    <2> QED
      BY <2>1, <2>2, <2>3, StartTyped DEF TypeOK, page
  <1>2. ASSUME NEW k \in AllKinds, Refuse(j, k) PROVE TypeOK'
    <2>1. card' \in Cards
      BY <1>2 DEF Refuse, TypeOK, Cards, MaybeJob
    <2>2. born' \in [Jobs -> Nat]
      BY <1>2 DEF Refuse, TypeOK
    <2>3. /\ kind' \in [Jobs -> AllKinds \cup {None}]
          /\ call' \in [Jobs -> {"none", "running", "landed", "failed"}]
      BY <1>2 DEF Refuse, TypeOK
    <2>4. UNCHANGED <<aborted, hook, refs, lastPrompt, imports, saved, restoring, library,
                      errors, page, count>>
      BY <1>2 DEF Refuse
    <2> QED
      BY <2>1, <2>2, <2>3, <2>4 DEF TypeOK, refs, page, count
  <1>3. ASSUME FallThrough(j) PROVE TypeOK'
    <2>1. Start(j, "image") /\ UNCHANGED <<born, aborted, persisted, adding, imported, imports,
                   dock, library, page, count>>
      BY <1>3 DEF FallThrough
    <2>2. "image" \in AllKinds
      BY DEF AllKinds
    <2> QED
      BY <2>1, <2>2, StartTyped DEF TypeOK, page, count, dock
  <1>4. ASSUME Land(j) \/ Fail(j) \/ Vanish(j) PROVE TypeOK'
    <2>1. /\ call' \in [Jobs -> {"none", "running", "landed", "failed"}]
          /\ UNCHANGED <<kind, born, aborted, refs, lastPrompt, saved, restoring, library,
                         page, count>>
      BY <1>4 DEF Land, Fail, Vanish, End, TypeOK
    <2>2. kind[j] \in AllKinds /\ HookOf(kind[j]) \in Hooks /\ born[j] \in Nat
      <3>1. call[j] = "running"
        BY <1>4 DEF Land, Fail, Vanish, End
      <3>2. kind[j] # None
        BY <3>1 DEF CardsClicked
      <3> QED
        BY <3>2, HookStates DEF TypeOK
    <2>3. CASE Land(j)
      <3>1. hook' \in [Hooks -> HookState]
        <4>1. CASE kind[j] = "panel"
          BY <2>3, <4>1 DEF Land, TypeOK
        <4>2. CASE kind[j] # "panel"
          <5>1. PICK b, result \in MaybeJob :
                  SetHook(born[j], HookOf(kind[j]), [bind |-> b, busy |-> FALSE, result |-> result])
            BY <2>3, <4>2 DEF Land, MaybeJob
          <5> QED
            BY <5>1, <2>2, HookStates, SetHookTyped DEF TypeOK
        <4> QED
          BY <4>1, <4>2
      <3>2. imports' \in Seq(Copy)
        <4>1. Copying(j, born[j], j) \in Copy
          BY <2>2 DEF Copying, Copy, MaybeJob
        <4> QED
          BY <4>1, <2>3, OneMore DEF Land, TypeOK
      <3>3. errors' \in SUBSET {"generation", "local"} /\ card' = card
        BY <2>3 DEF Land, TypeOK
      <3> QED
        BY <2>1, <3>1, <3>2, <3>3 DEF TypeOK, refs, page, count
    <2>4. CASE Fail(j)
      <3>1. hook' \in [Hooks -> HookState]
        <4>1. FailedHook(HookOf(kind[j])) \in HookState
          BY <2>2, HookStates
        <4> QED
          BY <4>1, <2>2, <2>4, SetHookTyped DEF Fail, TypeOK
      <3>2. card' \in Cards
        <4>1. Failed \in [status : {"none", "running", "done", "error"}, shows : MaybeJob]
          BY HookStates DEF Failed
        <4>2. CASE kind[j] \in {"edit", "restyle"}
          <5>1. SetCard(born[j], j, Failed) /\ j \in MaybeJob
            BY <2>4, <4>2 DEF Fail, MaybeJob
          <5> QED
            BY <4>1, <5>1, SetCardTyped DEF TypeOK
        <4>3. CASE kind[j] \notin {"edit", "restyle"}
          BY <2>4, <4>3 DEF Fail, TypeOK
        <4> QED
          BY <4>2, <4>3
      <3>3. errors' \in SUBSET {"generation", "local"} /\ imports' = imports
        BY <2>4 DEF Fail, Raise, TypeOK
      <3> QED
        BY <2>1, <3>1, <3>2, <3>3 DEF TypeOK, refs, page, count
    <2>5. CASE Vanish(j)
      BY <2>1, <2>5 DEF Vanish, TypeOK, refs, page, count
    <2> QED
      BY <1>4, <2>3, <2>4, <2>5
  <1> QED
    BY <1>1, <1>2, <1>3, <1>4

LEMMA EffectsTyped ==
    ASSUME TypeOK, CardsClicked, HooksOwn, Effects
    PROVE  TypeOK'
  <1>1. ASSUME NEW result \in Jobs, NEW bind \in MaybeJob, NEW said \in MaybeJob,
               kind[result] # None, Import(result, bind, said)
        PROVE  imports' \in Seq(Copy)
    <2>1. [by |-> kind[result], result |-> result, bind |-> bind, said |-> said, mount |-> mount]
            \in Copy
      BY <1>1 DEF Copy, TypeOK
    <2> QED
      BY <2>1, <1>1, OneMore DEF Import, TypeOK
  <1>2. /\ \A h \in Hooks : hook[h].bind \in MaybeJob /\ hook[h].result \in MaybeJob
        /\ "generation" \in Hooks
    BY HookStates DEF Hooks
  <1>3. CASE ImportVideo
    <2>1. hook["generation"].result \in Jobs /\ kind[hook["generation"].result] # None
      BY <1>2, <1>3, NoneAssumption DEF ImportVideo, Effect, MaybeJob, AllKinds
    <2>2. imports' \in Seq(Copy) /\ persisted' \in MaybeJob
      BY <1>1, <1>2, <1>3, <2>1 DEF ImportVideo, TypeOK, MaybeJob
    <2> QED
      BY <2>2, <1>3 DEF ImportVideo, TypeOK, calls, page, count, dock
  <1>4. CASE ImportImages
    <2>1. hook["generation"].result \in Jobs /\ kind[hook["generation"].result] # None
      BY <1>2, <1>4, NoneAssumption DEF ImportImages, Effect, MaybeJob, AllKinds
    <2>2. imports' \in Seq(Copy) /\ adding' \in BOOLEAN
      BY <1>1, <1>2, <1>4, <2>1 DEF ImportImages, TypeOK
    <2> QED
      BY <2>2, <1>4 DEF ImportImages, TypeOK, calls, page, count, dock
  <1>5. ASSUME NEW h \in Submitting, ImportSubmission(h) PROVE TypeOK'
    <2>1. hook[h].result \in Jobs /\ submission[h] \in MaybeJob /\ None \in MaybeJob
      BY <1>2, <1>5 DEF ImportSubmission, Effect, MaybeJob, Hooks, TypeOK
    <2>2. imports' \in Seq(Copy)
      <3>1. Import(hook[h].result, None, submission[h]) /\ hook[h].result # None /\ h \in Hooks
        BY <1>5 DEF ImportSubmission, Effect, Hooks
      <3>2. kind[hook[h].result] # None
        BY <3>1, <2>1 DEF HooksOwn, CardsClicked
      <3> QED
        BY <2>1, <3>1, <3>2, <1>1
    <2>3. submission' \in [Submitting -> MaybeJob]
      BY <2>1, <1>5 DEF ImportSubmission, TypeOK
    <2> QED
      BY <2>2, <2>3, <1>5 DEF ImportSubmission, TypeOK, calls, page, count, dock
  <1> QED
    BY <1>3, <1>4, <1>5 DEF Effects

LEMMA EndedTyped ==
    ASSUME TypeOK, NEW i \in DOMAIN imports, Ended(i)
    PROVE  TypeOK'
  <1> DEFINE c == imports[i]
  <1>1. /\ c \in Copy /\ c.by \in AllKinds /\ c.result \in Jobs /\ c.bind \in MaybeJob
        /\ HookOf(c.by) \in Hooks /\ CardOf(c) \in MaybeJob
        /\ [result |-> c.result, said |-> c.said] \in Item
    BY CopyTyped
  <1>2. imports' \in Seq(Copy)
    BY OneLess DEF Ended, Copied, NotCopied, Finish, TypeOK
  <1>3. UNCHANGED <<calls, newest, submission, lastPrompt, saved, restoring, page>>
    BY DEF Ended, Copied, NotCopied, Finish
  <1>4. adding' \in BOOLEAN
    BY DEF Ended, Copied, NotCopied, StillAdding
  <1>5. Idle \in HookState /\ Done(c.result) \in [status : {"none", "running", "done", "error"},
                                                  shows : MaybeJob]
    BY <1>1, HookStates
  <1>6. hook' \in [Hooks -> HookState]
    <2>1. SetHook(c.mount, HookOf(c.by), Idle) \/ UNCHANGED hook
      BY DEF Ended, Copied, NotCopied, AfterCopy
    <2> QED
      BY <1>1, <1>5, <2>1, SetHookTyped DEF TypeOK
  <1>7. card' \in Cards
    <2>1. PICK j \in MaybeJob : SetCard(c.mount, j, Done(c.result)) \/ UNCHANGED card
      BY <1>1 DEF Ended, Copied, NotCopied
    <2> QED
      BY <1>5, <2>1, SetCardTyped DEF TypeOK
  <1>8. CASE Copied(i)
    <2>1. library' \in Seq(Item)
      BY <1>1, <1>8, OneMore DEF Copied, TypeOK
    <2>2. imported' \in SUBSET Jobs /\ errors' \in SUBSET {"generation", "local"}
      BY <1>1, <1>8 DEF Copied, TypeOK
    <2>3. UNCHANGED <<persisted, count>>
      BY <1>8 DEF Copied
    <2> QED
      BY <1>2, <1>3, <1>4, <1>6, <1>7, <2>1, <2>2, <2>3 DEF TypeOK, calls, page, count
  <1>9. CASE NotCopied(i)
    <2>1. persisted' \in MaybeJob /\ errors' \in SUBSET {"generation", "local"}
      BY <1>9 DEF NotCopied, Raise, TypeOK, MaybeJob
    <2>2. faults' \in Nat /\ disturbed' \in SUBSET Jobs /\ UNCHANGED <<imported, library>>
      BY <1>1, <1>9 DEF NotCopied, TypeOK
    <2> QED
      BY <1>2, <1>3, <1>4, <1>6, <1>7, <2>1, <2>2 DEF TypeOK, calls, page
  <1> QED
    BY <1>8, <1>9 DEF Ended

LEMMA PageTyped ==
    ASSUME TypeOK
    PROVE  /\ Watchdog \/ Dismiss => TypeOK'
           /\ (\E j \in Jobs : GiveUpCard(j)) \/ Tabs => TypeOK'
           /\ UNCHANGED vars => TypeOK'
  <1>1. CASE Watchdog
    <2>1. hook' \in [Hooks -> HookState] /\ aborted' \in SUBSET Jobs
      BY <1>1, HookStates DEF Watchdog, TypeOK, MaybeJob
    <2>2. errors' \in SUBSET {"generation", "local"}
      BY <1>1 DEF Watchdog, TypeOK
    <2> QED
      BY <1>1, <2>1, <2>2 DEF Watchdog, TypeOK, refs, dock, page, count
  <1>2. CASE Dismiss
    <2>1. hook' \in [Hooks -> HookState]
      BY <1>2, HookStates DEF Dismiss, TypeOK
    <2>2. disturbed' \in SUBSET Jobs /\ errors' \in SUBSET {"generation", "local"}
      BY <1>2, CopyTyped DEF Dismiss, TypeOK
    <2> QED
      BY <1>2, <2>1, <2>2 DEF Dismiss, TypeOK, calls, refs, dock, page
  <1>3. ASSUME NEW j \in Jobs, GiveUpCard(j) PROVE TypeOK'
    <2>1. card' \in Cards
      <3> DEFINE x == [card[j] EXCEPT !.status = "error"]
      <3>1. card \in Cards
        BY DEF TypeOK
      <3>2. card' = [card EXCEPT ![j] = x]
        BY <1>3 DEF GiveUpCard
      <3>3. x \in [status : {"none", "running", "done", "error"}, shows : MaybeJob]
        BY <3>1 DEF Cards
      <3> HIDE DEF x
      <3> QED
        BY <3>1, <3>2, <3>3 DEF Cards
    <2> QED
      BY <1>3, <2>1 DEF GiveUpCard, TypeOK, calls, refs, page, count
  <1>4. CASE Unmount
    <2>1. hook' \in [Hooks -> HookState] /\ card' \in Cards /\ disturbed' \in SUBSET Jobs
      BY <1>4, HookStates, CopyTyped DEF Unmount, TypeOK, Cards, NoCard, MaybeJob
    <2>2. /\ newest' \in MaybeJob /\ persisted' \in MaybeJob /\ adding' \in BOOLEAN
          /\ imported' \in SUBSET Jobs /\ submission' \in [Submitting -> MaybeJob]
          /\ lastPrompt' \in MaybeJob
      BY <1>4 DEF Unmount, NoRefs, MaybeJob
    <2> QED
      BY <1>4, <2>1, <2>2 DEF Unmount, TypeOK, calls
  <1>5. CASE Mount
    <2>1. mount' \in Nat /\ shown' \in BOOLEAN /\ restoring' \in Cards \cup {None}
      BY <1>5 DEF Mount, TypeOK
    <2> QED
      BY <1>5, <2>1 DEF Mount, TypeOK, calls, refs, count
  <1>6. CASE Restore
    <2>1. card' \in Cards /\ restoring' \in Cards \cup {None}
      BY <1>6 DEF Restore, TypeOK
    <2> QED
      BY <1>6, <2>1 DEF Restore, TypeOK, calls, refs, page, count
  <1>7. CASE Save
    BY <1>7 DEF Save, TypeOK, calls, refs, page, count
  <1>8. CASE UNCHANGED vars
    BY <1>8 DEF vars, TypeOK, calls, refs, page, count, dock
  <1> QED
    BY <1>1, <1>2, <1>3, <1>4, <1>5, <1>6, <1>7, <1>8 DEF Tabs

LEMMA TypeStep ==
    ASSUME TypeOK, CardsClicked, HooksOwn, [Next]_vars
    PROVE  TypeOK'
  <1>1. session.kinds \subseteq AllKinds
    BY SessionsAssumption DEF TypeOK
  <1>2. ASSUME Click PROVE TypeOK'
    BY <1>1, <1>2, RailsTyped DEF Click
  <1>3. ASSUME NEW j \in Jobs, Ends(j) PROVE TypeOK'
    BY <1>3, RailsTyped DEF Ends
  <1> QED
    BY <1>2, <1>3, EffectsTyped, EndedTyped, PageTyped DEF Next

-----------------------------------------------------------------------------
(* Calls and cards *)

\* A result that has arrived keeps its job, and a call under way its cards.
LEMMA CallsKept ==
    ASSUME TypeOK, CardsClicked, [Next]_vars, NEW r \in Jobs
    PROVE  /\ call[r] = "landed" => /\ call'[r] = "landed" /\ kind'[r] = kind[r]
                                    /\ born'[r] = born[r]
           /\ kind'[r] = None => kind[r] = None /\ call'[r] = call[r]
           /\ kind[r] # None => kind'[r] # None
  <1>1. /\ kind \in [Jobs -> AllKinds \cup {None}] /\ born \in [Jobs -> Nat]
        /\ call \in [Jobs -> {"none", "running", "landed", "failed"}]
        /\ session.kinds \subseteq AllKinds /\ None \notin AllKinds
    BY SessionsAssumption, NoneAssumption DEF TypeOK
  <1>2. CASE Click
    <2> PICK j \in Jobs, k \in session.kinds : Submit(j, k) \/ Refuse(j, k)
      BY <1>2 DEF Click
    <2>1. /\ kind[j] = None /\ kind' = [kind EXCEPT ![j] = k]
          /\ \E s \in {"running", "failed"} : call' = [call EXCEPT ![j] = s]
          /\ born' = [born EXCEPT ![j] = mount]
      BY DEF Submit, Refuse, Start
    <2>2. call[j] = "none"
      BY <2>1 DEF CardsClicked
    <2> QED
      BY <1>1, <2>1, <2>2
  <1>3. ASSUME NEW j \in Jobs, Land(j) \/ Fail(j) \/ Vanish(j)
        PROVE  /\ kind' = kind /\ born' = born
               /\ call[j] = "running" /\ kind[j] # None
               /\ \E s \in {"landed", "failed"} : call' = [call EXCEPT ![j] = s]
    BY <1>3 DEF Land, Fail, Vanish, End, CardsClicked
  <1>4. ASSUME NEW j \in Jobs, FallThrough(j)
        PROVE  /\ kind' = [kind EXCEPT ![j] = "image"] /\ born' = born /\ kind[j] # None
               /\ call[j] = "running" /\ call' = [call EXCEPT ![j] = "running"]
               /\ "image" \in AllKinds
    BY <1>4, <1>1 DEF FallThrough, Start, AllKinds
  <1>5. CASE \E j \in Jobs : Ends(j)
    BY <1>1, <1>3, <1>4, <1>5 DEF Ends
  <1>6. CASE UNCHANGED calls
    BY <1>6, <1>1 DEF calls
  <1>7. \/ (\E j \in Jobs : GiveUpCard(j)) \/ Effects \/ (\E i \in DOMAIN imports : Ended(i))
        \/ Dismiss \/ Tabs
        => UNCHANGED calls
    BY DEF GiveUpCard, Effects, ImportVideo, ImportImages, ImportSubmission, Ended, Copied,
           NotCopied, Finish, Dismiss, Tabs, Unmount, Mount, Restore, Save
  <1>8. Watchdog \/ UNCHANGED vars => UNCHANGED <<kind, call, born>>
    BY DEF Watchdog, vars, calls
  <1> QED
    BY <1>1, <1>2, <1>5, <1>6, <1>7, <1>8 DEF Next

CardsOK == CardsOwn /\ CardsClicked /\ RestoredLater

\* What has a card in the dock has its own, and a step may turn it.
LEMMA CardTurns ==
    ASSUME TypeOK, CardsOK, [Next]_vars, NEW j \in Jobs, NEW x,
           card' = [card EXCEPT ![j] = x], UNCHANGED <<saved, restoring, shown>>, shown,
           kind'[j] # None, x.status = "done" => x.shows = j /\ call'[j] = "landed",
           restoring # None => restoring[j] = NoCard,
           card[j].status = "done" => x.status = "done"
    PROVE  /\ CardsOK'
           /\ \A i \in Jobs : card[i].status = "done" => card'[i].status \in {"done", "none"}
  <1>1. \A d \in Docks' : d = card' \/ (d # card' /\ d \in Docks)
    BY DEF Docks
  <1>2. card'[j] = x /\ (\A i \in Jobs : i # j => card'[i] = card[i])
    BY DEF TypeOK, Cards
  <1>3. \A r \in Jobs : /\ call[r] = "landed" => call'[r] = "landed"
                        /\ kind'[r] = None => kind[r] = None /\ call'[r] = call[r]
    BY CallsKept DEF CardsOK
  <1> DEFINE Own(d, i) == d[i].status = "done" => d[i].shows = i /\ call'[i] = "landed"
  <1>4. CardsOwn'
    <2>1. \A d \in Docks : \A i \in Jobs : Own(d, i)
      BY <1>3 DEF CardsOK, CardsOwn
    <2>2. \A i \in Jobs : Own(card', i)
      BY <1>2, <2>1 DEF Docks
    <2>3. \A d \in Docks' : \A i \in Jobs : Own(d, i)
      <3> TAKE d \in Docks'
      <3>1. CASE d = card'
        BY <2>2, <3>1
      <3>2. CASE d \in Docks
        BY <2>1, <3>2
      <3> QED
        BY <1>1, <3>1, <3>2
    <2> QED
      BY <2>3 DEF CardsOwn
  <1>5. CardsClicked'
    <2> SUFFICES ASSUME NEW i \in Jobs, kind'[i] = None
                 PROVE  call'[i] = "none" /\ \A d \in Docks' : d[i] = NoCard
      BY DEF CardsClicked
    <2>1. i # j /\ kind[i] = None /\ call'[i] = call[i]
      BY <1>3
    <2>2. call[i] = "none" /\ \A d \in Docks : d[i] = NoCard
      BY <2>1 DEF CardsOK, CardsClicked
    <2>3. card'[i] = NoCard
      BY <1>2, <2>1, <2>2 DEF Docks
    <2> QED
      BY <1>1, <2>1, <2>2, <2>3
  <1>6. RestoredLater'
    BY <1>2 DEF CardsOK, RestoredLater
  <1> QED
    BY <1>2, <1>4, <1>5, <1>6 DEF CardsOK

\* The docks change places, or are empty.
LEMMA DocksMove ==
    ASSUME TypeOK, CardsOK, [Next]_vars,
           \A d \in Docks' : d \in Docks \/ \A j \in Jobs : d[j] = NoCard
    PROVE  CardsOwn' /\ CardsClicked'
  <1>1. \A r \in Jobs : /\ call[r] = "landed" => call'[r] = "landed"
                        /\ kind'[r] = None => kind[r] = None /\ call'[r] = call[r]
    BY CallsKept DEF CardsOK
  <1>2. CardsOwn'
    BY <1>1 DEF CardsOK, CardsOwn, NoCard
  <1>3. CardsClicked'
    BY <1>1 DEF CardsOK, CardsClicked
  <1> QED
    BY <1>2, <1>3

CardsStay == \A j \in Jobs : card[j].status = "done" => card'[j].status \in {"done", "none"}

LEMMA DockStays ==
    ASSUME TypeOK, CardsOK, [Next]_vars, UNCHANGED <<dock, shown>>
    PROVE  CardsOK' /\ CardsStay
  <1>1. Docks' = Docks
    BY DEF Docks, dock
  <1>2. CardsOwn' /\ CardsClicked'
    BY <1>1, DocksMove
  <1> QED
    BY <1>2 DEF CardsOK, RestoredLater, CardsStay, dock

\* Clicks, and the ends of calls.
LEMMA RailsCards ==
    ASSUME TypeOK, CardsOK, [Next]_vars
    PROVE  /\ Click => CardsOK' /\ CardsStay
           /\ \A j \in Jobs : Ends(j) => CardsOK' /\ CardsStay
  <1>1. session.kinds \subseteq AllKinds /\ None \notin AllKinds
    BY SessionsAssumption, NoneAssumption DEF TypeOK
  <1>2. ASSUME Click PROVE CardsOK' /\ CardsStay
    <2> PICK j \in Jobs, k \in session.kinds : Submit(j, k) \/ Refuse(j, k)
      BY <1>2 DEF Click
    <2> DEFINE x == [status |-> "running", shows |-> None]
    <2>1. /\ shown /\ kind[j] = None /\ kind' = [kind EXCEPT ![j] = k]
          /\ card' = [card EXCEPT ![j] = x]
          /\ UNCHANGED <<saved, restoring, shown>>
      BY DEF Submit, Refuse, Start, page
    <2>2. kind'[j] # None
      BY <1>1, <2>1 DEF TypeOK
    <2>3. card[j] = NoCard /\ (restoring # None => restoring[j] = NoCard)
      BY <2>1 DEF CardsOK, CardsClicked, Docks
    <2>4. x.status # "done" /\ card[j].status # "done"
      BY <2>3 DEF NoCard
    <2> HIDE DEF x
    <2> QED
      BY <2>1, <2>2, <2>3, <2>4, CardTurns DEF CardsStay
  <1>3. ASSUME NEW j \in Jobs, Ends(j) PROVE CardsOK' /\ CardsStay
    <2>1. CASE UNCHANGED <<dock, shown>>
      BY <2>1, DockStays
    <2>2. CASE ~UNCHANGED <<dock, shown>>
      <3>1. Fail(j) /\ SetCard(born[j], j, Failed) /\ UNCHANGED <<saved, restoring, shown>>
        BY <1>3, <2>2 DEF Ends, Land, Fail, Vanish, End, FallThrough, dock, page
      <3>2. shown /\ card' = [card EXCEPT ![j] = Failed] /\ card[j] # NoCard
        BY <2>2, <3>1 DEF SetCard, Live, dock
      <3>3. /\ call[j] = "running" /\ kind'[j] = kind[j] /\ kind[j] # None
            /\ card[j].status # "done" /\ Failed.status # "done"
            /\ restoring # None => restoring[j] = NoCard
        BY <3>1, <3>2 DEF Fail, End, CardsOK, CardsClicked, CardsOwn, RestoredLater, Docks, Failed
      <3> HIDE DEF Failed
      <3> QED
        BY <3>1, <3>2, <3>3, CardTurns DEF CardsStay
    <2> QED
      BY <2>1, <2>2
  <1> QED
    BY <1>2, <1>3

\* Copies that end.
LEMMA EndedCards ==
    ASSUME TypeOK, CardsOK, CopiesOwn, [Next]_vars, NEW i \in DOMAIN imports, Ended(i)
    PROVE  CardsOK' /\ CardsStay
  <1> DEFINE c == imports[i]
             x == Done(c.result)
  <1>1. CASE UNCHANGED <<dock, shown>>
    BY <1>1, DockStays
  <1>2. CASE ~UNCHANGED <<dock, shown>>
    <2>1. UNCHANGED <<saved, restoring, shown, kind, call>>
      BY DEF Ended, Copied, NotCopied, Finish, page, calls
    <2>2. PICK j \in {CardOf(c), c.bind} : SetCard(c.mount, j, x)
      BY <1>2, <2>1 DEF Ended, Copied, NotCopied, dock
    <2>3. shown /\ j # None /\ card[j] # NoCard /\ card' = [card EXCEPT ![j] = x]
      BY <1>2, <2>1, <2>2 DEF SetCard, Live, dock
    <2>4. j = c.result /\ j \in Jobs /\ call[j] = "landed"
      BY <2>2, <2>3, CopyTyped DEF CardOf, CopiesOwn
    <2>5. kind[j] # None /\ (restoring # None => restoring[j] = NoCard)
      BY <2>3, <2>4 DEF CardsOK, CardsClicked, RestoredLater
    <2>6. x.status = "done" /\ x.shows = j
      BY <2>4 DEF Done
    <2> HIDE DEF x
    <2> QED
      BY <2>1, <2>3, <2>4, <2>5, <2>6, CardTurns DEF CardsStay
  <1> QED
    BY <1>1, <1>2

\* The rest of the page.
LEMMA PageCards ==
    ASSUME TypeOK, CardsOK, [Next]_vars
    PROVE  /\ Watchdog \/ Effects \/ Dismiss \/ UNCHANGED vars => CardsOK' /\ CardsStay
           /\ (\E j \in Jobs : GiveUpCard(j)) \/ Tabs => CardsOK' /\ CardsStay
  <1>1. CASE Watchdog \/ Effects \/ Dismiss \/ UNCHANGED vars
    <2>1. UNCHANGED <<dock, shown>>
      BY <1>1 DEF Watchdog, Effects, ImportVideo, ImportImages, ImportSubmission, Dismiss, vars,
                  page
    <2> QED
      BY <2>1, DockStays
  <1>2. ASSUME NEW j \in Jobs, GiveUpCard(j) PROVE CardsOK' /\ CardsStay
    <2> DEFINE x == [card[j] EXCEPT !.status = "error"]
    <2>1. /\ shown /\ card[j].status = "running" /\ card' = [card EXCEPT ![j] = x]
          /\ UNCHANGED <<saved, restoring, shown, kind>>
      BY <1>2 DEF GiveUpCard, Runs, page, calls
    <2>2. card[j] # NoCard /\ x.status = "error"
      BY <2>1 DEF NoCard, TypeOK, Cards
    <2>3. kind[j] # None /\ (restoring # None => restoring[j] = NoCard)
      BY <2>2 DEF CardsOK, CardsClicked, RestoredLater, Docks
    <2> HIDE DEF x
    <2> QED
      BY <2>1, <2>2, <2>3, CardTurns DEF CardsStay
  <1>3. CASE Unmount
    <2>1. card' = [j \in Jobs |-> NoCard] /\ restoring' = None /\ saved' = saved
      BY <1>3 DEF Unmount
    <2>2. CardsOwn' /\ CardsClicked'
      BY <2>1, DocksMove DEF Docks
    <2>3. RestoredLater' /\ CardsStay
      BY <2>1 DEF RestoredLater, CardsStay, NoCard
    <2> QED
      BY <2>2, <2>3 DEF CardsOK
  <1>4. CASE Mount
    <2>1. ~shown /\ restoring' = saved /\ UNCHANGED <<card, saved>>
      BY <1>4 DEF Mount
    <2>2. CardsOwn' /\ CardsClicked'
      BY <2>1, DocksMove DEF Docks
    <2>3. RestoredLater' /\ CardsStay
      BY <2>1, <1>4 DEF Mount, CardsOK, RestoredLater, CardsStay
    <2> QED
      BY <2>2, <2>3 DEF CardsOK
  <1>5. CASE Restore
    <2>1. /\ restoring # None /\ restoring' = None /\ card' \in {card, restoring}
          /\ saved' = saved /\ shown
      BY <1>5 DEF Restore
    <2>2. CardsOwn' /\ CardsClicked'
      BY <2>1, DocksMove DEF Docks
    <2>3. CardsStay
      BY <2>1 DEF CardsOK, RestoredLater, CardsStay, NoCard
    <2>4. RestoredLater'
      BY <2>1, <1>5 DEF Restore, RestoredLater, page
    <2> QED
      BY <2>2, <2>3, <2>4 DEF CardsOK
  <1>6. CASE Save
    <2>1. saved' = card /\ UNCHANGED <<card, restoring, shown>>
      BY <1>6 DEF Save, page
    <2>2. CardsOwn' /\ CardsClicked'
      BY <2>1, DocksMove DEF Docks
    <2>3. RestoredLater' /\ CardsStay
      BY <2>1 DEF CardsOK, RestoredLater, CardsStay
    <2> QED
      BY <2>2, <2>3 DEF CardsOK
  <1> QED
    BY <1>1, <1>2, <1>3, <1>4, <1>5, <1>6 DEF Tabs

-----------------------------------------------------------------------------
(* Hooks *)

\* A hook keeps the result it holds or drops it.
Drops == \A h \in Hooks :
    \/ hook'[h].result = None
    \/ hook'[h].result = hook[h].result /\ hook'[h].bind = hook[h].bind

LEMMA HookDrops ==
    ASSUME TypeOK, NEW m, NEW h \in Hooks, NEW state, SetHook(m, h, state),
           state.result = None \/ (state.result = hook[h].result /\ state.bind = hook[h].bind)
    PROVE  Drops
  BY DEF SetHook, Drops, TypeOK

\* The steps that leave the results to the effects, but for a job that lands.
LEMMA WhoDrops ==
    ASSUME TypeOK, CardsClicked, [Next]_vars
    PROVE  Drops \/ \E j \in Jobs : Land(j)
  <1>1. \A k \in AllKinds : HookOf(k) \in Hooks
    BY HookStates
  <1>2. session.kinds \subseteq AllKinds /\ "image" \in AllKinds
    BY SessionsAssumption DEF TypeOK, AllKinds
  <1>3. UNCHANGED hook => Drops
    BY DEF Drops
  <1>4. ASSUME NEW j \in Jobs, NEW k \in AllKinds, Start(j, k) PROVE Drops
    <2>1. CASE k = "panel"
      BY <1>3, <1>4, <2>1 DEF Start
    <2>2. CASE k # "panel"
      <3>1. PICK b : SetHook(mount, HookOf(k), [bind |-> b, busy |-> TRUE, result |-> None])
        BY <1>4, <2>2 DEF Start
      <3> DEFINE x == [bind |-> b, busy |-> TRUE, result |-> None]
      <3>2. x.result = None /\ SetHook(mount, HookOf(k), x)
        BY <3>1
      <3> HIDE DEF x
      <3> QED
        BY <3>2, <1>1, HookDrops
    <2> QED
      BY <2>1, <2>2
  <1>5. Click \/ (\E j \in Jobs : FallThrough(j)) => Drops
    BY <1>2, <1>3, <1>4 DEF Click, Submit, Refuse, FallThrough
  <1>6. ASSUME NEW j \in Jobs, Fail(j) PROVE Drops
    <2>1. SetHook(born[j], HookOf(kind[j]), FailedHook(HookOf(kind[j])))
      BY <1>6 DEF Fail
    <2>2. HookOf(kind[j]) \in Hooks
      <3>1. kind[j] # None
        BY <1>6 DEF Fail, End, CardsClicked
      <3> QED
        BY <1>1, <3>1 DEF TypeOK
    <2>3. PICK h \in Hooks : h = HookOf(kind[j])
      BY <2>2
    <2>4. \/ FailedHook(h).result = None
          \/ FailedHook(h).result = hook[h].result /\ FailedHook(h).bind = hook[h].bind
      BY DEF FailedHook, Idle, TypeOK, HookState
    <2> QED
      BY <2>1, <2>3, <2>4, HookDrops
  <1>7. Watchdog => Drops
    BY DEF Watchdog, WatchdogClears, Drops, TypeOK, HookState
  <1>8. ASSUME NEW i \in DOMAIN imports, Ended(i) PROVE Drops
    <2>1. \/ SetHook(imports[i].mount, HookOf(imports[i].by), Idle)
          \/ UNCHANGED hook
      BY <1>8 DEF Ended, Copied, NotCopied, AfterCopy
    <2>2. HookOf(imports[i].by) \in Hooks /\ Idle.result = None
      BY CopyTyped DEF Idle
    <2> QED
      BY <2>1, <2>2, <1>3, HookDrops
  <1>9. Dismiss \/ Unmount => Drops
    BY DEF Dismiss, Unmount, Drops, Idle
  <1>10. \/ (\E j \in Jobs : Vanish(j) \/ GiveUpCard(j)) \/ Effects \/ Mount \/ Restore \/ Save
         \/ UNCHANGED vars
         => UNCHANGED hook
    BY DEF Vanish, GiveUpCard, Effects, ImportVideo, ImportImages, ImportSubmission, Mount,
           Restore, Save, vars
  <1> QED
    BY <1>3, <1>5, <1>6, <1>7, <1>8, <1>9, <1>10 DEF Next, Ends, Tabs

\* What a job that lands leaves in its hook.
LEMMA LandsInHook ==
    ASSUME TypeOK, CardsClicked, HooksOwn, NEW j \in Jobs, Land(j)
    PROVE  /\ call[j] = "running" /\ call' = [call EXCEPT ![j] = "landed"]
           /\ UNCHANGED <<kind, born, refs, library, page, count>>
           /\ \A h \in Hooks :
                \/ hook'[h].result = None
                \/ hook'[h].result = hook[h].result /\ hook'[h].bind = hook[h].bind
                \/ /\ hook'[h].result = j /\ Live(born[j]) /\ h = HookOf(kind[j])
                   /\ h = "generation" => hook'[h].bind = j
           /\ \/ imports' = imports
              \/ /\ imports' = Append(imports, Copying(j, born[j], j))
                 /\ \A h \in Hooks :
                      hook'[h].result # None => hook'[h].result = hook[h].result
  <1>1. /\ call[j] = "running" /\ call' = [call EXCEPT ![j] = "landed"]
        /\ UNCHANGED <<kind, born, refs, library, page, count>>
    BY DEF Land, End
  <1>2. \A h \in Hooks : hook[h].result # j
    BY <1>1, NoneAssumption DEF HooksOwn, AllKinds
  <1>3. PICK b, r \in {None, j} :
          /\ kind[j] # "panel" =>
               SetHook(born[j], HookOf(kind[j]), [bind |-> b, busy |-> FALSE, result |-> r])
          /\ HookOf(kind[j]) = "generation" => b = j
          /\ kind[j] \in {"edit", "restyle"} => r = None
    BY DEF Land
  <1>4. kind[j] = "panel" => UNCHANGED hook
    BY DEF Land
  <1>5. \/ imports' = imports
        \/ imports' = Append(imports, Copying(j, born[j], j)) /\ kind[j] \in {"edit", "restyle", "panel"}
    BY DEF Land
  <1>6. \A h \in Hooks :
          \/ hook'[h] = hook[h]
          \/ /\ Live(born[j]) /\ h = HookOf(kind[j]) /\ kind[j] # "panel"
             /\ hook'[h] = [bind |-> b, busy |-> FALSE, result |-> r]
    BY <1>3, <1>4 DEF SetHook, TypeOK
  <1>7. \A h \in Hooks :
          \/ hook'[h] = hook[h]
          \/ /\ Live(born[j]) /\ h = HookOf(kind[j]) /\ kind[j] # "panel"
             /\ hook'[h].bind = b /\ hook'[h].result = r
    BY <1>6
  <1> QED
    BY <1>1, <1>2, <1>3, <1>5, <1>7

LEMMA HooksStep ==
    ASSUME TypeOK, CardsClicked, HooksOwn, [Next]_vars
    PROVE  HooksOwn'
  <1>1. \A r \in Jobs : call[r] = "landed" => /\ call'[r] = "landed" /\ kind'[r] = kind[r]
                                              /\ born'[r] = born[r]
    BY CallsKept
  <1>2. \A h \in Hooks : hook[h].result \in MaybeJob
    BY HookStates
  <1>3. CASE \E j \in Jobs : Land(j)
    <2> PICK j \in Jobs : Land(j)
      BY <1>3
    <2>1. /\ UNCHANGED <<kind, born, shown, mount>> /\ call'[j] = "landed"
          /\ \A h \in Hooks :
                \/ hook'[h].result = None
                \/ hook'[h].result = hook[h].result /\ hook'[h].bind = hook[h].bind
                \/ /\ hook'[h].result = j /\ Live(born[j]) /\ h = HookOf(kind[j])
                   /\ h = "generation" => hook'[h].bind = j
      BY LandsInHook DEF page, TypeOK
    <2> QED
      BY <1>1, <1>2, <2>1 DEF HooksOwn, Live, MaybeJob
  <1>4. CASE Drops /\ UNCHANGED <<shown, mount>>
    BY <1>1, <1>2, <1>4 DEF HooksOwn, Drops, MaybeJob
  <1>5. CASE Drops /\ ~UNCHANGED <<shown, mount>>
    <2>1. Unmount \/ Mount
      BY <1>5 DEF Next, Click, Submit, Refuse, Ends, Land, Fail, Vanish, End, FallThrough,
                  GiveUpCard, Watchdog, Effects, ImportVideo, ImportImages, ImportSubmission,
                  Ended, Copied, NotCopied, Finish, Dismiss, Tabs, Restore, Save, vars, page
    <2>2. CASE Unmount
      BY <2>2 DEF Unmount, HooksOwn, Idle
    <2>3. CASE Mount
      BY <2>3 DEF Mount, HooksOwn
    <2> QED
      BY <2>1, <2>2, <2>3
  <1> QED
    BY <1>3, <1>4, <1>5, WhoDrops

-----------------------------------------------------------------------------
(* Copies *)

\* A copy that starts, with what its closure holds: its result has landed,
\* and was nowhere until now.
Starts(c) ==
    /\ c \in Copy /\ imports' = Append(imports, c) /\ UNCHANGED <<library, kind, born>>
    /\ call'[c.result] = "landed" /\ c.by = kind[c.result] /\ c.mount = born[c.result]
    /\ c.bind \in {None, c.result}
    /\ faults = 0 => ~IsCopied(c.result) /\ ~IsKept(c.result)

\* A copy that ends, and may add to the project what it copied.
EndsAt(i) ==
    /\ i \in DOMAIN imports /\ imports' = RemoveAt(imports, i)
    /\ \/ library' = library
       \/ \E e \in Item : e.result = imports[i].result /\ library' = Append(library, e)

LEMMA EffectStarts ==
    ASSUME IInv, Effects
    PROVE  \E c \in Copy : Starts(c) /\ \E h \in Hooks : c.result = hook[h].result
  <1> USE DEF IInv
  <1>1. /\ \A h \in Hooks : hook[h].bind \in MaybeJob /\ hook[h].result \in MaybeJob
        /\ "generation" \in Hooks /\ Submitting \subseteq Hooks
    BY HookStates DEF Hooks
  <1>2. ASSUME NEW h \in Hooks, NEW bind \in {None, hook[h].result}, NEW said \in MaybeJob, shown,
               hook[h].result # None, Import(hook[h].result, bind, said), UNCHANGED <<kind, call, born, library>>,
               faults = 0 => ~IsCopied(hook[h].result) /\ ~IsKept(hook[h].result)
        PROVE  \E c \in Copy : Starts(c) /\ \E g \in Hooks : c.result = hook[g].result
    <2> PICK r \in Jobs : r = hook[h].result
      BY <1>1, <1>2 DEF MaybeJob
    <2>1. call[r] = "landed" /\ born[r] = mount /\ kind[r] # None
      BY <1>2 DEF HooksOwn, CardsClicked
    <2> DEFINE c == [by |-> kind[r], result |-> r, bind |-> bind, said |-> said, mount |-> mount]
    <2>2. c \in Copy
      BY <2>1, <1>2 DEF Copy, TypeOK, MaybeJob
    <2>3. /\ imports' = Append(imports, c) /\ c.result = r /\ c.by = kind[r] /\ c.mount = mount
          /\ c.bind = bind
      BY <1>2 DEF Import
    <2> HIDE DEF c
    <2>4. Starts(c)
      BY <1>2, <2>1, <2>2, <2>3 DEF Starts
    <2> QED
      BY <1>2, <2>2, <2>3, <2>4
  <1>3. CASE ImportVideo
    <2> DEFINE r == hook["generation"].result
    <2>1. /\ shown /\ r # None /\ kind[r] = "video" /\ persisted # r
          /\ Import(r, hook["generation"].bind, lastPrompt) /\ UNCHANGED <<kind, call, born, library>>
      BY <1>3 DEF ImportVideo, Effect, NotPersisted, calls
    <2>2. faults = 0 => ~IsCopied(r) /\ ~IsKept(r)
      BY <1>1, <2>1 DEF Once, Remembered
    <2>3. hook["generation"].bind = r /\ lastPrompt \in MaybeJob
      BY <1>1, <2>1 DEF HooksOwn, TypeOK
    <2> QED
      BY <1>1, <1>2, <2>1, <2>2, <2>3
  <1>4. CASE ImportImages
    <2> DEFINE r == hook["generation"].result
    <2>1. /\ shown /\ r # None /\ kind[r] = "image" /\ ~adding
          /\ Import(r, hook["generation"].bind, lastPrompt) /\ UNCHANGED <<kind, call, born, library>>
      BY <1>4 DEF ImportImages, Effect, calls
    <2>2. faults = 0 => ~IsCopied(r) /\ ~IsKept(r)
      BY <1>1, <2>1 DEF Once, Remembered
    <2>3. hook["generation"].bind = r /\ lastPrompt \in MaybeJob
      BY <1>1, <2>1 DEF HooksOwn, TypeOK
    <2> QED
      BY <1>1, <1>2, <2>1, <2>2, <2>3
  <1>5. ASSUME NEW h \in Submitting, ImportSubmission(h)
        PROVE  \E c \in Copy : Starts(c) /\ \E g \in Hooks : c.result = hook[g].result
    <2>1. /\ shown /\ hook[h].result # None /\ submission[h] # None /\ submission[h] \in MaybeJob
          /\ Import(hook[h].result, None, submission[h]) /\ UNCHANGED <<kind, call, born, library>>
      BY <1>5 DEF ImportSubmission, Effect, calls, TypeOK
    <2>2. faults = 0 => ~IsCopied(hook[h].result) /\ ~IsKept(hook[h].result)
      BY <1>1, <2>1 DEF Once, Remembered
    <2> QED
      BY <1>1, <1>2, <2>1, <2>2
  <1> QED
    BY <1>3, <1>4, <1>5 DEF Effects

LEMMA LandStarts ==
    ASSUME IInv, NEW j \in Jobs, Land(j)
    PROVE  /\ ~IsCopied(j) /\ ~IsKept(j) /\ library' = library
           /\ imports' = imports \/ \E c \in Copy : Starts(c) /\ c.result = j
  <1> USE DEF IInv
  <1>1. ~IsCopied(j) /\ ~IsKept(j) /\ kind[j] # None
    BY DEF Land, End, IsCopied, IsKept, CopiesOwn, LibraryOwn, CardsClicked
  <1>2. UNCHANGED <<library, kind, born>> /\ call'[j] = "landed"
    BY DEF Land, End, TypeOK
  <1> DEFINE c == Copying(j, born[j], j)
  <1>3. imports' = imports \/ imports' = Append(imports, c)
    BY DEF Land
  <1>4. /\ c \in Copy /\ c.result = j /\ c.by = kind[j] /\ c.mount = born[j] /\ c.bind = j
    BY <1>1 DEF Copying, Copy, TypeOK, MaybeJob
  <1> HIDE DEF c
  <1> QED
    BY <1>1, <1>2, <1>3, <1>4 DEF Starts

\* The steps that neither start nor end a copy.
LEMMA Quiet ==
    ASSUME [Next]_vars, ~Effects, \A i \in DOMAIN imports : ~Ended(i),
           \A j \in Jobs : ~Land(j)
    PROVE  imports' = imports /\ library' = library
  BY DEF Next, Click, Submit, Refuse, Ends, Fail, Vanish, End, FallThrough, GiveUpCard, Watchdog,
         Dismiss, Tabs, Unmount, Mount, Restore, Save, vars

\* The steps that touch the copies or the project.
LEMMA Places ==
    ASSUME IInv, [Next]_vars
    PROVE  \/ imports' = imports /\ library' = library
           \/ \E c \in Copy : Starts(c)
           \/ \E i \in DOMAIN imports : EndsAt(i)
  <1>1. ASSUME NEW i \in DOMAIN imports, Ended(i) PROVE EndsAt(i)
    <2>1. [result |-> imports[i].result, said |-> imports[i].said] \in Item
      BY CopyTyped DEF IInv
    <2> QED
      BY <1>1, <2>1 DEF Ended, Copied, NotCopied, Finish, EndsAt
  <1> QED
    BY <1>1, Quiet, EffectStarts, LandStarts

\* Where the results are after a step, seen from where they were.
LEMMA WhereFrom ==
    ASSUME IInv, [Next]_vars
    PROVE  /\ \A k \in DOMAIN imports' :
                \/ \E l \in DOMAIN imports : imports'[k] = imports[l]
                \/ Starts(imports'[k])
           /\ \A k \in DOMAIN library' :
                \/ \E l \in DOMAIN library : library'[k].result = library[l].result
                \/ \E i \in DOMAIN imports : EndsAt(i) /\ library'[k].result = imports[i].result
  <1>1. imports \in Seq(Copy) /\ library \in Seq(Item)
    BY DEF IInv, TypeOK
  <1>2. ASSUME NEW c \in Copy, Starts(c)
        PROVE  /\ library' = library
               /\ \A k \in DOMAIN imports' :
                    (\E l \in DOMAIN imports : imports'[k] = imports[l]) \/ Starts(imports'[k])
    BY <1>1, <1>2, OneMore DEF Starts
  <1>3. ASSUME NEW i \in DOMAIN imports, EndsAt(i)
        PROVE  /\ \A k \in DOMAIN imports' : \E l \in DOMAIN imports : imports'[k] = imports[l]
               /\ \A k \in DOMAIN library' :
                    \/ \E l \in DOMAIN library : library'[k].result = library[l].result
                    \/ library'[k].result = imports[i].result
    <2>1. \A k \in DOMAIN imports' : \E l \in DOMAIN imports : imports'[k] = imports[l]
      BY <1>1, <1>3, OneLess DEF EndsAt
    <2>2. CASE library' = library
      BY <2>1, <2>2
    <2>3. CASE \E e \in Item : e.result = imports[i].result /\ library' = Append(library, e)
      BY <1>1, <2>1, <2>3, OneMore
    <2> QED
      BY <1>3, <2>2, <2>3 DEF EndsAt
  <1> QED
    BY <1>2, <1>3, Places

LEMMA CopiesStep ==
    ASSUME IInv, [Next]_vars
    PROVE  CopiesOwn' /\ LibraryOwn'
  <1> USE DEF IInv
  <1>1. \A r \in Jobs : call[r] = "landed" => /\ call'[r] = "landed" /\ kind'[r] = kind[r]
                                              /\ born'[r] = born[r]
    BY CallsKept
  <1>2. \A i \in DOMAIN imports : imports[i].result \in Jobs
    BY CopyTyped
  <1>3. \A i \in DOMAIN library : library[i].result \in Jobs
    <2>1. \A i \in DOMAIN library : library[i] \in Item
      BY ElementOfSeq, LenProperties DEF TypeOK
    <2> QED
      BY <2>1 DEF Item
  <1>4. CopiesOwn'
    <2> SUFFICES ASSUME NEW k \in DOMAIN imports'
                 PROVE  LET c == imports'[k] IN
                        /\ call'[c.result] = "landed" /\ c.by = kind'[c.result]
                        /\ c.mount = born'[c.result] /\ c.bind \in {None, c.result}
      BY DEF CopiesOwn
    <2>1. CASE \E l \in DOMAIN imports : imports'[k] = imports[l]
      BY <1>1, <1>2, <2>1 DEF CopiesOwn
    <2>2. CASE Starts(imports'[k])
      BY <2>2 DEF Starts
    <2> QED
      BY <2>1, <2>2, WhereFrom
  <1>5. LibraryOwn'
    <2> SUFFICES ASSUME NEW k \in DOMAIN library'
                 PROVE  call'[library'[k].result] = "landed"
      BY DEF LibraryOwn
    <2>1. CASE \E l \in DOMAIN library : library'[k].result = library[l].result
      BY <1>1, <1>3, <2>1 DEF LibraryOwn
    <2>2. CASE \E i \in DOMAIN imports : library'[k].result = imports[i].result
      BY <1>1, <1>2, <2>2 DEF CopiesOwn
    <2> QED
      BY <2>1, <2>2, WhereFrom
  <1> QED
    BY <1>4, <1>5

\* Results stay at one place, while they move from the copies to the project.
LEMMA OnePlace ==
    ASSUME IInv, [Next]_vars, faults = 0
    PROVE  CopiedOnce' /\ KeptOnce' /\ \A r \in Jobs : ~(IsCopied(r) /\ IsKept(r))'
  <1>1. /\ imports \in Seq(Copy) /\ library \in Seq(Item)
        /\ CopiedOnce /\ KeptOnce /\ \A r \in Jobs : ~(IsCopied(r) /\ IsKept(r))
    BY DEF IInv, TypeOK, Once
  <1>2. CASE imports' = imports /\ library' = library
    BY <1>1, <1>2 DEF CopiedOnce, KeptOnce, IsCopied, IsKept
  <1>3. ASSUME NEW c \in Copy, Starts(c)
        PROVE  CopiedOnce' /\ KeptOnce' /\ \A r \in Jobs : ~(IsCopied(r) /\ IsKept(r))'
    <2>1. /\ library' = library /\ ~IsCopied(c.result) /\ ~IsKept(c.result)
          /\ \A k \in DOMAIN imports' :
               \/ k \in DOMAIN imports /\ imports'[k] = imports[k]
               \/ k = Len(imports) + 1 /\ imports'[k] = c
      BY <1>1, <1>3, OneMore DEF Starts
    <2> QED
      BY <1>1, <2>1 DEF CopiedOnce, KeptOnce, IsCopied, IsKept
  <1>4. ASSUME NEW i \in DOMAIN imports, EndsAt(i)
        PROVE  CopiedOnce' /\ KeptOnce' /\ \A r \in Jobs : ~(IsCopied(r) /\ IsKept(r))'
    <2> DEFINE r == imports[i].result
    <2>1. /\ \A k \in DOMAIN imports' :
               Was(i, k) \in DOMAIN imports \ {i} /\ imports'[k] = imports[Was(i, k)]
          /\ \A k, l \in DOMAIN imports' : Was(i, k) = Was(i, l) => k = l
      BY <1>1, <1>4, OneLess DEF EndsAt
    <2>2. \A k \in DOMAIN library' :
            \/ k \in DOMAIN library /\ library'[k] = library[k]
            \/ k = Len(library) + 1 /\ library'[k].result = r
      <3>1. CASE library' = library
        BY <3>1
      <3>2. CASE library' # library
        <4>1. PICK e \in Item : e.result = r /\ library' = Append(library, e)
          BY <1>4, <3>2 DEF EndsAt
        <4> QED
          BY <1>1, <4>1, OneMore
      <3> QED
        BY <3>1, <3>2
    <2>3. r \in Jobs /\ IsCopied(r)
      BY <1>4, CopyTyped DEF IInv, IsCopied
    <2>4. CopiedOnce'
      BY <1>1, <2>1 DEF CopiedOnce
    <2>5. KeptOnce'
      BY <1>1, <2>2, <2>3 DEF KeptOnce, IsKept
    <2>6. \A k \in DOMAIN imports' : imports'[k].result # r
      BY <1>1, <2>1 DEF CopiedOnce
    <2>7. \A j \in Jobs : IsCopied(j)' => IsCopied(j) /\ j # r
      BY <2>1, <2>6 DEF IsCopied
    <2>8. \A j \in Jobs : IsKept(j)' => IsKept(j) \/ j = r
      BY <2>2 DEF IsKept
    <2> QED
      BY <1>1, <2>4, <2>5, <2>7, <2>8
  <1> QED
    BY <1>2, <1>3, <1>4, Places

\* The refs of a hook that holds its result are left alone by all but copies.
LEMMA RefsStay ==
    ASSUME IInv, [Next]_vars, ~Effects, \A i \in DOMAIN imports : ~Ended(i),
           NEW h \in Hooks, hook'[h].result # None
    PROVE  /\ persisted' = persisted /\ adding' = adding
           /\ h \in Submitting => submission'[h] = submission[h]
  <1>1. ASSUME NEW j \in Jobs, NEW k \in AllKinds, Submit(j, k)
        PROVE  /\ UNCHANGED <<persisted, adding>>
               /\ h \in Submitting => submission'[h] = submission[h]
    <2>1. Start(j, k) /\ shown /\ UNCHANGED <<persisted, adding>>
      BY <1>1 DEF Submit
    <2>2. CASE k = h /\ h \in Submitting
      <3>1. PICK b : SetHook(mount, h, [bind |-> b, busy |-> TRUE, result |-> None])
        BY <2>1, <2>2 DEF Start, HookOf, Submitting
      <3>2. hook' = [hook EXCEPT ![h] = [bind |-> b, busy |-> TRUE, result |-> None]]
        BY <2>1, <3>1 DEF SetHook, Live
      <3>3. hook'[h] = [bind |-> b, busy |-> TRUE, result |-> None]
        BY <3>2 DEF IInv, TypeOK
      <3>4. hook'[h].result = None
        BY <3>3
      <3> QED
        BY <3>4
    <2>3. CASE ~(k = h /\ h \in Submitting)
      BY <2>1, <2>3 DEF Start, IInv, TypeOK
    <2> QED
      BY <2>2, <2>3
  <1>2. session.kinds \subseteq AllKinds
    BY SessionsAssumption DEF IInv, TypeOK
  <1>3. ASSUME NEW j \in Jobs, FallThrough(j) PROVE UNCHANGED <<persisted, adding, submission>>
    BY <1>3 DEF FallThrough, Start, Submitting
  <1>4. ~Unmount
    BY DEF Unmount, Idle
  <1>5. \/ (\E j \in Jobs, k \in session.kinds : Refuse(j, k))
        \/ (\E j \in Jobs : Land(j) \/ Fail(j) \/ Vanish(j) \/ GiveUpCard(j))
        \/ Watchdog \/ Dismiss \/ Mount \/ Restore \/ Save \/ UNCHANGED vars
        => UNCHANGED <<persisted, adding, submission>>
    BY DEF Refuse, Land, Fail, Vanish, End, GiveUpCard, Watchdog, Dismiss, Mount, Restore, Save,
           vars, refs
  <1> QED
    BY <1>1, <1>2, <1>3, <1>4, <1>5 DEF Next, Click, Ends, Tabs

\* What the refs say of the result a hook holds.
Knows(h, r) ==
    /\ kind[r] = "video" /\ (IsCopied(r) \/ IsKept(r)) => persisted = r
    /\ kind[r] = "image" => ~IsKept(r) /\ (IsCopied(r) => adding)
    /\ h \in Submitting /\ (IsCopied(r) \/ IsKept(r)) => submission[h] = None

LEMMA EffectKnows ==
    ASSUME IInv, [Next]_vars, Effects, faults = 0, NEW h \in Hooks, NEW r \in Jobs,
           hook[h].result = r
    PROVE  Knows(h, r)'
  <1> USE DEF IInv
  <1>1. Knows(h, r) /\ HookOf(kind[r]) = h /\ call[r] = "landed" /\ kind[r] # None
    BY NoneAssumption DEF Once, Remembered, Knows, HooksOwn, CardsClicked
  <1>2. UNCHANGED <<kind, hook, library>>
    BY DEF Effects, ImportVideo, ImportImages, ImportSubmission, calls
  <1>3. imports \in Seq(Copy)
    BY DEF TypeOK
  <1>4. IsKept(r)' <=> IsKept(r)
    BY <1>2 DEF IsKept
  <1>5. ASSUME NEW q \in Jobs, NEW bind \in MaybeJob, NEW said \in MaybeJob, kind[q] # None,
               Import(q, bind, said)
        PROVE  IsCopied(r)' => IsCopied(r) \/ r = q
    <2> DEFINE c == [by |-> kind[q], result |-> q, bind |-> bind, said |-> said, mount |-> mount]
    <2>1. c \in Copy /\ c.result = q /\ imports' = Append(imports, c)
      BY <1>5 DEF Import, Copy, TypeOK
    <2> HIDE DEF c
    <2> QED
      BY <1>3, <2>1, OneMore DEF IsCopied
  <1>6. /\ \A g \in Hooks : hook[g].bind \in MaybeJob /\ hook[g].result \in MaybeJob
        /\ "generation" \in Hooks /\ Submitting \subseteq Hooks
        /\ "generation" \notin Submitting
    BY HookStates DEF Hooks, Submitting
  <1>7. \A g \in Hooks : hook[g].result # None =>
          hook[g].result \in Jobs /\ HookOf(kind[hook[g].result]) = g /\ kind[hook[g].result] # None
    BY <1>6 DEF HooksOwn, MaybeJob, CardsClicked
  <1>8. CASE ImportVideo
    <2> PICK q \in Jobs : q = hook["generation"].result
      BY <1>6, <1>8 DEF ImportVideo, Effect, MaybeJob
    <2>1. /\ kind[q] = "video" /\ persisted' = q /\ UNCHANGED <<adding, submission>>
          /\ Import(q, hook["generation"].bind, lastPrompt) /\ kind[q] # None
      BY <1>6, <1>7, <1>8, NoneAssumption DEF ImportVideo
    <2>2. IsCopied(r)' => IsCopied(r) \/ r = q
      BY <1>5, <1>6, <2>1 DEF TypeOK
    <2>3. kind[r] \in {"video", "image"} => r = q
      BY <1>1 DEF HookOf
    <2>4. r = q => h \notin Submitting /\ kind[r] # "image"
      BY <1>1, <1>6, <2>1 DEF HookOf
    <2> QED
      BY <1>1, <1>2, <1>4, <2>1, <2>2, <2>3, <2>4 DEF Knows
  <1>9. CASE ImportImages
    <2> PICK q \in Jobs : q = hook["generation"].result
      BY <1>6, <1>9 DEF ImportImages, Effect, MaybeJob
    <2>1. /\ kind[q] = "image" /\ adding' = TRUE /\ UNCHANGED <<persisted, submission>>
          /\ Import(q, hook["generation"].bind, lastPrompt) /\ kind[q] # None
      BY <1>6, <1>7, <1>9, NoneAssumption DEF ImportImages
    <2>2. IsCopied(r)' => IsCopied(r) \/ r = q
      BY <1>5, <1>6, <2>1 DEF TypeOK
    <2>3. r = q => h \notin Submitting /\ kind[r] # "video"
      BY <1>1, <1>6, <2>1 DEF HookOf
    <2> QED
      BY <1>1, <1>2, <1>4, <2>1, <2>2, <2>3 DEF Knows
  <1>10. ASSUME NEW g \in Submitting, ImportSubmission(g) PROVE Knows(h, r)'
    <2> PICK q \in Jobs : q = hook[g].result
      BY <1>6, <1>10 DEF ImportSubmission, Effect, MaybeJob
    <2>1. /\ submission' = [submission EXCEPT ![g] = None] /\ UNCHANGED <<persisted, adding>>
          /\ Import(q, None, submission[g]) /\ kind[q] # None /\ HookOf(kind[q]) = g
          /\ submission[g] \in MaybeJob /\ None \in MaybeJob
      BY <1>6, <1>7, <1>10, NoneAssumption DEF ImportSubmission, TypeOK, MaybeJob
    <2>2. IsCopied(r)' => IsCopied(r) \/ r = q
      BY <1>5, <2>1
    <2>3. r = q => h = g /\ kind[r] \notin {"video", "image"}
      BY <1>1, <1>6, <2>1 DEF HookOf
    <2>4. \A s \in Submitting : submission'[s] = IF s = g THEN None ELSE submission[s]
      BY <2>1 DEF TypeOK
    <2> QED
      BY <1>1, <1>2, <1>4, <2>1, <2>2, <2>3, <2>4 DEF Knows
  <1> QED
    BY <1>8, <1>9, <1>10 DEF Effects

LEMMA CopiedKnows ==
    ASSUME IInv, [Next]_vars, NEW i \in DOMAIN imports, Copied(i), faults = 0, NEW h \in Hooks,
           NEW r \in Jobs, hook[h].result = r, hook'[h].result = r
    PROVE  Knows(h, r)'
  <1> USE DEF IInv
  <1> DEFINE c == imports[i]
  <1>1. /\ Knows(h, r) /\ HookOf(kind[r]) = h /\ born[r] = mount /\ shown /\ r # None
    BY NoneAssumption DEF Once, Remembered, Knows, HooksOwn
  <1>2. /\ UNCHANGED <<kind, persisted, submission>> /\ adding' = StillAdding(c)
        /\ imports' = RemoveAt(imports, i)
        /\ library' = library \/ library' = Append(library, [result |-> c.result, said |-> c.said])
    BY DEF Copied, Finish, calls
  <1>3. c.by = kind[c.result] /\ c.mount = born[c.result] /\ c.result \in Jobs
    BY CopyTyped DEF CopiesOwn
  <1>4. IsCopied(r)' => IsCopied(r)
    <2>1. \A k \in DOMAIN imports' : \E l \in DOMAIN imports : imports'[k] = imports[l]
      BY <1>2, OneLess DEF TypeOK
    <2> QED
      BY <2>1 DEF IsCopied
  <1>5. IsKept(r)' => IsKept(r) \/ (r = c.result /\ IsCopied(r))
    <2>1. \/ library' = library
          \/ \E e \in Item : e.result = c.result /\ library' = Append(library, e)
      <3>1. [result |-> c.result, said |-> c.said] \in Item
        BY CopyTyped
      <3> QED
        BY <1>2, <3>1
    <2>2. \A k \in DOMAIN library' :
            (k \in DOMAIN library /\ library'[k] = library[k]) \/ library'[k].result = c.result
      <3>1. CASE library' = library
        BY <3>1
      <3>2. ASSUME NEW e \in Item, e.result = c.result, library' = Append(library, e),
                   NEW k \in DOMAIN library'
            PROVE  (k \in DOMAIN library /\ library'[k] = library[k]) \/ library'[k].result = c.result
        <4>1. library \in Seq(Item)
          BY DEF TypeOK
        <4>2. (k \in DOMAIN library /\ Append(library, e)[k] = library[k]) \/ Append(library, e)[k] = e
          BY <3>2, <4>1, OneMore
        <4> QED
          BY <3>2, <4>2
      <3> QED
        BY <2>1, <3>1, <3>2
    <2> QED
      BY <2>2 DEF IsKept, IsCopied
  <1>6. ~(c.by = "image" /\ Live(c.mount) /\ kind[r] = "image")
    <2> SUFFICES ASSUME c.by = "image", Live(c.mount), kind[r] = "image" PROVE FALSE
      OBVIOUS
    <2>1. h = "generation" /\ hook' = [hook EXCEPT !["generation"] = Idle]
      BY <1>1 DEF Copied, AfterCopy, SetHook, HookOf
    <2>2. hook'[h] = Idle
      BY <2>1 DEF TypeOK
    <2> QED
      BY <1>1, <2>2 DEF Idle
  <1>7. kind[r] = "image" => ~IsKept(r)' /\ (IsCopied(r)' => adding')
    <2> SUFFICES ASSUME kind[r] = "image" PROVE ~IsKept(r)' /\ (IsCopied(r)' => adding')
      OBVIOUS
    <2>1. r # c.result
      BY <1>1, <1>3, <1>6 DEF Live
    <2>2. StillAdding(c) = adding
      BY <1>6 DEF StillAdding, TypeOK
    <2> QED
      BY <1>1, <1>2, <1>4, <1>5, <2>1, <2>2 DEF Knows
  <1> QED
    BY <1>1, <1>2, <1>4, <1>5, <1>7 DEF Knows

LEMMA OnceStep ==
    ASSUME IInv, TypeOK', [Next]_vars
    PROVE  Once'
  <1> SUFFICES ASSUME faults' = 0
               PROVE  /\ CopiedOnce' /\ KeptOnce' /\ Remembered'
                      /\ \A r \in Jobs : ~(IsCopied(r) /\ IsKept(r))'
    BY DEF Once
  <1>1. faults \in Nat /\ \A i \in DOMAIN imports : ~NotCopied(i)
    BY DEF NotCopied, IInv, TypeOK
  <1>2. faults = 0
    <2>1. UNCHANGED faults
      BY <1>1 DEF Next, Click, Submit, Refuse, Ends, Land, Fail, Vanish, End, FallThrough,
                  GiveUpCard, Watchdog, Effects, ImportVideo, ImportImages, ImportSubmission,
                  Ended, Copied, Dismiss, Tabs, Unmount, Mount, Restore, Save, vars, count
    <2> QED
      BY <2>1
  <1>3. \A h \in Hooks : hook[h].result \in MaybeJob
    BY HookStates DEF IInv
  <1>4. ASSUME NEW h \in Hooks, NEW r \in Jobs, hook'[h].result = r
        PROVE  Knows(h, r)'
    <2>1. r # None
      BY NoneAssumption
    <2>2. ASSUME NEW j \in Jobs, Land(j), r = j, r # hook[h].result PROVE Knows(h, r)'
      <3>1. imports' = imports /\ library' = library /\ ~IsCopied(r) /\ ~IsKept(r)
        BY <1>4, <2>1, <2>2, LandStarts, LandsInHook DEF IInv
      <3> QED
        BY <3>1 DEF Knows, IsCopied, IsKept
    <2>3. CASE r = hook[h].result
      <3>1. Knows(h, r) /\ call[r] = "landed"
        BY <1>2, <2>1, <2>3 DEF IInv, Once, Remembered, Knows, HooksOwn
      <3>2. kind'[r] = kind[r]
        BY <3>1, CallsKept DEF IInv
      <3>3. CASE Effects
        BY <1>2, <2>3, <3>3, EffectKnows
      <3>4. CASE \E i \in DOMAIN imports : Ended(i)
        BY <1>1, <1>2, <1>4, <2>3, <3>4, CopiedKnows DEF Ended
      <3>5. CASE ~Effects /\ \A i \in DOMAIN imports : ~Ended(i)
        <4>1. /\ persisted' = persisted /\ adding' = adding
              /\ h \in Submitting => submission'[h] = submission[h]
          BY <1>4, <2>1, <3>5, RefsStay
        <4>2. (IsCopied(r)' => IsCopied(r)) /\ (IsKept(r)' => IsKept(r))
          <5>1. CASE imports' = imports /\ library' = library
            BY <5>1 DEF IsCopied, IsKept
          <5>2. ASSUME NEW j \in Jobs, NEW c \in Copy, Starts(c), c.result = j, Land(j)
                PROVE  (IsCopied(r)' => IsCopied(r)) /\ (IsKept(r)' => IsKept(r))
            <6>1. r # j /\ imports' = Append(imports, c) /\ library' = library
              BY <3>1, <5>2 DEF Land, End, Starts
            <6>2. \A k \in DOMAIN imports' :
                    (k \in DOMAIN imports /\ imports'[k] = imports[k]) \/ imports'[k] = c
              BY <6>1, OneMore DEF IInv, TypeOK
            <6> QED
              BY <5>2, <6>1, <6>2 DEF IsCopied, IsKept
          <5> QED
            BY <3>5, <5>1, <5>2, Quiet, LandStarts
        <4> QED
          BY <3>1, <3>2, <4>1, <4>2 DEF Knows
      <3> QED
        BY <3>3, <3>4, <3>5
    <2>4. r = hook[h].result \/ \E j \in Jobs : Land(j) /\ r = j /\ r # hook[h].result
      BY <1>4, <2>1, WhoDrops, LandsInHook DEF Drops, IInv
    <2> QED
      BY <2>2, <2>3, <2>4
  <1>5. Remembered'
    <2>1. \A h \in Hooks : hook'[h].result \in MaybeJob
      BY DEF TypeOK, HookState
    <2> QED
      BY <1>4, <2>1 DEF Remembered, Knows, MaybeJob
  <1> QED
    BY <1>2, <1>5, OnePlace

-----------------------------------------------------------------------------
(* The invariant *)

LEMMA CardsStep ==
    ASSUME IInv, [Next]_vars
    PROVE  CardsOK' /\ CardsStay
  <1>1. TypeOK /\ CardsOK /\ CopiesOwn
    BY DEF IInv, CardsOK
  <1> QED
    BY <1>1, RailsCards, EndedCards, PageCards DEF Next

LEMMA Step == IInv /\ [Next]_vars => IInv'
  <1> SUFFICES ASSUME IInv, [Next]_vars PROVE IInv'
    OBVIOUS
  <1>1. TypeOK'
    BY TypeStep DEF IInv
  <1>2. CardsOwn' /\ CardsClicked' /\ RestoredLater'
    BY CardsStep DEF CardsOK
  <1>3. HooksOwn'
    BY HooksStep DEF IInv
  <1>4. CopiesOwn' /\ LibraryOwn'
    BY CopiesStep
  <1>5. Once'
    BY <1>1, OnceStep
  <1> QED
    BY <1>1, <1>2, <1>3, <1>4, <1>5 DEF IInv

LEMMA AlwaysIInv == Spec => []IInv
  BY InitIInv, Step, PTL DEF Spec

(***************************************************************************)
(* The state of the rails keeps its types (the useState and useRef of      *)
(* GenSpace and of the hooks).                                             *)
(***************************************************************************)
THEOREM TypeCorrect == Spec => []TypeOK
  <1>1. IInv => TypeOK
    BY DEF IInv
  <1> QED
    BY <1>1, AlwaysIInv, PTL

(***************************************************************************)
(* A card that is done shows the result of its own job, however many rails *)
(* overlap, are reset, or come back with their tab (bindId,                *)
(* markGenerationDone).                                                    *)
(***************************************************************************)
THEOREM CardsAreOwn == Spec => []OwnCard
  <1>1. IInv => OwnCard
    BY DEF IInv, CardsOwn, Docks, OwnCard
  <1> QED
    BY <1>1, AlwaysIInv, PTL

(***************************************************************************)
(* While no copy fails, no result is in the project twice: the refs of the *)
(* effects see to it for every number of renders and of visits to the page *)
(* (persistedVideoKeyRef, addingImagesRef, the submission refs).           *)
(***************************************************************************)
THEOREM ResultsAreKeptOnce == Spec => []ImportedOnce
  <1>1. IInv => ImportedOnce
    BY DEF IInv, Once, KeptOnce, ImportedOnce
  <1> QED
    BY <1>1, AlwaysIInv, PTL

(***************************************************************************)
(* A card that is done is not taken back: not by its timer, by its rail or *)
(* by the timeline that is restored over the dock (use-chat-dock).         *)
(***************************************************************************)
THEOREM CardsStayDone == Spec => DoneStays
  <1> DEFINE A == \A j \in Jobs :
                    card[j].status = "done" => card'[j].status \in {"done", "none"}
  <1>1. IInv /\ [Next]_vars => [A]_vars
    BY CardsStep DEF CardsStay
  <1>2. DoneStays <=> [][A]_vars
    BY DEF DoneStays
  <1> QED
    BY <1>1, <1>2, AlwaysIInv, PTL DEF Spec
=============================================================================
