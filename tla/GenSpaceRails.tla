--------------------------- MODULE GenSpaceRails ---------------------------
(***************************************************************************)
(* Generations in the web application: what becomes of a prompt from the   *)
(* click to the asset in the project (GenSpace.tsx and the hooks of the    *)
(* rails).  A job is one click: it has a card in the chat dock, a call to  *)
(* a runner, a place in the React state of its rail where the result is    *)
(* put, and an effect of GenSpace that copies what it finds there into the *)
(* project.  Video and image jobs share one hook and may overlap.          *)
(*                                                                         *)
(* A setState, an effect and what follows an await are steps of their own; *)
(* an effect may run at any render, so whenever what it looks for is there.*)
(* Progress, thumbnails, settings and the recovery marker, which the web   *)
(* build drops as soon as it sees one, are left out.                       *)
(***************************************************************************)
EXTENDS Naturals, Sequences, FiniteSets, SequencesExt

CONSTANTS
    Jobs,       \* clicks on Generate
    Sessions,   \* bound of the model: [kinds, mounts], the rails that are used
                \* and the times GenSpace is shown
    MaxFaults,  \* bound of the model: copies that fail
    None

VARIABLES
    kind,       \* the rail of a job, None before it is submitted
    call,       \* its promise: "none", "running", "landed" or "failed"
    born,       \* the mount of GenSpace that submitted it
    aborted,    \* jobs whose AbortController was told to abort
    hook,       \* state of each rail's hook
    newest,     \* abortControllerRef of use-generation
    submission, \* retakeSubmissionRef, extendSubmissionRef, icLoraSubmissionRef
    lastPrompt,
    persisted,  \* persistedVideoKeyRef
    adding,     \* addingImagesRef
    imported,   \* importedImagePathsRef
    imports,    \* copies in flight, each with what its closure holds
    card,       \* the cards of the chat dock
    saved,      \* timeline.json
    restoring,  \* what readProjectTimeline reads, None once it has answered
    library,    \* activeProject.assets
    errors,     \* dialogs that are open
    shown,      \* GenSpace is mounted
    mount,
    session,    \* one of Sessions
    faults,
    disturbed   \* history: jobs that did not have the rails to themselves

calls == <<kind, call, born, aborted>>
refs  == <<newest, submission, persisted, adding, imported>>
dock  == <<card, saved, restoring>>
page  == <<shown, mount, session>>
count == <<faults, disturbed>>
vars  == <<calls, hook, refs, lastPrompt, imports, dock, library, errors, page, count>>

AllKinds == {"video", "image", "panel", "edit", "retake", "extend", "ic-lora", "restyle"}

ASSUME NoneAssumption == None \notin Jobs \cup AllKinds
ASSUME SessionsAssumption ==
    \A s \in Sessions : s.kinds \subseteq AllKinds /\ s.mounts \in Nat

Submitting == {"retake", "extend", "ic-lora"}
Hooks == {"generation", "edit", "restyle"} \cup Submitting

HookOf(k) == IF k \in {"video", "image", "panel"} THEN "generation" ELSE k

Idle == [bind |-> None, busy |-> FALSE, result |-> None]

NoCard == [status |-> "none", shows |-> None]

\* The setState of a component that is gone does nothing.
Live(m) == shown /\ m = mount

SetHook(m, h, state) == hook' = IF Live(m) THEN [hook EXCEPT ![h] = state] ELSE hook

Raise(m, error) == errors' = IF Live(m) THEN errors \cup {error} ELSE errors

SetCard(m, j, state) ==
    card' = IF Live(m) /\ j # None /\ card[j] # NoCard THEN [card EXCEPT ![j] = state] ELSE card

Done(result) == [status |-> "done", shows |-> result]
Failed == [status |-> "error", shows |-> None]

-----------------------------------------------------------------------------
(* A click on Generate *)

\* Retake, edit, video and image may be submitted while one is under way.
CanSubmit(k) == k \in {"extend", "ic-lora", "restyle"} => ~hook[k].busy

Unsettled ==
    {j \in Jobs : call[j] = "running"} \cup {imports[i].result : i \in DOMAIN imports}
    \cup ({hook[h].result : h \in Hooks} \ {None})

\* The rail of a job starts: its hook forgets the result it held.
Start(j, k) ==
    /\ kind' = [kind EXCEPT ![j] = k]
    /\ call' = [call EXCEPT ![j] = "running"]
    /\ IF k = "panel" THEN UNCHANGED hook
       ELSE SetHook(mount, HookOf(k), [bind |-> IF HookOf(k) = "generation" THEN j ELSE None,
                                       busy |-> TRUE, result |-> None])
    /\ newest' = IF k \in {"video", "image"} THEN j ELSE newest
    /\ errors' = IF k \in {"video", "image"} THEN errors \ {"generation"} ELSE errors
    /\ submission' = IF k \in Submitting THEN [submission EXCEPT ![k] = j] ELSE submission
    /\ lastPrompt' = IF HookOf(k) = "generation" THEN j ELSE lastPrompt

Submit(j, k) ==
    /\ shown /\ kind[j] = None /\ CanSubmit(k)
    /\ card' = [card EXCEPT ![j] = [status |-> "running", shows |-> None]]
    /\ born' = [born EXCEPT ![j] = mount]
    /\ Start(j, k)
    /\ disturbed' = IF Unsettled = {} THEN disturbed ELSE disturbed \cup Unsettled \cup {j}
    /\ UNCHANGED <<aborted, persisted, adding, imported, imports, saved, restoring,
                   library, page, faults>>

\* The card is added before the rail's inputs are looked at.
Refuse(j, k) ==
    /\ shown /\ kind[j] = None /\ CanSubmit(k) /\ k \in Submitting \cup {"edit", "restyle"}
    /\ kind' = [kind EXCEPT ![j] = k]
    /\ call' = [call EXCEPT ![j] = "failed"]
    /\ born' = [born EXCEPT ![j] = mount]
    /\ card' = [card EXCEPT ![j] = [status |-> "running", shows |-> None]]
    /\ UNCHANGED <<aborted, hook, refs, lastPrompt, imports, saved, restoring, library,
                   errors, page, count>>

\* The image panel has no runner for the edit: the image rail takes the job.
FallThrough(j) ==
    /\ kind[j] = "panel" /\ call[j] = "running" /\ Live(born[j])
    /\ Start(j, "image")
    /\ UNCHANGED <<born, aborted, persisted, adding, imported, imports, dock, library,
                   page, count>>

-----------------------------------------------------------------------------
(* The call ends *)

End(j, how) ==
    /\ call[j] = "running"
    /\ call' = [call EXCEPT ![j] = how]
    /\ UNCHANGED <<kind, born, aborted, refs, lastPrompt, saved, restoring, library,
                   page, count>>

Copying(j, m, said) ==
    [by |-> kind[j], result |-> j, bind |-> j, said |-> said, mount |-> m]

\* The result arrives.  An abort stops every call but one to the FAL rail.
\* The edit and restyle rails go on in the handler that was clicked.
Land(j) ==
    /\ j \in aborted => kind[j] = "image"
    /\ End(j, "landed")
    /\ IF kind[j] = "panel" THEN UNCHANGED hook
       ELSE SetHook(born[j], HookOf(kind[j]),
                    [bind |-> IF HookOf(kind[j]) = "generation" THEN j ELSE None, busy |-> FALSE,
                     result |-> IF kind[j] \in {"edit", "restyle"} THEN None ELSE j])
    /\ imports' = IF kind[j] \in {"edit", "restyle", "panel"}
                  THEN Append(imports, Copying(j, born[j], j)) ELSE imports
    /\ errors' = IF HookOf(kind[j]) = "generation" /\ kind[j] # "panel" /\ Live(born[j])
                 THEN errors \ {"generation"} ELSE errors
    /\ UNCHANGED card

\* The shared hook clears the flag of whatever it shows now, and keeps the rest.
FailedHook(h) == IF h = "generation" THEN [hook[h] EXCEPT !.busy = FALSE] ELSE Idle

Fail(j) ==
    /\ kind[j] # "panel"
    /\ End(j, "failed")
    /\ SetHook(born[j], HookOf(kind[j]), FailedHook(HookOf(kind[j])))
    /\ \/ HookOf(kind[j]) = "generation" /\ j \in aborted /\ UNCHANGED errors
       \/ HookOf(kind[j]) = "generation" /\ j \notin aborted /\ Raise(born[j], "generation")
       \/ kind[j] \in Submitting /\ Raise(born[j], "local")
       \/ kind[j] \in {"edit", "restyle"} /\ UNCHANGED errors
    /\ IF kind[j] \in {"edit", "restyle"} THEN SetCard(born[j], j, Failed) ELSE UNCHANGED card
    /\ UNCHANGED imports

\* The call is over and nothing says so: discovery throws outside the try of
\* the retake and ic-lora hooks; the image rail has no key for FAL.
Vanish(j) ==
    /\ kind[j] \in {"retake", "ic-lora", "image"}
    /\ End(j, "failed")
    /\ UNCHANGED <<hook, imports, errors, card>>

\* Mutated: the request is aborted, the flag is left to it.
WatchdogAborts == hook

WatchdogClears == [hook EXCEPT !["generation"].busy = FALSE]

\* 27 minutes after the flag was raised, whichever job raised it.
Watchdog ==
    /\ shown /\ hook["generation"].busy
    /\ aborted' = aborted \cup ({newest} \ {None})
    /\ hook' = WatchdogClears
    /\ errors' = errors \cup {"generation"}
    /\ UNCHANGED <<kind, call, born, refs, lastPrompt, imports, dock, library, page, count>>

-----------------------------------------------------------------------------
(* The effects that import *)

Effect(h) == shown /\ hook[h].result # None /\ ~hook[h].busy

Import(result, bind, said) ==
    imports' = Append(imports, [by |-> kind[result], result |-> result, bind |-> bind,
                                said |-> said, mount |-> mount])

\* Mutated: nothing remembers which result is being copied.
NotRemembered(result) == result # None

NotPersisted(result) == persisted # result

ImportVideo ==
    LET g == hook["generation"] IN
    /\ Effect("generation") /\ kind[g.result] = "video"
    /\ NotPersisted(g.result)
    /\ persisted' = g.result
    /\ Import(g.result, g.bind, lastPrompt)
    /\ UNCHANGED <<calls, hook, newest, submission, adding, imported, lastPrompt, dock,
                   library, errors, page, count>>

ImportImages ==
    LET g == hook["generation"] IN
    /\ Effect("generation") /\ kind[g.result] = "image"
    /\ ~adding /\ adding' = TRUE
    /\ Import(g.result, g.bind, lastPrompt)
    /\ UNCHANGED <<calls, hook, newest, submission, persisted, imported, lastPrompt, dock,
                   library, errors, page, count>>

ImportSubmission(h) ==
    /\ Effect(h) /\ submission[h] # None
    /\ submission' = [submission EXCEPT ![h] = None]
    /\ Import(hook[h].result, None, submission[h])
    /\ UNCHANGED <<calls, hook, newest, persisted, adding, imported, lastPrompt, dock,
                   library, errors, page, count>>

-----------------------------------------------------------------------------
(* A copy ends, and its closure goes on *)

Finish(i) ==
    /\ i \in DOMAIN imports
    /\ imports' = RemoveAt(imports, i)
    /\ UNCHANGED <<calls, newest, submission, lastPrompt, saved, restoring, page>>

\* The one an image import skips was imported before.
Kept(c) == ~(c.by = "image" /\ Live(c.mount) /\ c.result \in imported)

\* reset() of the shared hook, and of retake and extend; ic-lora has none.
AfterCopy(c) ==
    IF c.by \in {"video", "image", "retake", "extend"}
    THEN SetHook(c.mount, HookOf(c.by), Idle) ELSE UNCHANGED hook

\* Mutated: the flag is cleared by nobody.
AddsForever(c) == adding \/ c.mount = 0

\* The finally of an image import.
StillAdding(c) == adding /\ ~(c.by = "image" /\ Live(c.mount))

\* Mutated: the card is the one of the job the hook shows now.
CardShown(c) == hook["generation"].bind

\* The card of a closure: its bindId; the submitting rails leave theirs.
CardOf(c) == IF c.by \in Submitting \cup {"panel"} THEN None ELSE c.bind

Copied(i) ==
    LET c == imports[i] IN
    /\ Finish(i)
    /\ library' = IF Kept(c) THEN Append(library, [result |-> c.result, said |-> c.said]) ELSE library
    /\ IF Kept(c) THEN SetCard(c.mount, CardOf(c), Done(c.result)) ELSE UNCHANGED card
    /\ AfterCopy(c)
    /\ imported' = IF c.by = "image" /\ Live(c.mount) THEN imported \cup {c.result} ELSE imported
    /\ adding' = StillAdding(c)
    /\ errors' = IF c.by \in {"video", "image"} /\ Live(c.mount) THEN errors \ {"generation"}
                 ELSE errors
    /\ UNCHANGED <<persisted, count>>

\* The copy fails: a video may be tried again, an image is given up, a
\* restyled video is shown as done though the project does not have it.
NotCopied(i) ==
    LET c == imports[i] IN
    /\ faults < MaxFaults /\ faults' = faults + 1
    /\ Finish(i)
    /\ persisted' = IF c.by = "video" /\ Live(c.mount) THEN None ELSE persisted
    /\ adding' = StillAdding(c)
    /\ IF c.by \in {"image"} \cup Submitting THEN SetHook(c.mount, HookOf(c.by), Idle)
       ELSE UNCHANGED hook
    /\ IF c.by \in {"edit"} \cup Submitting THEN Raise(c.mount, "local") ELSE UNCHANGED errors
    /\ IF c.by = "restyle" THEN SetCard(c.mount, c.bind, Done(c.result)) ELSE UNCHANGED card
    /\ disturbed' = disturbed \cup {c.result}
    /\ UNCHANGED <<imported, library>>

-----------------------------------------------------------------------------
(* Dialogs and cards *)

\* Dismissing an error resets the rails, whatever they do.
Dismiss ==
    /\ shown /\ errors # {} /\ errors' = {}
    /\ hook' = [h \in Hooks |->
         IF h = "generation" /\ "generation" \in errors THEN Idle
         ELSE IF h \in {"retake", "ic-lora"} /\ "local" \in errors THEN Idle ELSE hook[h]]
    /\ disturbed' = disturbed \cup Unsettled
    /\ UNCHANGED <<calls, refs, lastPrompt, imports, dock, library, page, faults>>

\* Mutated: the timer of a card is not stopped when the card is done.
Timed(j) == card[j].status # "none"

Runs(j) == card[j].status = "running"

\* 30 minutes are over, or the user asks to stop tracking.
GiveUpCard(j) ==
    /\ shown /\ Runs(j)
    /\ card' = [card EXCEPT ![j].status = "error"]
    /\ UNCHANGED <<calls, hook, refs, lastPrompt, imports, saved, restoring, library,
                   errors, page, count>>

-----------------------------------------------------------------------------
(* GenSpace comes and goes with its tab *)

\* The timeline is written some time after a change, here if it is read again.
Save ==
    /\ shown /\ mount < session.mounts
    /\ saved # card /\ saved' = card
    /\ UNCHANGED <<calls, hook, refs, lastPrompt, imports, card, restoring, library, errors,
                   page, count>>

NoRefs ==
    /\ newest' = None /\ persisted' = None /\ adding' = FALSE /\ imported' = {}
    /\ submission' = [h \in Submitting |-> None]

\* The other tab is opened: state and refs are gone, the calls run on.
Unmount ==
    /\ shown /\ mount < session.mounts /\ shown' = FALSE
    /\ hook' = [h \in Hooks |-> Idle] /\ NoRefs
    /\ card' = [j \in Jobs |-> NoCard] /\ restoring' = None
    /\ errors' = {} /\ lastPrompt' = None
    /\ disturbed' = disturbed \cup Unsettled
    /\ UNCHANGED <<calls, imports, saved, library, mount, session, faults>>

Mount ==
    /\ ~shown /\ shown' = TRUE /\ mount' = mount + 1 /\ restoring' = saved
    /\ UNCHANGED <<calls, hook, refs, lastPrompt, imports, card, saved, library, errors,
                   session, count>>

\* The saved cards take the place of whatever was added meanwhile.
Restore ==
    /\ shown /\ restoring # None /\ restoring' = None
    /\ card' = IF restoring = [j \in Jobs |-> NoCard] THEN card ELSE restoring
    /\ UNCHANGED <<calls, hook, refs, lastPrompt, imports, saved, library, errors, page, count>>

-----------------------------------------------------------------------------

Init ==
    /\ kind = [j \in Jobs |-> None] /\ call = [j \in Jobs |-> "none"]
    /\ born = [j \in Jobs |-> 0] /\ aborted = {}
    /\ hook = [h \in Hooks |-> Idle] /\ errors = {}
    /\ newest = None /\ persisted = None /\ adding = FALSE /\ imported = {}
    /\ submission = [h \in Submitting |-> None] /\ lastPrompt = None
    /\ imports = <<>> /\ library = <<>>
    /\ card = [j \in Jobs |-> NoCard] /\ saved = card /\ restoring = None
    /\ shown = TRUE /\ mount = 1 /\ session \in Sessions /\ faults = 0 /\ disturbed = {}

Click == \E j \in Jobs, k \in session.kinds : Submit(j, k) \/ Refuse(j, k)

Ends(j) == Land(j) \/ Fail(j) \/ Vanish(j) \/ FallThrough(j)

Effects == ImportVideo \/ ImportImages \/ \E h \in Submitting : ImportSubmission(h)

Ended(i) == Copied(i) \/ NotCopied(i)

Tabs == Unmount \/ Mount \/ Restore \/ Save

Next ==
    \/ Click \/ (\E j \in Jobs : Ends(j) \/ GiveUpCard(j)) \/ Watchdog
    \/ Effects \/ (\E i \in DOMAIN imports : Ended(i)) \/ Dismiss \/ Tabs

Spec == Init /\ [][Next]_vars

\* The reader of a stream and the copies end, effects follow a render, and
\* timers fire; nobody has to click.
Fairness ==
    /\ \A j \in Jobs : WF_vars(Ends(j)) /\ WF_vars(GiveUpCard(j))
    /\ WF_vars(Watchdog) /\ WF_vars(Effects)
    /\ WF_vars(\E i \in DOMAIN imports : Ended(i))

FairSpec == Spec /\ Fairness
=============================================================================
