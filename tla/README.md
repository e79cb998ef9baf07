# Formal model of the video-creator platform

TLA+ modules, TLC configurations and TLAPS proofs for the coordinating code of
this repository: the live-runner that shares GPUs between model workers, the
harnesses around the model subprocesses, the credit ledgers of the Cloudflare
Worker, and of the web application the timeline editor, the generation page and
the paid transport to the runners. Paths are relative to the repository's root.

What is written here as *checked* holds of every state TLC reached on the
stated instance; what is written as *proved* holds for every value of the
module's constants that meets its `ASSUME`s.

## 1. The system

Three programs make up the platform.

* **`src/`**, a Cloudflare Worker in TypeScript over D1 (SQLite) and the external
  PymtHouse billing service: accounts, recovery, API keys, Stripe top-ups,
  balances, ticket signing, jobs, projects and settings. Every request runs in
  some isolate; it awaits D1 and PymtHouse statement by statement, without
  transactions, next to other requests of the same user, and can be lost at any
  of these awaits.
* **`runner/`**, Python containers: the live-runner (one asyncio event loop)
  schedules requests on the GPUs, keeps the workers' models resident where they
  are needed and relays requests; each worker (ltx, image, idv2v, gemma, vp) serves
  `/load`, `/evict`, `/health` and its own operations, some through a subprocess.
* **`webapp/`**, a React application that runs in the user's browser (`frontend/`,
  below `webapp/frontend/`): a page that generates media, an editor with a
  timeline, and the transport by which both pay and use the runners directly. It is
  single-threaded, but every `await`, effect and timer lets clicks, other calls and
  a reload in between.

### Components

| Component | State | Operations | Hard parts | Correct when |
|---|---|---|---|---|
| GPU scheduler `runner/live_runner/scheduler.py` | `_slots` (worker, busy, resident, last_used), a condition | `acquire`, `release`, `pick_for_worker`, `reconcile`, `mark_gemma_loaded` | gives its lock up for the eviction in the middle of `acquire`; condition waits with deadlines; a heartbeat that rewrites slots beside running requests | one request per card, no lost wake-up, evictions not wasted, gemma's card reserved, no healing under load |
| request handlers `runner/live_runner/server.py` | `_in_flight` | `_with_gpu`, `handle_gpu_pick`, heartbeat, idle backfill | the counter and the slots are kept by different tasks | the counter is exact, requests end |
| residency manager `runner/live_runner/swap.py` | `_pinned_loaded`, `_resident`, one lock | `ensure`, `evict`, `check_health` / `_reconcile_loaded` | POSTs that fail after they took effect; health answers older than the lock they are used under; restarts | what is believed loaded is loaded, and what is loaded is in the books |
| engine subprocess harness `runner/common/engineproc.py`, `runner/idv2v/engine.py` | `_proc`, `_ready`, the reader's queue, one lock | `start`, `run`, `stop` | the child dies, hangs, answers late; callers cancel | each call gets its own answer, failed children go |
| Bernini manager `runner/idv2v/bernini.py` | a module-global slot and its lock; per manager a process and a lock | `get_manager`, `generate`, `ensure_loaded`, `evict_manager` | two locks; a manager fetched now and used later; two deadlines | as above, and no deadlock between the locks |
| idv2v server `runner/idv2v/server.py` | none of its own beyond the two above | `/load`, `/evict`, generations | outer deadlines cancel inner calls | every handler answers |
| top-ups and grants `src/index.ts`, `src/ledger.ts` | tables `idempotency`, `payments`; PymtHouse's allowance | Stripe webhook, admin grant | check, grant, mark and log are four awaits; Stripe redelivers | paid is credited, once; the audit is true |
| optimistic balance `src/balance.ts`, `src/index.ts`, `src/ledger.ts` | `optimistic_debits`, `balance_sync`, `spend_entries` | sign-ticket, balance read | PymtHouse meters later, in its own order; TTL; retries | nobody is shown money that is spent, pending settles |
| accounts, recovery, API keys `src/ledger.ts`, `src/recovery.ts` | codes, keys | provision, link, recover, rotate, revoke | a code is read, then marked | a code works once (not modelled, section 5) |
| jobs, projects, settings `src/jobs.ts`, `src/routes/settings.ts` | rows | create, update, upsert, merge | unguarded updates | a finished job stays finished |
| signer and PymtHouse client | none | HTTP calls | their failures | modelled as outcomes of the callers |
| routes and utilities `src/routes`, `src/stripe.ts` | none | parsing, signatures | none | out of scope |
| routing, specs, post chain `runner/live_runner/routing.py`, `postchain.py` | none | proxying, restyle chain | two workers in a row | not modelled |
| ltx, image, gemma, vp workers | engines, locks | `/load`, `/evict`, `/health` | evict beside load | modelled as the residency manager sees them |
| model inference | GPU | numerical code | none of protocol | out of scope |
| transport `lib/direct-transport.ts`, `sse-stream.ts`, `runtime/vision-cache.ts` | a promise per analysis in flight, a cache in memory and in IndexedDB; per call the manifest, the ticket and the retries | address, probe, 402, sign, paid POST, stream or JSON body; back-off; cancel | every hop is an await of its own; the ticket must fit the orchestrator's challenge; 503 starts over; a reload keeps what reached the disk | a job is paid by its own ticket and an analysis once, a cancel stops spending, what is remembered was earned |
| generation page `views/GenSpace.tsx`, `hooks/use-*.ts`, `lib/chat-dock.ts` | a React hook per rail, refs, the cards of the chat dock and `timeline.json`, the project's assets | eight rails to submit; effects that import what landed; copies; timers; tabs | results meet in shared hooks; effects run at any render, copies take a while; the page is left and shown again | a card shows its own result, a result reaches the project once, nothing spins for ever |
| timeline editor `views/editor/` | assets with takes, timelines with tracks, clips and cues; undo stacks; clipboard; the gesture of the mouse | some fifty handlers, each committing one or more versions | numbers refer to takes and tracks, ids to assets and linked clips; gestures commit as they go | no reference dangles, an edit changes what it covers and no more, undo walks a line |
| regeneration in the editor `views/editor/useRegeneration.ts`, gaps in the timeline panel | one hook for both, the target of the regeneration, the gap that is filled | start, cancel, copy and apply a result | as above | not modelled (section 5) |
| settings, gallery, bins, playback, export, panels | React state | forms and media | none of protocol | out of scope |
| containers, deployment, smoke test | none | scripts | none | out of scope |

### Interactions

A request enters `_with_gpu`: it counts itself, `acquire`s a card from the
scheduler (whose evict hook calls the residency manager's `evict` on another
worker's card), has the residency manager `ensure` the worker on that card, relays the
request, `release`s, answers and un-counts itself. Booting workers ask
`/gpu-pick` for a card through the same loop. A heartbeat polls every worker's
`/info`, rewrites the scheduler's slots, and every worker's `/health`, after which the
residency manager drops what was lost. An idle loop puts gemma back on her
card. idv2v's worker uses the subprocess harness for one family of models and
the Bernini manager for the other. The browser asks the Worker for an address
and, once the runner's orchestrator has answered 402, for a ticket; it sends the job
with the ticket to the orchestrator, which redeems it and hands the job to the
live-runner, and PymtHouse meters it; the balance shown joins both ledgers. What the
transport returns lands in the state of a hook, where an effect finds it, copies it
into the project's folder and adds it to the project's assets; the editor puts
assets on timelines.

## 2. The modules

One module per component (three for the editor), one of its properties, one of TLC
instances (`MC...`) and one of proofs (the two users of the ledger, `TopUps` and
`OptimisticBalance`, share `LedgerProofs`). Three abstract
specifications are refined: `CreditPromise`, `VersionLine` and `EarnedAnswers`.

### GpuScheduler

`slot` is `_slots`; `older` is the order of the `last_used` stamps (only
comparisons of them matter; `0.0` is "older than all"); `pc`, `task` and `card`
are the handlers' local state; `inFlight` is `_in_flight`; `backfill` is the idle
loop inside its await. The lock is never held across a suspension except inside
`Condition.wait`, which gives it up, and around the evict hook, for which
`_evict_slot` drops it. So a critical section between two such points is one
step: `Acquire` is a turn of the loop of `acquire`, `PickForWorker` of
`pick_for_worker`, and `EvictDone` is what happens with the lock re-taken: the
slot is cleared, all are notified, and the loop takes its next turn, in one step.
`Reconcile(poll)` is the heartbeat: heal, adopt, restamp, free. What workers
report is abstracted to who answered and, per card, the last worker to claim
it. The evict hook logs a failure and never raises, so it has one outcome here.
The branch of `acquire` in which gemma waits for her own card is dead: nothing
sets `_gemma_evicted`. `/gpu-pick` reconciles before it picks; that is a
`Reconcile` taken before `Boot`'s first turn.

### ResidentWorkers

`lock` is the queue of the manager's lock, the books carry the code's names, and
`loaded` is the truth at the workers' end, changed by their `/load` and `/evict`
handlers: image-worker has an engine per card, the others one that moves. `CardsOf`
says which cards the server steers a worker to (`_DEVICE_AWARE_WORKERS`). vp-worker,
the one worker it does not steer, is left out with the branch of `ensure` that only it
takes: its `/load` and `/evict` do nothing (`runner/vp/server.py:69-87`), so the branch
evicts nobody else's model. Generations are left out too, and with them that one which
finds no engine starts it by itself. A POST that
raises may have taken effect or not. A probe reads one `/health` at a time
without the lock, in any order (the code has one order, so this covers it), and
applies what it read under the lock.

### EngineProc

The queue for the lock, each await of `run`, `start` and `stop`, and the child's
loop with its pipes. The drain before each job, the ready handshake, deadlines,
a broken pipe, the end of file and cancellation are steps of their own. Left
out: progress and noise lines, which the readers skip; the drain's cap of 64
lines, which one job's results do not reach; the drain of stderr; the pause
for a return code. A job is a line in the pipe at once unless it is `Large` (images
and clips in base64): then it is written when the child has come to it and reads,
which nothing makes it do. The write is the one await without a deadline
(`engineproc.py:316`); the only run that its caller may cancel writes a short line
(id-v2v's `ensure_loaded`). Bound: a call that was cancelled is not
made again.

### BerniniManager

The slot's lock, each manager's lock, the handlers that fetch a manager and use it
later, the plan pre-pass and chunks of a generation as a list of jobs, the eviction
by another target, the process with its pipes, and the handlers' outer deadlines
(`Impatient`). `Wants` bounds the targets a handler may ask for, so that an instance
can have one generation that stays with a model and one that hops. Bounds: two
managers, two processes; a handler starts only while there are objects left for all
that may need one (processes out of reach stay for good); a handler whose outer
deadline expired does not start again. Chunk files, anchors, stitching are data and
left out; ffmpeg failing on a window between two jobs is `CutFailed`.

### TopUps and CreditPromise

Handlers with one step per await: check, upsert, grant, mark, log, answer.
`Lose` loses a handler anywhere, at most `MaxFailures` times. Stripe may deliver
again, and with `Overlapping` while a delivery is being handled.
`CreditPromise` is what the payer is promised: confirmed only after credited
and, in a deployment without overlap and failures, credited once. `TopUps`
refines it with `credited <- grants, confirmed <- acked`.

### OptimisticBalance

One user's mirror. `Sign`...`RecordSpend` is `handleSignTicket`,
`Read`...`Show` is `resolveUserBalance`, each step one statement or one request;
`Meter` is PymtHouse (external) and `Age` the TTL. Calls overlap as they like;
`Allowed` names what else a deployment may meet: reorder, early, age, retry.
`absorbed` and `raced` are history variables: `raced` says that two calls reconciled
at a time, that is, one came to fetch PymtHouse's balance, or to seed the baseline,
while another still worked with what it had fetched. Face values are small naturals; the clamp of the display at zero and
`hasAccess` are left out, for a grant that is not used up.

### TimelineClips, TimelineEditor, TimelineGestures and VersionLine

`TimelineClips` has what the operations do to a set of clips: `ResolveOverlaps`
(trim, cut in two or remove what new clips cover), the builders, copies and splits
with their links, and which second of which take a clip shows, forwards or reversed
(`Second`; without the clamp to the media). `TimelineEditor` has
the project: `doc` is the editor model, `undoStack` and `redoStack` are those of
`editor-store.tsx`, and each action is one handler, menu item or key. The sequence
of versions a handler hands to `Record` is that of its calls into the store, so a
handler with three commits costs three undo steps, as in the code.
`TimelineGestures` adds the mouse: a drag is a preview until the button comes up, a
trim, a slip and a slide commit every move. `gesture` is what the handlers' closures
remember, so an undo in the middle of a gesture finds it still holding clips of a
version that is gone. `VersionLine` is what undo promises: a line of versions of
which only the oldest are forgotten.

Times are in units of half a second, the shortest clip a trim leaves; tracks are
numbered as in the code; ids are sequences, since copies and halves derive theirs from
the original. Fields nothing else depends on (effects, transitions, colours,
levels, names) are left out. What is selected, the playhead and the place of a drop are
parameters of the actions. `IsProject` is what a stored project is (the schemas of
`types/project-model.ts`), `Made` the ids made up to a time; both are what the proofs
assume of the project that is opened.

### GenSpaceRails

A job is a click on Generate in one of eight rails. `hook` is the React state of the
rails' hooks (video, image and the image panel share one), `card` the chat dock,
`saved` the file it is kept in, and `imports` the copies in flight, each with what
its closure captured. A `setState`, an effect and what follows an `await` are steps
of their own. An effect is enabled whenever what it looks for is there and its own
guard (a ref) lets it: React may render at any time. `Unmount` and `Mount` leave the
page for another tab: state and refs start anew, calls run on, and the `setState` of
a component that is gone does nothing (`Live`). `disturbed` is a history variable:
jobs that did not have the rails to themselves.

### DirectTransport and EarnedAnswers

A call is at the step its code awaits: the cache, a promise it shares, the address,
the probe, the body of its 402, the signature, the paid POST, the back-off, the
stream or the JSON body. `manifest` is that of the attempt, `expects` what the
challenge asked for once it is read (`None` if it could not be), `ticket` what the
ticket was signed for. The Worker, the orchestrator and the runner are external: they
answer, refuse, die or keep silent at every point, and the Worker may also sign for
the empty parameters of a challenge that was not read. `Guarded` says which steps a timer watches, and `Cancel` and `Reload` come between
any two. `EarnedAnswers` is the promise to the caller, without payments and caches:
it is answered once, with finished work on the very question it asked, or with a
refusal.

## 3. What is checked

All runs finish with the state space exhausted. Deadlock is checked in the runs of the
runner and the Worker; the web application's may stop, since a user need not
click and an instance has a last click.

| Run | Instance | Shows |
|---|---|---|
| `scheduler_open` | 3 cards, gemma's pinned; 2 requests and a boot call over 3 workers; heartbeats that miss a worker, or report a worker on every card; fairness | `SlotConsistent`, `NoHealUnderLoad`, `CardKept`, `EvictionPaysOff`, `GemmaCardKept`, `NoMissedWakeup`, `RequestsEnd` |
| `scheduler_busy_victim` | 3 requests, no heartbeat | **violates** `OneRequestPerGpu` |
| `engine_calls` | 2 runs (one cancellable, one with a large job), a start, a stop, 2 children that die, hang or fail at any time; fairness | `NoStrayChild`, `ReaderKeepsChild`, `OwnAnswer`, `FailureEvicts`, `OnlyWritesHang` |
| `bernini_calls` | a planned generation with a deadline of its own, one that hops between 2 targets, an eviction; 2 managers, 2 processes; fairness | `ReaderKeepsProcess`, `OwnAnswer`, `CallsEnd` |
| `residency_cards` | 3 workers: one with an engine per card and one with a single engine, whose POSTs may fail, a pinned one that restarts; 3 cards; an ensure, an evict, a probe; fairness | `ResidencyIsReal`, `NothingStranded`, `StaleResidencyEnds` |
| `topups_open` | 2 events (one without metadata), an order, 3 handlers, overlapping, 2 failures; fairness | `AuditIsReal`, `KeepsPromise`, `CreditsArrive` |
| `topups_double` | 1 event, 2 handlers, 1 failure | **violates** `NeverDoubleCredit` |
| `balance_books` | 2 tickets, a sign request and a read at once, metered in any order, early, aged, retried, 1 failure; fairness | `AbsorbedWithinConsumed`, `NeverOvershown`, `Settles` |
| `editor_edits` | a project of two timelines; six families of handlers, 2 edits deep (3 for tracks and assets), with undo and redo anywhere | `ClipAssetLive`, `HistoryIsALine`, `OverwriteSpares`, `SplitSeamless`, `TakeDeletionSpares`, `EditsStayOnTracks` |
| `rails_clicks` | 2 clicks on any two of the 8 rails on a page that stays; 2 clicks on three rails on a page that is left and shown again; a copy that fails; fairness | `OwnCard`, `ImportedOnce`, `DoneStays`, `AloneIsKept`, `NothingSpins` |
| `rails_overlap` | 2 image jobs, no fault; fairness | **violates** `EveryResultKept` |
| `transport_calls` | an analysis next to a generation, an edit, a stepped edit or the same analysis; 2 retries, a reload; fairness | `TicketsFit`, `PaidOnce`, `CancelStopsSpending`, `AnswersAreEarned`, `OnlyOpenHopsHang` |

**Exemptions, and why they are there.** A property that the code breaks in a known
way is stated around it, and the way is named: `NoMissedWakeup` speaks of what
requests do, for heartbeats, boots and backfill wake nobody; `CardKept` names the four
ways a running request loses its card (`Preempted`), which `scheduler_busy_victim` shows to be
real; the books of the
balance are exact until a call fails (`faults > 0`) or two calls reconcile at a time
(`raced`); once a run is *cancelled*
(or a Bernini handler is past its deadline) answers are off by one; `ImportedOnce` ends where a copy failed; `AloneIsKept` is about
jobs nobody disturbed; `EditsStayOnTracks` leaves out paste and a drag whose tracks
were undone; `OnlyOpenHopsHang` lists the hops that may hang, `OnlyWritesHang` the one write. Section
*Disagreements* has each of these.

**Why the bounds are enough.** Three cards are gemma's card and two others: the
fewest on which a victim is a choice and the order of use matters. Two requests and
a picker meet in every critical section (one evicting, one waiting, one running);
`scheduler_busy_victim` takes three requests. Two runs on two children are the
writer of a late answer and its victim, on an old child and a new one; one more run
or child repeats them. Two tickets, of values 2 and 1, let an advance cover a row, a
row in part, and both rows; a sign request and a read meet at every await, and they
reconcile at a time where the request seeds the baseline; two reads that do are a matter
of the theorems. Two deliveries of one event, and two failures, are what
each webhook hazard takes. *Editor*: a pair of linked clips of a video with three
takes, an image and a second timeline that shows the last take at double speed are
the fewest on which links, renumbering and speed matter; `Placing` and `Dragging` also
hold "reverse", so what they place falls on reversed clips too. The handlers are grouped
into the families `Placing`, `Dragging`, `Tracking`, `Clipboard`, `Assets` and
`Timelines` (`MCTimelineEditor`), one per session, because all of them at once are
out of TLC's reach: what a handler of one family does after one of another is only
met where a family holds both (deletion of assets is in two); two edits make a
history with a branch, and `MaxUndo` 3 is reached by handlers that commit more than
once, so the oldest versions are dropped. Times 1 and 3 fall inside clips and on
their edges. *Rails*: two jobs are what overlaps; a third would meet the same
single place of the shared hook. *Transport*: two
calls share a promise, two retries are a first and a repeated back-off, one reload
separates what reached the disk from what did not.

### Fairness, and why the code justifies it

*Scheduler*: asyncio runs every ready task, and a job, an eviction and a `/load` end
within their HTTP timeouts, so what a handler does in the scheduler's hands is
weakly fair. A call's deadline is fixed when it starts, so a call that is woken and
has to wait again cannot go on past it: `Timeout` is strongly fair. Requests
arriving, heartbeats and backfill starting are not fair. *EngineProc,
BerniniManager*: ready tasks run, deadlines pass (`wait_for`), and a terminated
process is killed in the end (`terminate`, then `kill`). Nothing is assumed of a
child that serves. *ResidentWorkers*: POSTs and GETs end (session timeout), the
heartbeat repeats. *TopUps*: handlers run on, and Stripe keeps sending what was not
acknowledged (strongly fair, since overlap and failures interrupt it; failures are
finitely many). *OptimisticBalance*: calls run on, reads recur, PymtHouse meters
every ticket, rows age. *GenSpaceRails*: calls and copies end (the transport's own
timers see to most of them, and the file system to the others), effects follow a
render, timers fire; nobody has to click, leave or come back. *DirectTransport*:
only what the page itself does is fair, its continuations and its timers; the
Worker, the orchestrator and the runner may keep silent for ever. *Editor*: no
liveness.

### Disagreements between the code and what is said of it

Three have a run each:

* **A busy card is evicted** (`scheduler_busy_victim`): `_pick_lru_victim`
  (`runner/live_runner/scheduler.py:249`) looks at the worker and the stamp and not at
  the state, so a running request's card is evicted and handed on;
  `scheduler.py:10` says one GPU serves one request at a time.
* **A top-up is credited twice** (`topups_double`): `src/index.ts:572` reads the
  mark and `:577` writes it after the grant, so two deliveries at a time both
  grant; `migrations/0001_init.sql:27` says never.
* **An image is generated, paid for and lost** (`rails_overlap`): all image jobs put
  their result in one place of one hook, and the `reset()` that ends the import of
  one (`views/GenSpace.tsx:3060`) wipes what landed there meanwhile;
  `GenSpace.tsx:2499` says "Resilient to MULTIPLE generations in flight".

Others were met while modelling. The models contain them (their actions allow
them), the passing properties are stated around them, and no run claims them.

*Runner and Worker:*

* The queue is not FIFO (`server.py:144` says it is): all waiters wake at once
  and a newcomer may run before them (`scheduler.py:198-228`).
* `reconcile` and `pick_for_worker` free or warm cards and notify nobody, so a
  waiter may sleep to its deadline next to a free card. `NoMissedWakeup`
  is therefore about the steps of requests.
* A load adds its card to the residency and takes none out (`swap.py:166`), while
  ltx-worker's one engine leaves the card it was on (`runner/ltx/server.py:348`). Steered
  to another card and back, it is not loaded there; `swap.py:155` says "already resident
  on that GPU". For the same reason an eviction from the first card
  (`runner/ltx/server.py:433`) stops the engine on the second, against `swap.py:103`.
  `ResidencyIsReal` is about workers with an engine per card.
* A hung child wedges the harness: a job is written by a thread outside every deadline
  (`engineproc.py:316`), so a child that lives and does not read keeps the run, the lock,
  and `stop()` behind it, for ever; `:266` says `run` "evicts the child so a wedged state
  can never linger". `OnlyWritesHang` says that nothing else hangs.
* The heartbeat stamps every reported card as just used (`scheduler.py:360`),
  so the order of eviction after it is the order of the poll, not of use.
* The idle backfill documents itself as gated on no request in flight and never
  reads the counter (`server.py:1108-1118`).
* A cancelled `run` of the subprocess harness evicts nothing (`engineproc.py:349`
  handles deadlines and errors of its own): the next run can read its result,
  against the comment at `:244`, and the run after that the result of this one, and so
  on until a child is replaced: the pipe stays one result ahead. A child cancelled
  while it loads can be left behind. The same shift follows a Bernini generation whose
  handler ran into its outer deadline. id-v2v's `ensure_loaded` has equal inner and outer deadlines.
* A Bernini manager fetched from the slot and then evicted starts its process
  again when it is used (`bernini.py:310`, slot dropped in `:817`), out of
  reach of the next eviction.
* A failed plan pre-pass ends the generation: `_run_one` raises at
  `bernini.py:546`, and the fallback of `:552` ("must never take down the whole
  job") is not reached.
* A failure between grant and mark credits again at the redelivery
  (`src/index.ts:577`, README: "idempotent by Stripe event.id"); one between
  mark and log loses the audit row (`:578`, README: "single source of truth").
* One advance is absorbed twice: `resolveUserBalance` reads the baseline
  (`src/balance.ts:66`), deletes rows and stores the baseline in separate statements, so
  two reads of one user at a time drop different rows for the same money and show money
  that is spent; `balance.ts:11` guarantees "no double counting". Two first debits, or
  one beside a read, can set the baseline back the same way. With two reads TLC finds
  `AbsorbedWithinConsumed` violated without its condition on `raced`.
* The balance mirror: an advance that covers a row in part is dropped and the
  row stays until its TTL (`src/balance.ts:79`); a ticket metered before its row is
  written is subtracted twice until its TTL (`:83`); a request sent again after
  absorption inserts its row again (`ledger.ts:315`); a read that ends half way lets
  the next absorb its advance once more (`balance.ts:75`); a seed of zero when PymtHouse
  does not answer absorbs rows for money spent before (`index.ts:504`).

*Editor* (`views/editor/`):

* A split trims its halves by the time on the track, whatever the speed, and the first
  at its end and the second at its beginning, whichever way the clip plays
  (`editor-actions.ts:1085` and `:1092`): the halves of a fast, a slow or a reversed clip
  show other seconds than it did. `SplitSeamless` is about the places where only clips
  that play forwards at normal speed are.
* `resolveOverlaps` cuts the head of a clip by moving `trimStart`
  (`video-editor-utils.ts:147` and `:168`), but a reversed clip counts from `trimEnd`
  (`ProgramMonitor.tsx:146-152`): what is left of it after a clip that was put on it
  begins again with its first picture. `OverwriteSpares` exempts that piece (`Torn`) and
  nothing else of a reversed clip.
* In a trim, linked clips' `trimStart` and rippled clips move on from where they are
  at every mouse move, so their shifts accumulate (`useTimelineDrag.ts:774`). Every
  mouse move of a trim, a slip or a slide is an undo step, and a plain click commits
  a step that changes nothing and clears the redo stack.
* Two dragged clips that cut one clip each leave pieces with the same ids;
  `OverwriteSpares`, `SplitSeamless` and `TakeDeletionSpares` are about documents whose
  ids are unique.
* `closeGap` shifts every track by the gap of one and may push a clip into one that
  spans it. `insertSourceEdit` may pick a subtitle track and does not split the clip
  under the playhead. Copies made by alt-drag or with a timeline keep links to the
  originals. Paste keeps the track numbers of the timeline it was copied from.
* `deleteTrack` of the panel is three undo steps, between which clips have the wrong
  track. "Group takes" deletes the clips of the assets it merges. The active timeline
  is not in the history, so undo may bring back a timeline that is not shown.

*Generation page* (`views/GenSpace.tsx`, `hooks/`):

* A failed copy of a video clears the key of a later one, which may then be imported
  twice.
* The watchdog of the shared hook is not armed anew when a second job starts while
  the flag is up, and the `reset()` of an import clears the flag and owner of a job
  in flight.
* The spinner of retake and ic-lora stays when discovery throws, outside their
  `try`; overlapping retakes use the second submission's prompt and lose its result.
* Cards of retake, extend and ic-lora are never marked done (their timer ends them), and
  a restyle whose copy failed is.
* What lands while another tab is shown is lost, and restoring the chat dock replaces
  cards that were added meanwhile.

*Transport* (`lib/direct-transport.ts`):

* `:30` says a hung hop surfaces as an error. The two requests to the Worker have no
  signal, a probe with the caller's signal has no timeout of its own, and a JSON body
  has no watchdog once its headers came: these are `AtOpenHop`.
* Without a signal, the 20 s timeout of the probe also cuts a free runner that accepted
  and takes longer; the 60 s header guard cuts paid inference that does not stream.
* An unreadable 402 counts as a challenge (`:889`): a ticket is asked for empty
  parameters under the id made up at the start, and if one comes it is spent;
  `:863-865` says that the id is only a fallback if the challenge omits its own.
  `TicketsFit` names this case.
* A cancel while the body of a 402 is read is swallowed there, and the ticket is asked
  for after the cancel; one while the ticket is signed wastes it. Neither is spent.
  `CancelStopsSpending` names the first. A shared promise carries the signal of the first caller, so
  that one's cancel ends it for all.
* A reload between settling and persisting pays again, as does one whose row in
  IndexedDB cannot be read, and the first result after that replaces the row. Two tabs overwrite each
  other's row.

## 4. What is proved

`tlapm` checks every theorem below, for any number of cards, workers, requests,
events, tickets, calls, children, clicks and keys, and for any project, timelines and
clips. Each rests on an inductive
invariant, of which TLC checked an instance first (a lemma each for the initial
states and for every action), combined by temporal logic. All safety invariants and
action properties of the passing runs are proved.

**GpuSchedulerProofs.** `IInv` = `TypeOK`, `HandlersOK`, `SlotConsistent`,
`InFlightExact`. `HandlersOK` is the strengthening: what is in hand at each place of
a handler (a handler that evicts or runs has a card, one that queues has a worker, a
boot call never runs). From it: `TypeCorrect`, `SlotsConsistent`, `CounterExact`
(the counter is the cardinality of the active handlers, lemmas `CounterUp`,
`CounterDown`), `NoHealWhileRunning` (with one request running the counter is not
zero, so healing is off). `GemmaNeverEvicted` adds `GemmaSpared`, that a loop that
evicts never has gemma's card in hand, and shows for every step that the card stays
gemma's or a heartbeat gave it to a worker that claims it. `RunningKeepsCard`
(`CardKept`) goes through the steps beside a running request: no turn of the loop finds
its card among those it may hand out, but that of a boot call of the same worker
(`TakeableSpares`, `TurnSpares`), and a heartbeat that heard the worker changes nothing
on its card, for nothing is healed while a request is in flight (`ReconcileSpares`).
`EvictionsPayOff` and `SleepersAreWoken` are about what
the loop *finds*, so they need that it finds something: `Ordered` adds that the order
of use is a strict order through every restamping (`StrictOrderRestamped`), hence
every set of cards has an oldest and a lowest one (`OldestExists`, `LeastCard`), and
the two picks are empty only where no card qualifies (`FreeCardFound`,
`WarmCardFound`). The cleared card is then one the loop may take; and a step that
ends with a sleeper asleep took a card or evicted one, which makes nobody servable.

**ResidentWorkersProofs.** `BooksAreReal` (`ResidencyIsReal` for every set of
workers, cards and calls, POSTs failing before or after they took effect).
`IInv` adds that a POST is under way only while its call holds the lock, and that an
eviction under way has its card out of the books. `NothingIsStranded` (`NothingStranded`,
for every worker) goes through the steps of a call (`WorkStrandsNothing`): one that ends a
load or begins an eviction changes the books and the card together, and one that ends an
eviction frees the card that left the books. Its two exemptions are the code's: a `/load`
that raises after it took effect leaves a model nobody records and nobody evicts, and a
probe drops a worker it saw empty before its `/load`.

**EngineProcProofs.** `ReaderKeepsItsChild`, `NoChildStrays`, `FailuresEvict` and
`AnswersAreOwn`. `IInv` = `TypeOK`, `NoStrayChild` and: a call is past the lock only
while it holds it (`InsideHolds`), how far each kind of call gets (`RolesOK`), the
handle names no child that is being terminated and whoever uses it has one
(`HandleOK`), an end of file comes last (`EofIsLast`), a child is only loading while a
call waits for its handshake (`LoadingIsWatched`: what makes `NoStrayChild`
inductive, for `start` drops a child that is not ready). `PipesInStep` carries
`AnswersAreOwn`: the two pipes together hold nothing, or the one job of the run that
reads, at one place. The drain is not what keeps answers apart: every failure the code
handles replaces the child.

**BerniniManagerProofs.** `ReaderKeepsItsProcess` and `AnswersAreOwn`, for any handlers,
targets, managers and plans. The same argument per manager, plus `ProcsApart`: the
managers within reach (in the slot, or fetched by a handler) have a process each, none
on its way out. It is needed because a manager out of the slot may start a process
again. `DeadIsEmpty`: a process that is gone has no job left to answer.

In both modules the proof corrected the property. `OwnAnswer` used to allow a
wrong answer only to be *the cancelled run's*; with a third run that is false, since
the answers then stay one behind. It now says: until a run is cancelled (until a
handler is late).

**LedgerProofs**, the top-ups. `AppliedWasGranted`, `AuditNeverInvents` (the invariant counts
the handlers that granted and have not logged: rows plus those never exceed
grants) and `Refinement`: `Spec` implements `CreditPromise`, with `Once` in the
calm deployment, from `RInv`, in which handlers then serve different events and
what was granted is marked, answered, or with the handler that granted it.

**LedgerProofs**, the balance. Both theorems are about any number of calls that overlap,
until one fails or two reconcile at a time. `NothingForgotten`: what is absorbed never exceeds what
PymtHouse consumed since the baseline. `Accounted` relates the two through what a read
may still absorb; `Ordered` keeps the baseline and what a call has fetched between the
first and the present consumption. The invariant of the temporal step is
`UntilFault`: `IInv` as long as `faults = 0` and not `raced`, neither of which is ever
taken back. A sign request beside a read changes neither the baseline nor what the
read has fetched (`AsideIInv`); that is why only calls that reconcile must be `Alone`.
`NeverShownTooMuch` adds `Books`: a ticket that is in the history, or about to be, has a
row, is past its TTL or was dropped as metered (`Gone`), and `Gone` amounts to no more than what was absorbed.
A row sent again after it was absorbed counts twice there, which errs on the right
side. It needs `Shelved` (one row per ticket, aged rows first), since pruning counts
the aged rows and cuts that many off the front (`PrefixIsCounted`, `PrunedRows`).
`Total` is a fold over a set: that it has one value, does not depend on the order
(`TotalStep`), grows with the set (`TotalMonotone`) and is subadditive (`TotalUnion`)
is proved at a least subset for which it would fail (`LeastSet`, from the
well-foundedness of strict inclusion), which takes no induction theorem.

**DirectTransportProofs.** `TicketsAlwaysFit`, `AnalysesPaidOnce` and
`TransportKeepsPromise`, that `Spec` implements `EarnedAnswers`, for any calls,
keys, retries and reloads. `IInv` adds to `TypeOK`, `TicketsFit` and `PaidOnce`:
what an attempt holds at each step (`AttemptOK`: the ticket being signed is of this
call and attempt and for the challenge, or for the browser's own id where none was
read), that only a call with a key shares or is
remembered (`KeysOK`), that what is remembered in memory and on disk is finished
work on its key (`MemoryOK`), and that only calls that are over have an answer
(`PendingOK`). `MemoryOK` is what the refinement needs: a cache hit answers with
work that was done. Each action has a lemma that shows the invariant and the mapped
step at once. `CancelsAreKept` adds `CancelOK`: a cancelled call waits for the Worker
(its address or its ticket) or is over, so no runner sees it again and it never comes
to sign; only the cancel itself may take it there, from the reading of a 402.

**GenSpaceRailsProofs.** `CardsAreOwn`, `CardsStayDone` and `ResultsAreKeptOnce`, for
any clicks, sessions, reloads of the dock and failing copies. Cards: a card that is
done, in the dock, on disk or on its way from there, shows its own job
(`CardsOwn`), and a restored card only fills an empty place (`RestoredLater`).
Results: a hook holds a result only of a job submitted since the page was last shown
(`HooksOwn`: `born` is the present `mount`), which is why a page that comes back, with
its refs started anew, imports nothing again. `Once` says that until a copy fails a
result is in one copy or once in the project, and `Remembered` why no effect takes it
again from the hook where it still is: the key of the last video, the flag while
images are added, the submission that was cleared.

**TimelineEditorProofs.** All six properties of the editor. `IInv`: the two stacks are
lists, every version in them and the document is a project whose ids were made by now,
and what a gesture or the clipboard still holds of an older document is made of clips
with such ids (`HeldClips`). Each of some fifty handlers has a lemma that it commits
such versions (`Handled`), with one argument for many of them: the clips it makes are
`Kin` of those there were (they show an asset one of them shows, on a track one of them
is on).

* `ClipsShowAssets` is then one conjunct of `IsProject`. What makes it inductive is that
  all versions are: undo brings back assets and clips together. The clipboard is not
  covered, which is why a paste filters (`Pasted`).
* `UndoIsALine`: `Spec` implements `VersionLine` under the mapping of `V`. A handler's
  versions are appended to a line that is cut, and only the oldest go
  (`NewestProperties`).
* `EditsKeepTracks`: `OnTracks` is carried from the document to the last version a
  handler commits; what the intermediate ones of `deleteTrack` are like does not matter.
* `OverlapsShow`, `SplitsShow` and `SplitsPair` are about the operations alone: any
  clips at any speed, reversed or not, any times, any number of clips that are moved or
  split. The first exempts the pieces `Torn` names, the second what is not `Plain`
  (section 3).
  `ResolveOverlaps` and `SplitEach` are folds: that the recursive function a fold is
  defined by exists is proved first (`OverlapsFold`, `SplitsFold`), then what it
  computes at a least set of indices for which it would fail (`LeastSet`), which takes no
  induction theorem. The invariants of the folds: moved clips stay whole and every other
  piece descends from a clip by its id (`Whole`, `Traced`), and lies inside it, so that
  a moved clip that tears a piece tears the clip it is of (`Within`); a clip that was split with a
  linked one is not split again, so that each clip is either as it was, or in halves
  whose ids are known to be new (`Known`, `Closed`).
* `OverwritesSpare`, `SplitsAreSeamless` and `TakeDeletionsSpare` apply these to the
  steps. `Handlers` says which handler a name in `did` stands for; that a clip's id was
  made before this handler (`MadeIds`) is what tells new clips and halves from old.
  `TakeDeletionsSpare` is arithmetic on the numbers of takes (`TakeFollowed`); it is
  about takes whose paths differ, since two takes of one path cannot be told apart on
  the screen.

The proofs corrected the model and a property. `TakeDeletionSpares` had no condition on
ids: two clips that share one (section 3) may show different takes. A stored project
was whatever TLC was given; now `OpeningAssumption` says what it is. `HistoryAssumption`
excludes `MaxUndo = 1`, at which `slice(-(n - 1))` keeps everything; the code has 50.

The assumptions are the named `ASSUME`s of the modules: disjoint sets of calls,
`None`, `Nothing` and the other outcomes outside the sets they stand beside
(`NoneAssumption`, `NothingAssumption`, `OutcomesAssumption`), `Requests` and `Handlers`
finite, positive face values, rails that exist (`SessionsAssumption`), a project and a
library that fit the schemas (`OpeningAssumption`, `LibraryAssumption`), times and moves
of the mouse that are integers (`TimesAssumption`, `MouseAssumption`). TLC evaluates
them in every run.

**Only model-checked**: liveness and everything with fairness (`RequestsEnd`,
`OnlyWritesHang`, `CallsEnd`, `StaleResidencyEnds`, `CreditsArrive`, `Settles`, `AloneIsKept`,
`NothingSpins`, `OnlyOpenHopsHang`: the prover handles neither fairness nor `ENABLED`).

**Only proved**: the `TypeOK`s, `InFlightExact` and `AppliedIsGranted`, which the runs exercise only through the properties that rest on
them; and `OverlapsShow`, `SplitsShow` and `SplitsPair`, which say more than the steps
of an instance do.

## 5. Not modelled, and why

Numerical code, media, parsing, signatures, logging and deployment have no protocol
to check. `evict_all`, `load_pinned` and `evict` without a card are only called by
unit tests. Most of the repository's lines are React views, generated types, panels,
catalogues, prompts and styles: they render or forward what the modelled parts keep.

* *Regeneration and gap generation in the editor* (`useRegeneration.ts`, the gap
  code of `VideoEditorTimelineEditingPanel.tsx`, `editor-actions.ts:1556` and
  `:2524`). Both run over one hook (`VideoEditor.tsx:148`). Reading it shows what a
  model would: what is started while a result is being copied is wiped by the
  `reset()` that ends the copy; its result then stays in the hook, and becomes a
  take of the next asset that is regenerated with an automatic prompt; a result is
  put on whatever timeline is shown when it arrives, into a gap that may have been
  filled; a gap from an image that has to be saved first loses its target before its
  call starts (the panel's `:946` clears it while nothing is generating); and
  `isRegenerating` of a clip is part of the undo history. Few safe statements are
  left to check.
* *Accounts, recovery, API keys*: `ledger.ts:72` looks a code up and marks it used
  in two statements, which two requests can both pass; provisioning that ends
  between creating the key and the backup code leaves an account without one. Each
  is a protocol of two statements, plain without a model.
* *Jobs, projects, settings*: no route calls `createJob` or `updateJob`; the
  settings' read, merge and write (`routes/settings.ts:50-52`) loses one of two
  overlapping updates.
* *Transport*: the choice of a runner, the FAL rail, the WebSocket rail and the
  invalidation of the cached address after a 401 or 403.
* *Generation page*: the gallery's deletions and `markDeleted`; recovery markers,
  which the web build drops as soon as it sees one.
* *Runner*: the composition of scheduler and residency (a failed eviction that is
  logged and dropped, `server.py:1063`; backfill next to a claim, `:1110`), and the
  ltx worker's own lock (`runner/ltx/server.py:440`).

## 6. Plan

1. Done: `GpuScheduler`, `ResidentWorkers`, `EngineProc`, `BerniniManager`, `TopUps`
over `CreditPromise`, `OptimisticBalance`, `DirectTransport` over `EarnedAnswers`,
`GenSpaceRails`, the timeline editor over `VersionLine`. 2. `LiveRunner`: scheduler
and residency in one model, for what neither sees alone: the memory of a card, and
that a request runs on a card where its model is loaded. 3. Done: theorems for every
safety property of the passing runs. 4. `LtxWorker`: `/load` beside `/evict`, and
image-worker's table of engines. 5. An abstract scheduler (cards as a set of leases)
refined by `GpuScheduler` between the preemptions `CardKept` names. 6. Regeneration and
gaps in the editor; accounts.
