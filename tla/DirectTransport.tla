-------------------------- MODULE DirectTransport ---------------------------
(***************************************************************************)
(* lib/direct-transport.ts with lib/sse-stream.ts and                      *)
(* lib/runtime/vision-cache.ts: how the browser gets work done by a runner *)
(* it pays.  One call is                                                   *)
(*                                                                         *)
(*   look (analysis calls: disk cache, then the promise in flight)         *)
(*   address -> probe -> 402 body -> sign -> paid POST -> stream or JSON   *)
(*        ^-------- back off after a 503, MaxRetries times --------|       *)
(*                                                                         *)
(* Every await is a step of its own, so two calls, the user's cancel, a    *)
(* timer and a reload of the page come between any two of them.            *)
(*                                                                         *)
(* External: the Worker (address, ticket) and the orchestrator with its    *)
(* runner, which may answer, refuse, die or keep silent at every point     *)
(* (the Worker may also sign for params that are empty); time is a timer   *)
(* that may fire whenever it is armed.  Left out: the choice of the        *)
(* runner, the payloads, progress events, and FAL and the WebSocket rail,  *)
(* which ask for no ticket.                                                *)
(***************************************************************************)
EXTENDS Naturals, FiniteSets

CONSTANTS Calls,        \* the calls the page makes
          Keys,         \* content hashes of analysed images (with the prompt)
          Pages,        \* what the calls of a page are: [Calls -> [rail, signal, key]]
          MaxRetries,   \* MAX_503_RETRIES
          MaxReloads,   \* bound: reloads of the page
          None

Asks == [rail : {"stream", "json"}, signal : BOOLEAN, key : Keys \cup {None}]

ASSUME PagesAreCalls ==
  /\ Pages \subseteq [Calls -> Asks]
  /\ None \notin Keys \cup Calls
  /\ Calls \cap {"pending", "error", "gone"} = {}
ASSUME BoundsAreNaturals == MaxRetries \in Nat /\ MaxReloads \in Nat

VARIABLES
  ask,        \* [Calls -> Asks]
  step,       \* [Calls -> Steps]: the await the call is at
  retries,    \* [Calls -> 0 .. MaxRetries]
  cancelled,  \* [Calls -> BOOLEAN]: its AbortSignal has fired
  expects,    \* [Calls -> Manifest or None]: what the challenge asks for, once it is read
  manifest,   \* [Calls -> Manifest or None]: manifestId of the attempt
  ticket,     \* [Calls -> Manifest or None]: what the attempt's ticket is signed for
  tickets,    \* [Calls -> Nat]: tickets signed for the call
  job,        \* [Calls -> Jobs]: the runner's work on the POST it accepted
  answer,     \* [Calls -> "pending", "error", "gone" or the call whose work it is]
  inFlight,   \* [Keys -> Calls or None]: the promise per key
  cache,      \* [Keys -> Calls or None]: the hydrated entries
  disk,       \* [Keys -> Calls or None]: the row in IndexedDB
  reloads

attempt == <<expects, manifest, ticket>>
vars == <<ask, step, retries, cancelled, attempt, tickets, job, answer, inFlight, cache, disk, reloads>>

Steps == {"idle", "look", "shared", "address", "probe", "challenge", "sign", "paid", "wait",
          "stream", "read", "over"}
Jobs == {"none", "running", "finished", "failed"}
Manifest == [call : Calls, try : 0 .. MaxRetries, by : {"browser", "orchestrator"}]

Fetches == {"probe", "paid", "stream", "read"}      \* steps an abort ends at once
Key(c) == ask[c].key

-----------------------------------------------------------------------------
(* The end of a call: its own promise, those that share it, the entry of    *)
(* the promise in flight and, for a result, the cache.                      *)

Sharing(c) ==
  {d \in Calls : Key(c) # None /\ step[d] = "shared" /\ Key(d) = Key(c)}

\* mutant: the entry is stored when the promise settles, however it settles
RememberedAlways(c, v) ==
  IF Key(c) # None THEN [cache EXCEPT ![Key(c)] = c] ELSE cache

Remembered(c, v) ==
  IF Key(c) # None /\ v = c THEN [cache EXCEPT ![Key(c)] = v] ELSE cache

Finish(c, v) ==
  LET ends == {c} \cup Sharing(c) IN
  /\ step' = [d \in Calls |-> IF d \in ends THEN "over" ELSE step[d]]
  /\ answer' = [d \in Calls |-> IF d \in ends THEN v ELSE answer[d]]
  /\ inFlight' = IF Key(c) # None THEN [inFlight EXCEPT ![Key(c)] = None] ELSE inFlight
  /\ cache' = Remembered(c, v)
  /\ expects' = [expects EXCEPT ![c] = None]
  /\ manifest' = [manifest EXCEPT ![c] = None]
  /\ ticket' = [ticket EXCEPT ![c] = None]
  /\ UNCHANGED <<ask, retries, disk, reloads>>

Go(c, s) ==
  /\ step' = [step EXCEPT ![c] = s]
  /\ UNCHANGED <<ask, answer, inFlight, cache, disk, reloads>>

-----------------------------------------------------------------------------
(* The cache in front of the analysis calls.                                *)

Ask(c) ==
  /\ step[c] = "idle"
  /\ Go(c, IF Key(c) = None THEN "address" ELSE "look")
  /\ UNCHANGED <<retries, cancelled, attempt, tickets, job>>

Hit(c) ==
  /\ step[c] = "look" /\ cache[Key(c)] # None
  /\ step' = [step EXCEPT ![c] = "over"]
  /\ answer' = [answer EXCEPT ![c] = cache[Key(c)]]
  /\ UNCHANGED <<ask, retries, cancelled, attempt, tickets, job, inFlight, cache, disk, reloads>>

\* mutant: a miss runs, whatever is in flight
SharesNothing(c) == FALSE

Shares(c) == inFlight[Key(c)] # None

Miss(c) ==
  /\ step[c] = "look" /\ cache[Key(c)] = None
  /\ step' = [step EXCEPT ![c] = IF Shares(c) THEN "shared" ELSE "address"]
  /\ inFlight' = IF Shares(c) THEN inFlight ELSE [inFlight EXCEPT ![Key(c)] = c]
  /\ UNCHANGED <<ask, retries, cancelled, attempt, tickets, job, answer, cache, disk, reloads>>

(* A value that was set puts the whole map in its row.                      *)
Persist ==
  /\ \E k \in Keys : cache[k] \notin {None, disk[k]}
  /\ disk' = cache
  /\ UNCHANGED <<ask, step, retries, cancelled, attempt, tickets, job, answer, inFlight, cache, reloads>>

-----------------------------------------------------------------------------
(* One attempt of the handshake (attemptInference).  A fetch whose signal   *)
(* has fired throws before anything is sent.                                *)

AddressArrives(c) ==
  /\ step[c] = "address"
  /\ IF cancelled[c]
       THEN Finish(c, "error")
       ELSE /\ Go(c, "probe")
            /\ manifest' = [manifest EXCEPT ![c] = [call |-> c, try |-> retries[c], by |-> "browser"]]
            /\ expects' = [expects EXCEPT ![c] = None]
            /\ ticket' = [ticket EXCEPT ![c] = None]
            /\ UNCHANGED retries
  /\ UNCHANGED <<cancelled, tickets, job>>

AddressFails(c) ==
  /\ step[c] = "address"
  /\ Finish(c, "error")
  /\ UNCHANGED <<cancelled, tickets, job>>

\* mutant: the ticket is asked for under the id made up at the start
OwnManifest(c, m) == manifest[c]

(* The manifest to sign for: the one the challenge names, else our own.     *)
Challenged(c, m) == IF m.by = "orchestrator" THEN m ELSE manifest[c]

(* The headers of a 402 come; its body is still to be read.                 *)
Demand(c) ==
  /\ step[c] = "probe" /\ job[c] = "none"
  /\ Go(c, "challenge")
  /\ UNCHANGED <<retries, cancelled, attempt, tickets, job>>

Challenge(c) ==
  /\ step[c] = "challenge"
  /\ \E by \in {"browser", "orchestrator"} :
       LET m == [call |-> c, try |-> retries[c], by |-> by] IN
         /\ expects' = [expects EXCEPT ![c] = m]
         /\ manifest' = [manifest EXCEPT ![c] = Challenged(c, m)]
  /\ Go(c, "sign")
  /\ UNCHANGED <<retries, cancelled, ticket, tickets, job>>

(* The body of the 402 cannot be read: catch(() => null), and a ticket is   *)
(* asked for empty params under the id made up at the start.  The timer of  *)
(* the probe and the user's cancel end the reading the same way.            *)
ChallengeLost(c) ==
  /\ step[c] = "challenge"
  /\ Go(c, "sign")
  /\ UNCHANGED <<retries, cancelled, attempt, tickets, job>>

\* mutant: the paid POST is guarded by its header timer alone
SendsAnyway(c) == TRUE

(* The ticket arrives.  The sign request has no signal: a user who          *)
(* cancelled meanwhile has a ticket, and the paid fetch throws unsent.      *)
SendsPaid(c) == ~cancelled[c]

Signed(c) ==
  /\ step[c] = "sign"
  /\ tickets' = [tickets EXCEPT ![c] = @ + 1]
  /\ IF SendsPaid(c)
       THEN /\ ticket' = [ticket EXCEPT ![c] = manifest[c]]
            /\ Go(c, "paid")
            /\ UNCHANGED <<retries, expects, manifest>>
       ELSE Finish(c, "error")
  /\ UNCHANGED <<cancelled, job>>

SignFails(c) ==
  /\ step[c] = "sign"
  /\ Finish(c, "error")
  /\ UNCHANGED <<cancelled, tickets, job>>

\* mutant: the count starts again with each attempt
CountedAnew(c) == [retries EXCEPT ![c] = 0]

(* 503: every retry is a whole new handshake.                               *)
Counted(c) == [retries EXCEPT ![c] = @ + 1]

Busy(c) ==
  /\ step[c] \in {"probe", "paid"} /\ job[c] = "none"
  /\ IF retries[c] < MaxRetries /\ ~cancelled[c]
       THEN Go(c, "wait") /\ retries' = Counted(c) /\ UNCHANGED attempt
       ELSE Finish(c, "error")
  /\ UNCHANGED <<cancelled, tickets, job>>

BackOff(c) ==
  /\ step[c] = "wait"
  /\ Go(c, "address")
  /\ UNCHANGED <<retries, cancelled, attempt, tickets, job>>

(* Any other refusal (401 and 403 included), or a connection that fails.    *)
Refused(c) ==
  /\ step[c] \in {"probe", "paid"}
  /\ Finish(c, "error")
  /\ UNCHANGED <<cancelled, tickets, job>>

-----------------------------------------------------------------------------
(* The runner's work, and what the browser sees of it.  A free runner takes *)
(* the probe itself; SSE headers come at once, a JSON answer at the end.    *)

Accept(c) ==
  /\ step[c] \in {"probe", "paid"} /\ job[c] = "none"
  /\ job' = [job EXCEPT ![c] = "running"]
  /\ UNCHANGED <<ask, step, retries, cancelled, attempt, tickets, answer, inFlight, cache, disk, reloads>>

Work(c) ==
  /\ job[c] = "running"
  /\ \E s \in {"finished", "failed"} : job' = [job EXCEPT ![c] = s]
  /\ UNCHANGED <<ask, step, retries, cancelled, attempt, tickets, answer, inFlight, cache, disk, reloads>>

Opens(c) ==
  /\ step[c] \in {"probe", "paid"}
  /\ \/ job[c] # "none" /\ ask[c].rail = "stream" /\ Go(c, "stream")
     \/ job[c] = "finished" /\ Go(c, "read")
  /\ UNCHANGED <<retries, cancelled, attempt, tickets, job>>

Completes(c) ==
  /\ step[c] \in {"stream", "read"} /\ job[c] = "finished"
  /\ Finish(c, c)
  /\ UNCHANGED <<cancelled, tickets, job>>

(* An error event, a broken connection, a stream that ends with no terminal *)
(* event, or a payload that cannot be read.                                 *)
Breaks(c) ==
  /\ step[c] \in {"stream", "read"}
  /\ Finish(c, "error")
  /\ UNCHANGED <<cancelled, tickets, job>>

-----------------------------------------------------------------------------
(* Timers.  The 20 s of the probe are armed only without a caller's signal, *)
(* and then stay on the body of its answer; the 60 s of the paid POST end   *)
(* with its headers; a stream has an idle and a total limit.                *)

Guarded(c) ==
  \/ step[c] \in {"paid", "stream"}
  \/ step[c] \in {"probe", "challenge", "read"} /\ ticket[c] = None /\ ~ask[c].signal

Timer(c) ==
  /\ Guarded(c)
  /\ IF step[c] = "challenge"
       THEN Go(c, "sign") /\ UNCHANGED <<retries, attempt>>
       ELSE Finish(c, "error")
  /\ UNCHANGED <<cancelled, tickets, job>>

(* The user cancels: fetches and readers end, a back-off and the reading of *)
(* a 402 are cut short, the two requests to the Worker go on.               *)
Onward == [address |-> "address", challenge |-> "sign", sign |-> "sign", wait |-> "address"]

Cancel(c) ==
  /\ ask[c].signal /\ ~cancelled[c]
  /\ step[c] \in Fetches \cup DOMAIN Onward
  /\ cancelled' = [cancelled EXCEPT ![c] = TRUE]
  /\ IF step[c] \in Fetches
       THEN Finish(c, "error")
       ELSE Go(c, Onward[step[c]]) /\ UNCHANGED <<retries, attempt>>
  /\ UNCHANGED <<tickets, job>>

(* The map is read back from its row, unless the row cannot be read.        *)
Reload ==
  /\ reloads < MaxReloads
  /\ reloads' = reloads + 1
  /\ step' = [c \in Calls |-> IF step[c] = "idle" THEN "idle" ELSE "over"]
  /\ answer' = [c \in Calls |-> IF step[c] \in {"idle", "over"} THEN answer[c] ELSE "gone"]
  /\ inFlight' = [k \in Keys |-> None]
  /\ cache' \in {disk, [k \in Keys |-> None]}
  /\ expects' = [c \in Calls |-> None]
  /\ manifest' = [c \in Calls |-> None]
  /\ ticket' = [c \in Calls |-> None]
  /\ UNCHANGED <<ask, retries, cancelled, tickets, job, disk>>

-----------------------------------------------------------------------------
Init ==
  /\ ask \in Pages
  /\ step = [c \in Calls |-> "idle"]
  /\ retries = [c \in Calls |-> 0]
  /\ cancelled = [c \in Calls |-> FALSE]
  /\ expects = [c \in Calls |-> None]
  /\ manifest = [c \in Calls |-> None]
  /\ ticket = [c \in Calls |-> None]
  /\ tickets = [c \in Calls |-> 0]
  /\ job = [c \in Calls |-> "none"]
  /\ answer = [c \in Calls |-> "pending"]
  /\ inFlight = [k \in Keys |-> None]
  /\ cache = [k \in Keys |-> None]
  /\ disk = [k \in Keys |-> None]
  /\ reloads = 0

Browser(c) ==
  \/ Ask(c) \/ Hit(c) \/ Miss(c) \/ BackOff(c) \/ Timer(c) \/ Cancel(c)

Worker(c) ==
  \/ AddressArrives(c) \/ AddressFails(c) \/ Signed(c) \/ SignFails(c)

Runner(c) ==
  \/ Demand(c) \/ Challenge(c) \/ ChallengeLost(c) \/ Busy(c) \/ Refused(c) \/ Accept(c) \/ Work(c)
  \/ Opens(c) \/ Completes(c) \/ Breaks(c)

Next ==
  \/ \E c \in Calls : Browser(c) \/ Worker(c) \/ Runner(c)
  \/ Persist
  \/ Reload

Spec == Init /\ [][Next]_vars

(* What the page itself guarantees: its continuations run and its timers    *)
(* fire.  Nothing is assumed of the Worker, the orchestrator or the runner. *)
FairSpec ==
  /\ Spec
  /\ \A c \in Calls : WF_vars(Hit(c)) /\ WF_vars(Miss(c)) /\ WF_vars(BackOff(c))
                      /\ WF_vars(Timer(c))
=============================================================================
