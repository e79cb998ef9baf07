------------------------ MODULE DirectTransportProps ------------------------
(***************************************************************************)
(* Properties of DirectTransport.                                          *)
(***************************************************************************)
EXTENDS DirectTransport

(* The types of the state.                                                  *)
TypeOK ==
  /\ ask \in [Calls -> Asks] /\ step \in [Calls -> Steps]
  /\ retries \in [Calls -> 0 .. MaxRetries] /\ cancelled \in [Calls -> BOOLEAN]
  /\ expects \in [Calls -> Manifest \cup {None}]
  /\ manifest \in [Calls -> Manifest \cup {None}]
  /\ ticket \in [Calls -> Manifest \cup {None}]
  /\ tickets \in [Calls -> Nat] /\ job \in [Calls -> Jobs]
  /\ answer \in [Calls -> {"pending", "error", "gone"} \cup Calls]
  /\ inFlight \in [Keys -> Calls \cup {None}]
  /\ cache \in [Keys -> Calls \cup {None}] /\ disk \in [Keys -> Calls \cup {None}]
  /\ reloads \in Nat

Running == {"address", "probe", "challenge", "sign", "paid", "wait", "stream", "read"}

(* Paid work is paid by its own ticket: a paid POST carries the ticket of   *)
(* the very call and attempt, signed for the manifest its challenge asked   *)
(* for ("or go-livepeer rejects the retry"); no attempt signs two tickets,  *)
(* so a call costs at most MaxRetries + 1.  The exception is an attempt     *)
(* whose challenge could not be read (expects is None): it asks and pays    *)
(* under the browser's own id, whatever the challenge named.                *)
TicketsFit ==
  \A c \in Calls :
    /\ step[c] = "paid" =>
         /\ ticket[c] \in Manifest /\ ticket[c].call = c /\ ticket[c].try = retries[c]
         /\ ticket[c] = expects[c] \/ (expects[c] = None /\ ticket[c].by = "browser")
    /\ tickets[c] <= retries[c] + 1
    /\ retries[c] <= MaxRetries

(* One analysis is paid once: a call that runs for a key is the promise in  *)
(* flight of that key, and nothing runs for a key whose result the page     *)
(* knows, whatever fails, is shared or is reloaded.  (A reload that cannot  *)
(* read the disk knows nothing.)                                            *)
PaidOnce ==
  \A c \in Calls :
    step[c] \in Running /\ Key(c) # None =>
      inFlight[Key(c)] = c /\ cache[Key(c)] = None

(* After the user's cancel no paid POST leaves and no ticket is asked for:  *)
(* a cancelled call never comes to sign, and a signature asked for before   *)
(* ends it when it arrives.  The exception is the cancel itself: one that   *)
(* breaks off the reading of a 402 is swallowed there, and a last ticket is *)
(* asked for at once, without the challenge; it is not spent either.        *)
CancelStopsSpending ==
  [][\A c \in Calls :
       /\ cancelled[c] => /\ step'[c] # "paid"
                          /\ step'[c] = "sign" => step[c] = "sign"
                          /\ tickets'[c] # tickets[c] => step'[c] = "over"
       /\ cancelled'[c] # cancelled[c] /\ step'[c] = "sign" =>
            \/ step[c] = "sign"
            \/ step[c] = "challenge" /\ expects'[c] = None]_vars

(* The transport keeps the promise of EarnedAnswers: through retries,       *)
(* streams, the shared promise, the cache and reloads, a call is answered   *)
(* once and with finished work on its own question.                         *)
Promise == INSTANCE EarnedAnswers WITH
  question <- [c \in Calls |-> IF Key(c) = None THEN c ELSE Key(c)],
  earned <- {c \in Calls : job[c] = "finished"}

AnswersAreEarned == Promise!Spec

(* The hops no timer watches: the two requests to the Worker, the probe of  *)
(* a call with a signal of its own and the body of its 402, and a JSON body *)
(* once its headers came.                                                   *)
AtOpenHop(c) ==
  LET d == IF step[c] = "shared" THEN inFlight[Key(c)] ELSE c IN
    step[d] \in {"address", "sign", "probe", "challenge", "read"} /\ ~Guarded(d)

(* Nothing else can hang: a call that is asked is settled, unless it stays  *)
(* at an open hop for ever.  The back-off ends, the retries end, a stream   *)
(* ends, and whoever shares a promise ends with it.                         *)
OnlyOpenHopsHang ==
  \A c \in Calls : []<>(step[c] \in {"idle", "over"}) \/ <>[]AtOpenHop(c)
=============================================================================
