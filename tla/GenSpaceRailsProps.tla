------------------------- MODULE GenSpaceRailsProps -------------------------
(***************************************************************************)
(* What the rails owe a user who clicks Generate.                          *)
(***************************************************************************)
EXTENDS GenSpaceRails

InLibrary(j) == \E i \in DOMAIN library : library[i] = [result |-> j, said |-> j]

(***************************************************************************)
(* A card that is done shows the result of its own job, whatever rails     *)
(* overlap, are reset or shown again meanwhile: the hook is shared and the *)
(* copy takes a while (bindId, markGenerationDone).                        *)
(***************************************************************************)
OwnCard == \A j \in Jobs : card[j].status = "done" => card[j].shows = j

(***************************************************************************)
(* No result is in the project twice while no copy has failed, though the  *)
(* effects run at every render and jobs overlap (persistedVideoKeyRef,     *)
(* addingImagesRef, the submission refs).  A copy that fails clears the    *)
(* key of a later video, which may then be copied twice.                   *)
(***************************************************************************)
ImportedOnce ==
    faults = 0 =>
      \A i, k \in DOMAIN library : library[i].result = library[k].result => i = k

(***************************************************************************)
(* A card that is done is never taken back: not by its timer, by the rail  *)
(* or by the timeline that is restored (use-chat-dock).                    *)
(***************************************************************************)
DoneStays ==
    [][\A j \in Jobs : card[j].status = "done" => card'[j].status \in {"done", "none"}]_vars

(***************************************************************************)
(* A job that has the rails to itself is not lost: a result that arrives   *)
(* ends up in the project with the prompt of its job.                      *)
(***************************************************************************)
AloneIsKept ==
    \A j \in Jobs : call[j] = "landed" ~> (InLibrary(j) \/ j \in disturbed)

(***************************************************************************)
(* Nothing spins for ever: the flag of the shared hook falls and every     *)
(* card leaves "running", also when a call vanishes (the watchdog of       *)
(* use-generation, the backstop of use-chat-dock).                         *)
(***************************************************************************)
NothingSpins ==
    /\ hook["generation"].busy ~> ~hook["generation"].busy
    /\ \A j \in Jobs : card[j].status = "running" ~> card[j].status # "running"

(***************************************************************************)
(* What GenSpace.tsx:2499 says of itself: resilient to multiple            *)
(* generations in flight, it detects every result that lands.              *)
(***************************************************************************)
EveryResultKept ==
    [](errors = {}) => \A j \in Jobs :
      call[j] = "landed" ~> \E i \in DOMAIN library : library[i].result = j
=============================================================================
