--------------------------- MODULE MCGpuScheduler ---------------------------
(* TLC instances of the GPU scheduler.                                      *)
EXTENDS GpuSchedulerProps, TLC

CONSTANTS gemma, ltx, image, none, r1, r2, r3, b1

MCRank == [w \in Workers |-> IF w = ltx THEN 0 ELSE IF w = gemma THEN 1 ELSE 2]

Poll(u, claimOf(_)) == [up |-> u, claim |-> [g \in GPUs |-> claimOf(g)]]

\* A worker that does not answer, while the others report no device (an engine
\* not loaded yet): its cards are freed.  And each card claimed by a worker:
\* whatever the slots say is overwritten, under running requests too.
MixedPolls ==
    {Poll(Workers \ {image}, LAMBDA g : none),
     Poll(Workers, LAMBDA g : IF g = GemmaGpu THEN gemma ELSE IF g = 1 THEN ltx ELSE image)}

NoPolls == {}

\* For the safety run only.
Symm == Permutations(Requests)
=============================================================================
