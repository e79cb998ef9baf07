---------------------------- MODULE VersionLine ----------------------------
(***************************************************************************)
(* What undo and redo promise: the document is one of a line of versions.  *)
(* An edit drops the versions after it and appends its own, undo and redo  *)
(* walk the line, and only the oldest versions are ever forgotten.         *)
(***************************************************************************)
EXTENDS Integers, Sequences, SequencesExt

CONSTANT
    Depth       \* versions that undo can reach back

VARIABLES
    versions,
    at          \* the version that is current

line == <<versions, at>>

\* The last n elements of a sequence that may be shorter.
Newest(s, n) == SubSeq(s, IF Len(s) > n THEN Len(s) - n + 1 ELSE 1, Len(s))

Init == at = 1 /\ Len(versions) = 1

\* One handler may commit several versions.
Commit ==
    \E n \in 1..Len(versions') :
      /\ at' = Len(versions')
      /\ versions' = Newest(SubSeq(versions, 1, at) \o Newest(versions', n), Depth + 1)

Back == at > 1 /\ at' = at - 1 /\ UNCHANGED versions

Forth == at < Len(versions) /\ at' = at + 1 /\ UNCHANGED versions

Next == Commit \/ Back \/ Forth

Spec == Init /\ [][Next]_line
=============================================================================
