-------------------------- MODULE MCGenSpaceRails --------------------------
(* TLC instances of the rails: every pair of rails on a page that stays, a  *)
(* few on a page that is left and shown again.                              *)
EXTENDS GenSpaceRailsProps

Stay  == [kinds |-> AllKinds, mounts |-> 1]
Leave == [kinds |-> {"image", "edit", "retake"}, mounts |-> 2]

Visits == {Stay, Leave}
Images == {[kinds |-> {"image"}, mounts |-> 1]}
=============================================================================
