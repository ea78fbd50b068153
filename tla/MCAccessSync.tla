---------------------------- MODULE MCAccessSync ----------------------------
(* An instance for TLC: the first change of the server's database removes  *)
(* the point of the passages.                                              *)
EXTENDS AccessSync

PointsGone == [p \in Passages |-> 1]
=============================================================================
