---------------------------- MODULE MCCycleSearch ----------------------------
(***************************************************************************)
(* CycleSearch on every graph over some of three services with edges to    *)
(* any of the three.                                                       *)
(***************************************************************************)
EXTENDS CycleSearch

MCIds == 1..3

=============================================================================
