---------------------------- MODULE MCNextStage ----------------------------
(* Constants for the model checking of NextStage: what a cell of change[]  *)
(* may hold, with changes reserved for emergency and priority.              *)
EXTENDS NextStage

MCReserved == {-1, -50, 50}
MCMarkers == {-6, 0, 2}
=============================================================================
