------------------------------ MODULE MCProgram ------------------------------
(* Constants for the model checking of ProgramController.                  *)
EXTENDS ProgramController

MCMinGreen == [s \in Stages |-> IF s = 1 THEN 2 ELSE 1]
=============================================================================
