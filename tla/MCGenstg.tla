------------------------------ MODULE MCGenstg ------------------------------
(* Constants for the model checking of Genstg: two stages out of three     *)
(* force channels, so that stage 3 can be demanded although it is not in   *)
(* the dataset, and two calls before a timeout.                            *)
EXTENDS Genstg

MCErrVal == [e \in ErrorIds |-> IF e = "INVALID_STAGE_DEMANDED" THEN 2 ELSE 1]

(* Intergreens in tenths: the change from the first stage to the second    *)
(* is always permitted, the one back only in light traffic (negative), and *)
(* the rows and columns of the unused stage forbid everything.             *)
MCChange == [c \in Cells |-> CASE c = <<0, 1>> -> 5
                               [] c = <<1, 0>> -> -5
                               [] OTHER -> -1]
=============================================================================
