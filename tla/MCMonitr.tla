------------------------------ MODULE MCMonitr ------------------------------
(* Constants for the model checking of Monitr: one change of the two is    *)
(* banned.                                                                 *)
EXTENDS Monitr

MCBanned == {<<1, 2>>}
=============================================================================
