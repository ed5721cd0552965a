----------------------------- MODULE MCStateFile -----------------------------
(***************************************************************************)
(* One dataset that a restart finds again and one that it does not.        *)
(***************************************************************************)
EXTENDS StateFile
=============================================================================
