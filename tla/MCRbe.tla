-------------------------------- MODULE MCRbe --------------------------------
(***************************************************************************)
(* One reply signal: the signals of a field go together in every inform.   *)
(***************************************************************************)
EXTENDS Rbe
=============================================================================
