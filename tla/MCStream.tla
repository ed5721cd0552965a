------------------------------ MODULE MCStream ------------------------------
(***************************************************************************)
(* The commands of the runs.  The tick threads of a stream are             *)
(* interchangeable (for runs of safety properties only).                   *)
(***************************************************************************)
EXTENDS Stream, TLC

CONSTANTS
  Ipc,          \* a connection
  Tools         \* the MOVA Tools

(* The commands of a connection that start or stop the stream.             *)
MCLife == [h \in Handlers |-> {"LOAD", "UNLOAD", "START", "STOP", "RESET"}]

(* A connection beside the MOVA Tools, which can force stages.             *)
MCBoth ==
  [h \in Handlers |-> IF h = Ipc THEN {"LOAD"}
                      ELSE {"CLEAR_ERRORS", "FORCE", "UNFORCE"}]

(* The run of the safety properties ends at a race, beyond which most of   *)
(* them promise nothing.                                                   *)
Unraced == ~raced

ThreadSymmetry == Permutations(Threads)
=============================================================================
