---------------------------- MODULE StageForcing ----------------------------
(***************************************************************************)
(* What the stage-forcing task of the MOVA kernel promises to the signal   *)
(* controller, without saying how it waits.                                *)
(*                                                                         *)
(* At any time at most one stage is forced.  The task either rests, and    *)
(* may then force a stage or release the one it forces, or is watching a   *)
(* stage change it has asked for.  While it watches, the controller never  *)
(* sees another stage forced: the change is completed (the force is kept)  *)
(* or abandoned (the force is released) first.  The rest of the kernel may *)
(* take the force away at any moment, but can never put one on.            *)
(***************************************************************************)
EXTENDS Naturals

CONSTANT NStages          \* number of stages in the running dataset

VARIABLES forced,         \* the stage forced, 0 for none
          changing        \* TRUE while a stage change is being watched

abstractVars == <<forced, changing>>

Stages == 1..NStages

AbstractInit == forced = 0 /\ changing = FALSE

(* A stage is forced; unless it is already running its arrival is watched. *)
Force(s) == /\ ~changing
            /\ forced' = s
            /\ changing' \in BOOLEAN

(* The change ended as asked, or what was asked no longer stands.          *)
Complete == /\ changing
            /\ changing' = FALSE
            /\ UNCHANGED forced

(* The change did not happen in time, or another stage came up.            *)
Abandon == /\ changing
           /\ changing' = FALSE
           /\ forced' = 0

(* Control is handed back, by the task itself or by the rest of the kernel.*)
Release == /\ forced' = 0
           /\ UNCHANGED changing

AbstractNext == \/ \E s \in Stages : Force(s)
                \/ Complete
                \/ Abandon
                \/ Release

AbstractSpec == AbstractInit /\ [][AbstractNext]_abstractVars
=============================================================================
