-------------------------------- MODULE MCUtc --------------------------------
(***************************************************************************)
(* A plan that puts its points on in its first offset, names none in the   *)
(* second and puts them off afterwards.                                    *)
(***************************************************************************)
EXTENDS Utc

MCNamed == [p \in Plans |-> [o \in 0..Offsets - 1 |->
              IF o = 1 THEN {} ELSE Points]]
MCMask == [p \in Plans |-> [o \in 0..Offsets - 1 |->
             IF o = 0 THEN Points ELSE {}]]
=============================================================================
