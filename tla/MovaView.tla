------------------------------ MODULE MovaView ------------------------------
(***************************************************************************)
(* What the main loop of the kernel sees of the parts it calls, MOVA being *)
(* a record with the fields it knows:                                      *)
(*   warmup     the starts of green seen since MOVA was last off           *)
(*   green      whether the last scan of the program controller saw one    *)
(*   onControl  whether io[ON_CONTROL] is set                              *)
(*   forced     whether a force bit is on                                  *)
(* Monitr calls the parts by these operators.  Genstg has the task that    *)
(* forces stages, ProgramController the scans, and both are shown to do no *)
(* more than is said here.                                                 *)
(***************************************************************************)
EXTENDS Integers

Leaves(m, on, f) == [m EXCEPT !.onControl = on, !.forced = f]

(* A call never puts MOVA on control; where it takes it off, by an error   *)
(* or because MOVA is disabled, it leaves no force bit on; and it puts     *)
(* force bits on only on control.                                          *)
GenstgOutcomes(m) ==
  {n \in {Leaves(m, on, f) : on \in {0, 1}, f \in {0, 1}} :
     /\ n.onControl <= m.onControl
     /\ n.onControl < m.onControl => n.forced = 0
     /\ n.forced > m.forced => n.onControl = 1}

(* GS_check_and_update_io_flags(): refused by the error count or the       *)
(* controller, or called on control as far as MOVA is enabled.             *)
GSCheckOutcomes(m) ==
  {m} \union UNION {GenstgOutcomes([m EXCEPT !.onControl = on]) : on \in {0, 1}}

(* A scan of the program controller that finds this stage on the street: a *)
(* start of green counts towards the warm-up.                              *)
Counted(m, stage, stages) ==
  LET start == stage # 0 /\ m.green = 0
  IN [m EXCEPT !.green = IF stage = 0 THEN 0 ELSE 1,
               !.warmup = IF start /\ @ <= stages THEN @ + 1 ELSE @]
=============================================================================
