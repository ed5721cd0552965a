----------------------------- MODULE StageScan -----------------------------
(***************************************************************************)
(* The stage confirms: the part of detscn() (M8.0/kernel/detscn.c) that    *)
(* turns the stage confirm inputs, read every 100 ms, into snow, the stage *)
(* the rest of the kernel takes to be running (0 is an intergreen).        *)
(*                                                                         *)
(* A reading counts when a second scan repeats it; more than one confirm   *)
(* drops the stage at once; a stage the dataset bans a change to is held   *)
(* off for a number of scans.  A scan that finds a new dataset leaves the  *)
(* stage alone: it is a stuttering step here.  The greens of the links are *)
(* not modelled.                                                           *)
(***************************************************************************)
EXTENDS ScanData, FiniteSets

VARIABLES
  confin,           \* the stages whose confirm input is on
  newstg,           \* what the last scan read
  oldstg, savstg,   \* the stage confirmed, the reading waiting for a second
  snow,             \* Tcomshr->snow
  multi,            \* io[MULTI_STAGE_CONF]
  wrongCount        \* wrong_stg_counter

scanned == <<newstg, oldstg, savstg, snow, multi, wrongCount>>
vars == <<confin, scanned>>

Init ==
  /\ confin \in SUBSET Stages
  /\ newstg = 0 /\ oldstg = 0 /\ savstg = 0 /\ snow = 0
  /\ multi = 0
  /\ wrongCount = 0

-----------------------------------------------------------------------------
(* MI_set_stages_confirmation(), at the start of a tick.                   *)
Confirms ==
  /\ confin' \in SUBSET Stages
  /\ UNCHANGED scanned

(* check_multiple_stages_confirm()                                         *)
SeveralConfirms == \E s, t \in confin : s # t
Reading == IF confin = {} THEN 0 ELSE CHOOSE s \in confin : TRUE

(* reset_multiple_stages_confirm_data()                                    *)
MultipleStages ==
  /\ multi' = 1
  /\ oldstg' = 0 /\ snow' = 0 /\ savstg' = 0 /\ newstg' = 0
  /\ UNCHANGED wrongCount

(* Mutant of Intergreen: the first scan with no confirm is an intergreen.  *)
IntergreenAtOnce ==
  /\ oldstg' = 0 /\ snow' = 0 /\ savstg' = 0
  /\ UNCHANGED wrongCount

(* No confirm: an intergreen that continues, or the first or the second    *)
(* scan of a new one.                                                      *)
Intergreen ==
  /\ IF oldstg # 0 /\ savstg = 0
       THEN oldstg' = 0 /\ snow' = 0
       ELSE UNCHANGED <<oldstg, snow>>
  /\ savstg' = 0
  /\ UNCHANGED wrongCount

FirstScan(s) == s = oldstg \/ s # savstg

ChangePermitted(s) == oldstg = 0 \/ <<oldstg, s>> \notin Banned

(* Mutant of Accept: the stage is shown but not remembered.                *)
AcceptShownOnly(s) == snow' = s /\ wrongCount' = 0 /\ UNCHANGED oldstg

(* update_stage_data() and update_links_greens()                           *)
Accept(s) == oldstg' = s /\ snow' = s /\ wrongCount' = 0

(* Mutant of WrongStage: a banned change is never accepted.                *)
WrongStageNever(s) ==
  /\ UNCHANGED <<oldstg, snow>>
  /\ wrongCount' = IF wrongCount < WrongScans THEN wrongCount + 1 ELSE wrongCount

WrongStage(s) ==
  IF wrongCount + 1 >= WrongScans
    THEN Accept(s)
    ELSE wrongCount' = wrongCount + 1 /\ UNCHANGED <<oldstg, snow>>

OneStage(s) ==
  /\ \/ FirstScan(s) /\ UNCHANGED <<oldstg, snow, wrongCount>>
     \/ ~FirstScan(s) /\ ChangePermitted(s) /\ Accept(s)
     \/ ~FirstScan(s) /\ ~ChangePermitted(s) /\ WrongStage(s)
  /\ savstg' = s

(* detscn()                                                                *)
Scan ==
  /\ \/ SeveralConfirms /\ MultipleStages
     \/ /\ ~SeveralConfirms
        /\ newstg' = Reading
        /\ multi' = 0
        /\ \/ Reading = 0 /\ Intergreen
           \/ Reading # 0 /\ OneStage(Reading)
  /\ UNCHANGED confin

Next == Confirms \/ Scan

Spec == Init /\ [][Next]_vars

(* monitr() calls detscn() on every tick of the stream's thread; only the  *)
(* scan that finds a new dataset reads no confirms.                        *)
FairSpec == Spec /\ WF_vars(Scan)

-----------------------------------------------------------------------------
TypeOK ==
  /\ confin \in SUBSET Stages
  /\ newstg \in 0..NStages /\ oldstg \in 0..NStages /\ savstg \in 0..NStages
  /\ snow \in 0..NStages
  /\ multi \in {0, 1}
  /\ wrongCount \in 0..WrongScans - 1

(* The statics of detscn() and the shared data agree: the stage confirmed  *)
(* is the stage shown, the reading saved is the reading of the last scan   *)
(* and a scan with several confirms leaves an intergreen.                  *)
Coupled ==
  /\ oldstg = snow
  /\ savstg = newstg
  /\ multi = 1 => newstg = 0 /\ snow = 0

(* The stage shown changes only to what two scans in succession read, or   *)
(* to an intergreen on several confirms; so a glitch of one scan on one    *)
(* confirm never starts or ends a stage.                                   *)
ConfirmedTwice ==
  [][snow' # snow => /\ newstg' = snow'
                     /\ newstg = snow' \/ multi' = 1]_vars

(* Inputs that stay as they are become the stage shown, by way of a banned *)
(* change too, and stay it.                                                *)
Settles ==
  /\ \A s \in Stages : <>[](confin = {s}) => <>[](snow = s /\ multi = 0)
  /\ <>[](confin = {}) => <>[](snow = 0 /\ multi = 0)
  /\ <>[]SeveralConfirms => <>[](snow = 0 /\ multi = 1)
=============================================================================
