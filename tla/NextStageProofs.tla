-------------------------- MODULE NextStageProofs --------------------------
(* Proofs about the choice of the next stage, for every number of stages,  *)
(* dataset and set of demands.                                             *)
EXTENDS NextStage, TLAPS

(* The stages before and after a stage are stages.                         *)
LEMMA AfterStage ==
  ASSUME curSig \in Stages, NEW j \in 1..NStages - 1
  PROVE  After(j) \in Stages /\ After(j) # curSig
BY NextStageAssumption DEF Stages, After

LEMMA BeforeStage ==
  ASSUME NEW s \in Stages
  PROVE  Before(s) \in Stages
BY NextStageAssumption DEF Stages, Before

-----------------------------------------------------------------------------
(* Type correctness.  The loop variable stays below its limit inside the   *)
(* body of the "for", so that it does not pass it at the end of the body.  *)
InBody == pc \in {"While", "Body"} => i < NStages

Inv == TypeOK /\ InBody

(* The first search starts with every variable of its type.                *)
LEMMA InitInv == Init => Inv
BY NextStageAssumption DEF Init, Inv, TypeOK, InBody, Stages

(* Every step of the search keeps the types.                               *)
LEMMA NextInv == Inv /\ [Next]_vars => Inv'
<1> SUFFICES ASSUME Inv, [Next]_vars PROVE Inv'
  OBVIOUS
<1> USE NextStageAssumption DEF Inv, InBody
<1>1. CASE PassOver
  BY <1>1 DEF PassOver, TypeOK, dataset, epMarkers, chosen
<1>2. CASE Consider
  <2>1. After(i) \in Stages
    BY <1>2, AfterStage DEF Consider, TypeOK
  <2>2. k' \in Stages
    BY <1>2, <2>1 DEF Consider, From, Facility
  <2>. QED
    BY <1>2, <2>2 DEF Consider, TypeOK, dataset, epMarkers, chosen, Stages
<1>3. CASE EnterBody
  BY <1>3 DEF EnterBody, TypeOK, dataset, epMarkers, chosen
<1>4. CASE WalkedBack
  BY <1>4 DEF WalkedBack, TypeOK, dataset, epMarkers, chosen
<1>5. CASE Choose
  BY <1>5
     DEF Choose, Adopt, TypeOK, dataset, epMarkers, Stages
<1>6. CASE StepBack
  <2>1. Before(k) \in Stages
    BY <1>6, BeforeStage DEF StepBack, TypeOK
  <2>. QED
    BY <1>6, <2>1 DEF StepBack, TypeOK, dataset, epMarkers, chosen, Stages
<1>7. CASE Continue
  BY <1>7 DEF Continue, TypeOK, dataset, epMarkers, chosen
<1>8. CASE SearchOver
  BY <1>8
     DEF SearchOver, NextSearch, TypeOK, dataset, epMarkers, chosen
<1>9. CASE SecondPass
  BY <1>9
     DEF SecondPass, TypeOK, dataset, epMarkers, chosen
<1>10. CASE Revert
  BY <1>10
     DEF Revert, MayRevert, TypeOK, dataset, epMarkers, chosen, Stages
<1>11. CASE GiveUp
  BY <1>11 DEF GiveUp, TypeOK, dataset, epMarkers
<1>12. CASE UNCHANGED vars
  BY <1>12 DEF vars, TypeOK, dataset, epMarkers, chosen
<1>. QED
  BY <1>1, <1>2, <1>3, <1>4, <1>5, <1>6, <1>7, <1>8, <1>9, <1>10, <1>11,
     <1>12 DEF Next, Step, Returned

(* The types hold in every state.                                          *)
LEMMA InvHolds == Spec => []Inv
BY InitInv, NextInv, PTL DEF Spec

(* Every variable keeps its type: no search reads a stage that is not one. *)
THEOREM TypeCorrect == Spec => []TypeOK
<1>1. Inv => TypeOK
  BY DEF Inv
<1>. QED
  BY InvHolds, <1>1, PTL

-----------------------------------------------------------------------------
(* The stage chosen is another one and its change is not banned.  A stage  *)
(* in the body of the "while" has passed its test, and the next stage is   *)
(* not touched before the call returns.                                    *)
Tested == /\ pc = "Body" => k # curSig
          /\ pc # "Done" => nextStage = MaxStages

(* Every step keeps the choice, where there is one, among the permitted.   *)
LEMMA NextPermitted ==
  ASSUME Inv, Tested, ChoicePermitted, [Next]_vars
  PROVE  (Tested /\ ChoicePermitted)'
<1> USE DEF Tested, ChoicePermitted
<1>1. CASE Choose
  <2>1. allowance[k] # Banned
    BY <1>1 DEF Choose, Permitted, Banned, Inv, TypeOK
  <2>. QED
    BY <1>1, <2>1 DEF Choose, Adopt, dataset
<1>2. CASE GiveUp
  BY <1>2 DEF GiveUp, dataset
<1>3. CASE EnterBody
  BY <1>3 DEF EnterBody, dataset, chosen
<1>4. CASE PassOver \/ Consider \/ WalkedBack \/ StepBack \/ Continue
  BY <1>4 DEF PassOver, Consider, WalkedBack, StepBack, Continue, dataset,
     chosen
<1>5. CASE SearchOver \/ SecondPass \/ Revert
  BY <1>5 DEF SearchOver, SecondPass, Revert, dataset, chosen
<1>6. CASE UNCHANGED vars
  BY <1>6 DEF vars, dataset, chosen
<1>. QED
  BY <1>1, <1>2, <1>3, <1>4, <1>5, <1>6 DEF Next, Step, Returned

(* The stage chosen is never the current one, and never one the dataset    *)
(* bans a change to: update_junction_next_stage() with any demands.        *)
THEOREM ChoiceIsPermitted == Spec => []ChoicePermitted
<1>1. Init => Tested /\ ChoicePermitted
  BY DEF Init, Tested, ChoicePermitted
<1>2. Inv /\ Tested /\ ChoicePermitted /\ [Next]_vars
        => (Tested /\ ChoicePermitted)'
  BY NextPermitted
<1>. QED
  BY InvHolds, <1>1, <1>2, PTL DEF Spec

-----------------------------------------------------------------------------
(* Every decision ends: each step lowers the triple of passes left, stages *)
(* left and walk left.                                                     *)
LEMMA DistanceBounded ==
  ASSUME NEW c \in 1..NStages, NEW d \in 1..NStages
  PROVE  (IF d >= c THEN d - c ELSE d + NStages - c) \in 0..NStages - 1
BY NextStageAssumption

(* A step of the walk back lowers it.                                      *)
LEMMA WalkBackNears ==
  ASSUME TypeOK, k \in Stages, k # curSig, k' = Before(k), UNCHANGED curSig
  PROVE  Distance \in 1..NStages - 1 /\ Distance' = Distance - 1
BY NextStageAssumption DEF Distance, Before, TypeOK, Stages

(* Every step that is not caught lowers the distance to the decision.      *)
LEMMA StepNears ==
  ASSUME Inv, Tested, Step, ~Caught
  PROVE  \/ PassesLeft' < PassesLeft
         \/ PassesLeft' = PassesLeft /\ i' > i
         \/ PassesLeft' = PassesLeft /\ i' = i /\ WalkLeft' < WalkLeft
<1> USE NextStageAssumption DEF Inv, TypeOK, InBody
<1> DEFINE Same == UNCHANGED <<search, pass, main, curSig, demand>>
<1>0. Same => PassesLeft' = PassesLeft
  BY DEF PassesLeft, MayRevert
<1>1. CASE PassOver
  <2>1. i' > i
    BY <1>1 DEF PassOver
  <2>. QED
    BY <1>0, <1>1, <2>1 DEF PassOver, dataset
<1>2. CASE Consider
  <2>1. k' \in Stages
    <3>1. After(i) \in Stages
      BY <1>2, AfterStage DEF Consider
    <3>. QED
      BY <1>2, <3>1 DEF Consider, From, Facility
  <2>2. curSig' = curSig /\ curSig \in 1..NStages /\ k' \in 1..NStages
    BY <1>2, <2>1 DEF Consider, dataset, Stages
  <2>3. Distance' \in 0..NStages - 1
    BY <2>2, DistanceBounded DEF Distance
  <2>4. WalkLeft' < WalkLeft
    BY <1>2, <2>3 DEF Consider, WalkLeft
  <2>. QED
    BY <1>0, <1>2, <2>4 DEF Consider, dataset
<1>3. CASE EnterBody
  <2>1. Distance \in Int /\ Distance' = Distance
    BY <1>3 DEF EnterBody, Distance, dataset, Stages
  <2>2. WalkLeft' < WalkLeft
    BY <1>3, <2>1 DEF EnterBody, WalkLeft
  <2>. QED
    BY <1>0, <1>3, <2>2 DEF EnterBody, dataset
<1>4. CASE WalkedBack
  <2>1. i' > i
    BY <1>4 DEF WalkedBack
  <2>. QED
    BY <1>0, <1>4, <2>1 DEF WalkedBack, dataset
<1>5. CASE Choose
  <2>1. Distance \in Nat
    BY <1>5 DEF Choose, Distance, Stages
  <2>2. WalkLeft' < WalkLeft
    BY <1>5, <2>1 DEF Choose, WalkLeft
  <2>. QED
    BY <1>0, <1>5, <2>2 DEF Choose, dataset
<1>6. CASE StepBack
  <2>1. k \in Stages /\ k # curSig /\ k' = Before(k) /\ UNCHANGED curSig
    BY <1>6 DEF StepBack, Tested, dataset
  <2>2. Distance \in 1..NStages - 1 /\ Distance' = Distance - 1
    BY <2>1, WalkBackNears
  <2>3. WalkLeft' < WalkLeft
    BY <1>6, <2>2 DEF StepBack, WalkLeft
  <2>. QED
    BY <1>0, <1>6, <2>3 DEF StepBack, dataset
<1>7. CASE Continue
  <2>1. search = "normal"
    BY <1>7 DEF Continue, Permitted
  <2>2. k \in Stages /\ allowance[k] \in Int /\ pass \in {0, 1}
    BY <1>7 DEF Continue
  <2>3. pass = 0 /\ allowance[k] < Banned
    BY <1>7, <2>1, <2>2 DEF Continue, Permitted, Banned
  <2>. QED
    BY <1>7, <2>1, <2>3 DEF Continue, Caught
<1>8. CASE SearchOver
  <2>1. CASE search = "emergency"
    <3>1. PassesLeft = 5 /\ PassesLeft' = 4
      BY <1>8, <2>1 DEF SearchOver, NextSearch, PassesLeft
    <3>. QED
      BY <3>1
  <2>2. CASE search = "priority"
    <3>1. PassesLeft = 4 /\ search' = "normal" /\ pass' \in {0, 1}
      BY <1>8, <2>2 DEF SearchOver, NextSearch, PassesLeft
    <3>2. PassesLeft' <= 3
      BY <3>1 DEF PassesLeft
    <3>3. PassesLeft' \in Int
      BY <3>1 DEF PassesLeft
    <3>. QED
      BY <3>1, <3>2, <3>3
  <2>. QED
    BY <1>8, <2>1, <2>2 DEF SearchOver
<1>9. CASE SecondPass
  <2>1. MayRevert' = MayRevert
    BY <1>9 DEF SecondPass, MayRevert, dataset
  <2>2. PassesLeft = (IF MayRevert THEN 2 ELSE 0) + 1
    BY <1>9 DEF SecondPass, PassesLeft
  <2>3. PassesLeft' = (IF MayRevert THEN 2 ELSE 0) + 0
    BY <1>9, <2>1 DEF SecondPass, PassesLeft
  <2>. QED
    BY <2>2, <2>3
<1>10. CASE Revert
  <2>1. MayRevert /\ PassesLeft = 2
    BY <1>10 DEF Revert, PassesLeft
  <2>2. main \in Stages /\ demand'[main] = Reversionary /\ main' = main
    BY <1>10 DEF Revert, MayRevert, dataset, Stages
  <2>3. ~MayRevert'
    BY <2>2 DEF MayRevert, Reversionary, NoDemand
  <2>4. PassesLeft' = 1
    BY <1>10, <2>3 DEF Revert, PassesLeft
  <2>. QED
    BY <2>1, <2>4
<1>11. CASE GiveUp
  <2>1. WalkLeft' < WalkLeft
    BY <1>11 DEF GiveUp, WalkLeft
  <2>. QED
    BY <1>0, <1>11, <2>1 DEF GiveUp, dataset
<1>. QED
  BY <1>1, <1>2, <1>3, <1>4, <1>5, <1>6, <1>7, <1>8, <1>9, <1>10, <1>11
     DEF Step

(* Every step of the search brings its end nearer, until it is caught by a *)
(* reserved change: update_junction_next_stage() otherwise takes a bounded *)
(* number of turns of its loops.                                           *)
THEOREM DecisionsNear == Spec => DecisionNears
<1>1. Init => Tested /\ ChoicePermitted
  BY DEF Init, Tested, ChoicePermitted
<1>2. Inv /\ Tested /\ ChoicePermitted /\ [Next]_vars
        => (Tested /\ ChoicePermitted)'
  BY NextPermitted
<1>3. Inv /\ Tested /\ [Next]_vars
        => [Step =>
              \/ Caught
              \/ PassesLeft' < PassesLeft
              \/ PassesLeft' = PassesLeft /\ i' > i
              \/ PassesLeft' = PassesLeft /\ i' = i
                   /\ WalkLeft' < WalkLeft]_vars
  BY StepNears
<1>. QED
  BY InvHolds, <1>1, <1>2, <1>3, PTL DEF Spec, DecisionNears

(* A search that is caught by a reserved change never gets out of it: the  *)
(* inner loop of decide_next_stage() turns for ever, and no stage is       *)
(* chosen.  With DecisionsNear, this is the only way not to end.           *)
THEOREM CaughtForEver == Spec => CaughtStays
<1>1. Inv /\ [Next]_vars => [Caught => Caught' /\ UNCHANGED <<i, k, chosen>>]_vars
  <2> SUFFICES ASSUME Inv, Next, Caught
               PROVE  Caught' /\ UNCHANGED <<i, k, chosen>>
    OBVIOUS
  <2>1. k \in Stages /\ allowance[k] \in Int /\ allowance[curSig] = Banned
    BY NextStageAssumption DEF Inv, TypeOK, Caught
  <2>2. k # curSig /\ allowance[k] # Banned /\ ~Permitted(k)
    BY <2>1 DEF Caught, Permitted, Banned
  <2>3. EnterBody \/ Continue
    BY <2>2 DEF Next, Step, Returned, Caught, PassOver, Consider, WalkedBack, Choose,
       StepBack, SearchOver, SecondPass, Revert, GiveUp
  <2>. QED
    BY <2>3 DEF Caught, EnterBody, Continue, dataset
<1>. QED
  BY InvHolds, <1>1, PTL DEF Spec, CaughtStays

-----------------------------------------------------------------------------
(* What the search for a demand finds.  The stages are numbered by their   *)
(* place after the current one, which has place 0.                         *)
LEMMA PlacesDiffer ==
  ASSUME TypeOK, NEW m \in 0..NStages - 1, NEW n \in 0..NStages - 1,
         After(m) = After(n)
  PROVE  m = n
BY NextStageAssumption DEF TypeOK, Stages, After

(* The stage before another one is one place before it.                    *)
LEMMA PlaceBefore ==
  ASSUME TypeOK, NEW m \in 1..NStages - 1
  PROVE  Before(After(m)) = After(m - 1) /\ m - 1 \in 0..NStages - 1
BY NextStageAssumption DEF TypeOK, Stages, After, Before

(* The current stage alone has place 0.                                    *)
LEMMA PlaceOfCurrent ==
  ASSUME TypeOK, NEW m \in 0..NStages - 1, After(m) = curSig
  PROVE  m = 0
BY NextStageAssumption DEF TypeOK, Stages, After

(* The stage at place m is found when it may be entered, the stages after  *)
(* it up to a demanded one at place j may not, and no demand before that   *)
(* one can be approached.                                                  *)
LEMMA FoundAt ==
  ASSUME NEW D, NEW P, NEW j \in 1..NStages - 1, NEW m \in 1..j,
         After(j) \in D, After(m) \in P,
         \A n \in m + 1..j : After(n) \notin P,
         \A h \in 1..j - 1 : After(h) \in D => Approaches(h, P) = {}
  PROVE  Found(D, P) = After(m)
<1> USE NextStageAssumption
<1> DEFINE R == Reachable(D, P)
<1>1. m \in Approaches(j, P)
  BY DEF Approaches
<1>2. j \in R
  BY <1>1 DEF Reachable
<1>3. \A h \in R : j <= h
  BY DEF Reachable
<1>4. R \subseteq 1..NStages - 1
  BY DEF Reachable
<1>5. Least(R) = j
  <2>1. \A x \in R : (\A y \in R : x <= y) => x = j
    BY <1>2, <1>3, <1>4
  <2>. QED
    BY <1>2, <1>3, <2>1 DEF Least
<1>6. Approaches(j, P) \subseteq 1..j
  BY DEF Approaches
<1>7. \A n \in Approaches(j, P) : n <= m
  BY DEF Approaches
<1>8. Greatest(Approaches(j, P)) = m
  <2>1. \A x \in Approaches(j, P) :
          (\A y \in Approaches(j, P) : y <= x) => x = m
    BY <1>1, <1>6, <1>7
  <2>. QED
    BY <1>1, <1>7, <2>1 DEF Greatest
<1>. QED
  BY <1>2, <1>5, <1>8 DEF Found

(* Without a demand that can be approached nothing is found.               *)
LEMMA FoundNone ==
  ASSUME NEW D, NEW P,
         \A h \in 1..NStages - 1 : After(h) \in D => Approaches(h, P) = {}
  PROVE  Found(D, P) = 0
BY DEF Found, Reachable

-----------------------------------------------------------------------------
(* Emergency demands come first.  While the search for them runs, those of *)
(* the stages before place i cannot be approached, and the walk back from  *)
(* place i has met only banned changes; afterwards none can be approached. *)
Emergencies == {s \in Stages : emergency[s] # 0}

Unreached(b) == \A h \in 1..b : After(h) \in Emergencies
                                   => Approaches(h, NotBanned) = {}

WalkedFrom(j, s) == \E m \in 0..j : /\ s = After(m)
                                    /\ \A n \in m + 1..j : After(n) \notin NotBanned

EmergencyInv ==
  /\ search = "emergency" /\ pc # "Done" => Unreached(i - 1)
  /\ search = "emergency" /\ pc \in {"While", "Body"} =>
       After(i) \in Emergencies /\ WalkedFrom(i, k)
  /\ search # "emergency" => Unreached(NStages - 1)

(* Nothing before the last place approached: there is no emergency stage.  *)
LEMMA NoEmergencyStage ==
  ASSUME Unreached(NStages - 1)
  PROVE  EmergencyStage = 0
BY FoundNone DEF Unreached, EmergencyStage, Emergencies

(* No step of the search changes the demands or the dataset.               *)
LEMMA InputsKept ==
  ASSUME UNCHANGED <<curSig, allowance, emergency>>
  PROVE  /\ \A b \in Int : Unreached(b)' = Unreached(b)
         /\ \A j, s \in Int : WalkedFrom(j, s)' = WalkedFrom(j, s)
         /\ Emergencies' = Emergencies
         /\ NotBanned' = NotBanned
         /\ \A j \in Int : After(j)' = After(j)
         /\ EmergencyStage' = EmergencyStage
<1>1. Emergencies' = Emergencies /\ NotBanned' = NotBanned
  BY DEF Emergencies, NotBanned
<1>2. \A j \in Int : After(j)' = After(j)
  BY DEF After
<1>3. \A h, P : Approaches(h, P)' = Approaches(h, P)
  BY DEF Approaches, After
<1>4. \A D, P : Found(D, P)' = Found(D, P)
  BY DEF Found, Reachable, Approaches, After, Greatest, Least
<1>5. EmergencyStage' = EmergencyStage
  BY <1>1, <1>4 DEF EmergencyStage
<1>. QED
  BY <1>1, <1>2, <1>3, <1>5 DEF Unreached, WalkedFrom

(* A stage passed over by the search for emergencies, or one from which    *)
(* the walk back came to the current stage, adds one place.                *)
LEMMA OneMore ==
  ASSUME NEW b \in 1..NStages - 1, Unreached(b - 1),
         After(b) \in Emergencies => Approaches(b, NotBanned) = {}
  PROVE  Unreached(b)
BY NextStageAssumption DEF Unreached

(* Every step keeps what the emergency search has ruled out.               *)
LEMMA NextEmergencyInv ==
  ASSUME Inv, Tested, EmergencyInv, EmergencyFirst, [Next]_vars
  PROVE  (EmergencyInv /\ EmergencyFirst)'
<1> USE NextStageAssumption DEF Inv, TypeOK, InBody
<1>0. UNCHANGED <<curSig, allowance, emergency>>
  BY DEF Next, Step, Returned, vars, PassOver, Consider, EnterBody,
     WalkedBack, Choose, StepBack, Continue, SearchOver, SecondPass, Revert,
     GiveUp, dataset, epMarkers
<1>a. /\ \A b \in Int : Unreached(b)' = Unreached(b)
      /\ \A j, s \in Int : WalkedFrom(j, s)' = WalkedFrom(j, s)
      /\ Emergencies' = Emergencies
      /\ NotBanned' = NotBanned
      /\ \A j \in Int : After(j)' = After(j)
      /\ EmergencyStage' = EmergencyStage
  BY <1>0, InputsKept
<1>1. CASE search # "emergency"
  <2>1. search' # "emergency"
    BY <1>1 DEF Next, Step, Returned, vars, PassOver, Consider, EnterBody,
       WalkedBack, Choose, StepBack, Continue, SearchOver, NextSearch,
       SecondPass, Revert, GiveUp
  <2>2. Unreached(NStages - 1)
    BY <1>1 DEF EmergencyInv
  <2>3. Unreached(NStages - 1)' /\ EmergencyStage' = 0
    BY <1>a, <2>2, NoEmergencyStage
  <2>. QED
    BY <2>1, <2>3 DEF EmergencyInv, EmergencyFirst
<1>2. CASE search = "emergency" /\ PassOver
  <2>1. After(i) \in Stages /\ After(i) \notin Emergencies
    BY <1>2, AfterStage DEF PassOver, Demanded, Emergencies
  <2>2. i \in 1..NStages - 1 /\ Unreached(i - 1)
    BY <1>2 DEF PassOver, EmergencyInv
  <2>3. Unreached(i)
    BY <2>1, <2>2, OneMore
  <2>4. i' - 1 = i
    BY <1>2 DEF PassOver
  <2>5. Unreached(i - 1)'
    BY <1>a, <2>3, <2>4
  <2>. QED
    BY <1>2, <2>5 DEF PassOver, EmergencyInv, EmergencyFirst
<1>3. CASE search = "emergency" /\ Consider
  <2>1. i \in 1..NStages - 1 /\ i' = i /\ k' = After(i) /\ k' \in Int
    BY <1>3, AfterStage DEF Consider, From, Stages
  <2>2. After(i) \in Emergencies
    BY <1>3, <2>1, AfterStage DEF Consider, Demanded, Emergencies
  <2>3. WalkedFrom(i, After(i))
    BY <2>1 DEF WalkedFrom
  <2>4. Unreached(i - 1)
    BY <1>3 DEF Consider, EmergencyInv
  <2>5. Unreached(i - 1)' /\ (After(i) \in Emergencies)' /\ WalkedFrom(i, k)'
    BY <1>a, <2>1, <2>2, <2>3, <2>4
  <2>. QED
    BY <1>3, <2>5 DEF Consider, EmergencyInv, EmergencyFirst
<1>4. CASE search = "emergency" /\ EnterBody
  <2>1. /\ i' = i /\ k' = k /\ k \in Int
        /\ Unreached(i - 1) /\ After(i) \in Emergencies /\ WalkedFrom(i, k)
    BY <1>4 DEF EnterBody, EmergencyInv, Stages
  <2>2. Unreached(i - 1)' /\ (After(i) \in Emergencies)' /\ WalkedFrom(i, k)'
    BY <1>a, <2>1
  <2>. QED
    BY <1>4, <2>2 DEF EnterBody, EmergencyInv, EmergencyFirst
<1>5. CASE search = "emergency" /\ WalkedBack
  <2>1. i \in 1..NStages - 1 /\ Unreached(i - 1) /\ WalkedFrom(i, curSig)
    BY <1>5 DEF WalkedBack, EmergencyInv
  <2>2. \A n \in 1..i : After(n) \notin NotBanned
    BY <2>1, PlaceOfCurrent DEF WalkedFrom
  <2>3. Approaches(i, NotBanned) = {}
    BY <2>2 DEF Approaches
  <2>4. Unreached(i)
    BY <2>1, <2>3, OneMore
  <2>5. i' - 1 = i
    BY <1>5 DEF WalkedBack
  <2>6. Unreached(i - 1)'
    BY <1>a, <2>4, <2>5
  <2>. QED
    BY <1>5, <2>6 DEF WalkedBack, EmergencyInv, EmergencyFirst
<1>6. CASE search = "emergency" /\ Choose
  <2>1. /\ i \in 1..NStages - 1 /\ Unreached(i - 1) /\ WalkedFrom(i, k)
        /\ After(i) \in Emergencies
        /\ k # curSig /\ k \in NotBanned
    BY <1>6 DEF Choose, EmergencyInv, Tested, Permitted, NotBanned
  <2>2. PICK m \in 0..i : /\ k = After(m)
                          /\ \A n \in m + 1..i : After(n) \notin NotBanned
    BY <2>1 DEF WalkedFrom
  <2>3. m # 0
    BY <2>1, <2>2 DEF After, Stages
  <2>4. Found(Emergencies, NotBanned) = After(m)
    BY <2>1, <2>2, <2>3, FoundAt DEF Unreached
  <2>5. EmergencyStage = k
    BY <2>2, <2>4 DEF EmergencyStage, Emergencies
  <2>6. EmergencyStage' = k
    BY <1>a, <2>5
  <2>. QED
    BY <1>6, <2>6 DEF Choose, Adopt, EmergencyInv, EmergencyFirst
<1>7. CASE search = "emergency" /\ StepBack
  <2>1. /\ i \in 1..NStages - 1 /\ Unreached(i - 1) /\ WalkedFrom(i, k)
        /\ After(i) \in Emergencies
        /\ k # curSig /\ k \notin NotBanned /\ k' = Before(k) /\ i' = i
    BY <1>7 DEF StepBack, EmergencyInv, Tested, NotBanned
  <2>2. PICK m \in 0..i : /\ k = After(m)
                          /\ \A n \in m + 1..i : After(n) \notin NotBanned
    BY <2>1 DEF WalkedFrom
  <2>3. m \in 1..NStages - 1
    BY <2>1, <2>2 DEF After, Stages
  <2>4. Before(k) = After(m - 1)
    BY <2>2, <2>3, PlaceBefore
  <2>5. \A n \in (m - 1) + 1..i : After(n) \notin NotBanned
    BY <2>1, <2>2
  <2>6. WalkedFrom(i, Before(k)) /\ Before(k) \in Int
    BY <2>3, <2>4, <2>5, BeforeStage, <1>7 DEF WalkedFrom, StepBack, Stages
  <2>7. Unreached(i - 1)' /\ (After(i) \in Emergencies)' /\ WalkedFrom(i, k)'
    BY <1>a, <2>1, <2>6
  <2>. QED
    BY <1>7, <2>7 DEF StepBack, EmergencyInv, EmergencyFirst
<1>8. CASE search = "emergency" /\ Continue
  BY <1>8 DEF Continue, Permitted
<1>9. CASE search = "emergency" /\ SearchOver
  <2>1. i - 1 = NStages - 1 /\ Unreached(i - 1)
    BY <1>9 DEF SearchOver, EmergencyInv
  <2>2. Unreached(NStages - 1)'
    BY <1>a, <2>1
  <2>. QED
    BY <1>9, <2>2 DEF SearchOver, NextSearch, EmergencyInv, EmergencyFirst
<1>10. CASE search = "emergency" /\ UNCHANGED vars
  <2>1. /\ i' = i /\ k' = k /\ pc' = pc /\ search' = search
        /\ UNCHANGED chosen
    BY <1>10 DEF vars
  <2>2. (Unreached(i - 1)' <=> Unreached(i - 1))
        /\ (After(i) \in Emergencies)' = (After(i) \in Emergencies)
    BY <1>a, <2>1
  <2>3. k \in Stages => WalkedFrom(i, k)' = WalkedFrom(i, k)
    BY <1>a, <2>1 DEF Stages
  <2>. QED
    BY <1>10, <1>a, <2>1, <2>2, <2>3 DEF EmergencyInv, EmergencyFirst, chosen
<1>. QED
  BY <1>1, <1>2, <1>3, <1>4, <1>5, <1>6, <1>7, <1>8, <1>9, <1>10
     DEF Next, Step, Returned, SecondPass, Revert, GiveUp

(* An emergency demand that can be approached decides the next stage,      *)
(* whatever the other demands: get_emergency_next_stage() finds the stage  *)
(* nearest to the first such demand, and it is what is adopted.            *)
THEOREM EmergencyIsFirst == Spec => []EmergencyFirst
<1>1. Init => /\ Tested /\ ChoicePermitted
              /\ EmergencyInv /\ EmergencyFirst
  BY DEF Init, Tested, ChoicePermitted, EmergencyInv, EmergencyFirst,
     Unreached
<1>2. Inv /\ Tested /\ ChoicePermitted /\ [Next]_vars
        => (Tested /\ ChoicePermitted)'
  BY NextPermitted
<1>3. Inv /\ Tested /\ EmergencyInv /\ EmergencyFirst /\ [Next]_vars
        => (EmergencyInv /\ EmergencyFirst)'
  BY NextEmergencyInv
<1>. QED
  BY InvHolds, <1>1, <1>2, <1>3, PTL DEF Spec

-----------------------------------------------------------------------------
(* The other two searches.  A search that has come to place i has found    *)
(* the changes on the way to each demanded stage before it banned; the     *)
(* normal search has found that of every one on its second pass.           *)
Cleared(D, b) == \A h \in 1..b : After(h) \in D => Approaches(h, NotBanned) = {}

(* The demands of the normal search, and the priority demands that no      *)
(* other demand may have to be met before.                                 *)
Demands == {s \in Stages : demand[s] > NoDemand}
Soles == {s \in Stages : priority[s] # 0 /\ Facility(s) = {s}}

DemandsCleared(b) == Cleared(Demands, b)
SolesCleared(b) == Cleared(Soles, b)

Passed == /\ pass = 0 => DemandsCleared(i - 1)
          /\ pass # 0 => DemandsCleared(NStages - 1)

NormalInv ==
  /\ search # "normal" => pass = 0
  /\ search = "normal" /\ pc # "Done" => Passed
  /\ search = "normal" /\ pc \in {"While", "Body"} =>
       After(i) \in Demands /\ WalkedFrom(i, k)

SecondInv ==
  pc = "Done" /\ EmergencyStage = 0 =>
    SolesCleared(NStages - 1) \/ (nextPriority # 0 /\ nextStage = nextPriority)

PriorityInv ==
  /\ search = "priority" /\ pc # "Done" => SolesCleared(i - 1)
  /\ search = "priority" /\ pc \in {"While", "Body"} /\ After(i) \in Soles
       => WalkedFrom(i, k)
  /\ search = "normal" => SolesCleared(NStages - 1)
  /\ SecondInv

(* One place more.                                                         *)
LEMMA ClearedMore ==
  ASSUME NEW D, NEW b \in 1..NStages - 1, Cleared(D, b - 1),
         After(b) \in D => Approaches(b, NotBanned) = {}
  PROVE  Cleared(D, b)
BY NextStageAssumption DEF Cleared

(* A walk that comes to the current stage has met only banned changes.     *)
LEMMA WalkedAll ==
  ASSUME TypeOK, NEW j \in 1..NStages - 1, WalkedFrom(j, curSig)
  PROVE  Approaches(j, NotBanned) = {}
<1>1. \A n \in 1..j : After(n) \notin NotBanned
  BY PlaceOfCurrent, NextStageAssumption DEF WalkedFrom
<1> QED BY <1>1 DEF Approaches

(* A walk goes on over a banned change.                                    *)
LEMMA WalkedOn ==
  ASSUME TypeOK, NEW j \in 1..NStages - 1, NEW s, WalkedFrom(j, s), s # curSig, s \notin NotBanned
  PROVE  WalkedFrom(j, Before(s))
<1> USE NextStageAssumption
<1>1. PICK m \in 0..j : s = After(m) /\ \A n \in m + 1..j : After(n) \notin NotBanned
  BY DEF WalkedFrom
<1>2. m \in 1..NStages - 1
  BY <1>1 DEF After, Stages, TypeOK
<1>3. Before(s) = After(m - 1) /\ m - 1 \in 0..j
  BY <1>1, <1>2, PlaceBefore
<1>4. \A n \in (m - 1) + 1..j : After(n) \notin NotBanned
  BY <1>1
<1> QED BY <1>3, <1>4 DEF WalkedFrom

(* A walk that stops at a stage has found it.                              *)
LEMMA WalkedTo ==
  ASSUME TypeOK, NEW D, NEW P \in SUBSET NotBanned, NEW j \in 1..NStages - 1, NEW s,
         WalkedFrom(j, s), s # curSig, s \in P, After(j) \in D, Cleared(D, j - 1)
  PROVE  Found(D, P) = s /\ Approaches(j, P) # {}
<1> USE NextStageAssumption
<1>1. PICK m \in 0..j : s = After(m) /\ \A n \in m + 1..j : After(n) \notin NotBanned
  BY DEF WalkedFrom
<1>2. m \in 1..j
  BY <1>1 DEF After, Stages, TypeOK
<1>3. \A n \in m + 1..j : After(n) \notin P
  BY <1>1
<1>4. \A h \in 1..j - 1 : After(h) \in D => Approaches(h, P) = {}
  BY DEF Cleared, Approaches
<1>5. Found(D, P) = After(m)
  BY <1>1, <1>2, <1>3, <1>4, FoundAt
<1>6. m \in Approaches(j, P)
  BY <1>1, <1>2 DEF Approaches
<1> QED BY <1>1, <1>5, <1>6

(* What a step that leaves the demands alone does not change.              *)
LEMMA DemandsKept ==
  ASSUME UNCHANGED <<curSig, allowance, demand>>
  PROVE  /\ \A b \in Int : DemandsCleared(b)' = DemandsCleared(b)
         /\ Demands' = Demands /\ NormalStage' = NormalStage
<1>1. Demands' = Demands /\ NotBanned' = NotBanned /\ Always' = Always
  BY DEF Demands, NotBanned, Always
<1>2. \A h, P : Approaches(h, P)' = Approaches(h, P)
  BY DEF Approaches, After
<1>3. \A D, P : Found(D, P)' = Found(D, P)
  BY DEF Found, Reachable, Approaches, After, Greatest, Least
<1>4. \A b \in Int : DemandsCleared(b)' = DemandsCleared(b)
  BY <1>1, <1>2 DEF DemandsCleared, Cleared, After
<1>5. NormalStage' = NormalStage
  BY <1>1, <1>3 DEF NormalStage, Demands
<1> QED BY <1>1, <1>4, <1>5

(* Every step keeps what the two passes have ruled out.                    *)
LEMMA NextNormalInv ==
  ASSUME Inv, Tested, NormalInv, NormalRight, [Next]_vars
  PROVE  (NormalInv /\ NormalRight)'
<1> USE NextStageAssumption DEF Inv, TypeOK, InBody
<1>0. UNCHANGED <<curSig, allowance, emergency, main>>
  BY DEF Next, Step, Returned, vars, PassOver, Consider, EnterBody,
     WalkedBack, Choose, StepBack, Continue, SearchOver, SecondPass, Revert,
     GiveUp, dataset, epMarkers
<1>a. /\ \A j, s \in Int : WalkedFrom(j, s)' = WalkedFrom(j, s)
      /\ \A j \in Int : After(j)' = After(j)
  BY <1>0, InputsKept
<1>b. TypeOK
  BY DEF Inv
<1>1. CASE search # "normal" /\ ~SearchOver
  <2>1. search' # "normal" /\ pass' = 0
    BY <1>1 DEF Next, Step, Returned, vars, PassOver, Consider, EnterBody,
       WalkedBack, Choose, StepBack, Continue, SecondPass, Revert, GiveUp, NormalInv
  <2>2. pc' = "Done" => \/ nextEmergency' # 0 \/ nextPriority' # 0
                        \/ UNCHANGED <<vars>>
    BY <1>1 DEF Next, Step, Returned, PassOver, Consider, EnterBody,
       WalkedBack, Choose, Adopt, StepBack, Continue, SecondPass, Revert, GiveUp, Stages
  <2>3. UNCHANGED vars => NormalRight'
    <3>1. UNCHANGED vars => UNCHANGED <<demand, pc, chosen>>
      BY DEF vars
    <3> QED BY <1>0, <3>1, DemandsKept DEF NormalRight, chosen
  <2> QED BY <2>1, <2>2, <2>3 DEF NormalInv, NormalRight
<1>2. CASE search # "normal" /\ SearchOver
  <2>1. pc' = "For" /\ i' = 1 /\ pass' = 0
    BY <1>2 DEF SearchOver, NormalInv
  <2>2. DemandsCleared(0)'
    BY DEF DemandsCleared, Cleared
  <2>3. i' - 1 = 0
    BY <2>1
  <2>4. Passed'
    BY <2>1, <2>2, <2>3 DEF Passed
  <2> QED BY <2>1, <2>4 DEF NormalInv, NormalRight
<1>3. CASE search = "normal" /\ ~Revert
  <2>0. UNCHANGED demand
    BY <1>3 DEF Next, Step, Returned, vars, PassOver, Consider, EnterBody,
       WalkedBack, Choose, StepBack, Continue, SearchOver, SecondPass, GiveUp
  <2>a. /\ \A b \in Int : DemandsCleared(b)' = DemandsCleared(b)
        /\ Demands' = Demands /\ NormalStage' = NormalStage
    BY <1>0, <2>0, DemandsKept
  <2>b. i - 1 \in Int /\ NStages - 1 \in Int /\ pass \in {0, 1} /\ (pc # "Done" => Passed)
    BY <1>3 DEF NormalInv
  <2>1. CASE PassOver
    <3>1. After(i) \in Stages /\ After(i) \notin Demands /\ i \in 1..NStages - 1
      BY <1>3, <2>1, AfterStage DEF PassOver, Demanded, Demands
    <3>2. (pass = 0 => DemandsCleared(i)) /\ (pass # 0 => DemandsCleared(NStages - 1))
      BY <2>1, <2>b, <3>1, ClearedMore DEF PassOver, DemandsCleared, Passed
    <3>3. i' - 1 = i /\ pass' = pass /\ pc' = "For" /\ search' = search
      BY <2>1 DEF PassOver
    <3>4. Passed'
      BY <2>a, <3>1, <3>2, <3>3 DEF Passed
    <3> QED BY <3>3, <3>4 DEF NormalInv, NormalRight
  <2>2. CASE Consider
    <3>1. i \in 1..NStages - 1 /\ k' = After(i) /\ k' \in Int /\ After(i) \in Demands
      BY <1>3, <2>2, AfterStage DEF Consider, From, Demanded, Demands, Stages
    <3>2. WalkedFrom(i, After(i))
      BY <3>1 DEF WalkedFrom
    <3>3. UNCHANGED <<i, pass, search>> /\ pc' = "While" /\ pc = "For"
      BY <2>2 DEF Consider
    <3>4. Passed'
      BY <2>a, <2>b, <3>3 DEF Passed
    <3>5. (After(i) \in Demands)' /\ WalkedFrom(i, k)'
      BY <1>a, <2>a, <3>1, <3>2, <3>3
    <3> QED BY <1>3, <3>3, <3>4, <3>5 DEF NormalInv, NormalRight
  <2>3. CASE EnterBody \/ Continue
    <3>1. UNCHANGED <<i, k, pass, search>> /\ pc' \in {"While", "Body"} /\ pc \in {"While", "Body"}
      BY <2>3 DEF EnterBody, Continue
    <3>2. k \in Int /\ After(i) \in Demands /\ WalkedFrom(i, k)
      BY <1>3, <3>1 DEF NormalInv, Stages
    <3>3. Passed'
      BY <2>a, <2>b, <3>1 DEF Passed
    <3>4. (After(i) \in Demands)' /\ WalkedFrom(i, k)'
      BY <1>a, <2>a, <3>1, <3>2
    <3> QED BY <1>3, <3>1, <3>3, <3>4 DEF NormalInv, NormalRight
  <2>4. CASE WalkedBack
    <3>1. i \in 1..NStages - 1 /\ WalkedFrom(i, curSig)
      BY <1>3, <2>4 DEF WalkedBack, NormalInv
    <3>2. Approaches(i, NotBanned) = {}
      BY <1>b, <3>1, WalkedAll
    <3>3. (pass = 0 => DemandsCleared(i)) /\ (pass # 0 => DemandsCleared(NStages - 1))
      BY <2>4, <2>b, <3>1, <3>2, ClearedMore DEF WalkedBack, DemandsCleared, Passed
    <3>4. i' - 1 = i /\ pass' = pass /\ pc' = "For" /\ search' = search
      BY <2>4 DEF WalkedBack
    <3>5. Passed'
      BY <2>a, <3>1, <3>3, <3>4 DEF Passed
    <3> QED BY <3>4, <3>5 DEF NormalInv, NormalRight
  <2>5. CASE Choose
    <3>1. /\ i \in 1..NStages - 1 /\ k \in Stages /\ k # curSig /\ WalkedFrom(i, k)
          /\ After(i) \in Demands /\ Permitted(k) /\ allowance[k] \in Int
      <4>1. pc = "Body" /\ k \in Stages /\ Permitted(k)
        BY <2>5 DEF Choose
      <4>2. i < NStages /\ k # curSig
        BY <4>1 DEF Tested
      <4>3. allowance[k] \in Allowances
        BY <4>1 DEF Stages
      <4>4. i \in 1..NStages - 1
        BY <4>2
      <4> QED BY <1>3, <4>1, <4>2, <4>3, <4>4 DEF NormalInv
    <3>2. k \in NotBanned
      BY <1>3, <3>1 DEF Permitted, NotBanned, Banned
    <3>3. CASE pass = 0
      <4>1. k \in Always /\ Always \in SUBSET NotBanned
        BY <1>3, <3>1, <3>3 DEF Permitted, Always, NotBanned, Banned
      <4>2. Cleared(Demands, i - 1)
        BY <2>5, <2>b, <3>3 DEF Choose, DemandsCleared, Passed
      <4>3. Found(Demands, Always) = k
        BY <1>b, <3>1, <4>1, <4>2, WalkedTo
      <4>4. NormalStage = k
        BY <4>3 DEF NormalStage, Demands
      <4>5. NormalStage' = k /\ nextStage' = k /\ k # 0
        BY <2>5, <2>a, <3>1, <4>4 DEF Choose, Adopt, Stages
      <4> QED BY <2>5, <1>3, <4>5 DEF Choose, NormalInv, NormalRight
    <3>4. CASE pass # 0
      <4>1. Cleared(Demands, NStages - 1)
        BY <2>5, <2>b, <3>4 DEF Choose, DemandsCleared, Passed
      <4>2. Cleared(Demands, i - 1) /\ Approaches(i, NotBanned) = {}
        BY <3>1, <4>1 DEF Cleared
      <4>3. NotBanned \in SUBSET NotBanned
        OBVIOUS
      <4>4. FALSE
        BY <1>b, <3>1, <3>2, <4>2, <4>3, WalkedTo
      <4> QED BY <4>4
    <3> QED BY <3>3, <3>4
  <2>6. CASE StepBack
    <3>1. /\ i \in 1..NStages - 1 /\ WalkedFrom(i, k) /\ After(i) \in Demands
          /\ k # curSig /\ k \in Stages /\ k \notin NotBanned /\ k' = Before(k)
      BY <1>3, <2>6 DEF StepBack, NormalInv, Tested, NotBanned
    <3>2. WalkedFrom(i, Before(k)) /\ Before(k) \in Int
      <4>1. Before(k) \in Int
        BY <3>1, BeforeStage DEF Stages
      <4> QED BY <1>b, <3>1, <4>1, WalkedOn
    <3>3. UNCHANGED <<i, pass, search>> /\ pc' = "While" /\ pc # "Done"
      BY <2>6 DEF StepBack
    <3>4. Passed'
      BY <2>a, <2>b, <3>3 DEF Passed
    <3>5. (After(i) \in Demands)' /\ WalkedFrom(i, k)'
      BY <1>a, <2>a, <3>1, <3>2, <3>3
    <3> QED BY <1>3, <3>3, <3>4, <3>5 DEF NormalInv, NormalRight
  <2>7. CASE SecondPass
    <3>1. i = NStages /\ pass = 0 /\ pass' = 1 /\ pc' = "For" /\ pc = "For"
      BY <2>7 DEF SecondPass
    <3>2. DemandsCleared(NStages - 1)
      BY <2>b, <3>1 DEF Passed
    <3>3. DemandsCleared(NStages - 1)'
      BY <2>a, <2>b, <3>2
    <3>4. Passed'
      BY <3>1, <3>3 DEF Passed
    <3>5. search' = "normal"
      BY <1>3, <2>7 DEF SecondPass
    <3> QED BY <3>1, <3>4, <3>5 DEF NormalInv, NormalRight
  <2>8. CASE GiveUp
    <3>1. Cleared(Demands, NStages - 1)
      BY <2>8, <2>b DEF GiveUp, DemandsCleared, Passed
    <3>2. \A h \in 1..NStages - 1 : After(h) \in Demands => Approaches(h, Always) = {}
      BY <3>1 DEF Cleared, Approaches, Always, NotBanned, Banned
    <3>3. NormalStage = 0
      BY <3>2, FoundNone DEF NormalStage, Demands
    <3>4. nextStage' = MaxStages /\ (main' \in {0, curSig'} \/ demand'[main'] > NoDemand)
      <4>1. ~MayRevert /\ nextStage' = MaxStages
        BY <2>8 DEF GiveUp, Tested
      <4>2. main # 0 => demand[main] \in Markers
        <5>1. main # 0 => main \in Stages
          BY DEF Stages
        <5> QED BY <5>1
      <4>3. main \in {0, curSig} \/ demand[main] > NoDemand
        <5>1. ASSUME main \notin {0, curSig} PROVE demand[main] > NoDemand
          <6>1. demand[main] \in Int
            BY <4>2, <5>1
          <6>2. ~(demand[main] <= NoDemand)
            BY <4>1, <5>1 DEF MayRevert
          <6> QED BY <6>1, <6>2 DEF NoDemand
        <5> QED BY <5>1
      <4> QED BY <1>0, <2>0, <4>1, <4>3
    <3> QED BY <2>8, <2>a, <3>3, <3>4 DEF GiveUp, NormalInv, NormalRight
  <2>9. CASE UNCHANGED vars
    <3>1. UNCHANGED <<i, k, pass, search, pc, chosen>>
      BY <2>9 DEF vars
    <3>2. pc # "Done" => Passed'
      BY <2>a, <2>b, <3>1 DEF Passed
    <3>3. pc \in {"While", "Body"} => (After(i) \in Demands)' /\ WalkedFrom(i, k)'
      BY <1>3, <1>a, <2>a, <3>1 DEF NormalInv, Stages
    <3> QED BY <1>0, <1>3, <2>0, <2>a, <3>1, <3>2, <3>3 DEF NormalInv, NormalRight, chosen
  <2> QED
    BY <1>3, <2>1, <2>2, <2>3, <2>4, <2>5, <2>6, <2>7, <2>8, <2>9 DEF Next, Step, Returned, SearchOver
<1>4. CASE search = "normal" /\ Revert
  <2>1. pc' = "For" /\ i' = 1 /\ pass' = 0
    BY <1>4 DEF Revert
  <2>2. DemandsCleared(0)'
    BY DEF DemandsCleared, Cleared
  <2>3. i' - 1 = 0
    BY <2>1
  <2>4. Passed'
    BY <2>1, <2>2, <2>3 DEF Passed
  <2> QED BY <2>1, <2>4 DEF NormalInv, NormalRight
<1> QED BY <1>1, <1>2, <1>3, <1>4

(* A normal choice finds the stage nearest to the first demand that can be *)
(* approached over the changes always permitted, on whatever pass it is    *)
(* made, and none is made only when none can.                              *)
THEOREM NormalIsRight == Spec => []NormalRight
<1>1. Init => Tested /\ ChoicePermitted /\ NormalInv /\ NormalRight
  BY DEF Init, Tested, ChoicePermitted, NormalInv, NormalRight
<1>2. Inv /\ Tested /\ ChoicePermitted /\ [Next]_vars
        => (Tested /\ ChoicePermitted)'
  BY NextPermitted
<1>3. Inv /\ Tested /\ NormalInv /\ NormalRight /\ [Next]_vars
        => (NormalInv /\ NormalRight)'
  BY NextNormalInv
<1>. QED
  BY InvHolds, <1>1, <1>2, <1>3, PTL DEF Spec

(* What a step that leaves the inputs alone does not change, and what a    *)
(* reversionary demand does not: it may only add to what is to be met      *)
(* before a priority demand.                                               *)
LEMMA SolesShrink ==
  ASSUME UNCHANGED <<curSig, allowance, priority>>,
         \A s \in Stages : demand[s] > NoDemand => demand'[s] > NoDemand
  PROVE  /\ Soles' \subseteq Soles
         /\ \A b \in Int : SolesCleared(b) => SolesCleared(b)'
<1>1. NotBanned' = NotBanned /\ Stages' = Stages
  BY DEF NotBanned, Stages
<1>2. \A h, P : Approaches(h, P)' = Approaches(h, P)
  BY DEF Approaches, After
<1>3. \A m \in Int : After(m)' = After(m)
  BY DEF After
<1>4. \A s \in Stages : Facility(s) \subseteq Facility(s)'
  BY <1>3 DEF Facility, After
<1>5. \A s \in Stages : s \in Facility(s)
  BY DEF Facility
<1>6. Soles' \subseteq Soles
  BY <1>1, <1>4, <1>5 DEF Soles
<1>7. \A b \in Int : SolesCleared(b) => SolesCleared(b)'
  BY <1>1, <1>2, <1>3, <1>6 DEF SolesCleared, Cleared
<1> QED BY <1>6, <1>7

(* A decided emergency has been approached.                                *)
LEMMA EmergencyFound ==
  ASSUME Inv, Tested, EmergencyInv, search = "emergency", Choose
  PROVE  EmergencyStage = k /\ k # 0
<1> USE NextStageAssumption DEF Inv, TypeOK, InBody
<1>1. pc = "Body" /\ k \in Stages /\ k # curSig /\ k \in NotBanned
  BY DEF Choose, Permitted, Tested, NotBanned
<1>2. i < NStages /\ i \in 1..NStages - 1
  BY <1>1
<1>3. WalkedFrom(i, k) /\ After(i) \in Emergencies /\ Unreached(i - 1)
  BY <1>1 DEF EmergencyInv
<1>4. Cleared(Emergencies, i - 1)
  BY <1>3 DEF Unreached, Cleared
<1>5. TypeOK
  BY DEF Inv
<1>6. NotBanned \in SUBSET NotBanned
  OBVIOUS
<1>7. Found(Emergencies, NotBanned) = k
  BY <1>1, <1>2, <1>3, <1>4, <1>5, <1>6, WalkedTo
<1> QED BY <1>1, <1>7 DEF EmergencyStage, Emergencies, Stages

(* PrioritySecond in terms of the priority demands that come first.        *)
LEMMA SecondFromSoles == TypeOK /\ SecondInv => PrioritySecond
<1> SUFFICES ASSUME TypeOK, SecondInv, pc = "Done",
                    EmergencyStage = 0, NEW j \in 1..NStages - 1, priority[After(j)] # 0,
                    Facility(After(j)) = {After(j)}, Approaches(j, NotBanned) # {}
             PROVE  nextPriority # 0 /\ nextStage = nextPriority
  BY DEF PrioritySecond
<1>1. After(j) \in Soles
  BY AfterStage DEF Soles, TypeOK
<1>2. ~SolesCleared(NStages - 1)
  BY <1>1 DEF SolesCleared, Cleared
<1> QED BY <1>2 DEF SecondInv

(* Every step keeps what the priority search has ruled out.                *)
LEMMA NextPriorityInv ==
  ASSUME Inv, Tested, EmergencyInv, PriorityInv, [Next]_vars
  PROVE  PriorityInv'
<1> USE NextStageAssumption DEF Inv, TypeOK, InBody
<1>0. UNCHANGED <<curSig, allowance, emergency, priority>>
  BY DEF Next, Step, Returned, vars, PassOver, Consider, EnterBody,
     WalkedBack, Choose, StepBack, Continue, SearchOver, SecondPass, Revert,
     GiveUp, dataset, epMarkers
<1>a. /\ \A j, s \in Int : WalkedFrom(j, s)' = WalkedFrom(j, s)
      /\ \A j \in Int : After(j)' = After(j)
      /\ EmergencyStage' = EmergencyStage
  BY <1>0, InputsKept
<1>b. TypeOK
  BY DEF Inv
<1>c. \A s \in Stages : demand[s] > NoDemand => demand'[s] > NoDemand
  <2>1. CASE Revert
    BY <2>1 DEF Revert, Reversionary, NoDemand
  <2>2. CASE ~Revert
    <3>1. UNCHANGED demand
      BY <2>2 DEF Next, Step, Returned, vars, PassOver, Consider, EnterBody,
         WalkedBack, Choose, StepBack, Continue, SearchOver, SecondPass, GiveUp
    <3> QED BY <3>1
  <2> QED BY <2>1, <2>2
<1>d. Soles' \subseteq Soles /\ \A b \in Int : SolesCleared(b) => SolesCleared(b)'
  BY <1>0, <1>c, SolesShrink
<1>1. CASE UNCHANGED vars
  <2>1. UNCHANGED <<i, k, search, pc, chosen>>
    BY <1>1 DEF vars
  <2>2. SolesCleared(i - 1) => SolesCleared(i - 1)'
    BY <1>d, <2>1
  <2>3. SolesCleared(NStages - 1) => SolesCleared(NStages - 1)'
    BY <1>d
  <2>4. pc \in {"While", "Body"} => WalkedFrom(i, k)' = WalkedFrom(i, k)
    BY <1>a, <2>1 DEF Stages
  <2>5. (After(i) \in Soles)' => After(i) \in Soles
    BY <1>a, <1>d, <2>1
  <2>6. SecondInv'
    BY <1>a, <2>1, <2>3 DEF PriorityInv, SecondInv, chosen
  <2> QED BY <2>1, <2>2, <2>3, <2>4, <2>5, <2>6 DEF PriorityInv
<1>2. CASE search = "emergency" /\ Step
  <2>1. CASE SearchOver
    <3>1. search' = "priority" /\ i' = 1 /\ pc' = "For" /\ i' - 1 = 0
      BY <1>2, <2>1 DEF SearchOver, NextSearch
    <3>2. SolesCleared(0)'
      BY DEF SolesCleared, Cleared
    <3>3. SolesCleared(i - 1)'
      BY <3>1, <3>2
    <3> QED BY <3>1, <3>3 DEF PriorityInv, SecondInv
  <2>2. CASE Choose
    <3>1. EmergencyStage' # 0 /\ search' = "emergency"
      BY <1>2, <1>a, <2>2, EmergencyFound DEF Choose
    <3> QED BY <3>1 DEF PriorityInv, SecondInv
  <2>3. CASE ~SearchOver /\ ~Choose
    <3>1. search' = "emergency" /\ pc' # "Done"
      BY <1>2, <2>3 DEF Step, PassOver, Consider, EnterBody, WalkedBack, StepBack, Continue,
         SecondPass, Revert, GiveUp
    <3> QED BY <3>1 DEF PriorityInv, SecondInv
  <2> QED BY <2>1, <2>2, <2>3
<1>3. CASE search = "normal" /\ Step
  <2>1. search' = "normal"
    BY <1>3 DEF Step, PassOver, Consider, EnterBody, WalkedBack, Choose, StepBack, Continue,
       SearchOver, SecondPass, Revert, GiveUp
  <2>2. SolesCleared(NStages - 1)'
    BY <1>3, <1>d DEF PriorityInv
  <2> QED BY <2>1, <2>2 DEF PriorityInv, SecondInv
<1>4. CASE search = "priority" /\ Step
  <2>1. CASE PassOver
    <3>1. After(i) \notin Soles /\ i \in 1..NStages - 1
      BY <1>4, <2>1, AfterStage DEF PassOver, Demanded, Soles
    <3>2. SolesCleared(i)
      BY <1>4, <2>1, <3>1, ClearedMore DEF PassOver, PriorityInv, SolesCleared
    <3>3. i' - 1 = i /\ pc' = "For" /\ search' = "priority"
      BY <1>4, <2>1 DEF PassOver
    <3>4. SolesCleared(i - 1)'
      BY <1>d, <3>1, <3>2, <3>3
    <3> QED BY <3>3, <3>4 DEF PriorityInv, SecondInv
  <2>2. CASE Consider
    <3>1. i \in 1..NStages - 1 /\ i' = i /\ pc = "For" /\ pc' = "While" /\ search' = "priority"
      BY <1>4, <2>2 DEF Consider
    <3>2. After(i) \in Stages
      BY <3>1, AfterStage
    <3>3. After(i) \in Soles => k' = After(i)
      BY <1>4, <2>2 DEF Consider, From, Soles
    <3>4. WalkedFrom(i, After(i))
      BY <3>1 DEF WalkedFrom
    <3>5. (After(i) \in Soles)' => WalkedFrom(i, k)'
      BY <1>a, <1>d, <3>1, <3>2, <3>3, <3>4 DEF Stages
    <3>6. SolesCleared(i - 1)'
      BY <1>4, <1>d, <3>1 DEF PriorityInv
    <3> QED BY <3>1, <3>5, <3>6 DEF PriorityInv, SecondInv
  <2>3. CASE EnterBody \/ Continue
    <3>1. /\ UNCHANGED <<i, k>> /\ pc \in {"While", "Body"} /\ pc' \in {"While", "Body"}
          /\ search' = "priority"
      BY <1>4, <2>3 DEF EnterBody, Continue
    <3>2. (After(i) \in Soles)' => WalkedFrom(i, k)'
      BY <1>4, <1>a, <1>d, <3>1 DEF PriorityInv, Stages
    <3>3. SolesCleared(i - 1)'
      BY <1>4, <1>d, <3>1 DEF PriorityInv
    <3> QED BY <3>1, <3>2, <3>3 DEF PriorityInv, SecondInv
  <2>4. CASE WalkedBack
    <3>1. i \in 1..NStages - 1 /\ pc = "While" /\ k = curSig
      BY <2>4 DEF WalkedBack
    <3>2. After(i) \in Soles => Approaches(i, NotBanned) = {}
      BY <1>4, <1>b, <3>1, WalkedAll DEF PriorityInv
    <3>3. SolesCleared(i)
      BY <1>4, <3>1, <3>2, ClearedMore DEF PriorityInv, SolesCleared
    <3>4. i' - 1 = i /\ pc' = "For" /\ search' = "priority"
      BY <1>4, <2>4 DEF WalkedBack
    <3>5. SolesCleared(i - 1)'
      BY <1>d, <3>1, <3>3, <3>4
    <3> QED BY <3>4, <3>5 DEF PriorityInv, SecondInv
  <2>5. CASE Choose
    <3>1. search' = "priority" /\ pc' = "Done" /\ nextPriority' = k /\ nextStage' = k /\ k # 0
      BY <1>4, <2>5 DEF Choose, Adopt, Stages
    <3> QED BY <3>1 DEF PriorityInv, SecondInv
  <2>6. CASE StepBack
    <3>1. /\ i \in 1..NStages - 1 /\ pc = "Body" /\ k \in Stages /\ k # curSig
          /\ k \notin NotBanned /\ k' = Before(k)
      BY <2>6 DEF StepBack, Tested, NotBanned
    <3>2. Before(k) \in Int
      BY <3>1, BeforeStage DEF Stages
    <3>3. After(i) \in Soles => WalkedFrom(i, Before(k))
      BY <1>4, <1>b, <3>1, WalkedOn DEF PriorityInv
    <3>4. i' = i /\ pc' = "While" /\ search' = "priority"
      BY <1>4, <2>6 DEF StepBack
    <3>5. (After(i) \in Soles)' => WalkedFrom(i, k)'
      BY <1>a, <1>d, <3>1, <3>2, <3>3, <3>4
    <3>6. SolesCleared(i - 1)'
      BY <1>4, <1>d, <3>1, <3>4 DEF PriorityInv
    <3> QED BY <3>4, <3>5, <3>6 DEF PriorityInv, SecondInv
  <2>7. CASE SearchOver
    <3>1. search' = "normal" /\ pc' = "For" /\ i = NStages /\ pc = "For"
      BY <1>4, <2>7 DEF SearchOver, NextSearch
    <3>2. SolesCleared(NStages - 1)
      BY <1>4, <3>1 DEF PriorityInv
    <3>3. SolesCleared(NStages - 1)'
      BY <1>d, <3>2
    <3> QED BY <3>1, <3>3 DEF PriorityInv, SecondInv
  <2> QED
    BY <1>4, <2>1, <2>2, <2>3, <2>4, <2>5, <2>6, <2>7 DEF Step, SecondPass, Revert, GiveUp
<1> QED BY <1>1, <1>2, <1>3, <1>4 DEF Next, Returned

(* Without an emergency that can be approached, a priority demand that can *)
(* be is served, unless another demand may have to be met before it.       *)
THEOREM PriorityIsSecond == Spec => []PrioritySecond
<1>1. Init => /\ Tested /\ ChoicePermitted
              /\ EmergencyInv /\ EmergencyFirst /\ PriorityInv
  BY DEF Init, Tested, ChoicePermitted, EmergencyInv, EmergencyFirst,
     Unreached, PriorityInv, SecondInv
<1>2. Inv /\ Tested /\ ChoicePermitted /\ [Next]_vars
        => (Tested /\ ChoicePermitted)'
  BY NextPermitted
<1>3. Inv /\ Tested /\ EmergencyInv /\ EmergencyFirst /\ [Next]_vars
        => (EmergencyInv /\ EmergencyFirst)'
  BY NextEmergencyInv
<1>4. Inv /\ Tested /\ EmergencyInv /\ PriorityInv /\ [Next]_vars => PriorityInv'
  BY NextPriorityInv
<1>5. Inv /\ PriorityInv => PrioritySecond
  BY SecondFromSoles DEF Inv, PriorityInv
<1>. QED
  BY InvHolds, <1>1, <1>2, <1>3, <1>4, <1>5, PTL DEF Spec
=============================================================================
