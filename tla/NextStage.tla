----------------------------- MODULE NextStage -----------------------------
(***************************************************************************)
(* The choice of the next stage: update_junction_next_stage() of           *)
(* M8.0/kernel/junction_handler.c with the three searches it tries in      *)
(* turn, for an emergency, a priority and a normal demand.                 *)
(*                                                                         *)
(* Each search looks at the stages after the current one in cyclic order;  *)
(* from one with a demand it walks back towards the current stage until it *)
(* finds a change the dataset permits.  The loops are kept as loops, one   *)
(* step for each test of a condition and each turn of a body, so that what *)
(* is chosen and whether a choice is ever made can both be asked.          *)
(*                                                                         *)
(* One behaviour is one call, in a green of curSig.  Only the row of       *)
(* change[][] of the current stage is read: it is "allowance".             *)
(***************************************************************************)
EXTENDS Integers

CONSTANTS
  NStages,          \* Tcomshr->stages
  MaxStages,        \* mxstag, the next stage after a reset
  Allowances,       \* what a cell of change[][] may hold, in tenths: banned
                    \* (-1), emergency and priority only (below -1), permitted
  Markers           \* what demand_marker[] may hold

NoDemand == 0
Reversionary == 2
Banned == -1

ASSUME NextStageAssumption ==
  /\ NStages \in Nat \ {0} /\ MaxStages \in Nat /\ NStages <= MaxStages
  /\ Allowances \subseteq Int
  /\ Markers \subseteq Int /\ Reversionary \in Markers

VARIABLES
  allowance, main,                \* the dataset: changes from curSig, mainst
  curSig,                         \* the current stage
  demand, emergency, priority,    \* the three demand markers of each stage
  search,                         \* the search that is running
  pass, i, k,                     \* its loop variables
  pc,                             \* where it is
  nextStage, nextEmergency, nextPriority

dataset == <<allowance, main, curSig>>
epMarkers == <<emergency, priority>>
chosen == <<nextStage, nextEmergency, nextPriority>>
vars == <<dataset, demand, epMarkers, search, pass, i, k, pc, chosen>>

Stages == 1..NStages

Init ==
  /\ curSig \in Stages
  /\ allowance \in [Stages -> Allowances]
  /\ allowance[curSig] = Banned
  /\ main \in 0..NStages
  /\ demand \in [Stages -> Markers]
  /\ emergency \in [Stages -> {0, 1}] /\ emergency[curSig] = 0
  /\ priority \in [Stages -> {0, 1}] /\ priority[curSig] = 0
  /\ search = "emergency" /\ pass = 0 /\ i = 1 /\ k = 0
  /\ pc = "For"
  /\ nextStage = MaxStages /\ nextEmergency = 0 /\ nextPriority = 0

-----------------------------------------------------------------------------
(* The stage j places after the current one, and the stage before s.       *)
After(j) == IF curSig + j > NStages THEN curSig + j - NStages ELSE curSig + j

Before(s) == IF s - 1 <= 0 THEN NStages ELSE s - 1

(* Mutant of Demanded: a stage rejected by a 6MRR code counts as demanded. *)
DemandedRejected(s) == \/ search = "emergency" /\ emergency[s] # 0
                       \/ search = "priority" /\ priority[s] # 0
                       \/ search = "normal" /\ demand[s] # NoDemand

Demanded(s) == \/ search = "emergency" /\ emergency[s] # 0
               \/ search = "priority" /\ priority[s] # 0
               \/ search = "normal" /\ demand[s] > NoDemand

(* process_priority_facility_code(): a demanded stage on the way to the    *)
(* priority stage that may not be skipped takes its place.  Which may not  *)
(* depends on the facility codes, the oversaturation and the links.        *)
Facility(s) ==
  {s} \union {t \in Stages : /\ demand[t] > NoDemand
                             /\ \E m, n \in 1..NStages - 1 :
                                  m < n /\ t = After(m) /\ s = After(n)}

From(s) == IF search = "priority" THEN Facility(s) ELSE {s}

(* "for (i = 1; i < stages; i++)": the next stage in order, passed over    *)
(* when it has no demand.                                                  *)
PassOver ==
  /\ pc = "For" /\ i < NStages
  /\ ~Demanded(After(i))
  /\ i' = i + 1
  /\ UNCHANGED <<dataset, demand, epMarkers, search, pass, k, pc, chosen>>

Consider ==
  /\ pc = "For" /\ i < NStages
  /\ Demanded(After(i))
  /\ k' \in From(After(i))
  /\ pc' = "While"
  /\ UNCHANGED <<dataset, demand, epMarkers, search, pass, i, chosen>>

(* "while (k != current)"                                                  *)
EnterBody ==
  /\ pc = "While" /\ k # curSig
  /\ pc' = "Body"
  /\ UNCHANGED <<dataset, demand, epMarkers, search, pass, i, k, chosen>>

WalkedBack ==
  /\ pc = "While" /\ k = curSig
  /\ pc' = "For" /\ i' = i + 1
  /\ UNCHANGED <<dataset, demand, epMarkers, search, pass, k, chosen>>

(* Mutant of Permitted: the second pass permits every change.              *)
PermittedAny(s) == allowance[s] >= 0 \/ pass > 0

(* An emergency or priority change may use what is not banned; a normal    *)
(* one what is permitted always and, on the second pass, the rest.         *)
Permitted(s) == IF search = "normal"
                  THEN \/ allowance[s] >= 0
                       \/ allowance[s] < Banned /\ pass > 0
                  ELSE allowance[s] # Banned

(* Mutant of Adopt: a priority stage is left over beside an emergency.     *)
AdoptBoth ==
  /\ nextEmergency' = IF search = "emergency" THEN k ELSE nextEmergency
  /\ nextPriority' = IF search # "normal" THEN k ELSE 0
  /\ nextStage' = k

(* The end of update_junction_next_stage() once a stage is found; its copy *)
(* of the old next stage, which decides nothing, is left out.             *)
Adopt ==
  /\ nextEmergency' = IF search = "emergency" THEN k ELSE 0
  /\ nextPriority' = IF search = "priority" THEN k ELSE 0
  /\ nextStage' = k

Choose ==
  /\ pc = "Body" /\ Permitted(k)
  /\ Adopt
  /\ pc' = "Done"
  /\ UNCHANGED <<dataset, demand, epMarkers, search, pass, i, k>>

StepBack ==
  /\ pc = "Body" /\ allowance[k] = Banned
  /\ k' = Before(k)
  /\ pc' = "While"
  /\ UNCHANGED <<dataset, demand, epMarkers, search, pass, i, chosen>>

(* "if (pass > 0) return k; continue;" - the inner loop is continued, with *)
(* the same k.                                                             *)
Continue ==
  /\ pc = "Body" /\ allowance[k] # Banned /\ ~Permitted(k)
  /\ pc' = "While"
  /\ UNCHANGED <<dataset, demand, epMarkers, search, pass, i, k, chosen>>

(* Mutant of NextSearch: the priority demands are not looked at.           *)
NextSearchSkips == "normal"

NextSearch == IF search = "emergency" THEN "priority" ELSE "normal"

(* A search for an emergency or priority demand found nothing.             *)
SearchOver ==
  /\ pc = "For" /\ i >= NStages /\ search # "normal"
  /\ search' = NextSearch /\ i' = 1
  /\ UNCHANGED <<dataset, demand, epMarkers, pass, k, pc, chosen>>

SecondPass ==
  /\ pc = "For" /\ i >= NStages /\ search = "normal" /\ pass = 0
  /\ pass' = 1 /\ i' = 1
  /\ UNCHANGED <<dataset, demand, epMarkers, search, k, pc, chosen>>

(* Mutant of MayRevert: the main stage is demanded again and again.        *)
MayRevertAgain == main \notin {0, curSig}

MayRevert == main \notin {0, curSig} /\ demand[main] <= NoDemand

(* No demand can be served: demand the main stage and decide again.        *)
Revert ==
  /\ pc = "For" /\ i >= NStages /\ search = "normal" /\ pass = 1
  /\ MayRevert
  /\ demand' = [demand EXCEPT ![main] = Reversionary]
  /\ pass' = 0 /\ i' = 1
  /\ UNCHANGED <<dataset, epMarkers, search, k, pc, chosen>>

GiveUp ==
  /\ pc = "For" /\ i >= NStages /\ search = "normal" /\ pass = 1
  /\ ~MayRevert
  /\ nextEmergency' = 0 /\ nextPriority' = 0
  /\ pc' = "Done"
  /\ UNCHANGED <<dataset, demand, epMarkers, search, pass, i, k, nextStage>>

(* The call has returned.                                                  *)
Returned == pc = "Done" /\ UNCHANGED vars

Step == \/ PassOver
        \/ Consider
        \/ EnterBody
        \/ WalkedBack
        \/ Choose
        \/ StepBack
        \/ Continue
        \/ SearchOver
        \/ SecondPass
        \/ Revert
        \/ GiveUp

Next == Step \/ Returned

Spec == Init /\ [][Next]_vars

(* Nothing can hold up the loops: they run in one thread, without a wait.  *)
FairSpec == Spec /\ WF_vars(Step)

-----------------------------------------------------------------------------
TypeOK ==
  /\ curSig \in Stages
  /\ allowance \in [Stages -> Allowances] /\ allowance[curSig] = Banned
  /\ main \in 0..NStages
  /\ demand \in [Stages -> Markers]
  /\ emergency \in [Stages -> {0, 1}] /\ priority \in [Stages -> {0, 1}]
  /\ search \in {"emergency", "priority", "normal"}
  /\ pass \in {0, 1} /\ i \in 1..NStages /\ k \in 0..NStages
  /\ pc \in {"For", "While", "Body", "Done"}
  /\ pc \in {"While", "Body"} => k \in Stages
  /\ nextStage \in 1..MaxStages
  /\ nextEmergency \in 0..NStages /\ nextPriority \in 0..NStages

(* What a search for the demands of D, with the changes of P, is to find:  *)
(* for the first stage of D, in cyclic order, that can be approached at    *)
(* all, the stage nearest to it on the way there.                          *)
Approaches(j, P) == {m \in 1..j : After(m) \in P}
Reachable(D, P) == {j \in 1..NStages - 1 :
                      After(j) \in D /\ Approaches(j, P) # {}}
Greatest(S) == CHOOSE x \in S : \A y \in S : y <= x
Least(S) == CHOOSE x \in S : \A y \in S : x <= y
Found(D, P) == LET R == Reachable(D, P)
               IN IF R = {} THEN 0 ELSE After(Greatest(Approaches(Least(R), P)))

NotBanned == {s \in Stages : allowance[s] # Banned}
Always == {s \in Stages : allowance[s] >= 0}
EmergencyStage == Found({s \in Stages : emergency[s] # 0}, NotBanned)
NormalStage == Found({s \in Stages : demand[s] > NoDemand}, Always)

(* An emergency demand that can be approached decides the next stage,      *)
(* whatever priority and normal demands there are beside it, and no        *)
(* priority stage is left over for handle_junction_ep_timers_and_markers_  *)
(* updates() to act upon.                                                  *)
EmergencyFirst ==
  pc = "Done" /\ EmergencyStage # 0 =>
    /\ nextStage = EmergencyStage
    /\ nextEmergency = EmergencyStage /\ nextPriority = 0

(* Without an emergency, a priority demand is served when a stage can be   *)
(* approached on the way to it and no stage in between has a demand that   *)
(* may have to be met first.                                               *)
PrioritySecond ==
  pc = "Done" /\ EmergencyStage = 0
    /\ (\E j \in 1..NStages - 1 : /\ priority[After(j)] # 0
                                  /\ Facility(After(j)) = {After(j)}
                                  /\ Approaches(j, NotBanned) # {})
    => nextPriority # 0 /\ nextStage = nextPriority

(* A normal choice finds the stage nearest to the first demand that can be *)
(* approached over the changes that are always permitted.  There is no     *)
(* change of stage only when no demand can, and then the main stage is     *)
(* demanded, current or undefined.                                         *)
NormalRight ==
  pc = "Done" /\ nextEmergency = 0 /\ nextPriority = 0 =>
    IF NormalStage # 0
      THEN nextStage = NormalStage
      ELSE /\ nextStage = MaxStages
           /\ main \in {0, curSig} \/ demand[main] > NoDemand

(* The stage chosen is another one, and the change to it is not banned.    *)
ChoicePermitted ==
  pc = "Done" /\ nextStage # MaxStages =>
    /\ nextStage # curSig
    /\ allowance[nextStage] # Banned

(* Each step of a decision brings its end nearer, but one that meets a     *)
(* reserved change on the first normal pass: it goes on to a later search  *)
(* or pass, or within the pass to a later stage, or on the walk back from  *)
(* a stage nearer to the current one.  The reversionary demand allows two  *)
(* more passes, once.                                                      *)
PassesLeft == CASE search = "emergency" -> 5
                [] search = "priority" -> 4
                [] OTHER -> (IF MayRevert THEN 2 ELSE 0) + 1 - pass

Distance == IF k >= curSig THEN k - curSig ELSE k + NStages - curSig

WalkLeft == CASE pc = "For" -> 2 * NStages + 2
              [] pc = "While" -> 2 * Distance + 1
              [] pc = "Body" -> 2 * Distance
              [] OTHER -> -1

(* The walk back has come to a reserved change on the first normal pass.   *)
Caught == /\ pc \in {"While", "Body"}
          /\ search = "normal" /\ pass = 0 /\ allowance[k] < Banned

DecisionNears ==
  [][Step =>
       \/ Caught
       \/ PassesLeft' < PassesLeft
       \/ PassesLeft' = PassesLeft /\ i' > i
       \/ PassesLeft' = PassesLeft /\ i' = i /\ WalkLeft' < WalkLeft]_vars

(* There it stays: the loop goes on with the same stage, on the same pass. *)
CaughtStays == [][Caught => Caught' /\ UNCHANGED <<i, k, chosen>>]_vars

NoneReserved == \A s \in Stages : allowance[s] >= Banned

(* So a decision always ends, when no change is reserved.                  *)
Decides == NoneReserved => <>(pc = "Done")

(* What the comment in the body of the loop says of a change that is: it   *)
(* is allowed on the second pass, so one met on the first pass leads to    *)
(* this change or another.                                                 *)
AllowedOnSecondPass ==
  (pc = "Body" /\ search = "normal" /\ pass = 0 /\ allowance[k] < Banned)
    ~> (pc = "Done")
=============================================================================
