---------------------------- MODULE StreamProofs ----------------------------
(***************************************************************************)
(* First the watchdogs of the status (S) for every limit: their counters   *)
(* are the age of the present status, so the faults and the end of a force *)
(* are timely.  The threads of a stream and the workers of its commands    *)
(* only ever call the status's methods, so this is true in a stream.       *)
(*                                                                         *)
(* Then what is true of the tick threads, for any number of threads, of    *)
(* handlers and of daemons, whatever they are sent: nothing is assumed of  *)
(* who starts the stream, or of the time a tick takes.  A worker whose     *)
(* look at the thread is not out of date is right about it, up to a race.  *)
(*                                                                         *)
(* Last the commands that come one at a time: the next step of the program *)
(* says what is true of the thread, the event and the status.              *)
(***************************************************************************)
EXTENDS Stream, TLAPS, SequenceTheorems, FiniteSetTheorems

(* The counter of a warm-up is its age, up to one past the limit.          *)
WarmupTimed ==
  warmupWait = IF status # "WARMUP" THEN 0
               ELSE IF held < MaxWarmup THEN held + 1 ELSE MaxWarmup + 1

(* WarmupReported with the rest of what a step needs.                      *)
StatusInv == S!TypeOK /\ WarmupTimed /\ S!WarmupReported /\ S!ForceTimed

(* The initial state.                                                      *)
LEMMA StatusInitInv == S!Init => StatusInv
BY StatusAssumption, SMT
   DEF S!Init, StatusInv, S!TypeOK, WarmupTimed, S!WarmupReported, S!ForceTimed, S!MovaStatus, StatusAssumption

(* A transition starts the age again and clears the fault of a warm-up.    *)
LEMMA SetInv == ASSUME NEW s \in S!MovaStatus, StatusInv, S!Set(s) PROVE StatusInv'
<1>1. CASE s = status /\ UNCHANGED S!vars
  BY <1>1 DEF StatusInv, S!TypeOK, WarmupTimed, S!WarmupReported, S!ForceTimed, S!vars
<1>2. CASE s # status /\ S!Set(s)
  <2>1. status' = s /\ previous' = status /\ held' = 0 /\ movaOn' = movaOn
    BY <1>2 DEF S!Set, S!vars
  <2>2. warmupWait' = IF s = "WARMUP" THEN 1 ELSE 0
    BY <1>2 DEF S!Set, StatusInv, WarmupTimed, S!TypeOK, S!vars
  <2>3. forceWait' = IF s = "MANUAL_FORCE" THEN 1 ELSE 0
    BY <1>2 DEF S!Set, StatusInv, S!ForceTimed, S!TypeOK, S!vars
  <2>4. faults' \subseteq {"WARMUP", "MANUAL_FORCE"} /\ "WARMUP" \notin faults'
    BY <1>2 DEF S!Set, S!Cleared, StatusInv, S!TypeOK, S!WarmupReported, S!vars
  <2> QED
    BY <2>1, <2>2, <2>3, <2>4, StatusAssumption
       DEF StatusInv, S!TypeOK, WarmupTimed, S!WarmupReported, S!ForceTimed, StatusAssumption
<1> QED BY <1>1, <1>2 DEF S!Set

(* A second adds one to the age and to the counter of its status.          *)
LEMMA TickInv == ASSUME StatusInv, S!Tick PROVE StatusInv'
<1>1. status' = status /\ previous' = previous /\ held \in 0..Horizon
      /\ held' = IF held < Horizon THEN held + 1 ELSE held
  BY DEF S!Tick, StatusInv, S!TypeOK
<1>2. held' \in 0..Horizon
  BY <1>1, StatusAssumption DEF StatusAssumption
<1>3. WarmupTimed' /\ warmupWait' \in 0..MaxWarmup + 1
  BY <1>1, StatusAssumption
     DEF S!Tick, S!WarmupWait, StatusInv, WarmupTimed, StatusAssumption
<1>4. S!WarmupReported'
  BY <1>1, StatusAssumption
     DEF S!Tick, S!WarmupExpires, S!ForceExpires, StatusInv, WarmupTimed, S!WarmupReported, StatusAssumption
<1>5. S!ForceTimed' /\ forceWait' \in 0..MaxManualForce
  BY <1>1, StatusAssumption
     DEF S!Tick, S!ForceWait, S!ForceExpires, StatusInv, S!ForceTimed, StatusAssumption
<1>6. faults' \subseteq {"WARMUP", "MANUAL_FORCE"} /\ movaOn' \in {0, 1}
  BY DEF S!Tick, StatusInv, S!TypeOK
<1> QED BY <1>1, <1>2, <1>3, <1>4, <1>5, <1>6 DEF StatusInv, S!TypeOK

(* One step of Next.                                                       *)
LEMMA StatusNextInv == StatusInv /\ [S!Next]_(S!vars) => StatusInv'
<1> SUFFICES ASSUME StatusInv, [S!Next]_(S!vars) PROVE StatusInv'
  OBVIOUS
<1>1. CASE \E s \in S!MovaStatus : S!Set(s)
  BY <1>1, SetInv
<1>2. CASE S!Tick
  BY <1>2, TickInv
<1>3. CASE \E on \in {0, 1} : S!SetMovaOn(on)
  BY <1>3 DEF S!SetMovaOn, StatusInv, S!TypeOK, WarmupTimed, S!WarmupReported, S!ForceTimed
<1>4. CASE UNCHANGED S!vars
  BY <1>4 DEF StatusInv, S!TypeOK, WarmupTimed, S!WarmupReported, S!ForceTimed, S!vars
<1> QED BY <1>1, <1>2, <1>3, <1>4 DEF S!Next

(* Inv holds throughout.                                                   *)
LEMMA StatusInvariant == S!Spec => []StatusInv
BY StatusInitInv, StatusNextInv, PTL DEF S!Spec

(* Every variable of the status keeps its type, for any two limits.        *)
THEOREM StatusTypeCorrect == S!Spec => []S!TypeOK
<1>1. StatusInv => S!TypeOK
  BY DEF StatusInv
<1> QED BY <1>1, StatusInvariant, PTL

(* The warm-up fault is active exactly in the seconds of a warm-up past    *)
(* its limit.                                                              *)
THEOREM WarmupIsReported == S!Spec => []S!WarmupReported
<1>1. StatusInv => S!WarmupReported
  BY DEF StatusInv
<1> QED BY <1>1, StatusInvariant, PTL

(* The counter of a manual force is the age of this force, never an older. *)
THEOREM ForceIsTimed == S!Spec => []S!ForceTimed
<1>1. StatusInv => S!ForceTimed
  BY DEF StatusInv
<1> QED BY <1>1, StatusInvariant, PTL

(* MOVA is turned off by the last second allowed to a force, and by no     *)
(* earlier one.                                                            *)
THEOREM ForceEndsInTime == S!Spec => S!ForceTurnsMovaOff
<1> DEFINE Ends == S!Tick /\ ~UNCHANGED held /\ status = "MANUAL_FORCE" /\ movaOn = 1
                     => (movaOn' = 0 <=> held' = MaxManualForce)
<1>1. StatusInv => [Ends]_(S!vars)
  <2> SUFFICES ASSUME StatusInv, S!Tick, ~UNCHANGED held, status = "MANUAL_FORCE", movaOn = 1
               PROVE movaOn' = 0 <=> held' = MaxManualForce
    OBVIOUS
  <2>1. held \in 0..Horizon /\ held' = held + 1
    BY DEF S!Tick, StatusInv, S!TypeOK
  <2>2. S!ForceExpires <=> forceWait >= MaxManualForce
    BY DEF S!ForceExpires
  <2>3. forceWait = IF held < MaxManualForce THEN held + 1 ELSE 0
    BY DEF StatusInv, S!ForceTimed
  <2>4. movaOn' = IF S!ForceExpires THEN 0 ELSE 1
    BY DEF S!Tick
  <2> HIDE DEF S!ForceExpires
  <2> QED BY <2>1, <2>2, <2>3, <2>4, StatusAssumption DEF StatusAssumption
<1> QED BY <1>1, StatusInvariant, PTL DEF S!ForceTurnsMovaOff

-----------------------------------------------------------------------------
(* Setting the status, ticking it and writing io[27] are steps of Status.  *)
LEMMA StatusSteps ==
  /\ \A s \in S!MovaStatus : S!Set(s) => [S!Next]_(S!vars)
  /\ S!Tick => [S!Next]_(S!vars)
  /\ \A on \in {0, 1} : S!SetMovaOn(on) => [S!Next]_(S!vars)
  /\ UNCHANGED statusVars => [S!Next]_(S!vars)
BY DEF S!Next, S!vars, statusVars

(* The threads, with what is due to the controller ready bit.              *)
TickState == [at : {"dead", "loop", "read", "crb", "enter", "kernel", "slow", "failed"},
              due : {"none", "NO_CRB", "WARMUP", "ON_CONTROL"}]

(* A step of a tick thread.                                                *)
LEMMA TickSteps ==
  ASSUME NEW t \in Threads, tick[t] \in TickState, TickStep(t) \/ Fail(t)
  PROVE  [S!Next]_(S!vars)
<1>1. CASE Loop(t)
  BY <1>1, StatusSteps DEF Loop
<1>2. CASE Read(t)
  BY <1>2, StatusSteps DEF Read
<1>3. CASE UpdateCrb(t)
  <2>1. tick[t].due \in {"none"} \union S!MovaStatus
    BY DEF TickState, S!MovaStatus
  <2> QED BY <1>3, <2>1, StatusSteps DEF UpdateCrb
<1>4. CASE Enter(t)
  BY <1>4, StatusSteps DEF Enter
<1>5. CASE Leave(t)
  BY <1>5, StatusSteps DEF Leave
<1>6. CASE Slow(t)
  BY <1>6, StatusSteps DEF Slow
<1>7. CASE Failed(t)
  BY <1>7, StatusSteps DEF Failed
<1>8. CASE Fail(t)
  BY <1>8, StatusSteps DEF Fail, S!MovaStatus
<1> QED BY <1>1, <1>2, <1>3, <1>4, <1>5, <1>6, <1>7, <1>8 DEF TickStep

(* A command, and a step of its worker.                                    *)
LEMMA WorkerSteps ==
  ASSUME NEW w, Command(w) \/ WorkerStep(w) \/ GiveUp(w) PROVE [S!Next]_(S!vars)
<1>1. CASE UNCHANGED statusVars
  BY <1>1, StatusSteps
<1>2. CASE SetStatus(w)
  BY <1>2, StatusSteps DEF SetStatus
<1>3. CASE Clear(w) \/ Zero(w) \/ SetIo(w)
  BY <1>3, StatusSteps DEF Clear, Zero, SetIo
<1>4. CASE Command(w) \/ Join(w) \/ Await(w) \/ GiveUp(w) \/ Check(w) \/ Spawn(w) \/ Load(w)
  BY <1>1, <1>4 DEF Command, Join, Await, GiveUp, Check, Spawn, Load
<1>5. CASE Look(w) \/ Drop(w) \/ Again(w) \/ Reload(w) \/ Resume(w) \/ Unforce(w)
  BY <1>1, <1>5 DEF Look, Drop, Again, Reload, Resume, Unforce
<1> QED BY <1>2, <1>3, <1>4, <1>5 DEF WorkerStep

-----------------------------------------------------------------------------
(* The steps of programs.                                                  *)
Steps == S!MovaStatus \union
  {"clear", "join", "await", "check", "spawn", "load", "look", "drop", "again", "reload",
   "zero", "set", "unset", "resume", "previous"}

(* Which step may follow which in a program.                               *)
Precedes(a, b) ==
  \/ a = "clear" /\ b = "join"
  \/ a = "join" /\ b = "await"
  \/ a = "await" /\ b = "OFF"
  \/ a = "OFF" /\ b \in {"load", "drop", "again", "unset"}
  \/ a = "load" /\ b = "look"
  \/ a = "unset" /\ b = "resume"
  \/ a = "reload" /\ b = "zero"
  \/ a \in {"zero", "INIT", "set"} /\ b = "check"
  \/ a = "check" /\ b = "spawn"
  \/ a = "spawn" /\ b = "WARMUP"

(* The steps a program ends with.                                          *)
Ends == S!MovaStatus \union {"drop", "look", "again", "set", "unset", "resume", "previous"}

(* What every program is.                                                  *)
Shape(p) ==
  /\ p \in Seq(Steps) /\ Len(p) <= 6
  /\ \A n \in 1..Len(p) - 1 : Precedes(p[n], p[n + 1])
  /\ p # <<>> => p[Len(p)] \in Ends

(* What remains of a program is one, and begins with a step that may       *)
(* follow.                                                                 *)
LEMMA ShapeTail ==
  ASSUME NEW p, Shape(p), p # <<>>
  PROVE  /\ Shape(Tail(p))
         /\ Head(p) = p[1]
         /\ Tail(p) = <<>> => Head(p) \in Ends
         /\ Tail(p) # <<>> => Precedes(Head(p), Head(Tail(p)))
<1> DEFINE r == Tail(p)
<1>1. p \in Seq(Steps) /\ Len(p) \in Nat \ {0}
  <2>1. p \in Seq(Steps)
    BY DEF Shape
  <2>2. Len(p) \in Nat \ {0}
    BY <2>1, EmptySeq
  <2> QED BY <2>1, <2>2
<1>2. r \in Seq(Steps) /\ Len(r) = Len(p) - 1 /\ \A n \in 1..Len(r) : r[n] = p[n + 1]
  BY <1>1, HeadTailProperties, Zenon
<1>3. Head(p) = p[1] /\ (r # <<>> => Head(r) = r[1] /\ Len(r) > 0)
  BY <1>1, <1>2, EmptySeq
<1>4. r = <<>> => Len(p) = 1
  BY <1>1, <1>2, EmptySeq
<1> HIDE DEF r
<1>5. \A n \in 1..Len(r) - 1 : Precedes(r[n], r[n + 1])
  BY <1>1, <1>2 DEF Shape
<1>6. r # <<>> => r[Len(r)] \in Ends
  BY <1>1, <1>2, <1>3 DEF Shape
<1>7. Shape(r)
  BY <1>1, <1>2, <1>5, <1>6 DEF Shape
<1>8. r # <<>> => Precedes(p[1], p[2])
  BY <1>1, <1>2, <1>3 DEF Shape
<1> QED BY <1>1, <1>2, <1>3, <1>4, <1>7, <1>8 DEF Shape, r

(* Steps that lead to a program may come before it.                        *)
LEMMA ShapeConcat ==
  ASSUME NEW s \in Seq(Steps), s # <<>>,
         \A n \in 1..Len(s) - 1 : Precedes(s[n], s[n + 1]),
         NEW t, Shape(t), t # <<>>, Precedes(s[Len(s)], t[1]),
         Len(s) + Len(t) <= 6
  PROVE  Shape(s \o t) /\ s \o t # <<>> /\ Head(s \o t) = s[1]
<1> DEFINE r == s \o t
<1>1. t \in Seq(Steps) /\ Len(t) \in Nat \ {0} /\ Len(s) \in Nat \ {0}
  <2>1. t \in Seq(Steps)
    BY DEF Shape
  <2> QED BY <2>1, EmptySeq
<1>2. r \in Seq(Steps) /\ Len(r) = Len(s) + Len(t)
  BY <1>1, ConcatProperties
<1>3. \A n \in 1..Len(s) : r[n] = s[n]
  BY <1>1, ConcatProperties
<1>4. \A n \in 1..Len(t) : r[Len(s) + n] = t[n]
  <2>1. ASSUME NEW n \in 1..Len(t) PROVE r[Len(s) + n] = t[n]
    <3>1. Len(s) + n \in 1..Len(s) + Len(t) /\ ~(Len(s) + n <= Len(s)) /\ Len(s) + n - Len(s) = n
      BY <1>1
    <3> QED BY <1>1, <3>1, ConcatProperties
  <2> QED BY <2>1
<1> HIDE DEF r
<1>5. \A n \in 1..Len(r) - 1 : Precedes(r[n], r[n + 1])
  <2>1. ASSUME NEW n \in 1..Len(r) - 1, n < Len(s) PROVE Precedes(r[n], r[n + 1])
    <3>1. n \in 1..Len(s) /\ n + 1 \in 1..Len(s) /\ n \in 1..Len(s) - 1
      BY <1>1, <2>1
    <3>2. r[n] = s[n] /\ r[n + 1] = s[n + 1]
      BY <1>3, <3>1
    <3> QED BY <3>1, <3>2
  <2>2. ASSUME NEW n \in 1..Len(r) - 1, n = Len(s) PROVE Precedes(r[n], r[n + 1])
    BY <1>1, <1>3, <1>4, <2>2
  <2>3. ASSUME NEW n \in 1..Len(r) - 1, n > Len(s) PROVE Precedes(r[n], r[n + 1])
    <3>1. n - Len(s) \in 1..Len(t) - 1
      BY <1>1, <1>2, <2>3
    <3>2. r[n] = t[n - Len(s)] /\ r[n + 1] = t[n - Len(s) + 1]
      BY <1>1, <1>4, <3>1
    <3> QED BY <3>1, <3>2 DEF Shape
  <2> QED BY <1>1, <1>2, <2>1, <2>2, <2>3
<1>6. r[Len(r)] \in Ends
  <2>1. Len(t) \in 1..Len(t)
    BY <1>1
  <2>2. r[Len(s) + Len(t)] = t[Len(t)]
    BY <1>4, <2>1
  <2> QED BY <1>2, <2>2 DEF Shape
<1>7. r # <<>>
  BY <1>1, <1>2
<1>8. Shape(r) /\ Head(r) = s[1]
  BY <1>1, <1>2, <1>3, <1>5, <1>6, <1>7 DEF Shape
<1> QED BY <1>7, <1>8 DEF r

(* The programs that commands and steps begin with, and their heads.       *)
LEMMA ShapesOfLists ==
  /\ Shape(<<>>)
  /\ Shape(StopSteps) /\ Shape(StartSteps) /\ Shape(LoadSteps)
  /\ Shape(<<"drop">>) /\ Shape(<<"again">>) /\ Shape(<<"set">>) /\ Shape(<<"unset">>)
  /\ Shape(<<"unset", "resume">>) /\ Shape(<<"previous">>)
<1>1. Shape(<<>>)
  BY EmptySeq DEF Shape
<1>2. Shape(StopSteps)
  BY DEF Shape, Precedes, Ends, Steps, S!MovaStatus, StopSteps
<1>3. Shape(StartSteps)
  BY DEF Shape, Precedes, Ends, Steps, S!MovaStatus, StartSteps
<1>4. Shape(LoadSteps)
  BY DEF Shape, Precedes, Ends, Steps, S!MovaStatus, LoadSteps
<1>5. Shape(<<"drop">>) /\ Shape(<<"again">>) /\ Shape(<<"set">>) /\ Shape(<<"unset">>)
      /\ Shape(<<"previous">>)
  BY DEF Shape, Ends, Steps
<1>6. Shape(<<"unset", "resume">>)
  BY DEF Shape, Precedes, Ends, Steps
<1> QED BY <1>1, <1>2, <1>3, <1>4, <1>5, <1>6

(* A program that sets a status is one.                                    *)
LEMMA ShapeOfStatus == ASSUME NEW s \in S!MovaStatus PROVE Shape(<<s>>)
<1>1. s \in Steps /\ s \in Ends
  BY DEF Steps, Ends
<1>2. <<s>> \in Seq(Steps) /\ Len(<<s>>) = 1 /\ <<s>>[1] = s
  BY <1>1
<1> DEFINE r == <<s>>
<1> HIDE DEF r
<1>3. \A n \in 1..Len(r) - 1 : Precedes(r[n], r[n + 1])
  BY <1>2 DEF r
<1>4. Len(r) <= 6 /\ r[Len(r)] \in Ends
  BY <1>1, <1>2 DEF r
<1> QED BY <1>2, <1>3, <1>4 DEF Shape, r

(* The programs that begin with stop(), and their heads.                   *)
LEMMA ShapesAfterStop ==
  /\ Shape(StopSteps \o LoadSteps) /\ Head(StopSteps \o LoadSteps) = "clear"
  /\ Shape(StopSteps \o <<"drop">>) /\ Head(StopSteps \o <<"drop">>) = "clear"
  /\ Shape(StopSteps \o <<"again">>) /\ Head(StopSteps \o <<"again">>) = "clear"
  /\ Shape(StopSteps \o <<"unset">>) /\ Head(StopSteps \o <<"unset">>) = "clear"
  /\ Shape(StopSteps \o <<"unset", "resume">>) /\ Head(StopSteps \o <<"unset", "resume">>) = "clear"
<1> DEFINE Firsts == {"load", "drop", "again", "unset"}
<1>1. StopSteps \in Seq(Steps) /\ StopSteps # <<>> /\ Len(StopSteps) = 4
      /\ StopSteps[1] = "clear" /\ StopSteps[4] = "OFF"
      /\ \A n \in 1..3 : Precedes(StopSteps[n], StopSteps[n + 1])
  BY DEF StopSteps, Steps, S!MovaStatus, Precedes
<1>2. \A a \in Firsts : Precedes("OFF", a)
  BY DEF Precedes
<1>3. ASSUME NEW t, Shape(t), t # <<>>, t[1] \in Firsts, Len(t) <= 2
      PROVE  Shape(StopSteps \o t) /\ Head(StopSteps \o t) = "clear"
  <2>1. Len(t) \in Nat
    BY <1>3, LenProperties DEF Shape
  <2>2. Precedes(StopSteps[Len(StopSteps)], t[1])
    BY <1>1, <1>2, <1>3
  <2>3. Len(StopSteps) + Len(t) <= 6
    BY <1>1, <1>3, <2>1
  <2>4. \A n \in 1..Len(StopSteps) - 1 : Precedes(StopSteps[n], StopSteps[n + 1])
    BY <1>1
  <2> QED BY <1>1, <1>3, <2>2, <2>3, <2>4, ShapeConcat
<1>4. LoadSteps # <<>> /\ LoadSteps[1] \in Firsts /\ Len(LoadSteps) <= 2
  BY DEF LoadSteps
<1>5. \A s \in Firsts : <<s>> # <<>> /\ <<s>>[1] \in Firsts /\ Len(<<s>>) <= 2
  OBVIOUS
<1>6. <<"unset", "resume">> # <<>> /\ <<"unset", "resume">>[1] \in Firsts /\ Len(<<"unset", "resume">>) <= 2
  OBVIOUS
<1> HIDE DEF Firsts
<1>7. Shape(StopSteps \o LoadSteps) /\ Head(StopSteps \o LoadSteps) = "clear"
  <2>1. Shape(LoadSteps)
    BY ShapesOfLists
  <2> QED BY <1>3, <1>4, <2>1
<1>8. ASSUME NEW s \in Firsts, Shape(<<s>>)
      PROVE  Shape(StopSteps \o <<s>>) /\ Head(StopSteps \o <<s>>) = "clear"
  <2>1. <<s>> # <<>> /\ <<s>>[1] \in Firsts /\ Len(<<s>>) <= 2
    BY <1>5
  <2> QED BY <1>3, <1>8, <2>1
<1>9. Shape(StopSteps \o <<"unset", "resume">>) /\ Head(StopSteps \o <<"unset", "resume">>) = "clear"
  <2>1. Shape(<<"unset", "resume">>)
    BY ShapesOfLists
  <2> QED BY <1>3, <1>6, <2>1
<1>10. "drop" \in Firsts /\ "again" \in Firsts /\ "unset" \in Firsts
  BY DEF Firsts
<1> QED BY <1>7, <1>8, <1>9, <1>10, ShapesOfLists

(* The programs that end with start(), and their heads.                    *)
LEMMA ShapesBeforeStart ==
  /\ Shape(<<"INIT">> \o StartSteps) /\ Head(<<"INIT">> \o StartSteps) = "INIT"
  /\ <<"INIT">> \o StartSteps # <<>>
  /\ Shape(<<"set">> \o StartSteps) /\ Head(<<"set">> \o StartSteps) = "set"
  /\ <<"set">> \o StartSteps # <<>>
  /\ Shape(<<"reload", "zero">> \o StartSteps)
  /\ Head(<<"reload", "zero">> \o StartSteps) = "reload"
  /\ <<"reload", "zero">> \o StartSteps # <<>>
<1>1. Shape(StartSteps) /\ StartSteps # <<>> /\ StartSteps[1] = "check" /\ Len(StartSteps) = 3
  BY ShapesOfLists DEF StartSteps
<1>2. ASSUME NEW s \in Seq(Steps), Len(s) <= 2, s # <<>>, s[Len(s)] \in {"INIT", "zero", "set"},
             \A n \in 1..Len(s) - 1 : Precedes(s[n], s[n + 1])
      PROVE  Shape(s \o StartSteps) /\ Head(s \o StartSteps) = s[1] /\ s \o StartSteps # <<>>
  <2>1. Precedes(s[Len(s)], StartSteps[1])
    BY <1>1, <1>2 DEF Precedes
  <2>2. Len(s) \in Nat /\ Len(s) + Len(StartSteps) <= 6
    BY <1>1, <1>2, LenProperties
  <2> QED BY <1>1, <1>2, <2>1, <2>2, ShapeConcat
<1>3. ASSUME NEW x \in {"INIT", "set"}
      PROVE  Shape(<<x>> \o StartSteps) /\ Head(<<x>> \o StartSteps) = x /\ <<x>> \o StartSteps # <<>>
  <2> DEFINE q == <<x>>
  <2>1. q \in Seq(Steps) /\ Len(q) = 1 /\ q # <<>> /\ q[1] = x
    BY DEF Steps, S!MovaStatus
  <2> HIDE DEF q
  <2>2. Len(q) <= 2 /\ q[Len(q)] \in {"INIT", "zero", "set"}
        /\ \A n \in 1..Len(q) - 1 : Precedes(q[n], q[n + 1])
    BY <2>1
  <2>3. Shape(q \o StartSteps) /\ Head(q \o StartSteps) = q[1] /\ q \o StartSteps # <<>>
    BY <1>2, <2>1, <2>2
  <2> QED BY <2>1, <2>3 DEF q
<1> DEFINE l == <<"reload", "zero">>
<1>4. l \in Seq(Steps) /\ Len(l) = 2 /\ l # <<>> /\ l[1] = "reload" /\ l[2] = "zero"
      /\ \A n \in 1..1 : Precedes(l[n], l[n + 1])
  BY DEF Steps, Precedes
<1> HIDE DEF l
<1>5. Shape(l \o StartSteps) /\ Head(l \o StartSteps) = "reload" /\ l \o StartSteps # <<>>
  <2>1. Len(l) <= 2 /\ l[Len(l)] \in {"INIT", "zero", "set"}
        /\ \A n \in 1..Len(l) - 1 : Precedes(l[n], l[n + 1])
    BY <1>4
  <2> QED BY <1>2, <1>4, <2>1
<1> QED BY <1>3, <1>5 DEF l

(* A command begins with a step of its own.                                *)
Begins(p) ==
  p # <<>> =>
    \/ Head(p) \in {"clear", "set", "unset"}
    \/ Head(p) = "load" /\ ~Alive
    \/ Head(p) = "check" /\ ~running

LEMMA ProgramOfShape ==
  ASSUME NEW c \in CommandNames
  PROVE  /\ Shape(ProgramOf(c))
         /\ \/ Begins(ProgramOf(c))
            \/ c \in Forces /\ Head(ProgramOf(c)) \in {"MANUAL_FORCE", "previous"}
<1>1. c \in {"LOAD", "UNLOAD", "START", "STOP", "RESET", "CLEAR_ERRORS", "MOVA_ON", "MOVA_OFF",
            "FORCE", "UNFORCE"}
  BY DEF CommandNames
<1>2. Head(StopSteps) = "clear" /\ Head(StartSteps) = "check" /\ Head(LoadSteps) = "load"
      /\ Head(<<"set">>) = "set" /\ Head(<<"unset">>) = "unset"
      /\ Head(<<"MANUAL_FORCE">>) = "MANUAL_FORCE" /\ Head(<<"previous">>) = "previous"
  BY DEF StopSteps, StartSteps, LoadSteps
<1>3. Shape(<<"MANUAL_FORCE">>)
  BY ShapeOfStatus DEF S!MovaStatus
<1> DEFINE good(p) == /\ Shape(p)
                      /\ Begins(p) \/ (c \in Forces /\ Head(p) \in {"MANUAL_FORCE", "previous"})
<1>4. /\ good(StopSteps) /\ good(StopSteps \o LoadSteps) /\ good(StopSteps \o <<"drop">>)
      /\ good(StopSteps \o <<"again">>) /\ good(StopSteps \o <<"unset">>)
      /\ good(StopSteps \o <<"unset", "resume">>)
      /\ good(<<>>) /\ good(<<"set">>) /\ good(<<"unset">>)
      /\ ~Alive => good(LoadSteps)
      /\ ~running => good(StartSteps)
  BY <1>2, ShapesOfLists, ShapesAfterStop DEF Begins
<1>5. c \in {"FORCE", "UNFORCE"} => good(<<"MANUAL_FORCE">>) /\ good(<<"previous">>)
  BY <1>2, <1>3, ShapesOfLists DEF Forces
<1> HIDE DEF good
<1>6. good(LoadProgram)
  BY <1>4 DEF LoadProgram
<1>7. good(StopSteps \o (IF running THEN <<"unset", "resume">> ELSE <<"unset">>))
  BY <1>4
<1>8. good(IF dataset /\ ~running THEN StartSteps ELSE <<>>)
  BY <1>4
<1>9. good(ProgramOf(c))
  BY <1>1, <1>4, <1>5, <1>6, <1>7, <1>8, Zenon DEF ProgramOf
<1> QED BY <1>9 DEF good

-----------------------------------------------------------------------------
(* Types, with what a program may be.                                      *)
Typed ==
  /\ StatusInv
  /\ dataset \in BOOLEAN /\ running \in BOOLEAN
  /\ latest \in Threads \union {NoThread}
  /\ tick \in [Threads -> TickState]
  /\ crashes \in Nat
  /\ cycle \in 0..SlowTicks - 1
  /\ claims \in BOOLEAN
  /\ program \in [Workers -> Seq(Steps)]
  /\ \A w \in Workers : Shape(program[w])
  /\ awaited \in [Workers -> Threads \union {NoThread}]
  /\ unsure \subseteq Workers
  /\ raced \in BOOLEAN /\ restored \in BOOLEAN /\ orderly \in BOOLEAN

(* At(step) is a state of a thread, at step.                               *)
LEMMA AtState ==
  ASSUME NEW step \in {"dead", "loop", "read", "crb", "enter", "kernel", "slow", "failed"}
  PROVE  At(step) \in TickState /\ At(step).at = step
<1>1. Dead \in TickState
  BY DEF Dead, TickState
<1> QED BY <1>1 DEF At, TickState

(* A tick thread moves by itself, and a dead one not at all; the workers   *)
(* and what they have seen stay as they are.                               *)
LEMMA TickMoves ==
  ASSUME Typed, NEW t \in Threads, TickStep(t) \/ Fail(t)
  PROVE  /\ tick[t].at # "dead"
         /\ tick' \in [Threads -> TickState]
         /\ \A u \in Threads : u # t => tick'[u] = tick[u]
         /\ UNCHANGED <<latest, program, awaited, dataset, unsure, raced, orderly>>
<1>1. ASSUME NEW from,
             NEW to \in {"dead", "loop", "read", "crb", "enter", "kernel", "slow", "failed"},
             Goes(t, from, to), from # "dead"
      PROVE  /\ tick[t].at # "dead"
             /\ tick' \in [Threads -> TickState]
             /\ \A u \in Threads : u # t => tick'[u] = tick[u]
             /\ UNCHANGED <<latest, program, awaited, dataset, unsure, raced, orderly>>
  BY <1>1, AtState DEF Goes, Typed, programs
<1>2. CASE Loop(t)
  BY <1>1, <1>2 DEF Loop
<1>3. CASE Read(t)
  <2>1. PICK crb \in BOOLEAN : tick' = [tick EXCEPT ![t] = [at |-> "crb", due |-> Due(crb)]]
    BY <1>3 DEF Read
  <2>2. Due(crb) \in {"none", "NO_CRB", "WARMUP", "ON_CONTROL"}
    BY DEF Due
  <2>3. [at |-> "crb", due |-> Due(crb)] \in TickState
    BY <2>2 DEF TickState
  <2> HIDE DEF Due
  <2> QED BY <1>3, <2>1, <2>3 DEF Read, Typed, programs, history
<1>4. CASE UpdateCrb(t)
  BY <1>1, <1>4 DEF UpdateCrb
<1>5. CASE Enter(t)
  BY <1>1, <1>5 DEF Enter
<1>6. CASE Leave(t)
  BY <1>1, <1>6 DEF Leave
<1>7. CASE Slow(t)
  BY <1>1, <1>7 DEF Slow
<1>8. CASE Failed(t)
  BY <1>1, <1>8 DEF Failed
<1>9. CASE Fail(t)
  <2>1. tick[t].at # "dead" /\ (Goes(t, tick[t].at, "failed") \/ Goes(t, tick[t].at, "loop"))
    BY <1>9 DEF Fail
  <2> QED BY <1>1, <2>1
<1> QED BY <1>2, <1>3, <1>4, <1>5, <1>6, <1>7, <1>8, <1>9 DEF TickStep

(* The program of a worker after one of its steps.                         *)
Rest(w) ==
  \/ program'[w] = Tail(program[w])
  \/ program'[w] = <<>> /\ Head(program[w]) \in {"check", "load", "look", "again", "resume"}
  \/ program'[w] = <<"NO_DATASET">> /\ Head(program[w]) = "check" /\ ~Alive
  \/ program'[w] = <<"INIT">> \o StartSteps /\ Head(program[w]) = "look" /\ ~Alive
  \/ program'[w] = <<"set">> \o StartSteps /\ Head(program[w]) = "resume"
  \/ program'[w] = <<"reload", "zero">> \o StartSteps /\ Head(program[w]) = "again"
  \/ program'[w] = <<previous>> /\ Head(program[w]) = "previous"

(* A step of a worker leaves a program, and the other workers alone.       *)
LEMMA WorkerMoves ==
  ASSUME Typed, NEW w \in Workers, WorkerStep(w) \/ GiveUp(w)
  PROVE  /\ program[w] # <<>> /\ Rest(w)
         /\ \A v \in Workers : v # w => program'[v] = program[v]
         /\ program' \in [Workers -> Seq(Steps)]
         /\ Shape(program'[w])
<1>1. ASSUME NEW p, program' = [program EXCEPT ![w] = p]
      PROVE  /\ program'[w] = p
             /\ \A v \in Workers : v # w => program'[v] = program[v]
             /\ Shape(p) => program' \in [Workers -> Seq(Steps)]
  BY <1>1 DEF Typed, Shape
<1>2. ASSUME program' = [program EXCEPT ![w] = Tail(program[w])], program[w] # <<>>
      PROVE  /\ program[w] # <<>> /\ Rest(w)
             /\ \A v \in Workers : v # w => program'[v] = program[v]
             /\ program' \in [Workers -> Seq(Steps)]
             /\ Shape(program'[w])
  <2>1. Shape(Tail(program[w]))
    BY <1>2, ShapeTail DEF Typed
  <2> QED BY <1>1, <1>2, <2>1 DEF Rest
<1>3. CASE SetStatus(w) \/ Clear(w) \/ Join(w) \/ Await(w) \/ GiveUp(w) \/ Spawn(w) \/ Drop(w)
           \/ Reload(w) \/ Zero(w) \/ SetIo(w)
  <2>1. program' = [program EXCEPT ![w] = Tail(program[w])] /\ program[w] # <<>>
    BY <1>3 DEF SetStatus, Clear, Join, Await, GiveUp, Spawn, Drop, Reload, Zero, SetIo, AtStep,
       Proceeds, Continues
  <2> QED BY <1>2, <2>1
<1>4. CASE Check(w)
  <2>1. CASE Proceeds(w)
    BY <1>2, <1>4, <2>1 DEF Check, AtStep, Proceeds, Continues
  <2>2. CASE Continues(w, <<>>) \/ (~Alive /\ Continues(w, <<"NO_DATASET">>))
    <3>1. Shape(<<>>) /\ Shape(<<"NO_DATASET">>)
      BY ShapesOfLists, ShapeOfStatus DEF S!MovaStatus
    <3> QED BY <1>1, <1>4, <2>2, <3>1 DEF Check, AtStep, Rest, Continues
  <2> QED BY <1>4, <2>1, <2>2 DEF Check
<1>5. CASE Load(w)
  <2>1. CASE Proceeds(w)
    BY <1>2, <1>5, <2>1 DEF Load, AtStep, Proceeds, Continues
  <2>2. CASE Continues(w, <<>>)
    BY <1>1, <1>5, <2>2, ShapesOfLists DEF Load, AtStep, Rest, Continues
  <2> QED BY <1>5, <2>1, <2>2 DEF Load
<1>6. CASE Look(w)
  BY <1>1, <1>6, ShapesOfLists, ShapesBeforeStart DEF Look, AtStep, Rest, Continues
<1>7. CASE Again(w)
  BY <1>1, <1>7, ShapesOfLists, ShapesBeforeStart DEF Again, AtStep, Rest, Continues
<1>8. CASE Resume(w)
  BY <1>1, <1>8, ShapesOfLists, ShapesBeforeStart DEF Resume, AtStep, Rest, Continues
<1>9. CASE Unforce(w)
  <2>1. Shape(<<previous>>)
    BY ShapeOfStatus DEF Typed, StatusInv, S!TypeOK
  <2> QED BY <1>1, <1>9, <2>1 DEF Unforce, AtStep, Rest, Continues
<1> QED BY <1>3, <1>4, <1>5, <1>6, <1>7, <1>8, <1>9 DEF WorkerStep

(* The initial state.                                                      *)
LEMMA InitTyped == Init => Typed
<1> SUFFICES ASSUME Init PROVE Typed
  OBVIOUS
<1>1. StatusInv
  BY StatusInitInv DEF Init
<1>2. Dead \in TickState
  BY DEF Dead, TickState
<1>3. 0 \in 0..SlowTicks - 1
  BY StreamAssumption
<1>4. \A w \in Workers : program[w] = <<>>
  BY DEF Init
<1>5. program \in [Workers -> Seq(Steps)]
  BY EmptySeq DEF Init
<1>6. awaited \in [Workers -> Threads \union {NoThread}]
  BY DEF Init
<1> QED BY <1>1, <1>2, <1>3, <1>4, <1>5, <1>6, ShapesOfLists DEF Init, Typed

(* The rest of what a step leaves.                                         *)
Numbers ==
  /\ dataset \in BOOLEAN /\ running \in BOOLEAN
  /\ crashes \in Nat
  /\ cycle \in 0..SlowTicks - 1
  /\ claims \in BOOLEAN
  /\ unsure \subseteq Workers
  /\ raced \in BOOLEAN /\ restored \in BOOLEAN /\ orderly \in BOOLEAN

(* Steps of a tick thread keep them.                                       *)
LEMMA NumbersTick ==
  ASSUME Numbers, NEW t \in Threads, TickStep(t) \/ Fail(t) PROVE Numbers'
<1>1. CASE Loop(t)
  <2>1. (cycle + 1) % SlowTicks \in 0..SlowTicks - 1
    BY StreamAssumption DEF Numbers
  <2> QED BY <1>1, <2>1 DEF Loop, Goes, Numbers
<1>2. CASE Read(t)
  BY <1>2 DEF Read, Numbers, history
<1>3. CASE UpdateCrb(t)
  BY <1>3 DEF UpdateCrb, Goes, Numbers
<1>4. CASE Enter(t)
  BY <1>4 DEF Enter, Goes, Numbers
<1>5. CASE Leave(t)
  BY <1>5 DEF Leave, Goes, Numbers
<1>6. CASE Slow(t)
  BY <1>6 DEF Slow, Goes, Numbers
<1>7. CASE Failed(t)
  BY <1>7 DEF Failed, Goes, Numbers
<1>8. CASE Fail(t)
  <2>1. restored' \in {restored, FALSE}
    BY <1>8 DEF Fail
  <2>2. UNCHANGED <<dataset, running, cycle, claims, unsure, raced, orderly>> /\ crashes' = crashes + 1
    BY <1>8 DEF Fail, Goes
  <2>3. restored' \in BOOLEAN
    BY <2>1, Zenon DEF Numbers
  <2> QED BY <2>2, <2>3 DEF Numbers
<1> QED BY <1>1, <1>2, <1>3, <1>4, <1>5, <1>6, <1>7, <1>8 DEF TickStep

(* A command that arrives gives a worker without one its program.          *)
LEMMA CommandMoves ==
  ASSUME Typed, NEW h \in Handlers, Command(h)
  PROVE  /\ UNCHANGED <<statusVars, dataset, threadVars, claims, awaited, raced, restored>>
         /\ \E w \in Workers, c \in CommandNames :
              /\ program[w] = <<>>
              /\ program'[w] = ProgramOf(c) /\ Shape(ProgramOf(c))
              /\ program' \in [Workers -> Seq(Steps)]
              /\ \A v \in Workers : v # w => program'[v] = program[v]
              /\ unsure' = unsure \ {w}
              /\ orderly' = (Idle /\ c \notin Forces /\ (orderly \/ StopsAll(c)))
<1>1. PICK c \in Commands[h], w \in Workers :
        /\ Serves(w, h, c)
        /\ program' = [program EXCEPT ![w] = ProgramOf(c)]
        /\ unsure' = unsure \ {w}
        /\ orderly' = (Idle /\ c \notin Forces /\ (orderly \/ StopsAll(c)))
  BY DEF Command
<1>2. c \in CommandNames
  BY StreamAssumption
<1>3. Shape(ProgramOf(c)) /\ ProgramOf(c) \in Seq(Steps)
  BY <1>2, ProgramOfShape DEF Shape
<1>4. program[w] = <<>>
  BY <1>1 DEF Command, Serves
<1> HIDE DEF ProgramOf, Idle, StopsAll
<1>5. /\ program'[w] = ProgramOf(c)
      /\ program' \in [Workers -> Seq(Steps)]
      /\ \A v \in Workers : v # w => program'[v] = program[v]
  BY <1>1, <1>3 DEF Typed
<1>6. UNCHANGED <<statusVars, dataset, threadVars, claims, awaited, raced, restored>>
  BY DEF Command
<1> QED BY <1>1, <1>2, <1>3, <1>4, <1>5, <1>6

(* A worker leaves the threads alone but to start one, and what it or      *)
(* another has seen of the thread but in the steps that look at it.        *)
LEMMA ThreadsOfWorker ==
  ASSUME NEW w, WorkerStep(w) \/ GiveUp(w), ~Spawn(w)
  PROVE  /\ UNCHANGED <<latest, tick, crashes, raced>>
         /\ unsure' \in {unsure, unsure \ {w}, unsure \union {w}}
         /\ unsure' = unsure \ {w} => Join(w) \/ Check(w) \/ Look(w) \/ unsure' = unsure
         /\ Join(w) \/ Await(w) \/ GiveUp(w) \/ UNCHANGED awaited
BY DEF WorkerStep, GiveUp, SetStatus, Clear, Join, Await, Check, Load, Look, Drop, Again, Reload,
   Zero, Resume, SetIo, Unforce, Keeps, Proceeds, Continues, threadVars

(* The thread that a worker has joined is one, if any.                     *)
LEMMA AwaitedTyped ==
  ASSUME Typed, NEW w \in Workers, WorkerStep(w) \/ GiveUp(w)
  PROVE  awaited' \in [Workers -> Threads \union {NoThread}]
<1>1. CASE Join(w)
  BY <1>1 DEF Join, Typed
<1>2. CASE Await(w) \/ GiveUp(w)
  BY <1>2 DEF Await, GiveUp, Typed
<1>3. CASE Spawn(w)
  <2>1. PICK t \in Threads :
          awaited' = [v \in Workers |-> IF awaited[v] = t THEN NoThread ELSE awaited[v]]
    BY <1>3 DEF Spawn
  <2> QED BY <2>1 DEF Typed
<1>4. CASE UNCHANGED awaited
  BY <1>4 DEF Typed
<1> QED BY <1>1, <1>2, <1>3, <1>4, ThreadsOfWorker

(* Steps of a worker keep the numbers.                                     *)
LEMMA NumbersWorker ==
  ASSUME Numbers, NEW w \in Workers, WorkerStep(w) \/ GiveUp(w) PROVE Numbers'
<1>1. CASE SetStatus(w)
  BY <1>1 DEF SetStatus, Proceeds, Continues, Numbers, threadVars
<1>2. CASE Clear(w)
  BY <1>2 DEF Clear, Keeps, Proceeds, Continues, Numbers, threadVars
<1>3. CASE Join(w) \/ Await(w) \/ GiveUp(w)
  BY <1>3 DEF Join, Await, GiveUp, Proceeds, Continues, Numbers, threadVars
<1>4. CASE Check(w)
  BY <1>4 DEF Check, Proceeds, Continues, Numbers
<1>5. CASE Spawn(w)
  <2>1. /\ crashes' = 0 /\ raced' = (raced \/ w \in unsure)
        /\ unsure' = (unsure \union {v \in Workers : program[v] # <<>>}) \ {w}
        /\ UNCHANGED <<dataset, running, cycle, claims, restored, orderly>>
    BY <1>5 DEF Spawn
  <2>2. unsure' \subseteq Workers
    BY <2>1 DEF Numbers
  <2>3. raced' \in BOOLEAN
    BY <2>1 DEF Numbers
  <2> QED BY <2>1, <2>2, <2>3 DEF Numbers
<1>6. CASE Load(w) \/ Look(w) \/ Drop(w)
  BY <1>6 DEF Load, Look, Drop, Keeps, Proceeds, Continues, Numbers, threadVars
<1>7. CASE Again(w) \/ Reload(w) \/ Resume(w) \/ SetIo(w) \/ Unforce(w)
  BY <1>7 DEF Again, Reload, Resume, SetIo, Unforce, Keeps, Proceeds, Continues, Numbers, threadVars
<1>8. CASE Zero(w)
  BY <1>8 DEF Zero, Keeps, Proceeds, Continues, Numbers, threadVars
<1> QED BY <1>1, <1>2, <1>3, <1>4, <1>5, <1>6, <1>7, <1>8 DEF WorkerStep

(* Every step keeps the types.                                             *)
LEMMA NextTyped == Typed /\ [Next]_vars => Typed'
<1> SUFFICES ASSUME Typed, [Next]_vars PROVE Typed'
  OBVIOUS
<1>0. Numbers
  BY DEF Typed, Numbers
<1>1. ASSUME NEW t \in Threads, TickStep(t) \/ Fail(t) PROVE Typed'
  <2>1. StatusInv'
    <3>1. tick[t] \in TickState
      BY DEF Typed
    <3> QED BY <1>1, <3>1, TickSteps, StatusNextInv DEF Typed
  <2>2. Numbers'
    BY <1>0, <1>1, NumbersTick
  <2>3. tick' \in [Threads -> TickState] /\ UNCHANGED <<latest, program, awaited>>
    BY <1>1, TickMoves
  <2> QED BY <2>1, <2>2, <2>3 DEF Typed, Numbers
<1>2. ASSUME NEW h \in Handlers, Command(h) PROVE Typed'
  <2>1. StatusInv'
    BY <1>2, WorkerSteps, StatusNextInv DEF Typed
  <2>2. PICK w \in Workers, c \in CommandNames :
          /\ program'[w] = ProgramOf(c) /\ Shape(ProgramOf(c))
          /\ program' \in [Workers -> Seq(Steps)]
          /\ \A v \in Workers : v # w => program'[v] = program[v]
          /\ unsure' = unsure \ {w}
          /\ orderly' = (Idle /\ c \notin Forces /\ (orderly \/ StopsAll(c)))
    BY <1>2, CommandMoves
  <2>3. UNCHANGED <<dataset, threadVars, claims, awaited, raced, restored>>
    BY <1>2, CommandMoves
  <2>4. orderly' \in BOOLEAN /\ unsure' \subseteq Workers
    BY <2>2 DEF Typed
  <2> HIDE DEF ProgramOf
  <2>5. \A v \in Workers : Shape(program'[v])
    BY <2>2 DEF Typed
  <2> QED BY <2>1, <2>2, <2>3, <2>4, <2>5 DEF Typed, threadVars
<1>3. ASSUME NEW w \in Workers, WorkerStep(w) \/ GiveUp(w) PROVE Typed'
  <2>1. StatusInv'
    BY <1>3, WorkerSteps, StatusNextInv DEF Typed
  <2>2. Numbers'
    BY <1>0, <1>3, NumbersWorker
  <2>3. /\ \A v \in Workers : v # w => program'[v] = program[v]
        /\ program' \in [Workers -> Seq(Steps)]
        /\ Shape(program'[w])
    BY <1>3, WorkerMoves
  <2>4. \A v \in Workers : Shape(program'[v])
    BY <2>3 DEF Typed
  <2>5. tick' \in [Threads -> TickState] /\ latest' \in Threads \union {NoThread}
    <3>1. CASE ~Spawn(w)
      BY <1>3, <3>1, ThreadsOfWorker DEF Typed
    <3>2. CASE Spawn(w)
      BY <3>2, AtState DEF Spawn, Typed
    <3> QED BY <3>1, <3>2
  <2>6. awaited' \in [Workers -> Threads \union {NoThread}]
    BY <1>3, AwaitedTyped
  <2> QED BY <2>1, <2>2, <2>3, <2>4, <2>5, <2>6 DEF Typed, Numbers
<1>4. ASSUME UNCHANGED vars PROVE Typed'
  <2>1. StatusInv'
    BY <1>4, StatusNextInv DEF Typed, vars, statusVars, S!vars
  <2> QED BY <1>4, <2>1 DEF Typed, vars, threadVars, programs, history
<1> QED BY <1>1, <1>2, <1>3, <1>4 DEF Next, Workers

(* The types hold throughout.                                              *)
LEMMA TypedInvariant == Spec => []Typed
BY InitTyped, NextTyped, PTL DEF Spec

(* Every variable of a stream keeps its type, for any number of threads,   *)
(* of handlers and of daemons, whatever they are sent; and a program that  *)
(* looks at the state again on its way never grows past six steps.         *)
THEOREM StreamTypeCorrect == Spec => []TypeOK
<1>1. Typed => TypeOK
  <2> SUFFICES ASSUME Typed PROVE TypeOK
    OBVIOUS
  <2>1. S!TypeOK
    BY DEF Typed, StatusInv
  <2>2. \A t \in Threads :
          /\ tick[t].at \in {"dead", "loop", "read", "crb", "enter", "kernel", "slow", "failed"}
          /\ tick[t].due \in {"none", "NO_CRB", "WARMUP", "ON_CONTROL"}
    BY DEF Typed, TickState
  <2>3. ASSUME NEW w \in Workers
        PROVE  /\ program[w] = <<>> \/ Len(program[w]) \in 1..6
               /\ awaited[w] \in Threads \union {NoThread}
    <3>1. program[w] \in Seq(Steps) /\ Len(program[w]) \in Nat /\ Len(program[w]) <= 6
      BY LenProperties DEF Typed, Shape
    <3>2. program[w] # <<>> => Len(program[w]) # 0
      BY <3>1, EmptySeq
    <3>3. awaited[w] \in Threads \union {NoThread}
      BY DEF Typed
    <3>4. \A n \in Nat : n <= 6 /\ n # 0 => n \in 1..6
      OBVIOUS
    <3>5. program[w] # <<>> => Len(program[w]) \in 1..6
      BY <3>1, <3>2, <3>4, Zenon
    <3> QED BY <3>3, <3>5, Zenon
  <2>4. /\ dataset \in BOOLEAN /\ running \in BOOLEAN
        /\ latest \in Threads \union {NoThread}
        /\ crashes \in Nat /\ cycle \in 0..SlowTicks - 1 /\ claims \in BOOLEAN
        /\ unsure \subseteq Workers
        /\ raced \in BOOLEAN /\ restored \in BOOLEAN /\ orderly \in BOOLEAN
    BY DEF Typed
  <2> HIDE DEF Typed
  <2> QED BY <2>1, <2>2, <2>3, <2>4, Zenon DEF TypeOK
<1> QED BY <1>1, TypedInvariant, PTL

(* The status goes through the steps of module Status and no other.        *)
LEMMA StatusKept == Spec => S!Spec
<1>1. Init => S!Init
  BY DEF Init
<1>2. Typed /\ [Next]_vars => [S!Next]_(S!vars)
  <2>1. ASSUME Typed, Next PROVE [S!Next]_(S!vars)
    <3>1. ASSUME NEW t \in Threads, TickStep(t) \/ Fail(t) PROVE [S!Next]_(S!vars)
      <4>1. tick[t] \in TickState
        BY <2>1 DEF Typed
      <4> QED BY <3>1, <4>1, TickSteps
    <3> QED BY <2>1, <3>1, WorkerSteps DEF Next
  <2>2. ASSUME UNCHANGED vars PROVE [S!Next]_(S!vars)
    BY <2>2, StatusSteps DEF vars, statusVars
  <2> QED BY <2>1, <2>2
<1> QED BY <1>1, <1>2, TypedInvariant, PTL DEF Spec, S!Spec

(* So in a stream, whatever its threads and workers do, the warm-up fault  *)
(* is active exactly in the seconds of a warm-up past its limit.           *)
THEOREM StreamReportsWarmup == Spec => []WarmupReported
<1>1. S!WarmupReported => WarmupReported
  BY DEF WarmupReported
<1> QED BY <1>1, WarmupIsReported, StatusKept, PTL

(* And the counter of a manual force is the age of this force.             *)
THEOREM StreamTimesForce == Spec => []ForceTimed
<1>1. S!ForceTimed => ForceTimed
  BY DEF ForceTimed
<1> QED BY <1>1, ForceIsTimed, StatusKept, PTL

-----------------------------------------------------------------------------
(* The next step of a program.                                             *)
LEMMA HeadAfter ==
  ASSUME Typed, NEW w \in Workers, WorkerStep(w) \/ GiveUp(w)
  PROVE  /\ program[w] # <<>>
         /\ program'[w] = <<>> => Head(program[w]) \in Ends \union {"check", "load"}
         /\ program'[w] # <<>> =>
              \/ Precedes(Head(program[w]), Head(program'[w]))
              \/ Head(program[w]) = "check" /\ Head(program'[w]) = "NO_DATASET" /\ ~Alive
              \/ Head(program[w]) = "look" /\ Head(program'[w]) = "INIT" /\ ~Alive
              \/ Head(program[w]) = "resume" /\ Head(program'[w]) = "set"
              \/ Head(program[w]) = "again" /\ Head(program'[w]) = "reload"
              \/ Head(program[w]) = "previous" /\ program'[w] = <<previous>>
<1>1. program[w] # <<>> /\ Rest(w) /\ Shape(program[w])
  BY WorkerMoves DEF Typed
<1>2. CASE program'[w] = Tail(program[w])
  BY <1>1, <1>2, ShapeTail
<1>3. Head(<<"NO_DATASET">>) = "NO_DATASET"
  OBVIOUS
<1>4. "look" \in Ends /\ "again" \in Ends /\ "resume" \in Ends
  BY DEF Ends
<1> QED BY <1>1, <1>2, <1>3, <1>4, ShapesBeforeStart DEF Rest

(* Which step it takes.                                                    *)
LEMMA WhichStep ==
  ASSUME NEW w \in Workers, WorkerStep(w)
  PROVE  /\ AtStep(w, "clear") <=> Clear(w)
         /\ AtStep(w, "join") <=> Join(w)
         /\ AtStep(w, "await") <=> Await(w)
         /\ AtStep(w, "check") <=> Check(w)
         /\ AtStep(w, "spawn") <=> Spawn(w)
         /\ AtStep(w, "look") <=> Look(w)
<1>1. ASSUME SetStatus(w) PROVE Head(program[w]) \in S!MovaStatus
  BY <1>1 DEF SetStatus, AtStep
<1> QED
  BY <1>1 DEF WorkerStep, Clear, Join, Await, Check, Spawn, Load, Look, Drop, Again, Reload, Zero,
     Resume, SetIo, Unforce, AtStep, S!MovaStatus

(* A program of one step has no rest.                                      *)
LEMMA TailOfOne == ASSUME NEW s PROVE Tail(<<s>>) = <<>>
<1>1. <<s>> \in Seq({s}) /\ <<s>> # <<>> /\ Len(<<s>>) = 1
  OBVIOUS
<1>2. Tail(<<s>>) \in Seq({s}) /\ Len(Tail(<<s>>)) = 0
  BY <1>1, HeadTailProperties
<1> QED BY <1>2, EmptySeq

(* What a worker has seen of the thread, and is still so: there is none    *)
(* where it is to load a dataset or to make one, nor on the way there; and *)
(* it waits for the latest.                                                *)
Right(w) ==
  /\ program[w] # <<>> /\ Head(program[w]) \in {"load", "again", "reload", "spawn"} => ~Alive
  /\ AtStep(w, "OFF") /\ Tail(program[w]) # <<>> => ~Alive
  /\ AtStep(w, "await") => awaited[w] = latest

(* A live thread is the latest, and who is not unsure is right.            *)
Sound ==
  ~raced => /\ \A t \in Threads : tick[t].at # "dead" => t = latest
            /\ \A w \in Workers \ unsure : Right(w)

(* A worker that does nothing stays right when no thread is made.          *)
LEMMA RightKept ==
  ASSUME NEW w \in Workers, Right(w), program'[w] = program[w], awaited'[w] = awaited[w],
         latest' = latest, Alive' => Alive
  PROVE  Right(w)'
BY DEF Right, AtStep

(* What a worker's own step makes right.                                   *)
LEMMA RightAfter ==
  ASSUME Typed, NEW w \in Workers, WorkerStep(w), ~Spawn(w),
         Right(w) \/ Join(w) \/ Check(w) \/ Look(w)
  PROVE  Right(w)'
<1>1. UNCHANGED <<latest, tick>> /\ Alive' = Alive
  BY ThreadsOfWorker DEF Alive
<1>2. CASE program'[w] = <<previous>>
  <2>1. Head(program'[w]) = previous /\ Tail(program'[w]) = <<>>
    BY <1>2, TailOfOne
  <2>2. previous \in S!MovaStatus
    BY DEF Typed, StatusInv, S!TypeOK
  <2> QED BY <2>1, <2>2 DEF Right, AtStep, S!MovaStatus
<1>3. CASE program'[w] # <<previous>>
  <2>0. /\ program[w] # <<>>
        /\ program'[w] # <<>> =>
             \/ Precedes(Head(program[w]), Head(program'[w]))
             \/ Head(program[w]) = "check" /\ Head(program'[w]) = "NO_DATASET" /\ ~Alive
             \/ Head(program[w]) = "look" /\ Head(program'[w]) = "INIT" /\ ~Alive
             \/ Head(program[w]) = "resume" /\ Head(program'[w]) = "set"
             \/ Head(program[w]) = "again" /\ Head(program'[w]) = "reload"
    BY <1>3, HeadAfter
  <2>1. ASSUME program'[w] # <<>>, Head(program'[w]) \in {"load", "again", "reload"} PROVE ~Alive
    <3>1. Head(program[w]) = "again" \/ Head(program[w]) = "OFF"
      BY <2>0, <2>1 DEF Precedes
    <3>2. Right(w)
      BY <2>0, <3>1, WhichStep DEF AtStep
    <3>3. CASE Head(program[w]) = "again"
      BY <2>0, <3>2, <3>3 DEF Right
    <3>4. CASE Head(program[w]) = "OFF"
      <4>1. program'[w] = Tail(program[w])
        BY <3>4, WorkerMoves DEF Rest
      <4> QED BY <2>0, <2>1, <3>2, <3>4, <4>1 DEF Right, AtStep
    <3> QED BY <3>1, <3>3, <3>4
  <2>2. ASSUME program'[w] # <<>>, Head(program'[w]) = "spawn" PROVE ~Alive
    <3>1. Check(w)
      BY <2>0, <2>2, WhichStep DEF Precedes, AtStep
    <3>2. CASE Continues(w, <<>>)
      <4>1. program'[w] = <<>>
        BY <3>2 DEF Continues, Typed
      <4> QED BY <2>2, <4>1
    <3> QED BY <3>1, <3>2 DEF Check
  <2>3. ASSUME AtStep(w, "OFF")' PROVE ~Alive
    <3>1. Await(w)
      BY <2>0, <2>3, WhichStep DEF Precedes, AtStep
    <3>2. AtStep(w, "await") /\ ~Join(w) /\ ~Check(w) /\ ~Look(w)
      BY <3>1 DEF Await, Join, Check, Look, AtStep
    <3>3. awaited[w] = latest
      BY <3>2 DEF Right
    <3> QED BY <3>1, <3>3 DEF Await, Awaiting, Alive
  <2>4. ASSUME AtStep(w, "await")' PROVE awaited'[w] = latest'
    <3>1. Join(w)
      BY <2>0, <2>4, WhichStep DEF Precedes, AtStep
    <3> QED BY <1>1, <3>1 DEF Join, Typed
  <2> QED BY <1>1, <2>1, <2>2, <2>3, <2>4 DEF Right
<1> QED BY <1>2, <1>3

(* Every step keeps Sound: an unraced thread is made only when none is     *)
(* left, and makes all others at work unsure.                              *)
LEMMA NextSound == ASSUME Typed, Sound, [Next]_vars PROVE Sound'
<1> SUFFICES ASSUME ~raced' PROVE (/\ \A t \in Threads : tick[t].at # "dead" => t = latest
                                   /\ \A w \in Workers \ unsure : Right(w))'
  BY DEF Sound
<1>1. ASSUME NEW t \in Threads, TickStep(t) \/ Fail(t)
      PROVE  (/\ \A u \in Threads : tick[u].at # "dead" => u = latest
              /\ \A w \in Workers \ unsure : Right(w))'
  <2>1. /\ tick[t].at # "dead"
        /\ \A u \in Threads : u # t => tick'[u] = tick[u]
        /\ UNCHANGED <<latest, program, awaited, unsure, raced>>
    BY <1>1, TickMoves
  <2>2. t = latest /\ Alive
    BY <2>1, StreamAssumption DEF Sound, Alive
  <2>3. \A w \in Workers \ unsure : Right(w)'
    BY <2>1, <2>2, RightKept DEF Sound
  <2>4. \A u \in Threads : tick'[u].at # "dead" => u = latest'
    BY <2>1, <2>2 DEF Sound
  <2> QED BY <2>1, <2>3, <2>4
<1>2. ASSUME NEW h \in Handlers, Command(h)
      PROVE  (/\ \A u \in Threads : tick[u].at # "dead" => u = latest
              /\ \A w \in Workers \ unsure : Right(w))'
  <2>1. UNCHANGED <<latest, tick, awaited, raced>> /\ Alive' = Alive
    BY <1>2, CommandMoves DEF threadVars, Alive
  <2>2. PICK w \in Workers, c \in CommandNames :
          /\ program'[w] = ProgramOf(c)
          /\ \A v \in Workers : v # w => program'[v] = program[v]
          /\ unsure' = unsure \ {w}
    BY <1>2, CommandMoves
  <2>3. Right(w)'
    <3>1. Begins(ProgramOf(c)) \/ Head(ProgramOf(c)) \in {"MANUAL_FORCE", "previous"}
      BY ProgramOfShape
    <3> HIDE DEF ProgramOf
    <3>2. program'[w] # <<>> => Head(program'[w]) \in {"clear", "set", "unset", "check", "MANUAL_FORCE", "previous"}
                                \/ (Head(program'[w]) = "load" /\ ~Alive)
      BY <2>2, <3>1 DEF Begins
    <3> QED BY <2>1, <3>2 DEF Right, AtStep
  <2>4. \A v \in Workers \ unsure' : Right(v)'
    <3>1. ASSUME NEW v \in Workers, v \notin unsure, v # w PROVE Right(v)'
      BY <2>1, <2>2, <3>1, RightKept DEF Sound
    <3> QED BY <2>2, <2>3, <3>1
  <2> QED BY <2>1, <2>4 DEF Sound
<1>3. ASSUME NEW w \in Workers, WorkerStep(w) \/ GiveUp(w), ~Spawn(w)
      PROVE  (/\ \A u \in Threads : tick[u].at # "dead" => u = latest
              /\ \A v \in Workers \ unsure : Right(v))'
  <2>1. /\ UNCHANGED <<latest, tick, raced>> /\ Alive' = Alive
        /\ unsure' \in {unsure, unsure \ {w}, unsure \union {w}}
        /\ unsure' = unsure \ {w} => Join(w) \/ Check(w) \/ Look(w) \/ unsure' = unsure
    BY <1>3, ThreadsOfWorker DEF Alive
  <2>2. ASSUME NEW v \in Workers, v # w PROVE program'[v] = program[v] /\ awaited'[v] = awaited[v]
    <3>1. Join(w) \/ Await(w) \/ GiveUp(w) \/ UNCHANGED awaited
      BY <1>3, ThreadsOfWorker
    <3>2. awaited'[v] = awaited[v]
      BY <2>2, <3>1 DEF Join, Await, GiveUp, Typed
    <3> QED BY <1>3, <2>2, <3>2, WorkerMoves
  <2>3. ASSUME NEW v \in Workers, v \notin unsure', v # w PROVE Right(v)'
    <3>1. v \notin unsure
      BY <2>1, <2>3
    <3> QED BY <2>1, <2>2, <2>3, <3>1, RightKept DEF Sound
  <2>4. ASSUME w \notin unsure' PROVE Right(w)'
    <3>1. ~GiveUp(w)
      BY <2>4 DEF GiveUp
    <3>2. w \notin unsure \/ Join(w) \/ Check(w) \/ Look(w)
      BY <2>1, <2>4
    <3>3. Right(w) \/ Join(w) \/ Check(w) \/ Look(w)
      BY <2>1, <3>2 DEF Sound
    <3> QED BY <1>3, <3>1, <3>3, RightAfter
  <2>5. \A v \in Workers \ unsure' : Right(v)'
    BY <2>3, <2>4
  <2> QED BY <2>1, <2>5 DEF Sound
<1>4. ASSUME NEW w \in Workers, Spawn(w)
      PROVE  (/\ \A u \in Threads : tick[u].at # "dead" => u = latest
              /\ \A v \in Workers \ unsure : Right(v))'
  <2>0. WorkerStep(w)
    BY <1>4 DEF WorkerStep
  <2>1. PICK t \in Threads : /\ tick[t].at = "dead" /\ latest' = t
                             /\ tick' = [tick EXCEPT ![t] = At("loop")]
    BY <1>4 DEF Spawn
  <2>2. ~raced /\ w \notin unsure
    BY <1>4 DEF Spawn
  <2>3. ~Alive
    BY <1>4, <2>2 DEF Sound, Right, Spawn, AtStep
  <2>4. \A u \in Threads : tick[u].at = "dead"
    BY <2>2, <2>3, StreamAssumption DEF Sound, Alive
  <2>5. \A u \in Threads : tick'[u].at # "dead" => u = latest'
    BY <2>1, <2>4 DEF Typed
  <2>6. ASSUME NEW v \in Workers, v \notin unsure', v # w PROVE Right(v)'
    <3>1. program[v] = <<>>
      BY <1>4, <2>6 DEF Spawn
    <3>2. program'[v] = <<>>
      BY <2>0, <2>6, <3>1, WorkerMoves
    <3> QED BY <3>2 DEF Right, AtStep
  <2>7. Right(w)'
    <3>1. Head(program[w]) = "spawn"
      BY <1>4 DEF Spawn, AtStep
    <3>2. program'[w] # <<>> => Head(program'[w]) = "WARMUP"
      BY <2>0, <3>1, HeadAfter DEF Precedes
    <3> QED BY <3>2 DEF Right, AtStep
  <2> QED BY <2>5, <2>6, <2>7
<1>5. ASSUME UNCHANGED vars
      PROVE  (/\ \A u \in Threads : tick[u].at # "dead" => u = latest
              /\ \A w \in Workers \ unsure : Right(w))'
  <2>1. UNCHANGED <<latest, tick, program, awaited, unsure, raced>> /\ Alive' = Alive
    BY <1>5 DEF vars, threadVars, programs, history, Alive
  <2>2. ~raced
    BY <2>1
  <2>3. \A w \in Workers \ unsure : Right(w)'
    BY <2>1, <2>2, RightKept DEF Sound
  <2> QED BY <2>1, <2>2, <2>3 DEF Sound
<1> QED BY <1>1, <1>2, <1>3, <1>4, <1>5 DEF Next

(* It holds throughout.                                                    *)
LEMMA SoundInvariant == Spec => [](Typed /\ Sound)
<1>1. Init => Sound
  BY StreamAssumption DEF Init, Sound, Right, AtStep, Dead
<1>2. Typed /\ Sound /\ [Next]_vars => Typed' /\ Sound'
  BY NextTyped, NextSound
<1> QED BY <1>1, <1>2, InitTyped, PTL DEF Spec

(* For any number of connections, of STOPs beside them and of threads,     *)
(* even if join() gives up: there is never a second tick thread, unless a  *)
(* start is overtaken by another between its look at the thread and the    *)
(* thread it makes.                                                        *)
THEOREM OneTickerHolds == Spec => []OneTicker
<1>1. Sound => OneTicker
  <2> SUFFICES ASSUME Sound, ~raced
               PROVE  Cardinality({t \in Threads : tick[t].at # "dead"}) <= 1
    BY DEF OneTicker
  <2> DEFINE L == {t \in Threads : tick[t].at # "dead"}
  <2>1. L \in SUBSET {latest}
    BY DEF Sound
  <2>2. IsFiniteSet({latest}) /\ Cardinality({latest}) = 1
    BY FS_Singleton
  <2> HIDE DEF L
  <2>3. Cardinality(L) <= Cardinality({latest})
    BY <2>1, <2>2, FS_Subset
  <2> QED BY <2>2, <2>3 DEF L
<1> QED BY <1>1, SoundInvariant, PTL

(* Nor, up to such a race, does a command load a dataset under a tick, but *)
(* one whose join() gave up or that a start has overtaken on its way.      *)
THEOREM ExclusiveHolds == Spec => []Exclusive
<1>1. Sound => Exclusive
  <2> SUFFICES ASSUME Sound, ~raced, NEW t \in InKernel, NEW w \in Loading PROVE w \in unsure
    BY DEF Exclusive
  <2>1. Alive
    BY StreamAssumption DEF InKernel, Sound, Alive
  <2>2. ~Right(w)
    BY <2>1 DEF Loading, Right, AtStep
  <2> QED BY <2>2 DEF Sound, Loading
<1> QED BY <1>1, SoundInvariant, PTL

-----------------------------------------------------------------------------
(* What a step of a tick thread does to the status and the event.          *)
Calm(t) ==
  /\ tick[t].at # "failed" /\ tick'[t].at \notin {"dead", "failed"}
  /\ status' \in {status, "NO_CRB", "WARMUP", "ON_CONTROL"}
  /\ UNCHANGED <<running, restored>>
LoopEnds(t) ==
  /\ tick[t].at # "failed" /\ tick'[t].at = "dead"
  /\ ~running /\ UNCHANGED <<status, running, restored>>
Fails(t) ==
  /\ tick'[t].at = "failed"
  /\ PromptStart /\ status' = "FAILED_RESTART" /\ UNCHANGED running
FailEnds(t) ==
  /\ tick[t].at = "failed" /\ tick'[t].at = "dead"
  /\ ~running' /\ UNCHANGED <<status, restored>>

(* set() leaves the status it is given.                                    *)
LEMMA SetShows == ASSUME NEW s, S!Set(s) PROVE status' = s
BY DEF S!Set, S!vars

(* There are no other steps of a tick thread.                              *)
LEMMA TickShows ==
  ASSUME Typed, NEW t \in Threads, TickStep(t) \/ Fail(t)
  PROVE  Calm(t) \/ LoopEnds(t) \/ Fails(t) \/ FailEnds(t)
<1>1. ASSUME NEW from,
             NEW to \in {"dead", "loop", "read", "crb", "enter", "kernel", "slow", "failed"},
             Goes(t, from, to)
      PROVE  tick[t].at = from /\ tick'[t].at = to
  BY <1>1, AtState DEF Goes, Typed
<1>2. CASE Loop(t)
  BY <1>1, <1>2 DEF Loop, Calm, LoopEnds, statusVars
<1>3. CASE Read(t)
  <2>1. PICK crb \in BOOLEAN : tick' = [tick EXCEPT ![t] = [at |-> "crb", due |-> Due(crb)]]
    BY <1>3 DEF Read
  <2>2. tick'[t].at = "crb"
    BY <2>1 DEF Typed
  <2> QED BY <1>3, <2>2 DEF Read, Calm, statusVars, history
<1>4. CASE UpdateCrb(t)
  <2>1. tick[t].due \in {"none", "NO_CRB", "WARMUP", "ON_CONTROL"}
    BY DEF Typed, TickState
  <2>2. status' \in {status, "NO_CRB", "WARMUP", "ON_CONTROL"}
    BY <1>4, <2>1, SetShows DEF UpdateCrb, statusVars
  <2> QED BY <1>1, <1>4, <2>2 DEF UpdateCrb, Calm
<1>5. CASE Enter(t)
  BY <1>1, <1>5 DEF Enter, Calm, statusVars
<1>6. CASE Leave(t)
  BY <1>1, <1>6 DEF Leave, Calm, statusVars
<1>7. CASE Slow(t)
  <2>1. UNCHANGED status
    BY <1>7 DEF Slow, S!Tick, statusVars
  <2> QED BY <1>1, <1>7, <2>1 DEF Slow, Calm
<1>8. CASE Failed(t)
  BY <1>1, <1>8 DEF Failed, FailEnds, statusVars
<1>9. CASE Fail(t)
  <2>1. CASE crashes + 1 >= CrashLimit
    BY <1>1, <1>9, <2>1, SetShows DEF Fail, Fails
  <2>2. CASE ~(crashes + 1 >= CrashLimit)
    <3>1. Goes(t, tick[t].at, "loop") /\ tick[t].at # "failed" /\ UNCHANGED <<status, running, restored>>
      BY <1>9, <2>2 DEF Fail, statusVars
    <3> QED BY <1>1, <3>1 DEF Calm
  <2> QED BY <2>1, <2>2
<1> QED BY <1>2, <1>3, <1>4, <1>5, <1>6, <1>7, <1>8, <1>9 DEF TickStep

(* What a command's step does to them.                                     *)
LEMMA WorkerShows ==
  ASSUME NEW w \in Workers, WorkerStep(w) \/ GiveUp(w)
  PROVE  \/ /\ SetStatus(w)
            /\ \E s \in S!MovaStatus :
                 /\ AtStep(w, s) /\ status' = s
                 /\ restored' = IF s = status THEN restored ELSE s = "FAILED_RESTART"
         \/ ~AtStep(w, "WARMUP") /\ UNCHANGED <<status, restored>>
<1>1. CASE SetStatus(w)
  <2>1. PICK s \in S!MovaStatus :
          /\ AtStep(w, s) /\ S!Set(s)
          /\ restored' = IF s = status THEN restored ELSE s = "FAILED_RESTART"
    BY <1>1 DEF SetStatus
  <2>2. status' = s
    BY <2>1, SetShows
  <2> QED BY <1>1, <2>1, <2>2
<1>2. CASE ~SetStatus(w)
  <2>1. UNCHANGED <<status, restored>>
    BY <1>2 DEF WorkerStep, GiveUp, Clear, Join, Await, Check, Spawn, Load, Look, Drop, Again,
       Reload, Zero, Resume, SetIo, Unforce, Keeps, statusVars, S!SetMovaOn
  <2>2. ~AtStep(w, "WARMUP")
    BY <1>2 DEF WorkerStep, GiveUp, Clear, Join, Await, Check, Spawn, Load, Look, Drop, Again,
       Reload, Zero, Resume, SetIo, Unforce, AtStep
  <2> QED BY <2>1, <2>2
<1> QED BY <1>1, <1>2

(* The status shows a failure: no thread goes on, or one is new and about  *)
(* to get its WARMUP.                                                      *)
Ending == \A t \in Threads : tick[t].at \in {"dead", "failed"}
Starting == \E w \in Workers : AtStep(w, "WARMUP")
Over == ~raced /\ ~restored /\ status = "FAILED_RESTART" => Ending \/ Starting

(* A program at WARMUP has no other step.                                  *)
LEMMA WarmupLast ==
  ASSUME NEW p, Shape(p), p # <<>>, Head(p) = "WARMUP" PROVE p = <<"WARMUP">>
<1>1. Tail(p) = <<>> /\ p \in Seq(Steps)
  BY ShapeTail DEF Precedes, Shape
<1>2. Len(p) = 1
  <2>1. Len(p) \in Nat /\ Len(Tail(p)) = Len(p) - 1 /\ Len(Tail(p)) = 0
    BY <1>1, HeadTailProperties, EmptySeq, LenProperties
  <2> QED BY <2>1
<1>3. p[1] = "WARMUP"
  BY ShapeTail
<1>4. <<"WARMUP">> \in Seq(Steps) /\ Len(<<"WARMUP">>) = 1 /\ <<"WARMUP">>[1] = "WARMUP"
  BY DEF Steps, S!MovaStatus
<1> QED BY <1>1, <1>2, <1>3, <1>4, SeqEqual

(* Every step keeps Over.                                                  *)
LEMMA NextOver == ASSUME Typed, Sound, Over, [Next]_vars PROVE Over'
<1> SUFFICES ASSUME ~raced', ~restored', status' = "FAILED_RESTART"
             PROVE  Ending' \/ Starting'
  BY DEF Over
<1>1. ASSUME NEW t \in Threads, TickStep(t) \/ Fail(t) PROVE Ending' \/ Starting'
  <2>1. /\ tick[t].at # "dead"
        /\ \A u \in Threads : u # t => tick'[u] = tick[u]
        /\ UNCHANGED <<latest, program, raced>>
    BY <1>1, TickMoves
  <2>2. \A u \in Threads : u # t => tick'[u].at = "dead"
    BY <2>1 DEF Sound
  <2>3. Starting' = Starting
    BY <2>1 DEF Starting, AtStep
  <2>4. CASE Calm(t)
    <3>1. ~restored /\ status = "FAILED_RESTART"
      BY <2>4 DEF Calm
    <3>2. Starting
      <4>1. tick[t].at \notin {"dead", "failed"}
        BY <2>1, <2>4 DEF Calm
      <4> QED BY <2>1, <3>1, <4>1 DEF Over, Ending
    <3> QED BY <2>3, <3>2
  <2>5. CASE ~Calm(t)
    <3>1. tick'[t].at \in {"dead", "failed"}
      BY <1>1, <2>5, TickShows DEF LoopEnds, Fails, FailEnds
    <3> QED BY <2>2, <3>1 DEF Ending
  <2> QED BY <2>4, <2>5
<1>2. ASSUME NEW h \in Handlers, Command(h) PROVE Ending' \/ Starting'
  <2>1. UNCHANGED <<tick, raced, restored, status>>
    BY <1>2, CommandMoves DEF threadVars, statusVars
  <2>2. PICK w \in Workers : /\ program[w] = <<>>
                             /\ \A v \in Workers : v # w => program'[v] = program[v]
    BY <1>2, CommandMoves
  <2>3. Starting => Starting'
    BY <2>2 DEF Starting, AtStep
  <2> QED BY <2>1, <2>3 DEF Over, Ending
<1>3. ASSUME NEW w \in Workers, WorkerStep(w) \/ GiveUp(w) PROVE Ending' \/ Starting'
  <2>1. CASE Spawn(w)
    <3>1. program'[w] # <<>> /\ Head(program'[w]) = "WARMUP"
      <4>1. program[w] # <<>> /\ Head(program[w]) = "spawn"
        BY <2>1 DEF Spawn, AtStep
      <4> QED BY <1>3, <4>1, HeadAfter DEF Precedes, Ends, S!MovaStatus
    <3> QED BY <3>1 DEF Starting, AtStep
  <2>2. CASE ~Spawn(w)
    <3>1. UNCHANGED <<tick, raced>>
      BY <1>3, <2>2, ThreadsOfWorker
    <3>2. ~AtStep(w, "WARMUP") /\ ~restored /\ status = "FAILED_RESTART"
      <4>1. CASE UNCHANGED <<status, restored>> /\ ~AtStep(w, "WARMUP")
        BY <4>1
      <4>2. ASSUME NEW s \in S!MovaStatus, AtStep(w, s), status' = s,
                   restored' = IF s = status THEN restored ELSE s = "FAILED_RESTART"
            PROVE  ~AtStep(w, "WARMUP") /\ ~restored /\ status = "FAILED_RESTART"
        <5>1. s = "FAILED_RESTART"
          BY <4>2
        <5>2. ~AtStep(w, "WARMUP")
          BY <4>2, <5>1 DEF AtStep
        <5>3. s = status /\ ~restored
          <6>1. CASE s = status
            BY <4>2, <6>1
          <6>2. CASE s # status
            <7>1. restored' = TRUE
              BY <4>2, <5>1, <6>2
            <7> QED BY <7>1
          <6> QED BY <6>1, <6>2
        <5> QED BY <5>1, <5>2, <5>3
      <4> QED BY <1>3, <4>1, <4>2, WorkerShows
    <3>3. \A v \in Workers : v # w => program'[v] = program[v]
      BY <1>3, WorkerMoves
    <3>4. Starting => Starting'
      BY <3>2, <3>3 DEF Starting, AtStep
    <3> QED BY <3>1, <3>2, <3>4 DEF Over, Ending
  <2> QED BY <2>1, <2>2
<1>4. ASSUME UNCHANGED vars PROVE Ending' \/ Starting'
  <2>1. UNCHANGED <<tick, program, raced, restored, status>>
    BY <1>4 DEF vars, threadVars, programs, history, statusVars
  <2> QED BY <2>1 DEF Over, Ending, Starting, AtStep
<1> QED BY <1>1, <1>2, <1>3, <1>4 DEF Next

(* With no command at work, after FAILED_RESTART the loop is over or about *)
(* to end, whatever connections, STOPs and the MOVA Tools did at once and  *)
(* even if a join() gave up, unless two starts raced or FORCE 0 has        *)
(* brought the status back.                                                *)
THEOREM FailedStopsHolds == Spec => []FailedStops
<1>1. Init => Over
  BY DEF Init, S!Init, Over
<1>2. Typed /\ Sound /\ Over /\ [Next]_vars => Over'
  BY NextOver
<1>3. Typed /\ Over => FailedStops
  <2> SUFFICES ASSUME Typed, Over, Idle, ~raced, ~restored, status = "FAILED_RESTART"
               PROVE  ~Alive \/ tick[latest].at = "failed"
    BY DEF FailedStops
  <2>1. ~Starting
    BY DEF Starting, Idle, AtStep
  <2> QED BY <2>1 DEF Over, Ending, Alive, Typed
<1> QED BY <1>1, <1>2, <1>3, SoundInvariant, PTL DEF Spec

-----------------------------------------------------------------------------
(* The commands that come one at a time.  The steps of their programs,     *)
(* those of stop() up to the end of the thread, and those that are taken   *)
(* only without a thread.                                                  *)
Stopping == {"clear", "join", "await"}
Down == {"OFF", "NO_DATASET", "INIT", "spawn"}
Heads == Stopping \union Down \union
  {"load", "look", "drop", "again", "reload", "zero", "unset", "resume", "set", "check", "WARMUP"}

AtAny(w, these) == program[w] # <<>> /\ Head(program[w]) \in these

(* A live thread is the latest, and no other worker has a program.         *)
Lone == \A t \in Threads : tick[t].at # "dead" => t = latest
Alone(w) == \A v \in Workers : v # w => program[v] = <<>>

(* Where the program stands.                                               *)
Places(w) ==
  /\ program[w] # <<>> => Head(program[w]) \in Heads
  /\ AtAny(w, Down) => ~Alive
  /\ AtStep(w, "INIT") => Tail(program[w]) # <<>>

(* The event is set as long as a thread is to run.                         *)
Event(w) ==
  /\ AtStep(w, "join") \/ AtStep(w, "await") => ~running
  /\ AtStep(w, "await") => awaited[w] = latest
  /\ ~AtAny(w, Stopping) => /\ Alive => running
                            /\ running => Alive \/ AtStep(w, "spawn")
  /\ AtStep(w, "WARMUP") => Alive /\ running /\ tick[latest].at # "failed"
  /\ AtStep(w, "spawn") => running

(* The status goes with the thread, or a step that remedies it is next.    *)
Shown(w) ==
  ~AtAny(w, Stopping) /\ ~AtStep(w, "OFF") =>
    /\ Alive /\ status \in NoKernel => AtStep(w, "WARMUP")
    /\ ~Alive => \/ status \in NoKernel \union {"FAILED_RESTART"}
                 \/ AtAny(w, {"check", "spawn", "NO_DATASET"})
    /\ Alive /\ tick[latest].at = "failed" => status = "FAILED_RESTART"

(* What is true as long as the commands come one at a time.                *)
InOrder(w) == Alone(w) /\ Places(w) /\ Event(w) /\ Shown(w)
Orderly == orderly => Lone /\ \E w \in Workers : InOrder(w)

(* A step of a tick thread keeps it.                                       *)
LEMMA OrderTick ==
  ASSUME Typed, Lone, NEW w \in Workers, InOrder(w), NEW t \in Threads, TickStep(t) \/ Fail(t)
  PROVE  Lone' /\ InOrder(w)'
<1>1. /\ tick[t].at # "dead"
      /\ \A u \in Threads : u # t => tick'[u] = tick[u]
      /\ UNCHANGED <<latest, program, awaited>>
  BY TickMoves
<1>2. t = latest /\ Alive /\ (Alive' <=> tick'[t].at # "dead")
  BY <1>1, StreamAssumption DEF Lone, Alive
<1>3. Lone' /\ Alone(w)'
  BY <1>1, <1>2 DEF Lone, Alone, InOrder
<1>4. ~AtAny(w, Down) /\ ~AtStep(w, "spawn") /\ ~AtStep(w, "INIT") /\ ~AtStep(w, "OFF")
      /\ ~AtStep(w, "NO_DATASET")
  BY <1>2 DEF Places, AtAny, AtStep, Down, InOrder
<1>5. \A s : AtStep(w, s)' = AtStep(w, s) /\ AtAny(w, s)' = AtAny(w, s)
  BY <1>1 DEF AtStep, AtAny
<1>6. Places(w)'
  BY <1>1, <1>4, <1>5 DEF Places, InOrder
<1>7. AtStep(w, "join") \/ AtStep(w, "await") => AtAny(w, Stopping) /\ ~AtStep(w, "WARMUP")
  BY DEF AtStep, AtAny, Stopping
<1> HIDE DEF AtStep, AtAny
<1>8. CASE Calm(t)
  <2>1. Event(w)'
    BY <1>1, <1>2, <1>5, <1>8 DEF Calm, Event, InOrder
  <2>2. Shown(w)'
    BY <1>1, <1>2, <1>5, <1>8 DEF Calm, Shown, NoKernel, InOrder
  <2> QED BY <1>3, <1>6, <2>1, <2>2 DEF InOrder
<1>9. CASE LoopEnds(t)
  <2>1. AtAny(w, Stopping) /\ ~AtStep(w, "WARMUP")
    BY <1>2, <1>9 DEF LoopEnds, Event, InOrder
  <2>2. Event(w)' /\ Shown(w)'
    BY <1>1, <1>4, <1>5, <1>9, <2>1 DEF LoopEnds, Event, Shown, InOrder
  <2> QED BY <1>3, <1>6, <2>2 DEF InOrder
<1>10. CASE Fails(t)
  <2>1. ~AtStep(w, "WARMUP")
    BY <1>10, WarmupLast DEF Fails, PromptStart, AtStep, Typed
  <2>2. Event(w)' /\ Shown(w)'
    BY <1>1, <1>2, <1>5, <1>10, <2>1 DEF Fails, Event, Shown, NoKernel, InOrder
  <2> QED BY <1>3, <1>6, <2>2 DEF InOrder
<1>11. CASE FailEnds(t)
  <2>1. ~AtStep(w, "WARMUP")
    BY <1>2, <1>11 DEF FailEnds, Event, InOrder
  <2>2. ~AtAny(w, Stopping) => status = "FAILED_RESTART"
    BY <1>2, <1>4, <1>11 DEF FailEnds, Shown, InOrder
  <2>3. Event(w)' /\ Shown(w)'
    BY <1>1, <1>2, <1>4, <1>5, <1>11, <2>1, <2>2 DEF FailEnds, Event, Shown, InOrder
  <2> QED BY <1>3, <1>6, <2>3 DEF InOrder
<1> QED BY <1>8, <1>9, <1>10, <1>11, TickShows

(* A command that finds nothing at work and either such an order or a      *)
(* stop() to begin with keeps it, or makes it anew.                        *)
LEMMA OrderCommand ==
  ASSUME Typed, Orderly, NEW h \in Handlers, Command(h), orderly'
  PROVE  Lone' /\ \E w \in Workers : InOrder(w)'
<1>1. PICK w \in Workers, c \in CommandNames :
        /\ program'[w] = ProgramOf(c)
        /\ \A v \in Workers : v # w => program'[v] = program[v]
        /\ orderly' = (Idle /\ c \notin Forces /\ (orderly \/ StopsAll(c)))
  BY CommandMoves
<1>2. UNCHANGED <<latest, tick, running, status>> /\ Alive' = Alive /\ Idle
  BY <1>1, CommandMoves DEF threadVars, statusVars, Alive
<1>3. Alone(w)'
  BY <1>1, <1>2 DEF Alone, Idle
<1>4. Lone'
  BY <1>1, <1>2 DEF Lone, Orderly, StopsAll
<1>5. CASE program'[w] # <<>> /\ Head(program'[w]) = "clear"
  BY <1>3, <1>4, <1>5 DEF InOrder, Places, Event, Shown, AtStep, AtAny, Heads, Stopping, Down
<1>6. CASE program'[w] = <<>> \/ Head(program'[w]) # "clear"
  <2>1. orderly
    BY <1>1, <1>6 DEF StopsAll
  <2>2. /\ Alive <=> running
        /\ Alive => status \notin NoKernel /\ (tick[latest].at = "failed" => status = "FAILED_RESTART")
        /\ ~Alive => status \in NoKernel \union {"FAILED_RESTART"}
    <3>1. PICK v \in Workers : InOrder(v)
      BY <2>1 DEF Orderly
    <3>2. program[v] = <<>>
      BY <1>2 DEF Idle
    <3> QED BY <3>1, <3>2 DEF InOrder, Event, Shown, AtStep, AtAny
  <2>3. Begins(ProgramOf(c))
    BY <1>1, ProgramOfShape
  <2> HIDE DEF ProgramOf
  <2>4. program'[w] # <<>> => \/ Head(program'[w]) \in {"set", "unset"}
                              \/ Head(program'[w]) \in {"load", "check"} /\ ~Alive
    BY <1>1, <1>6, <2>2, <2>3 DEF Begins
  <2>5. Places(w)'
    BY <2>4 DEF Places, AtStep, AtAny, Heads, Down, Stopping
  <2>6. ~AtStep(w, "join")' /\ ~AtStep(w, "await")' /\ ~AtStep(w, "spawn")' /\ ~AtStep(w, "WARMUP")'
        /\ ~AtStep(w, "OFF")' /\ ~AtAny(w, Stopping)'
    BY <2>4 DEF AtStep, AtAny, Stopping
  <2>7. Event(w)' /\ Shown(w)'
    BY <1>2, <2>2, <2>6 DEF Event, Shown
  <2> QED BY <1>3, <1>4, <2>5, <2>7 DEF InOrder
<1> QED BY <1>5, <1>6

(* The step after the present one, without forces.                         *)
LEMMA HeadsFollow ==
  ASSUME NEW w \in Workers, Typed, Places(w), WorkerStep(w)
  PROVE  /\ program[w] # <<>> /\ Head(program[w]) \in Heads
         /\ program'[w] = <<>> => Head(program[w]) \in Ends \union {"check", "load"}
         /\ program'[w] # <<>> =>
              \/ Precedes(Head(program[w]), Head(program'[w]))
              \/ Head(program[w]) = "check" /\ Head(program'[w]) = "NO_DATASET" /\ ~Alive
              \/ Head(program[w]) = "look" /\ Head(program'[w]) = "INIT" /\ ~Alive
              \/ Head(program[w]) = "resume" /\ Head(program'[w]) = "set"
              \/ Head(program[w]) = "again" /\ Head(program'[w]) = "reload"
<1>1. program[w] # <<>> /\ Head(program[w]) \in Heads
  BY HeadAfter DEF Places
<1>2. Head(program[w]) # "previous"
  BY <1>1 DEF Heads, Stopping, Down
<1> QED BY <1>1, <1>2, HeadAfter

(* A program never ends with INIT.                                         *)
LEMMA InitGoesOn ==
  ASSUME NEW w \in Workers, Typed, Places(w), WorkerStep(w), AtStep(w, "INIT")'
  PROVE  Tail(program'[w]) # <<>>
<1>1. program[w] # <<>> /\ Head(program[w]) = "look" /\ program'[w] # <<>>
  BY HeadsFollow DEF Precedes, AtStep
<1>2. program'[w] # Tail(program[w])
  <2>1. ~Precedes("look", "INIT")
    BY DEF Precedes
  <2> QED BY <1>1, <2>1, ShapeTail DEF Typed, AtStep
<1>3. program'[w] = <<"INIT">> \o StartSteps
  BY <1>1, <1>2, WorkerMoves DEF Rest
<1>4. <<"INIT">> \in Seq(Steps) /\ StartSteps \in Seq(Steps) /\ Len(<<"INIT">>) = 1
      /\ Len(StartSteps) = 3
  BY DEF StartSteps, Steps, S!MovaStatus
<1> DEFINE p == <<"INIT">> \o StartSteps
<1>5. p \in Seq(Steps) /\ Len(p) = Len(<<"INIT">>) + Len(StartSteps)
  BY <1>4, ConcatProperties
<1> HIDE DEF p
<1>6. Len(p) = 4 /\ p # <<>>
  BY <1>1, <1>3, <1>4, <1>5 DEF p
<1>7. Len(Tail(p)) = Len(p) - 1
  BY <1>5, <1>6, HeadTailProperties
<1>8. Len(Tail(p)) = 3
  BY <1>6, <1>7
<1>9. \A q : q = <<>> => Len(q) # 3
  OBVIOUS
<1>10. Tail(p) # <<>>
  BY <1>8, <1>9, Zenon
<1> QED BY <1>3, <1>10 DEF p

(* The places, after any step of the worker.                               *)
LEMMA PlacesWorker ==
  ASSUME NEW w \in Workers, Typed, InOrder(w), WorkerStep(w)
  PROVE  Places(w)'
<1>0. Places(w) /\ Event(w)
  BY DEF InOrder
<1>1. /\ program[w] # <<>> /\ Head(program[w]) \in Heads
      /\ program'[w] # <<>> =>
           \/ Precedes(Head(program[w]), Head(program'[w]))
           \/ Head(program[w]) = "check" /\ Head(program'[w]) = "NO_DATASET" /\ ~Alive
           \/ Head(program[w]) = "look" /\ Head(program'[w]) = "INIT" /\ ~Alive
           \/ Head(program[w]) = "resume" /\ Head(program'[w]) = "set"
           \/ Head(program[w]) = "again" /\ Head(program'[w]) = "reload"
  BY <1>0, HeadsFollow
<1>2. program'[w] # <<>> => Head(program'[w]) \in Heads
  BY <1>1 DEF Precedes, Heads, Stopping, Down
<1>3. ASSUME AtAny(w, Down)' PROVE ~Alive'
  <2>1. program'[w] # <<>> /\ Head(program'[w]) \in Down
    BY <1>3 DEF AtAny
  <2>2. ~Spawn(w)
    BY <1>1, <2>1 DEF Spawn, AtStep, Precedes, Down
  <2>3. Alive' = Alive
    BY <2>2, ThreadsOfWorker DEF Alive
  <2>4. CASE Head(program[w]) = "await"
    <3>1. Await(w)
      BY <1>1, <2>4, WhichStep DEF AtStep
    <3>2. awaited[w] = latest
      BY <1>0, <1>1, <2>4 DEF Event, AtStep
    <3> QED BY <2>3, <3>1, <3>2 DEF Await, Awaiting, Alive
  <2>5. CASE Head(program[w]) = "check" /\ Head(program'[w]) = "spawn"
    <3>1. Check(w)
      BY <1>1, <2>5, WhichStep DEF AtStep
    <3>2. CASE Continues(w, <<>>)
      BY <2>1, <3>2 DEF Continues, Typed
    <3> QED BY <2>3, <3>1, <3>2 DEF Check
  <2> QED BY <1>1, <2>1, <2>3, <2>4, <2>5 DEF Precedes, Down
<1>4. AtStep(w, "INIT")' => Tail(program'[w]) # <<>>
  BY <1>0, InitGoesOn
<1> QED BY <1>2, <1>3, <1>4 DEF Places

(* So do event and status, after any step of the worker.                   *)
LEMMA ShownWorker ==
  ASSUME NEW w \in Workers, Typed, InOrder(w), WorkerStep(w)
  PROVE  (Event(w) /\ Shown(w))'
<1>0. Places(w) /\ Event(w) /\ Shown(w)
  BY DEF InOrder
<1>1. /\ program[w] # <<>> /\ Head(program[w]) \in Heads
      /\ program'[w] = <<>> => Head(program[w]) \in Ends \union {"check", "load"}
      /\ program'[w] # <<>> =>
           \/ Precedes(Head(program[w]), Head(program'[w]))
           \/ Head(program[w]) = "check" /\ Head(program'[w]) = "NO_DATASET" /\ ~Alive
           \/ Head(program[w]) = "look" /\ Head(program'[w]) = "INIT" /\ ~Alive
           \/ Head(program[w]) = "resume" /\ Head(program'[w]) = "set"
           \/ Head(program[w]) = "again" /\ Head(program'[w]) = "reload"
  BY <1>0, HeadsFollow
<1>2. CASE AtStep(w, "spawn")
  <2>0. Spawn(w)
    BY <1>2, WhichStep
  <2>1. program'[w] # <<>> /\ Head(program'[w]) = "WARMUP"
    BY <1>1, <1>2 DEF AtStep, Precedes, Ends, S!MovaStatus
  <2>2. PICK t \in Threads : latest' = t /\ tick' = [tick EXCEPT ![t] = At("loop")]
    BY <2>0 DEF Spawn
  <2>3. tick'[latest'].at = "loop" /\ latest' # NoThread
    BY <2>2, AtState, StreamAssumption DEF Typed
  <2>4. Alive' /\ running'
    BY <1>0, <1>2, <2>0, <2>3 DEF Alive, Spawn, Event
  <2>5. AtStep(w, "WARMUP")' /\ ~AtStep(w, "spawn")' /\ ~AtStep(w, "join")' /\ ~AtStep(w, "await")'
    BY <2>1 DEF AtStep
  <2> QED BY <2>3, <2>4, <2>5 DEF Event, Shown
<1>3. CASE ~AtStep(w, "spawn")
  <2>0. UNCHANGED <<latest, tick>> /\ Alive' = Alive
    BY <1>3, WhichStep, ThreadsOfWorker DEF Alive
  <2>1. CASE AtStep(w, "clear")
    <3>1. ~running'
      BY <2>1, WhichStep DEF Clear
    <3>2. AtStep(w, "join")'
      BY <1>1, <2>1 DEF AtStep, Precedes, Ends, S!MovaStatus
    <3>3. ~AtStep(w, "await")' /\ ~AtStep(w, "WARMUP")' /\ ~AtStep(w, "spawn")' /\ AtAny(w, Stopping)'
      BY <3>2 DEF AtStep, AtAny, Stopping
    <3> QED BY <3>1, <3>3 DEF Event, Shown
  <2>2. CASE AtStep(w, "join")
    <3>1. Join(w) /\ ~running
      BY <1>0, <2>2, WhichStep DEF Event
    <3>2. ~running' /\ awaited'[w] = latest'
      BY <3>1 DEF Join, threadVars, Typed
    <3>3. AtStep(w, "await")'
      BY <1>1, <2>2 DEF AtStep, Precedes, Ends, S!MovaStatus
    <3>4. ~AtStep(w, "WARMUP")' /\ ~AtStep(w, "spawn")' /\ AtAny(w, Stopping)'
      BY <3>3 DEF AtStep, AtAny, Stopping
    <3> QED BY <3>2, <3>4 DEF Event, Shown
  <2>3. CASE AtStep(w, "await")
    <3>1. Await(w) /\ ~running /\ awaited[w] = latest
      BY <1>0, <2>3, WhichStep DEF Event
    <3>2. ~running' /\ ~Alive'
      BY <2>0, <3>1 DEF Await, Awaiting, Alive, threadVars
    <3>3. AtStep(w, "OFF")'
      BY <1>1, <2>3 DEF AtStep, Precedes, Ends, S!MovaStatus
    <3>4. ~AtStep(w, "WARMUP")' /\ ~AtStep(w, "spawn")' /\ ~AtStep(w, "await")'
      BY <3>3 DEF AtStep
    <3> QED BY <3>2, <3>3, <3>4 DEF Event, Shown
  <2>4. CASE AtStep(w, "check")
    <3>0. ~AtAny(w, Stopping) /\ ~AtStep(w, "OFF") /\ ~AtStep(w, "WARMUP")
      BY <2>4 DEF AtStep, AtAny, Stopping
    <3>1. Check(w) /\ UNCHANGED status
      BY <2>4, WhichStep DEF Check, statusVars
    <3>2. CASE Alive /\ Continues(w, <<>>) /\ UNCHANGED running
      <4>1. program'[w] = <<>>
        BY <3>2 DEF Continues, Typed
      <4> QED BY <1>0, <1>3, <2>0, <3>0, <3>1, <3>2, <4>1 DEF Event, Shown, AtStep, AtAny
    <3>3. CASE ~Alive /\ Continues(w, <<"NO_DATASET">>) /\ UNCHANGED running
      <4>1. program'[w] = <<"NO_DATASET">> /\ ~running'
        BY <1>0, <1>3, <3>0, <3>3 DEF Continues, Typed, Event
      <4>2. program'[w] # <<>> /\ Head(program'[w]) = "NO_DATASET"
        BY <4>1
      <4> QED BY <2>0, <3>3, <4>1, <4>2 DEF Event, Shown, AtStep, AtAny
    <3>4. CASE ~Alive /\ Proceeds(w) /\ running' = TRUE
      <4>1. program'[w] = Tail(program[w])
        BY <3>4 DEF Proceeds, Continues, Typed
      <4>2. program'[w] # <<>> /\ Head(program'[w]) = "spawn"
        <5>1. "check" \notin Ends
          BY DEF Ends, S!MovaStatus
        <5> QED BY <2>4, <4>1, <5>1, ShapeTail DEF Typed, AtStep, Precedes
      <4> QED BY <2>0, <3>4, <4>2 DEF Event, Shown, AtStep, AtAny
    <3> QED BY <3>1, <3>2, <3>3, <3>4 DEF Check
  <2>5. CASE SetStatus(w)
    <3>1. PICK s \in S!MovaStatus : AtStep(w, s) /\ status' = s
      BY <2>5, SetShows DEF SetStatus
    <3>2. s \in {"OFF", "NO_DATASET", "INIT", "WARMUP"}
      BY <1>1, <3>1 DEF AtStep, Heads, Stopping, Down, S!MovaStatus
    <3>3. UNCHANGED running
      BY <2>5 DEF SetStatus, threadVars
    <3>4. /\ ~AtStep(w, "spawn")' /\ ~AtStep(w, "WARMUP")' /\ ~AtStep(w, "join")'
          /\ ~AtStep(w, "await")' /\ ~AtAny(w, Stopping)' /\ ~AtStep(w, "OFF")'
          /\ ~AtAny(w, Stopping)
      BY <1>1, <3>1, <3>2 DEF AtStep, AtAny, Stopping, Precedes
    <3>5. CASE s \in {"OFF", "NO_DATASET"}
      <4>1. ~Alive /\ status' \in NoKernel
        BY <1>0, <3>1, <3>5 DEF Places, AtStep, AtAny, Down, NoKernel
      <4> QED BY <1>0, <1>3, <2>0, <3>3, <3>4, <4>1 DEF Event, Shown
    <3>6. CASE s = "INIT"
      <4>1. ~Alive
        BY <1>0, <3>1, <3>6 DEF Places, AtStep, AtAny, Down
      <4>2. program'[w] = Tail(program[w]) /\ Tail(program[w]) # <<>>
        BY <1>0, <2>5, <3>1, <3>6 DEF SetStatus, Proceeds, Continues, Typed, Places
      <4>3. AtAny(w, {"check", "spawn", "NO_DATASET"})'
        BY <3>1, <3>6, <4>2, ShapeTail DEF Typed, AtStep, AtAny, Precedes
      <4> QED BY <1>0, <1>3, <2>0, <3>3, <3>4, <4>1, <4>3 DEF Event, Shown
    <3>7. CASE s = "WARMUP"
      <4>1. Alive /\ running /\ tick[latest].at # "failed"
        BY <1>0, <3>1, <3>7 DEF Event
      <4>2. status' = "WARMUP"
        BY <3>1, <3>7
      <4> QED BY <2>0, <3>3, <3>4, <4>1, <4>2 DEF Event, Shown, NoKernel
    <3> QED BY <3>2, <3>5, <3>6, <3>7
  <2>6. CASE Head(program[w]) \in {"load", "look", "reload", "zero", "again", "drop", "set",
                                   "unset", "resume"}
    <3>1. UNCHANGED <<running, status>>
      BY <2>6 DEF WorkerStep, SetStatus, Clear, Join, Await, Check, Spawn, Load, Look, Drop, Again,
         Reload, Zero, Resume, SetIo, Unforce, AtStep, statusVars, threadVars, S!SetMovaOn,
         S!MovaStatus
    <3>2. ~AtStep(w, "OFF") /\ ~AtStep(w, "WARMUP") /\ ~AtAny(w, Stopping)
          /\ ~AtAny(w, {"check", "spawn", "NO_DATASET"})
      BY <2>6 DEF AtStep, AtAny, Stopping
    <3>3. /\ ~AtStep(w, "spawn")' /\ ~AtStep(w, "WARMUP")' /\ ~AtStep(w, "join")'
          /\ ~AtStep(w, "await")'
      BY <1>1, <2>6 DEF AtStep, Precedes
    <3> QED BY <1>0, <1>3, <2>0, <3>1, <3>2, <3>3 DEF Event, Shown
  <2>7. AtStep(w, "OFF") \/ AtStep(w, "NO_DATASET") \/ AtStep(w, "INIT") \/ AtStep(w, "WARMUP")
          => SetStatus(w)
    BY DEF WorkerStep, Clear, Join, Await, Check, Spawn, Load, Look, Drop, Again, Reload, Zero,
       Resume, SetIo, Unforce, AtStep
  <2> QED BY <1>1, <1>3, <2>1, <2>2, <2>3, <2>4, <2>5, <2>6, <2>7
          DEF Heads, Stopping, Down, AtStep
<1> QED BY <1>2, <1>3

(* Every step keeps Orderly.                                               *)
LEMMA NextOrderly == ASSUME Typed, Orderly, [Next]_vars PROVE Orderly'
<1> SUFFICES ASSUME orderly' PROVE Lone' /\ \E w \in Workers : InOrder(w)'
  BY DEF Orderly
<1>1. ASSUME NEW t \in Threads, TickStep(t) \/ Fail(t)
      PROVE  Lone' /\ \E w \in Workers : InOrder(w)'
  <2>1. orderly
    BY <1>1, TickMoves
  <2>2. PICK w \in Workers : Lone /\ InOrder(w)
    BY <2>1 DEF Orderly
  <2> QED BY <1>1, <2>2, OrderTick
<1>2. ASSUME NEW h \in Handlers, Command(h) PROVE Lone' /\ \E w \in Workers : InOrder(w)'
  BY <1>2, OrderCommand
<1>3. ASSUME NEW v \in Workers, WorkerStep(v) \/ GiveUp(v)
      PROVE  Lone' /\ \E w \in Workers : InOrder(w)'
  <2>1. ~GiveUp(v)
    BY DEF GiveUp
  <2>2. orderly
    BY <1>3, <2>1 DEF WorkerStep, SetStatus, Clear, Join, Await, Check, Spawn, Load, Look, Drop,
       Again, Reload, Zero, Resume, SetIo, Unforce, Proceeds, Continues
  <2>3. PICK w \in Workers : InOrder(w)
    BY <2>2 DEF Orderly
  <2>4. v = w
    BY <1>3, <2>3, WorkerMoves DEF InOrder, Alone
  <2>5. Places(w)' /\ Event(w)' /\ Shown(w)'
    BY <1>3, <2>1, <2>3, <2>4, PlacesWorker, ShownWorker
  <2>6. Alone(w)'
    BY <1>3, <2>3, <2>4, WorkerMoves DEF InOrder, Alone
  <2>7. Lone'
    <3>1. CASE ~Spawn(w)
      BY <1>3, <2>2, <2>4, <3>1, ThreadsOfWorker DEF Lone, Orderly
    <3>2. CASE Spawn(w)
      <4>1. ~Alive
        BY <2>3, <3>2 DEF Spawn, AtStep, AtAny, InOrder, Places, Down
      <4>2. \A u \in Threads : tick[u].at = "dead"
        BY <2>2, <4>1, StreamAssumption DEF Orderly, Lone, Alive
      <4>3. PICK t \in Threads : latest' = t /\ tick' = [tick EXCEPT ![t] = At("loop")]
        BY <3>2 DEF Spawn
      <4> QED BY <4>2, <4>3 DEF Lone, Typed
    <3> QED BY <3>1, <3>2
  <2> QED BY <2>5, <2>6, <2>7 DEF InOrder
<1>4. ASSUME UNCHANGED vars PROVE Lone' /\ \E w \in Workers : InOrder(w)'
  <2>1. UNCHANGED <<latest, tick, running, status, program, awaited, orderly>> /\ Alive' = Alive
    BY <1>4 DEF vars, threadVars, statusVars, programs, history, Alive
  <2>2. PICK w \in Workers : Lone /\ InOrder(w)
    BY <2>1 DEF Orderly
  <2>3. \A s : AtStep(w, s)' = AtStep(w, s) /\ AtAny(w, s)' = AtAny(w, s)
    BY <2>1 DEF AtStep, AtAny
  <2>4. Places(w)' /\ Event(w)' /\ Shown(w)'
    BY <2>1, <2>2, <2>3 DEF InOrder, Places, Event, Shown
  <2>5. Lone' /\ Alone(w)'
    BY <2>1, <2>2 DEF Lone, Alone, InOrder
  <2> QED BY <2>4, <2>5 DEF InOrder
<1> QED BY <1>1, <1>2, <1>3, <1>4 DEF Next

(* After commands that came one at a time, with the daemons of STOP among  *)
(* them and whatever was at work before the last that stopped the stream,  *)
(* it shows OFF or no dataset exactly if it does not tick, whatever the    *)
(* order in which its thread and the commands set the status.              *)
THEOREM ShownAsItIsHolds == Spec => []ShownAsItIs
<1>1. Init => Orderly
  <2> SUFFICES ASSUME Init PROVE Lone /\ \E w \in Workers : InOrder(w)
    BY DEF Orderly
  <2>1. PICK w \in Workers : TRUE
    BY StreamAssumption DEF Workers
  <2>2. \A v \in Workers : program[v] = <<>>
    BY DEF Init
  <2>3. ~Alive /\ ~running /\ status \in NoKernel /\ Lone
    BY StreamAssumption DEF Init, S!Init, Alive, Lone, Dead, NoKernel
  <2>4. InOrder(w)
    BY <2>2, <2>3 DEF InOrder, Alone, Places, Event, Shown, AtStep, AtAny
  <2> QED BY <2>3, <2>4
<1>2. Typed /\ Orderly /\ [Next]_vars => Orderly'
  BY NextOrderly
<1>3. Orderly => ShownAsItIs
  <2> SUFFICES ASSUME Orderly, Idle, orderly
               PROVE  /\ status \in NoKernel => ~Alive
                      /\ ~Alive => status \in NoKernel \union {"FAILED_RESTART"}
    BY DEF ShownAsItIs
  <2>1. PICK w \in Workers : InOrder(w)
    BY DEF Orderly
  <2> QED BY <2>1 DEF InOrder, Shown, Idle, AtStep, AtAny
<1> QED BY <1>1, <1>2, <1>3, TypedInvariant, PTL DEF Spec

-----------------------------------------------------------------------------
(* The steps left of a command, of which one at least is left at any step. *)
LEMMA StepsFromOrder ==
  ASSUME NEW a \in Steps, NEW b
  PROVE  /\ StepsFrom(a) \in 1..12
         /\ Precedes(a, b) => StepsFrom(b) < StepsFrom(a)
<1>1. StepsFrom(a) \in 1..12
  BY DEF StepsFrom
<1>. QED
  BY <1>1 DEF StepsFrom, Precedes

(* Any number of commands, of connections, the MOVA Tools and daemons, in  *)
(* any order: each is done after at most twelve steps of its own.          *)
THEOREM CommandsShrink == Spec => CommandShrinks
<1>1. Init => Typed
  BY InitTyped
<1>2. Typed /\ [Next]_vars => [\A w \in Workers : program[w] # <<>> =>
        program'[w] = program[w] \/ StepsLeft(w)' < StepsLeft(w)]_vars
  <2> SUFFICES ASSUME Typed, Next, NEW w \in Workers, program[w] # <<>>,
                      program'[w] # program[w]
               PROVE  StepsLeft(w)' < StepsLeft(w)
    OBVIOUS
  <2>1. WorkerStep(w) \/ GiveUp(w)
    <3>1. ASSUME NEW t \in Threads, TickStep(t) \/ Fail(t) PROVE FALSE
      BY <3>1, TickMoves
    <3>2. ASSUME NEW v \in Workers, v # w, WorkerStep(v) \/ GiveUp(v) PROVE FALSE
      BY <3>2, WorkerMoves
    <3>3. ASSUME NEW h \in Handlers, Command(h) PROVE FALSE
      <4>1. PICK v \in Workers : /\ program[v] = <<>>
                                 /\ \A u \in Workers : u # v => program'[u] = program[u]
        BY <3>3, CommandMoves
      <4> QED BY <4>1
    <3> QED BY <3>1, <3>2, <3>3 DEF Next
  <2>2. Head(program[w]) \in Steps
    BY DEF Typed
  <2>3. StepsFrom(Head(program[w])) \in 1..12
    BY <2>2, StepsFromOrder
  <2>4. CASE program'[w] = <<>>
    BY <2>3, <2>4 DEF StepsLeft
  <2>5. CASE program'[w] # <<>>
    <3>1. StepsFrom(Head(program'[w])) < StepsFrom(Head(program[w]))
      <4>1. CASE Precedes(Head(program[w]), Head(program'[w]))
        BY <2>2, <4>1, StepsFromOrder
      <4>2. CASE \/ Head(program[w]) = "check" /\ Head(program'[w]) = "NO_DATASET"
                 \/ Head(program[w]) = "look" /\ Head(program'[w]) = "INIT"
                 \/ Head(program[w]) = "resume" /\ Head(program'[w]) = "set"
                 \/ Head(program[w]) = "again" /\ Head(program'[w]) = "reload"
        BY <4>2 DEF StepsFrom
      <4>3. CASE Head(program[w]) = "previous" /\ program'[w] = <<previous>>
        <5>1. Head(program'[w]) = previous /\ previous \in S!MovaStatus
          BY <4>3 DEF Typed, StatusInv, S!TypeOK
        <5>2. StepsFrom(previous) <= 8 /\ StepsFrom("previous") = 12
          BY <5>1 DEF StepsFrom, S!MovaStatus
        <5>3. StepsFrom(previous) \in Int
          BY <5>1, StepsFromOrder DEF Steps
        <5> QED BY <4>3, <5>1, <5>2, <5>3
      <4> QED BY <2>1, <2>5, <4>1, <4>2, <4>3, HeadAfter
    <3> QED BY <2>5, <3>1 DEF StepsLeft
  <2> QED BY <2>4, <2>5
<1>. QED
  BY <1>1, <1>2, NextTyped, PTL DEF Spec, CommandShrinks
=============================================================================
