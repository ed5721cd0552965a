------------------------------ MODULE RbeProofs ------------------------------
(* Proofs about reply by exception, for any number of signals and writers, *)
(* with and without keepalive and losses.                                  *)
EXTENDS Rbe, TLAPS

LEMMA RestingType == Nothing \in Tellings /\ Resting \in Rounds
BY DEF Nothing, Tellings, Values, NoValue, Resting, Rounds, Places

LEMMA ReadType ==
  ASSUME bus \in [Signals -> {0, 1}]
  PROVE  Read \in [Signals -> {0, 1}] /\ Read \in Tellings
BY DEF Read, Tellings, Values

(* An update takes its values from either side.                            *)
LEMMA UpdatedType ==
  ASSUME NEW old \in Tellings, NEW new \in Tellings
  PROVE  Updated(old, new) \in Tellings
BY DEF Updated, Tellings

-----------------------------------------------------------------------------
(* Type correctness.                                                       *)
LEMMA InitType == Init => TypeOK
<1>1. Init => bus \in [Signals -> {0, 1}] /\ announce \in [Writers -> Tellings]
  BY RestingType DEF Init
<1>2. Init => thread \in [Senders -> Rounds]
  BY RestingType DEF Init
<1>3. Init => /\ pending \in Tellings /\ lastSent \in Tellings /\ told \in Tellings
              /\ mode \in 1..2 /\ since \in 0..2 /\ depth \in 0..Deepest
  BY RestingType, RbeAssumption DEF Init, Deepest
<1>4. Init => addressed \in BOOLEAN
  BY RbeAssumption, Zenon DEF Init
<1>. QED
  BY <1>1, <1>2, <1>3, <1>4 DEF TypeOK

(* The steps of the writers, of the instation and of time.                 *)
LEMMA TypeOutside ==
  ASSUME TypeOK,
         \/ \E w \in Writers, s \in Signals : Write(w, s)
         \/ \E w \in Writers : Announce(w)
         \/ SetMode \/ SetAddress \/ Passes \/ Backlog
  PROVE  TypeOK'
<1>1. ASSUME NEW w \in Writers, NEW s \in Signals, Write(w, s) PROVE TypeOK'
  <2>1. bus' \in [Signals -> {0, 1}]
    BY <1>1 DEF Write, TypeOK
  <2>2. announce[w] \in Tellings /\ 1 - bus[s] \in Values
    BY <1>1 DEF TypeOK, Values
  <2>3. [announce[w] EXCEPT ![s] = 1 - bus[s]] \in Tellings
    BY <2>2 DEF Tellings
  <2>4. announce' = [announce EXCEPT ![w] = [announce[w] EXCEPT ![s] = 1 - bus[s]]]
    BY <1>1 DEF Write
  <2>5. announce' \in [Writers -> Tellings]
    BY <2>3, <2>4 DEF TypeOK
  <2>. QED
    BY <1>1, <2>1, <2>5 DEF Write, TypeOK
<1>2. ASSUME NEW w \in Writers, Announce(w) PROVE TypeOK'
  <2>1. announce' \in [Writers -> Tellings]
    BY <1>2, RestingType DEF Announce, TypeOK
  <2>2. announce[w] \in Tellings /\ pending \in Tellings
    BY DEF TypeOK
  <2>3. pending' \in Tellings
    BY <1>2, <2>2, UpdatedType DEF Announce
  <2>. QED
    BY <1>2, <2>1, <2>3 DEF Announce, TypeOK
<1>3. CASE SetMode
  <2>1. mode' \in 1..2
    BY <1>3, RbeAssumption DEF SetMode
  <2>. QED
    BY <1>3, <2>1 DEF SetMode, TypeOK
<1>4. CASE Passes
  BY <1>4 DEF Passes, TypeOK
<1>5. CASE Backlog
  BY <1>5, RbeAssumption DEF Backlog, TypeOK, Deepest
<1>6. CASE SetAddress
  BY <1>6, RbeAssumption DEF SetAddress, TypeOK
<1>. QED
  BY <1>1, <1>2, <1>3, <1>4, <1>5, <1>6

(* A sender goes to a place with what it had.                              *)
LEMMA GoesType ==
  ASSUME TypeOK, NEW t \in Senders, NEW place \in Places, Goes(t, place)
  PROVE  thread' \in [Senders -> Rounds]
<1>1. thread[t] \in Rounds
  BY DEF TypeOK
<1>2. [thread[t] EXCEPT !.at = place] \in Rounds
  BY <1>1 DEF Rounds
<1>3. thread' = [thread EXCEPT ![t] = [thread[t] EXCEPT !.at = place]]
  BY DEF Goes
<1>. QED
  BY <1>2, <1>3 DEF TypeOK

(* The steps of the send loop.                                             *)
LEMMA TypeSendLoop ==
  ASSUME TypeOK, SendLoop
  PROVE  TypeOK'
<1> USE DEF Senders
<1>1. CASE Wake
  <2>1. thread' \in [Senders -> Rounds]
    BY <1>1, GoesType DEF Wake, Places
  <2>. QED
    BY <1>1, <2>1 DEF Wake, TypeOK
<1>2. CASE Clear
  <2>1. thread' \in [Senders -> Rounds]
    BY <1>2, GoesType DEF Clear, Places
  <2>. QED
    BY <1>2, <2>1, RestingType DEF Clear, TypeOK
<1>3. CASE Take
  <2> DEFINE round == [Resting EXCEPT !.at = IF pending = Nothing THEN "idle" ELSE "compare",
                                      !.noted = pending]
  <2>1. round \in Rounds
    BY RestingType DEF TypeOK, Resting, Rounds, Places
  <2>2. thread' = [thread EXCEPT !["changes"] = round]
    BY <1>3 DEF Take
  <2> HIDE DEF round
  <2>3. thread' \in [Senders -> Rounds]
    BY <2>1, <2>2 DEF TypeOK
  <2>. QED
    BY <1>3, <2>3, RestingType DEF Take, TypeOK
<1>4. CASE Compare
  <2> DEFINE batch == thread["changes"].noted
             changed == [s \in Signals |->
                           IF batch[s] = lastSent[s] THEN NoValue ELSE batch[s]]
             round == [Resting EXCEPT !.at = "build", !.noted = changed]
  <2>1. batch \in Tellings
    BY DEF TypeOK, Rounds
  <2>2. changed \in Tellings
    BY <2>1 DEF Tellings, Values
  <2>3. round \in Rounds
    BY <2>2, RestingType DEF Resting, Rounds, Places
  <2>4. \/ thread' = [thread EXCEPT !["changes"] = Resting] /\ pending' = Updated(pending, changed)
        \/ thread' = [thread EXCEPT !["changes"] = round] /\ UNCHANGED pending
    BY <1>4 DEF Compare
  <2> HIDE DEF batch, changed, round
  <2>5. thread' \in [Senders -> Rounds] /\ pending' \in Tellings
    BY <2>2, <2>3, <2>4, RestingType, UpdatedType DEF TypeOK
  <2>. QED
    BY <1>4, <2>5 DEF Compare, TypeOK
<1>. QED
  BY <1>1, <1>2, <1>3, <1>4 DEF SendLoop

(* The keepalive, and an inform of either sender.                          *)
LEMMA TypeInform ==
  ASSUME TypeOK, Due \/ \E t \in Senders : Informs(t) \/ AnswerLost(t)
  PROVE  TypeOK'
<1>1. CASE Due
  <2> DEFINE round == [Resting EXCEPT !.at = "build", !.noted = Read]
  <2>1. round \in Rounds
    BY RestingType, ReadType DEF TypeOK, Resting, Rounds, Places
  <2>2. thread' = [thread EXCEPT !["keepalive"] = round]
    BY <1>1 DEF Due
  <2> HIDE DEF round
  <2>3. thread' \in [Senders -> Rounds]
    BY <2>1, <2>2 DEF TypeOK, Senders
  <2>. QED
    BY <1>1, <2>3 DEF Due, TypeOK
<1>2. ASSUME NEW t \in Senders, Build(t) PROVE TypeOK'
  <2> DEFINE round == [thread[t] EXCEPT !.at = "send", !.inform = Read]
  <2>1. round \in Rounds
    BY ReadType DEF TypeOK, Rounds, Places
  <2>2. thread' = [thread EXCEPT ![t] = round]
    BY <1>2 DEF Build
  <2> HIDE DEF round
  <2>3. thread' \in [Senders -> Rounds]
    BY <2>1, <2>2 DEF TypeOK
  <2>. QED
    BY <1>2, <2>3 DEF Build, TypeOK
<1>3. ASSUME NEW t \in Senders, Answer(t) PROVE TypeOK'
  <2> DEFINE round == [thread[t] EXCEPT !.at = "note", !.inform = Nothing]
  <2>1. round \in Rounds
    BY RestingType DEF TypeOK, Rounds, Places
  <2>2. thread' = [thread EXCEPT ![t] = round]
    BY <1>3 DEF Answer
  <2> HIDE DEF round
  <2>3. thread' \in [Senders -> Rounds]
    BY <2>1, <2>2 DEF TypeOK
  <2>4. thread[t].inform \in Tellings
    BY DEF TypeOK, Rounds
  <2>. QED
    BY <1>3, <2>3, <2>4 DEF Answer, TypeOK
<1>4. ASSUME NEW t \in Senders, AnswerLost(t) PROVE TypeOK'
  <2>1. thread[t].inform \in Tellings
    BY DEF TypeOK, Rounds
  <2>. QED
    BY <1>4, <2>1 DEF AnswerLost, TypeOK
<1>5. ASSUME NEW t \in Senders, GiveUp(t) PROVE TypeOK'
  <2>1. thread' \in [Senders -> Rounds]
    BY <1>5, RestingType DEF GiveUp, TypeOK
  <2>2. depth' \in 0..Deepest
    BY <1>5, RbeAssumption DEF GiveUp, TypeOK, Deepest
  <2>. QED
    BY <1>5, <2>1, <2>2 DEF GiveUp, TypeOK
<1>6. ASSUME NEW t \in Senders, Note(t) PROVE TypeOK'
  <2>1. thread' \in [Senders -> Rounds]
    BY <1>6, RestingType DEF Note, TypeOK
  <2>2. thread[t].noted \in Tellings /\ lastSent \in Tellings
    BY DEF TypeOK, Rounds
  <2>3. lastSent' \in Tellings
    BY <1>6, <2>2, UpdatedType DEF Note
  <2>4. depth' \in 0..Deepest
    BY <1>6, RbeAssumption DEF Note, TypeOK, Deepest
  <2>. QED
    BY <1>6, <2>1, <2>3, <2>4 DEF Note, TypeOK
<1>7. ASSUME NEW t \in Senders, Suppress(t) PROVE TypeOK'
  <2>1. thread' \in [Senders -> Rounds]
    BY <1>7, RestingType DEF Suppress, TypeOK
  <2>. QED
    BY <1>7, <2>1 DEF Suppress, TypeOK
<1>. QED
  BY <1>1, <1>2, <1>3, <1>4, <1>5, <1>6, <1>7 DEF Informs

LEMMA NextType == TypeOK /\ [Next]_vars => TypeOK'
<1>1. TypeOK /\ UNCHANGED vars => TypeOK'
  BY DEF TypeOK, vars
<1>. QED
  BY <1>1, TypeOutside, TypeSendLoop, TypeInform DEF Next

(* The service stays among its types, and its count of failed informs and  *)
(* the age of the last answer within their bounds.                         *)
THEOREM RbeTypeCorrect == Spec => []TypeOK
BY InitType, NextType, PTL DEF Spec

-----------------------------------------------------------------------------
(* What the instation knows.  In a step, each sender stands, reads the bus *)
(* for its inform, has it answered, or is neither sending nor noting.      *)
Builds(t) == thread'[t].at = "send" /\ thread'[t].inform = Read
Answered(t) == At(t, "send") /\ thread'[t].at = "note" /\ told' = thread[t].inform

LEMMA RoundMoves ==
  ASSUME TypeOK, [Next]_vars, NEW u \in Senders
  PROVE  \/ thread'[u] = thread[u]
         \/ Builds(u)
         \/ Answered(u)
         \/ thread'[u].at \notin {"send", "note"}
<1> USE DEF TypeOK, Builds, Answered
<1>1. ASSUME UNCHANGED thread PROVE thread'[u] = thread[u]
  BY <1>1
<1>2. ASSUME NEW t \in Senders, NEW place \in Places \ {"send", "note"}, Goes(t, place)
      PROVE  thread'[u] = thread[u] \/ thread'[u].at \notin {"send", "note"}
  BY <1>2 DEF Goes, Rounds
<1>3. ASSUME NEW t \in Senders, thread' = [thread EXCEPT ![t] = Resting]
      PROVE  thread'[u] = thread[u] \/ thread'[u].at \notin {"send", "note"}
  BY <1>3 DEF Resting
<1>4. CASE \E w \in Writers, s \in Signals : Write(w, s)
  BY <1>1, <1>4 DEF Write
<1>5. CASE \/ \E w \in Writers : Announce(w)
           \/ SetMode \/ SetAddress \/ Passes \/ Backlog \/ UNCHANGED vars
  BY <1>1, <1>5 DEF Announce, SetMode, SetAddress, Passes, Backlog, vars
<1>6. CASE Wake \/ Clear
  BY <1>2, <1>6 DEF Wake, Clear, Senders, Places
<1>7. CASE Take
  BY <1>7 DEF Take, Resting, Senders
<1>8. CASE Compare
  <2>1. \/ thread' = [thread EXCEPT !["changes"] = Resting]
        \/ \E changed : thread' = [thread EXCEPT !["changes"] =
                                   [Resting EXCEPT !.at = "build", !.noted = changed]]
    BY <1>8 DEF Compare
  <2>2. ASSUME NEW changed,
               thread' = [thread EXCEPT !["changes"] =
                            [Resting EXCEPT !.at = "build", !.noted = changed]]
        PROVE  thread'[u] = thread[u] \/ thread'[u].at \notin {"send", "note"}
    BY <2>2 DEF Resting, Senders
  <2>. QED
    BY <1>3, <2>1, <2>2 DEF Senders
<1>9. CASE Due
  BY <1>9 DEF Due, Resting, Senders
<1>10. ASSUME NEW t \in Senders, Build(t) PROVE thread'[u] = thread[u] \/ Builds(u)
  BY <1>10 DEF Build, Rounds
<1>11. ASSUME NEW t \in Senders, Answer(t) PROVE thread'[u] = thread[u] \/ Answered(u)
  BY <1>11 DEF Answer, Rounds, At
<1>12. ASSUME NEW t \in Senders, Suppress(t) \/ GiveUp(t) \/ Note(t)
       PROVE  thread'[u] = thread[u] \/ thread'[u].at \notin {"send", "note"}
  BY <1>3, <1>12 DEF Suppress, GiveUp, Note
<1>13. ASSUME NEW t \in Senders, AnswerLost(t) PROVE thread'[u] = thread[u]
  BY <1>1, <1>13 DEF AnswerLost
<1>. QED
  BY <1>4, <1>5, <1>6, <1>7, <1>8, <1>9, <1>10, <1>11, <1>12, <1>13
     DEF Next, SendLoop, Informs

(* It is told what an inform on its way says, and a change is noted by a   *)
(* sender whose inform was answered.                                       *)
LEMMA ToldMoves ==
  ASSUME TypeOK, [Next]_vars
  PROVE  /\ \/ told' = told
            \/ \E t \in Senders : At(t, "send") /\ told' = thread[t].inform
         /\ \/ lastSent' = lastSent
            \/ \E t \in Senders : At(t, "note") /\ told' = told
<1>1. CASE \E w \in Writers, s \in Signals : Write(w, s)
  BY <1>1 DEF Write
<1>2. CASE \/ \E w \in Writers : Announce(w)
           \/ SetMode \/ SetAddress \/ Passes \/ Backlog \/ UNCHANGED vars
  BY <1>2 DEF Announce, SetMode, SetAddress, Passes, Backlog, vars
<1>3. CASE SendLoop \/ Due
  BY <1>3 DEF SendLoop, Wake, Clear, Take, Compare, Due
<1>4. CASE \E t \in Senders : Suppress(t) \/ Build(t) \/ GiveUp(t)
  BY <1>4 DEF Suppress, Build, GiveUp
<1>5. CASE \E t \in Senders : Answer(t) \/ AnswerLost(t)
  BY <1>5 DEF Answer, AnswerLost
<1>6. CASE \E t \in Senders : Note(t)
  BY <1>6 DEF Note
<1>. QED
  BY <1>1, <1>2, <1>3, <1>4, <1>5, <1>6 DEF Next, Informs

(* Once the instation knows the signals, and every inform on its way says  *)
(* the same, it goes on knowing them until one is written: no put-back, no *)
(* loss and no second sender undoes it.                                    *)
THEOREM KnowledgeLasts == Spec => KnownLasts
<1>1. TypeOK /\ [Next]_vars => [bus' = bus /\ Known => Known']_vars
  <2> SUFFICES ASSUME TypeOK, [Next]_vars, bus' = bus, Known
               PROVE  Known'
    OBVIOUS
  <2>1. Read' = Read
    BY DEF Read
  <2>2. told' = Read
    BY ToldMoves DEF Known
  <2>3. ASSUME NEW u \in Senders, At(u, "send")' PROVE thread'[u].inform = Read
    <3>1. thread'[u].at = "send"
      BY <2>3 DEF At
    <3>2. CASE thread'[u] = thread[u]
      BY <3>1, <3>2 DEF Known, At
    <3>. QED
      BY <3>1, <3>2, RoundMoves DEF Builds, Answered
  <2>. QED
    BY <2>1, <2>2, <2>3 DEF Known
<1>. QED
  BY RbeTypeCorrect, <1>1, PTL DEF Spec, KnownLasts

(* An inform says all signals, and whoever notes something has been told.  *)
Tells == /\ \A t \in Senders : At(t, "send") => thread[t].inform \in [Signals -> {0, 1}]
         /\ \A t \in Senders : At(t, "note") => told \in [Signals -> {0, 1}]
         /\ NotedIsTold

(* Nothing is noted as sent before the instation was told every signal.    *)
THEOREM NotedWasTold == Spec => []NotedIsTold
<1>1. Init => Tells
  BY DEF Init, Tells, NotedIsTold, At, Resting
<1>2. TypeOK /\ Tells /\ [Next]_vars => Tells'
  <2> SUFFICES ASSUME TypeOK, Tells, [Next]_vars
               PROVE  Tells'
    OBVIOUS
  <2> DEFINE Bits == [Signals -> {0, 1}]
  <2>1. Read \in Bits
    BY ReadType DEF TypeOK
  <2>2. told \in Bits => told' \in Bits
    BY ToldMoves DEF Tells
  <2>3. ASSUME NEW u \in Senders
        PROVE  /\ At(u, "send")' => thread'[u].inform \in Bits
               /\ At(u, "note")' => told' \in Bits
    BY <2>1, <2>2, RoundMoves DEF Tells, At, Builds, Answered
  <2>4. NotedIsTold'
    BY <2>2, ToldMoves DEF Tells, NotedIsTold, Nothing
  <2>. QED
    BY <2>3, <2>4 DEF Tells
<1>3. Tells => NotedIsTold
  BY DEF Tells
<1>. QED
  BY RbeTypeCorrect, <1>1, <1>2, <1>3, PTL DEF Spec

-----------------------------------------------------------------------------
(* Changes that do not overlap with rounds of the send loop.  What the     *)
(* instation reads of a signal that is v on the bus.                       *)
Shown(s, v) == IF s \in Inverted THEN 1 - v ELSE v

round == thread["changes"]

(* No keepalive is under way, and nothing was lost.                        *)
Alone == thread["keepalive"].at = "idle" /\ depth = 0

(* A round begins and ends with nothing to announce and, once its changes  *)
(* are taken, nothing new becomes pending.                                 *)
Paused == /\ round.at # "idle" => Silent
          /\ round.at \in {"idle", "clear", "take"} => round.noted = Nothing
          /\ round.at \notin {"idle", "take"} => pending = Nothing

(* Before the mode is set nothing is collected.                            *)
Standing == mode = 1 => /\ pending = Nothing /\ lastSent = Nothing
                        /\ round.at \in {"idle", "clear"}

(* The newest that is known of a signal is what it is: its announcement    *)
(* before what is pending, that before what the round has taken, and that  *)
(* before what is noted as sent.                                           *)
Newest(s) ==
  (\A w \in Writers : announce[w][s] = NoValue) =>
    IF pending[s] # NoValue THEN pending[s] = bus[s]
    ELSE IF round.noted[s] # NoValue THEN round.noted[s] = bus[s]
    ELSE lastSent[s] # NoValue => lastSent[s] = bus[s]

Chain == /\ \A w \in Writers, s \in Signals :
              announce[w][s] # NoValue => announce[w][s] = bus[s]
         /\ \A s \in Signals : Newest(s)

(* Between two rounds the instation knows what is noted; within one it is  *)
(* told, and then knows, what is on the bus.                               *)
Said == /\ round.at = "send" => round.inform = Read
        /\ IF round.at = "note"
             THEN told = Read
             ELSE \A s \in Signals :
                    lastSent[s] # NoValue => told[s] = Shown(s, lastSent[s])

ApartInv == TypeOK /\ addressed /\ Alone /\ Paused /\ Standing /\ Chain /\ Said

(* The configuration it is about: the mode stays set once it is, the       *)
(* instation has an address, there is no keepalive and nothing is lost, as *)
(* in the run that finds the change that is not reported.                  *)
Plain == Modes = {2} /\ Addresses = {TRUE} /\ ~KeepAlive /\ ~Lossy

LEMMA InitApart == Plain /\ Init => ApartInv
<1>1. Init => Alone /\ Paused /\ Standing
  BY DEF Init, Alone, Paused, Standing, Silent, round, Resting, Senders
<1>2. Init => Chain /\ Said
  BY DEF Init, Chain, Newest, Said, Nothing, round, Resting, Senders
<1>3. Plain /\ Init => addressed
  BY DEF Init, Plain
<1>. QED
  BY InitType, <1>1, <1>2, <1>3 DEF ApartInv

(* A signal is written when everything else is announced and no round is   *)
(* under way.                                                              *)
LEMMA WriteApart ==
  ASSUME ApartInv, NEW w \in Writers, NEW s \in Signals, Write(w, s), Apart
  PROVE  Alone' /\ Paused' /\ Standing' /\ Chain' /\ Said'
<1> USE DEF ApartInv
<1>1. announce' # announce
  <2>1. announce[w] \in Tellings /\ bus[s] \in {0, 1} /\ announce[w] = Nothing
    BY DEF TypeOK, Write
  <2>2. announce'[w][s] = 1 - bus[s] /\ announce[w][s] = NoValue
    BY <2>1 DEF Write, Nothing, TypeOK, Tellings
  <2>. QED
    BY <2>1, <2>2 DEF NoValue
<1>2. round.at = "idle" /\ round' = round
  BY <1>1 DEF Apart, At, round, Write
<1>3. Silent
  <2>1. bus[s] \in {0, 1} /\ bus'[s] = 1 - bus[s]
    BY DEF TypeOK, Write
  <2>2. bus' # bus
    BY <2>1
  <2>. QED
    BY <2>2 DEF Apart
<1>4. Alone' /\ Paused' /\ Standing'
  BY <1>2 DEF Alone, Paused, Standing, Write
<1>5. /\ \A r \in Signals : r # s => bus'[r] = bus[r]
      /\ bus'[s] = 1 - bus[s]
      /\ announce'[w][s] = 1 - bus[s] /\ 1 - bus[s] # NoValue
      /\ \A v \in Writers, r \in Signals : v # w \/ r # s => announce'[v][r] = NoValue
  <2>1. announce \in [Writers -> Tellings] /\ bus[s] \in {0, 1}
    BY DEF TypeOK
  <2>2. \A v \in Writers, r \in Signals : announce[v][r] = NoValue
    BY <1>3 DEF Silent, Nothing
  <2>. QED
    BY <2>1, <2>2 DEF Write, TypeOK, Tellings, NoValue
<1>6. Chain'
  <2>1. ASSUME NEW r \in Signals PROVE Newest(r)'
    <3>1. CASE r = s
      BY <1>5, <3>1 DEF Newest
    <3>2. CASE r # s
      <4>1. Newest(r) /\ \A v \in Writers : announce[v][r] = NoValue
        BY <1>3 DEF Chain, Silent, Nothing
      <4>. QED
        BY <1>2, <1>5, <3>2, <4>1 DEF Newest, Write
    <3>. QED
      BY <3>1, <3>2
  <2>. QED
    BY <1>5, <2>1 DEF Chain
<1>7. Said'
  BY <1>2 DEF Said, Write, Shown
<1>. QED
  BY <1>4, <1>6, <1>7

(* Announced, a change is pending with the value it has.                   *)
LEMMA AnnounceApart ==
  ASSUME ApartInv, NEW w \in Writers, Announce(w), Apart
  PROVE  Alone' /\ Paused' /\ Standing' /\ Chain' /\ Said'
<1> USE DEF ApartInv
<1>1. announce' # announce
  <2>1. announce[w] # Nothing /\ announce'[w] = Nothing
    BY DEF Announce, TypeOK
  <2>. QED
    BY <2>1
<1>2. round.at = "idle" /\ round' = round
  BY <1>1 DEF Apart, At, round, Announce
<1>3. Alone' /\ Paused' /\ Standing'
  BY <1>2 DEF Alone, Paused, Standing, Announce
<1>4. /\ \A v \in Writers, r \in Signals : v # w => announce'[v][r] = announce[v][r]
      /\ \A r \in Signals : announce'[w][r] = NoValue
  BY DEF Announce, TypeOK, Nothing
<1>5. Chain'
  <2>1. ASSUME NEW r \in Signals PROVE Newest(r)'
    <3>0. Newest(r) /\ (announce[w][r] # NoValue => announce[w][r] = bus[r])
      BY DEF Chain
    <3>1. CASE mode < 2
      <4>1. pending = Nothing /\ lastSent = Nothing /\ round.noted = Nothing
        BY <1>2, <3>1 DEF Standing, TypeOK, Paused
      <4>2. pending' = Nothing /\ lastSent' = Nothing /\ round'.noted = Nothing
        BY <1>2, <3>1, <4>1 DEF Announce
      <4>. QED
        BY <4>2 DEF Newest, Nothing
    <3>2. CASE ~(mode < 2)
      <4>1. pending'[r] = IF announce[w][r] = NoValue THEN pending[r] ELSE announce[w][r]
        BY <3>2 DEF Announce, Updated
      <4>2. bus' = bus /\ lastSent' = lastSent
        BY DEF Announce
      <4>3. CASE announce[w][r] = NoValue
        <5>1. pending'[r] = pending[r]
          BY <4>1, <4>3
        <5>. QED
          BY <1>2, <1>4, <3>0, <4>2, <4>3, <5>1 DEF Newest
      <4>4. CASE announce[w][r] # NoValue
        BY <3>0, <4>1, <4>2, <4>4 DEF Newest
      <4>. QED
        BY <4>3, <4>4
    <3>. QED
      BY <3>1, <3>2
  <2>2. ASSUME NEW v \in Writers, NEW r \in Signals, announce'[v][r] # NoValue
        PROVE  announce'[v][r] = bus'[r]
    BY <1>4, <2>2 DEF Chain, Announce
  <2>. QED
    BY <2>1, <2>2 DEF Chain
<1>6. Said'
  BY <1>2 DEF Said, Announce, Read, Shown
<1>. QED
  BY <1>3, <1>5, <1>6

(* The mode is set for good, and a backlog does not come up.               *)
LEMMA OutsideApart ==
  ASSUME ApartInv, Plain,
         SetMode \/ SetAddress \/ Passes \/ Backlog \/ UNCHANGED vars
  PROVE  Alone' /\ Paused' /\ Standing' /\ Chain' /\ Said'
<1>1. ~Backlog
  <2>1. Limit \in Nat
    BY RbeAssumption, Zenon
  <2>2. depth = 0
    BY DEF ApartInv, Alone
  <2>. QED
    BY <2>1, <2>2 DEF Backlog
<1>2. mode' = mode \/ mode' = 2
  BY <1>1 DEF Plain, SetMode, SetAddress, Passes, vars
<1>3. UNCHANGED <<bus, announce, pending, lastSent, thread, depth, told>>
  BY <1>1 DEF SetMode, SetAddress, Passes, vars
<1>4. Alone' /\ Paused' /\ Standing'
  BY <1>2, <1>3 DEF ApartInv, Alone, Paused, Standing, Silent, round
<1>5. Chain' /\ Said'
  BY <1>3 DEF ApartInv, Chain, Newest, Said, Read, Shown, round
<1>. QED
  BY <1>4, <1>5

(* A round begins, or ends at once.                                        *)
LEMMA WakeApart ==
  ASSUME ApartInv, Wake \/ Clear, Apart
  PROVE  Alone' /\ Paused' /\ Standing' /\ Chain' /\ Said'
<1> USE DEF ApartInv
<1>1. PICK place \in {"idle", "clear", "take"} :
        /\ Goes("changes", place) /\ round.at \in {"idle", "clear"} /\ place # round.at
        /\ mode = 1 => place # "take"
        /\ place = "clear" => mode = 1
        /\ round.at = "clear" => place = "idle"
  <2>1. CASE Wake /\ mode = 1
    <3>1. Goes("changes", "clear") /\ round.at = "idle"
      BY <2>1 DEF Wake, At, round
    <3>. QED
      BY <2>1, <3>1
  <2>2. CASE Wake /\ mode = 2
    <3>1. Goes("changes", "take") /\ round.at = "idle"
      BY <2>2 DEF Wake, At, round
    <3>. QED
      BY <2>2, <3>1
  <2>3. CASE Clear
    BY <2>3 DEF Clear, At, round
  <2>. QED
    BY <2>1, <2>2, <2>3 DEF TypeOK
<1>2. thread \in [Senders -> Rounds] /\ "changes" \in Senders /\ round \in Rounds
  BY DEF TypeOK, Senders, round
<1>3. /\ round'.at = place /\ round'.noted = round.noted /\ round'.inform = round.inform
      /\ thread'["keepalive"] = thread["keepalive"]
  BY <1>1, <1>2 DEF Goes, round, Rounds, Senders
<1>4. Silent /\ Silent'
  <2>1. thread' # thread
    BY <1>1, <1>3 DEF round
  <2>2. announce' = announce
    BY DEF Wake, Clear
  <2>. QED
    BY <2>1, <2>2 DEF Apart, Silent
<1>5. pending' = pending
  <2>1. CASE Clear
    BY <2>1 DEF Clear, At, Paused, round
  <2>. QED
    BY <2>1 DEF Wake
<1>6. place = "clear" => pending = Nothing
  BY <1>1 DEF Standing
<1>7. Alone' /\ Paused' /\ Standing'
  BY <1>1, <1>3, <1>4, <1>5, <1>6 DEF Alone, Paused, Standing, Wake, Clear
<1>8. UNCHANGED <<bus, announce, lastSent, told>>
  BY DEF Wake, Clear
<1>9. Chain'
  <2>1. ASSUME NEW s \in Signals PROVE Newest(s)'
    <3>1. Newest(s)
      BY DEF Chain
    <3>. QED
      BY <1>3, <1>5, <1>8, <3>1 DEF Newest
  <2>. QED
    BY <1>8, <2>1 DEF Chain
<1>10. Said'
  BY <1>1, <1>3, <1>8 DEF Said, Shown
<1>. QED
  BY <1>7, <1>9, <1>10

(* What is pending becomes the round's.                                    *)
LEMMA TakeApart ==
  ASSUME ApartInv, Take, Apart
  PROVE  Alone' /\ Paused' /\ Standing' /\ Chain' /\ Said'
<1> USE DEF ApartInv
<1>1. /\ round.at = "take" /\ Silent /\ round.noted = Nothing
      /\ mode # 1
  BY DEF Take, At, round, Paused, Standing
<1>2. /\ round' = [at |-> IF pending = Nothing THEN "idle" ELSE "compare",
                   noted |-> pending, inform |-> Nothing]
      /\ thread'["keepalive"] = thread["keepalive"]
  BY DEF Take, round, Resting, TypeOK, Senders
<1>3. /\ round'.at = (IF pending = Nothing THEN "idle" ELSE "compare")
      /\ round'.noted = pending
  BY <1>2
<1>4. /\ pending' = Nothing /\ Silent'
      /\ UNCHANGED <<bus, announce, lastSent, told, mode, depth>>
  BY <1>1 DEF Take, Silent
<1>5. Alone' /\ Paused' /\ Standing'
  BY <1>1, <1>2, <1>3, <1>4 DEF Alone, Paused, Standing
<1>6. Chain'
  <2>1. ASSUME NEW r \in Signals PROVE Newest(r)'
    <3>1. pending'[r] = NoValue /\ round.noted[r] = NoValue /\ round'.noted[r] = pending[r]
      BY <1>1, <1>3, <1>4 DEF Nothing
    <3>. QED
      BY <1>4, <3>1 DEF Chain, Newest
  <2>. QED
    BY <1>4, <2>1 DEF Chain
<1>7. Said'
  BY <1>1, <1>3, <1>4 DEF Said, Shown
<1>. QED
  BY <1>5, <1>6, <1>7

(* What was noted before is left out, and the rest is told or put back.    *)
LEMMA CompareApart ==
  ASSUME ApartInv, Compare, Apart
  PROVE  Alone' /\ Paused' /\ Standing' /\ Chain' /\ Said'
<1> USE DEF ApartInv
<1> DEFINE changed == [s \in Signals |->
                         IF round.noted[s] = lastSent[s] THEN NoValue ELSE round.noted[s]]
<1>1. round.at = "compare" /\ Silent /\ pending = Nothing /\ mode # 1
  BY DEF Compare, At, round, Paused, Standing
<1>2. UNCHANGED <<bus, announce, lastSent, told, mode, depth>> /\ Silent'
  BY <1>1 DEF Compare, Silent
<1>3. \/ /\ thread' = [thread EXCEPT !["changes"] = Resting]
         /\ pending' = Updated(pending, changed)
      \/ /\ thread' = [thread EXCEPT !["changes"] =
                           [Resting EXCEPT !.at = "build", !.noted = changed]]
         /\ pending' = pending
  BY DEF Compare, round
<1>4. \A s \in Signals : changed[s] = IF round.noted[s] = lastSent[s] THEN NoValue
                                                                  ELSE round.noted[s]
  OBVIOUS
<1> HIDE DEF changed
<1>5. thread'["keepalive"] = thread["keepalive"]
  BY <1>3 DEF TypeOK, Senders
<1>6. \/ round'.at = "idle" /\ round'.noted = Nothing /\ pending' = Updated(pending, changed)
      \/ round'.at = "build" /\ round'.noted = changed /\ pending' = Nothing
  <2>1. thread \in [Senders -> Rounds] /\ "changes" \in Senders
    BY DEF TypeOK, Senders
  <2>2. ASSUME thread' = [thread EXCEPT !["changes"] = Resting]
        PROVE  round'.at = "idle" /\ round'.noted = Nothing
    BY <2>1, <2>2 DEF round, Resting
  <2>3. ASSUME thread' = [thread EXCEPT !["changes"] =
                            [Resting EXCEPT !.at = "build", !.noted = changed]]
        PROVE  round'.at = "build" /\ round'.noted = changed
    <3>1. round' = [at |-> "build", noted |-> changed, inform |-> Nothing]
      BY <2>1, <2>3 DEF round, Resting
    <3>. QED
      BY <3>1
  <2>. QED
    BY <1>1, <1>3, <2>2, <2>3
<1>7. Alone' /\ Paused' /\ Standing'
  BY <1>1, <1>2, <1>5, <1>6 DEF Alone, Paused, Standing
<1>8. Chain'
  <2>1. ASSUME NEW r \in Signals PROVE Newest(r)'
    <3>1. /\ round.noted[r] # NoValue => round.noted[r] = bus[r]
          /\ round.noted[r] = NoValue /\ lastSent[r] # NoValue => lastSent[r] = bus[r]
      BY <1>1 DEF Chain, Newest, Silent, Nothing
    <3>2. /\ changed[r] # NoValue => changed[r] = bus[r]
          /\ changed[r] = NoValue /\ lastSent[r] # NoValue => lastSent[r] = bus[r]
      BY <1>4, <3>1
    <3>3. \/ pending'[r] = changed[r] /\ round'.noted[r] = NoValue
          \/ pending'[r] = NoValue /\ round'.noted[r] = changed[r]
      BY <1>1, <1>6 DEF Updated, Nothing
    <3>. QED
      BY <1>2, <3>2, <3>3 DEF Newest
  <2>. QED
    BY <1>2, <2>1 DEF Chain
<1>9. Said'
  BY <1>1, <1>2, <1>6 DEF Said, Shown
<1>. QED
  BY <1>7, <1>8, <1>9

(* An inform is built and answered while nothing changes.                  *)
LEMMA InformApart ==
  ASSUME ApartInv, NEW t \in Senders, Build(t) \/ Answer(t), Apart
  PROVE  Alone' /\ Paused' /\ Standing' /\ Chain' /\ Said'
<1> USE DEF ApartInv
<1>1. t = "changes" /\ "changes" \in Senders
  BY DEF Build, Answer, At, Alone, Senders
<1>2. /\ round.at \in {"build", "send"} /\ Silent /\ pending = Nothing /\ mode # 1
      /\ round \in Rounds
  BY <1>1 DEF Build, Answer, At, round, Paused, Standing, TypeOK
<1>3. UNCHANGED <<bus, announce, pending, lastSent, mode, depth>> /\ Silent' /\ Read' = Read
  BY <1>2 DEF Build, Answer, Silent, Read
<1>4. /\ thread'["keepalive"] = thread["keepalive"] /\ round'.noted = round.noted
      /\ \/ round'.at = "send" /\ round'.inform = Read /\ told' = told
         \/ round'.at = "note" /\ told' = round.inform /\ round.at = "send"
  <2>1. thread \in [Senders -> Rounds]
    BY DEF TypeOK
  <2>2. CASE Build(t)
    BY <1>1, <1>2, <2>1, <2>2 DEF Build, Senders, Rounds, round
  <2>3. CASE Answer(t)
    BY <1>1, <1>2, <2>1, <2>3 DEF Answer, At, Senders, Rounds, round
  <2>. QED
    BY <2>2, <2>3
<1>5. Alone' /\ Paused' /\ Standing'
  BY <1>2, <1>3, <1>4 DEF Alone, Paused, Standing
<1>6. Chain'
  BY <1>3, <1>4 DEF Chain, Newest
<1>7. Said'
  BY <1>2, <1>3, <1>4 DEF Said, Shown
<1>. QED
  BY <1>5, <1>6, <1>7

(* What is noted is what the instation was told of it.                     *)
LEMMA NoteApart ==
  ASSUME ApartInv, NEW t \in Senders, Note(t), Apart
  PROVE  Alone' /\ Paused' /\ Standing' /\ Chain' /\ Said'
<1> USE DEF ApartInv
<1>1. t = "changes" /\ "changes" \in Senders
  BY DEF Note, At, Alone, Senders
<1>2. round.at = "note" /\ Silent /\ pending = Nothing /\ mode # 1 /\ told = Read
  BY <1>1 DEF Note, At, round, Paused, Standing, Said
<1>3. UNCHANGED <<bus, announce, pending, told, mode>> /\ depth' = 0 /\ Silent' /\ Read' = Read
  BY <1>2 DEF Note, Alone, Silent, Read
<1>4. /\ thread'["keepalive"] = thread["keepalive"]
      /\ round'.at = "idle" /\ round'.noted = Nothing
  BY <1>1 DEF Note, TypeOK, Senders, Resting, round
<1>5. Alone' /\ Paused' /\ Standing'
  BY <1>2, <1>3, <1>4 DEF Alone, Paused, Standing
<1>6. ASSUME NEW r \in Signals
      PROVE  lastSent'[r] # NoValue => lastSent'[r] = bus[r]
  <2>1. /\ round.noted[r] # NoValue => round.noted[r] = bus[r]
        /\ round.noted[r] = NoValue /\ lastSent[r] # NoValue => lastSent[r] = bus[r]
    BY <1>2 DEF Chain, Newest, Silent, Nothing
  <2>2. lastSent'[r] = IF round.noted[r] = NoValue THEN lastSent[r] ELSE round.noted[r]
    BY <1>1 DEF Note, Updated, round
  <2>. QED
    BY <2>1, <2>2
<1>7. Chain'
  <2>1. ASSUME NEW r \in Signals PROVE Newest(r)'
    <3>1. pending'[r] = NoValue /\ round'.noted[r] = NoValue
      BY <1>2, <1>3, <1>4 DEF Nothing
    <3>. QED
      BY <1>3, <1>6, <3>1 DEF Newest
  <2>. QED
    BY <1>3, <2>1 DEF Chain
<1>8. Said'
  <2>1. \A r \in Signals : told'[r] = Shown(r, bus[r])
    BY <1>2, <1>3 DEF Read, Shown
  <2>2. \A r \in Signals : lastSent'[r] # NoValue => told'[r] = Shown(r, lastSent'[r])
    BY <1>6, <2>1 DEF Shown
  <2>. QED
    BY <1>4, <2>2 DEF Said, Shown
<1>. QED
  BY <1>5, <1>7, <1>8

LEMMA NextApart ==
  ASSUME ApartInv, Plain, [Next /\ Apart]_vars
  PROVE  ApartInv'
<1>1. TypeOK'
  BY NextType DEF ApartInv
<1>2. ~Due /\ ~\E t \in Senders : Suppress(t) \/ GiveUp(t) \/ AnswerLost(t)
  BY DEF ApartInv, Plain, Due, Suppress, GiveUp, AnswerLost
<1>3. Alone' /\ Paused' /\ Standing' /\ Chain' /\ Said'
  <2>1. CASE UNCHANGED vars
    BY <2>1, OutsideApart
  <2>2. CASE Next /\ Apart
    BY <1>2, <2>2, WriteApart, AnnounceApart, OutsideApart, WakeApart, TakeApart,
       CompareApart, InformApart, NoteApart DEF Next, SendLoop, Informs
  <2>. QED
    BY <2>1, <2>2
<1>4. addressed'
  BY DEF ApartInv, Plain, Next, Write, Announce, SetMode, SetAddress, Passes, Backlog, SendLoop,
         Wake, Clear, Take, Compare, Due, Informs, Suppress, Build, Answer, AnswerLost, GiveUp,
         Note, vars
<1>. QED
  BY <1>1, <1>3, <1>4 DEF ApartInv

(* No change is lost when changes and rounds of the send loop do not       *)
(* overlap, inverted signals and the hold-off included: that a signal may  *)
(* change while an inform of it is under way is all there is to the change *)
(* that ChangesReported misses.                                            *)
THEOREM ApartChangesReported == Plain /\ ApartSpec => []ChangesReported
<1>1. ApartInv => ChangesReported
  <2> SUFFICES ASSUME ApartInv, Silent, pending = Nothing, round = Resting,
                      NEW s \in Signals, lastSent[s] # NoValue
               PROVE  told[s] = Read[s]
    BY DEF ChangesReported, Silent, round, Senders
  <2>1. lastSent[s] = bus[s]
    BY DEF ApartInv, Chain, Newest, Silent, Nothing, Resting
  <2>2. told[s] = Shown(s, lastSent[s])
    BY DEF ApartInv, Said, Resting
  <2>. QED
    BY <2>1, <2>2 DEF Shown, Read
<1>2. ApartInv /\ Plain /\ [Next /\ Apart]_vars => ApartInv'
  BY NextApart
<1>3. Plain => Plain'
  BY DEF Plain
<1>. QED
  BY InitApart, <1>1, <1>2, <1>3, PTL DEF ApartSpec
=============================================================================
