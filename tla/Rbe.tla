--------------------------------- MODULE Rbe ---------------------------------
(***************************************************************************)
(* Reply by exception (cm5/ug405/svc_ug405_rbe.py): the changes of the     *)
(* reply signals on the bus are reported to the instation with SNMP        *)
(* informs.  A writer of the bus writes a signal under the bus's lock and  *)
(* announces it afterwards (io_bus.py); the announcement makes a pending   *)
(* change.  Two threads send, without a lock between them: the send loop   *)
(* takes the pending changes, and the keepalive loop tells everything      *)
(* after a silence.  Both read the bus again when they build an inform.    *)
(* The watchdog of the UTC service drops the mode on a backlog of informs  *)
(* that were not answered.                                                 *)
(*                                                                         *)
(* The signals are bits of one field of one junction, so that each inform  *)
(* carries them all.  A datagram arrives within its attempt or is lost.    *)
(***************************************************************************)
EXTENDS Integers

CONSTANTS
  Signals, Inverted,  \* the reply signals, those configured with "!="
  Writers,            \* the threads that write them
  KeepAlive,          \* ReplyByExceptionKeepAlive is set
  Lossy,              \* datagrams and answers may be lost
  Modes,              \* the modes the instation sets: 1, or 2 for 2 and 3
  Addresses,          \* whether InstationAddress is an address, or may be
  Limit               \* NOTIFY_QUEUE_LIMIT

ASSUME RbeAssumption ==
  /\ Inverted \subseteq Signals /\ Modes \subseteq 1..2 /\ Limit \in Nat
  /\ Addresses \subseteq BOOLEAN
  /\ KeepAlive \in BOOLEAN /\ Lossy \in BOOLEAN

VARIABLES
  bus,       \* the signals on the bus
  announce,  \* what each writer still has to announce
  mode,      \* op_mode['value']
  addressed, \* whether InstationAddress is one
  pending,   \* _pending
  lastSent,  \* _last_sent
  thread,    \* the two senders: where they are, what they will note as
             \* sent, and the inform they have built
  since,     \* since the last answer: 0 within the hold-off, 2 keepalive due
  depth,     \* notify_depth_ref
  told       \* what the instation was told last

vars == <<bus, announce, mode, addressed, pending, lastSent, thread, since, depth, told>>

(* A bound of the model: the count of failed informs is not followed above *)
(* it.  The watchdog only looks whether it is above Limit.                 *)
Deepest == Limit + 2

Senders == {"changes", "keepalive"}
NoValue == -1
Nothing == [s \in Signals |-> NoValue]
Resting == [at |-> "idle", noted |-> Nothing, inform |-> Nothing]

(* sig_read() *)
Read == [s \in Signals |-> IF s \in Inverted THEN 1 - bus[s] ELSE bus[s]]

(* dict.update() *)
Updated(old, new) == [s \in Signals |-> IF new[s] = NoValue THEN old[s] ELSE new[s]]

Init ==
  /\ bus = [s \in Signals |-> 0]
  /\ announce = [w \in Writers |-> Nothing]
  /\ mode = 1 /\ addressed \in Addresses
  /\ pending = Nothing /\ lastSent = Nothing
  /\ thread = [t \in Senders |-> Resting]
  /\ since = 2 /\ depth = 0 /\ told = Nothing

-----------------------------------------------------------------------------
(* The bus and its announcements                                           *)

Write(w, s) ==
  /\ announce[w] = Nothing
  /\ bus' = [bus EXCEPT ![s] = 1 - @]
  /\ announce' = [announce EXCEPT ![w][s] = 1 - bus[s]]
  /\ UNCHANGED <<mode, addressed, pending, lastSent, thread, since, depth, told>>

(* _on_bus_change() *)
Announce(w) ==
  /\ announce[w] # Nothing
  /\ announce' = [announce EXCEPT ![w] = Nothing]
  /\ pending' = IF mode < 2 THEN pending ELSE Updated(pending, announce[w])
  /\ UNCHANGED <<bus, mode, addressed, lastSent, thread, since, depth, told>>

(* The instation sets the operating mode. *)
SetMode ==
  /\ mode' \in Modes
  /\ UNCHANGED <<bus, announce, addressed, pending, lastSent, thread, since, depth, told>>

(* InstationAddress is set, by the instation or a web page. *)
SetAddress ==
  /\ addressed' \in Addresses
  /\ UNCHANGED <<bus, announce, mode, pending, lastSent, thread, since, depth, told>>

(* Time goes on after an answer. *)
Passes ==
  /\ since < 2 /\ since' = since + 1
  /\ UNCHANGED <<bus, announce, mode, addressed, pending, lastSent, thread, depth, told>>

-----------------------------------------------------------------------------
(* _send_loop()                                                            *)

At(t, place) == thread[t].at = place
Goes(t, place) == thread' = [thread EXCEPT ![t].at = place]

(* The loop wakes at each event and each second, and looks at the mode.    *)
Wake ==
  /\ At("changes", "idle")
  /\ Goes("changes", IF mode < 2 THEN "clear" ELSE "take")
  /\ UNCHANGED <<bus, announce, mode, addressed, pending, lastSent, since, depth, told>>

Clear ==
  /\ At("changes", "clear") /\ Goes("changes", "idle")
  /\ pending' = Nothing
  /\ UNCHANGED <<bus, announce, mode, addressed, lastSent, since, depth, told>>

Take ==
  /\ At("changes", "take")
  /\ thread' = [thread EXCEPT !["changes"] =
                  [Resting EXCEPT !.at = IF pending = Nothing THEN "idle" ELSE "compare",
                                  !.noted = pending]]
  /\ pending' = Nothing
  /\ UNCHANGED <<bus, announce, mode, addressed, lastSent, since, depth, told>>

(* What was not sent already; within the hold-off it is put back, over     *)
(* what has become pending meanwhile.                                      *)
Compare ==
  /\ At("changes", "compare")
  /\ LET batch == thread["changes"].noted
         changed == [s \in Signals |->
                       IF batch[s] = lastSent[s] THEN NoValue ELSE batch[s]]
     IN IF changed = Nothing \/ since = 0
          THEN /\ thread' = [thread EXCEPT !["changes"] = Resting]
               /\ pending' = Updated(pending, changed)
          ELSE /\ thread' = [thread EXCEPT !["changes"] =
                               [Resting EXCEPT !.at = "build", !.noted = changed]]
               /\ UNCHANGED pending
  /\ UNCHANGED <<bus, announce, mode, addressed, lastSent, since, depth, told>>

-----------------------------------------------------------------------------
(* _keepalive_loop()                                                       *)

(* Mutant of Due: only what has changed since it was sent is told again.   *)
DueChanged ==
  /\ KeepAlive /\ mode >= 2 /\ since = 2 /\ At("keepalive", "idle")
  /\ lastSent # Read
  /\ thread' = [thread EXCEPT !["keepalive"] =
                  [Resting EXCEPT !.at = "build", !.noted = Read]]
  /\ UNCHANGED <<bus, announce, mode, addressed, pending, lastSent, since, depth, told>>

(* Everything, as it is read, is to be told. *)
Due ==
  /\ KeepAlive /\ mode >= 2 /\ since = 2 /\ At("keepalive", "idle")
  /\ thread' = [thread EXCEPT !["keepalive"] =
                  [Resting EXCEPT !.at = "build", !.noted = Read]]
  /\ UNCHANGED <<bus, announce, mode, addressed, pending, lastSent, since, depth, told>>

-----------------------------------------------------------------------------
(* _send_inform(), by either thread                                        *)

(* No instation: what was to be told is forgotten, and no failure counted. *)
Suppress(t) ==
  /\ At(t, "build") /\ ~addressed
  /\ thread' = [thread EXCEPT ![t] = Resting]
  /\ UNCHANGED <<bus, announce, mode, addressed, pending, lastSent, since, depth, told>>

(* _build_varbinds() reads the bus again. *)
Build(t) ==
  /\ At(t, "build") /\ addressed
  /\ thread' = [thread EXCEPT ![t].at = "send", ![t].inform = Read]
  /\ UNCHANGED <<bus, announce, mode, addressed, pending, lastSent, since, depth, told>>

Answer(t) ==
  /\ At(t, "send")
  /\ thread' = [thread EXCEPT ![t].at = "note", ![t].inform = Nothing]
  /\ told' = thread[t].inform
  /\ UNCHANGED <<bus, announce, mode, addressed, pending, lastSent, since, depth>>

(* The inform arrives, its answer does not, and it is sent again.          *)
AnswerLost(t) ==
  /\ Lossy /\ At(t, "send")
  /\ told' = thread[t].inform
  /\ UNCHANGED <<bus, announce, mode, addressed, pending, lastSent, thread, since, depth>>

(* Mutant of GiveUp: only the informs of changes are counted.              *)
GiveUpUncounted(t) ==
  /\ Lossy /\ At(t, "send")
  /\ thread' = [thread EXCEPT ![t] = Resting]
  /\ depth' = IF depth = Deepest \/ t = "keepalive" THEN depth ELSE depth + 1
  /\ UNCHANGED <<bus, announce, mode, addressed, pending, lastSent, since, told>>

(* The last attempt fails: what was to be told is forgotten.               *)
GiveUp(t) ==
  /\ Lossy /\ At(t, "send")
  /\ thread' = [thread EXCEPT ![t] = Resting]
  /\ depth' = IF depth = Deepest THEN depth ELSE depth + 1
  /\ UNCHANGED <<bus, announce, mode, addressed, pending, lastSent, since, told>>

Note(t) ==
  /\ At(t, "note")
  /\ lastSent' = Updated(lastSent, thread[t].noted)
  /\ since' = 0
  /\ depth' = IF depth > 0 THEN depth - 1 ELSE 0
  /\ thread' = [thread EXCEPT ![t] = Resting]
  /\ UNCHANGED <<bus, announce, mode, addressed, pending, told>>

(* _watchdog() of the UTC service: standalone on a backlog. *)
Backlog ==
  /\ mode >= 2 /\ depth > Limit
  /\ mode' = 1 /\ depth' = 0
  /\ UNCHANGED <<bus, announce, addressed, pending, lastSent, thread, since, told>>

-----------------------------------------------------------------------------
SendLoop == Wake \/ Clear \/ Take \/ Compare
Informs(t) == Suppress(t) \/ Build(t) \/ Note(t) \/ Answer(t) \/ GiveUp(t)

Next ==
  \/ \E w \in Writers, s \in Signals : Write(w, s)
  \/ \E w \in Writers : Announce(w)
  \/ SetMode \/ SetAddress \/ Passes \/ Backlog
  \/ SendLoop \/ Due
  \/ \E t \in Senders : Informs(t) \/ AnswerLost(t)

Spec == Init /\ [][Next]_vars

(* No thread waits for another, and an attempt ends.                       *)
FairSpec ==
  /\ Spec
  /\ WF_vars(\E w \in Writers : Announce(w))
  /\ WF_vars(Passes) /\ WF_vars(Backlog)
  /\ WF_vars(SendLoop) /\ WF_vars(Due)
  /\ \A t \in Senders : WF_vars(Informs(t))

-----------------------------------------------------------------------------
Values == {NoValue, 0, 1}
Tellings == [Signals -> Values]
Places == {"idle", "clear", "take", "compare", "build", "send", "note"}
Rounds == [at : Places, noted : Tellings, inform : Tellings]

TypeOK ==
  /\ bus \in [Signals -> {0, 1}]
  /\ announce \in [Writers -> Tellings]
  /\ mode \in 1..2 /\ addressed \in BOOLEAN
  /\ pending \in Tellings /\ lastSent \in Tellings /\ told \in Tellings
  /\ thread \in [Senders -> Rounds]
  /\ since \in 0..2 /\ depth \in 0..Deepest

(* Whatever was lost, overtaken or suppressed before: once the signals     *)
(* rest, an instation that the keepalive reaches again and again knows     *)
(* them and goes on knowing them.                                          *)
Reached == <>[]addressed /\ SF_vars(Answer("keepalive"))

Reported ==
  Reached /\ <>[](mode = 2) /\ <>[][bus' = bus]_vars => <>[](told = Read)

(* What makes it last: when the instation knows the signals and no inform  *)
(* on its way says otherwise, no step unlearns them before they change.    *)
Known == /\ told = Read
         /\ \A t \in Senders : At(t, "send") => thread[t].inform = Read

KnownLasts == [][bus' = bus /\ Known => Known']_vars

(* What is noted as sent has made the instation know every signal of the   *)
(* field, if not as it is now.                                             *)
NotedIsTold == lastSent # Nothing => told \in [Signals -> {0, 1}]

(* An instation that has an address and has gone silent ends in            *)
(* standalone, even if nothing changes that would have to be reported.     *)
SilenceDrops ==
  <>[](addressed /\ \A t \in Senders : ~At(t, "note")) => []<>(mode = 1)

(* svc_ug405_rbe.py:4-5, "Monitors IOBus for changes to reply signals" and *)
(* "batches all changes": with the senders and writers at rest, a signal   *)
(* that was ever reported is known as it is.                               *)
ChangesReported ==
  (/\ announce = [w \in Writers |-> Nothing] /\ pending = Nothing
   /\ thread = [t \in Senders |-> Resting])
    => \A s \in Signals : lastSent[s] # NoValue => told[s] = Read[s]

(* It does hold as long as changes and rounds of the send loop do not      *)
(* overlap: a signal is written when no other change is still to be        *)
(* announced, and the send loop takes no step between the two.             *)
Silent == announce = [w \in Writers |-> Nothing]

Apart == /\ bus' # bus => Silent
         /\ announce' # announce => At("changes", "idle")
         /\ thread' # thread => Silent

ApartSpec == Init /\ [][Next /\ Apart]_vars
=============================================================================
