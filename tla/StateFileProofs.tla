-------------------------- MODULE StateFileProofs --------------------------
(***************************************************************************)
(* What a restart resumes, for any number of threads that run commands and *)
(* any datasets.  As long as nothing is unsaved there is one thread at     *)
(* most in the middle of a job, and it has either its save before it or in *)
(* hand what the stream is now.                                            *)
(***************************************************************************)
EXTENDS StateFile, TLAPS

(* Who does which steps, of which job and when.                            *)
HandlerFits(h) ==
  /\ step[h] \in {"idle", "look", "truncate", "write", "clear", "join", "start",
                  "load", "swap", "drop", "again", "on", "off"}
  /\ step[h] # "idle" => job[h] \in Commands
  /\ step[h] \in {"clear", "join"} => job[h] \in {"LOAD", "UNLOAD", "STOP", "RESET"}

ToolsFit ==
  /\ step[Tools] \in {"idle", "clear", "join", "zero", "start", "on", "off"}
  /\ step[Tools] # "idle" => job[Tools] \in {"enable", "disable", "recover", "halt"}
  /\ step[Tools] \in {"clear", "join"} => job[Tools] \in {"recover", "halt"}

MainFits ==
  /\ phase \in {"down", "up"} => step[Main] = "idle"
  /\ phase = "restoring" => step[Main] \in {"open", "restore", "movaon", "ready"}
  /\ phase = "ending" => /\ step[Main] \in {"look", "truncate", "write", "clear", "join", "exit"}
                         /\ job[Main] = "shutdown"

Fits ==
  /\ \A h \in Handlers : HandlerFits(h)
  /\ ToolsFit /\ MainFits
  /\ phase = "down" => Blank /\ ~unsaved

(* Nothing is unsaved.                                                     *)
Sync ==
  ~unsaved =>
    /\ \A t, u \in Threads : step[t] # "idle" /\ step[u] # "idle" => t = u
    /\ step[Tools] = "idle"
    /\ Idle /\ dataset # None => file = Stream
    /\ \A t \in Threads :
         /\ step[t] \in {"truncate", "write"} => dataset # None /\ seen[t] = Stream
         /\ step[t] = "load" /\ dataset # None => file = Stream

(* A restore that no command has interfered with.                          *)
Restoring ==
  phase = "restoring" /\ ~unsaved =>
    /\ step[Main] \in {"open", "restore"} =>
         dataset = None /\ running = FALSE /\ alive = FALSE /\ movaOn = 0
    /\ step[Main] \in {"restore", "movaon"} =>
         file # None /\ file.dataset \in Kept /\ seen[Main] = file
    /\ step[Main] = "movaon" =>
         dataset = file.dataset /\ running = file.running /\ movaOn = 0
    /\ step[Main] = "ready" => /\ dataset # None => file = Stream
                               /\ wanted # None => dataset # None

(* What is wanted is in the file, and nobody is about to write another.    *)
Wants ==
  wanted # None =>
    /\ wanted.dataset \in Kept /\ file = wanted
    /\ \A t \in Threads \ {Main} : step[t] = "idle"
    /\ phase \in {"up", "restoring"} => ~unsaved
    /\ phase = "up" => Stream = wanted
    /\ phase = "ending" => step[Main] \in {"clear", "join", "exit"}

(* A restore has what it read of the file.                                 *)
Held ==
  phase = "restoring" /\ step[Main] \in {"restore", "movaon"} => seen[Main] # None

FileInv == TypeOK /\ Fits /\ Sync /\ Restoring /\ Wants

-----------------------------------------------------------------------------
(* The main thread, the MOVA Tools and the handlers are different threads. *)
LEMMA Different ==
  /\ Main \in Threads /\ Tools \in Threads /\ Main # Tools
  /\ \A h \in Handlers : h \in Threads /\ h # Main /\ h # Tools
  /\ \A t \in Threads : t = Main \/ t = Tools \/ t \in Handlers
BY StateFileAssumption DEF Threads

(* What a thread that begins a job or goes on does not change.             *)
LEMMA Others ==
  ASSUME TypeOK, NEW t \in Threads, NEW j \in Jobs, NEW s \in Steps, Begins(t, j, s)
  PROVE  /\ step'[t] = s /\ job'[t] = j
         /\ \A u \in Threads \ {t} : step'[u] = step[u] /\ job'[u] = job[u]
         /\ step' \in [Threads -> Steps] /\ job' \in [Threads -> Jobs]
BY DEF TypeOK, Begins

(* The same of a step within a job.                                        *)
LEMMA OthersGo ==
  ASSUME TypeOK, NEW t \in Threads, NEW from, NEW to \in Steps, Goes(t, from, to)
  PROVE  /\ step[t] = from /\ step'[t] = to
         /\ job'[t] = (IF to = "idle" THEN "none" ELSE job[t])
         /\ \A u \in Threads \ {t} : step'[u] = step[u] /\ job'[u] = job[u]
         /\ step' \in [Threads -> Steps] /\ job' \in [Threads -> Jobs]
BY Others DEF Goes, Jobs, TypeOK

(* The first state.                                                        *)
LEMMA InitInv == Init => FileInv
<1> SUFFICES ASSUME Init PROVE FileInv
  OBVIOUS
<1>1. TypeOK
  BY DEF Init, Blank, TypeOK, Jobs, Steps
<1>2. \A t \in Threads : step[t] = "idle"
  BY DEF Init, Blank
<1>3. Fits
  BY <1>2, Different DEF Init, Fits, HandlerFits, ToolsFit, MainFits
<1>4. Sync /\ Restoring /\ Wants
  BY <1>2, Different DEF Init, Blank, Sync, Restoring, Wants
<1> QED BY <1>1, <1>3, <1>4 DEF FileInv

(* What remains true of who does what when one thread goes on.             *)
LEMMA FitsGo ==
  ASSUME FileInv, NEW t \in Threads, phase' = phase, phase # "down",
         \A u \in Threads \ {t} : step'[u] = step[u] /\ job'[u] = job[u],
         t \in Handlers => HandlerFits(t)', t = Tools => ToolsFit', t = Main => MainFits'
  PROVE  Fits'
<1>1. \A h \in Handlers : HandlerFits(h)'
  <2>1. ASSUME NEW h \in Handlers, h # t PROVE HandlerFits(h)'
    <3>1. HandlerFits(h) /\ step'[h] = step[h] /\ job'[h] = job[h]
      BY <2>1, Different DEF FileInv, Fits
    <3> QED BY <3>1 DEF HandlerFits
  <2> QED BY <2>1
<1>2. ToolsFit'
  <2>1. CASE t # Tools
    <3>1. ToolsFit /\ step'[Tools] = step[Tools] /\ job'[Tools] = job[Tools]
      BY <2>1, Different DEF FileInv, Fits
    <3> QED BY <3>1 DEF ToolsFit
  <2> QED BY <2>1
<1>3. MainFits'
  <2>1. CASE t # Main
    <3>1. MainFits /\ step'[Main] = step[Main] /\ job'[Main] = job[Main]
      BY <2>1, Different DEF FileInv, Fits
    <3> QED BY <3>1 DEF MainFits
  <2> QED BY <2>1
<1> QED BY <1>1, <1>2, <1>3 DEF Fits

(* A thread that is in the middle of something runs in a process.          *)
LEMMA Awake ==
  ASSUME FileInv, NEW t \in Threads, step[t] # "idle" PROVE phase # "down"
BY DEF FileInv, Fits, Blank

(* Of the steps of a thread: whose they are.                               *)
LEMMA Whose ==
  ASSUME FileInv, NEW t \in Threads
  PROVE  /\ t \in Handlers => HandlerFits(t)
         /\ t = Tools => ToolsFit
         /\ t = Main => MainFits
         /\ phase \in {"down", "restoring", "up", "ending"}
BY DEF FileInv, Fits, TypeOK

(* A command arrives.                                                      *)
LEMMA CommandInv ==
  ASSUME FileInv, NEW h \in Handlers, Command(h) PROVE FileInv'
<1>1. PICK c \in Commands : Begins(h, c, FirstStep(c))
  BY DEF Command
<1>2. /\ FirstStep(c) \in {"clear", "load", "start", "look", "on", "off"}
      /\ FirstStep(c) = "clear" => c \in {"LOAD", "UNLOAD", "STOP", "RESET"}
  BY DEF FirstStep, Commands
<1>3. /\ step'[h] = FirstStep(c) /\ job'[h] = c
      /\ \A u \in Threads \ {h} : step'[u] = step[u] /\ job'[u] = job[u]
      /\ step' \in [Threads -> Steps] /\ job' \in [Threads -> Jobs]
  BY <1>1, <1>2, Others, Different DEF FileInv, Jobs, Steps
<1>4. TypeOK'
  BY <1>3 DEF Command, FileInv, TypeOK, streamVars
<1>5. Fits'
  <2>1. HandlerFits(h)'
    BY <1>2, <1>3 DEF HandlerFits
  <2> QED BY <1>3, <2>1, FitsGo, Different DEF Command
<1>6. Sync'
  BY <1>2, <1>3, Different DEF Command, FileInv, Sync, Idle, Stream, streamVars
<1>7. Restoring'
  BY Different DEF Command, FileInv, Fits, MainFits, Restoring, Idle
<1>8. Wants'
  BY DEF Command, Wants
<1> QED BY <1>4, <1>5, <1>6, <1>7, <1>8 DEF FileInv

(* A request of the MOVA Tools arrives.                                    *)
LEMMA ToolsInv == ASSUME FileInv, ToolsCommand PROVE FileInv'
<1>1. PICK j \in {"enable", "disable", "recover", "halt"}, s \in {"on", "off", "clear"} :
        Begins(Tools, j, s) /\ (s = "clear" => j \in {"recover", "halt"})
  BY DEF ToolsCommand
<1>2. /\ step'[Tools] = s /\ job'[Tools] = j
      /\ \A u \in Threads \ {Tools} : step'[u] = step[u] /\ job'[u] = job[u]
      /\ step' \in [Threads -> Steps] /\ job' \in [Threads -> Jobs]
  BY <1>1, Others, Different DEF FileInv, Jobs, Steps
<1>3. TypeOK'
  BY <1>2 DEF ToolsCommand, FileInv, TypeOK, streamVars
<1>4. Fits'
  <2>1. ToolsFit'
    BY <1>1, <1>2 DEF ToolsFit
  <2> QED BY <1>2, <2>1, FitsGo, Different DEF ToolsCommand
<1>5. Sync' /\ Restoring' /\ Wants'
  BY DEF ToolsCommand, Sync, Restoring, Wants
<1> QED BY <1>3, <1>4, <1>5 DEF FileInv

-----------------------------------------------------------------------------
(* What the save of a thread leads to.                                     *)
LEMMA SaveEnds ==
  ASSUME FileInv, NEW t \in Threads, step[t] \in {"look", "truncate", "write"}
  PROVE  /\ AfterSave(t) \in {"clear", "idle"} /\ AfterSave(t) \in Steps
         /\ t # Tools
         /\ t = Main => AfterSave(t) = "clear" /\ phase = "ending" /\ job[t] = "shutdown"
         /\ t # Main => AfterSave(t) = "idle" /\ job[t] \in Commands /\ t \in Handlers
<1>1. CASE t = Main
  BY <1>1, Whose, Different DEF AfterSave, MainFits, Steps
<1>2. CASE t \in Handlers
  BY <1>2, Whose, Different DEF AfterSave, HandlerFits, Steps, Commands
<1>3. t # Tools
  BY Whose DEF ToolsFit
<1> QED BY <1>1, <1>2, <1>3, Different

(* _save_state() reads the stream: what it has in hand is the stream.      *)
LEMMA LookInv ==
  ASSUME FileInv, NEW t \in Threads, Look(t) PROVE FileInv'
<1>0. step[t] = "look" /\ phase' = phase /\ phase # "down"
  BY Awake DEF Look, Goes
<1>a. /\ AfterSave(t) \in {"clear", "idle"} /\ AfterSave(t) \in Steps /\ t # Tools
      /\ t = Main => AfterSave(t) = "clear" /\ phase = "ending" /\ job[t] = "shutdown"
      /\ t # Main => AfterSave(t) = "idle" /\ job[t] \in Commands /\ t \in Handlers
  BY <1>0, SaveEnds
<1>1. CASE dataset = None /\ Goes(t, "look", AfterSave(t)) /\ UNCHANGED <<seen, unsaved>>
  <2>2. /\ step'[t] = AfterSave(t)
        /\ job'[t] = (IF AfterSave(t) = "idle" THEN "none" ELSE job[t])
        /\ \A u \in Threads \ {t} : step'[u] = step[u] /\ job'[u] = job[u]
        /\ step' \in [Threads -> Steps] /\ job' \in [Threads -> Jobs]
    BY <1>1, <1>a, OthersGo DEF FileInv
  <2>3. UNCHANGED <<dataset, running, alive, movaOn, file, phase, wanted, seen, unsaved>>
    BY <1>1 DEF Look, streamVars
  <2>4. TypeOK'
    BY <2>2, <2>3 DEF FileInv, TypeOK
  <2>5. Fits'
    <3>1. t \in Handlers => HandlerFits(t)'
      BY <1>a, <2>2, Different DEF HandlerFits
    <3>2. t = Main => MainFits'
      BY <1>a, <2>2, <2>3, Different DEF MainFits
    <3> QED BY <1>0, <1>a, <2>2, <3>1, <3>2, FitsGo
  <2>6. Sync'
    <3>1. Stream' = Stream
      BY <2>3 DEF Stream
    <3> QED BY <1>1, <1>0, <1>a, <2>2, <2>3, <3>1, Different DEF FileInv, Sync, Idle
  <2>7. Restoring' /\ Wants'
    BY <1>0, <1>a, <2>2, <2>3, Different DEF FileInv, Restoring, Wants, Stream
  <2> QED BY <2>4, <2>5, <2>6, <2>7 DEF FileInv
<1>2. CASE /\ dataset # None /\ Goes(t, "look", "truncate")
           /\ seen' = [seen EXCEPT ![t] = Stream] /\ unsaved' = (unsaved /\ ~Alone(t))
  <2>1. /\ step[t] = "look" /\ step'[t] = "truncate" /\ job'[t] = job[t]
        /\ \A u \in Threads \ {t} : step'[u] = step[u] /\ job'[u] = job[u]
        /\ step' \in [Threads -> Steps] /\ job' \in [Threads -> Jobs]
    <3>1. "truncate" \in Steps
      BY DEF Steps
    <3> QED BY <1>2, <3>1, OthersGo DEF FileInv
  <2>2. UNCHANGED <<dataset, running, alive, movaOn, file, phase, wanted>>
    BY DEF Look, streamVars
  <2>3. Stream \in Streams
    BY <1>2 DEF FileInv, TypeOK, Stream, Streams
  <2>4. /\ seen' \in [Threads -> Streams \union {None}] /\ seen'[t] = Stream
        /\ \A u \in Threads \ {t} : seen'[u] = seen[u]
    BY <1>2, <2>3 DEF FileInv, TypeOK
  <2>5. TypeOK'
    BY <1>2, <2>1, <2>2, <2>4 DEF FileInv, TypeOK
  <2>6. Fits'
    <3>1. t \in Handlers => HandlerFits(t)'
      BY <1>a, <2>1, Different DEF HandlerFits
    <3>2. t = Main => MainFits'
      BY <1>a, <2>1, <2>2, Different DEF MainFits
    <3> QED BY <1>0, <1>a, <2>1, <3>1, <3>2, FitsGo
  <2>7. \A u \in Threads \ {t} : unsaved' = FALSE => step[u] = "idle"
    BY <1>2, <2>1 DEF FileInv, Sync, Alone, TypeOK
  <2>8. Stream' = Stream
    BY <2>2 DEF Stream
  <2>9. Sync'
    <3> SUFFICES ASSUME ~unsaved' PROVE Sync'
      BY DEF Sync
    <3>1. \A u \in Threads \ {t} : step'[u] = "idle"
      BY <2>1, <2>5, <2>7 DEF TypeOK
    <3> QED BY <1>2, <1>a, <2>1, <2>2, <2>4, <2>8, <3>1, Different DEF Sync, Idle
  <2>10. Restoring' /\ Wants'
    <3>1. wanted = None
      BY <1>0, <1>a DEF FileInv, Wants
    <3> QED BY <1>2, <1>0, <1>a, <2>1, <2>2, <2>4, <2>7, <2>8, <3>1, Different DEF FileInv, Restoring, Wants
  <2> QED BY <2>5, <2>6, <2>9, <2>10 DEF FileInv
<1> QED BY <1>1, <1>2 DEF Look

(* A step of a handler or of the MOVA Tools, in the middle of a job.  If   *)
(* nothing is unsaved all others are idle, and if something is wanted this *)
(* thread is as well.                                                      *)
LEMMA GoInv ==
  ASSUME FileInv, NEW t \in Threads \ {Main}, NEW from, NEW to \in Steps,
         Goes(t, from, to), from # "idle", to # "load",
         TypeOK', phase' = phase, wanted' = wanted, unsaved => unsaved',
         t \in Handlers => HandlerFits(t)', t = Tools => ToolsFit',
         ~unsaved' /\ to = "idle" /\ dataset' # None => file' = Stream',
         ~unsaved' /\ to \in {"truncate", "write"} => dataset' # None /\ seen'[t] = Stream'
  PROVE  FileInv'
<1>1. /\ step[t] = from /\ step'[t] = to
      /\ \A u \in Threads \ {t} : step'[u] = step[u] /\ job'[u] = job[u]
  BY OthersGo DEF FileInv
<1>2. wanted = None
  BY <1>1 DEF FileInv, Wants
<1>3. Fits'
  BY <1>1, Awake, FitsGo
<1>4. Sync'
  <2> SUFFICES ASSUME ~unsaved' PROVE Sync'
    BY DEF Sync
  <2>1. t # Tools /\ \A u \in Threads \ {t} : step'[u] = "idle"
    BY <1>1 DEF FileInv, Sync
  <2> QED BY <1>1, <2>1, Different DEF Sync, Idle
<1>5. Restoring'
  <2>1. phase = "restoring" => step[Main] # "idle"
    BY DEF FileInv, Fits, MainFits
  <2>2. phase = "restoring" => unsaved
    BY <1>1, <2>1, Different DEF FileInv, Sync
  <2> QED BY <2>2 DEF Restoring
<1> QED BY <1>2, <1>3, <1>4, <1>5 DEF FileInv, Wants

(* The file is emptied, or cannot be opened.                               *)
LEMMA TruncateInv ==
  ASSUME FileInv, NEW t \in Threads, Truncate(t) PROVE FileInv'
<1>0. step[t] = "truncate" /\ phase' = phase /\ phase # "down" /\ wanted' = wanted
      /\ UNCHANGED <<dataset, running, alive, movaOn>>
  BY Awake DEF Truncate, Goes, streamVars
<1>a. /\ AfterSave(t) \in {"clear", "idle"} /\ AfterSave(t) \in Steps /\ t # Tools
      /\ t = Main => AfterSave(t) = "clear" /\ phase = "ending" /\ job[t] = "shutdown"
      /\ t # Main => AfterSave(t) = "idle" /\ job[t] \in Commands /\ t \in Handlers
  BY <1>0, SaveEnds
<1>b. wanted = None
  BY <1>0, <1>a DEF FileInv, Wants
<1>c. Stream' = Stream
  BY <1>0 DEF Stream
<1>1. PICK to \in {"write", AfterSave(t)} :
        /\ Goes(t, "truncate", to)
        /\ \/ to = "write" /\ file' = None /\ UNCHANGED <<unsaved, seen>>
           \/ to = AfterSave(t) /\ unsaved' = TRUE /\ seen' = [seen EXCEPT ![t] = None]
              /\ UNCHANGED file
  BY DEF Truncate
<1>2. to \in Steps /\ to \in {"write", "clear", "idle"} /\ (t # Main => to # "clear")
      /\ (t = Main => to # "idle")
  BY <1>a, <1>1 DEF Steps
<1>3. /\ step'[t] = to /\ job'[t] = (IF to = "idle" THEN "none" ELSE job[t])
      /\ \A u \in Threads \ {t} : step'[u] = step[u] /\ job'[u] = job[u]
      /\ step' \in [Threads -> Steps] /\ job' \in [Threads -> Jobs]
  BY <1>1, <1>2, OthersGo DEF FileInv
<1>4. TypeOK'
  BY <1>0, <1>1, <1>3 DEF FileInv, TypeOK
<1>5. t \in Handlers => HandlerFits(t)'
  BY <1>a, <1>2, <1>3, Different DEF HandlerFits
<1>6. t = Main => MainFits'
  BY <1>0, <1>a, <1>2, <1>3, Different DEF MainFits
<1>7. ~unsaved' => to = "write" /\ ~unsaved /\ seen' = seen /\ seen[t] = Stream /\ dataset # None
  BY <1>0, <1>1, <1>a DEF FileInv, Sync
<1>8. Sync'
  <2> SUFFICES ASSUME ~unsaved' PROVE Sync'
    BY DEF Sync
  <2>1. \A u \in Threads \ {t} : step'[u] = "idle"
    BY <1>0, <1>3, <1>7 DEF FileInv, Sync
  <2> QED BY <1>0, <1>a, <1>c, <1>3, <1>7, <2>1, Different DEF Sync, Idle
<1>9. Restoring'
  <2>1. phase = "restoring" => t # Main /\ step[Main] # "idle"
    BY <1>a DEF FileInv, Fits, MainFits
  <2>2. phase = "restoring" => unsaved
    BY <1>0, <2>1, Different DEF FileInv, Sync
  <2> QED BY <1>0, <1>7, <2>2 DEF Restoring
<1>10. Fits' /\ Wants'
  BY <1>0, <1>a, <1>b, <1>3, <1>5, <1>6, FitsGo DEF Wants
<1> QED BY <1>4, <1>8, <1>9, <1>10 DEF FileInv

(* What was read is written: it is what the stream is, if nothing is       *)
(* unsaved, and a shutdown wants it back.                                  *)
LEMMA WriteInv ==
  ASSUME FileInv, NEW t \in Threads, Write(t) PROVE FileInv'
<1>0. step[t] = "write" /\ phase' = phase /\ phase # "down"
      /\ UNCHANGED <<dataset, running, alive, movaOn>>
      /\ seen' = [seen EXCEPT ![t] = None] /\ Goes(t, "write", AfterSave(t))
  BY Awake DEF Write, Goes, streamVars
<1>a. /\ AfterSave(t) \in {"clear", "idle"} /\ AfterSave(t) \in Steps /\ t # Tools
      /\ t = Main => AfterSave(t) = "clear" /\ phase = "ending" /\ job[t] = "shutdown"
      /\ t # Main => AfterSave(t) = "idle" /\ job[t] \in Commands /\ t \in Handlers
  BY <1>0, SaveEnds
<1>b. wanted = None
  BY <1>0, <1>a DEF FileInv, Wants
<1>c. Stream' = Stream
  BY <1>0 DEF Stream
<1>1. \/ /\ file' = seen[t] /\ unsaved' = unsaved
         /\ wanted' = IF t = Main /\ ~unsaved /\ seen[t].dataset \in Kept THEN seen[t] ELSE wanted
      \/ unsaved' = TRUE /\ UNCHANGED <<file, wanted>>
  BY DEF Write
<1>3. /\ step'[t] = AfterSave(t) /\ job'[t] = (IF AfterSave(t) = "idle" THEN "none" ELSE job[t])
      /\ \A u \in Threads \ {t} : step'[u] = step[u] /\ job'[u] = job[u]
      /\ step' \in [Threads -> Steps] /\ job' \in [Threads -> Jobs]
  BY <1>0, <1>a, OthersGo DEF FileInv
<1>4. TypeOK'
  <2>1. seen[t] \in Streams \union {None} /\ unsaved \in BOOLEAN
    BY DEF FileInv, TypeOK
  <2>2. file' \in Streams \union {None} /\ wanted' \in Streams \union {None} /\ unsaved' \in BOOLEAN
    BY <1>1, <2>1 DEF FileInv, TypeOK
  <2>3. seen' \in [Threads -> Streams \union {None}]
    BY <1>0 DEF FileInv, TypeOK
  <2> QED BY <1>0, <1>3, <2>2, <2>3 DEF FileInv, TypeOK
<1>5. t \in Handlers => HandlerFits(t)'
  BY <1>a, <1>3, Different DEF HandlerFits
<1>6. t = Main => MainFits'
  BY <1>0, <1>a, <1>3, Different DEF MainFits
<1>7. ~unsaved' => ~unsaved /\ file' = seen[t] /\ seen[t] = Stream
  BY <1>0, <1>1, <1>a DEF FileInv, Sync
<1>8. ~unsaved \/ ~unsaved' => \A u \in Threads \ {t} : step'[u] = "idle"
  BY <1>0, <1>3, <1>7 DEF FileInv, Sync
<1>9. Sync'
  <2> SUFFICES ASSUME ~unsaved' PROVE Sync'
    BY DEF Sync
  <2> QED BY <1>0, <1>a, <1>c, <1>3, <1>7, <1>8, Different DEF Sync, Idle
<1>10. Restoring'
  <2>1. phase = "restoring" => t # Main /\ step[Main] # "idle"
    BY <1>a DEF FileInv, Fits, MainFits
  <2>2. phase = "restoring" => unsaved
    BY <1>0, <2>1, Different DEF FileInv, Sync
  <2> QED BY <1>0, <1>7, <2>2 DEF Restoring
<1>11. Fits'
  BY <1>0, <1>a, <1>3, <1>5, <1>6, FitsGo
<1>12. Wants'
  <2> SUFFICES ASSUME wanted' # None PROVE Wants'
    BY DEF Wants
  <2>1. t = Main /\ ~unsaved /\ wanted' = seen[t] /\ file' = seen[t] /\ seen[t].dataset \in Kept
    BY <1>1, <1>b
  <2> QED BY <1>0, <1>a, <1>3, <1>8, <2>1 DEF Wants
<1> QED BY <1>4, <1>9, <1>10, <1>11, <1>12 DEF FileInv

-----------------------------------------------------------------------------
(* stop() begins: of a command, of the MOVA Tools or of a shutdown.        *)
LEMMA ClearInv ==
  ASSUME FileInv, NEW t \in Threads, Clear(t) PROVE FileInv'
<1>0. /\ step[t] = "clear" /\ Goes(t, "clear", "join") /\ "join" \in Steps /\ phase # "down"
      /\ UNCHANGED <<dataset, alive, unsaved, file, phase, seen, wanted>>
      /\ running' = FALSE /\ movaOn' = 0
  BY Awake DEF Clear, Goes, others, Steps
<1>1. /\ step'[t] = "join" /\ job'[t] = job[t]
      /\ \A u \in Threads \ {t} : step'[u] = step[u] /\ job'[u] = job[u]
      /\ step' \in [Threads -> Steps] /\ job' \in [Threads -> Jobs]
  BY <1>0, OthersGo DEF FileInv
<1>2. TypeOK'
  BY <1>0, <1>1 DEF FileInv, TypeOK
<1>3. t \in Handlers => HandlerFits(t)'
  BY <1>0, <1>1, Whose DEF HandlerFits
<1>4. t = Tools => ToolsFit'
  BY <1>0, <1>1, Whose DEF ToolsFit
<1>5. CASE t # Main
  BY <1>0, <1>2, <1>3, <1>4, <1>5, GoInv
<1>6. CASE t = Main
  <2>1. phase = "ending" /\ MainFits'
    BY <1>0, <1>1, <1>6, Whose DEF MainFits
  <2>2. Fits'
    BY <1>0, <1>1, <1>3, <1>4, <2>1, FitsGo
  <2>3. Sync'
    <3> SUFFICES ASSUME ~unsaved' PROVE Sync'
      BY DEF Sync
    <3>1. \A u \in Threads \ {t} : step'[u] = "idle"
      BY <1>0, <1>1 DEF FileInv, Sync
    <3> QED BY <1>1, <1>6, <3>1, Different DEF Sync, Idle
  <2>4. Restoring' /\ Wants'
    BY <1>0, <1>1, <1>6, <2>1 DEF FileInv, Restoring, Wants
  <2> QED BY <1>2, <2>2, <2>3, <2>4 DEF FileInv
<1> QED BY <1>5, <1>6

(* It ends.                                                                *)
LEMMA JoinInv ==
  ASSUME FileInv, NEW t \in Threads, Join(t) PROVE FileInv'
<1> DEFINE to == AfterStop[job[t]]
<1>0. /\ step[t] = "join" /\ Goes(t, "join", to) /\ phase # "down"
      /\ UNCHANGED <<dataset, running, alive, movaOn, unsaved, file, phase, seen, wanted>>
  BY Awake DEF Join, Goes, others, streamVars
<1>a. t \in Handlers => to \in {"swap", "drop", "look", "again"} /\ job[t] \in Commands
  BY <1>0, Whose DEF HandlerFits, AfterStop
<1>b. t = Tools => to = "zero" /\ job[t] \in {"recover", "halt"}
  BY <1>0, Whose DEF ToolsFit, AfterStop
<1>c. t = Main => to = "exit" /\ phase = "ending" /\ job[t] = "shutdown"
  BY <1>0, Whose DEF MainFits, AfterStop
<1>d. to \in Steps /\ to \notin {"idle", "load", "truncate", "write"}
  BY <1>a, <1>b, <1>c, Different DEF Steps
<1> HIDE DEF to
<1>1. /\ step'[t] = to /\ job'[t] = job[t]
      /\ \A u \in Threads \ {t} : step'[u] = step[u] /\ job'[u] = job[u]
      /\ step' \in [Threads -> Steps] /\ job' \in [Threads -> Jobs]
  BY <1>0, <1>d, OthersGo DEF FileInv
<1>2. TypeOK'
  BY <1>0, <1>1 DEF FileInv, TypeOK
<1>3. t \in Handlers => HandlerFits(t)'
  BY <1>a, <1>1 DEF HandlerFits
<1>4. t = Tools => ToolsFit'
  BY <1>b, <1>1 DEF ToolsFit
<1>5. CASE t # Main
  BY <1>0, <1>d, <1>2, <1>3, <1>4, <1>5, GoInv
<1>6. CASE t = Main
  <2>1. MainFits'
    BY <1>0, <1>c, <1>1, <1>6 DEF MainFits
  <2>2. Fits'
    BY <1>0, <1>1, <1>3, <1>4, <2>1, FitsGo
  <2>3. Sync'
    <3> SUFFICES ASSUME ~unsaved' PROVE Sync'
      BY DEF Sync
    <3>1. \A u \in Threads \ {t} : step'[u] = "idle"
      BY <1>0, <1>1 DEF FileInv, Sync
    <3> QED BY <1>c, <1>1, <1>6, <3>1, Different DEF Sync, Idle
  <2>4. Restoring' /\ Wants'
    BY <1>0, <1>c, <1>1, <1>6 DEF FileInv, Restoring, Wants
  <2> QED BY <1>2, <2>2, <2>3, <2>4 DEF FileInv
<1> QED BY <1>5, <1>6

(* A step after which a command has its save still to do, or that the MOVA *)
(* Tools do, when something is unsaved.                                    *)
LEMMA ChangeInv ==
  ASSUME FileInv, NEW t \in Threads \ {Main}, NEW from, NEW to \in Steps,
         Goes(t, from, to), from # "idle", to \notin {"load", "truncate", "write"},
         dataset' \in Datasets \union {None}, running' \in BOOLEAN, alive' \in BOOLEAN,
         movaOn' \in {0, 1}, UNCHANGED <<file, phase, seen, wanted>>,
         unsaved' \in BOOLEAN, unsaved => unsaved',
         t \in Handlers => HandlerFits(t)', t = Tools => ToolsFit',
         t \in Handlers /\ ~unsaved' => to # "idle" \/ (UNCHANGED <<dataset, running, movaOn>> /\ from = "load")
  PROVE  FileInv'
<1>1. /\ step[t] = from /\ step'[t] = to
      /\ step' \in [Threads -> Steps] /\ job' \in [Threads -> Jobs]
  BY OthersGo DEF FileInv
<1>2. TypeOK'
  BY <1>1 DEF FileInv, TypeOK
<1>3. t = Tools => unsaved
  BY <1>1 DEF FileInv, Sync
<1>4. ~unsaved' /\ to = "idle" /\ dataset' # None => file' = Stream'
  BY <1>1, <1>3, Different DEF FileInv, Sync, Stream
<1> QED BY <1>2, <1>4, GoInv

(* start()                                                                 *)
LEMMA StartInv ==
  ASSUME FileInv, NEW t \in Threads, Start(t) PROVE FileInv'
<1>0. /\ step[t] = "start" /\ Goes(t, "start", Afterwards(t))
      /\ UNCHANGED <<dataset, movaOn, unsaved, file, phase, seen, wanted>>
      /\ running' \in BOOLEAN /\ alive' \in BOOLEAN
  BY DEF Start, Started, Goes, others, FileInv, TypeOK
<1>1. t # Main
  BY <1>0, Whose DEF MainFits
<1>2. t \in Handlers => Afterwards(t) = "look" /\ job[t] \in Commands
  BY <1>0, Whose DEF HandlerFits, Afterwards
<1>3. t = Tools => Afterwards(t) = "idle"
  BY <1>0, Whose DEF ToolsFit, Afterwards, Commands
<1>4. Afterwards(t) \in Steps /\ Afterwards(t) \in {"look", "idle"}
  BY DEF Afterwards, Steps
<1>5. /\ step'[t] = Afterwards(t)
      /\ job'[t] = IF Afterwards(t) = "idle" THEN "none" ELSE job[t]
  BY <1>0, <1>4, OthersGo DEF FileInv
<1>6. (t \in Handlers => HandlerFits(t)') /\ (t = Tools => ToolsFit')
  BY <1>2, <1>3, <1>5 DEF HandlerFits, ToolsFit
<1> QED BY <1>0, <1>1, <1>2, <1>4, <1>6, ChangeInv DEF FileInv, TypeOK

(* LOAD: a dataset that is accepted, or rejected.                          *)
LEMMA LoadInv ==
  ASSUME FileInv, NEW h \in Handlers, Load(h) PROVE FileInv'
<1>1. PICK first \in {"load", "swap"}, to \in {"look", "idle"} :
        /\ Goes(h, first, to)
        /\ \/ /\ to = "look" /\ dataset' \in Datasets /\ Started /\ UNCHANGED unsaved
           \/ /\ to = "idle" /\ unsaved' = (unsaved \/ first = "swap")
              /\ UNCHANGED <<dataset, running, alive>>
  BY DEF Load
<1>2. /\ UNCHANGED <<movaOn, file, phase, seen, wanted>>
      /\ running' \in BOOLEAN /\ alive' \in BOOLEAN /\ unsaved' \in BOOLEAN
      /\ dataset' \in Datasets \union {None} /\ movaOn' \in {0, 1}
  BY <1>1 DEF Load, Started, others, FileInv, TypeOK
<1>3. to \in Steps /\ h \in Threads \ {Main} /\ h # Tools
  BY Different DEF Steps
<1>4. step[h] = first /\ step'[h] = to /\ job'[h] = (IF to = "idle" THEN "none" ELSE job[h])
  BY <1>1, <1>3, OthersGo DEF FileInv
<1>5. HandlerFits(h)'
  BY <1>4, <1>3, Whose DEF HandlerFits
<1>6. ~unsaved' => to # "idle" \/ (UNCHANGED <<dataset, running, movaOn>> /\ first = "load")
  BY <1>1, <1>2
<1>7. unsaved => unsaved'
  BY <1>1
<1> QED BY <1>1, <1>2, <1>3, <1>5, <1>6, <1>7, ChangeInv

(* UNLOAD drops the dataset.                                               *)
LEMMA DropInv ==
  ASSUME FileInv, NEW h \in Handlers, Drop(h) PROVE FileInv'
<1>1. /\ Goes(h, "drop", "look") /\ "look" \in Steps /\ h \in Threads \ {Main} /\ h # Tools
      /\ dataset' = None /\ UNCHANGED <<running, alive, movaOn, unsaved, file, phase, seen, wanted>>
  BY Different DEF Drop, others, Steps
<1>2. step[h] = "drop" /\ step'[h] = "look" /\ job'[h] = job[h]
  BY <1>1, OthersGo DEF FileInv
<1>3. HandlerFits(h)'
  BY <1>1, <1>2, Whose DEF HandlerFits
<1> QED BY <1>1, <1>3, ChangeInv DEF FileInv, TypeOK

(* RESET goes on.                                                          *)
LEMMA AgainInv ==
  ASSUME FileInv, NEW h \in Handlers, Again(h) PROVE FileInv'
<1>1. PICK to \in {"look", "start"} : Goes(h, "again", to) /\ movaOn' \in {0, 1}
  BY DEF Again, FileInv, TypeOK
<1>2. /\ to \in Steps /\ h \in Threads \ {Main} /\ h # Tools
      /\ UNCHANGED <<dataset, running, alive, unsaved, file, phase, seen, wanted>>
  BY Different DEF Again, others, Steps
<1>3. step[h] = "again" /\ step'[h] = to /\ job'[h] = job[h]
  BY <1>1, <1>2, OthersGo DEF FileInv
<1>4. HandlerFits(h)'
  BY <1>2, <1>3, Whose DEF HandlerFits
<1> QED BY <1>1, <1>2, <1>4, ChangeInv DEF FileInv, TypeOK

(* The MOVA Tools turn MOVA off and perhaps on again.                      *)
LEMMA ZeroInv == ASSUME FileInv, Zero PROVE FileInv'
<1>1. PICK to \in {"on", "idle"} : Goes(Tools, "zero", to) /\ movaOn' = 0
  BY DEF Zero
<1>2. /\ to \in Steps /\ Tools \in Threads \ {Main} /\ Tools \notin Handlers
      /\ UNCHANGED <<dataset, running, alive, unsaved, file, phase, seen, wanted>>
  BY Different DEF Zero, others, Steps
<1>3. step[Tools] = "zero" /\ step'[Tools] = to
      /\ job'[Tools] = IF to = "idle" THEN "none" ELSE job[Tools]
  BY <1>1, <1>2, OthersGo DEF FileInv
<1>4. ToolsFit'
  BY <1>2, <1>3, Whose DEF ToolsFit
<1> QED BY <1>1, <1>2, <1>4, ChangeInv DEF FileInv, TypeOK

(* io[MOVA_ON] is set.                                                     *)
LEMMA SetIoInv ==
  ASSUME FileInv, NEW t \in Threads, SetIo(t) PROVE FileInv'
<1> DEFINE to == IF job[t] = "recover" THEN "start" ELSE Afterwards(t)
<1>1. PICK from \in {"on", "off"} : Goes(t, from, to)
  BY DEF SetIo
<1>2. movaOn' \in {0, 1} /\ UNCHANGED <<dataset, running, alive, unsaved, file, phase, seen, wanted>>
  BY DEF SetIo, others
<1>3. to \in {"start", "look", "idle"} /\ to \in Steps
  BY DEF Afterwards, Steps
<1>4. step[t] = from
  BY <1>1 DEF Goes
<1>5. t # Main
  BY <1>4, Whose DEF MainFits
<1>6. t \in Handlers => to = "look" /\ job[t] \in Commands
  BY <1>4, Whose DEF HandlerFits, Afterwards, Commands
<1>7. t = Tools => to \in {"start", "idle"} /\ job[t] \in {"enable", "disable", "recover", "halt"}
  BY <1>4, Whose DEF ToolsFit, Afterwards, Commands
<1> HIDE DEF to
<1>8. step'[t] = to /\ job'[t] = (IF to = "idle" THEN "none" ELSE job[t])
  BY <1>1, <1>3, OthersGo DEF FileInv
<1>9. (t \in Handlers => HandlerFits(t)') /\ (t = Tools => ToolsFit')
  BY <1>6, <1>7, <1>8 DEF HandlerFits, ToolsFit
<1> QED BY <1>1, <1>2, <1>3, <1>5, <1>6, <1>9, ChangeInv DEF FileInv, TypeOK

-----------------------------------------------------------------------------
(* The tick thread ends, or changes the stream with nobody to save it.     *)
LEMMA TickInv == ASSUME FileInv, End \/ FailOrTurnOff PROVE FileInv'
<1>0. phase # "down" /\ UNCHANGED <<dataset, file, phase, job, step, seen>> /\ alive
  BY DEF End, FailOrTurnOff, FileInv, Fits, Blank, others
<1>1. Fits'
  BY <1>0 DEF FileInv, Fits, HandlerFits, ToolsFit, MainFits
<1>2. CASE End
  <2>1. UNCHANGED <<dataset, running, movaOn, unsaved, wanted, file, phase, job, step, seen>>
        /\ alive' = FALSE
    BY <1>2 DEF End, others
  <2>2. TypeOK' /\ Stream' = Stream
    BY <2>1 DEF FileInv, TypeOK, Stream
  <2>3. Sync' /\ Wants'
    BY <2>1, <2>2 DEF FileInv, Sync, Idle, Wants
  <2>4. Restoring'
    BY <1>0, <2>1, <2>2 DEF FileInv, Restoring
  <2> QED BY <1>1, <2>2, <2>3, <2>4 DEF FileInv
<1>3. CASE FailOrTurnOff
  <2>1. /\ running' \in BOOLEAN /\ movaOn' \in {0, 1} /\ alive' = alive /\ unsaved' = TRUE
        /\ wanted' = IF phase = "ending" THEN wanted ELSE None
    BY <1>3 DEF FailOrTurnOff, FileInv, TypeOK
  <2>2. TypeOK'
    BY <1>0, <2>1 DEF FileInv, TypeOK
  <2>3. Sync' /\ Restoring' /\ Wants'
    BY <1>0, <2>1 DEF FileInv, Sync, Restoring, Wants
  <2> QED BY <1>1, <2>2, <2>3 DEF FileInv
<1> QED BY <1>2, <1>3

-----------------------------------------------------------------------------
(* The process starts with nothing in memory.                              *)
LEMMA BootInv == ASSUME FileInv, Boot PROVE FileInv'
<1>0. /\ phase = "down" /\ phase' = "restoring" /\ Blank /\ ~unsaved
      /\ UNCHANGED <<dataset, running, alive, movaOn, file, seen, unsaved, wanted>>
  BY DEF Boot, FileInv, Fits, streamVars
<1>1. /\ step'[Main] = "open" /\ job'[Main] = "restore"
      /\ \A u \in Threads \ {Main} : step'[u] = step[u] /\ job'[u] = job[u]
      /\ step' \in [Threads -> Steps] /\ job' \in [Threads -> Jobs]
  BY Others, Different DEF Boot, FileInv, Steps, Jobs
<1>2. TypeOK'
  BY <1>0, <1>1 DEF FileInv, TypeOK
<1>3. \A u \in Threads \ {Main} : step'[u] = "idle"
  BY <1>0, <1>1 DEF Blank
<1>4. Fits'
  BY <1>0, <1>1, <1>3, Different DEF Fits, HandlerFits, ToolsFit, MainFits
<1>5. Sync'
  BY <1>1, <1>3, Different DEF Sync, Idle
<1>6. Restoring' /\ Wants'
  BY <1>0, <1>1, <1>3 DEF FileInv, Blank, Restoring, Wants
<1> QED BY <1>2, <1>4, <1>5, <1>6 DEF FileInv

(* A step of the restore before the last: with nothing unsaved the others  *)
(* are idle.                                                               *)
LEMMA RestoreGoInv ==
  ASSUME FileInv, NEW from, NEW to \in {"ready", "restore", "movaon"}, Goes(Main, from, to),
         phase = "restoring", UNCHANGED <<file, phase, unsaved, wanted>>,
         TypeOK', Restoring'
  PROVE  FileInv'
<1>1. to \in Steps /\ from # "idle"
  BY DEF Goes, FileInv, Fits, MainFits, Steps
<1>2. /\ step[Main] = from /\ step'[Main] = to
      /\ \A u \in Threads \ {Main} : step'[u] = step[u] /\ job'[u] = job[u]
  BY <1>1, OthersGo, Different DEF FileInv
<1>3. Fits'
  <2>1. MainFits'
    BY <1>2 DEF MainFits
  <2> QED BY <1>2, <2>1, FitsGo, Different
<1>4. Sync'
  <2> SUFFICES ASSUME ~unsaved' PROVE Sync'
    BY DEF Sync
  <2>1. \A u \in Threads \ {Main} : step'[u] = "idle"
    BY <1>1, <1>2, Different DEF FileInv, Sync
  <2> QED BY <1>2, <2>1, Different DEF Sync, Idle
<1>5. Wants'
  BY <1>2 DEF FileInv, Wants
<1> QED BY <1>3, <1>4, <1>5 DEF FileInv

(* The file is read.                                                       *)
LEMMA OpenInv == ASSUME FileInv, Open PROVE FileInv'
<1>1. PICK to \in {"ready", "restore"} :
        /\ Goes(Main, "open", to)
        /\ \/ to = "ready" /\ (file = None \/ file.dataset \notin Kept) /\ seen' = seen
           \/ to = "restore" /\ file # None /\ file.dataset \in Kept
              /\ seen' = [seen EXCEPT ![Main] = file]
  BY DEF Open
<1>2. UNCHANGED <<dataset, running, alive, movaOn, file, phase, unsaved, wanted>>
  BY DEF Open, streamVars
<1>3. step[Main] = "open" /\ phase = "restoring"
  BY <1>1, Different, Whose DEF Goes, MainFits
<1>4. /\ step'[Main] = to /\ step' \in [Threads -> Steps] /\ job' \in [Threads -> Jobs]
  BY <1>1, OthersGo, Different DEF FileInv, Steps
<1>5. /\ seen' \in [Threads -> Streams \union {None}]
      /\ to = "restore" => seen'[Main] = file
  BY <1>1, Different DEF FileInv, TypeOK
<1>6. TypeOK'
  BY <1>2, <1>4, <1>5 DEF FileInv, TypeOK
<1>7. Restoring'
  BY <1>1, <1>2, <1>3, <1>4, <1>5 DEF FileInv, Restoring, Wants
<1> QED BY <1>1, <1>2, <1>3, <1>6, <1>7, RestoreGoInv

(* The dataset is loaded and, if it ran, the thread started.               *)
LEMMA RestoreInv == ASSUME FileInv, Held, Restore PROVE FileInv'
<1>1. /\ Goes(Main, "restore", "movaon") /\ dataset' = seen[Main].dataset
      /\ UNCHANGED <<movaOn, unsaved, file, phase, seen, wanted>>
      /\ IF seen[Main].running THEN Started ELSE UNCHANGED <<running, alive>>
  BY DEF Restore, others
<1>2. step[Main] = "restore" /\ phase = "restoring"
  BY <1>1, Different, Whose DEF Goes, MainFits
<1>3. seen[Main] \in Streams
  BY <1>2, Different DEF Held, FileInv, TypeOK
<1>4. /\ step'[Main] = "movaon" /\ step' \in [Threads -> Steps] /\ job' \in [Threads -> Jobs]
  BY <1>1, OthersGo, Different DEF FileInv, Steps
<1>5. dataset' \in Datasets /\ running' \in BOOLEAN /\ alive' \in BOOLEAN
  BY <1>1, <1>3 DEF FileInv, TypeOK, Started, Streams
<1>6. TypeOK'
  BY <1>1, <1>4, <1>5 DEF FileInv, TypeOK
<1>7. Restoring'
  <2> SUFFICES ASSUME ~unsaved PROVE Restoring'
    BY <1>1 DEF Restoring
  <2>1. /\ running = FALSE /\ alive = FALSE /\ movaOn = 0
        /\ file # None /\ file.dataset \in Kept /\ seen[Main] = file
    BY <1>2 DEF FileInv, Restoring
  <2>2. running' = file.running
    BY <1>1, <1>3, <1>5, <2>1, StateFileAssumption DEF Started, Streams
  <2> QED BY <1>1, <1>2, <1>4, <2>1, <2>2 DEF Restoring
<1> QED BY <1>1, <1>2, <1>6, <1>7, RestoreGoInv

(* MOVA is turned on if it was: the stream is what the file says.          *)
LEMMA RestoreMovaOnInv == ASSUME FileInv, Held, RestoreMovaOn PROVE FileInv'
<1>1. /\ Goes(Main, "movaon", "ready")
      /\ movaOn' = (IF seen[Main].movaOn = 1 THEN 1 ELSE movaOn)
      /\ seen' = [seen EXCEPT ![Main] = None]
      /\ UNCHANGED <<dataset, running, alive, file, phase, unsaved, wanted>>
  BY DEF RestoreMovaOn
<1>2. step[Main] = "movaon" /\ phase = "restoring"
  BY <1>1, Different, Whose DEF Goes, MainFits
<1>3. seen[Main] \in Streams
  BY <1>2, Different DEF Held, FileInv, TypeOK
<1>4. /\ step'[Main] = "ready" /\ step' \in [Threads -> Steps] /\ job' \in [Threads -> Jobs]
  BY <1>1, OthersGo, Different DEF FileInv, Steps
<1>5. movaOn' \in {0, 1} /\ seen' \in [Threads -> Streams \union {None}]
  BY <1>1 DEF FileInv, TypeOK
<1>6. TypeOK'
  BY <1>1, <1>4, <1>5 DEF FileInv, TypeOK
<1>7. Restoring'
  <2> SUFFICES ASSUME ~unsaved PROVE Restoring'
    BY <1>1 DEF Restoring
  <2>1. /\ file # None /\ file \in Streams /\ seen[Main] = file
        /\ dataset = file.dataset /\ running = file.running /\ movaOn = 0
    BY <1>2, <1>3 DEF FileInv, Restoring
  <2>2. movaOn' = file.movaOn
    BY <1>1, <2>1 DEF Streams
  <2>3. file' = Stream'
    BY <1>1, <2>1, <2>2 DEF Stream, Streams
  <2>4. dataset' # None
    BY <1>1, <2>1, StateFileAssumption DEF Streams
  <2> QED BY <1>4, <2>3, <2>4 DEF Restoring
<1> QED BY <1>1, <1>2, <1>6, <1>7, RestoreGoInv

(* The process is up: what is wanted has come back.                        *)
LEMMA ReadyInv == ASSUME FileInv, Ready PROVE FileInv'
<1>1. /\ Goes(Main, "ready", "idle") /\ phase' = "up"
      /\ UNCHANGED <<dataset, running, alive, movaOn, file, seen, unsaved, wanted>>
  BY DEF Ready, streamVars
<1>2. step[Main] = "ready" /\ phase = "restoring"
  BY <1>1, Different, Whose DEF Goes, MainFits
<1>3. /\ step'[Main] = "idle" /\ step' \in [Threads -> Steps] /\ job' \in [Threads -> Jobs]
      /\ \A u \in Threads \ {Main} : step'[u] = step[u] /\ job'[u] = job[u]
  BY <1>1, OthersGo, Different DEF FileInv, Steps
<1>4. TypeOK'
  BY <1>1, <1>3 DEF FileInv, TypeOK
<1>5. Fits'
  BY <1>1, <1>3, Different DEF FileInv, Fits, HandlerFits, ToolsFit, MainFits
<1>6. Stream' = Stream
  BY <1>1 DEF Stream
<1>7. ~unsaved => /\ \A u \in Threads : step'[u] = "idle"
                  /\ dataset # None => file = Stream
                  /\ wanted # None => dataset # None
  BY <1>2, <1>3, Different DEF FileInv, Sync, Restoring
<1>8. Sync'
  BY <1>1, <1>6, <1>7, Different DEF Sync
<1>9. Wants'
  BY <1>1, <1>2, <1>3, <1>6, <1>7 DEF FileInv, Wants
<1>10. Restoring'
  BY <1>1 DEF Restoring
<1> QED BY <1>4, <1>5, <1>8, <1>9, <1>10 DEF FileInv

(* SIGTERM.                                                                *)
LEMMA TerminateInv == ASSUME FileInv, Terminate PROVE FileInv'
<1>1. /\ phase = "up" /\ phase' = "ending" /\ Begins(Main, "shutdown", "look")
      /\ unsaved' = (unsaved \/ ~Idle) /\ wanted' = None
      /\ UNCHANGED <<dataset, running, alive, movaOn, file, seen>>
  BY DEF Terminate, streamVars
<1>2. /\ step'[Main] = "look" /\ job'[Main] = "shutdown"
      /\ step' \in [Threads -> Steps] /\ job' \in [Threads -> Jobs]
      /\ \A u \in Threads \ {Main} : step'[u] = step[u] /\ job'[u] = job[u]
  BY <1>1, Others, Different DEF FileInv, Steps, Jobs
<1>3. TypeOK'
  BY <1>1, <1>2 DEF FileInv, TypeOK
<1>4. Fits'
  BY <1>1, <1>2, Different DEF FileInv, Fits, HandlerFits, ToolsFit, MainFits
<1>5. Sync'
  <2> SUFFICES ASSUME ~unsaved' PROVE Sync'
    BY DEF Sync
  <2>1. \A u \in Threads \ {Main} : step'[u] = "idle"
    BY <1>1, <1>2 DEF Idle
  <2> QED BY <1>2, <2>1, Different DEF Sync, Idle
<1>6. Restoring' /\ Wants'
  BY <1>1 DEF Restoring, Wants
<1> QED BY <1>3, <1>4, <1>5, <1>6 DEF FileInv

(* The process is gone.  What it was, if it was up and nothing unsaved, is *)
(* what the file says.                                                     *)
LEMMA GoneInv == ASSUME FileInv, Exit \/ Kill PROVE FileInv'
<1>1. Gone
  BY DEF Exit, Kill
<1>2. /\ phase' = "down" /\ dataset' = None /\ running' = FALSE /\ alive' = FALSE /\ movaOn' = 0
      /\ job' = [t \in Threads |-> "none"] /\ step' = [t \in Threads |-> "idle"]
      /\ seen' = [t \in Threads |-> None] /\ unsaved' = FALSE /\ file' = file
  BY <1>1 DEF Gone
<1>3. \/ wanted' = wanted
      \/ wanted' = None
      \/ /\ wanted' = Stream
         /\ Idle /\ ~unsaved /\ dataset \in Kept
  <2>1. ASSUME Exit
        PROVE  wanted' = wanted
    BY <2>1 DEF Exit
  <2>2. ASSUME Kill
        PROVE  wanted' = IF phase # "up" THEN wanted
                         ELSE IF Idle /\ ~unsaved /\ dataset \in Kept THEN Stream ELSE None
    BY <2>2 DEF Kill
  <2> QED BY <2>1, <2>2, ZenonT(30)
<1>4. dataset \in Kept => dataset \in Datasets /\ dataset # None
  BY StateFileAssumption
<1>5. wanted' # None => wanted' \in Streams /\ file = wanted' /\ wanted'.dataset \in Kept
  <2>1. CASE wanted' = wanted
    BY <2>1 DEF FileInv, TypeOK, Wants
  <2>2. CASE wanted' = Stream /\ Idle /\ ~unsaved /\ dataset \in Kept
    BY <1>4, <2>2 DEF FileInv, TypeOK, Sync, Stream, Streams
  <2> QED BY <1>3, <2>1, <2>2
<1>6. \A t \in Threads : step'[t] = "idle" /\ job'[t] = "none"
  BY <1>2
<1>7. TypeOK'
  BY <1>2, <1>5 DEF FileInv, TypeOK, Jobs, Steps
<1>8. Fits'
  BY <1>2, <1>6, Different DEF Fits, HandlerFits, ToolsFit, MainFits, Blank
<1>9. Sync' /\ Restoring'
  BY <1>2, <1>6, Different DEF Sync, Restoring
<1>10. Wants'
  BY <1>2, <1>5, <1>6 DEF Wants
<1> QED BY <1>7, <1>8, <1>9, <1>10 DEF FileInv

-----------------------------------------------------------------------------
(* Nobody else touches what a restore has read.                            *)
LEMMA HeldInv == ASSUME FileInv, Held, [Next]_vars PROVE Held'
<1> DEFINE Same == phase' = phase /\ step'[Main] = step[Main] /\ seen'[Main] = seen[Main]
<1>1. Same => Held'
  BY DEF Held
<1>2. ASSUME NEW t \in Threads \ {Main}, NEW from, NEW to, Goes(t, from, to)
      PROVE  step'[Main] = step[Main]
  BY <1>2, Different DEF Goes, Begins, FileInv, TypeOK
<1>3. ASSUME NEW t \in Threads \ {Main}, NEW j, NEW s, Begins(t, j, s)
      PROVE  step'[Main] = step[Main]
  BY <1>3, Different DEF Begins, FileInv, TypeOK
<1>4. ASSUME NEW h \in Handlers, Command(h) \/ Load(h) \/ Drop(h) \/ Again(h) PROVE Held'
  BY <1>1, <1>2, <1>3, <1>4, Different DEF Command, Load, Drop, Again, others
<1>5. ASSUME ToolsCommand \/ Zero PROVE Held'
  BY <1>1, <1>2, <1>3, <1>5, Different DEF ToolsCommand, Zero, others
<1>6. ASSUME NEW t \in Threads, t # Main, Save(t) \/ Clear(t) \/ Join(t) \/ Start(t) \/ SetIo(t)
      PROVE  Held'
  <2>1. phase' = phase
    BY <1>6 DEF Save, Look, Truncate, Write, Clear, Join, Start, SetIo, others
  <2>2. step'[Main] = step[Main]
    <3>1. CASE Save(t)
      BY <1>2, <1>6, <3>1 DEF Save, Look, Truncate, Write
    <3>2. CASE Clear(t) \/ Join(t) \/ Start(t) \/ SetIo(t)
      BY <1>2, <1>6, <3>2 DEF Clear, Join, Start, SetIo
    <3> QED BY <1>6, <3>1, <3>2
  <2>3. seen'[Main] = seen[Main]
    <3>1. seen' = seen \/ \E v : seen' = [seen EXCEPT ![t] = v]
      BY <1>6 DEF Save, Look, Truncate, Write, Clear, Join, Start, SetIo, others
    <3> QED BY <1>6, <3>1, Different DEF FileInv, TypeOK
  <2> QED BY <1>1, <2>1, <2>2, <2>3
<1>7. ASSUME Save(Main) \/ Clear(Main) \/ Join(Main) \/ Start(Main) \/ SetIo(Main) PROVE Held'
  <2>1. phase' = phase
    BY <1>7 DEF Save, Look, Truncate, Write, Clear, Join, Start, SetIo, others
  <2>2. step[Main] \in {"look", "truncate", "write", "clear", "join", "start", "on", "off"}
    BY <1>7 DEF Save, Look, Truncate, Write, Clear, Join, Start, SetIo, Goes
  <2>3. phase # "restoring"
    BY <2>2 DEF FileInv, Fits, MainFits
  <2> QED BY <2>1, <2>3 DEF Held
<1>8. ASSUME End \/ FailOrTurnOff PROVE Held'
  BY <1>1, <1>8 DEF End, FailOrTurnOff, others
<1>9. ASSUME Boot PROVE Held'
  <2>1. step'[Main] = "open"
    BY <1>9, Different DEF Boot, Begins, FileInv, TypeOK
  <2> QED BY <2>1 DEF Held
<1>10. ASSUME Open PROVE Held'
  <2>1. \/ step'[Main] = "ready"
        \/ seen'[Main] = file /\ file # None
    BY <1>10, Different DEF Open, Goes, Begins, FileInv, TypeOK
  <2> QED BY <2>1 DEF Held
<1>11. ASSUME Restore PROVE Held'
  BY <1>11, Different DEF Restore, Goes, Held, others
<1>12. ASSUME RestoreMovaOn PROVE Held'
  <2>1. step'[Main] = "ready"
    BY <1>12, Different DEF RestoreMovaOn, Goes, Begins, FileInv, TypeOK
  <2> QED BY <2>1 DEF Held
<1>13. ASSUME Ready \/ Terminate \/ Exit \/ Kill PROVE Held'
  BY <1>13 DEF Ready, Terminate, Exit, Kill, Gone, Held
<1>14. ASSUME UNCHANGED vars PROVE Held'
  BY <1>14 DEF vars, Held
<1> QED BY <1>4, <1>5, <1>6, <1>7, <1>8, <1>9, <1>10, <1>11, <1>12, <1>13, <1>14 DEF Next

(* One step of Next.                                                       *)
LEMMA NextInv == FileInv /\ Held /\ [Next]_vars => (FileInv /\ Held)'
<1> SUFFICES ASSUME FileInv, Held, [Next]_vars PROVE FileInv'
  BY HeldInv
<1>1. CASE \E h \in Handlers : Command(h) \/ Load(h) \/ Drop(h) \/ Again(h)
  BY <1>1, CommandInv, LoadInv, DropInv, AgainInv
<1>2. CASE \E t \in Threads : Save(t) \/ Clear(t) \/ Join(t) \/ Start(t) \/ SetIo(t)
  BY <1>2, LookInv, TruncateInv, WriteInv, ClearInv, JoinInv, StartInv, SetIoInv DEF Save
<1>3. CASE ToolsCommand \/ Zero
  BY <1>3, ToolsInv, ZeroInv
<1>4. CASE End \/ FailOrTurnOff
  BY <1>4, TickInv
<1>5. CASE Boot \/ Open \/ Restore \/ RestoreMovaOn \/ Ready
  BY <1>5, BootInv, OpenInv, RestoreInv, RestoreMovaOnInv, ReadyInv
<1>6. CASE Terminate \/ Exit \/ Kill
  BY <1>6, TerminateInv, GoneInv
<1>7. CASE UNCHANGED vars
  BY <1>7 DEF vars, streamVars, FileInv, TypeOK, Fits, HandlerFits, ToolsFit, MainFits,
     Blank, Sync, Idle, Stream, Restoring, Wants
<1> QED BY <1>1, <1>2, <1>3, <1>4, <1>5, <1>6, <1>7 DEF Next

(* FileInv holds throughout.                                               *)
LEMMA FileInvHolds == Spec => []FileInv
<1>1. Init => FileInv /\ Held
  BY InitInv DEF Init, Held
<1> QED BY <1>1, NextInv, PTL DEF Spec

(* Every variable keeps its type.                                          *)
THEOREM StateFileTypeCorrect == Spec => []TypeOK
<1>1. FileInv => TypeOK
  BY DEF FileInv
<1> QED BY <1>1, FileInvHolds, PTL

(* A stream comes back as it was, whenever it is killed or shut down.      *)
THEOREM RestartsResume == Spec => []RestartResumes
<1>1. FileInv => RestartResumes
  BY DEF FileInv, Wants, RestartResumes
<1> QED BY <1>1, FileInvHolds, PTL
=============================================================================
