--------------------- MODULE TransportControllerProofs ---------------------
(***************************************************************************)
(* Proofs about TransportController, for every set of commands, mailbox    *)
(* size, time-out and choice of the system flags.                          *)
(*                                                                         *)
(* TypeOK is inductive.  The safety properties follow from ControllerInv,  *)
(* which adds what is known at each point where the task sleeps or waits:   *)
(* without it a step from such a point could start the reels in HALT or    *)
(* with the brakes on.  StcInv adds what the STC was told.  Under the      *)
(* orderly sends of THREAD, OrderlyInv adds the record and capstan lines,  *)
(* and the controller implements TransportMode.                            *)
(***************************************************************************)
EXTENDS TransportController, TLAPS

Motion == {"PLAY", "FWD", "REW"}

-----------------------------------------------------------------------------
(* What holds of the modes where the task is suspended.                      *)
PointInv ==
  /\ pc \in StopPoints => mode_pending = "STOP"
  /\ pc \in PlayPoints \cup PlayRecordPoints => mode_pending = "PLAY"
  /\ pc \in RecordPoints => mode_pending = "NONE" /\ mode = "PLAY"
  /\ pc \in {"shuttleCoils", "ready", "lifter"} =>
       mode # "HALT" /\ last_mode_requested \in ShuttleModes
  /\ /\ pc \in {"recordDrop", "recordOff", "accepted"}
     /\ last_mode_requested \in ShuttleModes
     => mode # "HALT"
  /\ pc \in {"recordDrop", "recordOff"} /\ msg.command # "MODE" => mode = "PLAY"
  /\ pc \in {"threadCoils", "threaded"} => mode = "THREAD"
  /\ pc \in ImmediatePoints => mode \in {"HALT", "STOP", "PLAY"}

CompletedInv ==
  mode_pending = "NONE" /\ pc \notin {"threadCoils", "threaded"} =>
    mode = IF last_mode_completed = "NONE" THEN "HALT" ELSE last_mode_completed

(* The mode before a moving one is never HALT: what makes the stale test of
   Servo_SetMode harmless.                                                   *)
PreviousInv == mode \in Motion => mode_prev # "HALT"

(* What the controller knows of the modes does not depend on the solenoids:
   ModeInv holds also when another task writes them.                         *)
ModeInv ==
  /\ PointInv
  /\ PendingMeansStop
  /\ CompletedInv
  /\ PreviousInv

(* Between the transfer that sets the coils and the change of the mode they
   stay as they were set.                                                    *)
CoilInv ==
  /\ pc \in {"pinch", "capstan", "playMode"} => "BRAKE" \notin solenoid
  /\ pc \in {"ready", "lifter"} => "TLIFT" \in solenoid /\ "BRAKE" \notin solenoid
  /\ pc = "haltMode" => solenoid \cap {"SERVO", "PROL", "RECP", "RECH"} = {}
  /\ BrakesOffInMotion
  /\ LiftersInShuttle
  /\ HaltIsSafe

ControllerInv == ModeInv /\ CoilInv

-----------------------------------------------------------------------------
(* A queued THREAD is the first command of a halted, waiting controller.      *)
ThreadInv ==
  \A i \in 1 .. Len(mbController) :
    mbController[i].op = "THREAD" => i = 1 /\ mode = "HALT" /\ pc = "pend"

(* Record is on in PLAY only, and off while a mode change is carried out.  The
   record line is kept apart, as ModeInv is, for the lamps and the other coils
   have other writers.                                                       *)
RecordInv ==
  /\ ThreadInv
  /\ RecordOn => mode = "PLAY"
  /\ Latching => RecordOn
  /\ pc \in {"recordOff"} \cup ChangePoints => ~RecordOn

(* The capstan runs in PLAY, and in the window before it; it is off by the
   time that another mode is set.                                            *)
CapstanInv ==
  /\ "SERVO" \in solenoid => mode = "PLAY" \/ (mode = "STOP" /\ pc = "playMode")
  /\ pc \in {"haltMode", "stopMode", "ready", "lifter"} => "SERVO" \notin solenoid

OrderlyInv ==
  /\ RecordInv
  /\ RecordLampTrue
  /\ CapstanInv
-----------------------------------------------------------------------------
(* Types                                                                     *)

(* What is read from a command: its flags, and the mode of a MODE command.   *)
LEMMA CommandFields ==
  ASSUME NEW c \in Commands \cup {NoCommand}
  PROVE  /\ c.flags \in SUBSET OpcodeFlags
         /\ c.command = "MODE" => c.op \in Modes
  BY ControllerAssumption
  DEF IsCommand, NoCommand, OpcodeFlags

(* What is told to the STC is a note.                                        *)
LEMMA NoteType ==
  ASSUME NEW m \in ModesOrNone, NEW f \in SUBSET OpcodeFlags, NEW coils
  PROVE  Note(m, f, coils) \in Notes
  BY DEF Note, Notes, ModesOrNone

(* What the STC was sent last is one of the notes sent, or the one before.   *)
LEMMA NotifyType ==
  ASSUME stc \in Notes,
         NEW earlier \in SUBSET Notes, NEW last \in SUBSET Notes,
         IPC_Notify(earlier, last)
  PROVE  stc' \in Notes
  BY DEF IPC_Notify

(* Servo_SetMode keeps the types.                                            *)
LEMMA ServoType ==
  ASSUME TypeOK, NEW m \in Modes, Servo_SetMode(m)
  PROVE  mode' \in Modes /\ mode_prev' \in Modes /\ stop_brake_state' \in BOOLEAN
<1>1. mode' \in Modes /\ mode_prev' \in Modes
  BY DEF Servo_SetMode, TypeOK
<1>2. stop_brake_state \in BOOLEAN /\ (mode_prev # "HALT") \in BOOLEAN
  BY DEF TypeOK
<1>3. stop_brake_state' = IF m = "STOP" THEN mode_prev # "HALT"
                                       ELSE stop_brake_state
  BY DEF Servo_SetMode
<1> QED BY <1>1, <1>2, <1>3, Zenon

(* A command is taken from the mailbox.                                      *)
LEMMA ReceiveType ==
  ASSUME TypeOK, NEW c \in Commands, Receive(c)
  PROVE  /\ mbController' \in Seq(Commands)
         /\ Len(mbController') <= MailboxSize
         /\ msg' \in Commands \cup {NoCommand}
  BY ControllerAssumption DEF TypeOK, Receive

(* A command is put into the mailbox, which has room for it.                 *)
LEMMA SendType ==
  ASSUME TypeOK, NEW c \in Commands, QueueTransportCommand(c)
  PROVE  /\ mbController' \in Seq(Commands)
         /\ Len(mbController') <= MailboxSize
  BY ControllerAssumption DEF TypeOK, QueueTransportCommand

(* Every command and every wake-up keeps the types: the mailbox within its
   slots and the stop timer below its limit.                                 *)
LEMMA TypeInit == ControllerInit => TypeOK
<1> SUFFICES ASSUME ControllerInit PROVE TypeOK
  OBVIOUS
<1>1. stc \in Notes
  BY NoteType DEF ControllerInit, ModesOrNone, OpcodeFlags
<1>2. /\ mbController \in Seq(Commands) /\ Len(mbController) <= MailboxSize
      /\ stoptimer \in 0 .. StopTimeout - 1
  BY ControllerAssumption DEF ControllerInit
<1>3. {record, shuttling, autoslow, stop_brake_state} \subseteq BOOLEAN
  BY DEF ControllerInit
<1> QED
  BY <1>1, <1>2, <1>3
  DEF ControllerInit, TypeOK, Points, Modes, ModesOrNone, Solenoids, Lamps

(* Every command that is taken keeps the types.                              *)
LEMMA TypeCommand ==
  ASSUME TypeOK, NEW c \in Commands,
         \/ HandleImmediateCommand(c) \/ SkipSame(c) \/ Halt(c) \/ Thread(c)
         \/ Stop(c) \/ Play(c) \/ \E m \in ShuttleModes : Shuttle(c, m)
  PROVE  TypeOK'
<1> USE DEF TypeOK, Modes, ModesOrNone, ShuttleModes, Lamps
<1>r. Receive(c)
  BY DEF HandleImmediateCommand, SkipSame, Halt, Thread, Stop, Play, Shuttle,
     Accept
<1>m. /\ mbController' \in Seq(Commands)
      /\ Len(mbController') <= MailboxSize
      /\ msg' \in Commands \cup {NoCommand}
  BY <1>r, ReceiveType
<1>t. 0 \in 0 .. StopTimeout - 1
  BY ControllerAssumption
<1>p. {"recordDrop", "accepted", "holdOn", "lifterOn", "lifterOff", "threadCoils"}
        \subseteq Points
  BY DEF Points, ChangePoints, RecordPoints, ImmediatePoints
<1>1. CASE HandleImmediateCommand(c)
  BY <1>1, <1>m, <1>p
  DEF HandleImmediateCommand, RecordDisable, progress, requests, shuttle, servo,
      outputs
<1>2. CASE SkipSame(c)
  BY <1>2, <1>m DEF SkipSame, progress, requests, shuttle, servo, outputs
<1>3. CASE Halt(c)
  <2>1. {record', shuttling', autoslow', stop_brake_state'} \subseteq BOOLEAN
    BY <1>3 DEF Halt, shuttle, servo
  <2>2. /\ pc' \in Points
        /\ UNCHANGED <<velocity, solenoid, lamps, stc, mode, mode_prev,
                       last_mode_completed, mode_pending>>
        /\ last_mode_requested' = "HALT"
        /\ prev_mode_requested' = last_mode_requested
        /\ stoptimer' = 0
    BY <1>3, <1>p DEF Halt, Accept, RecordDisable, servo, outputs
  <2> QED
    BY <2>1, <2>2, <1>m, <1>t
<1>4. CASE Thread(c)
  <2>1. /\ mode' \in Modes /\ mode_prev' \in Modes
        /\ stop_brake_state' \in BOOLEAN
    BY <1>4, ServoType DEF Thread
  <2>2. {record', shuttling', autoslow'} \subseteq BOOLEAN
    BY <1>4 DEF Thread, shuttle
  <2>3. /\ pc' \in Points
        /\ UNCHANGED <<velocity, solenoid, stc, last_mode_completed, mode_pending>>
        /\ lamps' = {"REW", "FWD"}
        /\ last_mode_requested' = "THREAD"
        /\ prev_mode_requested' = last_mode_requested
        /\ stoptimer' = 0
    BY <1>4, <1>p DEF Thread, Accept
  <2> QED
    BY <2>1, <2>2, <2>3, <1>m, <1>t
<1>5. CASE Stop(c)
  <2>1. {record', shuttling', autoslow', stop_brake_state'} \subseteq BOOLEAN
    BY <1>5 DEF Stop, shuttle, servo
  <2>2. /\ pc' \in Points
        /\ UNCHANGED <<velocity, solenoid, lamps, stc, mode, mode_prev,
                       last_mode_completed, mode_pending>>
        /\ last_mode_requested' = "STOP"
        /\ prev_mode_requested' = last_mode_requested
        /\ stoptimer' = 0
    BY <1>5, <1>p DEF Stop, Accept, RecordDisable, servo, outputs
  <2> QED
    BY <2>1, <2>2, <1>m, <1>t
<1>6. CASE Play(c)
  <2>1. /\ mode' \in Modes /\ mode_prev' \in Modes
        /\ stop_brake_state' \in BOOLEAN
    BY <1>6, ServoType DEF Play, servo
  <2>2. CASE IgnoredInHalt \/ mode = "PLAY"
    <3>1. {record', shuttling', autoslow', stop_brake_state'} \subseteq BOOLEAN
      BY <1>6, <2>2 DEF Play, shuttle, servo
    <3> QED
      BY <1>6, <2>1, <2>2, <3>1, <1>m, <1>t DEF Play, Accept, outputs, servo
  <2>3. CASE ~(IgnoredInHalt \/ mode = "PLAY")
    <3>1. record' = ("RECORD" \in c.flags)
      BY <1>6, <2>3 DEF Play
    <3>2. record' = TRUE \/ record' = FALSE
      BY <3>1
    <3>3. {shuttling', autoslow'} \subseteq BOOLEAN
      BY <1>6 DEF Play, shuttle
    <3>4. /\ mode_pending' = "PLAY"
          /\ UNCHANGED <<velocity, pc, last_mode_completed, solenoid, lamps, stc>>
          /\ last_mode_requested' = "PLAY"
          /\ prev_mode_requested' = last_mode_requested
          /\ stoptimer' = 0
      BY <1>6, <2>3 DEF Play, Accept, outputs
    <3> QED
      BY <2>1, <3>2, <3>3, <3>4, <1>m, <1>t
  <2> QED BY <2>2, <2>3
<1>7. ASSUME NEW m \in ShuttleModes, Shuttle(c, m)
      PROVE  TypeOK'
  <2>1. {record', shuttling', autoslow', stop_brake_state'} \subseteq BOOLEAN
    BY <1>7 DEF Shuttle, servo
  <2>2. /\ pc' \in Points
        /\ UNCHANGED <<velocity, solenoid, lamps, stc, mode, mode_prev,
                       last_mode_completed, mode_pending>>
        /\ last_mode_requested' = m
        /\ prev_mode_requested' = last_mode_requested
        /\ stoptimer' = 0
    BY <1>7, <1>p DEF Shuttle, Accept, RecordDisable, servo, outputs
  <2> QED
    BY <2>1, <2>2, <1>m, <1>t
<1> QED BY <1>1, <1>2, <1>3, <1>4, <1>5, <1>6, <1>7

(* A transfer keeps the types.                                               *)
LEMMA CoilsType ==
  ASSUME TypeOK, NEW from, NEW to \in Points,
         NEW set \in SUBSET Solenoids, NEW clear, Coils(from, to, set, clear)
  PROVE  TypeOK'
  BY DEF TypeOK, Coils, SetTransportMask, locals, progress, requests, shuttle, servo

(* So do the lamps of a mode change.                                         *)
LEMMA LightType ==
  ASSUME TypeOK, NEW m, NEW to \in Points, NEW mask \in SUBSET Lamps,
         Light(m, to, mask)
  PROVE  TypeOK'
  BY DEF TypeOK, Light, locals, progress, requests, shuttle, servo

(* Every transfer, sleep or wait that ends keeps the types.                  *)
LEMMA TypeResume ==
  ASSUME TypeOK, PointInv, Resume
  PROVE  TypeOK'
<1>p. Points = {"pend", "recordDrop", "recordOff", "accepted", "haltCoils",
                "haltMode", "stopCoils", "stopMode", "threadCoils", "threaded",
                "shuttleCoils", "ready", "lifter", "stopped", "release", "prol",
                "prebrake", "braked", "lifters", "released", "brakes",
                "stopDone", "settle", "lower", "pinch", "capstan", "playMode",
                "playHoldOn", "playHold", "playPulse", "playRecorded",
                "holdOn", "hold", "pulse", "recorded",
                "lifterOn", "lifterOff", "toggled"}
  BY DEF Points, ChangePoints, StopPoints, PlayPoints, PlayRecordPoints,
     RecordPoints, ImmediatePoints
<1>c. CASE \/ RecordDrop \/ ToggleLifters \/ RecordEnable \/ ThreadCoils
           \/ EndMotion \/ SetLifters \/ SetBrakes \/ LowerLifters
           \/ EngagePinchRoller \/ StartCapstan
  <2>1. PICK from \in Points, to \in Points, set \in SUBSET Solenoids,
             clear \in SUBSET Solenoids : Coils(from, to, set, clear)
    BY <1>c, <1>p
    DEF RecordDrop, ToggleLifters, RecordEnable, ThreadCoils, EndMotion,
        SetLifters, SetBrakes, LowerLifters, EngagePinchRoller, StartCapstan,
        CapstanOff, Solenoids
  <2> QED BY <2>1, CoilsType
<1>l. CASE HaltCoils \/ StopCoils \/ ShuttleCoils
  <2>1. \/ \E to \in Points, set \in SUBSET Solenoids, clear \in SUBSET Solenoids,
              from \in Points : Coils(from, to, set, clear)
        \/ \E m \in Modes, to \in Points, mask \in SUBSET Lamps : Light(m, to, mask)
    BY <1>l, <1>p
    DEF HaltCoils, StopCoils, ShuttleCoils, CapstanOff, Solenoids, Lamps, Modes,
        ShuttleModes
  <2> QED BY <2>1, CoilsType, LightType
<1> USE DEF TypeOK, Modes, ModesOrNone, ShuttleModes, Lamps,
            locals, requests, progress, shuttle, servo
<1>f. msg.flags \in SUBSET OpcodeFlags
  BY CommandFields
<1>n. ASSUME NEW m \in ModesOrNone, NEW f \in {msg.flags, {}, {"RECORD"}},
             NEW coils
      PROVE  Note(m, f, coils) \in Notes
  BY <1>f, NoteType DEF OpcodeFlags
<1>1. CASE RecordOff \/ LifterToggled \/ Recorded \/ LiftersReleased
  <2>1. stc' \in Notes
    BY <1>1, <1>n, NotifyType DEF RecordOff, LifterToggled, Recorded, LiftersReleased
  <2>2. /\ pc' \in Points
        /\ lamps' \in SUBSET Lamps
        /\ UNCHANGED <<mbController, locals, servo, solenoid>>
    BY <1>1, <1>p DEF RecordOff, LifterToggled, Recorded, LiftersReleased
  <2> QED BY <2>1, <2>2
<1>2. CASE HaltMode
  <2>1. stc' \in Notes
    BY <1>2, <1>n, NotifyType DEF HaltMode
  <2>2. /\ mode' \in Modes /\ mode_prev' \in Modes
        /\ stop_brake_state' \in BOOLEAN
    BY <1>2, ServoType DEF HaltMode
  <2> QED BY <1>2, <1>p, <2>1, <2>2 DEF HaltMode, Complete
<1>3. CASE Threaded
  <2>1. stc' \in Notes
    BY <1>3, <1>n, NotifyType DEF Threaded
  <2> QED BY <1>3, <1>p, <2>1 DEF Threaded, Complete
<1>4. CASE StopMode
  <2>1. stc' \in Notes
    BY <1>4, <1>n, NotifyType DEF StopMode
  <2>2. /\ mode' \in Modes /\ mode_prev' \in Modes
        /\ stop_brake_state' \in BOOLEAN
    BY <1>4, ServoType DEF StopMode
  <2> QED BY <1>4, <1>p, <2>1, <2>2 DEF StopMode
<1>5. CASE ShuttleAccepted \/ ShuttleReady \/ StopLamp
  BY <1>5, <1>p
  DEF ShuttleAccepted, ShuttleReady, StopLamp, ShuttleVelocity, ShuttleModes,
      Lamps, outputs
<1>6. CASE ShuttleStart
  <2>1. last_mode_requested \in ShuttleModes
    BY <1>6 DEF ShuttleStart, PointInv
  <2>2. stc' \in Notes
    BY <1>6, <1>n, NotifyType DEF ShuttleStart
  <2>3. /\ mode' \in Modes /\ mode_prev' \in Modes
        /\ stop_brake_state' \in BOOLEAN
    BY <1>6, <2>1, ServoType DEF ShuttleStart
  <2> QED BY <1>6, <1>p, <2>2, <2>3 DEF ShuttleStart, Complete
<1>7. CASE StopDone
  <2>1. stc' \in Notes
    BY <1>7, <1>n, NotifyType DEF StopDone
  <2>2. {record', shuttling', autoslow', stop_brake_state'} \subseteq BOOLEAN
    BY <1>7 DEF StopDone
  <2> QED BY <1>7, <1>p, <2>1, <2>2 DEF StopDone, Complete
<1>8. CASE StartPlay
  <2>1. stc' \in Notes
    BY <1>8, <1>n, NotifyType DEF StartPlay, PlayNote
  <2>2. /\ mode' \in Modes /\ mode_prev' \in Modes
        /\ stop_brake_state' \in BOOLEAN
    BY <1>8, ServoType DEF StartPlay
  <2>3. {record', shuttling', autoslow', stop_brake_state'} \subseteq BOOLEAN
    BY <1>8, <2>2 DEF StartPlay, PlayComplete
  <2>4. /\ pc' \in Points
        /\ last_mode_completed' \in ModesOrNone
        /\ mode_pending' \in {"NONE", "STOP", "PLAY"}
    BY <1>8, <1>p DEF StartPlay, PlayComplete, Complete
  <2>5. UNCHANGED <<mbController, msg, requests, stoptimer, velocity, solenoid,
                    lamps>>
    BY <1>8 DEF StartPlay
  <2> QED
    BY <2>1, <2>2, <2>3, <2>4, <2>5
<1>9. CASE PlayRecorded
  <2>1. stc' \in Notes
    BY <1>9, <1>n, NotifyType DEF PlayRecorded, PlayNote
  <2>2. {record', shuttling', autoslow', stop_brake_state'} \subseteq BOOLEAN
    BY <1>9 DEF PlayRecorded, PlayComplete
  <2> QED BY <1>9, <1>p, <2>1, <2>2 DEF PlayRecorded, PlayComplete, Complete
<1> QED
  BY <1>c, <1>l, <1>1, <1>2, <1>3, <1>4, <1>5, <1>6, <1>7, <1>8, <1>9 DEF Resume

(* Blinking makes known lamps of known lamps.                                *)
LEMMA BlinkType ==
  ASSUME TypeOK
  PROVE  BlinkLamps \in SUBSET Lamps
  BY DEF TypeOK, BlinkLamps, Invert, Lamps

(* Every time-out of the mailbox keeps the types.                            *)
LEMMA TypeTimeout ==
  ASSUME TypeOK, Timeout
  PROVE  TypeOK'
<1> USE DEF TypeOK, requests, progress, shuttle, servo, outputs
<1>1. CASE AutoSlow
  BY <1>1 DEF AutoSlow
<1>2. CASE StopTimesOut
  <2>1. /\ mode' \in Modes /\ mode_prev' \in Modes
        /\ stop_brake_state' \in BOOLEAN
    BY <1>2, ServoType DEF StopTimesOut, Modes
  <2>2. {record', shuttling', autoslow', stop_brake_state'} \subseteq BOOLEAN
    BY <1>2, <2>1 DEF StopTimesOut
  <2> QED
    BY <1>2, <2>1, <2>2, ControllerAssumption
    DEF StopTimesOut, Complete, Modes, ModesOrNone, Lamps
<1>w. ASSUME Waiting
      PROVE  stoptimer' \in 0 .. StopTimeout - 1
  BY <1>w, ControllerAssumption DEF Waiting
<1>3. CASE StillMoving
  BY <1>3, <1>w, BlinkType DEF StillMoving
<1>4. CASE StopStopped
  <2>1. pc' \in Points
    BY <1>4 DEF StopStopped, Points, StopPoints
  <2> QED BY <1>4, <1>w, <2>1, BlinkType DEF StopStopped
<1>5. CASE PlayStopped
  BY <1>5, <1>w DEF PlayStopped, Points, PlayPoints, Lamps
<1> QED BY <1>1, <1>2, <1>3, <1>4, <1>5 DEF Timeout

(* Every step keeps the types.                                               *)
LEMMA TypeNext ==
  TypeOK /\ PointInv /\ [ControllerNext]_controllerVars => TypeOK'
<1> SUFFICES ASSUME TypeOK, PointInv, [ControllerNext]_controllerVars
             PROVE  TypeOK'
  OBVIOUS
<1> USE DEF locals, requests, progress, shuttle, servo, outputs
<1>1. CASE UNCHANGED controllerVars
  BY <1>1 DEF TypeOK, controllerVars
<1>2. ASSUME NEW c \in Commands, Send(c)
      PROVE  TypeOK'
  BY <1>2, SendType DEF TypeOK, Send
<1>3. CASE ModeChange
  BY <1>3, TypeCommand DEF ModeChange
<1>4. CASE Resume
  BY <1>4, TypeResume
<1>5. CASE Timeout
  BY <1>5, TypeTimeout
<1>6. CASE ServoBrakeDone
  BY <1>6 DEF TypeOK, ServoBrakeDone
<1> QED
  BY <1>1, <1>2, <1>3, <1>4, <1>5, <1>6
  DEF ControllerNext, TransportControllerTask

-----------------------------------------------------------------------------
(* Safety                                                                    *)

(* At power-up the modes and the coils are right.                            *)
LEMMA InvInit == ControllerInit => ControllerInv
  BY DEF ControllerInit, ControllerInv, ModeInv, CoilInv, PointInv,
     PendingMeansStop, CompletedInv, PreviousInv, BrakesOffInMotion,
     LiftersInShuttle, HaltIsSafe, StopPoints, PlayPoints, PlayRecordPoints,
     RecordPoints, ImmediatePoints, ShuttleModes, Motion

(* Every command that is taken keeps the modes and the coils right.          *)
LEMMA InvCommand ==
  ASSUME TypeOK, ModeInv, NEW c \in Commands,
         \/ HandleImmediateCommand(c) \/ SkipSame(c) \/ Halt(c) \/ Thread(c)
         \/ Stop(c) \/ Play(c) \/ \E m \in ShuttleModes : Shuttle(c, m)
  PROVE  ModeInv' /\ (CoilInv => CoilInv')
<1> USE DEF ModeInv, CoilInv, PointInv, PendingMeansStop, CompletedInv,
            PreviousInv, BrakesOffInMotion, LiftersInShuttle, HaltIsSafe,
            ChangePoints, StopPoints, PlayPoints, PlayRecordPoints, RecordPoints,
            ImmediatePoints, ShuttleModes, Motion,
            progress, requests, servo, outputs, RecordDisable, Servo_SetMode
<1>r. pc = "pend" /\ mode \in Modes /\ mode_pending \in {"NONE", "STOP", "PLAY"}
  BY DEF TypeOK, Receive, HandleImmediateCommand, SkipSame, Halt, Thread, Stop,
     Play, Shuttle, Accept
<1>1. CASE HandleImmediateCommand(c)
  <2>1. CASE StrobeApplies(c) /\ RecordDisable("holdOn")
    BY <1>1, <2>1, <1>r DEF HandleImmediateCommand, Receive, StrobeApplies
  <2>2. CASE LifterApplies(c)
    BY <1>1, <2>2, <1>r
    DEF HandleImmediateCommand, LifterApplies, StrobeApplies
  <2>3. CASE UNCHANGED pc
    BY <1>1, <2>3, <1>r DEF HandleImmediateCommand
  <2> QED BY <1>1, <2>1, <2>2, <2>3 DEF HandleImmediateCommand
<1>2. CASE SkipSame(c)
  BY <1>2, <1>r DEF SkipSame
<1>3. CASE Halt(c) \/ Stop(c)
  BY <1>3, <1>r DEF Halt, Stop, Accept, Receive
<1>4. CASE Thread(c)
  BY <1>4, <1>r DEF Thread
<1>6. CASE Play(c)
  BY <1>6, <1>r DEF Play, IgnoredInHalt
<1>7. ASSUME NEW m \in ShuttleModes, Shuttle(c, m)
      PROVE  ModeInv' /\ (CoilInv => CoilInv')
  BY <1>7, <1>r DEF Shuttle, IgnoredInHalt, Accept, Receive
<1> QED BY <1>1, <1>2, <1>3, <1>4, <1>6, <1>7

(* Every transfer, sleep or wait that ends keeps the modes right.            *)
LEMMA ModeResume ==
  ASSUME TypeOK, ModeInv, Resume
  PROVE  ModeInv'
<1> USE DEF ModeInv, PointInv, PendingMeansStop, CompletedInv, PreviousInv,
            ChangePoints, StopPoints, PlayPoints, PlayRecordPoints, RecordPoints,
            ImmediatePoints, ShuttleModes, Motion, Coils, Light,
            locals, progress, requests, shuttle, servo, outputs, Servo_SetMode,
            Complete
<1>1. CASE RecordDrop \/ RecordOff
  BY <1>1 DEF RecordDrop, RecordOff
<1>2. CASE ToggleLifters \/ LifterToggled
  BY <1>2 DEF ToggleLifters, LifterToggled
<1>3. CASE RecordEnable \/ Recorded
  BY <1>3 DEF RecordEnable, Recorded
<1>4. CASE HaltCoils \/ HaltMode
  BY <1>4 DEF HaltCoils, HaltMode
<1>5. CASE ThreadCoils \/ Threaded
  BY <1>5 DEF ThreadCoils, Threaded
<1>6. CASE StopCoils \/ StopMode
  BY <1>6 DEF StopCoils, StopMode
<1>7. CASE ShuttleAccepted \/ ShuttleCoils \/ ShuttleReady
  BY <1>7 DEF ShuttleAccepted, ShuttleCoils, ShuttleReady
<1>8. CASE ShuttleStart
  BY <1>8 DEF ShuttleStart
<1>9. CASE EndMotion \/ StopLamp
  BY <1>9 DEF EndMotion, StopLamp
<1>10. CASE SetLifters \/ LiftersReleased \/ SetBrakes
  BY <1>10 DEF SetLifters, LiftersReleased, SetBrakes
<1>11. CASE StopDone
  BY <1>11 DEF StopDone
<1>12. CASE LowerLifters \/ EngagePinchRoller \/ StartCapstan
  BY <1>12 DEF LowerLifters, EngagePinchRoller, StartCapstan
<1>13. CASE StartPlay
  BY <1>13 DEF StartPlay, PlayComplete
<1>14. CASE PlayRecorded
  BY <1>14 DEF PlayRecorded, PlayComplete
<1> QED
  BY <1>1, <1>2, <1>3, <1>4, <1>5, <1>6, <1>7, <1>8, <1>9, <1>10, <1>11, <1>12,
     <1>13, <1>14
  DEF Resume

(* And the coils, when no other task writes them.                            *)
LEMMA CoilResume ==
  ASSUME TypeOK, ModeInv, CoilInv, Resume
  PROVE  CoilInv'
<1>m. /\ mode \in Modes
      /\ pc \in StopPoints \cup PlayPoints => mode = "STOP"
      /\ pc \in RecordPoints \cup PlayRecordPoints => mode = "PLAY"
      /\ pc \in ImmediatePoints => mode \in {"HALT", "STOP", "PLAY"}
      /\ pc \in {"threadCoils", "threaded"} => mode = "THREAD"
      /\ pc \in {"shuttleCoils", "ready", "lifter"} =>
           mode # "HALT" /\ last_mode_requested \in ShuttleModes
  BY DEF TypeOK, ModeInv, PointInv, PendingMeansStop, StopPoints, PlayPoints,
     PlayRecordPoints
<1> USE DEF CoilInv, BrakesOffInMotion, LiftersInShuttle, HaltIsSafe,
            StopPoints, PlayPoints, PlayRecordPoints, RecordPoints,
            ImmediatePoints, ShuttleModes, Modes, Coils, Light,
            SetTransportMask, locals, servo, outputs, Servo_SetMode, CapstanOff,
            Solenoids
<1>1. CASE RecordDrop \/ RecordOff
  BY <1>1, <1>m DEF RecordDrop, RecordOff
<1>2. CASE ToggleLifters \/ LifterToggled
  BY <1>2, <1>m DEF ToggleLifters, LifterToggled
<1>3. CASE RecordEnable \/ Recorded
  BY <1>3, <1>m DEF RecordEnable, Recorded
<1>4. CASE HaltCoils \/ HaltMode
  BY <1>4, <1>m DEF HaltCoils, HaltMode
<1>5. CASE ThreadCoils \/ Threaded
  BY <1>5, <1>m DEF ThreadCoils, Threaded
<1>6. CASE StopCoils \/ StopMode
  BY <1>6, <1>m DEF StopCoils, StopMode
<1>7. CASE ShuttleAccepted \/ ShuttleCoils \/ ShuttleReady
  BY <1>7, <1>m DEF ShuttleAccepted, ShuttleCoils, ShuttleReady
<1>8. CASE ShuttleStart
  BY <1>8, <1>m DEF ShuttleStart
<1>9. CASE EndMotion \/ StopLamp
  BY <1>9, <1>m DEF EndMotion, StopLamp
<1>10. CASE SetLifters \/ LiftersReleased \/ SetBrakes
  BY <1>10, <1>m DEF SetLifters, LiftersReleased, SetBrakes
<1>11. CASE StopDone
  BY <1>11, <1>m DEF StopDone
<1>12. CASE LowerLifters \/ EngagePinchRoller \/ StartCapstan
  BY <1>12, <1>m DEF LowerLifters, EngagePinchRoller, StartCapstan
<1>13. CASE StartPlay
  BY <1>13, <1>m DEF StartPlay, PlayComplete
<1>14. CASE PlayRecorded
  BY <1>14, <1>m DEF PlayRecorded, PlayComplete
<1> QED
  BY <1>1, <1>2, <1>3, <1>4, <1>5, <1>6, <1>7, <1>8, <1>9, <1>10, <1>11, <1>12,
     <1>13, <1>14
  DEF Resume

(* Every time-out keeps the modes and the coils right.                       *)
LEMMA InvTimeout ==
  ASSUME TypeOK, ModeInv, Timeout
  PROVE  ModeInv' /\ (CoilInv => CoilInv')
<1> USE DEF ModeInv, CoilInv, PointInv, PendingMeansStop, CompletedInv,
            PreviousInv, BrakesOffInMotion, LiftersInShuttle, HaltIsSafe,
            ChangePoints, StopPoints, PlayPoints, PlayRecordPoints, RecordPoints,
            ImmediatePoints, ShuttleModes, Motion,
            progress, requests, servo, outputs
<1>1. CASE AutoSlow
  BY <1>1 DEF AutoSlow
<1>w. ASSUME Pending
      PROVE  pc = "pend" /\ mode = "STOP" /\ mode_pending # "NONE"
  BY <1>w DEF Pending, TimedOut
<1>2. CASE StopTimesOut
  BY <1>2, <1>w DEF StopTimesOut, Servo_SetMode, Complete
<1>3. CASE StillMoving
  BY <1>3, <1>w DEF StillMoving, Waiting
<1>4. CASE StopStopped
  BY <1>4, <1>w DEF StopStopped, Waiting
<1>5. CASE PlayStopped
  BY <1>5, <1>w DEF PlayStopped, Waiting
<1> QED BY <1>1, <1>2, <1>3, <1>4, <1>5 DEF Timeout

(* Every step keeps the modes and the coils right.                           *)
LEMMA InvNext ==
  TypeOK /\ ModeInv /\ [ControllerNext]_controllerVars
    => ModeInv' /\ (CoilInv => CoilInv')
<1> SUFFICES ASSUME TypeOK, ModeInv, [ControllerNext]_controllerVars
             PROVE  ModeInv' /\ (CoilInv => CoilInv')
  OBVIOUS
<1> USE DEF ModeInv, CoilInv, PointInv, PendingMeansStop, CompletedInv,
            PreviousInv, BrakesOffInMotion, LiftersInShuttle, HaltIsSafe,
            locals, progress, requests, servo, outputs
<1>1. CASE UNCHANGED controllerVars
  BY <1>1 DEF controllerVars
<1>2. ASSUME NEW c \in Commands, Send(c)
      PROVE  ModeInv' /\ (CoilInv => CoilInv')
  BY <1>2 DEF Send
<1>3. CASE ModeChange
  BY <1>3, InvCommand DEF ModeChange
<1>4. CASE Resume
  BY <1>4, ModeResume, CoilResume
<1>5. CASE Timeout
  BY <1>5, InvTimeout
<1>6. CASE ServoBrakeDone
  BY <1>6 DEF ServoBrakeDone
<1> QED
  BY <1>1, <1>2, <1>3, <1>4, <1>5, <1>6
  DEF ControllerNext, TransportControllerTask

(* The invariant both theorems below rest on.                                *)
LEMMA Invariant == ControllerSpec => [](TypeOK /\ ControllerInv)
<1>1. ControllerInit => TypeOK /\ ControllerInv
  BY TypeInit, InvInit
<1>2. TypeOK /\ ControllerInv /\ [ControllerNext]_controllerVars
        => (TypeOK /\ ControllerInv)'
  BY TypeNext, InvNext DEF ControllerInv, ModeInv
<1> QED BY <1>1, <1>2, PTL DEF ControllerSpec

(* The controller keeps its types whatever is queued, in whatever order: the
   stop timer never reaches its limit, the mailbox never exceeds its slots,
   and a shuttle never starts without a mode.                                *)
THEOREM TypeCorrect == ControllerSpec => []TypeOK
  BY Invariant, PTL

(* A pending STOP or PLAY has the reels in STOP at every step but the latch
   of a record and a THREAD that replaces it, so the wait for the reels to
   stop is never made in a mode that moves them.                             *)
THEOREM PendingStops == ControllerSpec => []PendingMeansStop
<1>1. ControllerInv => PendingMeansStop
  BY DEF ControllerInv, ModeInv
<1> QED BY <1>1, Invariant, PTL

(* The mode recorded as completed is the mode of the servos: a command that
   is skipped as a repetition would have changed nothing.                    *)
THEOREM CompletedIsTrue == ControllerSpec => []CompletedIsServoMode
<1>1. ControllerInv => CompletedIsServoMode
  BY DEF ControllerInv, ModeInv, CompletedInv, CompletedIsServoMode
<1> QED BY <1>1, Invariant, PTL

(* The brakes are off in every mode that moves the tape, but in the two windows
   that BrakesOffInMotion names.                                             *)
THEOREM BrakesNeverDrag == ControllerSpec => []BrakesOffInMotion
<1>1. ControllerInv => BrakesOffInMotion
  BY DEF ControllerInv, CoilInv
<1> QED BY <1>1, Invariant, PTL

(* The tape is off the heads in every shuttle, up to the transfer of a HALT
   that ends it.                                                             *)
THEOREM HeadsAreSpared == ControllerSpec => []LiftersInShuttle
<1>1. ControllerInv => LiftersInShuttle
  BY DEF ControllerInv, CoilInv
<1> QED BY <1>1, Invariant, PTL

(* In HALT the capstan, the pinch roller and the record lines are off.       *)
THEOREM HaltSafety == ControllerSpec => []HaltIsSafe
<1>1. ControllerInv => HaltIsSafe
  BY DEF ControllerInv, CoilInv
<1> QED BY <1>1, Invariant, PTL

-----------------------------------------------------------------------------
(* What no step does                                                         *)

(* Four of the wake-ups change the mode.                                     *)
LEMMA OtherResumes ==
  ASSUME Resume, ~ShuttleStart, ~StartPlay, ~HaltMode, ~StopMode
  PROVE  UNCHANGED <<mode, mode_prev>>
  BY DEF Resume, RecordDrop, RecordOff, ToggleLifters, LifterToggled,
     RecordEnable, Recorded, HaltCoils, ThreadCoils, Threaded, StopCoils,
     ShuttleAccepted, ShuttleCoils, ShuttleReady, EndMotion, StopLamp, SetLifters,
     LiftersReleased, SetBrakes, StopDone, LowerLifters, EngagePinchRoller,
     StartCapstan, PlayRecorded, Coils, Light, servo

(* The ways in which a step can change the mode of the servo.                *)
LEMMA ServoSteps ==
  ASSUME TypeOK, ControllerInv, [ControllerNext]_controllerVars
  PROVE  \/ UNCHANGED <<mode, mode_prev>>
         \/ Servo_SetMode("STOP")
         \/ mode' \in {"HALT", "THREAD"}
         \/ mode # "HALT" /\ mode' \in Motion
<1> USE DEF locals, servo, Motion, ShuttleModes, RecordDisable
<1>1. CASE UNCHANGED controllerVars
  BY <1>1 DEF controllerVars
<1>2. ASSUME NEW c \in Commands, Send(c)
      PROVE  UNCHANGED <<mode, mode_prev>>
  BY <1>2 DEF Send
<1>3. CASE ModeChange
  BY <1>3
  DEF ModeChange, HandleImmediateCommand, SkipSame, Halt, Thread, Stop, Play,
      Shuttle, Servo_SetMode
<1>4. CASE ShuttleStart
  BY <1>4 DEF ShuttleStart, Servo_SetMode, ControllerInv, ModeInv, PointInv
<1>5. CASE StartPlay
  BY <1>5
  DEF StartPlay, Servo_SetMode, ControllerInv, ModeInv, PointInv,
      PendingMeansStop, PlayPoints, PlayRecordPoints
<1>6. CASE HaltMode \/ StopMode
  BY <1>6 DEF HaltMode, StopMode, Servo_SetMode
<1>7. CASE Resume /\ ~ShuttleStart /\ ~StartPlay /\ ~HaltMode /\ ~StopMode
  BY <1>7, OtherResumes
<1>8. CASE Timeout
  BY <1>8
  DEF Timeout, AutoSlow, StopTimesOut, StillMoving, StopStopped, PlayStopped
<1>9. CASE ServoBrakeDone
  BY <1>9 DEF ServoBrakeDone
<1> QED
  BY <1>1, <1>2, <1>3, <1>4, <1>5, <1>6, <1>7, <1>8, <1>9
  DEF ControllerNext, TransportControllerTask

(* Whatever takes the transport out of PLAY, FWD or REW into STOP arms dynamic
   braking, for all that Servo_SetMode tests the mode before it.             *)
THEOREM BrakeIsArmed == ControllerSpec => BrakeArmedAfterMotion
<1>1. TypeOK /\ ControllerInv /\ [ControllerNext]_controllerVars
        => [(mode \in {"PLAY", "FWD", "REW"} /\ mode' = "STOP")
              => stop_brake_state' = TRUE]_controllerVars
  <2> SUFFICES ASSUME TypeOK, ControllerInv, [ControllerNext]_controllerVars,
                      mode \in {"PLAY", "FWD", "REW"}, mode' = "STOP"
               PROVE  stop_brake_state' = TRUE
    OBVIOUS
  <2>1. Servo_SetMode("STOP")
    BY ServoSteps DEF Motion
  <2>2. mode_prev # "HALT"
    BY DEF ControllerInv, ModeInv, PreviousInv, Motion
  <2> QED BY <2>1, <2>2 DEF Servo_SetMode
<1> QED BY <1>1, Invariant, PTL DEF ControllerSpec, BrakeArmedAfterMotion

(* No command and no wake-up sets a halted transport moving.                 *)
THEOREM HaltIsLeftSafely == ControllerSpec => HaltHoldsTape
<1>1. TypeOK /\ ControllerInv /\ [ControllerNext]_controllerVars
        => [mode = "HALT" => mode' \in {"HALT", "STOP", "THREAD"}]_controllerVars
  BY ServoSteps DEF Servo_SetMode
<1> QED BY <1>1, Invariant, PTL DEF ControllerSpec, HaltHoldsTape

-----------------------------------------------------------------------------
(* What the STC was told.  Where nothing is pending its last note is of the
   present mode; a pending PLAY is the mode last requested, unless another
   mode change has been accepted since and is being carried out: the note that
   ends the PLAY names the requested mode, not the completed one.             *)
StcInv ==
  /\ /\ mode_pending = "NONE" /\ mode # "STOP"
     /\ pc \notin {"threadCoils", "threaded"}
     => stc.mode \in {mode, "NONE"}
  /\ /\ mode_pending = "PLAY"
     /\ pc \notin {"recordDrop", "recordOff"} \cup ChangePoints
     => last_mode_requested = "PLAY"

(* A note that is not lost is what the STC then has.                         *)
LEMMA NoteArrives ==
  ASSUME ~NotifyLossy,
         NEW earlier, NEW m, NEW flags, NEW coils,
         IPC_Notify(earlier, {Note(m, flags, coils)})
  PROVE  stc'.mode = m
  BY DEF IPC_Notify, Note

(* At power-up the STC has been told no mode.                                *)
LEMMA StcInit == ControllerInit => StcInv
  BY DEF ControllerInit, StcInv, Note

(* Taking a command tells the STC nothing.                                   *)
LEMMA StcCommand ==
  ASSUME TypeOK, ControllerInv, StcInv, NEW c \in Commands,
         \/ HandleImmediateCommand(c) \/ SkipSame(c) \/ Halt(c) \/ Thread(c)
         \/ Stop(c) \/ Play(c) \/ \E m \in ShuttleModes : Shuttle(c, m)
  PROVE  StcInv'
<1> USE DEF StcInv, ChangePoints, progress, requests, servo, outputs,
            Servo_SetMode, RecordDisable
<1>r. /\ pc = "pend"
      /\ mode_pending # "NONE" => mode = "STOP"
  BY DEF Receive, HandleImmediateCommand, SkipSame, Halt, Thread, Stop,
     Play, Shuttle, Accept, ControllerInv, ModeInv, PendingMeansStop,
     PlayRecordPoints
<1>1. CASE HandleImmediateCommand(c) \/ SkipSame(c)
  BY <1>1, <1>r DEF HandleImmediateCommand, SkipSame
<1>3. CASE Halt(c) \/ Stop(c)
  BY <1>3, <1>r DEF Halt, Stop
<1>4. CASE Thread(c)
  BY <1>4, <1>r DEF Thread
<1>6. CASE Play(c)
  BY <1>6, <1>r DEF Play, Accept, IgnoredInHalt
<1>7. ASSUME NEW m \in ShuttleModes, Shuttle(c, m)
      PROVE  StcInv'
  BY <1>7, <1>r DEF Shuttle, IgnoredInHalt
<1> QED BY <1>1, <1>3, <1>4, <1>6, <1>7

(* The ends of transfers, sleeps and waits, when no note is lost.            *)
LEMMA StcResume ==
  ASSUME ~NotifyLossy, TypeOK, ControllerInv, StcInv, Resume
  PROVE  StcInv'
<1> USE DEF StcInv, ControllerInv, ModeInv, PointInv, PendingMeansStop,
            ChangePoints, StopPoints, PlayPoints, PlayRecordPoints, RecordPoints,
            ImmediatePoints, ShuttleModes, Coils, Light, locals, progress,
            requests, shuttle, servo, outputs, Servo_SetMode, Complete
<1>1. CASE RecordDrop
  BY <1>1 DEF RecordDrop
<1>2. CASE RecordOff
  BY <1>2, NoteArrives DEF RecordOff
<1>3. CASE LifterToggled \/ Recorded \/ LiftersReleased
  BY <1>3, NoteArrives DEF LifterToggled, Recorded, LiftersReleased
<1>4. CASE ToggleLifters \/ RecordEnable
  BY <1>4 DEF ToggleLifters, RecordEnable
<1>5. CASE HaltCoils \/ StopCoils \/ ShuttleCoils
  BY <1>5 DEF HaltCoils, StopCoils, ShuttleCoils
<1>6. CASE HaltMode
  BY <1>6, NoteArrives DEF HaltMode
<1>7. CASE ThreadCoils
  BY <1>7 DEF ThreadCoils
<1>8. CASE Threaded
  BY <1>8, NoteArrives DEF Threaded
<1>9. CASE StopMode
  BY <1>9 DEF StopMode
<1>10. CASE ShuttleAccepted
  BY <1>10 DEF ShuttleAccepted
<1>11. CASE ShuttleReady
  BY <1>11 DEF ShuttleReady
<1>12. CASE ShuttleStart
  BY <1>12, NoteArrives DEF ShuttleStart
<1>13. CASE EndMotion \/ StopLamp \/ SetLifters \/ SetBrakes
  BY <1>13 DEF EndMotion, StopLamp, SetLifters, SetBrakes
<1>14. CASE StopDone
  BY <1>14 DEF StopDone
<1>15. CASE LowerLifters \/ EngagePinchRoller \/ StartCapstan
  BY <1>15 DEF LowerLifters, EngagePinchRoller, StartCapstan
<1>16. CASE StartPlay
  BY <1>16, NoteArrives DEF StartPlay, PlayComplete, PlayNote
<1>17. CASE PlayRecorded
  BY <1>17, NoteArrives DEF PlayRecorded, PlayComplete, PlayNote
<1> QED
  BY <1>1, <1>2, <1>3, <1>4, <1>5, <1>6, <1>7, <1>8, <1>9, <1>10, <1>11, <1>12,
     <1>13, <1>14, <1>15, <1>16, <1>17
  DEF Resume

(* Time-outs of the mailbox.                                                 *)
LEMMA StcTimeout ==
  ASSUME TypeOK, ControllerInv, StcInv, Timeout
  PROVE  StcInv'
<1> USE DEF StcInv, ChangePoints, progress, requests, servo, outputs
<1>1. CASE AutoSlow
  BY <1>1 DEF AutoSlow
<1>2. CASE StopTimesOut
  BY <1>2 DEF StopTimesOut, Servo_SetMode, Complete
<1>3. CASE StillMoving
  BY <1>3 DEF StillMoving
<1>4. CASE StopStopped
  BY <1>4 DEF StopStopped, Waiting, Pending, TimedOut
<1>5. CASE PlayStopped
  BY <1>5 DEF PlayStopped, Waiting, Pending, TimedOut
<1> QED BY <1>1, <1>2, <1>3, <1>4, <1>5 DEF Timeout

(* When no note is lost every step keeps what the STC is told true.          *)
LEMMA StcNext ==
  /\ ~NotifyLossy /\ TypeOK /\ ControllerInv /\ StcInv
  /\ [ControllerNext]_controllerVars
  => StcInv'
<1> SUFFICES ASSUME ~NotifyLossy, TypeOK, ControllerInv, StcInv,
                    [ControllerNext]_controllerVars
             PROVE  StcInv'
  OBVIOUS
<1> USE DEF StcInv, locals, progress, requests, servo, outputs
<1>1. CASE UNCHANGED controllerVars
  BY <1>1 DEF controllerVars
<1>2. ASSUME NEW c \in Commands, Send(c)
      PROVE  StcInv'
  BY <1>2 DEF Send
<1>3. CASE ModeChange
  BY <1>3, StcCommand DEF ModeChange
<1>4. CASE Resume
  BY <1>4, StcResume
<1>5. CASE Timeout
  BY <1>5, StcTimeout
<1>6. CASE ServoBrakeDone
  BY <1>6 DEF ServoBrakeDone
<1> QED
  BY <1>1, <1>2, <1>3, <1>4, <1>5, <1>6
  DEF ControllerNext, TransportControllerTask

(* When no notification is dropped for want of a buffer, the STC shows the mode
   the transport is in whenever the controller rests, STOP apart (the stop
   time-out tells nobody): whatever commands overtook a pending PLAY.        *)
THEOREM StcShowsTheMode == ~NotifyLossy /\ ControllerSpec => []StcTracksMode
<1> SUFFICES ASSUME ~NotifyLossy PROVE ControllerSpec => []StcTracksMode
  OBVIOUS
<1>1. StcInv => StcTracksMode
  BY DEF StcInv, StcTracksMode
<1>2. TypeOK /\ ControllerInv /\ StcInv /\ [ControllerNext]_controllerVars
        => StcInv'
  BY StcNext
<1> QED BY <1>1, <1>2, StcInit, Invariant, PTL DEF ControllerSpec

-----------------------------------------------------------------------------
(* Orderly sends                                                             *)

(* An orderly environment is an environment of the controller.               *)
LEMMA OrderlyIsController ==
  [OrderlyNext]_controllerVars => [ControllerNext]_controllerVars
  BY DEF OrderlyNext, ControllerNext, OrderlySend

(* At power-up nothing is recorded and no command is queued.                 *)
LEMMA OrderlyInit == ControllerInit => OrderlyInv
  BY DEF ControllerInit, OrderlyInv, RecordInv, CapstanInv, ThreadInv,
     RecordLampTrue, RecordOn, Latching, ChangePoints

(* Taking a command leaves no THREAD behind it; a THREAD is taken in HALT.    *)
LEMMA ReceiveOrderly ==
  ASSUME TypeOK, ThreadInv, NEW c \in Commands, Receive(c)
  PROVE  /\ c.op = "THREAD" => mode = "HALT"
         /\ \A i \in 1 .. Len(mbController') : mbController'[i].op # "THREAD"
<1>1. /\ Len(mbController) \in Nat \ {0}
      /\ c = mbController[1]
  BY DEF TypeOK, Receive
<1>2. /\ Len(mbController') = Len(mbController) - 1
      /\ \A i \in 1 .. Len(mbController') :
           mbController'[i] = mbController[i + 1]
  BY DEF TypeOK, Receive
<1>3. c.op = "THREAD" => mode = "HALT"
  BY <1>1 DEF ThreadInv
<1>4. ASSUME NEW i \in 1 .. Len(mbController')
      PROVE  mbController'[i].op # "THREAD"
  <2>1. i + 1 \in 1 .. Len(mbController) /\ i + 1 # 1
    BY <1>1, <1>2
  <2> QED BY <1>2, <2>1 DEF ThreadInv
<1> QED BY <1>3, <1>4

(* A step keeps the record line in order, and with it the lamp and the capstan
   if they were.                                                             *)
OrderlyStep ==
  /\ RecordInv'
  /\ RecordLampTrue => RecordLampTrue'
  /\ CapstanInv => CapstanInv'

(* Every command that is taken, with orderly sends.                          *)
LEMMA OrderlyCommand ==
  ASSUME TypeOK, ModeInv, RecordInv, NEW c \in Commands,
         \/ HandleImmediateCommand(c) \/ SkipSame(c) \/ Halt(c) \/ Thread(c)
         \/ Stop(c) \/ Play(c) \/ \E m \in ShuttleModes : Shuttle(c, m)
  PROVE  OrderlyStep
<1>r. Receive(c)
  BY DEF HandleImmediateCommand, SkipSame, Halt, Thread, Stop, Play, Shuttle,
     Accept
<1>t. ThreadInv'
  BY <1>r, ReceiveOrderly DEF RecordInv, ThreadInv
<1>h. c.op = "THREAD" => mode = "HALT"
  BY <1>r, ReceiveOrderly DEF RecordInv
<1>p. pc = "pend" /\ mode \in Modes
  BY <1>r DEF Receive, TypeOK
<1> USE DEF OrderlyStep, RecordInv, CapstanInv, RecordLampTrue, Latching,
            ChangePoints, RecordOn, ShuttleModes, Servo_SetMode, RecordDisable,
            servo, outputs
<1>1. CASE HandleImmediateCommand(c)
  BY <1>1, <1>t, <1>p DEF HandleImmediateCommand
<1>2. CASE SkipSame(c)
  BY <1>2, <1>t, <1>p DEF SkipSame
<1>3. CASE Halt(c) \/ Stop(c)
  BY <1>3, <1>t, <1>p DEF Halt, Stop
<1>4. CASE Thread(c)
  BY <1>4, <1>t, <1>p, <1>h DEF Thread, Accept
<1>6. CASE Play(c)
  BY <1>6, <1>t, <1>p DEF Play
<1>7. ASSUME NEW m \in ShuttleModes, Shuttle(c, m)
      PROVE  OrderlyStep
  BY <1>7, <1>t, <1>p DEF Shuttle
<1> HIDE DEF OrderlyStep
<1> QED BY <1>1, <1>2, <1>3, <1>4, <1>6, <1>7

(* A controller that resumes is not at its mailbox, and leaves it alone.      *)
LEMMA ResumeFrom ==
  ASSUME Resume
  PROVE  pc # "pend" /\ mbController' = mbController
  BY DEF Resume, RecordDrop, RecordOff, ToggleLifters, LifterToggled,
     RecordEnable, Recorded, HaltCoils, HaltMode, ThreadCoils, Threaded,
     StopCoils, StopMode, ShuttleAccepted, ShuttleCoils, ShuttleReady, ShuttleStart,
     EndMotion, StopLamp, SetLifters, LiftersReleased, SetBrakes, StopDone,
     LowerLifters, EngagePinchRoller, StartCapstan, StartPlay, PlayRecorded,
     Coils, Light

(* No THREAD waits for it then.                                              *)
LEMMA ResumeThread ==
  ASSUME ThreadInv, Resume
  PROVE  ThreadInv'
  BY ResumeFrom DEF ThreadInv

(* Every transfer, sleep or wait that ends, with orderly sends.              *)
LEMMA OrderlyResume ==
  ASSUME TypeOK, ModeInv, RecordInv, Resume
  PROVE  OrderlyStep
<1>t. ThreadInv'
  BY ResumeThread DEF RecordInv
<1>s. /\ pc \in StopPoints \cup PlayPoints => mode = "STOP"
      /\ pc \in RecordPoints \cup PlayRecordPoints => mode = "PLAY"
      /\ pc \in {"threadCoils", "threaded"} => mode = "THREAD"
  BY DEF ModeInv, PointInv, PendingMeansStop, StopPoints, PlayPoints,
     PlayRecordPoints
<1> USE DEF OrderlyStep, RecordInv, CapstanInv, RecordLampTrue, Latching,
            ChangePoints, StopPoints, PlayPoints, PlayRecordPoints, RecordPoints,
            RecordOn, SetTransportMask, Servo_SetMode, CapstanOff, Solenoids,
            Coils, Light, ShuttleModes, locals, servo, outputs
<1>1. CASE RecordDrop \/ RecordOff
  BY <1>1, <1>t DEF RecordDrop, RecordOff
<1>2. CASE ToggleLifters \/ LifterToggled
  BY <1>2, <1>t DEF ToggleLifters, LifterToggled
<1>3. CASE RecordEnable \/ Recorded
  BY <1>3, <1>t, <1>s DEF RecordEnable, Recorded
<1>4. CASE HaltCoils \/ HaltMode
  BY <1>4, <1>t DEF HaltCoils, HaltMode
<1>5. CASE ThreadCoils \/ Threaded
  BY <1>5, <1>t, <1>s DEF ThreadCoils, Threaded
<1>6. CASE StopCoils \/ StopMode
  BY <1>6, <1>t DEF StopCoils, StopMode
<1>7. CASE ShuttleAccepted \/ ShuttleCoils \/ ShuttleReady
  BY <1>7, <1>t DEF ShuttleAccepted, ShuttleCoils, ShuttleReady
<1>8. CASE ShuttleStart
  BY <1>8, <1>t DEF ShuttleStart
<1>9. CASE EndMotion \/ StopLamp
  BY <1>9, <1>t, <1>s DEF EndMotion, StopLamp
<1>10. CASE SetLifters \/ LiftersReleased \/ SetBrakes
  BY <1>10, <1>t, <1>s DEF SetLifters, LiftersReleased, SetBrakes
<1>11. CASE StopDone
  BY <1>11, <1>t, <1>s DEF StopDone
<1>12. CASE LowerLifters \/ EngagePinchRoller \/ StartCapstan
  BY <1>12, <1>t, <1>s DEF LowerLifters, EngagePinchRoller, StartCapstan
<1>13. CASE StartPlay
  BY <1>13, <1>t, <1>s DEF StartPlay, PlayComplete
<1>14. CASE PlayRecorded
  BY <1>14, <1>t, <1>s DEF PlayRecorded, PlayComplete
<1> HIDE DEF OrderlyStep
<1> QED
  BY <1>1, <1>2, <1>3, <1>4, <1>5, <1>6, <1>7, <1>8, <1>9, <1>10, <1>11, <1>12,
     <1>13, <1>14
  DEF Resume

(* Every time-out of the mailbox, with orderly sends.                        *)
LEMMA OrderlyTimeout ==
  ASSUME TypeOK, ModeInv, RecordInv, Timeout
  PROVE  OrderlyStep
<1>t. ThreadInv'
  BY DEF RecordInv, ThreadInv, Timeout, AutoSlow, StopTimesOut, StillMoving,
     StopStopped, PlayStopped, Pending, TimedOut, Waiting
<1>p. pc = "pend"
  BY DEF Timeout, AutoSlow, StopTimesOut, StillMoving, StopStopped, PlayStopped,
     Pending, TimedOut, Waiting
<1>s. ASSUME Pending
      PROVE  mode = "STOP"
  BY <1>s DEF Pending, TimedOut, ModeInv, PendingMeansStop, PlayRecordPoints
<1>b. "REC" \notin lamps => "REC" \notin BlinkLamps
  BY DEF BlinkLamps, Invert
<1> USE DEF OrderlyStep, RecordInv, CapstanInv, RecordLampTrue,
            Latching, ChangePoints, RecordOn, servo, outputs
<1>1. CASE AutoSlow
  BY <1>1, <1>t, <1>p DEF AutoSlow
<1>2. CASE StopTimesOut
  BY <1>2, <1>t, <1>p, <1>s DEF StopTimesOut, Servo_SetMode
<1>3. CASE StillMoving
  BY <1>3, <1>t, <1>p, <1>s, <1>b DEF StillMoving, Waiting
<1>4. CASE StopStopped
  BY <1>4, <1>t, <1>p, <1>s, <1>b DEF StopStopped, Waiting
<1>5. CASE PlayStopped
  BY <1>5, <1>t, <1>p, <1>s DEF PlayStopped, Waiting
<1> QED BY <1>1, <1>2, <1>3, <1>4, <1>5 DEF Timeout

(* An orderly send queues THREAD only where it will be taken in HALT.        *)
LEMMA OrderlySent ==
  ASSUME TypeOK, ThreadInv, NEW c \in Commands, OrderlySend(c)
  PROVE  ThreadInv'
<1>1. /\ Len(mbController) \in Nat
      /\ mbController' = Append(mbController, c)
      /\ UNCHANGED <<mode, pc>>
  BY DEF TypeOK, OrderlySend, Send, QueueTransportCommand, servo
<1>2. SUFFICES ASSUME NEW i \in 1 .. Len(mbController'),
                      mbController'[i].op = "THREAD"
               PROVE  i = 1 /\ mode' = "HALT" /\ pc' = "pend"
  BY DEF ThreadInv
<1>3. CASE i = Len(mbController) + 1
  <2>1. mbController'[i] = c
    BY <1>1, <1>3 DEF TypeOK
  <2>2. mode = "HALT" /\ pc = "pend" /\ mbController = <<>>
    BY <1>2, <2>1 DEF OrderlySend
  <2> QED BY <1>1, <1>3, <2>2
<1>4. CASE i \in 1 .. Len(mbController)
  <2>1. mbController'[i] = mbController[i]
    BY <1>1, <1>4 DEF TypeOK
  <2> QED BY <1>1, <1>2, <1>4, <2>1 DEF ThreadInv
<1> QED BY <1>1, <1>3, <1>4 DEF TypeOK

(* Every step, with orderly sends.                                           *)
LEMMA OrderlyNextStep ==
  TypeOK /\ ModeInv /\ RecordInv /\ [OrderlyNext]_controllerVars
    => OrderlyStep
<1> SUFFICES ASSUME TypeOK, ModeInv, RecordInv, [OrderlyNext]_controllerVars
             PROVE  OrderlyStep
  OBVIOUS
<1>1. CASE UNCHANGED controllerVars
  BY <1>1 DEF controllerVars, OrderlyStep, RecordInv, CapstanInv,
     ThreadInv, RecordLampTrue, Latching, RecordOn, servo, outputs
<1>2. ASSUME NEW c \in Commands, OrderlySend(c)
      PROVE  OrderlyStep
  <2>1. ThreadInv'
    BY <1>2, OrderlySent DEF RecordInv
  <2> QED
    BY <1>2, <2>1
    DEF OrderlySend, Send, OrderlyStep, RecordInv, CapstanInv,
        RecordLampTrue, Latching, RecordOn, servo, outputs
<1>3. CASE ModeChange
  BY <1>3, OrderlyCommand DEF ModeChange
<1>4. CASE Resume
  BY <1>4, OrderlyResume
<1>5. CASE Timeout
  BY <1>5, OrderlyTimeout
<1>6. CASE ServoBrakeDone
  BY <1>6
  DEF ServoBrakeDone, OrderlyStep, RecordInv, CapstanInv, ThreadInv,
      RecordLampTrue, Latching, RecordOn, outputs
<1> QED
  BY <1>1, <1>2, <1>3, <1>4, <1>5, <1>6
  DEF OrderlyNext, TransportControllerTask

(* The inductive invariant of the controller with orderly sends.             *)
LEMMA OrderlyInvariant ==
  OrderlySpec => [](TypeOK /\ ControllerInv /\ OrderlyInv)
<1>1. ControllerInit => TypeOK /\ ControllerInv /\ OrderlyInv
  BY TypeInit, InvInit, OrderlyInit
<1>2. TypeOK /\ ControllerInv /\ OrderlyInv /\ [OrderlyNext]_controllerVars
        => (TypeOK /\ ControllerInv /\ OrderlyInv)'
  BY TypeNext, InvNext, OrderlyNextStep, OrderlyIsController
  DEF ControllerInv, ModeInv, OrderlyInv, OrderlyStep
<1> QED BY <1>1, <1>2, PTL DEF OrderlySpec

(* Channels are in record only in PLAY; the capstan runs in PLAY and in the
   window before it, where the reels stand in STOP.                          *)
THEOREM RecordsOnlyInPlay == OrderlySpec => []RecordOnlyInPlay
<1>1. OrderlyInv => RecordOnlyInPlay
  BY DEF OrderlyInv, RecordInv, CapstanInv, RecordOnlyInPlay
<1> QED BY <1>1, OrderlyInvariant, PTL

(* The record lamp tells the truth, but while the latch is set and in the
   window between the hold line and the lamp.                                *)
THEOREM RecordLampIsTrue == OrderlySpec => []RecordLampTrue
<1>1. OrderlyInv => RecordLampTrue
  BY DEF OrderlyInv
<1> QED BY <1>1, OrderlyInvariant, PTL

-----------------------------------------------------------------------------
(* The controller implements TransportMode                                   *)

(* A command that is taken is a step of TransportMode or none.               *)
LEMMA PromiseCommand ==
  ASSUME TypeOK, ControllerInv, OrderlyInv, NEW c \in Commands,
         \/ HandleImmediateCommand(c) \/ SkipSame(c) \/ Halt(c) \/ Thread(c)
         \/ Stop(c) \/ Play(c) \/ \E m \in ShuttleModes : Shuttle(c, m)
  PROVE  Promise!Next \/ UNCHANGED <<mode, RecordOn>>
<1>h. c.op = "THREAD" => mode = "HALT"
  <2>1. Receive(c)
    BY DEF HandleImmediateCommand, SkipSame, Halt, Thread, Stop, Play, Shuttle,
       Accept
  <2> QED BY <2>1, ReceiveOrderly DEF OrderlyInv, RecordInv
<1> USE DEF RecordOn, RecordDisable, Servo_SetMode, servo, outputs
<1>1. CASE HandleImmediateCommand(c) \/ SkipSame(c) \/ Halt(c) \/ Stop(c)
  BY <1>1 DEF HandleImmediateCommand, SkipSame, Halt, Stop
<1>2. CASE Thread(c)
  <2>1. Promise!Thread
    BY <1>2, <1>h DEF Thread, Accept, Promise!Thread
  <2> QED BY <2>1 DEF Promise!Next
<1>3. CASE Play(c)
  <2>1. CASE IgnoredInHalt \/ mode = "PLAY"
    BY <1>3, <2>1 DEF Play
  <2>2. CASE ~(IgnoredInHalt \/ mode = "PLAY")
    <3>1. Promise!Stop
      BY <1>3, <2>2 DEF Play, OrderlyInv, RecordInv, Promise!Stop
    <3> QED BY <3>1 DEF Promise!Next
  <2> QED BY <2>1, <2>2
<1>4. ASSUME NEW m \in ShuttleModes, Shuttle(c, m)
      PROVE  Promise!Next \/ UNCHANGED <<mode, RecordOn>>
  BY <1>4 DEF Shuttle
<1> QED BY <1>1, <1>2, <1>3, <1>4

(* A transfer that leaves the mode ends a recording, begins one in PLAY, or
   does neither.                                                             *)
LEMMA PromiseRecord ==
  ASSUME UNCHANGED mode, RecordOn' => RecordOn \/ mode = "PLAY"
  PROVE  Promise!Next \/ UNCHANGED <<mode, RecordOn>>
<1>b. RecordOn \in BOOLEAN /\ RecordOn' \in BOOLEAN
  BY DEF RecordOn
<1>1. CASE RecordOn /\ ~RecordOn'
  <2>1. Promise!PunchOut
    BY <1>1, <1>b DEF Promise!PunchOut
  <2> QED BY <2>1 DEF Promise!Next
<1>2. CASE ~RecordOn /\ RecordOn'
  <2>1. Promise!PunchIn
    BY <1>2, <1>b DEF Promise!PunchIn
  <2> QED BY <2>1 DEF Promise!Next
<1> QED BY <1>1, <1>2, <1>b

(* Record is switched on by RecordEnable only.                               *)
LEMMA RecordOnlyEnabled ==
  ASSUME Resume, ~RecordEnable
  PROVE  RecordOn' => RecordOn
<1> USE DEF RecordOn, SetTransportMask, Coils, Light, outputs
<1>1. CASE \/ RecordDrop \/ ToggleLifters \/ HaltCoils \/ ThreadCoils
           \/ StopCoils \/ ShuttleCoils
  BY <1>1
  DEF RecordDrop, ToggleLifters, HaltCoils, ThreadCoils, StopCoils, ShuttleCoils
<1>2. CASE \/ EndMotion \/ SetLifters \/ SetBrakes \/ LowerLifters
           \/ EngagePinchRoller \/ StartCapstan
  BY <1>2
  DEF EndMotion, SetLifters, SetBrakes, LowerLifters, EngagePinchRoller,
      StartCapstan
<1>3. CASE \/ RecordOff \/ LifterToggled \/ Recorded \/ HaltMode \/ Threaded
           \/ StopMode \/ ShuttleAccepted \/ ShuttleReady \/ ShuttleStart
           \/ StopLamp \/ LiftersReleased \/ StopDone \/ StartPlay
           \/ PlayRecorded
  BY <1>3
  DEF RecordOff, LifterToggled, Recorded, HaltMode, Threaded, StopMode,
      ShuttleAccepted, ShuttleReady, ShuttleStart, StopLamp, LiftersReleased,
      StopDone, StartPlay, PlayRecorded
<1> QED BY <1>1, <1>2, <1>3 DEF Resume

(* The end of a transfer, a sleep or a wait is a step of TransportMode or
   none.                                                                     *)
LEMMA PromiseResume ==
  ASSUME TypeOK, ControllerInv, OrderlyInv, Resume
  PROVE  Promise!Next \/ UNCHANGED <<mode, RecordOn>>
<1>1. CASE ShuttleStart
  <2>1. /\ mode # "HALT" /\ ~RecordOn
        /\ last_mode_requested \in ShuttleModes
    BY <1>1 DEF ShuttleStart, ControllerInv, ModeInv, PointInv, OrderlyInv,
      RecordInv, ChangePoints
  <2>2. Promise!Shuttle(last_mode_requested)
    BY <1>1, <2>1 DEF ShuttleStart, Promise!Shuttle, RecordOn, Servo_SetMode
  <2> QED BY <2>1, <2>2 DEF Promise!Next, ShuttleModes
<1>2. CASE StartPlay
  <2>1. mode = "STOP"
    BY <1>2
    DEF StartPlay, ControllerInv, ModeInv, PointInv, PendingMeansStop,
        PlayPoints, PlayRecordPoints
  <2>2. Promise!StartPlay
    BY <1>2, <2>1 DEF StartPlay, Promise!StartPlay, RecordOn, Servo_SetMode
  <2> QED BY <2>2 DEF Promise!Next
<1>3. CASE HaltMode
  <2>1. Promise!Halt
    BY <1>3
    DEF HaltMode, OrderlyInv, RecordInv, ChangePoints, Promise!Halt, RecordOn,
        Servo_SetMode
  <2> QED BY <2>1 DEF Promise!Next
<1>4. CASE StopMode
  <2>1. Promise!Stop
    BY <1>4
    DEF StopMode, OrderlyInv, RecordInv, ChangePoints, Promise!Stop, RecordOn,
        Servo_SetMode
  <2> QED BY <2>1 DEF Promise!Next
<1>5. CASE RecordEnable
  <2>1. mode = "PLAY" /\ UNCHANGED mode
    BY <1>5
    DEF RecordEnable, Coils, servo, ControllerInv, ModeInv, PointInv,
        PendingMeansStop, RecordPoints, PlayRecordPoints
  <2> QED BY <2>1, PromiseRecord
<1>6. CASE ~ShuttleStart /\ ~StartPlay /\ ~HaltMode /\ ~StopMode /\ ~RecordEnable
  BY <1>6, OtherResumes, RecordOnlyEnabled, PromiseRecord
<1> QED BY <1>1, <1>2, <1>3, <1>4, <1>5, <1>6

(* A time-out of the mailbox is a step of TransportMode or none.             *)
LEMMA PromiseTimeout ==
  ASSUME TypeOK, ControllerInv, OrderlyInv, Timeout
  PROVE  Promise!Next \/ UNCHANGED <<mode, RecordOn>>
<1> USE DEF RecordOn, servo, outputs
<1>s. ASSUME Pending
      PROVE  mode = "STOP" /\ ~RecordOn
  BY <1>s
  DEF Pending, TimedOut, ControllerInv, ModeInv, PendingMeansStop,
      PlayRecordPoints, OrderlyInv, RecordInv
<1>1. CASE AutoSlow
  BY <1>1 DEF AutoSlow
<1>2. CASE StopTimesOut
  <2>1. Promise!Stop
    BY <1>2, <1>s DEF StopTimesOut, Servo_SetMode, Promise!Stop
  <2> QED BY <2>1 DEF Promise!Next
<1>3. CASE StillMoving
  BY <1>3 DEF StillMoving
<1>4. CASE StopStopped \/ PlayStopped
  BY <1>4, <1>s
  DEF StopStopped, PlayStopped, Waiting
<1> QED BY <1>1, <1>2, <1>3, <1>4 DEF Timeout

(* Under orderly sends the controller implements TransportMode: THREAD only
   from HALT, a shuttle never from HALT nor in record, PLAY only from STOP,
   a punch in only in PLAY.                                                  *)
THEOREM KeepsItsPromise == OrderlySpec => KeepsPromise
<1>1. ControllerInit => Promise!Init
  BY DEF ControllerInit, RecordOn, Promise!Init
<1>2. TypeOK /\ ControllerInv /\ OrderlyInv /\ [OrderlyNext]_controllerVars
        => [Promise!Next]_(Promise!vars)
  <2> SUFFICES ASSUME TypeOK, ControllerInv, OrderlyInv,
                      [OrderlyNext]_controllerVars
               PROVE  Promise!Next \/ UNCHANGED <<mode, RecordOn>>
    BY DEF Promise!vars
  <2>1. CASE UNCHANGED controllerVars
    BY <2>1 DEF controllerVars, servo, outputs, RecordOn
  <2>2. ASSUME NEW c \in Commands, OrderlySend(c)
        PROVE  UNCHANGED <<mode, RecordOn>>
    BY <2>2 DEF OrderlySend, Send, servo, outputs, RecordOn
  <2>3. CASE ModeChange
    BY <2>3, PromiseCommand DEF ModeChange
  <2>4. CASE Resume
    BY <2>4, PromiseResume
  <2>5. CASE Timeout
    BY <2>5, PromiseTimeout
  <2>6. CASE ServoBrakeDone
    BY <2>6 DEF ServoBrakeDone, outputs, RecordOn
  <2> QED
    BY <2>1, <2>2, <2>3, <2>4, <2>5, <2>6
    DEF OrderlyNext, TransportControllerTask
<1> QED
  BY <1>1, <1>2, OrderlyInvariant, PTL DEF OrderlySpec, KeepsPromise, Promise!Spec
=============================================================================
