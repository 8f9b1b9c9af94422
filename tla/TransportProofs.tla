-------------------------- MODULE TransportProofs --------------------------
(***************************************************************************)
(* Proofs about the tasks beside the controller.                           *)
(*                                                                         *)
(* Transport: the tasks that command it are, by their priorities, an       *)
(* environment as OrderlySpec assumes it, so that all that is proved of    *)
(* OrderlySpec holds of them together.                                     *)
(*                                                                         *)
(* Diagnostics: a test breaks what the controller alone guarantees of the  *)
(* coils and the lamps (the brakes may be set in motion, the capstan       *)
(* started in HALT).  What survives is what the controller knows of the    *)
(* modes (ModeInv) and of the record line (RecordInv): the lemmas about    *)
(* its steps assume no more.  On them rest the two halves of               *)
(* TestsAreUndone: what a test leaves of the coils, and what the lamp test *)
(* leaves of the record lamp.                                              *)
(***************************************************************************)
EXTENDS Transport, Diagnostics, TransportControllerProofs

-----------------------------------------------------------------------------
(* The tasks that command, without the types of the controller.              *)
CommanderTypes ==
  /\ g_tape_out_flag \in BOOLEAN
  /\ tout_prev \in SUBSET Switches
  /\ mbCommander \in Seq(SUBSET Switches)
  /\ Len(mbCommander) <= CommanderSize
  /\ commander \in {"pend", "decide", "post"}
  /\ mbutton \in SUBSET Switches
  /\ queued \in Commands \cup {NoCommand}
  /\ commander = "post" <=> queued # NoCommand
  /\ firststate \in BOOLEAN
  /\ ipcBlocked \in IpcCommands \cup {NoCommand}

(* A controller that can do nothing before it gets a command, and that no task
   of the STC is about to give one.                                          *)
Waits ==
  /\ mode = "HALT" /\ pc = "pend" /\ mbController = <<>>
  /\ ipcBlocked = NoCommand

(* Between its reading of the mode and its post the commander is not let in
   unless the controller has nothing to do: in HALT that lasts.              *)
ThreadIsAwaited == queued.op = "THREAD" => Waits

-----------------------------------------------------------------------------
(* The commands and switches of Transport are commands and switches.        *)
LEMMA CommanderSets ==
  /\ ButtonCommands \subseteq Commands
  /\ IpcCommands \subseteq Commands
  /\ \A c \in IpcCommands : c.op # "THREAD"
  /\ NoCommand \notin Commands /\ NoCommand.op # "THREAD"
  /\ \A bits \in Buttons \cup {{}} : bits \in SUBSET Switches
  /\ UNION Buttons \in SUBSET Switches
<1>1. NoCommand \notin Commands /\ NoCommand.op # "THREAD"
  BY ControllerAssumption DEF IsCommand, NoCommand
<1> QED BY <1>1, TransportAssumption

(* In HALT the controller is not in a sleep, and nothing is pending.          *)
LEMMA HaltIsAwake ==
  ASSUME TypeOK, ModeInv, mode = "HALT"
  PROVE  pc \notin SleepPoints /\ mode_pending = "NONE"
<1>1. mode_pending = "NONE"
  BY DEF TypeOK, ModeInv, PendingMeansStop
<1> QED
  BY <1>1
  DEF ModeInv, PointInv, SleepPoints, StopPoints, PlayPoints, PlayRecordPoints,
      RecordPoints

(* So when the commander is let in it waits for a command.                   *)
LEMMA HaltWaits ==
  ASSUME TypeOK, ModeInv, mode = "HALT", ~ControllerReady
  PROVE  pc = "pend" /\ mbController = <<>>
  BY HaltIsAwake DEF TypeOK, ControllerReady, BusPoints

(* What the commander decides is one of the commands of the buttons, and
   THREAD only when it reads HALT.                                           *)
LEMMA Decides ==
  ASSUME mode \in Modes
  PROVE  /\ Decision \in ButtonCommands \cup {NoCommand}
         /\ Decision.op = "THREAD" => mode = "HALT"
<1> DEFINE bits == mbutton \ {"TAPEOUT", "TAPEIN"}
           Fits(c) == /\ c \in ButtonCommands \cup {NoCommand}
                      /\ c.op = "THREAD" => mode = "HALT"
<1>1. ASSUME NEW m \in Modes \ {"THREAD"}, NEW flags \in {{}}
      PROVE  Fits(ModeCommand(m, flags, 0))
  BY DEF ButtonCommands, ModeCommand
<1>2. ASSUME NEW m \in ShuttleModes
      PROVE  Fits(ModeCommand(m, {"LIBWIND"}, 0))
  BY DEF ButtonCommands, ModeCommand, ShuttleModes
<1>3. /\ Fits(StrobeRecord("out")) /\ Fits(StrobeRecord("in")) /\ Fits(ToggleLifter)
      /\ Fits(ModeCommand("PLAY", {"RECORD"}, 0)) /\ Fits(NoCommand)
  BY DEF ButtonCommands, ModeCommand, StrobeRecord, ToggleLifter, NoCommand
<1>4. CASE Stopped
  <2>1. Fits(StoppedCommand)
    BY <1>1, <1>3, <1>4
       DEF StoppedCommand, Stopped, ButtonCommands, ModeCommand, Modes
  <2> QED BY <1>1, <1>3, <1>4, <2>1 DEF Decision, Modes
<1>5. CASE ~Stopped
  <2>1. Fits(ButtonCommand)
    <3>1. bits \in {{"FWD"}, {"REW"}} => (CHOOSE b \in bits : TRUE) \in ShuttleModes
      BY DEF ShuttleModes
    <3>2. bits \in {{"FWD", "REC"}, {"REW", "REC"}} =>
            (CHOOSE b \in bits \ {"REC"} : TRUE) \in ShuttleModes
      BY DEF ShuttleModes
    <3> HIDE DEF bits, Fits
    <3> QED BY <1>1, <1>2, <1>3, <3>1, <3>2
            DEF ButtonCommand, Modes, ShuttleModes, bits
  <2> QED BY <1>1, <1>3, <1>5, <2>1 DEF Decision, Modes
<1> QED BY <1>4, <1>5

(* A post keeps within the slots of g_mailboxCommander.                     *)
LEMMA PostedSwitches ==
  ASSUME mbCommander \in Seq(SUBSET Switches), Len(mbCommander) <= CommanderSize,
         NEW bits \in SUBSET Switches, PostSwitches(bits)
  PROVE  mbCommander' \in Seq(SUBSET Switches) /\ Len(mbCommander') <= CommanderSize
  BY TransportAssumption DEF PostSwitches

-----------------------------------------------------------------------------
(* Types, and the test that still holds at the post                          *)

(* In HALT, waiting, the controller takes no step, and no task gives it a
   command but the commander.                                                *)
LEMMA WaitingStays ==
  ASSUME TypeOK, ModeInv, Waits, Next,
         ~CommanderPost
  PROVE  Waits'
<1> USE DEF Waits, controllerVars, servo
<1>1. mode_pending = "NONE"
  BY HaltIsAwake
<1>2. ~TransportControllerTask
  <2>1. ~ModeChange
    BY DEF ModeChange, Receive, HandleImmediateCommand, SkipSame, Halt, Thread, Stop,
           Play, Shuttle, Accept
  <2>2. ~Resume
    BY ResumeFrom
  <2>3. ~Timeout
    BY <1>1 DEF Timeout, AutoSlow, StopTimesOut, StillMoving, StopStopped, PlayStopped,
                Waiting, Pending, ShuttleModes
  <2> QED BY <2>1, <2>2, <2>3 DEF TransportControllerTask
<1>3. CASE \E out \in BOOLEAN, held \in Buttons \cup {{}} : TapeArm(out, held)
  BY <1>3 DEF TapeArm
<1>4. CASE \E bits \in Buttons : PressButtons(bits)
  BY <1>4 DEF PressButtons
<1>5. CASE TransportCommandTask
  BY <1>5 DEF TransportCommandTask, CommanderPend, CommanderDecide,
              CommanderPostTimeout, CommanderIdle
<1>6. ~(\E c \in IpcCommands : IpcCommand(c)) /\ ~IpcPost /\ ~IpcPostTimeout
  BY DEF IpcCommand, IpcPost, IpcPostTimeout
<1>7. ~Controller /\ ~Servo
  BY <1>2 DEF Controller, Servo, ServoBrakeDone
<1> QED BY <1>3, <1>4, <1>5, <1>6, <1>7 DEF Next

CommanderInv == CommanderTypes /\ ThreadIsAwaited

(* At power-up nothing is queued.                                           *)
LEMMA CommanderInit == Init => CommanderInv
<1> SUFFICES ASSUME Init PROVE CommanderInv
  OBVIOUS
<1>1. mbCommander \in Seq(SUBSET Switches) /\ Len(mbCommander) = 1
  <2>1. ArmSwitch(g_tape_out_flag) \in SUBSET Switches
    BY DEF ArmSwitch, Switches
  <2> QED BY <2>1 DEF Init
<1>2. tout_prev \in SUBSET Switches
  <2>1. ArmBits(g_tape_out_flag) \in SUBSET Switches
    BY DEF ArmBits, Switches
  <2> QED BY <2>1, CommanderSets DEF Init
<1> QED BY <1>1, <1>2, CommanderSets, TransportAssumption
        DEF Init, CommanderInv, CommanderTypes, ThreadIsAwaited

(* What is read, decided and queued keeps its type in any order of the tasks.  *)
LEMMA CommanderTypesStep ==
  ASSUME TypeOK, CommanderTypes, [Next]_vars
  PROVE  CommanderTypes'
<1> USE DEF CommanderTypes
<1>1. CASE UNCHANGED vars
  BY <1>1 DEF vars, commanderVars, armVars
<1> SUFFICES ASSUME Next PROVE CommanderTypes'
  BY <1>1
<1>2. ASSUME NEW out \in BOOLEAN, NEW held \in Buttons \cup {{}}, TapeArm(out, held)
      PROVE  CommanderTypes'
  <2>1. ArmSwitch(out) \cup held \in SUBSET Switches /\ ArmBits(out) \in SUBSET Switches
    BY CommanderSets DEF ArmSwitch, ArmBits, Switches
  <2>2. mbCommander' \in Seq(SUBSET Switches) /\ Len(mbCommander') <= CommanderSize
    BY <1>2, <2>1, PostedSwitches DEF TapeArm
  <2> QED BY <1>2, <2>1, <2>2 DEF TapeArm
<1>3. ASSUME NEW bits \in Buttons, PressButtons(bits)
      PROVE  CommanderTypes'
  <2>1. mbCommander' \in Seq(SUBSET Switches) /\ Len(mbCommander') <= CommanderSize
    BY <1>3, PostedSwitches, CommanderSets DEF PressButtons
  <2> QED BY <1>3, <2>1 DEF PressButtons, armVars
<1>4. CASE CommanderPend
  <2>1. mbCommander' \in Seq(SUBSET Switches) /\ Len(mbCommander') <= CommanderSize
        /\ mbutton' \in SUBSET Switches
    BY <1>4, TransportAssumption DEF CommanderPend
  <2> QED BY <1>4, <2>1 DEF CommanderPend, armVars
<1>5. CASE CommanderDecide
  <2>1. Decision \in ButtonCommands \cup {NoCommand}
    BY Decides DEF TypeOK
  <2>2. queued' = Decision /\ mbutton' = {} /\ firststate' \in BOOLEAN
        /\ commander' \in {"pend", "decide", "post"}
        /\ (commander' = "post" <=> Decision # NoCommand)
    BY <1>5 DEF CommanderDecide, TapeOutCommand, TapeInCommand
  <2> QED BY <1>5, <2>1, <2>2, CommanderSets DEF CommanderDecide, armVars
<1>6. CASE CommanderPost \/ CommanderPostTimeout
  BY <1>6, CommanderSets
     DEF CommanderPost, CommanderPostTimeout, CommanderIdle, armVars
<1>7. CASE \E c \in IpcCommands : IpcCommand(c)
  <2>1. ipcBlocked' \in IpcCommands \cup {NoCommand}
    BY <1>7 DEF IpcCommand
  <2> QED BY <1>7, <2>1 DEF IpcCommand, commanderVars, armVars
<1>8. CASE IpcPost \/ IpcPostTimeout
  BY <1>8 DEF IpcPost, IpcPostTimeout, commanderVars, armVars
<1>9. CASE Controller \/ Servo
  BY <1>9 DEF Controller, Servo, commanderVars, armVars
<1> QED BY <1>2, <1>3, <1>4, <1>5, <1>6, <1>7, <1>8, <1>9
        DEF Next, TransportCommandTask

(* By the priorities, THREAD is decided and posted with the controller waiting. *)
LEMMA CommanderStep ==
  ASSUME ~SpiPreempts, TypeOK, ModeInv, CommanderInv, [Next]_vars
  PROVE  CommanderInv'
<1> USE DEF ThreadIsAwaited
<1>1. CommanderTypes /\ CommanderTypes'
  BY CommanderTypesStep DEF CommanderInv
<1>2. CASE UNCHANGED vars
  BY <1>1, <1>2
  DEF vars, commanderVars, armVars, Waits, controllerVars, servo, CommanderInv
<1>3. CASE Next /\ ~CommanderDecide /\ ~CommanderPost
  <2>1. queued' = queued \/ queued'.op # "THREAD"
    BY <1>3, CommanderSets
    DEF Next, TransportCommandTask, TapeArm, PressButtons, CommanderPend,
        CommanderPostTimeout, CommanderIdle, IpcCommand, IpcPost, IpcPostTimeout,
        Controller, Servo, commanderVars
  <2> QED BY <1>1, <1>3, <2>1, WaitingStays DEF CommanderInv
<1>4. CASE CommanderPost
  BY <1>1, <1>4, CommanderSets DEF CommanderPost, CommanderIdle, CommanderInv
<1>5. CASE CommanderDecide
  <2>1. Decision.op = "THREAD" => mode = "HALT"
    BY Decides DEF TypeOK
  <2>2. queued' = Decision
    BY <1>5 DEF CommanderDecide
  <2>3. ASSUME Decision.op = "THREAD" PROVE Waits'
    <3>1. ~ControllerReady /\ ~IpcReady
      BY <1>5 DEF CommanderDecide, CommanderRuns
    <3>2. mode = "HALT" /\ pc = "pend" /\ mbController = <<>>
      BY <2>1, <2>3, <3>1, HaltWaits
    <3>3. ipcBlocked = NoCommand
      <4>1. Len(mbController) < MailboxSize
        BY <3>2, ControllerAssumption
      <4> QED BY <3>1, <4>1 DEF IpcReady
    <3> QED BY <1>5, <3>2, <3>3 DEF CommanderDecide, Waits, controllerVars, servo
  <2> QED BY <1>1, <2>2, <2>3 DEF CommanderInv
<1> QED BY <1>2, <1>3, <1>4, <1>5

-----------------------------------------------------------------------------
(* Whatever the priorities, the tasks only send what the controller takes    *)
LEMMA TasksAreSenders ==
  ASSUME CommanderTypes, [Next]_vars
  PROVE  [ControllerNext]_controllerVars
<1> USE DEF CommanderTypes
<1>1. CASE \/ \E out \in BOOLEAN, held \in Buttons \cup {{}} : TapeArm(out, held)
           \/ \E bits \in Buttons : PressButtons(bits)
           \/ CommanderPend \/ CommanderDecide \/ CommanderPostTimeout
           \/ IpcPostTimeout
           \/ UNCHANGED vars
  BY <1>1 DEF TapeArm, PressButtons, CommanderPend, CommanderDecide,
     CommanderPostTimeout, IpcPostTimeout, vars
<1>2. CASE CommanderPost
  <2>1. queued \in Commands /\ Send(queued)
    BY <1>2 DEF CommanderPost, CommanderIdle
  <2> QED BY <2>1 DEF ControllerNext
<1>3. CASE (\E c \in IpcCommands : IpcCommand(c)) \/ IpcPost
  <2>1. \/ \E c \in Commands : Send(c)
        \/ UNCHANGED controllerVars
    BY <1>3, CommanderSets DEF IpcCommand, IpcPost
  <2> QED BY <2>1 DEF ControllerNext
<1>4. CASE Controller \/ Servo
  BY <1>4 DEF Controller, Servo, ControllerNext
<1> QED BY <1>1, <1>2, <1>3, <1>4 DEF Next, TransportCommandTask

(* In any order the tasks are an environment of the controller.             *)
LEMMA TransportControls == Spec => ControllerSpec
<1>1. Init => ControllerInit /\ TypeOK /\ ControllerInv /\ CommanderTypes
  BY TypeInit, InvInit, CommanderInit DEF Init, CommanderInv
<1>2. TypeOK /\ ControllerInv /\ CommanderTypes /\ [Next]_vars
        => /\ [ControllerNext]_controllerVars
           /\ (TypeOK /\ ControllerInv /\ CommanderTypes)'
  <2> SUFFICES ASSUME TypeOK, ControllerInv, CommanderTypes, [Next]_vars
               PROVE  /\ [ControllerNext]_controllerVars
                      /\ (TypeOK /\ ControllerInv /\ CommanderTypes)'
    OBVIOUS
  <2>1. [ControllerNext]_controllerVars
    BY TasksAreSenders
  <2>2. TypeOK' /\ ControllerInv'
    BY <2>1, TypeNext, InvNext DEF ControllerInv, ModeInv
  <2> QED BY <2>1, <2>2, CommanderTypesStep
<1> QED BY <1>1, <1>2, PTL DEF Spec, ControllerSpec

(* Whatever tasks preempt each other, and wherever the buttons, the arm and the
   STC come in, the machine is safe: brakes off in motion and tape off the
   heads in a shuttle, but in the transfers of a HALT and a THREAD that
   BrakesOffInMotion and LiftersInShuttle name; HALT without capstan, roller
   and record, and left only at rest; the dynamic brake armed whenever motion is
   stopped.                                                                  *)
THEOREM TransportIsSafe ==
  Spec => /\ [](CompletedIsServoMode /\ BrakesOffInMotion /\ LiftersInShuttle /\ HaltIsSafe)
          /\ BrakeArmedAfterMotion /\ HaltHoldsTape
  BY TransportControls, CompletedIsTrue, BrakesNeverDrag, HeadsAreSpared, HaltSafety,
     BrakeIsArmed, HaltIsLeftSafely, PTL

(* With every notification sent, the STC is shown the mode that the buttons, the
   arm and its own commands have led to.                                     *)
THEOREM TransportIsShown == ~NotifyLossy /\ Spec => []StcTracksMode
  BY TransportControls, StcShowsTheMode, PTL

-----------------------------------------------------------------------------
(* The tasks implement the orderly environment of the controller             *)
LEMMA TasksAreOrderly ==
  ASSUME CommanderInv, [Next]_vars
  PROVE  [OrderlyNext]_controllerVars
<1> USE DEF CommanderInv, CommanderTypes, ThreadIsAwaited
<1>1. CASE \/ \E out \in BOOLEAN, held \in Buttons \cup {{}} : TapeArm(out, held)
           \/ \E bits \in Buttons : PressButtons(bits)
           \/ CommanderPend \/ CommanderDecide \/ CommanderPostTimeout
           \/ IpcPostTimeout
           \/ UNCHANGED vars
  BY <1>1 DEF TapeArm, PressButtons, CommanderPend, CommanderDecide,
     CommanderPostTimeout, IpcPostTimeout, vars
<1>2. CASE CommanderPost
  <2>1. queued \in Commands /\ Send(queued)
    BY <1>2 DEF CommanderPost, CommanderIdle
  <2>2. OrderlySend(queued)
    BY <2>1 DEF OrderlySend, Waits
  <2> QED BY <2>1, <2>2 DEF OrderlyNext
<1>3. ASSUME NEW c \in IpcCommands, IpcCommand(c)
      PROVE  [OrderlyNext]_controllerVars
  <2>1. c \in Commands /\ c.op # "THREAD"
    BY CommanderSets
  <2>2. Send(c) => OrderlyNext
    BY <2>1 DEF OrderlySend, OrderlyNext
  <2> QED BY <1>3, <2>2 DEF IpcCommand
<1>4. CASE IpcPost
  <2>1. ipcBlocked \in Commands /\ ipcBlocked.op # "THREAD" /\ Send(ipcBlocked)
    BY <1>4, CommanderSets DEF IpcPost
  <2> QED BY <2>1 DEF OrderlySend, OrderlyNext
<1>5. CASE Controller \/ Servo
  BY <1>5 DEF Controller, Servo, OrderlyNext
<1> QED BY <1>1, <1>2, <1>3, <1>4, <1>5 DEF Next, TransportCommandTask

(* By their priorities the tasks are an orderly environment.                *)
LEMMA TransportInvariant ==
  ~SpiPreempts /\ Spec
    => [](TypeOK /\ ControllerInv /\ CommanderInv) /\ OrderlySpec
<1> SUFFICES ASSUME ~SpiPreempts
             PROVE  Spec => [](TypeOK /\ ControllerInv /\ CommanderInv) /\ OrderlySpec
  OBVIOUS
<1>1. Init => ControllerInit /\ TypeOK /\ ControllerInv /\ CommanderInv
  BY TypeInit, InvInit, CommanderInit DEF Init
<1>2. CommanderInv /\ [Next]_vars => [OrderlyNext]_controllerVars
  BY TasksAreOrderly
<1>3. TypeOK /\ ControllerInv /\ CommanderInv /\ [Next]_vars
        => (TypeOK /\ ControllerInv /\ CommanderInv)'
  <2> SUFFICES ASSUME TypeOK, ControllerInv, CommanderInv, [Next]_vars
               PROVE  (TypeOK /\ ControllerInv /\ CommanderInv)'
    OBVIOUS
  <2>1. [ControllerNext]_controllerVars
    BY <1>2, OrderlyIsController
  <2>2. TypeOK' /\ ControllerInv'
    BY <2>1, TypeNext, InvNext DEF ControllerInv, ModeInv
  <2>3. CommanderInv'
    BY CommanderStep DEF ControllerInv
  <2> QED BY <2>2, <2>3
<1> QED BY <1>1, <1>2, <1>3, PTL DEF Spec, OrderlySpec

(* TransportCommandTask and the IPC tasks send THREAD only to a halted,
   waiting controller, by their priorities, and fill no mailbox beyond its
   slots: the composed system is a controller with orderly sends.            *)
THEOREM TasksSendOrderly == ~SpiPreempts /\ Spec => SendsAreOrderly
<1>1. TypeOK /\ CommanderInv => TransportTypeOK
  BY DEF CommanderInv, CommanderTypes, TransportTypeOK
<1> QED BY <1>1, TransportInvariant, PTL DEF SendsAreOrderly

(* So the buttons, the tape arm and the STC together get what TransportMode
   promises: record in PLAY only, the capstan in PLAY or just before it, and a
   lamp that shows record, up to the transfers that RecordOnlyInPlay and
   RecordLampTrue name.                                                      *)
THEOREM TransportKeepsPromise ==
  ~SpiPreempts /\ Spec => KeepsPromise /\ [](RecordOnlyInPlay /\ RecordLampTrue)
  BY TransportInvariant, KeepsItsPromise, RecordsOnlyInPlay, RecordLampIsTrue, PTL

-----------------------------------------------------------------------------
(* Diagnostics: what the tests leave behind                                  *)

(* The part of a test that the terminal is in says which tests it may be.     *)
PlaceInv ==
  /\ place \in {"menu", "left"} => test = "none"
  /\ place \in {"entered", "queued", "keys", "escaped"} => test \in HaltTests
  /\ place \in {"next", "light", "lit", "dark"} => test = "lamp"

(* HALT gives the reels torque in a DAC test only, up to its escape.          *)
TorqueInv ==
  /\ level # 0 => test \in DacTests
  /\ place = "escaped" => level = 0

(* The coils of a completed HALT, from the transfer that sets the brakes on.  *)
CoilsInv ==
  pc = "haltMode" \/ (mode = "HALT" /\ last_mode_completed = "HALT") =>
    solenoid \ (Coil(test) \cup {"TLIFT"}) = {"BRAKE"} \ Coil(test)

(* The lamps that the lamp test will put back tell of record as it is; at
   other times the lamps themselves do.                                      *)
RecordLampInv ==
  ~recording =>
    IF test = "lamp" THEN "REC" \in save_mask <=> RecordOn ELSE RecordLampTrue

DiagInv ==
  /\ TypeOK /\ ModeInv /\ RecordInv
  /\ DiagTypeOK
  /\ PlaceInv
  /\ TorqueInv
  /\ CoilsInv
  /\ RecordLampInv

-----------------------------------------------------------------------------
(* Steps of the controller                                                   *)

(* A HALT begins with the brakes on and every other coil off; from then on,
   until the transport leaves HALT, the controller moves no coil but the
   lifters, and switches off what a test has left on of the capstan.          *)
HaltCompleted == mode = "HALT" /\ last_mode_completed = "HALT"

CoilsKept ==
  /\ pc = "haltMode" \/ HaltCompleted
  /\ solenoid' \subseteq solenoid \cup {"TLIFT"}
  /\ solenoid \subseteq solenoid' \cup {"TLIFT"} \cup CapstanOff

(* Every transfer, sleep or wait that ends.                                  *)
LEMMA HaltResume ==
  ASSUME TypeOK, ModeInv, Resume, pc' = "haltMode" \/ HaltCompleted'
  PROVE  solenoid' = {"BRAKE"} \/ CoilsKept
<1> USE DEF ModeInv, PointInv, PendingMeansStop, StopPoints, PlayPoints,
            PlayRecordPoints, RecordPoints, ShuttleModes, TypeOK,
            CoilsKept, HaltCompleted, SetTransportMask, CapstanOff, Solenoids,
            Coils, Light, locals, progress, servo, outputs, Servo_SetMode,
            Complete
<1>1. CASE RecordDrop \/ RecordOff
  BY <1>1 DEF RecordDrop, RecordOff
<1>2. CASE ToggleLifters \/ LifterToggled
  BY <1>2 DEF ToggleLifters, LifterToggled
<1>3. CASE RecordEnable \/ Recorded
  BY <1>3 DEF RecordEnable, Recorded
<1>4. CASE HaltCoils \/ HaltMode
  BY <1>4 DEF HaltCoils, HaltMode
<1>5. CASE ThreadCoils \/ Threaded
  BY <1>5 DEF ThreadCoils, Threaded
<1>6. CASE StopCoils \/ StopMode
  BY <1>6 DEF StopCoils, StopMode
<1>7. CASE ShuttleAccepted \/ ShuttleCoils \/ ShuttleReady
  BY <1>7 DEF ShuttleAccepted, ShuttleCoils, ShuttleReady
<1>8. CASE ShuttleStart
  BY <1>8 DEF ShuttleStart
<1>9. CASE EndMotion \/ StopLamp
  BY <1>9 DEF EndMotion, StopLamp
<1>10. CASE SetLifters \/ LiftersReleased \/ SetBrakes
  BY <1>10 DEF SetLifters, LiftersReleased, SetBrakes
<1>11. CASE StopDone
  BY <1>11 DEF StopDone
<1>12. CASE LowerLifters \/ EngagePinchRoller \/ StartCapstan
  BY <1>12 DEF LowerLifters, EngagePinchRoller, StartCapstan
<1>13. CASE StartPlay
  BY <1>13 DEF StartPlay, PlayComplete
<1>14. CASE PlayRecorded
  BY <1>14 DEF PlayRecorded, PlayComplete
<1> QED
  BY <1>1, <1>2, <1>3, <1>4, <1>5, <1>6, <1>7, <1>8, <1>9, <1>10, <1>11, <1>12,
     <1>13, <1>14
  DEF Resume

(* Every step.                                                               *)
LEMMA HaltKeepsCoils ==
  ASSUME TypeOK, ModeInv, [ControllerNext]_controllerVars,
         pc' = "haltMode" \/ HaltCompleted'
  PROVE  solenoid' = {"BRAKE"} \/ CoilsKept
<1> USE DEF CoilsKept, HaltCompleted, locals, progress, servo, outputs,
            Servo_SetMode, Complete
<1>1. CASE UNCHANGED controllerVars
  BY <1>1 DEF controllerVars
<1>2. ASSUME NEW c \in Commands, Send(c)
      PROVE  CoilsKept
  BY <1>2 DEF Send
<1>3. CASE ModeChange
  <2>1. PICK c \in Commands :
          \/ HandleImmediateCommand(c) \/ SkipSame(c) \/ Halt(c) \/ Thread(c)
          \/ Stop(c) \/ Play(c) \/ \E m \in ShuttleModes : Shuttle(c, m)
    BY <1>3 DEF ModeChange
  <2>r. pc = "pend"
    BY <2>1
    DEF HandleImmediateCommand, SkipSame, Halt, Thread, Stop, Play, Shuttle,
        Accept, Receive
  <2>2. CASE HandleImmediateCommand(c)
    BY <2>2, <2>r DEF HandleImmediateCommand, RecordDisable
  <2>3. CASE SkipSame(c) \/ Halt(c) \/ Thread(c) \/ Stop(c)
    BY <2>3, <2>r DEF SkipSame, Halt, Thread, Stop, RecordDisable
  <2>4. CASE Play(c)
    BY <2>4, <2>r DEF Play, IgnoredInHalt
  <2>5. ASSUME NEW m \in ShuttleModes, Shuttle(c, m)
        PROVE  CoilsKept
    BY <2>5, <2>r DEF Shuttle, IgnoredInHalt, RecordDisable
  <2> QED BY <2>1, <2>2, <2>3, <2>4, <2>5
<1>4. CASE Resume
  BY <1>4, HaltResume
<1>5. CASE Timeout
  BY <1>5
  DEF Timeout, AutoSlow, StopTimesOut, StillMoving, StopStopped, PlayStopped,
      Waiting, Pending, TimedOut, ModeInv, PendingMeansStop, ShuttleModes
<1>6. CASE ServoBrakeDone
  BY <1>6 DEF ServoBrakeDone
<1> QED
  BY <1>1, <1>2, <1>3, <1>4, <1>5, <1>6
  DEF ControllerNext, TransportControllerTask

(* What the controller keeps through its own steps.                          *)
LEMMA ControllerKeeps ==
  ASSUME DiagInv, [OrderlyNext]_controllerVars
  PROVE  /\ TypeOK' /\ ModeInv' /\ RecordInv'
         /\ RecordLampTrue => RecordLampTrue'
<1>1. [ControllerNext]_controllerVars
  BY OrderlyIsController
<1>2. TypeOK' /\ ModeInv'
  BY <1>1, TypeNext, InvNext DEF DiagInv, ModeInv
<1>3. RecordInv' /\ (RecordLampTrue => RecordLampTrue')
  BY OrderlyNextStep DEF DiagInv, OrderlyStep
<1> QED BY <1>2, <1>3

(* The transport at work beside a test.                                     *)
LEMMA ControlsStep ==
  ASSUME DiagInv, Controls
  PROVE  DiagInv'
<1>1. /\ TypeOK' /\ ModeInv' /\ RecordInv'
      /\ RecordLampTrue => RecordLampTrue'
  BY ControllerKeeps DEF Controls
<1>2. UNCHANGED <<test, place, level, save_mask, copy, lamp>>
  BY DEF Controls
<1>3. DiagTypeOK' /\ PlaceInv' /\ TorqueInv'
  <2>1. recording' \in BOOLEAN
    BY DEF Controls, DiagInv, DiagTypeOK
  <2> QED BY <1>2, <2>1 DEF DiagInv, DiagTypeOK, PlaceInv, TorqueInv
<1>4. CoilsInv'
  <2> SUFFICES ASSUME pc' = "haltMode" \/ HaltCompleted'
               PROVE  solenoid' \ (Coil(test) \cup {"TLIFT"})
                        = {"BRAKE"} \ Coil(test)
    BY <1>2 DEF CoilsInv, Coil, HaltCompleted
  <2>1. [ControllerNext]_controllerVars
    BY OrderlyIsController DEF Controls
  <2>2. solenoid' = {"BRAKE"} \/ CoilsKept
    BY <2>1, HaltKeepsCoils DEF DiagInv
  <2>3. ASSUME CoilsKept
        PROVE  solenoid' \ (Coil(test) \cup {"TLIFT"}) = {"BRAKE"} \ Coil(test)
    <3>1. solenoid \ (Coil(test) \cup {"TLIFT"}) = {"BRAKE"} \ Coil(test)
      BY <2>3 DEF CoilsKept, HaltCompleted, DiagInv, CoilsInv
    <3> HIDE DEF Coil
    <3> QED BY <2>3, <3>1 DEF CoilsKept, CapstanOff
  <2> HIDE DEF Coil
  <2> QED BY <2>2, <2>3
<1>5. RecordLampInv'
  <2>1. ~recording' =>
          /\ ~recording
          /\ test = "lamp" => RecordOn' = RecordOn
    BY DEF Controls, DiagInv, DiagTypeOK
  <2> QED BY <1>1, <1>2, <2>1 DEF DiagInv, RecordLampInv
<1> QED BY <1>1, <1>3, <1>4, <1>5 DEF DiagInv

-----------------------------------------------------------------------------
(* Steps of the terminal                                                     *)

(* The HALT that a test asks for is queued in order.                         *)
LEMMA AskHaltIsOrderly ==
  ASSUME AskHalt, UNCHANGED <<pc, locals, servo, outputs>>
  PROVE  [OrderlyNext]_controllerVars
<1>1. HaltCommand \in Commands /\ HaltCommand.op # "THREAD"
  BY DiagAssumption DEF HaltCommand, ModeCommand
<1>2. CASE QueueTransportCommand(HaltCommand)
  BY <1>1, <1>2 DEF OrderlyNext, OrderlySend, Send
<1>3. CASE UNCHANGED mbController
  BY <1>3 DEF controllerVars
<1> QED BY <1>2, <1>3 DEF AskHalt

Tested == {"BRAKE", "PROL", "TLIFT", "SERVO"}

(* A write of the coils under test leaves the record line and its lamp alone. *)
LEMMA WritesKeep ==
  ASSUME DiagInv, NEW set \in SUBSET Tested, NEW clear \in SUBSET Tested,
         Writes(set, clear)
  PROVE  /\ TypeOK' /\ ModeInv' /\ RecordInv'
         /\ RecordOn' = RecordOn
         /\ RecordLampTrue => RecordLampTrue'
         /\ solenoid' = (solenoid \ clear) \cup set
         /\ UNCHANGED <<pc, mode, last_mode_completed, lampVars>>
<1> USE DEF Writes, SetTransportMask, locals, progress, requests, shuttle, servo
<1>1. TypeOK'
  BY DEF DiagInv, TypeOK, Tested, Solenoids
<1>2. ModeInv'
  BY DEF DiagInv, ModeInv, PointInv, PendingMeansStop, CompletedInv, PreviousInv,
     PlayRecordPoints
<1>3. RecordOn' = RecordOn
  BY DEF RecordOn, Tested
<1>4. RecordInv' /\ (RecordLampTrue => RecordLampTrue')
  BY <1>3 DEF DiagInv, RecordInv, ThreadInv, RecordLampTrue, Latching
<1> QED BY <1>1, <1>2, <1>3, <1>4

(* A test switches coils of its own only.                                   *)
LEMMA CoilsTested == \A t \in Tests : Coil(t) \in SUBSET Tested
  BY DEF Coil, Tested, Tests, HaltTests, BrakeTests, CoilTests, DacTests

(* The tests that ask for HALT.                                             *)
LEMMA HaltTestStep ==
  ASSUME DiagInv, HaltTest
  PROVE  DiagInv'
<1> USE DEF DiagInv
<1>t. test \in Tests /\ Coil(test) \in SUBSET Tested /\ {"BRAKE"} \in SUBSET Tested
  BY CoilsTested DEF DiagTypeOK, Tested
<1>1. ASSUME NEW t \in HaltTests, Start(t)
      PROVE  DiagInv'
  <2>1. [OrderlyNext]_controllerVars
    BY <1>1 DEF Start
  <2>2. /\ TypeOK' /\ ModeInv' /\ RecordInv'
        /\ RecordLampTrue => RecordLampTrue'
    BY <2>1, ControllerKeeps
  <2>3. /\ place = "menu" /\ place' = "entered" /\ test = "none" /\ test' = t
        /\ UNCHANGED <<pc, mode, last_mode_completed, solenoid, level, save_mask,
                       copy, lamp, recording>>
    BY <1>1
    DEF Start, At, PlaceInv, controllerVars, locals, progress, servo, outputs,
        lampVars
  <2>4. t \in Tests /\ t # "lamp"
    BY DEF Tests, HaltTests, BrakeTests, CoilTests, DacTests
  <2>5. DiagTypeOK' /\ PlaceInv'
    BY <2>3, <2>4 DEF DiagTypeOK, PlaceInv
  <2>6. TorqueInv'
    BY <2>3 DEF TorqueInv, DacTests
  <2>7. CoilsInv'
    <3>1. Coil("none") = {}
      BY DEF Coil, BrakeTests, DacTests
    <3>2. Coil(test)' = Coil(t)
      BY <2>3 DEF Coil
    <3> HIDE DEF Coil
    <3> QED BY <2>3, <3>1, <3>2 DEF CoilsInv
  <2>8. RecordLampInv'
    BY <2>2, <2>3, <2>4 DEF RecordLampInv
  <2> QED BY <2>2, <2>5, <2>6, <2>7, <2>8
<1>2. CASE EnterHalt \/ LeaveHalt
  <2>1. [OrderlyNext]_controllerVars
    BY <1>2, AskHaltIsOrderly DEF EnterHalt, LeaveHalt
  <2>2. /\ TypeOK' /\ ModeInv' /\ RecordInv'
        /\ RecordLampTrue => RecordLampTrue'
    BY <2>1, ControllerKeeps
  <2>3. /\ UNCHANGED <<pc, mode, last_mode_completed, solenoid, test, level,
                       save_mask, copy, lamp, recording>>
        /\ \/ place = "entered" /\ place' = "queued"
           \/ place = "left" /\ place' = "menu"
    BY <1>2
    DEF EnterHalt, LeaveHalt, At, locals, progress, servo, outputs, lampVars
  <2>4. DiagTypeOK' /\ PlaceInv' /\ TorqueInv'
    BY <2>3 DEF DiagTypeOK, PlaceInv, TorqueInv
  <2>5. CoilsInv'
    BY <2>3 DEF CoilsInv, Coil
  <2>6. RecordLampInv'
    <3>1. RecordOn' = RecordOn
      BY <2>3 DEF RecordOn
    <3> QED BY <2>2, <2>3, <3>1 DEF RecordLampInv
  <2> QED BY <2>2, <2>4, <2>5, <2>6
<1>3. CASE Prepare \/ Toggle
  <2>1. /\ \/ Writes(Coil(test), {})
           \/ Writes({}, Coil(test))
        /\ \/ place = "queued" \/ place = "keys"
        /\ place' = "keys"
        /\ UNCHANGED <<test, level>>
    BY <1>3 DEF Prepare, Toggle, At, Coil, BrakeTests
  <2>2. /\ TypeOK' /\ ModeInv' /\ RecordInv' /\ RecordOn' = RecordOn
        /\ RecordLampTrue => RecordLampTrue'
        /\ solenoid' \ Coil(test) = solenoid \ Coil(test)
        /\ UNCHANGED <<pc, mode, last_mode_completed, save_mask, copy, lamp,
                       recording>>
    <3> HIDE DEF Coil, DiagInv
    <3> QED BY <1>t, <2>1, WritesKeep DEF lampVars
  <2>3. DiagTypeOK' /\ PlaceInv' /\ TorqueInv'
    BY <2>1, <2>2 DEF DiagTypeOK, PlaceInv, TorqueInv
  <2>4. CoilsInv'
    <3>1. Coil(test)' = Coil(test)
      BY <2>1 DEF Coil
    <3> HIDE DEF Coil
    <3> QED BY <2>2, <3>1 DEF CoilsInv
  <2>5. RecordLampInv'
    BY <2>1, <2>2 DEF RecordLampInv
  <2> QED BY <2>2, <2>3, <2>4, <2>5
<1>4. CASE SetLevel \/ Escape
  <2>1. [OrderlyNext]_controllerVars
    BY <1>4 DEF SetLevel, Escape
  <2>2. /\ TypeOK' /\ ModeInv' /\ RecordInv'
        /\ RecordLampTrue => RecordLampTrue'
    BY <2>1, ControllerKeeps
  <2>3. UNCHANGED <<pc, mode, last_mode_completed, solenoid, test, save_mask,
                    copy, lamp, recording>>
    BY <1>4
    DEF SetLevel, Escape, controllerVars, locals, progress, servo, outputs,
        lampVars
  <2>4. /\ level' \in 0 .. DacMax
        /\ place' \in {"keys", "escaped"} /\ place = "keys"
        /\ level' # 0 => test \in DacTests
        /\ place' = "escaped" => level' = 0
    <3>1. CASE SetLevel
      <4>1. level' \in 0 .. DacMax
        <5>1. CASE AdjustedLevel(level')
          BY <5>1, DiagAssumption DEF AdjustedLevel
        <5>2. CASE RampedLevel(level')
          <6>1. PICK step \in RampSteps :
                  LET dac == (IF level >= DacMax THEN 0 ELSE level) + step
                  IN  level' = IF dac > DacMax THEN DacMax
                               ELSE IF dac < 0 THEN 0 ELSE dac
            BY <5>2 DEF RampedLevel
          <6>2. step \in Int /\ level \in Int /\ DacMax \in Nat
            BY DiagAssumption DEF DiagTypeOK
          <6> QED BY <6>1, <6>2
        <5> QED BY <3>1, <5>1, <5>2 DEF SetLevel
      <4> QED BY <3>1, <4>1 DEF SetLevel, At, DacTests
    <3>2. CASE Escape
      BY <3>2, DiagAssumption DEF Escape, At, DiagTypeOK, TorqueInv
    <3> QED BY <1>4, <3>1, <3>2
  <2>5. DiagTypeOK' /\ PlaceInv' /\ TorqueInv'
    BY <2>3, <2>4 DEF DiagTypeOK, PlaceInv, TorqueInv
  <2>6. CoilsInv'
    BY <2>3 DEF CoilsInv, Coil
  <2>7. RecordLampInv'
    <3>1. RecordOn' = RecordOn
      BY <2>3 DEF RecordOn
    <3> QED BY <2>2, <2>3, <3>1 DEF RecordLampInv
  <2> QED BY <2>2, <2>5, <2>6, <2>7
<1>5. CASE PutBack
  <2>1. /\ place = "escaped" /\ place' = "left" /\ test' = "none" /\ level' = level
        /\ test \in HaltTests /\ level = 0
        /\ IF test \in BrakeTests THEN Writes({"BRAKE"}, {})
                                  ELSE Writes({}, Coil(test))
    BY <1>5 DEF PutBack, At, PlaceInv, TorqueInv
  <2>2. /\ TypeOK' /\ ModeInv' /\ RecordInv' /\ RecordOn' = RecordOn
        /\ RecordLampTrue => RecordLampTrue'
        /\ solenoid' = IF test \in BrakeTests THEN solenoid \cup {"BRAKE"}
                                              ELSE solenoid \ Coil(test)
        /\ UNCHANGED <<pc, mode, last_mode_completed, save_mask, copy, lamp,
                       recording>>
    <3> HIDE DEF Coil, DiagInv
    <3>1. CASE test \in BrakeTests
      <4>1. Writes({"BRAKE"}, {})
        BY <2>1, <3>1
      <4> QED BY <1>t, <3>1, <4>1, WritesKeep DEF lampVars
    <3>2. CASE test \notin BrakeTests
      <4>1. Writes({}, Coil(test))
        BY <2>1, <3>2
      <4> QED BY <1>t, <3>2, <4>1, WritesKeep DEF lampVars
    <3> QED BY <3>1, <3>2
  <2>3. DiagTypeOK' /\ PlaceInv' /\ TorqueInv'
    BY <2>1, <2>2 DEF DiagTypeOK, PlaceInv, TorqueInv, Tests
  <2>4. CoilsInv'
    <3>1. Coil(test)' = {}
      BY <2>1 DEF Coil, BrakeTests, DacTests
    <3>2. CASE test \in BrakeTests
      <4>1. Coil(test) = {"BRAKE"}
        BY <3>2 DEF Coil, BrakeTests, DacTests
      <4> HIDE DEF Coil
      <4> QED BY <2>2, <3>1, <3>2, <4>1 DEF CoilsInv
    <3>3. CASE test \notin BrakeTests
      <4>1. "BRAKE" \notin Coil(test)
        BY <2>1, <3>3 DEF Coil, HaltTests, CoilTests
      <4> HIDE DEF Coil
      <4> QED BY <2>2, <3>1, <3>3, <4>1 DEF CoilsInv
    <3> QED BY <3>2, <3>3
  <2>5. RecordLampInv'
    <3>1. test # "lamp"
      BY <2>1 DEF HaltTests, BrakeTests, CoilTests, DacTests
    <3> QED BY <2>1, <2>2, <3>1 DEF RecordLampInv
  <2> QED BY <2>2, <2>3, <2>4, <2>5
<1> QED
  BY <1>1, <1>2, <1>3, <1>4, <1>5 DEF HaltTest

(* The lamp test: what it puts back is what it saved, and a change of record
   in between is not for it to tell.                                         *)
LEMMA LampTestStep ==
  ASSUME DiagInv, diag_lamp
  PROVE  DiagInv'
<1> USE DEF DiagInv
<1>1. /\ lamps' \in SUBSET Lamps
      /\ UNCHANGED <<mbController, pc, locals, servo, solenoid, stc, level>>
  BY DEF diag_lamp, LampTest, LampRead, LampOn, LampReadAgain, LampOff, LampEnd,
     StoreLamps, controllerVars, outputs, DiagTypeOK, TypeOK
<1>2. TypeOK' /\ ModeInv' /\ RecordInv' /\ RecordOn' = RecordOn
  BY <1>1
  DEF TypeOK, ModeInv, PointInv, PendingMeansStop, CompletedInv, PreviousInv,
      RecordInv, ThreadInv, RecordOn, Latching, PlayRecordPoints,
      locals, progress, requests, shuttle, servo
<1>3. UNCHANGED <<pc, mode, last_mode_completed, solenoid>>
  BY <1>1 DEF locals, progress, servo
<1>4. /\ Coil("lamp") = {} /\ Coil("none") = {}
      /\ "lamp" \in Tests /\ "none" \in Tests
  BY DEF Coil, Tests, BrakeTests, DacTests
<1>5. ASSUME test \in {"lamp", "none"}, test' \in {"lamp", "none"}
      PROVE  CoilsInv' /\ TorqueInv'
  <2>1. TorqueInv'
    <3>1. level = 0
      BY <1>5 DEF TorqueInv, DacTests
    <3> QED BY <1>1, <3>1 DEF TorqueInv
  <2>2. Coil(test) = {} /\ Coil(test)' = {}
    BY <1>5 DEF Coil, BrakeTests, DacTests
  <2>3. CoilsInv'
    <3> HIDE DEF Coil
    <3> QED BY <1>3, <2>2 DEF CoilsInv
  <2> QED BY <2>1, <2>3
<1>6. CASE LampTest
  <2>1. /\ place = "menu" /\ place' = "next" /\ test = "none" /\ test' = "lamp"
        /\ save_mask' = lamps /\ lamp' = 1 /\ copy' = copy
        /\ recording' = (Pulsing \/ ~RecordLampTrue)
    BY <1>6 DEF LampTest, At, PlaceInv
  <2>2. DiagTypeOK'
    <3>1. 1 \in DOMAIN s_lamp
      BY DiagAssumption
    <3>2. recording' \in BOOLEAN
      BY <2>1
    <3> QED BY <1>1, <1>4, <2>1, <3>1, <3>2 DEF DiagTypeOK, TypeOK
  <2>3. RecordLampInv'
    <3> SUFFICES ASSUME ~recording' PROVE "REC" \in lamps <=> RecordOn
      BY <1>2, <2>1 DEF RecordLampInv
    <3>1. ~Pulsing /\ RecordLampTrue
      BY <2>1
    <3> QED BY <3>1 DEF Pulsing, RecordLampTrue
  <2>4. PlaceInv'
    BY <2>1 DEF PlaceInv
  <2> QED BY <1>2, <1>5, <2>1, <2>2, <2>3, <2>4
<1>7. CASE LampRead \/ LampOn \/ LampReadAgain \/ LampOff
  <2>1. /\ place' \in {"next", "light", "lit", "dark"} /\ test = "lamp"
        /\ UNCHANGED <<test, save_mask, recording>>
    BY <1>7 DEF LampRead, LampOn, LampReadAgain, LampOff, At, PlaceInv
  <2>2. copy' \in SUBSET Lamps /\ lamp' \in DOMAIN s_lamp
    <3>1. /\ Len(s_lamp) \in Nat \ {0} /\ DOMAIN s_lamp = 1..Len(s_lamp)
          /\ \A i \in DOMAIN s_lamp : s_lamp[i] \in Lamps
      BY DiagAssumption
    <3>2. lamp \in DOMAIN s_lamp /\ s_lamp[lamp] \in Lamps /\ lamps \in SUBSET Lamps
      BY <3>1 DEF DiagTypeOK, TypeOK
    <3>3. (lamp % Len(s_lamp)) + 1 \in DOMAIN s_lamp
      BY <3>1, <3>2
    <3> QED
      BY <1>7, <3>2, <3>3
      DEF LampRead, LampOn, LampReadAgain, LampOff, DiagTypeOK
  <2>3. DiagTypeOK' /\ PlaceInv'
    BY <1>1, <2>1, <2>2 DEF DiagTypeOK, PlaceInv
  <2>4. RecordLampInv'
    BY <1>2, <2>1 DEF RecordLampInv
  <2> QED BY <1>2, <1>5, <2>1, <2>3, <2>4
<1>8. CASE LampEnd
  <2>1. /\ place = "lit" /\ place' = "menu" /\ test = "lamp" /\ test' = "none"
        /\ lamps' = save_mask /\ save_mask' = {}
        /\ UNCHANGED <<copy, lamp, recording>>
    BY <1>8 DEF LampEnd, At, PlaceInv, StoreLamps
  <2>2. DiagTypeOK' /\ PlaceInv'
    BY <1>1, <1>4, <2>1 DEF DiagTypeOK, PlaceInv
  <2>3. RecordLampInv'
    BY <1>2, <2>1 DEF RecordLampInv, RecordLampTrue
  <2> QED BY <1>2, <1>5, <2>1, <2>2, <2>3
<1> QED BY <1>6, <1>7, <1>8 DEF diag_lamp

-----------------------------------------------------------------------------
(* At power-up no test runs.                                                *)
LEMMA DiagInvInit == DiagnosticsInit => DiagInv
<1> SUFFICES ASSUME DiagnosticsInit PROVE DiagInv
  OBVIOUS
<1>1. TypeOK /\ ModeInv /\ RecordInv /\ RecordLampTrue
  BY TypeInit, InvInit, OrderlyInit DEF DiagnosticsInit, ControllerInv, OrderlyInv
<1>2. DiagTypeOK
  <2>1. 1 \in DOMAIN s_lamp /\ 0 \in 0 .. DacMax
    BY DiagAssumption
  <2> QED BY <2>1 DEF DiagnosticsInit, DiagInit, DiagTypeOK, Tests
<1>3. PlaceInv /\ TorqueInv
  BY DEF DiagnosticsInit, DiagInit, PlaceInv, TorqueInv
<1>4. CoilsInv
  BY DEF DiagnosticsInit, ControllerInit, CoilsInv
<1>5. RecordLampInv
  BY <1>1 DEF DiagnosticsInit, DiagInit, RecordLampInv
<1> QED BY <1>1, <1>2, <1>3, <1>4, <1>5 DEF DiagInv

(* Every step keeps the invariant.                                          *)
LEMMA DiagInvNext == DiagInv /\ [DiagnosticsNext]_diagnosticsVars => DiagInv'
<1> SUFFICES ASSUME DiagInv, [DiagnosticsNext]_diagnosticsVars PROVE DiagInv'
  OBVIOUS
<1>1. CASE UNCHANGED diagnosticsVars
  <2>1. [OrderlyNext]_controllerVars
    BY <1>1 DEF diagnosticsVars
  <2>2. /\ TypeOK' /\ ModeInv' /\ RecordInv'
        /\ RecordLampTrue => RecordLampTrue'
    BY <2>1, ControllerKeeps
  <2>3. UNCHANGED <<pc, mode, last_mode_completed, solenoid, diagVars>>
    BY <1>1 DEF diagnosticsVars, controllerVars, locals, progress, servo, outputs
  <2>4. DiagTypeOK' /\ PlaceInv' /\ TorqueInv' /\ CoilsInv'
    BY <2>3
    DEF diagVars, lampVars, DiagInv, DiagTypeOK, PlaceInv, TorqueInv, CoilsInv,
        Coil
  <2>5. RecordLampInv'
    BY <2>2, <2>3 DEF diagVars, lampVars, DiagInv, RecordLampInv, RecordOn
  <2> QED BY <2>2, <2>4, <2>5 DEF DiagInv
<1> QED
  BY <1>1, ControlsStep, HaltTestStep, LampTestStep DEF DiagnosticsNext

(* The inductive invariant of the tests.                                    *)
LEMMA DiagInvHolds == DiagnosticsSpec => []DiagInv
  BY DiagInvInit, DiagInvNext, PTL DEF DiagnosticsSpec

(* Whatever commands are carried out beside a test, and in whatever order the
   tests come: once the controller has completed HALT the brakes hold and every
   coil but the lifters and the one under test is off, there is torque in a DAC
   test only, and a lamp test beside which record does not change leaves the
   record lamp true.                                                         *)
THEOREM TestsLeaveNothing == DiagnosticsSpec => []TestsAreUndone
<1>1. DiagInv => TestsAreUndone
  <2> SUFFICES ASSUME DiagInv PROVE TestsAreUndone
    OBVIOUS
  <2>1. HaltRestored
    BY DEF DiagInv, TorqueInv, CoilsInv, HaltRestored
  <2>2. ~recording => RecordLampShown
    BY DEF DiagInv, RecordLampInv, RecordLampShown
  <2> QED BY <2>1, <2>2 DEF TestsAreUndone
<1> QED BY <1>1, DiagInvHolds, PTL

=============================================================================
