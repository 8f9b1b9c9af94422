------------------------ MODULE TransportController ------------------------
(***************************************************************************)
(* TransportControllerTask (src/TransportTask.c): the task that owns the   *)
(* transport mode.  It takes CMDMSG records from its mailbox, drives the   *)
(* solenoids and lamps, sets the reel servo mode, and finishes a STOP or a *)
(* PLAY later, from the mailbox time-out, once the reels have stopped.     *)
(*                                                                         *)
(* A definition Name_Variant is a mistake the code could have made in      *)
(* Name; the properties tell them apart.                                   *)
(*                                                                         *)
(* The task gives up the processor at every Task_sleep, and at the SPI bus: *)
(* it waits for its semaphore and for the transfer.  pc names the code that *)
(* runs when it resumes, and the code up to the next such point is one     *)
(* action: every SetTransportMask is an action of its own, and no action   *)
(* changes the solenoids together with the mode or the lamps.  The wait to *)
(* read the mask belongs to the action before it.  Diagnostic LEDs, PID    *)
(* set-up and the text of notifications are left out.                      *)
(***************************************************************************)
EXTENDS Naturals, Sequences

CONSTANTS
  Commands,     (* the CMDMSG records the other tasks may queue              *)
  MailboxSize,  (* slots of g_mailboxController (8 in the code)              *)
  StopTimeout,  (* mailbox time-outs before a pending stop fails (2400)      *)
  BlinkPeriod,  (* time-outs between two lamp inversions (12)                *)
  SysFlags,     (* the SF_ flags set in g_sys.sysflags                       *)
  BlinkStop,    (* DIP switch 2 is off: lamps blink while a stop is pending  *)
  AutoSlowOn,   (* an auto-slow velocity and trigger are configured          *)
  NotifyLossy   (* IPC_Notify may find no transmit buffer and drop           *)

VARIABLES
  mbController, (* g_mailboxController                                       *)
  pc,           (* where TransportControllerTask is suspended                *)
  msg,          (* msg: the last CMDMSG received                             *)
  last_mode_completed, last_mode_requested, prev_mode_requested,
  mode_pending, record, stoptimer, shuttling, autoslow,
  mode,             (* g_servo.mode                                          *)
  mode_prev,        (* g_servo.mode_prev                                     *)
  stop_brake_state, (* g_servo.stop_brake_state                              *)
  velocity,         (* g_servo.shuttle_velocity                              *)
  solenoid,         (* s_ucTransportMask, as the set of its bits             *)
  lamps,            (* g_lamp_mask & L_LAMP_MASK, as the set of its bits     *)
  stc               (* the last transport notification the STC was sent      *)

requests == <<last_mode_requested, prev_mode_requested>>
progress == <<last_mode_completed, mode_pending, record>>
shuttle == <<shuttling, autoslow>>
locals == <<msg, requests, progress, stoptimer, shuttle>>
servo == <<mode, mode_prev, stop_brake_state, velocity>>
outputs == <<solenoid, lamps, stc>>
controllerVars == <<mbController, pc, locals, servo, outputs>>

-----------------------------------------------------------------------------
Modes == {"HALT", "STOP", "PLAY", "FWD", "REW", "THREAD"}
ShuttleModes == {"FWD", "REW"}
Solenoids == {"BRAKE", "TLIFT", "PROL", "RECP", "RECH", "SERVO"}
Lamps == {"REC", "PLAY", "STOP", "FWD", "REW"}
OpcodeFlags == {"LIBWIND", "NOSLOW", "RECORD"}

(* A mode change carries flags in the upper opcode bits and a velocity in
   param1 (0 for the configured one); an immediate command only an op.      *)
ModeCommand(op, flags, param) ==
  [command |-> "MODE", op |-> op, flags |-> flags, param |-> param]
StrobeRecord(op) ==
  [command |-> "STROBE", op |-> op, flags |-> {}, param |-> 0]
ToggleLifter ==
  [command |-> "LIFTER", op |-> "none", flags |-> {}, param |-> 0]
NoCommand ==
  [command |-> "NONE", op |-> "none", flags |-> {}, param |-> 0]

IsCommand(c) ==
  /\ c = [command |-> c.command, op |-> c.op,
          flags |-> c.flags, param |-> c.param]
  /\ c.flags \subseteq OpcodeFlags
  /\ c.param \in Nat
  /\ \/ c.command = "MODE" /\ c.op \in Modes
     \/ c.command = "STROBE" /\ c.op \in {"out", "in", "toggle"}
     \/ c.command = "LIFTER" /\ c.op = "none"

ASSUME ControllerAssumption ==
  /\ \A c \in Commands : IsCommand(c)
  /\ MailboxSize \in Nat \ {0}
  /\ StopTimeout \in Nat \ {0}
  /\ BlinkPeriod \in Nat \ {0}
  /\ SysFlags \subseteq {"LIFTER_AT_STOP", "BRAKES_AT_STOP",
                         "BRAKES_STOP_PLAY", "ENGAGE_PINCH_ROLLER"}
  /\ {BlinkStop, AutoSlowOn, NotifyLossy} \subseteq BOOLEAN

(* Where the task is: in a mode change it has taken, finishing a pending STOP
   or PLAY, entering record, or in an immediate command.                      *)
ChangePoints == {"accepted", "haltCoils", "haltMode", "stopCoils", "stopMode",
                 "threadCoils", "threaded", "shuttleCoils", "ready", "lifter"}
StopPoints == {"stopped", "release", "prol", "prebrake", "braked", "lifters",
               "released", "brakes", "stopDone"}
PlayPoints == {"settle", "lower", "pinch", "capstan", "playMode"}
PlayRecordPoints == {"playHoldOn", "playHold", "playPulse", "playRecorded"}
RecordPoints == {"holdOn", "hold", "pulse", "recorded"}
ImmediatePoints == {"lifterOn", "lifterOff", "toggled"}
Points == {"pend", "recordDrop", "recordOff"} \cup ChangePoints
            \cup StopPoints \cup PlayPoints \cup PlayRecordPoints
            \cup RecordPoints \cup ImmediatePoints

(* Those where it may be in a Task_sleep; at the others but "pend" it waits
   for the bus.                                                              *)
SleepPoints == {"lifter", "hold", "pulse", "playHold", "playPulse", "prebrake",
                "prol", "braked", "brakes", "settle", "pinch", "capstan"}
BusPoints == Points \ (SleepPoints \cup {"pend"})

-----------------------------------------------------------------------------
(* Servo_SetMode: note that the brake test reads mode_prev before it is
   updated, the mode before the present one.                                *)
Servo_SetMode_TestsTwoBack(m) ==
  /\ mode' = m
  /\ mode_prev' = mode
  /\ stop_brake_state' = IF m = "STOP" THEN mode_prev \in ShuttleModes \cup {"PLAY"}
                         ELSE stop_brake_state

Servo_SetMode(m) ==
  /\ mode' = m
  /\ mode_prev' = mode
  /\ stop_brake_state' =
       IF m = "STOP" THEN mode_prev # "HALT" ELSE stop_brake_state

SetTransportMask_NoClear(set, clear) == solenoid' = solenoid \cup set

SetTransportMask(set, clear) == solenoid' = (solenoid \ clear) \cup set

(* IPCNotify_TransportState: the mode, the opcode flags and the lifters.     *)
Note(m, flags, coils) ==
  [mode |-> m, flags |-> flags, lift |-> "TLIFT" \in coils]

(* IPC_Notify with a zero time-out: what the STC was sent last, when the step
   sends the notifications of earlier and then those of last.               *)
IPC_Notify(earlier, last) ==
  stc' \in last \cup (IF NotifyLossy THEN earlier \cup {stc} ELSE {})

(* A SetTransportMask, from the wait for the bus to the end of the transfer.  *)
Coils(from, to, set, clear) ==
  /\ pc = from
  /\ pc' = to
  /\ SetTransportMask(set, clear)
  /\ UNCHANGED <<mbController, locals, servo, lamps, stc>>

RecordOn == "RECH" \in solenoid

(* RecordDisable does nothing unless the hold line is up.                    *)
RecordDisable(next) == pc' = IF RecordOn THEN "recordDrop" ELSE next

RecordDrop == Coils("recordDrop", "recordOff", {}, {"RECH"})

(* The lamp and the notification follow the transfer; then the mode change
   that ends the recording goes on, or the strobe command is done.           *)
RecordOff_LampKept ==
  /\ pc = "recordOff"
  /\ pc' = IF msg.command = "MODE" THEN "accepted" ELSE "pend"
  /\ IPC_Notify({}, {Note(mode, {}, solenoid)})
  /\ UNCHANGED <<mbController, locals, servo, solenoid, lamps>>

RecordOff ==
  /\ pc = "recordOff"
  /\ pc' = IF msg.command = "MODE" THEN "accepted" ELSE "pend"
  /\ lamps' = lamps \ {"REC"}
  /\ IPC_Notify({}, {Note(mode, {}, solenoid)})
  /\ UNCHANGED <<mbController, locals, servo, solenoid>>

-----------------------------------------------------------------------------
ControllerInit ==
  /\ mbController = <<>>
  /\ pc = "pend"
  /\ msg = NoCommand
  /\ last_mode_completed = "NONE"
  /\ last_mode_requested = "NONE"
  /\ prev_mode_requested = "NONE"
  /\ mode_pending = "NONE"
  /\ record = FALSE
  /\ stoptimer = 0
  /\ shuttling = FALSE
  /\ autoslow = FALSE
  /\ mode = "HALT"
  /\ mode_prev = "HALT"
  /\ stop_brake_state = FALSE
  /\ velocity = "none"
  /\ solenoid = {}
  /\ lamps = {}
  /\ stc = Note("NONE", {}, {})

(* QueueTransportCommand with room in the mailbox.                           *)
QueueTransportCommand_NoLimit(c) ==
  /\ Len(mbController) <= MailboxSize
  /\ mbController' = Append(mbController, c)

QueueTransportCommand(c) ==
  /\ Len(mbController) < MailboxSize
  /\ mbController' = Append(mbController, c)

Send(c) ==
  /\ QueueTransportCommand(c)
  /\ UNCHANGED <<pc, locals, servo, outputs>>

(* Mailbox_pend succeeds.                                                    *)
Receive(c) ==
  /\ pc = "pend"
  /\ mbController # <<>>
  /\ c = Head(mbController)
  /\ mbController' = Tail(mbController)
  /\ msg' = c

-----------------------------------------------------------------------------
(* HandleImmediateCommand                                                    *)

StrobeApplies_AnyMode(c) ==
  /\ c.command = "STROBE"
  /\ IF RecordOn THEN c.op \in {"out", "toggle"} ELSE c.op \in {"in", "toggle"}
LifterApplies_AnyMode(c) == c.command = "LIFTER"

StrobeApplies(c) ==
  /\ c.command = "STROBE"
  /\ mode = "PLAY"
  /\ IF RecordOn THEN c.op \in {"out", "toggle"} ELSE c.op \in {"in", "toggle"}
LifterApplies(c) == c.command = "LIFTER" /\ mode \in {"HALT", "STOP", "PLAY"}

HandleImmediateCommand(c) ==
  /\ Receive(c)
  /\ c.command # "MODE"
  /\ \/ StrobeApplies(c) /\ RecordDisable("holdOn")
     \/ LifterApplies(c)
          /\ pc' = IF "TLIFT" \in solenoid THEN "lifterOff" ELSE "lifterOn"
     \/ ~StrobeApplies(c) /\ ~LifterApplies(c) /\ UNCHANGED pc
  /\ UNCHANGED <<progress, requests, stoptimer, shuttle, servo, outputs>>

ToggleLifters ==
  \/ Coils("lifterOn", "toggled", {"TLIFT"}, {})
  \/ Coils("lifterOff", "toggled", {}, {"TLIFT"})

LifterToggled ==
  /\ pc = "toggled"
  /\ pc' = "pend"
  /\ IPC_Notify({}, {Note(mode, {}, solenoid)})
  /\ UNCHANGED <<mbController, locals, servo, solenoid, lamps>>

(* RecordEnable, for a strobe command or at the end of a PLAY: the hold line,
   the latch pulse up and down, with the sleeps between, and then the lamp.   *)
RecordEnable ==
  \/ Coils("holdOn", "hold", {"RECH"}, {})
  \/ Coils("hold", "pulse", {"RECP"}, {})
  \/ Coils("pulse", "recorded", {}, {"RECP"})
  \/ Coils("playHoldOn", "playHold", {"RECH"}, {})
  \/ Coils("playHold", "playPulse", {"RECP"}, {})
  \/ Coils("playPulse", "playRecorded", {}, {"RECP"})

Recorded ==
  /\ pc = "recorded"
  /\ pc' = "pend"
  /\ lamps' = lamps \cup {"REC"}
  /\ IPC_Notify({}, {Note(mode, {"RECORD"}, solenoid)})
  /\ UNCHANGED <<mbController, locals, servo, solenoid>>

-----------------------------------------------------------------------------
(* Mode change commands                                                      *)

Skipped_WhilePending(c) == last_mode_completed = c.op
Skipped(c) == last_mode_completed = c.op /\ mode_pending = "NONE"

SkipSame(c) ==
  /\ Receive(c)
  /\ c.command = "MODE"
  /\ Skipped(c)
  /\ UNCHANGED <<pc, progress, requests, stoptimer, shuttle, servo, outputs>>

(* What every accepted mode change does before its switch case.              *)
Accept(c, m) ==
  /\ Receive(c)
  /\ c.command = "MODE"
  /\ c.op = m
  /\ ~Skipped(c)
  /\ prev_mode_requested' = last_mode_requested
  /\ last_mode_requested' = m
  /\ stoptimer' = 0

Complete_NotRecorded(m) == UNCHANGED last_mode_completed /\ mode_pending' = "NONE"
Complete(m) == last_mode_completed' = m /\ mode_pending' = "NONE"

(* T_PROL | T_SERVO | T_RECH, cleared together wherever PLAY ends.            *)
CapstanOff == {"PROL", "SERVO", "RECH"}

(* PLAY, REW and FWD are ignored in HALT.                                    *)
IgnoredInHalt_Never == FALSE
IgnoredInHalt == mode = "HALT"

(* The lamps of an accepted mode change.                                     *)
Light(m, to, mask) ==
  /\ pc = "accepted"
  /\ last_mode_requested = m
  /\ pc' = to
  /\ lamps' = mask
  /\ UNCHANGED <<mbController, locals, servo, solenoid, stc>>

Halt(c) ==
  /\ Accept(c, "HALT")
  /\ record' = FALSE
  /\ RecordDisable("accepted")
  /\ UNCHANGED <<last_mode_completed, mode_pending, shuttle, servo, outputs>>

(* The brakes are set, and the lifters dropped, before the reels are halted.  *)
HaltCoils ==
  \/ Light("HALT", "haltCoils", {})
  \/ Coils("haltCoils", "haltMode", {"BRAKE"}, Solenoids)

HaltMode ==
  /\ pc = "haltMode"
  /\ pc' = "pend"
  /\ Servo_SetMode("HALT")
  /\ IPC_Notify({}, {Note("HALT", {}, solenoid)})
  /\ Complete("HALT")
  /\ UNCHANGED <<mbController, msg, requests, record, stoptimer, shuttle,
                 velocity, solenoid, lamps>>

(* The reels are freed before the brakes are released.                       *)
Thread(c) ==
  /\ Accept(c, "THREAD")
  /\ pc' = "threadCoils"
  /\ record' = FALSE
  /\ Servo_SetMode("THREAD")
  /\ lamps' = {"REW", "FWD"}
  /\ UNCHANGED <<last_mode_completed, mode_pending, shuttle, velocity,
                 solenoid, stc>>

ThreadCoils == Coils("threadCoils", "threaded", {}, {"BRAKE"})

Threaded ==
  /\ pc = "threaded"
  /\ pc' = "pend"
  /\ IPC_Notify({}, {Note("THREAD", {}, solenoid)})
  /\ Complete("THREAD")
  /\ UNCHANGED <<mbController, msg, requests, record, stoptimer, shuttle,
                 servo, solenoid, lamps>>

Stop(c) ==
  /\ Accept(c, "STOP")
  /\ record' = FALSE
  /\ RecordDisable("accepted")
  /\ UNCHANGED <<last_mode_completed, mode_pending, shuttle, servo, outputs>>

StopCoils ==
  \/ Light("STOP", "stopCoils", ({last_mode_completed} \cap ShuttleModes)
                                  \cup (IF BlinkStop THEN {"STOP"} ELSE {}))
  \/ Coils("stopCoils", "stopMode", {}, CapstanOff)

StopMode ==
  /\ pc = "stopMode"
  /\ pc' = "pend"
  /\ Servo_SetMode("STOP")
  /\ IPC_Notify({}, {Note("STOP", {}, solenoid)})
  /\ mode_pending' = "STOP"
  /\ UNCHANGED <<mbController, msg, requests, last_mode_completed, record,
                 stoptimer, shuttle, velocity, solenoid, lamps>>

(* PLAY waits for the reels in STOP; in HALT, or in PLAY, it does nothing.    *)
Play(c) ==
  /\ Accept(c, "PLAY")
  /\ IF IgnoredInHalt \/ mode = "PLAY"
     THEN /\ record' = FALSE
          /\ UNCHANGED <<mode_pending, servo>>
     ELSE /\ record' = ("RECORD" \in c.flags)
          /\ Servo_SetMode("STOP")
          /\ mode_pending' = "PLAY"
          /\ UNCHANGED velocity
  /\ UNCHANGED <<pc, last_mode_completed, shuttle, outputs>>

ShuttleVelocity(c) ==
  IF c.param # 0 THEN "param"
  ELSE IF "LIBWIND" \in c.flags THEN "library" ELSE "shuttle"

(* FWD and REW: ignored in HALT.                                             *)
Shuttle(c, m) ==
  /\ Accept(c, m)
  /\ record' = FALSE
  /\ IF IgnoredInHalt
     THEN UNCHANGED <<pc, shuttling, autoslow>>
     ELSE /\ shuttling' = TRUE
          /\ autoslow' = ("NOSLOW" \notin c.flags)
          /\ RecordDisable("accepted")
  /\ UNCHANGED <<last_mode_completed, mode_pending, servo, outputs>>

(* In the same shuttle mode only the velocity would be set: the test for a
   repeated command (TransportTask.c:427) comes first and skips it.           *)
ShuttleAccepted ==
  /\ pc = "accepted"
  /\ last_mode_requested \in ShuttleModes
  /\ IF mode = last_mode_requested
     THEN /\ pc' = "pend"
          /\ velocity' = IF msg.param # 0 THEN "param" ELSE velocity
          /\ UNCHANGED lamps
     ELSE /\ pc' = "shuttleCoils"
          /\ lamps' = {last_mode_requested}
          /\ UNCHANGED velocity
  /\ UNCHANGED <<mbController, locals, mode, mode_prev, stop_brake_state,
                 solenoid, stc>>

(* Then the transport is made ready, and the lifters settle.                 *)
ShuttleCoils == Coils("shuttleCoils", "ready", {"TLIFT"}, CapstanOff \cup {"BRAKE"})

ShuttleReady ==
  /\ pc = "ready"
  /\ pc' = "lifter"
  /\ velocity' = ShuttleVelocity(msg)
  /\ UNCHANGED <<mbController, locals, mode, mode_prev, stop_brake_state,
                 outputs>>

(* The lifters have settled: start the reels.                                *)
ShuttleStart ==
  /\ pc = "lifter"
  /\ pc' = "pend"
  /\ Servo_SetMode(last_mode_requested)
  /\ IPC_Notify({}, {Note(last_mode_requested, msg.flags, solenoid)})
  /\ Complete(last_mode_requested)
  /\ UNCHANGED <<mbController, msg, requests, record, stoptimer, shuttle,
                 velocity, solenoid, lamps>>

-----------------------------------------------------------------------------
(* The mailbox time-out                                                      *)

TimedOut == pc = "pend" /\ mbController = <<>>

(* HandleAutoSlow fires; it acts only in a shuttle mode, when no stop is
   pending, since a pending stop has the servo in STOP.                      *)
AutoSlow ==
  /\ TimedOut
  /\ autoslow
  /\ AutoSlowOn
  /\ mode \in ShuttleModes
  /\ mode_pending = "NONE"
  /\ velocity' = "autoslow"
  /\ autoslow' = FALSE
  /\ UNCHANGED <<mbController, pc, msg, progress, requests, stoptimer,
                 shuttling, mode, mode_prev, stop_brake_state, outputs>>

Pending == TimedOut /\ mode_pending # "NONE"

(* 60 seconds without a stop: give up, and fall back to stop mode.           *)
StopTimesOut ==
  /\ Pending
  /\ stoptimer + 1 >= StopTimeout
  /\ lamps' = {"STOP"}
  /\ Servo_SetMode("STOP")
  /\ Complete("STOP")
  /\ record' = FALSE
  /\ stoptimer' = 0
  /\ UNCHANGED <<mbController, pc, msg, requests, shuttle, velocity,
                 solenoid, stc>>

Waiting_TimerStands ==
  Pending /\ stoptimer + 1 < StopTimeout /\ UNCHANGED stoptimer
Waiting == Pending /\ stoptimer + 1 < StopTimeout /\ stoptimer' = stoptimer + 1

Invert(lamp, others) ==
  IF lamp \in lamps THEN lamps \ (others \cup {lamp})
                    ELSE (lamps \ others) \cup {lamp}

BlinkLamps ==
  IF ~BlinkStop \/ stoptimer' % BlinkPeriod # 0 THEN lamps
  ELSE CASE last_mode_completed = "REW" -> Invert("REW", {"PLAY", "FWD"})
         [] last_mode_completed = "FWD" -> Invert("FWD", {"PLAY", "REW"})
         [] OTHER -> Invert("STOP", {})

(* Servo_IsMotion is true, or is not asked after PLAY.                       *)
StillMoving ==
  /\ Waiting
  /\ ~(mode_pending = "STOP" /\ last_mode_completed = "PLAY")
  /\ lamps' = BlinkLamps
  /\ UNCHANGED <<mbController, pc, msg, progress, requests, shuttle, servo,
                 solenoid, stc>>

-----------------------------------------------------------------------------
(* Finishing a pending STOP                                                  *)

HardBrake == prev_mode_requested = "PLAY" /\ "BRAKES_STOP_PLAY" \in SysFlags

StopStopped ==
  /\ Waiting
  /\ mode_pending = "STOP"
  /\ lamps' = BlinkLamps
  /\ pc' = "stopped"
  /\ UNCHANGED <<mbController, msg, progress, requests, shuttle, servo,
                 solenoid, stc>>

(* After PLAY the pinch roller and the capstan are released before the brakes
   are set, with a sleep after each.                                         *)
EndMotion ==
  \/ Coils("stopped", "release", {}, {"RECH"})
  \/ HardBrake /\ Coils("release", "prol", {}, {"PROL", "RECH"})
  \/ Coils("prol", "prebrake", {}, {"SERVO", "RECH"})
  \/ Coils("prebrake", "braked", {"BRAKE"}, CapstanOff)
  \/ /\ ~HardBrake
     /\ Coils("release", "braked", {}, CapstanOff \cup
          (IF prev_mode_requested \in ShuttleModes \cup {"PLAY"}
           THEN {"BRAKE"} ELSE {}))

StopLamp ==
  /\ pc = "braked"
  /\ pc' = "lifters"
  /\ lamps' = {"STOP"}
  /\ UNCHANGED <<mbController, locals, servo, solenoid, stc>>

SetLifters ==
  IF "LIFTER_AT_STOP" \in SysFlags
  THEN Coils("lifters", "brakes", {"TLIFT"}, CapstanOff)
  ELSE Coils("lifters", "released", {}, CapstanOff \cup {"TLIFT"})

LiftersReleased ==
  /\ pc = "released"
  /\ pc' = "brakes"
  /\ IPC_Notify({}, {Note(mode, msg.flags, solenoid)})
  /\ UNCHANGED <<mbController, locals, servo, solenoid, lamps>>

SetBrakes ==
  IF "BRAKES_AT_STOP" \in SysFlags
  THEN Coils("brakes", "stopDone", {"BRAKE"}, {})
  ELSE Coils("brakes", "stopDone", {}, {"BRAKE"})

StopDone ==
  /\ pc = "stopDone"
  /\ pc' = "pend"
  /\ IPC_Notify({}, {Note(last_mode_requested, msg.flags, solenoid)})
  /\ Complete("STOP")
  /\ shuttling' = FALSE
  /\ UNCHANGED <<mbController, msg, requests, record, stoptimer, autoslow,
                 servo, solenoid, lamps>>

-----------------------------------------------------------------------------
(* Finishing a pending PLAY                                                  *)

PlayStopped ==
  /\ Waiting
  /\ mode_pending = "PLAY"
  /\ lamps' = {"PLAY"}
  /\ pc' = IF shuttling \/ prev_mode_requested \in ShuttleModes
           THEN "settle" ELSE "lower"
  /\ UNCHANGED <<mbController, msg, progress, requests, shuttle, servo,
                 solenoid, stc>>

LowerLifters_BrakesOn ==
  \E from \in {"settle", "lower"} : Coils(from, "pinch", {}, {"TLIFT"})

LowerLifters ==
  \E from \in {"settle", "lower"} : Coils(from, "pinch", {}, {"TLIFT", "BRAKE"})

EngagePinchRoller ==
  Coils("pinch", "capstan",
        IF "ENGAGE_PINCH_ROLLER" \in SysFlags THEN {"PROL"} ELSE {}, {})

(* The capstan is started before the reels are put in PLAY.                  *)
StartCapstan == Coils("capstan", "playMode", {"SERVO"}, {})

PlayNote_PreviousMode == Note(prev_mode_requested, msg.flags, solenoid)
PlayNote == Note(last_mode_requested, msg.flags, solenoid)

PlayComplete ==
  /\ pc' = "pend"
  /\ Complete("PLAY")
  /\ shuttling' = FALSE

StartPlay ==
  /\ pc = "playMode"
  /\ Servo_SetMode("PLAY")
  /\ record' = FALSE
  /\ \/ /\ record /\ ~RecordOn
        /\ pc' = "playHoldOn"
        /\ UNCHANGED <<last_mode_completed, mode_pending, shuttling, stc>>
     \/ /\ ~(record /\ ~RecordOn)
        /\ IPC_Notify({}, {PlayNote})
        /\ PlayComplete
  /\ UNCHANGED <<mbController, msg, requests, stoptimer, autoslow, velocity,
                 solenoid, lamps>>

PlayRecorded ==
  /\ pc = "playRecorded"
  /\ lamps' = lamps \cup {"REC"}
  /\ IPC_Notify({Note(mode, {"RECORD"}, solenoid)}, {PlayNote})
  /\ PlayComplete
  /\ UNCHANGED <<mbController, msg, requests, record, stoptimer, autoslow,
                 servo, solenoid>>

-----------------------------------------------------------------------------
(* Service_StopMode: the servo loop ends dynamic braking once the reels are
   slower than the detection threshold.                                     *)
ServoBrakeDone ==
  /\ mode = "STOP"
  /\ stop_brake_state
  /\ stop_brake_state' = FALSE
  /\ UNCHANGED <<mbController, pc, locals, mode, mode_prev, velocity,
                 outputs>>

ModeChange ==
  \E c \in Commands :
    \/ HandleImmediateCommand(c)
    \/ SkipSame(c)
    \/ Halt(c)
    \/ Thread(c)
    \/ Stop(c)
    \/ Play(c)
    \/ \E m \in ShuttleModes : Shuttle(c, m)

Resume ==
  \/ RecordDrop
  \/ RecordOff
  \/ ToggleLifters
  \/ LifterToggled
  \/ RecordEnable
  \/ Recorded
  \/ HaltCoils
  \/ HaltMode
  \/ ThreadCoils
  \/ Threaded
  \/ StopCoils
  \/ StopMode
  \/ ShuttleAccepted
  \/ ShuttleCoils
  \/ ShuttleReady
  \/ ShuttleStart
  \/ EndMotion
  \/ StopLamp
  \/ SetLifters
  \/ LiftersReleased
  \/ SetBrakes
  \/ StopDone
  \/ LowerLifters
  \/ EngagePinchRoller
  \/ StartCapstan
  \/ StartPlay
  \/ PlayRecorded

Timeout ==
  \/ AutoSlow
  \/ StopTimesOut
  \/ StillMoving
  \/ StopStopped
  \/ PlayStopped

TransportControllerTask == ModeChange \/ Resume \/ Timeout

ControllerNext ==
  \/ \E c \in Commands : Send(c)
  \/ TransportControllerTask
  \/ ServoBrakeDone

ControllerSpec == ControllerInit /\ [][ControllerNext]_controllerVars

(* The controller task is never starved for good: nothing above its priority
   runs without blocking (the servo loop, the 5 ms poll and the IPC readers
   all wait for their next event).                                          *)
FairControllerSpec ==
  ControllerSpec /\ WF_controllerVars(TransportControllerTask)
-----------------------------------------------------------------------------
(* A THREAD command is taken in any mode; only the commander sends one, after
   reading HALT.  The commander (priority 9) runs when the controller (10) is
   blocked, and in HALT that is at its empty mailbox.  In OrderlySpec THREAD is
   sent only then: the commander is not let in during an SPI transfer of the
   controller.  Transport.tla has the commander without this assumption.     *)
OrderlySend(c) ==
  /\ Send(c)
  /\ c.op = "THREAD" => mode = "HALT" /\ pc = "pend" /\ mbController = <<>>

OrderlyNext ==
  \/ \E c \in Commands : OrderlySend(c)
  \/ TransportControllerTask
  \/ ServoBrakeDone

OrderlySpec == ControllerInit /\ [][OrderlyNext]_controllerVars

(* What the transport promises its users: TransportMode, with the record hold
   line as the recording state.                                              *)
Promise == INSTANCE TransportMode WITH recording <- RecordOn
KeepsPromise == Promise!Spec

-----------------------------------------------------------------------------
Notes == [mode : Modes \cup {"NONE"}, flags : SUBSET OpcodeFlags, lift : BOOLEAN]
ModesOrNone == Modes \cup {"NONE"}

(* Type invariant: every variable of the controller keeps its type and the
   mailbox its capacity; the stop timer stays below its limit.               *)
TypeOK ==
  /\ mbController \in Seq(Commands)
  /\ Len(mbController) <= MailboxSize
  /\ pc \in Points
  /\ msg \in Commands \cup {NoCommand}
  /\ last_mode_completed \in ModesOrNone
  /\ last_mode_requested \in ModesOrNone
  /\ prev_mode_requested \in ModesOrNone
  /\ mode_pending \in {"NONE", "STOP", "PLAY"}
  /\ record \in BOOLEAN
  /\ stoptimer \in 0 .. StopTimeout - 1
  /\ shuttling \in BOOLEAN
  /\ autoslow \in BOOLEAN
  /\ mode \in Modes
  /\ mode_prev \in Modes
  /\ stop_brake_state \in BOOLEAN
  /\ velocity \in {"none", "shuttle", "library", "param", "autoslow"}
  /\ solenoid \in SUBSET Solenoids
  /\ lamps \in SUBSET Lamps
  /\ stc \in Notes

(* While a STOP or PLAY is pending the reel servos are in STOP, but for a
   THREAD that replaces it and the record latch at the end of a PLAY.
   (TransportTask.c:479, 527, 550, 567: the modes are set before
   mode_pending.)                                                            *)
PendingMeansStop ==
  mode_pending # "NONE" =>
    mode = CASE pc \in PlayRecordPoints -> "PLAY"
             [] pc \in {"threadCoils", "threaded"} -> "THREAD"
             [] OTHER -> "STOP"

(* With nothing pending, the mode the controller believes completed is the
   one the servos are in.  The test that skips a repeated command
   (TransportTask.c:427) is sound only because of this.                      *)
CompletedIsServoMode ==
  pc = "pend" /\ mode_pending = "NONE" =>
    mode = IF last_mode_completed = "NONE" THEN "HALT" ELSE last_mode_completed

(* The reels do not pull against the brakes: in a mode that moves the tape the
   brake solenoid is released, whatever sleeps and commands came between.  Only
   two windows of the code are excepted, each the length of one transfer with
   its wait for the bus: a HALT sets the brakes before it halts the reels
   (TransportTask.c:465, 468), and a THREAD frees the reels of a halted
   transport before its brakes (479, 483).                                   *)
BrakesOffInMotion ==
  mode \in {"PLAY", "FWD", "REW", "THREAD"} /\ "BRAKE" \in solenoid =>
    pc \in {"haltMode", "threadCoils"}

(* Tape is lifted off the heads whenever the transport shuttles, although the
   lift defeat command can drop the lifters at other times; but for the window
   in which a HALT has set the brakes and dropped the lifters and the mode is
   still the shuttle's (TransportTask.c:465, 468).                           *)
LiftersInShuttle ==
  mode \in ShuttleModes /\ "TLIFT" \notin solenoid => pc = "haltMode"

(* In HALT (tape out) the capstan, the pinch roller and record are off.       *)
HaltIsSafe ==
  mode = "HALT" => solenoid \cap {"SERVO", "PROL", "RECP", "RECH"} = {}

(* Channels are held in record only in PLAY (RecordDisable,
   TransportTask.c:217-219, is called when changing modes), and the capstan
   runs against the tape only in PLAY and, with the reels stopped, in the
   window between its start and the change to PLAY (924, 927).               *)
RecordOnlyInPlay ==
  /\ RecordOn => mode = "PLAY"
  /\ "SERVO" \in solenoid => mode = "PLAY" \/ (mode = "STOP" /\ pc = "playMode")

(* The hold line is up and the lamp, lit after the pulse, is not yet.         *)
Latching == pc \in {"hold", "pulse", "recorded",
                    "playHold", "playPulse", "playRecorded"}

(* The operator sees the record lamp exactly while channels are held in
   record, but for the settling and pulse of the latch before it, and the
   window after it in which the hold line has been dropped and the lamp is
   still to be cleared (TransportTask.c:229, 232).                           *)
RecordLampTrue ==
  /\ "REC" \in lamps => RecordOn \/ pc = "recordOff"
  /\ RecordOn => "REC" \in lamps \/ Latching

(* The STC's idea of the mode is right at rest, STOP after a time-out apart:
   the notifications of the later command are the last ones sent.            *)
StcTracksMode ==
  pc = "pend" /\ mode_pending = "NONE" /\ mode # "STOP" =>
    stc.mode \in {mode, "NONE"}

(* Leaving PLAY, FWD or REW for STOP arms dynamic braking, although
   Servo_SetMode tests the mode before the one it leaves.                    *)
BrakeArmedAfterMotion ==
  [][(mode \in {"PLAY", "FWD", "REW"} /\ mode' = "STOP")
       => stop_brake_state' = TRUE]_controllerVars

(* A transport in HALT is never set moving: it goes to STOP or THREAD first.  *)
HaltHoldsTape ==
  [][mode = "HALT" => mode' \in {"HALT", "STOP", "THREAD"}]_controllerVars

(* A pending STOP or PLAY is resolved, by the reels stopping or the stop
   timer, unless commands keep coming and restart the timer.                 *)
PendingResolves ==
  []<>(mode_pending = "NONE") \/ []<>(mbController # <<>>)

HaltQueued == \E i \in DOMAIN mbController : mbController[i].op = "HALT"

(* A HALT that is in the mailbox is obeyed, whatever is pending or asleep.    *)
HaltObeyed == HaltQueued ~> mode = "HALT"

=============================================================================
