----------------------------- MODULE Diagnostics -----------------------------
(***************************************************************************)
(* The diagnostics of the service terminal (src/Diag.c) over the transport *)
(* controller.  A test asks for HALT, writes the solenoids behind the      *)
(* controller's back until the operator escapes, puts them back, and asks  *)
(* for HALT again; the DAC tests also set the torque that HALT gives the   *)
(* reels.  The lamp test writes the controller's lamp mask.                *)
(*                                                                         *)
(* The terminal has the lowest priority: it runs while the controller      *)
(* waits for a command, for the bus or in a sleep.  A Name_Variant is a    *)
(* mistake the code could have made in Name.                               *)
(***************************************************************************)
EXTENDS TransportController, Integers

CONSTANTS
  Levels,       (* the table of diag_dac_adjust, from zero upwards           *)
  DacMax,       (* the full scale of the DAC                                 *)
  RampSteps,    (* what the keys u, U, d and D add                           *)
  s_lamp        (* the lamps that diag_lamp shows, in order (five in the code) *)

VARIABLES
  test,         (* the diagnostic that runs                                  *)
  place,        (* where it is                                               *)
  level,        (* g_servo.dac_halt_takeup and dac_halt_supply               *)
  save_mask,    (* save_mask of diag_lamp                                    *)
  copy,         (* g_lamp_mask changed, and not yet stored back              *)
  lamp,         (* the lamp that diag_lamp shows                             *)
  recording     (* history: record was begun or ended beside the lamp test   *)

lampVars == <<save_mask, copy, lamp, recording>>
diagVars == <<test, place, level, lampVars>>
diagnosticsVars == <<controllerVars, diagVars>>

HaltCommand == ModeCommand("HALT", {}, 0)

ASSUME DiagAssumption ==
  /\ HaltCommand \in Commands
  /\ DacMax \in Nat
  /\ Levels \in Seq(0 .. DacMax) /\ Levels # <<>> /\ Levels[1] = 0
  /\ RampSteps \subseteq Int
  /\ s_lamp \in Seq(Lamps) /\ s_lamp # <<>>

DacTests == {"dac_adjust", "dac_ramp"}
BrakeTests == DacTests \cup {"brakes"}
CoilTests == {"pinch_roller", "lifters", "servo"}
HaltTests == BrakeTests \cup CoilTests
Tests == HaltTests \cup {"lamp", "none"}

(* The solenoid a test works on.                                             *)
Coil(t) ==
  CASE t \in BrakeTests -> {"BRAKE"}
    [] t = "pinch_roller" -> {"PROL"}
    [] t = "lifters" -> {"TLIFT"}
    [] t = "servo" -> {"SERVO"}
    [] OTHER -> {}

-----------------------------------------------------------------------------
DiagInit ==
  /\ test = "none"
  /\ place = "menu"
  /\ level = 0
  /\ save_mask = {}
  /\ copy = {}
  /\ lamp = 1
  /\ recording = FALSE

TerminalRuns == pc # "pend" \/ mbController = <<>>

At(from, to) == TerminalRuns /\ place = from /\ place' = to

(* check_halt.  That the reels stand still is left to Start happening.       *)
check_halt == mode = "HALT"

Start(t) ==
  /\ At("menu", "entered")
  /\ check_halt
  /\ test' = t
  /\ UNCHANGED <<controllerVars, level, lampVars>>

(* QueueTransportCommand waits ten ticks for room, and then drops it.        *)
AskHalt ==
  \/ QueueTransportCommand(HaltCommand)
  \/ Len(mbController) = MailboxSize /\ UNCHANGED mbController

EnterHalt ==
  /\ At("entered", "queued")
  /\ AskHalt
  /\ UNCHANGED <<pc, locals, servo, outputs, test, level, lampVars>>

(* A test writes the solenoids: on for set, off for clear.                   *)
Writes(set, clear) ==
  /\ SetTransportMask(set, clear)
  /\ UNCHANGED <<mbController, pc, locals, servo, lamps, stc, lampVars>>

(* The brakes are released for torque, engaged for their own test; any other
   coil starts released.                                                     *)
Prepare ==
  /\ At("queued", "keys")
  /\ IF test = "brakes" THEN Writes({"BRAKE"}, {}) ELSE Writes({}, Coil(test))
  /\ UNCHANGED <<test, level>>

(* SPACE, in the tests of one coil.                                          *)
Toggle ==
  /\ At("keys", "keys")
  /\ test \in CoilTests \cup {"brakes"}
  /\ \/ Writes(Coil(test), {})
     \/ Writes({}, Coil(test))
  /\ UNCHANGED <<test, level>>

(* N and P move to a neighbour in the table.                                 *)
AdjustedLevel(l) ==
  \E i, j \in DOMAIN Levels :
    /\ Levels[i] = level
    /\ j \in i - 1 .. i + 1
    /\ l = Levels[j]

(* The ramp starts over from zero when it has shown the full scale.          *)
RampedLevel(l) ==
  \E step \in RampSteps :
    LET dac == (IF level >= DacMax THEN 0 ELSE level) + step
    IN  l = IF dac > DacMax THEN DacMax ELSE IF dac < 0 THEN 0 ELSE dac

SetLevel ==
  /\ At("keys", "keys")
  /\ \/ test = "dac_adjust" /\ AdjustedLevel(level')
     \/ test = "dac_ramp" /\ RampedLevel(level')
  /\ UNCHANGED <<controllerVars, test, lampVars>>

(* ESC: no torque, then the coil back, in this order.                        *)
Escape ==
  /\ At("keys", "escaped")
  /\ level' = IF test \in DacTests THEN 0 ELSE level
  /\ UNCHANGED <<controllerVars, test, lampVars>>

PutBack_NoBrakes ==
  /\ At("escaped", "left")
  /\ test' = "none"
  /\ IF test = "brakes" THEN Writes({"BRAKE"}, {}) ELSE Writes({}, Coil(test))
  /\ UNCHANGED level

PutBack ==
  /\ At("escaped", "left")
  /\ test' = "none"
  /\ IF test \in BrakeTests THEN Writes({"BRAKE"}, {})
                            ELSE Writes({}, Coil(test))
  /\ UNCHANGED level

LeaveHalt ==
  /\ At("left", "menu")
  /\ AskHalt
  /\ UNCHANGED <<pc, locals, servo, outputs, test, level, lampVars>>

-----------------------------------------------------------------------------
(* The controller is between the record hold line and its lamp.               *)
Pulsing == Latching \/ pc = "recordOff"

(* diag_lamp: |= and &= read the mask, change it and store it, and a task of
   higher priority may change it in between.                                 *)
StoreLamps(mask) ==
  /\ lamps' = mask
  /\ UNCHANGED <<mbController, pc, locals, servo, solenoid, stc>>

LampTest ==
  /\ At("menu", "next")
  /\ test' = "lamp"
  /\ save_mask' = lamps
  /\ lamp' = 1
  /\ recording' = (Pulsing \/ ~RecordLampTrue)
  /\ UNCHANGED <<controllerVars, level, copy>>

LampRead ==
  /\ At("next", "light")
  /\ copy' = lamps \cup {s_lamp[lamp]}
  /\ UNCHANGED <<controllerVars, test, level, save_mask, lamp, recording>>

LampOn ==
  /\ At("light", "lit")
  /\ StoreLamps(copy)
  /\ copy' = {}
  /\ UNCHANGED <<test, level, save_mask, lamp, recording>>

LampReadAgain ==
  /\ At("lit", "dark")
  /\ copy' = lamps \ {s_lamp[lamp]}
  /\ UNCHANGED <<controllerVars, test, level, save_mask, lamp, recording>>

LampOff ==
  /\ At("dark", "next")
  /\ StoreLamps(copy)
  /\ lamp' = (lamp % Len(s_lamp)) + 1
  /\ copy' = {}
  /\ UNCHANGED <<test, level, save_mask, recording>>

LampEnd ==
  /\ At("lit", "menu")
  /\ test' = "none"
  /\ StoreLamps(save_mask)
  /\ save_mask' = {}
  /\ UNCHANGED <<level, copy, lamp, recording>>

-----------------------------------------------------------------------------
HaltTest ==
  \/ \E t \in HaltTests : Start(t)
  \/ EnterHalt
  \/ Prepare
  \/ Toggle
  \/ SetLevel
  \/ Escape
  \/ PutBack
  \/ LeaveHalt

diag_lamp ==
  \/ LampTest
  \/ LampRead
  \/ LampOn
  \/ LampReadAgain
  \/ LampOff
  \/ LampEnd

(* The transport at work.                                                    *)
Controls ==
  /\ OrderlyNext
  /\ recording' = (recording \/ (test = "lamp" /\ (Pulsing \/ RecordOn' # RecordOn)))
  /\ UNCHANGED <<test, place, level, save_mask, copy, lamp>>

DiagnosticsInit == ControllerInit /\ DiagInit

DiagnosticsNext == Controls \/ HaltTest \/ diag_lamp
DiagnosticsSpec == DiagnosticsInit /\ [][DiagnosticsNext]_diagnosticsVars

-----------------------------------------------------------------------------
(* Type invariant of the terminal's part.                                    *)
DiagTypeOK ==
  /\ test \in Tests
  /\ place \in {"menu", "entered", "queued", "keys", "escaped", "left",
                "next", "light", "lit", "dark"}
  /\ level \in 0 .. DacMax
  /\ save_mask \in SUBSET Lamps
  /\ copy \in SUBSET Lamps
  /\ lamp \in DOMAIN s_lamp
  /\ recording \in BOOLEAN

(* What a test leaves in HALT.  Once the controller has completed HALT the
   brakes hold and every other coil but the lifters, which the operator may
   toggle, is off, up to the coil of the test that runs; the reels have torque
   in a DAC test only.  Whatever the transport was made to do during the test,
   and although a repeated HALT is skipped (TransportTask.c:427), so that
   asking for HALT puts nothing back (Diag.c:192, 195).                      *)
HaltRestored ==
  /\ DiagTypeOK
  /\ level # 0 => test \in DacTests
  /\ mode = "HALT" /\ last_mode_completed = "HALT" =>
       solenoid \ (Coil(test) \cup {"TLIFT"}) = {"BRAKE"} \ Coil(test)

(* "Transport MUST be in halt mode" (Diag.c:218) while a test has the
   solenoids or the torque in its hands, whenever the controller is at rest.  *)
TestsInHalt ==
  place = "keys" /\ pc = "pend" /\ mbController = <<>> /\ mode_pending = "NONE"
    => mode = "HALT"

(* With no test running the record lamp tells whether channels are held in
   record ("Turn of the rec indicator LED and lamps", TransportTask.c:231).   *)
RecordLampShown == test = "none" => RecordLampTrue

(* A test leaves nothing behind: HaltRestored, and the record lamp is true
   again after a lamp test beside which record neither began nor ended,
   whatever else the transport did to the mask that the test reads, changes
   and stores back (Diag.c:490, 503, 509).                                   *)
TestsAreUndone == HaltRestored /\ (~recording => RecordLampShown)
=============================================================================
