------------------------------ MODULE ServoLoop ------------------------------
(***************************************************************************)
(* The reel servos: ServoLoopTask (src/ServoTask.c) runs at the highest    *)
(* priority, 500 times a second, and sets the torque of both reel motors   *)
(* from what it reads of the reels, the mode and the PID states.           *)
(* TransportControllerTask prepares a PID and then changes the mode, and   *)
(* may be preempted in between.  The tape roller tachometer is read from   *)
(* two interrupts (src/TapeTachWide.c).                                    *)
(*                                                                         *)
(* Numbers are small and exact: a torque is a multiple of 1 / Unit of a    *)
(* step of the DAC, and the gains are fractions with denominator Den.      *)
(* Left out: averages over seconds (reel offset, radius, temperature) and  *)
(* the tension arm are values any tick may find; the LEDs.                 *)
(*                                                                         *)
(* The tape itself is external: see Moved.                                 *)
(***************************************************************************)
EXTENDS Integers

CONSTANTS
  DacMax,       (* DAC_MAX                                                   *)
  CvMin, CvMax, (* PID_CV_MIN_F, PID_CV_MAX_F                                *)
  Den,          (* denominator of the gains                                  *)
  ShuttleGains, (* Kp and Ki of the shuttle, times Den                       *)
  PlayGains,    (* and of the play boost                                     *)
  Tension,      (* for each mode, the torque of a reel at rest               *)
  BrakeTorque,  (* g_sys.stop_brake_torque                                   *)
  Threshold,    (* g_sys.vel_detect_threshold                                *)
  Velocities,   (* shuttle velocities a command asks for                     *)
  AutoSlow,     (* g_sys.shuttle_autoslow_velocity                           *)
  BoostTicks,   (* ticks of play boost (1000)                                *)
  BoostEnd,     (* tape speed that ends the boost                            *)
  Arms,         (* torques the tension arm adds                              *)
  Offsets,      (* reel offsets of the supply, the takeup has the opposite   *)
  Holdbacks,    (* holdback torques of a reel that is ahead                  *)
  MaxSpeed,     (* the fastest the tape can go                               *)
  Jitter        (* up to this speed the reels may disagree on the direction  *)

VARIABLES
  mode, mode_prev, stop_brake_state,
  direction,    (* g_servo.direction, -1 is forward                          *)
  motion,       (* g_servo.motion                                            *)
  shuttle_velocity,
  play_boost_count,
  pid,          (* integral states of pid_shuttle and pid_play               *)
  holdback,     (* g_servo.holdback, what the last tick of a shuttle found    *)
  dac,          (* the two DAC words                                         *)
  coming,       (* the mode the controller has prepared and not yet set      *)
  tape_tach,    (* what TapeTach_read returns                                *)
  edgeSeen,     (* g_prevCount is the count at an edge                       *)
  speed         (* of the tape, negative in rewind                           *)

servoVars == <<mode, mode_prev, stop_brake_state>>
readVars == <<direction, motion>>
tachVars == <<tape_tach, edgeSeen>>
motorVars == <<holdback, dac>>
vars == <<servoVars, readVars, shuttle_velocity, play_boost_count, pid,
          motorVars, coming, tachVars, speed>>

-----------------------------------------------------------------------------
Modes == {"HALT", "STOP", "PLAY", "FWD", "REW", "THREAD"}
Reels == {"supply", "takeup"}
Unit == 2 * Den

TAPE_DIR_FWD == -1
TAPE_DIR_REW == 1

Abs(n) == IF n < 0 THEN -n ELSE n
Clamp(low, n, high) == IF n < low THEN low ELSE IF n > high THEN high ELSE n
Sign(n) == Clamp(-1, n, 1)

ASSUME ServoAssumption ==
  /\ {DacMax, Den, BrakeTorque, AutoSlow, BoostTicks, BoostEnd, MaxSpeed}
       \subseteq Nat \ {0}
  /\ BoostEnd <= MaxSpeed
  /\ {Threshold, Jitter} \subseteq Nat
  /\ CvMin \in Int /\ CvMin < 0 /\ CvMax \in Nat
  /\ {ShuttleGains, PlayGains} \subseteq [Kp : Nat, Ki : Nat]
  /\ Tension \in [Modes -> [Reels -> 0..DacMax]]
  /\ Velocities \subseteq Nat \ {0}
  /\ Arms \cup Offsets \subseteq Int /\ Holdbacks \subseteq Nat

(* fpid_init, and fpid_calc: the new integral state and the CV in 1 / Den.  The
   D term acts only in the tick after a new set point and is left out.       *)
fpid_init == 0

fpid_calc_NoFloor(iState, gains, setpoint, actual) ==
  LET error == setpoint - actual
      integral == IF iState + error > CvMax THEN CvMax ELSE iState + error
  IN [iState |-> integral,
      cv |-> Clamp(CvMin * Den, gains.Kp * error + gains.Ki * integral, CvMax * Den)]

fpid_calc(iState, gains, setpoint, actual) ==
  LET error == setpoint - actual
      integral == Clamp(CvMin, iState + error, CvMax)
  IN [iState |-> integral,
      cv |-> Clamp(CvMin * Den, gains.Kp * error + gains.Ki * integral, CvMax * Den)]

Init ==
  /\ mode = "HALT" /\ mode_prev = "HALT" /\ stop_brake_state = 0
  /\ direction = 0 /\ motion = FALSE
  /\ shuttle_velocity = 0 /\ play_boost_count = 0
  /\ pid = [shuttle |-> fpid_init, play |-> fpid_init]
  /\ holdback = 0
  /\ dac = [r \in Reels |-> DacMax]
  /\ coming = "none"
  /\ tape_tach = 0 /\ edgeSeen = FALSE
  /\ speed = 0

-----------------------------------------------------------------------------
(* What TransportControllerTask does to the servos; its own order is in
   TransportController.                                                      *)
Servo_SetMode(m) ==
  /\ mode' = m
  /\ mode_prev' = mode
  /\ stop_brake_state' = IF m # "STOP" THEN stop_brake_state
                         ELSE IF mode_prev # "HALT" THEN 1 ELSE 0

Sets(m) ==
  /\ coming = "none"
  /\ m \in {"STOP", "HALT"} \/ (m = "THREAD" /\ mode = "HALT")
  /\ Servo_SetMode(m)
  /\ UNCHANGED <<readVars, shuttle_velocity, play_boost_count, pid, motorVars,
                 coming, tachVars, speed>>

ResetShuttlePID(m) ==
  /\ coming = "none"
  /\ mode \notin {"HALT", m}
  /\ pid' = [pid EXCEPT !.shuttle = fpid_init]
  /\ shuttle_velocity' \in Velocities
  /\ coming' = m
  /\ UNCHANGED <<servoVars, readVars, play_boost_count, motorVars, tachVars, speed>>

(* A pending play, once the reels are at rest: a tick of 2 ms cannot change
   that before the task asks, a tick of the model can.  With TapeTach_reset.  *)
ResetPlayPID ==
  /\ coming = "none"
  /\ mode = "STOP" /\ ~motion /\ Abs(speed) <= Threshold
  /\ pid' = [pid EXCEPT !.play = fpid_init]
  /\ play_boost_count' = BoostTicks
  /\ tape_tach' = 0
  /\ coming' = "PLAY"
  /\ UNCHANGED <<servoVars, readVars, shuttle_velocity, motorVars, edgeSeen, speed>>

SetsComing ==
  /\ coming # "none"
  /\ Servo_SetMode(coming)
  /\ coming' = "none"
  /\ UNCHANGED <<readVars, shuttle_velocity, play_boost_count, pid, motorVars,
                 tachVars, speed>>

(* The same shuttle command again, with a velocity.                          *)
ChangesVelocity ==
  /\ coming = "none"
  /\ mode \in {"FWD", "REW"}
  /\ shuttle_velocity' \in Velocities
  /\ UNCHANGED <<servoVars, readVars, play_boost_count, pid, motorVars,
                 coming, tachVars, speed>>

(* HandleAutoSlow: the reel that empties turns fast enough.                  *)
HandleAutoSlow ==
  /\ coming = "none"
  /\ <<mode, direction>> \in {<<"FWD", TAPE_DIR_FWD>>, <<"REW", TAPE_DIR_REW>>}
  /\ Abs(speed) >= AutoSlow
  /\ shuttle_velocity' = AutoSlow
  /\ UNCHANGED <<servoVars, readVars, play_boost_count, pid, motorVars,
                 coming, tachVars, speed>>

-----------------------------------------------------------------------------
(* The tachometer.  WTimer1AIntHandler: the period since the last edge is the
   speed; when the time-out has forgotten that edge the period starts at
   nothing and may be any.  WTimer1BIntHandler: half a second with no edges.  *)
WTimer1AIntHandler ==
  /\ speed # 0
  /\ edgeSeen' = TRUE
  /\ tape_tach' \in IF edgeSeen THEN {Abs(speed)} ELSE 1..MaxSpeed
  /\ UNCHANGED <<servoVars, readVars, shuttle_velocity, play_boost_count, pid,
                 motorVars, coming, speed>>

WTimer1BIntHandler ==
  /\ Abs(speed) <= 1
  /\ edgeSeen' = FALSE
  /\ tape_tach' = 0
  /\ UNCHANGED <<servoVars, readVars, shuttle_velocity, play_boost_count, pid,
                 motorVars, coming, speed>>

-----------------------------------------------------------------------------
(* A tick.  The torque of a mode is that of the reels at rest, changed by
   Push: a positive Push adds torque on the takeup.                          *)
AtRest(arm, offset) ==
  [supply |-> Unit * (Tension[mode]["supply"] + arm + offset),
   takeup |-> Unit * (Tension[mode]["takeup"] + arm - offset)]

DAC_CLAMP_NoFloor(torque) ==
  [r \in Reels |-> IF torque[r] > Unit * DacMax THEN Unit * DacMax ELSE torque[r]]

DAC_CLAMP(torque) == [r \in Reels |-> Clamp(0, torque[r], Unit * DacMax)]

(* MotorDAC_write: (uint32_t) drops the fraction.                            *)
MotorDAC_write(torque) ==
  dac' = [r \in Reels |-> DacMax - torque[r] \div Unit]

(* Pushed(rest, s, t): the supply loses s and the takeup wins t.             *)
Pushed(rest, s, t) == [supply |-> rest.supply - s, takeup |-> rest.takeup + t]

(* The tape (external): the torque that differs from the balance of the reels
   at rest speeds it up or slows it down, friction stops it, and in PLAY the
   capstan pulls it.                                                         *)
Drive(rest, torque) ==
  (torque.takeup - torque.supply)
    - (DAC_CLAMP(rest).takeup - DAC_CLAMP(rest).supply)

Moved(drive) ==
  CASE mode = "PLAY" -> speed + Sign(BoostEnd - speed)
    [] mode # "PLAY" /\ drive = 0 -> speed - Sign(speed)
    [] OTHER -> Clamp(-MaxSpeed, speed + Sign(drive), MaxSpeed)

Writes(rest, torque) ==
  \E clamped \in {DAC_CLAMP(torque)} :
    /\ MotorDAC_write(clamped)
    /\ speed' = Moved(Drive(rest, clamped))

(* Service_HaltMode and Service_ThreadMode do not clamp.                     *)
Service_Fixed ==
  /\ mode \in {"HALT", "THREAD"}
  /\ MotorDAC_write(AtRest(0, 0))
  /\ speed' = Moved(0)
  /\ UNCHANGED <<stop_brake_state, play_boost_count, pid, holdback>>

(* Half the velocity is taken from the torque, and full torque is used when
   less than nothing is left.                                                *)
Braking_NoFloor(velocity) == 2 * BrakeTorque - velocity

Braking(velocity) ==
  IF 2 * BrakeTorque < velocity THEN 2 * BrakeTorque ELSE 2 * BrakeTorque - velocity

Service_StopMode(rest) ==
  /\ mode = "STOP"
  /\ LET braked == stop_brake_state # 0 /\ Abs(speed) > Threshold
         torque == IF braked THEN Den * Braking(Abs(speed)) ELSE 0
     IN /\ stop_brake_state' = IF braked THEN stop_brake_state ELSE 0
        /\ Writes(rest, Pushed(rest, direction' * torque, direction' * torque))
  /\ UNCHANGED <<play_boost_count, pid, holdback>>

NextBoost_AtSpeedOnly(cv) == IF cv <= 0 THEN 0 ELSE play_boost_count

NextBoost(cv) == IF cv <= 0 THEN 0 ELSE play_boost_count - 1

(* The tension arm does not count on the takeup during the boost.            *)
Service_PlayMode(rest, arm) ==
  /\ mode = "PLAY"
  /\ IF play_boost_count # 0
     THEN \E boost \in {fpid_calc(pid.play, PlayGains, BoostEnd, tape_tach)} :
            /\ pid' = [pid EXCEPT !.play = boost.iState]
            /\ play_boost_count' = NextBoost(boost.cv)
            /\ Writes(rest, Pushed(rest, 0, 2 * boost.cv - Unit * arm))
     ELSE Writes(rest, rest) /\ UNCHANGED <<play_boost_count, pid>>
  /\ UNCHANGED <<stop_brake_state, holdback>>

(* Service_FwdMode and Service_RewMode.  An overspeed in the other direction
   makes the CV positive.                                                    *)
ShuttleCv_Signed(cv, against) == cv

ShuttleCv_OwnWay(cv, against) ==
  IF direction' = -against THEN Abs(cv) ELSE cv

ShuttleCv(cv, against) == IF direction' = against THEN Abs(cv) ELSE cv

(* The velocity of a reel times its offset: for the reel the shuttle unwinds.
   It adds to the torque of that reel whichever way the tape runs.           *)
Holdback(offset) == IF offset > 0 /\ speed # 0 THEN Holdbacks ELSE {0}

ShuttlePid == fpid_calc(pid.shuttle, ShuttleGains, shuttle_velocity, Abs(speed))

Shuttle ==
  /\ pid' = [pid EXCEPT !.shuttle = ShuttlePid.iState]
  /\ UNCHANGED <<stop_brake_state, play_boost_count>>

Service_FwdMode(rest, offset) ==
  /\ mode = "FWD"
  /\ Shuttle
  /\ holdback' \in Holdback(offset)
  /\ \E cv \in {ShuttleCv(ShuttlePid.cv, TAPE_DIR_REW)} :
       Writes(rest, Pushed(rest, cv - Unit * holdback', 2 * cv))

Service_RewMode(rest, offset) ==
  /\ mode = "REW"
  /\ Shuttle
  /\ holdback' \in Holdback(-offset)
  /\ \E cv \in {ShuttleCv(ShuttlePid.cv, TAPE_DIR_FWD)} :
       Writes(rest, Pushed(rest, -2 * cv, Unit * holdback' - cv))

(* The direction counts when both reels agree and the tape moves.            *)
Reads ==
  /\ motion' = (Abs(speed) > Threshold)
  /\ \/ direction' = IF Abs(speed) > Threshold THEN -Sign(speed) ELSE 0
     \/ Abs(speed) <= Jitter /\ direction' = 0

ServoLoopTask ==
  /\ Reads
  /\ \/ Service_Fixed
     \/ \E arm \in Arms, offset \in Offsets :
          \E rest \in {AtRest(arm, offset)} :
            \/ Service_StopMode(rest)
            \/ Service_PlayMode(rest, arm)
            \/ Service_FwdMode(rest, offset)
            \/ Service_RewMode(rest, offset)
  /\ UNCHANGED <<mode, mode_prev, shuttle_velocity, coming, tachVars>>

Next ==
  \/ ServoLoopTask
  \/ \E m \in Modes : Sets(m)
  \/ \E m \in {"FWD", "REW"} : ResetShuttlePID(m)
  \/ ResetPlayPID
  \/ SetsComing
  \/ ChangesVelocity
  \/ HandleAutoSlow
  \/ WTimer1AIntHandler
  \/ WTimer1BIntHandler

Spec == Init /\ [][Next]_vars /\ WF_vars(ServoLoopTask)

-----------------------------------------------------------------------------
ServoTypeOK ==
  /\ mode \in Modes /\ mode_prev \in Modes /\ stop_brake_state \in {0, 1}
  /\ direction \in {TAPE_DIR_FWD, 0, TAPE_DIR_REW} /\ motion \in BOOLEAN
  /\ shuttle_velocity \in {0, AutoSlow} \cup Velocities
  /\ play_boost_count \in 0..BoostTicks
  /\ pid \in [shuttle : CvMin..CvMax, play : CvMin..CvMax]
  /\ holdback \in Holdbacks \cup {0} /\ dac \in [Reels -> Int]
  /\ coming \in {"none", "PLAY", "FWD", "REW"}
  /\ tape_tach \in 0..MaxSpeed /\ edgeSeen \in BOOLEAN
  /\ speed \in -MaxSpeed..MaxSpeed

(* The word of a motor is in the range of the DAC in every mode: no torque
   below zero or past full scale wraps around in the unsigned subtraction of
   MotorDAC_write.                                                           *)
OnScale == \A r \in Reels : dac[r] \in 0..DacMax

(* While the tape still runs the other way, the PID of a shuttle only slows it
   down, at any speed, over or under the target: if the tape gains speed, the
   holdback of the tick was more than the torque the PID asked for
   (Service_FwdMode, Service_RewMode).                                       *)
Against ==
  \/ mode = "FWD" /\ direction' = TAPE_DIR_REW
  \/ mode = "REW" /\ direction' = TAPE_DIR_FWD
Gains == Abs(speed') > Abs(speed)
ReversalBrakes ==
  [][ServoLoopTask /\ Against /\ Gains => Unit * holdback' > Abs(ShuttlePid.cv)]_vars

(* src/ServoTask.c: "don't allow CV to be negative as this would cause speed to
   *increase* when direction changed!".  A shuttle against the motion never
   speeds the tape up, by its CV or otherwise.                               *)
ReversalNeverSpeedsUp == [][ServoLoopTask /\ Against => ~Gains]_vars

(* STOP brings the tape to rest and then releases the brake, from any speed and
   direction and whatever the mode was (Service_StopMode).                   *)
StopStops ==
  mode = "STOP" ~> mode # "STOP" \/ (stop_brake_state = 0 /\ Abs(speed) <= Threshold)

(* A shuttle on which no holdback acts any more gets the tape to move its way,
   with whatever the integral of the PID and the speed have become while the tape
   was running the other way, too fast, or driven on by a holdback.          *)
ShuttleTurns ==
  /\ <>[](mode = "FWD" /\ holdback = 0) => []<>(speed > Threshold)
  /\ <>[](mode = "REW" /\ holdback = 0) => []<>(speed < -Threshold)

(* A play boost that starts also ends, with a tachometer that is dead too.   *)
BoostEnds == mode = "PLAY" ~> mode # "PLAY" \/ play_boost_count = 0

(* src/ServoTask.c: "Has tape roller tach reached the correct speed yet?".  The
   boost that ends before its time ends at the speed of play.                *)
BoostEndsAtSpeed ==
  [][ServoLoopTask /\ play_boost_count > 1 /\ play_boost_count' = 0
       => Abs(speed) >= BoostEnd]_vars
=============================================================================
