--------------------------- MODULE ServoLoopProofs ---------------------------
(***************************************************************************)
(* Proofs about ServoLoop, for every gain, tension, velocity and scale of  *)
(* the DAC that ServoAssumption allows.                                    *)
(***************************************************************************)
EXTENDS ServoLoop, TLAPS

Torques == [supply : Int, takeup : Int]

(* What ServoAssumption says of each constant, and the products made of them. *)
LEMMA Numbers ==
  /\ DacMax \in Nat /\ Den \in Nat /\ BrakeTorque \in Nat /\ AutoSlow \in Nat
  /\ BoostTicks \in Nat /\ BoostEnd \in Nat /\ MaxSpeed \in Nat
  /\ Threshold \in Nat /\ Jitter \in Nat
  /\ BoostEnd > 0 /\ BoostEnd <= MaxSpeed /\ AutoSlow > 0
  /\ CvMin \in Int /\ CvMin < 0 /\ CvMax \in Nat
  /\ ShuttleGains \in [Kp : Nat, Ki : Nat] /\ PlayGains \in [Kp : Nat, Ki : Nat]
  /\ Unit \in Nat /\ Unit * DacMax \in Nat
<1>1. {DacMax, Den, BrakeTorque, AutoSlow, BoostTicks, BoostEnd, MaxSpeed}
        \subseteq Nat \ {0}
  BY ServoAssumption
<1>2. /\ DacMax \in Nat /\ Den \in Nat /\ BrakeTorque \in Nat /\ AutoSlow \in Nat
      /\ BoostTicks \in Nat /\ BoostEnd \in Nat /\ MaxSpeed \in Nat
      /\ BoostEnd # 0 /\ AutoSlow # 0
  BY <1>1
<1>3. {Threshold, Jitter} \subseteq Nat
  BY ServoAssumption
<1>4. Threshold \in Nat /\ Jitter \in Nat
  BY <1>3
<1>5. {ShuttleGains, PlayGains} \subseteq [Kp : Nat, Ki : Nat]
  BY ServoAssumption
<1>6. ShuttleGains \in [Kp : Nat, Ki : Nat] /\ PlayGains \in [Kp : Nat, Ki : Nat]
  BY <1>5
<1>7. CvMin \in Int /\ CvMin < 0 /\ CvMax \in Nat /\ BoostEnd <= MaxSpeed
  BY ServoAssumption
<1>8. Unit \in Nat
  BY <1>2 DEF Unit
<1>9. Unit * DacMax \in Nat
  BY <1>2, <1>8
<1> QED
  BY <1>2, <1>4, <1>6, <1>7, <1>8, <1>9

(* Pushing to the takeup never makes the tape pull to the supply, whatever the
   clamps of the DAC cut off, and the reverse.                               *)
LEMMA PushForward ==
  ASSUME NEW rest \in Torques, NEW s \in Nat, NEW t \in Nat
  PROVE  /\ DAC_CLAMP(Pushed(rest, s, t)) \in [Reels -> Int]
         /\ Drive(rest, DAC_CLAMP(Pushed(rest, s, t))) \in Nat
<1>1. Unit * DacMax \in Nat
  BY Numbers
<1> DEFINE full == Unit * DacMax
<1> HIDE DEF full
<1> SUFFICES /\ Clamp(0, rest.supply - s, full) \in Int
             /\ Clamp(0, rest.takeup + t, full) \in Int
             /\ Clamp(0, rest.supply, full) \in Int
             /\ Clamp(0, rest.takeup, full) \in Int
             /\ Clamp(0, rest.supply - s, full) <= Clamp(0, rest.supply, full)
             /\ Clamp(0, rest.takeup + t, full) >= Clamp(0, rest.takeup, full)
  BY DEF DAC_CLAMP, Drive, Pushed, Reels, full
<1> QED
  BY <1>1 DEF Clamp, Torques, full

(* Torques on both reels that push the tape back drive it back when clamped. *)
LEMMA PushBack ==
  ASSUME NEW rest \in Torques, NEW s \in Int, NEW t \in Int, s <= 0, t <= 0
  PROVE  /\ DAC_CLAMP(Pushed(rest, s, t)) \in [Reels -> Int]
         /\ Drive(rest, DAC_CLAMP(Pushed(rest, s, t))) \in Int
         /\ Drive(rest, DAC_CLAMP(Pushed(rest, s, t))) <= 0
<1>1. Unit * DacMax \in Nat
  BY Numbers
<1> DEFINE full == Unit * DacMax
<1> HIDE DEF full
<1> SUFFICES /\ Clamp(0, rest.supply - s, full) \in Int
             /\ Clamp(0, rest.takeup + t, full) \in Int
             /\ Clamp(0, rest.supply, full) \in Int
             /\ Clamp(0, rest.takeup, full) \in Int
             /\ Clamp(0, rest.supply - s, full) >= Clamp(0, rest.supply, full)
             /\ Clamp(0, rest.takeup + t, full) <= Clamp(0, rest.takeup, full)
  BY DEF DAC_CLAMP, Drive, Pushed, Reels, full
<1> QED
  BY <1>1 DEF Clamp, Torques, full

(* The PID keeps its integral and its output within the limits it is given.  *)
LEMMA PidBounds ==
  ASSUME NEW gains \in [Kp : Nat, Ki : Nat], NEW i \in Int,
         NEW setpoint \in Int, NEW actual \in Int
  PROVE  /\ fpid_calc(i, gains, setpoint, actual).iState \in CvMin..CvMax
         /\ fpid_calc(i, gains, setpoint, actual).cv \in Int
<1> DEFINE error == setpoint - actual
           integral == Clamp(CvMin, i + error, CvMax)
           sum == gains.Kp * error + gains.Ki * integral
<1>1. CvMin \in Int /\ CvMin < 0 /\ CvMax \in Nat /\ Den \in Nat
  BY Numbers
<1>2. error \in Int
  OBVIOUS
<1>3. integral \in CvMin..CvMax
  BY <1>1, <1>2 DEF Clamp
<1>4. integral \in Int
  BY <1>1, <1>3
<1>5. sum \in Int
  BY <1>2, <1>4
<1>6. CvMin * Den \in Int /\ CvMax * Den \in Int
  BY <1>1
<1>7. Clamp(CvMin * Den, sum, CvMax * Den) \in Int
  BY <1>5, <1>6 DEF Clamp
<1> QED
  BY <1>3, <1>7 DEF fpid_calc

(* The torque of the reels at rest is a number in each mode.                 *)
LEMMA RestIsTorque ==
  ASSUME NEW arm \in Int, NEW offset \in Int, mode \in Modes
  PROVE  AtRest(arm, offset) \in Torques
<1>1. Tension[mode]["supply"] \in Int /\ Tension[mode]["takeup"] \in Int
  BY ServoAssumption DEF Reels
<1>2. Unit \in Int
  BY Numbers
<1> QED
  BY <1>1, <1>2 DEF AtRest, Torques

-----------------------------------------------------------------------------
(* A torque on the scale gives a word on the scale, though the division drops
   the fraction.                                                             *)
LEMMA Quotient ==
  ASSUME NEW torque \in Nat, NEW unit \in Nat, NEW full \in Nat,
         unit > 0, torque <= unit * full
  PROVE  full - (torque \div unit) \in 0..full
<1> DEFINE quotient == torque \div unit
<1>1. quotient \in Int
  OBVIOUS
<1>2. unit * quotient <= torque /\ torque < unit * quotient + unit
  BY SMTT(20)
<1> HIDE DEF quotient
<1>3. quotient <= full
  <2> SUFFICES ASSUME quotient > full
               PROVE  FALSE
    BY <1>1
  <2>1. unit * (quotient - full) <= 0
    BY <1>1, <1>2, SMTT(20)
  <2>2. quotient - full \in Nat /\ quotient - full >= 1
    BY <1>1
  <2>3. unit * (quotient - full) >= unit
    BY <2>2, SMTT(20)
  <2> QED
    BY <2>1, <2>2, <2>3
<1>4. quotient >= 0
  <2> SUFFICES ASSUME quotient <= -1
               PROVE  FALSE
    BY <1>1
  <2>1. unit * (quotient + 1) > 0
    BY <1>1, <1>2, SMTT(20)
  <2> QED
    BY <1>1, <2>1, SMTT(20)
<1>5. full - quotient \in 0..full
  BY <1>1, <1>3, <1>4
<1> QED
  BY <1>5 DEF quotient

(* A clamped torque is written as words within the scale of the DAC.         *)
LEMMA WordsOnScale ==
  ASSUME NEW torque,
         torque["supply"] \in 0..(Unit * DacMax), torque["takeup"] \in 0..(Unit * DacMax),
         MotorDAC_write(torque)
  PROVE  dac' \in [Reels -> 0..DacMax]
<1>1. Unit \in Nat /\ Unit > 0 /\ DacMax \in Nat /\ Unit * DacMax \in Nat
  BY Numbers, ServoAssumption DEF Unit
<1>2. /\ DacMax - (torque["supply"] \div Unit) \in 0..DacMax
      /\ DacMax - (torque["takeup"] \div Unit) \in 0..DacMax
  BY <1>1, Quotient
<1> QED
  BY <1>2 DEF MotorDAC_write, Reels

(* DAC_CLAMP limits the torques of both reels to the scale.                  *)
LEMMA ClampedOnScale ==
  ASSUME NEW torque \in Torques
  PROVE  DAC_CLAMP(torque) \in [Reels -> 0..(Unit * DacMax)]
<1> DEFINE full == Unit * DacMax
<1>1. full \in Nat
  BY Numbers
<1> HIDE DEF full
<1>2. /\ Clamp(0, torque.supply, full) \in 0..full
      /\ Clamp(0, torque.takeup, full) \in 0..full
  BY <1>1 DEF Clamp, Torques
<1> QED
  BY <1>2 DEF DAC_CLAMP, Reels, full

(* However the torques drive the tape, its speed stays within its range.     *)
LEMMA MovedInRange ==
  ASSUME speed \in -MaxSpeed..MaxSpeed, NEW drive \in Int
  PROVE  Moved(drive) \in -MaxSpeed..MaxSpeed
<1>1. MaxSpeed \in Nat /\ BoostEnd \in Nat /\ BoostEnd <= MaxSpeed /\ speed \in Int
  BY Numbers
<1>2. CASE mode = "PLAY"
  <2>1. speed + Sign(BoostEnd - speed) \in -MaxSpeed..MaxSpeed
    BY <1>1 DEF Sign, Clamp
  <2> QED
    BY <1>2, <2>1 DEF Moved
<1>3. CASE mode # "PLAY" /\ drive = 0
  <2>1. speed - Sign(speed) \in -MaxSpeed..MaxSpeed
    BY <1>1 DEF Sign, Clamp
  <2> QED
    BY <1>3, <2>1 DEF Moved
<1>4. CASE mode # "PLAY" /\ drive # 0
  <2>1. Sign(drive) \in Int
    BY DEF Sign, Clamp
  <2>2. Clamp(-MaxSpeed, speed + Sign(drive), MaxSpeed) \in -MaxSpeed..MaxSpeed
    BY <1>1, <2>1 DEF Clamp
  <2> QED
    BY <1>4, <2>2 DEF Moved
<1> QED
  BY <1>2, <1>3, <1>4

(* What a service function writes keeps DACs and speed in their ranges.      *)
LEMMA WritesInRange ==
  ASSUME speed \in -MaxSpeed..MaxSpeed,
         NEW rest \in Torques, NEW torque \in Torques, Writes(rest, torque)
  PROVE  dac' \in [Reels -> 0..DacMax] /\ speed' \in -MaxSpeed..MaxSpeed
<1> DEFINE clamped == DAC_CLAMP(torque)
<1>1. /\ clamped \in [Reels -> 0..(Unit * DacMax)]
      /\ DAC_CLAMP(rest) \in [Reels -> 0..(Unit * DacMax)]
  BY ClampedOnScale
<1>2. MotorDAC_write(clamped) /\ speed' = Moved(Drive(rest, clamped))
  BY DEF Writes
<1>3. dac' \in [Reels -> 0..DacMax]
  BY <1>1, <1>2, WordsOnScale DEF Reels
<1>4. Drive(rest, clamped) \in Int
  BY <1>1, Numbers DEF Drive, Reels
<1> QED
  BY <1>2, <1>3, <1>4, MovedInRange

-----------------------------------------------------------------------------
(* A tick keeps the types, one mode at a time.                               *)
ServedOK ==
  /\ stop_brake_state' \in {0, 1}
  /\ play_boost_count' \in 0..BoostTicks
  /\ pid' \in [shuttle : CvMin..CvMax, play : CvMin..CvMax]
  /\ holdback' \in Holdbacks \cup {0}
  /\ dac' \in [Reels -> 0..DacMax]
  /\ speed' \in -MaxSpeed..MaxSpeed

(* The modes with fixed tensions keep the types.                             *)
LEMMA FixedType ==
  ASSUME ServoTypeOK, Service_Fixed
  PROVE  ServedOK
<1> DEFINE rest == AtRest(0, 0)
<1>1. /\ Tension[mode]["supply"] \in 0..DacMax
      /\ Tension[mode]["takeup"] \in 0..DacMax
  BY ServoAssumption DEF ServoTypeOK, Reels
<1>2. /\ rest["supply"] = Unit * Tension[mode]["supply"]
      /\ rest["takeup"] = Unit * Tension[mode]["takeup"]
  BY <1>1, Numbers DEF AtRest
<1>3. \A t \in 0..DacMax : Unit * t \in 0..(Unit * DacMax)
  <2> TAKE t \in 0..DacMax
  <2>1. t \in Nat /\ DacMax - t \in Nat /\ Unit \in Nat
    BY Numbers
  <2>2. Unit * t \in Nat /\ Unit * (DacMax - t) \in Nat
    BY <2>1
  <2>3. Unit * DacMax = Unit * t + Unit * (DacMax - t)
    BY <2>1, Numbers, SMTT(20)
  <2> QED
    BY <2>2, <2>3, Numbers
<1>4. dac' \in [Reels -> 0..DacMax]
  BY <1>1, <1>2, <1>3, WordsOnScale DEF Service_Fixed
<1>5. speed' \in -MaxSpeed..MaxSpeed
  BY MovedInRange DEF Service_Fixed, ServoTypeOK
<1> QED
  BY <1>4, <1>5 DEF Service_Fixed, ServoTypeOK, ServedOK

(* STOP: the reels are braked against the motion.                            *)
LEMMA StopType ==
  ASSUME ServoTypeOK, NEW rest \in Torques, Service_StopMode(rest),
         direction' \in {TAPE_DIR_FWD, 0, TAPE_DIR_REW}
  PROVE  ServedOK
<1> DEFINE braked == stop_brake_state # 0 /\ Abs(speed) > Threshold
           torque == IF braked THEN Den * Braking(Abs(speed)) ELSE 0
           pushed == Pushed(rest, direction' * torque, direction' * torque)
<1>1. /\ stop_brake_state' = (IF braked THEN stop_brake_state ELSE 0)
      /\ Writes(rest, pushed)
      /\ UNCHANGED <<play_boost_count, pid, holdback>>
  BY DEF Service_StopMode
<1>2. Abs(speed) \in Int
  BY Numbers DEF ServoTypeOK, Abs
<1>3. Braking(Abs(speed)) \in Int
  BY <1>2, Numbers DEF Braking
<1>4. torque \in Int
  BY <1>3, Numbers
<1>5. direction' * torque \in Int
  BY <1>4 DEF TAPE_DIR_FWD, TAPE_DIR_REW
<1>6. pushed \in Torques
  BY <1>5 DEF Pushed, Torques
<1>7. dac' \in [Reels -> 0..DacMax] /\ speed' \in -MaxSpeed..MaxSpeed
  BY <1>1, <1>6, WritesInRange DEF ServoTypeOK
<1> QED
  BY <1>1, <1>7 DEF ServoTypeOK, ServedOK

(* PLAY: the boost with its PID, then the tensions and the arm.              *)
LEMMA PlayType ==
  ASSUME ServoTypeOK, NEW rest \in Torques, NEW arm \in Int,
         Service_PlayMode(rest, arm)
  PROVE  ServedOK
<1>1. CASE play_boost_count # 0
  <2> DEFINE boost == fpid_calc(pid.play, PlayGains, BoostEnd, tape_tach)
             pushed == Pushed(rest, 0, 2 * boost.cv - Unit * arm)
  <2>1. /\ pid' = [pid EXCEPT !.play = boost.iState]
        /\ play_boost_count' = NextBoost(boost.cv)
        /\ Writes(rest, pushed)
        /\ UNCHANGED <<stop_brake_state, holdback>>
    BY <1>1 DEF Service_PlayMode
  <2>2. pid.play \in Int /\ tape_tach \in Int
    BY Numbers DEF ServoTypeOK
  <2>3. boost.iState \in CvMin..CvMax /\ boost.cv \in Int
    BY <2>2, Numbers, PidBounds
  <2>4. play_boost_count' \in 0..BoostTicks
    <3>1. play_boost_count \in 0..BoostTicks
      BY DEF ServoTypeOK
    <3>2. BoostTicks \in Nat
      BY Numbers
    <3> QED
      BY <1>1, <2>1, <2>3, <3>1, <3>2 DEF NextBoost
  <2>5. Unit * arm \in Int
    BY Numbers
  <2>6. pushed \in Torques
    BY <2>3, <2>5 DEF Pushed, Torques
  <2>7. dac' \in [Reels -> 0..DacMax] /\ speed' \in -MaxSpeed..MaxSpeed
    BY <2>1, <2>6, WritesInRange DEF ServoTypeOK
  <2> QED
    BY <2>1, <2>3, <2>4, <2>7 DEF ServoTypeOK, ServedOK
<1>2. CASE play_boost_count = 0
  <2>1. Writes(rest, rest) /\ UNCHANGED <<play_boost_count, pid, stop_brake_state, holdback>>
    BY <1>2 DEF Service_PlayMode
  <2>2. dac' \in [Reels -> 0..DacMax] /\ speed' \in -MaxSpeed..MaxSpeed
    BY <2>1, WritesInRange DEF ServoTypeOK
  <2> QED
    BY <2>1, <2>2 DEF ServoTypeOK, ServedOK
<1> QED
  BY <1>1, <1>2

(* The PID of the shuttle keeps its integral within its limits.              *)
LEMMA ShuttlePidType ==
  ASSUME ServoTypeOK
  PROVE  ShuttlePid.iState \in CvMin..CvMax /\ ShuttlePid.cv \in Int
<1>1. pid.shuttle \in Int /\ shuttle_velocity \in Int /\ Abs(speed) \in Int
  BY Numbers, ServoAssumption DEF ServoTypeOK, Abs
<1> QED
  BY <1>1, Numbers, PidBounds DEF ShuttlePid

(* The control value of a shuttle, with the sign of the direction.           *)
LEMMA CvType ==
  ASSUME NEW cv \in Int, NEW against
  PROVE  ShuttleCv(cv, against) \in Int
BY DEF ShuttleCv, Abs

(* The holdback torque is a number, one of those there are or none.          *)
LEMMA HoldbackType ==
  ASSUME NEW offset, holdback' \in Holdback(offset)
  PROVE  /\ holdback' \in Holdbacks \cup {0}
         /\ holdback' \in Nat /\ Unit * holdback' \in Nat
<1>1. holdback' \in Holdbacks \cup {0}
  BY DEF Holdback
<1>2. Holdbacks \subseteq Nat
  BY ServoAssumption
<1>3. holdback' \in Nat
  BY <1>1, <1>2
<1>4. Unit \in Nat
  BY Numbers
<1>5. \A h \in Nat : Unit * h \in Nat
  BY <1>4
<1> QED
  BY <1>1, <1>3, <1>5

(* FWD: the take-up reel pulls and the supply reel holds back.               *)
LEMMA FwdType ==
  ASSUME ServoTypeOK, NEW rest \in Torques, NEW offset \in Int,
         Service_FwdMode(rest, offset)
  PROVE  ServedOK
<1> DEFINE cv == ShuttleCv(ShuttlePid.cv, TAPE_DIR_REW)
<1>1. /\ pid' = [pid EXCEPT !.shuttle = ShuttlePid.iState]
      /\ holdback' \in Holdback(offset)
      /\ Writes(rest, Pushed(rest, cv - Unit * holdback', 2 * cv))
      /\ UNCHANGED <<stop_brake_state, play_boost_count>>
  BY DEF Service_FwdMode, Shuttle
<1>2. holdback' \in Holdbacks \cup {0} /\ Unit * holdback' \in Nat
  BY <1>1, HoldbackType
<1>3. cv \in Int
  BY ShuttlePidType, CvType
<1>4. Pushed(rest, cv - Unit * holdback', 2 * cv) \in Torques
  BY <1>2, <1>3 DEF Pushed, Torques
<1>5. dac' \in [Reels -> 0..DacMax] /\ speed' \in -MaxSpeed..MaxSpeed
  BY <1>1, <1>4, WritesInRange DEF ServoTypeOK
<1> QED
  BY <1>1, <1>2, <1>5, ShuttlePidType DEF ServoTypeOK, ServedOK

(* REW: the supply reel pulls and the take-up reel holds back.               *)
LEMMA RewType ==
  ASSUME ServoTypeOK, NEW rest \in Torques, NEW offset \in Int,
         Service_RewMode(rest, offset)
  PROVE  ServedOK
<1> DEFINE cv == ShuttleCv(ShuttlePid.cv, TAPE_DIR_FWD)
<1>1. /\ pid' = [pid EXCEPT !.shuttle = ShuttlePid.iState]
      /\ holdback' \in Holdback(-offset)
      /\ Writes(rest, Pushed(rest, -2 * cv, Unit * holdback' - cv))
      /\ UNCHANGED <<stop_brake_state, play_boost_count>>
  BY DEF Service_RewMode, Shuttle
<1>2. holdback' \in Holdbacks \cup {0} /\ Unit * holdback' \in Nat
  BY <1>1, HoldbackType
<1>3. cv \in Int
  BY ShuttlePidType, CvType
<1>4. Pushed(rest, -2 * cv, Unit * holdback' - cv) \in Torques
  BY <1>2, <1>3 DEF Pushed, Torques
<1>5. dac' \in [Reels -> 0..DacMax] /\ speed' \in -MaxSpeed..MaxSpeed
  BY <1>1, <1>4, WritesInRange DEF ServoTypeOK
<1> QED
  BY <1>1, <1>2, <1>5, ShuttlePidType DEF ServoTypeOK, ServedOK

-----------------------------------------------------------------------------
(* One turn of the servo task keeps the types, and the DACs on scale.        *)
LEMMA TaskType ==
  ASSUME ServoTypeOK, ServoLoopTask
  PROVE  ServoTypeOK' /\ OnScale'
<1>1. direction' \in {TAPE_DIR_FWD, 0, TAPE_DIR_REW} /\ motion' \in BOOLEAN
  <2>1. speed \in Int
    BY Numbers DEF ServoTypeOK
  <2>2. Sign(speed) = -1 \/ Sign(speed) = 0 \/ Sign(speed) = 1
    BY <2>1 DEF Sign, Clamp
  <2>3. direction' \in {-1, 0, 1}
    BY <2>2 DEF ServoLoopTask, Reads
  <2>4. motion' \in BOOLEAN
    BY DEF ServoLoopTask, Reads
  <2> QED
    BY <2>3, <2>4 DEF TAPE_DIR_FWD, TAPE_DIR_REW
<1>2. ASSUME Service_Fixed
      PROVE  ServedOK
  BY <1>2, FixedType
<1>3. ASSUME NEW arm \in Arms, NEW offset \in Offsets,
             \/ Service_StopMode(AtRest(arm, offset))
             \/ Service_PlayMode(AtRest(arm, offset), arm)
             \/ Service_FwdMode(AtRest(arm, offset), offset)
             \/ Service_RewMode(AtRest(arm, offset), offset)
      PROVE  ServedOK
  <2>1. arm \in Int /\ offset \in Int
    BY ServoAssumption
  <2>2. AtRest(arm, offset) \in Torques
    BY <2>1, RestIsTorque DEF ServoTypeOK
  <2> QED
    BY <1>1, <1>3, <2>1, <2>2, StopType, PlayType, FwdType, RewType
<1>4. \/ Service_Fixed
      \/ \E arm \in Arms, offset \in Offsets :
           \/ Service_StopMode(AtRest(arm, offset))
           \/ Service_PlayMode(AtRest(arm, offset), arm)
           \/ Service_FwdMode(AtRest(arm, offset), offset)
           \/ Service_RewMode(AtRest(arm, offset), offset)
  BY DEF ServoLoopTask
<1>6. ServedOK
  BY <1>2, <1>3, <1>4
<1>5. UNCHANGED <<mode, mode_prev, shuttle_velocity, coming, tachVars>>
  BY DEF ServoLoopTask
<1>7. dac' \in [Reels -> Int]
  BY <1>6, Numbers DEF ServedOK
<1>8. OnScale'
  BY <1>6 DEF ServedOK, OnScale
<1> QED
  BY <1>1, <1>5, <1>6, <1>7, <1>8 DEF ServoTypeOK, ServedOK, tachVars

(* A change of mode keeps the types.                                         *)
LEMMA SetModeType ==
  ASSUME ServoTypeOK, NEW m \in Modes, Servo_SetMode(m)
  PROVE  mode' \in Modes /\ mode_prev' \in Modes /\ stop_brake_state' \in {0, 1}
BY DEF ServoTypeOK, Servo_SetMode

(* Types: modes, the integrals of both PIDs within their limits, the boost count
   within its, and the speed of the tape, for every scale and gain.          *)
THEOREM ServoTypeCorrect == Spec => []ServoTypeOK
<1>1. ASSUME Init
      PROVE  ServoTypeOK
  <2>1. /\ DacMax \in Int /\ BoostTicks \in Nat /\ MaxSpeed \in Nat
        /\ CvMin \in Int /\ CvMin < 0 /\ CvMax \in Nat
    BY Numbers
  <2>2. pid \in [shuttle : CvMin..CvMax, play : CvMin..CvMax]
    BY <1>1, <2>1 DEF Init, fpid_init
  <2>3. holdback \in Holdbacks \cup {0} /\ dac \in [Reels -> Int]
    BY <1>1, <2>1 DEF Init
  <2>4. speed \in -MaxSpeed..MaxSpeed
    BY <1>1, <2>1 DEF Init
  <2>5. play_boost_count \in 0..BoostTicks /\ tape_tach \in 0..MaxSpeed
    BY <1>1, <2>1 DEF Init
  <2> QED
    BY <1>1, <2>2, <2>3, <2>4, <2>5 DEF Init, ServoTypeOK, Modes
<1>2. ServoTypeOK /\ [Next]_vars => ServoTypeOK'
  <2> SUFFICES ASSUME ServoTypeOK, [Next]_vars
               PROVE  ServoTypeOK'
    OBVIOUS
  <2>0. /\ BoostTicks \in Nat /\ AutoSlow \in Nat /\ MaxSpeed \in Nat
        /\ CvMin \in Int /\ CvMin < 0 /\ CvMax \in Nat
    BY Numbers
  <2>1. CASE ServoLoopTask
    BY <2>1, TaskType
  <2>2. ASSUME NEW m \in Modes, Sets(m)
        PROVE  ServoTypeOK'
    BY <2>2, SetModeType DEF Sets, ServoTypeOK, readVars, motorVars, tachVars
  <2>3. ASSUME NEW m \in {"FWD", "REW"}, ResetShuttlePID(m)
        PROVE  ServoTypeOK'
    BY <2>0, <2>3 DEF ResetShuttlePID, ServoTypeOK, servoVars, readVars, motorVars, tachVars,
       fpid_init
  <2>4. CASE ResetPlayPID
    BY <2>0, <2>4 DEF ResetPlayPID, ServoTypeOK, servoVars, readVars, motorVars,
       fpid_init
  <2>5. CASE SetsComing
    <3>1. coming \in Modes
      BY <2>5 DEF SetsComing, ServoTypeOK, Modes
    <3> QED
      BY <2>5, <3>1, SetModeType DEF SetsComing, ServoTypeOK, readVars, motorVars, tachVars
  <2>6. CASE ChangesVelocity
    BY <2>6 DEF ChangesVelocity, ServoTypeOK, servoVars, readVars, motorVars,
       tachVars
  <2>7. CASE HandleAutoSlow
    BY <2>7 DEF HandleAutoSlow, ServoTypeOK, servoVars, readVars, motorVars,
       tachVars
  <2>8. CASE WTimer1AIntHandler
    <3>1. Abs(speed) \in 0..MaxSpeed
      BY <2>0 DEF ServoTypeOK, Abs
    <3>2. tape_tach' \in 0..MaxSpeed
      BY <2>0, <2>8, <3>1 DEF WTimer1AIntHandler
    <3> QED
      BY <2>8, <3>2 DEF WTimer1AIntHandler, ServoTypeOK, servoVars, readVars, motorVars
  <2>9. CASE WTimer1BIntHandler
    <3>1. tape_tach' \in 0..MaxSpeed
      BY <2>0, <2>9 DEF WTimer1BIntHandler
    <3>2. edgeSeen' \in BOOLEAN
      BY <2>9 DEF WTimer1BIntHandler
    <3> QED
      BY <2>9, <3>1, <3>2 DEF WTimer1BIntHandler, ServoTypeOK, servoVars, readVars, motorVars
  <2>10. CASE UNCHANGED vars
    BY <2>10 DEF vars, ServoTypeOK, servoVars, readVars, motorVars, tachVars
  <2> QED
    BY <2>1, <2>2, <2>3, <2>4, <2>5, <2>6, <2>7, <2>8, <2>9, <2>10 DEF Next
<1> QED
  BY <1>1, <1>2, PTL DEF Spec

(* Every word a motor gets is on the scale of the DAC, for every gain, tension
   and limit of the PIDs.                                                    *)
THEOREM WordsStayOnScale == Spec => []OnScale
<1>1. Init => OnScale
  BY Numbers DEF Init, OnScale
<1>2. ServoTypeOK /\ OnScale /\ [Next]_vars => OnScale'
  <2> SUFFICES ASSUME ServoTypeOK, OnScale, [Next]_vars
               PROVE  OnScale'
    OBVIOUS
  <2>1. CASE ServoLoopTask
    BY <2>1, TaskType
  <2>2. CASE UNCHANGED dac
    BY <2>2 DEF OnScale
  <2> QED
    BY <2>1, <2>2 DEF Next, vars, motorVars, Sets, ResetShuttlePID, ResetPlayPID, 
       SetsComing, ChangesVelocity, HandleAutoSlow, WTimer1AIntHandler, WTimer1BIntHandler
<1> QED
  BY <1>1, <1>2, ServoTypeCorrect, PTL DEF Spec

-----------------------------------------------------------------------------
(* A tape that moves is slowed down by a drive against it, and by none.      *)
LEMMA Slowed ==
  ASSUME speed \in -MaxSpeed..MaxSpeed, mode # "PLAY", NEW drive \in Int,
         (speed < 0 /\ drive >= 0) \/ (speed > 0 /\ drive <= 0)
  PROVE  Abs(Moved(drive)) <= Abs(speed)
<1>1. MaxSpeed \in Nat /\ speed \in Int
  BY Numbers
<1>2. CASE drive = 0
  <2>1. Moved(drive) = speed - Sign(speed)
    BY <1>2 DEF Moved
  <2> QED
    BY <1>1, <2>1 DEF Abs, Sign, Clamp
<1>3. CASE drive # 0
  <2>1. Moved(drive) = Clamp(-MaxSpeed, speed + Sign(drive), MaxSpeed)
    BY <1>3 DEF Moved
  <2>2. (speed < 0 /\ Sign(drive) = 1) \/ (speed > 0 /\ Sign(drive) = -1)
    BY <1>3 DEF Sign, Clamp
  <2> QED
    BY <1>1, <2>1, <2>2 DEF Abs, Clamp
<1> QED
  BY <1>2, <1>3

(* Whatever the gains, the clamps, the integral, the target and the holdbacks, a
   shuttle against the motion of the tape slows it down, unless the holdback of
   the tick is more than the torque of the PID.                              *)
THEOREM ReversalIsBraked == Spec => ReversalBrakes
<1> DEFINE enough == Unit * holdback' > Abs(ShuttlePid.cv)
<1>1. ServoTypeOK /\ ServoLoopTask /\ Against /\ Gains => enough
  <2> SUFFICES ASSUME ServoTypeOK, ServoLoopTask, Against, ~enough
               PROVE  Abs(speed') <= Abs(speed)
    <3>1. ASSUME ServoTypeOK
          PROVE  Abs(speed) \in Int
      <4>1. MaxSpeed \in Int /\ speed \in -MaxSpeed..MaxSpeed
        BY <3>1, Numbers DEF ServoTypeOK
      <4> QED
        BY <4>1 DEF Abs
    <3>2. ASSUME ServoTypeOK, ServoLoopTask
          PROVE  Abs(speed') \in Int
      <4>1. MaxSpeed \in Int /\ speed' \in -MaxSpeed..MaxSpeed
        BY <3>2, TaskType, Numbers DEF ServoTypeOK
      <4> QED
        BY <4>1 DEF Abs
    <3> QED
      BY <3>1, <3>2 DEF Gains
  <2>1. PICK arm \in Arms, offset \in Offsets :
          \/ Service_FwdMode(AtRest(arm, offset), offset)
          \/ Service_RewMode(AtRest(arm, offset), offset)
    BY DEF ServoLoopTask, Against, Service_Fixed, Service_StopMode, Service_PlayMode
  <2> DEFINE rest == AtRest(arm, offset)
             cv == Abs(ShuttlePid.cv)
  <2>2. rest \in Torques
    BY ServoAssumption, RestIsTorque DEF ServoTypeOK
  <2>3. speed \in Int /\ speed \in -MaxSpeed..MaxSpeed /\ Threshold \in Nat
    BY Numbers DEF ServoTypeOK
  <2>4. /\ direction' = 1 => speed < 0
        /\ direction' = -1 => speed > 0
    BY <2>3 DEF ServoLoopTask, Reads, Sign, Clamp, Abs
  <2>5. cv \in Nat
    BY ShuttlePidType DEF Abs
  <2> HIDE DEF rest, cv
  <2>6. ASSUME mode = "FWD", direction' = TAPE_DIR_REW,
               Service_FwdMode(rest, offset)
        PROVE  Abs(speed') <= Abs(speed)
    <3>1. /\ holdback' \in Holdback(offset)
          /\ Writes(rest, Pushed(rest, cv - Unit * holdback', 2 * cv))
      BY <2>6 DEF Service_FwdMode, ShuttleCv, cv
    <3>2. cv - Unit * holdback' \in Nat /\ 2 * cv \in Nat
      BY <2>5, <3>1, HoldbackType DEF cv
    <3>3. PICK s \in Nat, t \in Nat : Writes(rest, Pushed(rest, s, t))
      BY <3>1, <3>2
    <3>4. Drive(rest, DAC_CLAMP(Pushed(rest, s, t))) \in Nat
      BY <2>2, PushForward
    <3>5. PICK drive \in Nat : speed' = Moved(drive)
      BY <3>3, <3>4 DEF Writes
    <3>6. speed < 0 /\ mode # "PLAY"
      BY <2>4, <2>6 DEF TAPE_DIR_REW
    <3> QED
      BY <2>3, <3>5, <3>6, Slowed
  <2>7. ASSUME mode = "REW", direction' = TAPE_DIR_FWD,
               Service_RewMode(rest, offset)
        PROVE  Abs(speed') <= Abs(speed)
    <3>1. /\ holdback' \in Holdback(-offset)
          /\ Writes(rest, Pushed(rest, -2 * cv, Unit * holdback' - cv))
      BY <2>7 DEF Service_RewMode, ShuttleCv, cv
    <3>2. /\ -2 * cv \in Int /\ -2 * cv <= 0
          /\ Unit * holdback' - cv \in Int /\ Unit * holdback' - cv <= 0
      BY <2>5, <3>1, HoldbackType DEF cv
    <3>3. PICK s \in Int, t \in Int :
            s <= 0 /\ t <= 0 /\ Writes(rest, Pushed(rest, s, t))
      BY <3>1, <3>2
    <3>4. /\ Drive(rest, DAC_CLAMP(Pushed(rest, s, t))) \in Int
          /\ Drive(rest, DAC_CLAMP(Pushed(rest, s, t))) <= 0
      BY <2>2, <3>3, PushBack
    <3>5. PICK drive \in Int : drive <= 0 /\ speed' = Moved(drive)
      BY <3>3, <3>4 DEF Writes
    <3>6. speed > 0 /\ mode # "PLAY"
      BY <2>4, <2>7 DEF TAPE_DIR_FWD
    <3> QED
      BY <2>3, <3>5, <3>6, Slowed
  <2> QED
    BY <2>1, <2>6, <2>7 DEF Against, rest, Service_FwdMode, Service_RewMode
<1>2. ServoTypeOK /\ [Next]_vars
        => [ServoLoopTask /\ Against /\ Gains => enough]_vars
  BY <1>1
<1> QED
  BY <1>2, ServoTypeCorrect, PTL DEF Spec, ReversalBrakes
=============================================================================
