-------------------------- MODULE MainControlProofs --------------------------
(***************************************************************************)
(* Proofs about MainControl, for every debounce time, end of tape count,   *)
(* blink period and set of lamps and buttons.                              *)
(*                                                                         *)
(* The loop compares the lamps it shows with a copy of the mask, and       *)
(* spoils that copy (0xFF) to force a notification.  StcIsCurrent needs    *)
(* LampsInv: the controller never lights all five lamps, so that a spoiled *)
(* copy differs from every mask the controller leaves behind.              *)
(***************************************************************************)
EXTENDS MainControl, TLAPS

Masks == LampSettings \cup {{}}

(* The lamps of the mask are a setting of the controller, whatever the LEDs. *)
LampsInv == g_lamp_mask \cap L_LAMP_MASK \in Masks

(* The sensor is counted to its limit and no further.                        *)
EotInv == eot_state = 1 => eot_count <= EotSamples

(* While SetLamp is blocked it has a mask to write.                          *)
WritingInv == at = "lamps" => lampArg \in SUBSET AllLamps

MainInv ==
  /\ StcIsCurrent
  /\ LampsInv
  /\ WritingInv
  /\ EotInv

-----------------------------------------------------------------------------
(* Operators                                                                 *)

(* No mask the controller leaves behind has all five lamps.                   *)
LEMMA NeverAllLamps == L_LAMP_MASK \notin Masks
  BY MainAssumption DEF Masks, L_LAMP_MASK

(* Blinking an LED leaves the controller's lamps as they are.                 *)
LEMMA BlinkKeepsLamps ==
  ASSUME NEW mask \in SUBSET AllLamps
  PROVE  /\ Blink(mask) \in SUBSET AllLamps
         /\ Blink(mask) \cap L_LAMP_MASK = mask \cap L_LAMP_MASK
  BY DEF Blink, AllLamps, L_LAMP_MASK, L_LED_MASK

(* A debounce counter stays below its limit, also with no debouncing.         *)
LEMMA CounterInRange ==
  ASSUME NEW differs \in BOOLEAN, NEW n \in 0..Debounce
  PROVE  Counted(differs, n) \in 0..Debounce
  BY MainAssumption DEF Counted, Debounced

(* Two masks with the same lamps are told to the STC in the same words.       *)
LEMMA ToldSame ==
  ASSUME NEW a, NEW b, a \cap L_LAMP_MASK = b \cap L_LAMP_MASK
  PROVE  Told(a) = Told(b)
  BY DEF Told

-----------------------------------------------------------------------------
(* The task starts with the invariant.                                       *)
LEMMA MainInit == Init => MainInv
<1> SUFFICES ASSUME Init PROVE MainInv
  OBVIOUS
<1>1. g_lamp_mask \in SUBSET L_LAMP_MASK /\ g_lamp_mask \in Masks
  BY MainAssumption DEF Init, Masks
<1>2. tout_prev \in SUBSET (Switches \cup {"TAPEOUT"})
  BY MainAssumption DEF Init, ArmBits
<1>3. MainTypeOK
  BY <1>1, <1>2, MainAssumption DEF Init, MainTypeOK, AllLamps
<1>4. g_lamp_mask \cap L_LAMP_MASK = g_lamp_mask
  BY <1>1
<1> QED
  BY <1>1, <1>3, <1>4
  DEF Init, MainInv, StcIsCurrent, LampsInv, WritingInv, EotInv

(* The turn of the loop begins: the blinking LED leaves the lamps alone.     *)
LEMMA TopStep ==
  ASSUME MainInv, Top
  PROVE  MainInv'
<1>1. MainTypeOK
  BY DEF MainInv, StcIsCurrent
<1>2. /\ g_lamp_mask' \in SUBSET AllLamps
      /\ g_lamp_mask' \cap L_LAMP_MASK = g_lamp_mask \cap L_LAMP_MASK
  BY <1>1, BlinkKeepsLamps DEF Top, MainTypeOK
<1>3. count' \in 0..Heartbeat - 1
  BY <1>1, MainAssumption DEF Top, MainTypeOK
<1>4. MainTypeOK'
  BY <1>1, <1>2, <1>3
  DEF Top, MainTypeOK, switchVars, speedVars, armVars, buttonVars, eotVars
<1>5. /\ UNCHANGED <<g_lamp_mask_prev, g_high_speed_flag, stc, eot_state,
                       eot_count>>
      /\ at' = "lamps" => lampArg' = g_lamp_mask'
  BY DEF Top, switchVars, speedVars, eotVars
<1>6. StcIsCurrent'
  BY <1>4, <1>5 DEF MainInv, StcIsCurrent, Told
<1>7. LampsInv' /\ WritingInv' /\ EotInv'
  BY <1>2, <1>5 DEF MainInv, LampsInv, WritingInv, EotInv
<1> QED BY <1>6, <1>7 DEF MainInv

(* The lamps set: either the STC is told, or it knew these lamps already, for
   a spoiled copy is never equal to the mask.                                *)
LEMMA LampsStep ==
  ASSUME MainInv, LampsSet
  PROVE  MainInv'
<1>1. MainTypeOK
  BY DEF MainInv, StcIsCurrent
<1>2. UNCHANGED <<g_lamp_mask, g_high_speed_flag, eot_state, eot_count>>
  BY DEF LampsSet, switchVars, speedVars, eotVars
<1>3. Told(g_lamp_mask) \in [lamps : SUBSET L_LAMP_MASK, speed : BOOLEAN]
  BY <1>1 DEF MainTypeOK, Told
<1>4. stc' \in {stc, Told(g_lamp_mask)} /\ shown' \in SUBSET AllLamps
  BY DEF LampsSet, MainInv, WritingInv
<1>5. MainTypeOK'
  BY <1>1, <1>3, <1>4
  DEF LampsSet, MainTypeOK, switchVars, speedVars, armVars, buttonVars, eotVars
<1>6. stc' = Told(g_lamp_mask)
  <2>1. CASE g_lamp_mask_prev \cap L_LAMP_MASK # g_lamp_mask \cap L_LAMP_MASK
    BY <2>1 DEF LampsSet
  <2>2. CASE g_lamp_mask_prev \cap L_LAMP_MASK = g_lamp_mask \cap L_LAMP_MASK
    <3>1. g_lamp_mask_prev # AllLamps
      <4>1. AllLamps \cap L_LAMP_MASK = L_LAMP_MASK
        BY DEF AllLamps
      <4> QED BY <2>2, <4>1, NeverAllLamps DEF MainInv, LampsInv
    <3>2. stc = Told(g_lamp_mask_prev)
      BY <3>1 DEF MainInv, StcIsCurrent
    <3>3. stc' = stc
      BY <2>2 DEF LampsSet
    <3> QED BY <2>2, <3>2, <3>3, ToldSame
  <2> QED BY <2>1, <2>2
<1>7. Told(g_lamp_mask)' = Told(g_lamp_mask) /\ g_lamp_mask_prev' = g_lamp_mask
  BY <1>2 DEF Told, LampsSet
<1>8. StcIsCurrent'
  <2>1. stc' = Told(g_lamp_mask_prev)'
    BY <1>2, <1>6, <1>7 DEF Told
  <2> QED BY <1>5, <2>1 DEF StcIsCurrent
<1> QED
  BY <1>2, <1>8 DEF LampsSet, MainInv, LampsInv, WritingInv, EotInv

(* The controller's writes leave the copy, and so what the STC knows, alone.  *)
LEMMA LightsStep ==
  ASSUME MainInv, NEW lamps \in LampSettings, ControllerLights(lamps)
  PROVE  MainInv'
<1>1. MainTypeOK
  BY DEF MainInv, StcIsCurrent
<1>2. lamps \in SUBSET L_LAMP_MASK /\ lamps \in Masks
  BY MainAssumption DEF Masks
<1>3. g_lamp_mask' \in SUBSET AllLamps
  BY <1>1, <1>2 DEF ControllerLights, MainTypeOK, AllLamps
<1>4. g_lamp_mask' \cap L_LAMP_MASK = lamps
  BY <1>2 DEF ControllerLights, L_LAMP_MASK, L_LED_MASK
<1>5. MainTypeOK'
  BY <1>1, <1>3
  DEF ControllerLights, MainTypeOK, switchVars, speedVars, armVars, buttonVars,
      eotVars
<1>6. UNCHANGED <<g_lamp_mask_prev, g_high_speed_flag, stc, eot_state, eot_count,
                  at, lampArg>>
  BY DEF ControllerLights, switchVars, speedVars, eotVars
<1>7. StcIsCurrent'
  BY <1>5, <1>6 DEF MainInv, StcIsCurrent, Told
<1> QED BY <1>2, <1>4, <1>6, <1>7 DEF MainInv, LampsInv, WritingInv, EotInv

(* A turn of the readings: a new speed spoils the copy, so that what the STC
   was told of the old speed does not stay.                                  *)
LEMMA PollStep ==
  ASSUME MainInv, NEW out \in BOOLEAN, NEW fast \in BOOLEAN,
         NEW active \in BOOLEAN, NEW bits \in Buttons \cup {{}},
         Poll(out, bits, fast, active)
  PROVE  MainInv'
<1>1. MainTypeOK
  BY DEF MainInv, StcIsCurrent
<1>b. bits \in SUBSET Switches
  BY MainAssumption
<1>2. debounce_tout' \in 0..Debounce
  <2>1. ArmDiffers(out) \in BOOLEAN
    BY DEF ArmDiffers
  <2> QED BY <1>1, <2>1, CounterInRange DEF Poll, ReadArm, MainTypeOK
<1>3. /\ tout_prev' \in SUBSET (Switches \cup {"TAPEOUT"})
      /\ g_tape_out_flag' \in BOOLEAN
  BY <1>1 DEF Poll, ReadArm, MainTypeOK, ArmBits
<1>4. debounce_tran' \in 0..Debounce
  <2>1. ButtonsDiffer(bits) \in BOOLEAN
    BY DEF ButtonsDiffer
  <2> QED BY <1>1, <2>1, CounterInRange DEF Poll, ReadButtons, MainTypeOK
<1>5. tran_prev' = None \/ tran_prev' \in SUBSET Switches
  BY <1>1, <1>b DEF Poll, ReadButtons, MainTypeOK
<1>6. debounce_mode' \in 0..Debounce
  <2>1. (fast # mode_prev) \in BOOLEAN
    OBVIOUS
  <2> QED BY <1>1, <2>1, CounterInRange DEF Poll, ReadSpeed, MainTypeOK
<1>7. /\ mode_prev' \in BOOLEAN /\ g_high_speed_flag' \in BOOLEAN
      /\ g_lamp_mask_prev' \in SUBSET AllLamps
  BY <1>1 DEF Poll, ReadSpeed, MainTypeOK
<1>8. /\ eot_state' \in 0..3 /\ eot_count' \in 0..EotSamples + 1
      /\ EotInv'
  BY <1>1, MainAssumption
  DEF Poll, ReadSensor, AfterEot, MainTypeOK, MainInv, EotInv
<1>9. /\ posted' \subseteq {"ARM", "BUTTONS", "EOT"}
      /\ at' = "top"
      /\ UNCHANGED <<count, g_lamp_mask, lampArg, shown, stc>>
  BY DEF Poll
<1>10. MainTypeOK'
  BY <1>1, <1>2, <1>3, <1>4, <1>5, <1>6, <1>7, <1>8, <1>9 DEF MainTypeOK
<1>11. \/ g_lamp_mask_prev' = AllLamps
       \/ UNCHANGED <<g_lamp_mask_prev, g_high_speed_flag>>
  BY DEF Poll, ReadSpeed
<1>12. StcIsCurrent'
  BY <1>9, <1>10, <1>11 DEF MainInv, StcIsCurrent, Told
<1> QED BY <1>8, <1>9, <1>12 DEF MainInv, LampsInv, WritingInv

(* Every step keeps the invariant.                                          *)
LEMMA MainNext == MainInv /\ [Next]_vars => MainInv'
<1> SUFFICES ASSUME MainInv, [Next]_vars PROVE MainInv'
  OBVIOUS
<1>1. CASE UNCHANGED vars
  BY <1>1
  DEF vars, lampVars, switchVars, speedVars, armVars, buttonVars, eotVars,
      MainInv, StcIsCurrent, MainTypeOK, LampsInv, WritingInv, EotInv, Told
<1> QED
  BY <1>1, TopStep, LampsStep, PollStep, LightsStep DEF Next, MainControlTask

(* Between two turns of the loop the STC knows the lamps the loop takes for
   current and the speed of the tape, whatever the controller lit while the
   loop was blocked; and every counter of the loop keeps within its limit, no
   debouncing at all included.                                               *)
THEOREM StcKnowsTheLamps == Spec => []StcIsCurrent
<1>1. MainInv => StcIsCurrent
  BY DEF MainInv
<1> QED BY <1>1, MainInit, MainNext, PTL DEF Spec
=============================================================================
