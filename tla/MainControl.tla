----------------------------- MODULE MainControl -----------------------------
(***************************************************************************)
(* The polling loop of MainControlTask (src/DTC1200.c): it drives the      *)
(* lamps from the mask the transport controller writes, tells the STC of   *)
(* them, and reads the tape arm, the buttons, the mode switches and the    *)
(* end of tape sensor.  Transport starts from what this loop posts.        *)
(*                                                                         *)
(* The task runs above the controller: the controller's writes fall into   *)
(* the places where the loop is blocked, which are the SPI transfers and   *)
(* the sleep.  The transfers of the switches touch nothing the controller  *)
(* writes, so that one step stands for the rest of the loop.               *)
(***************************************************************************)
EXTENDS Naturals

CONSTANTS
  Debounce,       (* g_sys.debounce                                          *)
  EotSamples,     (* active readings that make an end of tape (25 in the code) *)
  Heartbeat,      (* turns of the loop between two blinks (125 in the code)  *)
  LampSettings,   (* the lamps the controller may light                      *)
  Buttons,        (* the buttons that may be pressed together                *)
  None

VARIABLES
  at,             (* "top", "lamps" while SetLamp is blocked, or "poll"      *)
  count,
  g_lamp_mask, g_lamp_mask_prev,
  lampArg,        (* the mask SetLamp is writing                             *)
  shown,          (* the outputs of the lamp driver, s_ucLampMask            *)
  stc,            (* the lamps and the speed the STC was last told of        *)
  mode_prev, debounce_mode,  (* the speed switch, read last and debounced    *)
  g_high_speed_flag,
  tout_prev, debounce_tout, g_tape_out_flag,
  tran_prev, debounce_tran,
  eot_state, eot_count,
  posted          (* what the last readings made it post to the commander    *)

lampVars == <<count, g_lamp_mask, g_lamp_mask_prev, lampArg, shown, stc>>
speedVars == <<mode_prev, debounce_mode, g_high_speed_flag>>
armVars == <<tout_prev, debounce_tout, g_tape_out_flag>>
buttonVars == <<tran_prev, debounce_tran>>
eotVars == <<eot_state, eot_count>>
switchVars == <<speedVars, armVars, buttonVars, eotVars>>
vars == <<at, lampVars, switchVars, posted>>

-----------------------------------------------------------------------------
L_LAMP_MASK == {"REC", "PLAY", "STOP", "FWD", "REW"}
L_LED_MASK == {"STAT1", "STAT2", "STAT3"}
AllLamps == L_LAMP_MASK \cup L_LED_MASK    (* 0xFF *)
Switches == {"STOP", "PLAY", "REC", "REW", "FWD", "LDEF"}

ASSUME MainAssumption ==
  /\ Debounce \in Nat
  /\ {EotSamples, Heartbeat} \subseteq Nat \ {0}
  /\ LampSettings \subseteq SUBSET L_LAMP_MASK
  /\ L_LAMP_MASK \notin LampSettings
  /\ Buttons \subseteq (SUBSET Switches) \ {{}}

ArmBits(out) == IF out THEN {"TAPEOUT"} ELSE {}
ArmSwitch(out) == IF out THEN {"TAPEOUT"} ELSE {"TAPEIN"}

(* The controller may have lit lamps while the task flashed the LEDs.  The arm
   is compared with all the switches of the first reading.                   *)
Init ==
  /\ at = "top"
  /\ count = 0
  /\ g_lamp_mask \in LampSettings \cup {{}} /\ g_lamp_mask_prev = AllLamps
  /\ lampArg = None
  /\ shown = {}
  /\ stc = None
  /\ mode_prev \in BOOLEAN /\ g_high_speed_flag = mode_prev
  /\ debounce_mode = 0 /\ debounce_tout = 0 /\ debounce_tran = 0
  /\ g_tape_out_flag \in BOOLEAN
  /\ \E held \in {{}} \cup Buttons :
       tout_prev = ArmBits(g_tape_out_flag) \cup held
  /\ tran_prev = None
  /\ eot_state = 0 /\ eot_count = 0
  /\ posted = {}

-----------------------------------------------------------------------------
(* The lamps                                                                 *)

Blink(mask) == IF "STAT1" \in mask THEN mask \ {"STAT1"} ELSE mask \cup {"STAT1"}

Top_NoBlink ==
  /\ at = "top"
  /\ posted' = {}
  /\ count' = (count + 1) % Heartbeat
  /\ IF g_lamp_mask # g_lamp_mask_prev
     THEN at' = "lamps" /\ lampArg' = g_lamp_mask
     ELSE at' = "poll" /\ UNCHANGED lampArg
  /\ UNCHANGED <<g_lamp_mask, g_lamp_mask_prev, shown, stc, switchVars>>

(* From the top of the loop to SetLamp, whose transfer blocks.               *)
Top ==
  /\ at = "top"
  /\ posted' = {}
  /\ count' = (count + 1) % Heartbeat
  /\ g_lamp_mask' = IF count + 1 >= Heartbeat THEN Blink(g_lamp_mask)
                    ELSE g_lamp_mask
  /\ IF g_lamp_mask' # g_lamp_mask_prev
     THEN at' = "lamps" /\ lampArg' = g_lamp_mask'
     ELSE at' = "poll" /\ UNCHANGED lampArg
  /\ UNCHANGED <<g_lamp_mask_prev, shown, stc, switchVars>>

(* SetLamp returns.  What the controller has lit meanwhile is told to the STC
   and taken for shown.                                                      *)
Told(mask) == [lamps |-> mask \cap L_LAMP_MASK, speed |-> g_high_speed_flag]

LampsSet_ToldTheArgument ==
  /\ at = "lamps"
  /\ shown' = lampArg
  /\ lampArg' = None
  /\ stc' = IF g_lamp_mask_prev \cap L_LAMP_MASK # lampArg \cap L_LAMP_MASK
            THEN Told(lampArg) ELSE stc
  /\ g_lamp_mask_prev' = g_lamp_mask
  /\ at' = "poll"
  /\ UNCHANGED <<count, g_lamp_mask, switchVars, posted>>

LampsSet ==
  /\ at = "lamps"
  /\ shown' = lampArg
  /\ lampArg' = None
  /\ stc' = IF g_lamp_mask_prev \cap L_LAMP_MASK # g_lamp_mask \cap L_LAMP_MASK
            THEN Told(g_lamp_mask) ELSE stc
  /\ g_lamp_mask_prev' = g_lamp_mask
  /\ at' = "poll"
  /\ UNCHANGED <<count, g_lamp_mask, switchVars, posted>>

(* The controller lights other lamps while the loop is blocked.  That a blink
   may fall into its reading and writing of the mask, and get lost, is left
   out: it costs one blink.                                                  *)
ControllerLights(lamps) ==
  /\ g_lamp_mask' = lamps \cup (g_lamp_mask \cap L_LED_MASK)
  /\ UNCHANGED <<at, count, g_lamp_mask_prev, lampArg, shown, stc, switchVars,
                 posted>>

-----------------------------------------------------------------------------
(* The switches: one turn of the loop after the lamps, on the readings of the
   arm, the buttons, the speed switch and the end of tape sensor.            *)

(* A counter of readings that differ from the last accepted one.  Readings
   that agree with it do not reset the counter.                              *)
Debounced(differs, n) == differs /\ n + 1 >= Debounce
Counted(differs, n) ==
  IF Debounced(differs, n) THEN 0 ELSE IF differs THEN n + 1 ELSE n

ArmDiffers(out) == ArmBits(out) # tout_prev
ArmPosted(out) == Debounced(ArmDiffers(out), debounce_tout)

ReadArm_FlagKept(out) ==
  /\ debounce_tout' = Counted(ArmDiffers(out), debounce_tout)
  /\ tout_prev' = IF ArmPosted(out) THEN ArmBits(out) ELSE tout_prev
  /\ UNCHANGED g_tape_out_flag

ReadArm(out) ==
  /\ debounce_tout' = Counted(ArmDiffers(out), debounce_tout)
  /\ tout_prev' = IF ArmPosted(out) THEN ArmBits(out) ELSE tout_prev
  /\ g_tape_out_flag' = IF ArmPosted(out) THEN out ELSE g_tape_out_flag

(* REC alone does not make a new combination of buttons.                     *)
ButtonsDiffer(bits) == bits # {} /\ bits \ {"REC"} # tran_prev
ButtonsPosted(bits) == Debounced(ButtonsDiffer(bits), debounce_tran)

ReadButtons(bits) ==
  /\ debounce_tran' = Counted(ButtonsDiffer(bits), debounce_tran)
  /\ tran_prev' = IF bits = {} THEN None
                  ELSE IF ButtonsPosted(bits) THEN bits \ {"REC"}
                  ELSE tran_prev

(* A new speed makes the lamps stale, so that the STC is told of it.          *)
ReadSpeed(fast) ==
  /\ debounce_mode' = Counted(fast # mode_prev, debounce_mode)
  /\ IF Debounced(fast # mode_prev, debounce_mode)
     THEN /\ mode_prev' = fast /\ g_high_speed_flag' = fast
          /\ g_lamp_mask_prev' = AllLamps
     ELSE UNCHANGED <<mode_prev, g_high_speed_flag, g_lamp_mask_prev>>

(* The end of tape sensor (SF_STOP_AT_TAPE_END set).  EotPosted is judged by
   the arm just read.                                                        *)
EotPosted == eot_state = 2 /\ ~g_tape_out_flag'

AfterEot_AtOnce(active) == 0
AfterEot(active) == IF active THEN 3 ELSE 0

ReadSensor(active) ==
  \/ /\ eot_state = 0
     /\ eot_state' = IF active THEN 1 ELSE 0
     /\ eot_count' = 0
  \/ /\ eot_state = 1 /\ ~active
     /\ eot_state' = 0
     /\ UNCHANGED eot_count
  \/ /\ eot_state = 1 /\ active
     /\ eot_count' = eot_count + 1
     /\ eot_state' = IF eot_count + 1 > EotSamples THEN 2 ELSE 1
  \/ /\ eot_state = 2
     /\ eot_state' = IF EotPosted THEN 3 ELSE 2
     /\ UNCHANGED eot_count
  \/ /\ eot_state = 3
     /\ eot_state' = AfterEot(active)
     /\ UNCHANGED eot_count

Poll(out, bits, fast, active) ==
  /\ at = "poll"
  /\ ReadArm(out)
  /\ ReadButtons(bits)
  /\ ReadSpeed(fast)
  /\ ReadSensor(active)
  /\ posted' = {p \in {"ARM", "BUTTONS", "EOT"} :
                 CASE p = "ARM" -> ArmPosted(out)
                   [] p = "BUTTONS" -> ButtonsPosted(bits)
                   [] p = "EOT" -> EotPosted}
  /\ at' = "top"
  /\ UNCHANGED <<count, g_lamp_mask, lampArg, shown, stc>>

MainControlTask ==
  \/ Top
  \/ LampsSet
  \/ \E out, fast, active \in BOOLEAN, bits \in Buttons \cup {{}} :
       Poll(out, bits, fast, active)

Next == MainControlTask \/ \E lamps \in LampSettings : ControllerLights(lamps)

Spec == Init /\ [][Next]_vars
FairSpec == Spec /\ WF_vars(MainControlTask)

-----------------------------------------------------------------------------
(* Type invariant; the counters stay within their limits.                    *)
MainTypeOK ==
  /\ at \in {"top", "lamps", "poll"}
  /\ count \in 0..Heartbeat - 1
  /\ {g_lamp_mask, g_lamp_mask_prev, shown} \subseteq SUBSET AllLamps
  /\ lampArg = None \/ lampArg \in SUBSET AllLamps
  /\ stc = None \/ stc \in [lamps : SUBSET L_LAMP_MASK, speed : BOOLEAN]
  /\ {mode_prev, g_high_speed_flag, g_tape_out_flag} \subseteq BOOLEAN
  /\ {debounce_mode, debounce_tout, debounce_tran} \subseteq 0..Debounce
  /\ tout_prev \in SUBSET (Switches \cup {"TAPEOUT"})
  /\ tran_prev = None \/ tran_prev \in SUBSET Switches
  /\ eot_state \in 0..3 /\ eot_count \in 0..EotSamples + 1
  /\ posted \subseteq {"ARM", "BUTTONS", "EOT"}

(* Between two turns the STC knows the lamps the loop takes for current and
   the speed of the tape, whenever the controller changed them.              *)
StcIsCurrent ==
  /\ MainTypeOK
  /\ g_lamp_mask_prev # AllLamps => stc = Told(g_lamp_mask_prev)

(* Lamps that stay as they are get shown, although a change made while the
   loop is writing the lamps is taken for shown: the blink brings it up.     *)
LampsShown ==
  \A lamps \in LampSettings :
    <>[](g_lamp_mask \cap L_LAMP_MASK = lamps)
      => <>[](shown \cap L_LAMP_MASK = lamps)

(* Readings that stay the same from some time on.                            *)
ArmReads(out) ==
  at = "poll" => \E bits \in Buttons \cup {{}}, fast, active \in BOOLEAN :
                   Poll(out, bits, fast, active)
ButtonsRead(bits) ==
  at = "poll" => \E out, fast, active \in BOOLEAN : Poll(out, bits, fast, active)
SensorReads(active) ==
  at = "poll" => \E out, fast \in BOOLEAN, bits \in Buttons \cup {{}} :
                   Poll(out, bits, fast, active)

(* However the arm bounces, once it rests the flag is its position, and what
   was last posted of it too.                                                *)
ArmFollows ==
  \A out \in BOOLEAN : <>[][ArmReads(out)]_vars => <>[](g_tape_out_flag = out)

(* Buttons held down are posted at most once more, however they bounce.       *)
HeldPostsOnce ==
  \A bits \in Buttons :
    <>[][ButtonsRead(bits)]_vars => <>[]("BUTTONS" \notin posted)

(* Switches that bounce and then rest have been followed, and no more.        *)
SwitchesFollowed == ArmFollows /\ HeldPostsOnce

(* A sensor that stays active with the tape in is reported, and once only.    *)
EotReported ==
  (<>[][SensorReads(TRUE)]_vars /\ <>[](~g_tape_out_flag)) => <>[](eot_state = 3)

=============================================================================
