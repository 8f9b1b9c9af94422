---------------------------- MODULE SystemParams ----------------------------
(***************************************************************************)
(* The configuration g_sys and its copy in the EEPROM (src/Utils.c).  A    *)
(* configuration is a header - magic number, version and build - and two   *)
(* halves of parameters, the parts a copy cut short tells apart.  The      *)
(* header is TRUE when SysParamsRead accepts it.                           *)
(*                                                                         *)
(* The EEPROM is programmed word by word from g_sys itself, by one task at *)
(* a time.  There is one area of the EEPROM for each tape width; the width *)
(* is read at power-up and the model has one.  The limit on the debounce   *)
(* parameter is left out.                                                  *)
(***************************************************************************)
EXTENDS Naturals, Sequences

CONSTANTS
  Halves,       (* what each half of the parameters may hold                 *)
  Dflt          (* what InitSysDefaults puts in each                         *)

VARIABLES
  g_sys,
  eeprom,
  saving        (* the words that are still to program                       *)

paramVars == <<g_sys, eeprom, saving>>

ASSUME ParamsAssumption == Dflt \in [lo : Halves.lo, hi : Halves.hi]

Words == <<"head", "lo", "hi">>

Config(head, halves) == [head |-> head, lo |-> halves.lo, hi |-> halves.hi]
Configs == [head : BOOLEAN, lo : Halves.lo, hi : Halves.hi]

ParamsTypeOK ==
  /\ g_sys \in Configs
  /\ eeprom \in Configs
  /\ \E n \in 1..4 : saving = SubSeq(Words, n, 3)

(* An EEPROM is blank or of another firmware, or holds defaults.             *)
ParamsInit ==
  /\ g_sys = Config(TRUE, Dflt)
  /\ eeprom \in {Config(head, Dflt) : head \in BOOLEAN}
  /\ saving = <<>>

-----------------------------------------------------------------------------
(* InitSysDefaults: the magic number is not a parameter.                     *)
InitSysDefaults(config) == [config EXCEPT !.lo = Dflt.lo, !.hi = Dflt.hi]

(* SysParamsWrite up to EEPROMProgram.                                       *)
SysParamsWrite_NoHeader(config) ==
  g_sys' = config /\ saving' = Words /\ UNCHANGED eeprom

SysParamsWrite(config) ==
  g_sys' = [config EXCEPT !.head = TRUE] /\ saving' = Words /\ UNCHANGED eeprom

(* SysParamsRead: the defaults are saved when the header is not accepted.     *)
Readable == eeprom.head

SysParamsRead ==
  IF Readable
  THEN g_sys' = eeprom /\ UNCHANGED <<eeprom, saving>>
  ELSE SysParamsWrite(InitSysDefaults(eeprom))

(* One word of EEPROMProgram.                                                *)
ProgramWord ==
  /\ saving # <<>>
  /\ eeprom' = [eeprom EXCEPT ![Head(saving)] = g_sys[Head(saving)]]
  /\ saving' = Tail(saving)
  /\ UNCHANGED g_sys
=============================================================================
