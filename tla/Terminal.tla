------------------------------ MODULE Terminal ------------------------------
(***************************************************************************)
(* TerminalTask (src/TerminalTask.c, src/TerminalTaskHandlers.c): menus,   *)
(* entry of numbers and flags into g_sys, and the saving, recalling and    *)
(* resetting of g_sys, key by key.  The task has the lowest priority: the  *)
(* STC's commands on the configuration come between any two of its steps,  *)
(* and between the words it moves to or from the EEPROM.                   *)
(*                                                                         *)
(* lo is the monitor flag g_sys.debug and one number, hi the word of flags *)
(* g_sys.sysflags.  A menu is a set of items; the screen, floats, and the  *)
(* kinds of item no menu has (lists, strings) are left out, and so is what *)
(* a hot key or a diagnostic does: see Transport and Diagnostics.  The     *)
(* EEPROM driver keeps its address in the device: a transfer of the STC in *)
(* the middle of one of the terminal is left out (TransferFree).           *)
(*                                                                         *)
(* A Name_Variant is a mistake the code could have made in Name.           *)
(***************************************************************************)
EXTENDS SystemParams, SequencesExt

CONSTANTS
  menu_tab,     (* the items of each menu                                    *)
  Letters, Digits,
  DigitValue,   (* a function: what a digit stands for                       *)
  Low, High,    (* param1 and param2 of the number                           *)
  KEYBUF_SIZE,
  Zero,         (* both halves as memset leaves them                         *)
  StcConfigs    (* the configurations that the STC may set                   *)

VARIABLES
  menu,         (* s_menu_num                                                *)
  edit,         (* s_edit_state                                              *)
  keybuf,       (* the s_keycount characters of s_keybuf                     *)
  menuitem,     (* s_menuitem                                                *)
  bitbool,      (* s_bitbool                                                 *)
  end_debug,    (* s_end_debug                                               *)
  place,        (* where TerminalTask waits for a key, or what it executes   *)
  reading,      (* the words that EEPROMRead has still to read               *)
  disturbed,    (* history: g_sys was changed from elsewhere since the flag
                   prompt was shown, or since the save began                 *)
  leaving       (* the operator only presses ESC from now on                 *)

entryVars == <<menu, edit, keybuf, menuitem, bitbool, end_debug>>
workVars == <<place, reading, disturbed>>
vars == <<paramVars, entryVars, workVars, leaving>>

Menus == DOMAIN menu_tab
Handlers == {"save", "recall", "default", "monitor", "diag"}
Item(opt, type, arg) == [opt |-> opt, type |-> type, arg |-> arg]
NoItem == Item(<<>>, "NONE", "none")
Items == UNION {menu_tab[m] : m \in Menus}
SpecialKeys == {"ESC", "RET", "BKSPC", "SPACE"}
Keys == Letters \cup Digits \cup SpecialKeys
debug == g_sys.lo.debug

(* Where a handler waits for its Y.                                          *)
Prompt == [save |-> "save?", recall |-> "recall?", default |-> "default?"]

ASSUME TerminalAssumption ==
  /\ "main" \in Menus
  /\ \A item \in Items :
       \/ item.type = "EXEC" /\ item.arg \in Handlers
       \/ item.type = "NMENU" /\ item.arg \in Menus
       \/ item.type = "NUMERIC" /\ item.arg = "number"
       \/ item.type = "BITFLAG" /\ {item.arg} \in Halves.hi
       \/ item.type = "HOTKEY" /\ item.opt \in [{1} -> Letters]
  /\ {Low, High} \subseteq Nat
  /\ KEYBUF_SIZE \in Nat /\ KEYBUF_SIZE > 2
  /\ DigitValue \in [Digits -> 0..9]

(* What is entered, set or cleared is a configuration again: the flags are the
   bits of a word, and the monitor and the number are fields of their own.   *)
ASSUME EntriesAssumption ==
  /\ Zero \in [lo : Halves.lo, hi : Halves.hi]
  /\ StcConfigs \subseteq Configs
  /\ Halves.hi = SUBSET UNION Halves.hi
  /\ \A lo \in Halves.lo :
       /\ {[lo EXCEPT !.debug = d] : d \in {0, 1}} \subseteq Halves.lo
       /\ {[lo EXCEPT !.number = n] : n \in Low..High} \subseteq Halves.lo

is_escape(key) == key \in {"ESC", "X"}

-----------------------------------------------------------------------------
show_home_menu ==
  /\ menu = "main" /\ edit = "select" /\ keybuf = <<>> /\ end_debug = FALSE
  /\ menuitem = NoItem /\ bitbool = {}
  /\ place = "keys" /\ reading = <<>> /\ disturbed = FALSE

Init == ParamsInit /\ show_home_menu /\ leaving = FALSE

(* A key is taken where the task waits for one, and the operator who wants to
   leave presses nothing but ESC.                                            *)
Reads(key, where) == place = where /\ (leaving => key = "ESC")

(* s_edit_state = s_keycount = 0, in the menu m.                             *)
Shows(m) == menu' = m /\ edit' = "select" /\ keybuf' = <<>>

do_backspace ==
  /\ keybuf' = IF keybuf = <<>> THEN <<>> ELSE Front(keybuf)
  /\ UNCHANGED <<menu, edit>>

do_bufkey_Full(key) ==
  /\ keybuf' = IF Len(keybuf) <= KEYBUF_SIZE THEN Append(keybuf, key) ELSE keybuf
  /\ UNCHANGED <<menu, edit>>

do_bufkey(key) ==
  /\ keybuf' = IF Len(keybuf) < KEYBUF_SIZE - 1 THEN Append(keybuf, key)
                                                ELSE keybuf
  /\ UNCHANGED <<menu, edit>>

Ignored == UNCHANGED <<menu, edit, keybuf>>

IsHotKey(key) ==
  \E item \in menu_tab[menu] : item.type = "HOTKEY" /\ item.opt = <<key>>

-----------------------------------------------------------------------------
(* ES_MENU_SELECT                                                            *)

(* prompt_menu_item: only the prompt for a flag loads s_bitbool.             *)
prompt_menu_item_FirstOnly(item) ==
  /\ edit' = IF item.type = "BITFLAG" THEN "flag" ELSE "data"
  /\ bitbool' = IF item.type = "BITFLAG" /\ bitbool = {} THEN g_sys.hi ELSE bitbool
  /\ keybuf' = <<>>
  /\ disturbed' = FALSE
  /\ UNCHANGED menu

prompt_menu_item(item) ==
  /\ edit' = IF item.type = "BITFLAG" THEN "flag" ELSE "data"
  /\ bitbool' = IF item.type = "BITFLAG" THEN g_sys.hi ELSE bitbool
  /\ keybuf' = <<>>
  /\ disturbed' = FALSE
  /\ UNCHANGED menu

(* Handlers wait for a key or work; the monitor is a flag of g_sys; a
   diagnostic may refuse to run.                                             *)
Execute(handler) ==
  /\ place' \in CASE handler = "monitor" -> {"keys"}
                  [] handler = "diag" -> {"diag", "any key", "keys"}
                  [] OTHER -> {Prompt[handler]}
  /\ g_sys' = IF handler = "monitor" THEN [g_sys EXCEPT !.lo.debug = 1] ELSE g_sys
  /\ Shows(menu)
  /\ UNCHANGED <<bitbool, disturbed>>

Choose(item) ==
  /\ menuitem' = item
  /\ \/ item.type = "EXEC" /\ Execute(item.arg)
     \/ /\ item.type = "NMENU"
        /\ Shows(item.arg)
        /\ UNCHANGED <<g_sys, place, bitbool, disturbed>>
     \/ /\ item.type \notin {"EXEC", "NMENU"}
        /\ prompt_menu_item(item)
        /\ UNCHANGED <<g_sys, place>>

SelectReturn ==
  \/ \E item \in menu_tab[menu] : item.opt = keybuf /\ Choose(item)
  \/ /\ \A item \in menu_tab[menu] : item.opt # keybuf
     /\ Shows(menu)
     /\ menuitem' = IF keybuf = <<>> THEN menuitem ELSE NoItem
     /\ UNCHANGED <<g_sys, place, bitbool, disturbed>>

SelectOther(key) ==
  /\ key # "RET"
  /\ IF IsHotKey(key) THEN Shows(menu)
     ELSE IF key = "BKSPC" THEN do_backspace
     ELSE IF is_escape(key) /\ menu # "main" THEN Shows("main")
     ELSE IF Len(keybuf) >= 2 \/ key \in SpecialKeys THEN Ignored
     ELSE do_bufkey(key)
  /\ UNCHANGED <<g_sys, place, menuitem, bitbool, disturbed>>

MenuSelect(key) ==
  /\ edit = "select"
  /\ (key = "RET" /\ SelectReturn) \/ SelectOther(key)

-----------------------------------------------------------------------------
(* ES_DATA_INPUT                                                             *)

(* atol stops at the first letter.                                           *)
atol(buffer) ==
  LET digits == {n \in 0 .. Len(buffer) : \A i \in 1 .. n : buffer[i] \in Digits}
      last == CHOOSE n \in digits : \A k \in digits : k <= n
  IN  FoldLeft(LAMBDA sum, key : 10 * sum + DigitValue[key], 0,
               SubSeq(buffer, 1, last))

put_idata ==
  LET n == atol(keybuf)
  IN  g_sys' = IF menuitem.type = "NUMERIC" /\ n \in Low .. High
               THEN [g_sys EXCEPT !.lo.number = n] ELSE g_sys

DataInput(key) ==
  /\ edit = "data"
  /\ IF key = "RET" /\ keybuf # <<>> THEN put_idata ELSE UNCHANGED g_sys
  /\ IF is_escape(key) \/ key = "RET" THEN Shows(menu)
     ELSE IF key = "BKSPC" THEN do_backspace
     ELSE IF key = "SPACE" THEN Ignored
     ELSE do_bufkey(key)
  /\ UNCHANGED <<place, menuitem, bitbool, disturbed>>

(* ES_BITFLAG_SELECT: the word read at the prompt is put into the word there
   is now, of which only the flag of the item is cleared.                    *)
SetFlags(flag) == g_sys' = [g_sys EXCEPT !.hi = (g_sys.hi \ {flag}) \cup bitbool]

Toggle(flag) ==
  bitbool' = IF flag \in bitbool THEN bitbool \ {flag} ELSE bitbool \cup {flag}

FlagSelect(key) ==
  /\ edit = "flag"
  /\ IF key = "RET" THEN SetFlags(menuitem.arg) ELSE UNCHANGED g_sys
  /\ IF key = "SPACE" THEN Toggle(menuitem.arg) ELSE UNCHANGED bitbool
  /\ IF is_escape(key) \/ key = "RET" THEN Shows(menu) ELSE Ignored
  /\ disturbed' = (disturbed /\ edit' = "flag")
  /\ UNCHANGED <<place, menuitem>>

-----------------------------------------------------------------------------
(* One key at the main loop of the task: the monitor first, then the menu.
   In the monitor any key but an escape is ignored.                          *)
EndMonitor ==
  /\ end_debug
  /\ end_debug' = FALSE
  /\ Shows(menu)
  /\ UNCHANGED <<g_sys, place, menuitem, bitbool, disturbed>>

InMonitor_Deaf(key) ==
  /\ ~end_debug
  /\ debug # 0
  /\ IF is_escape(key) /\ debug = 1
     THEN /\ g_sys' = [g_sys EXCEPT !.lo.debug = 0]
          /\ Shows(menu)
          /\ UNCHANGED end_debug
     ELSE UNCHANGED <<g_sys, menu, edit, keybuf, end_debug>>
  /\ UNCHANGED <<place, menuitem, bitbool, disturbed>>

InMonitor(key) ==
  /\ ~end_debug
  /\ debug # 0
  /\ IF is_escape(key)
     THEN /\ g_sys' = [g_sys EXCEPT !.lo.debug = 0]
          /\ end_debug' = (debug # 1)
          /\ Shows(menu)
     ELSE UNCHANGED <<g_sys, menu, edit, keybuf, end_debug>>
  /\ UNCHANGED <<place, menuitem, bitbool, disturbed>>

do_menu_keystate(key) ==
  /\ ~end_debug
  /\ debug = 0
  /\ MenuSelect(key) \/ DataInput(key) \/ FlagSelect(key)
  /\ UNCHANGED end_debug

Keystroke(key) ==
  /\ Reads(key, "keys")
  /\ EndMonitor \/ InMonitor(key) \/ do_menu_keystate(key)
  /\ UNCHANGED <<eeprom, saving, reading, leaving>>

(* The prompts of the handlers: any key but Y declines.                      *)
Confirm(key) ==
  \E handler \in DOMAIN Prompt :
    /\ Reads(key, Prompt[handler])
    /\ place' = IF key = "Y" THEN handler ELSE "keys"
    /\ UNCHANGED <<paramVars, entryVars, reading, disturbed, leaving>>

(* A diagnostic runs until it is escaped; some wait for one key more.        *)
InDiag(key) ==
  /\ \/ Reads(key, "diag") /\ is_escape(key) /\ place' \in {"any key", "keys"}
     \/ Reads(key, "any key") /\ place' = "keys"
  /\ UNCHANGED <<paramVars, entryVars, reading, disturbed, leaving>>

Key(key) == Keystroke(key) \/ Confirm(key) \/ InDiag(key)

-----------------------------------------------------------------------------
(* mc_write_config: SysParamsWrite of g_sys, word by word.                   *)
BeginSave ==
  /\ place = "save"
  /\ place' = "saving"
  /\ SysParamsWrite(g_sys)
  /\ disturbed' = FALSE
  /\ UNCHANGED <<entryVars, reading, leaving>>

SaveWord ==
  /\ place = "saving"
  /\ ProgramWord
  /\ place' = IF saving' = <<>> THEN "keys" ELSE "saving"
  /\ disturbed' = (disturbed /\ saving' # <<>>)
  /\ UNCHANGED <<entryVars, reading, leaving>>

(* mc_read_config: SysParamsRead starts with the defaults, reads word by word
   into g_sys, and saves the defaults when the header is not accepted.       *)
BeginRead ==
  /\ place = "recall"
  /\ place' = "reading"
  /\ g_sys' = InitSysDefaults(g_sys)
  /\ reading' = Words
  /\ UNCHANGED <<eeprom, saving, entryVars, disturbed, leaving>>

ReadWord ==
  /\ place = "reading"
  /\ reading # <<>>
  /\ g_sys' = [g_sys EXCEPT ![Head(reading)] = eeprom[Head(reading)]]
  /\ reading' = Tail(reading)
  /\ UNCHANGED <<eeprom, saving, entryVars, place, disturbed, leaving>>

EndRead ==
  /\ place = "reading"
  /\ reading = <<>>
  /\ IF g_sys.head
     THEN place' = "keys" /\ UNCHANGED <<paramVars, disturbed>>
     ELSE /\ place' = "saving"
          /\ SysParamsWrite(InitSysDefaults(g_sys))
          /\ disturbed' = FALSE
  /\ UNCHANGED <<entryVars, reading, leaving>>

(* mc_default_config: memset, which takes the magic number too, and then the
   defaults.                                                                 *)
Clear ==
  /\ place = "default"
  /\ place' = "defaults"
  /\ g_sys' = Config(FALSE, Zero)
  /\ UNCHANGED <<eeprom, saving, entryVars, reading, disturbed, leaving>>

Defaults ==
  /\ place = "defaults"
  /\ place' = "keys"
  /\ g_sys' = InitSysDefaults(g_sys)
  /\ UNCHANGED <<eeprom, saving, entryVars, reading, disturbed, leaving>>

Work == BeginSave \/ SaveWord \/ BeginRead \/ ReadWord \/ EndRead
          \/ Clear \/ Defaults

-----------------------------------------------------------------------------
(* The command port has a higher priority: what it does with the
   configuration is one step here (CommandPort has it word by word).         *)
Stc ==
  /\ ~leaving
  /\ disturbed' = (edit = "flag" \/ saving # <<>>)
  /\ UNCHANGED <<saving, entryVars, place, reading, leaving>>

TransferFree == saving = <<>> /\ reading = <<>>

HandleConfigSet ==
  \E config \in StcConfigs : g_sys' = config /\ UNCHANGED eeprom /\ Stc

HandleReset == g_sys' = InitSysDefaults(g_sys) /\ UNCHANGED eeprom /\ Stc

HandleStore ==
  /\ TransferFree
  /\ g_sys' = [g_sys EXCEPT !.head = TRUE]
  /\ eeprom' = g_sys'
  /\ Stc

(* SysParamsRead to its end, at the port or when the power comes back.       *)
Loaded ==
  /\ g_sys' = IF Readable THEN eeprom
              ELSE [InitSysDefaults(eeprom) EXCEPT !.head = TRUE]
  /\ eeprom' = g_sys'

HandleLoad == TransferFree /\ Loaded /\ Stc

(* The power comes back: the configuration is loaded, or takes the defaults
   when DIP switch 4 says so, and the terminal shows the home menu.          *)
PowerCycle ==
  /\ ~leaving
  /\ Loaded \/ (g_sys' = Config(FALSE, Dflt) /\ UNCHANGED eeprom)
  /\ saving' = <<>> /\ reading' = <<>> /\ disturbed' = FALSE
  /\ Shows("main") /\ end_debug' = FALSE
  /\ menuitem' = NoItem /\ bitbool' = {} /\ place' = "keys"
  /\ UNCHANGED leaving

Leave == ~leaving /\ leaving' = TRUE /\ UNCHANGED <<paramVars, entryVars, workVars>>

Environment == HandleConfigSet \/ HandleReset \/ HandleStore \/ HandleLoad
                 \/ PowerCycle \/ Leave

Next == (\E key \in Keys : Key(key)) \/ Work \/ Environment

Spec == Init /\ [][Next]_vars

(* The task is not starved, and the operator who leaves keeps pressing ESC.   *)
FairSpec ==
  Spec /\ WF_vars(Work) /\ WF_vars(leaving /\ Key("ESC"))

-----------------------------------------------------------------------------
(* Type invariant.                                                           *)
TerminalTypeOK ==
  /\ ParamsTypeOK
  /\ menu \in Menus
  /\ edit \in {"select", "data", "flag"}
  /\ Len(keybuf) < KEYBUF_SIZE
  /\ \A i \in DOMAIN keybuf : keybuf[i] \in Letters \cup Digits
  /\ menuitem \in Items \cup {NoItem}
  /\ {end_debug, leaving} \subseteq BOOLEAN
  /\ \E n \in 1..4 : reading = SubSeq(Words, n, 3)

(* An entry goes to the item it was prompted for: while the task edits, its
   item is one of the menu on the screen and of the kind that the state
   expects, and the buffer has room for the end of the string
   (TerminalTask.c:1043); the EEPROM is programmed only at a handler's place. *)
EditsItsItem ==
  /\ TerminalTypeOK
  /\ edit = "data" => menuitem.type = "NUMERIC" /\ menuitem \in menu_tab[menu]
  /\ edit = "flag" => menuitem.type = "BITFLAG" /\ menuitem \in menu_tab[menu]
  /\ place # "keys" => edit = "select" /\ keybuf = <<>>
  /\ saving # <<>> <=> place = "saving"
  /\ reading # <<>> => place = "reading"

AtHome ==
  /\ menu = "main" /\ edit = "select" /\ place = "keys"
  /\ debug = 0 /\ ~end_debug

(* ESC alone leads back to the home menu, and stays there, out of any menu,
   entry, prompt, diagnostic or monitor, also one that a configuration of the
   STC or of the EEPROM switched on (is_escape, TerminalTask.c:1070).         *)
EscapeGoesHome == leaving ~> []AtHome

(* "Mask out only affected flag bits" (TerminalTask.c:846): the entry of a
   flag changes that flag and leaves the others as they are.                 *)
OnlyItsFlag ==
  edit = "flag" /\ Keystroke("RET")
    => g_sys'.hi \ {menuitem.arg} = g_sys.hi \ {menuitem.arg}
FlagEditIsLocal == [][OnlyItsFlag]_vars

(* "Write system parameters from our global settings buffer to EEPROM"
   (Utils.c:271): when a save ends the EEPROM holds all of g_sys.            *)
SavesAll == SaveWord /\ saving' = <<>> => eeprom' = g_sys'
SavedWhole == [][SavesAll]_vars

(* Both hold of an entry and of a save beside which the configuration is not
   changed: flags entered before, lapsed prompts, recalls, resets, power cuts
   and saves that began with a refused header leave nothing behind in them
   (s_bitbool, TerminalTask.c:593; the words of SysParamsWrite, Utils.c:289).*)
UndisturbedWork == [][disturbed \/ (OnlyItsFlag /\ SavesAll)]_vars
=============================================================================
