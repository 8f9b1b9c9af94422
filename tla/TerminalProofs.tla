---------------------------- MODULE TerminalProofs ----------------------------
(***************************************************************************)
(* Proofs about Terminal, for every menu table, hot key, option, limit of  *)
(* the number and configuration of the STC.                                *)
(*                                                                         *)
(* An entry goes to its item because the menu, the item and the state of   *)
(* the entry only change together, and because no hot key of a menu gets   *)
(* into its buffer (NoHotKeys): the option of a hot key would be prompted  *)
(* for as a number.  A flag and a save that nothing disturbs do what they  *)
(* say because the word of the prompt, and the words saved so far, are     *)
(* still those of g_sys (FlagInv, SaveInv).                                *)
(***************************************************************************)
EXTENDS Terminal, SequenceTheorems, TLAPS

Rests == {Words, <<"lo", "hi">>, <<"hi">>, <<>>}

TypeInv ==
  /\ g_sys \in Configs /\ eeprom \in Configs
  /\ saving \in Rests /\ reading \in Rests
  /\ menu \in Menus /\ edit \in {"select", "data", "flag"}
  /\ keybuf \in Seq(Letters \cup Digits) /\ Len(keybuf) < KEYBUF_SIZE
  /\ menuitem \in Items \cup {NoItem}
  /\ bitbool \in Halves.hi
  /\ {end_debug, leaving, disturbed} \subseteq BOOLEAN

(* The option typed so far has no hot key of the menu in it.                 *)
NoHotKeys ==
  edit = "select" =>
    \A i \in 1..Len(keybuf) : ~IsHotKey(keybuf[i])

EntryInv ==
  /\ edit = "data" => menuitem.type = "NUMERIC" /\ menuitem \in menu_tab[menu]
  /\ edit = "flag" => menuitem.type = "BITFLAG" /\ menuitem \in menu_tab[menu]
  /\ NoHotKeys

PlaceInv ==
  /\ place # "keys" => edit = "select" /\ keybuf = <<>>
  /\ saving # <<>> <=> place = "saving"
  /\ reading # <<>> => place = "reading"

(* All other flags of the word read at the prompt are flags still.           *)
FlagInv ==
  edit = "flag" /\ ~disturbed => bitbool \ {menuitem.arg} \subseteq g_sys.hi

(* The words that are programmed are those of g_sys.                         *)
SaveInv ==
  place = "saving" /\ ~disturbed =>
    /\ saving # Words => eeprom.head = g_sys.head
    /\ saving = <<"hi">> => eeprom.lo = g_sys.lo

TerminalInv == TypeInv /\ EntryInv /\ PlaceInv /\ FlagInv /\ SaveInv

-----------------------------------------------------------------------------
(* Configurations and their words                                            *)

(* The words still to move are an end of Words.                               *)
LEMMA RestsAre ==
  ASSUME NEW s
  PROVE  (\E n \in 1..4 : s = SubSeq(Words, n, 3))
           <=> s \in {Words, <<"lo", "hi">>, <<"hi">>, <<>>}
<1>1. /\ SubSeq(Words, 1, 3) = Words
      /\ SubSeq(Words, 2, 3) = <<"lo", "hi">>
      /\ SubSeq(Words, 3, 3) = <<"hi">>
      /\ SubSeq(Words, 4, 3) = <<>>
  <2>1. Words \in Seq({"head", "lo", "hi"}) /\ Len(Words) = 3
    BY DEF Words
  <2>2. SubSeq(Words, 1, 3) = Words
    BY <2>1, SubSeqFull
  <2>3. /\ Tail(SubSeq(Words, 1, 3)) = SubSeq(Words, 2, 3)
        /\ Tail(SubSeq(Words, 2, 3)) = SubSeq(Words, 3, 3)
        /\ Tail(SubSeq(Words, 3, 3)) = SubSeq(Words, 4, 3)
    <3>1. \A m \in 1..3 : Tail(SubSeq(Words, m, 3)) = SubSeq(Words, m + 1, 3)
      BY <2>1, HeadTailOfSubSeq
    <3>2. \A m, k \in Nat : m \in 1..3 /\ k = m + 1
                           => Tail(SubSeq(Words, m, 3)) = SubSeq(Words, k, 3)
      BY <3>1
    <3> QED BY <3>2
  <2>4. /\ Tail(Words) = <<"lo", "hi">>
        /\ Tail(<<"lo", "hi">>) = <<"hi">>
        /\ Tail(<<"hi">>) = <<>>
    BY DEF Words
  <2> QED BY <2>2, <2>3, <2>4
<1>2. 1..4 = {1, 2, 3, 4}
  OBVIOUS
<1> QED BY <1>1, <1>2

(* How far a save has come can be told from what is left.                   *)
LEMMA WordsAreDistinct ==
  /\ Words # <<>> /\ Words # <<"hi">> /\ Words # <<"lo", "hi">>
  /\ <<"lo", "hi">> # <<"hi">>
<1>1. Words # <<>> /\ Words # <<"hi">>
  BY DEF Words
<1>2. Words # <<"lo", "hi">>
  <2>1. Len(Words) = 3
    BY DEF Words
  <2>2. Len(<<"lo", "hi">>) = 2
    OBVIOUS
  <2> QED BY <2>1, <2>2
<1>3. <<"lo", "hi">> # <<"hi">>
  OBVIOUS
<1> QED BY <1>1, <1>2, <1>3

(* A word is taken from the front, in the order of the configuration.        *)
LEMMA WordTaken ==
  ASSUME NEW rest \in Rests, rest # <<>>
  PROVE  /\ Tail(rest) \in Rests
         /\ rest = Words => Head(rest) = "head" /\ Tail(rest) = <<"lo", "hi">>
         /\ rest = <<"lo", "hi">> => Head(rest) = "lo" /\ Tail(rest) = <<"hi">>
         /\ rest = <<"hi">> => Head(rest) = "hi" /\ Tail(rest) = <<>>
<1>1. CASE rest = Words
  <2>1. Head(Words) = "head" /\ Tail(Words) = <<"lo", "hi">>
    BY DEF Words
  <2> QED BY <1>1, <2>1, WordsAreDistinct DEF Rests
<1>2. CASE rest = <<"lo", "hi">>
  <2>1. Head(rest) = "lo" /\ Tail(rest) = <<"hi">>
    BY <1>2
  <2> QED BY <1>2, <2>1, WordsAreDistinct DEF Rests
<1>3. CASE rest = <<"hi">>
  <2>1. Head(rest) = "hi" /\ Tail(rest) = <<>>
    BY <1>3
  <2> QED BY <1>3, <2>1, WordsAreDistinct DEF Rests
<1> QED BY <1>1, <1>2, <1>3 DEF Rests

(* The defaults are a configuration.                                        *)
LEMMA DefaultsType ==
  ASSUME NEW config \in Configs
  PROVE  InitSysDefaults(config) \in Configs
  BY ParamsAssumption DEF InitSysDefaults, Configs

(* One word moved from a configuration to another.                            *)
LEMMA WordMoved ==
  ASSUME NEW from \in Configs, NEW to \in Configs, NEW word \in {"head", "lo", "hi"}
  PROVE  [to EXCEPT ![word] = from[word]] \in Configs
  BY DEF Configs

(* What the terminal enters.                                                  *)
LEMMA EntryType ==
  ASSUME g_sys \in Configs
  PROVE  /\ \A d \in {0, 1} : [g_sys EXCEPT !.lo.debug = d] \in Configs
         /\ \A n \in Low..High : [g_sys EXCEPT !.lo.number = n] \in Configs
         /\ \A flags \in Halves.hi : [g_sys EXCEPT !.hi = flags] \in Configs
<1>1. \A lo \in Halves.lo :
        /\ \A d \in {0, 1} : [lo EXCEPT !.debug = d] \in Halves.lo
        /\ \A n \in Low..High : [lo EXCEPT !.number = n] \in Halves.lo
  BY EntriesAssumption
<1>2. g_sys.lo \in Halves.lo
  BY DEF Configs
<1> QED BY <1>1, <1>2 DEF Configs

(* Flags set and cleared in a word of flags.                                  *)
LEMMA FlagsType ==
  ASSUME NEW flags \in Halves.hi, NEW word \in Halves.hi, NEW flag,
         {flag} \in Halves.hi
  PROVE  /\ flags \ {flag} \in Halves.hi /\ flags \cup {flag} \in Halves.hi
         /\ (flags \ {flag}) \cup word \in Halves.hi
<1>1. Halves.hi = SUBSET UNION Halves.hi
  BY EntriesAssumption
<1> DEFINE all == UNION Halves.hi
<1>2. flags \subseteq all /\ word \subseteq all /\ flag \in all
  OBVIOUS
<1>3. Halves.hi = SUBSET all
  BY <1>1
<1> HIDE DEF all
<1> QED BY <1>2, <1>3

(* A word without flags is a word of flags.                                 *)
LEMMA NoFlags == {} \in Halves.hi
  BY EntriesAssumption

(* The items of a menu are those of the table.                                *)
LEMMA ItemOfMenu ==
  ASSUME NEW m \in Menus, NEW item \in menu_tab[m]
  PROVE  /\ item \in Items
         /\ item.type \in {"EXEC", "NMENU", "NUMERIC", "BITFLAG", "HOTKEY"}
         /\ item.type = "EXEC" => item.arg \in Handlers
         /\ item.type = "NMENU" => item.arg \in Menus
         /\ item.type = "BITFLAG" => {item.arg} \in Halves.hi
         /\ item.type = "HOTKEY" => item.opt \in [{1} -> Letters]
<1>1. item \in Items
  BY DEF Items
<1> QED BY <1>1, TerminalAssumption

-----------------------------------------------------------------------------
(* A key                                                                     *)

(* A backspace leaves a beginning of the buffer.                              *)
LEMMA Backspace ==
  ASSUME TypeInv, do_backspace
  PROVE  /\ keybuf' \in Seq(Letters \cup Digits) /\ Len(keybuf') < KEYBUF_SIZE
         /\ \A i \in 1..Len(keybuf') : i \in 1..Len(keybuf) /\ keybuf'[i] = keybuf[i]
<1>1. CASE keybuf = <<>>
  BY <1>1 DEF do_backspace, TypeInv
<1>2. CASE keybuf # <<>>
  <2>1. keybuf' = SubSeq(keybuf, 1, Len(keybuf) - 1)
    BY <1>2 DEF do_backspace, Front
  <2>2. Len(keybuf) \in Nat \ {0}
    BY <1>2, EmptySeq DEF TypeInv
  <2>3. /\ keybuf' \in Seq(Letters \cup Digits) /\ Len(keybuf') = Len(keybuf) - 1
        /\ \A i \in 1 .. Len(keybuf) - 1 : keybuf'[i] = keybuf[i]
    <3>1. /\ 1 \in Int /\ Len(keybuf) - 1 \in Int
          /\ \A i \in 1 .. Len(keybuf) - 1 : keybuf[i] \in Letters \cup Digits
      BY <2>2 DEF TypeInv
    <3>2. /\ keybuf' \in Seq(Letters \cup Digits)
          /\ Len(keybuf') = IF 1 <= Len(keybuf) - 1 THEN Len(keybuf) - 1 ELSE 0
          /\ \A i \in 1 .. Len(keybuf) - 1 - 1 + 1 : keybuf'[i] = keybuf[1 + i - 1]
      BY <2>1, <3>1, SubSeqProperties
    <3>3. Len(keybuf') = Len(keybuf) - 1
      <4>1. \A n \in Nat \ {0} : (IF 1 <= n - 1 THEN n - 1 ELSE 0) = n - 1
        OBVIOUS
      <4> QED BY <2>2, <3>2, <4>1
    <3>4. \A i \in 1 .. Len(keybuf) - 1 :
            i \in 1 .. Len(keybuf) - 1 - 1 + 1 /\ 1 + i - 1 = i
      BY <2>2
    <3> QED BY <3>2, <3>3, <3>4
  <2> QED BY <2>2, <2>3, TerminalAssumption DEF TypeInv
<1> QED BY <1>1, <1>2

(* A character is put at the end, and leaves room for the end of the string.  *)
LEMMA BufKey ==
  ASSUME TypeInv, NEW key \in Letters \cup Digits, do_bufkey(key)
  PROVE  /\ keybuf' \in Seq(Letters \cup Digits) /\ Len(keybuf') < KEYBUF_SIZE
         /\ \A i \in 1..Len(keybuf') :
              \/ i \in 1..Len(keybuf) /\ keybuf'[i] = keybuf[i]
              \/ keybuf'[i] = key
<1>1. CASE Len(keybuf) < KEYBUF_SIZE - 1
  <2>1. keybuf' = Append(keybuf, key)
    BY <1>1 DEF do_bufkey
  <2>2. /\ keybuf' \in Seq(Letters \cup Digits) /\ Len(keybuf') = Len(keybuf) + 1
        /\ keybuf'[Len(keybuf) + 1] = key
        /\ \A i \in 1..Len(keybuf) : keybuf'[i] = keybuf[i]
    BY <2>1, AppendProperties DEF TypeInv
  <2> QED BY <1>1, <2>2, TerminalAssumption DEF TypeInv
<1>2. CASE ~(Len(keybuf) < KEYBUF_SIZE - 1)
  BY <1>2 DEF do_bufkey, TypeInv
<1> QED BY <1>1, <1>2

(* A menu that is shown has an empty buffer, without hot keys.                *)
LEMMA ShownEntry ==
  ASSUME NEW m \in Menus, Shows(m)
  PROVE  /\ menu' \in Menus /\ edit' = "select" /\ keybuf' = <<>>
         /\ keybuf' \in Seq(Letters \cup Digits) /\ Len(keybuf') < KEYBUF_SIZE
         /\ EntryInv' /\ FlagInv'
  BY TerminalAssumption DEF Shows, EntryInv, NoHotKeys, FlagInv

(* Of a configuration with the monitor switched the flags are the same.       *)
LEMMA MonitorSwitched ==
  ASSUME g_sys \in Configs, NEW d \in {0, 1}, g_sys' = [g_sys EXCEPT !.lo.debug = d]
  PROVE  g_sys' \in Configs /\ g_sys'.hi = g_sys.hi
  BY EntryType DEF Configs

(* What each key leaves behind, while the task waits for keys.                *)
Placed ==
  /\ place \notin {"saving", "reading"}
  /\ place # "keys" => edit = "select" /\ keybuf = <<>>

KeyInv ==
  /\ g_sys \in Configs
  /\ menu \in Menus /\ edit \in {"select", "data", "flag"}
  /\ keybuf \in Seq(Letters \cup Digits) /\ Len(keybuf) < KEYBUF_SIZE
  /\ menuitem \in Items \cup {NoItem} /\ bitbool \in Halves.hi
  /\ {end_debug, disturbed} \subseteq BOOLEAN
  /\ EntryInv /\ FlagInv /\ Placed

(* The monitor takes the key before the menu does.                            *)
LEMMA MonitorKey ==
  ASSUME KeyInv, TypeInv, NEW key \in Keys, place = "keys",
         EndMonitor \/ InMonitor(key)
  PROVE  KeyInv'
<1>1. CASE EndMonitor
  BY <1>1, ShownEntry DEF EndMonitor, KeyInv, Placed
<1>2. CASE InMonitor(key) /\ is_escape(key)
  <2>1. /\ g_sys' = [g_sys EXCEPT !.lo.debug = 0] /\ end_debug' \in BOOLEAN
        /\ Shows(menu) /\ UNCHANGED <<place, menuitem, bitbool, disturbed>>
    BY <1>2 DEF InMonitor
  <2> QED BY <2>1, ShownEntry, MonitorSwitched DEF KeyInv, Placed
<1>3. CASE InMonitor(key) /\ ~is_escape(key)
  <2>1. UNCHANGED <<g_sys, menu, edit, keybuf, end_debug, place, menuitem, bitbool,
                    disturbed>>
    BY <1>3 DEF InMonitor
  <2> QED BY <2>1 DEF KeyInv, EntryInv, NoHotKeys, IsHotKey, FlagInv, Placed
<1> QED BY <1>1, <1>2, <1>3

(* Whatever option is chosen: a prompt is for an item of the menu on the screen
   that is no hot key, and it reads the word of flags as it is.              *)
LEMMA Chosen ==
  ASSUME KeyInv, place = "keys", edit = "select",
         NEW item \in menu_tab[menu], item.opt = keybuf, Choose(item),
         UNCHANGED end_debug
  PROVE  KeyInv'
<1>1. /\ menuitem' = item /\ item \in Items /\ menu \in Menus
      /\ item.type \in {"EXEC", "NMENU", "NUMERIC", "BITFLAG", "HOTKEY"}
  BY ItemOfMenu DEF KeyInv, Choose
<1>2. CASE item.type = "EXEC"
  <2>1. Execute(item.arg) /\ item.arg \in Handlers
    BY <1>1, <1>2, ItemOfMenu DEF Choose
  <2>2. Shows(menu) /\ UNCHANGED <<bitbool, disturbed>>
    BY <2>1 DEF Execute
  <2>3. g_sys' \in Configs
    <3>1. g_sys' = g_sys \/ g_sys' = [g_sys EXCEPT !.lo.debug = 1]
      BY <2>1 DEF Execute
    <3> QED BY <3>1, MonitorSwitched DEF KeyInv
  <2>4. place' \notin {"saving", "reading"}
    <3>1. /\ Prompt["save"] = "save?" /\ Prompt["recall"] = "recall?"
          /\ Prompt["default"] = "default?"
      BY DEF Prompt
    <3>2. place' \in {"keys", "diag", "any key", "save?", "recall?", "default?"}
      BY <2>1, <3>1 DEF Execute, Handlers
    <3> QED BY <3>2
  <2> QED BY <1>1, <2>2, <2>3, <2>4, ShownEntry DEF KeyInv, Placed
<1>3. CASE item.type = "NMENU"
  <2>1. Shows(item.arg) /\ UNCHANGED <<g_sys, place, bitbool, disturbed>>
    BY <1>1, <1>3 DEF Choose
  <2>2. item.arg \in Menus
    BY <1>1, <1>3, ItemOfMenu
  <2> QED BY <1>1, <2>1, <2>2, ShownEntry DEF KeyInv, Placed
<1>4. CASE item.type \notin {"EXEC", "NMENU"}
  <2>1. prompt_menu_item(item) /\ UNCHANGED <<g_sys, place>>
    BY <1>1, <1>4 DEF Choose
  <2>2. item.type # "HOTKEY"
    <3> SUFFICES ASSUME item.type = "HOTKEY" PROVE FALSE
      OBVIOUS
    <3>1. item.opt \in [{1} -> Letters]
      BY <1>1, ItemOfMenu
    <3>2. keybuf \in Seq(Letters \cup Digits) /\ DOMAIN keybuf = {1}
      BY <3>1 DEF KeyInv
    <3>3. Len(keybuf) = 1 /\ keybuf = <<keybuf[1]>>
      BY <3>2
    <3> QED BY <3>3 DEF KeyInv, EntryInv, NoHotKeys, IsHotKey
  <2>3. /\ menu' = menu /\ keybuf' = <<>> /\ disturbed' = FALSE
        /\ edit' = IF item.type = "BITFLAG" THEN "flag" ELSE "data"
        /\ bitbool' = IF item.type = "BITFLAG" THEN g_sys.hi ELSE bitbool
        /\ g_sys' = g_sys /\ place' = place
    BY <2>1 DEF prompt_menu_item
  <2>4. bitbool' \in Halves.hi
    BY <2>3 DEF KeyInv, Configs
  <2>5. EntryInv' /\ FlagInv'
    BY <1>1, <1>4, <2>2, <2>3 DEF EntryInv, NoHotKeys, FlagInv
  <2>6. /\ keybuf' \in Seq(Letters \cup Digits) /\ Len(keybuf') < KEYBUF_SIZE
        /\ edit' \in {"select", "data", "flag"} /\ Placed'
    BY <2>3, TerminalAssumption DEF Placed
  <2> QED BY <1>1, <2>3, <2>4, <2>5, <2>6 DEF KeyInv
<1> QED BY <1>1, <1>2, <1>3, <1>4

(* ES_MENU_SELECT.                                                            *)
LEMMA SelectKey ==
  ASSUME KeyInv, TypeInv, NEW key \in Keys, place = "keys", MenuSelect(key),
         UNCHANGED end_debug
  PROVE  KeyInv'
<1>1. edit = "select" /\ menu \in Menus
  BY DEF MenuSelect, KeyInv
<1>2. CASE SelectReturn
  <2>1. CASE \E item \in menu_tab[menu] : item.opt = keybuf /\ Choose(item)
    BY <1>1, <2>1, Chosen
  <2>2. CASE /\ Shows(menu)
             /\ menuitem' = IF keybuf = <<>> THEN menuitem ELSE NoItem
             /\ UNCHANGED <<g_sys, place, bitbool, disturbed>>
    BY <1>1, <2>2, ShownEntry DEF KeyInv, Placed
  <2> QED BY <1>2, <2>1, <2>2 DEF SelectReturn
<1>3. CASE SelectOther(key)
  <2> DEFINE Same == UNCHANGED <<g_sys, place, menuitem, bitbool, disturbed, end_debug>>
             Hot(x) == \E item \in menu_tab[menu] :
                         item.type = "HOTKEY" /\ item.opt = <<x>>
  <2>1. Same
    BY <1>3 DEF SelectOther
  <2>2. \/ \E m \in Menus : Shows(m)
        \/ do_backspace
        \/ Ignored
        \/ do_bufkey(key) /\ ~IsHotKey(key) /\ key \in Letters \cup Digits
    BY <1>1, <1>3, TerminalAssumption DEF SelectOther, Keys
  <2>3. CASE \E m \in Menus : Shows(m)
    BY <2>1, <2>3, ShownEntry DEF KeyInv, Placed
  <2>4. CASE Ignored
    BY <2>1, <2>4 DEF Ignored, KeyInv, EntryInv, NoHotKeys, IsHotKey, FlagInv, Placed
  <2>5. ASSUME menu' = menu, edit' = edit,
               keybuf' \in Seq(Letters \cup Digits), Len(keybuf') < KEYBUF_SIZE,
               \A i \in 1..Len(keybuf') :
                 \/ i \in 1..Len(keybuf) /\ keybuf'[i] = keybuf[i]
                 \/ keybuf'[i] = key /\ ~IsHotKey(key)
        PROVE  KeyInv'
    <3>1. \A i \in 1..Len(keybuf) : ~IsHotKey(keybuf[i])
      BY <1>1 DEF KeyInv, EntryInv, NoHotKeys
    <3>2. \A i \in 1..Len(keybuf') : ~Hot(keybuf'[i])
      BY <2>5, <3>1 DEF IsHotKey
    <3>3. NoHotKeys'
      BY <2>5, <3>2 DEF NoHotKeys, IsHotKey
    <3> QED BY <1>1, <2>1, <2>5, <3>3 DEF KeyInv, EntryInv, FlagInv, Placed
  <2>6. CASE do_backspace
    <3>1. menu' = menu /\ edit' = edit
      BY <2>6 DEF do_backspace
    <3> HIDE DEF Same, Hot
    <3> QED BY <2>5, <2>6, <3>1, Backspace
  <2>7. CASE do_bufkey(key) /\ ~IsHotKey(key) /\ key \in Letters \cup Digits
    <3>1. menu' = menu /\ edit' = edit
      BY <2>7 DEF do_bufkey
    <3> HIDE DEF Same, Hot
    <3> QED BY <2>5, <2>7, <3>1, BufKey
  <2> QED BY <2>2, <2>3, <2>4, <2>6, <2>7
<1> QED BY <1>2, <1>3 DEF MenuSelect

(* ES_DATA_INPUT.                                                             *)
LEMMA DataKey ==
  ASSUME KeyInv, TypeInv, NEW key \in Keys, place = "keys", DataInput(key),
         UNCHANGED end_debug
  PROVE  KeyInv'
<1>1. /\ edit = "data" /\ menu \in Menus
      /\ UNCHANGED <<place, menuitem, bitbool, disturbed, end_debug>>
  BY DEF DataInput, KeyInv
<1>2. g_sys' \in Configs
  <2>1. \/ g_sys' = g_sys
        \/ \E n \in Low..High : g_sys' = [g_sys EXCEPT !.lo.number = n]
    BY DEF DataInput, put_idata
  <2> QED BY <2>1, EntryType DEF KeyInv
<1>3. \/ Shows(menu)
      \/ do_backspace
      \/ Ignored
      \/ do_bufkey(key) /\ key \in Letters \cup Digits
  BY DEF DataInput, Keys, SpecialKeys, is_escape
<1>4. CASE Shows(menu)
  BY <1>1, <1>2, <1>4, ShownEntry DEF KeyInv, Placed
<1>5. ASSUME menu' = menu, edit' = edit,
             keybuf' \in Seq(Letters \cup Digits), Len(keybuf') < KEYBUF_SIZE
      PROVE  KeyInv'
  BY <1>1, <1>2, <1>5 DEF KeyInv, EntryInv, NoHotKeys, FlagInv, Placed
<1>6. CASE Ignored
  BY <1>5, <1>6 DEF Ignored, KeyInv
<1>7. CASE do_backspace
  BY <1>5, <1>7, Backspace DEF do_backspace
<1>8. CASE do_bufkey(key) /\ key \in Letters \cup Digits
  BY <1>5, <1>8, BufKey DEF do_bufkey
<1> QED BY <1>3, <1>4, <1>6, <1>7, <1>8

(* ES_BITFLAG_SELECT.                                                         *)
LEMMA FlagKey ==
  ASSUME KeyInv, NEW key \in Keys, place = "keys", FlagSelect(key),
         UNCHANGED end_debug
  PROVE  KeyInv'
<1>1. /\ edit = "flag" /\ menu \in Menus
      /\ UNCHANGED <<place, menuitem, end_debug>>
      /\ menuitem.type = "BITFLAG" /\ menuitem \in menu_tab[menu]
      /\ disturbed' = (disturbed /\ edit' = "flag")
  BY DEF FlagSelect, KeyInv, EntryInv
<1>2. {menuitem.arg} \in Halves.hi
  BY <1>1, ItemOfMenu
<1>3. CASE key = "RET"
  <2>1. SetFlags(menuitem.arg) /\ Shows(menu) /\ bitbool' = bitbool
    BY <1>3 DEF FlagSelect
  <2>2. g_sys' \in Configs
    BY <1>2, <2>1, FlagsType, EntryType DEF SetFlags, KeyInv, Configs
  <2> QED BY <1>1, <2>1, <2>2, ShownEntry DEF KeyInv, Placed
<1>4. CASE key = "SPACE"
  <2>1. g_sys' = g_sys /\ Toggle(menuitem.arg) /\ Ignored
    BY <1>4 DEF FlagSelect, is_escape
  <2>2. bitbool' \in Halves.hi /\ bitbool' \ {menuitem.arg} = bitbool \ {menuitem.arg}
    BY <1>2, <2>1, FlagsType DEF Toggle, KeyInv
  <2> QED BY <1>1, <2>1, <2>2 DEF Ignored, KeyInv, EntryInv, NoHotKeys, FlagInv, Placed
<1>5. CASE key \notin {"RET", "SPACE"}
  <2>1. g_sys' = g_sys /\ bitbool' = bitbool /\ (Shows(menu) \/ Ignored)
    BY <1>5 DEF FlagSelect
  <2>2. CASE Shows(menu)
    BY <1>1, <2>1, <2>2, ShownEntry DEF KeyInv, Placed
  <2>3. CASE Ignored
    BY <1>1, <2>1, <2>3 DEF Ignored, KeyInv, EntryInv, NoHotKeys, FlagInv, Placed
  <2> QED BY <2>1, <2>2, <2>3
<1> QED BY <1>3, <1>4, <1>5

(* A key at the main loop of the task.                                        *)
LEMMA KeystrokeStep ==
  ASSUME TerminalInv, NEW key \in Keys, Keystroke(key)
  PROVE  TerminalInv'
<1>1. /\ place = "keys" /\ saving = <<>> /\ reading = <<>>
      /\ UNCHANGED <<eeprom, saving, reading, leaving>>
  BY DEF Keystroke, Reads, TerminalInv, PlaceInv
<1>2. KeyInv /\ TypeInv
  BY <1>1 DEF TerminalInv, TypeInv, KeyInv, Placed
<1>3. KeyInv'
  <2>1. CASE EndMonitor \/ InMonitor(key)
    BY <1>1, <1>2, <2>1, MonitorKey
  <2>2. CASE do_menu_keystate(key)
    BY <1>1, <1>2, <2>2, SelectKey, DataKey, FlagKey DEF do_menu_keystate
  <2> QED BY <2>1, <2>2 DEF Keystroke
<1>4. TypeInv'
  BY <1>1, <1>3 DEF KeyInv, TypeInv, TerminalInv
<1>5. PlaceInv' /\ SaveInv'
  BY <1>1, <1>3 DEF KeyInv, Placed, PlaceInv, SaveInv
<1> QED BY <1>3, <1>4, <1>5 DEF KeyInv, TerminalInv

(* Prompts and diagnostics only wait.                                         *)
LEMMA PromptStep ==
  ASSUME TerminalInv, NEW key \in Keys, Confirm(key) \/ InDiag(key)
  PROVE  TerminalInv'
<1>1. /\ place \in {"save?", "recall?", "default?", "diag", "any key"}
      /\ place' \in {"save", "recall", "default", "keys", "any key"}
      /\ UNCHANGED <<paramVars, entryVars, reading, disturbed, leaving>>
  <2>1. /\ DOMAIN Prompt = {"save", "recall", "default"}
        /\ Prompt["save"] = "save?" /\ Prompt["recall"] = "recall?"
        /\ Prompt["default"] = "default?"
    BY DEF Prompt
  <2> QED BY <2>1 DEF Confirm, InDiag, Reads
<1> QED
  BY <1>1
  DEF TerminalInv, TypeInv, EntryInv, NoHotKeys, IsHotKey, PlaceInv, FlagInv, SaveInv,
      paramVars, entryVars

-----------------------------------------------------------------------------
(* The work of a handler                                                     *)

(* No entry is under way.                                                     *)
LEMMA AtWork ==
  ASSUME TerminalInv, place # "keys", UNCHANGED entryVars
  PROVE  /\ edit' = "select" /\ keybuf' = <<>>
         /\ EntryInv' /\ FlagInv'
  BY DEF TerminalInv, EntryInv, NoHotKeys, IsHotKey, PlaceInv, FlagInv, entryVars

(* A save starts with all the words, undisturbed.                             *)
LEMMA SaveStarts ==
  ASSUME TerminalInv, place # "keys", NEW config \in Configs, SysParamsWrite(config),
         place' = "saving", disturbed' = FALSE, reading = <<>>,
         UNCHANGED <<entryVars, reading, leaving>>
  PROVE  TerminalInv'
<1>1. /\ g_sys' \in Configs /\ saving' = Words /\ eeprom' = eeprom
  BY DEF SysParamsWrite, Configs
<1>2. EntryInv' /\ FlagInv' /\ edit' = "select" /\ keybuf' = <<>>
  BY AtWork
<1>3. TypeInv'
  BY <1>1 DEF TerminalInv, TypeInv, entryVars, Rests
<1>4. PlaceInv' /\ SaveInv'
  BY <1>1, <1>2, WordsAreDistinct DEF PlaceInv, SaveInv
<1> QED BY <1>2, <1>3, <1>4 DEF TerminalInv

(* A word of the EEPROM programmed.                                           *)
LEMMA SaveWordStep ==
  ASSUME TerminalInv, SaveWord
  PROVE  /\ TerminalInv'
         /\ saving' = <<>> /\ ~disturbed => eeprom' = g_sys'
<1>1. /\ place = "saving" /\ saving \in Rests /\ saving # <<>>
      /\ eeprom' = [eeprom EXCEPT ![Head(saving)] = g_sys[Head(saving)]]
      /\ saving' = Tail(saving) /\ g_sys' = g_sys /\ reading = <<>>
      /\ UNCHANGED <<entryVars, reading, leaving>>
      /\ place' = IF saving' = <<>> THEN "keys" ELSE "saving"
      /\ disturbed' = (disturbed /\ saving' # <<>>)
      /\ g_sys \in Configs /\ eeprom \in Configs
  BY DEF SaveWord, ProgramWord, TerminalInv, TypeInv, PlaceInv
<1>2. /\ saving' \in Rests
      /\ Head(saving) \in {"head", "lo", "hi"}
      /\ saving = Words => Head(saving) = "head" /\ saving' = <<"lo", "hi">>
      /\ saving = <<"lo", "hi">> => Head(saving) = "lo" /\ saving' = <<"hi">>
      /\ saving = <<"hi">> => Head(saving) = "hi" /\ saving' = <<>>
  BY <1>1, WordTaken DEF Rests
<1>3. eeprom' \in Configs
  BY <1>1, <1>2, WordMoved
<1>4. EntryInv' /\ FlagInv' /\ edit' = "select" /\ keybuf' = <<>>
  BY <1>1, AtWork
<1>5. TypeInv'
  BY <1>1, <1>2, <1>3 DEF TerminalInv, TypeInv, entryVars
<1>6. PlaceInv'
  BY <1>1, <1>4 DEF PlaceInv
<1>7. /\ SaveInv'
      /\ saving' = <<>> /\ ~disturbed => eeprom' = g_sys'
  <2>1. CASE saving = Words
    BY <1>1, <1>2, <2>1, WordsAreDistinct DEF SaveInv, Configs
  <2>2. CASE saving = <<"lo", "hi">>
    BY <1>1, <1>2, <2>2, WordsAreDistinct DEF SaveInv, TerminalInv, Configs
  <2>3. CASE saving = <<"hi">>
    BY <1>1, <1>2, <2>3, WordsAreDistinct DEF SaveInv, TerminalInv, Configs
  <2> QED BY <1>1, <2>1, <2>2, <2>3 DEF Rests
<1> QED BY <1>4, <1>5, <1>6, <1>7 DEF TerminalInv

(* A recall or a reset goes on: only g_sys and the words to read change.       *)
LEMMA ReadStep ==
  ASSUME TerminalInv, place \notin {"keys", "saving"},
         g_sys' \in Configs, reading' \in Rests,
         place' \notin {"saving"}, reading' # <<>> => place' = "reading",
         UNCHANGED <<eeprom, saving, entryVars, disturbed, leaving>>
  PROVE  TerminalInv'
<1>1. EntryInv' /\ FlagInv' /\ edit' = "select" /\ keybuf' = <<>>
  BY AtWork
<1>2. TypeInv'
  BY DEF TerminalInv, TypeInv, entryVars
<1>3. PlaceInv' /\ SaveInv'
  BY <1>1 DEF TerminalInv, PlaceInv, SaveInv
<1> QED BY <1>1, <1>2, <1>3 DEF TerminalInv

(* The work of the handlers, step by step.                                  *)
LEMMA WorkStep ==
  ASSUME TerminalInv, Work
  PROVE  TerminalInv'
<1> USE DEF paramVars
<1>1. g_sys \in Configs /\ eeprom \in Configs /\ reading \in Rests
  BY DEF TerminalInv, TypeInv
<1>2. /\ InitSysDefaults(g_sys) \in Configs /\ Words \in Rests /\ <<>> \in Rests
      /\ Config(FALSE, Zero) \in Configs
  BY <1>1, DefaultsType, EntriesAssumption DEF Rests, Config, Configs
<1>3. CASE BeginSave
  BY <1>1, <1>3, SaveStarts DEF BeginSave, TerminalInv, PlaceInv
<1>4. CASE SaveWord
  BY <1>4, SaveWordStep
<1>5. CASE BeginRead
  BY <1>2, <1>5, ReadStep DEF BeginRead
<1>6. CASE ReadWord
  <2>1. Tail(reading) \in Rests /\ Head(reading) \in {"head", "lo", "hi"}
    BY <1>1, <1>6, WordTaken DEF ReadWord, Rests
  <2>2. g_sys' \in Configs
    BY <1>1, <1>6, <2>1, WordMoved DEF ReadWord
  <2> QED BY <1>6, <2>1, <2>2, ReadStep DEF ReadWord
<1>7. CASE EndRead
  <2>1. CASE g_sys.head
    BY <1>1, <1>7, <2>1, ReadStep DEF EndRead
  <2>2. CASE ~g_sys.head
    BY <1>2, <1>7, <2>2, SaveStarts DEF EndRead
  <2> QED BY <2>1, <2>2
<1>8. CASE Clear
  BY <1>1, <1>2, <1>8, ReadStep DEF Clear, TerminalInv, PlaceInv
<1>9. CASE Defaults
  BY <1>1, <1>2, <1>9, ReadStep DEF Defaults, TerminalInv, PlaceInv
<1> QED BY <1>3, <1>4, <1>5, <1>6, <1>7, <1>8, <1>9 DEF Work

-----------------------------------------------------------------------------
(* The STC, the power and the operator                                       *)

(* What the STC does beside a flag prompt or a save disturbs it.              *)
LEMMA StcStep ==
  ASSUME TerminalInv, Stc, g_sys' \in Configs, eeprom' \in Configs,
         saving # <<>> => eeprom' = eeprom
  PROVE  TerminalInv'
<1>1. /\ UNCHANGED <<saving, entryVars, place, reading, leaving>>
      /\ disturbed' = (edit = "flag" \/ saving # <<>>)
  BY DEF Stc
<1>2. TypeInv'
  BY <1>1 DEF TerminalInv, TypeInv, entryVars
<1>3. EntryInv' /\ PlaceInv'
  BY <1>1
  DEF TerminalInv, EntryInv, NoHotKeys, IsHotKey, PlaceInv, entryVars
<1>4. FlagInv' /\ SaveInv'
  BY <1>1 DEF TerminalInv, PlaceInv, FlagInv, SaveInv, entryVars
<1> QED BY <1>2, <1>3, <1>4 DEF TerminalInv

(* What is loaded is a configuration.                                       *)
LEMMA LoadedType ==
  ASSUME g_sys \in Configs, eeprom \in Configs, Loaded
  PROVE  g_sys' \in Configs /\ eeprom' \in Configs
<1>1. InitSysDefaults(eeprom) \in Configs
  BY DefaultsType
<1>2. [InitSysDefaults(eeprom) EXCEPT !.head = TRUE] \in Configs
  BY <1>1 DEF Configs
<1> QED BY <1>2 DEF Loaded

(* What the STC, the power and the operator do.                             *)
LEMMA EnvironmentStep ==
  ASSUME TerminalInv, Environment
  PROVE  TerminalInv'
<1>1. g_sys \in Configs /\ eeprom \in Configs
  BY DEF TerminalInv, TypeInv
<1>2. CASE HandleConfigSet
  BY <1>1, <1>2, StcStep, EntriesAssumption DEF HandleConfigSet
<1>3. CASE HandleReset
  BY <1>1, <1>3, StcStep, DefaultsType DEF HandleReset
<1>4. CASE HandleStore
  <2>1. g_sys' \in Configs /\ eeprom' = g_sys'
    BY <1>1, <1>4 DEF HandleStore, Configs
  <2> QED BY <1>4, <2>1, StcStep DEF HandleStore, TransferFree
<1>5. CASE HandleLoad
  BY <1>1, <1>5, StcStep, LoadedType DEF HandleLoad, TransferFree
<1>6. CASE PowerCycle
  <2>1. g_sys' \in Configs /\ eeprom' \in Configs
    <3>1. Config(FALSE, Dflt) \in Configs
      BY ParamsAssumption DEF Config, Configs
    <3> QED BY <1>1, <1>6, <3>1, LoadedType DEF PowerCycle
  <2>2. EntryInv' /\ FlagInv' /\ Shows("main")
    BY <1>6, ShownEntry, TerminalAssumption DEF PowerCycle
  <2>3. TypeInv'
    BY <1>6, <2>1, <2>2, NoFlags, ShownEntry, TerminalAssumption
    DEF PowerCycle, TerminalInv, TypeInv, Rests
  <2>4. PlaceInv' /\ SaveInv'
    BY <1>6 DEF PowerCycle, PlaceInv, SaveInv
  <2> QED BY <2>2, <2>3, <2>4 DEF TerminalInv
<1>7. CASE Leave
  BY <1>7
  DEF Leave, paramVars, entryVars, workVars, TerminalInv, TypeInv, EntryInv, NoHotKeys,
      IsHotKey, PlaceInv, FlagInv, SaveInv
<1> QED BY <1>2, <1>3, <1>4, <1>5, <1>6, <1>7 DEF Environment

-----------------------------------------------------------------------------
(* At first the home menu is shown.                                         *)
LEMMA TerminalAtFirst == Init => TerminalInv
<1> SUFFICES ASSUME Init PROVE TerminalInv
  OBVIOUS
<1>1. g_sys \in Configs /\ eeprom \in Configs /\ saving = <<>>
  BY ParamsAssumption DEF Init, ParamsInit, Config, Configs
<1>2. TypeInv
  <2>1. keybuf \in Seq(Letters \cup Digits) /\ Len(keybuf) < KEYBUF_SIZE
    BY TerminalAssumption DEF Init, show_home_menu
  <2>2. saving \in Rests /\ reading \in Rests /\ bitbool \in Halves.hi
    BY <1>1, NoFlags DEF Init, show_home_menu, Rests
  <2>3. menu \in Menus /\ {end_debug, leaving, disturbed} \subseteq BOOLEAN
    BY TerminalAssumption DEF Init, show_home_menu
  <2> QED BY <1>1, <2>1, <2>2, <2>3 DEF Init, show_home_menu, TypeInv
<1>3. EntryInv /\ PlaceInv /\ FlagInv /\ SaveInv
  BY <1>1
  DEF Init, show_home_menu, EntryInv, NoHotKeys, PlaceInv, FlagInv, SaveInv
<1> QED BY <1>2, <1>3 DEF TerminalInv

(* Every step keeps the invariant.                                          *)
LEMMA TerminalStep == TerminalInv /\ [Next]_vars => TerminalInv'
<1> SUFFICES ASSUME TerminalInv, [Next]_vars PROVE TerminalInv'
  OBVIOUS
<1>1. CASE UNCHANGED vars
  BY <1>1
  DEF vars, paramVars, entryVars, workVars, TerminalInv, TypeInv, EntryInv, NoHotKeys,
      IsHotKey, PlaceInv, FlagInv, SaveInv
<1>2. ASSUME NEW key \in Keys, Key(key) PROVE TerminalInv'
  BY <1>2, KeystrokeStep, PromptStep DEF Key
<1>3. CASE Work
  BY <1>3, WorkStep
<1>4. CASE Environment
  BY <1>4, EnvironmentStep
<1> QED BY <1>1, <1>2, <1>3, <1>4 DEF Next

(* The inductive invariant of the terminal.                                 *)
LEMMA TerminalInvariant == Spec => []TerminalInv
  BY TerminalAtFirst, TerminalStep, PTL DEF Spec

(* Whatever the operator types and the STC sets meanwhile, an entry goes to an
   item of the menu on the screen and of the kind it was prompted for, the
   buffer of the keys has room for the end of the string, and the EEPROM is
   programmed only where a handler does it (do_menu_keystate).               *)
THEOREM EntriesGoToTheirItem == Spec => []EditsItsItem
<1>1. TerminalInv => EditsItsItem
  BY RestsAre
  DEF TerminalInv, TypeInv, EntryInv, PlaceInv, EditsItsItem, TerminalTypeOK, ParamsTypeOK,
      Rests
<1> QED BY <1>1, TerminalInvariant, PTL

(* A flag that is entered, with no change of the configuration from elsewhere
   since its prompt, changes that flag only: the word put back (s_bitbool,
   SetFlags) is the word there is.                                           *)
LEMMA UndisturbedFlag ==
  ASSUME TerminalInv, ~disturbed
  PROVE  OnlyItsFlag
<1> SUFFICES ASSUME edit = "flag", Keystroke("RET")
             PROVE  g_sys'.hi \ {menuitem.arg} = g_sys.hi \ {menuitem.arg}
  BY DEF OnlyItsFlag
<1>1. g_sys \in Configs /\ bitbool \ {menuitem.arg} \subseteq g_sys.hi
  BY DEF TerminalInv, TypeInv, FlagInv
<1>2. CASE EndMonitor
  BY <1>2 DEF EndMonitor
<1>3. CASE InMonitor("RET")
  BY <1>3 DEF InMonitor, is_escape
<1>4. CASE FlagSelect("RET")
  <2>1. g_sys'.hi = (g_sys.hi \ {menuitem.arg}) \cup bitbool
    BY <1>1, <1>4 DEF FlagSelect, SetFlags, Configs
  <2> QED BY <1>1, <2>1
<1> QED BY <1>2, <1>3, <1>4 DEF Keystroke, do_menu_keystate, MenuSelect, DataInput

(* An undisturbed flag entry changes its flag only, and an undisturbed save
   leaves all of g_sys in the EEPROM, whatever entries, recalls, resets and
   power cuts went before (FlagSelect, mc_write_config).                     *)
THEOREM UndisturbedWorkIsDone == Spec => UndisturbedWork
<1>1. TerminalInv /\ [Next]_vars => [disturbed \/ (OnlyItsFlag /\ SavesAll)]_vars
  <2> SUFFICES ASSUME TerminalInv, ~disturbed PROVE OnlyItsFlag /\ SavesAll
    OBVIOUS
  <2> QED BY UndisturbedFlag, SaveWordStep DEF SavesAll
<1> QED BY <1>1, TerminalInvariant, PTL DEF Spec, UndisturbedWork

===============================================================================
