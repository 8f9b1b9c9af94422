SPECIFICATION FairSpec
CONSTANTS
  Halves <- MCHalves
  Dflt <- MCDflt
  Zero <- MCZero
  StcConfigs <- MCStcConfigs
  menu_tab <- MCMenus
  Letters = {"Y"}
  Digits <- MCDigits
  DigitValue <- MCDigitValue
  Low = 2
  High = 11
  KEYBUF_SIZE = 4
INVARIANTS EditsItsItem
PROPERTIES EscapeGoesHome UndisturbedWork
