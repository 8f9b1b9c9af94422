----------------------------- MODULE MCTerminal -----------------------------
(* A small instance of Terminal: two menus, two digits, one letter that is a
   hot key in the main menu, two flags.                                      *)
EXTENDS Terminal

MCMenus ==
  [main |-> {Item(<<"1">>, "NMENU", "stop"), Item(<<"2">>, "EXEC", "save"),
             Item(<<"1", "1">>, "EXEC", "monitor"),
             Item(<<"1", "2">>, "EXEC", "recall"),
             Item(<<"2", "1">>, "EXEC", "default"),
             Item(<<"2", "2">>, "EXEC", "diag"),
             Item(<<"Y">>, "HOTKEY", "play")},
   stop |-> {Item(<<"1">>, "NUMERIC", "number"),
             Item(<<"2">>, "BITFLAG", "lifter"),
             Item(<<"1", "1">>, "BITFLAG", "brakes")}]

MCDigits == {"1", "2"}
MCDigitValue == [d \in MCDigits |-> IF d = "1" THEN 1 ELSE 2]
Lo(debugs, n) == [debug |-> debugs, number |-> n]
HalvesOf(debugs, numbers) ==
  [lo |-> [debug : debugs, number : numbers], hi |-> SUBSET {"lifter", "brakes"}]
MCHalves == HalvesOf(0..2, 0..11)
MCDflt == [lo |-> Lo(0, 2), hi |-> {"brakes"}]
MCZero == [lo |-> Lo(0, 0), hi |-> {}]

(* The STC changes the number, the flags and the monitor.                    *)
MCStcConfigs ==
  {Config(TRUE, [lo |-> Lo(0, 11), hi |-> {"lifter"}]),
   Config(TRUE, [lo |-> Lo(2, 2), hi |-> {"brakes"}])}
=============================================================================
