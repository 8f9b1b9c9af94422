----------------------- MODULE MCTransportController -----------------------
(* Small instances of TransportController.                                   *)
EXTENDS TransportController

Plain(op) == ModeCommand(op, {}, 0)

(* Every mode, a PLAY in record, a library wind and a given velocity, and the
   immediate commands.                                                       *)
AllCommands ==
  {Plain(m) : m \in Modes}
    \cup {ModeCommand("PLAY", {"RECORD"}, 0),
          ModeCommand("FWD", {"LIBWIND", "NOSLOW"}, 0),
          ModeCommand("REW", {}, 1)}
    \cup {StrobeRecord(op) : op \in {"out", "in", "toggle"}}
    \cup {ToggleLifter}

(* One shuttle direction, no library wind.                                   *)
FewCommands ==
  {Plain(m) : m \in {"HALT", "STOP", "FWD", "THREAD"}}
    \cup {ModeCommand("PLAY", {"RECORD"}, 0), StrobeRecord("toggle"),
          ToggleLifter}

DefaultFlags == {"BRAKES_STOP_PLAY", "ENGAGE_PINCH_ROLLER"}
AtStopFlags == {"BRAKES_AT_STOP", "LIFTER_AT_STOP"}
=============================================================================
