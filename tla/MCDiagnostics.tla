---------------------------- MODULE MCDiagnostics ----------------------------
(* Small instances of Diagnostics.                                           *)
EXTENDS Diagnostics

(* The modes a tape is threaded, stopped, and played in, with record.         *)
TapeCommands ==
  {ModeCommand(m, {}, 0) : m \in {"HALT", "THREAD", "STOP"}}
    \cup {ModeCommand("PLAY", {"RECORD"}, 0), StrobeRecord("out")}
TwoFlags == {"BRAKES_STOP_PLAY", "ENGAGE_PINCH_ROLLER"}
ThreeLevels == <<0, 1, 3>>
Steps == {-2, -1, 1, 2}
TwoLamps == <<"PLAY", "REC">>
=============================================================================
