----------------------------- MODULE MCTransport -----------------------------
(* Small instances of Transport.                                             *)
EXTENDS Transport

NoIpc == {}
FewIpc == {ModeCommand("FWD", {"NOSLOW"}, 0)}
WithIpc(ipc) == ButtonCommands \cup ipc
PlayIpc == {ModeCommand("PLAY", {"RECORD"}, 0)}
TwoIpc == FewIpc \cup PlayIpc
CommandsPlayIpc == WithIpc(PlayIpc)
CommandsTwoIpc == WithIpc(TwoIpc)
CommandsNoIpc == WithIpc(NoIpc)
CommandsFewIpc == WithIpc(FewIpc)

NoButtons == {}
StopButton == {{"STOP"}}
StopAndRecord == {{"STOP"}, {"PLAY", "REC"}}

NoFlags == {}
AtStopFlags == {"BRAKES_AT_STOP", "LIFTER_AT_STOP"}
DefaultFlags == {"BRAKES_STOP_PLAY", "ENGAGE_PINCH_ROLLER"}
=============================================================================
