---------------------------- MODULE MCMainControl ----------------------------
(* Small instances of MainControl.                                           *)
EXTENDS MainControl

StopOrPlay == {{"STOP"}, {"PLAY"}}
PlayRecord == {{"PLAY", "REC"}}
=============================================================================
