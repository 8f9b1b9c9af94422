---------------------------- MODULE MCIPCServer ----------------------------
(* Small instances of IPCServer.                                             *)
EXTENDS IPCServer

Datagram == Frame("MSG_ONLY", {"DATAGRAM"}, 0, 0, "button")
Request(s) == Frame("MSG_ONLY", {"ACKNAK"}, s, 0, "config")
WithPriority(f) == [f EXCEPT !.flags = @ \cup {"PRIORITY"}]

OneNotifier == {"controller"}
AllMsgs == OneNotifier \cup {"button", "config"}

MixedFrames == {WithPriority(Datagram), Request(1)}
OneRequest == {Request(1)}
=============================================================================
