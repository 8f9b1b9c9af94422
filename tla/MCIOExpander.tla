---------------------------- MODULE MCIOExpander ----------------------------
(* A small instance of IOExpander: two tasks, requests that overlap.         *)
EXTENDS IOExpander

MCBits == {"b1", "b2"}
FewRequests ==
  {SetTransportMask({"b1"}, MCBits), SetTransportMask({"b2"}, {}),
   SetTransportMask({}, {"b1"}), SetLamp({"b1"}), SetLampMask({"b2"}, {"b1"})}
=============================================================================
