--------------------------- MODULE MCCommandPort ---------------------------
(* Small sets for the runs of CommandPort.                                   *)
EXTENDS CommandPort

Both(value) == [lo |-> value, hi |-> value]
MCHalves == [lo |-> {"dflt", "set"}, hi |-> {"dflt", "set"}]
MCDflt == Both("dflt")

(* Another configuration, whose header is or is not the firmware's own.      *)
AnyRequests ==
  {ConfigSet(Config(head, Both("set"))) : head \in BOOLEAN}
    \cup {Message(op) : op \in Eprom \cup {"TRANSPORT_CMD", "UNKNOWN"}}
=============================================================================
