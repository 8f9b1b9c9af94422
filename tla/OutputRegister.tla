---------------------------- MODULE OutputRegister ----------------------------
(***************************************************************************)
(* What the tasks that drive solenoids and lamps rely on: a call changes   *)
(* the outputs of one expander at once, all of its bits or, when it gives  *)
(* up, none, and never the bits it does not name.  IOExpander implements   *)
(* this module (AtomicOutputs there).                                      *)
(***************************************************************************)
CONSTANTS
  Tasks,
  Requests,   (* an output register, the bits to set and the bits to clear   *)
  NoRequest

VARIABLES
  port,       (* what each output register drives                            *)
  asked       (* the request of each task that is not answered yet           *)

vars == <<port, asked>>

Changed(bits, request) == (bits \ request.clear) \cup request.set

Init ==
  /\ port = [out \in {request.out : request \in Requests} |-> {}]
  /\ asked = [t \in Tasks |-> NoRequest]

Ask(t, request) ==
  /\ asked[t] = NoRequest
  /\ asked' = [asked EXCEPT ![t] = request]
  /\ UNCHANGED port

Apply(t) ==
  /\ asked[t] # NoRequest
  /\ port' = [port EXCEPT ![asked[t].out] = Changed(@, asked[t])]
  /\ asked' = [asked EXCEPT ![t] = NoRequest]

GiveUp(t) ==
  /\ asked[t] # NoRequest
  /\ asked' = [asked EXCEPT ![t] = NoRequest]
  /\ UNCHANGED port

Next ==
  \E t \in Tasks :
    \/ \E request \in Requests : Ask(t, request)
    \/ Apply(t)
    \/ GiveUp(t)

Spec == Init /\ [][Next]_vars
=============================================================================
