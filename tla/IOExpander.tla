------------------------------ MODULE IOExpander ------------------------------
(***************************************************************************)
(* The two I/O expanders (src/IOExpander.c): output registers for the      *)
(* solenoids and the lamps, each with a copy of its bits in memory, and    *)
(* inputs for the switches.  Tasks of different priorities call the        *)
(* functions at any moment; g_semaSPI keeps them apart, and a task that    *)
(* does not get it in TIMEOUT_SPI ticks returns as if it had succeeded.    *)
(*                                                                         *)
(* A transfer between the pend and the post fails only when another is     *)
(* under way, which the semaphore rules out: the failure, which leaves the *)
(* chip selected, is left out.  The registers are set up before the tasks  *)
(* start.  GetTransportStateMask, GetLampStateMask and IsTransportLifters  *)
(* read the copy without the semaphore and change nothing.                 *)
(***************************************************************************)
CONSTANTS
  Tasks,
  Bits,
  Requests,     (* calls of SetTransportMask, SetLamp and SetLampMask        *)
  NoRequest,
  NoTask

VARIABLES
  g_semaSPI,    (* the task that holds the semaphore, or NoTask              *)
  mask,         (* s_ucTransportMask and s_ucLampMask                        *)
  port,         (* the output registers of the expanders                     *)
  switches,     (* the inputs                                                *)
  pc,           (* where each task is                                        *)
  request,      (* the arguments of its call                                 *)
  got           (* the bits its last read returned                           *)

vars == <<g_semaSPI, mask, port, switches, pc, request, got>>

Outputs == {"solenoids", "lamps"}

(* SetLamp stores the whole mask; the other two clear and set bits of it.     *)
SetTransportMask(set, clear) ==
  [out |-> "solenoids", set |-> set, clear |-> clear, whole |-> FALSE]
SetLampMask(set, clear) ==
  [out |-> "lamps", set |-> set, clear |-> clear, whole |-> FALSE]
SetLamp(set) ==
  [out |-> "lamps", set |-> set, clear |-> Bits, whole |-> TRUE]

Calls == [out : Outputs, set : SUBSET Bits, clear : SUBSET Bits, whole : BOOLEAN]

ASSUME ExpanderAssumption ==
  /\ Requests \subseteq Calls
  /\ \A r \in Requests : r.whole => r.clear = Bits
  /\ Outputs = {r.out : r \in Requests}
  /\ NoRequest \notin Requests
  /\ NoTask \notin Tasks

Init ==
  /\ g_semaSPI = NoTask
  /\ mask = [out \in Outputs |-> {}]
  /\ port = [out \in Outputs |-> {}]
  /\ switches = {}
  /\ pc = [t \in Tasks |-> "idle"]
  /\ request = [t \in Tasks |-> NoRequest]
  /\ got = [t \in Tasks |-> {}]

-----------------------------------------------------------------------------
Goto(t, place) == pc' = [pc EXCEPT ![t] = place]
Returns(t) ==
  /\ Goto(t, "idle")
  /\ request' = [request EXCEPT ![t] = NoRequest]

(* A write, a read of one of the masks, or a read of the switches.           *)
CallSet(t, r) ==
  /\ pc[t] = "idle"
  /\ request' = [request EXCEPT ![t] = r]
  /\ Goto(t, "pendSet")
  /\ UNCHANGED <<g_semaSPI, mask, port, switches, got>>

CallGet(t, place) ==
  /\ pc[t] = "idle"
  /\ Goto(t, place)
  /\ UNCHANGED <<g_semaSPI, mask, port, switches, request, got>>

Pending == {"pendSet", "pendMask", "pendSwitches"}
Granted(place) ==
  CASE place = "pendSet" -> "clear"
    [] place = "pendMask" -> "get"
    [] place = "pendSwitches" -> "transfer"

(* Semaphore_pend                                                            *)
Pend_NotExclusive(t) ==
  /\ pc[t] \in Pending
  /\ g_semaSPI' = t
  /\ Goto(t, Granted(pc[t]))
  /\ UNCHANGED <<mask, port, switches, request, got>>

Pend(t) ==
  /\ pc[t] \in Pending
  /\ g_semaSPI = NoTask
  /\ g_semaSPI' = t
  /\ Goto(t, Granted(pc[t]))
  /\ UNCHANGED <<mask, port, switches, request, got>>

(* The time-out: nothing is written, GetTransportMask and GetLampMask return
   no bits, and the switches that were read before stand.                    *)
PendTimeout(t) ==
  /\ pc[t] \in Pending
  /\ g_semaSPI # NoTask
  /\ Returns(t)
  /\ got' = IF pc[t] = "pendMask" THEN [got EXCEPT ![t] = {}] ELSE got
  /\ UNCHANGED <<g_semaSPI, mask, port, switches>>

-----------------------------------------------------------------------------
(* With the semaphore                                                        *)

ClearBits(t) ==
  /\ pc[t] = "clear"
  /\ mask' = [mask EXCEPT ![request[t].out] =
                IF request[t].whole THEN request[t].set ELSE @ \ request[t].clear]
  /\ Goto(t, IF request[t].whole THEN "write" ELSE "set")
  /\ UNCHANGED <<g_semaSPI, port, switches, request, got>>

SetBits(t) ==
  /\ pc[t] = "set"
  /\ mask' = [mask EXCEPT ![request[t].out] = @ \cup request[t].set]
  /\ Goto(t, "write")
  /\ UNCHANGED <<g_semaSPI, port, switches, request, got>>

(* MCP23S17_write of the register, from the mask.                            *)
Write_SetOnly(t) ==
  /\ pc[t] = "write"
  /\ port' = [port EXCEPT ![request[t].out] = @ \cup request[t].set]
  /\ Goto(t, "post")
  /\ UNCHANGED <<g_semaSPI, mask, switches, request, got>>

Write(t) ==
  /\ pc[t] = "write"
  /\ port' = [port EXCEPT ![request[t].out] = mask[request[t].out]]
  /\ Goto(t, "post")
  /\ UNCHANGED <<g_semaSPI, mask, switches, request, got>>

GetMask(t, out) ==
  /\ pc[t] = "get"
  /\ got' = [got EXCEPT ![t] = mask[out]]
  /\ Goto(t, "post")
  /\ UNCHANGED <<g_semaSPI, mask, port, switches, request>>

(* MCP23S17_read                                                             *)
ReadSwitches(t) ==
  /\ pc[t] = "transfer"
  /\ got' = [got EXCEPT ![t] = switches]
  /\ Goto(t, "post")
  /\ UNCHANGED <<g_semaSPI, mask, port, switches, request>>

Post_NotAfterRead(t) ==
  /\ pc[t] = "post"
  /\ Returns(t)
  /\ g_semaSPI' = IF request[t] = NoRequest THEN g_semaSPI ELSE NoTask
  /\ UNCHANGED <<mask, port, switches, got>>

Post(t) ==
  /\ pc[t] = "post"
  /\ Returns(t)
  /\ g_semaSPI' = NoTask
  /\ UNCHANGED <<mask, port, switches, got>>

SwitchesChange(bits) ==
  /\ switches' = bits
  /\ UNCHANGED <<g_semaSPI, mask, port, pc, request, got>>

-----------------------------------------------------------------------------
Call(t) ==
  \/ \E r \in Requests : CallSet(t, r)
  \/ \E place \in {"pendMask", "pendSwitches"} : CallGet(t, place)

Runs(t) ==
  \/ Pend(t) \/ PendTimeout(t)
  \/ ClearBits(t) \/ SetBits(t) \/ Write(t)
  \/ \E out \in Outputs : GetMask(t, out)
  \/ ReadSwitches(t)
  \/ Post(t)

Next ==
  \/ \E t \in Tasks : Call(t) \/ Runs(t)
  \/ \E bits \in SUBSET Bits : SwitchesChange(bits)

Spec == Init /\ [][Next]_vars

(* A task in the middle of a call runs again: nothing of higher priority runs
   without blocking, and a transfer takes microseconds.                      *)
FairSpec == Spec /\ \A t \in Tasks : WF_vars(Runs(t))

-----------------------------------------------------------------------------
Holding == {"clear", "set", "write", "get", "transfer", "post"}
Places == {"idle"} \cup Pending \cup Holding

ExpanderTypeOK ==
  /\ g_semaSPI \in Tasks \cup {NoTask}
  /\ mask \in [Outputs -> SUBSET Bits]
  /\ port \in [Outputs -> SUBSET Bits]
  /\ switches \in SUBSET Bits
  /\ pc \in [Tasks -> Places]
  /\ request \in [Tasks -> Requests \cup {NoRequest}]
  /\ got \in [Tasks -> SUBSET Bits]

OneHolder == \A t \in Tasks : pc[t] \in Holding <=> g_semaSPI = t

Asking == {"pendSet", "clear", "set", "write"}
RequestStands ==
  \A t \in Tasks :
    /\ pc[t] \in Asking => request[t] # NoRequest
    /\ pc[t] \in {"idle", "pendMask", "pendSwitches", "get", "transfer"} =>
         request[t] = NoRequest

(* What the holder has made of the copy so far.                              *)
Intended(t, out) ==
  IF request[t] = NoRequest \/ request[t].out # out THEN port[out]
  ELSE CASE pc[t] = "set" -> port[out] \ request[t].clear
         [] pc[t] = "write" -> (port[out] \ request[t].clear) \cup request[t].set
         [] OTHER -> port[out]

CopyFollows ==
  \A out \in Outputs :
    mask[out] = IF g_semaSPI = NoTask THEN port[out] ELSE Intended(g_semaSPI, out)

(* The copy in memory is what the register drives whenever nobody holds the
   semaphore, and in between only the holder's own call makes a difference:
   GetTransportMask, which RecordEnable, RecordDisable and the lifter toggle
   trust (TransportTask.c:191, 226, 1064), returns what the coils have.       *)
CopyIsRegister ==
  /\ ExpanderTypeOK
  /\ OneHolder
  /\ RequestStands
  /\ CopyFollows

(* For its callers a write is atomic: the lamps and solenoids go from before a
   call to after it, in the order the calls take effect, with no bit of
   another call lost and none but its own changed.                           *)
Registers ==
  INSTANCE OutputRegister WITH
    asked <- [t \in Tasks |-> IF pc[t] \in Asking THEN request[t] ELSE NoRequest]
AtomicOutputs == Registers!Spec

(* No call keeps the semaphore: whoever holds it gives it back, so that a
   time-out is the exception and not the rule.                               *)
SemaphoreComesBack == \A t \in Tasks : g_semaSPI = t ~> g_semaSPI # t
=============================================================================
