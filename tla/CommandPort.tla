----------------------------- MODULE CommandPort -----------------------------
(***************************************************************************)
(* The second serial link of the STC: IPCFromSTC_Task reads a frame        *)
(* (IPC_FrameRx), handles its message and answers (src/IPCFromSTCTask.c,   *)
(* src/IPCCMD.c, src/IPCFrame.c).                                          *)
(*                                                                         *)
(* A frame on the wire is three tokens: the two bytes of the preamble and  *)
(* the rest, its body.  Noise puts bytes before a frame, damages it or     *)
(* loses a part of it.  A byte of noise is like one of the preamble or it  *)
(* is none of them, which says as much as a body that is not expected.     *)
(*                                                                         *)
(* The STC is external: it sends one request at a time, takes the reply    *)
(* with the number of the request and may stop waiting at any moment.  The *)
(* power may fail at any moment too.                                       *)
(***************************************************************************)
EXTENDS SystemParams

CONSTANTS
  Requests,     (* the messages the STC sends                                *)
  MaxSeq,       (* bound of the sequence numbers of the STC                  *)
  MaxNoise,     (* bound of the frames with noise                            *)
  MaxCuts,      (* bound of the power cuts                                   *)
  MaxWire,      (* bound of the tokens on their way                          *)
  None

VARIABLES
  wire,         (* the tokens on their way to the port                       *)
  rx,           (* how far IPC_FrameRx is in a frame                         *)
  port,         (* the frame that is handled, and where                      *)
  replies,      (* the frames on their way to the STC                        *)
  stc,          (* the request the STC waits for, and what it knows          *)
  noise, cuts,  (* events so far                                             *)
  quiet,        (* a read has timed out since the last request was sent      *)
  hurried,      (* the STC has stopped waiting before that                   *)
  missed        (* until then, the frames that came whole and were not taken *)

linkVars == <<wire, rx, quiet, missed>>
stcVars == <<stc, noise, hurried>>
vars == <<paramVars, linkVars, port, replies, stcVars, cuts>>

-----------------------------------------------------------------------------
(* Messages: a CONFIG_SET carries a whole configuration, CONFIG_EPROM one of
   its three operations.                                                     *)
ConfigSet(config) == [op |-> "CONFIG_SET", config |-> config]
Message(op) == [op |-> op, config |-> None]
Eprom == {"EPROM_LOAD", "EPROM_STORE", "EPROM_RESET"}
Plain == {"VERSION_GET", "CONFIG_GET", "EPROM_OTHER", "TRANSPORT_CMD", "UNKNOWN"}
IsRequest(m) ==
  \/ m.op = "CONFIG_SET" /\ m.config \in Configs
  \/ m.op \in Eprom \cup Plain /\ m.config = None

ASSUME PortAssumption ==
  /\ \A m \in Requests : IsRequest(m)
  /\ MaxSeq \in Nat \ {0}
  /\ {MaxNoise, MaxCuts, MaxWire} \subseteq Nat

Frame(seqnum, msg) == [seqnum |-> seqnum, msg |-> msg]
Frames == [seqnum : 1..MaxSeq, msg : Requests]

(* A reply: its type, its acknak number and the error field of its message.  *)
Reply(type, acknak, error) == [type |-> type, acknak |-> acknak, error |-> error]

Msb == [kind |-> "msb", frame |-> None]
Lsb == [kind |-> "lsb", frame |-> None]
Body(frame) == [kind |-> "body", frame |-> frame]
Damaged == [kind |-> "damaged", frame |-> None]
Short == [kind |-> "short", frame |-> None]
Tokens == {Msb, Lsb, Damaged, Short} \cup {Body(f) : f \in Frames}

(* IPC_FrameTx                                                               *)
Sent(frame) == <<Msb, Lsb, Body(frame)>>
Garbled(frame) ==
  {<<Msb, Msb, Lsb, Body(frame)>>, <<Msb, Lsb, Lsb, Body(frame)>>,
   <<Lsb, Body(frame)>>, <<Msb, Body(frame)>>, <<Body(frame)>>,
   <<Msb, Lsb, Damaged>>, <<Msb, Lsb, Short>>, <<Msb, Lsb>>, <<Msb>>, <<>>,
   <<Msb, Lsb, Body(frame), Msb>>}

Free == [pc |-> "read", frame |-> None, error |-> FALSE]

Init ==
  /\ ParamsInit
  /\ wire = <<>> /\ rx = "hunt" /\ quiet = FALSE /\ missed = 0
  /\ port = Free
  /\ replies = <<>>
  /\ stc = [pc |-> "idle", seqnum |-> 1, msg |-> None, known |-> None,
            promised |-> None]
  /\ noise = 0 /\ cuts = 0 /\ hurried = FALSE

-----------------------------------------------------------------------------
(* The STC: what it knows of the configuration of the port after a CONFIG_SET
   that was answered, and what it may rely on after it was stored.           *)

Send(msg) ==
  /\ stc.pc = "idle"
  /\ Len(wire) + Len(replies) < MaxWire
  /\ stc' = [stc EXCEPT !.pc = "wait", !.msg = msg,
                        !.promised = IF msg.op = "EPROM_STORE" THEN None ELSE @,
                        !.known = IF msg.op \in {"EPROM_LOAD", "EPROM_RESET",
                                                 "CONFIG_SET"}
                                  THEN None ELSE @]
  /\ LET frame == Frame(stc.seqnum, msg) IN
       \/ wire' = wire \o Sent(frame) /\ UNCHANGED noise
       \/ /\ noise < MaxNoise
          /\ noise' = noise + 1
          /\ \E tokens \in Garbled(frame) : wire' = wire \o tokens
  /\ quiet' = FALSE
  /\ UNCHANGED <<paramVars, rx, missed, port, replies, hurried, cuts>>

NextSeq == IF stc.seqnum = MaxSeq THEN 1 ELSE stc.seqnum + 1

Answered(reply) ==
  [stc EXCEPT !.pc = "idle", !.seqnum = NextSeq, !.msg = None,
              !.known = IF stc.msg.op = "CONFIG_SET" THEN stc.msg.config ELSE @,
              !.promised = IF stc.msg.op = "EPROM_STORE" /\ ~reply.error
                           THEN stc.known ELSE @]

Receive ==
  /\ replies # <<>>
  /\ replies' = Tail(replies)
  /\ stc' = IF stc.pc = "wait" /\ Head(replies).acknak = stc.seqnum
            THEN Answered(Head(replies)) ELSE stc
  /\ UNCHANGED <<paramVars, linkVars, port, noise, hurried, cuts>>

(* A request that may still be executed leaves nothing known.                *)
GiveUp ==
  /\ stc.pc = "wait"
  /\ stc' = [stc EXCEPT !.pc = "idle", !.seqnum = NextSeq, !.msg = None,
                        !.known = None]
  /\ hurried' = (hurried \/ ~quiet)
  /\ UNCHANGED <<paramVars, linkVars, port, replies, noise, cuts>>

-----------------------------------------------------------------------------
(* IPC_FrameRx, a token at a time: "hunt" for the first byte of the preamble,
   "sof" for the second, the "body", and the "rest" of a body that has lost
   bytes and takes those that follow for them.  An error starts all over.    *)
RxNext(state, kind) ==
  CASE state = "hunt" -> IF kind = "msb" THEN {"sof"} ELSE {"hunt"}
    [] state = "sof"  -> IF kind = "lsb" THEN {"body"} ELSE {"hunt"}
    [] state = "body" -> IF kind = "short" THEN {"rest"} ELSE {"hunt"}
    [] state = "rest" -> {"rest", "hunt"}

IPC_FrameRx ==
  /\ port.pc = "read"
  /\ wire # <<>>
  /\ wire' = Tail(wire)
  /\ rx' \in RxNext(rx, Head(wire).kind)
  /\ IF rx = "body" /\ Head(wire).kind = "body"
     THEN /\ port' = [port EXCEPT !.pc = "handle", !.frame = Head(wire).frame]
          /\ UNCHANGED missed
     ELSE /\ missed' = IF Head(wire).kind = "body" /\ ~hurried THEN missed + 1 ELSE missed
          /\ UNCHANGED port
  /\ UNCHANGED <<paramVars, quiet, replies, stcVars, cuts>>

(* A UART_read that times out, after two seconds, ends the frame.            *)
RxTimeout_KeepsFrame ==
  /\ port.pc = "read"
  /\ wire = <<>> /\ ~quiet
  /\ quiet' = TRUE
  /\ UNCHANGED <<paramVars, wire, rx, missed, port, replies, stcVars, cuts>>

RxTimeout ==
  /\ port.pc = "read"
  /\ wire = <<>> /\ ~quiet
  /\ rx' = "hunt" /\ quiet' = TRUE
  /\ UNCHANGED <<paramVars, wire, missed, port, replies, stcVars, cuts>>

-----------------------------------------------------------------------------
(* The handlers                                                              *)
Handles(ops) == port.pc = "handle" /\ port.frame.msg.op \in ops

Then(pc, error) == port' = [port EXCEPT !.pc = pc, !.error = error]

HandleConfigSet_Half ==
  /\ Handles({"CONFIG_SET"})
  /\ g_sys' = [g_sys EXCEPT !.head = port.frame.msg.config.head,
                            !.lo = port.frame.msg.config.lo]
  /\ Then("reply", FALSE)
  /\ UNCHANGED <<eeprom, saving, linkVars, replies, stcVars, cuts>>

HandleConfigSet ==
  /\ Handles({"CONFIG_SET"})
  /\ g_sys' = port.frame.msg.config
  /\ Then("reply", FALSE)
  /\ UNCHANGED <<eeprom, saving, linkVars, replies, stcVars, cuts>>

HandleEPROM_Load ==
  /\ Handles({"EPROM_LOAD"})
  /\ SysParamsRead
  /\ IF Readable THEN Then("reply", FALSE) ELSE Then("save", TRUE)
  /\ UNCHANGED <<linkVars, replies, stcVars, cuts>>

HandleEPROM_Store ==
  /\ Handles({"EPROM_STORE"})
  /\ SysParamsWrite(g_sys)
  /\ Then("save", FALSE)
  /\ UNCHANGED <<linkVars, replies, stcVars, cuts>>

HandleEPROM_Reset ==
  /\ Handles({"EPROM_RESET"})
  /\ g_sys' = InitSysDefaults(g_sys)
  /\ Then("reply", FALSE)
  /\ UNCHANGED <<eeprom, saving, linkVars, replies, stcVars, cuts>>

(* HandleVersion, HandleConfigGet, an operation HandleEPROM does not know,
   HandleTransportCmd and the NAK of an unknown opcode.  What a transport
   command does is in Transport.                                             *)
HandleOther ==
  /\ Handles(Plain)
  /\ Then("reply", port.frame.msg.op = "EPROM_OTHER")
  /\ UNCHANGED <<paramVars, linkVars, replies, stcVars, cuts>>

(* HandleTransportCmd returns without an answer when the servo halts.        *)
RefuseInHalt ==
  /\ Handles({"TRANSPORT_CMD"})
  /\ port' = Free
  /\ UNCHANGED <<paramVars, linkVars, replies, stcVars, cuts>>

(* EEPROMProgram at the port: a word, an error of the device, the end.       *)
PortPrograms ==
  /\ port.pc = "save"
  /\ ProgramWord
  /\ IF Len(saving) = 1 THEN Then("reply", port.error) ELSE UNCHANGED port
  /\ UNCHANGED <<linkVars, replies, stcVars, cuts>>

ProgramFails ==
  /\ port.pc = "save"
  /\ saving' = <<>>
  /\ Then("reply", TRUE)
  /\ UNCHANGED <<g_sys, eeprom, linkVars, replies, stcVars, cuts>>

ReplyType(op) ==
  CASE op \in {"CONFIG_SET", "TRANSPORT_CMD"} -> "ACK_ONLY"
    [] op = "UNKNOWN" -> "NAK_ONLY"
    [] OTHER -> "MSG_ACK"

(* IPCCMD_WriteMessageACK, IPCCMD_WriteACK, IPCCMD_WriteNAK.                 *)
IPCCMD_Write ==
  /\ port.pc = "reply"
  /\ \/ /\ replies' = Append(replies, Reply(ReplyType(port.frame.msg.op),
                                          port.frame.seqnum, port.error))
        /\ UNCHANGED noise
     \/ /\ noise < MaxNoise
        /\ noise' = noise + 1
        /\ UNCHANGED replies
  /\ port' = Free
  /\ UNCHANGED <<paramVars, linkVars, stc, hurried, cuts>>

-----------------------------------------------------------------------------
(* The power fails and comes back, for the STC too.  MainControlTask loads the
   configuration, or takes the defaults when DIP switch 4 says so.           *)
PowerCycle ==
  /\ cuts < MaxCuts
  /\ cuts' = cuts + 1
  /\ \/ /\ g_sys' = Config(FALSE, Dflt)
        /\ saving' = <<>>
        /\ port' = Free
        /\ UNCHANGED eeprom
     \/ /\ SysParamsRead
        /\ port' = IF Readable THEN Free ELSE [Free EXCEPT !.pc = "boot"]
  /\ wire' = <<>> /\ rx' = "hunt" /\ replies' = <<>>
  /\ stc' = [stc EXCEPT !.pc = "idle", !.seqnum = 1, !.msg = None,
                        !.known = None]
  /\ quiet' = FALSE
  /\ UNCHANGED <<missed, noise, hurried>>

MainPrograms ==
  /\ port.pc = "boot"
  /\ ProgramWord
  /\ port' = IF Len(saving) = 1 THEN Free ELSE port
  /\ UNCHANGED <<linkVars, replies, stcVars, cuts>>

IPCFromSTC_Task ==
  \/ IPC_FrameRx \/ RxTimeout
  \/ HandleConfigSet \/ HandleEPROM_Load \/ HandleEPROM_Store
  \/ HandleEPROM_Reset \/ HandleOther \/ RefuseInHalt
  \/ PortPrograms \/ ProgramFails \/ IPCCMD_Write

Next ==
  \/ \E msg \in Requests : Send(msg)
  \/ Receive
  \/ GiveUp
  \/ IPCFromSTC_Task
  \/ PowerCycle
  \/ MainPrograms

Spec == Init /\ [][Next]_vars

-----------------------------------------------------------------------------
(* Type invariant.                                                           *)
PortTypeOK ==
  /\ ParamsTypeOK
  /\ wire \in Seq(Tokens)
  /\ rx \in {"hunt", "sof", "body", "rest"}
  /\ port \in [pc : {"boot", "read", "handle", "save", "reply"},
                frame : Frames \cup {None}, error : BOOLEAN]
  /\ replies \in Seq([type : {"ACK_ONLY", "NAK_ONLY", "MSG_ACK"},
                       acknak : 1..MaxSeq, error : BOOLEAN])
  /\ stc \in [pc : {"idle", "wait"}, seqnum : 1..MaxSeq,
               msg : Requests \cup {None}, known : Configs \cup {None},
               promised : Configs \cup {None}]
  /\ noise \in 0..MaxNoise /\ cuts \in 0..MaxCuts
  /\ quiet \in BOOLEAN /\ hurried \in BOOLEAN
  /\ missed \in Nat

(* Noise costs one frame: after bytes of noise, a damaged frame or a frame that
   ends too early, IPC_FrameRx is back in step at the frame after the next,
   provided that the STC waits for an answer longer than a read of the port. *)
OneFramePerNoise == PortTypeOK /\ missed <= noise

(* What a CONFIG_SET put in memory, answered, is what the port runs with, until
   the STC itself changes it: no request of before, executed late, and no
   half-received one can replace it.                                         *)
KnownInForce ==
  stc.known # None =>
    [g_sys EXCEPT !.head = TRUE] = [stc.known EXCEPT !.head = TRUE]

(* A configuration the STC set and stored, both answered, is in the EEPROM
   until the STC stores another: no lost reply, late execution, power cut or
   reset to defaults can change it.                                          *)
PromiseKept ==
  stc.promised # None => eeprom = [stc.promised EXCEPT !.head = TRUE]
=============================================================================
