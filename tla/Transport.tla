----------------------------- MODULE Transport -----------------------------
(***************************************************************************)
(* The transport controller with the tasks that command it:                *)
(*   - MainControlTask (src/DTC1200.c) posts debounced buttons and changes *)
(*     of the tape out arm to the commander's mailbox; IPC button          *)
(*     datagrams join them;                                                *)
(*   - TransportCommandTask (src/TransportTask.c) turns them into commands *)
(*     by what it reads of the servo mode, and queues the commands;        *)
(*   - the IPC tasks (src/IPCHandlers.c, src/IPCFromSTCTask.c) queue mode  *)
(*     commands of the STC after a test of the servo mode.                 *)
(*                                                                         *)
(* A test of the mode and the post that follows are separate steps.  A     *)
(* task of lower priority than the controller runs only when the           *)
(* controller is blocked, unless SpiPreempts.                              *)
(***************************************************************************)
EXTENDS TransportController

CONSTANTS
  Buttons,        (* the button sets MainControlTask or the STC may post     *)
  IpcCommands,    (* the mode commands the STC may send                      *)
  CommanderSize,  (* slots of g_mailboxCommander (8 in the code)             *)
  ArmCloses,      (* the tape out arm, once open, may close again            *)
  SpiPreempts     (* low-priority tasks run in the controller's SPI transfers *)

VARIABLES
  g_tape_out_flag, (* the debounced tape out arm                             *)
  tout_prev,       (* the switches the next reading of the arm is compared to *)
  mbCommander,     (* g_mailboxCommander                                     *)
  commander,       (* where TransportCommandTask is                          *)
  mbutton,         (* the switches TransportCommandTask is handling          *)
  queued,          (* the command it is about to queue                       *)
  firststate,
  ipcBlocked       (* the command an IPC task is blocked in queueing         *)

commanderVars == <<mbCommander, commander, mbutton, queued, firststate>>
armVars == <<g_tape_out_flag, tout_prev>>
vars == <<controllerVars, commanderVars, armVars, ipcBlocked>>

-----------------------------------------------------------------------------
Switches == {"STOP", "PLAY", "REC", "REW", "FWD", "LDEF", "TAPEOUT", "TAPEIN"}

(* What TransportCommandTask may queue.                                      *)
ButtonCommands ==
  {ModeCommand(m, {}, 0) : m \in Modes}
    \cup {ModeCommand(m, {"LIBWIND"}, 0) : m \in ShuttleModes}
    \cup {ModeCommand("PLAY", {"RECORD"}, 0),
          StrobeRecord("out"), StrobeRecord("in"), ToggleLifter}

ASSUME TransportAssumption ==
  /\ Buttons \subseteq SUBSET (Switches \ {"TAPEOUT", "TAPEIN"})
  /\ {} \notin Buttons
  /\ Commands = ButtonCommands \cup IpcCommands
  /\ \A c \in IpcCommands : c.command = "MODE" /\ c.op \notin {"HALT", "THREAD"}
  /\ CommanderSize \in Nat \ {0}
  /\ {ArmCloses, SpiPreempts} \subseteq BOOLEAN

ArmSwitch(out) == IF out THEN {"TAPEOUT"} ELSE {"TAPEIN"}
ArmBits(out) == IF out THEN {"TAPEOUT"} ELSE {}

(* MainControlTask has posted the initial state of the arm.  It compares the
   arm with all the switches it first read, so that a button held at power-up
   makes it report the arm once more.                                        *)
Init ==
  /\ ControllerInit
  /\ g_tape_out_flag \in BOOLEAN
  /\ \E held \in {{}, UNION Buttons} :
       tout_prev = ArmBits(g_tape_out_flag) \cup held
  /\ mbCommander = <<ArmSwitch(g_tape_out_flag)>>
  /\ commander = "pend"
  /\ mbutton = {}
  /\ queued = NoCommand
  /\ firststate = TRUE
  /\ ipcBlocked = NoCommand

(* A post to the commander's mailbox whose result nobody looks at: when the
   mailbox stays full past the time-out the switches are lost.               *)
PostSwitches(bits) ==
  mbCommander' = IF Len(mbCommander) < CommanderSize
                 THEN Append(mbCommander, bits) ELSE mbCommander

(* The arm switch has changed and is debounced; the message holds the buttons
   then pressed as well.                                                     *)
TapeArm(out, held) ==
  /\ ArmBits(out) # tout_prev
  /\ g_tape_out_flag /\ ~out => ArmCloses
  /\ g_tape_out_flag' = out
  /\ tout_prev' = ArmBits(out)
  /\ PostSwitches(ArmSwitch(out) \cup held)
  /\ UNCHANGED <<controllerVars, commander, mbutton, queued, firststate,
                 ipcBlocked>>

PressButtons(bits) ==
  /\ PostSwitches(bits)
  /\ UNCHANGED <<controllerVars, commander, mbutton, queued, firststate,
                 armVars, ipcBlocked>>

-----------------------------------------------------------------------------
(* TransportCommandTask                                                      *)

ControllerReady == pc \in BusPoints \/ (pc = "pend" /\ mbController # <<>>)
IpcReady == ipcBlocked # NoCommand /\ Len(mbController) < MailboxSize
CommanderRuns == SpiPreempts \/ (~ControllerReady /\ ~IpcReady)

Stopped_OrStop == mode \in {"HALT", "THREAD", "STOP"}
Stopped == mode \in {"HALT", "THREAD"}

(* What is decided from one reading of the servo mode and the record line.   *)
TapeOutCommand_OnlyFirst == "TAPEOUT" \in mbutton /\ firststate
TapeOutCommand == "TAPEOUT" \in mbutton /\ (mode # "HALT" \/ firststate)
TapeInCommand ==
  /\ "TAPEOUT" \notin mbutton /\ "TAPEIN" \in mbutton
  /\ Stopped \/ firststate

StoppedCommand ==
  IF mode = "THREAD" THEN ModeCommand("HALT", {}, 0)
  ELSE IF mbutton \cap {"STOP", "PLAY", "REC"} = {"STOP"}
       THEN ModeCommand("THREAD", {}, 0)
       ELSE NoCommand

ButtonCommand ==
  LET bits == mbutton \ {"TAPEOUT", "TAPEIN"} IN
  CASE bits = {"STOP"} -> ModeCommand("STOP", {}, 0)
    [] bits \in {{"FWD"}, {"REW"}} ->
         ModeCommand(CHOOSE b \in bits : TRUE, {}, 0)
    [] bits \in {{"FWD", "REC"}, {"REW", "REC"}} ->
         ModeCommand(CHOOSE b \in bits \ {"REC"} : TRUE, {"LIBWIND"}, 0)
    [] bits = {"PLAY"} -> ModeCommand("PLAY", {}, 0)
    [] bits = {"STOP", "REC"} /\ mode = "PLAY" -> StrobeRecord("out")
    [] {"PLAY", "REC"} \subseteq bits /\ mode = "PLAY" ->
         StrobeRecord(IF RecordOn THEN "out" ELSE "in")
    [] {"PLAY", "REC"} \subseteq bits /\ mode = "STOP" ->
         ModeCommand("PLAY", {"RECORD"}, 0)
    [] OTHER -> NoCommand

(* The command for the switches in mbutton, or none.                         *)
Decision ==
  IF TapeOutCommand THEN ModeCommand("HALT", {}, 0)
  ELSE IF TapeInCommand THEN ModeCommand("STOP", {}, 0)
  ELSE IF mbutton = {"LDEF"} THEN ToggleLifter
  ELSE IF Stopped THEN StoppedCommand
  ELSE ButtonCommand

CommanderPend ==
  /\ CommanderRuns
  /\ commander = "pend"
  /\ mbCommander # <<>>
  /\ mbutton' = Head(mbCommander)
  /\ mbCommander' = Tail(mbCommander)
  /\ commander' = "decide"
  /\ UNCHANGED <<controllerVars, queued, firststate, armVars,
                 ipcBlocked>>

CommanderDecide ==
  /\ CommanderRuns
  /\ commander = "decide"
  /\ queued' = Decision
  /\ commander' = IF Decision = NoCommand THEN "pend" ELSE "post"
  /\ firststate' = (firststate /\ ~TapeOutCommand /\ ~TapeInCommand)
  /\ mbutton' = {}
  /\ UNCHANGED <<controllerVars, mbCommander, armVars, ipcBlocked>>

CommanderIdle ==
  /\ commander = "post"
  /\ commander' = "pend"
  /\ queued' = NoCommand
  /\ UNCHANGED <<mbCommander, mbutton, firststate, armVars, ipcBlocked>>

CommanderPost ==
  /\ CommanderRuns
  /\ Send(queued)
  /\ CommanderIdle

(* Ten ticks have passed with the mailbox full: the command is dropped.       *)
CommanderPostTimeout ==
  /\ CommanderRuns
  /\ Len(mbController) = MailboxSize
  /\ CommanderIdle
  /\ UNCHANGED controllerVars

TransportCommandTask ==
  CommanderPend \/ CommanderDecide \/ CommanderPost \/ CommanderPostTimeout

-----------------------------------------------------------------------------
(* DispatchTransportMode and HandleTransportCmd: dropped in HALT.  The tasks
   run at the controller's priority or above, so that only a full mailbox
   separates the test from the post.                                         *)
IpcCommand(c) ==
  /\ ipcBlocked = NoCommand
  /\ mode # "HALT"
  /\ \/ Send(c) /\ UNCHANGED ipcBlocked
     \/ /\ Len(mbController) = MailboxSize
        /\ ipcBlocked' = c
        /\ UNCHANGED controllerVars
  /\ UNCHANGED <<commanderVars, armVars>>

IpcPost ==
  /\ ipcBlocked # NoCommand
  /\ Send(ipcBlocked)
  /\ ipcBlocked' = NoCommand
  /\ UNCHANGED <<commanderVars, armVars>>

IpcPostTimeout ==
  /\ ipcBlocked # NoCommand
  /\ Len(mbController) = MailboxSize
  /\ ipcBlocked' = NoCommand
  /\ UNCHANGED <<controllerVars, commanderVars, armVars>>

-----------------------------------------------------------------------------
Controller ==
  TransportControllerTask /\ UNCHANGED <<commanderVars, armVars, ipcBlocked>>
Servo == ServoBrakeDone /\ UNCHANGED <<commanderVars, armVars, ipcBlocked>>

Next ==
  \/ \E out \in BOOLEAN, held \in Buttons \cup {{}} : TapeArm(out, held)
  \/ \E bits \in Buttons : PressButtons(bits)
  \/ TransportCommandTask
  \/ \E c \in IpcCommands : IpcCommand(c)
  \/ IpcPost
  \/ IpcPostTimeout
  \/ Controller
  \/ Servo

Spec == Init /\ [][Next]_vars

(* The tasks run when nothing above them does; the switches and the STC do
   as they please.                                                           *)
FairSpec ==
  /\ Spec
  /\ WF_vars(Controller)
  /\ WF_vars(TransportCommandTask)
  /\ WF_vars(IpcPost \/ IpcPostTimeout)

-----------------------------------------------------------------------------
(* Type invariant of the commanding tasks: mailbox within its capacity, and
   the commander holds a command only while it is about to queue one.        *)
TransportTypeOK ==
  /\ TypeOK
  /\ g_tape_out_flag \in BOOLEAN
  /\ tout_prev \in SUBSET Switches
  /\ mbCommander \in Seq(SUBSET Switches)
  /\ Len(mbCommander) <= CommanderSize
  /\ commander \in {"pend", "decide", "post"}
  /\ mbutton \in SUBSET Switches
  /\ queued \in Commands \cup {NoCommand}
  /\ commander = "post" <=> queued # NoCommand
  /\ firststate \in BOOLEAN
  /\ ipcBlocked \in IpcCommands \cup {NoCommand}

(* By their priorities alone the commanding tasks send THREAD only to a
   halted controller that is waiting for it, although the test of the mode
   and the post are separate: they satisfy what OrderlySpec assumes.  Neither
   mailbox is ever posted to beyond its slots.                               *)
SendsAreOrderly == OrderlySpec /\ []TransportTypeOK

(* After power-up the controller gets its first command from the state of the
   arm, so that HALT sets the brakes or STOP takes the tape up.               *)
BootSettles == <>(last_mode_requested # "NONE")

NeverFull ==
  /\ Len(mbController) < MailboxSize
  /\ Len(mbCommander) < CommanderSize

TapeOutPosted == \E i \in DOMAIN mbCommander : "TAPEOUT" \in mbCommander[i]

(* A posted tape-out halts the transport, unless it is threading or the arm
   closes again, whatever is asleep or pending then; provided no mailbox ever
   fills, since a full one loses the message.                                *)
TapeOutHalts ==
  []NeverFull => (TapeOutPosted ~> (Stopped \/ ~g_tape_out_flag))

(* The transport follows the arm from power-up on.                           *)
ArmIsObeyed == BootSettles /\ TapeOutHalts

-----------------------------------------------------------------------------
(* What a comment of the code says and the code does not do.                  *)

(* TransportTask.c:289: "If transport was in HALT mode (out of tape), set STOP
   mode": a closed arm takes the transport out of HALT, even when no mailbox
   ever fills.                                                               *)
TapeInStops ==
  []NeverFull => (~g_tape_out_flag ~> (mode # "HALT" \/ g_tape_out_flag))
=============================================================================
