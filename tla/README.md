# DTC-1200: models and proofs

Specifications of the firmware of the DTC-1200, the transport controller of
the Ampex MM-1200 tape machine (TI-RTOS on a TM4C123). TLC checks them on small
instances; TLAPS proves their safety for every value of their constants. `PROJECT.json` lists the
runs, the source lines behind each definition, the hazards and the theorems.

    tlc -config CtlOrderly.cfg MCTransportController
    for m in *Proofs.tla; do tlapm $m; done

## The system

| Component | State it keeps | Operations | Module |
|---|---|---|---|
| Transport controller (`TransportTask.c`) | requested, completed and pending modes, solenoids, lamps, servo mode | a command, an immediate command, a mailbox time-out, steps between sleeps | `TransportController` |
| Transport commander (`TransportTask.c`) | the switches it handles, `firststate` | turn switches into commands | `Transport` |
| Main control task (`DTC1200.c`) | debounced switches, lamp mask, end of tape state | one turn of a 5 ms loop | `MainControl` |
| IPC server (`IPCServer.c`) | two pools of buffers, semaphores, sequence number | reader, writer, worker, `IPC_Message_post`, `IPC_Notify` | `IPCServer` |
| Command port (`IPCFromSTCTask.c`, `IPCCMD.c`, `IPCFrame.c`) | place in a frame, the message | read a frame, a handler per message, answer | `CommandPort`; `Transport` for the transport commands |
| Parameters (`Utils.c`) | `g_sys`, EEPROM | read, write, defaults | `SystemParams` |
| Servo loop (`ServoTask.c`, `PID.c`, `MotorDAC.c`) | mode, braking state, PID states, DAC words | 500 Hz service of the mode | `ServoLoop`; `TransportController` for the mode |
| Tachometer (`TapeTachWide.c`), reel encoders | last edge, period | interrupts, time-out | `ServoLoop` |
| I/O expander driver (`IOExpander.c`) | masks of solenoids and lamps, the SPI semaphore | set and clear outputs, read masks and switches | `IOExpander`, `OutputRegister` |
| Diagnostics (`Diag.c`) | the torque of HALT, a saved lamp mask | tests of coils, brakes, DACs and lamps | `Diagnostics` |
| Terminal (`TerminalTask.c`, `TerminalTaskHandlers.c`, the menu tables) | menu, edit state, key buffer, item, flags being edited | a key, an entry, save, recall, reset | `Terminal` |
| Serial flash, CRC, board | | | not modelled |

The tasks and their priorities: the servo loop 15; main control and the command
port 13; transport controller and IPC worker 10; commander 9; IPC reader and
writer 6; terminal 1. They are joined as follows.

* Main control, and button datagrams of the STC, post switches to
  `g_mailboxCommander`. The commander reads the servo mode, decides, and posts a
  command to `g_mailboxController`. Both mailboxes have 8 slots; a post that
  times out is dropped and nobody looks.
* The IPC worker and the command port test the servo mode and post commands too.
* The controller writes solenoids and lamps, sets the servo mode, and notifies
  the STC through `IPC_Notify`, which drops the message if no buffer is free.
* Main control copies the lamp mask to the lamps and to the STC.
* All of them reach the outputs through the I/O expander driver and its semaphore.
* The terminal edits, saves and recalls `g_sys`, which the command port changes too
  and everybody reads, and runs the diagnostics, which write outputs and the lamp
  mask beside the controller.

What is hard here is that every decision is taken on a servo mode that a
command still in a mailbox is about to change; that the controller sleeps in the
middle of mode changes; that STOP and PLAY are only *pending* until the reels
are still, while other commands arrive; that the record relays have four ways in
and six ways out; and that buffers and masks are shared across blocking calls.
What makes each component correct:

* controller: no brake drags on moving tape, the tape is lifted in a shuttle, HALT
  is safe and is left only for a stopped mode, record only in PLAY, lamps and
  the STC agree with the mode, pending modes get resolved;
* commander: tape-out halts, a closed arm leaves HALT, buttons mean what the
  mode says;
* main control: the flags rest where the switches rest, the lamps show and the
  STC knows what the controller lit;
* IPC server: a buffer has one user, nothing is lost or reordered, requests are
  answered;
* command port and parameters: noise costs a frame and no more, and a
  configuration the STC was told is set, or stored, is;
* servo loop: torques stay on the scale of the DAC, brakes brake and let go, a
  shuttle turns the tape around, a play boost ends;
* I/O expander: a call changes its outputs at once and no others, and what is read
  of them is what they are;
* diagnostics: HALT is left as it was found, lamps included, and a test runs in HALT;
* terminal: an entry goes to the item it was prompted for and changes no other, the
  operator always gets home, a save saves what was there at one moment.

## Modules

**`TransportController`** is `TransportControllerTask` with everything it calls.
`pc` says where the task is blocked: `"pend"` in its mailbox, at a `Task_sleep`, or
at the SPI bus, whose semaphore and transfer every change of a solenoid waits for. One
action covers the code from one such point to the next: every `SetTransportMask` is an
action of its own (`Coils`), and no action changes the solenoids together with the mode
or the lamps. A command begins as `Halt`, `Thread`, `Stop`, `Play` or
`Shuttle` and goes on from point to point; the mailbox time-out is `Timeout`. The
half-done states between a transfer and the assignment next to it are therefore states
of the model, and other tasks run in them. Four of them are visible, each from the
end of one transfer to the line after it, or from the line before to the end of the
transfer: a HALT has set the brakes and dropped the lifters and the reels
still have the torque of the mode before (`TransportTask.c:465`, 468); a THREAD has
freed the reels and not yet the brakes (479, 483); the capstan turns and the reels
are still in STOP (924, 927); the hold line is down and the record lamp still lit
(229, 232). `BrakesOffInMotion`, `LiftersInShuttle`, `RecordOnlyInPlay` and
`RecordLampTrue` name these windows by their `pc` and allow nothing else. A window
lasts as long as its transfer, the wait for the bus included. `s_ucTransportMask` is the set `solenoid` (`"BRAKE"` in it means the
brakes are set), `Note` is a notification and `stc` the last one the STC was sent. The environment may
`Send` any command of the constant `Commands` whenever the mailbox has a slot.
Two specifications share these actions: `ControllerSpec` lets anything be sent
at any time; `OrderlySpec` assumes that THREAD is only sent to a halted
controller that waits for it.

**`TransportMode`** is the abstract specification: two variables, the mode and
whether channels record, and the seven steps a user may rely on. THREAD only
from HALT, a shuttle never in record, PLAY only from a stop, record only in
PLAY. `KeepsPromise` says that `OrderlySpec` implements it.

**`Transport`** composes the controller with the commander, the debounced
switches and the two paths of IPC commands. A decision (`CommanderDecide`) and
the post of its command (`CommanderPost`) are separate steps. A task of lower
priority runs only when the controller is blocked (`CommanderRuns`), unless
`SpiPreempts` lets it run inside the controller's SPI transfers.

**`MainControl`** is the polling loop that feeds `Transport`: `Top` up to the
blocking `SetLamp`, `LampsSet` when it returns, `Poll` for the rest of the turn.
The controller's writes to the lamp mask fall where the loop is blocked.

**`IPCServer`** has each queue as a sequence of buffer numbers, each semaphore as
a number, the buffers' contents in `txBuf` and `rxBuf`, and a place in the code
for each task. Every queue or semaphore operation is a step of its own.
**`IPCChannel`** is what one direction promises, a queue of messages with one in
hand; `TxInOrder` and `RxInOrder` map the pool's buffers to it, so that a buffer
overwritten too early shows as a changed message.

**`SystemParams`** is `g_sys` and its copy in the EEPROM. A configuration is a
header and two halves, the parts that a copy cut short tells apart; `ProgramWord`
is one word of `EEPROMProgram`, which copies from `g_sys` itself. **`CommandPort`**
adds the second serial link. A frame is three tokens on a `wire`, its preamble and
its body; `IPC_FrameRx` takes one at a time, and `rx` is its place in the frame.
A handler of `IPCFromSTC_Task` is an action, and `port` says whether the task
reads, handles, programs the EEPROM or answers. External are the STC (`Send`,
`Receive`, `GiveUp`: one request at a time, an answer is taken by its number), the
noise (`Garbled`) and the power (`PowerCycle`, which also starts the firmware
again). Added to the code's state are what the STC knows (`stc.known`,
`stc.promised`), counts of noisy frames and of frames missed, and whether the STC
has stopped waiting before the port's read timed out.

**`ServoLoop`** is a tick of `ServoLoopTask`: it reads speed and direction
(`Reads`), then serves the mode (`Service_StopMode`, ...) with the PIDs of `PID.c`,
and writes the DAC words. Torques are exact: integers with a fixed denominator. The
controller appears only as it touches the servos: it prepares a PID
(`ResetShuttlePID`, `ResetPlayPID`), may be preempted, and sets the mode
(`SetsComing`). The tachometer's interrupts come at any moment. The tape is
external (`Moved`): its speed changes by at most one unit a tick in the direction
of the net torque, friction stops it, and the capstan takes it to play speed.

**`IOExpander`** is the driver of the two port expanders. Any task may be between the
lines of any function (`pc`), so the read, change and write of the mask are steps of
their own (`ClearBits`, `SetBits`, `Write`). `Pend` takes the semaphore of the bus,
`PendTimeout` gives up as the code does: with success, and nothing done.
**`OutputRegister`** is what the callers rely on, outputs that change at once or not
at all; `AtomicOutputs` says that the driver implements it.

**`Diagnostics`** extends `TransportController` with the tests of `Diag.c`. A test is
where its code waits for a key (`place`); `check_halt` and the request for HALT come
first and last, and the solenoids are written in between through the controller's
`SetTransportMask`. The terminal has the lowest priority, so that its steps fall
where the controller is blocked (`TerminalRuns`). `diag_lamp` has the lamp mask read
and stored in two steps, since the controller can run between them; the history
variable `recording` says that record began or ended beside it.

**`Terminal`** is `TerminalTask` key by key. `menu`, `edit`, `keybuf`, `menuitem` and
`bitbool` are the static variables of the task; `place` is where it waits or what it
executes. A key goes to the end of the monitor, the monitor or `do_menu_keystate`, in
this order, and there to one action per edit state. Save, recall and reset move
`g_sys` word by word (`SystemParams`), and the commands of the STC on the
configuration, each of them one step, fall between any two words. The history
variable `disturbed` says that the configuration was changed from elsewhere since the
prompt of a flag or the beginning of a save; `leaving` is the decision of the operator to press nothing but ESC from now on.

**`MCTransportController`**, **`MCTransport`**, **`MCMainControl`**,
**`MCIPCServer`**, **`MCCommandPort`**, **`MCServoLoop`**, **`MCIOExpander`**,
**`MCDiagnostics`** and **`MCTerminal`** hold the small sets and numbers the runs use.
The theorems are in **`TransportControllerProofs`**, **`TransportProofs`** (of
`Transport` and of `Diagnostics`, the tasks beside the controller), **`MainControlProofs`**,
**`IPCServerProofs`**, **`CommandPortProofs`**, **`ServoLoopProofs`**,
**`IOExpanderProofs`** and **`TerminalProofs`**.

In the modules, an operator named `Definition_Variation` next to `Definition` is
a plausible mistake in it; no specification uses it, and each property was seen
to fail with one of them in place.

## Runs

| Run | Question | Bounds |
|---|---|---|
| `CtlOrderly` | Is the machine safe with all commands queued at any moment, THREAD in order: types, completed modes, brakes, lifters (up to the windows above), HALT, dynamic brake? Do record, capstan, lamps and STC follow the mode? Is `TransportMode` implemented? | 1 slot, all commands, default flags, blinking stop lamp, automatic slow-down |
| `TransLive` | After power-up the arm decides, and a posted tape-out halts (`ArmIsObeyed`); pending modes resolve; HALT is obeyed from any sleep | 3 and 2 slots, STOP button |
| `TransOrderly` | Do the commander and the STC send THREAD only in order, with types and mailbox limits kept (`SendsAreOrderly`)? | 1 slot each, STOP and PLAY+REC buttons, one STC command, brakes and lifters engaged at stop |
| `TransTapeIn` (violation) | Does a closed arm always take the transport out of HALT? | 3 slots each, no buttons |
| `MainLoop` | What do the lamps show, what does the STC know, what is posted once switches rest? | debounce 2, blink every second turn, 2 lamp settings |
| `IpcBuffers` | Is a buffer ever shared, a queue read empty, a message changed, lost or overtaken? | 2 buffers each way, 1 notifier, an urgent datagram and a request |
| `IpcReplies` | Is every request answered, with a number of its own? | the same, no priorities, fair tasks |
| `PortLink` | What does noise cost, what may the STC rely on in memory and in the EEPROM? | 1 request or answer under way, 4 numbers, 2 noisy frames, 1 power cut, 2 configurations |
| `ServoTorque` | Do the torques stay on the scale, the brakes brake, the shuttles brake and turn a tape that runs the other way, holdbacks included, the boost end? | DAC of 4, speeds to 3, PID from -1 to 3, either reel ahead, holdback 0 or 1 at any tick |
| `IoOutputs` | Are the copies what the registers drive, are calls atomic, does the bus come back? | 2 tasks, 2 bits, 5 requests |
| `DiagHalt` | What does a test leave behind in HALT and on the lamps, whatever is commanded while it runs? | all tests, 1 slot, 5 commands, 3 levels, 2 lamps |
| `TermMenus` | Does an entry go to its item, does ESC lead home, do a flag and a save that the STC leaves alone do what they say? | 2 menus, 10 items, 7 keys, 2 configurations of the STC |

Seven more configurations stand beside these and ask one question each. `CtlAnyOrder`
passes: the safety properties of the controller with THREAD sent at any moment as well,
2 slots, and brakes and lifters engaged at stop; what it checks is proved for
`ControllerSpec`. The others end in a violation, discussed below: `ServoHoldback` and
`ServoBoost` (`MCServoLoop`), `DiagModes` and `DiagLamp` (`MCDiagnostics`), `TermFlags` and
`TermSave` (`MCTerminal`).

*Bounds.* `MailboxSize` and `CommanderSize` stand for 8. With one slot every
race between a test and a post happens, since a full mailbox blocks the poster;
two or three slots let a command wait behind another, which is what the
divergences need. More slots add longer queues of the same commands.
`StopTimeout` stands for 2400 time-outs, `BlinkPeriod` for 12, `Heartbeat` for
125, `EotSamples` for 25 and `Debounce` for 6; each counter reaches its limit
in the runs. `Window` stands for 8 and `MaxSeq` for 24: two buffers are full and
empty in turn, and the numbers wrap while replies are queued.
`StopTimeout` 3 lets the end of the motion come before, at and after the limit.

In `PortLink`, two noisy events allow damage that hides a frame followed by
damage that hides its repetition or its answer, and one power cut falls between any
two steps, so that it separates every word of the EEPROM from the next. Four
sequence numbers stand for the STC's 24: with fewer, an answer that is late by a whole turn
of the numbers would be taken for another. Two configurations, one of them the
defaults, and a header that is valid or not, are all that the properties tell
apart. In the servo runs the numbers keep the order of the code's: the CV can
exceed the scale and the brake torque runs out within the speeds of the tape. The
gains are 3 and 1/2 where the code has 3 and 0.3. Speeds from -3 to 3 with a
threshold of 0, a target of 2 and reels that may disagree at 1 have a rest and,
each way, speeds under, at and over the target; the target is above the speeds at which
the reels disagree, as the velocities of the default configuration are. The code multiplies the offset, the
velocity of the reel and a gain (0.010 and 0.015 by default) to the holdback: in the run it
is nothing or one step of the DAC, in any tick in which the reel to be unwound is ahead and
the tape moves, so that it can outweigh the PID, be outweighed by it, and change at any
moment. The two configurations beside the run keep speeds to 4 and a threshold of 1. `BoostTicks`, 2
or 3, stands for 1000.

In `IoOutputs` two tasks are a holder and one that waits or gives up; two bits
are one that a call names and one that it does not, and the requests overlap on both
registers. `DiagHalt` has commands for threading, stopping, and playing in record, levels
below, at and between the ends of the scale, and the record lamp with one other; the
shuttles and the lifter toggle, which multiply the states, are left to `CtlOrderly`. `MCTerminal` replaces the seven menus
by two which between them have every kind of item the menus have, with options of one
and of two digits that begin alike, and a hot key; the option numbers are not those of the
firmware. `KEYBUF_SIZE` 4 stands for 8: it fills with three characters, one more than
an option has. The limits of the number, 2 and 11, lie between what one digit and two can
enter. `X`, which ESC stands for, is left to ESC.

*Fairness.* `TransLive` assumes that the controller, the commander and the IPC
tasks run when they can: each task of higher priority blocks for events or for
ticks of time. Nothing is assumed of the switches, of the STC or of the reels,
which may turn for ever: a pending stop is then resolved by the stop timer.
The second part of `ArmIsObeyed`, `TapeOutHalts`, has the premise that no mailbox ever fills, because a full one
drops the message. `MainLoop` assumes that the loop runs. `IpcReplies` assumes
it of all the server's tasks, and strong fairness for the reply's wait for a
buffer: `Semaphore_post` hands the count to the task that waits, and
notifications do not wait. Replies that give up (`ReplyTimesOut`) are possible in
`IpcBuffers` only: the writer empties a buffer in about a millisecond and the
wait is two thousand ticks. With them, numbers of replies never sent are used up
and two replies might share one. `ServoTorque` assumes that the servo
loop ticks, as the task of the highest priority that sleeps two milliseconds.
`IoOutputs` assumes that a task inside a call runs again: a holder of the bus never
blocks on anything else. `TermMenus` assumes that the terminal is not starved while it
works, as all the others spend their time blocked, and that the operator who leaves
presses ESC again and again; nothing else makes a key arrive, and the STC and the
power are left alone meanwhile, since each of them can switch the monitor on again.

## What is proved

`TransportControllerProofs` proves, for every set of commands, every mailbox
size, stop time-out, blink period and set of flags that `ControllerAssumption`
allows (naturals, positive where the code needs it):

* of `ControllerSpec`: `TypeOK`, `CompletedIsServoMode`,
  `BrakesOffInMotion`, `LiftersInShuttle`, `HaltIsSafe`, and the action
  properties `BrakeArmedAfterMotion` and `HaltHoldsTape`; `StcTracksMode`, if no
  notification is dropped (`~NotifyLossy`; a dropped one is not sent again);
* of `OrderlySpec`: `RecordOnlyInPlay`, `RecordLampTrue` and
  `KeepsPromise`, the implementation of `TransportMode`.

Brakes, lifters, capstan, record and lamp are proved up to the four windows named under
`TransportController`, and no wider ones: each window is one value of `pc`, left with the
next step of the task.

The argument is two inductive invariants. `ControllerInv` has two halves, what the
controller knows of its modes (`ModeInv`) and the state of the coils (`CoilInv`).
In `ModeInv`, `PendingMeansStop` keeps the reels in STOP while a stop or a play is
pending. `PointInv` says what holds at each place where the task sleeps or waits for the bus: a
brake or lifter half-way there, a shuttle about to start. Without it even the
types are not inductive, since the velocity of a shuttle is read after a sleep.
`CompletedInv` ties the completed mode to the servo mode when nothing is
pending; it is what makes skipping a repeated command harmless. `PreviousInv`
restricts the two modes before the present one, on which both the arming of the
dynamic brake and the end of a pending stop depend. `OrderlyInv` adds `ThreadInv`:
THREAD in the mailbox stands first, with the controller halted and waiting. From
it, THREAD never interrupts PLAY, and record and capstan follow (`RecordInv`,
`CapstanInv`). `StcInv`, for `StcTracksMode`, says of a pending PLAY that it is also the mode
last requested, unless a shuttle has superseded it: the note that ends the PLAY
names the requested mode and not the completed one.

`TransportProofs` is about the tasks beside the controller. Whatever their priorities,
`Transport` refines `ControllerSpec` (`TransportControls`), so that the safety properties
hold of the composed system (`TransportIsSafe`, `TransportIsShown`). When tasks run by
strict priority (`~SpiPreempts`) it also discharges the assumption on THREAD: the tasks
together refine `OrderlySpec` (`TasksSendOrderly`, the property `SendsAreOrderly`), and
`KeepsPromise`, `RecordOnlyInPlay` and `RecordLampTrue` hold of them too
(`TransportKeepsPromise`). The windows of these properties are the same whatever tasks run
in them: of these tasks none but the controller writes the solenoids or the mode. The invariant is `ThreadIsAwaited`: from the commander's
reading of HALT to its post of THREAD the controller waits with an empty mailbox and no
IPC task is about to post, and in HALT, without a command, nothing moves it
(`WaitingStays`). With `SpiPreempts` the commander can read HALT and post THREAD after
another command has left HALT, and the assumption no longer holds.

It proves `TestsAreUndone` of `Diagnostics` for every set of commands, table of levels
and lamps. A test breaks what the controller guarantees of the coils: the brakes may
be set in motion, the capstan started in HALT. What survives any writes of coils and
lamps is `ModeInv` and `RecordInv`, and the lemmas about the controller's steps assume
no more than these. On them rest `CoilsInv`, that a completed HALT leaves only the coils
of the test under way, and `RecordLampInv`, that the mask which the lamp test saved
tells of record until record changes.

`MainControlProofs` proves `StcIsCurrent` for every debounce, blink and sensor limit,
none at all included. The loop spoils its copy of the lamp mask with all ones to force
a notification; that this works needs that the controller never lights all
five lamps (`NeverAllLamps`, from `MainAssumption`: the settings the controller writes),
else the spoiled copy would agree with the mask and the speed would never be told.

`IPCServerProofs` proves of `IPCServer`, for any window, notifying tasks and frames,
`CopyIsPrivate`, `TxInOrder`, `RxInOrder`, and `SeqnumsDistinct` when no reply gives
up (`~ReplyTimesOut`; with it, a number may come round while a reply still carries it).
Two facts carry the invariant. Each semaphore counts its queue up to the tasks between
the one and the other (`TxCounts`, `RxCounts`), with a cardinality for the tasks in
each place. Every buffer is in one place (`TxOwners`, `RxOwners`), with one exception
in the code: the worker puts a buffer back among the free ones before it copies the
message. It is then the *last* of them, and its count is not posted, so that the reader,
which takes the first, always has another. Both refinements map the queue of
buffer numbers to the messages in them (`Contents`): a write to a buffer outside the
queue changes no message. `RepliesInTurn` orders the replies by age: each was given its
number later than the one before it, and no longer ago than the messages behind it
account for, which are fewer than the numbers.

`CommandPortProofs` proves `KnownInForce`, `PromiseKept` and `OneFramePerNoise` of
`CommandPort`, for any configurations, words of the EEPROM, power cuts and noise. What
they rest on is that the STC does not use a number again while a request or answer
under way still carries it (`NumbersAreFresh`). The three theorems assume it, since the
firmware takes any number; `EmptyLineMakesFresh` shows it for an STC that waits
for an empty line and has more numbers than there are noisy frames plus one, as the STC
of `PortLink`: only a noisy frame can leave a request to be carried out late, so
`AgeInv` bounds the age of a number by the noise so far. `OrderInv` says that the
request the STC waits for is the last one on its way, and that with its answer on
its way nothing else is and what it asked is done. `KnownInv` and `PromiseInv` add that
no other change is still to come; `HandlerInv` has the words that a save under way has
written, which are always a beginning of the list. For
`OneFramePerNoise`, `NoiseInv` bounds the frames missed by a potential: what the bytes
before a frame and the place of the reader in it (`Debt`) can still cost is paid
by the noise that put them there.

`ServoLoopProofs` proves of `ServoLoop`, for every DAC, gain, tension, velocity,
threshold and limit that `ServoAssumption` allows: `ServoTypeOK`, which is inductive
as it stands; `OnScale`, from it, since HALT and THREAD write a torque of the
configuration and every other mode a clamped one, and the division of `MotorDAC_write`
stays between zero and full scale (`Quotient`); and `ReversalBrakes`, for any holdbacks:
against the motion the tape gains speed only in a tick whose holdback is more than the
torque the PID asked for. Its argument is monotony (`PushForward`,
`PushBack`): a push against the motion cannot pull with it, whatever the clamps
cut off, and such a drive, or none, does not speed the tape up (`Slowed`). That a tape
never gains speed then is not true: `ServoHoldback.cfg` has the counterexample. That
`BoostEnd` is not above `MaxSpeed` is assumed of the tape, not of the code.

`IOExpanderProofs` proves of `IOExpander`, for any tasks, bits and requests that
`ExpanderAssumption` allows, `CopyIsRegister` and `AtomicOutputs`. `CopyIsRegister` is
inductive as it is stated: that the semaphore has one holder (`OneHolder`), that a
request stands exactly while it is asked (`RequestStands`), and that the copy differs
from the register by what the holder has done so far (`CopyFollows`). The refinement
follows: only `Write` changes a register, and `CopyFollows` says that what it writes is
the old register with the request applied; a call that times out maps to `GiveUp`.

`TerminalProofs` proves `EditsItsItem` and `UndisturbedWork` of `Terminal` for any menus,
hot keys, limits and configurations that `TerminalAssumption` and `EntriesAssumption`
allow: items lead to menus there are, and what is entered, set or cleared is a
configuration again. Menu, item and state of the entry change together (`EntryInv`), and no
hot key of a menu gets into its buffer (`NoHotKeys`), where its option would be prompted for
as a number. `FlagInv` and `SaveInv` say that, undisturbed, the word read at the
prompt and the words saved so far are those of `g_sys`.

Only model-checked:

* All liveness: `ArmIsObeyed`, `PendingResolves`, `HaltObeyed`, `RequestAnswered`,
  `LampsShown`, `SwitchesFollowed`, `EotReported`, `StopStops`, `ShuttleTurns`, `BoostEnds`,
  `SemaphoreComesBack`, `EscapeGoesHome`. Fairness and ENABLED are outside the prover's
  reach.
* What an entry of several digits is worth (`atol`, a fold): the proofs only need that a
  number is stored within its limits.

Not claimed: `RequestAnswered` and `SeqnumsDistinct` of a server whose replies give up,
`StcTracksMode` with notifications that are dropped.

## Where code and comments part

`TransTapeIn`, of which `PROJECT.json` quotes the lines, and six of the further
configurations end in a violation:

* `TransTapeIn`: the commander takes a closed arm for news only in HALT. If the
  HALT of its opening is still queued, the closing is dropped and the transport
  stays halted with the tape in.
* `ServoHoldback`: "don't allow CV to be negative as this would cause speed to
  \*increase\*" (`ServoTask.c:661`) takes care of the CV only. A shuttle commanded
  against the motion at about the target velocity has next to no CV to brake with, and
  the holdback, added to the reel that then takes the tape up (`ServoTask.c:694`), drives
  the tape on (`ReversalNeverSpeedsUp`). The default gains are not zero. `ReversalBrakes`
  bounds it: the holdback must exceed the CV. A shuttle may even stay at such a speed,
  where CV and holdback are in balance, for as long as the holdback lasts: `ShuttleTurns`
  therefore speaks of a shuttle on which no holdback acts any more, and in
  `ServoTorque` it fails without that premise. How far the
  tape is driven depends on inertia and friction: the tape of the model has the least.
* `ServoBoost`: the tachometer's first reading after its time-out is arbitrary and
  can end the play boost at once. The timer runs down from 2^32 at 80 MHz and is as
  likely to stand anywhere: one or two starts in a thousand are affected.
* `DiagModes`: "Transport MUST be in halt mode" (`Diag.c:218`) is looked at once. A
  PLAY or a shuttle that is queued or comes later is obeyed while the test holds the
  brakes open or the torque of HALT up, and nothing ends the test.
* `DiagLamp`: the lamp test stores back the mask it saved when it began (`Diag.c:509`).
  A record that ended meanwhile leaves its lamp lit, one that began leaves it dark.
  With neither the lamp is right (`TestsAreUndone`).
* `TermFlags`: the entry of a flag puts back the whole word of the prompt
  (`TerminalTask.c:849`), with the flags that the STC has cleared since. Left
  alone by the STC it changes its flag only (`UndisturbedWork`).
* `TermSave`: a save programs `g_sys` word by word at the lowest priority; a
  configuration that the STC sets meanwhile is saved half. Undisturbed, it saves all.

Others were reproduced with TLC while modelling and have no configuration:

* `TransportTask.c:587` says "Allow change in velocity if same command received".
  Line 427 skips the command before it gets there.
* `TransportTask.c:211` says "IPC notify STC record bit set". The notification at
  the end of PLAY, sent after it, has the opcode of the last message (line 937):
  a lift command taken while PLAY is pending hides the record bit.
* `TransportTask.c:304` says "Ignore transport control buttons in halt mode". The
  mode is read when the button is taken: a STOP queued behind the HALT of a
  tape-out takes the transport from HALT to STOP with the tape out.
* `DTC1200.c:377` counts readings that differ from the last state, and a reading
  that agrees does not reset the count: glitches far apart add up to a tape-out.

Seen in the code, and not run:

* `ServoTask.c:128` says the dynamic brake state is cleared unless the previous
  mode was PLAY, FWD or REW. The code compares the mode before that one, and
  STOP after HALT may set it. This is harmless: it brakes reels at rest.
* `DTC1200.h:220` says `SF_BRAKES_STOP_PLAY` brakes the end of PLAY. A second
  STOP while the first is pending hides the PLAY (`TransportTask.c:793`).
* A stop that times out (`TransportTask.c:724`) sends no notification.
* `DTC1200.c:483` ignores the end of tape sensor while the arm is open. An event
  taken just before is kept, and stops and notifies when the next tape is
  threaded, however long the sensor has been at rest.
* `DTC1200.c:364` takes lamps lit during `SetLamp` for shown; they are shown at
  the next blink, up to 625 ms later (`LampsShown` rests on the blink).
* STC commands are refused in HALT but not in THREAD, where buttons only halt.

## What the models leave out

* Time: sleeps and time-outs are nondeterministic; ticks are not counted but for
  the counters named above. Sleeps the code skips by a flag stay as points.
* In `TransportController` motion and automatic slow-down are nondeterministic, and
  the PIDs are absent. Diagnostic LEDs are absent but for the blink.
* In `ServoLoop` the averages behind reel offset and radius, temperature and the D
  term, which acts in one tick after a new set point; the tension arm and the
  offset are constants that any tick may find. Torques of HALT and THREAD, which
  the code does not clamp, are in range: nothing in the firmware checks a
  configuration, and `OnScale` would fail for one that is not.
* In `CommandPort` the saves of the terminal, which are in `Terminal`, the second area of the EEPROM for the
  other tape width, the limit on the debounce parameter and frames with an
  acknowledgement only. A byte of noise inside a body is a body damaged.
* The controller's local `mode` is `last_mode_requested`, which is equal wherever
  it is read. `default:` cases no caller reaches are absent.
* SPI transfers succeed. A semaphore time-out of 500 ticks loses a write of the outputs and
  leaves a reading of switches as it was; `GetTransportMask` and `GetLampMask` then return
  0, as if every output were off. `IOExpander` has all three; `TransportController` has
  none of them: every holder gives the bus back (`SemaphoreComesBack`).
* IPC frames are records: framing, CRC and resynchronisation are one step that
  delivers a frame or damages a buffer. The STC sends whole messages.
  `IPC_Transaction` has no caller here and is absent. In `Transport` a test and
  a post by an IPC task are atomic unless the mailbox is full: those tasks run at
  or above the controller's priority.
* `MainControl` drops a blink's interleaving with the controller's read and write
  of the lamp mask, which costs one blink, and the `S_STOP`, buttons and arm
  messages are named, not queued: the queue is in `Transport`. `Transport` has
  the debounced switches of `MainControl`, and its buttons include the stop of
  the end of tape.
* In `Diagnostics` that the reels stand still is left to chance, as in the controller;
  the keys of a test are its effects, and `SetLamp` from the test is the stored mask.
* In `Terminal` the layout of the screen and the monitor's display; numbers with a
  point; the items of kinds no menu has (`MI_BITLIST`, `MI_VALLIST`, `MI_STRING`), of
  which the code is dead; what a hot key posts, which is what a button posts
  (`Transport`). The EEPROM driver keeps its address in the device, and a transfer of
  the STC in the middle of one of the terminal would use the terminal's address: such
  pairs are left out (`TransferFree`), and a whole transfer of the STC is one step.
  The prompts of the Diag menu's headings have no option text; that
  `search_menu_item` measures it with `strlen` is not modelled.
* That `g_sys` is zero for a moment while the terminal resets it
  (`TerminalTaskHandlers.c:179`), or half new while `HandleConfigSet` copies, with the
  servo and the controller reading it: their models take its fields as constants.

## Not modelled

* Serial flash and CRC (`AT45DB.c`, `CRC16.c`): nothing calls the driver, and a checksum
  by table has no state.
* Board files: pin tables, linker and kernel configuration, initialisation.
* `IPC_Transaction`, `IPCCMD_Transaction` and `IPCCMD_Notify`: no caller in the firmware.
* The set-up and the error counters of the reel encoders, and the start-up of the
  peripherals: straight-line code before the tasks run, and counts nobody acts on.

## Plan

1. Proofs: what the composed system says to the STC when notifications are dropped
   (the mode of an earlier one, never one that was not), and the frames of the command port
   with more than one request on the wire.
2. The configuration as a variable of the servo loop and the controller, with a
   reset or a new configuration in the middle of a command.
3. `ServoLoop` with the end of the play boost and the reels' averages, and
   composed with the controller, so that "the reels are still" is no longer
   nondeterministic in `Transport`.
4. Two transfers of the EEPROM at a time, with the address in the device.
