---------------------------- MODULE TransportMode ----------------------------
(***************************************************************************)
(* What the transport promises whoever operates it, whatever the buttons   *)
(* and messages: the tape is threaded and started only from a safe mode,   *)
(* and channels record only while the tape plays.  TransportController     *)
(* implements this module (KeepsPromise there).                            *)
(***************************************************************************)
VARIABLES
  mode,       (* the mode of the reel servos                                 *)
  recording   (* channels are held in record                                 *)

vars == <<mode, recording>>

Init == mode = "HALT" /\ recording = FALSE

(* Tape out: from any mode, and it ends a recording at once.                 *)
Halt == mode' = "HALT" /\ recording' = FALSE

(* A stop, or the stop that comes before PLAY.                               *)
Stop == mode' = "STOP" /\ recording' = FALSE

(* The reels are freed to thread a tape only when the transport is halted.   *)
Thread == mode = "HALT" /\ mode' = "THREAD" /\ UNCHANGED recording

(* A shuttle starts from any mode but HALT, never with channels in record.   *)
Shuttle(m) ==
  /\ mode # "HALT"
  /\ ~recording
  /\ mode' = m
  /\ UNCHANGED recording

(* Play starts from a stop, in record if that was asked for.                 *)
StartPlay == mode = "STOP" /\ mode' = "PLAY" /\ recording' \in BOOLEAN

PunchIn == mode = "PLAY" /\ recording' = TRUE /\ UNCHANGED mode

PunchOut == recording /\ recording' = FALSE /\ UNCHANGED mode

Next ==
  \/ Halt
  \/ Stop
  \/ Thread
  \/ \E m \in {"FWD", "REW"} : Shuttle(m)
  \/ StartPlay
  \/ PunchIn
  \/ PunchOut

Spec == Init /\ [][Next]_vars
=============================================================================
