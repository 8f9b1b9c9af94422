----------------------------- MODULE IPCChannel -----------------------------
(***************************************************************************)
(* What one direction of the IPC server (IPCServer.tla) promises: messages *)
(* put in are handed over one at a time, each as it was put, none lost and *)
(* none twice, in the order they were put but for the urgent ones.         *)
(***************************************************************************)
EXTENDS Naturals, Sequences

CONSTANTS
  Capacity,  (* messages the direction can hold                              *)
  Messages,
  Urgent,    (* the messages that overtake the others                         *)
  None

VARIABLES
  waiting,   (* messages not yet taken                                       *)
  taken      (* the message being handed over, or None                       *)

vars == <<waiting, taken>>

InHand == IF taken = None THEN 0 ELSE 1

Init == waiting = <<>> /\ taken = None

Put(m) ==
  /\ Len(waiting) + InHand < Capacity
  /\ waiting' = IF m \in Urgent THEN <<m>> \o waiting ELSE Append(waiting, m)
  /\ UNCHANGED taken

Take ==
  /\ taken = None /\ waiting # <<>>
  /\ taken' = Head(waiting)
  /\ waiting' = Tail(waiting)

Deliver ==
  /\ taken # None
  /\ taken' = None
  /\ UNCHANGED waiting

Next == (\E m \in Messages : Put(m)) \/ Take \/ Deliver

Spec == Init /\ [][Next]_vars
=============================================================================
