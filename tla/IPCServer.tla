----------------------------- MODULE IPCServer -----------------------------
(***************************************************************************)
(* The message server of the serial link to the STC (src/IPCServer.c): two *)
(* pools of buffers, each with a queue of free and a queue of full buffers *)
(* and a semaphore that counts each queue.                                 *)
(*   - The reader task fills receive buffers; the worker task copies a     *)
(*     message out, handles it and answers a request.                      *)
(*   - The worker and the tasks that notify the STC fill transmit buffers; *)
(*     the writer task sends them.                                         *)
(*                                                                         *)
(* Queue operations are atomic (Queue_get and Queue_put, and enqueue and   *)
(* dequeue with interrupts disabled); the tasks interleave between them in *)
(* any way, which covers every assignment of priorities.  What handling a  *)
(* message does to the transport is modelled in Transport.                 *)
(***************************************************************************)
EXTENDS Naturals, Sequences, FiniteSets

CONSTANTS
  Window,         (* buffers of a pool, IPC_MAX_WINDOW (8 in the code)       *)
  MaxSeq,         (* IPC_MAX_SEQ (3 * IPC_MAX_WINDOW in the code)            *)
  Notifiers,      (* the tasks that call IPC_Notify                          *)
  PeerFrames,     (* the frames the STC may send                             *)
  Msgs,           (* what a message may carry                                *)
  ReplyTimesOut,  (* the wait of a reply for a buffer may time out           *)
  None

VARIABLES
  txFreeQue, txDataQue, txFreeSem, txDataSem,
  txBuf,          (* the message in each transmit buffer                     *)
  txNextSeq,
  post,           (* the call of IPC_Message_post each task is in            *)
  writer,         (* where IPCWriterTaskFxn is, and its buffer               *)
  rxFreeQue, rxDataQue, rxFreeSem, rxDataSem,
  rxBuf,          (* the message in each receive buffer                      *)
  reader,         (* where IPCReaderTaskFxn is, and its buffer               *)
  worker,         (* where IPCWorkerTaskFxn is, and its buffer               *)
  received        (* the worker's copy of the message it handles             *)

poolVars == <<txFreeQue, txDataQue, txFreeSem, txDataSem, txBuf>>
txVars == <<poolVars, txNextSeq, post, writer>>
rxVars == <<rxFreeQue, rxDataQue, rxFreeSem, rxDataSem, rxBuf, reader, worker,
            received>>
vars == <<txVars, rxVars>>

-----------------------------------------------------------------------------
Buffers == 1..Window
Worker == "worker"
Posters == Notifiers \cup {Worker}

AckOnly == {"ACK_ONLY", "NAK_ONLY"}
FrameTypes == AckOnly \cup {"MSG_ONLY", "MSG_ACK", "MSG_NAK", "MSG_USER"}
Flags == {"ACKNAK", "PRIORITY", "DATAGRAM", "ERROR"}

(* The FCB and the message of a buffer; a buffer that was never filled, or by
   a frame with an error, holds what nobody should read.                     *)
Frame(type, flags, seqnum, acknak, msg) ==
  [type |-> type, flags |-> flags, seqnum |-> seqnum, acknak |-> acknak,
   msg |-> msg]
Damaged == Frame("MSG_USER", {"ERROR"}, 0, 0, None)

SeqNums == 0..MaxSeq
Frames == [type : FrameTypes, flags : SUBSET Flags, seqnum : SeqNums,
           acknak : SeqNums, msg : Msgs \cup {None}]

ASSUME IPCAssumption ==
  /\ Window \in Nat \ {0}
  /\ MaxSeq \in Nat /\ MaxSeq > Window
  /\ Worker \notin Notifiers
  /\ IsFiniteSet(Notifiers)
  /\ Notifiers \subseteq Msgs
  /\ PeerFrames \subseteq Frames
  /\ None \notin Msgs
  /\ None \notin Frames
  /\ ReplyTimesOut \in BOOLEAN

IsRequest(f) == f.type = "MSG_ONLY" /\ "DATAGRAM" \notin f.flags

IPC_INC_SEQ_Same(n) == n
IPC_INC_SEQ(n) == IF n >= MaxSeq THEN 1 ELSE n + 1

(* A place in a task's code and the buffer it holds there, 0 for none.       *)
At(pc, elem) == [pc |-> pc, elem |-> elem]

(* A task in no call of IPC_Message_post.                                    *)
Idle == [pc |-> "idle", elem |-> 0, frame |-> None]

(* Queue_put and Queue_putHead.                                              *)
PutQue_TailOnly(que, elem, fcb) == Append(que, elem)
PutQue(que, elem, fcb) ==
  IF "PRIORITY" \in fcb.flags THEN <<elem>> \o que ELSE Append(que, elem)

(* IPC_Server_init                                                           *)
InOrder == [i \in Buffers |-> i]

Init ==
  /\ txFreeQue = InOrder /\ txDataQue = <<>>
  /\ txFreeSem = Window /\ txDataSem = 0
  /\ txBuf = [b \in Buffers |-> Damaged]
  /\ txNextSeq = 1
  /\ post = [p \in Posters |-> Idle]
  /\ writer = At("pend", 0)
  /\ rxFreeQue = InOrder /\ rxDataQue = <<>>
  /\ rxFreeSem = Window /\ rxDataSem = 0
  /\ rxBuf = [b \in Buffers |-> Damaged]
  /\ reader = At("pend", 0)
  /\ worker = At("pend", 0)
  /\ received = None

-----------------------------------------------------------------------------
(* IPC_Message_post, called by task p                                        *)

(* IPC_Notify: a datagram, with no wait for a buffer.  A call that finds no
   buffer changes nothing.                                                   *)
Notification(p) == Frame("MSG_ONLY", {"DATAGRAM"}, 0, 0, p)

IPC_Notify(p) ==
  /\ post[p].pc = "idle"
  /\ txFreeSem > 0
  /\ txFreeSem' = txFreeSem - 1
  /\ post' = [post EXCEPT ![p] =
                [pc |-> "dequeue", elem |-> 0, frame |-> Notification(p)]]
  /\ UNCHANGED <<txFreeQue, txDataQue, txDataSem, txBuf, txNextSeq, writer,
                 rxVars>>

(* The reply of the worker waits for a buffer, and gives up after a while.   *)
PostPend ==
  /\ post[Worker].pc = "pend"
  /\ txFreeSem > 0
  /\ txFreeSem' = txFreeSem - 1
  /\ post' = [post EXCEPT ![Worker].pc = "dequeue"]
  /\ UNCHANGED <<txFreeQue, txDataQue, txDataSem, txBuf, txNextSeq, writer,
                 rxVars>>

PostTimeout ==
  /\ ReplyTimesOut
  /\ post[Worker].pc = "pend"
  /\ txFreeSem = 0
  /\ post' = [post EXCEPT ![Worker] = Idle]
  /\ UNCHANGED <<poolVars, txNextSeq, writer, rxVars>>

PostDequeue(p) ==
  /\ post[p].pc = "dequeue"
  /\ IF txFreeQue = <<>>
     THEN /\ post' = [post EXCEPT ![p] = Idle]
          /\ UNCHANGED txFreeQue
     ELSE /\ post' = [post EXCEPT ![p].pc = "copy",
                                  ![p].elem = Head(txFreeQue)]
          /\ txFreeQue' = Tail(txFreeQue)
  /\ UNCHANGED <<txDataQue, txFreeSem, txDataSem, txBuf, txNextSeq, writer,
                 rxVars>>

PostCopy_MessageOnly(p) ==
  /\ post[p].pc = "copy"
  /\ txBuf' = [txBuf EXCEPT ![post[p].elem].msg = post[p].frame.msg]
  /\ post' = [post EXCEPT ![p].pc = "put"]
  /\ UNCHANGED <<txFreeQue, txDataQue, txFreeSem, txDataSem, txNextSeq, writer,
                 rxVars>>

PostCopy(p) ==
  /\ post[p].pc = "copy"
  /\ txBuf' = [txBuf EXCEPT ![post[p].elem] = post[p].frame]
  /\ post' = [post EXCEPT ![p].pc = "put"]
  /\ UNCHANGED <<txFreeQue, txDataQue, txFreeSem, txDataSem, txNextSeq, writer,
                 rxVars>>

PostPut(p) ==
  /\ post[p].pc = "put"
  /\ txDataQue' = PutQue(txDataQue, post[p].elem, post[p].frame)
  /\ post' = [post EXCEPT ![p] = [pc |-> "signal", elem |-> 0, frame |-> None]]
  /\ UNCHANGED <<txFreeQue, txFreeSem, txDataSem, txBuf, txNextSeq, writer,
                 rxVars>>

PostSignal(p) ==
  /\ post[p].pc = "signal"
  /\ txDataSem' = txDataSem + 1
  /\ post' = [post EXCEPT ![p] = Idle]
  /\ UNCHANGED <<txFreeQue, txDataQue, txFreeSem, txBuf, txNextSeq, writer,
                 rxVars>>

IPC_Message_post(p) ==
  PostDequeue(p) \/ PostCopy(p) \/ PostPut(p) \/ PostSignal(p)

-----------------------------------------------------------------------------
(* IPCWriterTaskFxn                                                          *)

WriterPend ==
  /\ writer.pc = "pend"
  /\ txDataSem > 0
  /\ txDataSem' = txDataSem - 1
  /\ writer' = At("get", 0)
  /\ UNCHANGED <<txFreeQue, txDataQue, txFreeSem, txBuf, txNextSeq, post, rxVars>>

(* A full queue is guaranteed by the semaphore only (NoEmptyQueue).          *)
WriterGet ==
  /\ writer.pc = "get"
  /\ txDataQue # <<>>
  /\ writer' = At("send", Head(txDataQue))
  /\ txDataQue' = Tail(txDataQue)
  /\ UNCHANGED <<txFreeQue, txFreeSem, txDataSem, txBuf, txNextSeq, post, rxVars>>

IPC_TxFrame ==
  /\ writer.pc = "send"
  /\ writer' = At("free", writer.elem)
  /\ UNCHANGED <<poolVars, txNextSeq, post, rxVars>>

WriterFree ==
  /\ writer.pc = "free"
  /\ txFreeQue' = Append(txFreeQue, writer.elem)
  /\ writer' = At("signal", 0)
  /\ UNCHANGED <<txDataQue, txFreeSem, txDataSem, txBuf, txNextSeq, post, rxVars>>

WriterSignal ==
  /\ writer.pc = "signal"
  /\ txFreeSem' = txFreeSem + 1
  /\ writer' = At("pend", 0)
  /\ UNCHANGED <<txFreeQue, txDataQue, txDataSem, txBuf, txNextSeq, post, rxVars>>

IPCWriterTaskFxn ==
  WriterPend \/ WriterGet \/ IPC_TxFrame \/ WriterFree \/ WriterSignal

-----------------------------------------------------------------------------
(* IPCReaderTaskFxn.  A time-out of its wait only starts the wait again.     *)

ReaderPend ==
  /\ reader.pc = "pend"
  /\ rxFreeSem > 0
  /\ rxFreeSem' = rxFreeSem - 1
  /\ reader' = At("dequeue", 0)
  /\ UNCHANGED <<rxFreeQue, rxDataQue, rxDataSem, rxBuf, worker, received,
                 txVars>>

ReaderDequeue ==
  /\ reader.pc = "dequeue"
  /\ IF rxFreeQue = <<>>
     THEN reader' = At("pend", 0) /\ UNCHANGED rxFreeQue
     ELSE reader' = At("read", Head(rxFreeQue)) /\ rxFreeQue' = Tail(rxFreeQue)
  /\ UNCHANGED <<rxDataQue, rxFreeSem, rxDataSem, rxBuf, worker, received,
                 txVars>>

(* IPC_RxFrame writes to the buffer as bytes arrive: a frame with an error
   leaves a part of it there.  An ACK or NAK frame has no sequence number and
   no message, and leaves those of the buffer as they were.                  *)
Stored(old, frame) ==
  IF frame.type \in AckOnly
  THEN [frame EXCEPT !.seqnum = old.seqnum, !.msg = old.msg]
  ELSE frame

ReadError ==
  /\ reader.pc = "read"
  /\ rxBuf' = [rxBuf EXCEPT ![reader.elem] = Damaged]
  /\ UNCHANGED <<rxFreeQue, rxDataQue, rxFreeSem, rxDataSem, reader, worker,
                 received, txVars>>

IPC_RxFrame(frame) ==
  /\ reader.pc = "read"
  /\ rxBuf' = [rxBuf EXCEPT ![reader.elem] = Stored(@, frame)]
  /\ reader' = At("put", reader.elem)
  /\ UNCHANGED <<rxFreeQue, rxDataQue, rxFreeSem, rxDataSem, worker, received,
                 txVars>>

ReaderPut ==
  /\ reader.pc = "put"
  /\ rxDataQue' = PutQue(rxDataQue, reader.elem, rxBuf[reader.elem])
  /\ reader' = At("signal", 0)
  /\ UNCHANGED <<rxFreeQue, rxFreeSem, rxDataSem, rxBuf, worker, received,
                 txVars>>

ReaderSignal ==
  /\ reader.pc = "signal"
  /\ rxDataSem' = rxDataSem + 1
  /\ reader' = At("pend", 0)
  /\ UNCHANGED <<rxFreeQue, rxDataQue, rxFreeSem, rxBuf, worker, received,
                 txVars>>

IPCReaderTaskFxn == ReaderPend \/ ReaderDequeue \/ ReaderPut \/ ReaderSignal

-----------------------------------------------------------------------------
(* IPCWorkerTaskFxn.  A time-out of IPC_Message_pend only calls it again.    *)

WorkerPend ==
  /\ worker.pc = "pend"
  /\ rxDataSem > 0
  /\ rxDataSem' = rxDataSem - 1
  /\ worker' = At("get", 0)
  /\ UNCHANGED <<rxFreeQue, rxDataQue, rxFreeSem, rxBuf, reader, received,
                 txVars>>

WorkerGet ==
  /\ worker.pc = "get"
  /\ rxDataQue # <<>>
  /\ worker' = At("free", Head(rxDataQue))
  /\ rxDataQue' = Tail(rxDataQue)
  /\ UNCHANGED <<rxFreeQue, rxFreeSem, rxDataSem, rxBuf, reader, received,
                 txVars>>

(* The buffer goes to the free queue before its message is copied; the
   semaphore that lets the reader have it is posted after.                   *)
WorkerFree_AtHead ==
  /\ worker.pc = "free"
  /\ rxFreeQue' = <<worker.elem>> \o rxFreeQue
  /\ worker' = At("copy", worker.elem)
  /\ UNCHANGED <<rxDataQue, rxFreeSem, rxDataSem, rxBuf, reader, received,
                 txVars>>

WorkerFree ==
  /\ worker.pc = "free"
  /\ rxFreeQue' = Append(rxFreeQue, worker.elem)
  /\ worker' = At("copy", worker.elem)
  /\ UNCHANGED <<rxDataQue, rxFreeSem, rxDataSem, rxBuf, reader, received,
                 txVars>>

WorkerCopy ==
  /\ worker.pc = "copy"
  /\ received' = rxBuf[worker.elem]
  /\ worker' = At("signal", 0)
  /\ UNCHANGED <<rxFreeQue, rxDataQue, rxFreeSem, rxDataSem, rxBuf, reader,
                 txVars>>

WorkerSignal ==
  /\ worker.pc = "signal"
  /\ rxFreeSem' = rxFreeSem + 1
  /\ worker' = At("handle", 0)
  /\ UNCHANGED <<rxFreeQue, rxDataQue, rxDataSem, rxBuf, reader, received,
                 txVars>>

IPC_Message_pend ==
  WorkerPend \/ WorkerGet \/ WorkerFree \/ WorkerCopy \/ WorkerSignal

(* IPC_Handle_datagram, a reply of the STC (nobody waits for one) and frames
   of other types leave the server as it is.                                 *)
HandleOther ==
  /\ worker.pc = "handle"
  /\ ~IsRequest(received)
  /\ worker' = At("pend", 0)
  /\ received' = None
  /\ UNCHANGED <<rxFreeQue, rxDataQue, rxFreeSem, rxDataSem, rxBuf, reader,
                 txVars>>

Reply_NoAck(request, seqnum) ==
  Frame("MSG_ACK", {"ACKNAK"}, seqnum, 0, request.msg)
Reply(request, seqnum) ==
  Frame("MSG_ACK", {"ACKNAK"}, seqnum, request.seqnum, request.msg)

IPC_Handle_transaction ==
  /\ worker.pc = "handle"
  /\ IsRequest(received)
  /\ post' = [post EXCEPT ![Worker] =
                [pc |-> "pend", elem |-> 0,
                 frame |-> Reply(received, txNextSeq)]]
  /\ txNextSeq' = IPC_INC_SEQ(txNextSeq)
  /\ worker' = At("reply", 0)
  /\ received' = None
  /\ UNCHANGED <<poolVars, writer, rxFreeQue, rxDataQue, rxFreeSem, rxDataSem,
                 rxBuf, reader>>

WorkerReplied ==
  /\ worker.pc = "reply"
  /\ post[Worker].pc = "idle"
  /\ worker' = At("pend", 0)
  /\ UNCHANGED <<rxFreeQue, rxDataQue, rxFreeSem, rxDataSem, rxBuf, reader,
                 received, txVars>>

IPCWorkerTaskFxn ==
  IPC_Message_pend \/ HandleOther \/ IPC_Handle_transaction \/ WorkerReplied

-----------------------------------------------------------------------------
Next ==
  \/ \E p \in Notifiers : IPC_Notify(p)
  \/ \E p \in Posters : IPC_Message_post(p)
  \/ PostPend
  \/ PostTimeout
  \/ IPCWriterTaskFxn
  \/ IPCReaderTaskFxn
  \/ ReadError
  \/ \E f \in PeerFrames : IPC_RxFrame(f)
  \/ IPCWorkerTaskFxn

Spec == Init /\ [][Next]_vars

(* Every task that is ready runs in the end: the tasks of higher priority all
   block for events.  Semaphore_post hands the count to the task that waits, so
   that a reply does not lose it for ever to notifications, which do not wait.
   The STC need not send, nor the notifiers call.                            *)
FairSpec ==
  /\ Spec
  /\ \A p \in Posters : WF_vars(IPC_Message_post(p))
  /\ SF_vars(PostPend)
  /\ WF_vars(IPCWriterTaskFxn)
  /\ WF_vars(IPCReaderTaskFxn)
  /\ WF_vars(IPCWorkerTaskFxn)

-----------------------------------------------------------------------------
(* A semaphore never lets a task at an empty queue, which would take the queue
   header for a buffer (only two of the four places in the code look).       *)
NoEmptyQueue ==
  /\ writer.pc = "get" => txDataQue # <<>>
  /\ worker.pc = "get" => rxDataQue # <<>>
  /\ reader.pc = "dequeue" => rxFreeQue # <<>>
  /\ Cardinality({p \in Posters : post[p].pc = "dequeue"}) <= Len(txFreeQue)

Elems == 0..Window

(* Types; the semaphores never exceed the window, nor promise more than their
   queues hold.                                                              *)
IPCTypeOK ==
  /\ NoEmptyQueue
  /\ {txFreeQue, txDataQue, rxFreeQue, rxDataQue} \subseteq Seq(Buffers)
  /\ {txFreeSem, txDataSem, rxFreeSem, rxDataSem} \subseteq 0..Window
  /\ txBuf \in [Buffers -> Frames] /\ rxBuf \in [Buffers -> Frames]
  /\ txNextSeq \in 1..MaxSeq
  /\ post \in [Posters ->
                 [pc : {"idle", "pend", "dequeue", "copy", "put", "signal"},
                  elem : Elems, frame : Frames \cup {None}]]
  /\ writer \in [pc : {"pend", "get", "send", "free", "signal"}, elem : Elems]
  /\ reader \in [pc : {"pend", "dequeue", "read", "put", "signal"}, elem : Elems]
  /\ worker \in [pc : {"pend", "get", "free", "copy", "signal", "handle",
                       "reply"}, elem : Elems]
  /\ received \in Frames \cup {None}

(* The reader never fills a buffer whose message the worker has not copied
   yet, although the worker has put it on the free queue already
   (IPC_Message_pend frees before it copies), and no queue is read empty.    *)
CopyIsPrivate ==
  /\ IPCTypeOK
  /\ worker.pc \in {"free", "copy"} /\ reader.pc \in {"read", "put"}
       => worker.elem # reader.elem

(* The replies on their way have sequence numbers of their own: the window is
   small enough for the range of numbers.                                    *)
OutFrames ==
  {[at |-> txDataQue[i], frame |-> txBuf[txDataQue[i]]] :
     i \in 1..Len(txDataQue)}
    \cup (IF writer.pc = "send"
          THEN {[at |-> writer.elem, frame |-> txBuf[writer.elem]]} ELSE {})
SeqnumsDistinct ==
  \A x, y \in OutFrames :
    /\ x # y
    /\ x.frame.type = "MSG_ACK" /\ y.frame.type = "MSG_ACK"
    => x.frame.seqnum # y.frame.seqnum

(* Every message posted is sent once, whole and in order: a buffer that waits
   or is being sent is written by nobody.                                    *)
Outgoing ==
  {Notification(p) : p \in Notifiers}
    \cup {Reply(f, s) : f \in PeerFrames, s \in 1..MaxSeq}
Incoming == {Stored(old, f) : old \in PeerFrames \cup {Damaged}, f \in PeerFrames}

UrgentOf(frames) == {f \in frames : "PRIORITY" \in f.flags}

Contents(que, buf) == [i \in 1..Len(que) |-> buf[que[i]]]

Tx == INSTANCE IPCChannel WITH
        Capacity <- Window, Messages <- Outgoing, Urgent <- UrgentOf(Outgoing),
        waiting <- Contents(txDataQue, txBuf),
        taken <- IF writer.pc = "send" THEN txBuf[writer.elem] ELSE None
TxInOrder == Tx!Spec

(* Every frame received without error is handled once, whole and in order.   *)
Rx == INSTANCE IPCChannel WITH
        Capacity <- Window, Messages <- Incoming, Urgent <- UrgentOf(Incoming),
        waiting <- Contents(rxDataQue, rxBuf),
        taken <- IF worker.pc \in {"free", "copy"}
                 THEN rxBuf[worker.elem] ELSE None
RxInOrder == Rx!Spec

(* Every request is answered: a reply with its sequence number is sent, however
   notifications compete for the buffers.  IPC_Handle_transaction drops a reply
   whose wait for a buffer times out: the run assumes that this wait is fair.  *)
Accepted(s) ==
  \E i \in 1..Len(rxDataQue) :
    IsRequest(rxBuf[rxDataQue[i]]) /\ rxBuf[rxDataQue[i]].seqnum = s
Answered(s) ==
  /\ writer.pc = "send"
  /\ txBuf[writer.elem].type = "MSG_ACK" /\ txBuf[writer.elem].acknak = s
RequestAnswered == \A s \in 1..MaxSeq : Accepted(s) ~> Answered(s)
=============================================================================
