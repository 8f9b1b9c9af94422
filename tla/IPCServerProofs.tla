--------------------------- MODULE IPCServerProofs ---------------------------
(***************************************************************************)
(* IPCServer for any number of buffers, notifying tasks and frames: no     *)
(* buffer has two users, no queue is read empty, replies on their way have *)
(* numbers of their own, and each direction implements IPCChannel.         *)
(*                                                                         *)
(* Two facts carry the proof.  Each semaphore counts its queue, up to the  *)
(* tasks that are between the one and the other (TxCounts, RxCounts); and  *)
(* every buffer is in one place, a queue or a task's hands (TxOwners,      *)
(* RxOwners).                                                              *)
(***************************************************************************)
EXTENDS IPCServer, SequenceTheorems, FiniteSetTheorems, TLAPS

Distinct(que) == \A i, j \in 1..Len(que) : que[i] = que[j] => i = j
InQue(b, que) == \E i \in 1..Len(que) : que[i] = b
One(holds) == IF holds THEN 1 ELSE 0
Count(places) == Cardinality({p \in Posters : post[p].pc \in places})

Filling(p) == post[p].pc \in {"copy", "put"}
WriterHolds == writer.pc \in {"send", "free"}
ReaderHolds == reader.pc \in {"read", "put"}

Calls == [pc : {"idle", "pend", "dequeue", "copy", "put", "signal"},
          elem : Elems, frame : Frames \cup {None}]

TypeInv ==
  /\ txFreeQue \in Seq(Buffers) /\ txDataQue \in Seq(Buffers)
  /\ rxFreeQue \in Seq(Buffers) /\ rxDataQue \in Seq(Buffers)
  /\ txFreeSem \in Nat /\ txDataSem \in Nat
  /\ rxFreeSem \in Nat /\ rxDataSem \in Nat
  /\ txBuf \in [Buffers -> Frames] /\ rxBuf \in [Buffers -> Incoming \cup {Damaged}]
  /\ txNextSeq \in 1..MaxSeq
  /\ post \in [Posters -> Calls]
  /\ writer \in [pc : {"pend", "get", "send", "free", "signal"}, elem : Elems]
  /\ reader \in [pc : {"pend", "dequeue", "read", "put", "signal"}, elem : Elems]
  /\ worker \in [pc : {"pend", "get", "free", "copy", "signal", "handle",
                       "reply"}, elem : Elems]
  /\ received \in Incoming \cup {Damaged, None}

(* The semaphores count their queues, and the queues with the tasks hold all
   buffers of the pool.                                                      *)
TxCounts ==
  /\ Len(txFreeQue) = txFreeSem + Count({"dequeue"}) + One(writer.pc = "signal")
  /\ Len(txDataQue) = txDataSem + Count({"signal"}) + One(writer.pc = "get")
  /\ Len(txFreeQue) + Len(txDataQue) + Count({"copy", "put"}) + One(WriterHolds)
       = Window

RxCounts ==
  /\ Len(rxFreeQue) = rxFreeSem + One(reader.pc = "dequeue")
                        + One(worker.pc \in {"copy", "signal"})
  /\ Len(rxDataQue) = rxDataSem + One(reader.pc = "signal") + One(worker.pc = "get")
  /\ Len(rxFreeQue) + Len(rxDataQue) + One(ReaderHolds) + One(worker.pc = "free")
       = Window

(* A buffer is in one place.                                                 *)
TxOwners ==
  /\ Distinct(txFreeQue) /\ Distinct(txDataQue)
  /\ \A b \in Buffers : ~(InQue(b, txFreeQue) /\ InQue(b, txDataQue))
  /\ \A p \in Posters : Filling(p) =>
       /\ post[p].elem \in Buffers
       /\ ~InQue(post[p].elem, txFreeQue) /\ ~InQue(post[p].elem, txDataQue)
       /\ WriterHolds => writer.elem # post[p].elem
  /\ \A p, q \in Posters : Filling(p) /\ Filling(q) /\ p # q
       => post[p].elem # post[q].elem
  /\ WriterHolds =>
       /\ writer.elem \in Buffers
       /\ ~InQue(writer.elem, txFreeQue) /\ ~InQue(writer.elem, txDataQue)

(* The buffer that the worker has freed but not yet copied is the last of the
   free ones, and the reader, which takes the first, is not let at it.       *)
RxOwners ==
  /\ Distinct(rxFreeQue) /\ Distinct(rxDataQue)
  /\ \A b \in Buffers : ~(InQue(b, rxFreeQue) /\ InQue(b, rxDataQue))
  /\ ReaderHolds =>
       /\ reader.elem \in Buffers
       /\ ~InQue(reader.elem, rxFreeQue) /\ ~InQue(reader.elem, rxDataQue)
  /\ worker.pc = "free" =>
       /\ worker.elem \in Buffers
       /\ ~InQue(worker.elem, rxFreeQue) /\ ~InQue(worker.elem, rxDataQue)
       /\ ReaderHolds => reader.elem # worker.elem
  /\ worker.pc = "copy" =>
       /\ rxFreeQue # <<>>
       /\ rxFreeQue[Len(rxFreeQue)] = worker.elem

(* What a call of IPC_Message_post carries, and when the worker is in one.   *)
PostStages ==
  /\ \A p \in Posters :
       /\ post[p].pc = "pend" => p = Worker
       /\ post[p].pc \in {"pend", "dequeue", "copy", "put"}
            => post[p].frame \in Outgoing
       /\ post[p].pc = "put" => txBuf[post[p].elem] = post[p].frame
  /\ worker.pc # "reply" => post[Worker].pc = "idle"

(* What the reader has filled is a frame of the STC; what the worker handles
   was one, or was never filled.                                             *)
ReadStages ==
  /\ reader.pc = "put" => rxBuf[reader.elem] \in Incoming
  /\ worker.pc \in {"signal", "handle"} => received \in Incoming \cup {Damaged}

ServerInv ==
  TypeInv /\ TxCounts /\ RxCounts /\ TxOwners /\ RxOwners /\ PostStages /\ ReadStages

-----------------------------------------------------------------------------
(* Queues                                                                    *)

(* An element put at the tail is one more, the last, and repeats none.       *)
LEMMA TailPut ==
  ASSUME NEW S, NEW que \in Seq(S), NEW e \in S
  PROVE  /\ Append(que, e) \in Seq(S)
         /\ Len(Append(que, e)) = Len(que) + 1
         /\ Append(que, e)[Len(que) + 1] = e
         /\ \A i \in 1..Len(que) : Append(que, e)[i] = que[i]
         /\ \A b : InQue(b, Append(que, e)) <=> InQue(b, que) \/ b = e
         /\ Distinct(que) /\ ~InQue(e, que) => Distinct(Append(que, e))
<1> DEFINE new == Append(que, e)
<1>1. /\ new \in Seq(S) /\ Len(new) = Len(que) + 1
      /\ new[Len(que) + 1] = e
      /\ \A i \in 1..Len(que) : new[i] = que[i]
  BY AppendProperties
<1>2. Len(que) \in Nat
  BY LenProperties
<1>3. \A b : InQue(b, new) <=> InQue(b, que) \/ b = e
  <2> HIDE DEF new
  <2>1. ASSUME NEW b, InQue(b, new) PROVE InQue(b, que) \/ b = e
    <3>1. PICK i \in 1..Len(new) : new[i] = b
      BY <2>1 DEF InQue
    <3>2. CASE i \in 1..Len(que)
      BY <1>1, <3>1, <3>2 DEF InQue
    <3>3. CASE i = Len(que) + 1
      BY <1>1, <3>1, <3>3
    <3> QED BY <1>1, <1>2, <3>2, <3>3
  <2>2. ASSUME NEW b, InQue(b, que) \/ b = e PROVE InQue(b, new)
    <3>1. CASE InQue(b, que)
      BY <1>1, <1>2, <3>1 DEF InQue
    <3>2. CASE b = e
      BY <1>1, <1>2, <3>2 DEF InQue
    <3> QED BY <2>2, <3>1, <3>2
  <2> QED BY <2>1, <2>2
<1>4. Distinct(que) /\ ~InQue(e, que) => Distinct(new)
  <2> HIDE DEF new
  <2> SUFFICES ASSUME Distinct(que), ~InQue(e, que),
                      NEW i \in 1..Len(new), NEW j \in 1..Len(new), new[i] = new[j]
               PROVE  i = j
    BY DEF Distinct
  <2>1. \A k \in 1..Len(que) : que[k] # e
    BY DEF InQue
  <2> QED BY <1>1, <1>2, <2>1 DEF Distinct
<1> QED BY <1>1, <1>3, <1>4

(* An element put at the head is one more, the first, and repeats none.      *)
LEMMA HeadPut ==
  ASSUME NEW S, NEW que \in Seq(S), NEW e \in S
  PROVE  /\ <<e>> \o que \in Seq(S)
         /\ Len(<<e>> \o que) = Len(que) + 1
         /\ (<<e>> \o que)[1] = e
         /\ \A i \in 1..Len(que) : (<<e>> \o que)[i + 1] = que[i]
         /\ \A b : InQue(b, <<e>> \o que) <=> InQue(b, que) \/ b = e
         /\ Distinct(que) /\ ~InQue(e, que) => Distinct(<<e>> \o que)
<1> DEFINE new == <<e>> \o que
<1>0. <<e>> \in Seq(S) /\ Len(<<e>>) = 1 /\ <<e>>[1] = e
  OBVIOUS
<1>2. Len(que) \in Nat
  BY LenProperties
<1>1. /\ new \in Seq(S) /\ Len(new) = Len(que) + 1
      /\ new[1] = e
      /\ \A i \in 1..Len(que) : new[i + 1] = que[i]
  <2>1. /\ new \in Seq(S)
        /\ Len(new) = Len(<<e>>) + Len(que)
        /\ \A i \in 1 .. Len(<<e>>) + Len(que) :
             new[i] = IF i <= Len(<<e>>) THEN <<e>>[i] ELSE que[i - Len(<<e>>)]
    BY <1>0, ConcatProperties
  <2> HIDE DEF new
  <2> QED BY <2>1, <1>0, <1>2
<1>3. \A b : InQue(b, new) <=> InQue(b, que) \/ b = e
  <2> HIDE DEF new
  <2>1. ASSUME NEW b, InQue(b, new) PROVE InQue(b, que) \/ b = e
    <3>1. PICK i \in 1..Len(new) : new[i] = b
      BY <2>1 DEF InQue
    <3>2. CASE i = 1
      BY <1>1, <3>1, <3>2
    <3>3. CASE i - 1 \in 1..Len(que)
      <4>1. new[(i - 1) + 1] = que[i - 1]
        BY <1>1, <3>3
      <4>2. (i - 1) + 1 = i
        OBVIOUS
      <4> QED BY <3>1, <3>3, <4>1, <4>2 DEF InQue
    <3> QED BY <1>1, <1>2, <3>2, <3>3
  <2>2. ASSUME NEW b, InQue(b, que) \/ b = e PROVE InQue(b, new)
    <3>1. CASE InQue(b, que)
      <4>1. PICK i \in 1..Len(que) : que[i] = b
        BY <3>1 DEF InQue
      <4> QED BY <1>1, <1>2, <4>1 DEF InQue
    <3>2. CASE b = e
      BY <1>1, <1>2, <3>2 DEF InQue
    <3> QED BY <2>2, <3>1, <3>2
  <2> QED BY <2>1, <2>2
<1>4. Distinct(que) /\ ~InQue(e, que) => Distinct(new)
  <2> HIDE DEF new
  <2> SUFFICES ASSUME Distinct(que), ~InQue(e, que),
                      NEW i \in 1..Len(new), NEW j \in 1..Len(new), new[i] = new[j]
               PROVE  i = j
    BY DEF Distinct
  <2>1. \A k \in 1..Len(que) : que[k] # e
    BY DEF InQue
  <2>2. ASSUME NEW k \in 1..Len(new), k # 1
        PROVE  k - 1 \in 1..Len(que) /\ new[k] = que[k - 1] /\ new[k] # e
    <3>1. k - 1 \in 1..Len(que) /\ (k - 1) + 1 = k
      BY <1>1, <1>2, <2>2
    <3>2. new[(k - 1) + 1] = que[k - 1]
      BY <1>1, <3>1
    <3> QED BY <3>1, <3>2, <2>1
  <2>3. CASE i = 1 \/ j = 1
    BY <1>1, <2>2, <2>3
  <2>4. CASE i # 1 /\ j # 1
    <3>1. que[i - 1] = que[j - 1]
      BY <2>2, <2>4
    <3>2. i - 1 = j - 1
      BY <2>2, <2>4, <3>1 DEF Distinct
    <3> QED BY <3>2
  <2> QED BY <2>3, <2>4
<1> QED BY <1>1, <1>3, <1>4

(* Taking the head leaves the others, in order.                              *)
LEMMA HeadTaken ==
  ASSUME NEW S, NEW que \in Seq(S), que # <<>>
  PROVE  /\ Head(que) \in S /\ Head(que) = que[1]
         /\ Tail(que) \in Seq(S)
         /\ Len(que) \in Nat \ {0}
         /\ Len(Tail(que)) = Len(que) - 1
         /\ \A i \in 1..(Len(que) - 1) : Tail(que)[i] = que[i + 1]
         /\ InQue(Head(que), que)
         /\ \A b : InQue(b, Tail(que)) => InQue(b, que)
         /\ Distinct(que) => Distinct(Tail(que)) /\ ~InQue(Head(que), Tail(que))
<1> DEFINE new == Tail(que)
<1>1. /\ Head(que) \in S /\ new \in Seq(S) /\ Len(new) = Len(que) - 1
      /\ \A i \in 1..Len(new) : new[i] = que[i + 1]
  BY HeadTailProperties
<1>2. Len(que) \in Nat \ {0}
  BY EmptySeq
<1>3. Head(que) = que[1]
  BY <1>2
<1>4. InQue(Head(que), que)
  BY <1>2, <1>3 DEF InQue
<1>5. \A b : InQue(b, new) => InQue(b, que)
  <2> HIDE DEF new
  <2> SUFFICES ASSUME NEW b, NEW i \in 1..Len(new), new[i] = b
               PROVE  InQue(b, que)
    BY DEF InQue
  <2>1. i + 1 \in 1..Len(que) /\ que[i + 1] = b
    BY <1>1, <1>2
  <2> QED BY <2>1 DEF InQue
<1>6. Distinct(que) => Distinct(new) /\ ~InQue(Head(que), new)
  <2> HIDE DEF new
  <2>0. \A i \in 1..Len(new) : i + 1 \in 1..Len(que) /\ new[i] = que[i + 1]
    BY <1>1, <1>2
  <2>1. ASSUME Distinct(que) PROVE Distinct(new)
    BY <2>0, <2>1, <1>1, <1>2 DEF Distinct
  <2>2. ASSUME Distinct(que), NEW i \in 1..Len(new) PROVE new[i] # Head(que)
    <3>1. i + 1 # 1 /\ 1 \in 1..Len(que)
      BY <1>1, <1>2
    <3> QED BY <2>0, <2>2, <3>1, <1>3 DEF Distinct
  <2> QED BY <2>1, <2>2 DEF InQue
<1>7. \A i \in 1..(Len(que) - 1) : new[i] = que[i + 1]
  BY <1>1
<1> QED BY <1>1, <1>2, <1>3, <1>4, <1>5, <1>6, <1>7

(* Queue_put and Queue_putHead add their element and keep the others.        *)
LEMMA PutQueAdds ==
  ASSUME NEW S, NEW que \in Seq(S), NEW e \in S, NEW fcb
  PROVE  /\ PutQue(que, e, fcb) \in Seq(S)
         /\ Len(PutQue(que, e, fcb)) = Len(que) + 1
         /\ \A b : InQue(b, PutQue(que, e, fcb)) <=> InQue(b, que) \/ b = e
         /\ Distinct(que) /\ ~InQue(e, que) => Distinct(PutQue(que, e, fcb))
<1>1. CASE "PRIORITY" \in fcb.flags
  <2>1. PutQue(que, e, fcb) = <<e>> \o que
    BY <1>1 DEF PutQue
  <2> QED BY <2>1, HeadPut
<1>2. CASE ~("PRIORITY" \in fcb.flags)
  <2>1. PutQue(que, e, fcb) = Append(que, e)
    BY <1>2 DEF PutQue
  <2> QED BY <2>1, TailPut
<1> QED BY <1>1, <1>2

-----------------------------------------------------------------------------
(* Counting tasks                                                            *)

(* Sets that differ at most in one element.                                  *)
LEMMA CardinalityMoves ==
  ASSUME NEW S, IsFiniteSet(S), NEW A \in SUBSET S, NEW B \in SUBSET S,
         NEW p \in S, \A q \in S \ {p} : q \in A <=> q \in B
  PROVE  /\ Cardinality(A) \in Nat /\ Cardinality(B) \in Nat
         /\ Cardinality(B) + One(p \in A) = Cardinality(A) + One(p \in B)
<1>1. IsFiniteSet(A) /\ IsFiniteSet(B)
  BY FS_Subset
<1>2. Cardinality(A) \in Nat /\ Cardinality(B) \in Nat
  BY <1>1, FS_CardinalityType
<1>3. CASE (p \in A) = (p \in B)
  <2>1. A = B
    BY <1>3
  <2> QED BY <1>2, <2>1, <1>3 DEF One
<1>4. CASE p \in A /\ p \notin B
  <2>1. A = B \cup {p}
    BY <1>4
  <2>2. Cardinality(A) = Cardinality(B) + 1
    BY <1>1, <1>4, <2>1, FS_AddElement
  <2> QED BY <1>2, <1>4, <2>2 DEF One
<1>5. CASE p \notin A /\ p \in B
  <2>1. B = A \cup {p}
    BY <1>5
  <2>2. Cardinality(B) = Cardinality(A) + 1
    BY <1>1, <1>5, <2>1, FS_AddElement
  <2> QED BY <1>2, <1>5, <2>2 DEF One
<1> QED BY <1>3, <1>4, <1>5

(* The tasks that may post are finitely many, the worker among them.         *)
LEMMA PostersFinite == IsFiniteSet(Posters) /\ Worker \in Posters
<1>1. IsFiniteSet({Worker})
  BY FS_Singleton
<1>2. IsFiniteSet(Notifiers)
  BY IPCAssumption
<1> QED BY <1>1, <1>2, FS_Union DEF Posters

(* One task's step changes a count by that task only.                        *)
LEMMA CountMoves ==
  ASSUME NEW places, NEW p \in Posters,
         \A q \in Posters \ {p} : post'[q].pc = post[q].pc
  PROVE  /\ Count(places) \in Nat /\ Count(places)' \in Nat
         /\ Count(places)' + One(post[p].pc \in places)
              = Count(places) + One(post'[p].pc \in places)
<1> DEFINE A == {q \in Posters : post[q].pc \in places}
           B == {q \in Posters : post'[q].pc \in places}
<1>1. /\ A \in SUBSET Posters /\ B \in SUBSET Posters
      /\ \A q \in Posters \ {p} : q \in A <=> q \in B
      /\ (p \in A) = (post[p].pc \in places)
      /\ (p \in B) = (post'[p].pc \in places)
  OBVIOUS
<1>2. Cardinality(A) = Count(places) /\ Cardinality(B) = Count(places)'
  BY DEF Count
<1> HIDE DEF A, B
<1>3. /\ Cardinality(A) \in Nat /\ Cardinality(B) \in Nat
      /\ Cardinality(B) + One(p \in A) = Cardinality(A) + One(p \in B)
  BY <1>1, PostersFinite, CardinalityMoves
<1> QED BY <1>1, <1>2, <1>3

(* A count is positive when a task is in one of its places, and zero before
   any task has called.                                                      *)
LEMMA CountBounds ==
  ASSUME NEW places
  PROVE  /\ Count(places) \in Nat
         /\ \A p \in Posters : post[p].pc \in places => Count(places) > 0
         /\ (\A p \in Posters : post[p].pc \notin places) => Count(places) = 0
<1> DEFINE A == {q \in Posters : post[q].pc \in places}
<1>1. IsFiniteSet(A)
  <2>1. A \in SUBSET Posters
    OBVIOUS
  <2> QED BY <2>1, PostersFinite, FS_Subset
<1>2. Cardinality(A) \in Nat
  BY <1>1, FS_CardinalityType
<1>3. Cardinality(A) = 0 <=> A = {}
  BY <1>1, FS_EmptySet
<1>4. Count(places) = Cardinality(A)
  BY DEF Count
<1>5. ASSUME NEW p \in Posters, post[p].pc \in places PROVE Cardinality(A) > 0
  <2>1. A # {}
    BY <1>5
  <2> HIDE DEF A
  <2> QED BY <2>1, <1>2, <1>3
<1>6. ASSUME \A p \in Posters : post[p].pc \notin places PROVE Cardinality(A) = 0
  <2>1. A = {}
    BY <1>6
  <2> QED BY <2>1, <1>3
<1> HIDE DEF A
<1> QED BY <1>2, <1>4, <1>5, <1>6

-----------------------------------------------------------------------------
(* Frames                                                                    *)

(* Every frame the firmware posts is a frame, and none of them is urgent: its
   replies and datagrams keep their order.                                   *)
LEMMA OutgoingFrames ==
  /\ Outgoing \subseteq Frames
  /\ \A f \in Outgoing : "PRIORITY" \notin f.flags
  /\ \A p \in Notifiers : Notification(p) \in Outgoing
  /\ \A f \in PeerFrames, s \in 1..MaxSeq : Reply(f, s) \in Outgoing
<1>1. ASSUME NEW p \in Notifiers
      PROVE  Notification(p) \in Frames /\ "PRIORITY" \notin Notification(p).flags
  <2>1. p \in Msgs \cup {None} /\ 0 \in SeqNums
    BY IPCAssumption DEF SeqNums
  <2> QED BY <2>1 DEF Notification, Frame, Frames, FrameTypes, Flags
<1>2. ASSUME NEW f \in PeerFrames, NEW s \in 1..MaxSeq
      PROVE  Reply(f, s) \in Frames /\ "PRIORITY" \notin Reply(f, s).flags
  <2>1. f \in Frames /\ s \in SeqNums
    BY IPCAssumption DEF SeqNums
  <2>2. f.msg \in Msgs \cup {None} /\ f.seqnum \in SeqNums
    BY <2>1 DEF Frames
  <2> QED BY <2>1, <2>2 DEF Reply, Frame, Frames, FrameTypes, Flags
<1> QED BY <1>1, <1>2 DEF Outgoing

(* Whatever the buffer held, what a frame leaves in it is a frame that came in:
   only an acknowledgement shows what was there before.                      *)
LEMMA IncomingFrames ==
  /\ Damaged \in Frames /\ Incoming \subseteq Frames
  /\ \A old \in Incoming \cup {Damaged}, f \in PeerFrames : Stored(old, f) \in Incoming
<1>1. Damaged \in Frames
  BY IPCAssumption DEF Damaged, Frame, Frames, FrameTypes, Flags, SeqNums
<1>2. PeerFrames \subseteq Frames
  BY IPCAssumption
<1>3. ASSUME NEW old \in Frames, NEW f \in Frames PROVE Stored(old, f) \in Frames
  BY DEF Stored, Frames
<1>4. Incoming \subseteq Frames
  BY <1>1, <1>2, <1>3 DEF Incoming
<1>5. ASSUME NEW old \in PeerFrames \cup {Damaged}, NEW f \in PeerFrames
      PROVE  Stored(old, f) \in Incoming
  BY DEF Incoming
<1>6. ASSUME NEW old \in Incoming, NEW f \in PeerFrames
      PROVE  Stored(old, f) \in Incoming
  <2>1. PICK older \in PeerFrames \cup {Damaged}, g \in PeerFrames : old = Stored(older, g)
    BY DEF Incoming
  <2>2. CASE g.type \notin AckOnly
    <3>1. old = g
      BY <2>1, <2>2 DEF Stored
    <3> QED BY <3>1, <1>5
  <2>3. CASE f.type \notin AckOnly
    <3>1. Stored(old, f) = Stored(Damaged, f)
      BY <2>3 DEF Stored
    <3> QED BY <3>1, <1>5
  <2>4. CASE g.type \in AckOnly /\ f.type \in AckOnly
    <3>1. old.seqnum = older.seqnum /\ old.msg = older.msg
      BY <2>1, <2>4, <1>2 DEF Stored, Frames
    <3>2. Stored(old, f) = Stored(older, f)
      BY <3>1 DEF Stored
    <3> QED BY <3>2, <1>5
  <2> QED BY <2>2, <2>3, <2>4
<1> QED BY <1>1, <1>4, <1>5, <1>6

(* A request that came in is one the STC sent.                               *)
LEMMA RequestsAreSent ==
  ASSUME NEW f \in Incoming \cup {Damaged}, IsRequest(f)
  PROVE  f \in PeerFrames
<1>1. f # Damaged
  BY DEF IsRequest, Damaged, Frame
<1>2. PICK old \in PeerFrames \cup {Damaged}, g \in PeerFrames : f = Stored(old, g)
  BY <1>1 DEF Incoming
<1>3. g \in Frames
  BY IPCAssumption
<1>4. CASE g.type \in AckOnly
  <2>1. f.type = g.type
    BY <1>2, <1>3, <1>4 DEF Stored, Frames
  <2> QED BY <2>1, <1>4 DEF IsRequest, AckOnly
<1>5. CASE g.type \notin AckOnly
  BY <1>2, <1>5 DEF Stored
<1> QED BY <1>4, <1>5

-----------------------------------------------------------------------------
(* The inductive invariant holds at the start.                               *)
LEMMA ServerInit == Init => ServerInv
<1> SUFFICES ASSUME Init PROVE ServerInv
  OBVIOUS
<1>1. /\ Window \in Nat \ {0} /\ MaxSeq \in Nat /\ MaxSeq > Window
  BY IPCAssumption
<1>2. /\ InOrder \in Seq(Buffers) /\ Len(InOrder) = Window
      /\ \A i \in 1..Window : InOrder[i] = i
  BY <1>1 DEF InOrder, Buffers
<1>3. <<>> \in Seq(Buffers) /\ Len(<<>>) = 0
  OBVIOUS
<1>4. TypeInv
  BY <1>1, <1>2, <1>3, IncomingFrames DEF Init, TypeInv, Calls, Idle, At, Elems
<1>5. TxCounts
  <2>1. /\ Count({"dequeue"}) = 0 /\ Count({"signal"}) = 0
        /\ Count({"copy", "put"}) = 0
    BY CountBounds DEF Init, Idle
  <2> QED BY <1>1, <1>2, <1>3, <2>1 DEF Init, TxCounts, One, At, WriterHolds
<1>6. RxCounts
  BY <1>1, <1>2, <1>3 DEF Init, RxCounts, One, At, ReaderHolds
<1>7. Distinct(InOrder) /\ Distinct(<<>>) /\ \A b : ~InQue(b, <<>>)
  BY <1>2, <1>3 DEF Distinct, InQue
<1>8. TxOwners
  BY <1>7 DEF Init, TxOwners, Filling, WriterHolds, At, Idle
<1>9. RxOwners
  BY <1>7 DEF Init, RxOwners, ReaderHolds, At
<1>10. PostStages /\ ReadStages
  BY PostersFinite DEF Init, PostStages, ReadStages, Idle, At
<1> QED BY <1>4, <1>5, <1>6, <1>8, <1>9, <1>10 DEF ServerInv

-----------------------------------------------------------------------------
(* Each part of the invariant is kept by every step.  First the types.       *)
LEMMA TypeStep ==
  ASSUME ServerInv, [Next]_vars
  PROVE  TypeInv'
<1> USE DEF TypeInv, Calls, Elems, Buffers, At
<1>0. /\ TypeInv /\ Window \in Nat /\ MaxSeq \in Nat
  BY IPCAssumption DEF ServerInv
<1>1. ASSUME NEW p \in Notifiers, IPC_Notify(p)
      PROVE  TypeInv'
  <2>1. Notification(p) \in Frames
    BY OutgoingFrames
  <2>2. p \in Posters
    BY DEF Posters
  <2>3. post' \in [Posters -> Calls]
    BY <1>0, <1>1, <2>1, <2>2 DEF IPC_Notify
  <2> QED BY <1>0, <1>1, <2>3 DEF IPC_Notify, rxVars
<1>2. CASE PostPend
  <2>1. post' \in [Posters -> Calls]
    BY <1>0, <1>2, PostersFinite DEF PostPend
  <2> QED BY <1>0, <1>2, <2>1 DEF PostPend, rxVars
<1>3. CASE PostTimeout
  BY <1>0, <1>3, PostersFinite DEF PostTimeout, rxVars, poolVars, Idle
<1>4. ASSUME NEW p \in Posters, PostDequeue(p)
      PROVE  TypeInv'
  <2>1. CASE txFreeQue = <<>>
    <3>1. UNCHANGED txFreeQue /\ post' \in [Posters -> Calls]
      <4>1. UNCHANGED txFreeQue /\ post' = [post EXCEPT ![p] = Idle]
        BY <1>4, <2>1 DEF PostDequeue
      <4> QED BY <1>0, <4>1 DEF Idle
    <3> QED BY <1>0, <1>4, <3>1 DEF PostDequeue, rxVars
  <2>2. CASE txFreeQue # <<>>
    <3>1. Head(txFreeQue) \in Buffers /\ Tail(txFreeQue) \in Seq(Buffers)
      BY <1>0, <2>2, HeadTaken
    <3>2. txFreeQue' = Tail(txFreeQue) /\ post' \in [Posters -> Calls]
      <4>1. /\ txFreeQue' = Tail(txFreeQue)
            /\ post' = [post EXCEPT ![p].pc = "copy", ![p].elem = Head(txFreeQue)]
        BY <1>4, <2>2 DEF PostDequeue
      <4>2. Head(txFreeQue) \in Elems
        BY <1>0, <3>1
      <4> QED BY <1>0, <4>1, <4>2
    <3> QED BY <1>0, <1>4, <3>1, <3>2 DEF PostDequeue, rxVars
  <2> QED BY <2>1, <2>2
<1>5. ASSUME NEW p \in Posters, PostCopy(p)
      PROVE  TypeInv'
  <2>1. post[p].frame \in Frames
    BY <1>5, OutgoingFrames DEF PostCopy, ServerInv, PostStages
  <2> QED BY <1>0, <1>5, <2>1 DEF PostCopy, rxVars
<1>6. ASSUME NEW p \in Posters, PostPut(p)
      PROVE  TypeInv'
  <2>1. post[p].elem \in Buffers
    BY <1>6 DEF PostPut, ServerInv, TxOwners, Filling
  <2>2. txDataQue' \in Seq(Buffers)
    BY <1>0, <1>6, <2>1, PutQueAdds DEF PostPut
  <2> QED BY <1>0, <1>6, <2>2 DEF PostPut, rxVars
<1>7. ASSUME NEW p \in Posters, PostSignal(p)
      PROVE  TypeInv'
  BY <1>0, <1>7 DEF PostSignal, rxVars, Idle
<1>8. CASE WriterPend
  BY <1>0, <1>8 DEF WriterPend, rxVars
<1>9. CASE WriterGet
  <2>1. Head(txDataQue) \in Buffers /\ Tail(txDataQue) \in Seq(Buffers)
    BY <1>0, <1>9, HeadTaken DEF WriterGet
  <2> QED BY <1>0, <1>9, <2>1 DEF WriterGet, rxVars
<1>10. CASE IPC_TxFrame
  BY <1>0, <1>10 DEF IPC_TxFrame, rxVars, poolVars
<1>11. CASE WriterFree
  <2>1. writer.elem \in Buffers
    BY <1>11 DEF WriterFree, ServerInv, TxOwners, WriterHolds
  <2>2. txFreeQue' \in Seq(Buffers)
    BY <1>0, <1>11, <2>1, TailPut DEF WriterFree
  <2> QED BY <1>0, <1>11, <2>2 DEF WriterFree, rxVars
<1>12. CASE WriterSignal
  BY <1>0, <1>12 DEF WriterSignal, rxVars
<1>13. CASE ReaderPend
  BY <1>0, <1>13 DEF ReaderPend, txVars, poolVars
<1>14. CASE ReaderDequeue
  <2>1. CASE rxFreeQue = <<>>
    BY <1>0, <1>14, <2>1 DEF ReaderDequeue, txVars, poolVars
  <2>2. CASE rxFreeQue # <<>>
    <3>1. Head(rxFreeQue) \in Buffers /\ Tail(rxFreeQue) \in Seq(Buffers)
      BY <1>0, <2>2, HeadTaken
    <3>2. reader' = At("read", Head(rxFreeQue)) /\ rxFreeQue' = Tail(rxFreeQue)
      BY <1>14, <2>2 DEF ReaderDequeue
    <3> QED BY <1>0, <1>14, <3>1, <3>2 DEF ReaderDequeue, txVars, poolVars
  <2> QED BY <2>1, <2>2
<1>15. CASE ReadError
  BY <1>0, <1>15 DEF ReadError, txVars, poolVars
<1>16. ASSUME NEW f \in PeerFrames, IPC_RxFrame(f)
       PROVE  TypeInv'
  <2>1. reader.elem \in Buffers
    BY <1>16 DEF IPC_RxFrame, ServerInv, RxOwners, ReaderHolds
  <2>2. Stored(rxBuf[reader.elem], f) \in Incoming
    BY <1>0, <2>1, IncomingFrames
  <2>3. rxBuf' \in [Buffers -> Incoming \cup {Damaged}]
    BY <1>0, <1>16, <2>2 DEF IPC_RxFrame
  <2> QED BY <1>0, <1>16, <2>3 DEF IPC_RxFrame, txVars, poolVars
<1>17. CASE ReaderPut
  <2>1. reader.elem \in Buffers
    BY <1>17 DEF ReaderPut, ServerInv, RxOwners, ReaderHolds
  <2>2. rxDataQue' \in Seq(Buffers)
    BY <1>0, <1>17, <2>1, PutQueAdds DEF ReaderPut
  <2> QED BY <1>0, <1>17, <2>2 DEF ReaderPut, txVars, poolVars
<1>18. CASE ReaderSignal
  BY <1>0, <1>18 DEF ReaderSignal, txVars, poolVars
<1>19. CASE WorkerPend
  BY <1>0, <1>19 DEF WorkerPend, txVars, poolVars
<1>20. CASE WorkerGet
  <2>1. Head(rxDataQue) \in Buffers /\ Tail(rxDataQue) \in Seq(Buffers)
    BY <1>0, <1>20, HeadTaken DEF WorkerGet
  <2> QED BY <1>0, <1>20, <2>1 DEF WorkerGet, txVars, poolVars
<1>21. CASE WorkerFree
  <2>1. worker.elem \in Buffers
    BY <1>21 DEF WorkerFree, ServerInv, RxOwners
  <2>2. rxFreeQue' \in Seq(Buffers)
    BY <1>0, <1>21, <2>1, TailPut DEF WorkerFree
  <2> QED BY <1>0, <1>21, <2>2 DEF WorkerFree, txVars, poolVars
<1>22. CASE WorkerCopy
  <2>1. worker.elem \in Buffers
    <3>1. rxFreeQue # <<>> /\ rxFreeQue[Len(rxFreeQue)] = worker.elem
      BY <1>22 DEF WorkerCopy, ServerInv, RxOwners
    <3>2. Len(rxFreeQue) \in 1..Len(rxFreeQue)
      BY <1>0, <3>1, EmptySeq
    <3> QED BY <1>0, <3>1, <3>2, ElementOfSeq
  <2>2. received' \in Incoming \cup {Damaged, None}
    BY <1>0, <1>22, <2>1 DEF WorkerCopy
  <2> QED BY <1>0, <1>22, <2>2 DEF WorkerCopy, txVars, poolVars
<1>23. CASE WorkerSignal
  BY <1>0, <1>23 DEF WorkerSignal, txVars, poolVars
<1>24. CASE HandleOther
  BY <1>0, <1>24 DEF HandleOther, txVars, poolVars
<1>25. CASE IPC_Handle_transaction
  <2>1. received \in PeerFrames
    BY <1>25, RequestsAreSent DEF IPC_Handle_transaction, ServerInv, ReadStages
  <2>2. Reply(received, txNextSeq) \in Frames
    BY <1>0, <2>1, OutgoingFrames
  <2>3. txNextSeq' \in 1..MaxSeq
    BY <1>0, <1>25, IPCAssumption DEF IPC_Handle_transaction, IPC_INC_SEQ
  <2>4. post' \in [Posters -> Calls]
    BY <1>0, <1>25, <2>2, PostersFinite DEF IPC_Handle_transaction
  <2> QED BY <1>0, <1>25, <2>3, <2>4 DEF IPC_Handle_transaction, poolVars
<1>26. CASE WorkerReplied
  BY <1>0, <1>26 DEF WorkerReplied, txVars, poolVars
<1>27. CASE UNCHANGED vars
  BY <1>0, <1>27 DEF vars, txVars, rxVars, poolVars
<1> QED BY <1>1, <1>2, <1>3, <1>4, <1>5, <1>6, <1>7, <1>8, <1>9, <1>10, <1>11,
           <1>12, <1>13, <1>14, <1>15, <1>16, <1>17, <1>18, <1>19, <1>20,
           <1>21, <1>22, <1>23, <1>24, <1>25, <1>26, <1>27
        DEF Next, IPC_Message_post, IPCWriterTaskFxn, IPCReaderTaskFxn,
            IPCWorkerTaskFxn, IPC_Message_pend

(* The semaphores of the transmit pool go on counting its queues, and no task
   takes from an empty one.                                                  *)
LEMMA TxCountsStep ==
  ASSUME ServerInv, [Next]_vars
  PROVE  TxCounts'
<1> DEFINE Free == Count({"dequeue"})
           Full == Count({"signal"})
           Held == Count({"copy", "put"})
<1>0. /\ TypeInv /\ TxCounts /\ Window \in Nat
      /\ post \in [Posters -> Calls]
      /\ txFreeSem \in Nat /\ txDataSem \in Nat
      /\ Len(txFreeQue) \in Nat /\ Len(txDataQue) \in Nat
      /\ Free \in Nat /\ Full \in Nat /\ Held \in Nat
  BY IPCAssumption, LenProperties, CountBounds DEF ServerInv, TypeInv
<1>00. \A q \in Posters : post[q].pc \in {"idle", "pend", "dequeue", "copy", "put", "signal"}
  BY <1>0 DEF Calls
<1>1. ASSUME NEW p \in Posters, \A q \in Posters \ {p} : post'[q].pc = post[q].pc
      PROVE  /\ Free' \in Nat /\ Full' \in Nat /\ Held' \in Nat
             /\ Free' + One(post[p].pc \in {"dequeue"})
                  = Free + One(post'[p].pc \in {"dequeue"})
             /\ Full' + One(post[p].pc \in {"signal"})
                  = Full + One(post'[p].pc \in {"signal"})
             /\ Held' + One(post[p].pc \in {"copy", "put"})
                  = Held + One(post'[p].pc \in {"copy", "put"})
  BY <1>1, CountMoves
<1>2. ASSUME UNCHANGED post PROVE Free' = Free /\ Full' = Full /\ Held' = Held
  BY <1>2 DEF Count
<1> HIDE DEF Free, Full, Held
<1>3. TxCounts <=>
        /\ Len(txFreeQue) = txFreeSem + Free + One(writer.pc = "signal")
        /\ Len(txDataQue) = txDataSem + Full + One(writer.pc = "get")
        /\ Len(txFreeQue) + Len(txDataQue) + Held + One(WriterHolds) = Window
  BY DEF TxCounts, Free, Full, Held
<1>4. TxCounts' <=>
        /\ Len(txFreeQue') = txFreeSem' + Free' + One(writer'.pc = "signal")
        /\ Len(txDataQue') = txDataSem' + Full' + One(writer'.pc = "get")
        /\ Len(txFreeQue') + Len(txDataQue') + Held' + One(writer'.pc \in {"send", "free"})
             = Window
  BY DEF TxCounts, Free, Full, Held, WriterHolds
<1>5. ASSUME NEW p \in Notifiers, IPC_Notify(p) PROVE TxCounts'
  <2>1. /\ post[p].pc = "idle" /\ post'[p].pc = "dequeue"
        /\ \A q \in Posters \ {p} : post'[q].pc = post[q].pc
    BY <1>0, <1>5 DEF IPC_Notify, Posters
  <2>2. Free' = Free + 1 /\ Full' = Full /\ Held' = Held
    BY <1>0, <1>1, <2>1 DEF One, Posters
  <2> QED BY <1>0, <1>3, <1>4, <1>5, <2>2 DEF IPC_Notify, One, WriterHolds
<1>6. CASE PostPend
  <2>1. /\ post[Worker].pc = "pend" /\ post'[Worker].pc = "dequeue"
        /\ \A q \in Posters \ {Worker} : post'[q].pc = post[q].pc
    BY <1>0, <1>6, PostersFinite DEF PostPend, Idle
  <2>2. Free' = Free + 1 /\ Full' = Full /\ Held' = Held
    BY <1>0, <1>1, <2>1, PostersFinite DEF One
  <2> QED BY <1>0, <1>3, <1>4, <1>6, <2>2 DEF PostPend, One, WriterHolds
<1>7. CASE PostTimeout
  <2>1. /\ post[Worker].pc = "pend" /\ post'[Worker].pc = "idle"
        /\ \A q \in Posters \ {Worker} : post'[q].pc = post[q].pc
    BY <1>0, <1>7, PostersFinite DEF PostTimeout, Idle
  <2>2. Free' = Free /\ Full' = Full /\ Held' = Held
    BY <1>0, <1>1, <2>1, PostersFinite DEF One
  <2> QED BY <1>0, <1>3, <1>4, <1>7, <2>2 DEF PostTimeout, One, WriterHolds, poolVars
<1>8. ASSUME NEW p \in Posters, PostDequeue(p) PROVE TxCounts'
  <2>0. txFreeQue # <<>>
    <3>1. Free > 0
      BY <1>8, CountBounds DEF PostDequeue, Free
    <3> QED BY <1>0, <1>3, <3>1, EmptySeq DEF One
  <2>00. /\ txFreeQue' = Tail(txFreeQue)
         /\ post' = [post EXCEPT ![p].pc = "copy", ![p].elem = Head(txFreeQue)]
    BY <1>8, <2>0 DEF PostDequeue
  <2>1. /\ post[p].pc = "dequeue" /\ post'[p].pc = "copy"
        /\ \A q \in Posters \ {p} : post'[q].pc = post[q].pc
    BY <1>0, <1>8, <2>00 DEF PostDequeue, Idle
  <2>2. Free' = Free - 1 /\ Full' = Full /\ Held' = Held + 1
    BY <1>0, <1>1, <2>1, PostersFinite DEF One
  <2>3. Len(txFreeQue') = Len(txFreeQue) - 1
    BY <1>0, <2>0, <2>00, HeadTaken DEF TypeInv
  <2>4. UNCHANGED <<txDataQue, txFreeSem, txDataSem, writer>>
    BY <1>8 DEF PostDequeue
  <2> QED BY <1>0, <1>3, <1>4, <2>2, <2>3, <2>4 DEF One, WriterHolds
<1>9. ASSUME NEW p \in Posters, PostCopy(p) PROVE TxCounts'
  <2>1. /\ post[p].pc = "copy" /\ post'[p].pc = "put"
        /\ \A q \in Posters \ {p} : post'[q].pc = post[q].pc
    BY <1>0, <1>9, PostersFinite DEF PostCopy, Idle
  <2>2. Free' = Free /\ Full' = Full /\ Held' = Held
    BY <1>0, <1>1, <2>1, PostersFinite DEF One
  <2> QED BY <1>0, <1>3, <1>4, <1>9, <2>2 DEF PostCopy, One, WriterHolds
<1>10. ASSUME NEW p \in Posters, PostPut(p) PROVE TxCounts'
  <2>1. /\ post[p].pc = "put" /\ post'[p].pc = "signal"
        /\ \A q \in Posters \ {p} : post'[q].pc = post[q].pc
    BY <1>0, <1>10, PostersFinite DEF PostPut, Idle
  <2>2. Free' = Free /\ Full' = Full + 1 /\ Held' = Held - 1
    BY <1>0, <1>1, <2>1, PostersFinite DEF One
  <2>3. post[p].elem \in Buffers
    BY <1>10 DEF PostPut, ServerInv, TxOwners, Filling
  <2>4. Len(txDataQue') = Len(txDataQue) + 1
    BY <1>0, <1>10, <2>3, PutQueAdds DEF PostPut, TypeInv
  <2> QED BY <1>0, <1>3, <1>4, <1>10, <2>2, <2>4 DEF PostPut, One, WriterHolds
<1>11. ASSUME NEW p \in Posters, PostSignal(p) PROVE TxCounts'
  <2>1. /\ post[p].pc = "signal" /\ post'[p].pc = "idle"
        /\ \A q \in Posters \ {p} : post'[q].pc = post[q].pc
    BY <1>0, <1>11, PostersFinite DEF PostSignal, Idle
  <2>2. Free' = Free /\ Full' = Full - 1 /\ Held' = Held
    BY <1>0, <1>1, <2>1, PostersFinite DEF One
  <2> QED BY <1>0, <1>3, <1>4, <1>11, <2>2 DEF PostSignal, One, WriterHolds
<1>12. CASE WriterPend
  <2>1. Free' = Free /\ Full' = Full /\ Held' = Held
    BY <1>2, <1>12 DEF WriterPend
  <2> QED BY <1>0, <1>3, <1>4, <1>12, <2>1 DEF WriterPend, One, WriterHolds, At
<1>13. CASE WriterGet
  <2>1. Free' = Free /\ Full' = Full /\ Held' = Held
    BY <1>2, <1>13 DEF WriterGet
  <2>2. Len(txDataQue') = Len(txDataQue) - 1
    BY <1>0, <1>13, HeadTaken DEF WriterGet, TypeInv
  <2> QED BY <1>0, <1>3, <1>4, <1>13, <2>1, <2>2 DEF WriterGet, One, WriterHolds, At
<1>14. CASE IPC_TxFrame
  <2>1. Free' = Free /\ Full' = Full /\ Held' = Held
    BY <1>2, <1>14 DEF IPC_TxFrame
  <2> QED BY <1>0, <1>3, <1>4, <1>14, <2>1 DEF IPC_TxFrame, One, WriterHolds, At, poolVars
<1>15. CASE WriterFree
  <2>1. Free' = Free /\ Full' = Full /\ Held' = Held
    BY <1>2, <1>15 DEF WriterFree
  <2>2. writer.elem \in Buffers
    BY <1>15 DEF WriterFree, ServerInv, TxOwners, WriterHolds
  <2>3. Len(txFreeQue') = Len(txFreeQue) + 1
    BY <1>0, <1>15, <2>2, TailPut DEF WriterFree, TypeInv
  <2> QED BY <1>0, <1>3, <1>4, <1>15, <2>1, <2>3 DEF WriterFree, One, WriterHolds, At
<1>16. CASE WriterSignal
  <2>1. Free' = Free /\ Full' = Full /\ Held' = Held
    BY <1>2, <1>16 DEF WriterSignal
  <2> QED BY <1>0, <1>3, <1>4, <1>16, <2>1 DEF WriterSignal, One, WriterHolds, At
<1>17. CASE IPC_Handle_transaction
  <2>0. post[Worker].pc = "idle"
    BY <1>17 DEF IPC_Handle_transaction, ServerInv, PostStages
  <2>1. /\ post[Worker].pc = "idle" /\ post'[Worker].pc = "pend"
        /\ \A q \in Posters \ {Worker} : post'[q].pc = post[q].pc
    BY <1>0, <1>17, <2>0, PostersFinite DEF IPC_Handle_transaction, Idle
  <2>2. Free' = Free /\ Full' = Full /\ Held' = Held
    BY <1>0, <1>1, <2>1, PostersFinite DEF One
  <2> QED BY <1>0, <1>3, <1>4, <1>17, <2>2 DEF IPC_Handle_transaction, One, WriterHolds, poolVars
<1>18. CASE UNCHANGED txVars
  <2>1. Free' = Free /\ Full' = Full /\ Held' = Held
    BY <1>2, <1>18 DEF txVars
  <2>2. UNCHANGED <<txFreeQue, txDataQue, txFreeSem, txDataSem, writer>>
    BY <1>18 DEF txVars, poolVars
  <2> QED BY <1>0, <1>3, <1>4, <2>1, <2>2 DEF One, WriterHolds
<1>19. CASE \/ IPCReaderTaskFxn \/ ReadError \/ \E f \in PeerFrames : IPC_RxFrame(f)
           \/ IPC_Message_pend \/ HandleOther \/ WorkerReplied \/ UNCHANGED vars
  BY <1>19, <1>18 DEF vars, IPCReaderTaskFxn, ReaderPend, ReaderDequeue, ReaderPut,
     ReaderSignal, ReadError, IPC_RxFrame, IPC_Message_pend, WorkerPend, WorkerGet,
     WorkerFree, WorkerCopy, WorkerSignal, HandleOther, WorkerReplied
<1> QED
  BY <1>5, <1>6, <1>7, <1>8, <1>9, <1>10, <1>11, <1>12, <1>13, <1>14,
     <1>15, <1>16, <1>17, <1>18, <1>19
  DEF Next, IPC_Message_post, IPCWriterTaskFxn, IPCWorkerTaskFxn

(* The semaphores of the receive pool go on counting its queues.             *)
LEMMA RxCountsStep ==
  ASSUME ServerInv, [Next]_vars
  PROVE  RxCounts'
<1> USE DEF One, ReaderHolds, At
<1>0. /\ TypeInv /\ RxCounts /\ Window \in Nat
      /\ rxFreeSem \in Nat /\ rxDataSem \in Nat
      /\ Len(rxFreeQue) \in Nat /\ Len(rxDataQue) \in Nat
  BY IPCAssumption, LenProperties DEF ServerInv, TypeInv
<1>1. CASE ReaderPend
  BY <1>0, <1>1 DEF ReaderPend, RxCounts
<1>2. CASE ReaderDequeue
  <2>1. rxFreeQue # <<>>
    BY <1>0, <1>2, EmptySeq DEF ReaderDequeue, RxCounts
  <2>2. Len(rxFreeQue') = Len(rxFreeQue) - 1
    BY <1>0, <1>2, <2>1, HeadTaken DEF ReaderDequeue, TypeInv
  <2>3. /\ reader.pc = "dequeue" /\ reader'.pc = "read"
        /\ UNCHANGED <<rxDataQue, rxFreeSem, rxDataSem, worker>>
    BY <1>2, <2>1 DEF ReaderDequeue
  <2> QED BY <1>0, <2>2, <2>3 DEF RxCounts
<1>3. CASE ReadError
  BY <1>0, <1>3 DEF ReadError, RxCounts
<1>4. ASSUME NEW f \in PeerFrames, IPC_RxFrame(f) PROVE RxCounts'
  BY <1>0, <1>4 DEF IPC_RxFrame, RxCounts
<1>5. CASE ReaderPut
  <2>1. reader.elem \in Buffers
    BY <1>5 DEF ReaderPut, ServerInv, RxOwners
  <2>2. Len(rxDataQue') = Len(rxDataQue) + 1
    BY <1>0, <1>5, <2>1, PutQueAdds DEF ReaderPut, TypeInv
  <2> QED BY <1>0, <1>5, <2>2 DEF ReaderPut, RxCounts
<1>6. CASE ReaderSignal
  BY <1>0, <1>6 DEF ReaderSignal, RxCounts
<1>7. CASE WorkerPend
  BY <1>0, <1>7 DEF WorkerPend, RxCounts
<1>8. CASE WorkerGet
  <2>1. Len(rxDataQue') = Len(rxDataQue) - 1
    BY <1>0, <1>8, HeadTaken DEF WorkerGet, TypeInv
  <2> QED BY <1>0, <1>8, <2>1 DEF WorkerGet, RxCounts
<1>9. CASE WorkerFree
  <2>1. worker.elem \in Buffers
    BY <1>9 DEF WorkerFree, ServerInv, RxOwners
  <2>2. Len(rxFreeQue') = Len(rxFreeQue) + 1
    BY <1>0, <1>9, <2>1, TailPut DEF WorkerFree, TypeInv
  <2> QED BY <1>0, <1>9, <2>2 DEF WorkerFree, RxCounts
<1>10. CASE WorkerCopy
  BY <1>0, <1>10 DEF WorkerCopy, RxCounts
<1>11. CASE WorkerSignal
  BY <1>0, <1>11 DEF WorkerSignal, RxCounts
<1>12. CASE HandleOther
  BY <1>0, <1>12 DEF HandleOther, RxCounts
<1>13. CASE IPC_Handle_transaction
  BY <1>0, <1>13 DEF IPC_Handle_transaction, RxCounts
<1>14. CASE WorkerReplied
  BY <1>0, <1>14 DEF WorkerReplied, RxCounts
<1>15. CASE UNCHANGED rxVars
  BY <1>0, <1>15 DEF rxVars, RxCounts
<1>16. CASE \/ \E p \in Notifiers : IPC_Notify(p)
            \/ \E p \in Posters : IPC_Message_post(p)
            \/ PostPend \/ PostTimeout \/ IPCWriterTaskFxn \/ UNCHANGED vars
  BY <1>15, <1>16 DEF vars, IPC_Notify, IPC_Message_post, PostDequeue, PostCopy, PostPut,
     PostSignal, PostPend, PostTimeout, IPCWriterTaskFxn, WriterPend, WriterGet,
     IPC_TxFrame, WriterFree, WriterSignal
<1> QED
  BY <1>1, <1>2, <1>3, <1>4, <1>5, <1>6, <1>7, <1>8, <1>9, <1>10, <1>11, <1>12, <1>13,
     <1>14, <1>16
  DEF Next, IPCReaderTaskFxn, IPCWorkerTaskFxn, IPC_Message_pend

(* A transmit buffer moves from one place to the next and is never in two.   *)
LEMMA TxOwnersStep ==
  ASSUME ServerInv, [Next]_vars
  PROVE  TxOwners'
<1> USE DEF Filling, WriterHolds
<1>0. /\ TypeInv /\ TxOwners /\ post \in [Posters -> Calls]
      /\ txFreeQue \in Seq(Buffers) /\ txDataQue \in Seq(Buffers)
  BY DEF ServerInv, TypeInv
<1>1. ASSUME NEW p \in Posters, UNCHANGED <<txFreeQue, txDataQue, writer>>,
             ~Filling(p)', \A q \in Posters \ {p} : post'[q] = post[q]
      PROVE  TxOwners'
  BY <1>0, <1>1 DEF TxOwners
<1>2. ASSUME NEW p \in Notifiers, IPC_Notify(p) PROVE TxOwners'
  <2>1. p \in Posters
    BY DEF Posters
  <2>2. /\ ~Filling(p)' /\ \A q \in Posters \ {p} : post'[q] = post[q]
        /\ UNCHANGED <<txFreeQue, txDataQue, writer>>
    BY <1>0, <1>2, <2>1 DEF IPC_Notify
  <2> QED BY <1>1, <2>1, <2>2
<1>3. CASE PostPend
  <2>1. /\ ~Filling(Worker)' /\ \A q \in Posters \ {Worker} : post'[q] = post[q]
        /\ UNCHANGED <<txFreeQue, txDataQue, writer>>
    BY <1>0, <1>3, PostersFinite DEF PostPend, Calls
  <2> QED BY <1>1, <2>1, PostersFinite
<1>4. CASE PostTimeout
  <2>1. /\ ~Filling(Worker)' /\ \A q \in Posters \ {Worker} : post'[q] = post[q]
        /\ UNCHANGED <<txFreeQue, txDataQue, writer>>
    BY <1>0, <1>4, PostersFinite DEF PostTimeout, Idle, poolVars
  <2> QED BY <1>1, <2>1, PostersFinite
<1>5. ASSUME NEW p \in Posters, PostDequeue(p) PROVE TxOwners'
  <2>1. CASE txFreeQue = <<>>
    <3>1. /\ ~Filling(p)' /\ \A q \in Posters \ {p} : post'[q] = post[q]
          /\ UNCHANGED <<txFreeQue, txDataQue, writer>>
      BY <1>0, <1>5, <2>1 DEF PostDequeue, Idle
    <3> QED BY <1>1, <3>1
  <2>2. CASE txFreeQue # <<>>
    <3> DEFINE b == Head(txFreeQue)
    <3>1. /\ txFreeQue' = Tail(txFreeQue)
          /\ post' = [post EXCEPT ![p].pc = "copy", ![p].elem = b]
          /\ UNCHANGED <<txDataQue, writer>>
      BY <1>5, <2>2 DEF PostDequeue
    <3>2. /\ \A q \in Posters \ {p} : post'[q] = post[q]
          /\ post'[p].pc = "copy" /\ post'[p].elem = b
      BY <1>0, <3>1 DEF Calls
    <3>3. /\ b \in Buffers /\ InQue(b, txFreeQue)
          /\ \A c : InQue(c, Tail(txFreeQue)) => InQue(c, txFreeQue)
          /\ Distinct(txFreeQue)
               => Distinct(Tail(txFreeQue)) /\ ~InQue(b, Tail(txFreeQue))
      BY <1>0, <2>2, HeadTaken
    <3> HIDE DEF b
    <3> QED BY <1>0, <3>1, <3>2, <3>3 DEF TxOwners
  <2> QED BY <2>1, <2>2
<1>6. ASSUME NEW p \in Posters, PostCopy(p) PROVE TxOwners'
  <2>1. /\ \A q \in Posters \ {p} : post'[q] = post[q]
        /\ post'[p].elem = post[p].elem /\ Filling(p)
        /\ UNCHANGED <<txFreeQue, txDataQue, writer>>
    BY <1>0, <1>6 DEF PostCopy, Calls
  <2>2. \A q \in Posters : (Filling(q)' => Filling(q)) /\ post'[q].elem = post[q].elem
    BY <2>1
  <2> QED BY <1>0, <2>1, <2>2 DEF TxOwners
<1>7. ASSUME NEW p \in Posters, PostPut(p) PROVE TxOwners'
  <2> DEFINE b == post[p].elem
  <2>1. /\ Filling(p) /\ txDataQue' = PutQue(txDataQue, b, post[p].frame)
        /\ ~Filling(p)' /\ \A q \in Posters \ {p} : post'[q] = post[q]
        /\ UNCHANGED <<txFreeQue, writer>>
    BY <1>0, <1>7 DEF PostPut
  <2>2. /\ b \in Buffers /\ ~InQue(b, txFreeQue) /\ ~InQue(b, txDataQue)
        /\ WriterHolds => writer.elem # b
        /\ \A q \in Posters \ {p} : Filling(q) => post[q].elem # b
    BY <1>0, <2>1 DEF TxOwners
  <2>3. /\ \A c : InQue(c, txDataQue') <=> InQue(c, txDataQue) \/ c = b
        /\ Distinct(txDataQue) /\ ~InQue(b, txDataQue) => Distinct(txDataQue')
    BY <1>0, <2>1, <2>2, PutQueAdds
  <2> HIDE DEF b
  <2> QED BY <1>0, <2>1, <2>2, <2>3 DEF TxOwners
<1>8. ASSUME NEW p \in Posters, PostSignal(p) PROVE TxOwners'
  <2>1. /\ ~Filling(p)' /\ \A q \in Posters \ {p} : post'[q] = post[q]
        /\ UNCHANGED <<txFreeQue, txDataQue, writer>>
    BY <1>0, <1>8 DEF PostSignal, Idle
  <2> QED BY <1>1, <2>1
<1>9. CASE WriterPend \/ WriterSignal
  BY <1>0, <1>9 DEF WriterPend, WriterSignal, At, TxOwners
<1>10. CASE WriterGet
  <2> DEFINE b == Head(txDataQue)
  <2>1. /\ b \in Buffers /\ InQue(b, txDataQue)
        /\ \A c : InQue(c, Tail(txDataQue)) => InQue(c, txDataQue)
        /\ Distinct(txDataQue) => Distinct(Tail(txDataQue)) /\ ~InQue(b, Tail(txDataQue))
    BY <1>0, <1>10, HeadTaken DEF WriterGet
  <2>2. /\ writer'.pc = "send" /\ writer'.elem = b /\ txDataQue' = Tail(txDataQue)
        /\ UNCHANGED <<txFreeQue, post>>
    BY <1>10 DEF WriterGet, At
  <2> HIDE DEF b
  <2> QED BY <1>0, <2>1, <2>2 DEF TxOwners
<1>11. CASE IPC_TxFrame
  BY <1>0, <1>11 DEF IPC_TxFrame, At, poolVars, TxOwners
<1>12. CASE WriterFree
  <2> DEFINE b == writer.elem
  <2>1. /\ WriterHolds /\ ~WriterHolds' /\ txFreeQue' = Append(txFreeQue, b)
        /\ UNCHANGED <<txDataQue, post>>
    BY <1>12 DEF WriterFree, At
  <2>2. /\ b \in Buffers /\ ~InQue(b, txFreeQue) /\ ~InQue(b, txDataQue)
        /\ \A q \in Posters : Filling(q) => post[q].elem # b
    BY <1>0, <2>1 DEF TxOwners
  <2>3. /\ \A c : InQue(c, txFreeQue') <=> InQue(c, txFreeQue) \/ c = b
        /\ Distinct(txFreeQue) /\ ~InQue(b, txFreeQue) => Distinct(txFreeQue')
    BY <1>0, <2>1, <2>2, TailPut
  <2> HIDE DEF b
  <2> QED BY <1>0, <2>1, <2>2, <2>3 DEF TxOwners
<1>13. CASE IPC_Handle_transaction
  <2>1. /\ ~Filling(Worker)' /\ \A q \in Posters \ {Worker} : post'[q] = post[q]
        /\ UNCHANGED <<txFreeQue, txDataQue, writer>>
    BY <1>0, <1>13, PostersFinite DEF IPC_Handle_transaction, poolVars
  <2> QED BY <1>1, <2>1, PostersFinite
<1>14. CASE UNCHANGED txVars
  BY <1>0, <1>14 DEF txVars, poolVars, TxOwners
<1>15. CASE \/ IPCReaderTaskFxn \/ ReadError \/ \E f \in PeerFrames : IPC_RxFrame(f)
            \/ IPC_Message_pend \/ HandleOther \/ WorkerReplied \/ UNCHANGED vars
  BY <1>14, <1>15 DEF vars, IPCReaderTaskFxn, ReaderPend, ReaderDequeue, ReaderPut,
     ReaderSignal, ReadError, IPC_RxFrame, IPC_Message_pend, WorkerPend, WorkerGet,
     WorkerFree, WorkerCopy, WorkerSignal, HandleOther, WorkerReplied
<1> QED
  BY <1>2, <1>3, <1>4, <1>5, <1>6, <1>7, <1>8, <1>9, <1>10, <1>11, <1>12, <1>13, <1>15
  DEF Next, IPC_Message_post, IPCWriterTaskFxn, IPCWorkerTaskFxn

(* A receive buffer is in one place, save the one that the worker has freed
   and has yet to copy: the reader takes another before that one.            *)
LEMMA RxOwnersStep ==
  ASSUME ServerInv, [Next]_vars
  PROVE  RxOwners'
<1> USE DEF ReaderHolds, At
<1>0. /\ TypeInv /\ RxOwners /\ RxCounts
      /\ rxFreeQue \in Seq(Buffers) /\ rxDataQue \in Seq(Buffers)
      /\ rxFreeSem \in Nat
  BY DEF ServerInv, TypeInv
<1>1. CASE ReaderPend
  BY <1>0, <1>1 DEF ReaderPend, RxOwners
<1>2. CASE ReaderDequeue
  <2>1. rxFreeQue # <<>> /\ Len(rxFreeQue) \in Nat
    BY <1>0, <1>2, EmptySeq DEF ReaderDequeue, RxCounts, One
  <2> DEFINE b == Head(rxFreeQue)
             n == Len(rxFreeQue)
  <2>2. /\ b \in Buffers /\ InQue(b, rxFreeQue) /\ n \in Nat \ {0}
        /\ \A c : InQue(c, Tail(rxFreeQue)) => InQue(c, rxFreeQue)
        /\ Distinct(rxFreeQue)
             => Distinct(Tail(rxFreeQue)) /\ ~InQue(b, Tail(rxFreeQue))
        /\ Tail(rxFreeQue) \in Seq(Buffers) /\ Len(Tail(rxFreeQue)) = n - 1
        /\ \A i \in 1..(n - 1) : Tail(rxFreeQue)[i] = rxFreeQue[i + 1]
    BY <1>0, <2>1, HeadTaken
  <2>3. /\ reader.pc = "dequeue" /\ reader' = [pc |-> "read", elem |-> b]
        /\ rxFreeQue' = Tail(rxFreeQue)
        /\ UNCHANGED <<rxDataQue, rxFreeSem, rxDataSem, worker>>
    BY <1>2, <2>1 DEF ReaderDequeue
  <2>4. ASSUME worker.pc = "copy"
        PROVE  rxFreeQue' # <<>> /\ rxFreeQue'[Len(rxFreeQue')] = worker.elem
    <3>1. n >= 2
      BY <1>0, <2>2, <2>3, <2>4 DEF RxCounts, One
    <3>2. rxFreeQue' # <<>>
      <4>1. Len(rxFreeQue') # 0
        BY <2>2, <2>3, <3>1
      <4> QED BY <4>1, EmptySeq
    <3>3. rxFreeQue'[n - 1] = rxFreeQue[(n - 1) + 1]
      BY <2>2, <2>3, <3>1
    <3>4. rxFreeQue[n] = worker.elem
      BY <1>0, <2>4 DEF RxOwners
    <3>5. Len(rxFreeQue') = n - 1 /\ (n - 1) + 1 = n
      BY <2>2, <2>3
    <3> QED BY <3>2, <3>3, <3>4, <3>5
  <2> HIDE DEF b, n
  <2> QED BY <1>0, <2>2, <2>3, <2>4 DEF RxOwners
<1>3. CASE ReadError
  BY <1>0, <1>3 DEF ReadError, RxOwners
<1>4. ASSUME NEW f \in PeerFrames, IPC_RxFrame(f) PROVE RxOwners'
  BY <1>0, <1>4 DEF IPC_RxFrame, RxOwners
<1>5. CASE ReaderPut
  <2> DEFINE b == reader.elem
  <2>1. /\ ReaderHolds /\ ~ReaderHolds'
        /\ rxDataQue' = PutQue(rxDataQue, b, rxBuf[b])
        /\ UNCHANGED <<rxFreeQue, worker>>
    BY <1>5 DEF ReaderPut
  <2>2. /\ b \in Buffers /\ ~InQue(b, rxFreeQue) /\ ~InQue(b, rxDataQue)
        /\ worker.pc = "free" => worker.elem # b
    BY <1>0, <2>1 DEF RxOwners
  <2>3. /\ \A c : InQue(c, rxDataQue') <=> InQue(c, rxDataQue) \/ c = b
        /\ Distinct(rxDataQue) /\ ~InQue(b, rxDataQue) => Distinct(rxDataQue')
    BY <1>0, <2>1, <2>2, PutQueAdds
  <2> HIDE DEF b
  <2> QED BY <1>0, <2>1, <2>2, <2>3 DEF RxOwners
<1>6. CASE ReaderSignal
  BY <1>0, <1>6 DEF ReaderSignal, RxOwners
<1>7. CASE WorkerPend
  BY <1>0, <1>7 DEF WorkerPend, RxOwners
<1>8. CASE WorkerGet
  <2> DEFINE b == Head(rxDataQue)
  <2>1. /\ b \in Buffers /\ InQue(b, rxDataQue)
        /\ \A c : InQue(c, Tail(rxDataQue)) => InQue(c, rxDataQue)
        /\ Distinct(rxDataQue) => Distinct(Tail(rxDataQue)) /\ ~InQue(b, Tail(rxDataQue))
    BY <1>0, <1>8, HeadTaken DEF WorkerGet
  <2>2. /\ worker' = [pc |-> "free", elem |-> b] /\ rxDataQue' = Tail(rxDataQue)
        /\ UNCHANGED <<rxFreeQue, reader>>
    BY <1>8 DEF WorkerGet
  <2> HIDE DEF b
  <2> QED BY <1>0, <2>1, <2>2 DEF RxOwners
<1>9. CASE WorkerFree
  <2> DEFINE b == worker.elem
  <2>1. /\ worker.pc = "free" /\ worker' = [pc |-> "copy", elem |-> b]
        /\ rxFreeQue' = Append(rxFreeQue, b)
        /\ UNCHANGED <<rxDataQue, reader>>
    BY <1>9 DEF WorkerFree
  <2>2. /\ b \in Buffers /\ ~InQue(b, rxFreeQue) /\ ~InQue(b, rxDataQue)
        /\ ReaderHolds => reader.elem # b
    BY <1>0, <2>1 DEF RxOwners
  <2>3. /\ rxFreeQue' # <<>> /\ rxFreeQue'[Len(rxFreeQue')] = b
        /\ \A c : InQue(c, rxFreeQue') <=> InQue(c, rxFreeQue) \/ c = b
        /\ Distinct(rxFreeQue) /\ ~InQue(b, rxFreeQue) => Distinct(rxFreeQue')
    BY <1>0, <2>1, <2>2, TailPut, AppendProperties
  <2> HIDE DEF b
  <2> QED BY <1>0, <2>1, <2>2, <2>3 DEF RxOwners
<1>10. CASE WorkerCopy
  BY <1>0, <1>10 DEF WorkerCopy, RxOwners
<1>11. CASE WorkerSignal
  BY <1>0, <1>11 DEF WorkerSignal, RxOwners
<1>12. CASE HandleOther
  BY <1>0, <1>12 DEF HandleOther, RxOwners
<1>13. CASE IPC_Handle_transaction
  BY <1>0, <1>13 DEF IPC_Handle_transaction, RxOwners
<1>14. CASE WorkerReplied
  BY <1>0, <1>14 DEF WorkerReplied, RxOwners
<1>15. CASE UNCHANGED rxVars
  BY <1>0, <1>15 DEF rxVars, RxOwners
<1>16. CASE \/ \E p \in Notifiers : IPC_Notify(p)
            \/ \E p \in Posters : IPC_Message_post(p)
            \/ PostPend \/ PostTimeout \/ IPCWriterTaskFxn \/ UNCHANGED vars
  BY <1>15, <1>16 DEF vars, IPC_Notify, IPC_Message_post, PostDequeue, PostCopy, PostPut,
     PostSignal, PostPend, PostTimeout, IPCWriterTaskFxn, WriterPend, WriterGet,
     IPC_TxFrame, WriterFree, WriterSignal
<1> QED
  BY <1>1, <1>2, <1>3, <1>4, <1>5, <1>6, <1>7, <1>8, <1>9, <1>10, <1>11, <1>12, <1>13,
     <1>14, <1>16
  DEF Next, IPCReaderTaskFxn, IPCWorkerTaskFxn, IPC_Message_pend

(* A call carries what it was given until its buffer is queued, with the frame
   in it; only the worker waits for a buffer, while it replies.              *)
LEMMA PostStagesStep ==
  ASSUME ServerInv, [Next]_vars
  PROVE  PostStages'
<1> USE DEF At
<1>0. /\ TypeInv /\ PostStages /\ TxOwners /\ post \in [Posters -> Calls]
      /\ txBuf \in [Buffers -> Frames] /\ Worker \in Posters /\ Worker \notin Notifiers
  BY PostersFinite, IPCAssumption DEF ServerInv, TypeInv
<1>1. ASSUME NEW p \in Posters, UNCHANGED txBuf,
             \A q \in Posters \ {p} : post'[q] = post[q],
             post'[p].pc = "pend" => p = Worker,
             post'[p].pc \in {"pend", "dequeue", "copy", "put"}
               => post'[p].frame \in Outgoing,
             post'[p].pc # "put",
             worker'.pc # "reply" => post'[Worker].pc = "idle"
      PROVE  PostStages'
  BY <1>0, <1>1 DEF PostStages
<1>2. ASSUME NEW p \in Notifiers, IPC_Notify(p) PROVE PostStages'
  <2>1. p \in Posters /\ p # Worker
    BY <1>0 DEF Posters
  <2>2. /\ \A q \in Posters \ {p} : post'[q] = post[q]
        /\ post'[p].pc = "dequeue" /\ post'[p].frame = Notification(p)
        /\ UNCHANGED <<txBuf, worker>>
    BY <1>0, <1>2, <2>1 DEF IPC_Notify, rxVars
  <2>3. worker'.pc # "reply" => post'[Worker].pc = "idle"
    BY <1>0, <2>1, <2>2 DEF PostStages
  <2> QED BY <1>1, <2>1, <2>2, <2>3, OutgoingFrames
<1>3. CASE PostPend
  <2>1. /\ \A q \in Posters \ {Worker} : post'[q] = post[q]
        /\ post[Worker].pc = "pend" /\ post'[Worker].pc = "dequeue"
        /\ post'[Worker].frame = post[Worker].frame
        /\ UNCHANGED <<txBuf, worker>>
    BY <1>0, <1>3 DEF PostPend, rxVars, Calls
  <2>2. worker.pc = "reply" /\ post[Worker].frame \in Outgoing
    BY <1>0, <2>1 DEF PostStages
  <2> QED BY <1>0, <1>1, <2>1, <2>2
<1>4. CASE PostTimeout
  <2>1. /\ \A q \in Posters \ {Worker} : post'[q] = post[q]
        /\ post'[Worker].pc = "idle"
        /\ UNCHANGED <<txBuf, worker>>
    BY <1>0, <1>4 DEF PostTimeout, Idle, poolVars, rxVars
  <2> QED BY <1>0, <1>1, <2>1
<1>5. ASSUME NEW p \in Posters, PostDequeue(p) PROVE PostStages'
  <2>1. post[p].pc = "dequeue" /\ UNCHANGED <<txBuf, worker>>
    BY <1>5 DEF PostDequeue, rxVars
  <2>2. post[p].frame \in Outgoing /\ (worker.pc # "reply" => p # Worker)
    BY <1>0, <2>1 DEF PostStages
  <2>3. CASE txFreeQue = <<>>
    <3>1. post' = [post EXCEPT ![p] = Idle]
      BY <1>5, <2>3 DEF PostDequeue
    <3>2. /\ \A q \in Posters \ {p} : post'[q] = post[q]
          /\ post'[p].pc = "idle"
      BY <1>0, <3>1 DEF Idle
    <3>3. worker'.pc # "reply" => post'[Worker].pc = "idle"
      BY <1>0, <2>1, <3>2 DEF PostStages
    <3> QED BY <1>1, <2>1, <3>2, <3>3
  <2>4. CASE txFreeQue # <<>>
    <3>1. post' = [post EXCEPT ![p].pc = "copy", ![p].elem = Head(txFreeQue)]
      BY <1>5, <2>4 DEF PostDequeue
    <3>2. /\ \A q \in Posters \ {p} : post'[q] = post[q]
          /\ post'[p].pc = "copy" /\ post'[p].frame = post[p].frame
      BY <1>0, <3>1 DEF Calls
    <3>3. worker'.pc # "reply" => post'[Worker].pc = "idle"
      BY <1>0, <2>1, <2>2, <3>2 DEF PostStages
    <3> QED BY <1>1, <2>1, <2>2, <3>2, <3>3
  <2> QED BY <2>3, <2>4
<1>6. ASSUME NEW p \in Posters, PostCopy(p) PROVE PostStages'
  <2>1. /\ \A q \in Posters \ {p} : post'[q] = post[q]
        /\ post[p].pc = "copy" /\ post'[p].pc = "put"
        /\ post'[p].frame = post[p].frame /\ post'[p].elem = post[p].elem
        /\ txBuf' = [txBuf EXCEPT ![post[p].elem] = post[p].frame]
        /\ UNCHANGED worker
    BY <1>0, <1>6 DEF PostCopy, rxVars, Calls
  <2>2. /\ post[p].elem \in Buffers
        /\ \A q \in Posters \ {p} : post[q].pc = "put" => post[q].elem # post[p].elem
    BY <1>0, <2>1 DEF TxOwners, Filling
  <2>3. post[p].frame \in Outgoing /\ (worker.pc # "reply" => p # Worker)
    BY <1>0, <2>1 DEF PostStages
  <2>4. txBuf'[post'[p].elem] = post'[p].frame
    BY <1>0, <2>1, <2>2
  <2>5. \A q \in Posters \ {p} : post[q].pc = "put"
          => txBuf'[post[q].elem] = post[q].frame
    <3> SUFFICES ASSUME NEW q \in Posters \ {p}, post[q].pc = "put"
                 PROVE  txBuf'[post[q].elem] = post[q].frame
      OBVIOUS
    <3>1. post[q].elem \in Buffers /\ txBuf[post[q].elem] = post[q].frame
      BY <1>0 DEF TxOwners, Filling, PostStages
    <3> QED BY <1>0, <2>1, <2>2, <3>1
  <2> QED BY <1>0, <2>1, <2>3, <2>4, <2>5 DEF PostStages
<1>7. ASSUME NEW p \in Posters, PostPut(p) PROVE PostStages'
  <2>1. /\ \A q \in Posters \ {p} : post'[q] = post[q]
        /\ post[p].pc = "put" /\ post'[p].pc = "signal" /\ UNCHANGED <<txBuf, worker>>
    BY <1>0, <1>7 DEF PostPut, rxVars
  <2>2. worker'.pc # "reply" => post'[Worker].pc = "idle"
    BY <1>0, <2>1 DEF PostStages
  <2> QED BY <1>1, <2>1, <2>2
<1>8. ASSUME NEW p \in Posters, PostSignal(p) PROVE PostStages'
  <2>1. /\ \A q \in Posters \ {p} : post'[q] = post[q]
        /\ post'[p].pc = "idle" /\ UNCHANGED <<txBuf, worker>>
    BY <1>0, <1>8 DEF PostSignal, rxVars, Idle
  <2>2. worker'.pc # "reply" => post'[Worker].pc = "idle"
    BY <1>0, <2>1 DEF PostStages
  <2> QED BY <1>1, <2>1, <2>2
<1>9. CASE IPC_Handle_transaction
  <2>1. /\ \A q \in Posters \ {Worker} : post'[q] = post[q]
        /\ post'[Worker].pc = "pend"
        /\ post'[Worker].frame = Reply(received, txNextSeq)
        /\ worker'.pc = "reply" /\ UNCHANGED txBuf
    BY <1>0, <1>9 DEF IPC_Handle_transaction, poolVars
  <2>2. received \in PeerFrames /\ txNextSeq \in 1..MaxSeq
    BY <1>9, RequestsAreSent DEF IPC_Handle_transaction, ServerInv, ReadStages, TypeInv
  <2>3. Reply(received, txNextSeq) \in Outgoing
    BY <2>2, OutgoingFrames
  <2> QED BY <1>0, <1>1, <2>1, <2>3
<1>10. CASE WorkerReplied
  BY <1>0, <1>10 DEF WorkerReplied, PostStages, txVars, poolVars
<1>11. CASE WorkerPend \/ WorkerGet \/ WorkerFree \/ WorkerCopy \/ WorkerSignal \/ HandleOther
  <2>1. worker.pc # "reply" /\ worker'.pc # "reply" /\ UNCHANGED <<post, txBuf>>
    BY <1>11 DEF WorkerPend, WorkerGet, WorkerFree, WorkerCopy, WorkerSignal, HandleOther,
                 txVars, poolVars
  <2> QED BY <1>0, <2>1 DEF PostStages
<1>12. CASE UNCHANGED <<post, txBuf, worker>>
  BY <1>0, <1>12 DEF PostStages
<1>13. CASE \/ IPCReaderTaskFxn \/ ReadError \/ \E f \in PeerFrames : IPC_RxFrame(f)
            \/ IPCWriterTaskFxn \/ UNCHANGED vars
  BY <1>12, <1>13 DEF vars, txVars, rxVars, poolVars, IPCReaderTaskFxn, ReaderPend,
     ReaderDequeue, ReaderPut, ReaderSignal, ReadError, IPC_RxFrame, IPCWriterTaskFxn,
     WriterPend, WriterGet, IPC_TxFrame, WriterFree, WriterSignal
<1> QED
  BY <1>2, <1>3, <1>4, <1>5, <1>6, <1>7, <1>8, <1>9, <1>10, <1>11, <1>13
  DEF Next, IPC_Message_post, IPCWorkerTaskFxn, IPC_Message_pend

(* What the reader queues came in, and what the worker handles is not None.  *)
LEMMA ReadStagesStep ==
  ASSUME ServerInv, [Next]_vars
  PROVE  ReadStages'
<1> USE DEF At
<1>0. /\ TypeInv /\ ReadStages
      /\ rxBuf \in [Buffers -> Incoming \cup {Damaged}]
  BY DEF ServerInv, TypeInv
<1>1. ASSUME UNCHANGED <<rxBuf, reader>>,
             worker'.pc \in {"signal", "handle"}
               => received' = received /\ worker.pc \in {"signal", "handle"}
      PROVE  ReadStages'
  BY <1>0, <1>1 DEF ReadStages
<1>2. ASSUME reader'.pc # "put", UNCHANGED <<worker, received>> PROVE ReadStages'
  BY <1>0, <1>2 DEF ReadStages
<1>3. CASE ReaderPend \/ ReaderPut \/ ReaderSignal \/ ReadError
  BY <1>2, <1>3 DEF ReaderPend, ReaderPut, ReaderSignal, ReadError
<1>4. CASE ReaderDequeue
  <2>1. reader'.pc # "put" /\ UNCHANGED <<worker, received>>
    BY <1>4 DEF ReaderDequeue
  <2> QED BY <1>2, <2>1
<1>5. ASSUME NEW f \in PeerFrames, IPC_RxFrame(f) PROVE ReadStages'
  <2>1. reader.elem \in Buffers
    BY <1>5 DEF IPC_RxFrame, ServerInv, RxOwners, ReaderHolds
  <2>2. Stored(rxBuf[reader.elem], f) \in Incoming
    BY <1>0, <2>1, IncomingFrames
  <2>3. rxBuf'[reader'.elem] = Stored(rxBuf[reader.elem], f)
    BY <1>0, <1>5, <2>1 DEF IPC_RxFrame
  <2>4. UNCHANGED <<worker, received>>
    BY <1>5 DEF IPC_RxFrame
  <2> QED BY <1>0, <2>2, <2>3, <2>4 DEF ReadStages
<1>6. CASE WorkerPend \/ WorkerGet \/ WorkerFree \/ WorkerSignal \/ HandleOther
           \/ WorkerReplied \/ IPC_Handle_transaction
  BY <1>1, <1>6 DEF WorkerPend, WorkerGet, WorkerFree, WorkerSignal, HandleOther,
     WorkerReplied, IPC_Handle_transaction
<1>7. CASE WorkerCopy
  <2>1. worker.elem \in Buffers
    <3>1. rxFreeQue # <<>> /\ rxFreeQue[Len(rxFreeQue)] = worker.elem
      BY <1>7 DEF WorkerCopy, ServerInv, RxOwners
    <3>2. Len(rxFreeQue) \in 1..Len(rxFreeQue)
      BY <1>0, <3>1, EmptySeq DEF TypeInv
    <3> QED BY <1>0, <3>1, <3>2, ElementOfSeq DEF TypeInv
  <2>2. received' \in Incoming \cup {Damaged} /\ UNCHANGED <<rxBuf, reader>>
    BY <1>0, <1>7, <2>1 DEF WorkerCopy
  <2> QED BY <1>0, <2>2 DEF ReadStages
<1>8. CASE UNCHANGED rxVars
  BY <1>1, <1>8 DEF rxVars
<1>9. CASE \/ \E p \in Notifiers : IPC_Notify(p)
           \/ \E p \in Posters : IPC_Message_post(p)
           \/ PostPend \/ PostTimeout \/ IPCWriterTaskFxn \/ UNCHANGED vars
  BY <1>8, <1>9 DEF vars, IPC_Notify, IPC_Message_post, PostDequeue, PostCopy, PostPut,
     PostSignal, PostPend, PostTimeout, IPCWriterTaskFxn, WriterPend, WriterGet,
     IPC_TxFrame, WriterFree, WriterSignal
<1> QED
  BY <1>3, <1>4, <1>5, <1>6, <1>7, <1>9
  DEF Next, IPCReaderTaskFxn, IPCWorkerTaskFxn, IPC_Message_pend

(* The server's inductive invariant: counted queues, and one place for each
   buffer.                                                                   *)
THEOREM ServerInvHolds == Spec => []ServerInv
<1>1. ServerInv /\ [Next]_vars => ServerInv'
  <2> SUFFICES ASSUME ServerInv, [Next]_vars PROVE ServerInv'
    OBVIOUS
  <2>1. TypeInv' /\ TxCounts' /\ RxCounts' /\ TxOwners' /\ RxOwners' /\ PostStages'
          /\ ReadStages'
    BY TypeStep, TxCountsStep, RxCountsStep, TxOwnersStep, RxOwnersStep, PostStagesStep,
       ReadStagesStep
  <2> QED BY <2>1 DEF ServerInv
<1> QED BY <1>1, ServerInit, PTL DEF Spec

-----------------------------------------------------------------------------
(* The state that the tasks may be in when they take from a queue: the semaphore
   has promised them a buffer.                                               *)
LEMMA QueuesHoldWhatIsPromised == ServerInv => NoEmptyQueue
<1> SUFFICES ASSUME ServerInv PROVE NoEmptyQueue
  OBVIOUS
<1>1. /\ Len(txFreeQue) \in Nat /\ Len(txDataQue) \in Nat
      /\ Len(rxFreeQue) \in Nat /\ Len(rxDataQue) \in Nat
      /\ Len(<<>>) = 0
      /\ txFreeSem \in Nat /\ txDataSem \in Nat /\ rxFreeSem \in Nat /\ rxDataSem \in Nat
      /\ Count({"dequeue"}) \in Nat /\ Count({"signal"}) \in Nat
  BY LenProperties, CountBounds DEF ServerInv, TypeInv
<1>2. Cardinality({p \in Posters : post[p].pc = "dequeue"}) = Count({"dequeue"})
  <2>1. {p \in Posters : post[p].pc = "dequeue"}
          = {p \in Posters : post[p].pc \in {"dequeue"}}
    OBVIOUS
  <2> QED BY <2>1 DEF Count
<1>3. /\ Len(txFreeQue) = txFreeSem + Count({"dequeue"}) + One(writer.pc = "signal")
      /\ Len(txDataQue) = txDataSem + Count({"signal"}) + One(writer.pc = "get")
      /\ Len(rxFreeQue) = rxFreeSem + One(reader.pc = "dequeue")
                            + One(worker.pc \in {"copy", "signal"})
      /\ Len(rxDataQue) = rxDataSem + One(reader.pc = "signal") + One(worker.pc = "get")
  BY DEF ServerInv, TxCounts, RxCounts
<1>4. /\ One(writer.pc = "signal") \in {0, 1} /\ One(reader.pc = "signal") \in {0, 1}
      /\ One(worker.pc \in {"copy", "signal"}) \in {0, 1}
      /\ One(writer.pc = "get") \in {0, 1} /\ One(worker.pc = "get") \in {0, 1}
      /\ One(reader.pc = "dequeue") \in {0, 1}
      /\ writer.pc = "get" => One(writer.pc = "get") = 1
      /\ worker.pc = "get" => One(worker.pc = "get") = 1
      /\ reader.pc = "dequeue" => One(reader.pc = "dequeue") = 1
  BY DEF One
<1>5. Len(txFreeQue) >= Count({"dequeue"})
  BY <1>1, <1>3, <1>4
<1>6. writer.pc = "get" => Len(txDataQue) # 0
  BY <1>1, <1>3, <1>4
<1>7. worker.pc = "get" => Len(rxDataQue) # 0
  BY <1>1, <1>3, <1>4
<1>8. reader.pc = "dequeue" => Len(rxFreeQue) # 0
  BY <1>1, <1>3, <1>4
<1> QED BY <1>1, <1>2, <1>5, <1>6, <1>7, <1>8 DEF NoEmptyQueue

(* The buffer that the worker takes a message from is not the reader's.       *)
LEMMA WorkerBufferIsPrivate ==
  ASSUME ServerInv, worker.pc \in {"free", "copy"}
  PROVE  /\ worker.elem \in Buffers
         /\ ReaderHolds => worker.elem # reader.elem
<1>0. TypeInv /\ RxOwners
  BY DEF ServerInv
<1>1. CASE worker.pc = "free"
  BY <1>0, <1>1 DEF RxOwners
<1>2. CASE worker.pc = "copy"
  <2>1. rxFreeQue # <<>> /\ rxFreeQue[Len(rxFreeQue)] = worker.elem
    BY <1>0, <1>2 DEF RxOwners
  <2>2. Len(rxFreeQue) \in 1..Len(rxFreeQue)
    BY <1>0, <2>1, EmptySeq DEF TypeInv
  <2>3. InQue(worker.elem, rxFreeQue)
    BY <2>1, <2>2 DEF InQue
  <2>4. worker.elem \in Buffers
    BY <1>0, <2>1, <2>2, ElementOfSeq DEF TypeInv
  <2> QED BY <1>0, <2>3, <2>4 DEF RxOwners
<1> QED BY <1>1, <1>2

(* No buffer has two users and no queue is read empty, for a window of any size
   and any number of notifying tasks: the reader is kept from the buffer that
   the worker has freed too early (IPC_Message_pend).                        *)
THEOREM BuffersArePrivate == Spec => []CopyIsPrivate
<1>1. ServerInv => CopyIsPrivate
  <2> SUFFICES ASSUME ServerInv PROVE CopyIsPrivate
    OBVIOUS
  <2>0. /\ TypeInv /\ RxOwners /\ TxCounts /\ RxCounts
        /\ Window \in Nat
    BY IPCAssumption DEF ServerInv
  <2>1. NoEmptyQueue
    BY QueuesHoldWhatIsPromised
  <2>2. /\ txFreeSem <= Window /\ txDataSem <= Window
        /\ rxFreeSem <= Window /\ rxDataSem <= Window
    <3>1. /\ Len(txFreeQue) \in Nat /\ Len(txDataQue) \in Nat
          /\ Len(rxFreeQue) \in Nat /\ Len(rxDataQue) \in Nat
          /\ txFreeSem \in Nat /\ txDataSem \in Nat
          /\ rxFreeSem \in Nat /\ rxDataSem \in Nat
          /\ Count({"dequeue"}) \in Nat /\ Count({"signal"}) \in Nat
          /\ Count({"copy", "put"}) \in Nat
      BY <2>0, LenProperties, CountBounds DEF TypeInv
    <3>2. /\ One(writer.pc = "signal") \in {0, 1} /\ One(writer.pc = "get") \in {0, 1}
          /\ One(WriterHolds) \in {0, 1} /\ One(ReaderHolds) \in {0, 1}
          /\ One(worker.pc \in {"copy", "signal"}) \in {0, 1}
          /\ One(reader.pc = "signal") \in {0, 1} /\ One(worker.pc = "get") \in {0, 1}
          /\ One(reader.pc = "dequeue") \in {0, 1} /\ One(worker.pc = "free") \in {0, 1}
      BY DEF One
    <3>3. txFreeSem <= Window /\ txDataSem <= Window
      <4>1. txFreeSem <= Len(txFreeQue) /\ txDataSem <= Len(txDataQue)
        BY <2>0, <3>1, <3>2 DEF TxCounts
      <4>2. Len(txFreeQue) + Len(txDataQue) <= Window
        BY <2>0, <3>1, <3>2 DEF TxCounts
      <4> QED BY <2>0, <3>1, <4>1, <4>2
    <3>4. rxFreeSem <= Window /\ rxDataSem <= Window
      BY <2>0, <3>1, <3>2 DEF RxCounts
    <3> QED BY <3>3, <3>4
  <2>3. IPCTypeOK
    <3>1. Incoming \cup {Damaged} \subseteq Frames
      BY IncomingFrames
    <3>2. rxBuf \in [Buffers -> Frames] /\ received \in Frames \cup {None}
      BY <2>0, <3>1 DEF TypeInv
    <3>3. {txFreeSem, txDataSem, rxFreeSem, rxDataSem} \subseteq 0..Window
      BY <2>0, <2>2 DEF TypeInv
    <3> QED BY <2>0, <2>1, <3>2, <3>3 DEF IPCTypeOK, TypeInv, Calls
  <2>4. worker.pc \in {"free", "copy"} /\ ReaderHolds => worker.elem # reader.elem
    BY WorkerBufferIsPrivate
  <2> QED BY <2>3, <2>4 DEF CopyIsPrivate, ReaderHolds
<1> QED BY <1>1, ServerInvHolds, PTL

-----------------------------------------------------------------------------
(* What a queue of buffers carries                                           *)

(* What the buffers of a set hold.                                           *)
Carried(S, buf) == {buf[b] : b \in S}

(* The messages of a queue of buffers.                                       *)
LEMMA ContentsType ==
  ASSUME NEW S, NEW que \in Seq(S), NEW buf
  PROVE  /\ Contents(que, buf) \in Seq(Carried(S, buf))
         /\ Len(Contents(que, buf)) = Len(que)
         /\ \A i \in 1..Len(que) : Contents(que, buf)[i] = buf[que[i]]
<1>1. Len(que) \in Nat /\ \A i \in 1..Len(que) : que[i] \in S
  BY LenProperties, ElementOfSeq
<1>2. Contents(que, buf) \in [1..Len(que) -> Carried(S, buf)]
  BY <1>1 DEF Contents, Carried
<1>3. Contents(que, buf) \in Seq(Carried(S, buf))
  BY <1>1, <1>2, SeqDef
<1>4. Len(Contents(que, buf)) = Len(que)
  BY <1>1, <1>2, <1>3, LenProperties
<1> QED BY <1>3, <1>4 DEF Contents

(* A buffer that is written while it is in no queue changes no queue.        *)
LEMMA ContentsElsewhere ==
  ASSUME NEW S, NEW que \in Seq(S), NEW buf, NEW other,
         \A b : InQue(b, que) => other[b] = buf[b]
  PROVE  Contents(que, other) = Contents(que, buf)
<1>1. \A i \in 1..Len(que) : other[que[i]] = buf[que[i]]
  BY DEF InQue
<1> QED BY <1>1 DEF Contents

(* Taking a buffer takes its message.                                        *)
LEMMA ContentsTaken ==
  ASSUME NEW S, NEW que \in Seq(S), NEW buf, que # <<>>
  PROVE  /\ Contents(que, buf) # <<>>
         /\ Head(Contents(que, buf)) = buf[Head(que)]
         /\ Tail(Contents(que, buf)) = Contents(Tail(que), buf)
<1> DEFINE all == Contents(que, buf)
           rest == Contents(Tail(que), buf)
<1>1. /\ Head(que) = que[1] /\ Tail(que) \in Seq(S) /\ Len(que) \in Nat \ {0}
      /\ Len(Tail(que)) = Len(que) - 1
      /\ \A i \in 1..(Len(que) - 1) : Tail(que)[i] = que[i + 1]
  BY HeadTaken
<1>2. /\ all \in Seq(Carried(S, buf)) /\ Len(all) = Len(que)
      /\ \A i \in 1..Len(que) : all[i] = buf[que[i]]
  BY ContentsType
<1>3. /\ rest \in Seq(Carried(S, buf)) /\ Len(rest) = Len(que) - 1
      /\ \A i \in 1..(Len(que) - 1) : rest[i] = buf[Tail(que)[i]]
  <2> DEFINE que2 == Tail(que)
  <2>1. /\ Contents(que2, buf) \in Seq(Carried(S, buf)) /\ Len(Contents(que2, buf)) = Len(que2)
        /\ \A i \in 1..Len(que2) : Contents(que2, buf)[i] = buf[que2[i]]
    <3> HIDE DEF que2
    <3> que2 \in Seq(S)
      BY <1>1 DEF que2
    <3> QED BY ContentsType
  <2> QED BY <1>1, <2>1
<1> HIDE DEF all, rest
<1>4. all # <<>>
  BY <1>1, <1>2
<1>5. /\ Head(all) = all[1] /\ Tail(all) \in Seq(Carried(S, buf)) /\ Len(Tail(all)) = Len(all) - 1
      /\ \A i \in 1..(Len(all) - 1) : Tail(all)[i] = all[i + 1]
  BY <1>2, <1>4, HeadTaken
<1>6. \A i \in 1..(Len(que) - 1) : Tail(all)[i] = rest[i]
  <2> SUFFICES ASSUME NEW i \in 1..(Len(que) - 1) PROVE Tail(all)[i] = rest[i]
    OBVIOUS
  <2>1. i + 1 \in 1..Len(que)
    BY <1>1
  <2>2. rest[i] = buf[que[i + 1]] /\ Tail(all)[i] = all[i + 1]
    BY <1>1, <1>2, <1>3, <1>5
  <2> QED BY <1>2, <2>1, <2>2
<1>7. Tail(all) = rest
  BY <1>2, <1>3, <1>5, <1>6, SeqEqual
<1>8. Head(all) = buf[Head(que)]
  BY <1>1, <1>2, <1>5
<1> QED BY <1>4, <1>7, <1>8 DEF all, rest

(* Queueing a buffer queues its message, at the same end.                    *)
LEMMA ContentsPut ==
  ASSUME NEW S, NEW que \in Seq(S), NEW buf, NEW e \in S, NEW fcb
  PROVE  Contents(PutQue(que, e, fcb), buf)
           = IF "PRIORITY" \in fcb.flags THEN <<buf[e]>> \o Contents(que, buf)
             ELSE Append(Contents(que, buf), buf[e])
<1> DEFINE all == Contents(que, buf)
           n == Len(que)
<1>1. /\ all \in Seq(Carried(S, buf)) /\ Len(all) = n /\ n \in Nat /\ buf[e] \in Carried(S, buf)
      /\ \A i \in 1..n : all[i] = buf[que[i]]
  <2>1. /\ all \in Seq(Carried(S, buf)) /\ Len(all) = n
        /\ \A i \in 1..n : all[i] = buf[que[i]]
    BY ContentsType
  <2>2. n \in Nat /\ buf[e] \in Carried(S, buf)
    BY LenProperties DEF Carried
  <2> QED BY <2>1, <2>2
<1>0. \A q \in Seq(S) :
        /\ Contents(q, buf) \in Seq(Carried(S, buf)) /\ Len(Contents(q, buf)) = Len(q)
        /\ \A i \in 1..Len(q) : Contents(q, buf)[i] = buf[q[i]]
  BY ContentsType
<1>2. CASE "PRIORITY" \in fcb.flags
  <2> DEFINE new == <<e>> \o que
             more == Contents(new, buf)
             put == <<buf[e]>> \o all
  <2>1. /\ new \in Seq(S) /\ Len(new) = n + 1 /\ new[1] = e
        /\ \A i \in 1..n : new[i + 1] = que[i]
    BY HeadPut
  <2>2. /\ put \in Seq(Carried(S, buf)) /\ Len(put) = n + 1 /\ put[1] = buf[e]
        /\ \A i \in 1..n : put[i + 1] = all[i]
    <3> HIDE DEF all, n
    <3> QED BY <1>1, HeadPut
  <2>3. /\ more \in Seq(Carried(S, buf)) /\ Len(more) = n + 1
        /\ \A i \in 1..(n + 1) : more[i] = buf[new[i]]
    <3> HIDE DEF new, n
    <3>1. new \in Seq(S)
      BY <2>1
    <3>2. /\ Contents(new, buf) \in Seq(Carried(S, buf)) /\ Len(Contents(new, buf)) = Len(new)
          /\ \A i \in 1..Len(new) : Contents(new, buf)[i] = buf[new[i]]
      BY <1>0, <3>1
    <3> QED BY <2>1, <3>2
  <2> HIDE DEF all, n, new, more, put
  <2>4. ASSUME NEW i \in 1..(n + 1) PROVE more[i] = put[i]
    <3>1. CASE i = 1
      BY <1>1, <2>1, <2>2, <2>3, <3>1
    <3>2. CASE i # 1
      <4>1. i - 1 \in 1..n /\ (i - 1) + 1 = i
        BY <1>1, <3>2
      <4>2. new[(i - 1) + 1] = que[i - 1] /\ put[(i - 1) + 1] = all[i - 1]
        BY <2>1, <2>2, <4>1
      <4> QED BY <1>1, <2>3, <4>1, <4>2
    <3> QED BY <3>1, <3>2
  <2>5. more = put
    BY <2>2, <2>3, <2>4, SeqEqual
  <2>6. PutQue(que, e, fcb) = new
    BY <1>2 DEF PutQue, new
  <2> QED BY <1>2, <2>5, <2>6 DEF more, put, all
<1>3. CASE ~("PRIORITY" \in fcb.flags)
  <2> DEFINE new == Append(que, e)
             more == Contents(new, buf)
             put == Append(all, buf[e])
  <2>1. /\ new \in Seq(S) /\ Len(new) = n + 1 /\ new[n + 1] = e
        /\ \A i \in 1..n : new[i] = que[i]
    BY TailPut
  <2>2. /\ put \in Seq(Carried(S, buf)) /\ Len(put) = n + 1 /\ put[n + 1] = buf[e]
        /\ \A i \in 1..n : put[i] = all[i]
    <3> HIDE DEF all, n
    <3> QED BY <1>1, TailPut
  <2>3. /\ more \in Seq(Carried(S, buf)) /\ Len(more) = n + 1
        /\ \A i \in 1..(n + 1) : more[i] = buf[new[i]]
    <3> HIDE DEF new, n
    <3>1. new \in Seq(S)
      BY <2>1
    <3>2. /\ Contents(new, buf) \in Seq(Carried(S, buf)) /\ Len(Contents(new, buf)) = Len(new)
          /\ \A i \in 1..Len(new) : Contents(new, buf)[i] = buf[new[i]]
      BY <1>0, <3>1
    <3> QED BY <2>1, <3>2
  <2> HIDE DEF all, n, new, more, put
  <2>4. ASSUME NEW i \in 1..(n + 1) PROVE more[i] = put[i]
    <3>1. CASE i = n + 1
      BY <1>1, <2>1, <2>2, <2>3, <3>1
    <3>2. CASE i \in 1..n
      BY <1>1, <2>1, <2>2, <2>3, <3>2
    <3> QED BY <1>1, <3>1, <3>2
  <2>5. more = put
    BY <2>2, <2>3, <2>4, SeqEqual
  <2>6. PutQue(que, e, fcb) = new
    BY <1>3 DEF PutQue, new
  <2> QED BY <1>3, <2>5, <2>6 DEF more, put, all
<1> QED BY <1>2, <1>3

-----------------------------------------------------------------------------
(* Each direction implements IPCChannel                                      *)

(* The messages posted and not yet sent, and the one being sent.              *)
Waiting == Contents(txDataQue, txBuf)
InHand == IF writer.pc = "send" THEN txBuf[writer.elem] ELSE None

(* The steps that move no message of the transmit side.                      *)
Quiet ==
  \/ \E p \in Notifiers : IPC_Notify(p)
  \/ \E p \in Posters : PostDequeue(p) \/ PostCopy(p) \/ PostSignal(p)
  \/ PostPend \/ PostTimeout \/ IPC_Handle_transaction
  \/ WriterPend \/ WriterFree \/ WriterSignal
  \/ UNCHANGED txVars

(* What each step does to the messages of the transmit side: a message waits
   from the moment its buffer is queued, behind all others, and is in hand while
   the writer sends that buffer.                                             *)
LEMMA TxMoves ==
  ASSUME ServerInv, [Next]_vars
  PROVE  \/ \E p \in Posters :
              /\ PostPut(p) /\ post[p].frame \in Outgoing
              /\ Waiting' = Append(Waiting, post[p].frame)
              /\ UNCHANGED <<InHand, writer, txNextSeq>>
         \/ /\ WriterGet /\ InHand = None /\ Waiting # <<>>
            /\ InHand' = Head(Waiting) /\ Waiting' = Tail(Waiting)
         \/ IPC_TxFrame /\ InHand # None /\ InHand' = None /\ UNCHANGED Waiting
         \/ Quiet /\ UNCHANGED <<Waiting, InHand>>
<1>0. /\ TypeInv /\ TxCounts /\ TxOwners /\ PostStages /\ post \in [Posters -> Calls]
      /\ txFreeQue \in Seq(Buffers) /\ txDataQue \in Seq(Buffers)
      /\ txBuf \in [Buffers -> Frames] /\ None \notin Frames
  BY IPCAssumption DEF ServerInv, TypeInv
<1>1. ASSUME UNCHANGED <<txDataQue, txBuf>>,
             writer'.pc = "send" <=> writer.pc = "send",
             writer.pc = "send" => writer'.elem = writer.elem
      PROVE  UNCHANGED <<Waiting, InHand>>
  BY <1>1 DEF Waiting, InHand
<1>2. ASSUME NEW p \in Posters, PostCopy(p) PROVE UNCHANGED <<Waiting, InHand>>
  <2>1. /\ Filling(p) /\ txBuf' = [txBuf EXCEPT ![post[p].elem] = post[p].frame]
        /\ UNCHANGED <<txDataQue, writer>>
    BY <1>2 DEF PostCopy, Filling
  <2>2. /\ ~InQue(post[p].elem, txDataQue)
        /\ WriterHolds => writer.elem # post[p].elem /\ writer.elem \in Buffers
        /\ \A b \in Buffers : InQue(b, txDataQue) => txBuf'[b] = txBuf[b]
    BY <1>0, <2>1 DEF TxOwners
  <2>3. \A b : InQue(b, txDataQue) => b \in Buffers
    BY <1>0, ElementOfSeq DEF InQue
  <2>4. UNCHANGED Waiting
    BY <1>0, <2>1, <2>2, <2>3, ContentsElsewhere DEF Waiting
  <2>5. UNCHANGED InHand
    BY <1>0, <2>1, <2>2 DEF WriterHolds, InHand
  <2> QED BY <2>4, <2>5
<1>3. ASSUME NEW p \in Posters, PostPut(p)
      PROVE  /\ post[p].frame \in Outgoing
             /\ Waiting' = Append(Waiting, post[p].frame)
             /\ UNCHANGED <<InHand, writer, txNextSeq>>
  <2> DEFINE m == post[p].frame
             e == post[p].elem
  <2>1. /\ post[p].pc = "put" /\ txDataQue' = PutQue(txDataQue, e, m)
        /\ UNCHANGED <<txBuf, writer, txNextSeq>>
    BY <1>3 DEF PostPut
  <2>2. m \in Outgoing /\ txBuf[e] = m
    BY <1>0, <2>1 DEF PostStages
  <2>3. e \in Buffers
    BY <1>0, <2>1 DEF TxOwners, Filling
  <2>4. "PRIORITY" \notin m.flags
    BY <2>2, OutgoingFrames
  <2>5. Waiting' = Append(Waiting, m)
    <3> HIDE DEF m, e
    <3>1. Contents(PutQue(txDataQue, e, m), txBuf)
            = IF "PRIORITY" \in m.flags THEN <<txBuf[e]>> \o Contents(txDataQue, txBuf)
              ELSE Append(Contents(txDataQue, txBuf), txBuf[e])
      BY <1>0, <2>3, ContentsPut
    <3> QED BY <2>1, <2>2, <2>4, <3>1 DEF Waiting
  <2> QED BY <2>1, <2>2, <2>5 DEF InHand
<1>4. ASSUME WriterGet
      PROVE  /\ InHand = None /\ Waiting # <<>>
             /\ InHand' = Head(Waiting) /\ Waiting' = Tail(Waiting)
  <2>1. /\ InHand = None /\ txDataQue # <<>> /\ txDataQue' = Tail(txDataQue)
        /\ writer'.pc = "send" /\ writer'.elem = Head(txDataQue) /\ UNCHANGED txBuf
    BY <1>4 DEF WriterGet, At, InHand
  <2>2. /\ Waiting # <<>> /\ Head(Waiting) = txBuf[Head(txDataQue)]
        /\ Tail(Waiting) = Contents(Tail(txDataQue), txBuf)
    BY <1>0, <2>1, ContentsTaken DEF Waiting
  <2>3. Waiting' = Tail(Waiting)
    BY <2>1, <2>2 DEF Waiting
  <2> QED BY <2>1, <2>2, <2>3 DEF InHand
<1>5. ASSUME IPC_TxFrame PROVE InHand # None /\ InHand' = None /\ UNCHANGED Waiting
  <2>1. /\ writer.pc = "send" /\ writer'.pc = "free" /\ UNCHANGED <<txDataQue, txBuf>>
    BY <1>5 DEF IPC_TxFrame, At, poolVars
  <2>2. txBuf[writer.elem] \in Frames
    BY <1>0, <2>1 DEF TxOwners, WriterHolds
  <2> QED BY <1>0, <2>1, <2>2 DEF InHand, Waiting
<1>6. CASE WriterPend \/ WriterFree \/ WriterSignal
  BY <1>1, <1>6 DEF WriterPend, WriterFree, WriterSignal, At, Quiet
<1>7. ASSUME UNCHANGED <<txDataQue, txBuf, writer>> PROVE UNCHANGED <<Waiting, InHand>>
  BY <1>1, <1>7
<1>8. ASSUME NEW p \in Notifiers, IPC_Notify(p) PROVE UNCHANGED <<Waiting, InHand>>
  BY <1>7, <1>8 DEF IPC_Notify
<1>9. ASSUME NEW p \in Posters, PostDequeue(p) \/ PostSignal(p)
      PROVE  UNCHANGED <<Waiting, InHand>>
  <2>1. UNCHANGED <<txDataQue, txBuf, writer>>
    BY <1>9 DEF PostDequeue, PostSignal
  <2> QED BY <1>7, <2>1
<1>10. ASSUME PostPend \/ PostTimeout \/ IPC_Handle_transaction
       PROVE  UNCHANGED <<Waiting, InHand>>
  BY <1>7, <1>10 DEF PostPend, PostTimeout, IPC_Handle_transaction, poolVars
<1>11. ASSUME UNCHANGED txVars PROVE UNCHANGED <<Waiting, InHand>>
  BY <1>7, <1>11 DEF txVars, poolVars
<1>12. CASE \/ IPCReaderTaskFxn \/ ReadError \/ \E f \in PeerFrames : IPC_RxFrame(f)
            \/ IPC_Message_pend \/ HandleOther \/ WorkerReplied \/ UNCHANGED vars
  <2>1. UNCHANGED txVars
    BY <1>12 DEF vars, IPCReaderTaskFxn, ReaderPend, ReaderDequeue, ReaderPut,
       ReaderSignal, ReadError, IPC_RxFrame, IPC_Message_pend, WorkerPend, WorkerGet,
       WorkerFree, WorkerCopy, WorkerSignal, HandleOther, WorkerReplied
  <2> QED BY <2>1, <1>11 DEF Quiet
<1> QED
  BY <1>2, <1>3, <1>4, <1>5, <1>6, <1>8, <1>9, <1>10, <1>12
  DEF Next, IPC_Message_post, IPCWriterTaskFxn, IPCWorkerTaskFxn, Quiet

(* How many messages there may be: a task that fills a buffer finds room.    *)
LEMMA TxRoom ==
  ASSUME ServerInv
  PROVE  /\ Len(Waiting) \in Nat
         /\ Len(Waiting) <= Window
         /\ writer.pc = "send" => Len(Waiting) + 1 <= Window
         /\ \A p \in Posters : Filling(p)
              => /\ Len(Waiting) < Window
                 /\ writer.pc = "send" => Len(Waiting) + 1 < Window
<1> DEFINE filling == Count({"copy", "put"})
           sending == One(WriterHolds)
<1>1. /\ Len(Waiting) = Len(txDataQue) /\ Len(txDataQue) \in Nat
      /\ Len(txFreeQue) \in Nat
  BY ContentsType, LenProperties DEF ServerInv, TypeInv, Waiting
<1>2. /\ filling \in Nat
      /\ \A p \in Posters : Filling(p) => filling > 0
  BY CountBounds DEF Filling
<1>3. sending \in {0, 1} /\ (writer.pc = "send" => sending = 1)
  BY DEF One, WriterHolds
<1>4. /\ Len(txFreeQue) + Len(txDataQue) + filling + sending = Window
      /\ Window \in Nat
  BY IPCAssumption DEF ServerInv, TxCounts
<1> HIDE DEF filling, sending
<1> QED BY <1>1, <1>2, <1>3, <1>4

(* A step of the transmit side is a step of its channel or none.             *)
LEMMA TxStep ==
  ASSUME ServerInv, [Next]_vars
  PROVE  [Tx!Next]_(Tx!vars)
<1> SUFFICES Tx!Next \/ UNCHANGED <<Waiting, InHand>>
  BY DEF Tx!vars, Waiting, InHand
<1> DEFINE hand == IF InHand = None THEN 0 ELSE 1
<1>1. ASSUME NEW p \in Posters, PostPut(p), post[p].frame \in Outgoing,
             Waiting' = Append(Waiting, post[p].frame), UNCHANGED InHand
      PROVE  Tx!Next
  <2>1. Filling(p)
    BY <1>1 DEF PostPut, Filling
  <2>2. Len(Waiting) + hand < Window
    BY <2>1, TxRoom DEF InHand
  <2>3. post[p].frame \notin UrgentOf(Outgoing)
    BY <1>1, OutgoingFrames DEF UrgentOf
  <2>4. Tx!Put(post[p].frame)
    BY <1>1, <2>2, <2>3 DEF Tx!Put, Tx!InHand, Waiting, InHand
  <2> QED BY <1>1, <2>4 DEF Tx!Next
<1>2. ASSUME InHand = None, Waiting # <<>>, InHand' = Head(Waiting),
             Waiting' = Tail(Waiting)
      PROVE  Tx!Next
  BY <1>2 DEF Tx!Next, Tx!Take, Waiting, InHand
<1>3. ASSUME InHand # None, InHand' = None, UNCHANGED Waiting PROVE Tx!Next
  BY <1>3 DEF Tx!Next, Tx!Deliver, Waiting, InHand
<1> QED BY <1>1, <1>2, <1>3, TxMoves

(* Every message the firmware posts is sent once, whole and in order.        *)
THEOREM TxImplementsChannel == Spec => TxInOrder
<1>1. Init => Tx!Init
  <2> SUFFICES ASSUME Init PROVE Tx!Init
    OBVIOUS
  <2>1. Contents(<<>>, txBuf) = <<>>
    BY DEF Contents
  <2> QED BY <2>1 DEF Init, Tx!Init, At
<1>2. ServerInv /\ [Next]_vars => [Tx!Next]_(Tx!vars)
  BY TxStep
<1> QED BY <1>1, <1>2, ServerInvHolds, PTL DEF Spec, TxInOrder, Tx!Spec

(* A step of the receive side is a step of its channel or none: a frame waits
   from the moment its buffer is queued, and is taken until the worker has
   copied it.                                                                *)
LEMMA RxStep ==
  ASSUME ServerInv, [Next]_vars
  PROVE  [Rx!Next]_(Rx!vars)
<1> DEFINE waiting == Contents(rxDataQue, rxBuf)
           taken == IF worker.pc \in {"free", "copy"} THEN rxBuf[worker.elem] ELSE None
           mapped == <<waiting, taken>>
<1> SUFFICES Rx!Next \/ UNCHANGED mapped
  BY DEF Rx!vars
<1>0. /\ TypeInv /\ RxCounts /\ RxOwners /\ ReadStages
      /\ rxFreeQue \in Seq(Buffers) /\ rxDataQue \in Seq(Buffers)
      /\ rxBuf \in [Buffers -> Incoming \cup {Damaged}] /\ Window \in Nat
      /\ Incoming \cup {Damaged} \subseteq Frames /\ None \notin Frames
  BY IPCAssumption, IncomingFrames DEF ServerInv, TypeInv
<1>00. /\ Len(waiting) = Len(rxDataQue) /\ Len(rxDataQue) \in Nat
       /\ Len(rxFreeQue) \in Nat
  BY <1>0, ContentsType, LenProperties
<1>1. ASSUME UNCHANGED <<rxDataQue, rxBuf, worker>> PROVE UNCHANGED mapped
  BY <1>1
<1>2. ASSUME reader.pc = "read", NEW f, rxBuf' = [rxBuf EXCEPT ![reader.elem] = f],
             UNCHANGED <<rxDataQue, worker>>
      PROVE  UNCHANGED mapped
  <2>1. /\ ReaderHolds /\ ~InQue(reader.elem, rxDataQue)
        /\ \A b \in Buffers : b # reader.elem => rxBuf'[b] = rxBuf[b]
    BY <1>0, <1>2 DEF RxOwners, ReaderHolds
  <2>2. \A b : InQue(b, rxDataQue) => b \in Buffers
    BY <1>0, ElementOfSeq DEF InQue
  <2>3. UNCHANGED waiting
    BY <1>0, <1>2, <2>1, <2>2, ContentsElsewhere
  <2>4. worker.pc \in {"free", "copy"}
          => worker.elem \in Buffers /\ worker.elem # reader.elem
    BY <2>1, WorkerBufferIsPrivate
  <2>5. UNCHANGED taken
    BY <1>2, <2>1, <2>4
  <2> QED BY <2>3, <2>5
<1>3. CASE ReadError
  BY <1>2, <1>3 DEF ReadError
<1>4. ASSUME NEW f \in PeerFrames, IPC_RxFrame(f) PROVE UNCHANGED mapped
  <2>1. /\ reader.pc = "read" /\ UNCHANGED <<rxDataQue, worker>>
        /\ rxBuf' = [rxBuf EXCEPT ![reader.elem] = Stored(rxBuf[reader.elem], f)]
    BY <1>0, <1>4 DEF IPC_RxFrame
  <2> QED BY <1>2, <2>1
<1>5. CASE ReaderPut
  <2> DEFINE e == reader.elem
             m == rxBuf[e]
  <2>1. /\ reader.pc = "put" /\ rxDataQue' = PutQue(rxDataQue, e, m)
        /\ UNCHANGED <<rxBuf, worker>>
    BY <1>5 DEF ReaderPut
  <2>2. m \in Incoming /\ e \in Buffers
    BY <1>0, <2>1 DEF ReadStages, RxOwners, ReaderHolds
  <2>4. m \in UrgentOf(Incoming) <=> "PRIORITY" \in m.flags
    BY <2>2 DEF UrgentOf
  <2>5. waiting' = IF m \in UrgentOf(Incoming) THEN <<m>> \o waiting
                   ELSE Append(waiting, m)
    <3>1. Contents(PutQue(rxDataQue, e, m), rxBuf)
            = IF "PRIORITY" \in m.flags THEN <<rxBuf[e]>> \o Contents(rxDataQue, rxBuf)
              ELSE Append(Contents(rxDataQue, rxBuf), rxBuf[e])
      <4> HIDE DEF e, m
      <4> QED BY <1>0, <2>2, ContentsPut
    <3> QED BY <2>1, <2>4, <3>1
  <2>6. UNCHANGED taken
    BY <2>1
  <2>7. Len(waiting) + (IF taken = None THEN 0 ELSE 1) < Window
    <3> DEFINE freed == One(worker.pc \in {"copy", "signal"})
               taking == One(worker.pc = "free")
               hand == IF taken = None THEN 0 ELSE 1
    <3>1. /\ freed \in Nat /\ taking \in Nat /\ hand \in Nat
          /\ hand <= taking + freed
      BY DEF One
    <3>2. Len(rxFreeQue) >= freed
      BY <1>0, <1>00, <2>1 DEF RxCounts, TypeInv, One
    <3>3. Len(rxFreeQue) + Len(rxDataQue) + 1 + taking = Window
      BY <1>0, <2>1 DEF RxCounts, One, ReaderHolds
    <3> HIDE DEF waiting, hand, taking, freed
    <3>4. Len(waiting) + hand < Window
      BY <1>0, <1>00, <3>1, <3>2, <3>3
    <3> QED BY <3>4 DEF hand
  <2>8. Rx!Put(m)
    BY <2>5, <2>6, <2>7 DEF Rx!Put, Rx!InHand
  <2> QED BY <2>2, <2>8 DEF Rx!Next
<1>6. CASE WorkerGet
  <2>1. /\ taken = None /\ rxDataQue # <<>> /\ rxDataQue' = Tail(rxDataQue)
        /\ worker'.pc = "free" /\ worker'.elem = Head(rxDataQue) /\ UNCHANGED rxBuf
    BY <1>6 DEF WorkerGet, At
  <2>2. /\ waiting # <<>> /\ Head(waiting) = rxBuf[Head(rxDataQue)]
        /\ Tail(waiting) = Contents(Tail(rxDataQue), rxBuf)
    BY <1>0, <2>1, ContentsTaken
  <2>3. Rx!Take
    BY <2>1, <2>2 DEF Rx!Take
  <2> QED BY <2>3 DEF Rx!Next
<1>7. CASE WorkerFree
  BY <1>7 DEF WorkerFree, At
<1>8. CASE WorkerCopy
  <2>1. /\ worker.pc = "copy" /\ worker'.pc = "signal" /\ UNCHANGED <<rxDataQue, rxBuf>>
    BY <1>8 DEF WorkerCopy, At
  <2>2. rxBuf[worker.elem] \in Frames
    BY <1>0, <2>1, WorkerBufferIsPrivate
  <2>3. Rx!Deliver
    BY <1>0, <2>1, <2>2 DEF Rx!Deliver
  <2> QED BY <2>3 DEF Rx!Next
<1>9. CASE WorkerPend \/ WorkerSignal \/ HandleOther \/ IPC_Handle_transaction
           \/ WorkerReplied
  BY <1>9 DEF WorkerPend, WorkerSignal, HandleOther, IPC_Handle_transaction,
     WorkerReplied, At
<1>10. CASE ReaderPend \/ ReaderSignal
  BY <1>1, <1>10 DEF ReaderPend, ReaderSignal
<1>11. CASE ReaderDequeue
  <2>1. UNCHANGED <<rxDataQue, rxBuf, worker>>
    BY <1>11 DEF ReaderDequeue
  <2> QED BY <1>1, <2>1
<1>12. CASE UNCHANGED rxVars
  BY <1>1, <1>12 DEF rxVars
<1>13. CASE \/ \E p \in Notifiers : IPC_Notify(p)
            \/ \E p \in Posters : IPC_Message_post(p)
            \/ PostPend \/ PostTimeout \/ IPCWriterTaskFxn \/ UNCHANGED vars
  BY <1>12, <1>13 DEF vars, IPC_Notify, IPC_Message_post, PostDequeue, PostCopy, PostPut,
     PostSignal, PostPend, PostTimeout, IPCWriterTaskFxn, WriterPend, WriterGet,
     IPC_TxFrame, WriterFree, WriterSignal
<1> HIDE DEF waiting, taken, mapped
<1> QED
  BY <1>3, <1>4, <1>5, <1>6, <1>7, <1>8, <1>9, <1>10, <1>11, <1>13
  DEF Next, IPCReaderTaskFxn, IPCWorkerTaskFxn, IPC_Message_pend

(* Every frame received without error is handled once, whole and in order but
   for the urgent ones, which overtake those that wait.                      *)
THEOREM RxImplementsChannel == Spec => RxInOrder
<1>1. Init => Rx!Init
  <2> SUFFICES ASSUME Init PROVE Rx!Init
    OBVIOUS
  <2>1. Contents(<<>>, rxBuf) = <<>>
    BY DEF Contents
  <2> QED BY <2>1 DEF Init, Rx!Init, At
<1>2. ServerInv /\ [Next]_vars => [Rx!Next]_(Rx!vars)
  BY RxStep
<1> QED BY <1>1, <1>2, ServerInvHolds, PTL DEF Spec, RxInOrder, Rx!Spec

-----------------------------------------------------------------------------
(* Replies on their way have numbers of their own                            *)

IsReply(f) == f.type = "MSG_ACK"

(* How many numbers ago a number was given, when the next one is n.          *)
Age(s, n) == IF s < n THEN n - s ELSE n + MaxSeq - s

(* Numbers of one age are one number.                                        *)
LEMMA AgeDistinct ==
  ASSUME NEW n \in 1..MaxSeq, NEW s \in 1..MaxSeq, NEW t \in 1..MaxSeq
  PROVE  Age(s, n) \in 1..MaxSeq /\ (Age(s, n) = Age(t, n) => s = t)
BY IPCAssumption DEF Age

(* IPC_INC_SEQ makes the number just given the youngest, and every other one
   older, until one would be as old as the range of numbers.                 *)
LEMMA AgeNext ==
  ASSUME NEW n \in 1..MaxSeq, NEW s \in 1..MaxSeq
  PROVE  /\ IPC_INC_SEQ(n) \in 1..MaxSeq
         /\ Age(n, IPC_INC_SEQ(n)) = 1
         /\ Age(s, n) < MaxSeq => Age(s, IPC_INC_SEQ(n)) = Age(s, n) + 1
BY IPCAssumption DEF Age, IPC_INC_SEQ

(* A reply was given its number more than k and at most `most` numbers ago.  *)
Aged(f, n, k, most) ==
  IsReply(f) => /\ f.seqnum \in 1..MaxSeq
                /\ Age(f.seqnum, n) > k /\ Age(f.seqnum, n) <= most

Older(f, g, n) ==
  IsReply(f) /\ IsReply(g) => Age(g.seqnum, n) < Age(f.seqnum, n)

(* The messages of a queue w when n is the next number and the last k numbers
   are not in use here: each reply is older than those behind it, and no older
   than what is behind it can account for.  So is one taken from its head.   *)
QueueInTurn(w, n, k) ==
  \A i \in 1..Len(w) :
    /\ Aged(w[i], n, k, Len(w) - i + 1 + k)
    /\ \A j \in 1..Len(w) : i < j => Older(w[i], w[j], n)
HandInTurn(h, w, n, k) ==
  /\ Aged(h, n, k, Len(w) + 1 + k)
  /\ \A j \in 1..Len(w) : Older(h, w[j], n)

(* A message that is no reply may join the queue at any time; the reply whose
   number was given last joins it behind all others.                         *)
LEMMA TurnOfPut ==
  ASSUME NEW n \in 1..MaxSeq, NEW k \in 0..1, NEW l \in 0..1,
         NEW S, NEW w \in Seq(S), NEW m \in S, QueueInTurn(w, n, k),
         \/ ~IsReply(m) /\ l = k
         \/ IsReply(m) /\ k = 1 /\ l = 0 /\ m.seqnum \in 1..MaxSeq /\ Age(m.seqnum, n) = 1
  PROVE  /\ QueueInTurn(Append(w, m), n, l)
         /\ \A h : HandInTurn(h, w, n, k) => HandInTurn(h, Append(w, m), n, l)
<1> DEFINE v == Append(w, m)
<1>0. /\ Len(w) \in Nat /\ Len(v) = Len(w) + 1 /\ v[Len(w) + 1] = m
      /\ \A i \in 1..Len(w) : v[i] = w[i]
  BY TailPut, LenProperties
<1>1. MaxSeq \in Nat /\ \A s \in 1..MaxSeq : Age(s, n) \in 1..MaxSeq
  BY AgeDistinct, IPCAssumption
<1>2. l <= k
  OBVIOUS
<1> HIDE DEF v
<1>3. ASSUME NEW f, NEW most \in Int, Aged(f, n, k, most)
      PROVE  Aged(f, n, l, most + 1 + l - k) /\ Older(f, m, n)
  <2>1. IsReply(f) => Age(f.seqnum, n) \in Int
    BY <1>1, <1>3 DEF Aged
  <2>2. Aged(f, n, l, most + 1 + l - k)
    BY <1>2, <1>3, <2>1 DEF Aged
  <2>3. Older(f, m, n)
    BY <1>3, <2>1 DEF Aged, Older
  <2> QED BY <2>2, <2>3
<1>4. ASSUME NEW i \in 1..Len(v) PROVE Aged(v[i], n, l, Len(v) - i + 1 + l)
  <2>1. CASE i \in 1..Len(w)
    <3>1. Aged(w[i], n, k, Len(w) - i + 1 + k)
      BY <2>1 DEF QueueInTurn
    <3>2. Aged(w[i], n, l, (Len(w) - i + 1 + k) + 1 + l - k)
      BY <1>0, <1>3, <2>1, <3>1
    <3>3. (Len(w) - i + 1 + k) + 1 + l - k = Len(v) - i + 1 + l
      BY <1>0
    <3> QED BY <1>0, <2>1, <3>2, <3>3
  <2>2. CASE i = Len(w) + 1
    BY <1>0, <1>1, <2>2 DEF Aged
  <2> QED BY <1>0, <2>1, <2>2
<1>5. ASSUME NEW i \in 1..Len(v), NEW j \in 1..Len(v), i < j PROVE Older(v[i], v[j], n)
  <2>1. i \in 1..Len(w)
    BY <1>0, <1>5
  <2>2. CASE j \in 1..Len(w)
    BY <1>0, <1>5, <2>1, <2>2 DEF QueueInTurn
  <2>3. CASE j = Len(w) + 1
    <3>1. Aged(w[i], n, k, Len(w) - i + 1 + k)
      BY <2>1 DEF QueueInTurn
    <3>2. Older(w[i], m, n)
      BY <1>0, <1>3, <2>1, <3>1
    <3> QED BY <1>0, <2>1, <2>3, <3>2
  <2> QED BY <1>0, <2>2, <2>3
<1>6. QueueInTurn(v, n, l)
  BY <1>4, <1>5 DEF QueueInTurn
<1>7. ASSUME NEW h, HandInTurn(h, w, n, k) PROVE HandInTurn(h, v, n, l)
  <2>1. Aged(h, n, k, Len(w) + 1 + k)
    BY <1>7 DEF HandInTurn
  <2>2. Aged(h, n, l, (Len(w) + 1 + k) + 1 + l - k) /\ Older(h, m, n)
    BY <1>0, <1>3, <2>1
  <2>3. (Len(w) + 1 + k) + 1 + l - k = Len(v) + 1 + l
    BY <1>0
  <2>4. \A j \in 1..Len(v) : Older(h, v[j], n)
    <3> SUFFICES ASSUME NEW j \in 1..Len(v) PROVE Older(h, v[j], n)
      OBVIOUS
    <3>1. CASE j \in 1..Len(w)
      BY <1>0, <1>7, <3>1 DEF HandInTurn
    <3>2. CASE j = Len(w) + 1
      BY <1>0, <2>2, <3>2
    <3> QED BY <1>0, <3>1, <3>2
  <2> QED BY <2>2, <2>3, <2>4 DEF HandInTurn
<1> QED BY <1>6, <1>7 DEF v

(* The message taken from the head is as old as it was.                      *)
LEMMA TurnOfTake ==
  ASSUME NEW n, NEW k \in 0..1, NEW S, NEW w \in Seq(S), w # <<>>, QueueInTurn(w, n, k)
  PROVE  QueueInTurn(Tail(w), n, k) /\ HandInTurn(Head(w), Tail(w), n, k)
<1> DEFINE v == Tail(w)
<1>0. /\ Len(w) \in Nat \ {0} /\ Len(v) = Len(w) - 1 /\ Head(w) = w[1]
      /\ \A i \in 1..(Len(w) - 1) : v[i] = w[i + 1]
  BY HeadTaken
<1> HIDE DEF v
<1>1. ASSUME NEW i \in 1..Len(v)
      PROVE  /\ Aged(v[i], n, k, Len(v) - i + 1 + k)
             /\ \A j \in 1..Len(v) : i < j => Older(v[i], v[j], n)
  <2>1. i + 1 \in 1..Len(w) /\ v[i] = w[i + 1]
    BY <1>0
  <2>2. Len(w) - (i + 1) + 1 + k = Len(v) - i + 1 + k
    BY <1>0
  <2>3. Aged(w[i + 1], n, k, Len(w) - (i + 1) + 1 + k)
    BY <2>1 DEF QueueInTurn
  <2>4. ASSUME NEW j \in 1..Len(v), i < j PROVE Older(v[i], v[j], n)
    <3>1. j + 1 \in 1..Len(w) /\ v[j] = w[j + 1] /\ i + 1 < j + 1
      BY <1>0, <2>4
    <3> QED BY <2>1, <3>1 DEF QueueInTurn
  <2> QED BY <2>1, <2>2, <2>3, <2>4
<1>2. Aged(w[1], n, k, Len(w) - 1 + 1 + k) /\ 1 \in 1..Len(w)
  BY <1>0 DEF QueueInTurn
<1>3. Len(w) - 1 + 1 + k = Len(v) + 1 + k
  BY <1>0
<1>4. ASSUME NEW j \in 1..Len(v) PROVE Older(w[1], v[j], n)
  <2>1. j + 1 \in 1..Len(w) /\ v[j] = w[j + 1] /\ 1 < j + 1
    BY <1>0
  <2> QED BY <1>2, <2>1 DEF QueueInTurn
<1> QED BY <1>0, <1>1, <1>2, <1>3, <1>4 DEF QueueInTurn, HandInTurn, v

(* Giving a number ages every reply by one: none is as old as the range of
   numbers, which is larger than the window.                                 *)
LEMMA TurnOfNumber ==
  ASSUME NEW n \in 1..MaxSeq, NEW S, NEW w \in Seq(S), Len(w) <= Window
  PROVE  QueueInTurn(w, n, 0) =>
           /\ QueueInTurn(w, IPC_INC_SEQ(n), 1)
           /\ \A h : HandInTurn(h, w, n, 0) /\ Len(w) + 1 <= Window
                => HandInTurn(h, w, IPC_INC_SEQ(n), 1)
<1> DEFINE next == IPC_INC_SEQ(n)
<1>0. /\ Len(w) \in Nat /\ Window \in Nat /\ MaxSeq \in Nat /\ Window < MaxSeq
  BY IPCAssumption, LenProperties
<1>1. \A s \in 1..MaxSeq :
        Age(s, n) \in 1..MaxSeq /\ (Age(s, n) < MaxSeq => Age(s, next) = Age(s, n) + 1)
  BY AgeDistinct, AgeNext
<1> HIDE DEF next
<1>2. ASSUME NEW f, NEW most \in Int, most <= Window, Aged(f, n, 0, most)
      PROVE  /\ Aged(f, next, 1, most + 1)
             /\ IsReply(f) => Age(f.seqnum, next) = Age(f.seqnum, n) + 1
  <2> DEFINE a == Age(f.seqnum, n)
  <2>1. IsReply(f) => /\ f.seqnum \in 1..MaxSeq /\ a \in 1..MaxSeq
                      /\ a <= most /\ (a < MaxSeq => Age(f.seqnum, next) = a + 1)
    BY <1>1, <1>2 DEF Aged
  <2>2. IsReply(f) => a < MaxSeq
    <3> HIDE DEF a
    <3> QED BY <1>0, <1>2, <2>1
  <2>3. IsReply(f) => Age(f.seqnum, next) = a + 1
    BY <2>1, <2>2
  <2> HIDE DEF a
  <2>4. Aged(f, next, 1, most + 1)
    BY <1>0, <2>1, <2>3 DEF Aged
  <2> QED BY <2>3, <2>4 DEF a
<1>3. ASSUME NEW f, NEW most \in Int, most <= Window, Aged(f, n, 0, most),
             NEW g, NEW least \in Int, least <= Window, Aged(g, n, 0, least),
             Older(f, g, n)
      PROVE  Older(f, g, next)
  <2>1. IsReply(f) => f.seqnum \in 1..MaxSeq /\ Age(f.seqnum, next) = Age(f.seqnum, n) + 1
    BY <1>2, <1>3 DEF Aged
  <2>2. IsReply(g) => g.seqnum \in 1..MaxSeq /\ Age(g.seqnum, next) = Age(g.seqnum, n) + 1
    BY <1>2, <1>3 DEF Aged
  <2> QED BY <1>0, <1>1, <1>3, <2>1, <2>2 DEF Older
<1>4. ASSUME QueueInTurn(w, n, 0)
      PROVE  \A i \in 1..Len(w) : /\ Aged(w[i], n, 0, Len(w) - i + 1)
                                  /\ Len(w) - i + 1 \in Int /\ Len(w) - i + 1 <= Window
  <2> SUFFICES ASSUME NEW i \in 1..Len(w)
               PROVE  /\ Aged(w[i], n, 0, Len(w) - i + 1)
                      /\ Len(w) - i + 1 \in Int /\ Len(w) - i + 1 <= Window
    OBVIOUS
  <2>1. Aged(w[i], n, 0, Len(w) - i + 1 + 0)
    BY <1>4 DEF QueueInTurn
  <2>2. Len(w) - i + 1 + 0 = Len(w) - i + 1
    BY <1>0
  <2> QED BY <1>0, <2>1, <2>2
<1>5. ASSUME QueueInTurn(w, n, 0) PROVE QueueInTurn(w, next, 1)
  <2>1. ASSUME NEW i \in 1..Len(w) PROVE Aged(w[i], next, 1, Len(w) - i + 1 + 1)
    BY <1>2, <1>4, <1>5
  <2>2. ASSUME NEW i \in 1..Len(w), NEW j \in 1..Len(w), i < j
        PROVE  Older(w[i], w[j], next)
    <3>1. Older(w[i], w[j], n)
      BY <1>5, <2>2 DEF QueueInTurn
    <3> QED BY <1>3, <1>4, <1>5, <3>1
  <2> QED BY <2>1, <2>2 DEF QueueInTurn
<1>6. ASSUME NEW h, HandInTurn(h, w, n, 0), QueueInTurn(w, n, 0), Len(w) + 1 <= Window
      PROVE  HandInTurn(h, w, next, 1)
  <2>1. Aged(h, n, 0, Len(w) + 1) /\ Len(w) + 1 \in Int
    <3>1. Aged(h, n, 0, Len(w) + 1 + 0) /\ Len(w) + 1 + 0 = Len(w) + 1
      BY <1>0, <1>6 DEF HandInTurn
    <3> QED BY <1>0, <3>1
  <2>2. Aged(h, next, 1, Len(w) + 1 + 1)
    BY <1>2, <1>6, <2>1
  <2>3. ASSUME NEW j \in 1..Len(w) PROVE Older(h, w[j], next)
    <3>1. Older(h, w[j], n)
      BY <1>6 DEF HandInTurn
    <3> QED BY <1>3, <1>4, <1>6, <2>1, <3>1
  <2> QED BY <2>2, <2>3 DEF HandInTurn
<1> QED BY <1>5, <1>6 DEF next

(* The replies of the transmit side are in turn; the one that the worker is
   posting has the last number given.                                        *)
Carrying(p) == post[p].pc \in {"pend", "dequeue", "copy", "put"}
Pending == One(Carrying(Worker))

RepliesInTurn ==
  /\ \A p \in Posters : Carrying(p) => (IsReply(post[p].frame) <=> p = Worker)
  /\ Carrying(Worker) => /\ post[Worker].frame.seqnum \in 1..MaxSeq
                         /\ Age(post[Worker].frame.seqnum, txNextSeq) = 1
  /\ QueueInTurn(Waiting, txNextSeq, Pending)
  /\ writer.pc = "send" => HandInTurn(InHand, Waiting, txNextSeq, Pending)

(* The sequence of messages that wait, and the numbers, are what they should be. *)
LEMMA WaitingType ==
  ASSUME ServerInv
  PROVE  /\ Waiting \in Seq(Carried(Buffers, txBuf))
         /\ Carried(Buffers, txBuf) \subseteq Frames
         /\ Len(Waiting) \in Nat
         /\ txNextSeq \in 1..MaxSeq /\ Pending \in 0..1
<1>1. /\ txDataQue \in Seq(Buffers) /\ txBuf \in [Buffers -> Frames]
      /\ txNextSeq \in 1..MaxSeq
  BY DEF ServerInv, TypeInv
<1>2. Carried(Buffers, txBuf) \subseteq Frames
  BY <1>1 DEF Carried
<1> QED BY <1>1, <1>2, ContentsType, LenProperties DEF Waiting, Pending, One

(* The steps that move no message keep the replies in turn: a number is given
   only when none is pending, and a reply that has one is not given up.      *)
LEMMA RepliesQuiet ==
  ASSUME ServerInv, [Next]_vars, ~ReplyTimesOut, RepliesInTurn,
         Quiet, UNCHANGED <<Waiting, InHand>>
  PROVE  RepliesInTurn'
<1>0. /\ TypeInv /\ PostStages /\ post \in [Posters -> Calls]
      /\ Worker \in Posters /\ Worker \notin Notifiers
  BY PostersFinite, IPCAssumption DEF ServerInv, TypeInv
<1>1. ASSUME NEW p \in Posters, \A q \in Posters \ {p} : post'[q] = post[q],
             Carrying(p)' => IsReply(post'[p].frame) <=> p = Worker,
             p = Worker => /\ Carrying(p)' = Carrying(p)
                           /\ Carrying(p) => post'[p].frame = post[p].frame,
             UNCHANGED txNextSeq, writer'.pc = "send" <=> writer.pc = "send"
      PROVE  RepliesInTurn'
  <2>1. Carrying(Worker)' = Carrying(Worker)
    BY <1>0, <1>1 DEF Carrying
  <2>2. Pending' = Pending
    BY <2>1 DEF Pending
  <2>3. \A q \in Posters : Carrying(q)' => (IsReply(post'[q].frame) <=> q = Worker)
    BY <1>1 DEF RepliesInTurn, Carrying
  <2>4. Carrying(Worker)' => post'[Worker].frame = post[Worker].frame
    BY <1>0, <1>1, <2>1
  <2>5. /\ QueueInTurn(Waiting', txNextSeq', Pending')
        /\ writer'.pc = "send" => HandInTurn(InHand', Waiting', txNextSeq', Pending')
    BY <1>1, <2>2 DEF RepliesInTurn
  <2>6. Carrying(Worker)' => /\ post'[Worker].frame.seqnum \in 1..MaxSeq
                             /\ Age(post'[Worker].frame.seqnum, txNextSeq') = 1
    BY <1>1, <2>1, <2>4 DEF RepliesInTurn
  <2> QED BY <2>3, <2>5, <2>6 DEF RepliesInTurn
<1>2. ASSUME UNCHANGED <<post, txNextSeq>>, writer'.pc = "send" <=> writer.pc = "send"
      PROVE  RepliesInTurn'
  BY <1>0, <1>1, <1>2 DEF RepliesInTurn, Carrying
<1>3. ASSUME NEW p \in Notifiers, IPC_Notify(p) PROVE RepliesInTurn'
  <2>1. p \in Posters /\ p # Worker
    BY <1>0 DEF Posters
  <2>2. /\ \A q \in Posters \ {p} : post'[q] = post[q]
        /\ post'[p].frame = Notification(p) /\ UNCHANGED <<txNextSeq, writer>>
    BY <1>0, <1>3, <2>1 DEF IPC_Notify
  <2>3. ~IsReply(Notification(p))
    BY DEF IsReply, Notification, Frame
  <2> QED BY <1>1, <2>1, <2>2, <2>3
<1>4. CASE PostPend
  <2>1. /\ \A q \in Posters \ {Worker} : post'[q] = post[q]
        /\ post[Worker].pc = "pend" /\ post'[Worker].pc = "dequeue"
        /\ post'[Worker].frame = post[Worker].frame /\ UNCHANGED <<txNextSeq, writer>>
    BY <1>0, <1>4 DEF PostPend, Calls
  <2>2. Carrying(Worker) /\ Carrying(Worker)'
    BY <2>1 DEF Carrying
  <2>3. IsReply(post'[Worker].frame)
    BY <1>0, <2>1, <2>2 DEF RepliesInTurn
  <2> QED BY <1>0, <1>1, <2>1, <2>2, <2>3
<1>5. ~PostTimeout
  BY DEF PostTimeout
<1>6. ASSUME NEW p \in Posters, PostDequeue(p) PROVE RepliesInTurn'
  <2>1. post[p].pc = "dequeue" /\ UNCHANGED <<txNextSeq, writer>>
    BY <1>6 DEF PostDequeue
  <2>2. txFreeQue # <<>>
    <3> DEFINE free == Count({"dequeue"})
               signalled == One(writer.pc = "signal")
    <3>1. /\ Len(txFreeQue) = txFreeSem + free + signalled
          /\ txFreeSem \in Nat /\ Len(<<>>) = 0
      BY DEF ServerInv, TxCounts, TypeInv
    <3>2. free \in Nat /\ free > 0
      BY <2>1, CountBounds
    <3>3. signalled \in Nat
      BY DEF One
    <3> HIDE DEF free, signalled
    <3> QED BY <3>1, <3>2, <3>3
  <2>3. post' = [post EXCEPT ![p].pc = "copy", ![p].elem = Head(txFreeQue)]
    BY <1>6, <2>2 DEF PostDequeue
  <2>4. /\ \A q \in Posters \ {p} : post'[q] = post[q]
        /\ post'[p].pc = "copy" /\ post'[p].frame = post[p].frame
    BY <1>0, <2>3 DEF Calls
  <2>5. Carrying(p) /\ Carrying(p)'
    BY <2>1, <2>4 DEF Carrying
  <2>6. IsReply(post'[p].frame) <=> p = Worker
    BY <2>4, <2>5 DEF RepliesInTurn
  <2> QED BY <1>1, <2>1, <2>4, <2>5, <2>6
<1>7. ASSUME NEW p \in Posters, PostCopy(p) PROVE RepliesInTurn'
  <2>1. /\ \A q \in Posters \ {p} : post'[q] = post[q]
        /\ post[p].pc = "copy" /\ post'[p].pc = "put"
        /\ post'[p].frame = post[p].frame /\ UNCHANGED <<txNextSeq, writer>>
    BY <1>0, <1>7 DEF PostCopy, Calls
  <2>2. Carrying(p) /\ Carrying(p)'
    BY <2>1 DEF Carrying
  <2>3. IsReply(post'[p].frame) <=> p = Worker
    BY <2>1, <2>2 DEF RepliesInTurn
  <2> QED BY <1>1, <2>1, <2>2, <2>3
<1>8. ASSUME NEW p \in Posters, PostSignal(p) PROVE RepliesInTurn'
  <2>1. /\ \A q \in Posters \ {p} : post'[q] = post[q]
        /\ post[p].pc = "signal" /\ post'[p].pc = "idle"
        /\ UNCHANGED <<txNextSeq, writer>>
    BY <1>0, <1>8 DEF PostSignal, Idle
  <2>2. ~Carrying(p) /\ ~Carrying(p)' /\ Carrying(p)' = Carrying(p)
    BY <2>1 DEF Carrying
  <2> QED BY <1>1, <2>1, <2>2
<1>9. CASE IPC_Handle_transaction
  <2> DEFINE n == txNextSeq
             next == IPC_INC_SEQ(n)
  <2>1. /\ post[Worker].pc = "idle" /\ post'[Worker].pc = "pend"
        /\ \A q \in Posters \ {Worker} : post'[q] = post[q]
        /\ post'[Worker].frame = Reply(received, n)
        /\ txNextSeq' = next /\ UNCHANGED writer
    BY <1>0, <1>9 DEF IPC_Handle_transaction, PostStages
  <2>2. Pending = 0 /\ Pending' = 1
    BY <2>1 DEF Pending, Carrying, One
  <2>3. /\ IsReply(post'[Worker].frame) /\ post'[Worker].frame.seqnum = n
    BY <2>1 DEF IsReply, Reply, Frame
  <2>4. n \in 1..MaxSeq /\ Age(n, next) = 1
    BY WaitingType, AgeNext
  <2>5. \A q \in Posters : Carrying(q)' => (IsReply(post'[q].frame) <=> q = Worker)
    BY <2>1, <2>3 DEF RepliesInTurn, Carrying
  <2>6. QueueInTurn(Waiting, n, 0)
    BY <2>2 DEF RepliesInTurn
  <2>7. QueueInTurn(Waiting, next, 1)
    BY <2>4, <2>6, TurnOfNumber, WaitingType, TxRoom
  <2>8. ASSUME writer.pc = "send" PROVE HandInTurn(InHand, Waiting, next, 1)
    <3>1. HandInTurn(InHand, Waiting, n, 0)
      BY <2>2, <2>8 DEF RepliesInTurn
    <3> QED BY <2>4, <2>6, <2>8, <3>1, TurnOfNumber, WaitingType, TxRoom
  <2>9. /\ post'[Worker].frame.seqnum \in 1..MaxSeq
        /\ Age(post'[Worker].frame.seqnum, txNextSeq') = 1
    BY <2>1, <2>3, <2>4
  <2>10. QueueInTurn(Waiting', txNextSeq', Pending')
    BY <2>1, <2>2, <2>7
  <2>11. writer'.pc = "send" => HandInTurn(InHand', Waiting', txNextSeq', Pending')
    BY <2>1, <2>2, <2>8
  <2> QED BY <2>5, <2>9, <2>10, <2>11 DEF RepliesInTurn
<1>10. CASE WriterPend \/ WriterFree \/ WriterSignal
  BY <1>2, <1>10 DEF WriterPend, WriterFree, WriterSignal, At
<1>11. CASE UNCHANGED txVars
  BY <1>2, <1>11 DEF txVars
<1> QED BY <1>3, <1>4, <1>5, <1>6, <1>7, <1>8, <1>9, <1>10, <1>11 DEF Quiet

(* Every step keeps the replies in turn.                                     *)
LEMMA RepliesStep ==
  ASSUME ServerInv, [Next]_vars, ~ReplyTimesOut, RepliesInTurn
  PROVE  RepliesInTurn'
<1>0. /\ PostStages /\ post \in [Posters -> Calls] /\ Worker \in Posters
  BY PostersFinite DEF ServerInv, TypeInv
<1>1. ASSUME NEW p \in Posters, PostPut(p), post[p].frame \in Outgoing,
             Waiting' = Append(Waiting, post[p].frame),
             UNCHANGED <<InHand, writer, txNextSeq>>
      PROVE  RepliesInTurn'
  <2> DEFINE m == post[p].frame
  <2>1. /\ \A q \in Posters \ {p} : post'[q] = post[q]
        /\ post[p].pc = "put" /\ post'[p].pc = "signal"
        /\ txBuf[post[p].elem] = m
    BY <1>0, <1>1 DEF PostPut, PostStages
  <2>2. Carrying(p) /\ ~Carrying(p)' /\ \A q \in Posters \ {p} : Carrying(q)' = Carrying(q)
    BY <2>1 DEF Carrying
  <2>3. /\ \A q \in Posters : Carrying(q)' => (IsReply(post'[q].frame) <=> q = Worker)
        /\ Carrying(Worker)' => /\ post'[Worker].frame.seqnum \in 1..MaxSeq
                                /\ Age(post'[Worker].frame.seqnum, txNextSeq') = 1
    BY <1>0, <1>1, <2>1, <2>2 DEF RepliesInTurn
  <2>4. \/ ~IsReply(m) /\ Pending' = Pending
        \/ /\ IsReply(m) /\ Pending = 1 /\ Pending' = 0
           /\ m.seqnum \in 1..MaxSeq /\ Age(m.seqnum, txNextSeq) = 1
    <3>1. CASE p = Worker
      BY <1>0, <2>2, <3>1 DEF RepliesInTurn, Pending, One
    <3>2. CASE p # Worker
      BY <1>0, <2>2, <3>2 DEF RepliesInTurn, Pending
    <3> QED BY <3>1, <3>2
  <2>5. m \in Carried(Buffers, txBuf)
    <3>1. post[p].elem \in Buffers
      BY <2>1 DEF ServerInv, TxOwners, Filling
    <3> QED BY <2>1, <3>1 DEF Carried
  <2>6. Pending' \in 0..1
    BY DEF Pending, One
  <2>7. QueueInTurn(Waiting, txNextSeq, Pending)
    BY DEF RepliesInTurn
  <2> HIDE DEF m
  <2>8. /\ QueueInTurn(Append(Waiting, m), txNextSeq, Pending')
        /\ \A h : HandInTurn(h, Waiting, txNextSeq, Pending)
             => HandInTurn(h, Append(Waiting, m), txNextSeq, Pending')
    BY <2>4, <2>5, <2>6, <2>7, TurnOfPut, WaitingType
  <2>9. /\ QueueInTurn(Waiting', txNextSeq', Pending')
        /\ writer'.pc = "send" => HandInTurn(InHand', Waiting', txNextSeq', Pending')
    BY <1>1, <2>8 DEF RepliesInTurn, m
  <2> QED BY <2>3, <2>9 DEF RepliesInTurn
<1>2. ASSUME WriterGet, Waiting # <<>>, InHand' = Head(Waiting), Waiting' = Tail(Waiting)
      PROVE  RepliesInTurn'
  <2>1. UNCHANGED <<post, txNextSeq>>
    BY <1>2 DEF WriterGet
  <2>2. Pending' = Pending
    BY <2>1 DEF Pending, Carrying
  <2>3. QueueInTurn(Waiting, txNextSeq, Pending)
    BY DEF RepliesInTurn
  <2>4. /\ QueueInTurn(Tail(Waiting), txNextSeq, Pending)
        /\ HandInTurn(Head(Waiting), Tail(Waiting), txNextSeq, Pending)
    BY <1>2, <2>3, TurnOfTake, WaitingType
  <2> QED BY <1>2, <2>1, <2>2, <2>4 DEF RepliesInTurn, Carrying
<1>3. ASSUME IPC_TxFrame, UNCHANGED Waiting PROVE RepliesInTurn'
  <2>1. UNCHANGED <<post, txNextSeq>> /\ writer'.pc # "send"
    BY <1>3 DEF IPC_TxFrame, At
  <2> QED BY <1>3, <2>1 DEF RepliesInTurn, Carrying, Pending
<1>4. CASE Quiet /\ UNCHANGED <<Waiting, InHand>>
  BY <1>4, RepliesQuiet
<1> QED BY <1>1, <1>2, <1>3, <1>4, TxMoves

(* Replies on their way never share a number, for a window of any size below
   the range of numbers, if no reply is given up for want of a buffer: a reply
   that is given up has used its number, and enough of them bring the numbers
   round to one that still waits (IPC_Handle_transaction).                   *)
THEOREM RepliesHaveTheirOwnNumbers == ~ReplyTimesOut /\ Spec => []SeqnumsDistinct
<1> SUFFICES ASSUME ~ReplyTimesOut PROVE Spec => []SeqnumsDistinct
  OBVIOUS
<1>1. Init => RepliesInTurn
  <2> SUFFICES ASSUME Init PROVE RepliesInTurn
    OBVIOUS
  <2>1. \A p \in Posters : ~Carrying(p)
    BY DEF Init, Idle, Carrying
  <2>2. Len(Waiting) = 0 /\ writer.pc # "send"
    BY DEF Init, Waiting, Contents, At
  <2> QED BY <2>1, <2>2, PostersFinite DEF RepliesInTurn, QueueInTurn
<1>2. ServerInv /\ [Next]_vars /\ RepliesInTurn => RepliesInTurn'
  BY RepliesStep
<1>3. ServerInv /\ RepliesInTurn => SeqnumsDistinct
  <2> SUFFICES ASSUME ServerInv, RepliesInTurn,
                      NEW x \in OutFrames, NEW y \in OutFrames, x # y,
                      IsReply(x.frame), IsReply(y.frame)
               PROVE  x.frame.seqnum # y.frame.seqnum
    BY DEF SeqnumsDistinct, IsReply
  <2> DEFINE n == txNextSeq
  <2>0. /\ Len(Waiting) = Len(txDataQue) /\ Len(txDataQue) \in Nat
        /\ \A i \in 1..Len(txDataQue) : Waiting[i] = txBuf[txDataQue[i]]
    BY ContentsType, LenProperties DEF ServerInv, TypeInv, Waiting
  <2>1. ASSUME NEW f, NEW g, IsReply(f), IsReply(g), Older(f, g, n),
               f.seqnum \in 1..MaxSeq
        PROVE  f.seqnum # g.seqnum
    <3>1. Age(f.seqnum, n) \in 1..MaxSeq
      BY <2>1, AgeDistinct, WaitingType
    <3> QED BY <2>1, <3>1 DEF Older
  <2>2. ASSUME NEW i \in 1..Len(txDataQue), NEW j \in 1..Len(txDataQue), i # j,
               IsReply(Waiting[i]), IsReply(Waiting[j])
        PROVE  Waiting[i].seqnum # Waiting[j].seqnum
    <3>1. /\ Waiting[i].seqnum \in 1..MaxSeq /\ Waiting[j].seqnum \in 1..MaxSeq
          /\ i < j => Older(Waiting[i], Waiting[j], n)
          /\ j < i => Older(Waiting[j], Waiting[i], n)
      BY <2>0, <2>2 DEF RepliesInTurn, QueueInTurn, Aged
    <3>2. CASE i < j
      BY <2>1, <2>2, <3>1, <3>2
    <3>3. CASE j < i
      BY <2>1, <2>2, <3>1, <3>3
    <3> QED BY <2>0, <2>2, <3>2, <3>3
  <2>3. ASSUME writer.pc = "send", NEW j \in 1..Len(txDataQue),
               IsReply(InHand), IsReply(Waiting[j])
        PROVE  InHand.seqnum # Waiting[j].seqnum
    <3>1. InHand.seqnum \in 1..MaxSeq /\ Older(InHand, Waiting[j], n)
      BY <2>0, <2>3 DEF RepliesInTurn, HandInTurn, Aged
    <3> QED BY <2>1, <2>3, <3>1
  <2> DEFINE queued(i) == [at |-> txDataQue[i], frame |-> txBuf[txDataQue[i]]]
             sent == [at |-> writer.elem, frame |-> txBuf[writer.elem]]
  <2>4. ASSUME NEW z \in OutFrames
        PROVE  \/ \E i \in 1..Len(txDataQue) : z = queued(i)
               \/ writer.pc = "send" /\ z = sent
    BY <2>4 DEF OutFrames
  <2>5. CASE \E i \in 1..Len(txDataQue) : x = queued(i)
    <3>1. PICK i \in 1..Len(txDataQue) : x = queued(i)
      BY <2>5
    <3>2. CASE \E j \in 1..Len(txDataQue) : y = queued(j)
      <4>1. PICK j \in 1..Len(txDataQue) : y = queued(j)
        BY <3>2
      <4>2. i # j
        BY <3>1, <4>1
      <4>3. x.frame = Waiting[i] /\ y.frame = Waiting[j]
        BY <2>0, <3>1, <4>1
      <4> QED BY <2>2, <4>2, <4>3
    <3>3. CASE writer.pc = "send" /\ y = sent
      <4>1. x.frame = Waiting[i] /\ y.frame = InHand
        BY <2>0, <3>1, <3>3 DEF InHand
      <4> QED BY <2>3, <3>3, <4>1
    <3> QED BY <2>4, <3>2, <3>3
  <2>6. CASE writer.pc = "send" /\ x = sent
    <3>1. PICK j \in 1..Len(txDataQue) : y = queued(j)
      BY <2>4, <2>6
    <3>2. x.frame = InHand /\ y.frame = Waiting[j]
      BY <2>0, <2>6, <3>1 DEF InHand
    <3> QED BY <2>3, <2>6, <3>2
  <2> QED BY <2>4, <2>5, <2>6
<1> QED BY <1>1, <1>2, <1>3, ServerInvHolds, PTL DEF Spec

=============================================================================
