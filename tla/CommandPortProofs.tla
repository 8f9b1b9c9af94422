------------------------- MODULE CommandPortProofs -------------------------
(***************************************************************************)
(* Proofs about CommandPort, for every set of configurations and requests  *)
(* and any bound of noise and power cuts.                                  *)
(*                                                                         *)
(* What the STC may rely on rests on two orders: requests are taken in the *)
(* order they were sent, so that an answer to the last one says that no    *)
(* other is left, and the words of a save are written in order.  The       *)
(* numbers of the requests must tell them apart: NumbersAreFresh is shown  *)
(* of an STC that lets its line run empty before it sends again, and is    *)
(* assumed otherwise.                                                      *)
(***************************************************************************)
EXTENDS CommandPort, SequenceTheorems, TLAPS

BodyAt(i) == wire[i].kind = "body"
NoBody == \A i \in 1..Len(wire) : ~BodyAt(i)
Busy == port.pc \in {"handle", "save", "reply"}

Outstanding(n) ==
  \/ \E i \in 1..Len(wire) : BodyAt(i) /\ wire[i].frame.seqnum = n
  \/ Busy /\ port.frame.seqnum = n
  \/ \E i \in 1..Len(replies) : replies[i].acknak = n

(* A number is not used again while a request or a reply carries it.         *)
NumbersAreFresh ==
  stc.pc = "idle" /\ Len(wire) + Len(replies) < MaxWire
    => ~Outstanding(stc.seqnum)

-----------------------------------------------------------------------------
(* What a request that has been carried out has done.                        *)
Done(msg, error) ==
  /\ msg.op = "CONFIG_SET" => g_sys = msg.config
  /\ msg.op = "EPROM_STORE" /\ ~error => eeprom = g_sys /\ g_sys.head = TRUE

(* What a handler works on, and how far a save has come.                     *)
HandlerInv ==
  /\ Busy => port.frame \in Frames
  /\ stc.pc = "wait" => stc.msg \in Requests
  /\ port.pc \in {"save", "boot"} =>
       /\ g_sys.head = TRUE
       /\ saving \in {Words, <<"lo", "hi">>, <<"hi">>}
       /\ saving # Words => eeprom.head = g_sys.head
       /\ saving = <<"hi">> => eeprom.lo = g_sys.lo
  /\ port.pc = "save" => port.frame.msg.op \in Eprom
  /\ port.pc = "reply" => Done(port.frame.msg, port.error)

(* The request the STC waits for is the last one on its way, wherever it is;
   with its answer on its way nothing else is.                               *)
OrderInv ==
  stc.pc = "wait" =>
    /\ \A i \in 1..Len(wire) :
         BodyAt(i) /\ wire[i].frame.seqnum = stc.seqnum =>
           /\ wire[i].frame.msg = stc.msg
           /\ \A j \in i + 1 .. Len(wire) : ~BodyAt(j)
    /\ Busy /\ port.frame.seqnum = stc.seqnum =>
         port.frame.msg = stc.msg /\ NoBody
    /\ \A i \in 1..Len(replies) :
         replies[i].acknak = stc.seqnum =>
           NoBody /\ port.pc = "read" /\ Done(stc.msg, replies[i].error)

(* No request of this kind is on its way or about to be carried out.         *)
NoneToCome(ops) ==
  /\ \A i \in 1..Len(wire) : BodyAt(i) => wire[i].frame.msg.op \notin ops
  /\ port.pc = "handle" => port.frame.msg.op \notin ops

KnownInv ==
  stc.known # None =>
    KnownInForce /\ NoneToCome({"CONFIG_SET", "EPROM_LOAD", "EPROM_RESET"})

PromiseInv ==
  stc.promised # None =>
    /\ PromiseKept
    /\ NoneToCome({"EPROM_STORE"})
    /\ port.pc \notin {"save", "boot"}

-----------------------------------------------------------------------------
(* What the last frame leaves on the line: nothing, or a byte of noise that
   looks like the start of a frame.                                          *)
Trail ==
  \/ rx = "hunt" /\ wire \in {<<>>, <<Msb>>}
  \/ rx = "sof" /\ wire = <<>>

(* The request the STC waits for has come through.                           *)
Taken ==
  \/ Busy /\ port.frame.seqnum = stc.seqnum
  \/ \E i \in 1..Len(replies) : replies[i].acknak = stc.seqnum

(* An STC that waits long enough has one frame on the line, with no more than
   a byte of noise behind its body, and leaves no more than a trail of it before
   the next; a body that is on its way is not taken for the rest of another. *)
BodyIsLast ==
  \A i \in 1..Len(wire) : BodyAt(i) =>
    \/ i = Len(wire)
    \/ i = Len(wire) - 1 /\ wire[Len(wire)] = Msb

TrailIsLeft == stc.pc = "idle" \/ Taken => Trail

BodyIsWhole ==
  ~NoBody => rx # "rest" /\ \A i \in 1..Len(wire) : wire[i].kind # "short"

LineInv ==
  /\ quiet => wire = <<>> /\ rx = "hunt"
  /\ ~hurried => BodyIsLast /\ TrailIsLeft /\ BodyIsWhole

(* The body on the line will be taken.                                       *)
OnTrack ==
  \/ rx = "hunt" /\ Len(wire) >= 3 /\ wire[1] = Msb /\ wire[2] = Lsb /\ BodyAt(3)
  \/ rx = "sof" /\ Len(wire) >= 2 /\ wire[1] = Lsb /\ BodyAt(2)
  \/ rx = "body" /\ Len(wire) >= 1 /\ BodyAt(1)

(* Bytes that may spoil the next frame.                                      *)
Rubbish ==
  IF wire = <<>> THEN rx # "hunt" ELSE wire[Len(wire)].kind # "body"

(* Noise not yet paid for: a body that will be missed, rubbish behind it.    *)
Debt ==
  (IF ~NoBody /\ ~OnTrack THEN 1 ELSE 0) + (IF Rubbish THEN 1 ELSE 0)

NoiseInv == missed + (IF hurried THEN 0 ELSE Debt) <= noise

-----------------------------------------------------------------------------
(* How many requests ago, at most, the one at the port was sent, when the line
   and the replies are emptied before each request: lost frames apart, there is
   one more.                                                                 *)
Later(x, a) == {x + a, x + a - MaxSeq}

Idle == IF stc.pc = "idle" THEN 1 ELSE 0
More == IF wire = <<>> THEN 0 ELSE 1

AgeInv ==
  /\ \A i \in 1..Len(wire) : BodyAt(i) =>
       stc.seqnum \in Later(wire[i].frame.seqnum, Idle)
  /\ Busy => \E a \in Idle .. noise + Idle + More :
               stc.seqnum \in Later(port.frame.seqnum, a)

-----------------------------------------------------------------------------
(* Sequences and tokens                                                      *)

(* The words still to program are an end of Words.                           *)
LEMMA SavingEnds ==
  ASSUME NEW s
  PROVE  (\E n \in 1..4 : s = SubSeq(Words, n, 3))
           <=> s \in {Words, <<"lo", "hi">>, <<"hi">>, <<>>}
<1>1. /\ SubSeq(Words, 1, 3) = Words
      /\ SubSeq(Words, 2, 3) = <<"lo", "hi">>
      /\ SubSeq(Words, 3, 3) = <<"hi">>
      /\ SubSeq(Words, 4, 3) = <<>>
  <2>1. Words \in Seq({"head", "lo", "hi"}) /\ Len(Words) = 3
    BY DEF Words
  <2>2. SubSeq(Words, 1, 3) = Words
    BY <2>1, SubSeqFull
  <2>3. /\ Tail(SubSeq(Words, 1, 3)) = SubSeq(Words, 2, 3)
        /\ Tail(SubSeq(Words, 2, 3)) = SubSeq(Words, 3, 3)
        /\ Tail(SubSeq(Words, 3, 3)) = SubSeq(Words, 4, 3)
    <3>1. \A m \in 1..3 : Tail(SubSeq(Words, m, 3)) = SubSeq(Words, m + 1, 3)
      BY <2>1, HeadTailOfSubSeq
    <3>2. \A m, k \in Nat : m \in 1..3 /\ k = m + 1
                           => Tail(SubSeq(Words, m, 3)) = SubSeq(Words, k, 3)
      BY <3>1
    <3> QED BY <3>2
  <2>4. /\ Tail(Words) = <<"lo", "hi">>
        /\ Tail(<<"lo", "hi">>) = <<"hi">>
        /\ Tail(<<"hi">>) = <<>>
    BY DEF Words
  <2> QED BY <2>2, <2>3, <2>4
<1>2. 1..4 = {1, 2, 3, 4}
  OBVIOUS
<1> QED BY <1>1, <1>2

(* A token is a body exactly when it carries a frame.                        *)
LEMMA TokenFields ==
  ASSUME NEW t \in Tokens
  PROVE  /\ t.kind \in {"msb", "lsb", "body", "damaged", "short"}
         /\ t.kind = "body" => t.frame \in Frames /\ t = Body(t.frame)
         /\ t.kind = "msb" => t = Msb
         /\ t.kind = "lsb" => t = Lsb
  BY DEF Tokens, Msb, Lsb, Damaged, Short, Body

(* Taking a token moves the others up.                                      *)
LEMMA WireTaken ==
  ASSUME wire \in Seq(Tokens), wire # <<>>, wire' = Tail(wire)
  PROVE  /\ wire' \in Seq(Tokens)
         /\ Len(wire) \in Nat \ {0} /\ Len(wire') = Len(wire) - 1
         /\ Head(wire) = wire[1] /\ wire[1] \in Tokens
         /\ \A i \in 1..Len(wire') : wire'[i] = wire[i + 1] /\ i + 1 \in 1..Len(wire)
         /\ wire' = <<>> <=> Len(wire) = 1
<1>1. Len(wire) \in Nat \ {0} /\ Head(wire) = wire[1] /\ wire[1] \in Tokens
  BY EmptySeq
<1>2. /\ wire' \in Seq(Tokens) /\ Len(wire') = Len(wire) - 1
      /\ \A i \in 1..Len(wire') : wire'[i] = wire[i + 1]
  BY HeadTailProperties
<1>3. wire' = <<>> <=> Len(wire') = 0
  BY <1>2, EmptySeq
<1> QED BY <1>1, <1>2, <1>3

(* What is put on the wire comes behind what is there.                      *)
LEMMA WireExtended ==
  ASSUME wire \in Seq(Tokens), NEW t \in Seq(Tokens), wire' = wire \o t
  PROVE  /\ wire' \in Seq(Tokens)
         /\ Len(wire) \in Nat /\ Len(t) \in Nat
         /\ Len(wire') = Len(wire) + Len(t)
         /\ \A i \in 1..Len(wire) : wire'[i] = wire[i] /\ i \in 1..Len(wire')
         /\ \A i \in 1..Len(t) : wire'[Len(wire) + i] = t[i]
                                 /\ Len(wire) + i \in 1..Len(wire')
         /\ \A i \in 1..Len(wire') :
              \/ i \in 1..Len(wire)
              \/ i - Len(wire) \in 1..Len(t) /\ wire'[i] = t[i - Len(wire)]
<1>1. wire' \in Seq(Tokens)
  BY ConcatProperties
<1>2. /\ Len(wire) \in Nat /\ Len(t) \in Nat
      /\ Len(wire') = Len(wire) + Len(t)
  BY ConcatProperties
<1>3. \A i \in 1..Len(wire') :
        wire'[i] = IF i <= Len(wire) THEN wire[i] ELSE t[i - Len(wire)]
  BY <1>2, ConcatProperties
<1>4. ASSUME NEW i \in 1..Len(t)
      PROVE  wire'[Len(wire) + i] = t[i] /\ Len(wire) + i \in 1..Len(wire')
  <2> DEFINE k == Len(wire) + i
  <2>1. k \in 1..Len(wire') /\ ~(k <= Len(wire)) /\ k - Len(wire) = i
    BY <1>2
  <2> QED BY <1>3, <2>1
<1>5. ASSUME NEW i \in 1..Len(wire)
      PROVE  wire'[i] = wire[i] /\ i \in 1..Len(wire')
  BY <1>2, <1>3
<1>6. ASSUME NEW i \in 1..Len(wire')
      PROVE  \/ i \in 1..Len(wire)
             \/ i - Len(wire) \in 1..Len(t) /\ wire'[i] = t[i - Len(wire)]
  BY <1>2, <1>3
<1> QED BY <1>1, <1>2, <1>4, <1>5, <1>6

(* What one frame puts on the line: at most one body, of that frame, with at
   most one byte behind it, and a short body only without another.           *)
LEMMA SentTokens ==
  ASSUME NEW f \in Frames, NEW t \in {Sent(f)} \cup Garbled(f)
  PROVE  /\ t \in Seq(Tokens) /\ Len(t) \in 0..4
         /\ \A i \in 1..Len(t) : t[i].kind = "body" =>
               /\ t[i] = Body(f)
               /\ i = Len(t) \/ (i = Len(t) - 1 /\ t[Len(t)] = Msb)
               /\ \A j \in 1..Len(t) : t[j].kind # "short"
               /\ \A j \in 1..Len(t) : j # i => t[j].kind # "body"
<1> DEFINE b == Body(f)
<1>1. /\ b \in Tokens /\ b.kind = "body"
      /\ Msb \in Tokens /\ Lsb \in Tokens /\ Damaged \in Tokens /\ Short \in Tokens
      /\ Msb.kind = "msb" /\ Lsb.kind = "lsb"
      /\ Damaged.kind = "damaged" /\ Short.kind = "short"
  BY DEF Tokens, Body, Msb, Lsb, Damaged, Short
<1>2. t \in {<<Msb, Lsb, b>>,
             <<Msb, Msb, Lsb, b>>, <<Msb, Lsb, Lsb, b>>,
             <<Lsb, b>>, <<Msb, b>>, <<b>>,
             <<Msb, Lsb, Damaged>>, <<Msb, Lsb, Short>>, <<Msb, Lsb>>, <<Msb>>,
             <<>>, <<Msb, Lsb, b, Msb>>}
  BY DEF Sent, Garbled
<1> HIDE DEF b
<1> DEFINE Good(s) ==
      /\ s \in Seq(Tokens) /\ Len(s) \in 0..4
      /\ \A i \in 1..Len(s) : s[i].kind = "body" =>
            /\ s[i] = b
            /\ i = Len(s) \/ (i = Len(s) - 1 /\ s[Len(s)] = Msb)
            /\ \A j \in 1..Len(s) : s[j].kind # "short"
            /\ \A j \in 1..Len(s) : j # i => s[j].kind # "body"
<1>3. Good(<<Msb, Lsb, b>>)
  BY <1>1
<1>4. Good(<<Msb, Msb, Lsb, b>>)
  BY <1>1
<1>5. Good(<<Msb, Lsb, Lsb, b>>)
  BY <1>1
<1>6. Good(<<Lsb, b>>)
  BY <1>1
<1>7. Good(<<Msb, b>>)
  BY <1>1
<1>8. Good(<<b>>)
  BY <1>1
<1>9. Good(<<Msb, Lsb, Damaged>>)
  BY <1>1
<1>10. Good(<<Msb, Lsb, Short>>)
  BY <1>1
<1>11. Good(<<Msb, Lsb>>)
  BY <1>1
<1>12. Good(<<Msb>>)
  BY <1>1
<1>13. Good(<<>>)
  BY <1>1
<1>14. Good(<<Msb, Lsb, b, Msb>>)
  BY <1>1
<1>15. Good(t)
  <2> HIDE DEF Good
  <2> QED BY <1>2, <1>3, <1>4, <1>5, <1>6, <1>7, <1>8, <1>9, <1>10, <1>11, <1>12, <1>13, <1>14
<1> QED BY <1>15 DEF b

-----------------------------------------------------------------------------
(* Types, and how far a save has come                                        *)

PortType == [pc : {"boot", "read", "handle", "save", "reply"},
             frame : Frames \cup {None}, error : BOOLEAN]
StcType == [pc : {"idle", "wait"}, seqnum : 1..MaxSeq, msg : Requests \cup {None},
            known : Configs \cup {None}, promised : Configs \cup {None}]
ReplyTypes == [type : {"ACK_ONLY", "NAK_ONLY", "MSG_ACK"},
               acknak : 1..MaxSeq, error : BOOLEAN]

(* What a request may be.                                                   *)
LEMMA RequestFields ==
  ASSUME NEW m \in Requests
  PROVE  /\ m.op \in {"CONFIG_SET"} \cup Eprom \cup Plain
         /\ m.op = "CONFIG_SET" => m.config \in Configs
  BY PortAssumption DEF IsRequest, Eprom, Plain

(* The port goes on to another place with the frame it has.                 *)
LEMMA ThenPort ==
  ASSUME port \in PortType,
         NEW pc \in {"boot", "read", "handle", "save", "reply"},
         NEW error \in BOOLEAN, Then(pc, error)
  PROVE  /\ port' \in PortType
         /\ port'.pc = pc /\ port'.error = error /\ port'.frame = port.frame
  BY DEF Then, PortType

(* A port with nothing to do is a port, at its read.                         *)
LEMMA FreePort == Free \in PortType /\ Free.pc = "read"
  BY DEF Free, PortType

(* The words of a save that has begun are not those of one that ends.       *)
LEMMA WordsLength == Words # <<"hi">> /\ Words # <<>>
  BY DEF Words

(* A save that starts has all its words before it.                           *)
LEMMA SaveStarts ==
  ASSUME NEW config \in Configs, SysParamsWrite(config)
  PROVE  /\ g_sys' \in Configs /\ g_sys'.head = TRUE
         /\ g_sys' = [config EXCEPT !.head = TRUE]
         /\ saving' = Words /\ eeprom' = eeprom
  BY DEF SysParamsWrite, Configs

(* The defaults are a configuration.                                        *)
LEMMA DefaultsType ==
  ASSUME NEW config \in Configs
  PROVE  InitSysDefaults(config) \in Configs
  BY ParamsAssumption DEF InitSysDefaults, Configs

(* SysParamsRead loads the EEPROM, or starts to save the defaults.          *)
LEMMA ReadParams ==
  ASSUME g_sys \in Configs, eeprom \in Configs, SysParamsRead
  PROVE  /\ g_sys' \in Configs /\ eeprom' = eeprom
         /\ Readable => g_sys' = eeprom /\ saving' = saving
         /\ ~Readable => g_sys'.head = TRUE /\ saving' = Words
<1>1. CASE Readable
  BY <1>1 DEF SysParamsRead
<1>2. CASE ~Readable
  <2>1. SysParamsWrite(InitSysDefaults(eeprom))
    BY <1>2 DEF SysParamsRead
  <2> QED BY <1>2, <2>1, SaveStarts, DefaultsType
<1> QED BY <1>1, <1>2

(* The words are written in order: with the last one the copy is complete.   *)
LEMMA WordWritten ==
  ASSUME g_sys \in Configs, eeprom \in Configs, HandlerInv,
         port.pc \in {"save", "boot"}, ProgramWord
  PROVE  /\ g_sys' = g_sys /\ eeprom' \in Configs
         /\ saving' \in {<<"lo", "hi">>, <<"hi">>, <<>>}
         /\ saving' = <<>> <=> Len(saving) = 1
         /\ eeprom'.head = g_sys.head
         /\ saving' = <<"hi">> => eeprom'.lo = g_sys.lo
         /\ saving' = <<>> => eeprom' = g_sys
<1>1. /\ eeprom' = [eeprom EXCEPT ![Head(saving)] = g_sys[Head(saving)]]
      /\ saving' = Tail(saving) /\ g_sys' = g_sys
  BY DEF ProgramWord
<1>2. CASE saving = Words
  <2>1. Head(saving) = "head" /\ Tail(saving) = <<"lo", "hi">> /\ Len(saving) = 3
    BY <1>2 DEF Words
  <2> QED BY <1>1, <2>1 DEF Configs
<1>3. CASE saving = <<"lo", "hi">>
  <2>1. Head(saving) = "lo" /\ Tail(saving) = <<"hi">> /\ Len(saving) = 2
    BY <1>3
  <2>2. eeprom.head = g_sys.head
    BY <1>3 DEF HandlerInv, Words
  <2> QED BY <1>1, <2>1, <2>2 DEF Configs
<1>4. CASE saving = <<"hi">>
  <2>1. Head(saving) = "hi" /\ Tail(saving) = <<>> /\ Len(saving) = 1
    BY <1>4
  <2>2. eeprom.head = g_sys.head /\ eeprom.lo = g_sys.lo
    BY <1>4 DEF HandlerInv, Words
  <2> QED BY <1>1, <2>1, <2>2 DEF Configs
<1> QED BY <1>2, <1>3, <1>4 DEF HandlerInv

Typed ==
  /\ g_sys \in Configs /\ eeprom \in Configs
  /\ saving \in {Words, <<"lo", "hi">>, <<"hi">>, <<>>}
  /\ wire \in Seq(Tokens) /\ rx \in {"hunt", "sof", "body", "rest"}
  /\ port \in PortType /\ replies \in Seq(ReplyTypes) /\ stc \in StcType
  /\ noise \in 0..MaxNoise /\ cuts \in 0..MaxCuts
  /\ quiet \in BOOLEAN /\ hurried \in BOOLEAN /\ missed \in Nat

(* The type invariant, with what is to be saved spelled out.                *)
LEMMA TypesAre == PortTypeOK <=> Typed
<1>1. ParamsTypeOK <=>
        /\ g_sys \in Configs /\ eeprom \in Configs
        /\ saving \in {Words, <<"lo", "hi">>, <<"hi">>, <<>>}
  BY SavingEnds DEF ParamsTypeOK
<1> QED BY <1>1 DEF PortTypeOK, Typed, PortType, ReplyTypes, StcType

(* What the STC does leaves the handlers alone.                              *)
LEMMA StcKeepsTypes ==
  ASSUME Typed, HandlerInv,
         \/ \E msg \in Requests : Send(msg)
         \/ Receive
         \/ GiveUp
  PROVE  Typed' /\ HandlerInv'
<1>1. ASSUME NEW msg \in Requests, Send(msg)
      PROVE  Typed' /\ HandlerInv'
  <2>1. /\ stc' \in StcType /\ stc'.msg = msg /\ stc'.seqnum = stc.seqnum
    BY <1>1 DEF Send, Typed, StcType
  <2>2. Frame(stc.seqnum, msg) \in Frames
    BY DEF Typed, StcType, Frame, Frames
  <2>3. wire' \in Seq(Tokens) /\ noise' \in 0..MaxNoise
    <3>1. PICK t \in {Sent(Frame(stc.seqnum, msg))} \cup Garbled(Frame(stc.seqnum, msg)) :
            wire' = wire \o t
      <4> DEFINE f == Frame(stc.seqnum, msg)
      <4>1. \/ wire' = wire \o Sent(f)
            \/ \E t \in Garbled(f) : wire' = wire \o t
        BY <1>1, Zenon DEF Send
      <4> HIDE DEF f
      <4>2. \E t \in {Sent(f)} \cup Garbled(f) : wire' = wire \o t
        BY <4>1
      <4> QED BY <4>2 DEF f
    <3>2. t \in Seq(Tokens)
      BY <2>2, SentTokens
    <3>3. wire' \in Seq(Tokens)
      BY <3>1, <3>2, WireExtended DEF Typed
    <3>4. noise' = noise \/ (noise < MaxNoise /\ noise' = noise + 1)
      BY <1>1 DEF Send
    <3> QED BY <3>3, <3>4, PortAssumption DEF Typed
  <2> QED BY <1>1, <2>1, <2>3 DEF Send, Typed, HandlerInv, Busy, Done, paramVars
<1>2. CASE Receive
  <2>1. replies \in Seq(ReplyTypes) /\ replies # <<>>
    BY <1>2 DEF Receive, Typed
  <2>2. replies' \in Seq(ReplyTypes) /\ Head(replies) \in ReplyTypes
    BY <1>2, <2>1, HeadTailProperties DEF Receive
  <2>3. NextSeq \in 1..MaxSeq
    BY PortAssumption DEF NextSeq, Typed, StcType
  <2>4. stc.pc = "wait" => Answered(Head(replies)) \in StcType
                           /\ Answered(Head(replies)).pc = "idle"
    BY <2>3, RequestFields DEF Answered, Typed, StcType, HandlerInv
  <2>5. stc' \in StcType /\ (stc'.pc = "wait" => stc' = stc)
    BY <1>2, <2>4 DEF Receive, Typed
  <2> QED BY <1>2, <2>2, <2>5
          DEF Receive, Typed, HandlerInv, Busy, Done, paramVars, linkVars
<1>3. CASE GiveUp
  <2>1. NextSeq \in 1..MaxSeq
    BY PortAssumption DEF NextSeq, Typed, StcType
  <2>2. stc' \in StcType /\ stc'.pc = "idle"
    BY <1>3, <2>1 DEF GiveUp, Typed, StcType
  <2>3. hurried' \in BOOLEAN
    BY <1>3 DEF GiveUp, Typed
  <2> QED BY <1>3, <2>2, <2>3
          DEF GiveUp, Typed, HandlerInv, Busy, Done, paramVars, linkVars
<1> QED BY <1>1, <1>2, <1>3

(* Every step of the port keeps the types and what a save has done so far.    *)
LEMMA PortKeepsTypes ==
  ASSUME Typed, HandlerInv, IPCFromSTC_Task
  PROVE  Typed' /\ HandlerInv'
<1> SUFFICES ASSUME stc' = stc, cuts' = cuts, hurried' = hurried
             PROVE  Typed' /\ HandlerInv'
  BY DEF IPCFromSTC_Task, IPC_FrameRx, RxTimeout, HandleConfigSet, HandleEPROM_Load,
         HandleEPROM_Store, HandleEPROM_Reset, HandleOther, RefuseInHalt,
         PortPrograms, ProgramFails, IPCCMD_Write, stcVars
<1>1. CASE IPC_FrameRx
  <2>1. /\ wire' \in Seq(Tokens) /\ Head(wire) \in Tokens
    BY <1>1, WireTaken DEF IPC_FrameRx, Typed
  <2>2. Head(wire).kind = "body" => Head(wire).frame \in Frames
    BY <2>1, TokenFields
  <2>3. rx' \in {"hunt", "sof", "body", "rest"}
    BY <1>1 DEF IPC_FrameRx, RxNext, Typed
  <2>4. port' \in PortType /\ (port' = port \/ port'.pc = "handle")
        /\ (port'.pc = "handle" => port'.frame \in Frames)
    BY <1>1, <2>2 DEF IPC_FrameRx, Typed, PortType
  <2>5. missed' \in Nat
    BY <1>1 DEF IPC_FrameRx, Typed
  <2> QED BY <1>1, <2>1, <2>3, <2>4, <2>5
          DEF IPC_FrameRx, Typed, HandlerInv, Busy, Done, paramVars, stcVars
<1>2. CASE RxTimeout
  BY <1>2 DEF RxTimeout, Typed, HandlerInv, Busy, Done, paramVars, stcVars
<1> SUFFICES ASSUME wire' = wire, rx' = rx, quiet' = quiet, missed' = missed
             PROVE  Typed' /\ HandlerInv'
  BY <1>1, <1>2
     DEF IPCFromSTC_Task, HandleConfigSet, HandleEPROM_Load, HandleEPROM_Store,
         HandleEPROM_Reset, HandleOther, RefuseInHalt, PortPrograms, ProgramFails,
         IPCCMD_Write, linkVars
<1>3. CASE port.pc = "handle"
  <2>1. port.frame \in Frames /\ port.frame.msg \in Requests /\ port \in PortType
    BY <1>3 DEF HandlerInv, Busy, Frames, Typed
  <2>2. ASSUME NEW pc \in {"save", "reply"}, NEW error \in BOOLEAN, Then(pc, error)
        PROVE  /\ port' \in PortType /\ port'.frame = port.frame
               /\ port'.pc = pc /\ port'.error = error
    BY <2>1, <2>2, ThenPort
  <2>3. CASE HandleConfigSet
    <3>1. Then("reply", FALSE) /\ port.frame.msg.op = "CONFIG_SET"
      BY <2>3 DEF HandleConfigSet, Handles
    <3>2. port.frame.msg.config \in Configs
      BY <2>1, <3>1, RequestFields
    <3> QED BY <2>1, <2>2, <2>3, <3>1, <3>2
            DEF HandleConfigSet, stcVars, Typed, HandlerInv, Busy, Done
  <2>4. CASE HandleEPROM_Load
    <3>1. port.frame.msg.op = "EPROM_LOAD" /\ SysParamsRead
      BY <2>4 DEF HandleEPROM_Load, Handles
    <3>2. CASE Readable
      <4>1. Then("reply", FALSE)
        BY <2>4, <3>2 DEF HandleEPROM_Load
      <4> QED BY <2>1, <2>2, <2>4, <3>1, <3>2, <4>1, ReadParams, WordsLength
              DEF HandleEPROM_Load, stcVars, Typed, HandlerInv, Busy, Done
    <3>3. CASE ~Readable
      <4>1. Then("save", TRUE)
        BY <2>4, <3>3 DEF HandleEPROM_Load
      <4> QED BY <2>1, <2>2, <2>4, <3>1, <3>3, <4>1, ReadParams, WordsLength
              DEF HandleEPROM_Load, stcVars, Typed, HandlerInv, Busy, Done, Eprom
    <3> QED BY <3>2, <3>3
  <2>5. CASE HandleEPROM_Store
    <3>1. port.frame.msg.op = "EPROM_STORE" /\ Then("save", FALSE)
          /\ SysParamsWrite(g_sys)
      BY <2>5 DEF HandleEPROM_Store, Handles
    <3> QED BY <2>1, <2>2, <2>5, <3>1, SaveStarts, WordsLength
            DEF HandleEPROM_Store, stcVars, Typed, HandlerInv, Busy, Done, Eprom
  <2>6. CASE HandleEPROM_Reset
    <3>1. port.frame.msg.op = "EPROM_RESET" /\ Then("reply", FALSE)
      BY <2>6 DEF HandleEPROM_Reset, Handles
    <3> QED BY <2>1, <2>2, <2>6, <3>1, DefaultsType
            DEF HandleEPROM_Reset, stcVars, Typed, HandlerInv, Busy, Done
  <2>7. CASE HandleOther
    <3>1. port.frame.msg.op \in Plain
          /\ Then("reply", port.frame.msg.op = "EPROM_OTHER")
      BY <2>7 DEF HandleOther, Handles
    <3> QED BY <2>1, <2>2, <2>7, <3>1
            DEF HandleOther, stcVars, Typed, HandlerInv, Busy, Done, Plain, paramVars
  <2>8. CASE RefuseInHalt
    BY <2>8, FreePort DEF RefuseInHalt, stcVars, Typed, HandlerInv, Busy, paramVars
  <2> QED BY <1>1, <1>2, <1>3, <2>3, <2>4, <2>5, <2>6, <2>7, <2>8
          DEF IPCFromSTC_Task, PortPrograms, ProgramFails, IPCCMD_Write,
              IPC_FrameRx, RxTimeout
<1>4. CASE port.pc = "save"
  <2>1. port \in PortType /\ port.frame \in Frames /\ port.frame.msg.op \in Eprom
    BY <1>4 DEF HandlerInv, Busy, Typed
  <2>2. CASE PortPrograms
    <3>1. ProgramWord /\ replies' = replies /\ noise' = noise
      BY <2>2 DEF PortPrograms, stcVars
    <3>2. CASE Len(saving) = 1
      <4>1. Then("reply", port.error)
        BY <2>2, <3>2 DEF PortPrograms
      <4>2. port' \in PortType /\ port'.pc = "reply" /\ port'.frame = port.frame
        BY <2>1, <4>1, ThenPort DEF PortType
      <4>3. eeprom' = g_sys /\ g_sys' = g_sys /\ saving' = <<>> /\ g_sys.head = TRUE
        BY <1>4, <3>1, <3>2, WordWritten DEF Typed, HandlerInv
      <4> QED BY <2>1, <3>1, <4>2, <4>3 DEF Typed, HandlerInv, Busy, Done, Eprom
    <3>3. CASE Len(saving) # 1
      <4>1. port' = port
        BY <2>2, <3>3 DEF PortPrograms
      <4>2. /\ g_sys' = g_sys /\ eeprom' \in Configs
            /\ saving' \in {<<"lo", "hi">>, <<"hi">>}
            /\ eeprom'.head = g_sys.head
            /\ saving' = <<"hi">> => eeprom'.lo = g_sys.lo
        BY <1>4, <3>1, <3>3, WordWritten DEF Typed
      <4> QED BY <1>4, <2>1, <3>1, <4>1, <4>2 DEF Typed, HandlerInv, Busy
    <3> QED BY <3>2, <3>3
  <2>3. CASE ProgramFails
    <3>1. port' \in PortType /\ port'.pc = "reply" /\ port'.frame = port.frame
          /\ port'.error = TRUE
      BY <2>1, <2>3, ThenPort DEF ProgramFails
    <3> QED BY <2>1, <2>3, <3>1
            DEF ProgramFails, Typed, HandlerInv, Busy, Done, Eprom, stcVars
  <2> QED BY <1>4, <1>1, <1>2, <2>2, <2>3
          DEF IPCFromSTC_Task, Handles, HandleConfigSet, HandleEPROM_Load,
              HandleEPROM_Store, HandleEPROM_Reset, HandleOther, RefuseInHalt,
              IPCCMD_Write
<1>5. CASE IPCCMD_Write
  <2>1. port.pc = "reply" /\ port.frame \in Frames /\ port \in PortType
    BY <1>5 DEF IPCCMD_Write, HandlerInv, Busy, Typed
  <2>2. Reply(ReplyType(port.frame.msg.op), port.frame.seqnum, port.error) \in ReplyTypes
    BY <2>1 DEF Reply, ReplyType, ReplyTypes, PortType, Frames
  <2>3. replies' \in Seq(ReplyTypes)
    BY <1>5, <2>2, AppendProperties DEF IPCCMD_Write, Typed
  <2>4. noise' \in 0..MaxNoise
    BY <1>5, PortAssumption DEF IPCCMD_Write, Typed
  <2> QED BY <1>5, <2>3, <2>4, FreePort
          DEF IPCCMD_Write, Typed, HandlerInv, Busy, paramVars
<1> QED BY <1>1, <1>2, <1>3, <1>4, <1>5
        DEF IPCFromSTC_Task, Handles, HandleConfigSet, HandleEPROM_Load,
            HandleEPROM_Store, HandleEPROM_Reset, HandleOther, RefuseInHalt,
            PortPrograms, ProgramFails

(* The power returns to a port that is free or saves the defaults.            *)
LEMMA PowerKeepsTypes ==
  ASSUME Typed, HandlerInv, PowerCycle \/ MainPrograms
  PROVE  Typed' /\ HandlerInv'
<1>1. CASE PowerCycle
  <2>1. /\ stc' \in StcType /\ stc'.pc = "idle"
        /\ wire' \in Seq(Tokens) /\ replies' \in Seq(ReplyTypes)
        /\ rx' = "hunt" /\ quiet' = FALSE /\ missed' = missed
        /\ noise' = noise /\ hurried' = hurried /\ cuts' \in 0..MaxCuts
    <3>1. stc' \in StcType /\ stc'.pc = "idle"
      <4>1. 1 \in 1..MaxSeq
        BY PortAssumption
      <4> QED BY <1>1, <4>1 DEF PowerCycle, Typed, StcType
    <3>2. wire' = <<>> /\ replies' = <<>>
      BY <1>1 DEF PowerCycle
    <3>3. cuts' \in 0..MaxCuts
      BY <1>1, PortAssumption DEF PowerCycle, Typed
    <3> QED BY <1>1, <3>1, <3>2, <3>3 DEF PowerCycle
  <2>2. CASE g_sys' = Config(FALSE, Dflt) /\ saving' = <<>> /\ port' = Free
             /\ eeprom' = eeprom
    <3>1. g_sys' \in Configs
      BY <2>2, ParamsAssumption DEF Config, Configs
    <3> QED BY <2>1, <2>2, <3>1, FreePort DEF Typed, HandlerInv, Busy
  <2>3. CASE SysParamsRead /\ Readable /\ port' = Free
    BY <2>1, <2>3, FreePort, ReadParams DEF Typed, HandlerInv, Busy
  <2>4. CASE SysParamsRead /\ ~Readable /\ port' = [Free EXCEPT !.pc = "boot"]
    <3>1. port' \in PortType /\ port'.pc = "boot"
      BY <2>4 DEF Free, PortType
    <3> QED BY <2>1, <2>4, <3>1, ReadParams, WordsLength
            DEF Typed, HandlerInv, Busy
  <2> QED BY <1>1, <2>2, <2>3, <2>4 DEF PowerCycle
<1>2. CASE MainPrograms
  <2>1. port.pc = "boot" /\ ProgramWord /\ UNCHANGED <<linkVars, replies, stcVars, cuts>>
    BY <1>2 DEF MainPrograms
  <2>2. CASE Len(saving) = 1 /\ port' = Free
    BY <2>1, <2>2, FreePort, WordWritten
       DEF Typed, HandlerInv, Busy, linkVars, stcVars
  <2>3. CASE Len(saving) # 1 /\ port' = port
    <3>1. /\ g_sys' = g_sys /\ eeprom' \in Configs
          /\ saving' \in {<<"lo", "hi">>, <<"hi">>}
          /\ eeprom'.head = g_sys.head
          /\ saving' = <<"hi">> => eeprom'.lo = g_sys.lo
      BY <2>1, <2>3, WordWritten DEF Typed
    <3> QED BY <2>1, <2>3, <3>1 DEF Typed, HandlerInv, Busy, linkVars, stcVars
  <2> QED BY <1>2, <2>2, <2>3 DEF MainPrograms
<1> QED BY <1>1, <1>2

(* Whose step a step is.                                                    *)
LEMMA NextSteps ==
  ASSUME Next
  PROVE  \/ \E msg \in Requests : Send(msg)
         \/ Receive
         \/ GiveUp
         \/ IPCFromSTC_Task
         \/ PowerCycle
         \/ MainPrograms
  BY DEF Next

(* Types and handlers.                                                      *)
LEMMA TypeStep ==
  ASSUME Typed, HandlerInv, [Next]_vars
  PROVE  Typed' /\ HandlerInv'
<1>1. CASE Next
  BY <1>1, NextSteps, StcKeepsTypes, PortKeepsTypes, PowerKeepsTypes
<1>2. CASE UNCHANGED vars
  BY <1>2 DEF vars, paramVars, linkVars, stcVars, Typed, HandlerInv, Busy, Done
<1> QED BY <1>1, <1>2

-----------------------------------------------------------------------------
(* The order of the requests                                                 *)

(* A frame that is sent comes behind every other, and has no body behind it. *)
LEMMA BodiesSent ==
  ASSUME Typed, NEW f \in Frames, NEW t \in {Sent(f)} \cup Garbled(f),
         wire' = wire \o t
  PROVE  \A i \in 1..Len(wire') : wire'[i].kind = "body" =>
           \/ i \in 1..Len(wire) /\ wire'[i] = wire[i]
           \/ /\ wire'[i].frame = f
              /\ \A j \in i + 1 .. Len(wire') : wire'[j].kind # "body"
<1>1. /\ t \in Seq(Tokens)
      /\ \A i \in 1..Len(t) : t[i].kind = "body" =>
           t[i] = Body(f) /\ \A j \in 1..Len(t) : j # i => t[j].kind # "body"
  BY SentTokens
<1>2. /\ Len(wire) \in Nat /\ Len(t) \in Nat
      /\ Len(wire') = Len(wire) + Len(t)
      /\ \A i \in 1..Len(wire) : wire'[i] = wire[i]
      /\ \A i \in 1..Len(wire') :
           \/ i \in 1..Len(wire)
           \/ i - Len(wire) \in 1..Len(t) /\ wire'[i] = t[i - Len(wire)]
  BY <1>1, WireExtended DEF Typed
<1> SUFFICES ASSUME NEW i \in 1..Len(wire'), wire'[i].kind = "body",
                    i \notin 1..Len(wire)
             PROVE  /\ wire'[i].frame = f
                    /\ \A j \in i + 1 .. Len(wire') : wire'[j].kind # "body"
  BY <1>2
<1>3. i - Len(wire) \in 1..Len(t) /\ wire'[i] = t[i - Len(wire)]
  BY <1>2
<1>4. wire'[i] = Body(f)
  BY <1>1, <1>3
<1>5. ASSUME NEW j \in i + 1 .. Len(wire')
      PROVE  wire'[j].kind # "body"
  <2>1. j \in 1..Len(wire') /\ j \notin 1..Len(wire)
    BY <1>2, <1>3
  <2>2. j - Len(wire) \in 1..Len(t) /\ wire'[j] = t[j - Len(wire)]
    BY <1>2, <2>1
  <2>3. j - Len(wire) # i - Len(wire)
    BY <1>2
  <2> QED BY <1>1, <1>3, <2>2, <2>3
<1> QED BY <1>4, <1>5 DEF Body

SafeInv == Typed /\ HandlerInv /\ OrderInv /\ KnownInv /\ PromiseInv

(* A request with a fresh number comes behind every other.                  *)
LEMMA OrderWhenSent ==
  ASSUME SafeInv, NumbersAreFresh, NEW msg \in Requests, Send(msg)
  PROVE  OrderInv' /\ KnownInv' /\ PromiseInv'
<1> DEFINE f == Frame(stc.seqnum, msg)
<1>1. /\ stc.pc = "idle" /\ stc'.pc = "wait" /\ stc'.msg = msg
      /\ stc'.seqnum = stc.seqnum
      /\ stc'.known = IF msg.op \in {"EPROM_LOAD", "EPROM_RESET", "CONFIG_SET"}
                      THEN None ELSE stc.known
      /\ stc'.promised = IF msg.op = "EPROM_STORE" THEN None ELSE stc.promised
  BY DEF Send, SafeInv, Typed, StcType
<1>2. /\ port' = port /\ replies' = replies
      /\ g_sys' = g_sys /\ eeprom' = eeprom
  BY DEF Send, paramVars
<1>3. ~Outstanding(stc.seqnum)
  BY <1>1 DEF NumbersAreFresh, Send
<1>4. f \in Frames /\ f.seqnum = stc.seqnum /\ f.msg = msg
  BY DEF SafeInv, Typed, StcType, Frame, Frames
<1>5. \E t \in {Sent(f)} \cup Garbled(f) : wire' = wire \o t
  <2>1. \/ wire' = wire \o Sent(f)
        \/ \E t \in Garbled(f) : wire' = wire \o t
    BY Zenon DEF Send
  <2> HIDE DEF f
  <2> QED BY <2>1
<1> HIDE DEF f
<1>6. \A i \in 1..Len(wire') : wire'[i].kind = "body" =>
        \/ i \in 1..Len(wire) /\ wire'[i] = wire[i]
        \/ /\ wire'[i].frame = f
           /\ \A j \in i + 1 .. Len(wire') : wire'[j].kind # "body"
  BY <1>4, <1>5, BodiesSent DEF SafeInv
<1>7. OrderInv'
  <2>1. ASSUME NEW i \in 1..Len(wire'), wire'[i].kind = "body",
               wire'[i].frame.seqnum = stc'.seqnum
        PROVE  /\ wire'[i].frame.msg = stc'.msg
               /\ \A j \in i + 1 .. Len(wire') : wire'[j].kind # "body"
    <3>1. ~(i \in 1..Len(wire) /\ wire'[i] = wire[i])
      BY <1>1, <1>3, <2>1 DEF Outstanding, BodyAt
    <3> QED BY <1>1, <1>4, <1>6, <2>1, <3>1
  <2>2. ~(Busy' /\ port'.frame.seqnum = stc'.seqnum)
    BY <1>1, <1>2, <1>3 DEF Outstanding, Busy
  <2>3. \A i \in 1..Len(replies') : replies'[i].acknak # stc'.seqnum
    BY <1>1, <1>2, <1>3 DEF Outstanding
  <2> QED BY <2>1, <2>2, <2>3 DEF OrderInv, BodyAt
<1>8. ASSUME NEW ops, NoneToCome(ops), msg.op \notin ops
      PROVE  NoneToCome(ops)'
  BY <1>2, <1>4, <1>6, <1>8 DEF NoneToCome, BodyAt
<1>9. KnownInv'
  <2> SUFFICES ASSUME stc'.known # None
               PROVE  KnownInForce' /\ NoneToCome({"CONFIG_SET", "EPROM_LOAD", "EPROM_RESET"})'
    BY DEF KnownInv
  <2>1. stc.known # None /\ stc'.known = stc.known
        /\ msg.op \notin {"CONFIG_SET", "EPROM_LOAD", "EPROM_RESET"}
    BY <1>1
  <2>2. KnownInForce'
    BY <1>2, <2>1 DEF SafeInv, KnownInv, KnownInForce
  <2> QED BY <1>8, <2>1, <2>2 DEF SafeInv, KnownInv
<1>10. PromiseInv'
  <2> SUFFICES ASSUME stc'.promised # None
               PROVE  /\ PromiseKept' /\ NoneToCome({"EPROM_STORE"})'
                      /\ port'.pc \notin {"save", "boot"}
    BY DEF PromiseInv
  <2>1. stc.promised # None /\ stc'.promised = stc.promised
        /\ msg.op \notin {"EPROM_STORE"}
    BY <1>1
  <2>2. PromiseKept'
    BY <1>2, <2>1 DEF SafeInv, PromiseInv, PromiseKept
  <2> QED BY <1>2, <1>8, <2>1, <2>2 DEF SafeInv, PromiseInv
<1> QED BY <1>7, <1>9, <1>10

(* An answer taken tells what was done, and nothing is still to come.       *)
LEMMA OrderWhenReceived ==
  ASSUME SafeInv, Receive
  PROVE  OrderInv' /\ KnownInv' /\ PromiseInv'
<1>1. /\ wire' = wire /\ port' = port /\ g_sys' = g_sys /\ eeprom' = eeprom
      /\ replies \in Seq(ReplyTypes) /\ replies # <<>> /\ replies' = Tail(replies)
  BY DEF Receive, SafeInv, Typed, linkVars, paramVars
<1>2. /\ Len(replies) \in Nat \ {0} /\ Head(replies) = replies[1]
      /\ Len(replies') = Len(replies) - 1
      /\ \A i \in 1..Len(replies') : replies'[i] = replies[i + 1]
  BY <1>1, HeadTailProperties, EmptySeq
<1>3. CASE stc' = stc
  <2>1. OrderInv'
    <3> SUFFICES ASSUME stc.pc = "wait", NEW i \in 1..Len(replies'),
                        replies'[i].acknak = stc.seqnum
                 PROVE  NoBody /\ port.pc = "read" /\ Done(stc.msg, replies'[i].error)
      BY <1>1, <1>3 DEF SafeInv, OrderInv, BodyAt, NoBody, Busy, Done
    <3>1. i + 1 \in 1..Len(replies) /\ replies'[i] = replies[i + 1]
      BY <1>2
    <3> QED BY <3>1 DEF SafeInv, OrderInv
  <2> QED BY <1>1, <1>3, <2>1
          DEF SafeInv, KnownInv, KnownInForce, PromiseInv, PromiseKept, NoneToCome,
              BodyAt
<1>4. CASE /\ stc.pc = "wait" /\ Head(replies).acknak = stc.seqnum
           /\ stc' = Answered(Head(replies))
  <2>1. /\ stc'.pc = "idle"
        /\ stc'.known = IF stc.msg.op = "CONFIG_SET" THEN stc.msg.config ELSE stc.known
        /\ stc'.promised = IF stc.msg.op = "EPROM_STORE" /\ ~Head(replies).error
                           THEN stc.known ELSE stc.promised
    BY <1>4 DEF Answered, SafeInv, Typed, StcType
  <2>2. 1 \in 1..Len(replies)
    BY <1>2
  <2>3. NoBody /\ port.pc = "read" /\ Done(stc.msg, Head(replies).error)
    BY <1>2, <1>4, <2>2 DEF SafeInv, OrderInv
  <2>4. \A ops : NoneToCome(ops)'
    BY <1>1, <2>3 DEF NoneToCome, NoBody, BodyAt
  <2>5. KnownInv'
    <3>1. stc'.known # None => KnownInForce'
      BY <1>1, <2>1, <2>3 DEF Done, SafeInv, KnownInv, KnownInForce
    <3> QED BY <2>4, <3>1 DEF KnownInv
  <2>6. PromiseInv'
    <3>1. CASE stc.msg.op = "EPROM_STORE" /\ ~Head(replies).error
      <4>1. eeprom = g_sys /\ g_sys.head = TRUE /\ stc'.promised = stc.known
        BY <2>1, <2>3, <3>1 DEF Done
      <4>2. stc.known # None =>
              [g_sys EXCEPT !.head = TRUE] = [stc.known EXCEPT !.head = TRUE]
        BY DEF SafeInv, KnownInv, KnownInForce
      <4>3. g_sys = [g_sys EXCEPT !.head = TRUE]
        BY <4>1 DEF SafeInv, Typed, Configs
      <4> QED BY <1>1, <2>3, <2>4, <4>1, <4>2, <4>3 DEF PromiseInv, PromiseKept
    <3>2. CASE ~(stc.msg.op = "EPROM_STORE" /\ ~Head(replies).error)
      <4>1. stc'.promised = stc.promised
        BY <2>1, <3>2
      <4> QED BY <1>1, <2>3, <2>4, <4>1 DEF SafeInv, PromiseInv, PromiseKept
    <3> QED BY <3>1, <3>2
  <2> QED BY <2>1, <2>5, <2>6 DEF OrderInv
<1> QED BY <1>3, <1>4 DEF Receive

(* Giving up a request promises nothing.                                    *)
LEMMA OrderWhenGivenUp ==
  ASSUME SafeInv, GiveUp
  PROVE  OrderInv' /\ KnownInv' /\ PromiseInv'
<1>1. /\ stc'.pc = "idle" /\ stc'.known = None /\ stc'.promised = stc.promised
      /\ wire' = wire /\ port' = port /\ eeprom' = eeprom
  BY DEF GiveUp, SafeInv, Typed, StcType, linkVars, paramVars
<1> QED BY <1>1 DEF SafeInv, OrderInv, KnownInv, PromiseInv, PromiseKept, NoneToCome, BodyAt

(* Reading moves a frame from the line to the port.                         *)
LEMMA OrderWhenRead ==
  ASSUME SafeInv, IPC_FrameRx
  PROVE  OrderInv' /\ KnownInv' /\ PromiseInv'
<1>1. /\ wire' \in Seq(Tokens)
      /\ Len(wire) \in Nat \ {0} /\ Len(wire') = Len(wire) - 1
      /\ Head(wire) = wire[1]
      /\ \A i \in 1..Len(wire') : wire'[i] = wire[i + 1] /\ i + 1 \in 1..Len(wire)
  BY WireTaken DEF IPC_FrameRx, SafeInv, Typed
<1>2. /\ stc' = stc /\ replies' = replies /\ g_sys' = g_sys /\ eeprom' = eeprom
      /\ port.pc = "read" /\ 1 \in 1..Len(wire)
  BY <1>1 DEF IPC_FrameRx, stcVars, paramVars
<1>3. NoBody => NoBody'
  BY <1>1 DEF NoBody, BodyAt
<1>4. \/ port' = port
      \/ /\ wire[1].kind = "body"
         /\ port'.pc = "handle" /\ port'.frame = wire[1].frame
  BY <1>1 DEF IPC_FrameRx, SafeInv, Typed, PortType
<1>5. OrderInv'
  <2> SUFFICES ASSUME stc.pc = "wait" PROVE OrderInv'
    BY <1>2 DEF OrderInv
  <2>1. ASSUME NEW i \in 1..Len(wire'), wire'[i].kind = "body",
               wire'[i].frame.seqnum = stc.seqnum
        PROVE  /\ wire'[i].frame.msg = stc.msg
               /\ \A j \in i + 1 .. Len(wire') : wire'[j].kind # "body"
    <3>1. i + 1 \in 1..Len(wire) /\ wire'[i] = wire[i + 1]
      BY <1>1
    <3>2. /\ wire[i + 1].frame.msg = stc.msg
          /\ \A k \in i + 1 + 1 .. Len(wire) : wire[k].kind # "body"
      BY <2>1, <3>1 DEF SafeInv, OrderInv, BodyAt
    <3>3. ASSUME NEW j \in i + 1 .. Len(wire')
          PROVE  wire'[j].kind # "body"
      <4>1. j \in 1..Len(wire') /\ j + 1 \in i + 1 + 1 .. Len(wire)
        BY <1>1
      <4> QED BY <1>1, <3>2, <4>1
    <3> QED BY <3>1, <3>2, <3>3
  <2>2. ASSUME Busy', port'.frame.seqnum = stc.seqnum
        PROVE  port'.frame.msg = stc.msg /\ NoBody'
    <3>1. wire[1].kind = "body" /\ port'.frame = wire[1].frame
      BY <1>2, <1>4, <2>2 DEF Busy
    <3>2. /\ wire[1].frame.msg = stc.msg
          /\ \A k \in 1 + 1 .. Len(wire) : wire[k].kind # "body"
      BY <1>2, <2>2, <3>1 DEF SafeInv, OrderInv, BodyAt
    <3>3. NoBody'
      BY <1>1, <3>2 DEF NoBody, BodyAt
    <3> QED BY <3>1, <3>2, <3>3
  <2>3. ASSUME NEW i \in 1..Len(replies), replies[i].acknak = stc.seqnum
        PROVE  NoBody' /\ port'.pc = "read" /\ Done(stc.msg, replies[i].error)
    <3>1. NoBody /\ Done(stc.msg, replies[i].error)
      BY <2>3 DEF SafeInv, OrderInv
    <3>2. port' = port
      BY <1>2, <1>4, <3>1 DEF NoBody, BodyAt
    <3> QED BY <1>2, <1>3, <3>1, <3>2
  <2> QED BY <1>2, <2>1, <2>2, <2>3 DEF OrderInv, BodyAt, Done
<1>6. ASSUME NEW ops, NoneToCome(ops)
      PROVE  NoneToCome(ops)'
  <2>1. \A i \in 1..Len(wire') : wire'[i].kind = "body" => wire'[i].frame.msg.op \notin ops
    BY <1>1, <1>6 DEF NoneToCome, BodyAt
  <2>2. port'.pc = "handle" => port'.frame.msg.op \notin ops
    BY <1>2, <1>4, <1>6 DEF NoneToCome, BodyAt
  <2> QED BY <2>1, <2>2 DEF NoneToCome, BodyAt
<1>7. KnownInv'
  BY <1>2, <1>6 DEF SafeInv, KnownInv, KnownInForce
<1>8. PromiseInv'
  <2>1. port'.pc \notin {"save", "boot"}
    BY <1>2, <1>4
  <2> QED BY <1>2, <1>6, <2>1 DEF SafeInv, PromiseInv, PromiseKept
<1> QED BY <1>5, <1>7, <1>8

(* While a handler or MainControlTask is at work there is no reply to the
   request the STC waits for, and the order stays.                           *)
LEMMA OrderWhenBusy ==
  ASSUME SafeInv, UNCHANGED <<wire, replies, stc>>,
         port.pc \in {"handle", "save", "boot"}, port'.pc # "handle",
         Busy' => Busy /\ port'.frame = port.frame
  PROVE  /\ OrderInv'
         /\ \A ops : NoneToCome(ops) => NoneToCome(ops)'
<1>1. stc.pc = "wait" => \A i \in 1..Len(replies) : replies[i].acknak # stc.seqnum
  BY DEF SafeInv, OrderInv
<1>2. OrderInv'
  BY <1>1 DEF SafeInv, OrderInv, BodyAt, NoBody
<1>3. \A ops : NoneToCome(ops) => NoneToCome(ops)'
  BY DEF NoneToCome, BodyAt
<1> QED BY <1>2, <1>3

(* A handler that is no save leaves the EEPROM alone, and changes what is in
   memory only when the STC asked for it after its last CONFIG_SET.          *)
LEMMA OrderWhenHandled ==
  ASSUME SafeInv, IPCFromSTC_Task, port.pc \in {"handle", "save"}
  PROVE  OrderInv' /\ KnownInv' /\ PromiseInv'
<1>1. port \in PortType /\ g_sys \in Configs /\ eeprom \in Configs
  BY DEF SafeInv, Typed
<1>2. CASE HandleConfigSet
  <2>1. /\ UNCHANGED <<wire, replies, stc, eeprom>> /\ port'.pc = "reply"
        /\ port.pc = "handle" /\ port'.frame = port.frame
        /\ port.frame.msg.op = "CONFIG_SET"
    BY <1>1, <1>2, ThenPort DEF HandleConfigSet, Handles, linkVars, stcVars
  <2>2. OrderInv' /\ \A ops : NoneToCome(ops) => NoneToCome(ops)'
    BY <2>1, OrderWhenBusy DEF Busy
  <2>3. stc.known = None
    BY <2>1 DEF SafeInv, KnownInv, NoneToCome
  <2> QED BY <2>1, <2>2, <2>3 DEF SafeInv, KnownInv, PromiseInv, PromiseKept
<1>3. CASE HandleEPROM_Load
  <2>1. /\ UNCHANGED <<wire, replies, stc>> /\ port'.pc \in {"save", "reply"}
        /\ port.pc = "handle" /\ port'.frame = port.frame
        /\ port.frame.msg.op = "EPROM_LOAD" /\ SysParamsRead
        /\ (Readable => port'.pc = "reply")
    BY <1>1, <1>3, ThenPort DEF HandleEPROM_Load, Handles, linkVars, stcVars
  <2>2. OrderInv' /\ \A ops : NoneToCome(ops) => NoneToCome(ops)'
    BY <2>1, OrderWhenBusy DEF Busy
  <2>3. stc.known = None
    BY <2>1 DEF SafeInv, KnownInv, NoneToCome
  <2>4. eeprom' = eeprom
    BY <1>1, <2>1, ReadParams
  <2>5. stc.promised # None => Readable
    BY <1>1 DEF SafeInv, Typed, StcType, PromiseInv, PromiseKept, Readable, Configs
  <2> QED BY <2>1, <2>2, <2>3, <2>4, <2>5
          DEF SafeInv, KnownInv, PromiseInv, PromiseKept
<1>4. CASE HandleEPROM_Store
  <2>1. /\ UNCHANGED <<wire, replies, stc>> /\ port'.pc = "save"
        /\ port.pc = "handle" /\ port'.frame = port.frame
        /\ port.frame.msg.op = "EPROM_STORE" /\ SysParamsWrite(g_sys)
    BY <1>1, <1>4, ThenPort DEF HandleEPROM_Store, Handles, linkVars, stcVars
  <2>2. OrderInv' /\ \A ops : NoneToCome(ops) => NoneToCome(ops)'
    BY <2>1, OrderWhenBusy DEF Busy
  <2>3. stc.promised = None
    BY <2>1 DEF SafeInv, PromiseInv, NoneToCome
  <2>4. g_sys' = [g_sys EXCEPT !.head = TRUE]
        /\ [g_sys' EXCEPT !.head = TRUE] = [g_sys EXCEPT !.head = TRUE]
    BY <1>1, <2>1, SaveStarts DEF Configs
  <2> QED BY <2>1, <2>2, <2>3, <2>4
          DEF SafeInv, KnownInv, KnownInForce, PromiseInv
<1>5. CASE HandleEPROM_Reset
  <2>1. /\ UNCHANGED <<wire, replies, stc, eeprom>> /\ port'.pc = "reply"
        /\ port.pc = "handle" /\ port'.frame = port.frame
        /\ port.frame.msg.op = "EPROM_RESET"
    BY <1>1, <1>5, ThenPort DEF HandleEPROM_Reset, Handles, linkVars, stcVars
  <2>2. OrderInv' /\ \A ops : NoneToCome(ops) => NoneToCome(ops)'
    BY <2>1, OrderWhenBusy DEF Busy
  <2>3. stc.known = None
    BY <2>1 DEF SafeInv, KnownInv, NoneToCome
  <2> QED BY <2>1, <2>2, <2>3 DEF SafeInv, KnownInv, PromiseInv, PromiseKept
<1>6. CASE HandleOther \/ RefuseInHalt
  <2>1. /\ UNCHANGED <<wire, replies, stc, g_sys, eeprom>>
        /\ port.pc = "handle" /\ port'.pc \in {"read", "reply"}
        /\ (port'.pc = "reply" => port'.frame = port.frame)
    BY <1>1, <1>6, ThenPort, FreePort
       DEF HandleOther, RefuseInHalt, Handles, linkVars, stcVars, paramVars
  <2>2. OrderInv' /\ \A ops : NoneToCome(ops) => NoneToCome(ops)'
    BY <2>1, OrderWhenBusy DEF Busy
  <2> QED BY <2>1, <2>2
          DEF SafeInv, KnownInv, KnownInForce, PromiseInv, PromiseKept
<1>7. CASE PortPrograms \/ ProgramFails
  <2>1. /\ UNCHANGED <<wire, replies, stc, g_sys>>
        /\ port.pc = "save" /\ port'.pc \in {"save", "reply"}
        /\ port'.frame = port.frame
    BY <1>1, <1>7, ThenPort
       DEF PortPrograms, ProgramFails, ProgramWord, linkVars, stcVars, PortType
  <2>2. OrderInv' /\ \A ops : NoneToCome(ops) => NoneToCome(ops)'
    BY <2>1, OrderWhenBusy DEF Busy
  <2>3. stc.promised = None
    BY <2>1 DEF SafeInv, PromiseInv
  <2> QED BY <2>1, <2>2, <2>3 DEF SafeInv, KnownInv, KnownInForce, PromiseInv
<1> QED BY <1>2, <1>3, <1>4, <1>5, <1>6, <1>7
        DEF IPCFromSTC_Task, IPC_FrameRx, RxTimeout, IPCCMD_Write

(* An answer is to the frame at the port.                                   *)
LEMMA OrderWhenAnswered ==
  ASSUME SafeInv, IPCCMD_Write
  PROVE  OrderInv' /\ KnownInv' /\ PromiseInv'
<1>1. /\ UNCHANGED <<wire, stc, g_sys, eeprom>>
      /\ port.pc = "reply" /\ port' = Free /\ port'.pc = "read"
  BY FreePort DEF IPCCMD_Write, linkVars, paramVars
<1>2. OrderInv'
  <2> SUFFICES ASSUME stc.pc = "wait", NEW i \in 1..Len(replies'),
                      replies'[i].acknak = stc.seqnum
               PROVE  NoBody /\ Done(stc.msg, replies'[i].error)
    BY <1>1 DEF SafeInv, OrderInv, BodyAt, NoBody, Busy, Done
  <2>1. \A k \in 1..Len(replies) : replies[k].acknak # stc.seqnum
    BY <1>1 DEF SafeInv, OrderInv
  <2> DEFINE r == Reply(ReplyType(port.frame.msg.op), port.frame.seqnum, port.error)
  <2>2. replies' = Append(replies, r)
    BY <2>1 DEF IPCCMD_Write
  <2>3. r.acknak = port.frame.seqnum /\ r.error = port.error
    BY DEF Reply
  <2>4. replies \in Seq(ReplyTypes) /\ r \in ReplyTypes
    <3>1. port.frame \in Frames /\ port \in PortType
      BY <1>1 DEF SafeInv, HandlerInv, Busy, Typed
    <3> QED BY <3>1 DEF Reply, ReplyType, ReplyTypes, PortType, Frames, SafeInv, Typed
  <2> HIDE DEF r
  <2>5. replies'[i] = r
    BY <2>1, <2>2, <2>4, AppendProperties
  <2>6. port.frame.msg = stc.msg /\ NoBody
    BY <1>1, <2>3, <2>5 DEF SafeInv, OrderInv, Busy
  <2>7. Done(port.frame.msg, port.error)
    BY <1>1 DEF SafeInv, HandlerInv
  <2> QED BY <2>3, <2>5, <2>6, <2>7
<1> QED BY <1>1, <1>2
        DEF SafeInv, KnownInv, KnownInForce, PromiseInv, PromiseKept, NoneToCome,
            BodyAt

(* A read that times out changes nothing the port or the STC relies on.      *)
LEMMA OrderWhenQuiet ==
  ASSUME SafeInv, RxTimeout \/ UNCHANGED vars
  PROVE  OrderInv' /\ KnownInv' /\ PromiseInv'
<1>1. UNCHANGED <<wire, stc, port, replies, g_sys, eeprom>>
  BY DEF RxTimeout, vars, linkVars, paramVars, stcVars
<1> QED BY <1>1
        DEF SafeInv, OrderInv, KnownInv, KnownInForce, PromiseInv, PromiseKept,
            NoneToCome, BodyAt, NoBody, Busy, Done

(* A power cut leaves nothing on its way; the defaults are saved only when the
   header was never written.                                                 *)
LEMMA OrderAfterPower ==
  ASSUME SafeInv, PowerCycle \/ MainPrograms
  PROVE  OrderInv' /\ KnownInv' /\ PromiseInv'
<1>1. CASE PowerCycle
  <2>1. /\ wire' = <<>> /\ stc'.pc = "idle" /\ stc'.known = None
        /\ stc'.promised = stc.promised
    BY <1>1 DEF PowerCycle, SafeInv, Typed, StcType
  <2>2. stc.promised # None => Readable
    BY DEF SafeInv, Typed, StcType, PromiseInv, PromiseKept, Readable, Configs
  <2>3. eeprom' = eeprom
    BY <1>1, ReadParams DEF PowerCycle, SafeInv, Typed
  <2>4. port'.pc \in {"read", "boot"} /\ (Readable => port'.pc = "read")
    BY <1>1, FreePort DEF PowerCycle, Free
  <2>5. Len(wire') = 0
    BY <2>1
  <2>6. \A ops : NoneToCome(ops)'
    BY <2>4, <2>5 DEF NoneToCome
  <2> QED BY <2>1, <2>2, <2>3, <2>4, <2>6
          DEF SafeInv, OrderInv, KnownInv, PromiseInv, PromiseKept
<1>2. CASE MainPrograms
  <2>1. /\ UNCHANGED <<wire, replies, stc, g_sys>>
        /\ port.pc = "boot" /\ port'.pc \in {"read", "boot"}
    BY <1>2, FreePort DEF MainPrograms, ProgramWord, linkVars, stcVars
  <2>2. OrderInv' /\ \A ops : NoneToCome(ops) => NoneToCome(ops)'
    BY <2>1, OrderWhenBusy DEF Busy
  <2>3. stc.promised = None
    BY <2>1 DEF SafeInv, PromiseInv
  <2> QED BY <2>1, <2>2, <2>3 DEF SafeInv, KnownInv, KnownInForce, PromiseInv
<1> QED BY <1>1, <1>2

(* With fresh numbers every step keeps the order and what the STC relies on. *)
LEMMA SafeStep ==
  ASSUME SafeInv, NumbersAreFresh, [Next]_vars
  PROVE  SafeInv'
<1>1. OrderInv' /\ KnownInv' /\ PromiseInv'
  <2>1. IPCFromSTC_Task =>
          \/ IPC_FrameRx
          \/ RxTimeout
          \/ IPCFromSTC_Task /\ port.pc \in {"handle", "save"}
          \/ IPCCMD_Write
    BY DEF IPCFromSTC_Task, Handles, HandleConfigSet, HandleEPROM_Load,
           HandleEPROM_Store, HandleEPROM_Reset, HandleOther, RefuseInHalt,
           PortPrograms, ProgramFails
  <2> QED BY <2>1, NextSteps, OrderWhenSent, OrderWhenReceived, OrderWhenGivenUp,
             OrderWhenRead, OrderWhenQuiet, OrderWhenHandled, OrderWhenAnswered,
             OrderAfterPower
<1> QED BY <1>1, TypeStep DEF SafeInv

(* At first nothing is on its way.                                          *)
LEMMA SafeAtFirst == Init => SafeInv
<1> SUFFICES ASSUME Init PROVE SafeInv
  OBVIOUS
<1>1. g_sys \in Configs /\ eeprom \in Configs /\ saving = <<>>
  BY ParamsAssumption DEF Init, ParamsInit, Config, Configs
<1>2. wire = <<>> /\ replies = <<>> /\ Len(wire) = 0 /\ Len(replies) = 0
      /\ wire \in Seq(Tokens) /\ replies \in Seq(ReplyTypes)
  BY DEF Init
<1>3. stc \in StcType /\ stc.pc = "idle" /\ stc.known = None /\ stc.promised = None
  <2>1. 1 \in 1..MaxSeq
    BY PortAssumption
  <2> QED BY <2>1 DEF Init, StcType
<1>4. noise \in 0..MaxNoise /\ cuts \in 0..MaxCuts
  BY PortAssumption DEF Init
<1> QED BY <1>1, <1>2, <1>3, <1>4, FreePort
        DEF Init, SafeInv, Typed, HandlerInv, OrderInv, KnownInv, PromiseInv, Busy

(* When the numbers are fresh, what the STC set last is what the port runs
   with (HandleConfigSet, IPC_FrameRx, IPCCMD_WriteMessageACK).              *)
THEOREM KnownStaysInForce == Spec /\ []NumbersAreFresh => []KnownInForce
<1>1. SafeInv => KnownInForce
  BY DEF SafeInv, KnownInv, KnownInForce
<1> QED BY <1>1, SafeAtFirst, SafeStep, PTL DEF Spec

(* ... and what it stored is in the EEPROM, whatever reply is lost and wherever
   the power fails (SysParamsWrite, SysParamsRead).                          *)
THEOREM StoredIsKept == Spec /\ []NumbersAreFresh => []PromiseKept
<1>1. SafeInv => PromiseKept
  BY DEF SafeInv, PromiseInv, PromiseKept
<1> QED BY <1>1, SafeAtFirst, SafeStep, PTL DEF Spec

-----------------------------------------------------------------------------
(* What noise costs                                                          *)

LineSafe == Typed /\ HandlerInv /\ LineInv /\ NoiseInv

(* A frame that ends with its body leaves no rubbish behind; one that does not
   has lost its body, or its body has come before.                           *)
LEMMA SentShapes ==
  ASSUME NEW f \in Frames, NEW t \in {Sent(f)} \cup Garbled(f)
  PROVE  \/ t # <<>> /\ t[Len(t)] = Body(f)
         \/ t # Sent(f) /\ \A i \in 1..Len(t) : t[i].kind # "body"
         \/ t # Sent(f) /\ Len(t) = 4 /\ t[1] = Msb /\ t[2] = Lsb /\ t[3] = Body(f)
<1> DEFINE b == Body(f)
<1>1. /\ b.kind = "body" /\ Msb.kind = "msb" /\ Lsb.kind = "lsb"
      /\ Damaged.kind = "damaged" /\ Short.kind = "short"
  BY DEF Body, Msb, Lsb, Damaged, Short
<1>2. /\ Sent(f) = <<Msb, Lsb, b>>
      /\ t \in {<<Msb, Lsb, b>>,
                <<Msb, Msb, Lsb, b>>, <<Msb, Lsb, Lsb, b>>,
                <<Lsb, b>>, <<Msb, b>>, <<b>>,
                <<Msb, Lsb, Damaged>>, <<Msb, Lsb, Short>>, <<Msb, Lsb>>, <<Msb>>,
                <<>>, <<Msb, Lsb, b, Msb>>}
  BY DEF Sent, Garbled
<1> HIDE DEF b
<1>3. CASE t \in {<<Msb, Lsb, b>>, <<Msb, Msb, Lsb, b>>, <<Msb, Lsb, Lsb, b>>,
                  <<Lsb, b>>, <<Msb, b>>, <<b>>}
  <2>1. t # <<>> /\ t[Len(t)] = b
    BY <1>3
  <2> QED BY <2>1 DEF b
<1>4. CASE t = <<Msb, Lsb, b, Msb>>
  <2>1. Len(t) = 4 /\ t[1] = Msb /\ t[2] = Lsb /\ t[3] = b /\ Len(Sent(f)) = 3
    BY <1>2, <1>4
  <2> QED BY <2>1 DEF b
<1>5. CASE t \in {<<Msb, Lsb, Damaged>>, <<Msb, Lsb, Short>>, <<Msb, Lsb>>, <<Msb>>, <<>>}
  <2>1. \A i \in 1..Len(t) : t[i].kind # "body"
    BY <1>1, <1>5
  <2>2. Len(Sent(f)) = 3 /\ Sent(f)[3].kind = "body" /\ 3 \in 1..Len(Sent(f))
    BY <1>1, <1>2
  <2> QED BY <2>1, <2>2
<1> QED BY <1>2, <1>3, <1>4, <1>5

(* Where the trail of the last frame ends the next begins.                    *)
LEMMA LineWhenSent ==
  ASSUME LineSafe, NumbersAreFresh, ~hurried, NEW msg \in Requests, Send(msg)
  PROVE  LineInv' /\ NoiseInv'
<1> DEFINE f == Frame(stc.seqnum, msg)
<1>1. /\ stc.pc = "idle" /\ stc'.pc = "wait" /\ stc'.seqnum = stc.seqnum
      /\ rx' = rx /\ hurried' = hurried /\ missed' = missed /\ quiet' = FALSE
      /\ port' = port /\ replies' = replies
  BY DEF Send, LineSafe, Typed, StcType
<1>2. /\ wire \in Seq(Tokens) /\ Len(wire) \in Nat
      /\ noise \in Nat /\ missed \in Nat
  BY DEF LineSafe, Typed
<1>3. Trail
  BY <1>1 DEF LineSafe, LineInv, TrailIsLeft
<1>4. Len(wire) \in {0, 1} /\ (Len(wire) = 1 => wire = <<Msb>> /\ wire[1] = Msb)
      /\ (Len(wire) = 0 => wire = <<>>)
  BY <1>2, <1>3 DEF Trail
<1>5. ~Taken'
  <2>1. ~Outstanding(stc.seqnum)
    BY <1>1 DEF NumbersAreFresh, Send
  <2> QED BY <1>1, <2>1 DEF Outstanding, Taken, Busy
<1>6. f \in Frames
  BY DEF LineSafe, Typed, StcType, Frame, Frames
<1>7. \E t \in {Sent(f)} \cup Garbled(f) :
        wire' = wire \o t /\ (noise' = noise + 1 \/ (t = Sent(f) /\ noise' = noise))
  <2>1. \/ wire' = wire \o Sent(f) /\ noise' = noise
        \/ noise' = noise + 1 /\ \E t \in Garbled(f) : wire' = wire \o t
    BY Zenon DEF Send
  <2> HIDE DEF f
  <2> QED BY <2>1
<1> HIDE DEF f
<1>8. PICK t \in {Sent(f)} \cup Garbled(f) :
        wire' = wire \o t /\ (noise' = noise + 1 \/ (t = Sent(f) /\ noise' = noise))
  BY <1>7
<1>9. /\ t \in Seq(Tokens) /\ Len(t) \in 0..4
      /\ \A i \in 1..Len(t) : t[i].kind = "body" =>
            /\ t[i] = Body(f)
            /\ i = Len(t) \/ (i = Len(t) - 1 /\ t[Len(t)] = Msb)
            /\ \A j \in 1..Len(t) : t[j].kind # "short"
            /\ \A j \in 1..Len(t) : j # i => t[j].kind # "body"
  BY <1>6, SentTokens
<1>10. /\ wire' \in Seq(Tokens) /\ Len(wire') = Len(wire) + Len(t)
       /\ \A i \in 1..Len(wire) : wire'[i] = wire[i] /\ i \in 1..Len(wire')
       /\ \A i \in 1..Len(t) : wire'[Len(wire) + i] = t[i]
                               /\ Len(wire) + i \in 1..Len(wire')
       /\ \A i \in 1..Len(wire') :
            \/ i \in 1..Len(wire)
            \/ i - Len(wire) \in 1..Len(t) /\ wire'[i] = t[i - Len(wire)]
  BY <1>2, <1>8, <1>9, WireExtended
<1>11. \A i \in 1..Len(wire) : wire'[i] = Msb /\ wire'[i].kind = "msb"
  BY <1>4, <1>10 DEF Msb
<1>12. BodyIsLast'
  <2> SUFFICES ASSUME NEW i \in 1..Len(wire'), wire'[i].kind = "body"
               PROVE  \/ i = Len(wire')
                      \/ i = Len(wire') - 1 /\ wire'[Len(wire')] = Msb
    BY DEF BodyIsLast, BodyAt
  <2>1. i - Len(wire) \in 1..Len(t) /\ wire'[i] = t[i - Len(wire)]
    BY <1>10, <1>11
  <2>2. \/ i - Len(wire) = Len(t)
        \/ i - Len(wire) = Len(t) - 1 /\ t[Len(t)] = Msb
    BY <1>9, <2>1
  <2>3. CASE i - Len(wire) = Len(t)
    BY <1>2, <1>9, <1>10, <2>3
  <2>4. CASE i - Len(wire) = Len(t) - 1 /\ t[Len(t)] = Msb
    <3>1. Len(t) \in 1..Len(t) /\ Len(wire) + Len(t) = Len(wire')
      BY <1>9, <1>10, <2>1, <2>4
    <3>2. wire'[Len(wire')] = Msb
      BY <1>10, <2>4, <3>1
    <3> QED BY <1>2, <1>9, <1>10, <2>4, <3>2
  <2> QED BY <2>2, <2>3, <2>4
<1>13. BodyIsWhole'
  <2> SUFFICES ASSUME NEW i \in 1..Len(wire'), wire'[i].kind = "body"
               PROVE  /\ rx' # "rest"
                      /\ \A j \in 1..Len(wire') : wire'[j].kind # "short"
    BY DEF BodyIsWhole, NoBody, BodyAt
  <2>1. i - Len(wire) \in 1..Len(t) /\ t[i - Len(wire)].kind = "body"
    BY <1>10, <1>11
  <2>2. \A j \in 1..Len(t) : t[j].kind # "short"
    BY <1>9, <2>1
  <2>3. \A j \in 1..Len(wire') : wire'[j].kind # "short"
    BY <1>10, <1>11, <2>2
  <2> QED BY <1>1, <1>3, <2>3 DEF Trail
<1>14. LineInv'
  BY <1>1, <1>5, <1>12, <1>13 DEF LineInv, TrailIsLeft
<1>15. NoBody
  BY <1>4 DEF NoBody, BodyAt, Msb
<1>16. /\ Len(wire) = 0 /\ rx = "hunt" => missed <= noise
       /\ missed + 1 <= noise \/ (Len(wire) = 0 /\ rx = "hunt")
  <2>1. (Len(wire) = 0 /\ rx = "hunt") \/ Rubbish
    BY <1>3, <1>4 DEF Rubbish, Trail, Msb
  <2> QED BY <1>2, <1>15, <2>1 DEF LineSafe, NoiseInv, Debt
<1>17. CASE t # <<>> /\ t[Len(t)] = Body(f)
  <2>1. Len(t) \in 1..Len(t)
    BY <1>9, <1>17, EmptySeq
  <2>2. wire'[Len(wire')].kind = "body" /\ wire' # <<>>
    BY <1>10, <1>17, <2>1 DEF Body
  <2>3. ~Rubbish'
    BY <2>2 DEF Rubbish
  <2>4. CASE t = Sent(f) /\ Len(wire) = 0 /\ rx = "hunt"
    <3>1. Len(t) = 3 /\ t[1] = Msb /\ t[2] = Lsb /\ t[3] = Body(f)
      BY <2>4 DEF Sent
    <3>2. Len(wire') = 3 /\ wire'[1] = Msb /\ wire'[2] = Lsb /\ wire'[3] = Body(f)
      BY <1>10, <2>4, <3>1
    <3>3. OnTrack'
      BY <1>1, <2>4, <3>2 DEF OnTrack, BodyAt, Body
    <3> QED BY <1>1, <1>2, <1>8, <1>14, <1>16, <2>3, <2>4, <3>3 DEF NoiseInv, Debt
  <2>5. CASE ~(t = Sent(f) /\ Len(wire) = 0 /\ rx = "hunt")
    <3>1. missed + 1 <= noise'
      BY <1>2, <1>8, <1>16, <2>5
    <3> QED BY <1>1, <1>2, <1>8, <1>14, <2>3, <3>1 DEF NoiseInv, Debt
  <2> QED BY <2>4, <2>5
<1>18. CASE t # Sent(f) /\ \A i \in 1..Len(t) : t[i].kind # "body"
  <2>1. NoBody'
    BY <1>10, <1>11, <1>18 DEF NoBody, BodyAt
  <2>2. missed + 1 <= noise'
    BY <1>2, <1>8, <1>16, <1>18
  <2> QED BY <1>1, <1>2, <1>8, <1>14, <2>1, <2>2, <1>18 DEF NoiseInv, Debt
<1>19. CASE t # Sent(f) /\ Len(t) = 4 /\ t[1] = Msb /\ t[2] = Lsb /\ t[3] = Body(f)
  <2>1. CASE Len(wire) = 0 /\ rx = "hunt"
    <3>1. Len(wire') = 4 /\ wire'[1] = Msb /\ wire'[2] = Lsb /\ wire'[3] = Body(f)
      BY <1>10, <1>19, <2>1
    <3>2. OnTrack'
      BY <1>1, <2>1, <3>1 DEF OnTrack, BodyAt, Body
    <3> QED BY <1>1, <1>2, <1>8, <1>14, <1>16, <1>19, <2>1, <3>2 DEF NoiseInv, Debt
  <2>2. CASE ~(Len(wire) = 0 /\ rx = "hunt")
    <3>1. missed + 2 <= noise'
      BY <1>2, <1>8, <1>16, <1>19, <2>2
    <3> QED BY <1>1, <1>2, <1>8, <1>14, <3>1 DEF NoiseInv, Debt
  <2> QED BY <2>1, <2>2
<1> QED BY <1>14, <1>17, <1>18, <1>19, <1>6, SentShapes

(* IPC_FrameRx misses a body only when it is off the track, and one missed body
   brings it back: all noise before it is paid for.                          *)
LEMMA LineWhenRead ==
  ASSUME LineSafe, IPC_FrameRx
  PROVE  LineInv' /\ NoiseInv'
<1>1. /\ wire' \in Seq(Tokens) /\ wire # <<>>
      /\ Len(wire) \in Nat \ {0} /\ Len(wire') = Len(wire) - 1
      /\ Head(wire) = wire[1] /\ wire[1] \in Tokens
      /\ \A i \in 1..Len(wire') : wire'[i] = wire[i + 1] /\ i + 1 \in 1..Len(wire)
      /\ (wire' = <<>> <=> Len(wire) = 1)
  BY WireTaken DEF IPC_FrameRx, LineSafe, Typed
<1>2. /\ port.pc = "read" /\ rx' \in RxNext(rx, wire[1].kind)
      /\ quiet' = quiet /\ hurried' = hurried /\ noise' = noise
      /\ stc' = stc /\ replies' = replies /\ 1 \in 1..Len(wire)
      /\ hurried => missed' = missed
  BY <1>1 DEF IPC_FrameRx, stcVars
<1>3. ~quiet
  BY <1>1 DEF LineSafe, LineInv
<1>4. CASE hurried
  BY <1>2, <1>3, <1>4 DEF LineSafe, LineInv, NoiseInv
<1> SUFFICES ASSUME ~hurried PROVE LineInv' /\ NoiseInv'
  BY <1>4
<1>5. BodyIsLast /\ TrailIsLeft /\ BodyIsWhole
  BY DEF LineSafe, LineInv
<1>6. wire[1].kind = "body" =>
        \/ Len(wire) = 1
        \/ Len(wire) = 2 /\ wire[2] = Msb
  BY <1>1, <1>2, <1>5 DEF BodyIsLast, BodyAt
<1>7. wire[1].kind = "body" => NoBody' /\ rx # "rest"
  <2>1. wire[1].kind = "body" => NoBody'
    BY <1>1, <1>6 DEF NoBody, BodyAt, Msb
  <2> QED BY <1>2, <1>5, <2>1 DEF BodyIsWhole, NoBody, BodyAt
<1>8. wire[1].kind # "body" => (NoBody <=> NoBody')
  <2> SUFFICES ASSUME wire[1].kind # "body" PROVE NoBody <=> NoBody'
    OBVIOUS
  <2>1. NoBody => NoBody'
    BY <1>1 DEF NoBody, BodyAt
  <2>2. ASSUME NoBody', NEW i \in 1..Len(wire) PROVE wire[i].kind # "body"
    <3>1. CASE i = 1
      BY <3>1
    <3>2. CASE i # 1
      <4>1. i - 1 \in 1..Len(wire') /\ (i - 1) + 1 = i
        BY <1>1, <3>2
      <4>2. wire'[i - 1].kind # "body" /\ wire'[i - 1] = wire[i]
        BY <1>1, <2>2, <4>1 DEF NoBody, BodyAt
      <4> QED BY <4>2
    <3> QED BY <3>1, <3>2
  <2> QED BY <2>1, <2>2 DEF NoBody, BodyAt
<1>9. BodyIsLast'
  <2> SUFFICES ASSUME NEW i \in 1..Len(wire'), wire'[i].kind = "body"
               PROVE  \/ i = Len(wire')
                      \/ i = Len(wire') - 1 /\ wire'[Len(wire')] = Msb
    BY DEF BodyIsLast, BodyAt
  <2>1. i + 1 \in 1..Len(wire) /\ wire[i + 1].kind = "body"
    BY <1>1
  <2>2. \/ i + 1 = Len(wire)
        \/ i + 1 = Len(wire) - 1 /\ wire[Len(wire)] = Msb
    BY <1>5, <2>1 DEF BodyIsLast, BodyAt
  <2>3. Len(wire') \in 1..Len(wire') /\ Len(wire') + 1 = Len(wire)
    BY <1>1, <2>1
  <2>4. wire'[Len(wire')] = wire[Len(wire)]
    BY <1>1, <2>3
  <2> QED BY <1>1, <2>2, <2>4
<1>10. BodyIsWhole'
  <2> SUFFICES ASSUME ~NoBody'
               PROVE  rx' # "rest" /\ \A i \in 1..Len(wire') : wire'[i].kind # "short"
    BY DEF BodyIsWhole
  <2>1. ~NoBody
    BY <1>7, <1>8
  <2>2. rx # "rest" /\ \A i \in 1..Len(wire) : wire[i].kind # "short"
    BY <1>5, <2>1 DEF BodyIsWhole
  <2>3. rx' # "rest"
    BY <1>2, <2>2 DEF RxNext, LineSafe, Typed
  <2> QED BY <1>1, <2>2, <2>3
<1>11. TrailIsLeft'
  <2>1. ASSUME Trail PROVE Trail'
    <3>1. rx = "hunt" /\ wire = <<Msb>>
      BY <1>1, <2>1 DEF Trail
    <3>2. wire[1].kind = "msb" /\ Len(wire) = 1
      BY <3>1 DEF Msb
    <3> QED BY <1>1, <1>2, <3>1, <3>2 DEF Trail, RxNext
  <2>2. CASE stc.pc = "idle" \/ Taken
    BY <1>5, <2>1, <2>2 DEF TrailIsLeft
  <2>3. CASE stc.pc # "idle" /\ ~Taken /\ Taken'
    <3>1. rx = "body" /\ wire[1].kind = "body"
      BY <1>1, <1>2, <2>3 DEF IPC_FrameRx, Taken, Busy
    <3>2. rx' = "hunt"
      BY <1>2, <3>1 DEF RxNext
    <3>3. wire' = <<>> \/ wire' = <<Msb>>
      <4>1. CASE Len(wire) = 1
        BY <1>1, <4>1
      <4>2. CASE Len(wire) = 2 /\ wire[2] = Msb
        <5>1. Len(wire') = 1 /\ wire'[1] = Msb
          BY <1>1, <4>2
        <5> QED BY <1>1, <5>1
      <4> QED BY <1>6, <3>1, <4>1, <4>2
    <3> QED BY <3>2, <3>3 DEF TrailIsLeft, Trail
  <2> QED BY <1>2, <2>2, <2>1, <2>3 DEF TrailIsLeft
<1>12. LineInv'
  BY <1>2, <1>3, <1>9, <1>10, <1>11 DEF LineInv
<1>13. noise \in Nat /\ missed \in Nat /\ missed + Debt <= noise
  BY DEF LineSafe, Typed, NoiseInv
<1>14. missed' = missed + (IF wire[1].kind = "body" /\ rx # "body" THEN 1 ELSE 0)
  BY <1>1, <1>13 DEF IPC_FrameRx
<1>15. Rubbish' => Rubbish
  <2>1. CASE Len(wire) = 1
    <3>1. wire' = <<>> /\ (Rubbish' <=> rx' # "hunt")
      BY <1>1, <2>1 DEF Rubbish
    <3>2. wire[1].kind = "body" => rx' = "hunt"
      BY <1>2, <1>7 DEF RxNext, LineSafe, Typed
    <3> QED BY <1>1, <2>1, <3>1, <3>2 DEF Rubbish
  <2>2. CASE Len(wire) # 1
    <3>1. Len(wire') \in 1..Len(wire') /\ Len(wire') + 1 = Len(wire) /\ wire' # <<>>
      BY <1>1, <2>2
    <3>2. wire'[Len(wire')] = wire[Len(wire)]
      BY <1>1, <3>1
    <3> QED BY <1>1, <3>1, <3>2 DEF Rubbish
  <2> QED BY <2>1, <2>2
<1>16. CASE wire[1].kind = "body"
  <2>1. ~NoBody /\ NoBody'
    BY <1>2, <1>7, <1>16 DEF NoBody, BodyAt
  <2>2. OnTrack => rx = "body"
    BY <1>16 DEF OnTrack, Msb, Lsb
  <2> QED BY <1>2, <1>12, <1>13, <1>14, <1>15, <1>16, <2>1, <2>2 DEF NoiseInv, Debt
<1>17. CASE wire[1].kind # "body"
  <2>1. NoBody <=> NoBody'
    BY <1>8, <1>17
  <2>2. OnTrack => OnTrack'
    <3>1. CASE rx = "hunt" /\ Len(wire) >= 3 /\ wire[1] = Msb /\ wire[2] = Lsb /\ BodyAt(3)
      <4>1. rx' = "sof"
        BY <1>2, <3>1 DEF RxNext, Msb
      <4>2. Len(wire') >= 2 /\ wire'[1] = wire[2] /\ wire'[2] = wire[3]
        BY <1>1, <3>1
      <4> QED BY <3>1, <4>1, <4>2 DEF OnTrack, BodyAt
    <3>2. CASE rx = "sof" /\ Len(wire) >= 2 /\ wire[1] = Lsb /\ BodyAt(2)
      <4>1. rx' = "body"
        BY <1>2, <3>2 DEF RxNext, Lsb
      <4>2. Len(wire') >= 1 /\ wire'[1] = wire[2]
        BY <1>1, <3>2
      <4> QED BY <3>2, <4>1, <4>2 DEF OnTrack, BodyAt
    <3> QED BY <1>17, <3>1, <3>2 DEF OnTrack, BodyAt
  <2> QED BY <1>2, <1>12, <1>13, <1>14, <1>15, <1>17, <2>1, <2>2 DEF NoiseInv, Debt
<1> QED BY <1>16, <1>17

(* A step that leaves the line alone, and has no request come through.        *)
LEMMA LineWhenIdle ==
  ASSUME LineSafe, UNCHANGED <<wire, rx, quiet, missed>>, noise' >= noise, noise' \in Nat,
         \/ stc' = stc /\ hurried' = hurried /\ (Taken' => Taken)
         \/ stc'.pc = "idle" /\ (hurried' \/ (hurried' = hurried /\ Trail))
            /\ (hurried => hurried')
  PROVE  LineInv' /\ NoiseInv'
<1>1. /\ (BodyIsLast => BodyIsLast') /\ (BodyIsWhole => BodyIsWhole') /\ (Trail => Trail')
      /\ (NoBody' <=> NoBody) /\ (OnTrack' <=> OnTrack) /\ (Rubbish' <=> Rubbish)
  BY DEF BodyIsLast, BodyIsWhole, Trail, NoBody, BodyAt, OnTrack, Rubbish
<1>2. hurried => hurried'
  OBVIOUS
<1>3. LineInv'
  BY <1>1, <1>2 DEF LineSafe, LineInv, TrailIsLeft
<1>4. noise \in Nat /\ missed \in Nat
  BY DEF LineSafe, Typed
<1>5. Debt' = Debt /\ Debt \in Nat
  BY <1>1 DEF Debt
<1>6. missed + (IF hurried THEN 0 ELSE Debt) <= noise
  BY DEF LineSafe, NoiseInv
<1>7. missed' + (IF hurried' THEN 0 ELSE Debt') <= noise'
  <2> HIDE DEF Debt
  <2> QED BY <1>2, <1>4, <1>5, <1>6
<1> QED BY <1>3, <1>7 DEF NoiseInv

(* Every step pays for the frame it loses.                                  *)
LEMMA LineStep ==
  ASSUME LineSafe, NumbersAreFresh, [Next]_vars
  PROVE  LineSafe'
<1>1. Typed' /\ HandlerInv'
  BY TypeStep DEF LineSafe
<1>2. noise \in Nat /\ noise' \in Nat
  BY <1>1 DEF LineSafe, Typed
<1> SUFFICES LineInv' /\ NoiseInv'
  BY <1>1 DEF LineSafe
<1>3. ASSUME NEW msg \in Requests, Send(msg)
      PROVE  LineInv' /\ NoiseInv'
  <2>1. CASE ~hurried
    BY <1>3, <2>1, LineWhenSent
  <2>2. CASE hurried
    <3>1. hurried' /\ quiet' = FALSE /\ missed' = missed
      BY <1>3, <2>2 DEF Send
    <3>2. noise' = noise \/ noise' = noise + 1
      BY <1>3 DEF Send
    <3>3. missed + 0 <= noise /\ missed \in Nat
      BY <2>2 DEF LineSafe, NoiseInv, Typed
    <3>4. missed' + 0 <= noise'
      BY <1>2, <3>1, <3>2, <3>3
    <3> QED BY <3>1, <3>4 DEF LineInv, NoiseInv
  <2> QED BY <2>1, <2>2
<1>4. CASE Receive
  <2>1. /\ UNCHANGED <<wire, rx, quiet, missed, port>> /\ noise' = noise
        /\ hurried' = hurried
        /\ replies \in Seq(ReplyTypes) /\ replies # <<>> /\ replies' = Tail(replies)
    BY <1>4 DEF Receive, linkVars, LineSafe, Typed
  <2>2. /\ Len(replies) \in Nat \ {0} /\ Head(replies) = replies[1]
        /\ Len(replies') = Len(replies) - 1
        /\ \A i \in 1..Len(replies') : replies'[i] = replies[i + 1]
    BY <2>1, HeadTailProperties, EmptySeq
  <2>3. CASE stc' = stc
    <3>1. ASSUME NEW i \in 1..Len(replies'), replies'[i].acknak = stc.seqnum
          PROVE  \E j \in 1..Len(replies) : replies[j].acknak = stc.seqnum
      <4>1. i + 1 \in 1..Len(replies) /\ replies[i + 1].acknak = stc.seqnum
        BY <2>2, <3>1
      <4> QED BY <4>1
    <3>2. Taken' => Taken
      BY <2>1, <2>3, <3>1 DEF Taken, Busy
    <3> QED BY <1>2, <2>1, <2>3, <3>2, LineWhenIdle
  <2>4. CASE /\ Head(replies).acknak = stc.seqnum
             /\ stc' = Answered(Head(replies))
    <3>1. stc'.pc = "idle"
      BY <2>4 DEF Answered, LineSafe, Typed, StcType
    <3>2. 1 \in 1..Len(replies) /\ replies[1].acknak = stc.seqnum
      BY <2>2, <2>4
    <3>3. hurried \/ Trail
      BY <3>2 DEF Taken, LineSafe, LineInv, TrailIsLeft
    <3> QED BY <1>2, <2>1, <3>1, <3>3, LineWhenIdle
  <2> QED BY <1>4, <2>3, <2>4 DEF Receive
<1>5. CASE GiveUp
  <2>1. /\ UNCHANGED <<wire, rx, quiet, missed>> /\ noise' = noise
        /\ stc'.pc = "idle" /\ hurried' = (hurried \/ ~quiet)
    BY <1>5 DEF GiveUp, linkVars, LineSafe, Typed, StcType
  <2>2. quiet => Trail
    BY DEF LineSafe, LineInv, Trail
  <2>3. hurried' \/ (hurried' = hurried /\ Trail)
    BY <2>1, <2>2 DEF LineSafe, Typed
  <2> QED BY <1>2, <2>1, <2>3, LineWhenIdle
<1>6. CASE IPC_FrameRx
  BY <1>6, LineWhenRead
<1>7. CASE RxTimeout
  <2>1. /\ wire = <<>> /\ wire' = <<>> /\ rx' = "hunt" /\ missed' = missed
        /\ noise' = noise /\ hurried' = hurried
    BY <1>7 DEF RxTimeout, stcVars
  <2>2. Trail' /\ NoBody' /\ BodyIsLast' /\ ~Rubbish'
    BY <2>1 DEF Trail, NoBody, BodyIsLast, Rubbish
  <2>3. LineInv'
    BY <2>1, <2>2 DEF LineInv, TrailIsLeft, BodyIsWhole
  <2>4. missed <= noise /\ missed \in Nat
    <3>1. Debt \in Nat
      BY DEF Debt
    <3>2. missed + (IF hurried THEN 0 ELSE Debt) <= noise /\ missed \in Nat
      BY DEF LineSafe, NoiseInv, Typed
    <3> HIDE DEF Debt
    <3> QED BY <1>2, <3>1, <3>2
  <2> QED BY <1>2, <2>1, <2>2, <2>3, <2>4 DEF NoiseInv, Debt
<1>8. CASE port.pc \in {"handle", "save"} /\ IPCFromSTC_Task
  <2>1. /\ UNCHANGED <<wire, rx, quiet, missed, stc, replies>> /\ noise' = noise
        /\ hurried' = hurried
    BY <1>8
       DEF IPCFromSTC_Task, HandleConfigSet, HandleEPROM_Load, HandleEPROM_Store,
           HandleEPROM_Reset, HandleOther, RefuseInHalt, PortPrograms, ProgramFails,
           IPC_FrameRx, RxTimeout, IPCCMD_Write, linkVars, stcVars
  <2>2. port' = Free \/ port'.frame = port.frame
    BY <1>8
       DEF IPCFromSTC_Task, HandleConfigSet, HandleEPROM_Load, HandleEPROM_Store,
           HandleEPROM_Reset, HandleOther, RefuseInHalt, PortPrograms, ProgramFails,
           IPC_FrameRx, RxTimeout, IPCCMD_Write, Then, LineSafe, Typed, PortType
  <2>3. Taken' => Taken
    BY <1>8, <2>1, <2>2, FreePort DEF Taken, Busy
  <2> QED BY <1>2, <2>1, <2>3, LineWhenIdle
<1>9. CASE IPCCMD_Write
  <2>1. /\ UNCHANGED <<wire, rx, quiet, missed, stc>> /\ noise' >= noise
        /\ hurried' = hurried /\ port.pc = "reply" /\ port' = Free
    BY <1>2, <1>9 DEF IPCCMD_Write, linkVars
  <2>2. Taken' => Taken
    <3>1. CASE replies' = replies
      BY <2>1, <3>1, FreePort DEF Taken, Busy
    <3>2. CASE replies' # replies
      <4> DEFINE r == Reply(ReplyType(port.frame.msg.op), port.frame.seqnum, port.error)
      <4>1. replies' = Append(replies, r) /\ r.acknak = port.frame.seqnum
        BY <1>9, <3>2 DEF IPCCMD_Write, Reply
      <4>2. replies \in Seq(ReplyTypes) /\ r \in ReplyTypes
        <5>1. port.frame \in Frames /\ port \in PortType
          BY <2>1 DEF LineSafe, HandlerInv, Busy, Typed
        <5> QED BY <5>1 DEF Reply, ReplyType, ReplyTypes, PortType, Frames, LineSafe, Typed
      <4> HIDE DEF r
      <4>3. \A i \in 1..Len(replies') :
              (i \in 1..Len(replies) /\ replies'[i] = replies[i]) \/ replies'[i] = r
        BY <4>1, <4>2, AppendProperties
      <4> QED BY <2>1, <4>1, <4>3, FreePort DEF Taken, Busy
    <3> QED BY <3>1, <3>2
  <2> QED BY <1>2, <2>1, <2>2, LineWhenIdle
<1>10. CASE PowerCycle
  <2>1. /\ wire' = <<>> /\ rx' = "hunt" /\ quiet' = FALSE /\ missed' = missed
        /\ noise' = noise /\ hurried' = hurried
    BY <1>10 DEF PowerCycle
  <2>2. Trail' /\ NoBody' /\ BodyIsLast' /\ ~Rubbish'
    BY <2>1 DEF Trail, NoBody, BodyIsLast, Rubbish
  <2>3. LineInv'
    BY <2>1, <2>2 DEF LineInv, TrailIsLeft, BodyIsWhole
  <2>4. missed <= noise /\ missed \in Nat
    <3>1. Debt \in Nat
      BY DEF Debt
    <3>2. missed + (IF hurried THEN 0 ELSE Debt) <= noise /\ missed \in Nat
      BY DEF LineSafe, NoiseInv, Typed
    <3> HIDE DEF Debt
    <3> QED BY <1>2, <3>1, <3>2
  <2> QED BY <1>2, <2>1, <2>2, <2>3, <2>4 DEF NoiseInv, Debt
<1>11. CASE MainPrograms
  <2>1. /\ UNCHANGED <<wire, rx, quiet, missed, stc, replies>> /\ noise' = noise
        /\ hurried' = hurried /\ ~Busy' /\ ~Busy
    BY <1>11, FreePort DEF MainPrograms, linkVars, stcVars, Busy
  <2>2. Taken' => Taken
    BY <2>1 DEF Taken
  <2> QED BY <1>2, <2>1, <2>2, LineWhenIdle
<1>12. CASE UNCHANGED vars
  <2>1. /\ UNCHANGED <<wire, rx, quiet, missed, stc, replies, port>> /\ noise' = noise
        /\ hurried' = hurried
    BY <1>12 DEF vars, linkVars, stcVars
  <2>2. Taken' => Taken
    BY <2>1 DEF Taken, Busy
  <2> QED BY <1>2, <2>1, <2>2, LineWhenIdle
<1>13. IPCFromSTC_Task =>
         \/ IPC_FrameRx
         \/ RxTimeout
         \/ port.pc \in {"handle", "save"} /\ IPCFromSTC_Task
         \/ IPCCMD_Write
  BY DEF IPCFromSTC_Task, Handles, HandleConfigSet, HandleEPROM_Load,
         HandleEPROM_Store, HandleEPROM_Reset, HandleOther, RefuseInHalt,
         PortPrograms, ProgramFails
<1> QED BY <1>3, <1>4, <1>5, <1>6, <1>7, <1>8, <1>9, <1>10, <1>11, <1>12, <1>13, NextSteps

(* At first no frame is lost and no noise is on the line.                   *)
LEMMA LineAtFirst == Init => LineSafe
<1> SUFFICES ASSUME Init PROVE LineSafe
  OBVIOUS
<1>1. Typed /\ HandlerInv
  BY SafeAtFirst DEF SafeInv
<1>2. wire = <<>> /\ rx = "hunt" /\ quiet = FALSE /\ missed = 0 /\ noise = 0
      /\ hurried = FALSE
  BY DEF Init
<1>3. Trail /\ NoBody /\ BodyIsLast /\ ~Rubbish
  BY <1>2 DEF Trail, NoBody, BodyIsLast, Rubbish
<1> QED BY <1>1, <1>2, <1>3
        DEF LineSafe, LineInv, TrailIsLeft, BodyIsWhole, NoiseInv, Debt

(* Each frame with noise costs no more than one whole frame, wherever the bytes
   of noise are, when the STC waits longer than a read of IPC_FrameRx.       *)
THEOREM NoiseCostsOneFrame == Spec /\ []NumbersAreFresh => []OneFramePerNoise
<1>1. LineSafe => OneFramePerNoise
  <2> SUFFICES ASSUME LineSafe PROVE OneFramePerNoise
    OBVIOUS
  <2>1. missed \in Nat /\ noise \in Nat /\ Debt \in Nat
        /\ missed + (IF hurried THEN 0 ELSE Debt) <= noise
    BY DEF LineSafe, Typed, NoiseInv, Debt
  <2>2. missed <= noise
    <3> HIDE DEF Debt
    <3> QED BY <2>1
  <2> QED BY <2>2, TypesAre DEF OneFramePerNoise, LineSafe
<1> QED BY <1>1, LineAtFirst, LineStep, PTL DEF Spec

-----------------------------------------------------------------------------
(* Numbers that are fresh                                                    *)

(* The STC sends when the line and the replies are empty, and has more numbers
   than there are frames with noise.                                         *)
LineRunsEmpty == MaxWire = 1 /\ MaxSeq > MaxNoise + 1

AgeSafe == Typed /\ HandlerInv /\ AgeInv

(* The numbers and counts that ages are made of.                            *)
LEMMA NumberRanges ==
  ASSUME Typed, HandlerInv
  PROVE  /\ stc.seqnum \in 1..MaxSeq /\ MaxSeq \in Nat /\ MaxNoise \in Nat
         /\ noise \in 0..MaxNoise
         /\ Idle \in {0, 1} /\ More \in {0, 1}
         /\ Busy => port.frame.seqnum \in 1..MaxSeq
         /\ \A i \in 1..Len(wire) :
              wire[i].kind = "body" => wire[i].frame.seqnum \in 1..MaxSeq
<1>1. \A i \in 1..Len(wire) : wire[i].kind = "body" => wire[i].frame \in Frames
  <2>1. \A i \in 1..Len(wire) : wire[i] \in Tokens
    BY DEF Typed
  <2> QED BY <2>1, TokenFields
<1> QED BY <1>1, PortAssumption DEF Typed, HandlerInv, StcType, Frames, Idle, More

(* The number of the STC goes on by one.                                     *)
LEMMA OneLater ==
  ASSUME Typed, NEW x \in 1..MaxSeq, NEW a \in Nat, a < MaxSeq,
         stc.seqnum \in Later(x, a)
  PROVE  NextSeq \in Later(x, a + 1)
<1>1. stc.seqnum \in 1..MaxSeq /\ MaxSeq \in Nat
  BY PortAssumption DEF Typed, StcType
<1> QED BY <1>1 DEF NextSeq, Later

(* The STC is done with its request: everything is one request older.        *)
LEMMA AgeWhenDone ==
  ASSUME AgeSafe, LineRunsEmpty, stc.pc = "wait", stc'.pc = "idle",
         stc'.seqnum = NextSeq, UNCHANGED <<wire, port, noise>>
  PROVE  AgeInv'
<1>1. Idle = 0 /\ Idle' = 1 /\ More' = More
  BY DEF Idle, More
<1>2. /\ MaxSeq \in Nat /\ MaxNoise \in Nat /\ noise \in 0..MaxNoise
      /\ More \in {0, 1} /\ MaxSeq > MaxNoise + 1
      /\ Busy => port.frame.seqnum \in 1..MaxSeq
      /\ \A i \in 1..Len(wire) :
           wire[i].kind = "body" => wire[i].frame.seqnum \in 1..MaxSeq
  BY NumberRanges DEF AgeSafe, LineRunsEmpty
<1>3. ASSUME NEW i \in 1..Len(wire), wire[i].kind = "body"
      PROVE  NextSeq \in Later(wire[i].frame.seqnum, 1)
  <2>1. stc.seqnum \in Later(wire[i].frame.seqnum, 0) /\ 0 < MaxSeq
    BY <1>1, <1>2, <1>3 DEF AgeSafe, AgeInv, BodyAt
  <2>2. NextSeq \in Later(wire[i].frame.seqnum, 0 + 1)
    BY <1>2, <1>3, <2>1, OneLater DEF AgeSafe
  <2> QED BY <2>2
<1>4. ASSUME Busy
      PROVE  \E a \in 1 .. noise + 1 + More : NextSeq \in Later(port.frame.seqnum, a)
  <2>1. PICK a \in 0 .. noise + 0 + More : stc.seqnum \in Later(port.frame.seqnum, a)
    BY <1>1, <1>4 DEF AgeSafe, AgeInv
  <2>2. a \in Nat /\ a < MaxSeq /\ a + 1 \in 1 .. noise + 1 + More
    BY <1>2
  <2>3. NextSeq \in Later(port.frame.seqnum, a + 1)
    BY <1>2, <1>4, <2>1, <2>2, OneLater DEF AgeSafe
  <2> QED BY <2>2, <2>3
<1> QED BY <1>1, <1>3, <1>4 DEF AgeInv, BodyAt, Busy

(* A request just sent is the youngest.                                     *)
LEMMA AgeWhenSent ==
  ASSUME AgeSafe, LineRunsEmpty, NEW msg \in Requests, Send(msg)
  PROVE  AgeInv'
<1> DEFINE f == Frame(stc.seqnum, msg)
<1>1. /\ stc.pc = "idle" /\ stc'.pc = "wait" /\ stc'.seqnum = stc.seqnum
      /\ port' = port
  BY DEF Send, AgeSafe, Typed, StcType
<1>2. Len(wire) = 0 /\ wire = <<>>
  <2>1. Len(wire) \in Nat /\ Len(replies) \in Nat /\ Len(wire) + Len(replies) < 1
    BY DEF Send, LineRunsEmpty, AgeSafe, Typed
  <2> QED BY <2>1, EmptySeq DEF AgeSafe, Typed
<1>3. f \in Frames /\ f.seqnum = stc.seqnum
  BY DEF AgeSafe, Typed, StcType, Frame, Frames
<1>4. \E t \in {Sent(f)} \cup Garbled(f) :
        wire' = wire \o t /\ (noise' = noise + 1 \/ (t = Sent(f) /\ noise' = noise))
  <2>1. \/ wire' = wire \o Sent(f) /\ noise' = noise
        \/ noise' = noise + 1 /\ \E t \in Garbled(f) : wire' = wire \o t
    BY Zenon DEF Send
  <2> HIDE DEF f
  <2> QED BY <2>1
<1>5. Len(Sent(f)) = 3
  BY DEF Sent
<1> HIDE DEF f
<1>6. PICK t \in {Sent(f)} \cup Garbled(f) :
        wire' = wire \o t /\ (noise' = noise + 1 \/ (t = Sent(f) /\ noise' = noise))
  BY <1>4
<1>7. wire' # <<>> \/ noise' = noise + 1
  <2>1. CASE t = Sent(f)
    <3>1. t \in Seq(Tokens)
      BY <1>3, SentTokens
    <3>2. Len(wire') = 3
      BY <1>2, <1>5, <1>6, <2>1, <3>1, WireExtended DEF AgeSafe, Typed
    <3> QED BY <3>2
  <2> QED BY <1>6, <2>1
<1>8. \A i \in 1..Len(wire') : wire'[i].kind = "body" => wire'[i].frame = f
  BY <1>2, <1>3, <1>6, BodiesSent DEF AgeSafe
<1>9. stc.seqnum \in 1..MaxSeq /\ MaxSeq \in Nat /\ noise \in Nat /\ noise' \in Nat
  <2>1. noise' = noise \/ noise' = noise + 1
    BY <1>6
  <2> QED BY <2>1, NumberRanges DEF AgeSafe
<1>10. Idle = 1 /\ Idle' = 0 /\ More = 0
       /\ (More' = 1 \/ (More' = 0 /\ noise' = noise + 1)) /\ noise' >= noise
  BY <1>1, <1>2, <1>6, <1>7, <1>9 DEF Idle, More
<1>11. \A i \in 1..Len(wire') : wire'[i].kind = "body" =>
         stc.seqnum \in Later(wire'[i].frame.seqnum, 0)
  BY <1>3, <1>8, <1>9 DEF Later
<1>12. Busy => \E a \in 0 .. noise' + 0 + More' : stc.seqnum \in Later(port.frame.seqnum, a)
  <2> SUFFICES ASSUME Busy
               PROVE  \E a \in 0 .. noise' + 0 + More' :
                        stc.seqnum \in Later(port.frame.seqnum, a)
    OBVIOUS
  <2>1. PICK a \in 1 .. noise + 1 + 0 : stc.seqnum \in Later(port.frame.seqnum, a)
    BY <1>10 DEF AgeSafe, AgeInv
  <2>2. a \in 0 .. noise' + 0 + More'
    BY <1>9, <1>10
  <2> QED BY <2>1, <2>2
<1> QED BY <1>1, <1>10, <1>11, <1>12 DEF AgeInv, BodyAt, Busy

(* A frame keeps its age on its way to the port.                            *)
LEMMA AgeWhenRead ==
  ASSUME AgeSafe, IPC_FrameRx
  PROVE  AgeInv'
<1>1. /\ Len(wire) \in Nat \ {0} /\ Head(wire) = wire[1]
      /\ \A i \in 1..Len(wire') : wire'[i] = wire[i + 1] /\ i + 1 \in 1..Len(wire)
  BY WireTaken DEF IPC_FrameRx, AgeSafe, Typed
<1>2. /\ stc' = stc /\ noise' = noise /\ port.pc = "read" /\ 1 \in 1..Len(wire)
  BY <1>1 DEF IPC_FrameRx, stcVars
<1>3. Idle' = Idle
  BY <1>2 DEF Idle
<1>4. \A i \in 1..Len(wire') : wire'[i].kind = "body" =>
        stc.seqnum \in Later(wire'[i].frame.seqnum, Idle)
  BY <1>1 DEF AgeSafe, AgeInv, BodyAt
<1>5. ASSUME Busy'
      PROVE  \E a \in Idle .. noise + Idle + More' : stc.seqnum \in Later(port'.frame.seqnum, a)
  <2>1. wire[1].kind = "body" /\ port'.frame = wire[1].frame
    BY <1>1, <1>2, <1>5 DEF IPC_FrameRx, Busy, AgeSafe, Typed, PortType
  <2>2. stc.seqnum \in Later(port'.frame.seqnum, Idle)
    BY <1>2, <2>1 DEF AgeSafe, AgeInv, BodyAt
  <2>3. More' \in {0, 1} /\ Idle \in {0, 1} /\ noise \in Nat
    BY NumberRanges DEF AgeSafe, More
  <2>4. \A i, n, m \in Nat : i \in i .. n + i + m
    OBVIOUS
  <2>5. Idle \in Idle .. noise + Idle + More'
    BY <2>3, <2>4
  <2> QED BY <2>2, <2>5
<1> QED BY <1>2, <1>3, <1>4, <1>5 DEF AgeInv, BodyAt

(* Every step keeps the ages within the noise.                              *)
LEMMA AgeStep ==
  ASSUME AgeSafe, LineRunsEmpty, [Next]_vars
  PROVE  AgeSafe'
<1>1. Typed' /\ HandlerInv'
  BY TypeStep DEF AgeSafe
<1> SUFFICES AgeInv'
  BY <1>1 DEF AgeSafe
<1>2. ASSUME UNCHANGED <<wire, stc>>, Busy' => Busy /\ port'.frame = port.frame,
             noise' >= noise
      PROVE  AgeInv'
  <2>1. Idle' = Idle /\ More' = More
    BY <1>2 DEF Idle, More
  <2>2. noise \in Nat /\ noise' \in Nat /\ Idle \in {0, 1} /\ More \in {0, 1}
    BY <1>1, NumberRanges DEF AgeSafe, Typed
  <2>3. Idle .. noise + Idle + More \subseteq Idle .. noise' + Idle + More
    <3>1. \A i, n, k, m \in Nat : k >= n => i .. n + i + m \subseteq i .. k + i + m
      OBVIOUS
    <3> QED BY <1>2, <2>2, <3>1
  <2> HIDE DEF Idle, More
  <2> QED BY <1>2, <2>1, <2>3 DEF AgeSafe, AgeInv, BodyAt
<1>3. noise \in Nat
  BY DEF AgeSafe, Typed
<1>4. CASE \E msg \in Requests : Send(msg)
  BY <1>4, AgeWhenSent
<1>5. CASE Receive
  <2>1. UNCHANGED <<wire, port, noise>>
    BY <1>5 DEF Receive, linkVars
  <2>2. CASE stc' = stc
    BY <1>2, <1>3, <2>1, <2>2 DEF Busy
  <2>3. CASE stc.pc = "wait" /\ stc' = Answered(Head(replies))
    <3>1. stc'.pc = "idle" /\ stc'.seqnum = NextSeq
      BY <2>3 DEF Answered, AgeSafe, Typed, StcType
    <3> QED BY <2>1, <2>3, <3>1, AgeWhenDone
  <2> QED BY <1>5, <2>2, <2>3 DEF Receive
<1>6. CASE GiveUp
  <2>1. /\ UNCHANGED <<wire, port, noise>>
        /\ stc.pc = "wait" /\ stc'.pc = "idle" /\ stc'.seqnum = NextSeq
    BY <1>6 DEF GiveUp, linkVars, AgeSafe, Typed, StcType
  <2> QED BY <2>1, AgeWhenDone
<1>7. CASE IPC_FrameRx
  BY <1>7, AgeWhenRead
<1>8. CASE RxTimeout
  BY <1>2, <1>3, <1>8 DEF RxTimeout, stcVars, Busy
<1>9. CASE port.pc \in {"handle", "save"} /\ IPCFromSTC_Task
  <2>1. UNCHANGED <<wire, stc, noise>>
    BY <1>9
       DEF IPCFromSTC_Task, HandleConfigSet, HandleEPROM_Load, HandleEPROM_Store,
           HandleEPROM_Reset, HandleOther, RefuseInHalt, PortPrograms, ProgramFails,
           IPC_FrameRx, RxTimeout, IPCCMD_Write, linkVars, stcVars
  <2>2. port' = Free \/ port'.frame = port.frame
    BY <1>9
       DEF IPCFromSTC_Task, HandleConfigSet, HandleEPROM_Load, HandleEPROM_Store,
           HandleEPROM_Reset, HandleOther, RefuseInHalt, PortPrograms, ProgramFails,
           IPC_FrameRx, RxTimeout, IPCCMD_Write, Then, AgeSafe, Typed, PortType
  <2> QED BY <1>2, <1>3, <1>9, <2>1, <2>2, FreePort DEF Busy
<1>10. CASE IPCCMD_Write
  <2>1. UNCHANGED <<wire, stc>> /\ noise' >= noise /\ ~Busy'
    BY <1>3, <1>10, FreePort DEF IPCCMD_Write, linkVars, Busy
  <2> QED BY <1>2, <2>1
<1>11. CASE PowerCycle
  <2>1. Len(wire') = 0 /\ ~Busy'
    BY <1>11, FreePort DEF PowerCycle, Free, Busy
  <2> QED BY <2>1 DEF AgeInv
<1>12. CASE MainPrograms
  <2>1. UNCHANGED <<wire, stc, noise>> /\ ~Busy'
    BY <1>12, FreePort DEF MainPrograms, linkVars, stcVars, Busy
  <2> QED BY <1>2, <1>3, <2>1
<1>13. CASE UNCHANGED vars
  BY <1>2, <1>3, <1>13 DEF vars, linkVars, stcVars, Busy
<1>14. IPCFromSTC_Task =>
         \/ IPC_FrameRx
         \/ RxTimeout
         \/ port.pc \in {"handle", "save"} /\ IPCFromSTC_Task
         \/ IPCCMD_Write
  BY DEF IPCFromSTC_Task, Handles, HandleConfigSet, HandleEPROM_Load,
         HandleEPROM_Store, HandleEPROM_Reset, HandleOther, RefuseInHalt,
         PortPrograms, ProgramFails
<1> QED BY <1>4, <1>5, <1>6, <1>7, <1>8, <1>9, <1>10, <1>11, <1>12, <1>13, <1>14, NextSteps

(* A number younger than a turn of the numbers is not used again.           *)
LEMMA FreshWhenYoung ==
  ASSUME AgeSafe, LineRunsEmpty
  PROVE  NumbersAreFresh
<1> SUFFICES ASSUME stc.pc = "idle", Len(wire) + Len(replies) < 1
             PROVE  ~Outstanding(stc.seqnum)
  BY DEF NumbersAreFresh, LineRunsEmpty
<1>1. Len(wire) = 0 /\ Len(replies) = 0 /\ wire = <<>>
  <2>1. Len(wire) \in Nat /\ Len(replies) \in Nat
    BY DEF AgeSafe, Typed
  <2> QED BY <2>1, EmptySeq DEF AgeSafe, Typed
<1>2. ASSUME Busy PROVE port.frame.seqnum # stc.seqnum
  <2>1. Idle = 1 /\ More = 0
    BY <1>1 DEF Idle, More
  <2>2. PICK a \in 1 .. noise + 1 + 0 : stc.seqnum \in Later(port.frame.seqnum, a)
    BY <1>2, <2>1 DEF AgeSafe, AgeInv
  <2> QED BY <1>2, <2>2, NumberRanges DEF AgeSafe, LineRunsEmpty, Later
<1> QED BY <1>1, <1>2 DEF Outstanding

(* An STC that lets its line run empty before it sends does not use a number
   that a request at the port still carries.                                 *)
THEOREM EmptyLineMakesFresh == LineRunsEmpty /\ Spec => []NumbersAreFresh
<1> SUFFICES ASSUME LineRunsEmpty PROVE Spec => []NumbersAreFresh
  OBVIOUS
<1>1. Init => AgeSafe
  <2> SUFFICES ASSUME Init PROVE AgeSafe
    OBVIOUS
  <2>1. Typed /\ HandlerInv
    BY SafeAtFirst DEF SafeInv
  <2>2. wire = <<>> /\ ~Busy
    BY FreePort DEF Init, Busy
  <2> QED BY <2>1, <2>2 DEF AgeSafe, AgeInv
<1>2. AgeSafe /\ [Next]_vars => AgeSafe'
  BY AgeStep
<1>3. AgeSafe => NumbersAreFresh
  BY FreshWhenYoung
<1> QED BY <1>1, <1>2, <1>3, PTL DEF Spec

(* Such an STC may rely on what it has set and stored, and noise costs it one
   frame.                                                                    *)
THEOREM EmptyLineIsEnough ==
  LineRunsEmpty /\ Spec => [](OneFramePerNoise /\ KnownInForce /\ PromiseKept)
BY EmptyLineMakesFresh, KnownStaysInForce, StoredIsKept, NoiseCostsOneFrame, PTL

=============================================================================
