--------------------------- MODULE IOExpanderProofs ---------------------------
(***************************************************************************)
(* IOExpander for any number of tasks, bits and calls: the copy in memory  *)
(* follows the register, and the functions are the atomic operations of    *)
(* OutputRegister.  The invariant is inductive as it stands: that only the *)
(* holder of the semaphore is between a pend and a post (OneHolder) is     *)
(* what keeps the intermediate values of the copy (CopyFollows) its own.   *)
(***************************************************************************)
EXTENDS IOExpander, TLAPS

USE DEF Outputs, Calls, Pending, Holding, Places, Asking

(* The set-up establishes the invariant.                                     *)
LEMMA InitCopyIsRegister == Init => CopyIsRegister
  BY ExpanderAssumption
  DEF Init, CopyIsRegister, ExpanderTypeOK, OneHolder, RequestStands, CopyFollows,
      Intended

(* The types, which the other parts of the invariant lean on.                *)
LEMMA TypeStep ==
  ASSUME CopyIsRegister, [Next]_vars
  PROVE  ExpanderTypeOK'
<1> USE ExpanderAssumption DEF CopyIsRegister, ExpanderTypeOK
<1>1. ASSUME NEW t \in Tasks, Call(t)
      PROVE  ExpanderTypeOK'
  BY <1>1 DEF Call, CallSet, CallGet, Goto
<1>2. ASSUME NEW t \in Tasks, Pend(t) \/ PendTimeout(t)
      PROVE  ExpanderTypeOK'
  BY <1>2 DEF Pend, PendTimeout, Goto, Returns, Granted
<1>3. ASSUME NEW t \in Tasks, pc[t] \in {"clear", "set", "write"}
      PROVE  request[t] \in Requests /\ request[t].out \in Outputs
             /\ request[t].set \in SUBSET Bits
  BY <1>3 DEF RequestStands
<1>4. ASSUME NEW t \in Tasks, ClearBits(t) \/ SetBits(t) \/ Write(t)
      PROVE  ExpanderTypeOK'
  <2>1. CASE ClearBits(t)
    <3>1. pc[t] = "clear"  BY <2>1 DEF ClearBits
    <3> DEFINE o == request[t].out
               b == IF request[t].whole THEN request[t].set
                    ELSE mask[o] \ request[t].clear
    <3>2. o \in Outputs /\ b \in SUBSET Bits  BY <1>3, <3>1
    <3>3. mask' = [mask EXCEPT ![o] = b]  BY <2>1 DEF ClearBits
    <3>4. mask' \in [Outputs -> SUBSET Bits]  BY <3>2, <3>3
    <3> QED  BY <2>1, <3>4 DEF ClearBits, Goto
  <2>2. CASE SetBits(t)
    <3>1. pc[t] = "set"  BY <2>2 DEF SetBits
    <3>2. mask' \in [Outputs -> SUBSET Bits]  BY <1>3, <2>2, <3>1 DEF SetBits
    <3> QED  BY <2>2, <3>2 DEF SetBits, Goto
  <2>3. CASE Write(t)
    <3>1. pc[t] = "write"  BY <2>3 DEF Write
    <3>2. port' \in [Outputs -> SUBSET Bits]  BY <1>3, <2>3, <3>1 DEF Write
    <3> QED  BY <2>3, <3>2 DEF Write, Goto
  <2> QED  BY <1>4, <2>1, <2>2, <2>3
<1>5. ASSUME NEW t \in Tasks, NEW out \in Outputs, GetMask(t, out)
      PROVE  ExpanderTypeOK'
  BY <1>5 DEF GetMask, Goto
<1>6. ASSUME NEW t \in Tasks, ReadSwitches(t) \/ Post(t)
      PROVE  ExpanderTypeOK'
  BY <1>6 DEF ReadSwitches, Post, Goto, Returns
<1>7. ASSUME NEW bits \in SUBSET Bits, SwitchesChange(bits)
      PROVE  ExpanderTypeOK'
  BY <1>7 DEF SwitchesChange
<1>8. CASE UNCHANGED vars
  BY <1>8 DEF vars
<1> QED  BY <1>1, <1>2, <1>4, <1>5, <1>6, <1>7, <1>8 DEF Next, Runs

(* A task enters the guarded part with the semaphore and leaves it by giving
   the semaphore back.                                                       *)
LEMMA OneHolderStep ==
  ASSUME CopyIsRegister, [Next]_vars
  PROVE  OneHolder'
<1> USE ExpanderAssumption DEF CopyIsRegister, ExpanderTypeOK, OneHolder
<1>1. ASSUME NEW t \in Tasks, Call(t)
      PROVE  OneHolder'
  BY <1>1 DEF Call, CallSet, CallGet, Goto
<1>2. ASSUME NEW t \in Tasks, Pend(t)
      PROVE  OneHolder'
  BY <1>2 DEF Pend, Goto, Granted
<1>3. ASSUME NEW t \in Tasks, PendTimeout(t)
      PROVE  OneHolder'
  BY <1>3 DEF PendTimeout, Goto, Returns
<1>4. ASSUME NEW t \in Tasks, ClearBits(t) \/ SetBits(t) \/ Write(t)
      PROVE  OneHolder'
  BY <1>4 DEF ClearBits, SetBits, Write, Goto
<1>5. ASSUME NEW t \in Tasks, NEW out \in Outputs, GetMask(t, out) \/ ReadSwitches(t)
      PROVE  OneHolder'
  BY <1>5 DEF GetMask, ReadSwitches, Goto
<1>6. ASSUME NEW t \in Tasks, Post(t)
      PROVE  OneHolder'
  BY <1>6 DEF Post, Goto, Returns
<1>7. ASSUME NEW bits \in SUBSET Bits, SwitchesChange(bits)
      PROVE  OneHolder'
  BY <1>7 DEF SwitchesChange
<1>8. CASE UNCHANGED vars
  BY <1>8 DEF vars
<1> QED  BY <1>1, <1>2, <1>3, <1>4, <1>5, <1>6, <1>7, <1>8 DEF Next, Runs

(* The arguments of a write stay until it returns; a read has none.          *)
LEMMA RequestStandsStep ==
  ASSUME CopyIsRegister, [Next]_vars
  PROVE  RequestStands'
<1> USE ExpanderAssumption DEF CopyIsRegister, ExpanderTypeOK, RequestStands
<1>1. ASSUME NEW t \in Tasks, Call(t)
      PROVE  RequestStands'
  BY <1>1 DEF Call, CallSet, CallGet, Goto
<1>2. ASSUME NEW t \in Tasks, Pend(t)
      PROVE  RequestStands'
  BY <1>2 DEF Pend, Goto, Granted
<1>3. ASSUME NEW t \in Tasks, PendTimeout(t) \/ Post(t)
      PROVE  RequestStands'
  BY <1>3 DEF PendTimeout, Post, Goto, Returns
<1>4. ASSUME NEW t \in Tasks, ClearBits(t) \/ SetBits(t) \/ Write(t)
      PROVE  RequestStands'
  BY <1>4 DEF ClearBits, SetBits, Write, Goto
<1>5. ASSUME NEW t \in Tasks, NEW out \in Outputs, GetMask(t, out) \/ ReadSwitches(t)
      PROVE  RequestStands'
  BY <1>5 DEF GetMask, ReadSwitches, Goto
<1>6. ASSUME NEW bits \in SUBSET Bits, SwitchesChange(bits)
      PROVE  RequestStands'
  BY <1>6 DEF SwitchesChange
<1>7. CASE UNCHANGED vars
  BY <1>7 DEF vars
<1> QED  BY <1>1, <1>2, <1>3, <1>4, <1>5, <1>6, <1>7 DEF Next, Runs

(* Only the holder touches the copy, and it goes from one stage of its own
   call to the next.                                                         *)
LEMMA CopyFollowsStep ==
  ASSUME CopyIsRegister, [Next]_vars
  PROVE  CopyFollows'
<1> USE ExpanderAssumption
    DEF CopyIsRegister, ExpanderTypeOK, OneHolder, RequestStands, CopyFollows
<1>1. ASSUME NEW t \in Tasks, t # g_semaSPI, g_semaSPI' = g_semaSPI,
             UNCHANGED <<mask, port>>, g_semaSPI \in Tasks =>
               /\ pc'[g_semaSPI] = pc[g_semaSPI]
               /\ request'[g_semaSPI] = request[g_semaSPI]
      PROVE  CopyFollows'
  BY <1>1 DEF Intended
<1>2. ASSUME NEW t \in Tasks, Call(t)
      PROVE  CopyFollows'
  <2>1. t # g_semaSPI  BY <1>2 DEF Call, CallSet, CallGet
  <2> QED  BY <1>1, <1>2, <2>1 DEF Call, CallSet, CallGet, Goto
<1>3. ASSUME NEW t \in Tasks, Pend(t)
      PROVE  CopyFollows'
  BY <1>3 DEF Pend, Goto, Granted, Intended
<1>4. ASSUME NEW t \in Tasks, PendTimeout(t)
      PROVE  CopyFollows'
  <2>1. t # g_semaSPI  BY <1>4 DEF PendTimeout
  <2> QED  BY <1>1, <1>4, <2>1 DEF PendTimeout, Goto, Returns
<1>5. ASSUME NEW t \in Tasks, ClearBits(t)
      PROVE  CopyFollows'
  <2>1. pc[t] = "clear" /\ g_semaSPI = t /\ request[t] # NoRequest
    BY <1>5 DEF ClearBits
  <2> DEFINE o == request[t].out
  <2>2. \A out \in Outputs : mask[out] = port[out]
    BY <2>1 DEF Intended
  <2>3. /\ o \in Outputs
        /\ request[t].whole => request[t].clear = Bits
        /\ port[o] \subseteq Bits
    BY <2>1
  <2>4. mask' = [mask EXCEPT ![o] = IF request[t].whole THEN request[t].set
                                    ELSE port[o] \ request[t].clear]
    BY <1>5, <2>2, <2>3 DEF ClearBits
  <2>5. /\ pc'[t] = IF request[t].whole THEN "write" ELSE "set"
        /\ UNCHANGED <<g_semaSPI, port, request>>
    BY <1>5 DEF ClearBits, Goto
  <2>6. ASSUME NEW out \in Outputs
        PROVE  mask'[out] = Intended(t, out)'
    <3>1. CASE out # o
      BY <2>1, <2>2, <2>4, <2>5, <3>1 DEF Intended
    <3>2. CASE out = o /\ request[t].whole
      BY <2>1, <2>3, <2>4, <2>5, <3>2 DEF Intended
    <3>3. CASE out = o /\ ~request[t].whole
      BY <2>1, <2>3, <2>4, <2>5, <3>3 DEF Intended
    <3> QED  BY <3>1, <3>2, <3>3
  <2> QED  BY <2>1, <2>5, <2>6
<1>6. ASSUME NEW t \in Tasks, SetBits(t)
      PROVE  CopyFollows'
  <2>1. pc[t] = "set" /\ g_semaSPI = t /\ request[t] # NoRequest
    BY <1>6 DEF SetBits
  <2> DEFINE o == request[t].out
  <2>2. \A out \in Outputs :
          mask[out] = IF out = o THEN port[out] \ request[t].clear ELSE port[out]
    BY <2>1 DEF Intended
  <2>3. o \in Outputs  BY <2>1
  <2>4. mask' = [mask EXCEPT ![o] = (port[o] \ request[t].clear) \cup request[t].set]
    BY <1>6, <2>2, <2>3 DEF SetBits
  <2>5. pc'[t] = "write" /\ UNCHANGED <<g_semaSPI, port, request>>
    BY <1>6 DEF SetBits, Goto
  <2>6. ASSUME NEW out \in Outputs
        PROVE  mask'[out] = Intended(t, out)'
    BY <2>1, <2>2, <2>3, <2>4, <2>5 DEF Intended
  <2> QED  BY <2>1, <2>5, <2>6
<1>7. ASSUME NEW t \in Tasks, Write(t)
      PROVE  CopyFollows'
  BY <1>7 DEF Write, Goto, Intended
<1>8. ASSUME NEW t \in Tasks, NEW out \in Outputs, GetMask(t, out) \/ ReadSwitches(t)
      PROVE  CopyFollows'
  BY <1>8 DEF GetMask, ReadSwitches, Goto, Intended
<1>9. ASSUME NEW t \in Tasks, Post(t)
      PROVE  CopyFollows'
  BY <1>9 DEF Post, Goto, Returns, Intended
<1>10. ASSUME NEW bits \in SUBSET Bits, SwitchesChange(bits)
       PROVE  CopyFollows'
  BY <1>10 DEF SwitchesChange, Intended
<1>11. CASE UNCHANGED vars
  BY <1>11 DEF vars, Intended
<1> QED
  BY <1>2, <1>3, <1>4, <1>5, <1>6, <1>7, <1>8, <1>9, <1>10, <1>11 DEF Next, Runs

(* A guarded read returns what the register drives, whatever calls overlap:
   the copy follows the register.                                            *)
THEOREM CopyAlwaysFollows == Spec => []CopyIsRegister
<1>1. Init => CopyIsRegister  BY InitCopyIsRegister
<1>2. CopyIsRegister /\ [Next]_vars => CopyIsRegister'
  BY TypeStep, OneHolderStep, RequestStandsStep, CopyFollowsStep DEF CopyIsRegister
<1> QED  BY <1>1, <1>2, PTL DEF Spec

-----------------------------------------------------------------------------
(* The write of the register is where a call takes effect.                   *)
LEMMA WriteApplies ==
  ASSUME CopyIsRegister, NEW t \in Tasks, Write(t)
  PROVE  Registers!Apply(t)
<1> USE DEF CopyIsRegister, ExpanderTypeOK, OneHolder, RequestStands
<1> DEFINE r == request[t]
           asked == [u \in Tasks |-> IF pc[u] \in Asking THEN request[u] ELSE NoRequest]
<1>1. /\ pc[t] = "write"
      /\ g_semaSPI = t
      /\ r \in Requests /\ r # NoRequest
  BY ExpanderAssumption DEF Write
<1>2. r.out \in Outputs  BY <1>1, ExpanderAssumption
<1>3. mask[r.out] = (port[r.out] \ r.clear) \cup r.set
  BY <1>1, <1>2, ExpanderAssumption DEF CopyFollows, Intended
<1>4. port' = [port EXCEPT ![r.out] = Registers!Changed(port[r.out], r)]
  BY <1>3 DEF Write, Registers!Changed
<1>5. asked' = [asked EXCEPT ![t] = NoRequest]
  BY <1>1 DEF Write, Goto
<1>6. asked[t] = r  BY <1>1
<1> QED  BY <1>1, <1>4, <1>5, <1>6 DEF Registers!Apply

(* Every step of a task is a step of the abstract register or none.          *)
LEMMA StepSimulation ==
  ASSUME CopyIsRegister, [Next]_vars
  PROVE  [Registers!Next]_(Registers!vars)
<1> USE ExpanderAssumption DEF CopyIsRegister, ExpanderTypeOK, OneHolder, RequestStands
<1> DEFINE asked == [u \in Tasks |-> IF pc[u] \in Asking THEN request[u] ELSE NoRequest]
<1>1. ASSUME NEW t \in Tasks, NEW r \in Requests, CallSet(t, r)
      PROVE  Registers!Ask(t, r)
  <2>1. asked[t] = NoRequest  BY <1>1 DEF CallSet
  <2>2. asked' = [asked EXCEPT ![t] = r]  BY <1>1 DEF CallSet, Goto
  <2> QED  BY <1>1, <2>1, <2>2 DEF CallSet, Registers!Ask
<1>2. ASSUME NEW t \in Tasks, PendTimeout(t), pc[t] = "pendSet"
      PROVE  Registers!GiveUp(t)
  <2>1. asked[t] # NoRequest  BY <1>2
  <2>2. asked' = [asked EXCEPT ![t] = NoRequest]
    BY <1>2 DEF PendTimeout, Returns, Goto
  <2> QED  BY <1>2, <2>1, <2>2 DEF PendTimeout, Registers!GiveUp
<1>3. ASSUME NEW t \in Tasks,
             \/ \E place \in {"pendMask", "pendSwitches"} : CallGet(t, place)
             \/ Pend(t)
             \/ PendTimeout(t) /\ pc[t] # "pendSet"
             \/ ClearBits(t) \/ SetBits(t)
             \/ \E out \in Outputs : GetMask(t, out)
             \/ ReadSwitches(t) \/ Post(t)
      PROVE  UNCHANGED <<port, asked>>
  <2>1. UNCHANGED port
    BY <1>3 DEF CallGet, Pend, PendTimeout, ClearBits, SetBits, GetMask, ReadSwitches, Post
  <2>2. asked' = asked
    <3>1. CASE \E place \in {"pendMask", "pendSwitches"} : CallGet(t, place)
      BY <3>1 DEF CallGet, Goto
    <3>2. CASE Pend(t)  BY <3>2 DEF Pend, Goto, Granted
    <3>3. CASE PendTimeout(t) /\ pc[t] # "pendSet"
      BY <3>3 DEF PendTimeout, Goto, Returns
    <3>4. CASE ClearBits(t)  BY <3>4 DEF ClearBits, Goto
    <3>5. CASE SetBits(t)  BY <3>5 DEF SetBits, Goto
    <3>6. CASE \E out \in Outputs : GetMask(t, out)  BY <3>6 DEF GetMask, Goto
    <3>7. CASE ReadSwitches(t)  BY <3>7 DEF ReadSwitches, Goto
    <3>8. CASE Post(t)  BY <3>8 DEF Post, Goto, Returns
    <3> QED  BY <1>3, <3>1, <3>2, <3>3, <3>4, <3>5, <3>6, <3>7, <3>8
  <2> QED  BY <2>1, <2>2
<1>4. ASSUME NEW bits \in SUBSET Bits, SwitchesChange(bits)
      PROVE  UNCHANGED <<port, asked>>
  BY <1>4 DEF SwitchesChange
<1>5. CASE UNCHANGED vars
  BY <1>5 DEF vars, Registers!vars
<1> QED
  BY <1>1, <1>2, <1>3, <1>4, <1>5, WriteApplies
  DEF Next, Call, Runs, Registers!Next, Registers!vars

(* Whatever the tasks do at the same time, SetTransportMask, SetLamp and
   SetLampMask act on the outputs like single steps, as the controller and the
   diagnostics take for granted.                                             *)
THEOREM OutputsAreAtomic == Spec => AtomicOutputs
<1>1. Init => Registers!Init
  BY ExpanderAssumption DEF Init, Registers!Init
<1>2. CopyIsRegister /\ [Next]_vars => [Registers!Next]_(Registers!vars)
  BY StepSimulation
<1>3. Spec => []CopyIsRegister  BY CopyAlwaysFollows
<1> QED  BY <1>1, <1>2, <1>3, PTL DEF Spec, AtomicOutputs, Registers!Spec
=============================================================================
