------------------------- MODULE SyncWrapper_proofs -------------------------
(***************************************************************************)
(* Theorems about SyncWrapper for any messages, receivers, limit, timeout  *)
(* and number of messages that arrive: the type invariant, the life of the *)
(* send descriptor, and the accounting of the port's buffer.               *)
(***************************************************************************)
EXTENDS SyncWrapper, FiniteSetTheorems, SequenceTheorems, TLAPS

-----------------------------------------------------------------------------
(* Type correctness                                                        *)

(* The steps of the network keep its variables typed, and never change an  *)
(* answer that is there.                                                   *)
LEMMA AnswersStay ==
  ASSUME TypeOK, (\E m \in Msgs : Net!Leave(m)) \/ (\E S \in SUBSET Msgs : Net!Answer(S))
  PROVE  /\ pending' \in [Keys -> Seq(Msgs)]
         /\ answer' \in [Msgs -> Seq(RCs)]
         /\ \A m \in Msgs : answer[m] # <<>> => answer'[m] = answer[m]
<1>1. ASSUME NEW m \in Msgs, Net!Leave(m)
      PROVE  /\ pending' \in [Keys -> Seq(Msgs)]
             /\ answer' \in [Msgs -> Seq(RCs)]
             /\ \A n \in Msgs : answer[n] # <<>> => answer'[n] = answer[n]
  <2>1. Key[m] \in Keys
    BY KeyAssumption
  <2>2. pending[Key[m]] \in Seq(Msgs) /\ pending[Key[m]] # <<>>
    BY <1>1, <2>1 DEF Net!Leave, TypeOK
  <2>3. Tail(pending[Key[m]]) \in Seq(Msgs)
    BY <2>2
  <2>4. pending' = [pending EXCEPT ![Key[m]] = Tail(@)]
    BY <1>1 DEF Net!Leave
  <2>5. pending' \in [Keys -> Seq(Msgs)]
    BY <2>3, <2>4 DEF TypeOK
  <2>6. CASE answer' = answer
    BY <2>5, <2>6 DEF TypeOK
  <2>7. CASE answer[m] = <<>> /\ \E rc \in RCs : answer' = [answer EXCEPT ![m] = <<rc>>]
    BY <2>5, <2>7 DEF TypeOK
  <2> QED
    BY <1>1, <2>6, <2>7 DEF Net!Leave
<1>2. ASSUME NEW S \in SUBSET Msgs, Net!Answer(S)
      PROVE  /\ pending' \in [Keys -> Seq(Msgs)]
             /\ answer' \in [Msgs -> Seq(RCs)]
             /\ \A n \in Msgs : answer[n] # <<>> => answer'[n] = answer[n]
  <2>1. PICK rc \in RCs : answer' = [m \in Msgs |-> IF m \in S THEN <<rc>> ELSE answer[m]]
    BY <1>2 DEF Net!Answer
  <2>2. <<rc>> \in Seq(RCs)
    OBVIOUS
  <2> QED
    BY <1>2, <2>1, <2>2 DEF Net!Answer, TypeOK
<1> QED
  BY <1>1, <1>2

LEMMA CycleCounts ==
  ASSUME NEW n \in Nat
  PROVE  Cycle(n) \in Nat
BY SettingsAssumption DEF Cycle

(* What the callback and the caller make of a descriptor is one.           *)
LEMMA DescrParts ==
  ASSUME NEW d \in Descr
  PROVE  /\ [d EXCEPT !.is_sending = FALSE] \in Descr
         /\ Parted(d) \in Descr
         /\ d.rc \in RCs \cup {RC_UNKNOWN}
<1>1. [d EXCEPT !.is_sending = FALSE] \in Descr
  BY DEF Descr
<1>2. Parted(d) \in Descr
  BY DEF Descr, Parted
<1>3. d.rc \in RCs \cup {RC_UNKNOWN}
  BY DEF Descr
<1> QED
  BY <1>1, <1>2, <1>3

LEMMA DescrSays ==
  ASSUME NEW d \in Descr, NEW rc \in RCs
  PROVE  [d EXCEPT !.rc = rc] \in Descr
BY DEF Descr

(* What holds of a call of can_net_sync_send between its steps: who has    *)
(* the descriptor, and what it may say.                                    *)
CallSafe(m) ==
  /\ callback[m] # "none" => answer[m] # <<>>
  /\ callback[m] = "none" => descr[m].is_sending
  /\ callback[m] = "marked" => ~descr[m].is_sending
  /\ callback[m] = "done" /\ descr[m].actual => ~descr[m].is_sending
  /\ callback[m] = "done" /\ ~descr[m].is_sending => descr[m].rc = Head(answer[m])
  /\ descr[m].is_sending => descr[m].rc = RC_UNKNOWN
  /\ call[m] # "returned" => descr[m].live /\ descr[m].actual
  /\ call[m] = "returned" =>
       IF descr[m].live
         THEN result[m] = RC_UNKNOWN /\ descr[m].is_sending /\ ~descr[m].actual
         ELSE result[m] = descr[m].rc /\ ~descr[m].is_sending /\ callback[m] = "done"

CallsSafe == \A m \in Msgs : CallSafe(m)

LEMMA TypeKept ==
  ASSUME TypeOK, CallsSafe, [Next]_vars
  PROVE  TypeOK'
<1> USE DEF TypeOK, CallsSafe
<1>1. ASSUME NEW m \in Msgs, StartSend(m) PROVE TypeOK'
  <2>1. Key[m] \in Keys
    BY KeyAssumption
  <2>2. Append(pending[Key[m]], m) \in Seq(Msgs)
    BY <2>1
  <2>3. pending' \in [Keys -> Seq(Msgs)] /\ answer' = answer
    BY <1>1, <2>2 DEF StartSend, Net!Accept
  <2> QED
    BY <1>1, <2>3 DEF StartSend, NewDescr, Descr, recvVars
<1>2. CASE NetStep
  BY <1>2, AnswersStay DEF NetStep, sendVars, recvVars
<1>3. ASSUME NEW m \in Msgs, Call(m) PROVE TypeOK'
  <2>0. CASE Poll(m)
    <3>1. cycles[m] \in Nat /\ Cycle(cycles[m]) \in Nat
      BY CycleCounts
    <3> QED
      BY <2>0, <3>1 DEF Poll, netVars, recvVars
  <2>1. CASE LeaveLoop(m)
    BY <2>1 DEF LeaveLoop, netVars, recvVars
  <2>2. CASE Return(m)
    <3>1. Parted(descr[m]) \in Descr /\ descr[m].rc \in RCs \cup {RC_UNKNOWN}
      <4>1. descr[m] \in Descr
        OBVIOUS
      <4> QED
        BY <4>1, DescrParts
    <3> QED
      BY <2>2, <3>1 DEF Return, netVars, recvVars
  <2> QED
    BY <1>3, <2>0, <2>1, <2>2 DEF Call
<1>4. ASSUME NEW m \in Msgs, CallbackMark(m) PROVE TypeOK'
  <2>1. [descr[m] EXCEPT !.is_sending = FALSE] \in Descr
    <3>1. descr[m] \in Descr
      OBVIOUS
    <3> QED
      BY <3>1, DescrParts
  <2> QED
    BY <1>4, <2>1 DEF CallbackMark, netVars, recvVars
<1>5. ASSUME NEW m \in Msgs, CallbackFinish(m) PROVE TypeOK'
  <2>1. answer[m] # <<>>
    BY <1>5 DEF CallbackFinish, CallSafe
  <2>2. Head(answer[m]) \in RCs /\ descr[m] \in Descr
    BY <2>1
  <2>3. [descr[m] EXCEPT !.rc = Head(answer[m])] \in Descr
    BY <2>2, DescrSays
  <2> QED
    BY <1>5, <2>3 DEF CallbackFinish, netVars, recvVars
<1>6. CASE Deliver
  <2>1. arrived' \in Nat
    BY <1>6 DEF Deliver
  <2>2. Append(buffer, arrived') \in Seq(Nat)
    BY <2>1, AppendProperties
  <2>3. buffer' \in Seq(Nat) /\ msgs_num' \in Int
    <3>1. CASE msgs_num' = msgs_num + 1 /\ buffer' = Append(buffer, arrived')
      BY <2>2, <3>1
    <3>2. CASE UNCHANGED <<msgs_num, buffer>>
      BY <3>2
    <3> QED
      BY <1>6, <3>1, <3>2 DEF Deliver
  <2>4. UNCHANGED <<netVars, sendVars, recv, tries, taken>>
    BY <1>6 DEF Deliver
  <2> QED
    BY <2>1, <2>3, <2>4 DEF netVars, sendVars
<1>7. ASSUME NEW r \in Receivers, StartRecv(r) \/ CountDown(r) \/ TryAgain(r) PROVE TypeOK'
  <2>1. tries[r] \in Nat /\ Cycle(tries[r]) \in Nat
    BY CycleCounts
  <2>2. CASE StartRecv(r)
    BY <2>2 DEF StartRecv, netVars, sendVars
  <2>3. CASE CountDown(r)
    BY <2>3 DEF CountDown, netVars, sendVars
  <2>4. CASE TryAgain(r)
    BY <2>1, <2>4 DEF TryAgain, netVars, sendVars
  <2> QED
    BY <1>7, <2>2, <2>3, <2>4
<1>8. ASSUME NEW r \in Receivers, Pop(r) PROVE TypeOK'
  <2>1. Tail(buffer) \in Seq(Nat) /\ Append(taken, Head(buffer)) \in Seq(Nat)
    BY <1>8 DEF Pop
  <2> QED
    BY <1>8, <2>1 DEF Pop, netVars, sendVars
<1>9. CASE UNCHANGED vars
  BY <1>9 DEF vars, netVars, sendVars, recvVars
<1> QED
  BY <1>1, <1>2, <1>3, <1>4, <1>5, <1>6, <1>7, <1>8, <1>9 DEF Next, Callback, Receiving

-----------------------------------------------------------------------------
(* What the network has not been given                                     *)

(* Before its call the network neither holds a message nor has answered it.*)
FreshCall(m) ==
  call[m] = "idle" =>
    /\ answer[m] = <<>>
    /\ \A i \in DOMAIN pending[Key[m]] : pending[Key[m]][i] # m

Fresh == \A m \in Msgs : FreshCall(m)

LEMMA FreshKept ==
  ASSUME TypeOK, Fresh, [Next]_vars
  PROVE  Fresh'
<1> SUFFICES ASSUME NEW n \in Msgs, call'[n] = "idle"
             PROVE  /\ answer'[n] = <<>>
                    /\ \A i \in DOMAIN pending'[Key[n]] : pending'[Key[n]][i] # n
  BY DEF Fresh, FreshCall
<1>0. Key[n] \in Keys /\ pending[Key[n]] \in Seq(Msgs)
  BY KeyAssumption DEF TypeOK
<1>a. ASSUME call[n] = "idle"
      PROVE  answer[n] = <<>> /\ \A i \in DOMAIN pending[Key[n]] : pending[Key[n]][i] # n
  BY <1>a DEF Fresh, FreshCall
<1>b. ASSUME UNCHANGED <<netVars, call>>
      PROVE  answer'[n] = <<>> /\ \A i \in DOMAIN pending'[Key[n]] : pending'[Key[n]][i] # n
  BY <1>a, <1>b DEF netVars
<1>1. ASSUME NEW m \in Msgs, StartSend(m)
      PROVE  answer'[n] = <<>> /\ \A i \in DOMAIN pending'[Key[n]] : pending'[Key[n]][i] # n
  <2>1. m # n /\ call[n] = "idle" /\ answer' = answer
    BY <1>1 DEF StartSend, Net!Accept, TypeOK
  <2>2. pending' = [pending EXCEPT ![Key[m]] = Append(@, m)]
    BY <1>1 DEF StartSend, Net!Accept
  <2>3. pending'[Key[n]] = IF Key[m] = Key[n] THEN Append(pending[Key[n]], m)
                           ELSE pending[Key[n]]
    BY <1>0, <2>2 DEF TypeOK
  <2>4. \A i \in DOMAIN pending'[Key[n]] : pending'[Key[n]][i] # n
    <3>1. CASE Key[m] = Key[n]
      BY <1>0, <1>a, <2>1, <2>3, <3>1
    <3>2. CASE Key[m] # Key[n]
      BY <1>a, <2>1, <2>3, <3>2
    <3> QED
      BY <3>1, <3>2
  <2> QED
    BY <1>a, <2>1, <2>4
<1>2. CASE NetStep
  <2>0. call' = call
    BY <1>2 DEF NetStep, sendVars
  <2>1. answer[n] = <<>> /\ \A i \in DOMAIN pending[Key[n]] : pending[Key[n]][i] # n
    BY <1>a, <2>0
  <2>2. ASSUME NEW m \in Msgs, Net!Leave(m)
        PROVE  answer'[n] = <<>> /\ \A i \in DOMAIN pending'[Key[n]] : pending'[Key[n]][i] # n
    <3>0. /\ pending[Key[m]] # <<>> /\ Head(pending[Key[m]]) = m
          /\ pending' = [pending EXCEPT ![Key[m]] = Tail(@)]
          /\ answer' = answer \/ \E rc \in RCs : answer' = [answer EXCEPT ![m] = <<rc>>]
      BY <2>2 DEF Net!Leave
    <3>1. m # n
      BY <1>0, <2>1, <3>0
    <3>2. answer'[n] = <<>>
      BY <2>1, <3>0, <3>1 DEF TypeOK
    <3>3. CASE Key[m] = Key[n]
      <4>1. pending'[Key[n]] = Tail(pending[Key[n]])
        BY <1>0, <3>0, <3>3 DEF TypeOK
      <4> QED
        BY <1>0, <2>1, <3>0, <3>2, <3>3, <4>1
    <3>4. CASE Key[m] # Key[n]
      <4>1. pending'[Key[n]] = pending[Key[n]]
        BY <1>0, <3>0, <3>4 DEF TypeOK
      <4> QED
        BY <2>1, <3>2, <4>1
    <3> QED
      BY <3>3, <3>4
  <2>3. ASSUME NEW S \in SUBSET Msgs, Net!Answer(S)
        PROVE  answer'[n] = <<>> /\ \A i \in DOMAIN pending'[Key[n]] : pending'[Key[n]][i] # n
    <3>1. n \notin S /\ pending' = pending
      BY <1>a, <2>0, <2>3 DEF Net!Answer
    <3>2. answer'[n] = answer[n]
      BY <2>3, <3>1 DEF Net!Answer
    <3> QED
      BY <2>1, <3>1, <3>2
  <2> QED
    BY <1>2, <2>2, <2>3 DEF NetStep
<1>3. ASSUME NEW m \in Msgs, Call(m) \/ Callback(m)
      PROVE  answer'[n] = <<>> /\ \A i \in DOMAIN pending'[Key[n]] : pending'[Key[n]][i] # n
  <2>1. netVars' = netVars /\ (call'[n] = "idle" => call[n] = "idle")
    BY <1>3 DEF Call, Callback, Poll, LeaveLoop, Return, CallbackMark, CallbackFinish, TypeOK
  <2> QED
    BY <1>a, <2>1 DEF netVars
<1>4. CASE Deliver \/ (\E r \in Receivers : StartRecv(r) \/ Receiving(r)) \/ UNCHANGED vars
  BY <1>b, <1>4 DEF Deliver, StartRecv, Receiving, Pop, CountDown, TryAgain, vars, sendVars
<1> QED
  BY <1>1, <1>2, <1>3, <1>4 DEF Next

-----------------------------------------------------------------------------
(* The life of a descriptor                                                *)

(* Steps that leave the call of m and the answer to it alone.              *)
LEMMA OtherCalls ==
  ASSUME NEW m \in Msgs, CallSafe(m),
         call'[m] = call[m], descr'[m] = descr[m], callback'[m] = callback[m],
         result'[m] = result[m], answer[m] # <<>> => answer'[m] = answer[m]
  PROVE  CallSafe(m)'
BY DEF CallSafe

LEMMA CallsKept ==
  ASSUME TypeOK, CallsSafe, Fresh, [Next]_vars
  PROVE  CallsSafe'
<1> SUFFICES ASSUME NEW n \in Msgs PROVE CallSafe(n)'
  BY DEF CallsSafe
<1> USE DEF TypeOK
<1>0. CallSafe(n)
  BY DEF CallsSafe
<1>1. ASSUME NEW m \in Msgs, StartSend(m) PROVE CallSafe(n)'
  <2>1. CASE m = n
    <3>1. answer[n] = <<>> /\ answer' = answer
      BY <1>1, <2>1 DEF StartSend, Net!Accept, Fresh, FreshCall
    <3>2. descr'[n] = NewDescr /\ call'[n] = "polling" /\ callback'[n] = "none"
      BY <1>0, <1>1, <2>1, <3>1 DEF StartSend, CallSafe
    <3> QED
      BY <3>2 DEF CallSafe, NewDescr
  <2>2. CASE m # n
    BY <1>0, <1>1, <2>2, OtherCalls DEF StartSend, Net!Accept
  <2> QED
    BY <2>1, <2>2
<1>2. CASE NetStep
  BY <1>0, <1>2, AnswersStay, OtherCalls DEF NetStep, sendVars
<1>3. ASSUME NEW m \in Msgs, Poll(m) \/ LeaveLoop(m) PROVE CallSafe(n)'
  BY <1>0, <1>3 DEF CallSafe, Poll, LeaveLoop, netVars
<1>4. ASSUME NEW m \in Msgs, Return(m) PROVE CallSafe(n)'
  <2>1. CASE m = n
    <3>1. /\ call[n] = "leaving" /\ callback[n] # "marked"
          /\ call'[n] = "returned" /\ callback' = callback /\ answer' = answer
          /\ result'[n] = descr[n].rc /\ descr'[n] = Parted(descr[n])
      BY <1>4, <2>1 DEF Return, MutexFree, netVars
    <3>2. descr[n] \in Descr
      OBVIOUS
    <3> QED
      BY <1>0, <3>1, <3>2 DEF CallSafe, Parted, Descr
  <2>2. CASE m # n
    BY <1>0, <1>4, <2>2, OtherCalls DEF Return, netVars
  <2> QED
    BY <2>1, <2>2
<1>5. ASSUME NEW m \in Msgs, CallbackMark(m) PROVE CallSafe(n)'
  <2>1. CASE m = n
    <3>1. /\ answer[n] # <<>> /\ callback[n] = "none"
          /\ call' = call /\ result' = result /\ answer' = answer
      BY <1>5, <2>1 DEF CallbackMark, netVars
    <3>2. descr[n] \in Descr
      OBVIOUS
    <3>3. CASE /\ descr[n].actual /\ callback'[n] = "marked"
               /\ descr'[n] = [descr[n] EXCEPT !.is_sending = FALSE]
      BY <1>0, <3>1, <3>2, <3>3 DEF CallSafe, Descr
    <3>4. CASE ~descr[n].actual /\ callback'[n] = "done" /\ descr' = descr
      BY <1>0, <3>1, <3>2, <3>4 DEF CallSafe, Descr
    <3> QED
      BY <1>5, <2>1, <3>3, <3>4 DEF CallbackMark
  <2>2. CASE m # n
    BY <1>0, <1>5, <2>2, OtherCalls DEF CallbackMark, netVars
  <2> QED
    BY <2>1, <2>2
<1>6. ASSUME NEW m \in Msgs, CallbackFinish(m) PROVE CallSafe(n)'
  <2>1. CASE m = n
    <3>1. /\ callback[n] = "marked" /\ callback'[n] = "done"
          /\ call' = call /\ result' = result /\ answer' = answer
          /\ descr'[n] = [descr[n] EXCEPT !.rc = Head(answer[n])]
      BY <1>6, <2>1 DEF CallbackFinish, netVars
    <3>2. descr[n] \in Descr
      OBVIOUS
    <3> QED
      BY <1>0, <3>1, <3>2 DEF CallSafe, Descr
  <2>2. CASE m # n
    BY <1>0, <1>6, <2>2, OtherCalls DEF CallbackFinish, netVars
  <2> QED
    BY <2>1, <2>2
<1>7. ASSUME UNCHANGED <<netVars, sendVars>> PROVE CallSafe(n)'
  BY <1>0, <1>7, OtherCalls DEF netVars, sendVars
<1>8. CASE Deliver \/ (\E r \in Receivers : StartRecv(r) \/ Receiving(r)) \/ UNCHANGED vars
  BY <1>7, <1>8 DEF Deliver, StartRecv, Receiving, Pop, CountDown, TryAgain, vars
<1> QED
  BY <1>1, <1>2, <1>3, <1>4, <1>5, <1>6, <1>8 DEF Next, Call, Callback

LEMMA CallsAndTypes == Spec => [](TypeOK /\ CallsSafe /\ Fresh)
<1>1. Init => TypeOK /\ CallsSafe /\ Fresh
  BY KeyAssumption DEF Init, Net!Init, TypeOK, CallsSafe, CallSafe, Fresh, FreshCall, NewDescr,
                       Descr
<1>2. TypeOK /\ CallsSafe /\ Fresh /\ [Next]_vars => TypeOK' /\ CallsSafe' /\ Fresh'
  BY TypeKept, CallsKept, FreshKept
<1> QED
  BY <1>1, <1>2, PTL DEF Spec

(* The state of can_net_sync_wrapper.c keeps its types.                    *)
THEOREM TypeCorrect == Spec => []TypeOK
BY CallsAndTypes, PTL

(* However the callback, the polling loop and the timeout of               *)
(* can_net_sync_send interleave, the descriptor outlives the callback and  *)
(* the call returns the network's answer or, out of time, RC_UNKNOWN.      *)
THEOREM SendIsSafe == Spec => [](DescrOutlivesCallback /\ ResultIsAnswer)
<1>1. TypeOK /\ CallsSafe => DescrOutlivesCallback /\ ResultIsAnswer
  <2> SUFFICES ASSUME TypeOK, CallsSafe, NEW m \in Msgs
               PROVE  /\ ~descr[m].live => call[m] = "returned" /\ callback[m] = "done"
                      /\ call[m] = "returned" =>
                           IF descr[m].live THEN result[m] = RC_UNKNOWN
                           ELSE answer[m] # <<>> /\ result[m] = Head(answer[m])
    BY DEF DescrOutlivesCallback, ResultIsAnswer
  <2>1. CallSafe(m)
    BY DEF CallsSafe
  <2> QED
    BY <2>1 DEF CallSafe
<1> QED
  BY <1>1, CallsAndTypes, PTL

(* can_net_sync_send returns what the network answered, or, when it ran    *)
(* out of time, RC_UNKNOWN (can_net_sync_wrapper.c:121-133).               *)
THEOREM ReturnsAnswer == Spec => []ResultIsAnswer
BY SendIsSafe, PTL

-----------------------------------------------------------------------------
(* The buffer of the port                                                  *)

Popped == {r \in Receivers : recv[r] = "popped"}

(* A receiver that moves between "idle" and "trying" holds no message.     *)
LEMMA PoppedStays ==
  ASSUME NEW r \in Receivers, recv \in [Receivers -> {"idle", "trying", "popped"}],
         recv[r] # "popped", NEW to, to # "popped", recv' = [recv EXCEPT ![r] = to]
  PROVE  Popped' = Popped
BY DEF Popped

(* The buffer and the receivers that still have to count down account for  *)
(* msgs_num at every step, so the buffer never outgrows msgs_limit, however*)
(* many threads receive on the port.                                       *)
THEOREM BufferAccounting == Spec => []BufferCounted
<1> DEFINE Counted == /\ msgs_num = Len(buffer) + Cardinality(Popped)
                      /\ Limit >= 0 => msgs_num <= Limit
<1>0. BufferCounted <=> Counted
  BY DEF BufferCounted, Popped
<1>1. Init => BufferCounted
  <2> SUFFICES ASSUME Init PROVE Counted
    BY <1>0
  <2>1. Popped = {}
    BY DEF Init, Popped
  <2>2. Cardinality(Popped) = 0 /\ Len(buffer) = 0 /\ msgs_num = 0
    BY <2>1, FS_EmptySet DEF Init
  <2> QED
    BY <2>2
<1>2. TypeOK /\ BufferCounted /\ [Next]_vars => BufferCounted'
  <2> SUFFICES ASSUME TypeOK, Counted, [Next]_vars PROVE Counted'
    BY <1>0 DEF BufferCounted, Popped
  <2>0. /\ IsFiniteSet(Popped) /\ Cardinality(Popped) \in Nat
        /\ Len(buffer) \in Nat /\ msgs_num \in Int /\ Limit \in Int
        /\ recv \in [Receivers -> {"idle", "trying", "popped"}] /\ buffer \in Seq(Nat)
    <3>1. IsFiniteSet(Popped)
      BY ReceiversAssumption, FS_Subset DEF Popped
    <3> QED
      BY <3>1, FS_CardinalityType, SettingsAssumption DEF TypeOK
  <2>1. ASSUME UNCHANGED <<buffer, msgs_num, recv>> PROVE Counted'
    BY <2>1 DEF Popped
  <2>2. CASE Deliver
    <3>1. Popped' = Popped
      BY <2>2 DEF Deliver, Popped
    <3>2. CASE HasRoom /\ msgs_num' = msgs_num + 1 /\ buffer' = Append(buffer, arrived')
      <4>1. Len(buffer') = Len(buffer) + 1
        BY <2>0, <3>2
      <4>2. msgs_num < Limit \/ Limit < 0
        BY <3>2 DEF HasRoom
      <4> HIDE DEF Popped
      <4> QED
        BY <2>0, <3>1, <3>2, <4>1, <4>2
    <3>3. CASE UNCHANGED <<msgs_num, buffer>>
      BY <3>1, <3>3
    <3> QED
      BY <2>2, <3>2, <3>3 DEF Deliver
  <2>3. ASSUME NEW r \in Receivers, StartRecv(r) PROVE Counted'
    <3>1. Popped' = Popped
      BY <2>0, <2>3, PoppedStays DEF StartRecv
    <3> QED
      BY <2>3, <3>1 DEF StartRecv
  <2>4. ASSUME NEW r \in Receivers, Pop(r) PROVE Counted'
    <3>1. Popped' = Popped \cup {r} /\ r \notin Popped
      BY <2>0, <2>4 DEF Pop, Popped
    <3>2. Cardinality(Popped') = Cardinality(Popped) + 1
      BY <2>0, <3>1, FS_AddElement
    <3>3. Len(buffer') = Len(buffer) - 1
      BY <2>0, <2>4 DEF Pop
    <3> QED
      BY <2>0, <2>4, <3>2, <3>3 DEF Pop
  <2>5. ASSUME NEW r \in Receivers, CountDown(r) PROVE Counted'
    <3>1. Popped' = Popped \ {r} /\ r \in Popped
      BY <2>0, <2>5 DEF CountDown, Popped
    <3>2. Cardinality(Popped') = Cardinality(Popped) - 1
      BY <2>0, <3>1, FS_RemoveElement
    <3>3. Len(buffer') = Len(buffer) /\ msgs_num' = msgs_num - 1
      BY <2>5 DEF CountDown
    <3> QED
      BY <2>0, <3>2, <3>3
  <2>6. ASSUME NEW r \in Receivers, TryAgain(r) PROVE Counted'
    <3>1. Popped' = Popped
      <4>1. CASE recv' = [recv EXCEPT ![r] = "idle"]
        BY <2>0, <2>6, <4>1, PoppedStays DEF TryAgain
      <4>2. CASE UNCHANGED recv
        BY <4>2 DEF Popped
      <4> QED
        BY <2>6, <4>1, <4>2 DEF TryAgain
    <3> QED
      BY <2>6, <3>1 DEF TryAgain
  <2>7. ASSUME NEW m \in Msgs, StartSend(m) \/ Call(m) \/ Callback(m) PROVE Counted'
    BY <2>1, <2>7 DEF StartSend, Call, Poll, LeaveLoop, Return, Callback, CallbackMark,
                      CallbackFinish, recvVars
  <2>8. CASE NetStep \/ UNCHANGED vars
    BY <2>1, <2>8 DEF NetStep, vars, recvVars
  <2> HIDE DEF Counted
  <2> QED
    BY <2>2, <2>3, <2>4, <2>5, <2>6, <2>7, <2>8 DEF Next, Receiving
<1> QED
  BY <1>1, <1>2, TypeCorrect, PTL DEF Spec

(* Messages n or older, each younger than the one before it.               *)
Rising(s, n) ==
  /\ \A i \in 1 .. Len(s) : s[i] <= n
  /\ \A i \in 1 .. Len(s) - 1 : s[i] < s[i + 1]

LEMMA RisingAppend ==
  ASSUME NEW s \in Seq(Nat), NEW n \in Nat, Rising(s, n)
  PROVE  Rising(Append(s, n + 1), n + 1)
<1> DEFINE t == Append(s, n + 1)
<1>1. /\ Len(s) \in Nat /\ Len(t) = Len(s) + 1
      /\ \A i \in 1 .. Len(s) : s[i] \in Nat /\ t[i] = s[i]
      /\ t[Len(s) + 1] = n + 1
  BY AppendProperties, LenProperties, ElementOfSeq
<1> HIDE DEF t
<1>2. \A i \in 1 .. Len(t) : t[i] <= n + 1
  BY <1>1 DEF Rising
<1>3. \A i \in 1 .. Len(t) - 1 : t[i] < t[i + 1]
  <2> SUFFICES ASSUME NEW i \in 1 .. Len(t) - 1 PROVE t[i] < t[i + 1]
    OBVIOUS
  <2>1. i \in 1 .. Len(s) /\ t[i] = s[i] /\ s[i] <= n /\ s[i] \in Nat
    BY <1>1 DEF Rising
  <2>2. CASE i = Len(s)
    BY <1>1, <2>1, <2>2
  <2>3. CASE i # Len(s)
    <3>1. i \in 1 .. Len(s) - 1 /\ i + 1 \in 1 .. Len(s)
      BY <1>1, <2>1, <2>3
    <3> QED
      BY <1>1, <2>1, <3>1 DEF Rising
  <2> QED
    BY <2>2, <2>3
<1> QED
  BY <1>2, <1>3 DEF Rising, t

LEMMA RisingLater ==
  ASSUME NEW s \in Seq(Nat), NEW n \in Nat, Rising(s, n)
  PROVE  Rising(s, n + 1)
<1>1. \A i \in 1 .. Len(s) : s[i] \in Nat
  BY ElementOfSeq
<1> QED
  BY <1>1 DEF Rising

(* Taking the first message of a buffer moves it and loses nothing.        *)
LEMMA PopMoves ==
  ASSUME NEW s \in Seq(Nat), NEW q \in Seq(Nat), q # <<>>
  PROVE  Append(s, Head(q)) \o Tail(q) = s \o q
<1>1. Head(q) \in Nat /\ Tail(q) \in Seq(Nat) /\ <<Head(q)>> \in Seq(Nat)
  BY HeadTailProperties
<1>2. q = <<Head(q)>> \o Tail(q)
  BY HeadTailProperties
<1>3. Append(s, Head(q)) = s \o <<Head(q)>>
  BY <1>1, AppendIsConcat
<1>4. (s \o <<Head(q)>>) \o Tail(q) = s \o (<<Head(q)>> \o Tail(q))
  BY <1>1, ConcatAssociative
<1> QED
  BY <1>2, <1>3, <1>4

LEMMA AddAtEnd ==
  ASSUME NEW s \in Seq(Nat), NEW q \in Seq(Nat), NEW n \in Nat
  PROVE  s \o Append(q, n) = Append(s \o q, n)
<1>1. Append(q, n) = q \o <<n>> /\ s \o q \in Seq(Nat) /\ <<n>> \in Seq(Nat)
  BY AppendIsConcat, ConcatProperties
<1>2. Append(s \o q, n) = (s \o q) \o <<n>>
  BY <1>1, AppendIsConcat
<1> QED
  BY <1>1, <1>2, ConcatAssociative

(* Receivers of a port, however many, take its messages in the order of    *)
(* arrival and none of them twice.                                         *)
THEOREM ReceiveInOrder == Spec => []TakenInOrder
<1> DEFINE Ordered == Rising(taken \o buffer, arrived)
<1>1. Init => Ordered
  <2> SUFFICES ASSUME Init PROVE Ordered
    OBVIOUS
  <2>1. taken \o buffer = <<>>
    BY ConcatProperties DEF Init
  <2> QED
    BY <2>1 DEF Rising
<1>2. TypeOK /\ Ordered /\ [Next]_vars => Ordered'
  <2> SUFFICES ASSUME TypeOK, Ordered, [Next]_vars PROVE Ordered'
    OBVIOUS
  <2>0. taken \in Seq(Nat) /\ buffer \in Seq(Nat) /\ arrived \in Nat /\ taken \o buffer \in Seq(Nat)
    BY ConcatProperties DEF TypeOK
  <2>1. ASSUME UNCHANGED <<buffer, arrived, taken>> PROVE Ordered'
    BY <2>1
  <2>2. CASE Deliver
    <3>1. arrived' = arrived + 1 /\ taken' = taken
      BY <2>2 DEF Deliver
    <3>2. CASE buffer' = Append(buffer, arrived')
      <4>1. taken' \o buffer' = Append(taken \o buffer, arrived + 1)
        BY <2>0, <3>1, <3>2, AddAtEnd
      <4> QED
        BY <2>0, <3>1, <4>1, RisingAppend
    <3>3. CASE buffer' = buffer
      BY <2>0, <3>1, <3>3, RisingLater
    <3> QED
      BY <2>2, <3>2, <3>3 DEF Deliver
  <2>3. ASSUME NEW r \in Receivers, Pop(r) PROVE Ordered'
    <3>1. taken' \o buffer' = taken \o buffer /\ arrived' = arrived
      BY <2>0, <2>3, PopMoves DEF Pop
    <3> QED
      BY <3>1
  <2>4. ASSUME NEW r \in Receivers, StartRecv(r) \/ CountDown(r) \/ TryAgain(r) PROVE Ordered'
    BY <2>1, <2>4 DEF StartRecv, CountDown, TryAgain
  <2>5. ASSUME NEW m \in Msgs, StartSend(m) \/ Call(m) \/ Callback(m) PROVE Ordered'
    BY <2>1, <2>5 DEF StartSend, Call, Poll, LeaveLoop, Return, Callback, CallbackMark,
                      CallbackFinish, recvVars
  <2>6. CASE NetStep \/ UNCHANGED vars
    BY <2>1, <2>6 DEF NetStep, vars, recvVars
  <2> HIDE DEF Ordered
  <2> QED
    BY <2>2, <2>3, <2>4, <2>5, <2>6 DEF Next, Receiving
<1>3. TypeOK /\ Ordered => TakenInOrder
  BY DEF TakenInOrder, Rising
<1> HIDE DEF Ordered
<1> QED
  BY <1>1, <1>2, <1>3, TypeCorrect, PTL DEF Spec

-----------------------------------------------------------------------------
(* The promise of can_net_sync_wrapper.h                                   *)

(* The polling loop is left only where there is a timeout.                 *)
LoopLeft == \A m \in Msgs : call[m] = "leaving" => Timeout >= 0

LEMMA LoopIsLeft == Spec => []LoopLeft
<1>1. Init => LoopLeft
  BY DEF Init, LoopLeft
<1>2. TypeOK /\ LoopLeft /\ [Next]_vars => LoopLeft'
  <2> SUFFICES ASSUME TypeOK, LoopLeft, [Next]_vars, NEW n \in Msgs, call'[n] = "leaving"
               PROVE  Timeout >= 0
    BY DEF LoopLeft
  <2> USE DEF TypeOK, LoopLeft
  <2>1. ASSUME UNCHANGED call PROVE Timeout >= 0
    BY <2>1
  <2>2. ASSUME NEW m \in Msgs, StartSend(m) \/ Return(m) PROVE Timeout >= 0
    BY <2>2 DEF StartSend, Return
  <2>3. ASSUME NEW m \in Msgs, LeaveLoop(m) PROVE Timeout >= 0
    BY <2>3, SettingsAssumption DEF LeaveLoop, KeepsPolling
  <2>4. ASSUME NEW m \in Msgs, Poll(m) \/ Callback(m) PROVE Timeout >= 0
    BY <2>1, <2>4 DEF Poll, Callback, CallbackMark, CallbackFinish
  <2>5. CASE NetStep \/ Deliver \/ UNCHANGED vars
    BY <2>1, <2>5 DEF NetStep, Deliver, vars, sendVars
  <2>6. ASSUME NEW r \in Receivers, StartRecv(r) \/ Receiving(r) PROVE Timeout >= 0
    BY <2>1, <2>6 DEF StartRecv, Receiving, Pop, CountDown, TryAgain, sendVars
  <2> QED
    BY <2>2, <2>3, <2>4, <2>5, <2>6 DEF Next, Call
<1> QED
  BY <1>1, <1>2, TypeCorrect, PTL DEF Spec

ServiceInv == TypeOK /\ CallsSafe /\ Fresh /\ BufferCounted /\ LoopLeft

(* The states of the service that the wrapper's state stands for.          *)
Hears == [m \in Msgs |-> Hearing(m)]
Hands == Cardinality({r \in Receivers : recv[r] = "popped"})

LEMMA OneHears ==
  ASSUME NEW m \in Msgs, NEW h, Hearing(m)' = h,
         \A n \in Msgs : n # m => Hearing(n)' = Hearing(n)
  PROVE  Hears' = [Hears EXCEPT ![m] = h]
<1>1. Hears' = [n \in Msgs |-> Hearing(n)']
  BY DEF Hears
<1>2. Hears \in [Msgs -> {Hearing(n) : n \in Msgs}] /\ \A n \in Msgs : Hears[n] = Hearing(n)
  BY DEF Hears
<1> DEFINE f == [Hears EXCEPT ![m] = h]
<1>3. f = [n \in Msgs |-> f[n]] /\ \A n \in Msgs : f[n] = Hearing(n)'
  BY <1>2
<1> QED
  BY <1>1, <1>3

LEMMA NobodyHears ==
  ASSUME UNCHANGED <<call, descr>>
  PROVE  Hears' = Hears
BY DEF Hears, Hearing

(* A receiver takes a message into its hands, and makes room.              *)
LEMMA HandsCount ==
  ASSUME TypeOK, NEW r \in Receivers
  PROVE  /\ Hands \in Nat
         /\ recv[r] = "popped" => Hands > 0
         /\ recv[r] = "trying" /\ recv' = [recv EXCEPT ![r] = "popped"] => Hands' = Hands + 1
         /\ recv[r] = "popped" /\ recv' = [recv EXCEPT ![r] = "idle"] => Hands' = Hands - 1
<1>0. /\ IsFiniteSet(Popped) /\ Hands = Cardinality(Popped) /\ Hands' = Cardinality(Popped')
      /\ recv \in [Receivers -> {"idle", "trying", "popped"}]
  BY ReceiversAssumption, FS_Subset DEF Popped, Hands, TypeOK
<1>1. Hands \in Nat
  BY <1>0, FS_CardinalityType
<1>2. recv[r] = "popped" => Hands > 0
  <2>1. recv[r] = "popped" => Popped # {}
    BY DEF Popped
  <2> QED
    BY <1>0, <1>1, <2>1, FS_EmptySet
<1>3. ASSUME recv[r] = "trying", recv' = [recv EXCEPT ![r] = "popped"] PROVE Hands' = Hands + 1
  <2>1. Popped' = Popped \cup {r} /\ r \notin Popped
    BY <1>0, <1>3 DEF Popped
  <2> QED
    BY <1>0, <2>1, FS_AddElement
<1>4. ASSUME recv[r] = "popped", recv' = [recv EXCEPT ![r] = "idle"] PROVE Hands' = Hands - 1
  <2>1. Popped' = Popped \ {r} /\ r \in Popped
    BY <1>0, <1>4 DEF Popped
  <2> QED
    BY <1>0, <2>1, FS_RemoveElement
<1> QED
  BY <1>1, <1>2, <1>3, <1>4

(* What the service calls its variables, and that they stay.               *)
LEMMA ServiceStays ==
  ASSUME Hears' = Hears, Hands' = Hands, UNCHANGED <<answer, result, arrived, buffer, taken>>
  PROVE  UNCHANGED Service!vars
BY DEF Service!vars, Service!sending, Service!receiving, Hears, Hands

LEMMA ReceivingStays ==
  ASSUME UNCHANGED recvVars
  PROVE  Hands' = Hands /\ UNCHANGED Service!receiving
BY DEF Service!receiving, Hands, recvVars

LEMMA SendingStays ==
  ASSUME UNCHANGED <<call, descr, answer, result>>
  PROVE  Hears' = Hears /\ UNCHANGED Service!sending
BY NobodyHears DEF Service!sending, Hears

(* Each step of the wrapper is one of the service, or none.                *)
LEMMA AskStep ==
  ASSUME TypeOK, NEW m \in Msgs, StartSend(m)
  PROVE  Service!Ask(m)
<1>0. /\ call[m] = "idle" /\ call' = [call EXCEPT ![m] = "polling"]
      /\ descr' = [descr EXCEPT ![m] = NewDescr]
      /\ UNCHANGED <<answer, result, recvVars>>
  BY DEF StartSend, Net!Accept
<1>1. Hears[m] = "idle"
  BY <1>0 DEF Hears, Hearing
<1>2. Hearing(m)' = "waiting"
  BY <1>0 DEF Hearing, NewDescr, TypeOK
<1>3. \A n \in Msgs : n # m => Hearing(n)' = Hearing(n)
  BY <1>0 DEF Hearing, TypeOK
<1>4. Hears' = [Hears EXCEPT ![m] = "waiting"]
  BY <1>2, <1>3, OneHears
<1>5. UNCHANGED Service!receiving
  BY <1>0, ReceivingStays
<1> QED
  BY <1>0, <1>1, <1>4, <1>5 DEF Service!Ask, Hears

LEMMA HearStep ==
  ASSUME TypeOK, NEW m \in Msgs, CallSafe(m), Fresh, CallbackMark(m)
  PROVE  Service!Hear(m) \/ UNCHANGED Service!vars
<1>0. /\ answer[m] # <<>> /\ callback[m] = "none"
      /\ UNCHANGED <<call, answer, result, recvVars>>
  BY DEF CallbackMark, netVars
<1>1. CASE descr[m].actual /\ descr' = [descr EXCEPT ![m].is_sending = FALSE]
  <2>1. call[m] \in {"polling", "leaving"} /\ descr[m].is_sending
    BY <1>0, <1>1 DEF CallSafe, Fresh, FreshCall, TypeOK
  <2>2. Hears[m] = "waiting"
    BY <2>1 DEF Hears, Hearing
  <2>3. ~(descr'[m].is_sending)
    BY <1>1 DEF TypeOK, Descr
  <2>4. Hearing(m)' = "heard"
    BY <1>0, <2>1, <2>3 DEF Hearing
  <2>5. \A n \in Msgs : n # m => Hearing(n)' = Hearing(n)
    BY <1>0, <1>1 DEF Hearing, TypeOK
  <2>6. Hears' = [Hears EXCEPT ![m] = "heard"]
    BY <2>4, <2>5, OneHears
  <2>7. UNCHANGED Service!receiving
    BY <1>0, ReceivingStays
  <2> QED
    BY <1>0, <2>2, <2>6, <2>7 DEF Service!Hear, Hears
<1>2. CASE UNCHANGED descr
  <2>1. Hears' = Hears /\ Hands' = Hands
    BY <1>0, <1>2, NobodyHears, ReceivingStays
  <2> QED
    BY <1>0, <2>1, ServiceStays DEF recvVars
<1> QED
  BY <1>1, <1>2 DEF CallbackMark

(* What the call returns is in the descriptor when the mutex is free.      *)
LEMMA ReturnStep ==
  ASSUME TypeOK, NEW m \in Msgs, CallSafe(m), LoopLeft, Return(m)
  PROVE  Service!Return(m) \/ Service!GiveUp(m)
<1>0. /\ call[m] = "leaving" /\ callback[m] \in {"none", "done"}
      /\ result' = [result EXCEPT ![m] = descr[m].rc]
      /\ descr' = [descr EXCEPT ![m] = Parted(@)]
      /\ call' = [call EXCEPT ![m] = "returned"]
      /\ UNCHANGED <<answer, recvVars>>
  BY DEF Return, MutexFree, netVars, TypeOK
<1>1. Hearing(m)' = "returned"
  BY <1>0 DEF Hearing, TypeOK
<1>2. \A n \in Msgs : n # m => Hearing(n)' = Hearing(n)
  BY <1>0 DEF Hearing, TypeOK
<1>3. Hears' = [Hears EXCEPT ![m] = "returned"]
  BY <1>1, <1>2, OneHears
<1>4. UNCHANGED Service!receiving
  BY <1>0, ReceivingStays
<1>5. CASE descr[m].is_sending
  <2>1. Hears[m] = "waiting" /\ descr[m].rc = RC_UNKNOWN /\ Timeout >= 0
    BY <1>0, <1>5 DEF Hears, Hearing, CallSafe, LoopLeft
  <2> QED
    BY <1>0, <1>3, <1>4, <2>1 DEF Service!GiveUp, Hears
<1>6. CASE ~descr[m].is_sending
  <2>1. Hears[m] = "heard" /\ descr[m].rc = Head(answer[m])
    BY <1>0, <1>6 DEF Hears, Hearing, CallSafe
  <2> QED
    BY <1>0, <1>3, <1>4, <2>1 DEF Service!Return, Hears
<1> QED
  BY <1>5, <1>6

LEMMA AnswerStep ==
  ASSUME TypeOK, Fresh, NetStep
  PROVE  [Service!Next]_(Service!vars)
<1>0. UNCHANGED <<call, descr, result, recvVars>>
  BY DEF NetStep, sendVars
<1>1. Hears' = Hears /\ Hands' = Hands /\ UNCHANGED Service!receiving
  BY <1>0, NobodyHears, ReceivingStays
<1>2. ASSUME NEW S \in SUBSET Msgs, NEW rc \in RCs,
             \A m \in S : call[m] # "idle" /\ answer[m] = <<>>,
             answer' = [m \in Msgs |-> IF m \in S THEN <<rc>> ELSE answer[m]]
      PROVE  Service!Answer(S, rc)
  <2>1. \A m \in S : Hears[m] # "idle"
    BY <1>2 DEF Hears, Hearing
  <2>2. UNCHANGED <<result, Service!receiving>>
    BY <1>0, <1>1
  <2> QED
    BY <1>1, <1>2, <2>1, <2>2 DEF Service!Answer, Hears
<1>3. ASSUME NEW m \in Msgs, Net!Leave(m)
      PROVE  [Service!Next]_(Service!vars)
  <2>1. CASE answer' = answer
    BY <1>0, <1>1, <2>1, ServiceStays DEF recvVars
  <2>2. ASSUME answer[m] = <<>>, NEW rc \in RCs, answer' = [answer EXCEPT ![m] = <<rc>>]
        PROVE  Service!Next
    <3>0. Key[m] \in Keys /\ pending[Key[m]] \in Seq(Msgs)
      BY KeyAssumption DEF TypeOK
    <3>1. pending[Key[m]] # <<>> /\ Head(pending[Key[m]]) = m
      BY <1>3 DEF Net!Leave
    <3>2. call[m] # "idle"
      BY <3>0, <3>1 DEF Fresh, FreshCall
    <3>3. answer' = [n \in Msgs |-> IF n \in {m} THEN <<rc>> ELSE answer[n]]
      BY <2>2 DEF TypeOK
    <3>4. {m} \in SUBSET Msgs /\ \A n \in {m} : call[n] # "idle" /\ answer[n] = <<>>
      BY <2>2, <3>2
    <3>5. Service!Answer({m}, rc)
      BY <1>2, <3>3, <3>4
    <3> QED
      BY <3>4, <3>5 DEF Service!Next
  <2> QED
    BY <1>3, <2>1, <2>2 DEF Net!Leave
<1>4. ASSUME NEW S \in SUBSET Msgs, Net!Answer(S)
      PROVE  Service!Next
  <2>1. \A m \in S : call[m] # "idle" /\ answer[m] = <<>>
    BY <1>4 DEF Net!Answer
  <2>2. PICK rc \in RCs : answer' = [m \in Msgs |-> IF m \in S THEN <<rc>> ELSE answer[m]]
    BY <1>4 DEF Net!Answer
  <2>3. Service!Answer(S, rc)
    BY <1>2, <2>1, <2>2
  <2> QED
    BY <2>3 DEF Service!Next
<1> QED
  BY <1>3, <1>4 DEF NetStep

(* There is room for a message exactly where msgs_num says so.             *)
LEMMA ArriveStep ==
  ASSUME TypeOK, BufferCounted, Deliver
  PROVE  Service!Arrive
<1>0. /\ arrived' = arrived + 1 /\ UNCHANGED <<call, descr, answer, result, recv, taken>>
      /\ Limit \in Int /\ msgs_num \in Int
  BY SettingsAssumption DEF Deliver, netVars, sendVars, TypeOK
<1>1. msgs_num = Len(buffer) + Hands
  BY DEF BufferCounted, Hands
<1>2. Service!HasRoom <=> HasRoom
  <2>1. Service!HasRoom <=> (Limit >= 0 => Len(buffer) + Hands < Limit)
    BY DEF Service!HasRoom, Hands
  <2>2. HasRoom <=> (msgs_num < Limit \/ Limit < 0)
    BY DEF HasRoom
  <2> QED
    BY <1>0, <1>1, <2>1, <2>2
<1>3. buffer' = IF Service!HasRoom THEN Append(buffer, arrived + 1) ELSE buffer
  BY <1>0, <1>2 DEF Deliver
<1>4. Hands' = Hands
  BY <1>0 DEF Hands
<1>5. UNCHANGED Service!sending
  BY <1>0, SendingStays
<1> QED
  BY <1>0, <1>3, <1>4, <1>5 DEF Service!Arrive, Hands

LEMMA TakeStep ==
  ASSUME TypeOK, NEW r \in Receivers, Pop(r)
  PROVE  Service!Take
<1>1. Hands' = Hands + 1
  BY HandsCount DEF Pop
<1>2. UNCHANGED Service!sending
  BY SendingStays DEF Pop, netVars, sendVars
<1> QED
  BY <1>1, <1>2 DEF Pop, Service!Take, Hands

LEMMA MakeRoomStep ==
  ASSUME TypeOK, NEW r \in Receivers, CountDown(r)
  PROVE  Service!MakeRoom
<1>1. Hands' = Hands - 1 /\ Hands > 0
  BY HandsCount DEF CountDown
<1>2. UNCHANGED Service!sending
  BY SendingStays DEF CountDown, netVars, sendVars
<1> QED
  BY <1>1, <1>2 DEF CountDown, Service!MakeRoom, Hands

(* Steps inside the wrapper that its callers do not see.                   *)
LEMMA HiddenStep ==
  ASSUME TypeOK,
         \/ \E m \in Msgs : Poll(m) \/ LeaveLoop(m) \/ CallbackFinish(m)
         \/ \E r \in Receivers : StartRecv(r) \/ TryAgain(r)
         \/ UNCHANGED vars
  PROVE  UNCHANGED Service!vars
<1>1. ASSUME NEW m \in Msgs, Poll(m) \/ LeaveLoop(m) \/ CallbackFinish(m)
      PROVE  UNCHANGED Service!vars
  <2>0. UNCHANGED <<answer, result, recvVars>>
    BY <1>1 DEF Poll, LeaveLoop, CallbackFinish, netVars
  <2>1. \A n \in Msgs : descr'[n].is_sending = descr[n].is_sending
    <3>1. CASE UNCHANGED descr
      BY <3>1
    <3>2. CASE descr' = [descr EXCEPT ![m].rc = Head(answer[m])]
      BY <3>2 DEF TypeOK, Descr
    <3> QED
      BY <1>1, <3>1, <3>2 DEF Poll, LeaveLoop, CallbackFinish
  <2>2. \A n \in Msgs : call'[n] # call[n] => call[n] = "polling" /\ call'[n] = "leaving"
    BY <1>1 DEF Poll, LeaveLoop, CallbackFinish, TypeOK
  <2>3. Hears' = Hears
    BY <2>1, <2>2 DEF Hears, Hearing
  <2> QED
    BY <2>0, <2>3, ReceivingStays, ServiceStays DEF recvVars
<1>2. ASSUME NEW r \in Receivers, StartRecv(r) \/ TryAgain(r)
      PROVE  UNCHANGED Service!vars
  <2>0. UNCHANGED <<call, descr, answer, result, arrived, buffer, taken>>
    BY <1>2 DEF StartRecv, TryAgain, netVars, sendVars
  <2>1. Popped' = Popped
    BY <1>2, PoppedStays DEF StartRecv, TryAgain, TypeOK, Popped
  <2>2. Hands' = Hands
    BY <2>1 DEF Hands, Popped
  <2> QED
    BY <2>0, <2>2, NobodyHears, ServiceStays
<1>3. CASE UNCHANGED vars
  BY <1>3, NobodyHears, ReceivingStays, ServiceStays DEF vars, netVars, sendVars, recvVars
<1> QED
  BY <1>1, <1>2, <1>3

LEMMA ServiceStep ==
  ASSUME ServiceInv, [Next]_vars
  PROVE  [Service!Next]_(Service!vars)
<1> USE DEF ServiceInv
<1>1. ASSUME NEW m \in Msgs, StartSend(m) PROVE [Service!Next]_(Service!vars)
  BY <1>1, AskStep DEF Service!Next
<1>2. ASSUME NEW m \in Msgs, CallbackMark(m) PROVE [Service!Next]_(Service!vars)
  <2>1. CallSafe(m)
    BY DEF CallsSafe
  <2> QED
    BY <1>2, <2>1, HearStep DEF Service!Next
<1>3. ASSUME NEW m \in Msgs, Return(m) PROVE [Service!Next]_(Service!vars)
  <2>1. CallSafe(m)
    BY DEF CallsSafe
  <2> QED
    BY <1>3, <2>1, ReturnStep DEF Service!Next
<1>4. CASE NetStep
  BY <1>4, AnswerStep
<1>5. CASE Deliver
  BY <1>5, ArriveStep DEF Service!Next
<1>6. ASSUME NEW r \in Receivers, Pop(r) \/ CountDown(r) PROVE [Service!Next]_(Service!vars)
  BY <1>6, TakeStep, MakeRoomStep DEF Service!Next
<1> QED
  BY <1>1, <1>2, <1>3, <1>4, <1>5, <1>6, HiddenStep DEF Next, Call, Callback, Receiving

(* can_net_sync_send and can_net_sync_recv keep what their header says of  *)
(* them, for any threads, limit and timeout: a call returns the answer it  *)
(* has heard of, or RC_UNKNOWN out of time, and every message that finds   *)
(* room goes to one receiver, in the order of arrival.                     *)
THEOREM PortIsServed == Spec => ServesPort
<1>1. Init => Service!Init
  <2> SUFFICES ASSUME Init PROVE Service!Init
    OBVIOUS
  <2>1. Hears = [m \in Msgs |-> "idle"]
    BY DEF Init, Hears, Hearing
  <2>2. Hands = 0
    <3>1. Popped = {}
      BY DEF Init, Popped
    <3> QED
      BY <3>1, FS_EmptySet DEF Hands, Popped
  <2> QED
    BY <2>1, <2>2 DEF Init, Net!Init, Service!Init, Hears, Hands
<1>2. ServiceInv /\ [Next]_vars => [Service!Next]_(Service!vars)
  BY ServiceStep
<1>3. Spec => []ServiceInv
  BY CallsAndTypes, BufferAccounting, LoopIsLeft, PTL DEF ServiceInv
<1> QED
  BY <1>1, <1>2, <1>3, PTL DEF Spec, ServesPort, Service!Spec

=============================================================================
