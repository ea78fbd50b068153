----------------------------- MODULE SyncWrapper -----------------------------
(***************************************************************************)
(* The blocking front of the CAN network on the master, one port of it:    *)
(* master/CAN_NET_fronts/can_net_sync_wrapper.c.                           *)
(*                                                                         *)
(*   - can_net_sync_send gives a message and a descriptor to the network   *)
(*     and polls the descriptor until the send callback, on a thread of    *)
(*     the network, has marked it, or until timeout_cycles have passed;    *)
(*   - can_net_sync_recv polls the port's buffer, which the receive        *)
(*     callback fills, for as many cycles.                                 *)
(*                                                                         *)
(* The network below is MsgService, the promise that CanNet is shown to    *)
(* keep.  Each message is the argument of one call of can_net_sync_send.   *)
(***************************************************************************)
EXTENDS Integers, Sequences, FiniteSets

CONSTANTS
  Msgs,         (* messages to send, one call each                         *)
  Key,          (* [Msgs -> Keys]: what the network orders messages by     *)
  Keys,
  RCs,          (* the return codes of the network                         *)
  RC_UNKNOWN,   (* 1, what descr->rc starts with                           *)
  Receivers,    (* threads that call can_net_sync_recv on the port         *)
  Limit,        (* msgs_limit of the port, none when negative              *)
  Timeout,      (* timeout_cycles of the port, none when negative          *)
  MaxArrived    (* bound: messages the network delivers to the port        *)

ASSUME KeyAssumption == Key \in [Msgs -> Keys]
ASSUME CodesAssumption == RC_UNKNOWN \notin RCs
ASSUME SettingsAssumption == Limit \in Int /\ Timeout \in Int /\ MaxArrived \in Nat
ASSUME ReceiversAssumption == IsFiniteSet(Receivers)

VARIABLES
  pending,      (* MsgService: messages given to the network, not sent yet *)
  answer,       (* MsgService: what it answered                            *)
  call,         (* where can_net_sync_send(m) is                           *)
  cycles,       (* cycles_spent of that call                               *)
  descr,        (* the sender_descriptor_t of that call; live until freed  *)
  callback,     (* where sync_wr_send_callback for m is; it holds the
                   descriptor's mutex when "marked"                        *)
  result,       (* what can_net_sync_send(m) returned                      *)
  buffer,       (* ports[port]->msgs; messages are numbered as they arrive *)
  msgs_num,     (* ports[port]->msgs_num                                   *)
  recv,         (* where a receiver is                                     *)
  tries,        (* timeout_counter of a receiver                           *)
  arrived,      (* history: how many messages the network delivered        *)
  taken         (* history: messages that receivers took, in that order    *)

netVars == <<pending, answer>>
sendVars == <<call, cycles, descr, callback, result>>
recvVars == <<buffer, msgs_num, recv, tries, arrived, taken>>
vars == <<netVars, sendVars, recvVars>>

(* A message is given to the network when its call starts.                 *)
Net == INSTANCE MsgService WITH given <- {m \in Msgs : call[m] # "idle"}

-----------------------------------------------------------------------------
(* Sending                                                                 *)

(* Mutant: malloc without descr->rc = 1.                                   *)
MallocedDescr == [live |-> TRUE, is_sending |-> TRUE, rc |-> "garbage", actual |-> TRUE]

NewDescr == [live |-> TRUE, is_sending |-> TRUE, rc |-> RC_UNKNOWN, actual |-> TRUE]

StartSend(m) ==
  /\ call[m] = "idle"
  /\ call' = [call EXCEPT ![m] = "polling"]
  /\ Net!Accept(m)
  /\ descr' = [descr EXCEPT ![m] = NewDescr]
  /\ UNCHANGED <<cycles, callback, result, recvVars>>

NetStep ==
  /\ UNCHANGED <<sendVars, recvVars>>
  /\ (\E m \in Msgs : Net!Leave(m)) \/ (\E S \in SUBSET Msgs : Net!Answer(S))

(* Mutant: cycles that are not counted.                                    *)
Uncounted(n) == n

(* cycles_spent++ and timeout_counter++; neither is looked at when there   *)
(* is no timeout.                                                          *)
Cycle(n) == IF Timeout < 0 THEN n ELSE n + 1

KeepsPolling(m) ==
  \/ cycles[m] < Timeout /\ descr[m].is_sending
  \/ Timeout < 0

Poll(m) ==
  /\ call[m] = "polling"
  /\ KeepsPolling(m)
  /\ cycles' = [cycles EXCEPT ![m] = Cycle(@)]
  /\ UNCHANGED <<netVars, call, descr, callback, result, recvVars>>

LeaveLoop(m) ==
  /\ call[m] = "polling"
  /\ ~KeepsPolling(m)
  /\ call' = [call EXCEPT ![m] = "leaving"]
  /\ UNCHANGED <<netVars, cycles, descr, callback, result, recvVars>>

(* Mutants: nobody asks who holds the mutex; the descriptor is freed after *)
(* a timeout, too.                                                         *)
Unguarded(m) == TRUE
AlwaysFreed(d) == [d EXCEPT !.live = FALSE]

MutexFree(m) == callback[m] # "marked"

(* The descriptor is freed after the callback; after a timeout it is left  *)
(* to a callback that will find it out of date.                            *)
Parted(d) == IF d.is_sending THEN [d EXCEPT !.actual = FALSE] ELSE [d EXCEPT !.live = FALSE]

Return(m) ==
  /\ call[m] = "leaving"
  /\ MutexFree(m)
  /\ result' = [result EXCEPT ![m] = descr[m].rc]
  /\ descr' = [descr EXCEPT ![m] = Parted(@)]
  /\ call' = [call EXCEPT ![m] = "returned"]
  /\ UNCHANGED <<netVars, cycles, callback, recvVars>>

(* sync_wr_send_callback takes the mutex and, when the call still waits,   *)
(* clears is_sending: the polling thread can see it before rc is set.      *)
CallbackMark(m) ==
  /\ answer[m] # <<>> /\ callback[m] = "none"
  /\ \/ /\ descr[m].actual
        /\ descr' = [descr EXCEPT ![m].is_sending = FALSE]
        /\ callback' = [callback EXCEPT ![m] = "marked"]
     \/ /\ ~descr[m].actual
        /\ callback' = [callback EXCEPT ![m] = "done"]
        /\ UNCHANGED descr
  /\ UNCHANGED <<netVars, call, cycles, result, recvVars>>

CallbackFinish(m) ==
  /\ callback[m] = "marked"
  /\ descr' = [descr EXCEPT ![m].rc = Head(answer[m])]
  /\ callback' = [callback EXCEPT ![m] = "done"]
  /\ UNCHANGED <<netVars, call, cycles, result, recvVars>>

-----------------------------------------------------------------------------
(* Receiving                                                               *)

(* Mutant: off by one.                                                     *)
HasRoomForOneMore == msgs_num <= Limit \/ Limit < 0

HasRoom == msgs_num < Limit \/ Limit < 0

(* sync_wr_recv_callback: a message that does not fit is dropped.          *)
Deliver ==
  /\ arrived < MaxArrived
  /\ arrived' = arrived + 1
  /\ \/ /\ HasRoom
        /\ msgs_num' = msgs_num + 1
        /\ buffer' = Append(buffer, arrived')
     \/ /\ ~HasRoom
        /\ UNCHANGED <<msgs_num, buffer>>
  /\ UNCHANGED <<netVars, sendVars, recv, tries, taken>>

StartRecv(r) ==
  /\ recv[r] = "idle"
  /\ recv' = [recv EXCEPT ![r] = "trying"]
  /\ tries' = [tries EXCEPT ![r] = 0]
  /\ UNCHANGED <<netVars, sendVars, buffer, msgs_num, arrived, taken>>

(* The pop and the count are two critical sections.                        *)
Pop(r) ==
  /\ recv[r] = "trying"
  /\ buffer # <<>>
  /\ buffer' = Tail(buffer)
  /\ taken' = Append(taken, Head(buffer))
  /\ recv' = [recv EXCEPT ![r] = "popped"]
  /\ UNCHANGED <<netVars, sendVars, msgs_num, tries, arrived>>

CountDown(r) ==
  /\ recv[r] = "popped"
  /\ msgs_num' = msgs_num - 1
  /\ recv' = [recv EXCEPT ![r] = "idle"]
  /\ UNCHANGED <<netVars, sendVars, buffer, tries, arrived, taken>>

(* Nothing there: give up on timeout, or sleep and try again.              *)
GivesUp(n) == n > Timeout /\ Timeout >= 0

TryAgain(r) ==
  /\ recv[r] = "trying"
  /\ buffer = <<>>
  /\ \/ /\ GivesUp(tries[r])
        /\ recv' = [recv EXCEPT ![r] = "idle"]
        /\ UNCHANGED tries
     \/ /\ ~GivesUp(tries[r])
        /\ tries' = [tries EXCEPT ![r] = Cycle(@)]
        /\ UNCHANGED recv
  /\ UNCHANGED <<netVars, sendVars, buffer, msgs_num, arrived, taken>>

-----------------------------------------------------------------------------
Init ==
  /\ call = [m \in Msgs |-> "idle"]
  /\ Net!Init
  /\ cycles = [m \in Msgs |-> 0]
  /\ descr = [m \in Msgs |-> NewDescr]
  /\ callback = [m \in Msgs |-> "none"]
  /\ result = [m \in Msgs |-> RC_UNKNOWN]
  /\ buffer = <<>>
  /\ msgs_num = 0
  /\ recv = [r \in Receivers |-> "idle"]
  /\ tries = [r \in Receivers |-> 0]
  /\ arrived = 0
  /\ taken = <<>>

Call(m) == Poll(m) \/ LeaveLoop(m) \/ Return(m)
Callback(m) == CallbackMark(m) \/ CallbackFinish(m)
Receiving(r) == Pop(r) \/ CountDown(r) \/ TryAgain(r)

Next ==
  \/ \E m \in Msgs : StartSend(m) \/ Call(m) \/ Callback(m)
  \/ NetStep
  \/ Deliver
  \/ \E r \in Receivers : StartRecv(r) \/ Receiving(r)

(* Every thread inside a call of the wrapper or of its callbacks goes on;  *)
(* the network below need not answer.                                      *)
Fairness ==
  /\ \A m \in Msgs : WF_vars(Call(m)) /\ WF_vars(Callback(m))
  /\ \A r \in Receivers : WF_vars(Receiving(r))

Spec == Init /\ [][Next]_vars

FairSpec == Spec /\ Fairness

-----------------------------------------------------------------------------
(* Properties                                                              *)

Descr == [live : BOOLEAN, is_sending : BOOLEAN, rc : RCs \cup {RC_UNKNOWN}, actual : BOOLEAN]

(* Type invariant of the wrapper's state.                                  *)
TypeOK ==
  /\ pending \in [Keys -> Seq(Msgs)]
  /\ answer \in [Msgs -> Seq(RCs)]
  /\ call \in [Msgs -> {"idle", "polling", "leaving", "returned"}]
  /\ cycles \in [Msgs -> Nat]
  /\ descr \in [Msgs -> Descr]
  /\ callback \in [Msgs -> {"none", "marked", "done"}]
  /\ result \in [Msgs -> RCs \cup {RC_UNKNOWN}]
  /\ buffer \in Seq(Nat)
  /\ msgs_num \in Int
  /\ recv \in [Receivers -> {"idle", "trying", "popped"}]
  /\ tries \in [Receivers -> Nat]
  /\ arrived \in Nat
  /\ taken \in Seq(Nat)

(* The sending thread frees the descriptor only when the callback is       *)
(* through with it, and the callback never comes for a freed descriptor,   *)
(* whether the call ends on the callback or on the timeout (the "TIMEOUT=> *)
(* SEGFAULT BUG" of can_net_sync_send).                                    *)
DescrOutlivesCallback ==
  \A m \in Msgs : ~descr[m].live => call[m] = "returned" /\ callback[m] = "done"

(* can_net_sync_send returns RC_UNKNOWN when it ran out of time, and then  *)
(* leaves the descriptor behind; in every other case it returns what the   *)
(* network answered, even when it sees is_sending fall before rc is there. *)
ResultIsAnswer ==
  \A m \in Msgs : call[m] = "returned" =>
    IF descr[m].live THEN result[m] = RC_UNKNOWN
                     ELSE answer[m] # <<>> /\ result[m] = Head(answer[m])

(* msgs_num is the length of the buffer and one for every message that a   *)
(* receiver has popped and not yet counted down, so it never falls below   *)
(* the buffer's length, and the buffer never outgrows msgs_limit.          *)
BufferCounted ==
  /\ msgs_num = Len(buffer) + Cardinality({r \in Receivers : recv[r] = "popped"})
  /\ Limit >= 0 => msgs_num <= Limit

(* Whatever the receivers of a port take, together with what is left, is   *)
(* in the order of arrival, nothing twice.                                 *)
TakenInOrder ==
  LET all == taken \o buffer
  IN  \A i \in 1 .. Len(all) - 1 : all[i] < all[i + 1]

(* The promise of can_net_sync_wrapper.h (SyncService): a call has heard   *)
(* of its answer from the moment on when the callback clears is_sending.   *)
Hearing(m) ==
  IF call[m] \in {"polling", "leaving"}
    THEN IF descr[m].is_sending THEN "waiting" ELSE "heard"
    ELSE call[m]

Service == INSTANCE SyncService WITH
  call <- [m \in Msgs |-> Hearing(m)],
  waiting <- buffer,
  hands <- Cardinality({r \in Receivers : recv[r] = "popped"})

(* The wrapper serves its callers as promised: a call returns the answer   *)
(* it has heard of, even before rc is there, and otherwise RC_UNKNOWN; a   *)
(* message is kept for one receiver, in order, while there is room.        *)
ServesPort == Service!Spec

(* With a timeout, can_net_sync_send and can_net_sync_recv return, even    *)
(* when the network never answers and nothing arrives.                     *)
CallsReturn ==
  /\ \A m \in Msgs : call[m] = "polling" ~> call[m] = "returned"
  /\ \A r \in Receivers : recv[r] = "trying" ~> recv[r] = "idle"

(* can_net_sync_wrapper.c:117, "no timeout = when it's done": once the     *)
(* callback has come, can_net_sync_send returns.                           *)
ReturnsWhenDone ==
  \A m \in Msgs : callback[m] = "done" ~> call[m] = "returned"

=============================================================================
