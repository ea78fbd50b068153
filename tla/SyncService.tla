---------------------------- MODULE SyncService ----------------------------
(***************************************************************************)
(* What can_net_sync_wrapper.h promises to its callers, for one port.  A   *)
(* call of can_net_sync_send ends once: with the network's answer when it  *)
(* has heard of it, otherwise, out of time, with RC_UNKNOWN.  The messages *)
(* that arrive are kept in order, each for one receiver, and one is        *)
(* dropped only when there is no room for it.                              *)
(***************************************************************************)
EXTENDS Integers, Sequences

CONSTANTS
  Msgs,        (* messages to send, one call each                          *)
  RCs, RC_UNKNOWN,
  Limit,       (* of the messages kept; none when negative                 *)
  Timeout      (* of the calls; none when negative                         *)

VARIABLES
  call,        (* [Msgs -> {"idle", "waiting", "heard", "returned"}]       *)
  answer,      (* [Msgs -> Seq(RCs)]: the network's, once it is there      *)
  result,      (* [Msgs -> RCs \cup {RC_UNKNOWN}]                          *)
  arrived,     (* how many messages have arrived; each has its number      *)
  waiting,     (* messages for the receivers                               *)
  hands,       (* receivers that took a message and have not made room yet *)
  taken        (* what the receivers took, in that order                   *)

sending == <<call, answer, result>>
receiving == <<arrived, waiting, hands, taken>>
vars == <<sending, receiving>>

Ask(m) ==
  /\ call[m] = "idle"
  /\ call' = [call EXCEPT ![m] = "waiting"]
  /\ UNCHANGED <<answer, result, receiving>>

(* The network answers some of the messages it was given.                  *)
Answer(S, rc) ==
  /\ \A m \in S : call[m] # "idle" /\ answer[m] = <<>>
  /\ answer' = [m \in Msgs |-> IF m \in S THEN <<rc>> ELSE answer[m]]
  /\ UNCHANGED <<call, result, receiving>>

Hear(m) ==
  /\ call[m] = "waiting" /\ answer[m] # <<>>
  /\ call' = [call EXCEPT ![m] = "heard"]
  /\ UNCHANGED <<answer, result, receiving>>

Return(m) ==
  /\ call[m] = "heard"
  /\ call' = [call EXCEPT ![m] = "returned"]
  /\ result' = [result EXCEPT ![m] = Head(answer[m])]
  /\ UNCHANGED <<answer, receiving>>

GiveUp(m) ==
  /\ Timeout >= 0
  /\ call[m] = "waiting"
  /\ call' = [call EXCEPT ![m] = "returned"]
  /\ result' = [result EXCEPT ![m] = RC_UNKNOWN]
  /\ UNCHANGED <<answer, receiving>>

HasRoom == Limit >= 0 => Len(waiting) + hands < Limit

Arrive ==
  /\ arrived' = arrived + 1
  /\ waiting' = IF HasRoom THEN Append(waiting, arrived + 1) ELSE waiting
  /\ UNCHANGED <<sending, hands, taken>>

Take ==
  /\ waiting # <<>>
  /\ taken' = Append(taken, Head(waiting))
  /\ waiting' = Tail(waiting)
  /\ hands' = hands + 1
  /\ UNCHANGED <<sending, arrived>>

MakeRoom ==
  /\ hands > 0
  /\ hands' = hands - 1
  /\ UNCHANGED <<sending, arrived, waiting, taken>>

Init ==
  /\ call = [m \in Msgs |-> "idle"]
  /\ answer = [m \in Msgs |-> <<>>]
  /\ result = [m \in Msgs |-> RC_UNKNOWN]
  /\ arrived = 0
  /\ waiting = <<>>
  /\ hands = 0
  /\ taken = <<>>

Next ==
  \/ \E m \in Msgs : Ask(m) \/ Hear(m) \/ Return(m) \/ GiveUp(m)
  \/ \E S \in SUBSET Msgs, rc \in RCs : Answer(S, rc)
  \/ Arrive \/ Take \/ MakeRoom

Spec == Init /\ [][Next]_vars

=============================================================================
