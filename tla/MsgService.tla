----------------------------- MODULE MsgService -----------------------------
(***************************************************************************)
(* What can_net.h promises to an application that sends messages: the      *)
(* messages of one key (port, hardware address, id, system bit) are sent   *)
(* one at a time in the order in which they were given, and each message   *)
(* is answered once, when it has been sent or is given up, or later.       *)
(***************************************************************************)
EXTENDS Sequences

CONSTANTS
  Msgs, Keys,
  Key,       (* [Msgs -> Keys]                                            *)
  RCs

VARIABLES
  given,     (* messages that were given to the network                   *)
  pending,   (* [Keys -> Seq(Msgs)]: given, not yet sent; the first one is
                being sent                                                *)
  answer     (* [Msgs -> Seq(RCs)]: the answer, once it is there          *)

vars == <<given, pending, answer>>

Accept(m) ==
  /\ m \notin given
  /\ given' = given \cup {m}
  /\ pending' = [pending EXCEPT ![Key[m]] = Append(@, m)]
  /\ UNCHANGED answer

(* The first message of its key has been sent, or is given up; it is       *)
(* answered now or later.                                                  *)
Leave(m) ==
  LET k == Key[m]
  IN  /\ pending[k] # <<>> /\ Head(pending[k]) = m
      /\ pending' = [pending EXCEPT ![k] = Tail(@)]
      /\ \/ UNCHANGED answer
         \/ /\ answer[m] = <<>>
            /\ \E rc \in RCs : answer' = [answer EXCEPT ![m] = <<rc>>]
      /\ UNCHANGED given

(* Messages that were sent before are answered; several may run out of     *)
(* time in the same tic.                                                   *)
Answer(S) ==
  /\ \A m \in S : m \in given /\ answer[m] = <<>>
  /\ \A m \in S : \A i \in DOMAIN pending[Key[m]] : pending[Key[m]][i] # m
  /\ \E rc \in RCs :
       answer' = [m \in Msgs |-> IF m \in S THEN <<rc>> ELSE answer[m]]
  /\ UNCHANGED <<given, pending>>

Init ==
  /\ given = {}
  /\ pending = [k \in Keys |-> <<>>]
  /\ answer = [m \in Msgs |-> <<>>]

Next ==
  \/ \E m \in Msgs : Accept(m) \/ Leave(m)
  \/ \E S \in SUBSET Msgs : Answer(S)

Spec == Init /\ [][Next]_vars

=============================================================================
