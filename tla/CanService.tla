----------------------------- MODULE CanService -----------------------------
(***************************************************************************)
(* What common/net/can_drv.h promises to the network above a driver, and   *)
(* what CanNet takes for granted: the frames of can_send are taken in      *)
(* order, sent in that order and each of them is reported once, after it   *)
(* was sent with the rc CAN_DRV_RC_NORM, and otherwise with an error, and  *)
(* then as the last one before the promise ends (void).                    *)
(*                                                                         *)
(* One report may lie: a frame that the bus has not taken although its     *)
(* time is not up (inTime) is reported with whatever rc there was before.  *)
(***************************************************************************)
EXTENDS Sequences, SequencesExt

CONSTANTS Frames, RCs, RC_NORM

VARIABLES
  queue,     (* frames taken and not reported yet                          *)
  bus,       (* frames sent                                                *)
  inTime,    (* frames the bus has not taken, with time left               *)
  reports,   (* the reports, first one first: [frame, rc]                  *)
  void       (* nothing is promised any more                               *)

vars == <<queue, bus, inTime, reports, void>>

Sent(f) == Contains(bus, f)

(* A frame that was not sent has been reported.                            *)
Failed == reports # <<>> /\ ~Sent(reports[Len(reports)].frame)

Put(f) ==
  /\ queue' = Append(queue, f)
  /\ UNCHANGED <<bus, inTime, reports, void>>

Send ==
  /\ queue # <<>> /\ ~Failed
  /\ ~Sent(Head(queue))
  /\ bus' = Append(bus, Head(queue))
  /\ UNCHANGED <<queue, inTime, reports, void>>

NotTaken ==
  /\ queue # <<>> /\ ~Failed
  /\ ~Sent(Head(queue))
  /\ inTime' = inTime \cup {Head(queue)}
  /\ UNCHANGED <<queue, bus, reports, void>>

Report(rc) ==
  /\ queue # <<>> /\ ~Failed
  /\ Sent(Head(queue)) => rc = RC_NORM
  /\ rc = RC_NORM => Sent(Head(queue)) \/ Head(queue) \in inTime
  /\ queue' = Tail(queue)
  /\ reports' = Append(reports, [frame |-> Head(queue), rc |-> rc])
  /\ UNCHANGED <<bus, inTime, void>>

GiveUp ==
  /\ Failed
  /\ void' = TRUE
  /\ UNCHANGED <<queue, bus, inTime, reports>>

Init == queue = <<>> /\ bus = <<>> /\ inTime = {} /\ reports = <<>> /\ void = FALSE

Next ==
  /\ ~void
  /\ \/ \E f \in Frames : Put(f)
     \/ Send
     \/ NotTaken
     \/ \E rc \in RCs : Report(rc)
     \/ GiveUp

Spec == Init /\ [][Next]_vars

=============================================================================
