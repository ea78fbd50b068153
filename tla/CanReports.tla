----------------------------- MODULE CanReports -----------------------------
(***************************************************************************)
(* The part of the promise of common/net/can_drv.h that the driver of the  *)
(* device keeps: each frame taken by can_send is reported once, with       *)
(* CAN_DRV_RC_NORM only when it was sent.  Unlike CanService it says       *)
(* nothing of the order, and a frame that was reported timed out may still *)
(* be sent.  The promise ends (void) only after an error was reported, or  *)
(* when more frames were owed at once than it can be sure to time.         *)
(***************************************************************************)
EXTENDS Integers, Sequences

CONSTANTS
  Frames, RCs, RC_NORM,
  TooMany    (* the sets of frames it cannot be sure to time at once       *)

VARIABLES
  owed,      (* frames taken and not reported yet                          *)
  sent,      (* frames on the bus                                          *)
  reports,   (* the reports, first one first: [frame, rc]                  *)
  overload,  (* too many frames were owed at once                          *)
  void       (* nothing is promised any more                               *)

vars == <<owed, sent, reports, overload, void>>

Taken == owed \cup {reports[i].frame : i \in DOMAIN reports}

Put(f) ==
  /\ f \notin Taken
  /\ owed' = owed \cup {f}
  /\ \/ UNCHANGED overload
     \/ owed' \in TooMany /\ overload' = TRUE
  /\ UNCHANGED <<sent, reports, void>>

Send(f) ==
  /\ f \in Taken
  /\ sent' = sent \cup {f}
  /\ UNCHANGED <<owed, reports, overload, void>>

Report(f, rc) ==
  /\ f \in owed
  /\ rc = RC_NORM => f \in sent
  /\ owed' = owed \ {f}
  /\ reports' = Append(reports, [frame |-> f, rc |-> rc])
  /\ UNCHANGED <<sent, overload, void>>

GiveUp ==
  /\ overload \/ (reports # <<>> /\ reports[Len(reports)].rc # RC_NORM)
  /\ void' = TRUE
  /\ UNCHANGED <<owed, sent, reports, overload>>

Init == owed = {} /\ sent = {} /\ reports = <<>> /\ overload = FALSE /\ void = FALSE

Next ==
  /\ ~void
  /\ \/ \E f \in Frames : Put(f) \/ Send(f) \/ \E rc \in RCs : Report(f, rc)
     \/ GiveUp

Spec == Init /\ [][Next]_vars

=============================================================================
