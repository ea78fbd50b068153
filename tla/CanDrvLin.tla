------------------------------ MODULE CanDrvLin ------------------------------
(***************************************************************************)
(* The CAN driver of the master, master/local_net_CAN/can_drv_lin.c: any   *)
(* thread may call can_send, and one driver thread offers the first frame  *)
(* of the list to the socket (can_socket.c) in every turn of its loop.     *)
(* Between the critical sections of frames_out_mutex other threads run.    *)
(*                                                                         *)
(* A turn also receives a frame and hands it to recv_callback; all that    *)
(* the callback does to this state is can_send, which may happen at any    *)
(* time anyway.  Frames are named and sent once each.                      *)
(***************************************************************************)
EXTENDS Integers, Sequences, FiniteSets, SequencesExt

CONSTANTS
  Frames,    (* frames, each the argument of one call of can_send          *)
  Faults     (* what may go wrong when a frame is offered to the socket:
                the frame cannot be packed ("bad"); the socket does not
                take it, and it is too late for it ("late"), in time
                ("in_time"), or gettimeofday fails ("timer")               *)

RC_NORM == "norm"
RC_TIMEOUT == "timeout"
RC_TIMER_ERR == "timer_err"
RC_WRONG_DATA == "wrong_data"
RCs == {RC_NORM, RC_TIMEOUT, RC_TIMER_ERR, RC_WRONG_DATA}

ASSUME FaultsAssumption == Faults \subseteq {"bad", "late", "in_time", "timer"}

VARIABLES
  frames_out,   (* the list of frame descriptors                           *)
  given,        (* frames can_send was called for                          *)
  pc,           (* where drv_main_cycle is                                 *)
  frame_descr,  (* its local variables                                     *)
  rc_s,
  freedHead,    (* the first descriptor of the list has been freed         *)
  undefined,    (* freed memory was used: nothing is known any more        *)
  listed,       (* history: frames in the order of list_add                *)
  bus,          (* history: frames the socket has taken                    *)
  inTime,       (* history: frames the socket did not take with time left  *)
  reports       (* history: calls of send_callback                         *)

vars == <<frames_out, given, pc, frame_descr, rc_s, freedHead, undefined, listed, bus, inTime,
          reports>>

-----------------------------------------------------------------------------
(* Mutants: the newest frame first; no report of what went well.           *)
AddFirst(q, f) == <<f>> \o q
WithoutReport == "head"

Add(q, f) == Append(q, f)
AfterUnlink == "report"

(* list_remove: the first descriptor that is f.                            *)
Unlinked(q, f) == RemoveAt(q, SelectInSeq(q, LAMBDA g : g = f))

(* Whoever walks a list that holds freed memory runs into it.              *)
UseFreed ==
  /\ freedHead
  /\ undefined' = TRUE
  /\ UNCHANGED <<frames_out, given, pc, frame_descr, rc_s, freedHead, listed, bus, inTime, reports>>

(* gettimeofday may fail: can_send returns 1, the frame is on no list and  *)
(* can_net.c does not look at what can_send returns.                       *)
CanSend(f) ==
  /\ f \notin given
  /\ given' = given \cup {f}
  /\ \/ /\ ~freedHead
        /\ frames_out' = Add(frames_out, f)
        /\ listed' = Append(listed, f)
     \/ /\ "timer" \in Faults
        /\ UNCHANGED <<frames_out, listed>>
  /\ UNCHANGED <<pc, frame_descr, rc_s, freedHead, undefined, bus, inTime, reports>>

TakeHead ==
  /\ ~freedHead
  /\ pc = "head"
  /\ frames_out # <<>>
  /\ frame_descr' = Head(frames_out)
  /\ pc' = "offer"
  /\ UNCHANGED <<frames_out, given, rc_s, freedHead, undefined, listed, bus, inTime, reports>>

OfferTaken ==
  /\ pc = "offer"
  /\ rc_s' = RC_NORM
  /\ bus' = Append(bus, frame_descr)
  /\ pc' = "unlink"
  /\ UNCHANGED <<frames_out, given, frame_descr, freedHead, undefined, listed, inTime, reports>>

Unlink ==
  /\ pc = "unlink"
  /\ frames_out' = Unlinked(frames_out, frame_descr)
  /\ pc' = AfterUnlink
  /\ UNCHANGED <<given, frame_descr, rc_s, freedHead, undefined, listed, bus, inTime, reports>>

(* Mutant: the timeout forgets its code.                                   *)
CodeUnlessLate(fault) ==
  CASE fault = "bad" -> RC_WRONG_DATA [] fault = "timer" -> RC_TIMER_ERR [] OTHER -> rc_s

(* Mutant: errno for a code.                                               *)
RawTimer(fault) == CASE fault = "timer" -> "errno" [] OTHER -> RC_TIMEOUT

(* When the socket does not take the frame but there is time left, rc_s    *)
(* keeps the value of the frame before.                                    *)
Code(fault) ==
  CASE fault = "bad"   -> RC_WRONG_DATA
    [] fault = "late"  -> RC_TIMEOUT
    [] fault = "timer" -> RC_TIMER_ERR
    [] OTHER           -> rc_s

OfferFails ==
  /\ pc = "offer"
  /\ \E fault \in Faults :
       /\ rc_s' = Code(fault)
       /\ inTime' = IF fault = "in_time" THEN inTime \cup {frame_descr} ELSE inTime
  /\ pc' = "report"
  /\ UNCHANGED <<frames_out, given, frame_descr, freedHead, undefined, listed, bus, reports>>

(* The frame is reported and its descriptor freed, whether or not it is    *)
(* still on the list.                                                      *)
Report ==
  /\ pc = "report"
  /\ reports' = Append(reports, [frame |-> frame_descr, rc |-> rc_s])
  /\ freedHead' = (frames_out # <<>> /\ Head(frames_out) = frame_descr)
  /\ pc' = "head"
  /\ UNCHANGED <<frames_out, given, frame_descr, rc_s, undefined, listed, bus, inTime>>

-----------------------------------------------------------------------------
Init ==
  /\ frames_out = <<>>
  /\ given = {}
  /\ pc = "head"
  /\ frame_descr \in Frames   \* not initialised
  /\ rc_s = RC_NORM
  /\ freedHead = FALSE
  /\ undefined = FALSE
  /\ listed = <<>>
  /\ bus = <<>>
  /\ inTime = {}
  /\ reports = <<>>

Driver == TakeHead \/ OfferTaken \/ Unlink \/ OfferFails \/ Report

Next ==
  /\ ~undefined
  /\ \/ \E f \in Frames : CanSend(f)
     \/ Driver
     \/ UseFreed

Spec == Init /\ [][Next]_vars

(* The driver thread runs for ever.                                        *)
FairSpec == Spec /\ WF_vars(~undefined /\ (Driver \/ UseFreed))

-----------------------------------------------------------------------------
(* Properties                                                              *)

(* Type invariant of the driver's list and of drv_main_cycle's locals.     *)
TypeOK ==
  /\ frames_out \in Seq(Frames)
  /\ given \subseteq Frames
  /\ pc \in {"head", "offer", "unlink", "report"}
  /\ frame_descr \in Frames
  /\ rc_s \in RCs
  /\ freedHead \in BOOLEAN /\ undefined \in BOOLEAN
  /\ listed \in Seq(Frames)
  /\ bus \in Seq(Frames)
  /\ inTime \subseteq Frames
  /\ reports \in Seq([frame : Frames, rc : RCs])

(* No frame is lost, sent twice or overtaken, though the list is read, and *)
(* the frame removed, in two critical sections with other threads adding   *)
(* in between: the bus and the list together are the frames in the order   *)
(* of can_send, the frame about to be unlinked being on both.              *)
FramesConserved ==
  listed = bus \o (IF pc = "unlink" THEN Tail(frames_out) ELSE frames_out)

(* The frames the driver has taken and not reported.                       *)
Unreported ==
  IF pc = "report" /\ (frames_out = <<>> \/ Head(frames_out) # frame_descr)
    THEN <<frame_descr>> \o frames_out
    ELSE IF freedHead THEN Tail(frames_out) ELSE frames_out

Contract == INSTANCE CanService WITH queue <- Unreported, void <- undefined

(* The driver keeps the promise of can_drv.h (CanService) until it has     *)
(* reported a frame that was not sent: it then still has the freed frame   *)
(* on its list.  What it reports is true but for line 104, where a frame   *)
(* that the socket has not taken in time may be reported as sent.          *)
KeepsContract == Contract!Spec

(* Every frame on the list is reported, unless the driver went astray.     *)
EveryFrameReported ==
  \A f \in Frames :
    Contains(frames_out, f) ~> undefined \/ \E i \in DOMAIN reports : reports[i].frame = f

(* can_drv_lin.c:114, "rc is always updated!": the rc of a report is about *)
(* the frame reported, so CAN_DRV_RC_NORM means that it was sent.          *)
RcIsUpdated ==
  \A i \in DOMAIN reports : reports[i].rc = RC_NORM => Contains(bus, reports[i].frame)

=============================================================================
