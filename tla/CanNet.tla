------------------------------- MODULE CanNet -------------------------------
(***************************************************************************)
(* One node of the CAN local network: common/net/can_net.c with the lists  *)
(* of can_net_core.c and the confirmation waiters of can_net_middle.c, as  *)
(* the Linux build runs them.  Three kinds of threads meet in this state:  *)
(*                                                                         *)
(*   - application threads: StartSending (under data_mutex) and then       *)
(*     ProcessFirst (no lock), the two halves of can_net_start_sending_msg;*)
(*   - the driver thread: it reports sent and failed frames to             *)
(*     msg_send_handler and hands received frames to frame_recv_handler;   *)
(*   - the checker thread: check_confirm_waiters, once a tic.              *)
(*                                                                         *)
(* A message is known by its name; its payload is not modelled.  The node  *)
(* keeps one "atom" per port, hardware address, id and system bit: here    *)
(* one port, and an id that stands for the pair (id, system bit).  The     *)
(* driver is modelled by its contract (can_drv.h): it takes the frames of  *)
(* can_send in order and reports each of them once.                        *)
(***************************************************************************)
EXTENDS Integers, Sequences, FiniteSets, SequencesExt

CONSTANTS
  Msgs,          (* messages the applications of this node send           *)
  Msg,           (* [Msgs -> [hwa, id, frames, valid]]; frames is how many
                    DATALEN_B pieces the payload takes, valid whether
                    lvl2_acc_base_pack accepts port, id and system bit    *)
  Hwas,          (* hardware addresses                                    *)
  Ids,           (* (id, system bit) pairs                                *)
  ZeroId,        (* the pair (0, 0), which atom_clear_on_read writes      *)
  HeartbeatId,   (* the pair (0, 1) of heartbeat_range                    *)
  PeerFrames,    (* data frames that other nodes may put on the bus       *)
  MaxNum,        (* CAN_NET_SEGM_FNL_MAX_NUM, 255 in the code             *)
  Tics,          (* confirmation_tics_g                                   *)
  SendingMod,    (* 2^8: atom->sending is a uint8_t                       *)
  HwaMod,        (* 2^8: accept_frame takes hwa as a uint8_t              *)
  MaxAtoms,      (* bound: no frame is received when the list of atoms, or *)
  MaxFramesOut,  (* the list of frames to send, is this long              *)
  FaultyDriver,  (* may the driver report an error?                       *)
  SlowDriver,    (* may a tic pass while the driver still holds frames?   *)
  StaleConfirms  (* may a confirmation come late, or twice?               *)

RC_NORM == "norm"
RC_CONF_TIMEOUT == "conf_timeout"
RC_TOO_LONG_MSG == "too_long"
RC_BAD_DATA == "bad_data"
RC_DRIVER_ERR == "driver_err"
RCs == {RC_NORM, RC_CONF_TIMEOUT, RC_TOO_LONG_MSG, RC_BAD_DATA, RC_DRIVER_ERR}

Keys == Hwas \X Ids
MsgInfo == [hwa : Hwas, id : Ids, frames : Nat \ {0}, valid : BOOLEAN]
BusFrame == [hwa : Hwas, id : Ids, num : Nat, lfb : BOOLEAN, src : STRING]

ASSUME MsgsAssumption == Msg \in [Msgs -> MsgInfo]
ASSUME IdsAssumption == ZeroId \in Ids /\ HeartbeatId \in Ids /\ ZeroId # HeartbeatId
ASSUME HwasAssumption == Hwas \subseteq Nat
ASSUME FramesAssumption == PeerFrames \subseteq BusFrame
ASSUME WidthAssumption ==
  /\ MaxNum \in Nat \ {0} /\ Tics \in Nat \ {0} /\ MaxAtoms \in Nat /\ MaxFramesOut \in Nat
  /\ SendingMod \in Nat \ {0, 1} /\ HwaMod \in Nat \ {0}
ASSUME FaultAssumption ==
  FaultyDriver \in BOOLEAN /\ SlowDriver \in BOOLEAN /\ StaleConfirms \in BOOLEAN

VARIABLES
  atoms,      (* can_node->atoms of every node, in list order             *)
  stage,      (* where the send context of a message is                   *)
  pos,        (* segm_ctx->num: frames of the message handed to can_send  *)
  framesOut,  (* frames_out: frames the driver holds, first one first     *)
  waiters,    (* confirm_waiters_g, in list order                         *)
  answers,    (* return codes the send callback of a message was given    *)
  window,     (* the receive callbacks run: accept_frame gave up
                 data_mutex; NoWindow otherwise                           *)
  confirms,   (* messages whose confirmation is on its way from the peer,
                 in the order in which the peer sent them                 *)
  submitted,  (* history: messages in the order of StartSending           *)
  wire,       (* history: data frames this node put on the bus            *)
  received    (* history: messages the peer has received completely       *)

nodeVars == <<atoms, stage, pos, framesOut, waiters, answers, window>>
history == <<submitted, wire, received>>
vars == <<nodeVars, confirms, history>>

NoWindow == [at |-> 0]

-----------------------------------------------------------------------------
(* Atoms (can_net_core.c)                                                  *)

KeyOf(r) == <<r.hwa, r.id>>

FreshAtom(k) ==
  [hwa |-> k[1], id |-> k[2], last |-> -1, data |-> <<>>,
   receiving |-> FALSE, sending |-> 0, queue |-> <<>>]

(* The index of the first atom of key k in the list, 0 when there is none. *)
FindAtom(list, k) == SelectInSeq(list, LAMBDA a : KeyOf(a) = k)

(* The list after get_atom_wtrace(k): a new atom goes to its end.          *)
GetAtom(list, k) ==
  IF FindAtom(list, k) = 0 THEN Append(list, FreshAtom(k)) ELSE list

(* Mutant: the number of the last frame survives.                          *)
ClearDataOnly(a) == [a EXCEPT !.id = ZeroId, !.data = <<>>]

(* atom_clear_on_read also forgets which id the atom belongs to.           *)
ClearOnRead(a) == [a EXCEPT !.id = ZeroId, !.last = -1, !.data = <<>>]

-----------------------------------------------------------------------------
(* Sending                                                                 *)

(* Mutant: the range check looks at the system bit and not at the id.      *)
IsSystem(k) == k[2] # ZeroId

IsHeartbeat(k) == k[2] = HeartbeatId

(* Mutants: the count is not taken down; the second message is not queued; *)
(* it is put before the others.                                            *)
NotCounted(n) == n
MustQueueThird(n) == n > 2
EnqueueFirst(q, m) == <<m>> \o q

(* atom->sending, a uint8_t: how many messages the atom has in hand.       *)
CountUp(n) == (n + 1) % SendingMod
CountDown(n) == (n - 1) % SendingMod
MustQueue(n) == n > 1
Enqueue(q, m) == Append(q, m)

(* call_scb frees the message; a handler that reads its header afterwards  *)
(* reads whatever the allocator left there: g, any key at all.             *)
Meta(m, g) == IF answers[m] = <<>> THEN KeyOf(Msg[m]) ELSE g

(* Mutants: the youngest waiter; a waiter that is answered and kept.       *)
LastWaiter(k, g) == SelectLastInSeq(waiters, LAMBDA w : Meta(w.msg, g) = k)
WaiterKept(i) == waiters

FirstWaiter(k, g) == SelectInSeq(waiters, LAMBDA w : Meta(w.msg, g) = k)

(* remove_confirm_waiter.                                                  *)
WithoutWaiter(i) == RemoveAt(waiters, i)

(* What the first call of the segmentator finds out about a message.       *)
Verdict(m) ==
  CASE ~Msg[m].valid           -> RC_BAD_DATA
    [] Msg[m].valid /\ Msg[m].frames > MaxNum -> RC_TOO_LONG_MSG
    [] OTHER                   -> RC_NORM

NextFrame(m) ==
  [kind |-> "data", msg |-> m, num |-> pos[m], lfb |-> pos[m] + 1 = Msg[m].frames]

ConfirmFrame(k) == [kind |-> "confirm", hwa |-> k[1], id |-> k[2]]

Answered(ans, m, rc) == [ans EXCEPT ![m] = Append(@, rc)]

(* Mutant: the negation is lost.                                           *)
WaiterForHeartbeat(m) == NextFrame(m).lfb /\ IsHeartbeat(KeyOf(Msg[m]))

(* A waiter is registered just before the last frame is given away.        *)
NeedsWaiter(m) == NextFrame(m).lfb /\ ~IsHeartbeat(KeyOf(Msg[m]))

(* The "not last frame" branch of msg_send_handler for context m: pack the *)
(* next frame, register the waiter before the last one, can_send.  The     *)
(* arguments are the driver's list, the stages and the answers as the      *)
(* steps of the same handler before it have left them.                     *)
Dispatch(m, out, stg, ans) ==
  \/ /\ Verdict(m) = RC_NORM
     /\ framesOut' = Append(out, NextFrame(m))
     /\ waiters' = IF NeedsWaiter(m)
                     THEN Append(waiters, [msg |-> m, tics |-> Tics])
                     ELSE waiters
     /\ pos' = [pos EXCEPT ![m] = @ + 1]
     /\ stage' = [stg EXCEPT ![m] = "driver"]
     /\ answers' = ans
  \/ /\ Verdict(m) # RC_NORM
     /\ answers' = Answered(ans, m, Verdict(m))
     /\ stage' = [stg EXCEPT ![m] = "done"]
     /\ framesOut' = out
     /\ UNCHANGED <<waiters, pos>>

(* can_net_start_sending_msg, its part under data_mutex: the message is    *)
(* queued on its atom when the atom is already sending one.                *)
StartSending(m) ==
  LET k == KeyOf(Msg[m])
      list == GetAtom(atoms, k)
      i == FindAtom(list, k)
      n == CountUp(list[i].sending)
  IN  /\ stage[m] = "idle"
      /\ \/ /\ MustQueue(n)
            /\ atoms' = [list EXCEPT ![i] = [list[i] EXCEPT !.sending = n, !.queue = Enqueue(@, m)]]
            /\ stage' = [stage EXCEPT ![m] = "queued"]
         \/ /\ ~MustQueue(n)
            /\ atoms' = [list EXCEPT ![i] = [list[i] EXCEPT !.sending = n]]
            /\ stage' = [stage EXCEPT ![m] = "starting"]
      /\ submitted' = Append(submitted, m)
      /\ UNCHANGED <<pos, framesOut, waiters, answers, window, confirms, wire, received>>

(* ... and its part after the lock: msg_send_handler on the caller's own   *)
(* thread for the first frame.                                             *)
ProcessFirst(m) ==
  /\ stage[m] = "starting"
  /\ Dispatch(m, framesOut, stage, answers)
  /\ UNCHANGED <<atoms, window, confirms, history>>

(* The driver thread is inside frame_recv_handler while the window is open.*)
DriverHolds(f) == window = NoWindow /\ framesOut # <<>> /\ Head(framesOut) = f

(* A confirmation frame has no context: its report is ignored.             *)
DriverSentConfirm ==
  /\ window = NoWindow
  /\ framesOut # <<>> /\ Head(framesOut).kind = "confirm"
  /\ framesOut' = Tail(framesOut)
  /\ UNCHANGED <<atoms, stage, pos, waiters, answers, window, confirms, history>>

(* The driver reports a frame that is not the last one: pack the next.     *)
DriverSentFrame(m) ==
  LET f == [kind |-> "data", msg |-> m, num |-> pos[m] - 1, lfb |-> FALSE]
  IN  /\ DriverHolds(f)
      /\ wire' = Append(wire, f)
      /\ Dispatch(m, Tail(framesOut), stage, answers)
      /\ UNCHANGED <<atoms, window, confirms, submitted, received>>

(* The driver reports the last frame of m: the atom's count goes down, the *)
(* next queued message starts, or the atom is freed; msh_finish answers a  *)
(* heartbeat here and leaves the others to their confirmation.  The peer   *)
(* may or may not have got the whole message.                              *)
DriverSentLast(m) ==
  LET f == [kind |-> "data", msg |-> m, num |-> pos[m] - 1, lfb |-> TRUE]
  IN  /\ DriverHolds(f)
      /\ wire' = Append(wire, f)
      /\ \E got \in BOOLEAN :
           /\ received' = IF got THEN received \cup {m} ELSE received
           /\ confirms' = IF got /\ Msg[m].id # HeartbeatId
                            THEN Append(confirms, m) ELSE confirms
      /\ \E k \in {Meta(m, g) : g \in Keys} :
           LET list == GetAtom(atoms, k)
               i == FindAtom(list, k)
               n == CountDown(list[i].sending)
               stg == [stage EXCEPT ![m] = "done"]
               ans == IF IsHeartbeat(k) THEN Answered(answers, m, RC_NORM) ELSE answers
           IN  \/ /\ list[i].queue # <<>>
                  /\ atoms' = [list EXCEPT ![i] = [list[i] EXCEPT !.sending = n, !.queue = Tail(@)]]
                  /\ Dispatch(Head(list[i].queue), Tail(framesOut), stg, ans)
               \/ /\ list[i].queue = <<>>
                  /\ atoms' = IF list[i].receiving
                                THEN [list EXCEPT ![i] = [list[i] EXCEPT !.sending = n]]
                                ELSE RemoveAt(list, i)
                  /\ framesOut' = Tail(framesOut)
                  /\ stage' = stg
                  /\ answers' = ans
                  /\ UNCHANGED <<waiters, pos>>
      /\ UNCHANGED <<window, submitted>>

(* The driver reports an error.  After the last frame the waiter looked up *)
(* by key is removed; the context is dropped, the atom's count is not      *)
(* touched and no queued message is started.                               *)
DriverFailed ==
  /\ FaultyDriver
  /\ \/ /\ window = NoWindow
        /\ framesOut # <<>> /\ Head(framesOut).kind = "confirm"
        /\ UNCHANGED <<stage, waiters, answers>>
     \/ \E m \in Msgs, l \in BOOLEAN, g \in Keys :
          LET k == Meta(m, g)
          IN  /\ DriverHolds([kind |-> "data", msg |-> m, num |-> pos[m] - 1, lfb |-> l])
              /\ waiters' = IF l /\ ~IsHeartbeat(k) /\ FirstWaiter(k, g) # 0
                              THEN WithoutWaiter(FirstWaiter(k, g))
                              ELSE waiters
              /\ answers' = Answered(answers, m, RC_DRIVER_ERR)
              /\ stage' = [stage EXCEPT ![m] = "done"]
  /\ framesOut' = Tail(framesOut)
  /\ UNCHANGED <<atoms, pos, window, confirms, history>>

-----------------------------------------------------------------------------
(* Confirmations                                                           *)

(* The peer's accept_frame builds the confirmation from its own 8-bit copy *)
(* of the hardware address.                                                *)
ConfirmKey(m) == <<Msg[m].hwa % HwaMod, Msg[m].id>>

(* The confirmation of m arrives: the first waiter of that key is          *)
(* answered, whichever message it waits for.                               *)
ReceiveConfirm(m) ==
  /\ confirms # <<>> /\ Head(confirms) = m
  /\ window = NoWindow
  /\ \E g \in Keys :
       LET w == FirstWaiter(ConfirmKey(m), g)
       IN  \/ /\ w # 0
              /\ answers' = Answered(answers, waiters[w].msg, RC_NORM)
              /\ waiters' = WithoutWaiter(w)
           \/ /\ w = 0
              /\ UNCHANGED <<answers, waiters>>
  /\ \E again \in {FALSE, StaleConfirms} :
       confirms' = IF again THEN confirms ELSE Tail(confirms)
  /\ UNCHANGED <<atoms, stage, pos, framesOut, window, history>>

LoseConfirm ==
  /\ confirms # <<>>
  /\ confirms' = Tail(confirms)
  /\ UNCHANGED <<nodeVars, history>>

(* Mutant: the test can never hold of an unsigned counter.                 *)
ExpiredBelowZero(w) == w.tics < 0

Expired(w) == w.tics <= 1

(* The waiters ws that are left, one tic later, in the order they were in. *)
Survivors(ws) ==
  LET left[i \in 0 .. Len(ws)] ==
        IF i = 0 THEN <<>>
        ELSE IF Expired(ws[i]) THEN left[i - 1]
        ELSE Append(left[i - 1], [ws[i] EXCEPT !.tics = @ - 1])
  IN  left[Len(ws)]

(* check_confirm_waiters, the whole list once, under its mutex.            *)
CheckConfirmWaiters ==
  LET late == {waiters[i].msg : i \in {j \in DOMAIN waiters : Expired(waiters[j])}}
  IN  /\ waiters # <<>>
      /\ SlowDriver \/ framesOut = <<>>
      /\ StaleConfirms \/ late \cap ToSet(confirms) = {}
      /\ answers' = [m \in Msgs |-> IF m \in late THEN Append(answers[m], RC_CONF_TIMEOUT)
                                                  ELSE answers[m]]
      /\ waiters' = Survivors(waiters)
      /\ UNCHANGED <<atoms, stage, pos, framesOut, window, confirms, history>>

-----------------------------------------------------------------------------
(* Receiving                                                               *)

(* The atom a as frame_recv_handler leaves it for accept_frame: a first    *)
(* frame starts a message, and drops what was buffered before it.          *)
Opened(a, f) ==
  LET b == IF f.num = 0 /\ a.data # <<>> THEN ClearOnRead(a) ELSE a
  IN  [b EXCEPT !.receiving = (f.num = 0) \/ @,
                !.data = Append(@, [num |-> f.num, src |-> f.src])]

(* Mutant: later is taken for next.                                        *)
NotEarlier(a, f) == f.num = 0 \/ f.num > a.last

InOrder(a, f) == f.num = 0 \/ f.num - a.last = 1

CanReceive ==
  window = NoWindow /\ Len(atoms) < MaxAtoms /\ Len(framesOut) < MaxFramesOut

(* A frame that does not follow the last one costs the atom its life, with *)
(* everything that is queued on it.                                        *)
RejectFrame(f) ==
  LET list == GetAtom(atoms, KeyOf(f))
      i == FindAtom(list, KeyOf(f))
  IN  /\ CanReceive
      /\ ~InOrder(list[i], f)
      /\ atoms' = RemoveAt(list, i)
      /\ UNCHANGED <<stage, pos, framesOut, waiters, answers, window, confirms, history>>

AcceptFrame(f) ==
  LET list == GetAtom(atoms, KeyOf(f))
      i == FindAtom(list, KeyOf(f))
  IN  /\ CanReceive
      /\ InOrder(list[i], f)
      /\ ~f.lfb
      /\ atoms' = [list EXCEPT ![i] = [Opened(@, f) EXCEPT !.last = f.num]]
      /\ UNCHANGED <<stage, pos, framesOut, waiters, answers, window, confirms, history>>

(* The last frame: the message is put together in a buffer sized from      *)
(* last_frame_num (size is in frames), a confirmation is sent unless it is *)
(* a heartbeat, data_mutex is given up and the callbacks run.              *)
AcceptLastFrame(f) ==
  LET list == GetAtom(atoms, KeyOf(f))
      i == FindAtom(list, KeyOf(f))
      a == Opened(list[i], f)
      k == <<a.hwa % HwaMod, a.id>>
  IN  /\ CanReceive
      /\ InOrder(list[i], f)
      /\ f.lfb
      /\ atoms' = [list EXCEPT ![i] = a]
      /\ window' = [at |-> i, hwa |-> k[1], id |-> k[2], size |-> a.last + 2, data |-> a.data]
      /\ framesOut' = IF IsHeartbeat(k) THEN framesOut ELSE Append(framesOut, ConfirmFrame(k))
      /\ UNCHANGED <<stage, pos, waiters, answers, confirms, history>>

(* The callbacks are done: the atom is kept and cleaned when nothing is    *)
(* being sent on it, and freed when something is (can_net.c:534).          *)
FinishReceive ==
  /\ window # NoWindow
  /\ LET i == window.at
     IN  atoms' = IF atoms[i].sending = 0
                    THEN [atoms EXCEPT ![i] = [ClearOnRead(@) EXCEPT !.receiving = FALSE]]
                    ELSE RemoveAt(atoms, i)
  /\ window' = NoWindow
  /\ UNCHANGED <<stage, pos, framesOut, waiters, answers, confirms, history>>

-----------------------------------------------------------------------------
Init ==
  /\ atoms = <<>>
  /\ stage = [m \in Msgs |-> "idle"]
  /\ pos = [m \in Msgs |-> 0]
  /\ framesOut = <<>>
  /\ waiters = <<>>
  /\ answers = [m \in Msgs |-> <<>>]
  /\ window = NoWindow
  /\ confirms = <<>>
  /\ submitted = <<>>
  /\ wire = <<>>
  /\ received = {}

DriverSent ==
  \/ DriverSentConfirm
  \/ \E m \in Msgs : DriverSentFrame(m) \/ DriverSentLast(m)

Receive ==
  \E f \in PeerFrames : RejectFrame(f) \/ AcceptFrame(f) \/ AcceptLastFrame(f)

Next ==
  \/ \E m \in Msgs : StartSending(m) \/ ProcessFirst(m)
  \/ DriverSent
  \/ DriverFailed
  \/ LoseConfirm \/ \E m \in Msgs : ReceiveConfirm(m)
  \/ CheckConfirmWaiters
  \/ Receive
  \/ FinishReceive

(* The calling thread finishes its call; the driver's loop offers a frame  *)
(* for sending in every turn, whatever it receives in between; the checker *)
(* never stops ticking; a confirmation arrives or is lost.  Applications   *)
(* need not send and peers need not speak.                                 *)
Fairness ==
  /\ WF_vars(\E m \in Msgs : ProcessFirst(m))
  /\ SF_vars(DriverSent)
  /\ WF_vars(FinishReceive)
  /\ SF_vars(CheckConfirmWaiters)
  /\ SF_vars(LoseConfirm \/ \E m \in Msgs : ReceiveConfirm(m))

Spec == Init /\ [][Next]_vars

FairSpec == Spec /\ Fairness

-----------------------------------------------------------------------------
(* Properties                                                              *)

Piece == [num : Nat, src : STRING]
Atom == [hwa : Nat, id : Ids, last : Int, data : Seq(Piece),
         receiving : BOOLEAN, sending : 0 .. SendingMod - 1, queue : Seq(Msgs)]
Stages == {"idle", "starting", "queued", "driver", "done"}
OutFrame == [kind : {"data"}, msg : Msgs, num : Nat, lfb : BOOLEAN]
              \cup [kind : {"confirm"}, hwa : Nat, id : Ids]
Waiter == [msg : Msgs, tics : Nat]
Window == [at : Nat \ {0}, hwa : Nat, id : Ids, size : Int, data : Seq(Piece)]

(* Type invariant of the state kept by can_net.c, can_net_core.c and       *)
(* can_net_middle.c.                                                       *)
TypeOK ==
  /\ atoms \in Seq(Atom)
  /\ stage \in [Msgs -> Stages]
  /\ pos \in [Msgs -> Nat]
  /\ framesOut \in Seq(OutFrame)
  /\ waiters \in Seq(Waiter)
  /\ answers \in [Msgs -> Seq(RCs)]
  /\ window = NoWindow \/ (window \in Window /\ window.at <= Len(atoms))
  /\ confirms \in Seq(Msgs)
  /\ submitted \in Seq(Msgs)
  /\ received \subseteq Msgs

(* can_net.h promises one call of the send callback per message: it is     *)
(* never called twice, by whichever of the three threads (call_scb frees   *)
(* the message, so a second call would free it twice).                     *)
AnsweredOnce == \A m \in Msgs : Len(answers[m]) <= 1

MyKey(m) == KeyOf(Msg[m])
Failed(m) == Contains(answers[m], RC_DRIVER_ERR)

(* On a driver error can_net.c:370 removes the first waiter of the key,    *)
(* which may be another message's, and call_scb frees the message; the     *)
(* waiter that is left answers it again.  That stays within the key: a     *)
(* message is answered twice only when the driver has failed a frame of it *)
(* or of another one to the same address, id and port.                     *)
AnsweredOnceButFailed ==
  \A m \in Msgs : (\A x \in Msgs : MyKey(x) = MyKey(m) => ~Failed(x)) => Len(answers[m]) <= 1

(* A context that still has work to do owns its message: no thread has     *)
(* answered, and so freed, a message that msg_send_handler will read again.*)
ContextOwnsMessage ==
  \A m \in Msgs : stage[m] \in {"starting", "queued", "driver"} => answers[m] = <<>>

(* Messages of one atom go on the bus one after the other, in the order in *)
(* which they were given to can_net_start_sending_msg, and the frames of a *)
(* message follow each other from 0 to the last one.                       *)
WireInOrder ==
  LET Before(m, n) == \E i, j \in DOMAIN submitted :
                        i < j /\ submitted[i] = m /\ submitted[j] = n
      Key(i) == KeyOf(Msg[wire[i].msg])
      Follows(e, f) == IF e.lfb THEN f.num = 0 /\ Before(e.msg, f.msg)
                                ELSE f.msg = e.msg /\ f.num = e.num + 1
  IN  \A i, j \in DOMAIN wire :
        i < j /\ Key(i) = Key(j) /\ (\A h \in i + 1 .. j - 1 : Key(h) # Key(i))
          => Follows(wire[i], wire[j])

(* The messages of key k whose frames are being cut and sent.              *)
InProgress(k) == {m \in Msgs : KeyOf(Msg[m]) = k /\ stage[m] \in {"starting", "driver"}}

(* A message that waits for its turn is on the queue of its own atom, where*)
(* the report of the message before it will find it.  A peer that sends on *)
(* the same address, id and port has the atom freed under it (can_net.c:534*)
(* and 524), so this is a property of nodes whose peers do not.            *)
QueuedKept ==
  \A m \in Msgs : stage[m] = "queued" =>
    \E i \in DOMAIN atoms :
      KeyOf(atoms[i]) = KeyOf(Msg[m]) /\ Contains(atoms[i].queue, m)

(* The count of an atom is its queue and at most one message before it,    *)
(* and that one is counted as long as it is being sent; so the report of   *)
(* the last message finds an empty queue exactly when the count is zero    *)
(* (can_net.c:339 relies on it).                                           *)
CountMatchesQueue ==
  \A i \in DOMAIN atoms :
    LET a == atoms[i]
    IN  /\ a.sending \in {Len(a.queue), Len(a.queue) + 1}
        /\ a.queue # <<>> \/ InProgress(KeyOf(a)) # {} => a.sending = Len(a.queue) + 1

(* A confirmation frame names a key and no message, so it may answer the   *)
(* wrong one; but it answers only one: of the messages of a key no more are*)
(* reported as sent than the peer has received.                            *)
NormsAreBacked ==
  \A k \in Keys : k[2] # HeartbeatId =>
    LET OfKey == {m \in Msgs : KeyOf(Msg[m]) = k}
    IN  Cardinality({m \in OfKey : Contains(answers[m], RC_NORM)})
          <= Cardinality(OfKey \cap received)

(* What an atom buffers is an unbroken run of frames 0 .. last_frame_num   *)
(* (one more while the callbacks run), whatever arrives on the bus.        *)
BufferedInOrder ==
  \A i \in DOMAIN atoms :
    LET a == atoms[i]
    IN  /\ Len(a.data) = a.last + (IF i = window.at THEN 2 ELSE 1)
        /\ \A j \in DOMAIN a.data : a.data[j].num = j - 1

(* accept_frame allocates a message from last_frame_num and fills it from  *)
(* the buffered frames: the two agree, nothing is written past the end and *)
(* nothing is left unwritten.  Sizes are counted in frames: a sender fills *)
(* every frame but the last.                                               *)
AssembledFits ==
  window # NoWindow => Len(window.data) = window.size

(* Every message given to can_net_start_sending_msg is answered: confirmed,*)
(* timed out or refused.                                                   *)
EveryMessageAnswered ==
  \A m \in Msgs : stage[m] # "idle" ~> answers[m] # <<>>

(* The promise of can_net.h (MsgService), with a key's messages pending    *)
(* from StartSending until their last frame is reported.                   *)
Promise == INSTANCE MsgService WITH
  Key <- [m \in Msgs |-> KeyOf(Msg[m])],
  pending <- [k \in Keys |->
                SetToSeq(InProgress(k))
                  \o (IF FindAtom(atoms, k) = 0 THEN <<>> ELSE atoms[FindAtom(atoms, k)].queue)],
  given <- ToSet(submitted),
  answer <- answers

(* Sending as the threads of the node do it is sending as it was promised. *)
KeepsPromise == Promise!Spec

(* A message reaches the applications under the address and the id with    *)
(* which its frames were sent.                                             *)
DeliveredAsSent ==
  window # NoWindow =>
    \A i \in DOMAIN window.data : \E f \in PeerFrames :
      f.src = window.data[i].src /\ KeyOf(f) = KeyOf(window)

=============================================================================
