-------------------------- MODULE CanDrvLin_proofs --------------------------
(***************************************************************************)
(* Theorems about CanDrvLin for any frames: no frame is lost or overtaken  *)
(* whatever fails, and the driver implements CanService.                   *)
(***************************************************************************)
EXTENDS CanDrvLin, SequenceTheorems, WellFoundedInduction, TLAPS

-----------------------------------------------------------------------------
(* list_remove of the first frame of a list is its tail.                   *)

LEMMA LeastExists ==
  ASSUME NEW S, S \subseteq Nat, S # {}
  PROVE  \E x \in S : \A y \in S : x <= y
<1>1. \E x \in S : \A y \in S : <<y, x>> \notin OpToRel(<, Nat)
  BY NatLessThanWellFounded, WFMin
<1>2. ASSUME NEW x \in Nat, NEW y \in Nat, <<y, x>> \notin OpToRel(<, Nat)
      PROVE  x <= y
  BY <1>2 DEF OpToRel
<1> QED
  BY <1>1, <1>2

LEMMA UnlinkHead ==
  ASSUME NEW q \in Seq(Frames), q # <<>>
  PROVE  Unlinked(q, Head(q)) = Tail(q)
<1> DEFINE f == Head(q)
           I == {i \in 1 .. Len(q) : q[i] = f}
<1>1. Len(q) \in Nat /\ Len(q) >= 1 /\ q[1] = f
  BY HeadTailProperties, EmptySeq
<1>2. I \subseteq Nat /\ 1 \in I
  BY <1>1
<1>3. Min(I) \in I /\ \A y \in I : Min(I) <= y
  BY <1>2, LeastExists DEF Min
<1>4. Min(I) = 1
  BY <1>1, <1>2, <1>3
<1>5. SelectInSeq(q, LAMBDA g : g = f) = 1
  BY <1>2, <1>4 DEF SelectInSeq
<1>6. RemoveAt(q, 1) = SubSeq(q, 1, 0) \o SubSeq(q, 2, Len(q))
  BY DEF RemoveAt
<1>7. SubSeq(q, 1, 0) = <<>> /\ SubSeq(q, 2, Len(q)) = Tail(q)
  BY SubSeqEmpty, TailIsSubSeq, <1>1
<1>8. RemoveAt(q, 1) = Tail(q)
  BY <1>6, <1>7, HeadTailProperties, ConcatEmptySeq
<1> HIDE DEF f
<1> QED
  BY <1>5, <1>8 DEF Unlinked, f

-----------------------------------------------------------------------------
(* The inductive invariant                                                 *)

(* The frame in hand is the first of the list until it is unlinked.        *)
InHand == pc \in {"offer", "unlink"} => frames_out # <<>> /\ Head(frames_out) = frame_descr

(* Freed memory stays on the list only after a report, and stops it.       *)
FreedAtRest == freedHead => pc = "head" /\ frames_out # <<>>

LEMMA TypeKept ==
  ASSUME TypeOK, InHand, FreedAtRest, [Next]_vars
  PROVE  TypeOK' /\ InHand' /\ FreedAtRest'
<1> USE DEF TypeOK, InHand, FreedAtRest
<1>1. ASSUME NEW f \in Frames, CanSend(f) PROVE TypeOK' /\ InHand' /\ FreedAtRest'
  <2>1. CASE ~freedHead /\ frames_out' = Append(frames_out, f) /\ listed' = Append(listed, f)
    <3>1. frames_out' \in Seq(Frames) /\ listed' \in Seq(Frames)
      BY <2>1
    <3>2. frames_out # <<>> => frames_out' # <<>> /\ Head(frames_out') = Head(frames_out)
      BY <2>1, HeadTailAppend, AppendProperties
    <3> QED
      BY <1>1, <2>1, <3>1, <3>2 DEF CanSend
  <2>2. CASE UNCHANGED <<frames_out, listed>>
    BY <1>1, <2>2 DEF CanSend
  <2> QED
    BY <1>1, <2>1, <2>2 DEF CanSend, Add
<1>2. CASE TakeHead
  <2>1. Head(frames_out) \in Frames
    BY <1>2 DEF TakeHead
  <2> QED
    BY <1>2, <2>1 DEF TakeHead
<1>3. CASE OfferTaken
  <2>1. Append(bus, frame_descr) \in Seq(Frames)
    OBVIOUS
  <2> QED
    BY <1>3, <2>1 DEF OfferTaken, RCs
<1>4. CASE Unlink
  <2>1. frames_out' = Tail(frames_out) /\ frames_out # <<>>
    BY <1>4, UnlinkHead DEF Unlink
  <2>2. frames_out' \in Seq(Frames)
    BY <2>1
  <2> QED
    BY <1>4, <2>2 DEF Unlink, AfterUnlink
<1>5. CASE OfferFails
  <2>1. \A fault \in Faults : Code(fault) \in RCs
    BY DEF Code, RCs
  <2>2. inTime' \subseteq Frames
    BY <1>5 DEF OfferFails
  <2>3. rc_s' \in RCs /\ pc' = "report"
    BY <1>5, <2>1 DEF OfferFails
  <2>4. UNCHANGED <<frames_out, given, frame_descr, freedHead, undefined, listed, bus, reports>> /\ pc = "offer"
    BY <1>5 DEF OfferFails
  <2> QED
    BY <2>2, <2>3, <2>4
<1>6. CASE Report
  <2>1. Append(reports, [frame |-> frame_descr, rc |-> rc_s]) \in Seq([frame : Frames, rc : RCs])
    OBVIOUS
  <2>2. freedHead' \in BOOLEAN
    BY <1>6, Zenon DEF Report
  <2>3. freedHead' => frames_out # <<>>
    BY <1>6, Zenon DEF Report
  <2>4. /\ frames_out' = frames_out /\ given' = given /\ pc' = "head" /\ frame_descr' = frame_descr
        /\ rc_s' = rc_s /\ undefined' = undefined /\ listed' = listed /\ bus' = bus
        /\ inTime' = inTime
        /\ reports' = Append(reports, [frame |-> frame_descr, rc |-> rc_s])
    BY <1>6 DEF Report
  <2>5. reports' \in Seq([frame : Frames, rc : RCs])
    BY <2>1, <2>4
  <2>6. InHand' /\ FreedAtRest'
    BY <2>3, <2>4
  <2>7. TypeOK'
    BY <2>2, <2>4, <2>5
  <2> QED
    BY <2>6, <2>7
<1>7. CASE UseFreed
  BY <1>7 DEF UseFreed
<1>8. CASE UNCHANGED vars
  BY <1>8 DEF vars
<1> QED
  BY <1>1, <1>2, <1>3, <1>4, <1>5, <1>6, <1>7, <1>8 DEF Next, Driver

LEMMA TypesAndHands == Spec => [](TypeOK /\ InHand /\ FreedAtRest)
<1>1. Init => TypeOK /\ InHand /\ FreedAtRest
  <2>1. Init => InHand /\ FreedAtRest
    BY DEF Init, InHand, FreedAtRest
  <2>2. \A S : <<>> \in Seq(S)
    BY EmptySeq
  <2>3. Init => TypeOK
    BY <2>2 DEF Init, TypeOK, RCs
  <2> QED
    BY <2>1, <2>3
<1>2. TypeOK /\ InHand /\ FreedAtRest /\ [Next]_vars => TypeOK' /\ InHand' /\ FreedAtRest'
  BY TypeKept
<1> QED
  BY <1>1, <1>2, PTL DEF Spec

(* The driver's list, locals and reports keep their types.                 *)
THEOREM TypeCorrect == Spec => []TypeOK
BY TypesAndHands, PTL

-----------------------------------------------------------------------------
(* Conservation                                                            *)

LEMMA MoveHead ==
  ASSUME NEW s \in Seq(Frames), NEW q \in Seq(Frames), q # <<>>
  PROVE  Append(s, Head(q)) \o Tail(q) = s \o q
<1>1. Head(q) \in Frames /\ Tail(q) \in Seq(Frames) /\ <<Head(q)>> \in Seq(Frames)
  BY HeadTailProperties
<1>2. q = <<Head(q)>> \o Tail(q)
  BY HeadTailProperties
<1>3. Append(s, Head(q)) = s \o <<Head(q)>>
  BY <1>1, AppendIsConcat
<1>4. (s \o <<Head(q)>>) \o Tail(q) = s \o (<<Head(q)>> \o Tail(q))
  BY <1>1, ConcatAssociative
<1> QED
  BY <1>2, <1>3, <1>4

LEMMA AddAtEnd ==
  ASSUME NEW s \in Seq(Frames), NEW q \in Seq(Frames), NEW f \in Frames
  PROVE  s \o Append(q, f) = Append(s \o q, f)
<1>1. Append(q, f) = q \o <<f>> /\ s \o q \in Seq(Frames) /\ <<f>> \in Seq(Frames)
  BY AppendIsConcat, ConcatProperties
<1>2. Append(s \o q, f) = (s \o q) \o <<f>>
  BY <1>1, AppendIsConcat
<1> QED
  BY <1>1, <1>2, ConcatAssociative

LEMMA TailOfAppend ==
  ASSUME NEW q \in Seq(Frames), NEW f \in Frames, q # <<>>
  PROVE  Tail(Append(q, f)) = Append(Tail(q), f)
BY HeadTailAppend

(* Whatever the socket refuses and whoever adds frames between the two     *)
(* critical sections of a turn, no frame is lost, sent twice or overtaken. *)
THEOREM Conservation == Spec => []FramesConserved
<1> DEFINE Types == TypeOK /\ InHand /\ FreedAtRest
<1>1. Init => FramesConserved
  <2> SUFFICES ASSUME Init PROVE <<>> = <<>> \o <<>>
    BY DEF Init, FramesConserved
  <2> QED
    BY ConcatProperties
<1>2. Types /\ FramesConserved /\ [Next]_vars => FramesConserved'
  <2> SUFFICES ASSUME TypeOK, InHand, FramesConserved, [Next]_vars PROVE FramesConserved'
    OBVIOUS
  <2>0. bus \in Seq(Frames) /\ frames_out \in Seq(Frames) /\ frame_descr \in Frames
    BY DEF TypeOK
  <2>1. ASSUME NEW f \in Frames, CanSend(f) PROVE FramesConserved'
    <3>1. bus' = bus /\ pc' = pc
      BY <2>1 DEF CanSend
    <3>2. CASE frames_out' = Append(frames_out, f) /\ listed' = Append(listed, f)
      <4>1. CASE pc = "unlink"
        <5>1. frames_out # <<>> /\ Tail(frames_out) \in Seq(Frames)
          BY <2>0, <4>1 DEF InHand
        <5>2. Tail(frames_out') = Append(Tail(frames_out), f)
          BY <2>0, <3>2, <5>1, TailOfAppend
        <5>3. bus \o Append(Tail(frames_out), f) = Append(bus \o Tail(frames_out), f)
          BY <2>0, <5>1, AddAtEnd
        <5> QED
          BY <3>1, <3>2, <4>1, <5>2, <5>3 DEF FramesConserved
      <4>2. CASE pc # "unlink"
        BY <2>0, <3>1, <3>2, <4>2, AddAtEnd DEF FramesConserved
      <4> QED
        BY <4>1, <4>2
    <3>3. CASE UNCHANGED <<frames_out, listed>>
      BY <3>1, <3>3 DEF FramesConserved
    <3> QED
      BY <2>1, <3>2, <3>3 DEF CanSend, Add
  <2>2. CASE TakeHead \/ OfferFails \/ Report \/ UseFreed \/ UNCHANGED vars
    BY <2>2 DEF TakeHead, OfferFails, Report, UseFreed, vars, FramesConserved
  <2>3. CASE OfferTaken
    <3>1. frames_out # <<>> /\ Head(frames_out) = frame_descr /\ pc = "offer"
      BY <2>3 DEF InHand, OfferTaken
    <3>2. Append(bus, frame_descr) \o Tail(frames_out) = bus \o frames_out
      BY <2>0, <3>1, MoveHead
    <3> QED
      BY <2>3, <3>1, <3>2 DEF OfferTaken, FramesConserved
  <2>4. CASE Unlink
    <3>1. frames_out' = Tail(frames_out)
      BY <2>0, <2>4, UnlinkHead DEF Unlink, InHand
    <3> QED
      BY <2>4, <3>1 DEF Unlink, AfterUnlink, FramesConserved
  <2> QED
    BY <2>1, <2>2, <2>3, <2>4 DEF Next, Driver
<1> HIDE DEF Types
<1>3. Spec => []Types
  BY TypesAndHands DEF Types
<1> QED
  BY <1>1, <1>2, <1>3, PTL DEF Spec

-----------------------------------------------------------------------------
(* The driver implements CanService                                        *)

(* A frame is on the list once, and a frame in hand was given.             *)
ListedOnce ==
  /\ \A i \in 1 .. Len(frames_out) : frames_out[i] \in given
  /\ \A i, j \in 1 .. Len(frames_out) : frames_out[i] = frames_out[j] => i = j
  /\ pc # "head" => frame_descr \in given

OnList == frames_out # <<>> /\ Head(frames_out) = frame_descr

Sent(f) == Contains(bus, f)

(* Of the frames on the list only one that is about to be unlinked has been*)
(* sent.                                                                   *)
ListedUnsent ==
  /\ \A f \in Frames : Sent(f) => f \in given
  /\ \A i \in 1 .. Len(frames_out) : Sent(frames_out[i]) => i = 1 /\ pc = "unlink"

(* What rc_s says of the frame in hand: that of a frame that was sent is   *)
(* RC_NORM; that of another one is RC_NORM only if the socket has not taken*)
(* it in time.                                                             *)
CodeInHand ==
  /\ pc = "unlink" => Sent(frame_descr) /\ rc_s = RC_NORM
  /\ pc = "report" /\ ~OnList => Sent(frame_descr) /\ rc_s = RC_NORM
  /\ pc = "report" /\ OnList /\ rc_s = RC_NORM => frame_descr \in inTime

LastReported == reports[Len(reports)].frame

(* A frame that was reported and not sent is the freed head of the list.   *)
FailedStays ==
  /\ reports # <<>> /\ ~Sent(LastReported) => freedHead
  /\ freedHead => reports # <<>> /\ LastReported = Head(frames_out)

LEMMA ListedOnceKept ==
  ASSUME TypeOK, InHand, FreedAtRest, ListedOnce, [Next]_vars
  PROVE  ListedOnce'
<1>0. frames_out \in Seq(Frames) /\ Len(frames_out) \in Nat
  BY LenProperties DEF TypeOK
<1>1. ASSUME NEW f \in Frames, CanSend(f) PROVE ListedOnce'
  <2>1. f \notin given /\ given' = given \cup {f} /\ pc' = pc /\ frame_descr' = frame_descr
    BY <1>1 DEF CanSend
  <2>2. CASE frames_out' = Append(frames_out, f)
    <3>1. /\ Len(frames_out') = Len(frames_out) + 1
          /\ frames_out'[Len(frames_out) + 1] = f
          /\ \A i \in 1 .. Len(frames_out) : frames_out'[i] = frames_out[i]
      BY <1>0, <2>2, AppendProperties
    <3>2. \A i \in 1 .. Len(frames_out') :
            i = Len(frames_out) + 1 \/ i \in 1 .. Len(frames_out)
      BY <1>0, <3>1
    <3> QED
      BY <1>0, <2>1, <3>1, <3>2 DEF ListedOnce
  <2>3. CASE frames_out' = frames_out
    BY <2>1, <2>3 DEF ListedOnce
  <2> QED
    BY <1>1, <2>2, <2>3 DEF CanSend, Add
<1>2. CASE TakeHead
  <2>1. Head(frames_out) \in given
    BY <1>0, <1>2 DEF TakeHead, ListedOnce
  <2> QED
    BY <1>2, <2>1 DEF TakeHead, ListedOnce
<1>3. CASE OfferTaken \/ OfferFails \/ Report \/ UseFreed \/ UNCHANGED vars
  BY <1>3 DEF OfferTaken, OfferFails, Report, UseFreed, vars, ListedOnce
<1>4. CASE Unlink
  <2>1. frames_out # <<>> /\ frames_out' = Tail(frames_out) /\ given' = given /\ frame_descr' = frame_descr
    BY <1>0, <1>4, UnlinkHead DEF Unlink, InHand
  <2>2. /\ Len(frames_out') = Len(frames_out) - 1
        /\ \A i \in 1 .. Len(frames_out') : frames_out'[i] = frames_out[i + 1]
    BY <1>0, <2>1, HeadTailProperties
  <2>3. frame_descr \in given
    BY <1>4 DEF Unlink, ListedOnce
  <2> QED
    BY <1>0, <2>1, <2>2, <2>3 DEF ListedOnce
<1> QED
  BY <1>1, <1>2, <1>3, <1>4 DEF Next, Driver

(* What follows the first frame of a list is another frame.                *)
LEMMA NextIsOther ==
  ASSUME TypeOK, ListedOnce, frames_out # <<>>, Tail(frames_out) # <<>>
  PROVE  Head(Tail(frames_out)) # Head(frames_out)
<1>1. frames_out \in Seq(Frames) /\ Len(frames_out) \in Nat
  BY LenProperties DEF TypeOK
<1>2. /\ Len(Tail(frames_out)) = Len(frames_out) - 1
      /\ \A i \in 1 .. Len(Tail(frames_out)) : Tail(frames_out)[i] = frames_out[i + 1]
      /\ Tail(frames_out) \in Seq(Frames)
  BY <1>1, HeadTailProperties
<1>3. Len(Tail(frames_out)) >= 1
  BY <1>2, EmptySeq, LenProperties
<1>4. Head(Tail(frames_out)) = frames_out[2] /\ Head(frames_out) = frames_out[1]
  BY <1>1, <1>2, <1>3
<1> QED
  BY <1>1, <1>2, <1>3, <1>4 DEF ListedOnce

LEMMA UnlinkLeaves ==
  ASSUME TypeOK, InHand, ListedOnce, Unlink
  PROVE  frames_out' = Tail(frames_out) /\ ~OnList'
<1>1. frames_out \in Seq(Frames) /\ frames_out # <<>> /\ Head(frames_out) = frame_descr
  BY DEF TypeOK, InHand, Unlink
<1>2. frames_out' = Tail(frames_out) /\ frame_descr' = frame_descr
  BY <1>1, UnlinkHead DEF Unlink
<1> QED
  BY <1>1, <1>2, NextIsOther DEF OnList

(* can_send leaves the first frame of the list alone, and a frame that is  *)
(* being reported is not sent again.                                       *)
LEMMA SendKeepsOnList ==
  ASSUME TypeOK, ListedOnce, pc # "head", NEW f \in Frames, CanSend(f)
  PROVE  OnList' <=> OnList
<1>1. frames_out \in Seq(Frames) /\ f # frame_descr /\ frame_descr' = frame_descr
  BY DEF TypeOK, ListedOnce, CanSend
<1>2. CASE frames_out' = Append(frames_out, f)
  <2>1. frames_out' # <<>> /\ Head(frames_out') = IF frames_out = <<>> THEN f ELSE Head(frames_out)
    BY <1>1, <1>2, HeadTailAppend, AppendProperties
  <2> QED
    BY <1>1, <2>1 DEF OnList
<1>3. CASE frames_out' = frames_out
  BY <1>1, <1>3 DEF OnList
<1> QED
  BY <1>2, <1>3 DEF CanSend, Add

LEMMA SentOneMore ==
  ASSUME NEW q \in Seq(Frames), NEW f, NEW g \in Frames
  PROVE  Contains(Append(q, g), f) <=> Contains(q, f) \/ f = g
<1>1. /\ Len(q) \in Nat /\ Len(Append(q, g)) = Len(q) + 1
      /\ Append(q, g)[Len(q) + 1] = g
      /\ \A i \in 1 .. Len(q) : Append(q, g)[i] = q[i]
  BY AppendProperties, LenProperties
<1>2. \A i \in 1 .. Len(q) + 1 : i = Len(q) + 1 \/ i \in 1 .. Len(q)
  BY <1>1
<1>3. \A i \in 1 .. Len(q) : i \in 1 .. Len(q) + 1
  BY <1>1
<1>4. Len(q) + 1 \in 1 .. Len(q) + 1
  BY <1>1
<1> QED
  BY <1>1, <1>2, <1>3, <1>4, Zenon DEF Contains

LEMMA ListedUnsentKept ==
  ASSUME TypeOK, InHand, FreedAtRest, ListedOnce, ListedUnsent, [Next]_vars
  PROVE  ListedUnsent'
<1>0. frames_out \in Seq(Frames) /\ Len(frames_out) \in Nat /\ bus \in Seq(Frames) /\ frame_descr \in Frames
  BY LenProperties DEF TypeOK
<1>1. ASSUME NEW f \in Frames, CanSend(f) PROVE ListedUnsent'
  <2>1. f \notin given /\ given' = given \cup {f} /\ UNCHANGED <<pc, bus>>
    BY <1>1 DEF CanSend
  <2>2. ~Sent(f)
    BY <2>1 DEF ListedUnsent
  <2>3. CASE frames_out' = Append(frames_out, f)
    <3>1. /\ Len(frames_out') = Len(frames_out) + 1
          /\ frames_out'[Len(frames_out) + 1] = f
          /\ \A i \in 1 .. Len(frames_out) : frames_out'[i] = frames_out[i]
      BY <1>0, <2>3, AppendProperties
    <3>2. \A i \in 1 .. Len(frames_out') :
            i = Len(frames_out) + 1 \/ i \in 1 .. Len(frames_out)
      BY <1>0, <3>1
    <3> QED
      BY <2>1, <2>2, <3>1, <3>2 DEF ListedUnsent, Sent
  <2>4. CASE frames_out' = frames_out
    BY <2>1, <2>4 DEF ListedUnsent, Sent
  <2> QED
    BY <1>1, <2>3, <2>4 DEF CanSend, Add
<1>2. CASE OfferTaken
  <2>1. /\ pc = "offer" /\ pc' = "unlink" /\ bus' = Append(bus, frame_descr)
        /\ UNCHANGED <<frames_out, given, frame_descr>>
    BY <1>2 DEF OfferTaken
  <2>2. \A f \in Frames : Sent(f)' <=> Sent(f) \/ f = frame_descr
    BY <1>0, <2>1, SentOneMore DEF Sent
  <2>3. frame_descr \in given /\ frames_out[1] = frame_descr /\ Len(frames_out) >= 1
    BY <1>0, <2>1 DEF ListedOnce, InHand
  <2>4. \A i \in 1 .. Len(frames_out) : frames_out[i] \in Frames /\ (frames_out[i] = frame_descr => i = 1)
    BY <1>0, <2>3 DEF ListedOnce
  <2> QED
    BY <2>1, <2>2, <2>3, <2>4 DEF ListedUnsent
<1>3. CASE Unlink
  <2>1. pc = "unlink" /\ frames_out # <<>> /\ frames_out' = Tail(frames_out) /\ UNCHANGED <<given, bus>>
    BY <1>0, <1>3, UnlinkHead DEF Unlink, InHand
  <2>2. /\ Len(frames_out') = Len(frames_out) - 1
        /\ \A i \in 1 .. Len(frames_out') : frames_out'[i] = frames_out[i + 1]
    BY <1>0, <2>1, HeadTailProperties
  <2>3. \A i \in 1 .. Len(frames_out') : ~Sent(frames_out[i + 1])
    BY <1>0, <2>2 DEF ListedUnsent
  <2> QED
    BY <2>1, <2>2, <2>3 DEF ListedUnsent, Sent
<1>4. CASE TakeHead \/ OfferFails \/ Report \/ UseFreed \/ UNCHANGED vars
  <2>1. UNCHANGED <<frames_out, given, bus>> /\ (pc = "unlink" <=> pc' = "unlink")
    BY <1>4 DEF TakeHead, OfferFails, Report, UseFreed, vars
  <2> QED
    BY <2>1 DEF ListedUnsent, Sent
<1> QED
  BY <1>1, <1>2, <1>3, <1>4 DEF Next, Driver

LEMMA CodeInHandKept ==
  ASSUME TypeOK, InHand, FreedAtRest, ListedOnce, CodeInHand, [Next]_vars
  PROVE  CodeInHand'
<1>0. bus \in Seq(Frames) /\ frame_descr \in Frames
  BY DEF TypeOK
<1>1. ASSUME NEW f \in Frames, CanSend(f) PROVE CodeInHand'
  <2>1. UNCHANGED <<pc, rc_s, frame_descr, bus, inTime>>
    BY <1>1 DEF CanSend
  <2>2. pc # "head" => (OnList' <=> OnList)
    BY <1>1, SendKeepsOnList
  <2> QED
    BY <2>1, <2>2 DEF CodeInHand, Sent
<1>2. CASE TakeHead \/ Report
  BY <1>2 DEF TakeHead, Report, CodeInHand
<1>3. CASE OfferTaken
  <2>1. pc' = "unlink" /\ rc_s' = RC_NORM /\ bus' = Append(bus, frame_descr) /\ frame_descr' = frame_descr
    BY <1>3 DEF OfferTaken
  <2>2. Sent(frame_descr)'
    BY <1>0, <2>1, SentOneMore DEF Sent
  <2> QED
    BY <2>1, <2>2 DEF CodeInHand
<1>4. CASE Unlink
  BY <1>4, UnlinkLeaves DEF Unlink, AfterUnlink, CodeInHand, Sent
<1>5. CASE OfferFails
  <2>1. PICK fault \in Faults :
          /\ rc_s' = Code(fault)
          /\ inTime' = IF fault = "in_time" THEN inTime \cup {frame_descr} ELSE inTime
    BY <1>5 DEF OfferFails
  <2>2. pc = "offer" /\ pc' = "report" /\ UNCHANGED <<frame_descr, frames_out>>
    BY <1>5 DEF OfferFails
  <2>3. OnList'
    BY <2>2 DEF OnList, InHand
  <2>4. fault # "in_time" => Code(fault) # RC_NORM
    BY FaultsAssumption DEF Code, RC_NORM, RC_TIMEOUT, RC_TIMER_ERR, RC_WRONG_DATA
  <2> QED
    BY <2>1, <2>2, <2>3, <2>4 DEF CodeInHand
<1>6. CASE UseFreed \/ UNCHANGED vars
  BY <1>6 DEF UseFreed, vars, CodeInHand, OnList, Sent
<1> QED
  BY <1>1, <1>2, <1>3, <1>4, <1>5, <1>6 DEF Next, Driver

(* While the driver has a frame in hand no report has failed.              *)
LEMMA NoneFailed ==
  ASSUME FreedAtRest, FailedStays, ~freedHead
  PROVE  reports = <<>> \/ Sent(LastReported)
BY DEF FailedStays

LEMMA FailedStaysKept ==
  ASSUME TypeOK, InHand, FreedAtRest, ListedOnce, CodeInHand, FailedStays, [Next]_vars
  PROVE  FailedStays'
<1>0. bus \in Seq(Frames) /\ frame_descr \in Frames /\ frames_out \in Seq(Frames)
  BY DEF TypeOK
<1>1. ASSUME NEW f \in Frames, CanSend(f) PROVE FailedStays'
  <2>1. UNCHANGED <<freedHead, reports, bus>> /\ (freedHead => frames_out' = frames_out)
    BY <1>1 DEF CanSend
  <2> QED
    BY <2>1 DEF FailedStays, Sent, LastReported
<1>2. CASE OfferTaken
  <2>1. pc = "offer" /\ bus' = Append(bus, frame_descr) /\ UNCHANGED <<freedHead, reports>>
    BY <1>2 DEF OfferTaken
  <2>2. ~freedHead
    BY <2>1 DEF FreedAtRest
  <2>3. Sent(LastReported) => Sent(LastReported)'
    BY <1>0, <2>1, SentOneMore DEF Sent, LastReported
  <2> QED
    BY <2>1, <2>2, <2>3 DEF FailedStays
<1>3. CASE Unlink \/ TakeHead \/ OfferFails \/ UseFreed \/ UNCHANGED vars
  <2>1. UNCHANGED <<freedHead, reports, bus>>
    BY <1>3 DEF Unlink, TakeHead, OfferFails, UseFreed, vars
  <2>2. freedHead => frames_out' = frames_out
    BY <1>3 DEF Unlink, TakeHead, OfferFails, UseFreed, vars, FreedAtRest
  <2> QED
    BY <2>1, <2>2 DEF FailedStays, Sent, LastReported
<1>4. CASE Report
  <2>1. pc = "report" /\ UNCHANGED <<frames_out, bus>>
    BY <1>4 DEF Report
  <2>2. freedHead' <=> OnList
    BY <1>4 DEF Report, OnList
  <2>3. /\ reports' = Append(reports, [frame |-> frame_descr, rc |-> rc_s])
        /\ reports \in Seq([frame : Frames, rc : RCs])
    BY <1>4 DEF Report, TypeOK
  <2>4. reports' # <<>> /\ reports'[Len(reports')] = [frame |-> frame_descr, rc |-> rc_s]
    BY <2>3, AppendProperties
  <2>5. LastReported' = frame_descr
    BY <2>4 DEF LastReported
  <2>6. ~OnList => Sent(frame_descr)
    BY <2>1 DEF CodeInHand
  <2>7. OnList => Head(frames_out) = frame_descr
    BY DEF OnList
  <2> QED
    BY <2>1, <2>2, <2>4, <2>5, <2>6, <2>7 DEF FailedStays, Sent
<1> QED
  BY <1>1, <1>2, <1>3, <1>4 DEF Next, Driver

(* Every step of the driver is a step of CanService, or none.              *)
LEMMA StepImplements ==
  ASSUME TypeOK, InHand, FreedAtRest, ListedOnce, ListedUnsent, CodeInHand, FailedStays, [Next]_vars
  PROVE  [Contract!Next]_(Contract!vars)
<1>e. \A f : Contract!Sent(f) <=> Sent(f)
  BY DEF Contract!Sent, Contract!Contains, Sent, Contains
<1>0. /\ frames_out \in Seq(Frames) /\ frame_descr \in Frames /\ rc_s \in RCs
      /\ <<frame_descr>> \in Seq(Frames)
  BY DEF TypeOK
<1>a. Unreported = IF pc = "report" /\ ~OnList THEN <<frame_descr>> \o frames_out
                   ELSE IF freedHead THEN Tail(frames_out) ELSE frames_out
  BY DEF Unreported, OnList
<1>b. Unreported' = IF pc' = "report" /\ ~OnList' THEN <<frame_descr'>> \o frames_out'
                    ELSE IF freedHead' THEN Tail(frames_out') ELSE frames_out'
  BY DEF Unreported, OnList
<1>c. ~freedHead => ~Contract!Failed
  BY <1>e, NoneFailed DEF Contract!Failed, LastReported
<1>1. ASSUME NEW f \in Frames, ~undefined, CanSend(f) PROVE [Contract!Next]_(Contract!vars)
  <2>1. UNCHANGED <<pc, frame_descr, freedHead, undefined, bus, inTime, reports>>
    BY <1>1 DEF CanSend
  <2>2. pc = "report" => (OnList' <=> OnList)
    BY <1>1, SendKeepsOnList
  <2>3. CASE ~freedHead /\ frames_out' = Append(frames_out, f)
    <3>1. CASE pc = "report" /\ ~OnList
      <4>1. <<frame_descr>> \o Append(frames_out, f) = Append(<<frame_descr>> \o frames_out, f)
        BY <1>0, AddAtEnd
      <4> QED
        BY <1>1, <1>a, <1>b, <2>1, <2>2, <2>3, <3>1, <4>1 DEF Contract!Next, Contract!Put
    <3>2. CASE ~(pc = "report" /\ ~OnList)
      BY <1>1, <1>a, <1>b, <2>1, <2>2, <2>3, <3>2 DEF Contract!Next, Contract!Put
    <3> QED
      BY <3>1, <3>2
  <2>4. CASE frames_out' = frames_out
    BY <1>a, <1>b, <2>1, <2>2, <2>4 DEF Contract!vars
  <2> QED
    BY <1>1, <2>3, <2>4 DEF CanSend, Add
<1>2. CASE TakeHead
  <2>1. /\ pc # "report" /\ pc' # "report"
        /\ UNCHANGED <<frames_out, freedHead, undefined, bus, inTime, reports>>
    BY <1>2 DEF TakeHead
  <2> QED
    BY <1>a, <1>b, <2>1 DEF Contract!vars
<1>d. pc = "offer" => /\ ~freedHead /\ Unreported = frames_out /\ frames_out # <<>>
                      /\ Head(frames_out) = frame_descr /\ ~Sent(frame_descr)
  <2> SUFFICES ASSUME pc = "offer"
               PROVE  /\ ~freedHead /\ Unreported = frames_out /\ frames_out # <<>>
                      /\ Head(frames_out) = frame_descr /\ ~Sent(frame_descr)
    OBVIOUS
  <2>1. ~freedHead /\ frames_out # <<>> /\ Head(frames_out) = frame_descr
    BY DEF FreedAtRest, InHand
  <2>2. 1 \in 1 .. Len(frames_out) /\ frames_out[1] = frame_descr
    BY <1>0, <2>1
  <2> QED
    BY <1>a, <2>1, <2>2 DEF ListedUnsent
<1>8. CASE OfferTaken /\ ~undefined
  <2>1. /\ pc = "offer" /\ pc' = "unlink" /\ bus' = Append(bus, frame_descr)
        /\ UNCHANGED <<frames_out, freedHead, undefined, inTime, reports>>
    BY <1>8 DEF OfferTaken
  <2>2. Unreported' = Unreported
    BY <1>a, <1>b, <2>1
  <2> QED
    BY <1>8, <1>c, <1>d, <1>e, <2>1, <2>2 DEF Contract!Next, Contract!Send
<1>3. CASE Unlink
  <2>1. /\ pc = "unlink" /\ pc' = "report"
        /\ UNCHANGED <<frame_descr, freedHead, undefined, bus, inTime, reports>>
    BY <1>3 DEF Unlink, AfterUnlink
  <2>2. ~freedHead /\ frames_out # <<>> /\ Head(frames_out) = frame_descr
    BY <2>1 DEF InHand, FreedAtRest
  <2>3. frames_out' = Tail(frames_out) /\ ~OnList'
    BY <1>3, UnlinkLeaves
  <2>4. <<frame_descr>> \o Tail(frames_out) = frames_out
    BY <1>0, <2>2, HeadTailProperties
  <2> QED
    BY <1>a, <1>b, <2>1, <2>2, <2>3, <2>4 DEF Contract!vars
<1>4. CASE OfferFails /\ ~undefined
  <2>1. /\ pc = "offer" /\ pc' = "report"
        /\ UNCHANGED <<frames_out, frame_descr, freedHead, undefined, bus, reports>>
    BY <1>4 DEF OfferFails
  <2>2. OnList'
    BY <2>1 DEF InHand, OnList
  <2>3. Unreported' = Unreported
    BY <1>a, <1>b, <2>1, <2>2
  <2>4. inTime' = inTime \/ inTime' = inTime \cup {frame_descr}
    BY <1>4 DEF OfferFails
  <2>5. CASE inTime' = inTime
    BY <2>1, <2>3, <2>5 DEF Contract!vars
  <2>6. CASE inTime' = inTime \cup {frame_descr}
    BY <1>4, <1>c, <1>d, <1>e, <2>1, <2>3, <2>6 DEF Contract!Next, Contract!NotTaken
  <2> QED
    BY <2>4, <2>5, <2>6
<1>5. CASE Report /\ ~undefined
  <2>1. /\ pc = "report" /\ pc' = "head" /\ ~freedHead
        /\ UNCHANGED <<frames_out, frame_descr, undefined, bus, inTime>>
        /\ reports' = Append(reports, [frame |-> frame_descr, rc |-> rc_s])
    BY <1>5 DEF Report, FreedAtRest
  <2>2. freedHead' <=> OnList
    BY <1>5 DEF Report, OnList
  <2>3. CASE OnList
    <3>1. Unreported = frames_out /\ Unreported' = Tail(frames_out)
      BY <1>a, <1>b, <2>1, <2>2, <2>3
    <3>2. frames_out # <<>> /\ Head(frames_out) = frame_descr
      BY <2>3 DEF OnList
    <3>3. 1 \in 1 .. Len(frames_out) /\ frames_out[1] = frame_descr
      BY <1>0, <3>2
    <3>4. ~Sent(frame_descr) /\ (rc_s = RC_NORM => frame_descr \in inTime)
      BY <2>1, <2>3, <3>3 DEF ListedUnsent, CodeInHand
    <3>5. Contract!Report(rc_s)
      BY <1>c, <1>e, <2>1, <3>1, <3>2, <3>4 DEF Contract!Report
    <3> QED
      BY <1>0, <1>5, <3>5 DEF Contract!Next
  <2>4. CASE ~OnList
    <3>1. Unreported = <<frame_descr>> \o frames_out /\ Unreported' = frames_out
      BY <1>a, <1>b, <2>1, <2>2, <2>4
    <3>2. /\ <<frame_descr>> \o frames_out # <<>>
          /\ Head(<<frame_descr>> \o frames_out) = frame_descr
          /\ Tail(<<frame_descr>> \o frames_out) = frames_out
      BY <1>0
    <3>3. Sent(frame_descr) /\ rc_s = RC_NORM
      BY <2>1, <2>4 DEF CodeInHand
    <3>4. Contract!Report(rc_s)
      BY <1>c, <1>e, <2>1, <3>1, <3>2, <3>3 DEF Contract!Report
    <3> QED
      BY <1>0, <1>5, <3>4 DEF Contract!Next
  <2> QED
    BY <2>3, <2>4
<1>6. CASE UseFreed /\ ~undefined
  <2>1. /\ freedHead /\ undefined' = TRUE
        /\ UNCHANGED <<pc, frames_out, frame_descr, freedHead, bus, inTime, reports>>
    BY <1>6 DEF UseFreed
  <2>2. Unreported' = Unreported
    BY <2>1 DEF Unreported
  <2>3. reports # <<>> /\ LastReported = Head(frames_out) /\ pc = "head" /\ frames_out # <<>>
    BY <2>1 DEF FailedStays, FreedAtRest
  <2>4. 1 \in 1 .. Len(frames_out) /\ frames_out[1] = LastReported
    BY <1>0, <2>3
  <2>5. ~Sent(LastReported)
    BY <2>3, <2>4 DEF ListedUnsent
  <2>6. Contract!Failed
    BY <1>e, <2>3, <2>5 DEF Contract!Failed, LastReported
  <2> QED
    BY <1>6, <2>1, <2>2, <2>6 DEF Contract!Next, Contract!GiveUp
<1>7. CASE UNCHANGED vars
  BY <1>7 DEF vars, Contract!vars, Unreported
<1> QED
  BY <1>1, <1>2, <1>3, <1>4, <1>5, <1>6, <1>7, <1>8 DEF Next, Driver

(* Whatever the socket does with the frames, the driver keeps the contract *)
(* of can_drv.h that CanNet relies on: all frames are taken and sent in    *)
(* order, each is reported once, as sent if it was, and the driver goes    *)
(* astray only after a frame that was not sent has been reported.  Only    *)
(* one that the socket has not taken in time may be reported as sent.      *)
THEOREM DriverImplementsService == Spec => KeepsContract
<1> DEFINE IInv == /\ TypeOK /\ InHand /\ FreedAtRest
                   /\ ListedOnce /\ ListedUnsent /\ CodeInHand /\ FailedStays
<1>1. Init => IInv /\ Contract!Init
  <2> SUFFICES ASSUME Init PROVE IInv /\ Contract!Init
    OBVIOUS
  <2>1. ListedOnce /\ ListedUnsent /\ CodeInHand /\ FailedStays
    BY DEF Init, ListedOnce, ListedUnsent, CodeInHand, FailedStays, Sent, Contains
  <2>2. \A S : <<>> \in Seq(S)
    BY EmptySeq
  <2>3. TypeOK /\ InHand /\ FreedAtRest
    BY <2>2 DEF Init, TypeOK, InHand, FreedAtRest, RCs
  <2>4. Contract!Init
    BY DEF Init, Contract!Init, Unreported
  <2> QED
    BY <2>1, <2>3, <2>4
<1>2. IInv /\ [Next]_vars => IInv'
  BY TypeKept, ListedOnceKept, ListedUnsentKept, CodeInHandKept, FailedStaysKept
<1>3. IInv /\ [Next]_vars => [Contract!Next]_(Contract!vars)
  BY StepImplements
<1> HIDE DEF IInv
<1> QED
  BY <1>1, <1>2, <1>3, PTL DEF Spec, KeepsContract, Contract!Spec
=============================================================================
